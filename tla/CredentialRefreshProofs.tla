------------------------ MODULE CredentialRefreshProofs ------------------------
(***************************************************************************)
(* Proofs about CredentialRefresh, for any number of rows, accounts,       *)
(* sessions and tokens: invariant S-1 of collector/auth.go, and what it is *)
(* there for.                                                              *)
(*                                                                         *)
(* The lock alone does not keep a row renewable.  The invariant adds that  *)
(* a session past its second check holds what the row holds, and that the  *)
(* token of a row belongs to the account of its key, so that only the      *)
(* owner of the lock can void it.                                          *)
(***************************************************************************)
EXTENDS CredentialRefresh, TLAPS

\* What a session has at each place.
Held(s) ==
  /\ pc[s] # "idle" => at[s] \in Rows /\ cred[s] \in Credential
  /\ pc[s] \in Owning => lock[RefreshLockKey[at[s]]] = s
  /\ pc[s] \in Locking => cred[s] = row[at[s]]
  /\ pc[s] = "call" => NeedsRefresh(cred[s]) /\ cred[s].refresh # None
  /\ pc[s] \in Answered =>
       /\ fresh[s] \in Credential /\ fresh[s].refresh \in live
       /\ Issuer[fresh[s].refresh] = RefreshLockKey[at[s]]

SessionsHold == \A s \in Sessions : Held(s)

\* A lock that is taken belongs to a session that is at work under it.
LockOwned ==
  \A k \in Keys : lock[k] # None
    => pc[lock[k]] \in Owning /\ RefreshLockKey[at[lock[k]]] = k

\* The refresh token of a row is one of the account of its key.
TokensOwn == \A r \in Rows : row[r].refresh # None => Issuer[row[r].refresh] = RefreshLockKey[r]

IInv == TypeOK /\ SessionsHold /\ LockOwned /\ TokensOwn /\ RowsRenewable

-----------------------------------------------------------------------------
LEMMA Constants ==
  /\ RefreshLockKey \in [Rows -> Keys] /\ Issuer \in [Tokens -> Keys] /\ MaxHandSaves \in Nat
  /\ None \notin Tokens /\ None \notin Rows /\ None \notin Sessions
BY RefreshAssumption

LEMMA CredentialFields ==
  ASSUME NEW c \in Credential
  PROVE  c.access \in Tokens /\ c.refresh \in Tokens \cup {None} /\ c.dated \in BOOLEAN
BY DEF Credential

\* The lock keeps the sessions of one key apart.
LEMMA OwnersApart ==
  ASSUME SessionsHold, NEW s \in Sessions, NEW z \in Sessions,
         pc[s] \in Owning, pc[z] \in Owning, RefreshLockKey[at[s]] = RefreshLockKey[at[z]]
  PROVE  s = z
BY DEF SessionsHold, Held

-----------------------------------------------------------------------------
(***************************************************************************)
(* Steps of one session that change no row and no token                    *)
(***************************************************************************)
Moved(s) ==
  \A z \in Sessions \ {s} :
    pc'[z] = pc[z] /\ at'[z] = at[z] /\ cred'[z] = cred[z] /\ fresh'[z] = fresh[z]

\* The locks of others stay, and s has one only while it is at work under it.
LocksMove(s) ==
  \A k \in Keys :
    /\ lock[k] \in Sessions \ {s} => lock'[k] = lock[k]
    /\ lock'[k] = lock[k] \/ lock'[k] \in {s, None}
    /\ lock'[k] = s => pc'[s] \in Owning /\ RefreshLockKey[at'[s]] = k

\* The rotation that is in flight stays so, or the rows it voided are noted.
FlightKept(s) ==
  \/ pc[s] \notin Answered
  \/ pc'[s] \in Answered /\ at'[s] = at[s] /\ cred'[s] = cred[s]
  \/ \A r \in Rows : row[r].refresh \notin live => r \in stale'

LEMMA QuietKeeps ==
  ASSUME IInv, TypeOK', NEW s \in Sessions, Moved(s), LocksMove(s), FlightKept(s),
         UNCHANGED <<row, issued, live, due>>, stale \subseteq stale', Held(s)'
  PROVE  IInv'
<1>1. SessionsHold'
  <2> SUFFICES ASSUME NEW z \in Sessions \ {s}
               PROVE  Held(z)'
    BY DEF SessionsHold
  <2>1. /\ Held(z) /\ pc'[z] = pc[z] /\ at'[z] = at[z] /\ cred'[z] = cred[z] /\ fresh'[z] = fresh[z]
    BY DEF IInv, SessionsHold, Moved
  <2>2. pc[z] \in Owning => lock'[RefreshLockKey[at[z]]] = z
    <3>1. pc[z] \in Owning => at[z] \in Rows /\ RefreshLockKey[at[z]] \in Keys
      BY <2>1, Constants DEF Held, Owning
    <3>2. QED
      BY <2>1, <3>1 DEF Held, LocksMove
  <2>3. QED
    BY <2>1, <2>2 DEF Held, NeedsRefresh
<1>2. LockOwned'
  <2> SUFFICES ASSUME NEW k \in Keys, lock'[k] # None
               PROVE  pc'[lock'[k]] \in Owning /\ RefreshLockKey[at'[lock'[k]]] = k
    BY DEF LockOwned
  <2>1. CASE lock'[k] = s
    BY <2>1 DEF LocksMove
  <2>2. CASE lock'[k] # s
    <3>1. lock'[k] = lock[k] /\ lock[k] \in Sessions \ {s}
      BY <2>2 DEF LocksMove, IInv, TypeOK
    <3>2. QED
      BY <3>1 DEF IInv, LockOwned, Moved
  <2>3. QED
    BY <2>1, <2>2
<1>3. TokensOwn'
  BY DEF IInv, TokensOwn
<1>4. RowsRenewable'
  <2> SUFFICES ASSUME NEW r \in Rows, row[r].refresh \notin live \cup {None}, r \notin stale'
               PROVE  InFlight(r)'
    BY DEF RowsRenewable
  <2>1. PICK z \in Sessions : /\ pc[z] \in Answered /\ RefreshLockKey[at[z]] = RefreshLockKey[r]
                              /\ cred[z].refresh = row[r].refresh
    BY DEF IInv, RowsRenewable, InFlight
  <2>2. pc'[z] \in Answered /\ at'[z] = at[z] /\ cred'[z] = cred[z]
    BY <2>1 DEF FlightKept, Moved
  <2>3. QED
    BY <2>1, <2>2 DEF InFlight
<1>5. QED
  BY <1>1, <1>2, <1>3, <1>4 DEF IInv

\* The shape of a step that moves session s alone.
LEMMA SessionMoves ==
  ASSUME TypeOK, NEW s \in Sessions,
         NEW p \in Steps, NEW a \in Rows \cup {None},
         NEW c \in Credential \cup {None}, NEW f \in Credential \cup {None},
         pc' = [pc EXCEPT ![s] = p],
         at' = [at EXCEPT ![s] = a], cred' = [cred EXCEPT ![s] = c], fresh' = [fresh EXCEPT ![s] = f]
  PROVE  /\ pc' \in [Sessions -> Steps] /\ at' \in [Sessions -> Rows \cup {None}]
         /\ cred' \in [Sessions -> Credential \cup {None}]
         /\ fresh' \in [Sessions -> Credential \cup {None}]
         /\ pc'[s] = p /\ at'[s] = a /\ cred'[s] = c /\ fresh'[s] = f
         /\ Moved(s)
BY DEF TypeOK, Moved

LEMMA UnlockMoves ==
  ASSUME TypeOK, NEW s \in Sessions, Unlock(s)
  PROVE  lock' \in [Keys -> Sessions \cup {None}] /\ LocksMove(s)
BY Constants DEF TypeOK, Unlock, LocksMove

LEMMA LockStays ==
  ASSUME IInv, NEW s \in Sessions, lock' = lock,
         pc[s] \in Owning => pc'[s] \in Owning /\ at'[s] = at[s]
  PROVE  LocksMove(s)
<1> SUFFICES ASSUME NEW k \in Keys, lock[k] = s
             PROVE  pc'[s] \in Owning /\ RefreshLockKey[at'[s]] = k
  BY DEF LocksMove
<1>1. pc[s] \in Owning /\ RefreshLockKey[at[s]] = k
  BY Constants DEF IInv, LockOwned
<1>2. QED
  BY <1>1

\* A session that ends holds nothing.
LEMMA EndMoves ==
  ASSUME TypeOK, NEW s \in Sessions, End(s)
  PROVE  /\ pc' \in [Sessions -> Steps] /\ at' \in [Sessions -> Rows \cup {None}]
         /\ cred' \in [Sessions -> Credential \cup {None}]
         /\ fresh' \in [Sessions -> Credential \cup {None}]
         /\ pc'[s] = "idle" /\ Moved(s) /\ Held(s)'
<1>1. "idle" \in Steps /\ None \in Rows \cup {None} /\ None \in Credential \cup {None}
  BY DEF Steps
<1>2. /\ pc' \in [Sessions -> Steps] /\ at' \in [Sessions -> Rows \cup {None}]
      /\ cred' \in [Sessions -> Credential \cup {None}]
      /\ fresh' \in [Sessions -> Credential \cup {None}]
      /\ pc'[s] = "idle" /\ Moved(s)
  BY <1>1, SessionMoves DEF End
<1>3. Held(s)'
  BY <1>2 DEF Held, Owning, Locking, Answered
<1>4. QED
  BY <1>2, <1>3

-----------------------------------------------------------------------------
LEMMA EndingSteps ==
  ASSUME IInv, NEW s \in Sessions, CheckFresh(s) \/ NothingToDo(s) \/ Abort(s)
  PROVE  IInv'
<1>1. /\ TypeOK /\ End(s) /\ UNCHANGED <<row, issued, live, due, saves>>
  BY DEF IInv, CheckFresh, NothingToDo, Abort
<1>2. LocksMove(s) /\ lock' \in [Keys -> Sessions \cup {None}]
  <2>1. CASE CheckFresh(s)
    BY <1>1, <2>1, LockStays DEF CheckFresh, Owning, TypeOK
  <2>2. CASE NothingToDo(s) \/ Abort(s)
    BY <1>1, <2>2, UnlockMoves DEF NothingToDo, Abort
  <2>3. QED
    BY <2>1, <2>2
<1>3. stale \subseteq stale' /\ stale' \in SUBSET Rows /\ FlightKept(s)
  <2>1. CASE CheckFresh(s) \/ NothingToDo(s)
    BY <1>1, <2>1 DEF CheckFresh, NothingToDo, TypeOK, FlightKept, Answered
  <2>2. CASE Abort(s)
    BY <1>1, <2>2 DEF Abort, TypeOK, FlightKept
  <2>3. QED
    BY <2>1, <2>2
<1>4. TypeOK'
  BY <1>1, <1>2, <1>3, EndMoves DEF TypeOK
<1>5. QED
  BY <1>1, <1>2, <1>3, <1>4, EndMoves, QuietKeeps

LEMMA LoadKeeps ==
  ASSUME IInv, NEW s \in Sessions, NEW r \in Rows, Load(s, r)
  PROVE  IInv'
<1>1. TypeOK /\ row[r] \in Credential /\ "check" \in Steps /\ pc[s] = "idle"
  BY DEF IInv, TypeOK, Steps, Load
<1>2. /\ pc' \in [Sessions -> Steps] /\ at' \in [Sessions -> Rows \cup {None}]
      /\ cred' \in [Sessions -> Credential \cup {None}]
      /\ fresh' \in [Sessions -> Credential \cup {None}]
      /\ pc'[s] = "check" /\ at'[s] = r /\ cred'[s] = row[r] /\ Moved(s)
  BY <1>1 DEF Load, TypeOK, Moved
<1>3. Held(s)'
  BY <1>1, <1>2 DEF Held, Owning, Locking, Answered
<1>4. TypeOK'
  BY <1>1, <1>2 DEF TypeOK, Load
<1>5. LocksMove(s)
  BY <1>1, LockStays DEF Load, Owning
<1>6. FlightKept(s) /\ stale \subseteq stale' /\ UNCHANGED <<row, issued, live, due>>
  BY <1>1 DEF FlightKept, Answered, Load
<1>7. QED
  BY <1>2, <1>3, <1>4, <1>5, <1>6, QuietKeeps

\* Steps that only change the place of the session.
LEMMA PlaceSteps ==
  ASSUME IInv, NEW s \in Sessions, CheckDue(s) \/ Decide(s) \/ SaveRefreshed(s)
  PROVE  IInv'
<1> DEFINE p == IF pc[s] = "check" THEN "lock" ELSE IF pc[s] = "decide" THEN "call" ELSE "commit"
<1>1. /\ TypeOK /\ Held(s) /\ pc' = [pc EXCEPT ![s] = p] /\ p \in Steps
      /\ UNCHANGED <<row, at, cred, fresh, lock, issued, live, due, stale, saves>>
      /\ pc[s] \in {"check", "decide", "answered"}
  BY DEF IInv, SessionsHold, CheckDue, Decide, SaveRefreshed, Steps
<1>2. /\ pc' \in [Sessions -> Steps] /\ pc'[s] = p /\ Moved(s)
  <2> HIDE DEF p
  <2>1. QED
    BY <1>1 DEF TypeOK, Moved
<1>3. TypeOK'
  BY <1>1, <1>2 DEF TypeOK
<1>4. Held(s)'
  <2>1. CASE CheckDue(s)
    BY <1>1, <1>2, <2>1 DEF CheckDue, Held, Owning, Locking, Answered
  <2>2. CASE Decide(s)
    BY <1>1, <1>2, <2>2 DEF Decide, Held, Owning, Locking, Answered, NeedsRefresh
  <2>3. CASE SaveRefreshed(s)
    BY <1>1, <1>2, <2>3 DEF SaveRefreshed, Held, Owning, Locking, Answered
  <2>4. QED
    BY <2>1, <2>2, <2>3
<1>5. LocksMove(s)
  <2>1. pc[s] \in Owning => pc'[s] \in Owning /\ at'[s] = at[s]
    BY <1>1, <1>2 DEF Owning
  <2>2. QED
    BY <1>1, <2>1, LockStays
<1>6. FlightKept(s)
  BY <1>1, <1>2 DEF FlightKept, Answered
<1>7. QED
  BY <1>1, <1>2, <1>3, <1>4, <1>5, <1>6, QuietKeeps

LEMMA TakeLockKeeps ==
  ASSUME IInv, NEW s \in Sessions, TakeLock(s)
  PROVE  IInv'
<1> DEFINE key == RefreshLockKey[at[s]]
<1>1. /\ TypeOK /\ Held(s) /\ pc[s] = "lock" /\ lock[key] = None /\ "reload" \in Steps
      /\ lock' = [lock EXCEPT ![key] = s] /\ pc' = [pc EXCEPT ![s] = "reload"]
      /\ UNCHANGED <<row, at, cred, fresh, issued, live, due, stale, saves>>
  BY DEF IInv, SessionsHold, TakeLock, Steps
<1>2. at[s] \in Rows /\ key \in Keys
  BY <1>1, Constants DEF Held
<1>3. /\ pc' \in [Sessions -> Steps] /\ pc'[s] = "reload" /\ Moved(s)
  BY <1>1 DEF TypeOK, Moved
<1>4. lock \in [Keys -> Sessions \cup {None}]
  BY <1>1 DEF TypeOK
<1>5. lock' \in [Keys -> Sessions \cup {None}] /\ lock'[key] = s
  BY <1>1, <1>2, <1>4
<1>6. TypeOK'
  BY <1>1, <1>3, <1>5 DEF TypeOK
<1>7. Held(s)'
  BY <1>1, <1>3, <1>5 DEF Held, Owning, Locking, Answered
<1>8. \A k \in Keys : lock[k] # s
  BY <1>1, Constants DEF IInv, LockOwned, Owning, TypeOK
<1>9. LocksMove(s)
  BY <1>1, <1>2, <1>3, <1>4, <1>8, Constants DEF LocksMove, Owning
<1>10. FlightKept(s)
  BY <1>1 DEF FlightKept, Answered
<1>11. QED
  BY <1>1, <1>3, <1>6, <1>7, <1>9, <1>10, QuietKeeps

LEMMA ReloadKeeps ==
  ASSUME IInv, NEW s \in Sessions, Reload(s)
  PROVE  IInv'
<1>1. /\ TypeOK /\ Held(s) /\ pc[s] = "reload" /\ "decide" \in Steps
      /\ pc' = [pc EXCEPT ![s] = "decide"] /\ cred' = [cred EXCEPT ![s] = row[at[s]]]
      /\ UNCHANGED <<row, at, fresh, lock, issued, live, due, stale, saves>>
  BY DEF IInv, SessionsHold, Reload, Steps
<1>2. at[s] \in Rows /\ row[at[s]] \in Credential
  BY <1>1 DEF Held, TypeOK
<1>3. /\ pc' \in [Sessions -> Steps] /\ cred' \in [Sessions -> Credential \cup {None}]
      /\ pc'[s] = "decide" /\ cred'[s] = row[at[s]] /\ Moved(s)
  BY <1>1, <1>2 DEF TypeOK, Moved
<1>4. TypeOK'
  BY <1>1, <1>3 DEF TypeOK
<1>5. Held(s)'
  BY <1>1, <1>2, <1>3 DEF Held, Owning, Locking, Answered
<1>6. LocksMove(s)
  <2>1. pc'[s] \in Owning /\ at'[s] = at[s]
    BY <1>1, <1>3 DEF Owning
  <2>2. QED
    BY <1>1, <2>1, LockStays
<1>7. FlightKept(s)
  BY <1>1 DEF FlightKept, Answered
<1>8. QED
  BY <1>1, <1>3, <1>4, <1>5, <1>6, <1>7, QuietKeeps

-----------------------------------------------------------------------------
(***************************************************************************)
(* Steps that change rows or tokens                                        *)
(***************************************************************************)
LEMMA ExpireKeeps ==
  ASSUME IInv, NEW t \in issued \ due, Expire(t)
  PROVE  IInv'
<1>1. /\ UNCHANGED <<row, pc, at, cred, fresh, lock, issued, live, stale, saves>>
      /\ due \subseteq due' /\ due' \in SUBSET issued
  BY DEF IInv, TypeOK, Expire
<1>2. TypeOK' /\ LockOwned' /\ TokensOwn' /\ RowsRenewable'
  BY <1>1 DEF IInv, TypeOK, LockOwned, TokensOwn, RowsRenewable, InFlight
<1>3. SessionsHold'
  BY <1>1 DEF IInv, SessionsHold, Held, NeedsRefresh
<1>4. QED
  BY <1>2, <1>3 DEF IInv

\* The token that a renewal presents belongs to the key it has locked.
LEMMA PresentedOwn ==
  ASSUME IInv, NEW s \in Sessions, pc[s] = "call"
  PROVE  /\ at[s] \in Rows /\ cred[s] \in Credential /\ cred[s] = row[at[s]]
         /\ cred[s].refresh \in Tokens /\ Issuer[cred[s].refresh] = RefreshLockKey[at[s]]
<1>1. Held(s)
  BY DEF IInv, SessionsHold
<1>2. /\ at[s] \in Rows /\ cred[s] \in Credential /\ cred[s] = row[at[s]]
      /\ cred[s].refresh # None
  BY <1>1 DEF Held, Locking, Owning
<1>3. QED
  BY <1>2, CredentialFields DEF IInv, TokensOwn

LEMMA AnswerKeeps ==
  ASSUME IInv, NEW s \in Sessions, NEW n \in Tokens, NEW rotates \in BOOLEAN,
         Answer(s, n, rotates)
  PROVE  IInv'
<1> DEFINE old == cred[s].refresh
           kept == IF rotates THEN n ELSE old
           answer == [access |-> n, dated |-> TRUE, refresh |-> kept]
<1>1. /\ TypeOK /\ Held(s) /\ pc[s] = "call" /\ old \in live /\ n \notin issued
      /\ Issuer[n] = Issuer[old] /\ issued' = issued \cup {n}
      /\ live' = IF rotates THEN (live \ {old}) \cup {n} ELSE live
      /\ fresh' = [fresh EXCEPT ![s] = answer] /\ pc' = [pc EXCEPT ![s] = "answered"]
      /\ UNCHANGED <<row, at, cred, lock, due, stale, saves>>
  BY DEF IInv, SessionsHold, Answer
<1>2. at[s] \in Rows /\ cred[s] \in Credential /\ cred[s] = row[at[s]]
      /\ old \in Tokens /\ Issuer[old] = RefreshLockKey[at[s]]
  BY <1>1, PresentedOwn
<1>3. answer \in Credential /\ answer.refresh \in live' /\ Issuer[answer.refresh] = RefreshLockKey[at[s]]
  <2>1. kept \in Tokens /\ kept \in live' /\ Issuer[kept] = RefreshLockKey[at[s]]
    BY <1>1, <1>2
  <2> HIDE DEF kept
  <2>2. QED
    BY <2>1 DEF Credential
<1> HIDE DEF answer
<1>4. /\ pc' \in [Sessions -> Steps] /\ fresh' \in [Sessions -> Credential \cup {None}]
      /\ pc'[s] = "answered" /\ fresh'[s] = answer /\ Moved(s)
  <2>1. "answered" \in Steps
    BY DEF Steps
  <2>2. QED
    BY <1>1, <1>3, <2>1 DEF TypeOK, Moved
<1>5. TypeOK'
  <2>1. issued' \in SUBSET Tokens /\ live' \in SUBSET issued' /\ due' \in SUBSET issued'
    BY <1>1 DEF TypeOK
  <2>2. QED
    BY <1>1, <1>4, <2>1 DEF TypeOK
<1>6. SessionsHold'
  <2>1. Held(s)'
    BY <1>1, <1>2, <1>3, <1>4 DEF Held, Owning, Locking, Answered
  <2>2. ASSUME NEW z \in Sessions \ {s}
        PROVE  Held(z)'
    <3>1. Held(z) /\ pc'[z] = pc[z] /\ at'[z] = at[z] /\ cred'[z] = cred[z] /\ fresh'[z] = fresh[z]
      BY <1>4 DEF IInv, SessionsHold, Moved
    <3>2. pc[z] \in Answered => fresh[z].refresh \in live'
      <4> SUFFICES ASSUME pc[z] \in Answered, fresh[z].refresh = old
                   PROVE  FALSE
        BY <1>1, <3>1 DEF Held
      <4>1. RefreshLockKey[at[z]] = RefreshLockKey[at[s]]
        BY <1>2, <3>1 DEF Held
      <4>2. pc[z] \in Owning /\ pc[s] \in Owning
        BY <1>1 DEF Owning, Answered
      <4>3. QED
        BY <4>1, <4>2, OwnersApart DEF IInv
    <3>3. QED
      BY <1>1, <3>1, <3>2 DEF Held, NeedsRefresh
  <2>3. QED
    BY <2>1, <2>2 DEF SessionsHold
<1>7. LockOwned'
  <2>1. \A z \in Sessions : pc[z] \in Owning => pc'[z] \in Owning
    BY <1>4 DEF Moved, Owning
  <2>2. QED
    BY <1>1, <2>1 DEF IInv, LockOwned, TypeOK
<1>8. TokensOwn'
  BY <1>1 DEF IInv, TokensOwn
<1>9. RowsRenewable'
  <2> SUFFICES ASSUME NEW r \in Rows, row[r].refresh \notin live' \cup {None}, r \notin stale
               PROVE  InFlight(r)'
    BY <1>1 DEF RowsRenewable
  <2>1. CASE row[r].refresh = old
    <3>1. RefreshLockKey[at[s]] = RefreshLockKey[r]
      BY <1>2, <2>1 DEF IInv, TokensOwn
    <3>2. QED
      BY <1>1, <1>4, <2>1, <3>1 DEF InFlight, Answered
  <2>2. CASE row[r].refresh # old
    <3>1. PICK z \in Sessions : /\ pc[z] \in Answered /\ RefreshLockKey[at[z]] = RefreshLockKey[r]
                                /\ cred[z].refresh = row[r].refresh
      BY <1>1, <2>2 DEF IInv, RowsRenewable, InFlight
    <3>2. pc'[z] \in Answered
      BY <1>4, <3>1 DEF Moved, Answered
    <3>3. QED
      BY <1>1, <3>1, <3>2 DEF InFlight
  <2>3. QED
    BY <2>1, <2>2
<1>10. QED
  BY <1>5, <1>6, <1>7, <1>8, <1>9 DEF IInv

LEMMA CommitKeeps ==
  ASSUME IInv, NEW s \in Sessions, Commit(s)
  PROVE  IInv'
<1>1. /\ TypeOK /\ Held(s) /\ pc[s] = "commit" /\ End(s) /\ Unlock(s)
      /\ row' = [r \in Rows |-> IF r \in Shared(s) THEN fresh[s] ELSE row[r]]
      /\ stale' = stale \ Shared(s) /\ UNCHANGED <<issued, live, due, saves>>
  BY DEF IInv, SessionsHold, Commit
<1>2. /\ fresh[s] \in Credential /\ fresh[s].refresh \in live
      /\ Issuer[fresh[s].refresh] = RefreshLockKey[at[s]]
  BY <1>1 DEF Held, Answered
<1>3. /\ pc'[s] = "idle" /\ Moved(s) /\ Held(s)' /\ LocksMove(s)
  BY <1>1, EndMoves, UnlockMoves
<1>4. \A r \in Rows : RefreshLockKey[r] # RefreshLockKey[at[s]] => row'[r] = row[r]
  BY <1>1 DEF Shared
<1>5. \A r \in Rows : RefreshLockKey[r] = RefreshLockKey[at[s]] => row'[r] = fresh[s]
  BY <1>1 DEF Shared
<1>6. TypeOK'
  <2>1. row' \in [Rows -> Credential]
    BY <1>1, <1>2 DEF TypeOK
  <2>2. stale' \in SUBSET Rows
    BY <1>1 DEF TypeOK
  <2>3. QED
    BY <1>1, <2>1, <2>2, EndMoves, UnlockMoves DEF TypeOK
<1>7. SessionsHold'
  <2> SUFFICES ASSUME NEW z \in Sessions \ {s}
               PROVE  Held(z)'
    BY <1>3 DEF SessionsHold
  <2>1. Held(z) /\ pc'[z] = pc[z] /\ at'[z] = at[z] /\ cred'[z] = cred[z] /\ fresh'[z] = fresh[z]
    BY <1>3 DEF IInv, SessionsHold, Moved
  <2>2. pc[z] \in Owning => /\ at[z] \in Rows /\ lock'[RefreshLockKey[at[z]]] = z
                           /\ RefreshLockKey[at[z]] # RefreshLockKey[at[s]]
    <3> SUFFICES ASSUME pc[z] \in Owning
                 PROVE  /\ at[z] \in Rows /\ lock'[RefreshLockKey[at[z]]] = z
                        /\ RefreshLockKey[at[z]] # RefreshLockKey[at[s]]
      OBVIOUS
    <3>1. at[z] \in Rows /\ RefreshLockKey[at[z]] \in Keys /\ lock[RefreshLockKey[at[z]]] = z
      BY <2>1, Constants DEF Held, Owning
    <3>2. pc[s] \in Owning
      BY <1>1 DEF Owning
    <3>3. QED
      BY <1>3, <3>1, <3>2, OwnersApart DEF LocksMove, IInv
  <2>3. pc[z] \in Locking => row'[at[z]] = row[at[z]]
    BY <1>4, <2>2 DEF Locking
  <2>4. QED
    BY <1>1, <2>1, <2>2, <2>3 DEF Held, NeedsRefresh
<1>8. LockOwned'
  <2> SUFFICES ASSUME NEW k \in Keys, lock'[k] # None
               PROVE  pc'[lock'[k]] \in Owning /\ RefreshLockKey[at'[lock'[k]]] = k
    BY DEF LockOwned
  <2>1. lock'[k] # s
    BY <1>3 DEF LocksMove, Owning
  <2>2. lock'[k] = lock[k] /\ lock[k] \in Sessions \ {s}
    BY <1>1, <1>3, <2>1 DEF LocksMove, TypeOK
  <2>3. QED
    BY <1>3, <2>2 DEF IInv, LockOwned, Moved
<1>9. TokensOwn'
  BY <1>2, <1>4, <1>5 DEF IInv, TokensOwn
<1>10. RowsRenewable'
  <2> SUFFICES ASSUME NEW r \in Rows, row'[r].refresh \notin live \cup {None}, r \notin stale'
               PROVE  InFlight(r)'
    BY <1>1 DEF RowsRenewable
  <2>1. RefreshLockKey[r] # RefreshLockKey[at[s]]
    BY <1>2, <1>5
  <2>2. r \notin stale /\ row'[r] = row[r]
    BY <1>1, <1>4, <2>1 DEF Shared
  <2>3. PICK z \in Sessions : /\ pc[z] \in Answered /\ RefreshLockKey[at[z]] = RefreshLockKey[r]
                              /\ cred[z].refresh = row[r].refresh
    BY <2>2 DEF IInv, RowsRenewable, InFlight
  <2>4. pc'[z] = pc[z] /\ at'[z] = at[z] /\ cred'[z] = cred[z]
    BY <1>3, <2>1, <2>3 DEF Moved
  <2>5. QED
    BY <2>2, <2>3, <2>4 DEF InFlight
<1>11. QED
  BY <1>6, <1>7, <1>8, <1>9, <1>10 DEF IInv

LEMMA HandSaveKeeps ==
  ASSUME IInv, NEW r \in Rows, NEW t \in Tokens, NEW with \in BOOLEAN, NEW dated \in BOOLEAN,
         HandSave(r, t, with, dated)
  PROVE  IInv'
<1> DEFINE next == IF with THEN t ELSE row[r].refresh
           saved == [access |-> t, dated |-> dated, refresh |-> next]
<1>1. /\ TypeOK /\ Issuer[t] = RefreshLockKey[r]
      /\ \A s \in Sessions : ~(pc[s] \in Locking /\ at[s] = r)
      /\ issued' = issued \cup {t} /\ live \subseteq live' /\ live' \subseteq issued'
      /\ row' = [row EXCEPT ![r] = saved]
      /\ stale' = IF ~with THEN stale ELSE IF t \in live' THEN stale \ {r} ELSE stale \cup {r}
      /\ UNCHANGED <<pc, at, cred, fresh, lock, due>>
  BY DEF IInv, TypeOK, HandSave
<1>2. saves' \in 0..MaxHandSaves
  BY <1>1, Constants DEF HandSave, TypeOK
<1>3. saved \in Credential /\ saved.refresh = next
  <2>1. row[r] \in Credential
    BY <1>1 DEF TypeOK
  <2>2. next \in Tokens \cup {None}
    BY <2>1, CredentialFields
  <2> HIDE DEF next
  <2>3. QED
    BY <2>2 DEF Credential
<1> HIDE DEF saved
<1>4. row' \in [Rows -> Credential] /\ row'[r] = saved /\ \A q \in Rows \ {r} : row'[q] = row[q]
  BY <1>1, <1>3 DEF TypeOK
<1>5. TypeOK'
  BY <1>1, <1>2, <1>4 DEF TypeOK
<1>6. SessionsHold'
  <2> SUFFICES ASSUME NEW s \in Sessions
               PROVE  Held(s)'
    BY DEF SessionsHold
  <2>1. Held(s)
    BY DEF IInv, SessionsHold
  <2>2. pc[s] \in Locking => row'[at[s]] = row[at[s]]
    BY <1>1, <1>4, <2>1 DEF Held, Locking, Owning
  <2>3. QED
    BY <1>1, <2>1, <2>2 DEF Held, NeedsRefresh
<1>7. LockOwned'
  BY <1>1 DEF IInv, LockOwned
<1>8. TokensOwn'
  <2> SUFFICES ASSUME NEW q \in Rows, row'[q].refresh # None
               PROVE  Issuer[row'[q].refresh] = RefreshLockKey[q]
    BY DEF TokensOwn
  <2>1. CASE q = r /\ with
    BY <1>1, <1>3, <1>4, <2>1
  <2>2. CASE q = r /\ ~with
    BY <1>3, <1>4, <2>2 DEF IInv, TokensOwn
  <2>3. CASE q # r
    BY <1>4, <2>3 DEF IInv, TokensOwn
  <2>4. QED
    BY <2>1, <2>2, <2>3
<1>9. RowsRenewable'
  <2> SUFFICES ASSUME NEW q \in Rows, row'[q].refresh \notin live' \cup {None}, q \notin stale'
               PROVE  InFlight(q)'
    BY DEF RowsRenewable
  <2>1. ~(q = r /\ with)
    BY <1>1, <1>3, <1>4
  <2>2. row'[q].refresh = row[q].refresh
    BY <1>3, <1>4, <2>1
  <2>3. q \notin stale
    BY <1>1, <2>1
  <2>4. InFlight(q)
    BY <1>1, <2>2, <2>3 DEF IInv, RowsRenewable
  <2>5. QED
    BY <1>1, <2>2, <2>4 DEF InFlight
<1>10. QED
  BY <1>5, <1>6, <1>7, <1>8, <1>9 DEF IInv

-----------------------------------------------------------------------------
(***************************************************************************)
(* The theorems                                                            *)
(***************************************************************************)
LEMMA InitInv == Init => IInv
<1> SUFFICES ASSUME Init
             PROVE  IInv
  OBVIOUS
<1>1. row \in [Rows -> Credential] /\ \A r \in Rows : row[r].refresh = row[r].access
  BY DEF Init
<1>2. \A r \in Rows : row[r].access \in Tokens
  BY <1>1, CredentialFields
<1>3. TypeOK
  BY <1>1, <1>2, Constants DEF Init, TypeOK, Steps
<1>4. SessionsHold /\ LockOwned
  BY DEF Init, SessionsHold, Held, LockOwned, Owning, Locking, Answered
<1>5. TokensOwn /\ RowsRenewable
  BY <1>1 DEF Init, TokensOwn, RowsRenewable
<1>6. QED
  BY <1>3, <1>4, <1>5 DEF IInv

LEMMA StepInv == IInv /\ [Next]_vars => IInv'
<1> SUFFICES ASSUME IInv, [Next]_vars
             PROVE  IInv'
  OBVIOUS
<1>1. ASSUME NEW s \in Sessions, Renewing(s)
      PROVE  IInv'
  BY <1>1, EndingSteps, PlaceSteps, TakeLockKeeps, ReloadKeeps, CommitKeeps, AnswerKeeps DEF Renewing
<1>2. ASSUME NEW s \in Sessions, NEW r \in Rows, Load(s, r)
      PROVE  IInv'
  BY <1>2, LoadKeeps
<1>3. ASSUME NEW t \in issued \ due, Expire(t)
      PROVE  IInv'
  BY <1>3, ExpireKeeps
<1>4. ASSUME NEW r \in Rows, NEW t \in Tokens, NEW with \in BOOLEAN, NEW dated \in BOOLEAN,
             HandSave(r, t, with, dated)
      PROVE  IInv'
  BY <1>4, HandSaveKeeps
<1>5. CASE UNCHANGED vars
  BY <1>5 DEF vars, IInv, TypeOK, SessionsHold, Held, LockOwned, TokensOwn, RowsRenewable, InFlight,
              NeedsRefresh
<1>6. QED
  BY <1>1, <1>2, <1>3, <1>4, <1>5 DEF Next

(* Who owns the lock of an account is the one who may void its token, in every
   reachable state: the invariant that the theorems below are read from. *)
THEOREM Inductive == Spec => []IInv
BY InitInv, StepInv, PTL DEF Spec

(* The variables have the types the code gives them. *)
THEOREM TypeCorrect == Spec => []TypeOK
<1>1. IInv => TypeOK
  BY DEF IInv
<1>2. QED
  BY <1>1, Inductive, PTL

(* auth.go, EnsureFresh (S-1): one session at a time renews the tokens of an
   upstream account, and the lock ends with it. *)
THEOREM OneRenewal == Spec => []OneRenewalPerAccount
<1>1. IInv => OneRenewalPerAccount
  BY OwnersApart DEF IInv, LockOwned, OneRenewalPerAccount
<1>2. QED
  BY <1>1, Inductive, PTL

(* auth.go:150-152: no renewal voids the result of another; a row whose token is
   void lost it before a commit, or to a person. *)
THEOREM StaysRenewable == Spec => []RowsRenewable
<1>1. IInv => RowsRenewable
  BY DEF IInv
<1>2. QED
  BY <1>1, Inductive, PTL

(* The double check: what is presented is what the row holds, it is due, and
   the upstream accepts it unless it was lost before. *)
THEOREM CurrentPresented == Spec => []PresentsCurrent
<1>1. IInv => PresentsCurrent
  <2> SUFFICES ASSUME IInv, NEW s \in Sessions, pc[s] = "call"
               PROVE  /\ cred[s] = row[at[s]] /\ NeedsRefresh(cred[s])
                      /\ cred[s].refresh \in live \/ at[s] \in stale
    BY DEF PresentsCurrent
  <2>1. /\ at[s] \in Rows /\ cred[s] = row[at[s]] /\ NeedsRefresh(cred[s]) /\ cred[s].refresh # None
    BY PresentedOwn DEF IInv, SessionsHold, Held
  <2>2. ~InFlight(at[s])
    <3> SUFFICES ASSUME NEW z \in Sessions, pc[z] \in Answered, RefreshLockKey[at[z]] = RefreshLockKey[at[s]]
                 PROVE  FALSE
      BY DEF InFlight
    <3>1. pc[z] \in Owning /\ pc[s] \in Owning
      BY DEF Owning, Answered
    <3>2. z = s
      BY <3>1, OwnersApart DEF IInv
    <3>3. QED
      BY <3>2 DEF Answered
  <2>3. QED
    BY <2>1, <2>2 DEF IInv, RowsRenewable
<1>2. QED
  BY <1>1, Inductive, PTL
=============================================================================
