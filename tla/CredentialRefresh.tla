--------------------------- MODULE CredentialRefresh ---------------------------
(***************************************************************************)
(* Renewing the tokens of upstream accounts (collector/auth.go,            *)
(* store/credentials.go, collector/sub2api.go).                            *)
(*                                                                         *)
(* One upstream account may be registered as several rows of               *)
(* collector_credentials, which then share a refresh lock key.  A renewal  *)
(* rotates the refresh token: the upstream issues a new one and no longer  *)
(* accepts the old one.  So deciding, renewing and persisting happen under *)
(* the advisory lock of the key (invariant S-1 of collector/auth.go).      *)
(*                                                                         *)
(* A token stands for the pair of an access token and the refresh token    *)
(* issued with it.  Tokens are issued by the upstream and never come back. *)
(***************************************************************************)
EXTENDS Integers, FiniteSets

CONSTANTS
  Rows,        \* accounts registered here, each with a row of credentials
  Keys,        \* refresh lock keys, one per account at the upstream
  RefreshLockKey,   \* of a row; a row whose account cannot be told has its own
  Sessions,    \* syncs and imports, of any process, that may be under way
  Tokens, Issuer,   \* all tokens (a bound), and the account they belong to
  MaxHandSaves,     \* bound: tokens registered by hand in a behaviour
  None

ASSUME RefreshAssumption ==
  /\ RefreshLockKey \in [Rows -> Keys]
  /\ Issuer \in [Tokens -> Keys]
  /\ MaxHandSaves \in Nat
  /\ None \notin Tokens /\ None \notin Rows /\ None \notin Sessions

VARIABLES
  row,     \* collector_credentials: the committed rows
  pc,      \* where each session is
  at,      \* the row a session works on
  cred,    \* the credential it has read, collector.Credential
  fresh,   \* the answer of the upstream to its renewal
  lock,    \* the owner of each key's advisory lock
  issued,  \* upstream: the tokens issued so far
  live,    \* upstream: the refresh tokens it still accepts
  due,     \* the access tokens within RefreshLead of their end, or beyond
  stale,   \* history: rows whose token was voided by a renewal that was lost,
           \* or was void when a person saved it
  saves    \* tokens registered by hand so far

vars == <<row, pc, at, cred, fresh, lock, issued, live, due, stale, saves>>

\* dated: the row or the token itself tells when the token ends.
Credential == [access : Tokens, refresh : Tokens \cup {None}, dated : BOOLEAN]

Steps == {"idle", "check", "lock", "reload", "decide", "call", "answered", "commit"}

\* Sessions that own the lock, and those whose transaction has locked the row.
Owning == {"reload", "decide", "call", "answered", "commit"}
Locking == Owning \ {"reload"}
Answered == {"answered", "commit"}

TypeOK ==
  /\ row \in [Rows -> Credential]
  /\ pc \in [Sessions -> Steps]
  /\ at \in [Sessions -> Rows \cup {None}]
  /\ cred \in [Sessions -> Credential \cup {None}]
  /\ fresh \in [Sessions -> Credential \cup {None}]
  /\ lock \in [Keys -> Sessions \cup {None}]
  /\ issued \in SUBSET Tokens /\ live \in SUBSET issued /\ due \in SUBSET issued
  /\ stale \in SUBSET Rows
  /\ saves \in 0..MaxHandSaves

\* Every row was registered with a token of its account that the upstream
\* accepts; the rows of one account may share it or come from different logins.
Init ==
  /\ row \in [Rows -> {c \in Credential : c.refresh = c.access}]
  /\ \A r \in Rows : Issuer[row[r].access] = RefreshLockKey[r]
  /\ issued = {row[r].access : r \in Rows} /\ live = issued
  /\ pc = [s \in Sessions |-> "idle"]
  /\ at = [s \in Sessions |-> None]
  /\ cred = [s \in Sessions |-> None]
  /\ fresh = [s \in Sessions |-> None]
  /\ lock = [k \in Keys |-> None]
  /\ due = {} /\ stale = {} /\ saves = 0

\* Time passes: an access token comes within RefreshLead of its end.
Expire(t) ==
  /\ due' = due \cup {t}
  /\ UNCHANGED <<row, pc, at, cred, fresh, lock, issued, live, stale, saves>>

NeedsRefresh(c) == c.dated /\ c.access \in due

\* ListByChannel: the credential is read without a lock.
Load(s, r) ==
  /\ pc[s] = "idle"
  /\ pc' = [pc EXCEPT ![s] = "check"]
  /\ at' = [at EXCEPT ![s] = r]
  /\ cred' = [cred EXCEPT ![s] = row[r]]
  /\ UNCHANGED <<row, fresh, lock, issued, live, due, stale, saves>>

\* What a session leaves behind when it ends.
End(s) ==
  /\ pc' = [pc EXCEPT ![s] = "idle"]
  /\ at' = [at EXCEPT ![s] = None]
  /\ cred' = [cred EXCEPT ![s] = None]
  /\ fresh' = [fresh EXCEPT ![s] = None]

\* pg_advisory_xact_lock: the lock goes with the transaction.
Unlock(s) == lock' = [k \in Keys |-> IF lock[k] = s THEN None ELSE lock[k]]

\* EnsureFresh, before the lock.
CheckFresh(s) ==
  /\ pc[s] = "check" /\ ~NeedsRefresh(cred[s])
  /\ End(s)
  /\ UNCHANGED <<row, lock, issued, live, due, stale, saves>>

CheckDue(s) ==
  /\ pc[s] = "check" /\ NeedsRefresh(cred[s])
  /\ pc' = [pc EXCEPT ![s] = "lock"]
  /\ UNCHANGED <<row, at, cred, fresh, lock, issued, live, due, stale, saves>>

\* Mutant: nobody waits for anybody.
TakeAnyLock(s) ==
  /\ pc[s] = "lock"
  /\ lock' = [lock EXCEPT ![RefreshLockKey[at[s]]] = s]
  /\ pc' = [pc EXCEPT ![s] = "reload"]
  /\ UNCHANGED <<row, at, cred, fresh, issued, live, due, stale, saves>>

\* WithRefreshLock: the lock of the key the row has.
TakeLock(s) ==
  /\ pc[s] = "lock" /\ lock[RefreshLockKey[at[s]]] = None
  /\ lock' = [lock EXCEPT ![RefreshLockKey[at[s]]] = s]
  /\ pc' = [pc EXCEPT ![s] = "reload"]
  /\ UNCHANGED <<row, at, cred, fresh, issued, live, due, stale, saves>>

\* Mutant: the credential read before the lock is used.
ReloadNothing(s) ==
  /\ pc[s] = "reload"
  /\ pc' = [pc EXCEPT ![s] = "decide"]
  /\ UNCHANGED <<row, at, cred, fresh, lock, issued, live, due, stale, saves>>

\* loadByAccount FOR UPDATE.
Reload(s) ==
  /\ pc[s] = "reload"
  /\ pc' = [pc EXCEPT ![s] = "decide"]
  /\ cred' = [cred EXCEPT ![s] = row[at[s]]]
  /\ UNCHANGED <<row, at, fresh, lock, issued, live, due, stale, saves>>

\* The second check found the token fresh, or Refresh found no refresh token to
\* present (ErrNeedsRelogin, before any request): the transaction ends.
NothingToDo(s) ==
  /\ pc[s] = "decide"
  /\ ~NeedsRefresh(cred[s]) \/ cred[s].refresh = None
  /\ End(s) /\ Unlock(s)
  /\ UNCHANGED <<row, issued, live, due, stale, saves>>

\* Mutant: a holder of the lock does not look again.
DecideAnyway(s) ==
  /\ pc[s] = "decide" /\ cred[s].refresh # None
  /\ pc' = [pc EXCEPT ![s] = "call"]
  /\ UNCHANGED <<row, at, cred, fresh, lock, issued, live, due, stale, saves>>

Decide(s) ==
  /\ pc[s] = "decide" /\ NeedsRefresh(cred[s]) /\ cred[s].refresh # None
  /\ pc' = [pc EXCEPT ![s] = "call"]
  /\ UNCHANGED <<row, at, cred, fresh, lock, issued, live, due, stale, saves>>

\* The upstream answers POST /api/v1/auth/refresh with a new token; as a rule
\* it rotates the refresh token too, else Refresh keeps the one it had.
Answer(s, n, rotates) ==
  /\ pc[s] = "call" /\ cred[s].refresh \in live
  /\ n \notin issued /\ Issuer[n] = Issuer[cred[s].refresh]
  /\ issued' = issued \cup {n}
  /\ live' = IF rotates THEN (live \ {cred[s].refresh}) \cup {n} ELSE live
  /\ fresh' = [fresh EXCEPT ![s] =
                 [access |-> n, dated |-> TRUE,
                  refresh |-> IF rotates THEN n ELSE cred[s].refresh]]
  /\ pc' = [pc EXCEPT ![s] = "answered"]
  /\ UNCHANGED <<row, at, cred, lock, due, stale, saves>>

\* saveRefreshed locks and writes every row with the key, for the commit.
SaveRefreshed(s) ==
  /\ pc[s] = "answered"
  /\ pc' = [pc EXCEPT ![s] = "commit"]
  /\ UNCHANGED <<row, at, cred, fresh, lock, issued, live, due, stale, saves>>

\* Mutant: only the row the session works on is written.
CommitOwn(s) ==
  /\ pc[s] = "commit"
  /\ row' = [row EXCEPT ![at[s]] = fresh[s]]
  /\ stale' = stale \ {at[s]}
  /\ End(s) /\ Unlock(s)
  /\ UNCHANGED <<issued, live, due, saves>>

Shared(s) == {r \in Rows : RefreshLockKey[r] = RefreshLockKey[at[s]]}

Commit(s) ==
  /\ pc[s] = "commit"
  /\ row' = [r \in Rows |-> IF r \in Shared(s) THEN fresh[s] ELSE row[r]]
  /\ stale' = stale \ Shared(s)
  /\ End(s) /\ Unlock(s)
  /\ UNCHANGED <<issued, live, due, saves>>

\* Mutant: a failed renewal does not end its transaction.
AbortHolding(s) ==
  /\ pc[s] \in {"lock"} \cup Owning
  /\ End(s)
  /\ stale' = IF pc[s] \in Answered
              THEN stale \cup {r \in Rows : row[r].refresh = cred[s].refresh} ELSE stale
  /\ UNCHANGED <<row, lock, issued, live, due, saves>>

\* Anything fails before the commit: the upstream refuses or does not answer, a
\* statement fails, the context is cancelled, the process dies.  The transaction
\* is rolled back; what the upstream rotated is lost with it.
Abort(s) ==
  /\ pc[s] \in {"lock"} \cup Owning
  /\ End(s) /\ Unlock(s)
  /\ stale' = IF pc[s] \in Answered
              THEN stale \cup {r \in Rows : row[r].refresh \notin live} ELSE stale
  /\ UNCHANGED <<row, issued, live, due, saves>>

\* saveCredential: a person registers the token of a login, a new one or one
\* issued before, with its refresh token or without (SaveTx then keeps the old
\* one).  It waits for the transactions that locked the row.
HandSave(r, t, with, dated) ==
  /\ saves < MaxHandSaves /\ saves' = saves + 1
  /\ \A s \in Sessions :
        /\ ~(pc[s] \in Locking /\ at[s] = r)
        /\ ~(pc[s] = "commit" /\ RefreshLockKey[at[s]] = RefreshLockKey[r])
  /\ Issuer[t] = RefreshLockKey[r]
  /\ issued' = issued \cup {t}
  /\ live' = IF t \in issued THEN live ELSE live \cup {t}
  /\ row' = [row EXCEPT ![r] = [access |-> t, dated |-> dated,
                                refresh |-> IF with THEN t ELSE row[r].refresh]]
  /\ stale' = IF ~with THEN stale
              ELSE IF t \in live' THEN stale \ {r} ELSE stale \cup {r}
  /\ UNCHANGED <<pc, at, cred, fresh, lock, due>>

Renewing(s) ==
  \/ CheckFresh(s) \/ CheckDue(s) \/ TakeLock(s) \/ Reload(s) \/ NothingToDo(s)
  \/ Decide(s) \/ SaveRefreshed(s) \/ Commit(s) \/ Abort(s)
  \/ \E n \in Tokens, rotates \in BOOLEAN : Answer(s, n, rotates)

Next ==
  \/ \E s \in Sessions : Renewing(s)
  \/ \E s \in Sessions, r \in Rows : Load(s, r)
  \/ \E t \in issued \ due : Expire(t)
  \/ \E r \in Rows, t \in Tokens, with, dated \in BOOLEAN : HandSave(r, t, with, dated)

Spec == Init /\ [][Next]_vars
-----------------------------------------------------------------------------
\* S-1 (auth.go, EnsureFresh): of the sessions that renew the tokens of one
\* upstream account, one at a time is between the reading of the credential and
\* the commit of the renewed one; it owns the lock, and the lock ends with it.
OneRenewalPerAccount ==
  /\ \A s, z \in Sessions :
       (pc[s] \in Owning /\ pc[z] \in Owning /\ RefreshLockKey[at[s]] = RefreshLockKey[at[z]])
         => s = z
  /\ \A k \in Keys : lock[k] # None
       => pc[lock[k]] \in Owning /\ RefreshLockKey[at[lock[k]]] = k

\* The session that has rotated the token of row r and has yet to commit.
InFlight(r) ==
  \E s \in Sessions : pc[s] \in Answered /\ RefreshLockKey[at[s]] = RefreshLockKey[r]
                        /\ cred[s].refresh = row[r].refresh

\* No two renewals void each other's result: every row's refresh token is one
\* the upstream accepts, or is being replaced by the renewal that voided it,
\* unless that renewal was lost before its commit or a person saved it void.
RowsRenewable ==
  \A r \in Rows : row[r].refresh \in live \cup {None} \/ InFlight(r) \/ r \in stale

\* The double check: what is presented to the upstream is what the row holds,
\* it is due, and the upstream still accepts it unless it was lost before.
PresentsCurrent ==
  \A s \in Sessions : pc[s] = "call" =>
    /\ cred[s] = row[at[s]] /\ NeedsRefresh(cred[s])
    /\ cred[s].refresh \in live \/ at[s] \in stale
=============================================================================
