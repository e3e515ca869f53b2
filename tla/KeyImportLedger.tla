--------------------------- MODULE KeyImportLedger ---------------------------
(***************************************************************************)
(* What the background Key import promises somebody who polls its batches, *)
(* with no goroutine, queue, retry or lock in sight.  A process opens at   *)
(* most one batch at a time; while a batch is open it only gains results,  *)
(* at most one per account; when it closes, the accounts it has no result  *)
(* for are counted as unreached, and from then on it never changes until   *)
(* it is forgotten, by a later batch or by a restart.                      *)
(***************************************************************************)
EXTENDS Integers, FiniteSets

CONSTANTS Instances, JobIds, Accounts, Statuses

VARIABLE ledger    \* [Instances -> [JobIds -> Entry]]

Unseen == [state |-> "unseen", size |-> 0, results |-> {}, unreached |-> 0]
Opened(n) == [state |-> "open", size |-> n, results |-> {}, unreached |-> 0]

LedgerInit == ledger = [i \in Instances |-> [j \in JobIds |-> Unseen]]

\* The first batch n accounts long that j names; the batches in `dropped` go.
OpenBatch(i, j, n, dropped) ==
  /\ \A k \in JobIds : ledger[i][k].state # "open"
  /\ ledger[i][j] = Unseen
  /\ ledger' = [ledger EXCEPT ![i] =
       [k \in JobIds |-> IF k = j THEN Opened(n)
                           ELSE IF k \in dropped THEN Unseen ELSE ledger[i][k]]]

Result(i, j, a, s) ==
  /\ ledger[i][j].state = "open"
  /\ \A r \in ledger[i][j].results : r[1] # a
  /\ Cardinality(ledger[i][j].results) < ledger[i][j].size
  /\ ledger' = [ledger EXCEPT ![i][j].results = @ \cup {<<a, s>>}]

CloseBatch(i, j) ==
  /\ ledger[i][j].state = "open"
  /\ ledger' = [ledger EXCEPT ![i][j].state = "closed",
                              ![i][j].unreached = ledger[i][j].size - Cardinality(ledger[i][j].results)]

ForgetAll(i) == ledger' = [ledger EXCEPT ![i] = [j \in JobIds |-> Unseen]]

LedgerNext ==
  \E i \in Instances :
    \/ ForgetAll(i)
    \/ \E j \in JobIds :
         \/ CloseBatch(i, j)
         \/ \E n \in 1..Cardinality(Accounts), dropped \in SUBSET JobIds : OpenBatch(i, j, n, dropped)
         \/ \E a \in Accounts, s \in Statuses : Result(i, j, a, s)

LedgerSpec == LedgerInit /\ [][LedgerNext]_ledger
=============================================================================
