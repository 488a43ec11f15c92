---------------------------- MODULE KnownTxStore ----------------------------
(***************************************************************************)
(* The rows of wallet storage that the life of an outgoing transaction is  *)
(* recorded in, and the database transactions of the repo package that     *)
(* write them.  Each operator below is one database transaction that       *)
(* begins with its write, and is atomic; everything its caller read before *)
(* it may be stale.  Two transactions read rows first and write them       *)
(* afterwards, ClaimKnownTxsForBroadcast and ApplyProofTimeouts (with its  *)
(* single-row form RequeueKnownTxForRebroadcast): their SELECT and their   *)
(* UPDATE are operators of their own, and what lies between them depends   *)
(* on the engine.  SQLite, the default, refuses to write on a snapshot     *)
(* that another commit has overtaken.  PostgreSQL and MySQL, whose         *)
(* isolation level the code leaves as it is, let the other transaction     *)
(* commit in between and write what was computed from the read.            *)
(*                                                                         *)
(* A Txs element stands for one transactions row of one user together with *)
(* the known_txs row of its txid; the txid is assigned, and the known_txs  *)
(* row inserted, by SpendTransaction.                                      *)
(***************************************************************************)
EXTENDS TxStatus, Naturals

CONSTANTS
  Txs,             \* the outgoing transactions
  MaxAttempts,     \* SynchronizeTxStatuses.MaxAttempts, 0 = no proof timeouts
  MaxRebroadcasts, \* SynchronizeTxStatuses.MaxRebroadcastAttempts, 0 = unlimited
  ReadCommitted    \* the engine lets a commit come between a SELECT and an UPDATE

ASSUME StoreAssumption ==
  MaxAttempts \in Nat /\ MaxRebroadcasts \in Nat /\ ReadCommitted \in BOOLEAN

VARIABLES
  txStatus,      \* transactions.status
  reqStatus,     \* known_txs.status, None while the transaction has no txid
  wasBroadcast,  \* known_txs.was_broadcast
  attempts,      \* known_txs.attempts
  rebroadcasts,  \* known_txs.rebroadcast_attempts
  proof,         \* known_txs.merkle_path / block_hash are set
  inputs         \* outputs.spent_by of the inputs: held by the transaction, or
                 \* given back to the wallet, and by which flow

storeVars ==
  <<txStatus, reqStatus, wasBroadcast, attempts, rebroadcasts, proof, inputs>>

\* The code compares attempts with 0 and with MaxAttempts only, so counting
\* stops at the larger of 1 and MaxAttempts without losing a behaviour.
AttemptCap == IF MaxAttempts = 0 THEN 1 ELSE MaxAttempts

InputStates == {None, "held", "aborted", "unfailed"}

StoreTypeOK ==
  /\ txStatus \in [Txs -> TxStatuses \cup {None}]
  /\ reqStatus \in [Txs -> ReqStatuses \cup {None}]
  /\ wasBroadcast \in [Txs -> BOOLEAN]
  /\ attempts \in [Txs -> 0..AttemptCap]
  /\ rebroadcasts \in [Txs -> 0..MaxRebroadcasts]
  /\ proof \in [Txs -> BOOLEAN]
  /\ inputs \in [Txs -> InputStates]

StoreInit ==
  /\ txStatus = [t \in Txs |-> None]
  /\ reqStatus = [t \in Txs |-> None]
  /\ wasBroadcast = [t \in Txs |-> FALSE]
  /\ attempts = [t \in Txs |-> 0]
  /\ rebroadcasts = [t \in Txs |-> 0]
  /\ proof = [t \in Txs |-> FALSE]
  /\ inputs = [t \in Txs |-> None]

HasTxID(t) == reqStatus[t] # None

-----------------------------------------------------------------------------
(* Single-row writes that the database transactions are put together from. *)

SetTxStatus(t, s) == txStatus' = [txStatus EXCEPT ![t] = s]

SetReqStatus(t, s) ==
  /\ reqStatus' = [reqStatus EXCEPT ![t] = s]
  /\ wasBroadcast' =
       [wasBroadcast EXCEPT ![t] = @ \/ s \in WasBroadcastStatus]

\* updateKnownTxStatus: the skip list is part of the UPDATE's WHERE clause.
ReqUpdateApplies(t, skip) == HasTxID(t) /\ reqStatus[t] \notin skip

-----------------------------------------------------------------------------
(* Transactions repository. *)

\* createTransactionInTx: the row, and its inputs marked spent by it.
CreateTransaction(t) ==
  /\ txStatus[t] = None
  /\ SetTxStatus(t, "unsigned")
  /\ inputs' = [inputs EXCEPT ![t] = "held"]
  /\ UNCHANGED <<reqStatus, wasBroadcast, attempts, rebroadcasts, proof>>

\* SpendTransaction: no condition on the current transactions.status; the
\* known_txs row is upserted unless it is beyond the broadcast stage.
SpendTransaction(t, s, r) ==
  /\ SetTxStatus(t, s)
  /\ reqStatus' = [reqStatus EXCEPT ![t] =
                     IF @ \in BeyondBroadcastStage THEN @ ELSE r]
  /\ UNCHANGED <<wasBroadcast, attempts, rebroadcasts, proof, inputs>>

\* UpdateTransactionStatusByTxID / ByID with expected current statuses.
CompareAndSetTxStatus(t, s, from) ==
  txStatus' = IF txStatus[t] \in from THEN [txStatus EXCEPT ![t] = s] ELSE txStatus

-----------------------------------------------------------------------------
(* KnownTx repository. *)

UpdateKnownTxStatus(t, s, skip) ==
  /\ IF ReqUpdateApplies(t, skip)
     THEN SetReqStatus(t, s)
     ELSE UNCHANGED <<reqStatus, wasBroadcast>>
  /\ UNCHANGED <<txStatus, attempts, rebroadcasts, proof, inputs>>

\* Mutant: the park looks at the status and the attempts only.
ParkableWithoutFlag(t) == reqStatus[t] \in NeverPosted /\ attempts[t] = 0

Parkable(t) ==
  /\ reqStatus[t] \in NeverPosted
  /\ ~wasBroadcast[t]
  /\ attempts[t] = 0

ParkUnbroadcastKnownTx(t) ==
  /\ Parkable(t)
  /\ reqStatus' = [reqStatus EXCEPT ![t] = "invalidTx"]
  /\ UNCHANGED <<txStatus, wasBroadcast, attempts, rebroadcasts, proof, inputs>>

\* The SELECT of ClaimKnownTxsForBroadcast; what it leaves out is not posted.
ClaimSelects(t) == reqStatus[t] \in ClaimableForBroadcast

\* Mutant: the claim does not flag the broadcast.
ClaimWithoutFlag(t) ==
  /\ reqStatus[t] \in ClaimableForBroadcast
  /\ reqStatus' = [reqStatus EXCEPT ![t] = "sending"]
  /\ UNCHANGED <<txStatus, wasBroadcast, attempts, rebroadcasts, proof, inputs>>

\* Its UPDATE.  The ids of the SELECT are returned whatever rows the WHERE clause
\* still matches.
ClaimKnownTxForBroadcast(t) ==
  /\ \/ /\ reqStatus[t] \in ClaimableForBroadcast
        /\ reqStatus' = [reqStatus EXCEPT ![t] = "sending"]
        /\ wasBroadcast' = [wasBroadcast EXCEPT ![t] = TRUE]
     \/ /\ ReadCommitted /\ reqStatus[t] \notin ClaimableForBroadcast
        /\ UNCHANGED <<reqStatus, wasBroadcast>>
  /\ UNCHANGED <<txStatus, attempts, rebroadcasts, proof, inputs>>

\* The row was taken from the claim and the engine refuses the write.
ClaimRefused(t) ==
  ~ReadCommitted /\ reqStatus[t] \notin ClaimableForBroadcast /\ UNCHANGED storeVars

IncreaseKnownTxAttempts(t) ==
  /\ attempts' = [attempts EXCEPT ![t] = IF @ < AttemptCap THEN @ + 1 ELSE @]
  /\ UNCHANGED <<txStatus, reqStatus, wasBroadcast, rebroadcasts, proof, inputs>>

\* updateSingleTx: the KnownTx write decides whether the result is late.
UpdateSingleTx(t, r, s) ==
  /\ IF ReqUpdateApplies(t, BroadcastResultSkip)
     THEN SetReqStatus(t, r) /\ CompareAndSetTxStatus(t, s, BroadcastResultFrom)
     ELSE UNCHANGED <<reqStatus, wasBroadcast, txStatus>>
  /\ UNCHANGED <<attempts, rebroadcasts, proof, inputs>>

UpdateKnownTxAsMined(t) ==
  /\ SetReqStatus(t, "completed")
  /\ SetTxStatus(t, "completed")
  /\ proof' = [proof EXCEPT ![t] = TRUE]
  /\ UNCHANGED <<attempts, rebroadcasts, inputs>>

AdvanceKnownTxToBroadcasted(t) ==
  /\ IF ReqUpdateApplies(t, BeyondBroadcastStage)
     THEN SetReqStatus(t, "unmined") /\ SetTxStatus(t, "unproven")
     ELSE UNCHANGED <<reqStatus, wasBroadcast, txStatus>>
  /\ UNCHANGED <<attempts, rebroadcasts, proof, inputs>>

FailKnownTxAsDoubleSpend(t) ==
  /\ IF ReqUpdateApplies(t, {"completed", "doubleSpend"})
     THEN SetReqStatus(t, "doubleSpend") /\ SetTxStatus(t, "failed")
     ELSE UNCHANGED <<reqStatus, wasBroadcast, txStatus>>
  /\ UNCHANGED <<attempts, rebroadcasts, proof, inputs>>

\* Mutant: the row starts afresh, evidence included.
ForgetMerkleProof(t) ==
  /\ reqStatus' = [reqStatus EXCEPT ![t] = "reorg"]
  /\ wasBroadcast' = [wasBroadcast EXCEPT ![t] = FALSE]
  /\ attempts' = [attempts EXCEPT ![t] = 0]
  /\ proof' = [proof EXCEPT ![t] = FALSE]
  /\ UNCHANGED <<txStatus, rebroadcasts, inputs>>

\* InvalidateMerkleProofsByBlockHash: the transactions rows are left alone.
InvalidateMerkleProof(t) ==
  /\ reqStatus' = [reqStatus EXCEPT ![t] = "reorg"]
  /\ wasBroadcast' = [wasBroadcast EXCEPT ![t] = TRUE]
  /\ attempts' = [attempts EXCEPT ![t] = 0]
  /\ proof' = [proof EXCEPT ![t] = FALSE]
  /\ UNCHANGED <<txStatus, rebroadcasts, inputs>>

-----------------------------------------------------------------------------
(* Proof timeouts and the rebroadcast budget. *)

\* withReadyForStatusSyncFilter
ReadyForStatusSync(t, statuses) ==
  \/ reqStatus[t] \in statuses \ {"unsent"}
  \/ reqStatus[t] = "unsent" /\ wasBroadcast[t]

\* The columns that the SELECT reads of a row.
Row(t) == [status |-> reqStatus[t], wasBroadcast |-> wasBroadcast[t],
           attempts |-> attempts[t], rebroadcasts |-> rebroadcasts[t]]

\* The statuses are the ones that the two SELECTs look for.
Rows == [status : StatusesReadyToSync \cup {"unsent", "nosend"}, wasBroadcast : BOOLEAN,
         attempts : 0..AttemptCap, rebroadcasts : 0..MaxRebroadcasts]

NotRead == [status |-> None, wasBroadcast |-> FALSE, attempts |-> 0, rebroadcasts |-> 0]

\* What a transaction may have read: rows of some of the transactions.
RowsRead == [Txs -> Rows \cup {NotRead}]

RowsOf(ts) == [t \in Txs |-> IF t \in ts THEN Row(t) ELSE NotRead]
NoRows == RowsOf({})

EverBroadcast(row) == row.wasBroadcast \/ row.status \in WasBroadcastStatus

\* Mutant: one rebroadcast too many.
WithinBudgetOffByOne(row) ==
  EverBroadcast(row) /\ (MaxRebroadcasts = 0 \/ row.rebroadcasts <= MaxRebroadcasts)

WithinBudget(row) ==
  EverBroadcast(row) /\ (MaxRebroadcasts = 0 \/ row.rebroadcasts < MaxRebroadcasts)

\* With an unlimited budget the counter is never read, so it is not kept.
NextRebroadcast(n) == IF MaxRebroadcasts = 0 THEN n ELSE n + 1

\* proofTimeoutUpdates: back to the queue while the budget lasts, then invalid.
ProofTimeoutUpdates(row) ==
  [status       |-> IF WithinBudget(row) THEN "unsent" ELSE "invalidTx",
   wasBroadcast |-> EverBroadcast(row),
   attempts     |-> IF WithinBudget(row) THEN 0 ELSE row.attempts,
   rebroadcasts |-> IF WithinBudget(row) THEN NextRebroadcast(row.rebroadcasts)
                                         ELSE row.rebroadcasts]

\* The UPDATEs that follow a read: every row read gets what was computed from it,
\* all of them in one commit.
UpdateFromRead(read) ==
  LET new(t) == ProofTimeoutUpdates(read[t])
      ts == {t \in Txs : read[t] # NotRead}
  IN  /\ reqStatus' = [t \in Txs |-> IF t \in ts THEN new(t).status ELSE reqStatus[t]]
      /\ wasBroadcast' = [t \in Txs |-> IF t \in ts THEN new(t).wasBroadcast
                                                   ELSE wasBroadcast[t]]
      /\ attempts' = [t \in Txs |-> IF t \in ts THEN new(t).attempts ELSE attempts[t]]
      /\ rebroadcasts' = [t \in Txs |-> IF t \in ts THEN new(t).rebroadcasts
                                                   ELSE rebroadcasts[t]]
      /\ UNCHANGED <<txStatus, proof, inputs>>

\* The rows read are still as they were; the other engine writes without asking.
ReadHolds(read) == \A t \in Txs : read[t] \in {NotRead, Row(t)}

\* ApplyProofTimeouts, its SELECT and its UPDATEs, which match on the txid alone.
TimedOut(statuses) ==
  {t \in Txs : /\ MaxAttempts > 0
               /\ attempts[t] >= MaxAttempts
               /\ ReadyForStatusSync(t, statuses)}

ApplyProofTimeouts(read) ==
  IF ReadCommitted \/ ReadHolds(read) THEN UpdateFromRead(read)
                                      ELSE UNCHANGED storeVars

\* RequeueKnownTxForRebroadcast: the same for one row, and the WHERE clause of the
\* UPDATE names the statuses again.
RequeueFrom == {"unmined", "callback", "unknown"}

RequeueKnownTxForRebroadcast(t, read) ==
  IF reqStatus[t] \in RequeueFrom /\ (ReadCommitted \/ ReadHolds(read))
  THEN UpdateFromRead(read) ELSE UNCHANGED storeVars

-----------------------------------------------------------------------------
(* Units of work that span the repositories. *)

\* The unit of work of abortTx.  The compare-and-set of the status rolls the
\* whole unit back, so it is a condition of the release of the inputs.
AbortRelease(t) ==
  /\ txStatus[t] \in AbortableStatuses
  /\ SetTxStatus(t, "aborted")
  /\ inputs' = [inputs EXCEPT ![t] = "aborted"]
  /\ UNCHANGED <<reqStatus, wasBroadcast, attempts, rebroadcasts, proof>>

\* reviewKnownTxStatuses, one row: UpdateTransactionStatusByID without an
\* expected status; the inputs stay spent.
ReviewFailed(t) ==
  /\ SetTxStatus(t, "failed")
  /\ UNCHANGED <<reqStatus, wasBroadcast, attempts, rebroadcasts, proof, inputs>>

\* markAsInvalid and markAsUnminedAndUnproven of the unfail task: the
\* compare-and-set from "failed" rolls the KnownTx write back with it.
UnfailAsInvalid(t) ==
  /\ txStatus[t] = "failed"
  /\ SetReqStatus(t, "invalidTx")
  /\ inputs' = [inputs EXCEPT ![t] = IF @ = "held" THEN "unfailed" ELSE @]
  /\ UNCHANGED <<txStatus, attempts, rebroadcasts, proof>>

UnfailRolledBack(t) == txStatus[t] # "failed" /\ UNCHANGED storeVars

UnfailAsUnmined(t) ==
  /\ txStatus[t] = "failed"
  /\ SetReqStatus(t, "unmined")
  /\ SetTxStatus(t, "unproven")
  /\ UNCHANGED <<attempts, rebroadcasts, proof, inputs>>

=============================================================================
