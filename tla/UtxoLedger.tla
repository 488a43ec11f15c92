---------------------------- MODULE UtxoLedger ------------------------------
(***************************************************************************)
(* UtxoReservation for any number of transactions and attempts.  On either *)
(* engine, whatever flows run, its types hold and reservations have        *)
(* owners.  While neither the unfail task nor a merging internalizeAction  *)
(* runs (those two give outputs back on their own), outputs come back only *)
(* by aborts and received change stays in the index until it is healed     *)
(* away.  Where the engine also refuses stale writes, the module           *)
(* implements CoinLedger and the claim index agrees with the spend truth.  *)
(***************************************************************************)
EXTENDS UtxoReservation, TLAPS

\* The calls whose transaction has not been created.
Fresh == {"none", "read", "stale", "gaveUp"}

NoUnspending == Features \cap {"merge", "unfail"} = {}

LedgerTypes ==
  /\ txStatus \in [Txs -> TxStatuses \cup {None}]
  /\ reqStatus \in [Txs -> ReqStatuses \cup {None}]
  /\ wasBroadcast \in [Txs -> BOOLEAN]
  /\ inputs \in [Txs -> InputStates]
  /\ spentBy \in [Txs -> Txs \cup {None}]
  /\ rawInputs \in [Txs -> SUBSET Txs]
  /\ call \in [Txs -> Calls]

\* What the status rows say about a transaction the ledger cares for.
StatusInv(t) ==
  /\ txStatus[t] = None => reqStatus[t] = None /\ rawInputs[t] = {}
  /\ call[t] \in Fresh => txStatus[t] = None
  /\ reqStatus[t] = None => ~wasBroadcast[t]
  /\ reqStatus[t] \in WasBroadcastStatus => wasBroadcast[t]
  /\ reqStatus[t] # "unfail"
  /\ call[t] = "parked" => reqStatus[t] = "invalidTx" /\ ~wasBroadcast[t]
  /\ inputs[t] = "aborted" => /\ ~wasBroadcast[t]
                              /\ reqStatus[t] \in TerminalFailure \cup {None}
                              /\ txStatus[t] \in {"aborted", "failed"}
                              /\ call[t] = "idle"

Holds(t) == inputs[t] # "aborted" => \A o \in rawInputs[t] : spentBy[o] = t

\* What a createAction remembers are outputs.
NamedInv == named \in [Txs -> [change : SUBSET Txs, known : SUBSET Txs, noSend : SUBSET Txs]]

LedgerInv == LedgerTypes /\ \A t \in Txs : StatusInv(t) /\ Holds(t)

-----------------------------------------------------------------------------
(* Steps that only move the status rows and the call of one transaction. *)

QuietAt(t) ==
  /\ UNCHANGED <<spentBy, rawInputs, wasBroadcast, inputs>>
  /\ txStatus' \in [Txs -> TxStatuses \cup {None}]
  /\ reqStatus' \in [Txs -> ReqStatuses \cup {None}]
  /\ call' \in [Txs -> Calls]
  /\ \A u \in Txs \ {t} :
       txStatus'[u] = txStatus[u] /\ reqStatus'[u] = reqStatus[u] /\ call'[u] = call[u]
  /\ StatusInv(t)'

\* A quiet step keeps the invariant and is a stuttering step of the ledger.
LEMMA QuietStep ==
  ASSUME NEW t \in Txs, LedgerInv, QuietAt(t)
  PROVE  LedgerInv' /\ UNCHANGED <<spentBy, rawInputs, wasBroadcast>>
<1>1. LedgerTypes'
  BY Zenon DEF LedgerInv, LedgerTypes, QuietAt
<1>2. ASSUME NEW u \in Txs PROVE StatusInv(u)'
  <2>1. CASE u = t
    BY <2>1, Zenon DEF QuietAt
  <2>2. CASE u # t
    BY <2>2, Zenon DEF QuietAt, LedgerInv, StatusInv
  <2> QED BY <2>1, <2>2, Zenon
<1>3. ASSUME NEW u \in Txs PROVE Holds(u)'
  BY Zenon DEF QuietAt, LedgerInv, Holds
<1> QED BY <1>1, <1>2, <1>3, Zenon DEF LedgerInv, QuietAt

\* createAction before, between and after its funding transactions touches only
\* the index and the call.
LEMMA FundingQuiet ==
  ASSUME NEW t \in Txs, LedgerInv,
         \/ \E provided, noSend \in SUBSET Txs : ReadInputs(t, provided, noSend)
         \/ \E picked \in SUBSET Txs : FundingContention(t, picked)
         \/ \E picked \in SUBSET Txs : FundingConflict(t, picked)
         \/ DropStaleRows(t)
         \/ FundingFails(t)
  PROVE  QuietAt(t)
<1>1. /\ call[t] \in Fresh
      /\ \E p \in Fresh : call' = [call EXCEPT ![t] = p]
      /\ UNCHANGED <<txStatus, reqStatus, wasBroadcast, inputs, spentBy, rawInputs>>
  BY Zenon DEF ReadInputs, FundingContention, FundingConflict, DropStaleRows, FundingFails,
     Funding,
         RetryFunding, Goto, Fresh, storeVars, outputVars, restVars
<1>2. StatusInv(t) /\ LedgerTypes
  BY Zenon DEF LedgerInv
<1> QED BY <1>1, <1>2 DEF QuietAt, StatusInv, LedgerTypes, Fresh, Calls

\* ProcessAction and the delayed queue.
LEMMA ProcessQuiet ==
  ASSUME NEW t \in Txs, LedgerInv,
         \/ \E s \in TxStatuses, r \in ReqStatuses : Process(t, s, r)
         \/ SendWith(t) \/ SendAgain(t) \/ QueueKnown(t) \/ QueueTx(t)
             \/ MakeChangeSpendableAndIndex(t)
         \/ CallStops(t)
  PROVE  QuietAt(t)
<1>1. StatusInv(t) /\ LedgerTypes
  BY Zenon DEF LedgerInv
<1>2. ASSUME NEW s \in TxStatuses, NEW r \in ReqStatuses, Process(t, s, r) PROVE QuietAt(t)
  <2>1. /\ r \in {"nosend", "unsent", "unprocessed"} /\ s \in {"nosend", "unprocessed"}
        /\ reqStatus[t] = None /\ txStatus[t] \in {"unsigned", "unprocessed"}
        /\ call[t] = "idle"
        /\ \E p \in {"idle", "stored"} : call' = [call EXCEPT ![t] = p]
        /\ txStatus' = [txStatus EXCEPT ![t] = s]
        /\ reqStatus' = [reqStatus EXCEPT ![t] = r]
        /\ UNCHANGED <<wasBroadcast, inputs, spentBy, rawInputs>>
    BY <1>2, <1>1, Zenon DEF restVars, Process, SpendTransaction, SetTxStatus, HasTxID, Goto,
       outputVars,
         LedgerTypes, BeyondBroadcastStage, None
  <2> QED BY <2>1, <1>1 DEF QuietAt, StatusInv, LedgerTypes, Fresh, Calls, TxStatuses,
         ReqStatuses, None, WasBroadcastStatus
<1>3. ASSUME SendWith(t) PROVE QuietAt(t)
  <2>1. /\ reqStatus[t] \notin {None} \cup TerminalFailure /\ call[t] = "idle"
        /\ call' = [call EXCEPT ![t] = "stored"]
        /\ UNCHANGED <<txStatus, reqStatus, wasBroadcast, inputs, spentBy, rawInputs>>
    BY <1>3, Zenon DEF restVars, SendWith, HasTxID, Goto, storeVars, outputVars,
       ProblematicStatuses,
         TerminalFailure
  <2> QED BY <2>1, <1>1, Zenon DEF QuietAt, StatusInv, LedgerTypes, Fresh, Calls
<1>4. ASSUME QueueKnown(t) PROVE QuietAt(t)
  <2>1. /\ call[t] = "stored" /\ call' = [call EXCEPT ![t] = "queuedKnown"]
        /\ \/ /\ reqStatus[t] # None
              /\ reqStatus' = [reqStatus EXCEPT ![t] = "unsent"]
           \/ UNCHANGED reqStatus
        /\ UNCHANGED <<txStatus, wasBroadcast, inputs, spentBy, rawInputs>>
    BY <1>4, <1>1 DEF restVars, QueueKnown, UpdateKnownTxStatus, ReqUpdateApplies, HasTxID,
       SetReqStatus,
         Goto, outputVars, LedgerTypes, WasBroadcastStatus
  <2> QED BY <2>1, <1>1 DEF QuietAt, StatusInv, LedgerTypes, Fresh, Calls, ReqStatuses,
         None, WasBroadcastStatus
<1>5. ASSUME QueueTx(t) PROVE QuietAt(t)
  <2>1. /\ call[t] = "queuedKnown" /\ call' = [call EXCEPT ![t] = "queuedTx"]
        /\ \/ /\ txStatus[t] = "unprocessed"
              /\ txStatus' = [txStatus EXCEPT ![t] = "sending"]
           \/ UNCHANGED txStatus
        /\ UNCHANGED <<reqStatus, wasBroadcast, inputs, spentBy, rawInputs>>
    BY <1>5, Zenon DEF restVars, QueueTx, CompareAndSetTxStatus, Goto, outputVars
  <2> QED BY <2>1, <1>1 DEF QuietAt, StatusInv, LedgerTypes, Fresh, Calls, TxStatuses, None
<1>6. ASSUME MakeChangeSpendableAndIndex(t) \/ CallStops(t) PROVE QuietAt(t)
  <2>1. /\ call[t] \notin Fresh /\ call' = [call EXCEPT ![t] = "idle"]
        /\ UNCHANGED <<txStatus, reqStatus, wasBroadcast, inputs, spentBy, rawInputs>>
    BY <1>6, Zenon DEF restVars, MakeChangeSpendableAndIndex, CallStops, Goto, storeVars,
       outputVars, Fresh
  <2> QED BY <2>1, <1>1, Zenon DEF QuietAt, StatusInv, LedgerTypes, Fresh, Calls
<1>7. ASSUME SendAgain(t) PROVE QuietAt(t)
  <2>1. UNCHANGED <<txStatus, reqStatus, wasBroadcast, inputs, spentBy, rawInputs, call>>
    BY <1>7, Zenon DEF SendAgain, storeVars, outputVars
  <2> QED BY <2>1, <1>1, Zenon DEF QuietAt, StatusInv, LedgerTypes
<1> QED BY <1>2, <1>3, <1>4, <1>5, <1>6, <1>7, Zenon

\* Results, events, proofs and reviews concern a transaction that a broadcaster
\* has, or write the transactions row of one that has a txid.
LEMMA AnswerQuiet ==
  ASSUME NEW t \in Txs, LedgerInv, NoUnspending, ~ReadCommitted,
         \/ Accepted(t) \/ Rejected(t) \/ ServiceError(t)
         \/ EventAccepted(t) \/ EventDoubleSpend(t) \/ Mined(t) \/ NotFound(t) \/ Review(t)
         \/ UnfailRequested(t) \/ UnfailProved(t) \/ UnfailNotFound(t)
         \/ MergePayment(t) \/ MergeInsertion(t) \/ RelinquishOutput(t)
  PROVE  QuietAt(t)
<1>1. StatusInv(t) /\ LedgerTypes
  BY Zenon DEF LedgerInv
<1>2. CASE \/ Accepted(t) \/ Rejected(t) \/ ServiceError(t)
           \/ EventAccepted(t) \/ EventDoubleSpend(t) \/ Mined(t)
  <2>p. Posted(t) => wasBroadcast[t]
    BY Zenon DEF Posted
  <2>1. /\ wasBroadcast[t]
        /\ UNCHANGED <<inputs, spentBy, rawInputs, call>>
        /\ \/ UNCHANGED <<txStatus, reqStatus, wasBroadcast>>
           \/ \E r \in ReqStatuses \ {"unfail"} :
                /\ SetReqStatus(t, r)
                /\ \/ UNCHANGED txStatus
                   \/ \E s \in TxStatuses : txStatus' = [txStatus EXCEPT ![t] = s]
    <3>1. CASE Accepted(t)
      BY <2>p, <3>1, Zenon DEF restVars, Accepted, UpdateSingleTx, CompareAndSetTxStatus,
         outputVars, ReqStatuses,
           TxStatuses
    <3>2. CASE Rejected(t)
      BY <2>p, <3>2, Zenon DEF restVars, Rejected, UpdateSingleTx, CompareAndSetTxStatus,
         outputVars, ReqStatuses,
           TxStatuses, TerminalFailure, MarkCreatedOutputsAsNotSpendable
    <3>3. CASE ServiceError(t)
      BY <2>p, <3>3, Zenon DEF restVars, ServiceError, UpdateSingleTx, CompareAndSetTxStatus,
         outputVars, ReqStatuses,
           TxStatuses
    <3>4. CASE EventAccepted(t)
      BY <2>p, <3>4, Zenon DEF restVars, EventAccepted, AdvanceKnownTxToBroadcasted, SetTxStatus,
         outputVars,
           ReqStatuses, TxStatuses
    <3>5. CASE EventDoubleSpend(t)
      BY <2>p, <3>5, Zenon DEF restVars, EventDoubleSpend, FailKnownTxAsDoubleSpend, SetTxStatus,
         outputVars,
           ReqStatuses, TxStatuses
    <3>6. CASE Mined(t)
      BY <2>p, <3>6, Zenon DEF restVars, Mined, UpdateKnownTxAsMined, SetTxStatus, outputVars,
         ReqStatuses, TxStatuses
    <3> QED BY <1>2, <3>1, <3>2, <3>3, <3>4, <3>5, <3>6, Zenon
  <2>2. reqStatus[t] # None /\ txStatus[t] # None /\ inputs[t] # "aborted"
        /\ call[t] \notin Fresh /\ call[t] # "parked"
    BY <2>1, <1>1, Zenon DEF StatusInv
  <2>3. CASE UNCHANGED <<txStatus, reqStatus, wasBroadcast>>
    BY <2>1, <2>3, <1>1, Zenon DEF QuietAt, StatusInv, LedgerTypes
  <2>4. ASSUME NEW r \in ReqStatuses \ {"unfail"}, SetReqStatus(t, r),
               \/ UNCHANGED txStatus
               \/ \E s \in TxStatuses : txStatus' = [txStatus EXCEPT ![t] = s]
        PROVE  QuietAt(t)
    <3>1. reqStatus' = [reqStatus EXCEPT ![t] = r] /\ UNCHANGED wasBroadcast
      <4>1. (wasBroadcast[t] \/ r \in WasBroadcastStatus) = wasBroadcast[t]
        BY <2>1, <1>1, Zenon DEF LedgerTypes
      <4>2. [wasBroadcast EXCEPT ![t] = wasBroadcast[t]] = wasBroadcast
        BY <1>1, SMT DEF LedgerTypes
      <4> QED BY <2>4, <4>1, <4>2, Zenon DEF SetReqStatus
    <3>2. r # None /\ \A s \in TxStatuses : s # None
      BY Zenon DEF ReqStatuses, TxStatuses, None
    <3> QED BY <2>1, <2>2, <2>4, <3>1, <3>2, <1>1 DEF QuietAt, StatusInv, LedgerTypes
  <2> QED BY <2>1, <2>3, <2>4, Zenon
<1>3. CASE Review(t)
  <2>1. /\ reqStatus[t] \in TerminalFailure
        /\ txStatus' = [txStatus EXCEPT ![t] = "failed"]
        /\ UNCHANGED <<reqStatus, wasBroadcast, inputs, spentBy, rawInputs, call>>
    BY <1>3, Zenon DEF restVars, Review, ReviewFailed, SetTxStatus, MarkCreatedOutputsAsNotSpendable
  <2> QED BY <2>1, <1>1, Zenon
      DEF QuietAt, StatusInv, LedgerTypes, TerminalFailure, TxStatuses, None
<1>4. CASE NotFound(t) \/ RelinquishOutput(t)
  <2>1. UNCHANGED <<txStatus, reqStatus, wasBroadcast, inputs, spentBy, rawInputs, call>>
    BY <1>4, Zenon DEF restVars, NotFound, IncreaseKnownTxAttempts, RelinquishOutput, storeVars,
       outputVars
  <2> QED BY <2>1, <1>1, Zenon DEF QuietAt, StatusInv, LedgerTypes
<1>5. ~(\/ UnfailRequested(t) \/ UnfailProved(t) \/ UnfailNotFound(t)
        \/ MergePayment(t) \/ MergeInsertion(t))
  BY <1>1, Zenon DEF NoUnspending, StatusInv, UnfailRequested, UnfailProved, UnfailNotFound,
       MergePayment, MergeInsertion
<1> QED BY <1>2, <1>3, <1>4, <1>5, Zenon

\* Finding an action to abort and parking it.
LEMMA AbortQuiet ==
  ASSUME NEW t \in Txs, LedgerInv,
         \/ AbortFind(t) \/ SelectAbandoned(t) \/ Park(t)
  PROVE  QuietAt(t)
<1>1. StatusInv(t) /\ LedgerTypes
  BY Zenon DEF LedgerInv
<1>2. CASE AbortFind(t) \/ SelectAbandoned(t)
  <2>1. /\ txStatus[t] \in AbortableStatuses /\ call[t] = "idle"
        /\ call' = [call EXCEPT ![t] = "abortFound"]
        /\ UNCHANGED <<txStatus, reqStatus, wasBroadcast, inputs, spentBy, rawInputs>>
    BY <1>2, Zenon DEF restVars, AbortFind, SelectAbandoned, AbortableStatuses, Goto, storeVars,
       outputVars
  <2> QED BY <2>1, <1>1, Zenon
      DEF QuietAt, StatusInv, LedgerTypes, Fresh, Calls, AbortableStatuses
<1>3. CASE Park(t)
  <2>1. /\ call[t] = "abortFound"
        /\ UNCHANGED <<txStatus, wasBroadcast, inputs, spentBy, rawInputs>>
        /\ \/ /\ reqStatus[t] # None /\ ~wasBroadcast[t]
              /\ reqStatus' = [reqStatus EXCEPT ![t] = "invalidTx"]
              /\ call' = [call EXCEPT ![t] = "parked"]
           \/ UNCHANGED reqStatus /\ call' = [call EXCEPT ![t] = "idle"]
    BY <1>3, Zenon
        DEF restVars, Park, ParkUnbroadcastKnownTx, Parkable, HasTxID, Goto, storeVars, outputVars
  <2> QED BY <2>1, <1>1 DEF QuietAt, StatusInv, LedgerTypes, Fresh, Calls, ReqStatuses, None,
           WasBroadcastStatus
<1> QED BY <1>2, <1>3, Zenon

\* What ApplyProofTimeouts writes goes to rows that its transaction has read.
LEMMA TimeoutMoves ==
  ASSUME ProofTimeouts
  PROVE  /\ UNCHANGED <<txStatus, inputs>>
         /\ reqStatus' = reqStatus \/ \E f : reqStatus' = [t \in Txs |-> f[t]]
         /\ \A t \in Txs :
              \/ reqStatus'[t] = reqStatus[t]
              \/ /\ reqStatus'[t] \in {"unsent", "invalidTx"}
                 /\ \/ ReadCommitted /\ timedOut[t] # NotRead
                    \/ reqStatus[t] \in StatusesReadyToSync \cup {"unsent", "nosend"}
<1> DEFINE rows == IF ReadCommitted THEN timedOut ELSE RowsOf(TimedOut(SyncStatuses))
<1>1. UpdateFromRead(rows) \/ UNCHANGED storeVars
  BY Zenon DEF ProofTimeouts, ApplyProofTimeouts
<1>2. \A t \in Txs : rows[t] # NotRead =>
        \/ ReadCommitted /\ timedOut[t] # NotRead
        \/ reqStatus[t] \in StatusesReadyToSync \cup {"unsent", "nosend"}
  BY Zenon DEF RowsOf, TimedOut, ReadyForStatusSync, SyncStatuses
<1> HIDE DEF rows
<1>3. \A t \in Txs : ProofTimeoutUpdates(rows[t]).status \in {"unsent", "invalidTx"}
  BY DEF ProofTimeoutUpdates
<1>4. CASE UNCHANGED storeVars
  BY <1>4, Zenon DEF storeVars
<1>5. CASE UpdateFromRead(rows)
  <2>1. reqStatus' = [t \in Txs |-> IF rows[t] # NotRead THEN ProofTimeoutUpdates(rows[t]).status
                                                        ELSE reqStatus[t]]
    BY <1>5, Zenon DEF UpdateFromRead
  <2>2. \E f : reqStatus' = [t \in Txs |-> f[t]]
    <3>1. reqStatus' = [t \in Txs |-> reqStatus'[t]]
      BY <2>1, Zenon
    <3> QED BY <3>1, Zenon
  <2> QED BY <1>2, <1>3, <1>5, <2>1, <2>2, Zenon DEF UpdateFromRead
<1> QED BY <1>1, <1>4, <1>5, Zenon

\* ApplyProofTimeouts moves no broadcast flag: a status that carries network
\* evidence comes with the flag already.
LEMMA TimeoutsQuiet ==
  ASSUME ~ReadCommitted, LedgerInv, ProofTimeouts
  PROVE  LedgerInv' /\ UNCHANGED <<spentBy, rawInputs, wasBroadcast>>
<1>1. LedgerTypes /\ \A t \in Txs : StatusInv(t) /\ Holds(t)
  BY Zenon DEF LedgerInv
<1>2. UNCHANGED <<txStatus, inputs, spentBy, rawInputs, call>>
  BY TimeoutMoves, Zenon DEF ProofTimeouts, outputVars
<1>4. UNCHANGED wasBroadcast
  <2>1. \A t \in Txs : EverBroadcast(Row(t)) = wasBroadcast[t]
    <3>1. \A t \in Txs : Row(t).status = reqStatus[t] /\ Row(t).wasBroadcast = wasBroadcast[t]
      BY DEF Row
    <3> QED BY <1>1, <3>1, Zenon DEF EverBroadcast, StatusInv, LedgerTypes
  <2> DEFINE rows == RowsOf(TimedOut(SyncStatuses))
  <2>2. UpdateFromRead(rows) \/ UNCHANGED wasBroadcast
    BY Zenon DEF ProofTimeouts, ApplyProofTimeouts, storeVars
  <2>3. \A t \in Txs : rows[t] # NotRead => rows[t] = Row(t)
    BY Zenon DEF RowsOf
  <2> HIDE DEF rows
  <2>4. \A t \in Txs : ProofTimeoutUpdates(Row(t)).wasBroadcast = wasBroadcast[t]
    BY <2>1 DEF ProofTimeoutUpdates
  <2>5. ASSUME UpdateFromRead(rows) PROVE UNCHANGED wasBroadcast
    <3>1. wasBroadcast' = [t \in Txs |-> wasBroadcast[t]]
      BY <2>3, <2>4, <2>5, Zenon DEF UpdateFromRead
    <3> QED BY <1>1, <3>1, Zenon DEF LedgerTypes
  <2> QED BY <2>2, <2>5, Zenon
<1>5. /\ reqStatus' \in [Txs -> ReqStatuses \cup {None}]
      /\ \A t \in Txs : \/ reqStatus'[t] = reqStatus[t]
                        \/ /\ reqStatus[t] \notin {None} \cup TerminalFailure
                           /\ reqStatus'[t] \in {"unsent", "invalidTx"}
  <2>1. \A t \in Txs : \/ reqStatus'[t] = reqStatus[t]
                       \/ /\ reqStatus'[t] \in {"unsent", "invalidTx"}
                          /\ reqStatus[t] \in StatusesReadyToSync \cup {"unsent", "nosend"}
    BY TimeoutMoves, Zenon
  <2>2. \A r \in StatusesReadyToSync \cup {"unsent", "nosend"} :
          r \notin {None} \cup TerminalFailure
    BY Zenon DEF StatusesReadyToSync, TerminalFailure, None
  <2>3. reqStatus' = reqStatus \/ \E f : reqStatus' = [t \in Txs |-> f[t]]
    BY TimeoutMoves, Zenon
  <2>4. \A t \in Txs : reqStatus'[t] \in ReqStatuses \cup {None}
    BY <1>1, <2>1, Zenon DEF LedgerTypes, ReqStatuses
  <2>5. reqStatus' \in [Txs -> ReqStatuses \cup {None}]
    BY <1>1, <2>3, <2>4, Zenon DEF LedgerTypes
  <2> QED BY <2>1, <2>2, <2>5, Zenon
<1>6. LedgerTypes'
  BY <1>1, <1>2, <1>4, <1>5, Zenon DEF LedgerTypes
<1>7. ASSUME NEW t \in Txs PROVE StatusInv(t)' /\ Holds(t)'
  <2>1. StatusInv(t) /\ Holds(t)
    BY <1>1, Zenon
  <2>2. StatusInv(t)'
    BY <2>1, <1>2, <1>4, <1>5 DEF StatusInv, None, TerminalFailure, WasBroadcastStatus
  <2> QED BY <2>1, <2>2, <1>2, Zenon DEF Holds
<1> QED BY <1>2, <1>4, <1>6, <1>7, Zenon DEF LedgerInv

-----------------------------------------------------------------------------
(* The four steps the ledger sees. *)

\* What a step may change when it concerns the transaction t alone.
OthersKept(t) ==
  \A u \in Txs \ {t} : /\ txStatus'[u] = txStatus[u] /\ reqStatus'[u] = reqStatus[u]
                       /\ call'[u] = call[u] /\ inputs'[u] = inputs[u]
                       /\ wasBroadcast'[u] = wasBroadcast[u] /\ rawInputs'[u] = rawInputs[u]

\* The status rows of the other transactions keep their part of the invariant.
LEMMA OthersStatus ==
  ASSUME NEW t \in Txs, LedgerInv, OthersKept(t), NEW u \in Txs \ {t}
  PROVE  StatusInv(u)'
BY Zenon DEF OthersKept, LedgerInv, StatusInv

\* createAction claims free outputs for a transaction that did not exist.
LEMMA CreateTakes ==
  ASSUME NEW t \in Txs, NEW picked \in SUBSET Txs, LedgerInv, NamedInv,
         CreateTransactionInTx(t, picked)
  PROVE  LedgerInv' /\ \E coins \in SUBSET Txs : Ledger!Take(t, coins)
<1>1. LedgerTypes /\ \A u \in Txs : StatusInv(u) /\ Holds(u)
  BY Zenon DEF LedgerInv
<1>2. Claimed(t, picked) \in SUBSET Txs
  BY Zenon DEF Claimed, NamedInv
<1>3. PICK coins \in SUBSET Txs : coins = Claimed(t, picked)
  BY <1>2, Zenon
<1>4. /\ txStatus[t] = None /\ call[t] = "read"
      /\ \A o \in coins : spentBy[o] = None
      /\ txStatus' = [txStatus EXCEPT ![t] = "unsigned"]
      /\ inputs' = [inputs EXCEPT ![t] = "held"]
      /\ spentBy' = [o \in Txs |-> IF o \in coins THEN t ELSE spentBy[o]]
      /\ rawInputs' = [rawInputs EXCEPT ![t] = coins]
      /\ call' = [call EXCEPT ![t] = "idle"]
      /\ UNCHANGED <<reqStatus, wasBroadcast>>
  BY <1>3, Zenon
      DEF CreateTransactionInTx, CreateTransaction, SetTxStatus, Funding, Claimable, Goto
<1>5. reqStatus[t] = None /\ rawInputs[t] = {} /\ ~wasBroadcast[t]
  BY <1>1, <1>4, Zenon DEF StatusInv
<1>6. LedgerTypes'
  BY <1>1, <1>4, Zenon DEF LedgerTypes, TxStatuses, InputStates, Calls
<1>7. StatusInv(t)'
  BY <1>1, <1>4, <1>5, Zenon DEF StatusInv, LedgerTypes, Fresh, WasBroadcastStatus, None
<1>8. ASSUME NEW u \in Txs \ {t} PROVE StatusInv(u)'
  <2>1. OthersKept(t)
    BY <1>1, <1>4, Zenon DEF OthersKept, LedgerTypes
  <2> QED BY <2>1, OthersStatus, Zenon
<1>9. ASSUME NEW u \in Txs PROVE Holds(u)'
  <2>1. CASE u = t
    BY <2>1, <1>1, <1>4, Zenon DEF Holds, LedgerTypes
  <2>2. CASE u # t
    <3>1. inputs'[u] = inputs[u] /\ rawInputs'[u] = rawInputs[u] /\ rawInputs[u] \subseteq Txs
      BY <2>2, <1>1, <1>4, Zenon DEF LedgerTypes
    <3>2. u # None
      BY ReservationAssumption, Zenon
    <3> QED BY <3>1, <3>2, <1>1, <1>4, Zenon DEF Holds
  <2> QED BY <2>1, <2>2, Zenon
<1>10. Ledger!Take(t, coins)
  BY <1>4, <1>5, Zenon DEF Ledger!Take, Ledger!None, None
<1> QED BY <1>6, <1>7, <1>8, <1>9, <1>10, Zenon DEF LedgerInv

\* An abort commits for a transaction without a txid, or a parked one: nobody
\* has it and nobody can claim it.
LEMMA ReleaseGivesBack ==
  ASSUME NEW t \in Txs, LedgerInv, Release(t)
  PROVE  LedgerInv' /\ (UNCHANGED <<spentBy, rawInputs, wasBroadcast>> \/ Ledger!GiveBack(t))
<1>1. LedgerTypes /\ \A u \in Txs : StatusInv(u) /\ Holds(u)
  BY Zenon DEF LedgerInv
<1>2. /\ call[t] \in {"parked", "abortFound"} /\ call' = [call EXCEPT ![t] = "idle"]
      /\ ~wasBroadcast[t] /\ reqStatus[t] \in {None, "invalidTx"}
      /\ UNCHANGED rawInputs
  BY <1>1, Zenon DEF restVars, Release, StatusInv, HasTxID, Goto
<1>3. CASE UNCHANGED <<storeVars, outputVars, indexVars>>
  <2>1. UNCHANGED <<txStatus, reqStatus, wasBroadcast, inputs, spentBy>>
    BY <1>3, Zenon DEF storeVars, outputVars
  <2>2. QuietAt(t)
    BY <1>1, <1>2, <2>1, Zenon DEF QuietAt, StatusInv, LedgerTypes, Fresh, Calls
  <2> QED BY <2>2, QuietStep, Zenon
<1>4. CASE AbortRelease(t) /\ RestoreRows(t) /\ RecreateSpentOutputs(t)
  <2>1. /\ txStatus' = [txStatus EXCEPT ![t] = "aborted"]
        /\ inputs' = [inputs EXCEPT ![t] = "aborted"]
        /\ spentBy' = [o \in Txs |-> IF spentBy[o] = t THEN None ELSE spentBy[o]]
        /\ txStatus[t] \in AbortableStatuses
        /\ UNCHANGED <<reqStatus, wasBroadcast>>
    BY <1>4, <1>1, Zenon DEF AbortRelease, SetTxStatus, RecreateSpentOutputs, LedgerTypes
  <2>2. LedgerTypes'
    BY <1>1, <1>2, <2>1, Zenon DEF LedgerTypes, TxStatuses, InputStates, Calls
  <2>3. StatusInv(t)'
    BY <1>1, <1>2, <2>1, Zenon
        DEF StatusInv, LedgerTypes, Fresh, TerminalFailure, AbortableStatuses,
         None
  <2>4. ASSUME NEW u \in Txs \ {t} PROVE StatusInv(u)'
    <3>1. OthersKept(t)
      BY <1>1, <1>2, <2>1, Zenon DEF OthersKept, LedgerTypes
    <3> QED BY <3>1, OthersStatus, Zenon
  <2>5. ASSUME NEW u \in Txs PROVE Holds(u)'
    <3>1. CASE u = t
      BY <3>1, <1>1, <2>1, Zenon DEF Holds, LedgerTypes
    <3>2. CASE u # t
      <4>1. inputs'[u] = inputs[u] /\ rawInputs'[u] = rawInputs[u] /\ rawInputs[u] \subseteq Txs
        BY <3>2, <1>1, <1>2, <2>1, Zenon DEF LedgerTypes
      <4> QED BY <3>2, <4>1, <1>1, <2>1, Zenon DEF Holds
    <3> QED BY <3>1, <3>2, Zenon
  <2>6. Ledger!GiveBack(t)
    BY <1>2, <2>1, Zenon DEF Ledger!GiveBack, Ledger!None, None
  <2> QED BY <2>2, <2>3, <2>4, <2>5, <2>6, Zenon DEF LedgerInv
<1> QED BY <1>3, <1>4, Zenon DEF Release

\* The claim of a KnownTx flags the transaction before it is posted, while it
\* holds its inputs.
LEMMA ClaimSends ==
  ASSUME NEW t \in Txs, ~ReadCommitted, LedgerInv, Claim(t)
  PROVE  LedgerInv' /\ Ledger!Send(t)
<1>1. LedgerTypes /\ \A u \in Txs : StatusInv(u) /\ Holds(u)
  BY Zenon DEF LedgerInv
<1>2. /\ reqStatus[t] \notin TerminalFailure \cup {None}
      /\ reqStatus' = [reqStatus EXCEPT ![t] = "sending"]
      /\ wasBroadcast' = [wasBroadcast EXCEPT ![t] = TRUE]
      /\ \/ call[t] = "stored" /\ call' = [call EXCEPT ![t] = "idle"]
         \/ UNCHANGED call
      /\ UNCHANGED <<txStatus, inputs, spentBy, rawInputs>>
  BY Zenon
      DEF Claim, ClaimBegins, ClaimKnownTxForBroadcast, ClaimableForBroadcast, TerminalFailure,
       None, Goto, outputVars
<1>3. inputs[t] # "aborted" /\ txStatus[t] # None /\ call[t] # "parked"
  BY <1>1, <1>2, Zenon DEF StatusInv, TerminalFailure
<1>4. LedgerTypes'
  BY <1>1, <1>2, Zenon DEF LedgerTypes, ReqStatuses, Calls
<1>5. StatusInv(t)'
  BY <1>1, <1>2, <1>3, Zenon DEF StatusInv, LedgerTypes, Fresh, None, WasBroadcastStatus
<1>6. ASSUME NEW u \in Txs \ {t} PROVE StatusInv(u)'
  <2>1. OthersKept(t)
    BY <1>1, <1>2, Zenon DEF OthersKept, LedgerTypes
  <2> QED BY <2>1, OthersStatus, Zenon
<1>7. ASSUME NEW u \in Txs PROVE Holds(u)'
  BY <1>1, <1>2, Zenon DEF Holds
<1>8. Ledger!Send(t)
  BY <1>1, <1>2, <1>3, Zenon DEF Ledger!Send, Holds
<1> QED BY <1>4, <1>5, <1>6, <1>7, <1>8, Zenon DEF LedgerInv

\* A transaction that somebody else made spends none of the wallet's outputs.
LEMMA InternalizeSends ==
  ASSUME NEW t \in Txs, NEW sent \in BOOLEAN, LedgerInv, InternalizeNew(t, sent)
  PROVE  LedgerInv' /\ (UNCHANGED <<spentBy, rawInputs, wasBroadcast>> \/ Ledger!Send(t))
<1>1. LedgerTypes /\ \A u \in Txs : StatusInv(u) /\ Holds(u)
  BY Zenon DEF LedgerInv
<1>2. /\ call[t] = "none" /\ call' = [call EXCEPT ![t] = "idle"]
      /\ \E s \in {"unproven", "sending"} : txStatus' = [txStatus EXCEPT ![t] = s]
      /\ wasBroadcast' = [wasBroadcast EXCEPT ![t] = sent]
      /\ \/ sent = TRUE /\ reqStatus' = [reqStatus EXCEPT ![t] = "unmined"]
         \/ sent = FALSE /\ reqStatus' = [reqStatus EXCEPT ![t] = "unsent"]
      /\ UNCHANGED <<inputs, spentBy, rawInputs>>
  BY Zenon DEF restVars, InternalizeNew, Goto
<1>3. rawInputs[t] = {} /\ wasBroadcast[t] = FALSE /\ inputs[t] # "aborted"
  BY <1>1, <1>2, Zenon DEF StatusInv, Fresh, LedgerTypes
<1>4. LedgerTypes'
  BY <1>1, <1>2 DEF LedgerTypes, TxStatuses, ReqStatuses, Calls
<1>5. StatusInv(t)'
  BY <1>1, <1>2, <1>3, Zenon DEF StatusInv, LedgerTypes, Fresh, None, WasBroadcastStatus
<1>6. ASSUME NEW u \in Txs \ {t} PROVE StatusInv(u)'
  <2>1. OthersKept(t)
    BY <1>1, <1>2, Zenon DEF OthersKept, LedgerTypes
  <2> QED BY <2>1, OthersStatus, Zenon
<1>7. ASSUME NEW u \in Txs PROVE Holds(u)'
  BY <1>1, <1>2, Zenon DEF Holds
<1>8. UNCHANGED <<spentBy, rawInputs, wasBroadcast>> \/ Ledger!Send(t)
  <2>1. CASE sent = TRUE
    BY <1>2, <1>3, <2>1, Zenon DEF Ledger!Send
  <2>2. CASE sent = FALSE
    BY <1>1, <1>2, <1>3, <2>2, Zenon DEF LedgerTypes
  <2> QED BY <2>1, <2>2, Zenon
<1> QED BY <1>4, <1>5, <1>6, <1>7, <1>8, Zenon DEF LedgerInv

-----------------------------------------------------------------------------
(* The theorems. *)

\* Only ReadInputs and a committed createAction change what a call remembers.
LEMMA NamedStep ==
  ASSUME NamedInv, [Next]_vars
  PROVE  NamedInv'
<1>1. ASSUME NEW t \in Txs, NEW provided \in SUBSET Txs, NEW noSend \in SUBSET Txs,
             ReadInputs(t, provided, noSend)
      PROVE  NamedInv'
  BY <1>1, Zenon DEF NamedInv, ReadInputs
<1>2. ASSUME NEW t \in Txs, NEW picked \in SUBSET Txs,
             \/ CreateTransactionInTx(t, picked)
             \/ FundingContention(t, picked)
             \/ FundingConflict(t, picked)
      PROVE  NamedInv'
  <2>1. CASE CreateTransactionInTx(t, picked)
    <3>1. named' = [named EXCEPT ![t] = NoNames]
      BY <2>1, Zenon DEF CreateTransactionInTx
    <3> QED BY <3>1, Zenon DEF NamedInv, NoNames
  <2>2. CASE FundingContention(t, picked)
    <3>1. named' = named
      BY <2>2, Zenon DEF FundingContention
    <3> QED BY <3>1, Zenon DEF NamedInv
  <2>3. CASE FundingConflict(t, picked)
    <3>1. named' = named
      BY <2>3, Zenon DEF FundingConflict
    <3> QED BY <3>1, Zenon DEF NamedInv
  <2> QED BY <1>2, <2>1, <2>2, <2>3, Zenon
<1>3. ASSUME NEW t \in Txs, DropStaleRows(t) PROVE UNCHANGED named
  BY <1>3, Zenon DEF DropStaleRows
<1>4. ASSUME NEW t \in Txs,
             \/ FundingFails(t)
             \/ \E s \in TxStatuses, r \in ReqStatuses : Process(t, s, r)
             \/ SendWith(t) \/ SendAgain(t) \/ QueueKnown(t) \/ QueueTx(t)
             \/ MakeChangeSpendableAndIndex(t)
             \/ CallStops(t)
             \/ SelectForClaim(t) \/ Claim(t) \/ SelectForIndex(t)
             \/ Accepted(t) \/ Rejected(t) \/ ServiceError(t)
      PROVE  UNCHANGED named
  BY <1>4, Zenon DEF FundingFails, Process, SendWith, SendAgain, QueueKnown, QueueTx,
       MakeChangeSpendableAndIndex, CallStops, SelectForClaim, Claim, SelectForIndex, Accepted,
       Rejected, ServiceError, createVars
<1>5. ASSUME NEW t \in Txs,
             \/ EventAccepted(t) \/ EventDoubleSpend(t) \/ Mined(t) \/ NotFound(t) \/ Review(t)
             \/ AbortFind(t) \/ SelectAbandoned(t) \/ Park(t) \/ Release(t)
             \/ UnfailRequested(t) \/ UnfailProved(t) \/ UnfailNotFound(t)
             \/ \E sent \in BOOLEAN : InternalizeNew(t, sent)
             \/ MergePayment(t) \/ MergeInsertion(t) \/ RelinquishOutput(t)
      PROVE  UNCHANGED named
  BY <1>5, Zenon DEF EventAccepted, EventDoubleSpend, Mined, NotFound, Review, AbortFind,
       SelectAbandoned, Park, Release, UnfailRequested, UnfailProved, UnfailNotFound,
       InternalizeNew, MergePayment, MergeInsertion, RelinquishOutput, createVars
<1>6. CASE SelectTimedOut \/ ProofTimeouts \/ UNCHANGED vars
  BY <1>6, Zenon DEF SelectTimedOut, ProofTimeouts, createVars, vars, NamedInv
<1> QED BY <1>1, <1>2, <1>3, <1>4, <1>5, <1>6, Zenon DEF Next, NamedInv

\* Every step keeps the invariant and is a step of the ledger, or none.
LEMMA LedgerStep ==
  ASSUME NoUnspending, ~ReadCommitted, LedgerInv, NamedInv, [Next]_vars
  PROVE  LedgerInv' /\ [Ledger!LedgerNext]_(Ledger!ledgerVars)
<1> DEFINE Quiet == LedgerInv' /\ UNCHANGED <<spentBy, rawInputs, wasBroadcast>>
<1>1. ASSUME NEW t \in Txs,
             \/ \E provided, noSend \in SUBSET Txs : ReadInputs(t, provided, noSend)
             \/ \E picked \in SUBSET Txs : FundingContention(t, picked)
             \/ \E picked \in SUBSET Txs : FundingConflict(t, picked)
             \/ DropStaleRows(t)
             \/ FundingFails(t)
      PROVE  Quiet
  BY <1>1, FundingQuiet, QuietStep, Zenon
<1>2. ASSUME NEW t \in Txs,
             \/ \E s \in TxStatuses, r \in ReqStatuses : Process(t, s, r)
             \/ SendWith(t) \/ SendAgain(t) \/ QueueKnown(t) \/ QueueTx(t)
             \/ MakeChangeSpendableAndIndex(t)
             \/ CallStops(t)
      PROVE  Quiet
  BY <1>2, ProcessQuiet, QuietStep, Zenon
<1>3. ASSUME NEW t \in Txs,
             \/ Accepted(t) \/ Rejected(t) \/ ServiceError(t)
             \/ EventAccepted(t) \/ EventDoubleSpend(t) \/ Mined(t) \/ NotFound(t) \/ Review(t)
             \/ UnfailRequested(t) \/ UnfailProved(t) \/ UnfailNotFound(t)
             \/ MergePayment(t) \/ MergeInsertion(t) \/ RelinquishOutput(t)
      PROVE  Quiet
  BY <1>3, AnswerQuiet, QuietStep, Zenon
<1>4. ASSUME NEW t \in Txs, AbortFind(t) \/ SelectAbandoned(t) \/ Park(t)
      PROVE  Quiet
  BY <1>4, AbortQuiet, QuietStep, Zenon
<1>5. ASSUME NEW t \in Txs, NEW picked \in SUBSET Txs, CreateTransactionInTx(t, picked)
      PROVE  LedgerInv' /\ Ledger!LedgerNext
  BY <1>5, CreateTakes, Zenon DEF Ledger!LedgerNext
<1>6. ASSUME NEW t \in Txs, Release(t)
      PROVE  LedgerInv' /\ (UNCHANGED <<spentBy, rawInputs, wasBroadcast>> \/ Ledger!LedgerNext)
  BY <1>6, ReleaseGivesBack, Zenon DEF Ledger!LedgerNext
<1>7. ASSUME NEW t \in Txs, Claim(t)
      PROVE  LedgerInv' /\ Ledger!LedgerNext
  BY <1>7, ClaimSends, Zenon DEF Ledger!LedgerNext
<1>8. ASSUME NEW t \in Txs, NEW sent \in BOOLEAN, InternalizeNew(t, sent)
      PROVE  LedgerInv' /\ (UNCHANGED <<spentBy, rawInputs, wasBroadcast>> \/ Ledger!LedgerNext)
  BY <1>8, InternalizeSends, Zenon DEF Ledger!LedgerNext
<1>9. ASSUME ProofTimeouts PROVE Quiet
  BY <1>9, TimeoutsQuiet, Zenon
<1>10. ASSUME UNCHANGED vars PROVE Quiet
  <2>1. UNCHANGED <<txStatus, reqStatus, wasBroadcast, inputs, spentBy, rawInputs, call>>
    BY <1>10, Zenon DEF vars, storeVars, outputVars, restVars
  <2> QED BY <2>1, Zenon DEF LedgerInv, LedgerTypes, StatusInv, Holds
<1>11. LedgerInv' /\ (UNCHANGED <<spentBy, rawInputs, wasBroadcast>> \/ Ledger!LedgerNext)
  BY <1>1, <1>2, <1>3, <1>4, <1>5, <1>6, <1>7, <1>8, <1>9, <1>10, Zenon
     DEF Next, SelectForClaim, SelectForIndex, SelectTimedOut
<1> QED BY <1>11, Zenon DEF Ledger!ledgerVars

\* The rows the wallet starts from satisfy the invariant and map to an initial
\* state of the ledger.
LEMMA LedgerStart ==
  ASSUME Init
  PROVE  LedgerInv /\ NamedInv /\ Ledger!LedgerInit
<1>1. /\ txStatus \in [Txs -> {"completed", None}]
      /\ call \in [Txs -> {"idle", "none"}]
      /\ reqStatus = txStatus
      /\ inputs = [t \in Txs |-> None]
      /\ spentBy = [t \in Txs |-> None]
      /\ rawInputs = [t \in Txs |-> {}]
      /\ \A t \in Txs : /\ t \in Received => txStatus[t] = "completed" /\ call[t] = "idle"
                        /\ t \notin Received => txStatus[t] = None
  BY Zenon DEF Init
<1>2. wasBroadcast \in [Txs -> BOOLEAN] /\ \A t \in Txs : wasBroadcast[t] <=> t \in Received
  <2>1. wasBroadcast = [t \in Txs |-> t \in Received]
    BY Zenon DEF Init
  <2>2. \A t \in Txs : (t \in Received) \in BOOLEAN
    OBVIOUS
  <2> QED BY <2>1, <2>2, Zenon
<1>3. LedgerTypes
  BY <1>1, <1>2, Zenon DEF LedgerTypes, TxStatuses, ReqStatuses, InputStates, Calls, None
<1>4. ASSUME NEW t \in Txs PROVE StatusInv(t) /\ Holds(t)
  <2>1. CASE t \in Received
    BY <2>1, <1>1, <1>2, Zenon DEF StatusInv, Holds, Fresh, None
  <2>2. CASE t \notin Received
    BY <2>2, <1>1, <1>2, Zenon DEF StatusInv, Holds, Fresh, None, WasBroadcastStatus
  <2> QED BY <2>1, <2>2, Zenon
<1>5. NamedInv
  <2>1. named = [t \in Txs |-> NoNames]
    BY Zenon DEF Init
  <2>2. NoNames \in [change : SUBSET Txs, known : SUBSET Txs, noSend : SUBSET Txs]
    BY Zenon DEF NoNames
  <2> QED BY <2>1, <2>2, Zenon DEF NamedInv
<1>6. Ledger!LedgerInit
  BY <1>1, <1>2, Zenon DEF Ledger!LedgerInit, Ledger!None, None
<1> QED BY <1>3, <1>4, <1>5, <1>6, Zenon DEF LedgerInv

\* The reservation of outputs by createAction, ProcessAction, broadcasts, aborts
\* and reviews implements the ledger: outputs are claimed when free, given back
\* only by transactions no broadcaster has or will have, and sent while held.  It
\* needs an engine that refuses stale writes.
THEOREM Refinement ==
  ASSUME NoUnspending, ~ReadCommitted
  PROVE  Spec => RefinesLedger
<1>1. Init => LedgerInv /\ NamedInv /\ Ledger!LedgerInit
  BY LedgerStart, Zenon
<1>2. LedgerInv /\ NamedInv /\ [Next]_vars
        => LedgerInv' /\ NamedInv' /\ [Ledger!LedgerNext]_(Ledger!ledgerVars)
  BY LedgerStep, NamedStep, Zenon
<1> QED BY <1>1, <1>2, PTL DEF Spec, RefinesLedger, Ledger!LedgerSpec

\* No two transactions handed to a broadcaster spend the same output, and their
\* inputs stay spent by them, on an engine that refuses stale writes.
THEOREM DoubleSpendFree ==
  ASSUME NoUnspending, ~ReadCommitted
  PROVE  Spec => []NoDoubleSpend
<1>1. Init => LedgerInv /\ NamedInv
  BY LedgerStart, Zenon
<1>2. LedgerInv /\ NamedInv /\ [Next]_vars => LedgerInv' /\ NamedInv'
  BY LedgerStep, NamedStep, Zenon
<1>3. LedgerInv => NoDoubleSpend
  BY Zenon DEF LedgerInv, StatusInv, Holds, NoDoubleSpend, Ledger!SentOwnsInputs
<1> QED BY <1>1, <1>2, <1>3, PTL DEF Spec

-----------------------------------------------------------------------------
(* Types, whatever flows run. *)

OutputTypes ==
  /\ spendable \in [Txs -> BOOLEAN]
  /\ spentBy \in [Txs -> Txs \cup {None}]
  /\ change \in [Txs -> BOOLEAN]
  /\ basketName \in [Txs -> {None, "default", "custom"}]

IndexTypes ==
  /\ utxoStatus \in [Txs -> UTXOStatuses \cup {None}]
  /\ reservedBy \in [Txs -> Txs \cup {None}]

\* A createAction that may still try to fund itself has an attempt left.
AttemptsLeft ==
  \A t \in Txs : call[t] \in {"none", "read", "stale"} => attempt[t] < MaxFundingAttempts

CallTypes ==
  /\ rawInputs \in [Txs -> SUBSET Txs]
  /\ call \in [Txs -> Calls]
  /\ NamedInv
  /\ stale \in [Txs -> SUBSET Txs]
  /\ attempt \in [Txs -> 0..MaxFundingAttempts]
  /\ AttemptsLeft

AllTypes == StoreTypeOK /\ OutputTypes /\ IndexTypes /\ CallTypes

\* What transactions that are under way have read; a row that was read had a txid.
ReadTypes ==
  /\ claims \in [Txs -> {None, "selected", "missed"}]
  /\ indexing \in SUBSET Txs /\ healed \in SUBSET Txs
  /\ timedOut \in RowsRead
  /\ \A t \in Txs : timedOut[t] # NotRead => reqStatus[t] # None

\* The groups together are the type invariant.
LEMMA TypeGroups == AllTypes /\ ReadTypes => TypeOK
BY Zenon DEF AllTypes, ReadTypes, TypeOK, OutputTypes, IndexTypes, CallTypes, NamedInv

\* What a proof timeout reads is of the right type.
LEMMA ReadsType ==
  /\ NoRows \in RowsRead /\ \A t \in Txs : NoRows[t] = NotRead
  /\ StoreTypeOK => RowsOf(TimedOut(SyncStatuses)) \in RowsRead
  /\ \A t \in Txs : RowsOf(TimedOut(SyncStatuses))[t] # NotRead
                    => reqStatus[t] \in StatusesReadyToSync \cup {"unsent", "nosend"}
<1> DEFINE due == TimedOut(SyncStatuses)
<1>1. NoRows \in RowsRead /\ \A t \in Txs : NoRows[t] = NotRead
  BY Zenon DEF NoRows, RowsOf, RowsRead
<1>2. \A t \in Txs : t \in due => reqStatus[t] \in StatusesReadyToSync \cup {"unsent", "nosend"}
  BY Zenon DEF TimedOut, ReadyForStatusSync, SyncStatuses
<1> HIDE DEF due
<1>3. ASSUME StoreTypeOK PROVE \A t \in Txs : t \in due => Row(t) \in Rows
  BY <1>2, <1>3 DEF Row, Rows, StoreTypeOK
<1>4. StoreTypeOK => RowsOf(due) \in RowsRead
  BY <1>3, Zenon DEF RowsOf, RowsRead
<1>5. \A t \in Txs : RowsOf(due)[t] # NotRead => t \in due
  BY Zenon DEF RowsOf
<1> QED BY <1>1, <1>2, <1>4, <1>5, Zenon DEF due

\* What stays as it is keeps its type.
LEMMA TypesUnchanged ==
  ASSUME AllTypes
  PROVE  /\ UNCHANGED storeVars => StoreTypeOK'
         /\ UNCHANGED outputVars => OutputTypes'
         /\ UNCHANGED indexVars => IndexTypes'
         /\ UNCHANGED <<rawInputs, call, createVars>> => CallTypes'
<1>1. UNCHANGED storeVars => StoreTypeOK'
  BY Zenon DEF AllTypes, StoreTypeOK, storeVars
<1>2. UNCHANGED outputVars => OutputTypes'
  BY Zenon DEF AllTypes, OutputTypes, outputVars
<1>3. UNCHANGED indexVars => IndexTypes'
  BY Zenon DEF AllTypes, IndexTypes, indexVars
<1>4. UNCHANGED <<rawInputs, call, createVars>> => CallTypes'
  BY Zenon DEF AllTypes, CallTypes, NamedInv, AttemptsLeft, createVars
<1> QED BY <1>1, <1>2, <1>3, <1>4, Zenon

\* Every database transaction keeps the types of the status rows.
LEMMA StoreOpsType ==
  ASSUME StoreTypeOK, NEW t \in Txs
  PROVE  /\ CreateTransaction(t) => StoreTypeOK'
         /\ \A s \in TxStatuses, r \in ReqStatuses : SpendTransaction(t, s, r) => StoreTypeOK'
         /\ \A s \in ReqStatuses, skip \in SUBSET ReqStatuses :
              UpdateKnownTxStatus(t, s, skip) => StoreTypeOK'
         /\ ParkUnbroadcastKnownTx(t) => StoreTypeOK'
         /\ ClaimKnownTxForBroadcast(t) => StoreTypeOK'
         /\ IncreaseKnownTxAttempts(t) => StoreTypeOK'
         /\ \A r \in ReqStatuses, s \in TxStatuses : UpdateSingleTx(t, r, s) => StoreTypeOK'
         /\ UpdateKnownTxAsMined(t) => StoreTypeOK'
         /\ AdvanceKnownTxToBroadcasted(t) => StoreTypeOK'
         /\ FailKnownTxAsDoubleSpend(t) => StoreTypeOK'
         /\ AbortRelease(t) => StoreTypeOK'
         /\ ReviewFailed(t) => StoreTypeOK'
         /\ UnfailAsInvalid(t) => StoreTypeOK'
         /\ UnfailAsUnmined(t) => StoreTypeOK'
<1> USE DEF StoreTypeOK, TxStatuses, ReqStatuses, InputStates, SetTxStatus, SetReqStatus
<1>1. CreateTransaction(t) => StoreTypeOK'
  BY Zenon DEF CreateTransaction
<1>2. ASSUME NEW s \in TxStatuses, NEW r \in ReqStatuses, SpendTransaction(t, s, r)
      PROVE  StoreTypeOK'
  BY <1>2, Zenon DEF SpendTransaction
<1>3. ASSUME NEW s \in ReqStatuses, NEW skip \in SUBSET ReqStatuses,
             UpdateKnownTxStatus(t, s, skip)
      PROVE  StoreTypeOK'
  BY <1>3, ZenonT(30) DEF UpdateKnownTxStatus
<1>4. ParkUnbroadcastKnownTx(t) => StoreTypeOK'
  BY Zenon DEF ParkUnbroadcastKnownTx
<1>5. ClaimKnownTxForBroadcast(t) => StoreTypeOK'
  BY Zenon DEF ClaimKnownTxForBroadcast
<1>6. IncreaseKnownTxAttempts(t) => StoreTypeOK'
  BY StoreAssumption DEF IncreaseKnownTxAttempts, AttemptCap
<1>7. ASSUME NEW r \in ReqStatuses, NEW s \in TxStatuses, UpdateSingleTx(t, r, s)
      PROVE  StoreTypeOK'
  <2>1. CASE ReqUpdateApplies(t, BroadcastResultSkip) /\ txStatus[t] \in BroadcastResultFrom
    <3>1. SetReqStatus(t, r) /\ SetTxStatus(t, s)
      BY <1>7, <2>1, Zenon DEF UpdateSingleTx, CompareAndSetTxStatus
    <3>2. UNCHANGED <<attempts, rebroadcasts, proof, inputs>>
      BY <1>7, Zenon DEF UpdateSingleTx
    <3> QED BY <3>1, <3>2, Zenon
  <2>2. CASE ReqUpdateApplies(t, BroadcastResultSkip) /\ txStatus[t] \notin BroadcastResultFrom
    <3>1. SetReqStatus(t, r) /\ UNCHANGED <<txStatus, attempts, rebroadcasts, proof, inputs>>
      BY <1>7, <2>2, Zenon DEF UpdateSingleTx, CompareAndSetTxStatus
    <3> QED BY <3>1, Zenon
  <2>3. CASE ~ReqUpdateApplies(t, BroadcastResultSkip)
    BY <1>7, <2>3, Zenon DEF UpdateSingleTx
  <2> QED BY <2>1, <2>2, <2>3, Zenon
<1>8. UpdateKnownTxAsMined(t) => StoreTypeOK'
  BY Zenon DEF UpdateKnownTxAsMined
<1>9. AdvanceKnownTxToBroadcasted(t) => StoreTypeOK'
  BY Zenon DEF AdvanceKnownTxToBroadcasted
<1>10. FailKnownTxAsDoubleSpend(t) => StoreTypeOK'
  BY Zenon DEF FailKnownTxAsDoubleSpend
<1>11. AbortRelease(t) => StoreTypeOK'
  BY Zenon DEF AbortRelease
<1>12. ReviewFailed(t) => StoreTypeOK'
  BY Zenon DEF ReviewFailed
<1>13. UnfailAsInvalid(t) => StoreTypeOK'
  BY Zenon DEF UnfailAsInvalid
<1>14. UnfailAsUnmined(t) => StoreTypeOK'
  BY Zenon DEF UnfailAsUnmined
<1> QED
  BY <1>1, <1>2, <1>3, <1>4, <1>5, <1>6, <1>7, <1>8, <1>9, <1>10, <1>11, <1>12, <1>13, <1>14,
     Zenon

\* The rebroadcast budget keeps the counters within their bounds, whatever
\* happened to the rows since they were read.
LEMMA ProofTimeoutsType ==
  ASSUME StoreTypeOK, NEW rows \in RowsRead, UpdateFromRead(rows)
  PROVE  StoreTypeOK'
<1>1. \A u \in Txs : rows[u] # NotRead => rows[u] \in Rows
  BY Zenon DEF RowsRead
<1>2. ASSUME NEW row \in Rows
      PROVE  /\ ProofTimeoutUpdates(row).status \in ReqStatuses
             /\ ProofTimeoutUpdates(row).wasBroadcast \in BOOLEAN
             /\ ProofTimeoutUpdates(row).attempts \in 0..AttemptCap
             /\ ProofTimeoutUpdates(row).rebroadcasts \in 0..MaxRebroadcasts
  <2>1. /\ row.wasBroadcast \in BOOLEAN
        /\ row.attempts \in 0..AttemptCap /\ row.rebroadcasts \in 0..MaxRebroadcasts
    BY DEF Rows
  <2>2. /\ ProofTimeoutUpdates(row).status \in ReqStatuses
        /\ ProofTimeoutUpdates(row).wasBroadcast \in BOOLEAN
    BY <2>1 DEF ProofTimeoutUpdates, EverBroadcast, ReqStatuses
  <2>3. ProofTimeoutUpdates(row).attempts \in 0..AttemptCap
    BY <2>1, StoreAssumption DEF ProofTimeoutUpdates, AttemptCap
  <2>4. ProofTimeoutUpdates(row).rebroadcasts \in 0..MaxRebroadcasts
    BY <2>1, StoreAssumption DEF ProofTimeoutUpdates, WithinBudget, NextRebroadcast
  <2> QED
    BY <2>2, <2>3, <2>4, Zenon
<1>3. reqStatus' \in [Txs -> ReqStatuses \cup {None}] /\ wasBroadcast' \in [Txs -> BOOLEAN]
  BY <1>1, <1>2, Zenon DEF StoreTypeOK, UpdateFromRead
<1>4. attempts' \in [Txs -> 0..AttemptCap] /\ rebroadcasts' \in [Txs -> 0..MaxRebroadcasts]
  BY <1>1, <1>2, Zenon DEF StoreTypeOK, UpdateFromRead
<1> QED
  BY <1>3, <1>4, Zenon DEF StoreTypeOK, UpdateFromRead

\* The writes to the two tables keep their types.
LEMMA TableOpsType ==
  ASSUME AllTypes, NEW t \in Txs
  PROVE  /\ \A os, st : CreateUTXOs(os, st) => IndexTypes'
         /\ \A os : DeleteRows(os) => IndexTypes'
         /\ RestoreRows(t) => IndexTypes'
         /\ MarkCreatedOutputsAsNotSpendable(t) => OutputTypes'
         /\ RecreateSpentOutputs(t) => OutputTypes'
<1>0. \A s : ToUTXOStatus(s) \in UTXOStatuses
  BY Zenon DEF ToUTXOStatus, UTXOStatuses
<1>1. ASSUME NEW os, NEW st, CreateUTXOs(os, st) PROVE IndexTypes'
  BY <1>0, <1>1, Zenon DEF CreateUTXOs, AllTypes, IndexTypes
<1>2. ASSUME NEW os, DeleteRows(os) PROVE IndexTypes'
  BY <1>2, Zenon DEF DeleteRows, AllTypes, IndexTypes
<1>3. RestoreRows(t) => IndexTypes'
  BY <1>0 DEF RestoreRows, AllTypes, IndexTypes
<1>4. MarkCreatedOutputsAsNotSpendable(t) => OutputTypes'
  BY Zenon DEF MarkCreatedOutputsAsNotSpendable, AllTypes, OutputTypes
<1>5. RecreateSpentOutputs(t) => OutputTypes'
  <2>1. ASSUME RecreateSpentOutputs(t) PROVE spendable' \in [Txs -> BOOLEAN]
    BY <2>1, Zenon DEF RecreateSpentOutputs
  <2>2. ASSUME RecreateSpentOutputs(t) PROVE spentBy' \in [Txs -> Txs \cup {None}]
    BY <2>2, Zenon DEF RecreateSpentOutputs, AllTypes, OutputTypes
  <2> QED BY <2>1, <2>2, Zenon DEF RecreateSpentOutputs, AllTypes, OutputTypes
<1> QED BY <1>1, <1>2, <1>3, <1>4, <1>5, Zenon

\* Moving the call to a step where nothing is funded keeps the types of the call.
LEMMA GotoType ==
  ASSUME AllTypes, NEW t \in Txs, NEW p \in Calls \ {"none", "read", "stale"}, Goto(t, p),
         UNCHANGED <<rawInputs, createVars>>
  PROVE  CallTypes'
BY Zenon DEF AllTypes, CallTypes, NamedInv, AttemptsLeft, Goto, createVars

\* A retry of the funding transaction counts an attempt and stops at the last one.
LEMMA RetryType ==
  ASSUME AllTypes, NEW t \in Txs, call[t] \in {"read", "stale"}, RetryFunding(t)
  PROVE  /\ call' \in [Txs -> Calls]
         /\ attempt' \in [Txs -> 0..MaxFundingAttempts]
         /\ AttemptsLeft'
<1>1. attempt[t] \in 0..(MaxFundingAttempts - 1)
  BY ReservationAssumption DEF AllTypes, CallTypes, AttemptsLeft
<1>2. PICK k \in 1..MaxFundingAttempts : k = attempt[t] + 1
  BY <1>1, ReservationAssumption
<1>3. attempt' = [attempt EXCEPT ![t] = k]
  BY <1>2, Zenon DEF RetryFunding
<1>4. PICK p \in {"gaveUp", "read"} : /\ call' = [call EXCEPT ![t] = p]
                                      /\ p = "read" => k # MaxFundingAttempts
  BY <1>2, Zenon DEF RetryFunding, Goto
<1>5. call' \in [Txs -> Calls] /\ attempt' \in [Txs -> 0..MaxFundingAttempts]
  BY <1>3, <1>4, ReservationAssumption DEF AllTypes, CallTypes, Calls
<1>6. ASSUME NEW u \in Txs, call'[u] \in {"none", "read", "stale"}
      PROVE  attempt'[u] < MaxFundingAttempts
  <2>1. CASE u = t
    BY <1>2, <1>3, <1>4, <1>6, <2>1, ReservationAssumption DEF AllTypes, CallTypes
  <2>2. CASE u # t
    BY <1>3, <1>4, <1>6, <2>2, Zenon DEF AllTypes, CallTypes, AttemptsLeft
  <2> QED BY <2>1, <2>2, Zenon
<1> QED BY <1>5, <1>6, Zenon DEF AttemptsLeft

\* createAction keeps the types.
LEMMA CreateActionType ==
  ASSUME AllTypes, NEW t \in Txs,
         \/ \E provided, noSend \in SUBSET Txs : ReadInputs(t, provided, noSend)
         \/ \E picked \in SUBSET Txs : \/ CreateTransactionInTx(t, picked)
                                       \/ FundingContention(t, picked)
                                       \/ FundingConflict(t, picked)
         \/ DropStaleRows(t) \/ FundingFails(t)
  PROVE  AllTypes'
<1>0. CallTypes /\ StoreTypeOK /\ OutputTypes /\ IndexTypes
  BY Zenon DEF AllTypes
<1>1. ASSUME NEW provided \in SUBSET Txs, NEW noSend \in SUBSET Txs,
             ReadInputs(t, provided, noSend)
      PROVE  AllTypes'
  <2>1. UNCHANGED <<storeVars, outputVars, indexVars>>
    BY <1>1, Zenon DEF ReadInputs
  <2>2. call[t] = "none" /\ call' = [call EXCEPT ![t] = "read"]
        /\ UNCHANGED <<rawInputs, stale, attempt>>
    BY <1>1, Zenon DEF restVars, ReadInputs, Goto
  <2>3. NamedInv'
    BY <1>0, <1>1, Zenon DEF CallTypes, NamedInv, ReadInputs
  <2>4. CallTypes'
    BY <1>0, <2>2, <2>3, Zenon DEF CallTypes, AttemptsLeft, Calls
  <2> QED BY <2>1, <2>4, TypesUnchanged, Zenon DEF AllTypes
<1>2. ASSUME NEW picked \in SUBSET Txs, CreateTransactionInTx(t, picked) PROVE AllTypes'
  <2>1. Claimed(t, picked) \in SUBSET Txs
    BY <1>0, Zenon DEF Claimed, CallTypes, NamedInv
  <2>2. StoreTypeOK'
    BY <1>0, <1>2, StoreOpsType, Zenon DEF CreateTransactionInTx
  <2>3. OutputTypes'
    <3>1. spendable' \in [Txs -> BOOLEAN] /\ change' \in [Txs -> BOOLEAN]
      BY <1>0, <1>2, Zenon DEF CreateTransactionInTx, OutputTypes
    <3>2. /\ spentBy' \in [Txs -> Txs \cup {None}]
          /\ basketName' \in [Txs -> {None, "default", "custom"}]
      BY <1>0, <1>2, Zenon DEF CreateTransactionInTx, OutputTypes
    <3> QED BY <3>1, <3>2, Zenon DEF OutputTypes
  <2>4. IndexTypes'
    BY <1>0, <1>2, Zenon DEF CreateTransactionInTx, IndexTypes, UTXOStatuses
  <2>5. CallTypes'
    <3>1. call' = [call EXCEPT ![t] = "idle"] /\ attempt' = [attempt EXCEPT ![t] = 0]
          /\ stale' = stale
      BY <1>2, Zenon DEF CreateTransactionInTx, Goto
    <3>2. rawInputs' \in [Txs -> SUBSET Txs]
      BY <1>0, <1>2, <2>1, Zenon DEF CreateTransactionInTx, CallTypes
    <3>3. named' = [named EXCEPT ![t] = NoNames]
      BY <1>2, Zenon DEF CreateTransactionInTx
    <3>4. NamedInv'
      BY <1>0, <3>3, Zenon DEF CallTypes, NamedInv, NoNames
    <3>5. attempt' \in [Txs -> 0..MaxFundingAttempts]
      BY <1>0, <3>1, ReservationAssumption DEF CallTypes
    <3>6. AttemptsLeft'
      BY <1>0, <3>1, Zenon DEF CallTypes, AttemptsLeft
    <3> QED BY <1>0, <3>1, <3>2, <3>4, <3>5, <3>6, Zenon DEF CallTypes, Calls
  <2> QED BY <2>2, <2>3, <2>4, <2>5, Zenon DEF AllTypes
<1>3. ASSUME NEW picked \in SUBSET Txs, FundingContention(t, picked) PROVE AllTypes'
  <2>1. call[t] = "read" /\ RetryFunding(t)
        /\ UNCHANGED <<storeVars, outputVars, indexVars, rawInputs, named, stale>>
    BY <1>3, Zenon DEF restVars, FundingContention, Funding
  <2>2. CallTypes'
    BY <1>0, <2>1, RetryType, Zenon DEF CallTypes, NamedInv
  <2> QED BY <2>1, <2>2, TypesUnchanged, Zenon DEF AllTypes
<1>4. ASSUME NEW picked \in SUBSET Txs, FundingConflict(t, picked) PROVE AllTypes'
  <2>1. /\ call[t] = "read"
        /\ \E p \in {"gaveUp", "stale"} : call' = [call EXCEPT ![t] = p]
        /\ stale' = [stale EXCEPT ![t] = StaleIndexedOutputs(Claimed(t, picked))]
        /\ UNCHANGED <<rawInputs, named, attempt>>
        /\ UNCHANGED <<storeVars, outputVars, indexVars>>
    BY <1>4, Zenon DEF restVars, FundingConflict, Funding, Goto
  <2>2. StaleIndexedOutputs(Claimed(t, picked)) \in SUBSET Txs
    BY <1>0, Zenon DEF StaleIndexedOutputs, Claimed, CallTypes, NamedInv
  <2>3. CallTypes'
    BY <1>0, <2>1, <2>2, Zenon DEF CallTypes, NamedInv, AttemptsLeft, Calls
  <2> QED BY <2>1, <2>3, TypesUnchanged, Zenon DEF AllTypes
<1>5. CASE DropStaleRows(t)
  <2>1. /\ call[t] = "stale" /\ RetryFunding(t)
        /\ stale' = [stale EXCEPT ![t] = {}]
        /\ UNCHANGED <<rawInputs, named>>
        /\ UNCHANGED <<storeVars, outputVars>>
    BY <1>5, Zenon DEF DropStaleRows
  <2>2. CallTypes'
    BY <1>0, <2>1, RetryType, Zenon DEF CallTypes, NamedInv
  <2>3. IndexTypes'
    BY <1>5, TypesUnchanged, TableOpsType, Zenon DEF DropStaleRows
  <2> QED BY <2>1, <2>2, <2>3, TypesUnchanged, Zenon DEF AllTypes
<1>6. CASE FundingFails(t)
  <2>1. CallTypes'
    BY <1>6, GotoType, Zenon DEF restVars, FundingFails, Calls
  <2> QED BY <1>6, <2>1, TypesUnchanged, Zenon DEF FundingFails, AllTypes
<1> QED BY <1>1, <1>2, <1>3, <1>4, <1>5, <1>6, Zenon

\* ProcessAction, the delayed queue and the aborts keep the types.
LEMMA ActionCallsType ==
  ASSUME AllTypes, NEW t \in Txs,
         \/ \E s \in TxStatuses, r \in ReqStatuses : Process(t, s, r)
         \/ SendWith(t) \/ SendAgain(t) \/ QueueKnown(t) \/ QueueTx(t)
             \/ MakeChangeSpendableAndIndex(t)
         \/ CallStops(t) \/ SelectForClaim(t) \/ Claim(t) \/ SelectForIndex(t)
         \/ AbortFind(t) \/ SelectAbandoned(t) \/ Park(t) \/ Release(t)
  PROVE  AllTypes'
<1>0. CallTypes /\ StoreTypeOK /\ OutputTypes /\ IndexTypes
  BY Zenon DEF AllTypes
<1>g. {"idle", "stored", "queuedKnown", "queuedTx", "abortFound", "parked"}
        \subseteq Calls \ {"none", "read", "stale"}
  BY Zenon DEF Calls
<1>1. ASSUME NEW s \in TxStatuses, NEW r \in ReqStatuses, Process(t, s, r) PROVE AllTypes'
  <2>1. CallTypes'
    BY <1>1, <1>g, GotoType, Zenon DEF restVars, Process
  <2>2. StoreTypeOK' /\ IndexTypes'
    BY <1>0, <1>1, StoreOpsType, TableOpsType, Zenon DEF Process
  <2> QED BY <1>1, <2>1, <2>2, TypesUnchanged, Zenon DEF Process, AllTypes
<1>2. CASE SendWith(t) \/ CallStops(t) \/ AbortFind(t) \/ SelectAbandoned(t)
  <2>1. /\ \E p \in {"idle", "stored", "abortFound"} : Goto(t, p)
        /\ UNCHANGED <<storeVars, outputVars, indexVars, rawInputs, createVars>>
    BY <1>2, Zenon DEF restVars, SendWith, CallStops, AbortFind, SelectAbandoned
  <2>2. CallTypes'
    BY <1>g, <2>1, GotoType, Zenon
  <2> QED BY <2>1, <2>2, TypesUnchanged, Zenon DEF AllTypes
<1>3. CASE QueueKnown(t)
  <2>1. CallTypes'
    BY <1>3, <1>g, GotoType, Zenon DEF restVars, QueueKnown
  <2>2. "unsent" \in ReqStatuses /\ BeyondBroadcastStage \in SUBSET ReqStatuses
    BY Zenon DEF ReqStatuses, BeyondBroadcastStage
  <2>3. StoreTypeOK'
    BY <1>0, <1>3, <2>2, StoreOpsType, Zenon DEF QueueKnown
  <2> QED BY <1>3, <2>1, <2>3, TypesUnchanged, Zenon DEF QueueKnown, AllTypes
<1>4. CASE QueueTx(t)
  <2>1. CallTypes'
    BY <1>4, <1>g, GotoType, Zenon DEF restVars, QueueTx
  <2>2. StoreTypeOK'
    BY <1>0, <1>4, Zenon DEF QueueTx, CompareAndSetTxStatus, StoreTypeOK, TxStatuses
  <2> QED BY <1>4, <2>1, <2>2, TypesUnchanged, Zenon DEF QueueTx, AllTypes
<1>5. CASE MakeChangeSpendableAndIndex(t)
  <2>1. CallTypes'
    BY <1>5, <1>g, GotoType, Zenon DEF restVars, MakeChangeSpendableAndIndex
  <2>2. IndexTypes'
    BY <1>5, TypesUnchanged, TableOpsType, Zenon DEF MakeChangeSpendableAndIndex
  <2>3. OutputTypes'
    BY <1>0, <1>5, Zenon DEF MakeChangeSpendableAndIndex, OutputTypes
  <2> QED BY <1>5, <2>1, <2>2, <2>3, TypesUnchanged, Zenon
      DEF MakeChangeSpendableAndIndex, AllTypes
<1>6. CASE Claim(t)
  <2>1. StoreTypeOK' /\ UNCHANGED <<outputVars, indexVars, rawInputs, createVars>>
    BY <1>0, <1>6, StoreOpsType, Zenon DEF Claim
  <2>2. CallTypes'
    BY <1>6, <1>g, <2>1, GotoType, TypesUnchanged, Zenon DEF Claim, ClaimBegins
  <2> QED BY <2>1, <2>2, TypesUnchanged, Zenon DEF AllTypes
<1>7. CASE Park(t)
  <2>1. /\ \E p \in {"idle", "parked"} : Goto(t, p)
        /\ ParkUnbroadcastKnownTx(t) \/ UNCHANGED storeVars
        /\ UNCHANGED <<outputVars, indexVars, rawInputs, createVars>>
    BY <1>7, Zenon DEF restVars, Park
  <2>2. CallTypes'
    BY <1>g, <2>1, GotoType, Zenon
  <2>3. StoreTypeOK'
    BY <1>0, <2>1, StoreOpsType, TypesUnchanged, Zenon
  <2> QED BY <2>1, <2>2, <2>3, TypesUnchanged, Zenon DEF AllTypes
<1>8. CASE Release(t)
  <2>1. CallTypes'
    BY <1>8, <1>g, GotoType, Zenon DEF restVars, Release
  <2>2. StoreTypeOK' /\ OutputTypes' /\ IndexTypes'
    BY <1>0, <1>8, StoreOpsType, TableOpsType, TypesUnchanged, Zenon DEF Release
  <2> QED BY <2>1, <2>2, Zenon DEF AllTypes
<1>9. CASE SelectForClaim(t)
  <2>1. UNCHANGED <<storeVars, outputVars, indexVars, rawInputs, createVars>>
    BY <1>9, Zenon DEF SelectForClaim
  <2>2. CallTypes'
    BY <1>9, <1>g, <2>1, GotoType, TypesUnchanged, Zenon DEF SelectForClaim, ClaimBegins
  <2> QED BY <2>1, <2>2, TypesUnchanged, Zenon DEF AllTypes
<1>10. CASE SelectForIndex(t)
  BY <1>10, TypesUnchanged, Zenon DEF SelectForIndex, AllTypes
<1>11. CASE SendAgain(t)
  <2>1. IndexTypes'
    BY <1>11, TableOpsType, Zenon DEF SendAgain, CreateUTXOForSpendableOutputs
  <2> QED BY <1>11, <2>1, TypesUnchanged, Zenon DEF SendAgain, AllTypes
<1> QED BY <1>1, <1>2, <1>3, <1>4, <1>5, <1>6, <1>7, <1>8, <1>9, <1>10, <1>11, Zenon

\* Results, events, proofs, reviews, the unfail task, internalizeAction and
\* relinquishOutput keep the types.
LEMMA AnswersType ==
  ASSUME AllTypes, NEW t \in Txs,
         \/ Accepted(t) \/ Rejected(t) \/ ServiceError(t)
         \/ EventAccepted(t) \/ EventDoubleSpend(t) \/ Mined(t) \/ NotFound(t) \/ Review(t)
         \/ UnfailRequested(t) \/ UnfailProved(t) \/ UnfailNotFound(t)
         \/ \E sent \in BOOLEAN : InternalizeNew(t, sent)
         \/ MergePayment(t) \/ MergeInsertion(t) \/ RelinquishOutput(t)
  PROVE  AllTypes'
<1>0. CallTypes /\ StoreTypeOK /\ OutputTypes /\ IndexTypes
  BY Zenon DEF AllTypes
<1>s. /\ {"unmined", "invalidTx", "doubleSpend", "sending", "unfail"} \subseteq ReqStatuses
      /\ {"unproven", "failed", "sending"} \subseteq TxStatuses
      /\ TerminalFailure \subseteq ReqStatuses
  BY Zenon DEF ReqStatuses, TxStatuses, TerminalFailure
<1>1. CASE Accepted(t)
  <2>1. StoreTypeOK'
    BY <1>0, <1>1, <1>s, StoreOpsType, Zenon DEF Accepted
  <2>2. IndexTypes'
    BY <1>1, TypesUnchanged, TableOpsType, Zenon DEF Accepted, CreateUTXOForSpendableOutputs
  <2> QED BY <1>1, <2>1, <2>2, TypesUnchanged, Zenon DEF Accepted, AllTypes
<1>2. CASE Rejected(t)
  <2>1. StoreTypeOK'
    BY <1>0, <1>2, <1>s, StoreOpsType, Zenon DEF Rejected
  <2>2. OutputTypes'
    BY <1>2, TypesUnchanged, TableOpsType, Zenon DEF Rejected
  <2> QED BY <1>2, <2>1, <2>2, TypesUnchanged, Zenon DEF restVars, Rejected, AllTypes
<1>3. CASE ServiceError(t)
  <2>1. StoreTypeOK'
    BY <1>0, <1>3, <1>s, StoreOpsType, Zenon DEF ServiceError
  <2> QED BY <1>3, <2>1, TypesUnchanged, Zenon DEF restVars, ServiceError, AllTypes
<1>4. CASE EventAccepted(t)
  <2>1. StoreTypeOK'
    BY <1>0, <1>4, StoreOpsType, Zenon DEF EventAccepted
  <2>2. IndexTypes'
    BY <1>4, TypesUnchanged, TableOpsType, Zenon DEF EventAccepted, CreateUTXOForSpendableOutputs
  <2> QED BY <1>4, <2>1, <2>2, TypesUnchanged, Zenon DEF EventAccepted, AllTypes
<1>5. CASE EventDoubleSpend(t)
  <2>1. StoreTypeOK'
    BY <1>0, <1>5, StoreOpsType, Zenon DEF EventDoubleSpend
  <2> QED BY <1>5, <2>1, TypesUnchanged, Zenon DEF restVars, EventDoubleSpend, AllTypes
<1>6. CASE Mined(t)
  <2>1. StoreTypeOK'
    BY <1>0, <1>6, StoreOpsType, Zenon DEF Mined
  <2>2. IndexTypes'
    BY <1>0, <1>6, Zenon DEF Mined, IndexTypes, UTXOStatuses
  <2> QED BY <1>6, <2>1, <2>2, TypesUnchanged, Zenon DEF restVars, Mined, AllTypes
<1>7. CASE NotFound(t)
  <2>1. StoreTypeOK'
    BY <1>0, <1>7, StoreOpsType, Zenon DEF NotFound
  <2> QED BY <1>7, <2>1, TypesUnchanged, Zenon DEF restVars, NotFound, AllTypes
<1>8. CASE Review(t)
  <2>1. StoreTypeOK' /\ OutputTypes'
    BY <1>0, <1>8, StoreOpsType, TableOpsType, Zenon DEF Review
  <2> QED BY <1>8, <2>1, TypesUnchanged, Zenon DEF restVars, Review, AllTypes
<1>9. CASE UnfailRequested(t)
  <2>1. {} \in SUBSET ReqStatuses
    BY Zenon
  <2>2. StoreTypeOK'
    BY <1>0, <1>9, <1>s, <2>1, StoreOpsType, Zenon DEF UnfailRequested
  <2> QED BY <1>9, <2>2, TypesUnchanged, Zenon DEF restVars, UnfailRequested, AllTypes
<1>10. CASE UnfailProved(t)
  <2>1. StoreTypeOK' /\ IndexTypes'
    BY <1>0, <1>10, StoreOpsType, TableOpsType, Zenon DEF UnfailProved
  <2>2. OutputTypes'
    BY <1>0, <1>10, Zenon DEF UnfailProved, OutputTypes
  <2> QED BY <1>10, <2>1, <2>2, TypesUnchanged, Zenon DEF restVars, UnfailProved, AllTypes
<1>11. CASE UnfailNotFound(t)
  <2>1. StoreTypeOK' /\ IndexTypes' /\ OutputTypes'
    BY <1>0, <1>11, StoreOpsType, TableOpsType, Zenon DEF UnfailNotFound
  <2> QED BY <1>11, <2>1, TypesUnchanged, Zenon DEF restVars, UnfailNotFound, AllTypes
<1>12. ASSUME NEW sent \in BOOLEAN, InternalizeNew(t, sent) PROVE AllTypes'
  <2>1. StoreTypeOK'
    <3>1. /\ \E s \in {"unproven", "sending"} : txStatus' = [txStatus EXCEPT ![t] = s]
          /\ \E r \in {"unmined", "unsent"} : reqStatus' = [reqStatus EXCEPT ![t] = r]
          /\ wasBroadcast' = [wasBroadcast EXCEPT ![t] = sent]
          /\ UNCHANGED <<attempts, rebroadcasts, proof, inputs>>
      BY <1>12, Zenon DEF InternalizeNew
    <3> QED BY <1>0, <3>1, Zenon DEF StoreTypeOK, TxStatuses, ReqStatuses
  <2>2. OutputTypes'
    <3>1. spendable' \in [Txs -> BOOLEAN] /\ change' \in [Txs -> BOOLEAN]
      BY <1>0, <1>12, Zenon DEF InternalizeNew, OutputTypes
    <3> QED BY <1>0, <1>12, <3>1, Zenon DEF InternalizeNew, OutputTypes
  <2>3. IndexTypes'
    BY <1>0, <1>12, Zenon DEF InternalizeNew, IndexTypes, UTXOStatuses, ToUTXOStatus
  <2>4. CallTypes'
    BY <1>12, GotoType, Zenon DEF restVars, InternalizeNew, Calls
  <2> QED BY <2>1, <2>2, <2>3, <2>4, Zenon DEF AllTypes
<1>13. CASE MergePayment(t) \/ MergeInsertion(t)
  <2>1. OutputTypes'
    <3>1. spendable' \in [Txs -> BOOLEAN] /\ change' \in [Txs -> BOOLEAN]
      BY <1>0, <1>13, Zenon DEF MergePayment, MergeInsertion, OutputTypes
    <3> QED BY <1>0, <1>13, <3>1, Zenon DEF MergePayment, MergeInsertion, OutputTypes
  <2>2. IndexTypes'
    BY <1>0, <1>13, Zenon DEF MergePayment, MergeInsertion, IndexTypes, indexVars, UTXOStatuses,
       ToUTXOStatus
  <2> QED BY <1>13, <2>1, <2>2, TypesUnchanged, Zenon DEF restVars, MergePayment, MergeInsertion,
     AllTypes
<1>14. CASE RelinquishOutput(t)
  <2>1. OutputTypes'
    BY <1>0, <1>14, Zenon DEF RelinquishOutput, OutputTypes
  <2>2. IndexTypes'
    BY <1>14, TypesUnchanged, TableOpsType, Zenon DEF RelinquishOutput
  <2> QED BY <1>14, <2>1, <2>2, TypesUnchanged, Zenon DEF restVars, RelinquishOutput, AllTypes
<1> QED BY <1>1, <1>2, <1>3, <1>4, <1>5, <1>6, <1>7, <1>8, <1>9, <1>10, <1>11, <1>12, <1>13,
           <1>14, Zenon, Zenon

\* Every step keeps the types of the tables and of the calls.
LEMMA TypeStep ==
  ASSUME AllTypes, ReadTypes, [Next]_vars
  PROVE  AllTypes'
<1>1. CASE ProofTimeouts
  <2> DEFINE rows == IF ReadCommitted THEN timedOut ELSE RowsOf(TimedOut(SyncStatuses))
  <2>1. UpdateFromRead(rows) \/ UNCHANGED storeVars
    BY <1>1, Zenon DEF ProofTimeouts, ApplyProofTimeouts
  <2>2. rows \in RowsRead
    BY ReadsType, Zenon DEF AllTypes, ReadTypes
  <2> HIDE DEF rows
  <2>3. StoreTypeOK'
    BY <2>1, <2>2, ProofTimeoutsType, TypesUnchanged, Zenon DEF AllTypes
  <2> QED BY <1>1, <2>3, TypesUnchanged, Zenon DEF ProofTimeouts, AllTypes
<1>2. CASE SelectTimedOut \/ UNCHANGED vars
  BY <1>2, TypesUnchanged, Zenon DEF SelectTimedOut, vars, restVars, AllTypes
<1> QED BY <1>1, <1>2, CreateActionType, ActionCallsType, AnswersType, Zenon DEF Next

\* The statuses a KnownTx can be given.
NewStatuses == IF "unfail" \in Features THEN ReqStatuses ELSE ReqStatuses \ {"unfail"}

\* A step leaves the status of a KnownTx as it is or writes one of them: a txid is
\* never taken back.
LEMMA ReqMoves ==
  ASSUME AllTypes, [Next]_vars
  PROVE  \A u \in Txs : reqStatus'[u] = reqStatus[u] \/ reqStatus'[u] \in NewStatuses
<1> DEFINE Moves == \A u \in Txs : reqStatus'[u] = reqStatus[u] \/ reqStatus'[u] \in NewStatuses
<1>t. reqStatus \in [Txs -> ReqStatuses \cup {None}]
  BY Zenon DEF AllTypes, StoreTypeOK
<1>s. /\ {"nosend", "unsent", "unprocessed", "sending", "unmined", "invalidTx", "doubleSpend",
          "completed"} \subseteq NewStatuses
      /\ TerminalFailure \subseteq NewStatuses
      /\ "unfail" \in Features => "unfail" \in NewStatuses
  BY Zenon DEF NewStatuses, ReqStatuses, TerminalFailure
<1>1. ASSUME NEW t \in Txs, NEW picked \in SUBSET Txs,
             \/ CreateTransactionInTx(t, picked)
             \/ FundingContention(t, picked)
             \/ FundingConflict(t, picked)
      PROVE  Moves
  BY <1>1, Zenon DEF CreateTransactionInTx, CreateTransaction, FundingContention,
     FundingConflict, storeVars
<1>2. ASSUME NEW t \in Txs,
             \/ \E provided, noSend \in SUBSET Txs : ReadInputs(t, provided, noSend)
             \/ DropStaleRows(t) \/ FundingFails(t)
             \/ SendWith(t) \/ SendAgain(t) \/ QueueTx(t) \/ MakeChangeSpendableAndIndex(t)
             \/ CallStops(t) \/ SelectForClaim(t) \/ SelectForIndex(t) \/ NotFound(t) \/ Review(t)
             \/ AbortFind(t) \/ SelectAbandoned(t) \/ Release(t)
             \/ MergePayment(t) \/ MergeInsertion(t) \/ RelinquishOutput(t)
      PROVE  Moves
  BY <1>2, Zenon DEF ReadInputs, DropStaleRows, FundingFails, SendWith, SendAgain, QueueTx,
     MakeChangeSpendableAndIndex, CallStops, SelectForClaim, SelectForIndex, NotFound,
     IncreaseKnownTxAttempts, Review, ReviewFailed, AbortFind, SelectAbandoned, Release,
     AbortRelease, MergePayment, MergeInsertion, RelinquishOutput, storeVars
<1>3. ASSUME NEW t \in Txs, \E r \in NewStatuses : reqStatus' = [reqStatus EXCEPT ![t] = r]
      PROVE  Moves
  BY <1>t, <1>3, Zenon
<1>4. ASSUME NEW t \in Txs, NEW s \in TxStatuses, NEW r \in ReqStatuses, Process(t, s, r)
      PROVE  Moves
  <2>1. /\ r \in NewStatuses
        /\ reqStatus' = [reqStatus EXCEPT ![t] = IF @ \in BeyondBroadcastStage THEN @ ELSE r]
    BY <1>s, <1>4, Zenon DEF Process, SpendTransaction
  <2> QED BY <1>t, <2>1, Zenon
<1>5. ASSUME NEW t \in Txs, QueueKnown(t) \/ UnfailRequested(t) PROVE Moves
  BY <1>s, <1>3, <1>5, Zenon DEF QueueKnown, UnfailRequested, UpdateKnownTxStatus, SetReqStatus
<1>6. ASSUME NEW t \in Txs, Claim(t) \/ Park(t) PROVE Moves
  BY <1>s, <1>3, <1>6, Zenon DEF Claim, ClaimKnownTxForBroadcast, Park, ParkUnbroadcastKnownTx,
     storeVars
<1>7. ASSUME NEW t \in Txs, Accepted(t) \/ Rejected(t) \/ ServiceError(t) PROVE Moves
  BY <1>s, <1>3, <1>7, Zenon DEF Accepted, Rejected, ServiceError, UpdateSingleTx, SetReqStatus
<1>8. ASSUME NEW t \in Txs, EventAccepted(t) \/ EventDoubleSpend(t) \/ Mined(t) PROVE Moves
  BY <1>s, <1>3, <1>8, Zenon DEF EventAccepted, AdvanceKnownTxToBroadcasted, EventDoubleSpend,
     FailKnownTxAsDoubleSpend, Mined, UpdateKnownTxAsMined, SetReqStatus
<1>9. ASSUME NEW t \in Txs, UnfailProved(t) \/ UnfailNotFound(t) PROVE Moves
  BY <1>s, <1>3, <1>9, Zenon DEF UnfailProved, UnfailNotFound, UnfailAsUnmined, UnfailAsInvalid,
     SetReqStatus
<1>10. ASSUME NEW t \in Txs, NEW sent \in BOOLEAN, InternalizeNew(t, sent) PROVE Moves
  BY <1>s, <1>3, <1>10, Zenon DEF InternalizeNew
<1>11. ASSUME ProofTimeouts PROVE Moves
  BY <1>s, <1>11, TimeoutMoves, Zenon
<1>12. ASSUME SelectTimedOut \/ UNCHANGED vars PROVE Moves
  BY <1>12, Zenon DEF SelectTimedOut, vars, storeVars
<1> HIDE DEF Moves
<1>13. Moves
  BY <1>1, <1>2, <1>4, <1>5, <1>6, <1>7, <1>8, <1>9, <1>10, <1>11, <1>12, Zenon DEF Next
<1> QED BY <1>13, Zenon DEF Moves

\* The rows a proof timeout works on are read, used up or left alone, and nothing
\* forgets what a heal dropped.
ReadMoves ==
  /\ timedOut' \in {timedOut, NoRows, RowsOf(TimedOut(SyncStatuses))}
  /\ healed \subseteq healed'

\* Every step keeps the types of what is read.
LEMMA ReadStep ==
  ASSUME AllTypes, ReadTypes, [Next]_vars
  PROVE  ReadTypes' /\ ReadMoves
<1>1. \A t \in Txs : reqStatus[t] # None => reqStatus'[t] # None
  BY ReqMoves, Zenon DEF NewStatuses, ReqStatuses, None
<1> DEFINE Kept == UNCHANGED <<claims, timedOut, healed>> /\ indexing' \subseteq indexing
<1>k. Kept => ReadTypes' /\ ReadMoves
  BY <1>1, Zenon DEF ReadTypes, ReadMoves
<1>2. ASSUME NEW t \in Txs, NEW picked \in SUBSET Txs,
             \/ CreateTransactionInTx(t, picked)
             \/ FundingContention(t, picked)
             \/ FundingConflict(t, picked)
      PROVE  Kept
  BY <1>2, Zenon DEF CreateTransactionInTx, FundingContention, FundingConflict, restVars, readVars
<1>3. ASSUME NEW t \in Txs,
             \/ \E provided, noSend \in SUBSET Txs : ReadInputs(t, provided, noSend)
             \/ FundingFails(t)
             \/ \E s \in TxStatuses, r \in ReqStatuses : Process(t, s, r)
             \/ SendWith(t) \/ QueueKnown(t) \/ QueueTx(t) \/ MakeChangeSpendableAndIndex(t)
             \/ CallStops(t) \/ Rejected(t) \/ ServiceError(t)
             \/ EventDoubleSpend(t) \/ Mined(t) \/ NotFound(t) \/ Review(t)
      PROVE  Kept
  BY <1>3, Zenon DEF ReadInputs, FundingFails, Process, SendWith, QueueKnown, QueueTx,
     MakeChangeSpendableAndIndex, CallStops, Rejected, ServiceError, EventDoubleSpend, Mined,
     NotFound, Review, restVars, readVars
<1>4. ASSUME NEW t \in Txs,
             \/ AbortFind(t) \/ SelectAbandoned(t) \/ Park(t) \/ Release(t)
             \/ UnfailRequested(t) \/ UnfailProved(t) \/ UnfailNotFound(t)
             \/ \E sent \in BOOLEAN : InternalizeNew(t, sent)
             \/ MergePayment(t) \/ MergeInsertion(t) \/ RelinquishOutput(t)
      PROVE  Kept
  BY <1>4, Zenon DEF AbortFind, SelectAbandoned, Park, Release, UnfailRequested, UnfailProved,
     UnfailNotFound, InternalizeNew, MergePayment, MergeInsertion, RelinquishOutput, restVars,
     readVars
<1>5. ASSUME NEW t \in Txs, SendAgain(t) \/ Accepted(t) \/ EventAccepted(t) PROVE Kept
  BY <1>5, Zenon DEF SendAgain, Accepted, EventAccepted, CreateUTXOForSpendableOutputs
<1>6. ASSUME NEW t \in Txs, DropStaleRows(t) PROVE ReadTypes' /\ ReadMoves
  <2>1. UNCHANGED <<claims, timedOut, indexing>> /\ healed' \in {healed, healed \cup stale[t]}
    BY <1>6, Zenon DEF DropStaleRows, readVars
  <2>2. stale[t] \in SUBSET Txs
    BY Zenon DEF AllTypes, CallTypes
  <2> QED BY <1>1, <2>1, <2>2, Zenon DEF ReadTypes, ReadMoves
<1>7. ASSUME NEW t \in Txs, SelectForClaim(t) \/ Claim(t) PROVE ReadTypes' /\ ReadMoves
  <2>1. UNCHANGED <<indexing, timedOut, healed>>
    BY <1>7, Zenon DEF SelectForClaim, Claim
  <2>2. claims' \in [Txs -> {None, "selected", "missed"}]
    BY <1>7, Zenon DEF SelectForClaim, Claim, ReadTypes
  <2> QED BY <1>1, <2>1, <2>2, Zenon DEF ReadTypes, ReadMoves
<1>8. ASSUME NEW t \in Txs, SelectForIndex(t) PROVE ReadTypes' /\ ReadMoves
  <2>1. UNCHANGED <<claims, timedOut, healed>> /\ indexing' = indexing \cup {t}
    BY <1>8, Zenon DEF SelectForIndex
  <2> QED BY <1>1, <2>1, Zenon DEF ReadTypes, ReadMoves
<1>9. CASE SelectTimedOut
  <2>1. /\ UNCHANGED <<reqStatus, claims, indexing, healed>>
        /\ timedOut' = RowsOf(TimedOut(SyncStatuses))
    BY <1>9, Zenon DEF SelectTimedOut, storeVars
  <2>2. \A r \in StatusesReadyToSync \cup {"unsent", "nosend"} : r # None
    BY Zenon DEF StatusesReadyToSync, None
  <2> QED BY <2>1, <2>2, ReadsType, Zenon DEF AllTypes, ReadTypes, ReadMoves
<1>10. CASE ProofTimeouts
  <2>1. UNCHANGED <<claims, indexing, healed>> /\ timedOut' = NoRows
    BY <1>10, Zenon DEF ProofTimeouts
  <2> QED BY <2>1, ReadsType, Zenon DEF ReadTypes, ReadMoves
<1>11. CASE UNCHANGED vars
  BY <1>11, <1>k, Zenon DEF vars, restVars, readVars
<1> HIDE DEF Kept
<1> QED BY <1>k, <1>2, <1>3, <1>4, <1>5, <1>6, <1>7, <1>8, <1>9, <1>10, <1>11, Zenon DEF Next

\* The initial rows are of the right type.
LEMMA TypeStart == Init => AllTypes /\ ReadTypes
<1> SUFFICES ASSUME Init PROVE AllTypes /\ ReadTypes
  BY Zenon
<1>1. StoreTypeOK
  <2>1. wasBroadcast \in [Txs -> BOOLEAN] /\ proof \in [Txs -> BOOLEAN]
    <3>1. wasBroadcast = [t \in Txs |-> t \in Received] /\ proof = wasBroadcast
      BY Zenon DEF Init
    <3>2. \A t \in Txs : (t \in Received) \in BOOLEAN
      OBVIOUS
    <3> QED BY <3>1, <3>2, Zenon
  <2>2. attempts \in [Txs -> 0..AttemptCap] /\ rebroadcasts \in [Txs -> 0..MaxRebroadcasts]
    BY StoreAssumption DEF Init, AttemptCap
  <2>3. /\ txStatus \in [Txs -> TxStatuses \cup {None}]
        /\ reqStatus \in [Txs -> ReqStatuses \cup {None}]
        /\ inputs \in [Txs -> InputStates]
    BY Zenon DEF Init, TxStatuses, ReqStatuses, InputStates
  <2> QED BY <2>1, <2>2, <2>3, Zenon DEF StoreTypeOK
<1>2. OutputTypes
  <2>1. spendable \in [Txs -> BOOLEAN] /\ change \in [Txs -> BOOLEAN]
    <3>1. \A t \in Txs : (t \in Received) \in BOOLEAN /\ (t \in Received \ Custom) \in BOOLEAN
      OBVIOUS
    <3> QED BY <3>1, Zenon DEF Init
  <2> QED BY <2>1, Zenon DEF Init, OutputTypes
<1>3. IndexTypes
  BY Zenon DEF Init, IndexTypes, UTXOStatuses
<1>4. CallTypes
  <2>1. NamedInv
    BY LedgerStart, Zenon
  <2>2. attempt \in [Txs -> 0..MaxFundingAttempts] /\ AttemptsLeft
    BY ReservationAssumption DEF Init, AttemptsLeft
  <2> QED BY <2>1, <2>2, Zenon DEF Init, CallTypes, Calls
<1>5. ReadTypes
  BY ReadsType, Zenon DEF Init, ReadTypes
<1> QED BY <1>1, <1>2, <1>3, <1>4, <1>5, Zenon DEF AllTypes

\* Every column and every call stays within its vocabulary, the counters of
\* funding attempts, proof timeouts and rebroadcasts within their limits, on either
\* engine: a proof timeout that writes from a stale read keeps the budget.
THEOREM LedgerTypeCorrect == Spec => []TypeOK
<1>1. Init => AllTypes /\ ReadTypes
  BY TypeStart, Zenon
<1>2. AllTypes /\ ReadTypes /\ [Next]_vars => AllTypes' /\ ReadTypes'
  BY TypeStep, ReadStep, Zenon
<1> QED BY <1>1, <1>2, TypeGroups, PTL DEF Spec

-----------------------------------------------------------------------------
(* Reservations, whatever flows run. *)

\* An unsigned action has no txid yet, an action being created no row.
OwnerStatus(t) ==
  /\ txStatus[t] \in {None, "unsigned"} => reqStatus[t] = None
  /\ call[t] \in Fresh => txStatus[t] = None

OwnersInv == ReservationsHaveOwners /\ \A t \in Txs : OwnerStatus(t)

\* A step of one transaction that reserves nothing, and leaves nothing reserved
\* by the transaction when it stops being unsigned.
OwnersAt(t) ==
  /\ \A u \in Txs \ {t} :
       txStatus'[u] = txStatus[u] /\ reqStatus'[u] = reqStatus[u] /\ call'[u] = call[u]
  /\ OwnerStatus(t)'
  /\ \A o \in Txs : reservedBy'[o] \in {reservedBy[o], None}
  /\ \/ txStatus[t] # "unsigned"
     \/ txStatus'[t] = "unsigned"
     \/ \A o \in Txs : reservedBy'[o] # t

\* Such a step keeps the invariant.
LEMMA OwnersStep ==
  ASSUME NEW t \in Txs, AllTypes, OwnersInv, OwnersAt(t)
  PROVE  OwnersInv'
<1>1. ASSUME NEW u \in Txs PROVE OwnerStatus(u)'
  <2>1. CASE u = t
    BY <2>1, Zenon DEF OwnersAt
  <2>2. CASE u # t
    BY <2>2, Zenon DEF OwnersAt, OwnersInv, OwnerStatus
  <2> QED BY <2>1, <2>2, Zenon
<1>2. ASSUME NEW o \in Txs, reservedBy'[o] # None
      PROVE  txStatus'[reservedBy'[o]] = "unsigned"
  <2>1. /\ reservedBy'[o] = reservedBy[o] /\ reservedBy[o] \in Txs
        /\ txStatus[reservedBy[o]] = "unsigned"
    BY <1>2, Zenon DEF OwnersAt, OwnersInv, ReservationsHaveOwners, AllTypes, IndexTypes
  <2> QED BY <2>1, Zenon DEF OwnersAt
<1> QED BY <1>1, <1>2, Zenon DEF OwnersInv, ReservationsHaveOwners

\* No write to the index but createAction's reserves a row.
LEMMA RowsFreed ==
  ASSUME AllTypes, NEW t \in Txs
  PROVE  /\ \A os, st : CreateUTXOs(os, st)
                          => \A o \in Txs : reservedBy'[o] \in {reservedBy[o], None}
         /\ \A os : DeleteRows(os) => \A o \in Txs : reservedBy'[o] \in {reservedBy[o], None}
         /\ RestoreRows(t) => \A o \in Txs : /\ reservedBy'[o] \in {reservedBy[o], None}
                                             /\ reservedBy'[o] # t
         /\ UNCHANGED indexVars => \A o \in Txs : reservedBy'[o] \in {reservedBy[o], None}
<1>1. ASSUME NEW os, NEW st, CreateUTXOs(os, st), NEW o \in Txs
      PROVE  reservedBy'[o] \in {reservedBy[o], None}
  BY <1>1, Zenon DEF CreateUTXOs
<1>2. ASSUME NEW os, DeleteRows(os), NEW o \in Txs
      PROVE  reservedBy'[o] \in {reservedBy[o], None}
  BY <1>2, Zenon DEF DeleteRows
<1>3. ASSUME RestoreRows(t), NEW o \in Txs
      PROVE  reservedBy'[o] \in {reservedBy[o], None} /\ reservedBy'[o] # t
  BY <1>3, ReservationAssumption, Zenon DEF RestoreRows
<1>4. UNCHANGED indexVars => \A o \in Txs : reservedBy'[o] \in {reservedBy[o], None}
  BY Zenon DEF indexVars
<1> QED BY <1>1, <1>2, <1>3, <1>4, Zenon

\* createAction before, between and after its funding transactions.
LEMMA FundingOwners ==
  ASSUME NEW t \in Txs, AllTypes, OwnersInv,
         \/ \E provided, noSend \in SUBSET Txs : ReadInputs(t, provided, noSend)
         \/ \E picked \in SUBSET Txs : FundingContention(t, picked)
         \/ \E picked \in SUBSET Txs : FundingConflict(t, picked)
         \/ DropStaleRows(t)
         \/ FundingFails(t)
  PROVE  OwnersAt(t)
<1>1. /\ call[t] \in Fresh
      /\ \E p \in Fresh : call' = [call EXCEPT ![t] = p]
      /\ UNCHANGED <<txStatus, reqStatus>>
      /\ UNCHANGED indexVars \/ \E os \in SUBSET Txs : DeleteRows(os)
  <2>1. CASE DropStaleRows(t)
    <3>1. stale[t] \in SUBSET Txs
      BY Zenon DEF AllTypes, CallTypes
    <3> QED BY <2>1, <3>1, Zenon DEF DropStaleRows, RetryFunding, Goto, Fresh, storeVars
  <2>2. CASE ~DropStaleRows(t)
    BY <2>2, Zenon DEF ReadInputs, FundingContention, FundingConflict, FundingFails, Funding,
       RetryFunding, Goto, Fresh, storeVars
  <2> QED BY <2>1, <2>2, Zenon
<1>2. \A o \in Txs : reservedBy'[o] \in {reservedBy[o], None}
  BY <1>1, RowsFreed, Zenon
<1>3. OwnerStatus(t) /\ call \in [Txs -> Calls]
  BY Zenon DEF OwnersInv, AllTypes, CallTypes
<1> QED BY <1>1, <1>2, <1>3, Zenon DEF OwnersAt, OwnerStatus, None

\* createAction reserves for the row it makes.
LEMMA CreateOwners ==
  ASSUME NEW t \in Txs, NEW picked \in SUBSET Txs, AllTypes, OwnersInv,
         CreateTransactionInTx(t, picked)
  PROVE  OwnersInv'
<1>1. /\ call[t] = "read" /\ txStatus[t] = None
      /\ txStatus' = [txStatus EXCEPT ![t] = "unsigned"] /\ reqStatus' = reqStatus
      /\ call' = [call EXCEPT ![t] = "idle"]
      /\ \A o \in Txs : reservedBy'[o] \in {reservedBy[o], t}
  BY Zenon DEF CreateTransactionInTx, Funding, CreateTransaction, SetTxStatus, Goto
<1>2. /\ txStatus \in [Txs -> TxStatuses \cup {None}] /\ call \in [Txs -> Calls]
      /\ reservedBy \in [Txs -> Txs \cup {None}]
  BY Zenon DEF AllTypes, StoreTypeOK, CallTypes, IndexTypes
<1>3. \A u \in Txs : OwnerStatus(u)'
  BY <1>1, <1>2, Zenon DEF OwnersInv, OwnerStatus, Fresh, None
<1>4. ASSUME NEW o \in Txs, reservedBy'[o] # None
      PROVE  txStatus'[reservedBy'[o]] = "unsigned"
  <2>1. CASE reservedBy'[o] = t
    BY <1>1, <1>2, <2>1, Zenon
  <2>2. CASE reservedBy'[o] # t
    <3>1. reservedBy'[o] = reservedBy[o] /\ reservedBy[o] \in Txs
      BY <1>1, <1>2, <1>4, <2>2, Zenon
    <3>2. txStatus[reservedBy[o]] = "unsigned"
      BY <1>4, <3>1, Zenon DEF OwnersInv, ReservationsHaveOwners
    <3> QED BY <1>1, <1>2, <2>2, <3>1, <3>2, Zenon
  <2> QED BY <2>1, <2>2, Zenon
<1> QED BY <1>3, <1>4, Zenon DEF OwnersInv, ReservationsHaveOwners

\* ProcessAction removes the rows its action reserved; the delayed queue, the claim
\* and the search for something to abort reserve nothing.
LEMMA ProcessOwners ==
  ASSUME NEW t \in Txs, AllTypes, OwnersInv,
         \/ \E s \in TxStatuses, r \in ReqStatuses : Process(t, s, r)
         \/ SendWith(t) \/ SendAgain(t) \/ QueueKnown(t) \/ QueueTx(t)
             \/ MakeChangeSpendableAndIndex(t)
         \/ CallStops(t) \/ SelectForClaim(t) \/ Claim(t) \/ SelectForIndex(t)
         \/ AbortFind(t) \/ SelectAbandoned(t) \/ Park(t) \/ Release(t)
  PROVE  OwnersAt(t)
<1>0. /\ OwnerStatus(t) /\ call \in [Txs -> Calls]
      /\ txStatus \in [Txs -> TxStatuses \cup {None}]
      /\ reqStatus \in [Txs -> ReqStatuses \cup {None}]
  BY Zenon DEF OwnersInv, AllTypes, CallTypes, StoreTypeOK
<1>1. ASSUME NEW s \in TxStatuses, NEW r \in ReqStatuses, Process(t, s, r) PROVE OwnersAt(t)
  <2>1. /\ s \in {"nosend", "unprocessed"} /\ call[t] = "idle"
        /\ txStatus' = [txStatus EXCEPT ![t] = s]
        /\ \E q : reqStatus' = [reqStatus EXCEPT ![t] = q]
        /\ \E p \in {"idle", "stored"} : call' = [call EXCEPT ![t] = p]
        /\ DeleteRows({o \in Txs : reservedBy[o] = t})
    BY <1>1, Zenon DEF Process, SpendTransaction, SetTxStatus, Goto
  <2>2. \A o \in Txs : reservedBy'[o] \in {reservedBy[o], None} /\ reservedBy'[o] # t
    BY <2>1, ReservationAssumption, Zenon DEF DeleteRows
  <2> QED BY <1>0, <2>1, <2>2, Zenon DEF OwnersAt, OwnerStatus, Fresh, None
<1>2. CASE \/ SendWith(t) \/ MakeChangeSpendableAndIndex(t) \/ CallStops(t)
           \/ AbortFind(t) \/ SelectAbandoned(t)
  <2>1. /\ UNCHANGED <<txStatus, reqStatus>>
        /\ \E p \in Calls \ Fresh : call' = [call EXCEPT ![t] = p]
    BY <1>2, Zenon DEF SendWith, MakeChangeSpendableAndIndex, CallStops, AbortFind,
       SelectAbandoned, Goto, storeVars, Calls, Fresh
  <2>2. UNCHANGED indexVars \/ \E os, st : CreateUTXOs(os, st)
    BY <1>2, Zenon DEF SendWith, MakeChangeSpendableAndIndex, CallStops, AbortFind,
       SelectAbandoned
  <2>3. \A o \in Txs : reservedBy'[o] \in {reservedBy[o], None}
    BY <2>2, RowsFreed, Zenon
  <2> QED BY <1>0, <2>1, <2>3, Zenon DEF OwnersAt, OwnerStatus
<1>3. CASE QueueKnown(t) \/ Claim(t) \/ Park(t)
  <2>1. /\ UNCHANGED <<txStatus, reservedBy>>
        /\ call' = call \/ \E p \in Calls \ Fresh : call' = [call EXCEPT ![t] = p]
        /\ \/ UNCHANGED reqStatus
           \/ reqStatus[t] # None /\ \E r : reqStatus' = [reqStatus EXCEPT ![t] = r]
    <3>1. CASE QueueKnown(t)
      BY <3>1, Zenon DEF QueueKnown, UpdateKnownTxStatus, ReqUpdateApplies, HasTxID, SetReqStatus,
         Goto, indexVars, Calls, Fresh
    <3>2. CASE Claim(t)
      BY <3>2, Zenon
          DEF Claim, ClaimBegins, ClaimKnownTxForBroadcast, ClaimableForBroadcast, Goto,
         indexVars, Calls, Fresh, None
    <3>3. CASE Park(t)
      BY <3>3, Zenon DEF Park, ParkUnbroadcastKnownTx, HasTxID, Goto, storeVars, indexVars, Calls,
         Fresh
    <3> QED BY <1>3, <3>1, <3>2, <3>3, Zenon
  <2> QED BY <1>0, <2>1, Zenon DEF OwnersAt, OwnerStatus
<1>4. CASE QueueTx(t)
  <2>1. /\ UNCHANGED <<reqStatus, reservedBy>> /\ call' = [call EXCEPT ![t] = "queuedTx"]
        /\ \/ UNCHANGED txStatus
           \/ txStatus[t] = "unprocessed" /\ txStatus' = [txStatus EXCEPT ![t] = "sending"]
    BY <1>4, Zenon DEF QueueTx, CompareAndSetTxStatus, Goto, indexVars
  <2> QED BY <1>0, <2>1, Zenon DEF OwnersAt, OwnerStatus, Fresh, None
<1>5. CASE Release(t)
  <2>1. /\ reqStatus' = reqStatus /\ call' = [call EXCEPT ![t] = "idle"]
        /\ \/ txStatus' = [txStatus EXCEPT ![t] = "aborted"] /\ RestoreRows(t)
           \/ UNCHANGED <<txStatus, indexVars>>
    BY <1>5, Zenon DEF Release, AbortRelease, SetTxStatus, Goto, storeVars
  <2>2. CASE txStatus' = [txStatus EXCEPT ![t] = "aborted"] /\ RestoreRows(t)
    BY <1>0, <2>1, <2>2, RowsFreed, Zenon DEF OwnersAt, OwnerStatus, Fresh, None
  <2>3. CASE UNCHANGED <<txStatus, indexVars>>
    BY <1>0, <2>1, <2>3, RowsFreed, Zenon DEF OwnersAt, OwnerStatus, Fresh
  <2> QED BY <2>1, <2>2, <2>3, Zenon
<1>6. CASE SelectForClaim(t) \/ SelectForIndex(t)
  <2>1. /\ UNCHANGED <<txStatus, reqStatus, reservedBy>>
        /\ call' = call \/ call' = [call EXCEPT ![t] = "idle"]
    BY <1>6, Zenon DEF SelectForClaim, ClaimBegins, SelectForIndex, Goto, storeVars, indexVars
  <2>2. call' = [call EXCEPT ![t] = "idle"] => call'[t] \notin Fresh
    BY <1>0, Zenon DEF Fresh
  <2> QED BY <1>0, <2>1, <2>2, Zenon DEF OwnersAt, OwnerStatus
<1>7. CASE SendAgain(t)
  <2>1. UNCHANGED <<txStatus, reqStatus, call>> /\ \E os, st : CreateUTXOs(os, st)
    BY <1>7, Zenon DEF SendAgain, CreateUTXOForSpendableOutputs, storeVars
  <2>2. \A o \in Txs : reservedBy'[o] \in {reservedBy[o], None}
    BY <2>1, RowsFreed, Zenon
  <2> QED BY <1>0, <2>1, <2>2, Zenon DEF OwnersAt, OwnerStatus
<1> QED BY <1>1, <1>2, <1>3, <1>4, <1>5, <1>6, <1>7, Zenon

\* Results, events, proofs, reviews, the unfail task, merges and relinquished
\* outputs move the status only of a transaction that has a txid.
LEMMA AnswerOwners ==
  ASSUME NEW t \in Txs, AllTypes, OwnersInv,
         \/ Accepted(t) \/ Rejected(t) \/ ServiceError(t)
         \/ EventAccepted(t) \/ EventDoubleSpend(t) \/ Mined(t) \/ NotFound(t) \/ Review(t)
         \/ UnfailRequested(t) \/ UnfailProved(t) \/ UnfailNotFound(t)
         \/ MergePayment(t) \/ MergeInsertion(t) \/ RelinquishOutput(t)
  PROVE  OwnersAt(t)
<1>0. /\ OwnerStatus(t)
      /\ txStatus \in [Txs -> TxStatuses \cup {None}]
      /\ reqStatus \in [Txs -> ReqStatuses \cup {None}]
  BY Zenon DEF OwnersInv, AllTypes, StoreTypeOK
<1> DEFINE Moves ==
      \/ UNCHANGED <<txStatus, reqStatus>>
      \/ /\ reqStatus[t] # None
         /\ reqStatus' = reqStatus \/ \E r : reqStatus' = [reqStatus EXCEPT ![t] = r]
         /\ \/ txStatus' = txStatus
            \/ \E s \in TxStatuses \ {"unsigned"} : txStatus' = [txStatus EXCEPT ![t] = s]
<1>s. {"unproven", "failed", "sending", "completed"} \subseteq TxStatuses \ {"unsigned"}
  BY Zenon DEF TxStatuses
<1>1. Moves
  <2>1. CASE Accepted(t) \/ Rejected(t) \/ ServiceError(t)
    <3>1. PICK s \in {"unproven", "failed", "sending"} : \E r : UpdateSingleTx(t, r, s)
      BY <2>1, Zenon DEF Accepted, Rejected, ServiceError
    <3> QED BY <1>s, <3>1, Zenon DEF UpdateSingleTx, ReqUpdateApplies, HasTxID, SetReqStatus,
               CompareAndSetTxStatus
  <2>2. CASE EventAccepted(t)
    BY <1>s, <2>2, Zenon
        DEF EventAccepted, AdvanceKnownTxToBroadcasted, ReqUpdateApplies, HasTxID,
       SetReqStatus, SetTxStatus
  <2>3. CASE EventDoubleSpend(t)
    BY <1>s, <2>3, Zenon
        DEF EventDoubleSpend, FailKnownTxAsDoubleSpend, ReqUpdateApplies, HasTxID,
       SetReqStatus, SetTxStatus
  <2>4. CASE Mined(t)
    BY <1>s, <2>4, Zenon DEF Mined, UpdateKnownTxAsMined, HasTxID, SetReqStatus, SetTxStatus
  <2>5. CASE Review(t)
    <3>1. reqStatus[t] # None
      BY <2>5, Zenon DEF Review, TerminalFailure, None
    <3> QED BY <1>s, <2>5, <3>1, Zenon DEF Review, ReviewFailed, SetTxStatus
  <2>6. CASE UnfailRequested(t)
    BY <2>6, Zenon DEF UnfailRequested, UpdateKnownTxStatus, ReqUpdateApplies, HasTxID,
       SetReqStatus
  <2>7. CASE UnfailProved(t) \/ UnfailNotFound(t)
    <3>1. reqStatus[t] # None
      BY <2>7, Zenon DEF UnfailProved, UnfailNotFound, None
    <3> QED BY <1>s, <2>7, <3>1, Zenon DEF UnfailProved, UnfailNotFound, UnfailAsUnmined,
               UnfailAsInvalid, SetReqStatus, SetTxStatus
  <2>8. CASE NotFound(t) \/ MergePayment(t) \/ MergeInsertion(t) \/ RelinquishOutput(t)
    BY <2>8, Zenon DEF NotFound, IncreaseKnownTxAttempts, MergePayment, MergeInsertion,
       RelinquishOutput, storeVars
  <2> QED BY <2>1, <2>2, <2>3, <2>4, <2>5, <2>6, <2>7, <2>8, Zenon
<1>2. \A o \in Txs : reservedBy'[o] \in {reservedBy[o], None}
  <2>1. \/ UNCHANGED indexVars
        \/ UNCHANGED reservedBy
        \/ \E os, st : CreateUTXOs(os, st)
        \/ \E os : DeleteRows(os)
    <3>1. CASE Accepted(t) \/ EventAccepted(t)
      BY <3>1, Zenon DEF Accepted, EventAccepted, CreateUTXOForSpendableOutputs
    <3>2. CASE UnfailProved(t) \/ UnfailNotFound(t)
      BY <3>2, Zenon DEF UnfailProved, UnfailNotFound
    <3>3. CASE RelinquishOutput(t)
      BY <3>3, Zenon DEF RelinquishOutput
    <3>4. CASE \/ Rejected(t) \/ ServiceError(t) \/ EventDoubleSpend(t) \/ Mined(t) \/ NotFound(t)
               \/ Review(t) \/ UnfailRequested(t) \/ MergePayment(t) \/ MergeInsertion(t)
      BY <3>4, Zenon DEF Rejected, ServiceError, EventDoubleSpend, Mined, NotFound, Review,
         UnfailRequested, MergePayment, MergeInsertion
    <3> QED BY <3>1, <3>2, <3>3, <3>4, Zenon
  <2> QED BY <2>1, RowsFreed, Zenon
<1>3. UNCHANGED call
  BY Zenon DEF Accepted, Rejected, ServiceError, EventAccepted, EventDoubleSpend, Mined, NotFound,
     Review, UnfailRequested, UnfailProved, UnfailNotFound, MergePayment, MergeInsertion,
     RelinquishOutput
<1>4. CASE UNCHANGED <<txStatus, reqStatus>>
  BY <1>0, <1>2, <1>3, <1>4, Zenon DEF OwnersAt, OwnerStatus
<1>5. CASE ~UNCHANGED <<txStatus, reqStatus>>
  <2>1. txStatus[t] \notin {None, "unsigned"} /\ call[t] \notin Fresh
    BY <1>0, <1>1, <1>5, Zenon DEF OwnerStatus
  <2>2. txStatus'[t] \notin {None, "unsigned"}
    BY <1>0, <1>1, <1>5, <2>1, Zenon DEF TxStatuses, None
  <2>3. \A u \in Txs \ {t} : txStatus'[u] = txStatus[u] /\ reqStatus'[u] = reqStatus[u]
    BY <1>0, <1>1, Zenon
  <2> QED BY <1>2, <1>3, <2>1, <2>2, <2>3, Zenon DEF OwnersAt, OwnerStatus
<1> QED BY <1>4, <1>5, Zenon

\* A transaction somebody else made starts without reservations.
LEMMA InternalizeOwners ==
  ASSUME NEW t \in Txs, NEW sent \in BOOLEAN, AllTypes, OwnersInv, InternalizeNew(t, sent)
  PROVE  OwnersAt(t)
<1>1. /\ call[t] = "none" /\ call' = [call EXCEPT ![t] = "idle"]
      /\ \E s \in {"unproven", "sending"} : txStatus' = [txStatus EXCEPT ![t] = s]
      /\ \E r : reqStatus' = [reqStatus EXCEPT ![t] = r]
      /\ UNCHANGED reservedBy
  BY Zenon DEF InternalizeNew, Goto
<1>2. /\ OwnerStatus(t) /\ call \in [Txs -> Calls]
      /\ txStatus \in [Txs -> TxStatuses \cup {None}]
      /\ reqStatus \in [Txs -> ReqStatuses \cup {None}]
  BY Zenon DEF OwnersInv, AllTypes, CallTypes, StoreTypeOK
<1> QED BY <1>1, <1>2, Zenon DEF OwnersAt, OwnerStatus, Fresh, None

\* A proof timeout moves the KnownTx of transactions that have a txid.
LEMMA TimeoutsOwners ==
  ASSUME AllTypes, ReadTypes, OwnersInv, SelectTimedOut \/ ProofTimeouts
  PROVE  OwnersInv'
<1>1. UNCHANGED <<txStatus, call, reservedBy>>
  BY TimeoutMoves, Zenon DEF SelectTimedOut, ProofTimeouts, storeVars, indexVars
<1>2. \A t \in Txs : reqStatus[t] = None => reqStatus'[t] = None
  <2>1. \A r \in StatusesReadyToSync \cup {"unsent", "nosend"} : r # None
    BY Zenon DEF StatusesReadyToSync, None
  <2>2. SelectTimedOut => UNCHANGED reqStatus
    BY Zenon DEF SelectTimedOut, storeVars
  <2> QED BY <2>1, <2>2, TimeoutMoves, Zenon DEF ReadTypes
<1> QED BY <1>1, <1>2, Zenon DEF OwnersInv, OwnerStatus, ReservationsHaveOwners

\* The invariant holds initially: nothing is reserved.
LEMMA OwnersStart == Init => OwnersInv
BY DEF Init, OwnersInv, OwnerStatus, ReservationsHaveOwners, Fresh, None

\* Every step keeps the owners of the reservations.
LEMMA OwnersNext ==
  ASSUME AllTypes, ReadTypes, OwnersInv, [Next]_vars
  PROVE  OwnersInv'
<1>1. CASE UNCHANGED vars
  BY <1>1, Zenon DEF vars, storeVars, indexVars, OwnersInv, OwnerStatus, ReservationsHaveOwners
<1> QED BY <1>1, FundingOwners, CreateOwners, ProcessOwners, AnswerOwners, InternalizeOwners,
           TimeoutsOwners, OwnersStep, Zenon DEF Next

\* Whatever flows run together, a reserved row belongs to an action that can still
\* be signed or aborted: no funds are locked for good.  It holds on either engine.
THEOREM ReservationsOwned == Spec => []ReservationsHaveOwners
<1>1. Init => AllTypes /\ ReadTypes /\ OwnersInv
  BY TypeStart, OwnersStart, Zenon
<1>2. AllTypes /\ ReadTypes /\ OwnersInv /\ [Next]_vars
        => AllTypes' /\ ReadTypes' /\ OwnersInv'
  BY TypeStep, ReadStep, OwnersNext, Zenon
<1>3. OwnersInv => ReservationsHaveOwners
  BY Zenon DEF OwnersInv
<1> QED BY <1>1, <1>2, <1>3, PTL DEF Spec

-----------------------------------------------------------------------------
(* Outputs come back only by aborts. *)

\* A spent output keeps its spender, or the spender is aborted by the step.
SpentKept ==
  \A o \in Txs : spentBy[o] # None /\ spentBy'[o] # spentBy[o]
                   => txStatus'[spentBy[o]] = "aborted"

\* Without the unfail task no KnownTx is in its status.
NoUnfail == \A t \in Txs : reqStatus[t] # "unfail"

LEMMA UnfailStep ==
  ASSUME NoUnspending, AllTypes, NoUnfail, [Next]_vars
  PROVE  NoUnfail'
BY ReqMoves, Zenon DEF NoUnfail, NoUnspending, NewStatuses

\* A step that writes no spent_by and takes no row.
NothingTaken ==
  UNCHANGED spentBy /\ \A o \in Txs : reservedBy'[o] \in {reservedBy[o], None}

\* Only createAction, which takes free outputs, and the commit of an abort write
\* spent_by, and only createAction takes a row, on either engine.
LEMMA TakenMoves ==
  ASSUME NoUnspending, AllTypes, NoUnfail, [Next]_vars
  PROVE  \/ \E t \in Txs, picked \in SUBSET Txs : CreateTransactionInTx(t, picked)
         \/ \E t \in Txs : Release(t)
         \/ NothingTaken
<1>f. /\ \A os, st : CreateUTXOs(os, st) \/ DeleteRows(os)
                      => \A o \in Txs : reservedBy'[o] \in {reservedBy[o], None}
      /\ UNCHANGED reservedBy => \A o \in Txs : reservedBy'[o] \in {reservedBy[o], None}
  BY Zenon DEF CreateUTXOs, DeleteRows
<1>1. ASSUME NEW t \in Txs,
             \/ \E provided, noSend \in SUBSET Txs : ReadInputs(t, provided, noSend)
             \/ \E picked \in SUBSET Txs : FundingContention(t, picked)
             \/ \E picked \in SUBSET Txs : FundingConflict(t, picked)
             \/ FundingFails(t)
             \/ SendWith(t) \/ QueueKnown(t) \/ QueueTx(t) \/ CallStops(t)
             \/ SelectForClaim(t) \/ Claim(t) \/ SelectForIndex(t)
             \/ ServiceError(t) \/ EventDoubleSpend(t) \/ Mined(t) \/ NotFound(t)
             \/ AbortFind(t) \/ SelectAbandoned(t) \/ Park(t)
      PROVE  UNCHANGED <<spentBy, reservedBy>>
  BY <1>1, Zenon DEF ReadInputs, FundingContention, FundingConflict, FundingFails, SendWith,
     QueueKnown, QueueTx, CallStops, SelectForClaim, Claim, SelectForIndex, ServiceError,
     EventDoubleSpend, Mined, NotFound, AbortFind, SelectAbandoned, Park, outputVars, indexVars
<1>2. ASSUME NEW t \in Txs, Rejected(t) \/ Review(t) PROVE UNCHANGED <<spentBy, reservedBy>>
  BY <1>2, Zenon DEF Rejected, Review, MarkCreatedOutputsAsNotSpendable, outputVars, indexVars
<1>3. ASSUME NEW t \in Txs, \E sent \in BOOLEAN : InternalizeNew(t, sent)
      PROVE  UNCHANGED <<spentBy, reservedBy>>
  BY <1>3, Zenon DEF InternalizeNew
<1>4. ASSUME NEW t \in Txs,
             \/ DropStaleRows(t) \/ \E s \in TxStatuses, r \in ReqStatuses : Process(t, s, r)
             \/ RelinquishOutput(t)
      PROVE  NothingTaken
  <2>1. UNCHANGED spentBy /\ (UNCHANGED reservedBy \/ \E os : DeleteRows(os))
    BY <1>4, Zenon DEF DropStaleRows, Process, RelinquishOutput, outputVars, indexVars
  <2> QED BY <1>f, <2>1, Zenon DEF NothingTaken
<1>5. ASSUME NEW t \in Txs,
             \/ SendAgain(t) \/ MakeChangeSpendableAndIndex(t)
             \/ Accepted(t) \/ EventAccepted(t)
      PROVE  NothingTaken
  <2>1. UNCHANGED spentBy /\ (UNCHANGED reservedBy \/ \E os, st : CreateUTXOs(os, st))
    BY <1>5, Zenon DEF SendAgain, MakeChangeSpendableAndIndex, Accepted, EventAccepted,
       CreateUTXOForSpendableOutputs, outputVars, indexVars
  <2> QED BY <1>f, <2>1, Zenon DEF NothingTaken
<1>6. ASSUME NEW t \in Txs
      PROVE  ~(\/ UnfailRequested(t) \/ UnfailProved(t) \/ UnfailNotFound(t)
               \/ MergePayment(t) \/ MergeInsertion(t))
  BY Zenon DEF NoUnspending, NoUnfail, UnfailRequested, UnfailProved, UnfailNotFound,
     MergePayment, MergeInsertion
<1>7. ASSUME SelectTimedOut \/ ProofTimeouts \/ UNCHANGED vars
      PROVE  UNCHANGED <<spentBy, reservedBy>>
  BY <1>7, Zenon DEF SelectTimedOut, ProofTimeouts, vars, outputVars, indexVars
<1>8. UNCHANGED <<spentBy, reservedBy>> => NothingTaken
  BY <1>f, Zenon DEF NothingTaken
<1> QED BY <1>1, <1>2, <1>3, <1>4, <1>5, <1>6, <1>7, <1>8, Zenon DEF Next

\* So a spent output keeps its spender.
LEMMA SpentStep ==
  ASSUME NoUnspending, AllTypes, NoUnfail, [Next]_vars
  PROVE  SpentKept
<1>1. ASSUME NEW t \in Txs, NEW picked \in SUBSET Txs, CreateTransactionInTx(t, picked)
      PROVE  SpentKept
  BY <1>1, Zenon DEF CreateTransactionInTx, Claimable, SpentKept
<1>2. ASSUME NEW t \in Txs, Release(t) PROVE SpentKept
  <2>1. CASE AbortRelease(t) /\ RecreateSpentOutputs(t)
    BY <2>1, Zenon
        DEF AbortRelease, SetTxStatus, RecreateSpentOutputs, SpentKept, AllTypes, StoreTypeOK
  <2>2. CASE UNCHANGED outputVars
    BY <2>2, Zenon DEF outputVars, SpentKept
  <2> QED BY <1>2, <2>1, <2>2, Zenon DEF Release
<1>3. NothingTaken => SpentKept
  BY Zenon DEF NothingTaken, SpentKept
<1> QED BY <1>1, <1>2, <1>3, TakenMoves, Zenon

\* Nothing is unfailed at the start.
LEMMA UnfailStart == Init => NoUnfail
<1>1. Init => reqStatus = [t \in Txs |-> IF t \in Received THEN "completed" ELSE None]
  BY Zenon DEF Init
<1>2. "completed" # "unfail" /\ None # "unfail"
  BY Zenon DEF None
<1> QED BY <1>1, <1>2, Zenon DEF NoUnfail

\* An output comes back from its spender only when the spender is aborted: no
\* rejection, review, timeout or failed funding attempt frees an input, on either
\* engine.
THEOREM SpentStaysSpent ==
  ASSUME NoUnspending
  PROVE  Spec => SpentUntilAborted
<1> DEFINE Facts == AllTypes /\ ReadTypes /\ NoUnfail
<1>1. Init => Facts
  BY TypeStart, UnfailStart, Zenon
<1>2. Facts /\ [Next]_vars => Facts'
  BY TypeStep, ReadStep, UnfailStep, Zenon
<1>3. Facts /\ [Next]_vars => [SpentKept]_vars
  BY SpentStep, Zenon
<1>4. SpentKept => \A o \in Txs : spentBy[o] # None /\ spentBy'[o] # spentBy[o]
                                    => txStatus'[spentBy[o]] = "aborted"
  BY Zenon DEF SpentKept
<1> HIDE DEF Facts
<1> QED BY <1>1, <1>2, <1>3, <1>4, PTL DEF Spec, SpentUntilAborted, SpentKept

-----------------------------------------------------------------------------
(* The claim index agrees with the spend truth. *)

\* An output and its index row: what is spendable is unspent, only change has a
\* row, and a transaction that does not exist has no output that anybody spends.
RowInv(o) ==
  /\ spendable[o] => spentBy[o] = None
  /\ utxoStatus[o] # None => change[o]
  /\ txStatus[o] = None => spentBy[o] = None /\ utxoStatus[o] = None
  /\ reservedBy[o] # None => spentBy[o] = reservedBy[o]
  /\ utxoStatus[o] # None /\ spentBy[o] # None => reservedBy[o] = spentBy[o]

\* What a createAction names exists, and what it took for a custom output is none
\* of the wallet's change.
NamesExist ==
  \A t, o \in Txs :
    /\ o \in named[t].change \cup named[t].known \cup named[t].noSend => txStatus[o] # None
    /\ o \in named[t].known => ~change[o]

IndexInv == NamesExist /\ \A o \in Txs : RowInv(o)

\* A step that writes no row but one of an existing transaction's unspent output.
RowsQuiet ==
  /\ UNCHANGED <<spentBy, named, change>>
  /\ \A o \in Txs :
       /\ txStatus[o] # None => txStatus'[o] # None
       /\ spendable'[o] => spendable[o] \/ spentBy[o] = None
       /\ \/ utxoStatus'[o] = utxoStatus[o] /\ reservedBy'[o] = reservedBy[o]
          \/ utxoStatus'[o] = None /\ reservedBy'[o] = None
          \/ /\ utxoStatus[o] # None \/ (spentBy[o] = None /\ change[o])
             /\ reservedBy'[o] = reservedBy[o] \/ (reservedBy'[o] = None /\ spentBy[o] = None)
             /\ txStatus[o] # None

\* Such a step keeps the invariant.
LEMMA RowsQuietStep ==
  ASSUME AllTypes, IndexInv, RowsQuiet
  PROVE  IndexInv'
<1>1. NamesExist'
  BY Zenon DEF IndexInv, NamesExist, RowsQuiet, AllTypes, CallTypes, NamedInv
<1>2. ASSUME NEW o \in Txs PROVE RowInv(o)'
  BY Zenon DEF IndexInv, RowInv, RowsQuiet
<1> QED BY <1>1, <1>2, Zenon DEF IndexInv

\* A row is made for an output that nobody spends.
LEMMA NewRowsQuiet ==
  ASSUME NEW t \in Txs, NEW os \in SUBSET {t}, NEW st, CreateUTXOs(os, st),
         \A o \in os : /\ change[o] /\ spentBy[o] = None
                       /\ txStatus[o] # None \/ st[o] = txStatus[o]
  PROVE  \A o \in Txs :
           \/ utxoStatus'[o] = utxoStatus[o] /\ reservedBy'[o] = reservedBy[o]
           \/ /\ spentBy[o] = None /\ change[o] /\ txStatus[o] # None
              /\ reservedBy'[o] = None
BY Zenon DEF CreateUTXOs, ToUTXOStatus, None

\* A transactions row is never removed.
LEMMA TxStays ==
  ASSUME AllTypes, [Next]_vars
  PROVE  \A u \in Txs : txStatus[u] # None => txStatus'[u] # None
<1> DEFINE Moves == \/ txStatus' = txStatus
                    \/ \E t \in Txs, s \in TxStatuses : txStatus' = [txStatus EXCEPT ![t] = s]
<1>s. {"unsigned", "sending", "unproven", "failed", "completed", "aborted"} \subseteq TxStatuses
  BY Zenon DEF TxStatuses
<1>1. ASSUME NEW t \in Txs, NEW picked \in SUBSET Txs,
             \/ CreateTransactionInTx(t, picked)
             \/ FundingContention(t, picked)
             \/ FundingConflict(t, picked)
      PROVE  Moves
  BY <1>s, <1>1, Zenon DEF CreateTransactionInTx, CreateTransaction, SetTxStatus,
     FundingContention, FundingConflict, storeVars
<1>2. ASSUME NEW t \in Txs,
             \/ \E provided, noSend \in SUBSET Txs : ReadInputs(t, provided, noSend)
             \/ DropStaleRows(t) \/ FundingFails(t)
             \/ \E s \in TxStatuses, r \in ReqStatuses : Process(t, s, r)
             \/ SendWith(t) \/ SendAgain(t) \/ QueueKnown(t) \/ QueueTx(t)
             \/ MakeChangeSpendableAndIndex(t)
             \/ CallStops(t) \/ SelectForClaim(t) \/ Claim(t) \/ SelectForIndex(t)
      PROVE  Moves
  BY <1>s, <1>2, Zenon DEF ReadInputs, DropStaleRows, FundingFails, Process, SpendTransaction,
     SetTxStatus, SendWith, SendAgain, SelectForClaim, SelectForIndex, QueueKnown,
     UpdateKnownTxStatus, QueueTx, CompareAndSetTxStatus,
     MakeChangeSpendableAndIndex, CallStops, Claim, ClaimKnownTxForBroadcast, storeVars
<1>3. ASSUME NEW t \in Txs, Accepted(t) \/ Rejected(t) \/ ServiceError(t) PROVE Moves
  BY <1>s, <1>3, Zenon DEF Accepted, Rejected, ServiceError, UpdateSingleTx,
     CompareAndSetTxStatus
<1>4. ASSUME NEW t \in Txs,
             \/ EventAccepted(t) \/ EventDoubleSpend(t) \/ Mined(t) \/ NotFound(t) \/ Review(t)
      PROVE  Moves
  BY <1>s, <1>4, Zenon DEF EventAccepted, AdvanceKnownTxToBroadcasted, EventDoubleSpend,
     FailKnownTxAsDoubleSpend, Mined, UpdateKnownTxAsMined, NotFound, IncreaseKnownTxAttempts,
     Review, ReviewFailed, SetTxStatus
<1>5. ASSUME NEW t \in Txs, AbortFind(t) \/ SelectAbandoned(t) \/ Park(t) \/ Release(t)
      PROVE  Moves
  BY <1>s, <1>5, Zenon DEF AbortFind, SelectAbandoned, Park, ParkUnbroadcastKnownTx, Release,
     AbortRelease, SetTxStatus, storeVars
<1>6. ASSUME NEW t \in Txs,
             \/ UnfailRequested(t) \/ UnfailProved(t) \/ UnfailNotFound(t)
             \/ \E sent \in BOOLEAN : InternalizeNew(t, sent)
             \/ MergePayment(t) \/ MergeInsertion(t) \/ RelinquishOutput(t)
      PROVE  Moves
  BY <1>s, <1>6, Zenon DEF UnfailRequested, UpdateKnownTxStatus, UnfailProved, UnfailAsUnmined,
     UnfailNotFound, UnfailAsInvalid, SetTxStatus, InternalizeNew, MergePayment, MergeInsertion,
     RelinquishOutput, storeVars
<1>7. ASSUME SelectTimedOut \/ ProofTimeouts \/ UNCHANGED vars PROVE Moves
  BY <1>7, TimeoutMoves, Zenon DEF SelectTimedOut, vars, storeVars
<1> HIDE DEF Moves
<1>8. Moves
  BY <1>1, <1>2, <1>3, <1>4, <1>5, <1>6, <1>7, Zenon DEF Next
<1>9. txStatus \in [Txs -> TxStatuses \cup {None}] /\ None \notin TxStatuses
  BY Zenon DEF AllTypes, StoreTypeOK, TxStatuses, None
<1> QED BY <1>8, <1>9, Zenon DEF Moves

\* What the index proofs start from.
LedgerFacts == AllTypes /\ ReadTypes /\ LedgerInv /\ IndexInv

\* A transaction with a txid has a row.
LEMMA TxidMeansRow ==
  ASSUME LedgerInv, NEW t \in Txs, reqStatus[t] # None
  PROVE  txStatus[t] # None
BY Zenon DEF LedgerInv, StatusInv

\* Before, between and after its funding transactions createAction only drops rows,
\* and names outputs that exist.
LEMMA FundingIndex ==
  ASSUME NEW t \in Txs, LedgerFacts, [Next]_vars,
         \/ \E provided, noSend \in SUBSET Txs : ReadInputs(t, provided, noSend)
         \/ \E picked \in SUBSET Txs : FundingContention(t, picked)
         \/ \E picked \in SUBSET Txs : FundingConflict(t, picked)
         \/ DropStaleRows(t)
         \/ FundingFails(t)
  PROVE  IndexInv'
<1>0. AllTypes /\ LedgerInv /\ IndexInv
  BY Zenon DEF LedgerFacts
<1>1. ASSUME NEW provided \in SUBSET Txs, NEW noSend \in SUBSET Txs,
             ReadInputs(t, provided, noSend)
      PROVE  IndexInv'
  <2>1. /\ UNCHANGED <<txStatus, spendable, spentBy, change, utxoStatus, reservedBy>>
        /\ \A o \in provided \cup noSend : reqStatus[o] # None
        /\ named' = [named EXCEPT ![t] = [change |-> {o \in provided : change[o]},
                                          known  |-> {o \in provided : ~change[o]},
                                          noSend |-> noSend]]
    BY <1>1, Zenon DEF ReadInputs, HasTxID, storeVars, outputVars, indexVars
  <2>2. \A o \in Txs : RowInv(o)'
    BY <1>0, <2>1, Zenon DEF IndexInv, RowInv
  <2>3. ASSUME NEW u \in Txs, NEW o \in Txs
        PROVE  /\ o \in named'[u].change \cup named'[u].known \cup named'[u].noSend
                    => txStatus[o] # None
               /\ o \in named'[u].known => ~change[o]
    <3>0. named \in [Txs -> [change : SUBSET Txs, known : SUBSET Txs, noSend : SUBSET Txs]]
      BY <1>0, Zenon DEF AllTypes, CallTypes, NamedInv
    <3>1. CASE u = t
      <4>1. /\ named'[u].change \cup named'[u].known \cup named'[u].noSend
                 \subseteq provided \cup noSend
            /\ o \in named'[u].known => ~change[o]
        BY <2>1, <3>0, <3>1, Zenon
      <4> QED BY <1>0, <2>1, <4>1, TxidMeansRow, Zenon
    <3>2. CASE u # t
      <4>1. named'[u] = named[u]
        BY <2>1, <3>0, <3>2, Zenon
      <4> QED BY <1>0, <4>1, Zenon DEF IndexInv, NamesExist
    <3> QED BY <3>1, <3>2, Zenon
  <2>4. NamesExist'
    BY <2>1, <2>3, Zenon DEF NamesExist
  <2> QED BY <2>2, <2>4, Zenon DEF IndexInv
<1>2. CASE \/ \E picked \in SUBSET Txs : FundingContention(t, picked)
           \/ \E picked \in SUBSET Txs : FundingConflict(t, picked)
           \/ FundingFails(t)
  <2>1. UNCHANGED <<txStatus, spendable, spentBy, change, utxoStatus, reservedBy, named>>
    BY <1>2, Zenon DEF FundingContention, FundingConflict, FundingFails, storeVars, outputVars,
       indexVars, createVars
  <2> QED BY <1>0, <2>1, Zenon DEF IndexInv, NamesExist, RowInv
<1>3. CASE DropStaleRows(t)
  <2>1. UNCHANGED <<txStatus, spendable, spentBy, change, named>>
        /\ (DeleteRows(stale[t]) \/ UNCHANGED <<utxoStatus, reservedBy>>)
    BY <1>3, Zenon DEF DropStaleRows, storeVars, outputVars, indexVars
  <2>2. RowsQuiet
    BY <2>1, Zenon DEF RowsQuiet, DeleteRows
  <2> QED BY <1>0, <2>2, RowsQuietStep, Zenon
<1> QED BY <1>1, <1>2, <1>3, Zenon

\* createAction claims free outputs of existing transactions: the change among them
\* has a row, which it reserves, and the custom ones have none.
LEMMA CreateIndex ==
  ASSUME NEW t \in Txs, NEW picked \in SUBSET Txs, LedgerFacts, [Next]_vars,
         CreateTransactionInTx(t, picked)
  PROVE  IndexInv'
<1>0. AllTypes /\ NamesExist /\ \A o \in Txs : RowInv(o)
  BY Zenon DEF LedgerFacts, IndexInv
<1>n. named \in [Txs -> [change : SUBSET Txs, known : SUBSET Txs, noSend : SUBSET Txs]]
  BY <1>0, Zenon DEF AllTypes, CallTypes, NamedInv
<1>1. /\ txStatus[t] = None
      /\ \A o \in picked : o \in named[t].noSend \/ utxoStatus[o] # None
      /\ \A o \in Reserved(t, picked) : utxoStatus[o] # None /\ reservedBy[o] = None
      /\ \A o \in Claimed(t, picked) : spentBy[o] = None
  BY Zenon
      DEF CreateTransactionInTx, CreateTransaction, Funding, Fundable, Reservable, Claimable, None
<1>2. PICK res, coins \in SUBSET Txs :
        /\ res = Reserved(t, picked) /\ coins = Claimed(t, picked)
        /\ res \subseteq coins
        /\ \A o \in coins \ res : o \in named[t].known
  <2>1. Reserved(t, picked) \in SUBSET Txs /\ Claimed(t, picked) \in SUBSET Txs
    BY <1>n, Zenon DEF Reserved, Claimed
  <2>2. /\ Reserved(t, picked) \subseteq Claimed(t, picked)
        /\ \A o \in Claimed(t, picked) \ Reserved(t, picked) : o \in named[t].known
    BY Zenon DEF Reserved, Claimed
  <2> QED BY <2>1, <2>2, Zenon
<1>3. /\ txStatus' = [txStatus EXCEPT ![t] = "unsigned"]
      /\ spendable' = [o \in Txs |-> o = t \/ (spendable[o] /\ o \notin coins)]
      /\ spentBy' = [o \in Txs |-> IF o \in coins THEN t ELSE spentBy[o]]
      /\ change' = [change EXCEPT ![t] = t \notin Custom]
      /\ utxoStatus' = [utxoStatus EXCEPT ![t] = IF t \in Custom THEN None ELSE "unknown"]
      /\ reservedBy' = [o \in Txs |-> IF o \in res THEN t ELSE reservedBy[o]]
      /\ named' = [named EXCEPT ![t] = NoNames]
  BY <1>2, Zenon DEF CreateTransactionInTx, CreateTransaction, SetTxStatus
<1>4. \A o \in coins : txStatus[o] # None /\ o # t
  <2>1. \A o \in picked : txStatus[o] # None
    BY <1>0, <1>1, Zenon DEF NamesExist, RowInv
  <2>2. \A o \in named[t].change \cup named[t].known : txStatus[o] # None
    BY <1>0, <1>n, Zenon DEF NamesExist
  <2> QED BY <1>1, <1>2, <2>1, <2>2, Zenon DEF Claimed
<1>5. \A o \in coins \ res : utxoStatus[o] = None
  BY <1>0, <1>2, Zenon DEF NamesExist, RowInv
<1>6. \A o \in coins : spentBy[o] = None
  BY <1>1, <1>2, Zenon
<1>7. \A o \in res : reservedBy[o] = None
  BY <1>1, <1>2, Zenon
<1>t. /\ txStatus \in [Txs -> TxStatuses \cup {None}] /\ change \in [Txs -> BOOLEAN]
      /\ utxoStatus \in [Txs -> UTXOStatuses \cup {None}]
  BY <1>0, Zenon DEF AllTypes, StoreTypeOK, OutputTypes, IndexTypes
<1>8. RowInv(t)'
  <2>1. /\ txStatus'[t] # None /\ spentBy'[t] = None /\ reservedBy'[t] = None
        /\ utxoStatus'[t] # None => change'[t]
    BY <1>0, <1>1, <1>2, <1>3, <1>4, <1>t, Zenon DEF RowInv, None
  <2> QED BY <2>1, Zenon DEF RowInv
<1>9. ASSUME NEW o \in Txs, o # t PROVE RowInv(o)'
  <2>1. /\ txStatus'[o] = txStatus[o] /\ change'[o] = change[o] /\ utxoStatus'[o] = utxoStatus[o]
        /\ spendable'[o] => spendable[o] /\ o \notin coins
    BY <1>3, <1>9, <1>t, Zenon
  <2>2. CASE o \in res
    <3>1. spentBy'[o] = t /\ reservedBy'[o] = t /\ txStatus[o] # None /\ o \in coins
      BY <1>2, <1>3, <1>4, <2>2, Zenon
    <3> QED BY <1>0, <2>1, <3>1, Zenon DEF RowInv
  <2>3. CASE o \in coins \ res
    <3>1. /\ spentBy'[o] = t /\ reservedBy'[o] = reservedBy[o] /\ utxoStatus[o] = None
          /\ txStatus[o] # None /\ spentBy[o] = None
      BY <1>3, <1>4, <1>5, <1>6, <2>3, Zenon
    <3>2. reservedBy[o] = None
      BY <1>0, <3>1, Zenon DEF RowInv
    <3> QED BY <1>0, <2>1, <2>3, <3>1, <3>2, Zenon DEF RowInv
  <2>4. CASE o \notin coins
    <3>1. spentBy'[o] = spentBy[o] /\ reservedBy'[o] = reservedBy[o]
      BY <1>2, <1>3, <2>4, Zenon
    <3> QED BY <1>0, <2>1, <3>1, Zenon DEF RowInv
  <2> QED BY <2>2, <2>3, <2>4, Zenon
<1>10. NamesExist'
  <2>1. ASSUME NEW u \in Txs, NEW o \in Txs
        PROVE  /\ o \in named'[u].change \cup named'[u].known \cup named'[u].noSend
                    => txStatus'[o] # None
               /\ o \in named'[u].known => ~change'[o]
    <3>1. CASE u = t
      BY <1>3, <1>n, <3>1, Zenon DEF NoNames
    <3>2. CASE u # t
      <4>1. named'[u] = named[u]
        BY <1>3, <1>n, <3>2, Zenon
      <4>2. CASE o = t
        BY <1>0, <1>1, <4>1, <4>2, Zenon DEF NamesExist
      <4>3. CASE o # t
        BY <1>0, <1>3, <1>t, <4>1, <4>3, Zenon DEF NamesExist
      <4> QED BY <4>2, <4>3, Zenon
    <3> QED BY <3>1, <3>2, Zenon
  <2> QED BY <2>1, Zenon DEF NamesExist
<1> QED BY <1>8, <1>9, <1>10, Zenon DEF IndexInv

\* ProcessAction drops the rows it reserved, the delayed queue indexes change that
\* nobody spends.
LEMMA ProcessIndex ==
  ASSUME NEW t \in Txs, LedgerFacts, [Next]_vars,
         \/ \E s \in TxStatuses, r \in ReqStatuses : Process(t, s, r)
         \/ SendWith(t) \/ QueueKnown(t) \/ QueueTx(t) \/ MakeChangeSpendableAndIndex(t)
         \/ CallStops(t) \/ SelectForClaim(t) \/ Claim(t)
         \/ AbortFind(t) \/ SelectAbandoned(t) \/ Park(t)
  PROVE  RowsQuiet
<1>0. \A o \in Txs : txStatus[o] # None => txStatus'[o] # None
  BY TxStays, Zenon DEF LedgerFacts
<1>1. ASSUME NEW s \in TxStatuses, NEW r \in ReqStatuses, Process(t, s, r) PROVE RowsQuiet
  <2>1. UNCHANGED <<spentBy, named, change, spendable>>
        /\ DeleteRows({o \in Txs : reservedBy[o] = t})
    BY <1>1, Zenon DEF Process, outputVars, createVars
  <2> QED BY <1>0, <2>1, Zenon DEF RowsQuiet, DeleteRows
<1>2. CASE \/ SendWith(t) \/ QueueKnown(t) \/ QueueTx(t)
           \/ CallStops(t) \/ SelectForClaim(t) \/ Claim(t)
           \/ AbortFind(t) \/ SelectAbandoned(t) \/ Park(t)
  <2>1. UNCHANGED <<spentBy, named, change, spendable, utxoStatus, reservedBy>>
    BY <1>2, Zenon DEF SendWith, QueueKnown, QueueTx, CallStops, SelectForClaim, Claim, AbortFind,
       SelectAbandoned, Park, outputVars, createVars, indexVars
  <2> QED BY <1>0, <2>1, Zenon DEF RowsQuiet
<1>3. CASE MakeChangeSpendableAndIndex(t)
  <2>1. UNCHANGED <<spentBy, named, change>>
    BY <1>3, Zenon DEF MakeChangeSpendableAndIndex, createVars
  <2>2. CASE IsChange(t) /\ spentBy[t] = None
    <3>1. spendable' = [spendable EXCEPT ![t] = TRUE] /\ CreateUTXOs({t}, txStatus)
      BY <1>3, <2>2, Zenon DEF MakeChangeSpendableAndIndex
    <3>2. \A o \in Txs : spendable'[o] => spendable[o] \/ spentBy[o] = None
      BY <2>2, <3>1, Zenon DEF LedgerFacts, AllTypes, OutputTypes
    <3>3. \A o \in Txs :
            \/ utxoStatus'[o] = utxoStatus[o] /\ reservedBy'[o] = reservedBy[o]
            \/ /\ spentBy[o] = None /\ change[o] /\ txStatus[o] # None
               /\ reservedBy'[o] = None
      <4>1. \A o \in {t} : /\ change[o] /\ spentBy[o] = None
                           /\ txStatus[o] # None \/ txStatus[o] = txStatus[o]
        BY <2>2, Zenon DEF IsChange
      <4>2. CreateUTXOs({t}, txStatus)
        BY <3>1, Zenon
      <4>3. {t} \in SUBSET {t}
        BY Zenon
      <4> QED BY <4>1, <4>2, <4>3, NewRowsQuiet, Zenon
    <3> QED BY <1>0, <2>1, <3>2, <3>3, Zenon DEF RowsQuiet
  <2>3. CASE ~(IsChange(t) /\ spentBy[t] = None)
    <3>1. UNCHANGED <<spendable, utxoStatus, reservedBy>>
      BY <1>3, <2>3, Zenon DEF MakeChangeSpendableAndIndex, indexVars
    <3> QED BY <1>0, <2>1, <3>1, Zenon DEF RowsQuiet
  <2> QED BY <2>2, <2>3, Zenon
<1> QED BY <1>1, <1>2, <1>3, Zenon

\* Results, events, proofs, timeouts, reviews and relinquished outputs make a row
\* for a spendable output only.
LEMMA AnswerIndex ==
  ASSUME NEW t \in Txs, ~ReadCommitted, LedgerFacts, [Next]_vars,
         \/ SendAgain(t) \/ Accepted(t) \/ Rejected(t) \/ ServiceError(t)
         \/ EventAccepted(t) \/ EventDoubleSpend(t) \/ Mined(t) \/ NotFound(t) \/ Review(t)
         \/ RelinquishOutput(t)
  PROVE  RowsQuiet
<1>0. /\ \A o \in Txs : txStatus[o] # None => txStatus'[o] # None
      /\ AllTypes /\ LedgerInv /\ \A o \in Txs : RowInv(o)
  BY TxStays, Zenon DEF LedgerFacts, IndexInv
<1>1. CASE SendAgain(t) \/ Accepted(t) \/ EventAccepted(t)
  <2>1. /\ UNCHANGED <<spentBy, named, change, spendable>>
        /\ \/ UNCHANGED <<utxoStatus, reservedBy>>
           \/ HasTxID(t) /\ \E st : CreateUTXOForSpendableOutputs(t, st)
    <3>1. reqStatus[t] \in AlreadySent => HasTxID(t)
      BY Zenon DEF AlreadySent, HasTxID, None
    <3> QED BY <1>1, <3>1, Zenon DEF SendAgain, Accepted, EventAccepted, ResultApplies,
               ReqUpdateApplies, outputVars, createVars, indexVars
  <2>2. ASSUME HasTxID(t), NEW st, CreateUTXOForSpendableOutputs(t, st) PROVE RowsQuiet
    <3> DEFINE os == {o \in {t} : \/ spendable[o] /\ IsChange(o)
                                  \/ ReadCommitted /\ o \in indexing}
    <3>1. /\ os \in SUBSET {t} /\ CreateUTXOs(os, st)
          /\ \A o \in os : change[o] /\ spentBy[o] = None /\ txStatus[o] # None
      BY <1>0, <2>2, TxidMeansRow, Zenon
          DEF CreateUTXOForSpendableOutputs, IsChange, RowInv, HasTxID
    <3> HIDE DEF os
    <3>2. \A o \in Txs :
            \/ utxoStatus'[o] = utxoStatus[o] /\ reservedBy'[o] = reservedBy[o]
            \/ /\ spentBy[o] = None /\ change[o] /\ txStatus[o] # None
               /\ reservedBy'[o] = None
      BY <3>1, NewRowsQuiet, Zenon
    <3> QED BY <1>0, <2>1, <3>2, Zenon DEF RowsQuiet
  <2>3. CASE UNCHANGED <<utxoStatus, reservedBy>>
    BY <1>0, <2>1, <2>3, Zenon DEF RowsQuiet
  <2> QED BY <2>1, <2>2, <2>3, Zenon
<1>2. CASE Rejected(t) \/ Review(t)
  <2>1. /\ UNCHANGED <<spentBy, named, change, utxoStatus, reservedBy>>
        /\ spendable' = spendable \/ spendable' = [spendable EXCEPT ![t] = FALSE]
    BY <1>2, Zenon DEF Rejected, Review, MarkCreatedOutputsAsNotSpendable, outputVars, createVars,
       indexVars
  <2>2. \A o \in Txs : spendable'[o] => spendable[o]
    BY <1>0, <2>1, Zenon DEF AllTypes, OutputTypes
  <2> QED BY <1>0, <2>1, <2>2, Zenon DEF RowsQuiet
<1>3. CASE ServiceError(t) \/ EventDoubleSpend(t) \/ NotFound(t)
  <2>1. UNCHANGED <<spentBy, named, change, spendable, utxoStatus, reservedBy>>
    BY <1>3, Zenon DEF ServiceError, EventDoubleSpend, NotFound, outputVars, createVars, indexVars
  <2> QED BY <1>0, <2>1, Zenon DEF RowsQuiet
<1>4. CASE Mined(t)
  <2>1. /\ UNCHANGED <<spentBy, named, change, spendable, reservedBy>> /\ txStatus[t] # None
        /\ utxoStatus' = [utxoStatus EXCEPT ![t] = IF @ = None THEN None ELSE "mined"]
    BY <1>0, <1>4, TxidMeansRow, Zenon DEF Mined, HasTxID, outputVars, createVars
  <2> QED BY <1>0, <2>1, Zenon DEF RowsQuiet, AllTypes, IndexTypes
<1>5. CASE RelinquishOutput(t)
  <2>1. /\ UNCHANGED <<spentBy, named, change, spendable>>
        /\ DeleteRows({t}) \/ UNCHANGED <<utxoStatus, reservedBy>>
    BY <1>5, Zenon DEF RelinquishOutput, createVars, indexVars
  <2> QED BY <1>0, <2>1, Zenon DEF RowsQuiet, DeleteRows
<1> QED BY <1>1, <1>2, <1>3, <1>4, <1>5, Zenon

\* The commit of an abort gives the outputs back with a free row, or none.
LEMMA ReleaseIndex ==
  ASSUME NEW t \in Txs, LedgerFacts, [Next]_vars, Release(t)
  PROVE  IndexInv'
<1>0. /\ \A o \in Txs : txStatus[o] # None => txStatus'[o] # None
      /\ AllTypes /\ IndexInv /\ NamesExist /\ \A o \in Txs : RowInv(o)
  BY TxStays, Zenon DEF LedgerFacts, IndexInv
<1>1. CASE UNCHANGED <<storeVars, outputVars, indexVars>>
  <2>1. RowsQuiet
    BY <1>0, <1>1, Zenon DEF RowsQuiet, outputVars, indexVars, Release, createVars
  <2> QED BY <1>0, <2>1, RowsQuietStep, Zenon
<1>2. CASE RestoreRows(t) /\ RecreateSpentOutputs(t)
  <2>1. UNCHANGED <<named, change>>
    BY <1>2, Zenon DEF RecreateSpentOutputs, Release, createVars
  <2>2. NamesExist'
    BY <1>0, <2>1, Zenon DEF NamesExist, AllTypes, CallTypes, NamedInv
  <2>3. ASSUME NEW o \in Txs PROVE RowInv(o)'
    <3>1. CASE spentBy[o] = t
      <4>1. /\ spentBy'[o] = None /\ reservedBy'[o] = None /\ txStatus[o] # None
        BY <1>0, <1>2, <3>1, ReservationAssumption, Zenon
            DEF RestoreRows, RecreateSpentOutputs, RowInv
      <4>2. utxoStatus'[o] # None => change[o]
        BY <1>0, <1>2, Zenon DEF RestoreRows, SpentChange, IsChange, RowInv
      <4> QED BY <1>0, <2>1, <4>1, <4>2, Zenon DEF RowInv
    <3>2. CASE spentBy[o] # t
      <4>1. /\ spentBy'[o] = spentBy[o] /\ utxoStatus'[o] = utxoStatus[o]
            /\ reservedBy[o] # t /\ reservedBy'[o] = reservedBy[o]
            /\ spendable'[o] => spendable[o]
        BY <1>0, <1>2, <3>2, ReservationAssumption, Zenon DEF RestoreRows, RecreateSpentOutputs,
           SpentChange, RowInv
      <4> QED BY <1>0, <2>1, <4>1, Zenon DEF RowInv
    <3> QED BY <3>1, <3>2, Zenon
  <2> QED BY <2>2, <2>3, Zenon DEF IndexInv
<1> QED BY <1>1, <1>2, Zenon DEF Release

\* internalizeAction makes the row of an output that nobody can have spent.
LEMMA InternalizeIndex ==
  ASSUME NEW t \in Txs, NEW sent \in BOOLEAN, LedgerFacts, [Next]_vars, InternalizeNew(t, sent)
  PROVE  IndexInv'
<1>0. /\ \A o \in Txs : txStatus[o] # None => txStatus'[o] # None
      /\ AllTypes /\ NamesExist /\ \A o \in Txs : RowInv(o)
  BY TxStays, Zenon DEF LedgerFacts, IndexInv
<1>1. txStatus[t] = None
  BY Zenon DEF InternalizeNew, LedgerFacts, LedgerInv, StatusInv, Fresh
<1>2. /\ UNCHANGED <<spentBy, reservedBy, named>>
      /\ \E s \in {"unproven", "sending"} : txStatus' = [txStatus EXCEPT ![t] = s]
      /\ spendable' = [spendable EXCEPT ![t] = TRUE]
      /\ change' = [change EXCEPT ![t] = t \notin Custom]
      /\ utxoStatus' = [utxoStatus EXCEPT ![t] =
                          IF t \in Custom THEN None ELSE ToUTXOStatus(txStatus'[t])]
  BY Zenon DEF InternalizeNew, createVars
<1>t. /\ txStatus \in [Txs -> TxStatuses \cup {None}] /\ change \in [Txs -> BOOLEAN]
      /\ spendable \in [Txs -> BOOLEAN] /\ utxoStatus \in [Txs -> UTXOStatuses \cup {None}]
  BY <1>0, Zenon DEF AllTypes, StoreTypeOK, OutputTypes, IndexTypes
<1>3. RowInv(t)'
  <2>1. spentBy[t] = None /\ reservedBy[t] = None
    BY <1>0, <1>1, Zenon DEF RowInv
  <2>2. txStatus'[t] # None
    BY <1>2, <1>t, Zenon DEF None
  <2>3. utxoStatus'[t] # None => change'[t]
    BY <1>2, <1>t, Zenon
  <2> QED BY <1>2, <2>1, <2>2, <2>3, Zenon DEF RowInv
<1>4. ASSUME NEW o \in Txs, o # t PROVE RowInv(o)'
  <2>1. /\ txStatus'[o] = txStatus[o] /\ change'[o] = change[o] /\ utxoStatus'[o] = utxoStatus[o]
        /\ spendable'[o] = spendable[o]
    BY <1>2, <1>4, <1>t, Zenon
  <2> QED BY <1>0, <1>2, <2>1, Zenon DEF RowInv
<1>5. NamesExist'
  <2>1. ASSUME NEW u \in Txs, NEW o \in Txs, o \in named[u].known PROVE ~change'[o]
    BY <1>0, <1>1, <1>2, <1>t, <2>1, Zenon DEF NamesExist
  <2> QED BY <1>0, <1>2, <2>1, Zenon DEF NamesExist
<1> QED BY <1>3, <1>4, <1>5, Zenon DEF IndexInv

\* The index agrees with the outputs at the start.
LEMMA IndexStart == Init => IndexInv
<1> SUFFICES ASSUME Init PROVE IndexInv
  BY Zenon
<1>1. NamesExist
  BY Zenon DEF Init, NamesExist, NoNames
<1>2. ASSUME NEW o \in Txs PROVE RowInv(o)
  <2>1. spentBy[o] = None /\ reservedBy[o] = None
    BY Zenon DEF Init
  <2>2. utxoStatus[o] # None => change[o] /\ txStatus[o] # None
    BY Zenon DEF Init, None
  <2> QED BY <2>1, <2>2, Zenon DEF RowInv
<1> QED BY <1>1, <1>2, Zenon DEF IndexInv

\* Every step keeps the index in agreement with the outputs.
LEMMA IndexStep ==
  ASSUME NoUnspending, ~ReadCommitted, LedgerFacts, [Next]_vars
  PROVE  IndexInv'
<1>0. AllTypes /\ IndexInv
  BY Zenon DEF LedgerFacts
<1>1. ASSUME NEW t \in Txs PROVE ~(\/ UnfailRequested(t) \/ UnfailProved(t) \/ UnfailNotFound(t)
                                   \/ MergePayment(t) \/ MergeInsertion(t))
  BY Zenon DEF NoUnspending, LedgerFacts, LedgerInv, StatusInv, UnfailRequested, UnfailProved,
     UnfailNotFound, MergePayment, MergeInsertion
<1>s. ASSUME NEW t \in Txs PROVE ~(SelectForIndex(t) \/ SelectTimedOut)
  BY Zenon DEF SelectForIndex, SelectTimedOut
<1>2. CASE ProofTimeouts \/ UNCHANGED vars
  <2>1. UNCHANGED <<txStatus, spentBy, named, change, spendable, utxoStatus, reservedBy>>
    BY <1>2, TimeoutMoves, Zenon DEF ProofTimeouts, vars, storeVars, outputVars, indexVars,
       createVars
  <2> QED BY <1>0, <2>1, RowsQuietStep, Zenon DEF RowsQuiet
<1>3. RowsQuiet => IndexInv'
  BY <1>0, RowsQuietStep, Zenon
<1>4. CASE SelectTimedOut
  BY <1>4, Zenon DEF SelectTimedOut
<1> QED BY <1>1, <1>s, <1>2, <1>3, <1>4, FundingIndex, CreateIndex, ProcessIndex, AnswerIndex,
   ReleaseIndex,
           InternalizeIndex, Zenon DEF Next

\* The funder's index never offers a spent output: a row of a spent output is
\* reserved by its spender, and a reservation is its spender's.  On an engine that
\* lets a createAction in between the SELECT and the upserts of an index
\* transaction this fails.
THEOREM IndexNeverStale ==
  ASSUME NoUnspending, ~ReadCommitted
  PROVE  Spec => []NoStaleRows
<1>1. Init => LedgerFacts /\ NamedInv
  BY TypeStart, LedgerStart, IndexStart, Zenon DEF LedgerFacts
<1>2. LedgerFacts /\ NamedInv /\ [Next]_vars => LedgerFacts' /\ NamedInv'
  BY TypeStep, ReadStep, LedgerStep, NamedStep, IndexStep, Zenon DEF LedgerFacts
<1>3. LedgerFacts => NoStaleRows
  BY Zenon DEF LedgerFacts, IndexInv, RowInv, NoStaleRows
<1> QED BY <1>1, <1>2, <1>3, PTL DEF Spec

-----------------------------------------------------------------------------
(* Change that was received stays visible to the funder. *)

\* A reservation is its spender's, on either engine.
ReservedSpent == \A o \in Txs : reservedBy[o] # None => spentBy[o] = reservedBy[o]

LEMMA ReservedStep ==
  ASSUME NoUnspending, AllTypes, NoUnfail, ReservedSpent, [Next]_vars
  PROVE  ReservedSpent'
<1>1. ASSUME NEW t \in Txs, NEW picked \in SUBSET Txs, CreateTransactionInTx(t, picked)
      PROVE  ReservedSpent'
  <2>1. /\ spentBy' = [o \in Txs |-> IF o \in Claimed(t, picked) THEN t ELSE spentBy[o]]
        /\ reservedBy' = [o \in Txs |-> IF o \in Reserved(t, picked) THEN t ELSE reservedBy[o]]
        /\ \A o \in Claimed(t, picked) : spentBy[o] = None
    BY <1>1, Zenon DEF CreateTransactionInTx, Claimable
  <2>2. Reserved(t, picked) \subseteq Claimed(t, picked)
    BY Zenon DEF Reserved, Claimed
  <2> QED BY <2>1, <2>2, Zenon DEF ReservedSpent
<1>2. ASSUME NEW t \in Txs, Release(t) PROVE ReservedSpent'
  <2>1. CASE UNCHANGED <<outputVars, indexVars>>
    BY <2>1, Zenon DEF outputVars, indexVars, ReservedSpent
  <2>2. CASE RestoreRows(t) /\ RecreateSpentOutputs(t)
    BY <2>2, Zenon DEF RestoreRows, RecreateSpentOutputs, ReservedSpent
  <2> QED BY <1>2, <2>1, <2>2, Zenon DEF Release
<1>3. NothingTaken => ReservedSpent'
  BY Zenon DEF NothingTaken, ReservedSpent
<1> QED BY <1>1, <1>2, <1>3, TakenMoves, Zenon

\* What was received and mined stays completed in both tables.
ReceivedStay == \A o \in Received : txStatus[o] = "completed" /\ reqStatus[o] = "completed"

\* No proof timeout works on them.
ReceivedUnread == \A o \in Received : timedOut[o] = NotRead

LEMMA UnreadStep ==
  ASSUME AllTypes, ReadTypes, ReceivedStay, ReceivedUnread, [Next]_vars
  PROVE  ReceivedUnread'
<1>1. Received \subseteq Txs /\ "completed" \notin StatusesReadyToSync \cup {"unsent", "nosend"}
  BY ReservationAssumption, Zenon DEF StatusesReadyToSync
<1>2. \A o \in Received : RowsOf(TimedOut(SyncStatuses))[o] = NotRead
  BY <1>1, ReadsType, Zenon DEF ReceivedStay
<1> QED BY <1>1, <1>2, ReadStep, ReadsType, Zenon DEF ReadMoves, ReceivedUnread

\* What the proof rests on.
IndexedInv ==
  /\ AllTypes /\ ReadTypes /\ OwnersInv /\ NoUnfail /\ ReservedSpent
  /\ ReceivedStay /\ ReceivedUnread
  /\ UnspentChangeIsIndexed

\* No flow but the unfail task takes a completed transaction out of its status.
LEMMA ReceivedStep ==
  ASSUME NoUnspending, IndexedInv, [Next]_vars
  PROVE  ReceivedStay'
<1>t. /\ txStatus \in [Txs -> TxStatuses \cup {None}]
      /\ reqStatus \in [Txs -> ReqStatuses \cup {None}]
      /\ Received \subseteq Txs /\ ReceivedStay
  BY ReservationAssumption, Zenon DEF IndexedInv, AllTypes, StoreTypeOK
<1> DEFINE Open(t) ==
      /\ txStatus[t] # "completed" \/ reqStatus[t] # "completed"
      /\ txStatus' = txStatus \/ \E s : txStatus' = [txStatus EXCEPT ![t] = s]
      /\ reqStatus' = reqStatus \/ \E r : reqStatus' = [reqStatus EXCEPT ![t] = r]
<1>o. ASSUME NEW t \in Txs, Open(t) PROVE ReceivedStay'
  BY <1>t, <1>o, Zenon DEF ReceivedStay
<1>u. ASSUME UNCHANGED <<txStatus, reqStatus>> PROVE ReceivedStay'
  BY <1>t, <1>u, Zenon DEF ReceivedStay
<1>1. ASSUME NEW t \in Txs, NEW picked \in SUBSET Txs, CreateTransactionInTx(t, picked)
      PROVE  Open(t)
  <2>1. txStatus[t] # "completed"
    BY <1>1, Zenon DEF CreateTransactionInTx, CreateTransaction, None
  <2> QED BY <1>1, <2>1, Zenon DEF CreateTransactionInTx, CreateTransaction, SetTxStatus
<1>2. ASSUME NEW t \in Txs,
             \/ \E provided, noSend \in SUBSET Txs : ReadInputs(t, provided, noSend)
             \/ \E picked \in SUBSET Txs : FundingContention(t, picked)
             \/ \E picked \in SUBSET Txs : FundingConflict(t, picked)
             \/ DropStaleRows(t) \/ FundingFails(t)
             \/ SendWith(t) \/ SendAgain(t) \/ MakeChangeSpendableAndIndex(t) \/ CallStops(t)
             \/ SelectForClaim(t) \/ SelectForIndex(t)
             \/ AbortFind(t) \/ SelectAbandoned(t) \/ NotFound(t) \/ RelinquishOutput(t)
      PROVE  UNCHANGED <<txStatus, reqStatus>>
  BY <1>2, Zenon DEF ReadInputs, FundingContention, FundingConflict, DropStaleRows, FundingFails,
     SendWith, SendAgain, MakeChangeSpendableAndIndex, CallStops, SelectForClaim, SelectForIndex,
     AbortFind, SelectAbandoned, NotFound, IncreaseKnownTxAttempts, RelinquishOutput, storeVars
<1>3. ASSUME NEW t \in Txs, \E s \in TxStatuses, r \in ReqStatuses : Process(t, s, r)
      PROVE  Open(t)
  <2>1. txStatus[t] # "completed"
    BY <1>3, Zenon DEF Process
  <2> QED BY <1>3, <2>1, Zenon DEF Process, SpendTransaction, SetTxStatus
<1>4. ASSUME NEW t \in Txs, QueueKnown(t) PROVE Open(t) \/ UNCHANGED <<txStatus, reqStatus>>
  <2>1. "completed" \in BeyondBroadcastStage
    BY Zenon DEF BeyondBroadcastStage
  <2> QED BY <1>4, <2>1, Zenon DEF QueueKnown, UpdateKnownTxStatus, ReqUpdateApplies, SetReqStatus
<1>5. ASSUME NEW t \in Txs, QueueTx(t) PROVE Open(t) \/ UNCHANGED <<txStatus, reqStatus>>
  BY <1>5, Zenon DEF QueueTx, CompareAndSetTxStatus
<1>6. ASSUME NEW t \in Txs, Claim(t) PROVE Open(t) \/ UNCHANGED <<txStatus, reqStatus>>
  BY <1>6, Zenon DEF Claim, ClaimKnownTxForBroadcast, ClaimSelects, ClaimableForBroadcast,
     storeVars
<1>7. ASSUME NEW t \in Txs, Accepted(t) \/ Rejected(t) \/ ServiceError(t)
      PROVE  Open(t) \/ UNCHANGED <<txStatus, reqStatus>>
  <2>1. "completed" \in BroadcastResultSkip
    BY Zenon DEF BroadcastResultSkip, BeyondBroadcastStage
  <2>2. \E r, s : UpdateSingleTx(t, r, s)
    BY <1>7, Zenon DEF Accepted, Rejected, ServiceError
  <2> QED BY <2>1, <2>2, Zenon DEF UpdateSingleTx, ReqUpdateApplies, SetReqStatus,
             CompareAndSetTxStatus
<1>8. ASSUME NEW t \in Txs, EventAccepted(t) \/ EventDoubleSpend(t)
      PROVE  Open(t) \/ UNCHANGED <<txStatus, reqStatus>>
  <2>1. "completed" \in BeyondBroadcastStage /\ "completed" \in {"completed", "doubleSpend"}
    BY Zenon DEF BeyondBroadcastStage
  <2> QED BY <1>8, <2>1, Zenon DEF EventAccepted, AdvanceKnownTxToBroadcasted, EventDoubleSpend,
             FailKnownTxAsDoubleSpend, ReqUpdateApplies, SetReqStatus, SetTxStatus
<1>9. ASSUME NEW t \in Txs, Mined(t) PROVE ReceivedStay'
  BY <1>t, <1>9, Zenon DEF Mined, UpdateKnownTxAsMined, SetReqStatus, SetTxStatus, ReceivedStay
<1>10. ASSUME NEW t \in Txs, Review(t) PROVE Open(t)
  <2>1. reqStatus[t] # "completed"
    BY <1>10, Zenon DEF Review, TerminalFailure
  <2> QED BY <1>10, <2>1, Zenon DEF Review, ReviewFailed, SetTxStatus
<1>11. ASSUME NEW t \in Txs, Park(t) PROVE Open(t) \/ UNCHANGED <<txStatus, reqStatus>>
  <2>1. Parkable(t) => reqStatus[t] # "completed"
    BY Zenon DEF Parkable, NeverPosted
  <2> QED BY <1>11, <2>1, Zenon DEF Park, ParkUnbroadcastKnownTx, storeVars
<1>12. ASSUME NEW t \in Txs, Release(t) PROVE Open(t) \/ UNCHANGED <<txStatus, reqStatus>>
  <2>1. AbortRelease(t) => txStatus[t] # "completed"
    BY Zenon DEF AbortRelease, AbortableStatuses
  <2> QED BY <1>12, <2>1, Zenon DEF Release, AbortRelease, SetTxStatus, storeVars
<1>13. ASSUME NEW t \in Txs, NEW sent \in BOOLEAN, InternalizeNew(t, sent) PROVE Open(t)
  <2>1. txStatus[t] # "completed"
    BY <1>13, Zenon DEF InternalizeNew, IndexedInv, OwnersInv, OwnerStatus, Fresh, None
  <2> QED BY <1>13, <2>1, Zenon DEF InternalizeNew
<1>14. ASSUME NEW t \in Txs
       PROVE  ~(\/ UnfailRequested(t) \/ UnfailProved(t) \/ UnfailNotFound(t)
                \/ MergePayment(t) \/ MergeInsertion(t))
  BY Zenon DEF NoUnspending, IndexedInv, NoUnfail, UnfailRequested, UnfailProved,
     UnfailNotFound, MergePayment, MergeInsertion
<1>15. ASSUME ProofTimeouts PROVE ReceivedStay'
  <2>1. "completed" \notin StatusesReadyToSync \cup {"unsent", "nosend"}
    BY Zenon DEF StatusesReadyToSync
  <2> QED BY <1>t, <1>15, <2>1, TimeoutMoves, Zenon DEF IndexedInv, ReceivedUnread, ReceivedStay
<1>16. ASSUME SelectTimedOut \/ UNCHANGED vars PROVE UNCHANGED <<txStatus, reqStatus>>
  BY <1>16, Zenon DEF SelectTimedOut, vars, storeVars
<1> HIDE DEF Open
<1> QED BY <1>o, <1>u, <1>1, <1>2, <1>3, <1>4, <1>5, <1>6, <1>7, <1>8, <1>9, <1>10, <1>11,
           <1>12, <1>13, <1>14, <1>15, <1>16, Zenon, Zenon DEF Next

\* A step that hides no received output from the index: rows stay, or go with the
\* spend or the basket of their output.
LEMMA IndexedStep ==
  ASSUME NoUnspending, IndexedInv, [Next]_vars
  PROVE  UnspentChangeIsIndexed'
<1>0. /\ AllTypes /\ ReservedSpent /\ ReceivedStay /\ UnspentChangeIsIndexed
      /\ Received \subseteq Txs /\ healed \subseteq healed'
  BY ReservationAssumption, ReadStep, Zenon DEF IndexedInv, ReadMoves
<1>t. /\ spendable \in [Txs -> BOOLEAN] /\ change \in [Txs -> BOOLEAN]
      /\ basketName \in [Txs -> {None, "default", "custom"}]
      /\ utxoStatus \in [Txs -> UTXOStatuses \cup {None}]
  BY <1>0, Zenon DEF AllTypes, OutputTypes, IndexTypes
<1>n. \A s : ToUTXOStatus(s) # None
  BY Zenon DEF ToUTXOStatus, None
\* nothing but rows and the spendable flag moves, and no row goes
<1> DEFINE Kept == /\ UNCHANGED <<spentBy, change, basketName>>
                   /\ \A o \in Received : /\ spendable'[o] => spendable[o]
                                          /\ utxoStatus[o] # None => utxoStatus'[o] # None
<1>k. ASSUME Kept PROVE UnspentChangeIsIndexed'
  BY <1>0, <1>k, Zenon DEF UnspentChangeIsIndexed, IsChange
<1>1. ASSUME NEW t \in Txs,
             \/ \E provided, noSend \in SUBSET Txs : ReadInputs(t, provided, noSend)
             \/ \E picked \in SUBSET Txs : FundingContention(t, picked)
             \/ \E picked \in SUBSET Txs : FundingConflict(t, picked)
             \/ FundingFails(t)
             \/ SendWith(t) \/ QueueKnown(t) \/ QueueTx(t)
             \/ CallStops(t) \/ SelectForClaim(t) \/ Claim(t) \/ SelectForIndex(t)
             \/ ServiceError(t) \/ EventDoubleSpend(t) \/ NotFound(t)
             \/ AbortFind(t) \/ SelectAbandoned(t) \/ Park(t)
      PROVE  Kept
  <2>1. UNCHANGED <<spentBy, change, basketName, spendable, utxoStatus>>
    BY <1>1, Zenon DEF ReadInputs, FundingContention, FundingConflict, FundingFails, SendWith,
       QueueKnown, QueueTx, CallStops, SelectForClaim, Claim, SelectForIndex, ServiceError,
       EventDoubleSpend, NotFound, AbortFind, SelectAbandoned, Park, outputVars, indexVars
  <2> QED BY <2>1, Zenon
\* a heal drops rows, and says so
<1>2. ASSUME NEW t \in Txs, DropStaleRows(t) PROVE UnspentChangeIsIndexed'
  <2>1. /\ UNCHANGED <<spentBy, change, basketName, spendable>>
        /\ UNCHANGED utxoStatus \/ (DeleteRows(stale[t]) /\ healed' = healed \cup stale[t])
    BY <1>2, Zenon DEF DropStaleRows, outputVars, indexVars
  <2>2. \A o \in Received \ healed' : utxoStatus'[o] = utxoStatus[o]
    BY <1>0, <2>1, Zenon DEF DeleteRows
  <2> QED BY <1>0, <2>1, <2>2, Zenon DEF UnspentChangeIsIndexed, IsChange
<1>3. ASSUME NEW t \in Txs, NEW picked \in SUBSET Txs, CreateTransactionInTx(t, picked)
      PROVE  UnspentChangeIsIndexed'
  <2>1. t \notin Received
    BY <1>0, <1>3, Zenon DEF CreateTransactionInTx, CreateTransaction, ReceivedStay, None
  <2>2. ASSUME NEW o \in Received
        PROVE  /\ utxoStatus'[o] = utxoStatus[o] /\ change'[o] = change[o]
               /\ basketName'[o] = basketName[o]
               /\ spendable'[o] => spendable[o]
               /\ spentBy'[o] = None => spentBy[o] = None
    BY <1>0, <1>3, <1>t, <2>1, ReservationAssumption, Zenon DEF CreateTransactionInTx
  <2> QED BY <1>0, <2>2, Zenon DEF UnspentChangeIsIndexed, IsChange
<1>4. ASSUME NEW t \in Txs, NEW s \in TxStatuses, NEW r \in ReqStatuses, Process(t, s, r)
      PROVE  UnspentChangeIsIndexed'
  <2>1. /\ UNCHANGED <<spentBy, change, basketName, spendable>>
        /\ DeleteRows({o \in Txs : reservedBy[o] = t})
    BY <1>4, Zenon DEF Process, outputVars
  <2>2. \A o \in Received : spentBy[o] = None => utxoStatus'[o] = utxoStatus[o]
    BY <1>0, <2>1, ReservationAssumption, Zenon DEF DeleteRows, ReservedSpent
  <2> QED BY <1>0, <2>1, <2>2, Zenon DEF UnspentChangeIsIndexed, IsChange
<1>5. ASSUME NEW t \in Txs, MakeChangeSpendableAndIndex(t) PROVE UnspentChangeIsIndexed'
  <2>1. UNCHANGED <<spentBy, change, basketName>>
    BY <1>5, Zenon DEF MakeChangeSpendableAndIndex
  <2>2. CASE IsChange(t) /\ spentBy[t] = None
    <3>1. spendable' = [spendable EXCEPT ![t] = TRUE] /\ CreateUTXOs({t}, txStatus)
      BY <1>5, <2>2, Zenon DEF MakeChangeSpendableAndIndex
    <3>2. ASSUME NEW o \in Received
          PROVE  /\ o # t => spendable'[o] = spendable[o]
                 /\ o = t => utxoStatus'[o] # None
                 /\ utxoStatus[o] # None => utxoStatus'[o] # None
      <4>1. ToUTXOStatus(txStatus[o]) # "unknown"
        BY <1>0, Zenon DEF ReceivedStay, ToUTXOStatus
      <4> QED BY <1>0, <1>n, <1>t, <3>1, <4>1, Zenon DEF CreateUTXOs
    <3> QED BY <1>0, <2>1, <3>2, Zenon DEF UnspentChangeIsIndexed, IsChange
  <2>3. CASE ~(IsChange(t) /\ spentBy[t] = None)
    <3>1. UNCHANGED <<spendable, utxoStatus>>
      BY <1>5, <2>3, Zenon DEF MakeChangeSpendableAndIndex, indexVars
    <3> QED BY <1>k, <2>1, <3>1, Zenon
  <2> QED BY <2>2, <2>3, Zenon
<1>6. ASSUME NEW t \in Txs, SendAgain(t) \/ Accepted(t) \/ EventAccepted(t) PROVE Kept
  <2>1. /\ UNCHANGED <<spentBy, change, basketName, spendable>>
        /\ UNCHANGED utxoStatus \/ \E os, st : CreateUTXOs(os, st)
    BY <1>6, Zenon DEF SendAgain, Accepted, EventAccepted, CreateUTXOForSpendableOutputs,
       outputVars,
       indexVars
  <2>2. \A o \in Received : utxoStatus[o] # None => utxoStatus'[o] # None
    BY <1>0, <1>n, <2>1, Zenon DEF CreateUTXOs
  <2> QED BY <2>1, <2>2, Zenon
<1>7. ASSUME NEW t \in Txs, Rejected(t) \/ Review(t) PROVE Kept
  <2>1. /\ UNCHANGED <<spentBy, change, basketName, utxoStatus>>
        /\ spendable' = spendable \/ spendable' = [spendable EXCEPT ![t] = FALSE]
    BY <1>7, Zenon DEF Rejected, Review, MarkCreatedOutputsAsNotSpendable, outputVars, indexVars
  <2> QED BY <1>0, <1>t, <2>1, Zenon
<1>8. ASSUME NEW t \in Txs, Mined(t) PROVE Kept
  <2>1. /\ UNCHANGED <<spentBy, change, basketName, spendable>>
        /\ utxoStatus' = [utxoStatus EXCEPT ![t] = IF @ = None THEN None ELSE "mined"]
    BY <1>8, Zenon DEF Mined, outputVars
  <2> QED BY <1>0, <1>t, <2>1, Zenon DEF None
<1>9. ASSUME NEW t \in Txs, Release(t) PROVE UnspentChangeIsIndexed'
  <2>1. CASE UNCHANGED <<outputVars, indexVars>>
    BY <1>k, <2>1, Zenon DEF outputVars, indexVars
  <2>2. CASE AbortRelease(t) /\ RestoreRows(t) /\ RecreateSpentOutputs(t)
    <3>1. ASSUME NEW o \in Received \ healed', spendable'[o], IsChange(o)', spentBy'[o] = None
          PROVE  utxoStatus'[o] # None
      <4>1. IsChange(o)
        BY <2>2, <3>1, Zenon DEF RecreateSpentOutputs, IsChange
      <4>2. CASE spentBy[o] = t
        <5>1. ToUTXOStatus(txStatus[o]) # "unknown"
          BY <1>0, Zenon DEF ReceivedStay, ToUTXOStatus
        <5> QED BY <1>0, <1>n, <2>2, <4>1, <4>2, <5>1, Zenon DEF RestoreRows, SpentChange
      <4>3. CASE spentBy[o] # t
        <5>1. spendable[o] /\ spentBy[o] = None
          BY <1>0, <2>2, <3>1, <4>3, Zenon DEF RecreateSpentOutputs
        <5> QED BY <1>0, <2>2, <4>1, <4>3, <5>1, Zenon DEF RestoreRows, SpentChange,
                   UnspentChangeIsIndexed
      <4> QED BY <4>2, <4>3, Zenon
    <3> QED BY <3>1, Zenon DEF UnspentChangeIsIndexed
  <2> QED BY <1>9, <2>1, <2>2, Zenon DEF Release
<1>10. ASSUME NEW t \in Txs, NEW sent \in BOOLEAN, InternalizeNew(t, sent)
       PROVE  UnspentChangeIsIndexed'
  <2>1. t \notin Received
    BY <1>0, <1>10, Zenon
        DEF InternalizeNew, IndexedInv, OwnersInv, OwnerStatus, Fresh, ReceivedStay, None
  <2>2. ASSUME NEW o \in Received
        PROVE  /\ utxoStatus'[o] = utxoStatus[o] /\ change'[o] = change[o]
               /\ basketName'[o] = basketName[o] /\ spendable'[o] = spendable[o]
               /\ spentBy'[o] = spentBy[o]
    BY <1>0, <1>10, <1>t, <2>1, Zenon DEF InternalizeNew
  <2> QED BY <1>0, <2>2, Zenon DEF UnspentChangeIsIndexed, IsChange
<1>11. ASSUME NEW t \in Txs, RelinquishOutput(t) PROVE UnspentChangeIsIndexed'
  <2>1. /\ UNCHANGED <<spentBy, change, spendable>>
        /\ basketName' = [basketName EXCEPT ![t] = None]
        /\ DeleteRows({t}) \/ UNCHANGED utxoStatus
    BY <1>11, Zenon DEF RelinquishOutput, indexVars
  <2>2. ASSUME NEW o \in Received, IsChange(o)'
        PROVE  IsChange(o) /\ utxoStatus'[o] = utxoStatus[o]
    BY <1>0, <1>t, <2>1, <2>2, Zenon DEF IsChange, DeleteRows
  <2> QED BY <1>0, <2>1, <2>2, Zenon DEF UnspentChangeIsIndexed
<1>12. ASSUME NEW t \in Txs
       PROVE  ~(\/ UnfailRequested(t) \/ UnfailProved(t) \/ UnfailNotFound(t)
                \/ MergePayment(t) \/ MergeInsertion(t))
  BY Zenon DEF NoUnspending, IndexedInv, NoUnfail, UnfailRequested, UnfailProved,
     UnfailNotFound, MergePayment, MergeInsertion
<1>13. ASSUME SelectTimedOut \/ ProofTimeouts \/ UNCHANGED vars PROVE Kept
  BY <1>13, Zenon DEF SelectTimedOut, ProofTimeouts, vars, outputVars, indexVars
<1> HIDE DEF Kept
<1> QED BY <1>k, <1>1, <1>2, <1>3, <1>4, <1>5, <1>6, <1>7, <1>8, <1>9, <1>10, <1>11, <1>12,
           <1>13, Zenon, Zenon DEF Next

\* Unspent change that was received and mined is in the index whatever createActions
\* name it, contend for it, retry, are signed, posted, rejected, reviewed, timed out
\* and aborted, on either engine: the heal of a createAction that named an input is
\* the only step that drops its row.
THEOREM ReceivedChangeIndexed ==
  ASSUME NoUnspending
  PROVE  Spec => []UnspentChangeIsIndexed
<1>1. ASSUME Init PROVE IndexedInv
  <2>1. ReceivedStay
    BY <1>1, ReservationAssumption, Zenon DEF Init, ReceivedStay
  <2>2. ReceivedUnread
    BY <1>1, ReservationAssumption, ReadsType, Zenon DEF Init, ReceivedUnread
  <2>3. ReservedSpent
    BY <1>1, Zenon DEF Init, ReservedSpent
  <2>4. ASSUME NEW o \in Received, change[o] PROVE utxoStatus[o] # None
    <3>1. o \in Txs /\ change = [t \in Txs |-> t \in Received \ Custom]
          /\ utxoStatus = [t \in Txs |-> IF t \in Received \ Custom THEN "mined" ELSE None]
      BY <1>1, ReservationAssumption, Zenon DEF Init
    <3> QED BY <2>4, <3>1, Zenon DEF None
  <2>5. UnspentChangeIsIndexed
    BY <2>4, Zenon DEF UnspentChangeIsIndexed, IsChange
  <2> QED BY <1>1, <2>1, <2>2, <2>3, <2>5, TypeStart, OwnersStart, UnfailStart, Zenon
          DEF IndexedInv
<1>2. ASSUME IndexedInv, [Next]_vars PROVE IndexedInv'
  <2>1. AllTypes /\ ReadTypes /\ OwnersInv /\ NoUnfail /\ ReservedSpent /\ ReceivedStay
        /\ ReceivedUnread
    BY <1>2, Zenon DEF IndexedInv
  <2>2. AllTypes' /\ ReadTypes' /\ OwnersInv'
    BY <1>2, <2>1, TypeStep, ReadStep, OwnersNext, Zenon
  <2>3. NoUnfail' /\ ReservedSpent' /\ ReceivedUnread'
    BY <1>2, <2>1, UnfailStep, ReservedStep, UnreadStep, Zenon
  <2>4. ReceivedStay' /\ UnspentChangeIsIndexed'
    BY <1>2, ReceivedStep, IndexedStep, Zenon
  <2> QED BY <2>2, <2>3, <2>4, Zenon DEF IndexedInv
<1>3. IndexedInv => UnspentChangeIsIndexed
  BY Zenon DEF IndexedInv
<1> QED BY <1>1, <1>2, <1>3, PTL DEF Spec

=============================================================================
