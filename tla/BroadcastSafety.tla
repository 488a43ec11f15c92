-------------------------- MODULE BroadcastSafety ---------------------------
(***************************************************************************)
(* Broadcast, for every set of transactions and calls: its types, the      *)
(* broadcast evidence in known_txs (was_broadcast covers every post), and, *)
(* when the clients of an action do not overlap, that aborts and           *)
(* broadcasts exclude each other.  The types hold on every engine, the     *)
(* rest on one that refuses a write computed from rows that have changed   *)
(* since they were read (~ReadCommitted).                                  *)
(***************************************************************************)
EXTENDS Broadcast, TLAPS

-----------------------------------------------------------------------------
(* Types.                                                                  *)

\* What the SELECTs read is of the right type.
LEMMA ReadsType ==
  /\ NoRows \in RowsRead
  /\ \A ts \in SUBSET Txs :
       /\ StoreTypeOK
       /\ \A u \in ts : reqStatus[u] \in StatusesReadyToSync \cup {"unsent", "nosend"}
       => RowsOf(ts) \in RowsRead
<1>2. NoRows \in RowsRead
  BY Zenon DEF NoRows, RowsOf, RowsRead
<1>3. ASSUME StoreTypeOK, NEW ts \in SUBSET Txs,
             \A u \in ts : reqStatus[u] \in StatusesReadyToSync \cup {"unsent", "nosend"}
      PROVE  RowsOf(ts) \in RowsRead
  <2>1. \A u \in ts : Row(u) \in Rows
    BY <1>3 DEF Row, Rows, StoreTypeOK
  <2> QED
    BY <2>1, Zenon DEF RowsOf, RowsRead
<1> QED
  BY <1>2, <1>3, Zenon

\* The initial state is of the right type.
LEMMA InitTypeOK == Init => TypeOK
<1> SUFFICES ASSUME Init PROVE TypeOK
  BY Zenon
<1>1. NoRows \in RowsRead
  BY ReadsType, Zenon
<1>2. read \in [Calls -> RowsRead]
  BY <1>1, Zenon DEF Init
<1> QED
  BY <1>2, StoreAssumption DEF Init, TypeOK, StoreInit, StoreTypeOK, InputStates, PCs, Args,
     None, AttemptCap

\* A step of a call keeps the types of the variables that control it.
LEMMA GotoType ==
  ASSUME TypeOK, NEW c \in Calls, NEW p \in PCs, NEW t \in Txs \cup {None},
         NEW a \in Args, NEW rows \in RowsRead, GotoWith(c, p, t, a, rows)
  PROVE  /\ pc' \in [Calls -> PCs]
         /\ on' \in [Calls -> Txs \cup {None}]
         /\ arg' \in [Calls -> Args]
         /\ read' \in [Calls -> RowsRead]
BY Zenon DEF TypeOK, GotoWith

\* The vocabularies the steps draw from.
LEMMA Vocabulary ==
  /\ Kinds \subseteq Args /\ Verdicts \subseteq Args /\ SyncArgs \subseteq Args
  /\ EventArgs \subseteq Args /\ NewKinds \subseteq Args /\ WithKinds \subseteq Args
  /\ {None, "txid", "noTxid", "sweep"} \subseteq Args
BY Zenon DEF Kinds, Verdicts, SyncArgs, EventArgs, NewKinds, WithKinds, Args, None

\* Every database transaction of the repositories keeps the types of the rows.
LEMMA StoreOpsType ==
  ASSUME StoreTypeOK, NEW t \in Txs
  PROVE  /\ CreateTransaction(t) => StoreTypeOK'
         /\ \A s \in TxStatuses, r \in ReqStatuses : SpendTransaction(t, s, r) => StoreTypeOK'
         /\ \A s \in ReqStatuses, skip \in SUBSET ReqStatuses :
              UpdateKnownTxStatus(t, s, skip) => StoreTypeOK'
         /\ ParkUnbroadcastKnownTx(t) => StoreTypeOK'
         /\ ClaimKnownTxForBroadcast(t) => StoreTypeOK'
         /\ IncreaseKnownTxAttempts(t) => StoreTypeOK'
         /\ \A r \in ReqStatuses, s \in TxStatuses : UpdateSingleTx(t, r, s) => StoreTypeOK'
         /\ UpdateKnownTxAsMined(t) => StoreTypeOK'
         /\ AdvanceKnownTxToBroadcasted(t) => StoreTypeOK'
         /\ FailKnownTxAsDoubleSpend(t) => StoreTypeOK'
         /\ InvalidateMerkleProof(t) => StoreTypeOK'
         /\ AbortRelease(t) => StoreTypeOK'
         /\ ReviewFailed(t) => StoreTypeOK'
         /\ UnfailAsInvalid(t) => StoreTypeOK'
         /\ UnfailAsUnmined(t) => StoreTypeOK'
<1> USE DEF StoreTypeOK, TxStatuses, ReqStatuses, InputStates, SetTxStatus, SetReqStatus
<1>1. CreateTransaction(t) => StoreTypeOK'
  BY Zenon DEF CreateTransaction
<1>2. ASSUME NEW s \in TxStatuses, NEW r \in ReqStatuses, SpendTransaction(t, s, r)
      PROVE  StoreTypeOK'
  BY <1>2, Zenon DEF SpendTransaction
<1>3. ASSUME NEW s \in ReqStatuses, NEW skip \in SUBSET ReqStatuses,
             UpdateKnownTxStatus(t, s, skip)
      PROVE  StoreTypeOK'
  BY <1>3, ZenonT(30), Zenon DEF UpdateKnownTxStatus
<1>4. ParkUnbroadcastKnownTx(t) => StoreTypeOK'
  BY Zenon DEF ParkUnbroadcastKnownTx
<1>5. ClaimKnownTxForBroadcast(t) => StoreTypeOK'
  BY Zenon DEF ClaimKnownTxForBroadcast
<1>6. IncreaseKnownTxAttempts(t) => StoreTypeOK'
  BY StoreAssumption DEF IncreaseKnownTxAttempts, AttemptCap
<1>7. ASSUME NEW r \in ReqStatuses, NEW s \in TxStatuses, UpdateSingleTx(t, r, s)
      PROVE  StoreTypeOK'
  <2>1. CASE ReqUpdateApplies(t, BroadcastResultSkip) /\ txStatus[t] \in BroadcastResultFrom
    <3>1. SetReqStatus(t, r) /\ SetTxStatus(t, s)
      BY <1>7, <2>1, Zenon DEF UpdateSingleTx, CompareAndSetTxStatus
    <3>2. UNCHANGED <<attempts, rebroadcasts, proof, inputs>>
      BY <1>7, Zenon DEF UpdateSingleTx
    <3> QED  BY <3>1, <3>2, Zenon
  <2>2. CASE ReqUpdateApplies(t, BroadcastResultSkip) /\ txStatus[t] \notin BroadcastResultFrom
    <3>1. SetReqStatus(t, r) /\ UNCHANGED <<txStatus, attempts, rebroadcasts, proof, inputs>>
      BY <1>7, <2>2, Zenon DEF UpdateSingleTx, CompareAndSetTxStatus
    <3> QED  BY <3>1, Zenon
  <2>3. CASE ~ReqUpdateApplies(t, BroadcastResultSkip)
    BY <1>7, <2>3, Zenon DEF UpdateSingleTx
  <2> QED  BY <2>1, <2>2, <2>3, Zenon
<1>8. UpdateKnownTxAsMined(t) => StoreTypeOK'
  BY Zenon DEF UpdateKnownTxAsMined
<1>9. AdvanceKnownTxToBroadcasted(t) => StoreTypeOK'
  BY Zenon DEF AdvanceKnownTxToBroadcasted
<1>10. FailKnownTxAsDoubleSpend(t) => StoreTypeOK'
  BY Zenon DEF FailKnownTxAsDoubleSpend
<1>11. InvalidateMerkleProof(t) => StoreTypeOK'
  BY StoreAssumption DEF InvalidateMerkleProof, AttemptCap
<1>12. AbortRelease(t) => StoreTypeOK'
  BY Zenon DEF AbortRelease
<1>13. ReviewFailed(t) => StoreTypeOK'
  BY Zenon DEF ReviewFailed
<1>14. UnfailAsInvalid(t) => StoreTypeOK'
  BY Zenon DEF UnfailAsInvalid
<1>15. UnfailAsUnmined(t) => StoreTypeOK'
  BY Zenon DEF UnfailAsUnmined
<1> QED
  BY <1>1, <1>2, <1>3, <1>4, <1>5, <1>6, <1>7, <1>8, <1>9, <1>10, <1>11, <1>12, Zenon,
     <1>13, <1>14, <1>15

\* The rebroadcast budget keeps the counters within their bounds, whatever
\* happened to the rows since they were read.
LEMMA ProofTimeoutsType ==
  ASSUME StoreTypeOK, NEW rows \in RowsRead, UpdateFromRead(rows)
  PROVE  StoreTypeOK'
<1>1. \A u \in Txs : rows[u] # NotRead => rows[u] \in Rows
  BY Zenon DEF RowsRead
<1>2. ASSUME NEW row \in Rows
      PROVE  /\ ProofTimeoutUpdates(row).status \in ReqStatuses
             /\ ProofTimeoutUpdates(row).wasBroadcast \in BOOLEAN
             /\ ProofTimeoutUpdates(row).attempts \in 0..AttemptCap
             /\ ProofTimeoutUpdates(row).rebroadcasts \in 0..MaxRebroadcasts
  <2>1. /\ row.wasBroadcast \in BOOLEAN
        /\ row.attempts \in 0..AttemptCap /\ row.rebroadcasts \in 0..MaxRebroadcasts
    BY DEF Rows
  <2>2. /\ ProofTimeoutUpdates(row).status \in ReqStatuses
        /\ ProofTimeoutUpdates(row).wasBroadcast \in BOOLEAN
    BY <2>1 DEF ProofTimeoutUpdates, EverBroadcast, ReqStatuses
  <2>3. ProofTimeoutUpdates(row).attempts \in 0..AttemptCap
    BY <2>1, StoreAssumption DEF ProofTimeoutUpdates, AttemptCap
  <2>4. ProofTimeoutUpdates(row).rebroadcasts \in 0..MaxRebroadcasts
    BY <2>1, StoreAssumption DEF ProofTimeoutUpdates, WithinBudget, NextRebroadcast
  <2> QED
    BY <2>2, <2>3, <2>4, Zenon
<1>3. reqStatus' \in [Txs -> ReqStatuses \cup {None}] /\ wasBroadcast' \in [Txs -> BOOLEAN]
  BY <1>1, <1>2, Zenon DEF StoreTypeOK, UpdateFromRead
<1>4. attempts' \in [Txs -> 0..AttemptCap] /\ rebroadcasts' \in [Txs -> 0..MaxRebroadcasts]
  BY <1>1, <1>2, Zenon DEF StoreTypeOK, UpdateFromRead
<1> QED
  BY <1>3, <1>4, Zenon DEF StoreTypeOK, UpdateFromRead

\* Every step of a call keeps the types.
LEMMA CallNextType ==
  ASSUME TypeOK, NEW c \in Calls, NEW t \in Txs, CallNext(c, t)
  PROVE  TypeOK'
<1> USE Vocabulary DEF PCs
<1>0. /\ StoreTypeOK
      /\ UNCHANGED storeVars => StoreTypeOK'
      /\ UNCHANGED callVars => /\ pc' \in [Calls -> PCs]
                               /\ on' \in [Calls -> Txs \cup {None}]
                               /\ arg' \in [Calls -> Args]
                               /\ read' \in [Calls -> RowsRead]
      /\ UNCHANGED queue => queue' \in SUBSET Txs
      /\ UNCHANGED netVars => /\ net' \in [Txs -> {"unseen", "mempool", "mined"}]
                              /\ posted' \in [Txs -> BOOLEAN]
  BY Zenon DEF TypeOK, StoreTypeOK, storeVars, callVars, netVars
<1>g. ASSUME NEW p \in PCs, NEW u \in Txs \cup {None}, NEW a \in Args, Goto(c, p, u, a)
      PROVE  /\ pc' \in [Calls -> PCs]
             /\ on' \in [Calls -> Txs \cup {None}]
             /\ arg' \in [Calls -> Args]
             /\ read' \in [Calls -> RowsRead]
  BY <1>g, GotoType, ReadsType, Zenon DEF Goto
<1>r. read[c] \in RowsRead
  BY Zenon DEF TypeOK
<1>a. arg[c] \in Args
  BY Zenon DEF TypeOK
<1>1. CASE CreateAction(c, t)
  BY <1>1, <1>0, <1>g, <1>a, StoreOpsType, Zenon DEF TypeOK, CreateAction, Finish, At
<1>2. CASE \E k \in NewKinds : FindAction(c, t, k)
  BY <1>2, <1>0, <1>g, <1>a, Zenon DEF TypeOK, FindAction, Finish, At
<1>3. CASE \E k \in WithKinds : SendWith(c, t, k)
  BY <1>3, <1>0, <1>g, <1>a, Zenon DEF TypeOK, SendWith, Finish, At
<1>4. CASE StoreSigned(c, t)
  BY <1>4, <1>0, <1>g, <1>a, StoreOpsType, Zenon DEF TypeOK, StoreSigned, Finish, At,
     NewTxStatus,
     NewReqStatus, TxStatuses, ReqStatuses
<1>5. CASE SelectWaiting(c, t)
  BY <1>5, <1>0, <1>g, <1>a, Zenon DEF TypeOK, SelectWaiting, Finish, At
<1>6. CASE CheckStatus(c, t)
  BY <1>6, <1>0, <1>g, <1>a, Zenon DEF TypeOK, CheckStatus, Finish, At
<1>7. CASE SkipAlreadySent(c, t)
  BY <1>7, <1>0, <1>g, <1>a, Zenon DEF TypeOK, SkipAlreadySent, Finish, At
<1>8. CASE ReleaseOnError(c, t)
  BY <1>8, <1>0, <1>g, <1>a, Zenon DEF TypeOK, ReleaseOnError, Finish, At
<1>9. CASE QueueKnown(c, t)
  BY <1>9, <1>0, <1>g, <1>a, StoreOpsType, Zenon DEF TypeOK, QueueKnown, Finish, At,
     ReqStatuses,
     BeyondBroadcastStage
<1>10. CASE QueueTx(c, t)
  BY <1>10, <1>0, <1>g, <1>a, Zenon DEF TypeOK, QueueTx, Finish, At, CompareAndSetTxStatus,
     StoreTypeOK,
     TxStatuses
<1>11. CASE Add(c, t)
  BY <1>11, <1>0, <1>g, <1>a, Zenon DEF TypeOK, Add, Finish, At
<1>12. CASE SelectForClaim(c, t) \/ Claim(c, t)
  BY <1>12, <1>0, <1>g, <1>a, StoreOpsType, Zenon DEF TypeOK, SelectForClaim, Claim, Finish, At,
     ClaimRefused
<1>13. CASE CountAttempt(c, t)
  BY <1>13, <1>0, <1>g, <1>a, StoreOpsType, Zenon DEF TypeOK, CountAttempt, Finish, At
<1>14. CASE Post(c, t)
  BY <1>14, <1>0, <1>g, <1>a, Zenon DEF TypeOK, Post, Finish, At
<1>15. CASE ApplyResult(c, t)
  BY <1>15, <1>0, <1>g, <1>a, StoreOpsType, Zenon DEF TypeOK, ApplyResult, Finish, At,
     ResultReqStatus,
     ResultTxStatus, TxStatuses, ReqStatuses
<1>16. CASE TakeQueued(c, t) \/ BackgroundClaim(c, t)
  BY <1>16, <1>0, <1>g, <1>a, StoreOpsType, Zenon DEF TypeOK, TakeQueued, BackgroundClaim, Finish,
     At, ClaimRefused
<1>17. CASE CountBackgroundAttempt(c, t)
  BY <1>17, <1>0, <1>g, <1>a, StoreOpsType, Zenon DEF TypeOK, CountBackgroundAttempt, Finish, At
<1>18. CASE AbortFind(c, t)
  BY <1>18, <1>0, <1>g, <1>a, Zenon DEF TypeOK, AbortFind, Finish, At
<1>19. CASE SelectAbandoned(c, t)
  BY <1>19, <1>0, <1>g, <1>a, Zenon DEF TypeOK, SelectAbandoned, Finish, At
<1>20. CASE LoadAbandoned(c, t)
  BY <1>20, <1>0, <1>g, <1>a, Zenon DEF TypeOK, LoadAbandoned, Finish, At
<1>21. CASE CheckInFlight(c, t) \/ Park(c, t)
  BY <1>21, <1>0, <1>g, <1>a, StoreOpsType, Zenon DEF TypeOK, CheckInFlight, Park, Finish, At
<1>22. CASE AbortCommit(c, t)
  BY <1>22, <1>0, <1>g, <1>a, StoreOpsType, Zenon DEF TypeOK, AbortCommit, Finish, At
<1>23. CASE \E a \in SyncArgs : SyncSelect(c, t, a)
  BY <1>23, <1>0, <1>g, <1>a, Zenon DEF TypeOK, SyncSelect, Finish, At
<1>24. CASE SyncSkip(c, t)
  BY <1>24, <1>0, <1>g, <1>a, Zenon DEF TypeOK, SyncSkip, Finish, At
<1>25. CASE SyncMined(c, t)
  BY <1>25, <1>0, <1>g, <1>a, StoreOpsType, Zenon DEF TypeOK, SyncMined, Finish, At
<1>26. CASE SyncNotFound(c, t)
  BY <1>26, <1>0, <1>g, <1>a, StoreOpsType, Zenon DEF TypeOK, SyncNotFound, Finish, At
<1>27. CASE SyncTimeouts(c, t)
  BY <1>27, <1>0, <1>g, <1>r, ProofTimeoutsType, Zenon DEF TypeOK, SyncTimeouts, Finish, At,
     ApplyProofTimeouts
<1>28. CASE SelectForReview(c, t)
  BY <1>28, <1>0, <1>g, <1>a, Zenon DEF TypeOK, SelectForReview, Finish, At
<1>29. CASE Review(c, t)
  BY <1>29, <1>0, <1>g, <1>a, StoreOpsType, Zenon DEF TypeOK, Review, Finish, At
<1>30. CASE \E a \in EventArgs : ReceiveEvent(c, t, a)
  BY <1>30, <1>0, <1>g, <1>a, Zenon DEF TypeOK, ReceiveEvent, Finish, At
<1>31. CASE ApplyEvent(c, t)
  BY <1>31, <1>0, <1>g, <1>a, StoreOpsType, Zenon DEF TypeOK, ApplyEvent, Finish, At
<1>32. CASE ListFailed(c, t)
  BY <1>32, <1>0, <1>g, <1>a, Zenon DEF TypeOK, ListFailed, Finish, At
<1>33. CASE MarkForUnfail(c, t)
  BY <1>33, <1>0, <1>g, <1>a, StoreOpsType, Zenon DEF TypeOK, MarkForUnfail, Finish, At,
     ReqStatuses
<1>34. CASE SelectUnfail(c, t)
  BY <1>34, <1>0, <1>g, <1>a, Zenon DEF TypeOK, SelectUnfail, Finish, At
<1>35. CASE Unfail(c, t)
  BY <1>35, <1>0, <1>g, <1>a, StoreOpsType, Zenon DEF TypeOK, Unfail, UnfailRolledBack,
     Finish, At
<1>36. CASE SyncProved(c, t) \/ UnfailProved(c, t)
  BY <1>36, <1>0, <1>g, Zenon DEF TypeOK, SyncProved, UnfailProved
<1>37. CASE Requeue(c, t)
  BY <1>37, <1>0, <1>g, <1>r, ProofTimeoutsType, Zenon DEF TypeOK, Requeue, Finish, At,
     RequeueKnownTxForRebroadcast
<1>38. CASE SelectTimedOut(c, t)
  <2>1. RowsOf(TimedOut(SyncStatuses(arg[c]))) \in RowsRead
    BY <1>0, ReadsType, Zenon DEF TimedOut, ReadyForStatusSync, SyncStatuses
  <2> QED
    BY <1>38, <1>0, <2>1, GotoType, Zenon DEF TypeOK, SelectTimedOut
<1>39. CASE SelectForRequeue(c, t)
  <2>1. CASE reqStatus[t] \in RequeueFrom
    <3>1. RowsOf({t}) \in RowsRead
      BY <1>0, <2>1, ReadsType, Zenon DEF RequeueFrom, StatusesReadyToSync
    <3> QED
      BY <1>39, <1>0, <2>1, <3>1, GotoType, Zenon DEF TypeOK, SelectForRequeue
  <2>2. CASE reqStatus[t] \notin RequeueFrom
    BY <1>39, <1>0, <1>g, <2>2, Zenon DEF TypeOK, SelectForRequeue, Finish
  <2> QED
    BY <2>1, <2>2, Zenon
<1> QED
  BY Zenon, <1>37, <1>38, <1>39, <1>36, <1>1, <1>2, <1>3, <1>4, <1>5, <1>6, <1>7, <1>8, <1>9,
     <1>10, <1>11, <1>12,
     <1>13, <1>14,
     <1>15, <1>16, <1>17, <1>18, <1>19, <1>20, <1>21, <1>22, <1>23, <1>24, <1>25, <1>26, <1>27,
     <1>28, <1>29, <1>30, <1>31, <1>32, <1>33, <1>34, <1>35 DEF CallNext

\* The wallet's rows, the calls and the queue always hold values of their types;
\* in particular the rebroadcast budget is never exceeded, whichever of the
\* proof timeouts and the rejected events spends it.
THEOREM TypeCorrect == Spec => []TypeOK
<1>1. TypeOK /\ [Next]_vars => TypeOK'
  <2> SUFFICES ASSUME TypeOK, [Next]_vars PROVE TypeOK'
    BY Zenon
  <2>1. CASE \E c \in Calls, t \in Txs : CallNext(c, t)
    BY <2>1, CallNextType, Zenon
  <2>2. CASE \E c \in Calls : CallStops(c) \/ Restart(c)
    <3> PICK c \in Calls : CallStops(c) \/ Restart(c)
      BY <2>2, Zenon
    <3>1. PICK p \in {"idle", "down"} : Goto(c, p, None, None)
      BY Zenon DEF CallStops, Restart, Finish
    <3>2. p \in PCs /\ None \in Args /\ None \in Txs \cup {None}
      BY Zenon DEF PCs, Args
    <3>3. /\ pc' \in [Calls -> PCs]
          /\ on' \in [Calls -> Txs \cup {None}]
          /\ arg' \in [Calls -> Args]
          /\ read' \in [Calls -> RowsRead]
      BY <3>1, <3>2, GotoType, ReadsType, Zenon DEF Goto
    <3> QED
      BY <3>3, Zenon DEF TypeOK, StoreTypeOK, CallStops, Restart, storeVars, netVars
  <2>3. CASE \E t \in Txs : Mine(t) \/ Evict(t)
    BY <2>3, Zenon DEF Mine, Evict, TypeOK, StoreTypeOK, storeVars, callVars
  <2>4. CASE \E t \in Txs : HandleReorg(t)
    BY <2>4, StoreOpsType, Zenon DEF HandleReorg, TypeOK, StoreTypeOK, callVars, storeVars
  <2>5. CASE QueueLost
    BY <2>5, Zenon DEF QueueLost, TypeOK, StoreTypeOK, storeVars, callVars, netVars
  <2>6. CASE UNCHANGED vars
    BY <2>6, Zenon DEF vars, TypeOK, StoreTypeOK, storeVars, callVars, netVars
  <2> QED
    BY <2>1, <2>2, <2>3, <2>4, <2>5, <2>6, Zenon DEF Next
<1> QED
  BY <1>1, InitTypeOK, PTL DEF Spec

-----------------------------------------------------------------------------
(* The evidence of a broadcast.                                            *)

\* What makes PostedIsFlagged inductive: the network knows posted transactions
\* only, and a call that has claimed, posted or received an event about a
\* transaction has left the evidence in its row.
FlagInv ==
  /\ PostedIsFlagged
  /\ \A t \in Txs : net[t] # "unseen" => posted[t]
  /\ \A t \in Txs : reqStatus[t] = None => ~wasBroadcast[t]
  /\ \A c \in Calls :
       pc[c] \in {"claimed", "counted", "answered", "bgClaimed", "bgAnswered", "bgApplied"}
         => on[c] \in Txs /\ wasBroadcast[on[c]]
  /\ \A c \in Calls :
       pc[c] \in {"answered", "bgAnswered", "event", "proved", "unfailProved"}
         => on[c] \in Txs /\ posted[on[c]]
  /\ \A c \in Calls :
       pc[c] \in {"unfailing", "unfailProved", "reviewing"} => on[c] \in Txs /\ HasTxID(on[c])

\* What every database transaction does for the evidence: the flag is never
\* cleared, a txid never taken back, and no row without a txid is flagged.
KeepsEvidence ==
  /\ \A u \in Txs : wasBroadcast[u] => wasBroadcast'[u]
  /\ \A u \in Txs : HasTxID(u) => HasTxID(u)'
  /\ (\A u \in Txs : ~HasTxID(u) => ~wasBroadcast[u])
       => (\A u \in Txs : ~HasTxID(u)' => ~wasBroadcast'[u])

\* What a proof timeout computes from rows that still hold: it has a txid, is
\* flagged if it was, and was not parked.
LEMMA FreshRows ==
  ASSUME StoreTypeOK, NEW rows \in RowsRead, ReadHolds(rows)
  PROVE  \A u \in Txs : rows[u] # NotRead =>
           /\ reqStatus[u] \notin {None, "invalidTx", "unfail"}
           /\ ProofTimeoutUpdates(rows[u]).status # None
           /\ wasBroadcast[u] => ProofTimeoutUpdates(rows[u]).wasBroadcast
<1> SUFFICES ASSUME NEW u \in Txs, rows[u] # NotRead
             PROVE  /\ reqStatus[u] \notin {None, "invalidTx", "unfail"}
                    /\ ProofTimeoutUpdates(rows[u]).status # None
                    /\ wasBroadcast[u] => ProofTimeoutUpdates(rows[u]).wasBroadcast
  BY Zenon
<1>1. rows[u] \in Rows /\ rows[u] = Row(u)
  BY Zenon DEF ReadHolds, RowsRead
<1>2. rows[u].status = reqStatus[u] /\ rows[u].wasBroadcast = wasBroadcast[u]
  BY <1>1 DEF Row
<1>3. rows[u].status \in StatusesReadyToSync \cup {"unsent", "nosend"}
  BY <1>1 DEF Rows
<1>4. reqStatus[u] \notin {None, "invalidTx", "unfail"}
  BY <1>2, <1>3, Zenon DEF StatusesReadyToSync, None
<1>5. ProofTimeoutUpdates(rows[u]).status # None
  BY DEF ProofTimeoutUpdates, None
<1>6. wasBroadcast[u] => ProofTimeoutUpdates(rows[u]).wasBroadcast
  BY <1>2 DEF ProofTimeoutUpdates, EverBroadcast
<1> QED
  BY <1>1, <1>4, <1>5, <1>6, Zenon

\* The database transactions of the repositories keep the evidence.
LEMMA StoreOpsEvidence ==
  ASSUME ~ReadCommitted, StoreTypeOK, NEW t \in Txs
  PROVE  /\ UNCHANGED storeVars => KeepsEvidence
         /\ CreateTransaction(t) => KeepsEvidence
         /\ \A s \in TxStatuses, r \in ReqStatuses : SpendTransaction(t, s, r) => KeepsEvidence
         /\ \A s \in ReqStatuses, skip \in SUBSET ReqStatuses :
              UpdateKnownTxStatus(t, s, skip) => KeepsEvidence
         /\ ParkUnbroadcastKnownTx(t) => KeepsEvidence
         /\ ClaimKnownTxForBroadcast(t) => KeepsEvidence
         /\ IncreaseKnownTxAttempts(t) => KeepsEvidence
         /\ \A r \in ReqStatuses, s \in TxStatuses : UpdateSingleTx(t, r, s) => KeepsEvidence
         /\ UpdateKnownTxAsMined(t) => KeepsEvidence
         /\ AdvanceKnownTxToBroadcasted(t) => KeepsEvidence
         /\ FailKnownTxAsDoubleSpend(t) => KeepsEvidence
         /\ InvalidateMerkleProof(t) => KeepsEvidence
         /\ ClaimRefused(t) => KeepsEvidence
         /\ \A rows \in RowsRead : ApplyProofTimeouts(rows) => KeepsEvidence
         /\ \A rows \in RowsRead : RequeueKnownTxForRebroadcast(t, rows) => KeepsEvidence
         /\ AbortRelease(t) => KeepsEvidence
         /\ ReviewFailed(t) => KeepsEvidence
         /\ UnfailAsInvalid(t) => KeepsEvidence
         /\ UnfailAsUnmined(t) => KeepsEvidence
<1> USE DEF StoreTypeOK, KeepsEvidence, HasTxID, SetReqStatus, None
<1>1. /\ UNCHANGED storeVars => KeepsEvidence
      /\ CreateTransaction(t) => KeepsEvidence
      /\ IncreaseKnownTxAttempts(t) => KeepsEvidence
      /\ AbortRelease(t) => KeepsEvidence
      /\ ReviewFailed(t) => KeepsEvidence
  BY Zenon DEF storeVars, CreateTransaction, IncreaseKnownTxAttempts, AbortRelease, ReviewFailed
<1>2. ASSUME NEW s \in TxStatuses, NEW r \in ReqStatuses, SpendTransaction(t, s, r)
      PROVE  KeepsEvidence
  BY <1>2, Zenon DEF SpendTransaction, ReqStatuses, BeyondBroadcastStage
<1>3. ASSUME NEW s \in ReqStatuses, NEW skip \in SUBSET ReqStatuses,
             UpdateKnownTxStatus(t, s, skip)
      PROVE  KeepsEvidence
  BY <1>3 DEF UpdateKnownTxStatus, ReqUpdateApplies, ReqStatuses
<1>4. /\ ParkUnbroadcastKnownTx(t) => KeepsEvidence
      /\ ClaimKnownTxForBroadcast(t) => KeepsEvidence
      /\ InvalidateMerkleProof(t) => KeepsEvidence
  BY Zenon DEF ParkUnbroadcastKnownTx, ClaimKnownTxForBroadcast, InvalidateMerkleProof
<1>5. ASSUME NEW r \in ReqStatuses, NEW s \in TxStatuses, UpdateSingleTx(t, r, s)
      PROVE  KeepsEvidence
  BY <1>5, Zenon DEF UpdateSingleTx, ReqUpdateApplies, ReqStatuses
<1>6. /\ UpdateKnownTxAsMined(t) => KeepsEvidence
      /\ AdvanceKnownTxToBroadcasted(t) => KeepsEvidence
      /\ FailKnownTxAsDoubleSpend(t) => KeepsEvidence
      /\ UnfailAsInvalid(t) => KeepsEvidence
      /\ UnfailAsUnmined(t) => KeepsEvidence
  BY Zenon DEF UpdateKnownTxAsMined, AdvanceKnownTxToBroadcasted, FailKnownTxAsDoubleSpend,
     ReqUpdateApplies, UnfailAsInvalid, UnfailAsUnmined
<1>7. ClaimRefused(t) => KeepsEvidence
  BY <1>1, Zenon DEF ClaimRefused
<1>8. ASSUME NEW rows \in RowsRead, ReadHolds(rows), UpdateFromRead(rows)
      PROVE  KeepsEvidence
  BY <1>8, FreshRows, Zenon DEF UpdateFromRead
<1> QED
  BY <1>1, <1>2, <1>3, <1>4, <1>5, <1>6, <1>7, <1>8, Zenon
     DEF ApplyProofTimeouts, RequeueKnownTxForRebroadcast

\* A step of call c that leaves the network alone keeps FlagInv, if what the
\* step promises about the transaction it goes on with is in its row.
LEMMA FlagStep ==
  ASSUME TypeOK, FlagInv, NEW c \in Calls, NEW p, NEW t, NEW a, NEW rows,
         GotoWith(c, p, t, a, rows), KeepsEvidence, UNCHANGED netVars,
         p \in {"claimed", "counted", "answered", "bgClaimed", "bgAnswered", "bgApplied"}
           => t \in Txs /\ wasBroadcast'[t],
         p \in {"answered", "bgAnswered", "event", "proved", "unfailProved"}
           => t \in Txs /\ posted[t],
         p \in {"unfailing", "unfailProved", "reviewing"} => t \in Txs /\ HasTxID(t)'
  PROVE  FlagInv'
BY DEF TypeOK, FlagInv, PostedIsFlagged, GotoWith, KeepsEvidence, HasTxID, netVars

\* A step that leaves the calls and the network alone keeps FlagInv.
LEMMA FlagQuiet ==
  ASSUME TypeOK, FlagInv, KeepsEvidence, UNCHANGED <<callVars, netVars>>
  PROVE  FlagInv'
BY Zenon DEF TypeOK, FlagInv, PostedIsFlagged, KeepsEvidence, HasTxID, callVars, netVars

\* Every step of a call keeps the evidence.
LEMMA CallNextFlag ==
  ASSUME ~ReadCommitted, TypeOK, FlagInv, NEW c \in Calls, NEW t \in Txs, CallNext(c, t)
  PROVE  FlagInv'
<1>0. StoreTypeOK /\ (UNCHANGED storeVars => KeepsEvidence)
  BY StoreOpsEvidence, Zenon DEF TypeOK
<1>r. read[c] \in RowsRead
  BY Zenon DEF TypeOK
<1>s. ASSUME NEW p, NEW u, NEW a, Goto(c, p, u, a), KeepsEvidence, UNCHANGED netVars,
             p \in {"claimed", "counted", "answered", "bgClaimed", "bgAnswered", "bgApplied"}
               => u \in Txs /\ wasBroadcast'[u],
             p \in {"answered", "bgAnswered", "event", "proved", "unfailProved"}
               => u \in Txs /\ posted[u],
             p \in {"unfailing", "unfailProved", "reviewing"} => u \in Txs /\ HasTxID(u)'
      PROVE  FlagInv'
  BY <1>s, FlagStep, Zenon DEF Goto
<1>q. ASSUME NEW p, NEW u, NEW a, Goto(c, p, u, a), KeepsEvidence, UNCHANGED netVars,
             p \notin {"claimed", "counted", "answered", "bgClaimed", "bgAnswered",
                      "bgApplied", "event", "proved", "unfailing", "unfailProved",
                      "reviewing"}
      PROVE  FlagInv'
  BY <1>q, <1>s, Zenon
<1>1. CASE CreateAction(c, t)
  BY <1>1, <1>0, FlagQuiet, StoreOpsEvidence, Zenon DEF CreateAction
<1>2. CASE \E k \in NewKinds : FindAction(c, t, k)
  BY <1>2, <1>0, <1>q, Zenon DEF FindAction, At, Finish
<1>3. CASE \E k \in WithKinds : SendWith(c, t, k)
  BY <1>3, <1>0, <1>q, Zenon DEF SendWith, At, Finish
<1>4. CASE StoreSigned(c, t)
  BY <1>4, <1>0, <1>q, StoreOpsEvidence, Zenon
      DEF StoreSigned, At, Finish, NewTxStatus, NewReqStatus,
     TxStatuses, ReqStatuses
<1>5. CASE SelectWaiting(c, t)
  BY <1>5, <1>0, <1>q, Zenon DEF SelectWaiting, At, Finish
<1>6. CASE CheckStatus(c, t)
  BY <1>6, <1>0, <1>q, Zenon DEF CheckStatus, At, Finish
<1>7. CASE SkipAlreadySent(c, t)
  BY <1>7, <1>0, <1>q, Zenon DEF SkipAlreadySent, At, Finish
<1>8. CASE ReleaseOnError(c, t)
  BY <1>8, <1>0, <1>q, Zenon DEF ReleaseOnError, At, Finish
<1>9. CASE QueueKnown(c, t)
  BY <1>9, <1>0, <1>q, StoreOpsEvidence, Zenon DEF QueueKnown, At, Finish, ReqStatuses,
     BeyondBroadcastStage
<1>10. CASE QueueTx(c, t)
  BY <1>10, <1>0, <1>q, StoreOpsEvidence, Zenon DEF QueueTx, At, Finish, KeepsEvidence, HasTxID
<1>11. CASE Add(c, t)
  BY <1>11, <1>0, <1>q, Zenon DEF Add, At, Finish
<1>12. CASE SelectForClaim(c, t)
  BY <1>12, <1>0, <1>q, Zenon DEF SelectForClaim, Finish
<1>40. CASE Claim(c, t) \/ BackgroundClaim(c, t)
  <2>0. UNCHANGED netVars
    BY <1>40, Zenon DEF Claim, BackgroundClaim
  <2>1. CASE ClaimKnownTxForBroadcast(t)
    <3>1. wasBroadcast'[t] /\ KeepsEvidence
      BY <2>1, <1>0, StoreOpsEvidence, Zenon DEF ClaimKnownTxForBroadcast, StoreTypeOK
    <3>2. CASE Goto(c, "claimed", t, None) \/ Goto(c, "bgClaimed", t, None)
      BY <2>0, <3>1, <3>2, <1>s, Zenon
    <3>3. CASE Finish(c)
      BY <2>0, <3>1, <3>3, <1>q, Zenon DEF Finish
    <3> QED
      BY <1>40, <3>2, <3>3, Zenon DEF Claim, BackgroundClaim
  <2>2. CASE ClaimRefused(t) /\ Finish(c)
    BY <2>0, <2>2, <1>0, <1>q, StoreOpsEvidence, Zenon DEF Finish
  <2> QED
    BY <1>40, <2>1, <2>2, Zenon DEF Claim, BackgroundClaim
<1>13. CASE CountAttempt(c, t)
  BY <1>13, <1>0, <1>s, StoreOpsEvidence, Zenon DEF CountAttempt, At, Finish, FlagInv,
     IncreaseKnownTxAttempts
<1>14. CASE Post(c, t)
  BY <1>14, <1>0 DEF Post, At, Finish, FlagInv, PostedIsFlagged, HasTxID, StoreTypeOK,
     storeVars,
     Goto, GotoWith, TypeOK
<1>15. CASE ApplyResult(c, t)
  <2>1. KeepsEvidence /\ UNCHANGED netVars
    BY <1>15, <1>0, StoreOpsEvidence, Zenon
       DEF ApplyResult, ResultReqStatus, ResultTxStatus, TxStatuses, ReqStatuses
  <2>2. CASE pc[c] = "answered" /\ Finish(c)
    BY <2>1, <2>2, <1>q, Zenon DEF Finish
  <2>3. CASE pc[c] = "bgAnswered" /\ Goto(c, "bgApplied", t, None)
    <3>1. on[c] = t /\ wasBroadcast'[t]
      BY <1>15, <2>1, <2>3, Zenon DEF ApplyResult, FlagInv, KeepsEvidence
    <3> QED
      BY <2>1, <2>3, <3>1, <1>s, Zenon
  <2> QED
    BY <1>15, <2>2, <2>3, Zenon DEF ApplyResult
<1>16. CASE TakeQueued(c, t)
  BY <1>16, <1>0, <1>q, FlagQuiet, Zenon DEF TakeQueued
<1>17. CASE CountBackgroundAttempt(c, t)
  BY <1>17, <1>0, <1>q, StoreOpsEvidence, Zenon DEF CountBackgroundAttempt, At, Finish
<1>18. CASE AbortFind(c, t)
  BY <1>18, <1>0, <1>q, Zenon DEF AbortFind, At, Finish
<1>19. CASE SelectAbandoned(c, t)
  BY <1>19, <1>0, <1>q, Zenon DEF SelectAbandoned, At, Finish
<1>20. CASE LoadAbandoned(c, t)
  BY <1>20, <1>0, <1>q, Zenon DEF LoadAbandoned, At, Finish
<1>21. CASE CheckInFlight(c, t) \/ Park(c, t)
  BY <1>21, <1>0, <1>q, StoreOpsEvidence, Zenon DEF CheckInFlight, Park, At, Finish
<1>22. CASE AbortCommit(c, t)
  BY <1>22, <1>0, <1>q, StoreOpsEvidence, Zenon DEF AbortCommit, At, Finish
<1>23. CASE \E a \in SyncArgs : SyncSelect(c, t, a)
  BY <1>23, <1>0, <1>q, Zenon DEF SyncSelect, At, Finish
<1>24. CASE SyncSkip(c, t)
  BY <1>24, <1>0, <1>q, Zenon DEF SyncSkip, At, Finish
<1>25. CASE SyncMined(c, t)
  BY <1>25, <1>0, <1>q, StoreOpsEvidence, Zenon DEF SyncMined, At, Finish
<1>26. CASE SyncNotFound(c, t)
  BY <1>26, <1>0, <1>q, StoreOpsEvidence, Zenon DEF SyncNotFound, At, Finish
<1>27. CASE SyncTimeouts(c, t)
  BY <1>27, <1>0, <1>q, <1>r, StoreOpsEvidence, Zenon DEF SyncTimeouts, At, Finish
<1>28. CASE SelectForReview(c, t)
  <2>1. HasTxID(t)' /\ KeepsEvidence /\ UNCHANGED netVars
    BY <1>28, <1>0, Zenon DEF SelectForReview, TerminalFailure, HasTxID, None, storeVars
  <2> QED
    BY <1>28, <2>1, <1>s, Zenon DEF SelectForReview
<1>29. CASE Review(c, t)
  BY <1>29, <1>0, <1>q, StoreOpsEvidence, Zenon DEF Review, At, Finish
<1>30. CASE \E a \in EventArgs : ReceiveEvent(c, t, a)
  BY <1>30, <1>0, <1>s, StoreOpsEvidence, Zenon DEF ReceiveEvent, At, Finish, FlagInv
<1>31. CASE ApplyEvent(c, t)
  BY <1>31, <1>0, <1>q, StoreOpsEvidence, Zenon DEF ApplyEvent, At, Finish
<1>32. CASE ListFailed(c, t)
  BY <1>32, <1>0, <1>q, Zenon DEF ListFailed, At, Finish
<1>33. CASE MarkForUnfail(c, t)
  BY <1>33, <1>0, <1>q, StoreOpsEvidence, Zenon DEF MarkForUnfail, At, Finish, ReqStatuses
<1>34. CASE SelectUnfail(c, t)
  <2>1. HasTxID(t)' /\ KeepsEvidence /\ UNCHANGED netVars
    BY <1>34, <1>0, Zenon DEF SelectUnfail, HasTxID, None, storeVars
  <2> QED
    BY <1>34, <2>1, <1>s, Zenon DEF SelectUnfail
<1>35. CASE Unfail(c, t)
  BY <1>35, <1>0, <1>q, StoreOpsEvidence, Zenon DEF Unfail, UnfailRolledBack, At, Finish
<1>36. CASE SyncProved(c, t) \/ UnfailProved(c, t)
  <2>1. HasTxID(t) => HasTxID(t)'
    BY <1>36, <1>0, Zenon DEF SyncProved, UnfailProved, KeepsEvidence
  <2> QED
    BY <1>36, <2>1, <1>0, <1>s, Zenon DEF SyncProved, UnfailProved, At, FlagInv
<1>37. CASE Requeue(c, t)
  BY <1>37, <1>0, <1>q, <1>r, StoreOpsEvidence, Zenon DEF Requeue, At, Finish
<1>38. CASE SelectTimedOut(c, t) \/ SelectForRequeue(c, t)
  <2>0. KeepsEvidence /\ UNCHANGED netVars
    BY <1>38, <1>0, Zenon DEF SelectTimedOut, SelectForRequeue
  <2>1. CASE Finish(c)
    BY <2>0, <2>1, <1>q, Zenon DEF Finish
  <2>2. CASE \E p \in {"timingOut", "requeuing"} : \E rows : GotoWith(c, p, t, None, rows)
    BY <2>0, <2>2, FlagStep, Zenon
  <2> QED
    BY <1>38, <2>1, <2>2, Zenon DEF SelectTimedOut, SelectForRequeue
<1> QED
  BY Zenon, <1>37, <1>38, <1>40, <1>36, <1>1, <1>2, <1>3, <1>4, <1>5, <1>6, <1>7, <1>8, <1>9,
     <1>10, <1>11, <1>12,
     <1>13, <1>14,
     <1>15, <1>16, <1>17, <1>18, <1>19, <1>20, <1>21, <1>22, <1>23, <1>24, <1>25, <1>26, <1>27,
     <1>28, <1>29, <1>30, <1>31, <1>32, <1>33, <1>34, <1>35 DEF CallNext

\* The evidence in the rows of known_txs is an invariant.
LEMMA FlagInvariant == ~ReadCommitted => (Spec => []FlagInv)
<1> SUFFICES ASSUME ~ReadCommitted PROVE Spec => []FlagInv
  BY Zenon
<1>1. Init => FlagInv
  BY Zenon DEF Init, StoreInit, FlagInv, PostedIsFlagged
<1>2. TypeOK /\ FlagInv /\ [Next]_vars => FlagInv'
  <2> SUFFICES ASSUME TypeOK, FlagInv, [Next]_vars PROVE FlagInv'
    BY Zenon
  <2>0. StoreTypeOK
    BY Zenon DEF TypeOK
  <2>1. CASE \E c \in Calls, t \in Txs : CallNext(c, t)
    BY <2>1, CallNextFlag, Zenon
  <2>2. CASE \E c \in Calls : CallStops(c) \/ Restart(c)
    BY <2>2 DEF CallStops, Restart, Finish, Goto, GotoWith, TypeOK, FlagInv, PostedIsFlagged,
       HasTxID,
       storeVars, netVars
  <2>3. CASE \E t \in Txs : Mine(t) \/ Evict(t)
    <3> PICK t \in Txs : Mine(t) \/ Evict(t)
      BY <2>3, Zenon
    <3>1. UNCHANGED <<reqStatus, wasBroadcast, txStatus, posted, pc, on>>
      BY Zenon DEF Mine, Evict, storeVars, callVars
    <3>2. \A u \in Txs : net'[u] # "unseen" => posted[u]
      BY Zenon DEF Mine, Evict, TypeOK, FlagInv
    <3> QED
      BY <3>1, <3>2, Zenon DEF FlagInv, PostedIsFlagged, HasTxID
  <2>4. CASE \E t \in Txs : HandleReorg(t)
    <3> PICK t \in Txs : HandleReorg(t)
      BY <2>4, Zenon
    <3>1. KeepsEvidence
      BY <2>0, StoreOpsEvidence, Zenon DEF HandleReorg
    <3> QED
      BY <3>1, Zenon DEF HandleReorg, TypeOK, FlagInv, PostedIsFlagged, HasTxID, KeepsEvidence,
         callVars
  <2>5. CASE QueueLost
    BY <2>5, Zenon DEF QueueLost, FlagInv, PostedIsFlagged, HasTxID, storeVars, callVars,
       netVars
  <2>6. CASE UNCHANGED vars
    BY <2>6, Zenon DEF vars, FlagInv, PostedIsFlagged, HasTxID, storeVars, callVars, netVars
  <2> QED
    BY <2>1, <2>2, <2>3, <2>4, <2>5, <2>6, Zenon DEF Next
<1> QED
  BY <1>1, <1>2, TypeCorrect, PTL DEF Spec

\* On an engine that refuses stale writes, was_broadcast is set before the network
\* sees the transaction and is never cleared: the UPDATE of the claim sets it or
\* the post does not happen, and proof timeouts, requeues and reorganisations keep
\* it.  No serialisation of the clients is needed.
THEOREM EvidenceKept == ~ReadCommitted => (Spec => []PostedIsFlagged)
<1> SUFFICES ASSUME ~ReadCommitted PROVE Spec => []PostedIsFlagged
  BY Zenon
<1>1. FlagInv => PostedIsFlagged
  BY Zenon DEF FlagInv
<1> QED
  BY <1>1, FlagInvariant, PTL

\* A step of a call clears no flag.
LEMMA CallNextKeeps ==
  ASSUME ~ReadCommitted, TypeOK, NEW c \in Calls, NEW t \in Txs, CallNext(c, t)
  PROVE  KeepsEvidence
<1>0. StoreTypeOK /\ (UNCHANGED storeVars => KeepsEvidence)
  BY StoreOpsEvidence, Zenon DEF TypeOK
<1>r. read[c] \in RowsRead
  BY Zenon DEF TypeOK
<1>1. CASE \/ CreateAction(c, t) \/ QueueKnown(c, t) \/ QueueTx(c, t) \/ Add(c, t)
           \/ CountAttempt(c, t) \/ CountBackgroundAttempt(c, t)
           \/ Claim(c, t) \/ BackgroundClaim(c, t)
  BY <1>0, <1>1, StoreOpsEvidence, Zenon
     DEF CreateAction, QueueKnown, QueueTx, Add, CountAttempt, CountBackgroundAttempt, Claim,
         BackgroundClaim, KeepsEvidence, HasTxID, BeyondBroadcastStage, ReqStatuses
<1>2. CASE StoreSigned(c, t)
  BY <1>0, <1>2, StoreOpsEvidence, Zenon
     DEF StoreSigned, NewTxStatus, NewReqStatus, TxStatuses, ReqStatuses
<1>3. CASE ApplyResult(c, t)
  BY <1>0, <1>3, StoreOpsEvidence, Zenon
     DEF ApplyResult, ResultReqStatus, ResultTxStatus, TxStatuses, ReqStatuses
<1>4. CASE Park(c, t) \/ AbortCommit(c, t) \/ Review(c, t) \/ Unfail(c, t)
  BY <1>0, <1>4, StoreOpsEvidence, Zenon DEF Park, AbortCommit, Review, Unfail, UnfailRolledBack
<1>5. CASE SyncMined(c, t) \/ SyncNotFound(c, t)
  BY <1>0, <1>5, StoreOpsEvidence, Zenon DEF SyncMined, SyncNotFound
<1>6. CASE SyncTimeouts(c, t) \/ Requeue(c, t)
  BY <1>0, <1>6, <1>r, StoreOpsEvidence, Zenon DEF SyncTimeouts, Requeue
<1>7. CASE ApplyEvent(c, t)
  BY <1>0, <1>7, StoreOpsEvidence, Zenon DEF ApplyEvent
<1>8. CASE MarkForUnfail(c, t)
  BY <1>0, <1>8, StoreOpsEvidence, Zenon DEF MarkForUnfail, ReqStatuses
<1>9. CASE \/ \E k \in NewKinds : FindAction(c, t, k)
           \/ \E k \in WithKinds : SendWith(c, t, k)
           \/ SelectWaiting(c, t) \/ CheckStatus(c, t) \/ SkipAlreadySent(c, t)
           \/ ReleaseOnError(c, t) \/ SelectForClaim(c, t) \/ TakeQueued(c, t) \/ Post(c, t)
  BY <1>0, <1>9, Zenon DEF FindAction, SendWith, SelectWaiting, CheckStatus, SkipAlreadySent,
     ReleaseOnError, SelectForClaim, TakeQueued, Post
<1>10. CASE \/ CheckInFlight(c, t) \/ SelectTimedOut(c, t) \/ SelectForRequeue(c, t)
            \/ AbortFind(c, t) \/ SelectAbandoned(c, t) \/ LoadAbandoned(c, t)
            \/ \E a \in SyncArgs : SyncSelect(c, t, a)
            \/ SyncSkip(c, t) \/ SyncProved(c, t) \/ SelectForReview(c, t)
            \/ \E a \in EventArgs : ReceiveEvent(c, t, a)
            \/ ListFailed(c, t) \/ SelectUnfail(c, t) \/ UnfailProved(c, t)
  BY <1>0, <1>10, Zenon DEF CheckInFlight, SelectTimedOut, SelectForRequeue, AbortFind,
     SelectAbandoned, LoadAbandoned, SyncSelect,
     SyncSkip, SyncProved,
     SelectForReview, ReceiveEvent, ListFailed, SelectUnfail, UnfailProved
<1> QED
  BY <1>1, <1>2, <1>3, <1>4, <1>5, <1>6, <1>7, <1>8, <1>9, <1>10, Zenon DEF CallNext

\* On an engine that refuses stale writes no step of any flow clears was_broadcast,
\* so a transaction that was requeued, timed out or reorganised away is still known
\* to have been on the network.
THEOREM EvidencePersists == ~ReadCommitted => (Spec => EvidenceNeverCleared)
<1> SUFFICES ASSUME ~ReadCommitted PROVE Spec => EvidenceNeverCleared
  BY Zenon
<1>1. TypeOK /\ [Next]_vars => [\A t \in Txs : wasBroadcast[t] => wasBroadcast'[t]]_vars
  <2> SUFFICES ASSUME TypeOK, Next PROVE \A t \in Txs : wasBroadcast[t] => wasBroadcast'[t]
    BY Zenon
  <2>1. CASE \E c \in Calls, t \in Txs : CallNext(c, t)
    BY <2>1, CallNextKeeps, Zenon DEF KeepsEvidence
  <2>2. CASE \E t \in Txs : HandleReorg(t)
    BY <2>2, StoreOpsEvidence, Zenon DEF HandleReorg, KeepsEvidence, TypeOK
  <2>3. CASE \/ \E c \in Calls : CallStops(c) \/ Restart(c)
             \/ \E t \in Txs : Mine(t) \/ Evict(t)
             \/ QueueLost
    BY <2>3, Zenon DEF CallStops, Restart, Mine, Evict, QueueLost, storeVars
  <2> QED
    BY <2>1, <2>2, <2>3, Zenon DEF Next
<1> QED
  BY <1>1, TypeCorrect, PTL DEF Spec, EvidenceNeverCleared

-----------------------------------------------------------------------------
(* Aborts and broadcasts.                                                  *)

\* What makes the release properties inductive when clients do not overlap: at
\* most one call is between reading an action and acting on it, and what it
\* read about the txid and the inputs still holds.
ReleaseInv ==
  /\ \A t \in Txs : inputs[t] = "aborted" =>
       /\ reqStatus[t] \in {None, "invalidTx", "unfail"} /\ ~wasBroadcast[t]
       /\ ~HasTxID(t) => txStatus[t] = "aborted"
  /\ \A c, d \in Calls : c # d /\ on[c] = on[d] /\ on[c] \in Txs =>
       ~ClientWindow(c) \/ ~ClientWindow(d)
  /\ \A c \in Calls : pc[c] = "found" =>
       on[c] \in Txs /\ ~HasTxID(on[c]) /\ inputs[on[c]] # "aborted"
  /\ \A c \in Calls : pc[c] = "abortFound" /\ arg[c] = "noTxid" =>
       on[c] \in Txs /\ ~HasTxID(on[c])
  /\ \A c \in Calls : pc[c] = "parked" =>
       /\ on[c] \in Txs
       /\ reqStatus[on[c]] \in {"invalidTx", "unfail"}
       /\ ~wasBroadcast[on[c]]
  /\ \A c \in Calls : pc[c] \in {"ready", "queuedKnown"} /\ arg[c] # "sweep" =>
       on[c] \in Txs /\ inputs[on[c]] # "aborted"

\* What a database transaction of the broadcast and proof pipelines does to row
\* u: a row without a txid gets none, a parked row stays parked, and inputs are
\* not given back by an abort.
LeavesParked(u) ==
  /\ inputs'[u] = "aborted" => inputs[u] = "aborted"
  /\ ~HasTxID(u) => ~HasTxID(u)' /\ (txStatus[u] = "aborted" => txStatus'[u] = "aborted")
  /\ reqStatus[u] \in {"invalidTx", "unfail"} /\ ~wasBroadcast[u]
       => reqStatus'[u] \in {"invalidTx", "unfail"} /\ ~wasBroadcast'[u]

\* The database transactions of the pipelines leave parked rows alone; those
\* that resurrect a status need evidence of a broadcast.
LEMMA StoreOpsLeaveParked ==
  ASSUME ~ReadCommitted, StoreTypeOK, NEW t \in Txs, wasBroadcast[t] => HasTxID(t)
  PROVE  /\ UNCHANGED storeVars => \A u \in Txs : LeavesParked(u)
         /\ CreateTransaction(t) => \A u \in Txs : LeavesParked(u)
         /\ UpdateKnownTxStatus(t, "unfail", {}) => \A u \in Txs : LeavesParked(u)
         /\ ParkUnbroadcastKnownTx(t) => \A u \in Txs : LeavesParked(u)
         /\ ClaimKnownTxForBroadcast(t) => \A u \in Txs : LeavesParked(u)
         /\ IncreaseKnownTxAttempts(t) => \A u \in Txs : LeavesParked(u)
         /\ HasTxID(t) /\ ReviewFailed(t) => \A u \in Txs : LeavesParked(u)
         /\ HasTxID(t) /\ UnfailAsInvalid(t) => \A u \in Txs : LeavesParked(u)
         /\ \A r, s : wasBroadcast[t] /\ UpdateSingleTx(t, r, s) => \A u \in Txs : LeavesParked(u)
         /\ wasBroadcast[t] /\ UpdateKnownTxAsMined(t) => \A u \in Txs : LeavesParked(u)
         /\ wasBroadcast[t] /\ AdvanceKnownTxToBroadcasted(t) => \A u \in Txs : LeavesParked(u)
         /\ wasBroadcast[t] /\ FailKnownTxAsDoubleSpend(t) => \A u \in Txs : LeavesParked(u)
         /\ wasBroadcast[t] /\ InvalidateMerkleProof(t) => \A u \in Txs : LeavesParked(u)
         /\ wasBroadcast[t] /\ UnfailAsUnmined(t) => \A u \in Txs : LeavesParked(u)
         /\ ClaimRefused(t) => \A u \in Txs : LeavesParked(u)
         /\ \A rows \in RowsRead :
              ApplyProofTimeouts(rows) \/ RequeueKnownTxForRebroadcast(t, rows)
                => \A u \in Txs : LeavesParked(u)
<1> USE
    DEF StoreTypeOK, LeavesParked, HasTxID, SetReqStatus, SetTxStatus, None, WasBroadcastStatus
<1>1. /\ UNCHANGED storeVars => \A u \in Txs : LeavesParked(u)
      /\ CreateTransaction(t) => \A u \in Txs : LeavesParked(u)
      /\ IncreaseKnownTxAttempts(t) => \A u \in Txs : LeavesParked(u)
      /\ HasTxID(t) /\ ReviewFailed(t) => \A u \in Txs : LeavesParked(u)
  BY Zenon DEF storeVars, CreateTransaction, IncreaseKnownTxAttempts, ReviewFailed
<1>2. /\ UpdateKnownTxStatus(t, "unfail", {}) => \A u \in Txs : LeavesParked(u)
      /\ ParkUnbroadcastKnownTx(t) => \A u \in Txs : LeavesParked(u)
      /\ ClaimKnownTxForBroadcast(t) => \A u \in Txs : LeavesParked(u)
      /\ HasTxID(t) /\ UnfailAsInvalid(t) => \A u \in Txs : LeavesParked(u)
  BY DEF UpdateKnownTxStatus, ReqUpdateApplies, ParkUnbroadcastKnownTx, Parkable, NeverPosted,
     ClaimKnownTxForBroadcast, ClaimableForBroadcast, UnfailAsInvalid
<1>3. ASSUME NEW r, NEW s, wasBroadcast[t], UpdateSingleTx(t, r, s)
      PROVE  \A u \in Txs : LeavesParked(u)
  BY <1>3, Zenon DEF UpdateSingleTx, CompareAndSetTxStatus
<1>4. ASSUME wasBroadcast[t]
      PROVE  /\ UpdateKnownTxAsMined(t) => \A u \in Txs : LeavesParked(u)
             /\ AdvanceKnownTxToBroadcasted(t) => \A u \in Txs : LeavesParked(u)
             /\ FailKnownTxAsDoubleSpend(t) => \A u \in Txs : LeavesParked(u)
             /\ InvalidateMerkleProof(t) => \A u \in Txs : LeavesParked(u)
             /\ UnfailAsUnmined(t) => \A u \in Txs : LeavesParked(u)
  BY <1>4, Zenon DEF UpdateKnownTxAsMined, AdvanceKnownTxToBroadcasted, FailKnownTxAsDoubleSpend,
     InvalidateMerkleProof, UnfailAsUnmined
<1>5. ClaimRefused(t) => \A u \in Txs : LeavesParked(u)
  BY <1>1, Zenon DEF ClaimRefused
<1>6. ASSUME NEW rows \in RowsRead, ReadHolds(rows), UpdateFromRead(rows)
      PROVE  \A u \in Txs : LeavesParked(u)
  BY <1>6, FreshRows, Zenon DEF UpdateFromRead
<1> QED
  BY <1>1, <1>2, <1>3, <1>4, <1>5, <1>6, Zenon
     DEF ApplyProofTimeouts, RequeueKnownTxForRebroadcast

\* What a call must know of transaction t when it reaches step p of a client's
\* flow with argument a.
EntryCondition(p, t, a) ==
  /\ p = "found" => t \in Txs /\ ~HasTxID(t) /\ inputs[t] # "aborted"
  /\ p = "abortFound" /\ a = "noTxid" => t \in Txs /\ ~HasTxID(t)
  /\ p = "parked" => t \in Txs /\ reqStatus[t] \in {"invalidTx", "unfail"} /\ ~wasBroadcast[t]
  /\ p \in {"ready", "queuedKnown"} /\ a # "sweep" => t \in Txs /\ inputs[t] # "aborted"

\* Parked rows are left alone, the row of the window that call c is in excepted.
OthersLeftAlone(c) ==
  \A u \in Txs :
    \/ LeavesParked(u)
    \/ /\ ClientWindow(c) /\ on[c] = u
       /\ inputs'[u] = "aborted" =>
            /\ reqStatus'[u] \in {None, "invalidTx", "unfail"} /\ ~wasBroadcast'[u]
            /\ txStatus'[u] = "aborted"

\* Call c, going on with t, is in no window, stays in its own, or enters a free one.
WindowKept(c, t) ==
  ClientWindow(c)' => \/ ClientWindow(c) /\ on[c] = t
                      \/ \A d \in Calls : on[d] = t => ~ClientWindow(d)

\* A step of call c keeps ReleaseInv if it leaves parked rows alone, the row of
\* its own window excepted, and enters a window only when no other call is in it.
LEMMA ReleaseStep ==
  ASSUME TypeOK, FlagInv', ReleaseInv, NEW c \in Calls, NEW p, NEW t, NEW a, NEW rows,
         GotoWith(c, p, t, a, rows),
         OthersLeftAlone(c), WindowKept(c, t),
         EntryCondition(p, t, a)'
  PROVE  ReleaseInv'
<1>0. /\ pc'[c] = p /\ on'[c] = t /\ arg'[c] = a
      /\ \A d \in Calls : d # c => pc'[d] = pc[d] /\ on'[d] = on[d] /\ arg'[d] = arg[d]
      /\ \A d \in Calls : d # c => (ClientWindow(d)' <=> ClientWindow(d))
  BY Zenon DEF TypeOK, GotoWith, ClientWindow
<1>1. \A u \in Txs : inputs'[u] = "aborted" =>
        /\ reqStatus'[u] \in {None, "invalidTx", "unfail"} /\ ~wasBroadcast'[u]
        /\ ~HasTxID(u)' => txStatus'[u] = "aborted"
  <2> SUFFICES ASSUME NEW u \in Txs, inputs'[u] = "aborted"
               PROVE  /\ reqStatus'[u] \in {None, "invalidTx", "unfail"} /\ ~wasBroadcast'[u]
                      /\ ~HasTxID(u)' => txStatus'[u] = "aborted"
    BY Zenon
  <2>1. CASE LeavesParked(u)
    <3>1. /\ reqStatus[u] \in {None, "invalidTx", "unfail"} /\ ~wasBroadcast[u]
          /\ ~HasTxID(u) => txStatus[u] = "aborted"
      BY <2>1, Zenon DEF LeavesParked, ReleaseInv
    <3>2. ~HasTxID(u)' => ~wasBroadcast'[u]
      BY Zenon DEF FlagInv, HasTxID
    <3>3. CASE HasTxID(u)
      BY <2>1, <3>1, <3>3, Zenon DEF LeavesParked, HasTxID, None
    <3>4. CASE ~HasTxID(u)
      BY <2>1, <3>1, <3>2, <3>4, Zenon DEF LeavesParked, HasTxID
    <3> QED
      BY <3>3, <3>4, Zenon
  <2> QED
    BY <2>1, Zenon DEF OthersLeftAlone
<1>2. \A d, e \in Calls : d # e /\ on'[d] = on'[e] /\ on'[d] \in Txs =>
        ~ClientWindow(d)' \/ ~ClientWindow(e)'
  <2>1. \A d, e \in Calls : d # e /\ on[d] = on[e] /\ on[d] \in Txs =>
          ~ClientWindow(d) \/ ~ClientWindow(e)
    BY Zenon DEF ReleaseInv
  <2>2. ASSUME NEW d \in Calls, d # c, on'[d] = on'[c], on'[c] \in Txs, ClientWindow(c)'
        PROVE  ~ClientWindow(d)'
    BY <1>0, <2>1, <2>2, Zenon DEF WindowKept
  <2> SUFFICES ASSUME NEW d \in Calls, NEW e \in Calls, d # e, on'[d] = on'[e], on'[d] \in Txs
               PROVE  ~ClientWindow(d)' \/ ~ClientWindow(e)'
    BY Zenon
  <2>3. CASE d # c /\ e # c
    BY <1>0, <2>1, <2>3, Zenon
  <2> QED
    BY <2>2, <2>3, Zenon
<1>3. \A d \in Calls : d # c /\ ClientWindow(d) /\ on[d] \in Txs => LeavesParked(on[d])
  BY Zenon DEF ReleaseInv, OthersLeftAlone
<1>4. \A d \in Calls : EntryCondition(pc[d], on[d], arg[d])
  BY Zenon DEF ReleaseInv, EntryCondition
<1>5. ASSUME NEW d \in Calls, d # c
      PROVE  EntryCondition(pc[d], on[d], arg[d])'
  <2>1. EntryCondition(pc[d], on[d], arg[d])
    BY <1>4, Zenon
  <2>2. ClientWindow(d) /\ on[d] \in Txs => LeavesParked(on[d])
    BY <1>3, <1>5, Zenon
  <2>3. pc'[d] = pc[d] /\ on'[d] = on[d] /\ arg'[d] = arg[d]
    BY <1>0, <1>5, Zenon
  <2> QED
    BY <2>1, <2>2, <2>3, Zenon DEF EntryCondition, ClientWindow, LeavesParked, HasTxID
<1>6. \A d \in Calls : EntryCondition(pc[d], on[d], arg[d])'
  BY <1>0, <1>5, Zenon DEF EntryCondition, HasTxID
<1> QED
  BY <1>1, <1>2, <1>6, Zenon DEF ReleaseInv, EntryCondition

\* Every step of a call keeps ReleaseInv when the clients do not overlap.
LEMMA CallNextRelease ==
  ASSUME ~ReadCommitted, Serialized, TypeOK, FlagInv, ReleaseInv, NEW c \in Calls,
         NEW t \in Txs, CallNext(c, t)
  PROVE  ReleaseInv'
<1> DEFINE Leaves == \A u \in Txs : LeavesParked(u)
           Window == {"found", "queuedKnown", "queuedTx", "abandoned", "abortFound", "parking",
                      "parked", "stored", "ready"}
<1>f. FlagInv'
  BY CallNextFlag, Zenon
<1>0. /\ StoreTypeOK
      /\ UNCHANGED storeVars => Leaves
      /\ wasBroadcast[t] => HasTxID(t)
      /\ net[t] # "unseen" => wasBroadcast[t]
  <2>1. StoreTypeOK /\ (wasBroadcast[t] => HasTxID(t)) /\ (net[t] # "unseen" => wasBroadcast[t])
    BY Zenon DEF TypeOK, FlagInv, PostedIsFlagged, HasTxID
  <2> QED
    BY <2>1, StoreOpsLeaveParked, Zenon
<1>r. read[c] \in RowsRead
  BY Zenon DEF TypeOK
<1>s. ASSUME NEW p, NEW u, NEW a, Goto(c, p, u, a), OthersLeftAlone(c), WindowKept(c, u),
             EntryCondition(p, u, a)'
      PROVE  ReleaseInv'
  BY <1>s, <1>f, ReleaseStep, Zenon DEF Goto
<1>q. ASSUME NEW p, NEW u, NEW a, NEW rows, GotoWith(c, p, u, a, rows), Leaves, p \notin Window
      PROVE  ReleaseInv'
  <2>1. WindowKept(c, u) /\ EntryCondition(p, u, a)' /\ OthersLeftAlone(c)
    BY <1>q, Zenon DEF WindowKept, ClientWindow, EntryCondition, GotoWith, TypeOK, OthersLeftAlone
  <2> QED
    BY <1>q, <1>f, <2>1, ReleaseStep, Zenon
<1>w. ASSUME NEW p, NEW u, NEW a, Goto(c, p, u, a), Leaves, EntryCondition(p, u, a)',
             \/ ClientWindow(c) /\ on[c] = u
             \/ \A d \in Calls : on[d] = u => ~ClientWindow(d)
      PROVE  ReleaseInv'
  <2>1. WindowKept(c, u) /\ OthersLeftAlone(c)
    BY <1>w, Zenon DEF WindowKept, OthersLeftAlone
  <2> QED
    BY <1>w, <2>1, <1>s, Zenon
<1>e. ASSUME NEW p, NEW a, p \notin {"found", "abortFound", "parked", "ready", "queuedKnown"}
      PROVE  EntryCondition(p, t, a)'
  BY <1>e, Zenon DEF EntryCondition
<1>c. ASSUME UNCHANGED callVars, Leaves
      PROVE  ReleaseInv'
  <2>0. PICK p, u, a : p = pc[c] /\ u = on[c] /\ a = arg[c]
    BY Zenon
  <2>1. GotoWith(c, p, u, a, read[c])
    BY <1>c, <2>0, Zenon DEF GotoWith, callVars, TypeOK
  <2>2. EntryCondition(p, u, a)'
    BY <1>c, <1>f, <2>0, Zenon DEF ReleaseInv, EntryCondition, LeavesParked, HasTxID
  <2>3. WindowKept(c, u) /\ OthersLeftAlone(c)
    BY <1>c, <2>0, Zenon DEF WindowKept, OthersLeftAlone, ClientWindow, callVars
  <2> QED
    BY <1>f, <2>1, <2>2, <2>3, ReleaseStep, Zenon
<1>p. ASSUME NEW p, NEW u, NEW a, Goto(c, p, u, a), Leaves, p \notin Window
      PROVE  ReleaseInv'
  BY <1>p, <1>q, Zenon DEF Goto
<1>1. CASE CreateAction(c, t)
  BY <1>1, <1>0, <1>c, StoreOpsLeaveParked, Zenon DEF CreateAction
<1>2. CASE \E k \in NewKinds : FindAction(c, t, k)
  <2>1. PICK k \in NewKinds : FindAction(c, t, k)
    BY <1>2, Zenon
  <2>2. EntryCondition("found", t, k)'
    BY <2>1, Zenon DEF FindAction, EntryCondition, HasTxID, ReleaseInv, storeVars, None
  <2>3. \A d \in Calls : on[d] = t => ~ClientWindow(d)
    BY <2>1, Zenon DEF FindAction, Alone
  <2> QED
    BY <2>1, <2>2, <2>3, <1>0, <1>w, Zenon DEF FindAction
<1>3. CASE \E k \in WithKinds : SendWith(c, t, k)
  <2>1. PICK k \in WithKinds : SendWith(c, t, k)
    BY <1>3, Zenon
  <2>2. \A d \in Calls : on[d] = t => ~ClientWindow(d)
    BY <2>1, Zenon DEF SendWith, Alone
  <2> QED
    BY <2>1, <2>2, <1>0, <1>e, <1>w, Zenon DEF SendWith
<1>4. CASE StoreSigned(c, t)
  <2>1. ClientWindow(c) /\ on[c] = t /\ inputs[t] # "aborted" /\ inputs' = inputs
    BY <1>4, Zenon DEF StoreSigned, At, ClientWindow, ReleaseInv, SpendTransaction
  <2>2. \A u \in Txs : u # t => LeavesParked(u)
    BY <1>4, <1>0, Zenon DEF StoreSigned, SpendTransaction, SetTxStatus, LeavesParked, HasTxID,
       StoreTypeOK
  <2>3. PICK p, u, a : /\ p \in {"idle", "stored"} /\ u \in {t, None}
                       /\ Goto(c, p, u, a) /\ (p = "stored" => u = t)
    BY <1>4 DEF StoreSigned, Finish
  <2>4. EntryCondition(p, u, a)' /\ WindowKept(c, u)
    BY <2>1, <2>3, Zenon DEF EntryCondition, WindowKept, ClientWindow, Goto, GotoWith, TypeOK
  <2>5. OthersLeftAlone(c)
    BY <2>1, <2>2, Zenon DEF OthersLeftAlone
  <2> QED
    BY <2>3, <2>4, <2>5, <1>s, Zenon
<1>5. CASE SelectWaiting(c, t)
  <2>1. WindowKept(c, t) /\ Goto(c, "stored", t, "sweep")
    BY <1>5, Zenon DEF SelectWaiting, WindowKept, ClientWindow, Goto, GotoWith, TypeOK
  <2>2. OthersLeftAlone(c)
    BY <1>5, <1>0, Zenon DEF SelectWaiting, OthersLeftAlone
  <2> QED
    BY <2>1, <2>2, <1>e, <1>s
<1>6. CASE CheckStatus(c, t)
  <2>0. PICK a : a = arg[c]
    BY Zenon
  <2>1. inputs[t] # "aborted" /\ At(c, "stored", t) /\ Goto(c, "ready", t, a)
    BY <1>6, <2>0, Zenon DEF CheckStatus, ReadyToSend, ProblematicStatuses, ReleaseInv
  <2>2. EntryCondition("ready", t, a)'
    BY <1>6, <2>1, Zenon DEF CheckStatus, EntryCondition, storeVars
  <2>3. WindowKept(c, t) /\ OthersLeftAlone(c)
    BY <1>6, <2>0, <2>1, <1>0, Zenon
        DEF CheckStatus, WindowKept, OthersLeftAlone, ClientWindow, Goto,
       GotoWith, At, TypeOK
  <2> QED
    BY <2>1, <2>2, <2>3, <1>s, Zenon
<1>7. CASE SkipAlreadySent(c, t)
  BY <1>7, <1>0, <1>p, Zenon DEF SkipAlreadySent, Finish
<1>8. CASE ReleaseOnError(c, t)
  <2>0. Leaves /\ on[c] = t
    BY <1>8, <1>0, Zenon DEF ReleaseOnError
  <2>1. CASE Finish(c)
    BY <2>0, <2>1, <1>p, Zenon DEF Finish
  <2>2. CASE /\ arg[c] \in NewKinds
             /\ Goto(c, "abortFound", t, IF HasTxID(t) THEN "txid" ELSE "noTxid")
    <3>0. PICK a : Goto(c, "abortFound", t, a) /\ (a = "noTxid" => ~HasTxID(t))
      BY <2>2
    <3>1. EntryCondition("abortFound", t, a)'
      BY <1>8, <3>0, Zenon DEF ReleaseOnError, EntryCondition, HasTxID, storeVars
    <3>2. ClientWindow(c)
      BY <1>8, <2>2, Zenon DEF ReleaseOnError, ClientWindow, NewKinds
    <3> QED
      BY <2>0, <3>0, <3>1, <3>2, <1>w, Zenon
  <2> QED
    BY <1>8, <2>1, <2>2, Zenon DEF ReleaseOnError
<1>9. CASE QueueKnown(c, t)
  <2>0. PICK a : a = arg[c]
    BY Zenon
  <2>1. /\ ClientWindow(c) /\ on[c] = t /\ inputs[t] # "aborted" /\ inputs' = inputs
        /\ Goto(c, "queuedKnown", t, a)
    BY <1>9, <2>0, Zenon DEF QueueKnown, At, Delayed, ClientWindow, ReleaseInv,
       UpdateKnownTxStatus
  <2>2. EntryCondition("queuedKnown", t, a)'
    BY <2>1, Zenon DEF EntryCondition
  <2>3. \A u \in Txs : u # t => LeavesParked(u)
    BY <1>9, <1>0, Zenon DEF QueueKnown, UpdateKnownTxStatus, SetReqStatus, LeavesParked, HasTxID,
       StoreTypeOK
  <2>4. OthersLeftAlone(c) /\ WindowKept(c, t)
    BY <2>1, <2>3, Zenon DEF OthersLeftAlone, WindowKept
  <2> QED
    BY <2>1, <2>2, <2>4, <1>s, Zenon
<1>10. CASE QueueTx(c, t)
  <2>1. ClientWindow(c) /\ on[c] = t /\ Leaves /\ Goto(c, "queuedTx", t, arg[c])
    BY <1>10 DEF QueueTx, CompareAndSetTxStatus, At, ClientWindow, LeavesParked, HasTxID
  <2> QED
    BY <2>1, <1>e, <1>w, Zenon
<1>11. CASE Add(c, t)
  BY <1>11, <1>0, <1>p, Zenon DEF Add, Finish
<1>12. CASE SelectForClaim(c, t) \/ Claim(c, t)
  <2>1. Leaves
    BY <1>12, <1>0, StoreOpsLeaveParked, Zenon DEF SelectForClaim, Claim
  <2> QED
    BY <1>12, <2>1, <1>p, Zenon DEF SelectForClaim, Claim, Finish
<1>13. CASE CountAttempt(c, t)
  BY <1>13, <1>0, <1>p, StoreOpsLeaveParked, Zenon DEF CountAttempt
<1>14. CASE Post(c, t)
  BY <1>14, <1>0, <1>p, Zenon DEF Post
<1>15. CASE ApplyResult(c, t)
  <2>1. Leaves
    BY <1>15, <1>0, StoreOpsLeaveParked, Zenon DEF ApplyResult, FlagInv
  <2> QED
    BY <1>15, <2>1, <1>p, Zenon DEF ApplyResult, Finish
<1>16. CASE TakeQueued(c, t) \/ BackgroundClaim(c, t)
  <2>1. Leaves
    BY <1>16, <1>0, StoreOpsLeaveParked, Zenon DEF TakeQueued, BackgroundClaim
  <2> QED
    BY <1>16, <2>1, <1>p, <1>c, Zenon DEF TakeQueued, BackgroundClaim, Finish
<1>17. CASE CountBackgroundAttempt(c, t)
  BY <1>17, <1>0, <1>p, StoreOpsLeaveParked, Zenon DEF CountBackgroundAttempt, Finish
<1>18. CASE AbortFind(c, t)
  <2>0. PICK a : Goto(c, "abortFound", t, a) /\ (a = "noTxid" => ~HasTxID(t))
    BY <1>18 DEF AbortFind
  <2>1. EntryCondition("abortFound", t, a)' /\ Leaves
    BY <1>18, <2>0, <1>0, Zenon DEF AbortFind, EntryCondition, HasTxID, storeVars
  <2>2. \A d \in Calls : on[d] = t => ~ClientWindow(d)
    BY <1>18, Zenon DEF AbortFind, Alone
  <2> QED
    BY <2>0, <2>1, <2>2, <1>w, Zenon
<1>19. CASE SelectAbandoned(c, t)
  <2>1. \A d \in Calls : on[d] = t => ~ClientWindow(d)
    BY <1>19, Zenon DEF SelectAbandoned, Alone
  <2> QED
    BY <1>19, <2>1, <1>0, <1>e, <1>w, Zenon DEF SelectAbandoned
<1>20. CASE LoadAbandoned(c, t)
  <2>0. PICK a : Goto(c, "abortFound", t, a) /\ (a = "noTxid" => ~HasTxID(t))
    BY <1>20 DEF LoadAbandoned
  <2>1. EntryCondition("abortFound", t, a)' /\ Leaves
    BY <1>20, <2>0, <1>0, Zenon DEF LoadAbandoned, EntryCondition, HasTxID, storeVars
  <2>2. ClientWindow(c) /\ on[c] = t
    BY <1>20, Zenon DEF LoadAbandoned, At, ClientWindow
  <2> QED
    BY <2>0, <2>1, <2>2, <1>w, Zenon
<1>21. CASE Park(c, t)
  <2>1. CASE ParkUnbroadcastKnownTx(t) /\ Goto(c, "parked", t, None)
    <3>1. EntryCondition("parked", t, None)'
      BY <2>1, <1>0, Zenon DEF ParkUnbroadcastKnownTx, Parkable, EntryCondition, StoreTypeOK
    <3>2. ClientWindow(c) /\ on[c] = t
      BY <1>21, Zenon DEF Park, At, ClientWindow
    <3> QED
      BY <2>1, <3>1, <3>2, <1>0, <1>w, StoreOpsLeaveParked, Zenon
  <2>2. CASE Finish(c) /\ UNCHANGED storeVars
    BY <2>2, <1>0, <1>p, Zenon DEF Finish
  <2> QED
    BY <1>21, <2>1, <2>2, Zenon DEF Park
<1>22. CASE AbortCommit(c, t)
  <2>1. ClientWindow(c) /\ on[c] = t /\ Goto(c, "idle", None, None)
    BY <1>22, Zenon DEF AbortCommit, At, ClientWindow, Finish
  <2>2. CASE AbortRelease(t)
    <3>1. \A u \in Txs : u # t => LeavesParked(u)
      BY <2>2, <1>0, Zenon DEF AbortRelease, SetTxStatus, LeavesParked, HasTxID, StoreTypeOK
    <3>2. /\ reqStatus'[t] \in {None, "invalidTx", "unfail"} /\ ~wasBroadcast'[t]
          /\ txStatus'[t] = "aborted"
      <4>0. reqStatus' = reqStatus /\ wasBroadcast' = wasBroadcast /\ txStatus'[t] = "aborted"
        BY <2>2, <1>0, Zenon DEF AbortRelease, SetTxStatus, StoreTypeOK
      <4>1. CASE At(c, "parked", t)
        BY <4>1, <4>0, Zenon DEF At, ReleaseInv
      <4>2. CASE At(c, "abortFound", t) /\ arg[c] = "noTxid"
        <5>1. reqStatus[t] = None /\ ~wasBroadcast[t]
          BY <4>2, <1>0, Zenon DEF At, ReleaseInv, HasTxID
        <5> QED BY <5>1, <4>0, Zenon
      <4> QED BY <1>22, <4>1, <4>2, Zenon DEF AbortCommit
    <3>3. WindowKept(c, None) /\ EntryCondition("idle", None, None)'
      BY <2>1, Zenon DEF WindowKept, ClientWindow, EntryCondition, Goto, GotoWith, TypeOK
    <3>4. OthersLeftAlone(c)
      BY <2>1, <3>1, <3>2, Zenon DEF OthersLeftAlone
    <3> QED
      BY <2>1, <3>3, <3>4, <1>s, Zenon
  <2>3. CASE UNCHANGED storeVars
    BY <2>1, <2>3, <1>0, <1>p, Zenon
  <2> QED
    BY <1>22, <2>2, <2>3, Zenon DEF AbortCommit
<1>23. CASE \E a \in SyncArgs : SyncSelect(c, t, a)
  BY <1>23, <1>0, <1>p, Zenon DEF SyncSelect, Finish
<1>24. CASE SyncSkip(c, t)
  BY <1>24, <1>0, <1>p, Zenon DEF SyncSkip, Finish
<1>25. CASE SyncMined(c, t)
  <2>1. wasBroadcast[t]
    BY <1>25, Zenon DEF SyncMined, At, FlagInv, PostedIsFlagged
  <2> QED
    BY <1>25, <2>1, <1>0, <1>p, StoreOpsLeaveParked, Zenon DEF SyncMined, Finish
<1>26. CASE SyncNotFound(c, t)
  BY <1>26, <1>0, <1>p, StoreOpsLeaveParked, Zenon DEF SyncNotFound
<1>27. CASE SyncTimeouts(c, t) \/ Requeue(c, t)
  <2>1. Leaves
    BY <1>27, <1>0, <1>r, StoreOpsLeaveParked, Zenon DEF SyncTimeouts, Requeue
  <2> QED
    BY <1>27, <2>1, <1>p, Zenon DEF SyncTimeouts, Requeue, Finish
<1>28. CASE SelectForReview(c, t)
  BY <1>28, <1>0, <1>p, Zenon DEF SelectForReview, Finish
<1>29. CASE Review(c, t)
  <2>1. HasTxID(t)
    BY <1>29, Zenon DEF Review, At, FlagInv
  <2> QED
    BY <1>29, <2>1, <1>0, <1>p, StoreOpsLeaveParked, Zenon DEF Review, Finish
<1>30. CASE \E a \in EventArgs : ReceiveEvent(c, t, a)
  BY <1>30, <1>0, <1>p, Zenon DEF ReceiveEvent, Finish
<1>31. CASE ApplyEvent(c, t)
  <2>1. wasBroadcast[t]
    BY <1>31, Zenon DEF ApplyEvent, At, FlagInv, PostedIsFlagged
  <2>2. Leaves
    BY <1>31, <2>1, <1>0, StoreOpsLeaveParked, Zenon DEF ApplyEvent
  <2> QED
    BY <1>31, <2>2, <1>p, Zenon DEF ApplyEvent, Finish
<1>32. CASE ListFailed(c, t)
  BY <1>32, <1>0, <1>p, Zenon DEF ListFailed, Finish
<1>33. CASE MarkForUnfail(c, t)
  BY <1>33, <1>0, <1>p, StoreOpsLeaveParked, Zenon DEF MarkForUnfail, Finish
<1>34. CASE SelectUnfail(c, t)
  BY <1>34, <1>0, <1>p, Zenon DEF SelectUnfail, Finish
<1>35. CASE Unfail(c, t)
  <2>1. HasTxID(t) /\ (At(c, "unfailProved", t) => wasBroadcast[t])
    BY <1>35, Zenon DEF Unfail, At, FlagInv, PostedIsFlagged
  <2>2. Leaves
    BY <1>35, <2>1, <1>0, StoreOpsLeaveParked, Zenon DEF Unfail, UnfailRolledBack
  <2> QED
    BY <1>35, <2>2, <1>p, Zenon DEF Unfail, Finish
<1>36. CASE SyncProved(c, t) \/ UnfailProved(c, t)
  BY <1>36, <1>0, <1>p, Zenon DEF SyncProved, UnfailProved
<1>37. CASE CheckInFlight(c, t)
  <2>1. ClientWindow(c) /\ on[c] = t /\ Leaves
    BY <1>37, <1>0, Zenon DEF CheckInFlight, At, ClientWindow
  <2>2. CASE Finish(c)
    BY <2>1, <2>2, <1>p, Zenon DEF Finish
  <2>3. CASE Goto(c, "parking", t, None)
    <3>1. EntryCondition("parking", t, None)'
      BY <1>e, Zenon
    <3> QED
      BY <2>1, <2>3, <3>1, <1>w, Zenon
  <2> QED
    BY <1>37, <2>2, <2>3, Zenon DEF CheckInFlight
<1>38. CASE SelectTimedOut(c, t) \/ SelectForRequeue(c, t)
  <2>0. Leaves
    BY <1>38, <1>0, Zenon DEF SelectTimedOut, SelectForRequeue
  <2>1. CASE Finish(c)
    BY <2>0, <2>1, <1>p, Zenon DEF Finish
  <2>2. CASE \E p \in {"timingOut", "requeuing"} : \E rows : GotoWith(c, p, t, None, rows)
    BY <2>0, <2>2, <1>q, Zenon
  <2> QED
    BY <1>38, <2>1, <2>2, Zenon DEF SelectTimedOut, SelectForRequeue
<1> QED
  BY Zenon, <1>37, <1>38, <1>36, <1>1, <1>2, <1>3, <1>4, <1>5, <1>6, <1>7, <1>8, <1>9, <1>10,
     <1>11, <1>12, Zenon,
     <1>13, <1>14, <1>15, <1>16, <1>17, <1>18, <1>19, <1>20, <1>21, <1>22, <1>23, <1>24,
     <1>25, <1>26, <1>27, <1>28, <1>29, <1>30, <1>31, <1>32, <1>33, <1>34, <1>35 DEF CallNext

\* When the clients of an action do not overlap, and the engine refuses stale
\* writes, an abort never releases the inputs of a transaction that was handed to
\* a broadcaster, and none is handed to a broadcaster afterwards, whatever the
\* sweeps, the background workers, the proof synchronisation, events and the unfail
\* task do meanwhile.
THEOREM AbortedNeverPosted ==
  Serialized /\ ~ReadCommitted =>
    (Spec => [](ReleasedNeverPosted /\ ReleasedNotClaimable))
<1> SUFFICES ASSUME Serialized, ~ReadCommitted
             PROVE  Spec => [](ReleasedNeverPosted /\ ReleasedNotClaimable)
  BY Zenon
<1>1. Init => ReleaseInv
  BY DEF Init, StoreInit, ReleaseInv, ClientWindow, HasTxID, None
<1>2. TypeOK /\ FlagInv /\ FlagInv' /\ ReleaseInv /\ [Next]_vars => ReleaseInv'
  <2> SUFFICES ASSUME TypeOK, FlagInv, FlagInv', ReleaseInv, [Next]_vars PROVE ReleaseInv'
    BY Zenon
  <2>0. StoreTypeOK
    BY Zenon DEF TypeOK
  <2>1. CASE \E c \in Calls, t \in Txs : CallNext(c, t)
    BY <2>1, CallNextRelease, Zenon
  <2>2. CASE \E c \in Calls : CallStops(c) \/ Restart(c)
    <3> PICK c \in Calls : CallStops(c) \/ Restart(c)
      BY <2>2, Zenon
    <3>1. PICK p \in {"idle", "down"} : Goto(c, p, None, None) /\ UNCHANGED storeVars
      BY Zenon DEF CallStops, Restart, Finish
    <3>2. WindowKept(c, None) /\ EntryCondition(p, None, None)'
      BY <3>1, Zenon DEF WindowKept, ClientWindow, EntryCondition, Goto, GotoWith, TypeOK
    <3>3. OthersLeftAlone(c)
      BY <3>1, Zenon DEF OthersLeftAlone, LeavesParked, HasTxID, storeVars
    <3> QED
      BY <3>1, <3>2, <3>3, ReleaseStep, Zenon DEF Goto
  <2>3. CASE \E t \in Txs : Mine(t) \/ Evict(t)
    <3>1. UNCHANGED <<storeVars, callVars>>
      BY <2>3, Zenon DEF Mine, Evict
    <3> QED
      BY <3>1, Zenon DEF ReleaseInv, ClientWindow, HasTxID, storeVars, callVars
  <2>4. CASE \E t \in Txs : HandleReorg(t)
    <3> PICK t \in Txs : HandleReorg(t)
      BY <2>4, Zenon
    <3>1. wasBroadcast[t] /\ HasTxID(t)
      BY Zenon DEF HandleReorg, FlagInv, PostedIsFlagged, HasTxID
    <3>2. \A u \in Txs : LeavesParked(u)
      BY <2>0, <3>1, StoreOpsLeaveParked, Zenon DEF HandleReorg
    <3>3. ASSUME NEW c \in Calls PROVE ReleaseInv'
      <4>0. PICK p, u, a : p = pc[c] /\ u = on[c] /\ a = arg[c]
        BY Zenon
      <4>1. GotoWith(c, p, u, a, read[c])
        BY <4>0, Zenon DEF HandleReorg, GotoWith, callVars, TypeOK
      <4>2. EntryCondition(p, u, a)'
        BY <4>0, <3>2, Zenon DEF ReleaseInv, EntryCondition, LeavesParked, HasTxID
      <4>3. WindowKept(c, u) /\ OthersLeftAlone(c)
        BY <4>0, <3>2, Zenon DEF HandleReorg, WindowKept, OthersLeftAlone, ClientWindow, callVars
      <4> QED
        BY <4>1, <4>2, <4>3, ReleaseStep, Zenon
    <3>4. CASE Calls = {}
      <4>1. \A u \in Txs : inputs'[u] = "aborted" =>
              /\ reqStatus'[u] \in {None, "invalidTx", "unfail"} /\ ~wasBroadcast'[u]
              /\ ~HasTxID(u)' => txStatus'[u] = "aborted"
        BY <3>1, <2>0, Zenon DEF HandleReorg, InvalidateMerkleProof, ReleaseInv, HasTxID,
           StoreTypeOK, storeVars
      <4> QED
        BY <3>4, <4>1, Zenon DEF ReleaseInv
    <3> QED
      BY <3>3, <3>4, Zenon
  <2>5. CASE QueueLost
    BY <2>5, Zenon DEF QueueLost, ReleaseInv, ClientWindow, HasTxID, storeVars, callVars
  <2>6. CASE UNCHANGED vars
    BY <2>6, Zenon DEF vars, ReleaseInv, ClientWindow, HasTxID, storeVars, callVars
  <2> QED
    BY <2>1, <2>2, <2>3, <2>4, <2>5, <2>6, Zenon DEF Next
<1>3. FlagInv /\ ReleaseInv => ReleasedNeverPosted /\ ReleasedNotClaimable
  BY Zenon DEF FlagInv, PostedIsFlagged, ReleaseInv, ReleasedNeverPosted, ReleasedNotClaimable,
     ClaimableForBroadcast, None
<1> QED
  BY <1>1, <1>2, <1>3, TypeCorrect, FlagInvariant, PTL DEF Spec
=============================================================================
