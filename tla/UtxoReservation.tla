-------------------------- MODULE UtxoReservation ---------------------------
(***************************************************************************)
(* The outputs of a wallet and the index its funder claims them from.      *)
(* outputs holds the spend truth (spendable, spent_by), user_utxos the     *)
(* funder's claim index (a status tier and reserved_by_id).  createAction, *)
(* ProcessAction, the delayed queue, broadcast results, aborts, reviews,   *)
(* the unfail task, relinquishOutput and internalizeAction move the two    *)
(* tables, each in database transactions of its own.                       *)
(*                                                                         *)
(* Every transaction makes one output, named like the transaction: change  *)
(* of the wallet, or an output of a user's basket when it is in Custom.    *)
(* KnownTxStore holds the status rows; the flows that write them are       *)
(* interleaved in detail by Broadcast and coarser here: any post may be    *)
(* answered at any later time, once or several times.  Client calls on one *)
(* action, and the sweep that aborts it, do not overlap (Serialized there).*)
(* A database transaction that reads before it writes is one step where    *)
(* the engine refuses stale writes, and a refused one is no step.  Where   *)
(* the engine does not (ReadCommitted), its SELECT is a step of its own;   *)
(* row locks, which would rule some of those interleavings out, are not    *)
(* modelled.                                                               *)
(***************************************************************************)
EXTENDS KnownTxStore, FiniteSets

CONSTANTS
  Received,            \* transactions internalized and mined before we look
  Custom,              \* transactions whose output belongs to a user's basket
  MaxFundingAttempts,  \* maxFundingAttempts
  MaxNamed,            \* bound: outputs a createAction names itself
  Features             \* the optional flows that may run

ASSUME ReservationAssumption ==
  /\ None \notin Txs
  /\ Received \subseteq Txs /\ Custom \subseteq Txs
  /\ MaxFundingAttempts \in Nat \ {0}
  /\ MaxNamed \in Nat
  /\ Features \subseteq {"named", "events", "timeouts", "internalize", "relinquish",
                          "merge", "unfail"}

VARIABLES
  spendable,   \* outputs.spendable
  spentBy,     \* outputs.spent_by
  change,      \* outputs.change
  basketName,  \* outputs.basket_name
  utxoStatus,  \* user_utxos.utxo_status, None when the output has no index row
  reservedBy,  \* user_utxos.reserved_by_id
  rawInputs,   \* the outputs a transaction spends on the chain
  call,        \* the step reached by the client call, or abort, on the action
  named,       \* what a createAction read before its database transaction
  stale,       \* StaleUTXOIndexError.OutputIDs of a createAction
  attempt,     \* attempts of the funding transaction made so far
  claims,      \* claims[t]: a claim has selected t, or has found it changed and
               \* posted it all the same
  indexing,    \* outputs selected as spendable change and not yet indexed
  timedOut,    \* the rows that the proof timeouts have read
  healed       \* history: the outputs whose rows a retry has dropped as stale

outputVars == <<spendable, spentBy, change, basketName>>
indexVars == <<utxoStatus, reservedBy>>
createVars == <<named, stale, attempt>>
readVars == <<claims, indexing, timedOut>>
restVars == <<rawInputs, readVars, healed>>
vars == <<storeVars, outputVars, indexVars, restVars, call, createVars>>

NoNames == [change |-> {}, known |-> {}, noSend |-> {}]

Calls == {"none", "read", "stale", "gaveUp", "idle", "stored", "queuedKnown", "queuedTx",
          "abortFound", "parked"}

TypeOK ==
  /\ StoreTypeOK
  /\ spendable \in [Txs -> BOOLEAN]
  /\ spentBy \in [Txs -> Txs \cup {None}]
  /\ change \in [Txs -> BOOLEAN]
  /\ basketName \in [Txs -> {None, "default", "custom"}]
  /\ utxoStatus \in [Txs -> UTXOStatuses \cup {None}]
  /\ reservedBy \in [Txs -> Txs \cup {None}]
  /\ rawInputs \in [Txs -> SUBSET Txs]
  /\ call \in [Txs -> Calls]
  /\ named \in [Txs -> [change : SUBSET Txs, known : SUBSET Txs, noSend : SUBSET Txs]]
  /\ stale \in [Txs -> SUBSET Txs]
  /\ attempt \in [Txs -> 0..MaxFundingAttempts]
  /\ claims \in [Txs -> {None, "selected", "missed"}]
  /\ indexing \in SUBSET Txs /\ healed \in SUBSET Txs
  /\ timedOut \in RowsRead

Init ==
  /\ txStatus = [t \in Txs |-> IF t \in Received THEN "completed" ELSE None]
  /\ reqStatus = txStatus
  /\ wasBroadcast = [t \in Txs |-> t \in Received]
  /\ proof = wasBroadcast
  /\ attempts = [t \in Txs |-> 0]
  /\ rebroadcasts = [t \in Txs |-> 0]
  /\ inputs = [t \in Txs |-> None]
  /\ spendable = [t \in Txs |-> t \in Received]
  /\ spentBy = [t \in Txs |-> None]
  /\ change = [t \in Txs |-> t \in Received \ Custom]
  /\ basketName = [t \in Txs |-> IF t \notin Received THEN None
                                 ELSE IF t \in Custom THEN "custom" ELSE "default"]
  /\ utxoStatus = [t \in Txs |-> IF t \in Received \ Custom THEN "mined" ELSE None]
  /\ reservedBy = [t \in Txs |-> None]
  /\ rawInputs = [t \in Txs |-> {}]
  /\ call = [t \in Txs |-> IF t \in Received THEN "idle" ELSE "none"]
  /\ named = [t \in Txs |-> NoNames]
  /\ stale = [t \in Txs |-> {}]
  /\ attempt = [t \in Txs |-> 0]
  /\ claims = [t \in Txs |-> None]
  /\ indexing = {} /\ healed = {}
  /\ timedOut = NoRows

Goto(t, p) == call' = [call EXCEPT ![t] = p]

-----------------------------------------------------------------------------
(* Writes to the two tables. *)

\* isChangeDaoScope
IsChange(o) == basketName[o] # None /\ change[o]

\* createUTXOsFromOutputs: rows for the outputs os, in the tier of the status st
\* of their transactions; the upsert overwrites every column of a row it meets,
\* the reservation included, and a transaction in no tier leaves no row.
CreateUTXOs(os, st) ==
  LET placed == {o \in os : ToUTXOStatus(st[o]) # "unknown"}
  IN  /\ utxoStatus' = [o \in Txs |-> IF o \in placed THEN ToUTXOStatus(st[o])
                                      ELSE utxoStatus[o]]
      /\ reservedBy' = [o \in Txs |-> IF o \in placed THEN None ELSE reservedBy[o]]

\* Mutant: the rows are made whether or not the output is spendable.
CreateUTXOForAllOutputs(t, st) ==
  CreateUTXOs({o \in {t} : IsChange(o)}, st) /\ indexing' = indexing \ {t}

\* CreateUTXOForSpendableOutputsByTxID: the upserts, for what its SELECT finds now
\* or, where the engine allows it, has found before.
CreateUTXOForSpendableOutputs(t, st) ==
  /\ CreateUTXOs({o \in {t} : (spendable[o] /\ IsChange(o)) \/ (ReadCommitted /\ o \in indexing)},
                 st)
  /\ indexing' = indexing \ {t}

DeleteRows(os) ==
  /\ utxoStatus' = [o \in Txs |-> IF o \in os THEN None ELSE utxoStatus[o]]
  /\ reservedBy' = [o \in Txs |-> IF o \in os THEN None ELSE reservedBy[o]]

\* MarkCreatedOutputsAsNotSpendable: the index is left alone.
MarkCreatedOutputsAsNotSpendable(t) ==
  /\ spendable' = [spendable EXCEPT ![t] = FALSE]
  /\ UNCHANGED <<spentBy, change, basketName>>

SpentChange(t) == {o \in Txs : spentBy[o] = t /\ IsChange(o)}

\* Mutant: the abort unreserves and does not recreate the rows of a signed action.
UnreserveRows(t) ==
  /\ reservedBy' = [o \in Txs |-> IF reservedBy[o] = t THEN None ELSE reservedBy[o]]
  /\ UNCHANGED utxoStatus

\* Mutant: the abort recreates rows and leaves the others reserved.
RecreateRows(t) == CreateUTXOs(SpentChange(t), txStatus)

\* UnreserveUTXOsByTransactionID, then the index half of RecreateSpentOutputs.
RestoreRows(t) ==
  LET placed == {o \in SpentChange(t) : ToUTXOStatus(txStatus[o]) # "unknown"}
  IN  /\ utxoStatus' = [o \in Txs |-> IF o \in placed THEN ToUTXOStatus(txStatus[o])
                                      ELSE utxoStatus[o]]
      /\ reservedBy' = [o \in Txs |-> IF o \in placed \/ reservedBy[o] = t THEN None
                                      ELSE reservedBy[o]]

\* RecreateSpentOutputs and then MarkCreatedOutputsAsNotSpendable.
RecreateSpentOutputs(t) ==
  LET spent == {o \in Txs : spentBy[o] = t}
  IN  /\ spendable' = [o \in Txs |-> (spendable[o] \/ o \in spent) /\ o # t]
      /\ spentBy' = [o \in Txs |-> IF o \in spent THEN None ELSE spentBy[o]]
      /\ UNCHANGED <<change, basketName>>

-----------------------------------------------------------------------------
(* createAction *)

\* processInputs and getNoSendOutputs run before the database transaction.  An
\* outpoint names a transaction with a txid; a provided input must be spendable,
\* a noSendChange output must be change of the default basket.
ReadInputs(t, provided, noSend) ==
  /\ call[t] = "none"
  /\ provided \cup noSend # {} => "named" \in Features
  /\ provided \cap noSend = {}
  /\ Cardinality(provided \cup noSend) <= MaxNamed
  /\ \A o \in provided : HasTxID(o) /\ spendable[o]
  /\ \A o \in noSend : HasTxID(o) /\ change[o] /\ basketName[o] = "default"
  /\ named' = [named EXCEPT ![t] = [change |-> {o \in provided : change[o]},
                                    known  |-> {o \in provided : ~change[o]},
                                    noSend |-> noSend]]
  /\ Goto(t, "read")
  /\ UNCHANGED <<storeVars, outputVars, indexVars, restVars, stale, attempt>>

\* What the funder's queries return: rows nobody reserved, in a visible tier.
\* It does not look at the outputs table.
Fundable(o) == utxoStatus[o] \in {"mined", "unproven", "sending"} /\ reservedBy[o] = None

\* reserveUTXOs: compare-and-set on reserved_by_id IS NULL, counting rows.
Reservable(os) == \A o \in os : utxoStatus[o] # None /\ reservedBy[o] = None

\* Mutant: only what the index guards is compared, not a custom output.
ClaimableChange(os) == \A o \in os : change[o] => spentBy[o] = None

\* markReservedOutputsAsNotSpendable: compare-and-set on spent_by IS NULL.
Claimable(os) == \A o \in os : spentBy[o] = None

\* staleIndexedOutputs runs after the UPDATE has set spent_by on every claimed
\* output that was free, in the same transaction: each claimed output is spent
\* by then, and the ones with an index row are reported.
StaleIndexedOutputs(os) == {o \in os : utxoStatus[o] # None}

\* Mutant: one attempt too many.
RetryFundingOnceMore(t) ==
  /\ attempt' = [attempt EXCEPT ![t] = @ + 1]
  /\ Goto(t, IF attempt[t] = MaxFundingAttempts THEN "gaveUp" ELSE "read")

\* retryOnContention: the next attempt, or the error is returned.
RetryFunding(t) ==
  /\ attempt' = [attempt EXCEPT ![t] = @ + 1]
  /\ Goto(t, IF attempt[t] + 1 = MaxFundingAttempts THEN "gaveUp" ELSE "read")

\* One run of fundingClosure.  The funder allocates noSendChange outputs first
\* and then whatever its queries find; which and how many depends on amounts.
Funding(t, picked) ==
  /\ call[t] = "read"
  /\ \A o \in picked : \/ o \in named[t].noSend
                       \/ Fundable(o) /\ o \notin named[t].change
  /\ picked \cup named[t].change \cup named[t].known # {}

Reserved(t, picked) == picked \cup named[t].change
Claimed(t, picked) == picked \cup named[t].change \cup named[t].known

CreateTransactionInTx(t, picked) ==
  /\ Funding(t, picked)
  /\ Reservable(Reserved(t, picked))
  /\ Claimable(Claimed(t, picked))
  /\ CreateTransaction(t)
  /\ spendable' = [o \in Txs |-> o = t \/ (spendable[o] /\ o \notin Claimed(t, picked))]
  /\ spentBy' = [o \in Txs |-> IF o \in Claimed(t, picked) THEN t ELSE spentBy[o]]
  /\ change' = [change EXCEPT ![t] = t \notin Custom]
  /\ basketName' = [basketName EXCEPT ![t] = IF t \in Custom THEN "custom" ELSE "default"]
  /\ utxoStatus' = [utxoStatus EXCEPT ![t] = IF t \in Custom THEN None ELSE "unknown"]
  /\ reservedBy' = [o \in Txs |-> IF o \in Reserved(t, picked) THEN t ELSE reservedBy[o]]
  /\ rawInputs' = [rawInputs EXCEPT ![t] = Claimed(t, picked)]
  /\ named' = [named EXCEPT ![t] = NoNames]
  /\ attempt' = [attempt EXCEPT ![t] = 0]
  /\ Goto(t, "idle")
  /\ UNCHANGED <<stale, readVars, healed>>

\* ErrUTXOContention: somebody else holds a row.
FundingContention(t, picked) ==
  /\ Funding(t, picked)
  /\ ~Reservable(Reserved(t, picked))
  /\ RetryFunding(t)
  /\ UNCHANGED <<storeVars, outputVars, indexVars, restVars, named, stale>>

\* StaleUTXOIndexError, or ErrProvidedInputConflict which is final.
FundingConflict(t, picked) ==
  /\ Funding(t, picked)
  /\ Reservable(Reserved(t, picked))
  /\ ~Claimable(Claimed(t, picked))
  /\ stale' = [stale EXCEPT ![t] = StaleIndexedOutputs(Claimed(t, picked))]
  /\ Goto(t, IF stale'[t] = {} THEN "gaveUp" ELSE "stale")
  /\ UNCHANGED <<storeVars, outputVars, indexVars, restVars, named, attempt>>

\* DeleteIndexRowsForOutputs, in a transaction of its own whose error is only
\* logged, and the next attempt.
DropStaleRows(t) ==
  /\ call[t] = "stale"
  /\ \/ DeleteRows(stale[t]) /\ healed' = healed \cup stale[t]
     \/ UNCHANGED <<indexVars, healed>>
  /\ stale' = [stale EXCEPT ![t] = {}]
  /\ RetryFunding(t)
  /\ UNCHANGED <<storeVars, outputVars, rawInputs, readVars, named>>

\* ErrNotEnoughFunds, any other error, or a crash.
FundingFails(t) ==
  /\ call[t] \in {"read", "stale"}
  /\ Goto(t, "gaveUp")
  /\ UNCHANGED <<storeVars, outputVars, indexVars, restVars, createVars>>

-----------------------------------------------------------------------------
(* ProcessAction *)

\* SpendTransaction: the rows the action reserved leave the index.
Process(t, s, r) ==
  /\ call[t] = "idle"
  /\ txStatus[t] \in {"unsigned", "unprocessed"} /\ ~HasTxID(t)
  /\ <<s, r>> \in {<<"nosend", "nosend">>, <<"unprocessed", "unsent">>,
                   <<"unprocessed", "unprocessed">>}
  /\ SpendTransaction(t, s, r)
  /\ DeleteRows({o \in Txs : reservedBy[o] = t})
  /\ Goto(t, IF s = "nosend" THEN "idle" ELSE "stored")
  /\ UNCHANGED <<outputVars, restVars, createVars>>

SendWith(t) ==
  /\ call[t] = "idle"
  /\ HasTxID(t)
  /\ reqStatus[t] \notin {"unfail"} \cup AlreadySent \cup ProblematicStatuses
  /\ Goto(t, "stored")
  /\ UNCHANGED <<storeVars, outputVars, indexVars, restVars, createVars>>

\* The transaction is on the network already: its change is indexed again.
SendAgain(t) ==
  /\ call[t] = "idle"
  /\ reqStatus[t] \in AlreadySent
  /\ CreateUTXOForSpendableOutputs(t, txStatus)
  /\ UNCHANGED <<storeVars, outputVars, rawInputs, claims, timedOut, healed, call, createVars>>

\* queueTxForDelayedBroadcast, in its three transactions.
QueueKnown(t) ==
  /\ call[t] = "stored"
  /\ UpdateKnownTxStatus(t, "unsent", BeyondBroadcastStage)
  /\ Goto(t, "queuedKnown")
  /\ UNCHANGED <<outputVars, indexVars, restVars, createVars>>

QueueTx(t) ==
  /\ call[t] = "queuedKnown"
  /\ CompareAndSetTxStatus(t, "sending", {"unprocessed"})
  /\ Goto(t, "queuedTx")
  /\ UNCHANGED <<reqStatus, wasBroadcast, attempts, rebroadcasts, proof, inputs,
                 outputVars, indexVars, restVars, createVars>>

\* Mutant: the guard on spent_by is missing.
MakeSpentChangeSpendableAndIndex(t) ==
  /\ call[t] = "queuedTx"
  /\ IF IsChange(t)
     THEN /\ spendable' = [spendable EXCEPT ![t] = TRUE]
          /\ spentBy' = [spentBy EXCEPT ![t] = None]
          /\ CreateUTXOs({t}, txStatus)
     ELSE UNCHANGED <<spendable, spentBy, indexVars>>
  /\ Goto(t, "idle")
  /\ UNCHANGED <<storeVars, change, basketName, restVars, createVars>>

MakeChangeSpendableAndIndex(t) ==
  /\ call[t] = "queuedTx"
  /\ IF IsChange(t) /\ spentBy[t] = None
     THEN /\ spendable' = [spendable EXCEPT ![t] = TRUE]
          /\ CreateUTXOs({t}, txStatus)
     ELSE UNCHANGED <<spendable, indexVars>>
  /\ Goto(t, "idle")
  /\ UNCHANGED <<storeVars, spentBy, change, basketName, restVars, createVars>>

\* The client call on an existing action ends early: an error or a crash.
CallStops(t) ==
  /\ call[t] \in {"stored", "queuedKnown", "queuedTx", "abortFound", "parked"}
  /\ Goto(t, "idle")
  /\ UNCHANGED <<storeVars, outputVars, indexVars, restVars, createVars>>

-----------------------------------------------------------------------------
(* Broadcast, and what follows from it. *)

\* The immediate path claims what its call has checked, workers and send_waiting
\* what is waiting.
ClaimBegins(t) ==
  /\ ClaimSelects(t)
  /\ \/ call[t] = "stored" /\ Goto(t, "idle")
     \/ reqStatus[t] \in WaitingStatuses /\ UNCHANGED call

SelectForClaim(t) ==
  /\ ReadCommitted
  /\ ClaimBegins(t)
  /\ claims' = [claims EXCEPT ![t] = IF @ = None THEN "selected" ELSE @]
  /\ UNCHANGED <<storeVars, outputVars, indexVars, rawInputs, indexing, timedOut, healed,
                 createVars>>

Claim(t) ==
  /\ \/ ClaimBegins(t)
     \/ claims[t] # None /\ UNCHANGED call
  /\ ClaimKnownTxForBroadcast(t)
  /\ claims' = IF ClaimSelects(t) THEN claims ELSE [claims EXCEPT ![t] = "missed"]
  /\ UNCHANGED <<outputVars, indexVars, rawInputs, indexing, timedOut, healed, createVars>>

\* A broadcaster has the transaction, or is about to have it.
Posted(t) == wasBroadcast[t] \/ (ReadCommitted /\ claims[t] = "missed")

\* The SELECT of a transaction that indexes the change of t.
SelectForIndex(t) ==
  /\ ReadCommitted
  /\ Posted(t)
  /\ spendable[t] /\ IsChange(t)
  /\ indexing' = indexing \cup {t}
  /\ UNCHANGED <<storeVars, outputVars, indexVars, rawInputs, claims, timedOut, healed, call,
                 createVars>>

\* updateSingleTx for a post of the transaction that was answered.
ResultApplies(t) ==
  ReqUpdateApplies(t, BroadcastResultSkip) /\ txStatus[t] \in BroadcastResultFrom

Accepted(t) ==
  /\ Posted(t)
  /\ UpdateSingleTx(t, "unmined", "unproven")
  /\ IF ResultApplies(t) THEN CreateUTXOForSpendableOutputs(t, txStatus')
                         ELSE UNCHANGED <<indexVars, indexing>>
  /\ UNCHANGED <<outputVars, rawInputs, claims, timedOut, healed, call, createVars>>

Rejected(t) ==
  /\ Posted(t)
  /\ \E r \in TerminalFailure : UpdateSingleTx(t, r, "failed")
  /\ IF ResultApplies(t) THEN MarkCreatedOutputsAsNotSpendable(t)
                         ELSE UNCHANGED outputVars
  /\ UNCHANGED <<indexVars, restVars, call, createVars>>

ServiceError(t) ==
  /\ Posted(t)
  /\ UpdateSingleTx(t, "sending", "sending")
  /\ UNCHANGED <<outputVars, indexVars, restVars, call, createVars>>

\* A status event, after the network was asked again.
EventAccepted(t) ==
  /\ "events" \in Features
  /\ Posted(t) /\ reqStatus[t] \notin TerminalFailure
  /\ AdvanceKnownTxToBroadcasted(t)
  /\ IF ReqUpdateApplies(t, BeyondBroadcastStage)
     THEN CreateUTXOForSpendableOutputs(t, txStatus') ELSE UNCHANGED <<indexVars, indexing>>
  /\ UNCHANGED <<outputVars, rawInputs, claims, timedOut, healed, call, createVars>>

EventDoubleSpend(t) ==
  /\ "events" \in Features
  /\ Posted(t) /\ reqStatus[t] \notin TerminalFailure
  /\ FailKnownTxAsDoubleSpend(t)
  /\ UNCHANGED <<outputVars, indexVars, restVars, call, createVars>>

\* UpdateKnownTxAsMined: every index row of the transaction is in the mined tier.
Mined(t) ==
  /\ Posted(t) /\ HasTxID(t)
  /\ UpdateKnownTxAsMined(t)
  /\ utxoStatus' = [utxoStatus EXCEPT ![t] = IF @ = None THEN None ELSE "mined"]
  /\ UNCHANGED <<outputVars, reservedBy, restVars, call, createVars>>

SyncStatuses == StatusesReadyToSync \cup {"nosend"}

NotFound(t) ==
  /\ "timeouts" \in Features
  /\ ReadyForStatusSync(t, SyncStatuses)
  /\ IncreaseKnownTxAttempts(t)
  /\ UNCHANGED <<outputVars, indexVars, restVars, call, createVars>>

SelectTimedOut ==
  /\ ReadCommitted
  /\ timedOut' = RowsOf(TimedOut(SyncStatuses))
  /\ UNCHANGED <<storeVars, outputVars, indexVars, rawInputs, claims, indexing, healed, call,
                 createVars>>

ProofTimeouts ==
  /\ ApplyProofTimeouts(IF ReadCommitted THEN timedOut ELSE RowsOf(TimedOut(SyncStatuses)))
  /\ timedOut' = NoRows
  /\ UNCHANGED <<outputVars, indexVars, rawInputs, claims, indexing, healed, call, createVars>>

Review(t) ==
  /\ reqStatus[t] \in TerminalFailure
  /\ txStatus[t] # "failed" \/ \E o \in Txs : spentBy[o] = t
  /\ ReviewFailed(t)
  /\ MarkCreatedOutputsAsNotSpendable(t)
  /\ UNCHANGED <<indexVars, restVars, call, createVars>>

-----------------------------------------------------------------------------
(* Aborts *)

\* AbortAction validates the status and that the outputs are unspent.
AbortFind(t) ==
  /\ call[t] = "idle"
  /\ txStatus[t] \in AbortableStatuses
  /\ spentBy[t] = None
  /\ Goto(t, "abortFound")
  /\ UNCHANGED <<storeVars, outputVars, indexVars, restVars, createVars>>

\* The fail_abandoned sweep does not validate what it selects.
SelectAbandoned(t) ==
  /\ call[t] = "idle"
  /\ \/ txStatus[t] = "unsigned"
     \/ txStatus[t] = "unprocessed" /\ reqStatus[t] \in {None, "unprocessed"}
  /\ Goto(t, "abortFound")
  /\ UNCHANGED <<storeVars, outputVars, indexVars, restVars, createVars>>

Park(t) ==
  /\ call[t] = "abortFound"
  /\ HasTxID(t)
  /\ IF txStatus[t] \in AbortableStatuses \cup {"aborted", "failed"} /\ Parkable(t)
     THEN ParkUnbroadcastKnownTx(t) /\ Goto(t, "parked")
     ELSE UNCHANGED storeVars /\ Goto(t, "idle")
  /\ UNCHANGED <<outputVars, indexVars, restVars, createVars>>

\* The unit of work of abortTx; the compare-and-set of the status comes last and
\* rolls it back.
Release(t) ==
  /\ call[t] = "parked" \/ (call[t] = "abortFound" /\ ~HasTxID(t))
  /\ \/ AbortRelease(t) /\ RestoreRows(t) /\ RecreateSpentOutputs(t)
     \/ /\ txStatus[t] \notin AbortableStatuses
        /\ UNCHANGED <<storeVars, outputVars, indexVars>>
  /\ Goto(t, "idle")
  /\ UNCHANGED <<restVars, createVars>>

-----------------------------------------------------------------------------
(* The unfail task. *)

UnfailRequested(t) ==
  /\ "unfail" \in Features
  /\ txStatus[t] = "failed" /\ HasTxID(t)
  /\ UpdateKnownTxStatus(t, "unfail", {})
  /\ UNCHANGED <<outputVars, indexVars, restVars, call, createVars>>

\* markAsUnminedAndUnproven: MarkCreatedOutputsAsSpendableByTxID has no condition
\* on spent_by.
UnfailProved(t) ==
  /\ reqStatus[t] = "unfail" /\ Posted(t)
  /\ UnfailAsUnmined(t)
  /\ spendable' = [spendable EXCEPT ![t] = TRUE]
  /\ CreateUTXOs({o \in {t} : IsChange(o)}, txStatus')
  /\ UNCHANGED <<spentBy, change, basketName, restVars, call, createVars>>

\* markAsInvalid
UnfailNotFound(t) ==
  /\ reqStatus[t] = "unfail"
  /\ UnfailAsInvalid(t)
  /\ CreateUTXOs(SpentChange(t), txStatus)
  /\ RecreateSpentOutputs(t)
  /\ UNCHANGED <<restVars, call, createVars>>

-----------------------------------------------------------------------------
(* internalizeAction and relinquishOutput *)

\* storeNewTx for a transaction somebody else made, which pays the wallet.
InternalizeNew(t, sent) ==
  /\ "internalize" \in Features
  /\ call[t] = "none"
  /\ txStatus' = [txStatus EXCEPT ![t] = IF sent THEN "unproven" ELSE "sending"]
  /\ reqStatus' = [reqStatus EXCEPT ![t] = IF sent THEN "unmined" ELSE "unsent"]
  /\ wasBroadcast' = [wasBroadcast EXCEPT ![t] = sent]
  /\ spendable' = [spendable EXCEPT ![t] = TRUE]
  /\ change' = [change EXCEPT ![t] = t \notin Custom]
  /\ basketName' = [basketName EXCEPT ![t] = IF t \in Custom THEN "custom" ELSE "default"]
  /\ utxoStatus' = [utxoStatus EXCEPT ![t] =
                      IF t \in Custom THEN None ELSE ToUTXOStatus(txStatus'[t])]
  /\ Goto(t, "idle")
  /\ UNCHANGED <<attempts, rebroadcasts, proof, inputs, spentBy, reservedBy, restVars,
                 createVars>>

\* upsertExistingTx: SaveOutputs writes every column of the output, spent_by as
\* NULL; a row that is in the index already keeps its tier and reservation.
MergePayment(t) ==
  /\ "merge" \in Features
  /\ txStatus[t] \in {"completed", "unproven", "sending"}
  /\ basketName[t] # "default"
  /\ spendable' = [spendable EXCEPT ![t] = TRUE]
  /\ spentBy' = [spentBy EXCEPT ![t] = None]
  /\ change' = [change EXCEPT ![t] = TRUE]
  /\ basketName' = [basketName EXCEPT ![t] = "default"]
  /\ utxoStatus' = [utxoStatus EXCEPT ![t] =
                      IF @ = None THEN ToUTXOStatus(txStatus[t]) ELSE @]
  /\ UNCHANGED <<storeVars, reservedBy, restVars, call, createVars>>

MergeInsertion(t) ==
  /\ "merge" \in Features
  /\ txStatus[t] \in {"completed", "unproven", "nosend", "sending"}
  /\ spendable' = [spendable EXCEPT ![t] = TRUE]
  /\ spentBy' = [spentBy EXCEPT ![t] = None]
  /\ change' = [change EXCEPT ![t] = FALSE]
  /\ basketName' = [basketName EXCEPT ![t] = "custom"]
  /\ UNCHANGED <<storeVars, indexVars, restVars, call, createVars>>

\* UnlinkOutputFromBasketByOutpoint
RelinquishOutput(t) ==
  /\ "relinquish" \in Features
  /\ HasTxID(t)
  /\ basketName' = [basketName EXCEPT ![t] = None]
  /\ IF reservedBy[t] = None THEN DeleteRows({t}) ELSE UNCHANGED indexVars
  /\ UNCHANGED <<storeVars, spendable, spentBy, change, restVars, call, createVars>>

-----------------------------------------------------------------------------

Next ==
  \/ \E t \in Txs, provided, noSend \in SUBSET Txs : ReadInputs(t, provided, noSend)
  \/ \E t \in Txs, picked \in SUBSET Txs :
       \/ CreateTransactionInTx(t, picked)
       \/ FundingContention(t, picked)
       \/ FundingConflict(t, picked)
  \/ \E t \in Txs :
       \/ DropStaleRows(t) \/ FundingFails(t)
       \/ \E s \in TxStatuses, r \in ReqStatuses : Process(t, s, r)
       \/ SendWith(t) \/ SendAgain(t) \/ QueueKnown(t) \/ QueueTx(t)
       \/ MakeChangeSpendableAndIndex(t) \/ CallStops(t)
       \/ SelectForClaim(t) \/ Claim(t) \/ SelectForIndex(t)
       \/ Accepted(t) \/ Rejected(t) \/ ServiceError(t)
       \/ EventAccepted(t) \/ EventDoubleSpend(t) \/ Mined(t) \/ NotFound(t) \/ Review(t)
       \/ AbortFind(t) \/ SelectAbandoned(t) \/ Park(t) \/ Release(t)
       \/ UnfailRequested(t) \/ UnfailProved(t) \/ UnfailNotFound(t)
       \/ \E sent \in BOOLEAN : InternalizeNew(t, sent)
       \/ MergePayment(t) \/ MergeInsertion(t) \/ RelinquishOutput(t)
  \/ SelectTimedOut \/ ProofTimeouts

Spec == Init /\ [][Next]_vars

-----------------------------------------------------------------------------
(* Properties. *)

\* The outputs table as a ledger of who spends what, and the transactions that
\* may have reached the network.
Ledger == INSTANCE CoinLedger WITH owner <- spentBy, spends <- rawInputs, sent <- wasBroadcast

\* Two transactions handed to a broadcaster never spend the same output, and what
\* they spend stays spent by them, whatever aborts, rejections, reviews, retries
\* of the funding transaction and second posts do.  Like NoStaleRows it is about
\* an engine that refuses stale writes.
NoDoubleSpend == Ledger!SentOwnsInputs

\* Every step of the wallet is a step of the ledger: outputs are claimed when
\* free, given back only by the abort of a transaction no broadcaster has seen,
\* and a transaction is sent only while it holds all its inputs.
RefinesLedger == Ledger!LedgerSpec

\* The claim index and the spend truth never disagree on who holds an output: a
\* row is there for a spent output only under the reservation of its spender, so
\* the funder's queries never return a spent output.  Where ReadCommitted holds, a
\* createAction that comes between the SELECT and the upsert of an index
\* transaction leaves a free row for the output it spends.
NoStaleRows ==
  \A o \in Txs :
    /\ reservedBy[o] # None => spentBy[o] = reservedBy[o]
    /\ utxoStatus[o] # None /\ spentBy[o] # None => reservedBy[o] = spentBy[o]

\* Unspent change that was received and mined leaves the index in one way only,
\* the heal of a createAction that named an input (DropStaleRows): no failed or
\* retried funding, abort, parked action or late result makes such a coin
\* invisible to the funder.
UnspentChangeIsIndexed ==
  \A o \in Received \ healed : spendable[o] /\ IsChange(o) /\ spentBy[o] = None
                                 => utxoStatus[o] # None

\* A reservation belongs to an action that may still be signed or aborted: signing,
\* aborts, merges, relinquished outputs and the unfail task leave no row reserved
\* by an action that nobody will complete, which no funding could ever use again.
\* It holds on either engine.
ReservationsHaveOwners ==
  \A o \in Txs : reservedBy[o] # None => txStatus[reservedBy[o]] = "unsigned"

\* An output comes back from its spender only when the spender is aborted.
SpentUntilAborted ==
  [][\A o \in Txs : spentBy[o] # None /\ spentBy'[o] # spentBy[o]
                       => txStatus'[spentBy[o]] = "aborted"]_vars
=============================================================================
