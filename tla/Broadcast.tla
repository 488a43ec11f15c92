----------------------------- MODULE Broadcast ------------------------------
(***************************************************************************)
(* How an outgoing transaction gets from createAction to a proof, or back  *)
(* to the wallet.  ProcessAction, the background broadcaster, the          *)
(* send_waiting sweep, AbortAction, the fail_abandoned sweep, the proof    *)
(* synchronisation with its failure review, broadcaster status events,     *)
(* the unfail task and chain reorganisations all write the same rows.      *)
(*                                                                         *)
(* A Calls element is a goroutine of some storage server on the database:  *)
(* a request handler, a broadcaster worker or a monitor task.  It runs one *)
(* flow at a time and is interrupted between any two of its database       *)
(* transactions and network requests, and between the read and the write   *)
(* of a transaction that has both (see KnownTxStore).  The TryLocks of the *)
(* sweeps are held per process and do not exclude a second server, so they *)
(* are left out.                                                           *)
(*                                                                         *)
(* A flow handles one transaction.  A batch applies its per-transaction    *)
(* steps in sequence and stops at the first error, which is the same as    *)
(* one call per member some of which stop early (CallStops).               *)
(***************************************************************************)
EXTENDS KnownTxStore

CONSTANTS
  Calls,       \* concurrently running goroutines
  Duty,        \* Duty[c]: the flows call c may run
  Serialized,  \* clients and the abandoned sweep do not act on one action at once
  MayStop      \* a call may die or fail between two steps

Flows == {"create", "process", "sendWith", "background", "sendWaiting", "abort",
          "abandoned", "sync", "review", "event", "unfailRequest", "unfail"}

ASSUME BroadcastAssumption ==
  /\ Duty \in [Calls -> SUBSET Flows]
  /\ Serialized \in BOOLEAN
  /\ MayStop \in BOOLEAN
  /\ None \notin Txs

VARIABLES
  pc,      \* pc[c]: the step call c has reached
  on,      \* on[c]: the transaction call c works on
  arg,     \* arg[c]: what call c remembers between its steps
  read,    \* read[c]: the rows a proof timeout or a requeue has read
  queue,   \* the items in the channel of the background broadcaster
  net,     \* what the network holds: nothing, a mempool entry, a mined one
  posted   \* history: the transactions ever handed to a broadcaster

callVars == <<pc, on, arg, read>>
netVars == <<net, posted>>
vars == <<storeVars, callVars, queue, netVars>>

\* What started a broadcastTxs call, and whether it introduces the transaction.
NewKinds == {"new", "newDelayed", "newNoSend"}
WithKinds == {"with", "withDelayed"}
Kinds == NewKinds \cup WithKinds \cup {"sweep"}
Delayed(k) == k \in {"newDelayed", "withDelayed"}

Verdicts == {"success", "doubleSpend", "invalidTx", "serviceError"}
SyncArgs == {"plain", "withNoSend"}
EventArgs == {"mined", "broadcasted", "rejected", "rejectedInFlight"}
Args == {None, "txid", "noTxid"} \cup Kinds \cup Verdicts \cup SyncArgs \cup EventArgs

PCs == {"idle", "down", "found", "stored", "ready", "queuedKnown", "queuedTx", "claiming",
        "claimed", "counted", "answered", "bgClaiming", "bgClaimed", "bgAnswered", "bgApplied",
        "abandoned", "abortFound", "parking", "parked", "syncing", "proved", "syncCounted",
        "timingOut", "reviewing", "event", "requeuing", "listed", "unfailing", "unfailProved"}

TypeOK ==
  /\ StoreTypeOK
  /\ pc \in [Calls -> PCs]
  /\ on \in [Calls -> Txs \cup {None}]
  /\ arg \in [Calls -> Args]
  /\ read \in [Calls -> RowsRead]
  /\ queue \in SUBSET Txs
  /\ net \in [Txs -> {"unseen", "mempool", "mined"}]
  /\ posted \in [Txs -> BOOLEAN]

Init ==
  /\ StoreInit
  /\ pc = [c \in Calls |-> "idle"]
  /\ on = [c \in Calls |-> None]
  /\ arg = [c \in Calls |-> None]
  /\ read = [c \in Calls |-> NoRows]
  /\ queue = {}
  /\ net = [t \in Txs |-> "unseen"]
  /\ posted = [t \in Txs |-> FALSE]

-----------------------------------------------------------------------------
(* Control of a call. *)

May(c, flow) == pc[c] = "idle" /\ flow \in Duty[c]

At(c, p, t) == pc[c] = p /\ on[c] = t

GotoWith(c, p, t, a, rows) ==
  /\ pc' = [pc EXCEPT ![c] = p]
  /\ on' = [on EXCEPT ![c] = t]
  /\ arg' = [arg EXCEPT ![c] = a]
  /\ read' = [read EXCEPT ![c] = rows]

Goto(c, p, t, a) == GotoWith(c, p, t, a, NoRows)

Finish(c) == Goto(c, "idle", None, None)

\* The steps at which a client's call, or the abandoned sweep, has read the
\* transaction and has yet to act on what it read.
ClientWindow(c) ==
  \/ pc[c] \in {"found", "queuedKnown", "queuedTx", "abandoned", "abortFound", "parking",
               "parked"}
  \/ pc[c] \in {"stored", "ready"} /\ arg[c] # "sweep"

Alone(t) == Serialized => \A d \in Calls : on[d] = t => ~ClientWindow(d)

-----------------------------------------------------------------------------
(* createAction, and the processNewTx half of ProcessAction. *)

CreateAction(c, t) ==
  /\ May(c, "create")
  /\ CreateTransaction(t)
  /\ UNCHANGED <<callVars, queue, netVars>>

\* FindTransactionByReference and validateStateOfTableTx.  SpendTransaction
\* clears input_beef, so the action is one that has no txid yet.
FindAction(c, t, k) ==
  /\ May(c, "process")
  /\ txStatus[t] \in {"unsigned", "unprocessed"}
  /\ ~HasTxID(t)
  /\ Alone(t)
  /\ Goto(c, "found", t, k)
  /\ UNCHANGED <<storeVars, queue, netVars>>

\* newStatuses
NewTxStatus(k) == IF k = "newNoSend" THEN "nosend" ELSE "unprocessed"
NewReqStatus(k) ==
  CASE k = "newNoSend"  -> "nosend"
    [] k = "newDelayed" -> "unsent"
    [] OTHER            -> "unprocessed"

\* A noSend action ends here.
StoreSigned(c, t) ==
  /\ At(c, "found", t)
  /\ SpendTransaction(t, NewTxStatus(arg[c]), NewReqStatus(arg[c]))
  /\ IF arg[c] = "newNoSend" THEN Finish(c) ELSE Goto(c, "stored", t, arg[c])
  /\ UNCHANGED <<queue, netVars>>

\* A ProcessAction that only names sendWith transactions.
SendWith(c, t, k) ==
  /\ May(c, "sendWith")
  /\ HasTxID(t)
  /\ Alone(t)
  /\ Goto(c, "stored", t, k)
  /\ UNCHANGED <<storeVars, queue, netVars>>

\* One transaction of a batch collected by send_waiting.
SelectWaiting(c, t) ==
  /\ May(c, "sendWaiting")
  /\ reqStatus[t] \in WaitingStatuses
  /\ Goto(c, "stored", t, "sweep")
  /\ UNCHANGED <<storeVars, queue, netVars>>

-----------------------------------------------------------------------------
(* broadcastTxs *)

\* getKnownTxStatuses, partitionBroadcastTxIDs and the BEEF build: ready when
\* the stored status is neither unfail, nor already sent, nor one that the
\* BEEF build filters out.
ReadyToSend(s) ==
  s \notin {None, "unfail"} \cup AlreadySent \cup ProblematicStatuses

CheckStatus(c, t) ==
  /\ At(c, "stored", t)
  /\ ReadyToSend(reqStatus[t])
  /\ Goto(c, "ready", t, arg[c])
  /\ UNCHANGED <<storeVars, queue, netVars>>

\* The transaction is on the network already: reported, and not sent again.
SkipAlreadySent(c, t) ==
  /\ At(c, "stored", t)
  /\ reqStatus[t] \in AlreadySent
  /\ Finish(c)
  /\ UNCHANGED <<storeVars, queue, netVars>>

\* Any error before the point of no return.  The compensation is armed when
\* the call introduced the transaction, and then starts an AbortAction, which
\* reads and validates the action again.
ReleaseOnError(c, t) ==
  /\ \/ pc[c] \in {"found", "ready"}
     \/ pc[c] = "stored" /\ reqStatus[t] \notin AlreadySent
  /\ on[c] = t
  /\ IF arg[c] \in NewKinds /\ txStatus[t] \in AbortableStatuses
     THEN Goto(c, "abortFound", t, IF HasTxID(t) THEN "txid" ELSE "noTxid")
     ELSE Finish(c)
  /\ UNCHANGED <<storeVars, queue, netVars>>

\* queueTxForDelayedBroadcast, its two status writes, then Add, which the
\* channel accepts or, when it is full, refuses.
QueueKnown(c, t) ==
  /\ At(c, "ready", t)
  /\ Delayed(arg[c])
  /\ UpdateKnownTxStatus(t, "unsent", BeyondBroadcastStage)
  /\ Goto(c, "queuedKnown", t, arg[c])
  /\ UNCHANGED <<queue, netVars>>

QueueTx(c, t) ==
  /\ At(c, "queuedKnown", t)
  /\ CompareAndSetTxStatus(t, "sending", {"unprocessed"})
  /\ Goto(c, "queuedTx", t, arg[c])
  /\ UNCHANGED <<reqStatus, wasBroadcast, attempts, rebroadcasts, proof, inputs,
                 queue, netVars>>

Add(c, t) ==
  /\ At(c, "queuedTx", t)
  /\ queue' \in {queue, queue \cup {t}}
  /\ Finish(c)
  /\ UNCHANGED <<storeVars, netVars>>

\* ClaimKnownTxsForBroadcast of the immediate path and of the sweep; what is
\* not claimable any more is dropped, and a refused write is an error after the
\* point of no return.
SelectForClaim(c, t) ==
  /\ At(c, "ready", t)
  /\ ~Delayed(arg[c])
  /\ IF ClaimSelects(t) THEN Goto(c, "claiming", t, None) ELSE Finish(c)
  /\ UNCHANGED <<storeVars, queue, netVars>>

Claim(c, t) ==
  /\ At(c, "claiming", t)
  /\ \/ ClaimKnownTxForBroadcast(t) /\ Goto(c, "claimed", t, None)
     \/ ClaimRefused(t) /\ Finish(c)
  /\ UNCHANGED <<queue, netVars>>

CountAttempt(c, t) ==
  /\ At(c, "claimed", t)
  /\ IncreaseKnownTxAttempts(t)
  /\ Goto(c, "counted", t, None)
  /\ UNCHANGED <<queue, netVars>>

\* PostFromBEEF followed by confirmDoubleSpends.  The network may take the
\* transaction whatever the services answer; success needs that it did.
Post(c, t) ==
  /\ on[c] = t
  /\ posted' = [posted EXCEPT ![t] = TRUE]
  /\ \E v \in Verdicts, taken \in BOOLEAN :
       /\ v = "success" => taken \/ net[t] # "unseen"
       /\ net' = [net EXCEPT ![t] = IF @ = "unseen" /\ taken THEN "mempool" ELSE @]
       /\ \/ pc[c] = "counted" /\ Goto(c, "answered", t, v)
          \/ pc[c] = "bgClaimed" /\ Goto(c, "bgAnswered", t, v)
  /\ UNCHANGED <<storeVars, queue>>

\* singleTxBroadcastResult
ResultReqStatus(v) ==
  CASE v = "success"      -> "unmined"
    [] v = "serviceError" -> "sending"
    [] v = "doubleSpend"  -> "doubleSpend"
    [] OTHER              -> "invalidTx"
ResultTxStatus(v) ==
  CASE v = "success"      -> "unproven"
    [] v = "serviceError" -> "sending"
    [] OTHER              -> "failed"

ApplyResult(c, t) ==
  /\ on[c] = t
  /\ UpdateSingleTx(t, ResultReqStatus(arg[c]), ResultTxStatus(arg[c]))
  /\ \/ pc[c] = "answered" /\ Finish(c)
     \/ pc[c] = "bgAnswered" /\ Goto(c, "bgApplied", t, None)
  /\ UNCHANGED <<queue, netVars>>

-----------------------------------------------------------------------------
(* BackgroundBroadcast: a worker takes an item and claims it again. *)

TakeQueued(c, t) ==
  /\ May(c, "background")
  /\ t \in queue
  /\ queue' = queue \ {t}
  /\ IF ClaimSelects(t) THEN Goto(c, "bgClaiming", t, None) ELSE UNCHANGED callVars
  /\ UNCHANGED <<storeVars, netVars>>

BackgroundClaim(c, t) ==
  /\ At(c, "bgClaiming", t)
  /\ \/ ClaimKnownTxForBroadcast(t) /\ Goto(c, "bgClaimed", t, None)
     \/ ClaimRefused(t) /\ Finish(c)
  /\ UNCHANGED <<queue, netVars>>

\* The attempt of a background post is counted after its result is applied.
CountBackgroundAttempt(c, t) ==
  /\ At(c, "bgApplied", t)
  /\ IncreaseKnownTxAttempts(t)
  /\ Finish(c)
  /\ UNCHANGED <<queue, netVars>>

-----------------------------------------------------------------------------
(* AbortAction and the fail_abandoned sweep. *)

AbortFind(c, t) ==
  /\ May(c, "abort")
  /\ txStatus[t] \in AbortableStatuses
  /\ Alone(t)
  /\ Goto(c, "abortFound", t, IF HasTxID(t) THEN "txid" ELSE "noTxid")
  /\ UNCHANGED <<storeVars, queue, netVars>>

\* Mutant: the sweep forgets the transactions that were signed and never sent.
SelectUnsigned(c, t) ==
  /\ May(c, "abandoned")
  /\ txStatus[t] = "unsigned" /\ reqStatus[t] = None
  /\ Alone(t)
  /\ Goto(c, "abandoned", t, None)
  /\ UNCHANGED <<storeVars, queue, netVars>>

\* FindTransactionIDsForAbort collects ids; the row is loaded, and not
\* validated again, when its turn comes.
SelectAbandoned(c, t) ==
  /\ May(c, "abandoned")
  /\ \/ txStatus[t] = "unsigned"
     \/ txStatus[t] = "unprocessed" /\ reqStatus[t] \in {None, "unprocessed"}
  /\ Alone(t)
  /\ Goto(c, "abandoned", t, None)
  /\ UNCHANGED <<storeVars, queue, netVars>>

LoadAbandoned(c, t) ==
  /\ At(c, "abandoned", t)
  /\ Goto(c, "abortFound", t, IF HasTxID(t) THEN "txid" ELSE "noTxid")
  /\ UNCHANGED <<storeVars, queue, netVars>>

\* parkKnownTxForAbort: refused when a row of the txid is still in flight, and
\* then when the KnownTx shows that it may have been posted.
CheckInFlight(c, t) ==
  /\ At(c, "abortFound", t)
  /\ arg[c] = "txid"
  /\ IF txStatus[t] \in AbortableStatuses \cup {"aborted", "failed"}
     THEN Goto(c, "parking", t, None) ELSE Finish(c)
  /\ UNCHANGED <<storeVars, queue, netVars>>

Park(c, t) ==
  /\ At(c, "parking", t)
  /\ \/ ParkUnbroadcastKnownTx(t) /\ Goto(c, "parked", t, None)
     \/ ~Parkable(t) /\ Finish(c) /\ UNCHANGED storeVars
  /\ UNCHANGED <<queue, netVars>>

AbortCommit(c, t) ==
  /\ \/ At(c, "parked", t)
     \/ At(c, "abortFound", t) /\ arg[c] = "noTxid"
  /\ \/ AbortRelease(t)
     \/ txStatus[t] \notin AbortableStatuses /\ UNCHANGED storeVars
  /\ Finish(c)
  /\ UNCHANGED <<queue, netVars>>

-----------------------------------------------------------------------------
(* SynchronizeTransactionStatuses *)

SyncStatuses(a) ==
  StatusesReadyToSync \cup (IF a = "withNoSend" THEN {"nosend"} ELSE {})

SyncSelect(c, t, a) ==
  /\ May(c, "sync")
  /\ ReadyForStatusSync(t, SyncStatuses(a))
  /\ Goto(c, "syncing", t, a)
  /\ UNCHANGED <<storeVars, queue, netVars>>

\* filterTxsByConfirmationDepth drops a transaction the network knows and has
\* not buried, and every transaction while the status service fails.
SyncSkip(c, t) ==
  /\ At(c, "syncing", t)
  /\ Finish(c)
  /\ UNCHANGED <<storeVars, queue, netVars>>

\* The services return a merkle path; it is stored in a later step.
SyncProved(c, t) ==
  /\ At(c, "syncing", t)
  /\ net[t] = "mined"
  /\ Goto(c, "proved", t, None)
  /\ UNCHANGED <<storeVars, queue, netVars>>

SyncMined(c, t) ==
  /\ At(c, "proved", t)
  /\ UpdateKnownTxAsMined(t)
  /\ Finish(c)
  /\ UNCHANGED <<queue, netVars>>

\* NOT_FOUND from the status service, or no merkle path from the proof one.
SyncNotFound(c, t) ==
  /\ At(c, "syncing", t)
  /\ IncreaseKnownTxAttempts(t)
  /\ Goto(c, "syncCounted", t, arg[c])
  /\ UNCHANGED <<queue, netVars>>

SelectTimedOut(c, t) ==
  /\ At(c, "syncCounted", t)
  /\ GotoWith(c, "timingOut", t, None, RowsOf(TimedOut(SyncStatuses(arg[c]))))
  /\ UNCHANGED <<storeVars, queue, netVars>>

SyncTimeouts(c, t) ==
  /\ At(c, "timingOut", t)
  /\ ApplyProofTimeouts(read[c])
  /\ Finish(c)
  /\ UNCHANGED <<queue, netVars>>

\* The review that ends every synchronisation, one row at a time.
\* FindKnownTxIDsByStatusesNeedingFailureReview: a terminal failure whose
\* transaction has another status or still holds its inputs.
SelectForReview(c, t) ==
  /\ May(c, "review")
  /\ reqStatus[t] \in TerminalFailure
  /\ txStatus[t] # "failed" \/ inputs[t] = "held"
  /\ Goto(c, "reviewing", t, None)
  /\ UNCHANGED <<storeVars, queue, netVars>>

Review(c, t) ==
  /\ At(c, "reviewing", t)
  /\ ReviewFailed(t)
  /\ Finish(c)
  /\ UNCHANGED <<queue, netVars>>

-----------------------------------------------------------------------------
(* ProcessExternalTxStatusUpdate *)

\* Events are about transactions handed to the broadcaster.  The stored status
\* is read first, and the network asked again, before anything is written.
ReceiveEvent(c, t, a) ==
  /\ May(c, "event")
  /\ posted[t]
  /\ reqStatus[t] \notin {None, "completed"} \cup TerminalFailure
  /\ a = "mined" => net[t] = "mined"
  /\ a = "broadcasted" => net[t] # "unseen"
  /\ a \in {"broadcasted", "rejectedInFlight"} => reqStatus[t] \in WaitingStatuses
  /\ a = "rejected" => reqStatus[t] \notin WaitingStatuses
  /\ Goto(c, "event", t, a)
  /\ UNCHANGED <<storeVars, queue, netVars>>

ApplyEvent(c, t) ==
  /\ At(c, "event", t)
  /\ \/ arg[c] = "mined" /\ UpdateKnownTxAsMined(t)
     \/ /\ arg[c] = "broadcasted" \/ (arg[c] = "rejectedInFlight" /\ net[t] # "unseen")
        /\ AdvanceKnownTxToBroadcasted(t)
     \/ arg[c] = "rejected" /\ net[t] # "unseen" /\ UNCHANGED storeVars
     \/ arg[c] \in {"rejected", "rejectedInFlight"} /\ FailKnownTxAsDoubleSpend(t)
  /\ Finish(c)
  /\ UNCHANGED <<queue, netVars>>

\* requeueExternallyRejectedTx, when no double spend is confirmed.
SelectForRequeue(c, t) ==
  /\ At(c, "event", t)
  /\ arg[c] \in {"rejected", "rejectedInFlight"}
  /\ IF reqStatus[t] \in RequeueFrom
     THEN GotoWith(c, "requeuing", t, None, RowsOf({t})) ELSE Finish(c)
  /\ UNCHANGED <<storeVars, queue, netVars>>

Requeue(c, t) ==
  /\ At(c, "requeuing", t)
  /\ RequeueKnownTxForRebroadcast(t, read[c])
  /\ Finish(c)
  /\ UNCHANGED <<queue, netVars>>

-----------------------------------------------------------------------------
(* The unfail request of listActions, and the unfail task. *)

ListFailed(c, t) ==
  /\ May(c, "unfailRequest")
  /\ txStatus[t] = "failed"
  /\ HasTxID(t)
  /\ Goto(c, "listed", t, None)
  /\ UNCHANGED <<storeVars, queue, netVars>>

MarkForUnfail(c, t) ==
  /\ At(c, "listed", t)
  /\ UpdateKnownTxStatus(t, "unfail", {})
  /\ Finish(c)
  /\ UNCHANGED <<queue, netVars>>

SelectUnfail(c, t) ==
  /\ May(c, "unfail")
  /\ reqStatus[t] = "unfail"
  /\ Goto(c, "unfailing", t, None)
  /\ UNCHANGED <<storeVars, queue, netVars>>

\* unfailSingle: the services return a merkle path, or they do not, and the row
\* is written in a later step.
UnfailProved(c, t) ==
  /\ At(c, "unfailing", t)
  /\ net[t] = "mined"
  /\ Goto(c, "unfailProved", t, None)
  /\ UNCHANGED <<storeVars, queue, netVars>>

Unfail(c, t) ==
  /\ \/ At(c, "unfailProved", t) /\ (UnfailAsUnmined(t) \/ UnfailRolledBack(t))
     \/ At(c, "unfailing", t) /\ (UnfailAsInvalid(t) \/ UnfailRolledBack(t))
  /\ Finish(c)
  /\ UNCHANGED <<queue, netVars>>

-----------------------------------------------------------------------------
(* The chain, failures, and the specification. *)

\* The network buries the transaction, or drops it from its mempool.
Mine(t) ==
  /\ net[t] = "mempool"
  /\ net' = [net EXCEPT ![t] = "mined"]
  /\ UNCHANGED <<storeVars, callVars, queue, posted>>

Evict(t) ==
  /\ net[t] = "mempool"
  /\ net' = [net EXCEPT ![t] = "unseen"]
  /\ UNCHANGED <<storeVars, callVars, queue, posted>>

\* HandleReorg for the block that holds t; t is in the mempool again.
HandleReorg(t) ==
  /\ net[t] = "mined"
  /\ IF proof[t] THEN InvalidateMerkleProof(t) ELSE UNCHANGED storeVars
  /\ net' = [net EXCEPT ![t] = "mempool"]
  /\ UNCHANGED <<callVars, queue, posted>>

\* A crash, a cancelled context, or an error after the point of no return; and
\* the goroutine that takes the place of the stopped one.
CallStops(c) ==
  /\ MayStop
  /\ pc[c] \notin {"idle", "down"}
  /\ Goto(c, "down", None, None)
  /\ UNCHANGED <<storeVars, queue, netVars>>

Restart(c) ==
  /\ pc[c] = "down"
  /\ Finish(c)
  /\ UNCHANGED <<storeVars, queue, netVars>>

\* A restart loses the broadcaster's in-memory channel.
QueueLost ==
  /\ MayStop
  /\ queue # {}
  /\ queue' = {}
  /\ UNCHANGED <<storeVars, callVars, netVars>>

CallNext(c, t) ==
  \/ CreateAction(c, t)
  \/ \E k \in NewKinds : FindAction(c, t, k)
  \/ \E k \in WithKinds : SendWith(c, t, k)
  \/ StoreSigned(c, t) \/ SelectWaiting(c, t)
  \/ CheckStatus(c, t) \/ SkipAlreadySent(c, t) \/ ReleaseOnError(c, t)
  \/ QueueKnown(c, t) \/ QueueTx(c, t) \/ Add(c, t)
  \/ SelectForClaim(c, t) \/ Claim(c, t) \/ CountAttempt(c, t)
  \/ Post(c, t) \/ ApplyResult(c, t)
  \/ TakeQueued(c, t) \/ BackgroundClaim(c, t) \/ CountBackgroundAttempt(c, t)
  \/ AbortFind(c, t) \/ SelectAbandoned(c, t) \/ LoadAbandoned(c, t)
  \/ CheckInFlight(c, t) \/ Park(c, t) \/ AbortCommit(c, t)
  \/ \E a \in SyncArgs : SyncSelect(c, t, a)
  \/ SyncSkip(c, t) \/ SyncProved(c, t) \/ SyncMined(c, t)
  \/ SyncNotFound(c, t) \/ SelectTimedOut(c, t) \/ SyncTimeouts(c, t)
  \/ SelectForReview(c, t) \/ Review(c, t)
  \/ \E a \in EventArgs : ReceiveEvent(c, t, a)
  \/ ApplyEvent(c, t) \/ SelectForRequeue(c, t) \/ Requeue(c, t)
  \/ ListFailed(c, t) \/ MarkForUnfail(c, t) \/ SelectUnfail(c, t)
  \/ UnfailProved(c, t) \/ Unfail(c, t)

Next ==
  \/ \E c \in Calls, t \in Txs : CallNext(c, t)
  \/ \E c \in Calls : CallStops(c) \/ Restart(c)
  \/ \E t \in Txs : Mine(t) \/ Evict(t) \/ HandleReorg(t)
  \/ QueueLost

Spec == Init /\ [][Next]_vars

\* A call that has begun goes on.  The monitor starts each of its tasks again and
\* again, workers drain the channel, and neither the sweep's preparation of a
\* transaction nor the status service fails for ever: a transaction that is buried
\* is proved in some run, one the network does not know is reported absent in
\* some run.  One that the network knows and has not buried is skipped by every
\* run, so the network decides: it buries or drops what it holds.  Crashes,
\* evictions and reorganisations are finitely many.
Fairness ==
  /\ \A c \in Calls :
       WF_vars(Restart(c) \/ \E t \in Txs : pc[c] # "idle" /\ CallNext(c, t))
  /\ \A t \in Txs :
       /\ SF_vars(\E c \in Calls : SelectWaiting(c, t))
       /\ SF_vars(\E c \in Calls : CheckStatus(c, t))
       /\ SF_vars(\E c \in Calls : SelectForClaim(c, t))
       /\ SF_vars(\E c \in Calls : SelectAbandoned(c, t))
       /\ SF_vars(\E c \in Calls, a \in SyncArgs : SyncSelect(c, t, a))
       /\ SF_vars(\E c \in Calls :
                    SyncProved(c, t) \/ (net[t] = "unseen" /\ SyncNotFound(c, t)))
       /\ SF_vars(\E c \in Calls : SelectForReview(c, t))
       /\ WF_vars(Mine(t) \/ Evict(t))
  /\ <>[][/\ \A c \in Calls : pc'[c] = "down" => pc[c] = "down"
          /\ \A t \in Txs : ~Evict(t) /\ ~HandleReorg(t)]_vars

FairSpec == Spec /\ Fairness

-----------------------------------------------------------------------------
(* Properties. *)

\* A transaction whose inputs an abort gave back to the wallet was never handed
\* to a broadcaster, and none is posted afterwards: the park in abortTx and the
\* claim before every post exclude each other.  This and the next three are about
\* an engine that refuses stale writes: where ReadCommitted holds, the claim
\* returns the ids its SELECT found, and a park may come before its UPDATE.
ReleasedNeverPosted ==
  \A t \in Txs : inputs[t] = "aborted" => ~posted[t]

\* An aborted transaction is out of reach of every broadcast pipeline: its
\* KnownTx is not in a status that ClaimKnownTxsForBroadcast accepts.
ReleasedNotClaimable ==
  \A t \in Txs : inputs[t] = "aborted" => reqStatus[t] \notin ClaimableForBroadcast

\* was_broadcast records every post before it happens, whichever flow posts and
\* whatever the later requeues, reorganisations and reviews write: it is the
\* evidence that AbortAction and the proof timeouts decide on.  It needs that a
\* claim whose UPDATE finds the row changed is not followed by a post.
PostedIsFlagged ==
  \A t \in Txs : posted[t] => wasBroadcast[t]

\* was_broadcast is never cleared: a requeue, a proof timeout or a reorganisation
\* that hands a transaction back to send_waiting keeps the evidence of the post.
\* It needs that a proof timeout does not write a flag it read before a claim.
EvidenceNeverCleared ==
  [][\A t \in Txs : wasBroadcast[t] => wasBroadcast'[t]]_vars

\* Every action that holds inputs is settled in the end: completed, failed, aborted
\* or left to its owner.  The rebroadcast budget ends every retry, the abandoned
\* sweep and the failure review pick up what crashed calls leave behind.
EveryActionSettles ==
  \A t \in Txs : txStatus[t] # None ~>
                  txStatus[t] \in {"completed", "failed", "aborted", "nosend"}

-----------------------------------------------------------------------------
(* Statements of the repository's documents and comments that the code does *)
(* not keep.                                                                *)

\* process_external_status.go: failing the Transaction of a completed tx is the
\* "corruption class this guards against".
CompletedNotFailed ==
  \A t \in Txs : reqStatus[t] = "completed" => txStatus[t] # "failed"
=============================================================================
