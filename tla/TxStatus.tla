------------------------------ MODULE TxStatus ------------------------------
(***************************************************************************)
(* The two status vocabularies of wallet storage and the sets of statuses  *)
(* its guards are written with.  A TxStatus belongs to one user's row of   *)
(* the transactions table, a ProvenTxReqStatus to the row of known_txs     *)
(* that every user with the same txid shares.  None stands for a row, or   *)
(* a txid, that does not exist yet.                                        *)
(***************************************************************************)

None == "none"

TxStatuses ==
  {"completed", "failed", "unprocessed", "sending", "unproven", "unsigned",
   "nosend", "nonfinal", "unfail", "aborted"}

ReqStatuses ==
  {"sending", "unsent", "nosend", "unknown", "nonfinal", "unprocessed",
   "unmined", "callback", "unconfirmed", "completed", "invalidTx",
   "doubleSpend", "unfail", "reorg"}

\* The tier of user_utxos a change output is indexed with; the funder does not
\* see the tier "unknown".
UTXOStatuses == {"unknown", "sending", "unproven", "mined"}

ToUTXOStatus(s) ==
  CASE s = "completed" -> "mined"
    [] s = "sending"   -> "sending"
    [] s = "unproven"  -> "unproven"
    [] OTHER           -> "unknown"

AlreadySent == {"unmined", "callback", "unconfirmed", "completed"}

WasBroadcastStatus == {"unmined", "callback", "unconfirmed", "completed", "reorg"}

ProblematicStatuses == {"unknown", "nonfinal", "invalidTx", "doubleSpend"}

BeyondBroadcastStage == {"unmined", "callback", "unconfirmed", "completed", "reorg"}

\* The statuses ParkUnbroadcastKnownTx accepts: no post attempt so far.
NeverPosted == {"unprocessed", "unsent", "nosend"}

\* The statuses ClaimKnownTxsForBroadcast takes a transaction from.
ClaimableForBroadcast ==
  {"unprocessed", "unsent", "sending", "nosend", "nonfinal", "unknown"}

\* The statuses a broadcast result never overwrites.
BroadcastResultSkip == BeyondBroadcastStage \cup {"invalidTx", "doubleSpend"}

TerminalFailure == {"invalidTx", "doubleSpend"}

StatusesReadyToSync ==
  {"callback", "unmined", "sending", "unknown", "unconfirmed", "reorg"}

WaitingStatuses == {"unsent", "sending"}

AbortableStatuses == {"unprocessed", "unsigned", "nosend", "nonfinal", "unfail"}

\* The statuses of a Transaction that a broadcast result may change.
BroadcastResultFrom == {"unprocessed", "sending", "nosend", "unproven"}

=============================================================================
