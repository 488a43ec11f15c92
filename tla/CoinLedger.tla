----------------------------- MODULE CoinLedger -----------------------------
(***************************************************************************)
(* What the reservation of outputs promises: every coin is held by at most *)
(* one transaction, a transaction is sent only while it holds every coin   *)
(* it spends, and a coin goes back to the wallet only from a transaction   *)
(* that was never sent and never will be.                                  *)
(***************************************************************************)
EXTENDS TxStatus

CONSTANT Txs  \* transactions, each of which makes one coin of its name

VARIABLES
  owner,   \* the transaction that spends a coin, None while it is free
  spends,  \* the coins a transaction was built to spend
  sent     \* a broadcaster may have the transaction

ledgerVars == <<owner, spends, sent>>

LedgerInit ==
  /\ owner = [c \in Txs |-> None]
  /\ spends = [t \in Txs |-> {}]
  /\ sent \in [Txs -> BOOLEAN]

\* A new transaction takes coins that are free.
Take(t, coins) ==
  /\ spends[t] = {} /\ ~sent[t]
  /\ \A c \in coins : owner[c] = None
  /\ owner' = [c \in Txs |-> IF c \in coins THEN t ELSE owner[c]]
  /\ spends' = [spends EXCEPT ![t] = coins]
  /\ UNCHANGED sent

GiveBack(t) ==
  /\ ~sent[t]
  /\ owner' = [c \in Txs |-> IF owner[c] = t THEN None ELSE owner[c]]
  /\ UNCHANGED <<spends, sent>>

Send(t) ==
  /\ \A c \in spends[t] : owner[c] = t
  /\ sent' = [sent EXCEPT ![t] = TRUE]
  /\ UNCHANGED <<owner, spends>>

LedgerNext ==
  \E t \in Txs : Send(t) \/ GiveBack(t) \/ \E coins \in SUBSET Txs : Take(t, coins)

LedgerSpec == LedgerInit /\ [][LedgerNext]_ledgerVars

\* What a sent transaction spends is its own: no two of them share a coin.
SentOwnsInputs == \A t \in Txs : sent[t] => \A c \in spends[t] : owner[c] = t

=============================================================================
