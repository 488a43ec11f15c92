----------------------------- MODULE FuelKeeper -----------------------------
(***************************************************************************)
(* The top-up loop of the fuel pool (wallet/fuelkeeper/keeper.go): a round *)
(* measures the pool, provides one reserve chunk for every leaf fan-out it *)
(* needs, and mints the leaves.  Run's loop and callers of RunOnce share   *)
(* the keeper; a stream of actions spends fuel and sets the target and the *)
(* fair-share mode at any time.                                            *)
(*                                                                         *)
(* The wallet's baskets are counters: fuel outputs in the pool, chunks in  *)
(* the reserve, and the chunks the default basket can still pay for.  A    *)
(* leaf that finds no chunk is paid from the default basket.  What a       *)
(* fan-out that failed half-way keeps reserved is in neither, until the    *)
(* fail_abandoned sweep gives it back.                                     *)
(***************************************************************************)
EXTENDS Naturals, FiniteSets

CONSTANTS
  Runners,             \* Run's loop and the callers of RunOnce
  Loop,                \* the runner that is Run's loop
  Targets,             \* the values TargetPoolSize may have
  LowWaterPercent, HighWaterPercent,
  FanoutOutputsPerTx, FanoutMaxTxsPerRound, StreamLeafCap,
  Deposit,             \* chunks the default basket can pay for
  MaxSpends,           \* fuel outputs the stream spends
  MaxLost              \* mishaps: fan-outs done but reported as failed, fan-outs that
                       \* fail and keep their inputs, chunks that fail on the network

ASSUME FuelAssumption ==
  /\ Loop \in Runners /\ Targets # {} /\ Targets \subseteq Nat
  /\ LowWaterPercent \in 1..HighWaterPercent /\ HighWaterPercent \in 1..100
  /\ FanoutOutputsPerTx \in Nat \ {0} /\ FanoutMaxTxsPerRound \in Nat \ {0}
  /\ StreamLeafCap \in Nat \ {0} /\ Deposit \in Nat

VARIABLES
  pool, reserve, funds,
  heldChunks, heldFunds,   \* inputs that failed fan-outs keep reserved
  poolTarget,
  roundInFlight,
  round,        \* round[k]: the step of k's round
  snapshot,     \* the target its configuration was read with
  leaves, chunks, minted,   \* locals of the round that is under way
  ask,          \* the size of the chunk fan-out that is tried
  spends, lost,
  overdrawn     \* history: leaves paid from the default basket

heldVars == <<heldChunks, heldFunds>>
basketVars == <<pool, reserve, funds, heldVars>>
roundVars == <<round, snapshot, leaves, chunks, minted, ask>>
fuelVars == <<basketVars, poolTarget, roundInFlight, roundVars, spends, lost, overdrawn>>

LowWater(t) == (t * LowWaterPercent) \div 100
HighWater(t) == (t * HighWaterPercent) \div 100

\* Mutant: one leaf more than the deficit needs.
LeavesForPlus(deficit) == deficit \div FanoutOutputsPerTx + 1

LeavesFor(deficit) == (deficit + FanoutOutputsPerTx - 1) \div FanoutOutputsPerTx

FuelInit ==
  /\ pool = 0 /\ reserve = 0 /\ funds = Deposit
  /\ heldChunks = 0 /\ heldFunds = 0
  /\ poolTarget \in Targets
  /\ roundInFlight = FALSE
  /\ round = [k \in Runners |-> "idle"]
  /\ snapshot = 0 /\ leaves = 0 /\ chunks = 0 /\ minted = 0 /\ ask = 0
  /\ spends = 0 /\ lost = 0 /\ overdrawn = 0

Enter(k, s) == round' = [round EXCEPT ![k] = s]

\* A count that is cut off at a cap.
Capped(n, cap) == IF n > cap THEN cap ELSE n

\* Mutant: the round ends without letting the next one in.
EndRoundInFlight(k) ==
  /\ Enter(k, "idle") /\ UNCHANGED roundInFlight
  /\ snapshot' = 0 /\ leaves' = 0 /\ chunks' = 0 /\ minted' = 0 /\ ask' = 0

\* The end of a round forgets its locals and lets the next one in.
EndRound(k) ==
  /\ Enter(k, "idle") /\ roundInFlight' = FALSE
  /\ snapshot' = 0 /\ leaves' = 0 /\ chunks' = 0 /\ minted' = 0 /\ ask' = 0

\* Mutant: a round starts beside the one that is minting.
runOnceUnguarded(k) ==
  /\ round[k] = "idle"
  /\ roundInFlight' = TRUE /\ snapshot' = poolTarget /\ Enter(k, "measure")
  /\ UNCHANGED <<basketVars, poolTarget, leaves, chunks, minted, ask, spends,
                 lost, overdrawn>>

\* A round that finds another one in flight is skipped; the others read their
\* configuration first.
runOnce(k) ==
  /\ round[k] = "idle" /\ ~roundInFlight
  /\ roundInFlight' = TRUE /\ snapshot' = poolTarget /\ Enter(k, "measure")
  /\ UNCHANGED <<basketVars, poolTarget, leaves, chunks, minted, ask, spends,
                 lost, overdrawn>>

\* The measurement and the size of the round; a healthy pool ends it.
MeasurePool(k) ==
  /\ round[k] = "measure"
  /\ \/ pool >= LowWater(snapshot) /\ EndRound(k)
     \/ /\ pool < LowWater(snapshot)
        /\ \E cap \in {FanoutMaxTxsPerRound, Capped(FanoutMaxTxsPerRound, StreamLeafCap)} :
             leaves' = Capped(LeavesFor(HighWater(snapshot) - pool), cap)
        /\ Enter(k, "reserve")
        /\ UNCHANGED <<roundInFlight, snapshot, chunks, minted, ask>>
  /\ UNCHANGED <<basketVars, poolTarget, spends, lost, overdrawn>>

\* ensureChunks counts the reserve and goes for what is missing, or mints.
Provide(k, have) ==
  IF have < leaves
  THEN Enter(k, "split") /\ ask' = Capped(leaves - have, FanoutOutputsPerTx) /\ UNCHANGED leaves
  ELSE Enter(k, "mint") /\ ask' = 0 /\ UNCHANGED leaves

MeasureReserve(k) ==
  /\ round[k] = "reserve"
  /\ chunks' = reserve
  /\ Provide(k, reserve)
  /\ UNCHANGED <<basketVars, poolTarget, roundInFlight, snapshot, minted, spends, lost, overdrawn>>

\* Mutant: every leaf the deficit needs is minted, with or without its chunk.
HalveUnclamped(k) ==
  IF ask > 1
  THEN ask' = ask \div 2 /\ UNCHANGED <<round, leaves>>
  ELSE ask' = 0 /\ Enter(k, "mint") /\ UNCHANGED leaves

\* Half of what was refused, and with nothing left to halve the round mints what is
\* there.
Halve(k) ==
  IF ask > 1
  THEN ask' = ask \div 2 /\ UNCHANGED <<round, leaves>>
  ELSE ask' = 0 /\ Enter(k, "mint") /\ leaves' = Capped(leaves, chunks)

\* A fan-out that failed after storage created it, when its inputs are not given
\* back: the abort failed too, or the action was already handed to ProcessAction.
KeepInputs ==
  /\ heldChunks' = heldChunks + (reserve - reserve')
  /\ heldFunds' = heldFunds + (funds - funds')

\* A chunk fan-out of `ask` outputs: done, refused, done and reported as failed, or
\* failed with its inputs kept.
SplitChunks(k) ==
  /\ round[k] = "split"
  /\ \/ /\ funds >= ask
        /\ funds' = funds - ask /\ reserve' = reserve + ask /\ chunks' = chunks + ask
        /\ Provide(k, chunks + ask)
        /\ UNCHANGED <<lost, heldVars>>
     \/ Halve(k) /\ UNCHANGED <<funds, reserve, heldVars, chunks, lost>>
     \/ /\ funds >= ask /\ lost < MaxLost /\ lost' = lost + 1
        /\ funds' = funds - ask
        /\ \/ reserve' = reserve + ask /\ UNCHANGED heldVars
           \/ UNCHANGED reserve /\ KeepInputs
        /\ Halve(k) /\ UNCHANGED chunks
  /\ UNCHANGED <<pool, poolTarget, roundInFlight, snapshot, minted, spends, overdrawn>>

\* A leaf is paid from the reserve, or from the default basket.
PayLeaf ==
  \/ reserve > 0 /\ reserve' = reserve - 1 /\ UNCHANGED <<funds, overdrawn>>
  \/ reserve = 0 /\ funds > 0 /\ funds' = funds - 1 /\ overdrawn' = overdrawn + 1 /\ UNCHANGED reserve

\* A leaf fan-out: done; or done and reported as failed, or failed with its chunk
\* kept, and tried again.
mintOneLeaf(k) ==
  /\ round[k] = "mint" /\ minted < leaves
  /\ PayLeaf
  /\ \/ /\ minted' = minted + 1 /\ pool' = pool + FanoutOutputsPerTx
        /\ UNCHANGED <<lost, heldVars>>
     \/ /\ lost < MaxLost /\ lost' = lost + 1 /\ UNCHANGED minted
        /\ \/ pool' = pool + FanoutOutputsPerTx /\ UNCHANGED heldVars
           \/ UNCHANGED pool /\ KeepInputs
  /\ UNCHANGED <<poolTarget, roundInFlight, round, snapshot, leaves, chunks, ask, spends>>

\* All leaves are minted, or a stream is active and the cap reached.
RoundDone(k) ==
  /\ round[k] = "mint" /\ minted >= Capped(leaves, StreamLeafCap)
  /\ EndRound(k)
  /\ UNCHANGED <<basketVars, poolTarget, spends, lost, overdrawn>>

\* A measurement fails, a leaf fails for good (the started ones finish first), or
\* the context is cancelled.
RoundFails(k) ==
  /\ round[k] # "idle" /\ EndRound(k)
  /\ UNCHANGED <<basketVars, poolTarget, spends, lost, overdrawn>>

\* The stream spends fuel.
SpendFuel ==
  /\ pool > 0 /\ spends < MaxSpends
  /\ pool' = pool - 1 /\ spends' = spends + 1
  /\ UNCHANGED <<reserve, funds, heldVars, poolTarget, roundInFlight, roundVars, lost, overdrawn>>

\* A chunk whose fan-out the network refuses is gone; what paid for it comes back.
ChunkFails ==
  /\ reserve > 0 /\ lost < MaxLost /\ lost' = lost + 1
  /\ reserve' = reserve - 1 /\ funds' = funds + 1
  /\ UNCHANGED <<pool, heldVars, poolTarget, roundInFlight, roundVars, spends, overdrawn>>

\* The fail_abandoned sweep gives back what a failed fan-out kept.
FailAbandonedFanOut ==
  /\ \/ /\ heldChunks > 0 /\ heldChunks' = heldChunks - 1 /\ reserve' = reserve + 1
        /\ UNCHANGED <<funds, heldFunds>>
     \/ /\ heldFunds > 0 /\ heldFunds' = heldFunds - 1 /\ funds' = funds + 1
        /\ UNCHANGED <<reserve, heldChunks>>
  /\ UNCHANGED <<pool, poolTarget, roundInFlight, roundVars, spends, lost, overdrawn>>

SetTargetPoolSize(t) ==
  /\ t # poolTarget /\ poolTarget' = t
  /\ UNCHANGED <<basketVars, roundInFlight, roundVars, spends, lost, overdrawn>>

RoundStep(k) ==
  \/ runOnce(k) \/ MeasurePool(k) \/ MeasureReserve(k) \/ SplitChunks(k) \/ mintOneLeaf(k)
  \/ RoundDone(k) \/ RoundFails(k)

FuelNext ==
  \/ \E k \in Runners : RoundStep(k)
  \/ SpendFuel \/ ChunkFails \/ FailAbandonedFanOut
  \/ \E t \in Targets : SetTargetPoolSize(t)

FuelSpec == FuelInit /\ [][FuelNext]_fuelVars

\* Run's timer fires, a round's calls return, the measurements and fan-outs that the
\* wallet can do succeed at times, and the monitor sweeps abandoned actions.
FuelFairness ==
  /\ SF_fuelVars(runOnce(Loop)) /\ WF_fuelVars(FailAbandonedFanOut)
  /\ \A k \in Runners :
       /\ WF_fuelVars(round[k] # "idle" /\ RoundStep(k))
       /\ SF_fuelVars(MeasurePool(k)) /\ SF_fuelVars(MeasureReserve(k))
       /\ SF_fuelVars(SplitChunks(k) /\ chunks' > chunks)
       /\ SF_fuelVars(mintOneLeaf(k) /\ minted' > minted)

-----------------------------------------------------------------------------
\* Types; one round at a time is under way, and no chunk is made of nothing.
FuelTypeOK ==
  /\ pool \in Nat /\ reserve \in Nat /\ funds \in Nat /\ heldChunks \in Nat /\ heldFunds \in Nat
  /\ reserve + funds + heldChunks + heldFunds <= Deposit
  /\ poolTarget \in Targets /\ snapshot \in Targets \cup {0}
  /\ roundInFlight \in BOOLEAN
  /\ round \in [Runners -> {"idle", "measure", "reserve", "split", "mint"}]
  /\ Cardinality({k \in Runners : round[k] # "idle"}) <= 1
  /\ leaves <= FanoutMaxTxsPerRound /\ minted <= leaves /\ ask <= FanoutOutputsPerTx
  /\ spends \in 0..MaxSpends /\ lost \in 0..MaxLost /\ overdrawn \in Nat

\* "both would measure the same deficit and double-mint" (roundInFlight): the pool
\* never grows beyond the high water of a target by a whole fan-out, but for those
\* that were done and reported as failed - whatever the stream spends, whoever starts
\* rounds or changes the target meanwhile, and whichever fan-outs fail half-way.
PoolIsBounded ==
  \E t \in Targets :
    pool <= HighWater(t) + FanoutOutputsPerTx - 1 + lost * FanoutOutputsPerTx

\* "Every leaf consumes one chunk; minting past the provisioned chunks would
\* silently drain the default basket": a leaf is paid from the default basket only
\* where a chunk that was counted went another way - to a fan-out that was done and
\* reported as failed, or that failed and kept it, or with the fan-out that made it -
\* and at most once for each of them.
ReservePaysLeaves == overdrawn <= lost

\* The pool comes back to low water while there is anything to mint it from, what
\* failed fan-outs kept included.
PoolIsRefilled ==
  []<>(pool >= LowWater(poolTarget) \/ reserve + funds + heldChunks + heldFunds = 0)
=============================================================================
