------------------------------- MODULE Funder -------------------------------
(***************************************************************************)
(* Coin selection (storage/funder/sql.go): a collector keeps the size, the *)
(* fee and the change of the transaction while rows of user_utxos are      *)
(* allocated - first the noSend change the caller names, then everything   *)
(* (sweep) or, tier by tier, the smallest row that suffices or a batch of  *)
(* the largest ones that do not.  createAction calls it for the fuel pool  *)
(* and falls back to the default basket, and splits the change.            *)
(*                                                                         *)
(* Other database transactions lock rows and give them back between any    *)
(* two queries (SKIP LOCKED); a row that a query returned stays locked     *)
(* until the transaction ends.                                             *)
(***************************************************************************)
EXTENDS Integers, Sequences, FiniteSets, Functions

CONSTANTS
  Coins,               \* output ids
  Inventories,         \* the rows of user_utxos a behaviour may start with
  Requests,            \* the requests of createAction a behaviour may start with
  SatsPerKB, KB,       \* the fee model
  RoundedUp,           \* sizes whose whole fee comes out of the float64 product above it
  InputSize, OutputSize,   \* P2PKHEstimatedInputSize, P2PKHOutputSize
  MinSpendSize,        \* a transaction of one P2PKH input and one P2PKH output
  BatchSize,           \* insufficientBatchSize
  PageSize,            \* utxoBatchSize
  MaxChurn             \* rows that other transactions lock meanwhile

Tiers == {"mined", "unproven", "sending"}

\* A row; "none" (UTXOStatusUnknown) marks change of a transaction that was not sent,
\* which no query offers.
Row == [sats : Nat, status : Tiers \cup {"none"}, basket : {"default", "fuel"}]

\* The basket, tiers and settings of one FundWithConstraints call.
Pass == [basket : {"default", "fuel"}, tiers : Seq(Tiers),
         desired : Nat \ {0}, minimum : Nat \ {0}, cap : Nat \ {0}]

\* target is negative when the caller's inputs are worth more than its outputs.
Request == [target : Int, size : Nat, outputs : Nat, sweep : BOOLEAN,
            priority : Seq(Coins), forbidden : SUBSET Coins, passes : Seq(Pass)]

ASSUME FunderAssumption ==
  /\ Coins \subseteq Nat /\ IsFiniteSet(Coins)
  /\ Inventories \subseteq [Coins -> Row]
  /\ Requests \subseteq Request
  /\ \A r \in Requests :
       /\ r.passes # <<>> /\ \A i \in DOMAIN r.passes : r.passes[i].tiers # <<>>
       /\ IsInjective(r.priority)
       /\ r.sweep => r.outputs > 0
  /\ SatsPerKB \in Nat /\ KB \in Nat \ {0}
  /\ RoundedUp \subseteq {n \in Nat \ {0} : SatsPerKB > 0 /\ (n * SatsPerKB) % KB = 0}
  /\ InputSize \in Nat /\ OutputSize \in Nat /\ MinSpendSize \in Nat
  /\ BatchSize \in Nat \ {0} /\ PageSize \in Nat \ {0} /\ MaxChurn \in Nat

VARIABLES
  request, coins,      \* fixed
  pass,                \* the FundWithConstraints call
  collector,           \* utxoCollector
  allocated,           \* its allocatedUTXOs
  excluded,            \* of boundedAllocator
  funding,             \* the step of the call
  todo,                \* priority outputs still to allocate
  tier,                \* the tier a round is at
  drawn, progress,     \* of drainBatch: the rows left, and whether one was allocated
  page, loaded,        \* of loadUTXOPool
  split,               \* the values of the change outputs
  locked,              \* rows this database transaction holds
  taken,               \* rows other database transactions hold
  churned              \* history: the rows others have held

inputVars == <<request, coins>>
passVars == <<pass, excluded, todo, tier, drawn, progress, page, loaded>>
otherVars == <<taken, churned>>
fundVars == <<inputVars, passVars, collector, allocated, funding, split, locked, otherVars>>

-----------------------------------------------------------------------------
(* The collector.                                                          *)

\* feeCalc.Calculate: rounded up, after a product in float64.
Calculate(size) ==
  (size * SatsPerKB + KB - 1) \div KB + (IF size \in RoundedUp THEN 1 ELSE 0)

Larger(m, n) == IF m < n THEN n ELSE m
Smaller(m, n) == IF m < n THEN m ELSE n

DustFloor == Larger(1, 2 * Calculate(MinSpendSize))

changeInitialValue(c) == Larger(c.minimum, DustFloor)

change(c) == c.satsCovered - request.target - c.fee

\* Mutant: the fee stays that of the transaction without change.
setChangeOutputsSizeOnly(c, size) ==
  LET txSize == c.txSize - c.changeOutputsSize + size
  IN  [c EXCEPT !.txSize = txSize, !.changeOutputsSize = size,
                !.fee = IF size = 0 THEN Calculate(txSize) ELSE @]

setChangeOutputsSize(c, size) ==
  LET txSize == c.txSize - c.changeOutputsSize + size
  IN  [c EXCEPT !.txSize = txSize, !.changeOutputsSize = size, !.fee = Calculate(txSize)]

\* The loops that count down from `top` to the first number that fits, or to 1.
CountDown(top, fitting) ==
  CHOOSE n \in 1..top : /\ n = 1 \/ n \in fitting
                        /\ \A k \in (n + 1)..top : k \notin fitting

calculateChangeCount(c, value) ==
  LET wanted == value \div c.minimum + (IF value % c.minimum < c.minimum \div 4 THEN 0 ELSE 1)
      top == Larger(1, Smaller(wanted, Smaller(c.desired, c.cap)))
  IN  CountDown(top, {n \in 1..top : value \div n >= DustFloor})

\* ChangeDistribution.CanDistribute.
CanDistribute(init, count, amount) == count <= 1 \/ amount = 0 \/ amount > (count - 1) * init

changeFitsOutputs(c) ==
  /\ change(c) > 0 /\ change(c) \div c.changeOutputsCount >= DustFloor
  /\ CanDistribute(changeInitialValue(c), c.changeOutputsCount, change(c))

WithChange(c, count) ==
  [setChangeOutputsSize(c, count * OutputSize) EXCEPT !.changeOutputsCount = count]

calculateChangeOutputs(c) ==
  LET bare == setChangeOutputsSize(c, 0)
      top == calculateChangeCount(c, change(bare))
  IN  IF change(bare) <= 0
      THEN WithChange(bare, 0)
      ELSE WithChange(bare, CountDown(top, {n \in 1..top : changeFitsOutputs(WithChange(bare, n))}))

newCollector(p) ==
  calculateChangeOutputs(
    [txSize |-> request.size, fee |-> Calculate(request.size), satsCovered |-> 0,
     changeOutputsCount |-> 0, changeOutputsSize |-> 0,
     desired |-> p.desired, minimum |-> p.minimum, cap |-> p.cap])

allocateUTXO(c, o) ==
  calculateChangeOutputs(
    [c EXCEPT !.txSize = @ + InputSize, !.fee = Calculate(c.txSize + InputSize),
              !.satsCovered = @ + coins[o].sats])

\* A transaction without outputs of its own needs a change output.
IsFunded(c) ==
  IF request.outputs = 0 THEN c.changeOutputsCount > 0 /\ change(c) >= DustFloor
  ELSE ~request.sweep /\ change(c) >= 0

\* What is missing; without outputs, also a change output and the input that pays it.
remaining(c) ==
  LET extra == IF c.changeOutputsCount > 0 THEN InputSize ELSE InputSize + OutputSize
      toCover == request.target + Calculate(c.txSize + extra) + DustFloor
  IN  IF /\ request.outputs = 0
         /\ c.changeOutputsCount > 0 => change(c) < DustFloor
         /\ toCover > c.satsCovered
      THEN toCover - c.satsCovered
      ELSE -change(c)

\* prepareResult: change below the dust floor goes to the miner.
ChangeOutputsCount(c) == IF change(c) < DustFloor THEN 0 ELSE c.changeOutputsCount

(* Distribute: every way the randomizer may split the change.              *)

Repeat(v, n) == [i \in 1..n |-> v]

\* Mutant: the remainder is left out of the even split.
saturatedRandomDistributionUneven(init, count, amount) ==
  LET base == amount \div count
      randomNoise == [1..count -> {0} \cup 1..base - init - 1]
  IN  {[i \in 1..count |-> base - noise[i] + noise[count + 1 - i]] : noise \in randomNoise}

\* Noise is taken from one output and given to the one at the mirrored place.
saturatedRandomDistribution(init, count, amount) ==
  LET base == amount \div count
      even == [i \in 1..count |-> IF i = 1 THEN base + (amount % count) ELSE base]
      randomNoise == {noise \in [1..count -> 0..even[1] - init] :
                        \A i \in 1..count : noise[i] = 0 \/ noise[i] < even[i] - init}
  IN  {[i \in 1..count |-> even[i] - noise[i] + noise[count + 1 - i]] : noise \in randomNoise}

notSaturatedDistribution(init, count, amount) ==
  {<<amount - (count - 1) * init>> \o Repeat(init, count - 1)}

\* Empty when it returns ErrCannotDistributeChange.
Distribute(init, count, amount) ==
  CASE count = 0 \/ amount = 0 -> {<<>>}
    [] count = 1 /\ amount # 0 -> {<<amount>>}
    [] count > 1 /\ amount = count * init -> {Repeat(init, count)}
    [] count > 1 /\ amount > count * init -> saturatedRandomDistribution(init, count, amount)
    [] OTHER -> IF CanDistribute(init, count, amount)
                THEN notSaturatedDistribution(init, count, amount) ELSE {}

-----------------------------------------------------------------------------
(* The queries.                                                            *)

Before(o, p) == coins[o].sats < coins[p].sats \/ (coins[o].sats = coins[p].sats /\ o < p)

\* The first and the last row in that order, as sets with at most one element.
Cheapest(rows) == {o \in rows : \A p \in rows \ {o} : Before(o, p)}
Dearest(rows) == {o \in rows : \A p \in rows \ {o} : Before(p, o)}

Current == request.passes[pass]

\* The rows of a tier that the queries see.
Eligible(status) ==
  {o \in Coins : coins[o].status = status /\ coins[o].basket = Current.basket
                   /\ o \notin taken /\ o \notin excluded}

FindSmallestSufficientUTXOForUpdate(status, min) ==
  Cheapest({o \in Eligible(status) : coins[o].sats >= min})

FindLargestInsufficientUTXOsForUpdate(status, max, limit) ==
  LET rows == {o \in Eligible(status) : coins[o].sats < max}
  IN  {o \in rows : Cardinality({p \in rows : Before(o, p)}) < limit}

\* The order of the exhaustive pager: tier, satoshis, id.
Ahead(p, o) ==
  \E i, j \in DOMAIN Current.tiers :
    /\ Current.tiers[i] = coins[p].status /\ Current.tiers[j] = coins[o].status
    /\ i < j \/ (i = j /\ Before(p, o))

FindNotReservedUTXOsForUpdate(number) ==
  LET rows == UNION {Eligible(Current.tiers[i]) : i \in DOMAIN Current.tiers}
  IN  {o \in rows : Cardinality({p \in rows : Ahead(p, o)}) \div PageSize = number - 1}

-----------------------------------------------------------------------------
(* FundWithConstraints and what createAction does with its result.         *)

\* The noSend change that the caller names is change of the default basket, whatever
\* became of its transaction.
FundInit ==
  /\ request \in Requests /\ coins \in Inventories
  /\ \A i \in DOMAIN request.priority : coins[request.priority[i]].basket = "default"
  /\ pass = 1 /\ collector = newCollector(request.passes[1]) /\ allocated = <<>>
  /\ excluded = request.forbidden /\ funding = "priority" /\ todo = request.priority
  /\ tier = 1 /\ drawn = {} /\ progress = FALSE
  /\ page = 1 /\ loaded = {} /\ split = <<>> /\ locked = {}
  /\ taken = {} /\ churned = {}

Allocate(o) == collector' = allocateUTXO(collector, o) /\ allocated' = Append(allocated, o)

\* One noSend change output, unless it is an input already; the first that is enough
\* ends the call.
allocatePriorityOutputs ==
  /\ funding = "priority" /\ todo # <<>>
  /\ todo' = Tail(todo)
  /\ \/ Head(todo) \in request.forbidden /\ UNCHANGED <<collector, allocated, funding>>
     \/ /\ Head(todo) \notin request.forbidden
        /\ Allocate(Head(todo))
        /\ funding' = IF ~request.sweep /\ IsFunded(collector') THEN "result" ELSE "priority"
  /\ UNCHANGED <<inputVars, pass, excluded, tier, drawn, progress, page, loaded, split, locked,
                 otherVars>>

PriorityDone ==
  /\ funding = "priority" /\ todo = <<>>
  /\ funding' = CASE request.sweep -> "load"
                  [] ~request.sweep /\ IsFunded(collector) -> "result"
                  [] OTHER -> "run"
  /\ UNCHANGED <<inputVars, passVars, collector, allocated, split, locked, otherVars>>

\* The head of the loop of run: the next round starts at the safest tier.
run ==
  /\ funding = "run" /\ tier' = 1
  /\ funding' = IF IsFunded(collector) \/ remaining(collector) <= 0 THEN "result" ELSE "sufficient"
  /\ UNCHANGED <<inputVars, pass, excluded, todo, drawn, progress, page, loaded, collector,
                 allocated, split, locked, otherVars>>

\* fromTier, the first query.
Sufficient ==
  LET found == FindSmallestSufficientUTXOForUpdate(Current.tiers[tier], remaining(collector))
  IN  /\ funding = "sufficient"
      /\ \/ found = {} /\ funding' = "insufficient" /\ UNCHANGED <<collector, allocated>>
         \/ \E o \in found : Allocate(o) /\ funding' = "run"
      /\ excluded' = excluded \cup found /\ locked' = locked \cup found
      /\ UNCHANGED <<inputVars, pass, todo, tier, drawn, progress, page, loaded, split, otherVars>>

\* fromTier, the second query.
Insufficient ==
  /\ funding = "insufficient" /\ funding' = "drain" /\ progress' = FALSE
  /\ drawn' = FindLargestInsufficientUTXOsForUpdate(
                Current.tiers[tier], remaining(collector), BatchSize)
  /\ locked' = locked \cup drawn'
  /\ UNCHANGED <<inputVars, pass, excluded, todo, tier, page, loaded, collector, allocated,
                 split, otherVars>>

\* Mutant: the batch is progress until the transaction is funded.
DrainableToTheEnd(c, rows) == IF IsFunded(c) THEN {} ELSE Dearest(rows)

\* The row of the batch that is next, while it is still below what is missing.
Drainable(c, rows) == {o \in Dearest(rows) : ~IsFunded(c) /\ coins[o].sats < remaining(c)}

drainBatch ==
  /\ funding = "drain"
  /\ \E o \in Drainable(collector, drawn) :
       Allocate(o) /\ drawn' = drawn \ {o} /\ excluded' = excluded \cup {o}
  /\ progress' = TRUE
  /\ UNCHANGED <<inputVars, pass, funding, todo, tier, page, loaded, split, locked, otherVars>>

\* Mutant: a tier without rows ends the round.
NextTierOnly == tier' = tier /\ funding' = IF progress THEN "run" ELSE "short"

\* Another round, or without an allocation the next tier, or ErrNotEnoughFunds.
NextTier ==
  \/ progress /\ funding' = "run" /\ UNCHANGED tier
  \/ ~progress /\ tier < Len(Current.tiers) /\ funding' = "sufficient" /\ tier' = tier + 1
  \/ ~progress /\ tier = Len(Current.tiers) /\ funding' = "short" /\ UNCHANGED tier

DrainDone ==
  /\ funding = "drain" /\ Drainable(collector, drawn) = {}
  /\ drawn' = {} /\ NextTier
  /\ UNCHANGED <<inputVars, pass, excluded, todo, progress, page, loaded, collector, allocated,
                 split, locked, otherVars>>

\* A page of a sweep; one that is not full is the last.
loadUTXOPool ==
  LET rows == FindNotReservedUTXOsForUpdate(page)
  IN  /\ funding = "load"
      /\ loaded' = loaded \cup rows /\ locked' = locked \cup rows
      /\ \/ Cardinality(rows) < PageSize /\ funding' = "sweep" /\ UNCHANGED page
         \/ Cardinality(rows) = PageSize /\ page' = page + 1 /\ UNCHANGED funding
      /\ UNCHANGED <<inputVars, pass, excluded, todo, tier, drawn, progress, collector, allocated,
                     split, otherVars>>

allocateSweep ==
  /\ funding = "sweep"
  /\ \E o \in loaded :
       /\ \A p \in loaded \ {o} : Ahead(o, p)
       /\ Allocate(o) /\ loaded' = loaded \ {o}
  /\ UNCHANGED <<inputVars, pass, excluded, funding, todo, tier, drawn, progress, page, split,
                 locked, otherVars>>

SweepDone ==
  /\ funding = "sweep" /\ loaded = {} /\ funding' = "result"
  /\ UNCHANGED <<inputVars, passVars, collector, allocated, split, locked, otherVars>>

\* reserveUTXOs: as many rows as were allocated are reserved, or ErrUTXOContention.
Saved ==
  IF ~IsInjective(allocated) THEN "contended" ELSE IF request.sweep THEN "swept" ELSE "funded"

\* GetResult and the rest of createAction's funding: a sweep's output takes the change,
\* otherwise it is distributed.
GetResult ==
  LET splits == Distribute(changeInitialValue(collector), ChangeOutputsCount(collector),
                           change(collector))
      outcome == IF request.sweep
                 THEN IF change(collector) < 0 THEN "refused" ELSE Saved
                 ELSE IF ~IsFunded(collector) THEN "short"
                      ELSE IF splits = {} THEN "undistributed" ELSE Saved
  IN  /\ funding = "result" /\ funding' = outcome
      /\ split' \in IF outcome = "funded" THEN splits ELSE {split}
      /\ UNCHANGED <<inputVars, passVars, collector, allocated, locked, otherVars>>

\* ErrNotEnoughFunds: the fuel pool falls back to the default basket in the same
\* database transaction, which keeps its locks.
FallBack ==
  /\ funding = "short" /\ pass < Len(request.passes)
  /\ pass' = pass + 1 /\ collector' = newCollector(request.passes[pass + 1]) /\ allocated' = <<>>
  /\ excluded' = request.forbidden /\ funding' = "priority" /\ todo' = request.priority
  /\ tier' = 1 /\ drawn' = {} /\ progress' = FALSE
  /\ UNCHANGED <<inputVars, page, loaded, split, locked, otherVars>>

Refuse ==
  /\ funding = "short" /\ pass = Len(request.passes) /\ funding' = "refused"
  /\ UNCHANGED <<inputVars, passVars, collector, allocated, split, locked, otherVars>>

\* Between two queries another database transaction locks a row, or gives one back.
Querying == funding \in {"sufficient", "insufficient", "load"}

Take(o) ==
  /\ Querying /\ o \notin locked \cup churned /\ Cardinality(churned) < MaxChurn
  /\ taken' = taken \cup {o} /\ churned' = churned \cup {o}
  /\ UNCHANGED <<inputVars, passVars, collector, allocated, funding, split, locked>>

GiveBack(o) ==
  /\ Querying /\ o \in taken /\ taken' = taken \ {o}
  /\ UNCHANGED <<inputVars, passVars, collector, allocated, funding, split, locked, churned>>

FundNext ==
  \/ allocatePriorityOutputs \/ PriorityDone \/ run \/ Sufficient \/ Insufficient
  \/ drainBatch \/ DrainDone \/ loadUTXOPool \/ allocateSweep \/ SweepDone
  \/ GetResult \/ FallBack \/ Refuse
  \/ \E o \in Coins : Take(o) \/ GiveBack(o)

FundSpec == FundInit /\ [][FundNext]_fundVars

-----------------------------------------------------------------------------
\* Types; what is covered is the value of the rows, and change that was counted as
\* fitting its outputs is never found to be impossible to distribute.
FunderTypeOK ==
  /\ request \in Requests /\ coins \in Inventories
  /\ pass \in DOMAIN request.passes /\ tier \in DOMAIN Current.tiers
  /\ allocated \in Seq(Coins)
  /\ collector.satsCovered = SumFunction([i \in DOMAIN allocated |-> coins[allocated[i]].sats])
  /\ funding \in {"priority", "run", "sufficient", "insufficient", "drain", "load", "sweep",
                  "result", "short", "funded", "swept", "refused", "contended"}
  /\ locked \cap taken = {}

\* What the transaction pays the miner: its inputs less its outputs.
Paid ==
  IF funding = "funded" /\ split = <<>>
  THEN collector.satsCovered - request.target
  ELSE collector.satsCovered - request.target - change(collector)

\* A priority output that the queries offer as well: change of a transaction that was
\* sent after all.  It is not on the exclusion list.
Offered == \E i \in DOMAIN request.priority : coins[request.priority[i]].status # "none"

\* The change outputs come and go while rows are allocated, and every one of them is
\* paid for: a funded transaction has an output, and pays the fee of the size it ends
\* up with.  No row is an input twice: the funder selects one twice only when it is
\* a priority output that the queries offer too, and then nothing is saved.
FundedPays ==
  /\ funding \in {"funded", "swept"} =>
       /\ IsInjective(allocated) /\ Range(allocated) \cap request.forbidden = {}
       /\ Paid >= Calculate(request.size + Len(allocated) * InputSize + Len(split) * OutputSize)
       /\ request.outputs + Len(split) > 0
       /\ change(collector) >= 0
  /\ funding = "contended" => Offered

\* Distribute: the outputs add up to the change, none is empty, and all but the first
\* are worth the initial value.
ChangeSplits ==
  split # <<>> =>
    /\ SumFunction(split) = change(collector)
    /\ split[1] > 0
    /\ \A i \in DOMAIN split \ {1} : split[i] >= changeInitialValue(collector)

\* selectBest of drainBatch's comment: from the safest tier that has a row, the
\* smallest that is sufficient, or else the largest.
selectBest ==
  LET first == CHOOSE i \in DOMAIN Current.tiers :
                 /\ Eligible(Current.tiers[i]) # {}
                 /\ \A j \in 1..i - 1 : Eligible(Current.tiers[j]) = {}
      rows == Eligible(Current.tiers[first])
      enough == {o \in rows : coins[o].sats >= remaining(collector)}
  IN  Cheapest(enough) \cup (IF enough = {} THEN Dearest(rows) ELSE {})

\* "Drain rule (per-step equivalence with the old pool.selectBest)": with nobody else
\* at the rows, every row the micro-queries and the batches allocate is the one that
\* selectBest picks for what is missing at that moment.
SelectsBest ==
  [][churned = {} /\ funding \in {"sufficient", "drain"} /\ allocated' # allocated
       => \E o \in selectBest : allocated' = Append(allocated, o)]_fundVars

\* ErrNotEnoughFunds is returned only with every row of the basket and its tiers that
\* nobody else touched among the inputs, and a sweep that nobody disturbs takes
\* them all, whatever the pages and batches were.
NothingLeftBehind ==
  funding \in {"refused", "swept"} /\ (request.sweep => churned = {}) =>
    \A o \in Coins \ (churned \cup request.forbidden) :
      (coins[o].basket = Current.basket
         /\ \E i \in DOMAIN Current.tiers : Current.tiers[i] = coins[o].status)
      => \E i \in DOMAIN allocated : allocated[i] = o
=============================================================================
