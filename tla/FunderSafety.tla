---------------------------- MODULE FunderSafety ----------------------------
(***************************************************************************)
(* A funded transaction pays its fee, for every inventory, request, fee     *)
(* rate and size.  First the arithmetic of the fee and of the change count, *)
(* then the inductive invariant, action by action.                          *)
(***************************************************************************)
EXTENDS Funder, TLAPS, WellFoundedInduction

\* The quotient of Calculate and of the change count, by its remainder.
LEMMA DivisionBounds ==
  ASSUME NEW x \in Nat, NEW k \in Nat \ {0}
  PROVE  /\ x \div k \in Nat
         /\ k * (x \div k) <= x
         /\ x < k * (x \div k) + k
  OBVIOUS

\* Division keeps the order of its dividends.
LEMMA DivisionGrows ==
  ASSUME NEW x \in Nat, NEW y \in Nat, NEW k \in Nat \ {0}, x <= y
  PROVE  x \div k <= y \div k
<1> DEFINE q == x \div k
           r == y \div k
<1>1. q \in Nat /\ r \in Nat /\ k * q <= x /\ y < k * r + k
  BY DivisionBounds
<1> HIDE DEF q, r
<1>2. SUFFICES ASSUME r + 1 <= q PROVE FALSE
  BY <1>1 DEF q, r
<1>3. k * (r + 1) <= k * q
  BY <1>1, <1>2
<1>4. k * (r + 1) = k * r + k
  BY <1>1
<1> QED  BY <1>1, <1>3, <1>4

\* A fee rate keeps the order of sizes.
LEMMA ProductGrows ==
  ASSUME NEW x \in Nat, NEW y \in Nat, NEW k \in Nat, x <= y
  PROVE  x * k <= y * k /\ x * k \in Nat /\ y * k \in Nat
  OBVIOUS

\* feeCalc.Calculate: a larger transaction never pays less, the sizes that float64
\* rounds up included.  It is why change that is left out still pays for what is left.
LEMMA FeeGrows ==
  ASSUME NEW x \in Nat, NEW y \in Nat, x <= y
  PROVE  /\ Calculate(x) \in Nat /\ Calculate(y) \in Nat
         /\ Calculate(x) <= Calculate(y)
<1> DEFINE p == x * SatsPerKB
           q == y * SatsPerKB
           f(n) == (n + KB - 1) \div KB
<1>0. SatsPerKB \in Nat /\ KB \in Nat \ {0}
  BY FunderAssumption
<1>1. p \in Nat /\ q \in Nat /\ p <= q
  BY <1>0, ProductGrows
<1>2. p + KB - 1 \in Nat /\ q + KB - 1 \in Nat /\ p + KB - 1 <= q + KB - 1
  BY <1>0, <1>1
<1>3. f(p) \in Nat /\ f(q) \in Nat /\ f(p) <= f(q)
  BY <1>0, <1>2, DivisionBounds, DivisionGrows
<1>4. ASSUME x \in RoundedUp, x # y PROVE f(p) + 1 <= f(q)
  <2>1. SatsPerKB > 0 /\ p % KB = 0
    BY <1>4, FunderAssumption
  <2>2. p + 1 <= q
    <3>1. (x + 1) * SatsPerKB <= y * SatsPerKB
      BY <1>0, <1>4, ProductGrows
    <3>2. (x + 1) * SatsPerKB = p + SatsPerKB
      BY <1>0
    <3> QED  BY <1>0, <1>1, <2>1, <3>1, <3>2
  <2>3. PICK m \in Nat : p = KB * m
    BY <1>0, <1>1, <2>1
  <2>4. f(p) = m
    <3> DEFINE a == p + KB - 1
    <3>1. a \div KB \in Nat /\ KB * (a \div KB) <= a /\ a < KB * (a \div KB) + KB
      BY <1>0, <1>2, DivisionBounds
    <3> DEFINE d == a \div KB
    <3>2. KB * d < KB * m + KB /\ KB * m < KB * d + 1
      BY <1>0, <1>1, <2>3, <3>1
    <3> HIDE DEF d
    <3>3. d \in Nat
      BY <3>1 DEF d
    <3>4. ~(d <= m - 1)
      <4>1. SUFFICES ASSUME d + 1 <= m PROVE FALSE
        BY <3>3, <2>3
      <4>2. KB * (d + 1) <= KB * m
        BY <4>1, <3>3, <2>3, <1>0
      <4> QED  BY <4>2, <3>2, <3>3, <2>3, <1>0
    <3>5. ~(d >= m + 1)
      <4>1. SUFFICES ASSUME m + 1 <= d PROVE FALSE
        BY <3>3, <2>3
      <4>2. KB * (m + 1) <= KB * d
        BY <4>1, <3>3, <2>3, <1>0
      <4> QED  BY <4>2, <3>2, <3>3, <2>3, <1>0
    <3> QED  BY <3>3, <3>4, <3>5, <2>3 DEF d
  <2>5. f(q) >= m + 1
    <3>1. (KB * (m + 1)) \div KB <= f(q)
      BY <1>0, <1>1, <1>2, <2>2, <2>3, DivisionGrows
    <3>2. (KB * (m + 1)) \div KB = m + 1
      BY <1>0, <2>3
    <3> QED  BY <3>1, <3>2
  <2> QED  BY <1>3, <2>3, <2>4, <2>5
<1> HIDE DEF f, p, q
<1>5. Calculate(x) = f(p) + (IF x \in RoundedUp THEN 1 ELSE 0)
  BY DEF Calculate, f, p
<1>6. Calculate(y) = f(q) + (IF y \in RoundedUp THEN 1 ELSE 0)
  BY DEF Calculate, f, q
<1>7. x = y => p = q
  BY DEF p, q
<1> QED  BY <1>3, <1>4, <1>5, <1>6, <1>7

\* The loops of calculateChangeCount and calculateChangeOutputs end at a count between
\* 1 and the one they start from.
LEMMA CountsDown ==
  ASSUME NEW top \in Nat \ {0}, NEW fitting
  PROVE  CountDown(top, fitting) \in 1..top
<1> DEFINE good == {n \in 1..top : n = 1 \/ n \in fitting}
           T == {n \in Nat : n <= top /\ top - n \in good}
<1>1. top - 1 \in T
  OBVIOUS
<1>2. PICK m \in T : \A k \in T : ~(k < m)
  <2> DEFINE R == OpToRel(<, Nat)
  <2>1. IsWellFoundedOn(R, Nat)
    BY NatLessThanWellFounded, Zenon
  <2>2. \A k, m \in Nat : k < m => <<k, m>> \in R
    BY Zenon DEF OpToRel
  <2> HIDE DEF R
  <2>3. T \subseteq Nat /\ T # {}
    BY Zenon, <1>1
  <2>4. PICK m \in T : \A k \in T : ~(<<k, m>> \in R)
    <3> HIDE DEF T
    <3> QED  BY Zenon, <2>1, <2>3, WFMin
  <2>5. m \in Nat /\ \A k \in T : k \in Nat
    OBVIOUS
  <2> QED  BY Zenon, <2>2, <2>4, <2>5
<1>4. top - m \in 1..top /\ (top - m = 1 \/ top - m \in fitting)
  BY <1>2
<1>5. \A k \in (top - m + 1)..top : k \notin fitting
  <2> SUFFICES ASSUME NEW k \in (top - m + 1)..top, k \in fitting PROVE FALSE
    OBVIOUS
  <2>1. m \in Nat /\ k \in 1..top
    BY <1>4
  <2>2. top - k \in Nat /\ top - k <= top /\ top - k < m
    BY <2>1
  <2>3. top - (top - k) = k
    BY <2>1
  <2>4. top - k \in T
    BY <2>1, <2>2, <2>3
  <2> QED  BY <1>2, <2>2, <2>4
<1> QED  BY <1>4, <1>5 DEF CountDown

\* The fields of utxoCollector.
Collector ==
  [txSize : Nat, fee : Nat, satsCovered : Nat, changeOutputsCount : Nat, changeOutputsSize : Nat,
   desired : Nat \ {0}, minimum : Nat \ {0}, cap : Nat \ {0}]

\* setChangeOutputsSize replaces the change in the size and prices the new size.
LEMMA SizeIsSet ==
  ASSUME NEW c \in Collector, c.changeOutputsSize <= c.txSize, NEW size \in Nat
  PROVE  LET d == setChangeOutputsSize(c, size)
         IN  /\ d \in Collector
             /\ d.changeOutputsSize = size
             /\ d.txSize = c.txSize - c.changeOutputsSize + size
             /\ d.fee = Calculate(d.txSize)
             /\ d.satsCovered = c.satsCovered /\ d.changeOutputsCount = c.changeOutputsCount
             /\ d.desired = c.desired /\ d.minimum = c.minimum /\ d.cap = c.cap
<1> DEFINE txSize == c.txSize - c.changeOutputsSize + size
<1>1. txSize \in Nat
  BY DEF Collector
<1>2. Calculate(txSize) \in Nat
  BY <1>1, FeeGrows
<1>3. setChangeOutputsSize(c, size)
        = [c EXCEPT !.txSize = txSize, !.changeOutputsSize = size, !.fee = Calculate(txSize)]
  BY DEF setChangeOutputsSize
<1> HIDE DEF txSize
<1>4. setChangeOutputsSize(c, size).txSize = txSize
  BY <1>3 DEF Collector
<1> QED  BY Zenon, <1>1, <1>2, <1>3, <1>4 DEF Collector, txSize

\* What calculateChangeOutputs leaves: a size and a fee that include every change output
\* it counted, once.
WithChangeCounted(c, d) ==
  /\ d \in Collector
  /\ d.changeOutputsSize = d.changeOutputsCount * OutputSize
  /\ d.txSize = c.txSize - c.changeOutputsSize + d.changeOutputsSize
  /\ d.fee = Calculate(d.txSize)
  /\ d.satsCovered = c.satsCovered
  /\ d.minimum = c.minimum

\* calculateChangeOutputs, whatever it counted before, leaves the size and the fee of
\* the count it ends with.
LEMMA ChangeIsCounted ==
  ASSUME request.target \in Int, NEW c \in Collector, c.changeOutputsSize <= c.txSize
  PROVE  WithChangeCounted(c, calculateChangeOutputs(c))
<1> DEFINE bare == setChangeOutputsSize(c, 0)
           top == calculateChangeCount(c, change(bare))
           fits == {n \in 1..top : changeFitsOutputs(WithChange(bare, n))}
<1>1. /\ bare \in Collector /\ bare.changeOutputsSize = 0
      /\ bare.txSize = c.txSize - c.changeOutputsSize
      /\ bare.satsCovered = c.satsCovered /\ bare.minimum = c.minimum
  BY SizeIsSet DEF Collector
<1>2. OutputSize \in Nat
  BY FunderAssumption
<1> HIDE DEF bare
<1>3. ASSUME NEW n \in Nat
      PROVE  WithChangeCounted(c, WithChange(bare, n))
  <2>1. n * OutputSize \in Nat
    BY <1>2
  <2> DEFINE d == setChangeOutputsSize(bare, n * OutputSize)
  <2>2. /\ d \in Collector /\ d.changeOutputsSize = n * OutputSize
        /\ d.txSize = bare.txSize - bare.changeOutputsSize + n * OutputSize
        /\ d.fee = Calculate(d.txSize) /\ d.satsCovered = bare.satsCovered
        /\ d.minimum = bare.minimum
    BY <1>1, <2>1, SizeIsSet DEF Collector
  <2>3. WithChange(bare, n) = [d EXCEPT !.changeOutputsCount = n]
    BY DEF WithChange
  <2> HIDE DEF d
  <2>4. d.txSize = c.txSize - c.changeOutputsSize + n * OutputSize
    BY <1>1, <2>1, <2>2 DEF Collector
  <2> DEFINE w == [d EXCEPT !.changeOutputsCount = n]
  <2>5. /\ w \in Collector /\ w.changeOutputsCount = n
        /\ w.changeOutputsSize = d.changeOutputsSize /\ w.txSize = d.txSize
        /\ w.fee = d.fee /\ w.satsCovered = d.satsCovered /\ w.minimum = d.minimum
    BY <2>2 DEF Collector
  <2> QED  BY <1>1, <2>2, <2>3, <2>4, <2>5 DEF WithChangeCounted
<1>4. CASE change(bare) <= 0
  BY <1>3, <1>4 DEF calculateChangeOutputs, bare
<1>5. CASE ~(change(bare) <= 0)
  <2>1. calculateChangeOutputs(c) = WithChange(bare, CountDown(top, fits))
    BY <1>5 DEF calculateChangeOutputs, bare
  <2>2. top \in Nat \ {0}
    <3> DEFINE value == change(bare)
               wanted == value \div c.minimum
                           + (IF value % c.minimum < c.minimum \div 4 THEN 0 ELSE 1)
               most == Larger(1, Smaller(wanted, Smaller(c.desired, c.cap)))
    <3>1. value \in Nat
      BY <1>1, <1>5 DEF change, Collector
    <3>2. value \div c.minimum \in Nat
      BY <3>1, DivisionBounds DEF Collector
    <3>3. wanted \in Nat
      BY <3>2
    <3>4. c.desired \in Nat /\ c.cap \in Nat
      BY DEF Collector
    <3> HIDE DEF wanted
    <3>5. most \in Nat \ {0}
      BY <3>3, <3>4 DEF Larger, Smaller
    <3>6. top = CountDown(most, {n \in 1..most : value \div n >= DustFloor})
      BY DEF calculateChangeCount, wanted
    <3> HIDE DEF most, value
    <3>7. top \in 1..most
      BY <3>5, <3>6, CountsDown
    <3> QED  BY <3>5, <3>7
  <2> HIDE DEF top, fits
  <2>3. CountDown(top, fits) \in Nat
    BY <2>2, CountsDown
  <2> QED  BY <1>3, <2>1, <2>3
<1> QED  BY <1>4, <1>5

-----------------------------------------------------------------------------
(* The inductive invariant.                                                *)

\* The collector after n rows.
Consistent(c, n) ==
  /\ c \in Collector
  /\ c.changeOutputsSize = c.changeOutputsCount * OutputSize
  /\ c.txSize = request.size + n * InputSize + c.changeOutputsSize
  /\ c.fee = Calculate(c.txSize)

\* The call and its position.
Inputs ==
  /\ request \in Requests /\ coins \in Inventories
  /\ pass \in DOMAIN request.passes /\ tier \in DOMAIN request.passes[pass].tiers

\* The size and the fee are those of the rows that are allocated.
Sizes == allocated \in Seq(Coins) /\ Consistent(collector, Len(allocated))

\* A row of the index that may still be allocated.
Indexed(rows) == rows \subseteq Coins /\ \A o \in rows : coins[o].status # "none"

\* o is an element of s.
Among(o, s) == \E i \in DOMAIN s : s[i] = o

\* Where the rows that were allocated come from, and where the next one does.
Rows ==
  /\ \A o \in Coins : Among(o, allocated) =>
       /\ o \notin request.forbidden
       /\ request.sweep \/ Among(o, request.priority) \/ o \in excluded
  /\ todo \in Seq(Coins) /\ IsInjective(todo)
  /\ \A o \in Coins : Among(o, todo) =>
       Among(o, request.priority) /\ (funding = "priority" => ~Among(o, allocated))
  /\ request.forbidden \subseteq excluded
  /\ Indexed(drawn) /\ drawn \cap excluded = {}
  /\ Indexed(loaded) /\ loaded \cap request.forbidden = {}

\* Without a priority output that the queries offer too, no row is allocated twice.
Distinct ==
  Offered \/ (IsInjective(allocated) /\ \A o \in loaded : ~Among(o, allocated))

\* Which steps belong to a sweep, and what is left over between them.
Stages ==
  /\ funding \in {"run", "sufficient", "insufficient", "drain", "short"} => ~request.sweep
  /\ funding \in {"load", "sweep"} => request.sweep
  /\ funding \in {"priority", "load"} /\ request.sweep =>
       \A o \in Coins : Among(o, allocated) => Among(o, request.priority)
  /\ funding \notin {"load", "sweep"} => loaded = {}
  /\ funding # "drain" => drawn = {}

\* Only distinct rows are saved.
Settled ==
  /\ funding \in {"funded", "swept"} => IsInjective(allocated)
  /\ funding = "contended" => ~IsInjective(allocated)

\* What the final states were decided from.
Outcome ==
  /\ funding # "funded" => split = <<>>
  /\ funding = "funded" =>
       /\ ~request.sweep /\ IsFunded(collector)
       /\ split \in Distribute(changeInitialValue(collector), ChangeOutputsCount(collector),
                               change(collector))
  /\ funding = "swept" => request.sweep /\ change(collector) >= 0
  /\ Settled

\* FundedPays speaks of final states only, and follows from how they were reached: the
\* fee is that of the counted size, and a row offered by a query is not an input yet
\* because inputs are excluded rows or priority outputs, which only the case Offered
\* has among the rows of a query.
FunderInv == Inputs /\ Sizes /\ Rows /\ Distinct /\ Stages /\ Outcome

\* The types of the arguments of FundWithConstraints.
LEMMA RequestTypes ==
  ASSUME request \in Requests, coins \in Inventories
  PROVE  /\ request.target \in Int /\ request.size \in Nat /\ request.outputs \in Nat
         /\ request.sweep \in BOOLEAN /\ request.priority \in Seq(Coins)
         /\ request.forbidden \in SUBSET Coins /\ request.passes \in Seq(Pass)
         /\ request.passes # <<>> /\ IsInjective(request.priority)
         /\ request.sweep => request.outputs > 0
         /\ \A i \in DOMAIN request.passes : request.passes[i].tiers # <<>>
         /\ coins \in [Coins -> Row]
         /\ \A o \in Coins : coins[o].sats \in Nat
  BY FunderAssumption DEF Request, Row

\* newCollector prices a transaction without rows.
LEMMA CollectorStarts ==
  ASSUME request \in Requests, coins \in Inventories, NEW i \in DOMAIN request.passes
  PROVE  Consistent(newCollector(request.passes[i]), 0)
<1> DEFINE p == request.passes[i]
           c == [txSize |-> request.size, fee |-> Calculate(request.size), satsCovered |-> 0,
                 changeOutputsCount |-> 0, changeOutputsSize |-> 0,
                 desired |-> p.desired, minimum |-> p.minimum, cap |-> p.cap]
<1>1. p \in Pass
  BY RequestTypes
<1>2. c \in Collector
  <2>1. request.size \in Nat /\ Calculate(request.size) \in Nat
    BY RequestTypes, FeeGrows
  <2>2. p.desired \in Nat \ {0} /\ p.minimum \in Nat \ {0} /\ p.cap \in Nat \ {0}
    BY <1>1 DEF Pass
  <2> HIDE DEF p
  <2> QED  BY <2>1, <2>2 DEF Collector
<1>3. newCollector(p) = calculateChangeOutputs(c)
  BY DEF newCollector
<1>4. c.changeOutputsSize = 0 /\ c.txSize = request.size
  OBVIOUS
<1> HIDE DEF c, p
<1>5. WithChangeCounted(c, newCollector(p))
  BY <1>2, <1>3, <1>4, RequestTypes, ChangeIsCounted
<1> QED  BY <1>4, <1>5, RequestTypes, FunderAssumption DEF WithChangeCounted,
            Consistent, Collector, p

\* allocateUTXO adds the size of one input.
LEMMA CollectorAllocates ==
  ASSUME request \in Requests, coins \in Inventories,
         NEW n \in Nat, NEW c, Consistent(c, n), NEW o \in Coins
  PROVE  Consistent(allocateUTXO(c, o), n + 1)
<1> DEFINE d == [c EXCEPT !.txSize = @ + InputSize, !.fee = Calculate(c.txSize + InputSize),
                          !.satsCovered = @ + coins[o].sats]
<1>1. InputSize \in Nat /\ OutputSize \in Nat /\ coins[o].sats \in Nat /\ request.size \in Nat
  BY RequestTypes, FunderAssumption
<1>2. c \in Collector /\ c.txSize + InputSize \in Nat
  BY <1>1 DEF Consistent, Collector
<1>3. Calculate(c.txSize + InputSize) \in Nat
  BY <1>2, FeeGrows
<1>4. /\ d \in Collector /\ d.changeOutputsSize = c.changeOutputsSize
      /\ d.txSize = c.txSize + InputSize
  <2> DEFINE size == c.txSize + InputSize
             fee == Calculate(size)
             sats == c.satsCovered + coins[o].sats
  <2>1. d = [c EXCEPT !.txSize = size, !.fee = fee, !.satsCovered = sats]
    BY <1>2 DEF Collector
  <2>2. size \in Nat /\ fee \in Nat /\ sats \in Nat
    BY <1>1, <1>2, <1>3 DEF Collector
  <2> HIDE DEF d, size, fee, sats
  <2>3. d.txSize = size
    BY <1>2, <2>1 DEF Collector
  <2> QED  BY Zenon, <1>2, <2>1, <2>2, <2>3 DEF Collector, size
<1>5. allocateUTXO(c, o) = calculateChangeOutputs(d)
  BY DEF allocateUTXO
<1>6. n * InputSize \in Nat /\ (n + 1) * InputSize = n * InputSize + InputSize
  BY <1>1
<1>7. c.txSize = request.size + n * InputSize + c.changeOutputsSize /\ c.changeOutputsSize \in Nat
  BY <1>2 DEF Consistent, Collector
<1> HIDE DEF d
<1>8. d.changeOutputsSize <= d.txSize
  BY <1>1, <1>4, <1>6, <1>7
<1>9. WithChangeCounted(d, allocateUTXO(c, o))
  BY <1>4, <1>5, <1>8, RequestTypes, ChangeIsCounted
<1>10. d.txSize - d.changeOutputsSize = request.size + (n + 1) * InputSize
  BY <1>1, <1>4, <1>6, <1>7
<1> QED  BY <1>9, <1>10 DEF WithChangeCounted, Consistent

\* An input that is not there yet keeps the inputs distinct.
LEMMA AppendFresh ==
  ASSUME NEW s \in Seq(Coins), NEW o \in Coins
  PROVE  /\ Append(s, o) \in Seq(Coins) /\ Len(Append(s, o)) = Len(s) + 1
         /\ IsInjective(s) /\ ~Among(o, s) => IsInjective(Append(s, o))
         /\ \A p \in Coins : Among(p, Append(s, o)) <=> (Among(p, s) \/ p = o)
<1> DEFINE t == Append(s, o)
<1>1. t \in Seq(Coins) /\ Len(t) = Len(s) + 1 /\ Len(s) \in Nat
  OBVIOUS
<1>2. DOMAIN s = 1..Len(s) /\ DOMAIN t = 1..Len(s) + 1
  BY <1>1
<1>3. t[Len(s) + 1] = o /\ \A i \in DOMAIN s : t[i] = s[i]
  BY <1>2
<1> HIDE DEF t
<1>4. \A i \in DOMAIN t : i \in DOMAIN s \/ i = Len(s) + 1
  BY <1>1, <1>2
<1>5. DOMAIN s \subseteq DOMAIN t /\ Len(s) + 1 \in DOMAIN t
  BY <1>1, <1>2
<1>6. IsInjective(s) /\ ~Among(o, s) => IsInjective(t)
  BY <1>3, <1>4 DEF IsInjective, Among
<1>7. \A p \in Coins : Among(p, t) <=> (Among(p, s) \/ p = o)
  BY <1>3, <1>4, <1>5 DEF Among
<1> QED  BY <1>1, <1>6, <1>7 DEF t

\* The priority outputs still to come are distinct, and the first is not among the rest.
LEMMA TailRest ==
  ASSUME NEW s \in Seq(Coins), IsInjective(s), s # <<>>
  PROVE  /\ Head(s) \in Coins /\ Among(Head(s), s)
         /\ Tail(s) \in Seq(Coins) /\ IsInjective(Tail(s))
         /\ \A p \in Coins : Among(p, Tail(s)) => Among(p, s) /\ p # Head(s)
<1>1. DOMAIN s = 1..Len(s) /\ Len(s) \in Nat /\ Len(s) > 0
  OBVIOUS
<1>2. Head(s) = s[1] /\ 1 \in DOMAIN s /\ s[1] \in Coins
  BY <1>1
<1>3. Tail(s) \in Seq(Coins) /\ Len(Tail(s)) = Len(s) - 1 /\ DOMAIN Tail(s) = 1..Len(Tail(s))
  BY <1>1
<1>4. \A i \in DOMAIN Tail(s) : Tail(s)[i] = s[i + 1]
  BY <1>1, <1>3
<1>5. \A i \in DOMAIN Tail(s) : i + 1 \in DOMAIN s /\ i + 1 # 1 /\ i \in Nat
  BY <1>1, <1>3
<1>6. IsInjective(Tail(s))
  BY <1>4, <1>5 DEF IsInjective
<1> QED  BY <1>2, <1>3, <1>4, <1>5, <1>6 DEF IsInjective, Among

\* Allocating a row: the size and the fee follow, and a new one keeps the inputs distinct.
LEMMA RowIsAllocated ==
  ASSUME Inputs, Sizes, NEW o \in Coins, Allocate(o), UNCHANGED request
  PROVE  /\ Sizes' /\ (IsInjective(allocated) /\ ~Among(o, allocated) => IsInjective(allocated'))
         /\ \A p \in Coins : Among(p, allocated') <=> (Among(p, allocated) \/ p = o)
<1>1. /\ allocated' \in Seq(Coins) /\ Len(allocated') = Len(allocated) + 1
      /\ IsInjective(allocated) /\ ~Among(o, allocated) => IsInjective(allocated')
      /\ \A p \in Coins : Among(p, allocated') <=> (Among(p, allocated) \/ p = o)
  BY AppendFresh DEF Sizes, Allocate
<1>2. Consistent(allocateUTXO(collector, o), Len(allocated) + 1)
  BY CollectorAllocates DEF Inputs, Sizes
<1>3. Consistent(collector, Len(allocated))'
  BY <1>1, <1>2 DEF Consistent, Allocate
<1> QED  BY <1>1, <1>3 DEF Sizes

\* The bounded queries offer rows of the index that are not excluded.
LEMMA EligibleRows ==
  ASSUME Inputs, NEW i \in DOMAIN Current.tiers
  PROVE  /\ Indexed(Eligible(Current.tiers[i])) /\ Eligible(Current.tiers[i]) \cap excluded = {}
<1>1. Current \in Pass
  BY RequestTypes DEF Inputs, Current
<1>2. Current.tiers[i] # "none"
  BY <1>1 DEF Pass, Tiers
<1> QED  BY <1>2 DEF Eligible, Indexed

\* Such a row is no input of the transaction yet, but for a priority output.
LEMMA IndexedIsNew ==
  ASSUME Inputs, Rows, ~request.sweep \/ funding = "load", Stages,
         NEW o \in Coins, coins[o].status # "none", o \notin excluded
  PROVE  Offered \/ ~Among(o, allocated)
  BY DEF Rows, Stages, Among, Offered

\* Offered speaks of the arguments of the call.
LEMMA OfferedIsFixed ==
  ASSUME UNCHANGED <<request, coins>>
  PROVE  Offered' = Offered
  BY Zenon DEF Offered

\* createAction calls the funder with nothing allocated.
LEMMA InitHolds == FundInit => FunderInv
<1> SUFFICES ASSUME FundInit PROVE FunderInv
  OBVIOUS
<1>1. request \in Requests /\ coins \in Inventories
  BY DEF FundInit
<1>2. 1 \in DOMAIN request.passes /\ 1 \in DOMAIN request.passes[1].tiers
  <2>1. 1 \in DOMAIN request.passes /\ request.passes[1] \in Pass
    BY <1>1, RequestTypes
  <2>2. request.passes[1].tiers \in Seq(Tiers) /\ request.passes[1].tiers # <<>>
    BY <1>1, <2>1, RequestTypes DEF Pass
  <2> QED  BY <2>1, <2>2
<1>3. Inputs
  BY <1>1, <1>2 DEF FundInit, Inputs
<1>4. Sizes
  BY <1>1, <1>2, CollectorStarts DEF FundInit, Sizes
<1>5. Rows /\ Distinct
  BY <1>1, RequestTypes DEF FundInit, Rows, Distinct, Among, Indexed, IsInjective
<1>6. Stages /\ Outcome
  BY DEF FundInit, Stages, Outcome, Settled, Among
<1> QED  BY <1>3, <1>4, <1>5, <1>6 DEF FunderInv

\* A step that allocates nothing keeps the size and the fee.
LEMMA SizesKept ==
  ASSUME Sizes, UNCHANGED <<request, allocated, collector>>
  PROVE  Sizes'
  BY DEF Sizes, Consistent

\* allocatePriorityOutputs takes each noSend change output once, and none that is an
\* input already.
LEMMA PriorityStep == FunderInv /\ allocatePriorityOutputs => FunderInv'
<1> SUFFICES ASSUME FunderInv, allocatePriorityOutputs PROVE FunderInv'
  BY Zenon
<1> DEFINE o == Head(todo)
<1>1. /\ funding = "priority" /\ todo # <<>> /\ todo' = Tail(todo)
      /\ UNCHANGED <<request, coins, pass, tier, excluded, drawn, loaded, split>>
  BY Zenon DEF allocatePriorityOutputs, inputVars
<1>2. /\ o \in Coins /\ Among(o, todo) /\ Tail(todo) \in Seq(Coins) /\ IsInjective(Tail(todo))
      /\ \A p \in Coins : Among(p, Tail(todo)) => Among(p, todo) /\ p # o
  BY <1>1, TailRest, Zenon DEF FunderInv, Rows
<1>3. Inputs'
  BY <1>1, Zenon DEF FunderInv, Inputs
<1>4. CASE o \in request.forbidden
  <2>1. UNCHANGED <<collector, allocated, funding>>
    BY <1>4, Zenon DEF allocatePriorityOutputs
  <2>2. Sizes'
    BY <1>1, <2>1, SizesKept, Zenon DEF FunderInv
  <2>3. Rows'
    BY <1>1, <1>2, <2>1, Zenon DEF FunderInv, Rows, Indexed
  <2>4. Stages' /\ Outcome' /\ Distinct'
    BY <1>1, <2>1, OfferedIsFixed, Zenon DEF FunderInv, Stages, Outcome, Settled, Distinct
  <2> QED  BY <1>3, <2>2, <2>3, <2>4, Zenon DEF FunderInv
<1>5. CASE o \notin request.forbidden
  <2>1. /\ Allocate(o) /\ funding' \in {"result", "priority"}
        /\ request.sweep => funding' = "priority"
    BY <1>5, Zenon DEF allocatePriorityOutputs
  <2>2. ~Among(o, allocated) /\ Among(o, request.priority)
    BY <1>1, <1>2, Zenon DEF FunderInv, Rows
  <2>3. /\ Sizes' /\ (IsInjective(allocated) => IsInjective(allocated'))
        /\ \A p \in Coins : Among(p, allocated') <=> (Among(p, allocated) \/ p = o)
    BY <1>1, <1>2, <2>1, <2>2, RowIsAllocated, Zenon DEF FunderInv
  <2> HIDE DEF o
  <2>4. Rows'
    BY <1>1, <1>2, <1>5, <2>1, <2>2, <2>3, Zenon DEF FunderInv, Rows, Stages, Indexed
  <2>5. Stages' /\ Outcome'
    BY <1>1, <2>1, <2>2, <2>3, Zenon DEF FunderInv, Stages, Outcome, Settled
  <2>6. Distinct'
    BY <1>1, <2>3, OfferedIsFixed, Zenon DEF FunderInv, Stages, Distinct
  <2> QED  BY <1>3, <2>3, <2>4, <2>5, <2>6, Zenon DEF FunderInv
<1> QED  BY <1>4, <1>5, Zenon

\* Every call has a safest tier.
LEMMA TierExists ==
  ASSUME Inputs
  PROVE  1 \in DOMAIN Current.tiers /\ DOMAIN Current.tiers = 1..Len(Current.tiers) /\ tier \in Nat
<1>1. Current \in Pass /\ Current.tiers # <<>>
  BY RequestTypes DEF Inputs, Current
<1>2. Current.tiers \in Seq(Tiers)
  BY <1>1, Zenon DEF Pass
<1>3. DOMAIN Current.tiers = 1..Len(Current.tiers) /\ Len(Current.tiers) \in Nat
  BY <1>2
<1> QED  BY <1>1, <1>2, <1>3 DEF Inputs, Current

\* The steps of run and fromTier that only decide what is next.
LEMMA DecisionSteps ==
  FunderInv /\ (PriorityDone \/ run \/ DrainDone \/ SweepDone \/ Refuse) => FunderInv'
<1> SUFFICES ASSUME FunderInv, PriorityDone \/ run \/ DrainDone \/ SweepDone \/ Refuse
             PROVE  FunderInv'
  BY Zenon
<1>1. UNCHANGED <<request, coins, pass, collector, allocated, excluded, todo, loaded, split>>
  BY Zenon DEF PriorityDone, run, DrainDone, SweepDone, Refuse, inputVars, passVars
<1>2. Sizes'
  BY <1>1, SizesKept, Zenon DEF FunderInv
<1>3. drawn' = drawn \/ drawn' = {}
  BY Zenon DEF PriorityDone, run, DrainDone, SweepDone, Refuse, passVars
<1>4. tier' \in DOMAIN Current.tiers
  <2>1. tier \in DOMAIN Current.tiers /\ tier \in Nat /\ 1 \in DOMAIN Current.tiers
        /\ DOMAIN Current.tiers = 1..Len(Current.tiers)
    BY TierExists, Zenon DEF FunderInv, Inputs, Current
  <2>2. CASE PriorityDone \/ SweepDone \/ Refuse
    BY <2>1, <2>2, Zenon DEF PriorityDone, SweepDone, Refuse, passVars
  <2>3. CASE run
    BY <2>1, <2>3, Zenon DEF run
  <2>4. CASE DrainDone
    BY <2>1, <2>4 DEF DrainDone, NextTier
  <2> QED  BY <2>2, <2>3, <2>4, Zenon
<1>5. Inputs'
  BY <1>1, <1>4, Zenon DEF FunderInv, Inputs, Current
<1>6. funding' \notin {"priority", "funded", "swept", "contended"}
  BY Zenon DEF PriorityDone, run, DrainDone, SweepDone, Refuse, NextTier
<1>7. Rows' /\ Distinct'
  BY <1>1, <1>3, <1>6, OfferedIsFixed, Zenon DEF FunderInv, Rows, Indexed, Distinct
<1>8. Outcome'
  <2>1. funding # "funded"
    BY Zenon DEF PriorityDone, run, DrainDone, SweepDone, Refuse
  <2> QED  BY <1>1, <1>6, <2>1, Zenon DEF FunderInv, Outcome, Settled
<1>9. Stages'
  <2>1. CASE PriorityDone
    BY <1>1, <2>1, Zenon DEF PriorityDone, FunderInv, Stages, passVars
  <2>2. CASE run
    BY <1>1, <2>2, Zenon DEF run, FunderInv, Stages
  <2>3. CASE DrainDone
    BY <1>1, <2>3, Zenon DEF DrainDone, NextTier, FunderInv, Stages
  <2>4. CASE SweepDone
    BY <1>1, <2>4, Zenon DEF SweepDone, FunderInv, Stages, passVars
  <2>5. CASE Refuse
    BY <1>1, <2>5, Zenon DEF Refuse, FunderInv, Stages, passVars
  <2> QED  BY <2>1, <2>2, <2>3, <2>4, <2>5, Zenon
<1> QED  BY <1>2, <1>5, <1>7, <1>8, <1>9, Zenon DEF FunderInv

\* The first query of fromTier: its row is new and excluded from then on.
LEMMA SufficientStep == FunderInv /\ Sufficient => FunderInv'
<1> SUFFICES ASSUME FunderInv, Sufficient PROVE FunderInv'
  BY Zenon
<1> DEFINE found == FindSmallestSufficientUTXOForUpdate(Current.tiers[tier], remaining(collector))
<1>1. /\ funding = "sufficient" /\ ~request.sweep /\ loaded = {} /\ drawn = {}
      /\ UNCHANGED <<request, coins, pass, todo, tier, drawn, loaded, split>>
      /\ excluded' = excluded \cup found
  BY Zenon DEF Sufficient, inputVars, FunderInv, Stages
<1>2. found \subseteq Eligible(Current.tiers[tier])
  BY Zenon DEF FindSmallestSufficientUTXOForUpdate, Cheapest
<1>3. Indexed(found) /\ found \cap excluded = {}
  BY <1>2, EligibleRows, Zenon DEF FunderInv, Inputs, Current, Indexed
<1>4. Inputs'
  BY <1>1, Zenon DEF FunderInv, Inputs
<1>5. CASE found = {} /\ funding' = "insufficient" /\ UNCHANGED <<collector, allocated>>
  <2>1. Sizes'
    BY <1>1, <1>5, SizesKept, Zenon DEF FunderInv
  <2>2. UNCHANGED <<request, coins, todo, excluded, drawn, loaded, collector, allocated, split>>
    BY <1>1, <1>5, Zenon
  <2> HIDE DEF found
  <2>3. Rows' /\ Distinct'
    BY <1>1, <1>5, <2>2, OfferedIsFixed, Zenon DEF FunderInv, Rows, Indexed, Distinct
  <2>4. Stages'
    BY <1>1, <1>5, <2>2, Zenon DEF FunderInv, Stages
  <2>5. Outcome'
    BY <1>1, <1>5, <2>2, Zenon DEF FunderInv, Outcome, Settled
  <2> QED  BY <1>4, <2>1, <2>3, <2>4, <2>5, Zenon DEF FunderInv
<1>6. ASSUME NEW o \in found, Allocate(o), funding' = "run" PROVE FunderInv'
  <2>1. o \in Coins /\ coins[o].status # "none" /\ o \notin excluded /\ o \notin request.forbidden
    BY <1>3, <1>6, Zenon DEF Indexed, FunderInv, Rows
  <2>2. Offered \/ ~Among(o, allocated)
    BY <1>1, <2>1, IndexedIsNew, Zenon DEF FunderInv
  <2>3. /\ Sizes' /\ (IsInjective(allocated) /\ ~Among(o, allocated) => IsInjective(allocated'))
        /\ \A p \in Coins : Among(p, allocated') <=> (Among(p, allocated) \/ p = o)
    BY <1>1, <1>6, <2>1, RowIsAllocated, Zenon DEF FunderInv
  <2>4. o \in excluded'
    BY <1>1, <1>6, Zenon
  <2> HIDE DEF found
  <2>5. Rows'
    BY <1>1, <1>6, <2>1, <2>3, <2>4, Zenon DEF FunderInv, Rows, Indexed
  <2>6. Stages' /\ Outcome'
    BY <1>1, <1>6, Zenon DEF FunderInv, Stages, Outcome, Settled
  <2>7. Distinct'
    BY <1>1, <2>2, <2>3, OfferedIsFixed, Zenon DEF FunderInv, Distinct
  <2> QED  BY <1>4, <2>3, <2>5, <2>6, <2>7, Zenon DEF FunderInv
<1> QED  BY <1>5, <1>6, Zenon DEF Sufficient

\* The second query and drainBatch: the rows of the batch are new, and each is excluded
\* when it is allocated.
LEMMA DrainSteps == FunderInv /\ (Insufficient \/ drainBatch) => FunderInv'
<1>1. ASSUME FunderInv, Insufficient PROVE FunderInv'
  <2>1. /\ funding = "insufficient" /\ funding' = "drain" /\ ~request.sweep /\ loaded = {}
        /\ UNCHANGED <<request, coins, pass, excluded, todo, tier, loaded, collector, allocated,
                       split>>
    BY <1>1, Zenon DEF Insufficient, inputVars, FunderInv, Stages
  <2>2. drawn' \subseteq Eligible(Current.tiers[tier])
    BY <1>1, Zenon DEF Insufficient, FindLargestInsufficientUTXOsForUpdate
  <2>3. Indexed(drawn') /\ drawn' \cap excluded = {}
    BY <1>1, <2>2, EligibleRows, Zenon DEF FunderInv, Inputs, Current, Indexed
  <2>4. Inputs' /\ Sizes'
    BY <1>1, <2>1, SizesKept, Zenon DEF FunderInv, Inputs
  <2>5. Rows' /\ Distinct'
    BY <1>1, <2>1, <2>3, OfferedIsFixed, Zenon DEF FunderInv, Rows, Indexed, Distinct
  <2>6. Stages'
    BY <1>1, <2>1, Zenon DEF FunderInv, Stages
  <2>7. Outcome'
    BY <1>1, <2>1, Zenon DEF FunderInv, Outcome, Settled
  <2> QED  BY <2>4, <2>5, <2>6, <2>7, Zenon DEF FunderInv
<1>2. ASSUME FunderInv, drainBatch PROVE FunderInv'
  <2>1. /\ funding = "drain" /\ ~request.sweep /\ loaded = {}
        /\ UNCHANGED <<request, coins, pass, funding, todo, tier, loaded, split>>
    BY <1>2, Zenon DEF drainBatch, inputVars, FunderInv, Stages
  <2>2. PICK o \in drawn : /\ Allocate(o) /\ drawn' = drawn \ {o}
                           /\ excluded' = excluded \cup {o}
    BY <1>2, Zenon DEF drainBatch, Drainable, Dearest
  <2>3. o \in Coins /\ coins[o].status # "none" /\ o \notin excluded /\ o \notin request.forbidden
    BY <1>2, Zenon DEF FunderInv, Rows, Indexed
  <2>4. Offered \/ ~Among(o, allocated)
    BY <1>2, <2>1, <2>3, IndexedIsNew, Zenon DEF FunderInv
  <2>5. /\ Sizes' /\ (IsInjective(allocated) /\ ~Among(o, allocated) => IsInjective(allocated'))
        /\ \A p \in Coins : Among(p, allocated') <=> (Among(p, allocated) \/ p = o)
    BY <1>2, <2>1, <2>2, <2>3, RowIsAllocated, Zenon DEF FunderInv
  <2>6. Inputs'
    BY <1>2, <2>1, Zenon DEF FunderInv, Inputs
  <2>7. Rows'
    BY <1>2, <2>1, <2>2, <2>3, <2>5, Zenon DEF FunderInv, Rows, Indexed
  <2>8. Stages' /\ Outcome'
    BY <1>2, <2>1, Zenon DEF FunderInv, Stages, Outcome, Settled
  <2>9. Distinct'
    BY <1>2, <2>1, <2>4, <2>5, OfferedIsFixed, Zenon DEF FunderInv, Distinct
  <2> QED  BY <2>5, <2>6, <2>7, <2>8, <2>9, Zenon DEF FunderInv
<1> QED  BY <1>1, <1>2, Zenon

\* loadUTXOPool and the loop over it: pages may overlap, the set they fill does not.
LEMMA SweepSteps == FunderInv /\ (loadUTXOPool \/ allocateSweep) => FunderInv'
<1>1. ASSUME FunderInv, loadUTXOPool PROVE FunderInv'
  <2> DEFINE rows == FindNotReservedUTXOsForUpdate(page)
  <2>1. /\ funding = "load" /\ funding' \in {"load", "sweep"} /\ request.sweep /\ drawn = {}
        /\ loaded' = loaded \cup rows
        /\ UNCHANGED <<request, coins, pass, excluded, todo, tier, drawn, collector, allocated,
                       split>>
    BY <1>1, Zenon DEF loadUTXOPool, inputVars, FunderInv, Stages
  <2>2. \A o \in rows : \E i \in DOMAIN Current.tiers : o \in Eligible(Current.tiers[i])
    BY Zenon DEF FindNotReservedUTXOsForUpdate
  <2>3. \A o \in rows : o \in Coins /\ coins[o].status # "none" /\ o \notin excluded
    <3> SUFFICES ASSUME NEW o \in rows
                 PROVE  o \in Coins /\ coins[o].status # "none" /\ o \notin excluded
      BY Zenon
    <3>1. PICK i \in DOMAIN Current.tiers : o \in Eligible(Current.tiers[i])
      BY <2>2, Zenon
    <3> HIDE DEF rows
    <3> QED  BY <1>1, <3>1, EligibleRows, Zenon DEF FunderInv, Indexed
  <2> HIDE DEF rows
  <2>4. \A o \in rows : Offered \/ ~Among(o, allocated)
    <3> SUFFICES ASSUME NEW o \in rows, Among(o, allocated) PROVE Offered
      BY Zenon
    <3>1. Among(o, request.priority)
      BY <1>1, <2>1, <2>3, Zenon DEF FunderInv, Stages
    <3> QED  BY <2>3, <3>1, Zenon DEF Among, Offered
  <2>5. Inputs' /\ Sizes'
    BY <1>1, <2>1, SizesKept, Zenon DEF FunderInv, Inputs
  <2>6. Rows'
    BY <1>1, <2>1, <2>3, Zenon DEF FunderInv, Rows, Indexed
  <2>7. Distinct'
    <3>1. CASE Offered
      BY <2>1, <3>1, OfferedIsFixed, Zenon DEF Distinct
    <3>2. CASE ~Offered
      <4>1. IsInjective(allocated) /\ \A o \in loaded \cup rows : ~Among(o, allocated)
        BY <1>1, <2>4, <3>2, Zenon DEF FunderInv, Distinct
      <4> QED  BY <2>1, <4>1, Zenon DEF Distinct
    <3> QED  BY <3>1, <3>2, Zenon
  <2>8. Stages' /\ Outcome'
    BY <1>1, <2>1, Zenon DEF FunderInv, Stages, Outcome, Settled
  <2> QED  BY <2>5, <2>6, <2>7, <2>8, Zenon DEF FunderInv
<1>2. ASSUME FunderInv, allocateSweep PROVE FunderInv'
  <2>1. /\ funding = "sweep" /\ request.sweep /\ drawn = {}
        /\ UNCHANGED <<request, coins, pass, excluded, funding, todo, tier, drawn, split>>
    BY <1>2, Zenon DEF allocateSweep, inputVars, FunderInv, Stages
  <2>2. PICK o \in loaded : Allocate(o) /\ loaded' = loaded \ {o}
    BY <1>2, Zenon DEF allocateSweep
  <2>3. o \in Coins /\ o \notin request.forbidden /\ loaded \subseteq Coins
    BY <1>2, Zenon DEF FunderInv, Rows, Indexed
  <2>4. /\ Sizes' /\ (IsInjective(allocated) /\ ~Among(o, allocated) => IsInjective(allocated'))
        /\ \A p \in Coins : Among(p, allocated') <=> (Among(p, allocated) \/ p = o)
    BY <1>2, <2>1, <2>2, <2>3, RowIsAllocated, Zenon DEF FunderInv
  <2>5. Inputs'
    BY <1>2, <2>1, Zenon DEF FunderInv, Inputs
  <2>6. Rows'
    BY <1>2, <2>1, <2>2, <2>3, <2>4, Zenon DEF FunderInv, Rows, Indexed
  <2>7. Stages' /\ Outcome'
    BY <1>2, <2>1, Zenon DEF FunderInv, Stages, Outcome, Settled
  <2>8. Distinct'
    BY <1>2, <2>1, <2>2, <2>3, <2>4, OfferedIsFixed, Zenon DEF FunderInv, Distinct
  <2> QED  BY <2>4, <2>5, <2>6, <2>7, <2>8, Zenon DEF FunderInv
<1> QED  BY <1>1, <1>2, Zenon

\* GetResult decides from the collector it was called with.
LEMMA ResultStep == FunderInv /\ GetResult => FunderInv'
<1> SUFFICES ASSUME FunderInv, GetResult PROVE FunderInv'
  BY Zenon
<1> DEFINE splits == Distribute(changeInitialValue(collector), ChangeOutputsCount(collector),
                                change(collector))
<1>1. /\ funding = "result" /\ loaded = {} /\ drawn = {} /\ split = <<>>
      /\ UNCHANGED <<request, coins, pass, excluded, todo, tier, drawn, loaded, collector,
                     allocated>>
  BY Zenon DEF GetResult, inputVars, passVars, FunderInv, Stages, Outcome, Settled
<1>2. \/ /\ request.sweep /\ change(collector) >= 0 /\ funding' = "swept" /\ split' = split
         /\ IsInjective(allocated)
      \/ funding' = "contended" /\ split' = split /\ ~IsInjective(allocated)
      \/ request.sweep /\ funding' = "refused" /\ split' = split
      \/ ~request.sweep /\ funding' \in {"short", "undistributed"} /\ split' = split
      \/ /\ ~request.sweep /\ IsFunded(collector) /\ funding' = "funded" /\ split' \in splits
         /\ IsInjective(allocated)
  <2>1. change(collector) \in Int
    <3>1. collector \in Collector /\ request \in Requests /\ coins \in Inventories
      BY Zenon DEF FunderInv, Inputs, Sizes, Consistent
    <3>2. collector.satsCovered \in Nat /\ collector.fee \in Nat
      BY <3>1, Zenon DEF Collector
    <3>3. request.target \in Int
      BY <3>1, RequestTypes, Zenon
    <3> QED  BY <3>2, <3>3 DEF change
  <2> HIDE DEF splits
  <2>2. LET outcome == IF request.sweep
                       THEN IF change(collector) < 0 THEN "refused" ELSE Saved
                       ELSE IF ~IsFunded(collector) THEN "short"
                            ELSE IF splits = {} THEN "undistributed" ELSE Saved
        IN  funding' = outcome /\ split' \in IF outcome = "funded" THEN splits ELSE {split}
    BY Zenon DEF GetResult, splits
  <2>3. /\ ~IsInjective(allocated) => Saved = "contended"
        /\ IsInjective(allocated) => Saved = IF request.sweep THEN "swept" ELSE "funded"
    BY Zenon DEF Saved
  <2> QED  BY <2>1, <2>2, <2>3
<1>3. Inputs' /\ Sizes'
  BY <1>1, SizesKept, Zenon DEF FunderInv, Inputs
<1>4. Rows' /\ Distinct'
  BY <1>1, <1>2, OfferedIsFixed, Zenon DEF FunderInv, Rows, Indexed, Distinct
<1>5. Stages'
  BY <1>1, <1>2, Zenon DEF FunderInv, Stages
<1>6. Outcome'
  <2>1. IsFunded(collector)' = IsFunded(collector) /\ change(collector)' = change(collector)
    BY <1>1, Zenon DEF IsFunded, change
  <2>2. splits' = splits
    BY <1>1, <2>1, Zenon DEF changeInitialValue, ChangeOutputsCount
  <2> HIDE DEF splits
  <2> QED  BY <1>1, <1>2, <2>1, <2>2, Zenon DEF Outcome, Settled, splits
<1> QED  BY <1>3, <1>4, <1>5, <1>6, Zenon DEF FunderInv

\* The second FundWithConstraints call starts over; nothing of the first is kept.
LEMMA FallBackStep == FunderInv /\ FallBack => FunderInv'
<1> SUFFICES ASSUME FunderInv, FallBack PROVE FunderInv'
  BY Zenon
<1>1. /\ funding = "short" /\ funding' = "priority" /\ ~request.sweep /\ loaded = {}
      /\ pass' = pass + 1 /\ pass + 1 \in DOMAIN request.passes
      /\ collector' = newCollector(request.passes[pass + 1]) /\ allocated' = <<>>
      /\ excluded' = request.forbidden /\ todo' = request.priority /\ tier' = 1 /\ drawn' = {}
      /\ UNCHANGED <<request, coins, loaded, split>>
  <2>1. request.passes \in Seq(Pass)
    BY RequestTypes, Zenon DEF FunderInv, Inputs
  <2> QED  BY <2>1 DEF FallBack, inputVars, FunderInv, Inputs, Stages
<1>2. Inputs'
  <2>1. request.passes[pass + 1] \in Pass /\ request.passes[pass + 1].tiers # <<>>
    BY <1>1, RequestTypes DEF FunderInv, Inputs
  <2>2. request.passes[pass + 1].tiers \in Seq(Tiers)
    BY <2>1, Zenon DEF Pass
  <2>3. 1 \in DOMAIN request.passes[pass + 1].tiers
    BY <2>1, <2>2
  <2> QED  BY <1>1, <2>3, Zenon DEF FunderInv, Inputs
<1>3. Consistent(newCollector(request.passes[pass + 1]), 0)
  BY <1>1, CollectorStarts, Zenon DEF FunderInv, Inputs
<1>4. Sizes'
  BY <1>1, <1>3 DEF Sizes, Consistent
<1>5. Rows' /\ Distinct'
  BY <1>1, RequestTypes DEF FunderInv, Inputs, Rows, Indexed, Among, IsInjective, Distinct
<1>6. Stages' /\ Outcome'
  BY <1>1, Zenon DEF FunderInv, Stages, Outcome, Settled
<1> QED  BY <1>2, <1>4, <1>5, <1>6, Zenon DEF FunderInv

\* What other database transactions lock changes nothing that was allocated.
LEMMA OtherSteps ==
  ASSUME FunderInv, UNCHANGED <<inputVars, passVars, collector, allocated, funding, split>>
  PROVE  FunderInv'
<1>1. UNCHANGED <<request, coins, pass, excluded, todo, tier, drawn, loaded, collector,
                  allocated, funding, split>>
  BY Zenon DEF inputVars, passVars
<1>2. Inputs' /\ Sizes'
  BY <1>1, SizesKept, Zenon DEF FunderInv, Inputs
<1>3. Rows' /\ Distinct' /\ Stages'
  <2>1. Indexed(drawn)' = Indexed(drawn) /\ Indexed(loaded)' = Indexed(loaded)
    BY <1>1, Zenon DEF Indexed
  <2>2. Rows' /\ Distinct'
    BY <1>1, <2>1, OfferedIsFixed, Zenon DEF FunderInv, Rows, Distinct
  <2> QED  BY <1>1, <2>2, Zenon DEF FunderInv, Stages
<1>4. Outcome'
  <2>1. IsFunded(collector)' = IsFunded(collector) /\ change(collector)' = change(collector)
    BY <1>1, Zenon DEF IsFunded, change
  <2> DEFINE splits == Distribute(changeInitialValue(collector), ChangeOutputsCount(collector),
                                  change(collector))
  <2>2. splits' = splits
    BY <1>1, <2>1, Zenon DEF changeInitialValue, ChangeOutputsCount
  <2>3. Outcome <=> /\ funding # "funded" => split = <<>>
                    /\ funding = "funded" =>
                         ~request.sweep /\ IsFunded(collector) /\ split \in splits
                    /\ funding = "swept" => request.sweep /\ change(collector) >= 0
                    /\ Settled
    BY Zenon DEF Outcome
  <2>4. Outcome' <=> /\ funding' # "funded" => split' = <<>>
                     /\ funding' = "funded" =>
                          ~request'.sweep /\ IsFunded(collector)' /\ split' \in splits'
                     /\ funding' = "swept" => request'.sweep /\ change(collector)' >= 0
                     /\ Settled'
    BY Zenon DEF Outcome
  <2>5. Settled' <=> Settled
    BY <1>1, Zenon DEF Settled
  <2> HIDE DEF splits
  <2>6. /\ funding' # "funded" => split' = <<>>
        /\ funding' = "funded" => ~request'.sweep /\ IsFunded(collector)' /\ split' \in splits'
        /\ funding' = "swept" => request'.sweep /\ change(collector)' >= 0
    BY <1>1, <2>1, <2>2, <2>3, Zenon DEF FunderInv
  <2>7. Settled'
    BY <2>3, <2>5, Zenon DEF FunderInv
  <2> QED  BY <2>4, <2>6, <2>7, Zenon
<1> QED  BY <1>2, <1>3, <1>4, Zenon DEF FunderInv

\* Every step of the call and of its environment keeps the invariant.
LEMMA InvariantKept == FunderInv /\ [FundNext]_fundVars => FunderInv'
<1> SUFFICES ASSUME FunderInv, [FundNext]_fundVars PROVE FunderInv'
  BY Zenon
<1>1. CASE allocatePriorityOutputs
  BY <1>1, PriorityStep, Zenon
<1>2. CASE PriorityDone \/ run \/ DrainDone \/ SweepDone \/ Refuse
  BY <1>2, DecisionSteps, Zenon
<1>3. CASE Sufficient
  BY <1>3, SufficientStep, Zenon
<1>4. CASE Insufficient \/ drainBatch
  BY <1>4, DrainSteps, Zenon
<1>5. CASE loadUTXOPool \/ allocateSweep
  BY <1>5, SweepSteps, Zenon
<1>6. CASE GetResult
  BY <1>6, ResultStep, Zenon
<1>7. CASE FallBack
  BY <1>7, FallBackStep, Zenon
<1>8. ASSUME NEW o \in Coins, Take(o) \/ GiveBack(o) PROVE FunderInv'
  BY <1>8, OtherSteps, Zenon DEF Take, GiveBack
<1>9. CASE UNCHANGED fundVars
  BY <1>9, OtherSteps, Zenon DEF fundVars
<1> QED
  BY <1>1, <1>2, <1>3, <1>4, <1>5, <1>6, <1>7, <1>8, <1>9, Zenon DEF FundNext

-----------------------------------------------------------------------------

\* A list made of n values has length n.
LEMMA LengthOf ==
  ASSUME NEW s, NEW n \in Nat, NEW S, s \in [1..n -> S]
  PROVE  Len(s) = n
<1>1. s \in Seq(S)
  OBVIOUS
<1> QED  BY <1>1

\* Distribute returns as many outputs as were counted, or none when there is no change,
\* whatever the randomizer does.
LEMMA SplitLength ==
  ASSUME NEW init \in Nat \ {0}, NEW count \in Nat, NEW amount \in Nat,
         NEW s \in Distribute(init, count, amount)
  PROVE  Len(s) = IF amount = 0 THEN 0 ELSE count
<1>1. CASE count = 0 \/ amount = 0
  <2>1. count > 1 => count * init \in Nat \ {0}
    OBVIOUS
  <2>2. s = <<>>
    BY <1>1, <2>1 DEF Distribute
  <2> QED  BY <1>1, <2>2, Zenon
<1>2. CASE count = 1 /\ amount # 0
  <2>1. s = <<amount>>
    BY <1>2 DEF Distribute
  <2> QED  BY <1>2, <2>1, Zenon
<1>3. CASE count > 1 /\ amount # 0
  <2>1. \/ s = Repeat(init, count)
        \/ s \in saturatedRandomDistribution(init, count, amount)
        \/ s \in notSaturatedDistribution(init, count, amount)
    BY <1>3 DEF Distribute
  <2>2. CASE s = Repeat(init, count)
    <3>1. s \in [1..count -> Nat]
      BY <2>2, Zenon DEF Repeat
    <3> QED  BY <1>3, <3>1, LengthOf, Zenon
  <2>3. CASE s \in saturatedRandomDistribution(init, count, amount)
    <3>1. DOMAIN s = 1..count /\ s = [i \in 1..count |-> s[i]]
      BY <2>3, Zenon DEF saturatedRandomDistribution
    <3>2. s \in [1..count -> {s[i] : i \in 1..count}]
      BY <3>1, Zenon
    <3> QED  BY <1>3, <3>2, LengthOf, Zenon
  <2>4. CASE s \in notSaturatedDistribution(init, count, amount)
    <3>1. Repeat(init, count - 1) \in [1..count - 1 -> Int]
      BY DEF Repeat
    <3>2. Repeat(init, count - 1) \in Seq(Int) /\ Len(Repeat(init, count - 1)) = count - 1
      BY <1>3, <3>1, LengthOf
    <3>3. (count - 1) * init \in Int
      OBVIOUS
    <3>4. <<amount - (count - 1) * init>> \in Seq(Int)
      BY <3>3
    <3>5. s = <<amount - (count - 1) * init>> \o Repeat(init, count - 1)
      BY <2>4, Zenon DEF notSaturatedDistribution
    <3> QED  BY <1>3, <3>2, <3>4, <3>5
  <2> QED  BY <2>1, <2>2, <2>3, <2>4, Zenon
<1> QED  BY <1>1, <1>2, <1>3

\* The fee of a final state: the counted size when the change outputs are made, at least
\* the size without them when the change is donated.
LEMMA InvariantPays == FunderInv => FundedPays
<1>0. FunderInv /\ funding = "contended" => Offered
  BY Zenon DEF FunderInv, Outcome, Settled, Distinct
<1> SUFFICES ASSUME FunderInv, funding \in {"funded", "swept"}
             PROVE  /\ IsInjective(allocated) /\ Range(allocated) \cap request.forbidden = {}
                    /\ Paid >= Calculate(request.size + Len(allocated) * InputSize
                                           + Len(split) * OutputSize)
                    /\ request.outputs + Len(split) > 0
                    /\ change(collector) >= 0
  BY <1>0, Zenon DEF FundedPays
<1> DEFINE n == Len(allocated)
           k == collector.changeOutputsCount
           bare == request.size + n * InputSize
<1>1. /\ n \in Nat /\ k \in Nat /\ bare \in Nat /\ k * OutputSize \in Nat
      /\ collector.txSize = bare + k * OutputSize /\ collector.fee = Calculate(collector.txSize)
      /\ collector.fee \in Nat /\ collector.satsCovered \in Nat /\ change(collector) \in Int
      /\ request.target \in Int /\ request.outputs \in Nat /\ OutputSize \in Nat
      /\ collector.minimum \in Nat
  <2>1. n \in Nat /\ InputSize \in Nat /\ OutputSize \in Nat /\ request.size \in Nat
        /\ request.target \in Int /\ request.outputs \in Nat
    BY RequestTypes, FunderAssumption DEF FunderInv, Inputs, Sizes
  <2>2. n * InputSize \in Nat
    BY <2>1
  <2>3. /\ collector \in Collector /\ collector.fee = Calculate(collector.txSize)
        /\ collector.txSize = bare + k * OutputSize
    BY Zenon DEF FunderInv, Sizes, Consistent
  <2>4. /\ k \in Nat /\ collector.fee \in Nat /\ collector.satsCovered \in Nat
        /\ collector.minimum \in Nat
    BY <2>3, Zenon DEF Collector
  <2>5. change(collector) \in Int
    BY <2>1, <2>4 DEF change
  <2>6. k * OutputSize \in Nat
    BY <2>1, <2>4
  <2> HIDE DEF n, k
  <2>7. bare \in Nat
    BY <2>1, <2>2
  <2> QED  BY <2>1, <2>3, <2>4, <2>5, <2>6, <2>7, Zenon
<1>2. collector.satsCovered - request.target = change(collector) + collector.fee
  BY <1>1 DEF change
<1>3. DustFloor \in Nat /\ DustFloor >= 1
  <2>1. MinSpendSize \in Nat /\ MinSpendSize <= MinSpendSize
    BY FunderAssumption
  <2>2. Calculate(MinSpendSize) \in Nat
    BY <2>1, FeeGrows, Zenon
  <2> QED  BY <2>2 DEF DustFloor, Larger
<1>4. Calculate(bare) <= collector.fee /\ Calculate(bare) \in Nat
  <2> HIDE DEF bare, k
  <2>1. collector.txSize \in Nat /\ bare <= collector.txSize
    BY <1>1
  <2> QED  BY Zenon, <1>1, <2>1, FeeGrows
<1>5. IsInjective(allocated) /\ Range(allocated) \cap request.forbidden = {}
  <2>1. allocated \in Seq(Coins)
    BY Zenon DEF FunderInv, Sizes
  <2>2. IsInjective(allocated)
    BY Zenon DEF FunderInv, Outcome, Settled
  <2> QED  BY <2>1, <2>2 DEF FunderInv, Rows, Among, Range
<1>6. CASE funding = "swept"
  <2>1. split = <<>> /\ Len(split) = 0 /\ request.outputs > 0 /\ change(collector) >= 0
    BY <1>6, RequestTypes, Zenon DEF FunderInv, Outcome, Settled, Inputs
  <2>2. Paid = collector.fee
    BY <1>1, <1>2, <1>6 DEF Paid
  <2>3. request.size + Len(allocated) * InputSize + Len(split) * OutputSize = bare
    BY <1>1, <2>1
  <2> HIDE DEF bare
  <2> QED  BY <1>1, <1>4, <1>5, <2>1, <2>2, <2>3
<1>7. CASE funding = "funded"
  <2>1. /\ IsFunded(collector)
        /\ split \in Distribute(changeInitialValue(collector), ChangeOutputsCount(collector),
                                change(collector))
    BY <1>7, Zenon DEF FunderInv, Outcome, Settled
  <2>2. change(collector) >= 0
    BY <1>1, <1>3, <2>1 DEF IsFunded
  <2>3. changeInitialValue(collector) \in Nat \ {0} /\ ChangeOutputsCount(collector) \in Nat
    BY <1>1, <1>3 DEF changeInitialValue, ChangeOutputsCount, Larger
  <2>4. Len(split) = IF change(collector) = 0 THEN 0 ELSE ChangeOutputsCount(collector)
    <3>1. change(collector) \in Nat
      BY <1>1, <2>2
    <3>2. ASSUME NEW init \in Nat \ {0}, NEW count \in Nat, NEW amount \in Nat,
                 split \in Distribute(init, count, amount)
          PROVE  Len(split) = IF amount = 0 THEN 0 ELSE count
      BY <3>2, SplitLength, Zenon
    <3> QED  BY <2>1, <2>3, <3>1, <3>2, Zenon
  <2>5. Len(split) = 0 \/ Len(split) = k
    BY <2>4, Zenon DEF ChangeOutputsCount
  <2>6. request.outputs + Len(split) > 0
    <3>0. Len(split) \in Nat /\ request.outputs \in Nat
      BY <1>1, <2>5
    <3>1. CASE request.outputs # 0
      BY <3>0, <3>1
    <3>2. CASE request.outputs = 0
      <4>1. k > 0 /\ change(collector) >= DustFloor
        BY <2>1, <3>2, Zenon DEF IsFunded
      <4>2. change(collector) # 0 /\ ~(change(collector) < DustFloor)
        BY <1>1, <1>3, <4>1
      <4>3. Len(split) = k
        BY <2>4, <4>2, Zenon DEF ChangeOutputsCount
      <4> HIDE DEF k
      <4> QED  BY <3>0, <3>2, <4>1, <4>3
    <3> QED  BY <3>1, <3>2, Zenon
  <2>7. Paid >= collector.fee /\ Paid \in Int
    <3> DEFINE kept == collector.satsCovered - request.target
    <3>1. kept \in Int /\ kept = change(collector) + collector.fee
      BY <1>1, <1>2
    <3>2. Paid = kept \/ Paid = kept - change(collector)
      BY Zenon DEF Paid
    <3> HIDE DEF kept, bare, k, n
    <3> QED  BY <1>1, <2>2, <3>1, <3>2
  <2>8. Calculate(bare + Len(split) * OutputSize) <= collector.fee
    <3>1. CASE Len(split) = 0
      <4>1. bare + Len(split) * OutputSize = bare
        BY <1>1, <3>1
      <4> QED  BY <1>4, <4>1, Zenon
    <3>2. CASE Len(split) = k
      BY <1>1, <3>2
    <3> QED  BY <2>5, <3>1, <3>2, Zenon
  <2>9. Calculate(bare + Len(split) * OutputSize) \in Nat
    <3>1. Len(split) \in Nat
      BY <1>1, <2>5
    <3>2. Len(split) * OutputSize \in Nat
      BY <1>1, <3>1
    <3>3. bare \in Nat
      BY <1>1, Zenon
    <3> HIDE DEF bare
    <3>4. bare + Len(split) * OutputSize \in Nat
      BY <3>2, <3>3
    <3> QED  BY <3>4, FeeGrows
  <2>10. Paid >= Calculate(bare + Len(split) * OutputSize)
    <3> HIDE DEF bare
    <3> QED  BY <1>1, <2>7, <2>8, <2>9
  <2> QED  BY <1>5, <2>2, <2>6, <2>10, Zenon
<1> QED  BY <1>6, <1>7, Zenon

\* For all rows, requests, fee rates, sizes and batches, priority outputs that the
\* queries offer too included: a transaction that is funded or swept pays the fee of the
\* size it ends up with, has an output, and spends no row twice; one that is refused
\* because it would has such a priority output.
THEOREM FundingPays == FundSpec => []FundedPays
<1>1. FundInit => FunderInv
  BY InitHolds, Zenon
<1>2. FunderInv /\ [FundNext]_fundVars => FunderInv'
  BY InvariantKept, Zenon
<1>3. FunderInv => FundedPays
  BY InvariantPays, Zenon
<1> QED  BY <1>1, <1>2, <1>3, PTL DEF FundSpec
=============================================================================
