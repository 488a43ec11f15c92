----------------------------- MODULE PoolSafety -----------------------------
(***************************************************************************)
(* The background broadcaster, for every set of transactions and parents,  *)
(* every number of workers and items, every channel size and every wait.   *)
(***************************************************************************)
EXTENDS BackgroundBroadcaster, FiniteSetTheorems, TLAPS

Parked(n) == \E t \in Txs : n \in waiting[t]
Freed(n) == \E p \in Procs : n \in released[p]
InHand(n) == \E p \in Procs : hand[p] = n

\* An item is in one place at a time, and there only once; it was handed to
\* BackgroundBroadcast when it is in the hand of a worker that posts, and then it
\* is in no other place.
OnePlace(n) ==
  /\ n \in channel => n \notin requeueQueue /\ n \notin batch /\ ~Parked(n) /\ ~Freed(n)
  /\ n \in requeueQueue => n \notin batch /\ ~Parked(n) /\ ~Freed(n)
  /\ n \in batch => ~Parked(n) /\ ~Freed(n)
  /\ Parked(n) => ~Freed(n)
  /\ InHand(n) \/ n \in handled =>
       n \notin channel /\ n \notin requeueQueue /\ n \notin batch /\ ~Parked(n) /\ ~Freed(n)
  /\ \A t, u \in Txs : n \in waiting[t] /\ n \in waiting[u] => t = u
  /\ \A p, q \in Procs : n \in released[p] /\ n \in released[q] => p = q
  /\ \A p, q \in Procs : hand[p] = n /\ hand[q] = n => p = q
  /\ \A p \in Procs : hand[p] = n => (n \in handled <=> pc[p] = "posting")

\* An item that has not been added is nowhere.
Unknown(n) ==
  n \notin channel \cup requeueQueue \cup batch \cup handled /\ ~Parked(n) /\ ~Freed(n) /\ ~InHand(n)

\* What a goroutine holds by where it is.
HoldsByStep ==
  /\ \A p \in Procs : hand[p] # 0 <=> pc[p] \in {"taken", "posting"}
  /\ \A p \in Procs : released[p] # {} => pc[p] = "requeue"
  /\ hand["sweeper"] = 0
  /\ batch # {} => dispatcher \in {"sending", "gone"}

\* Every accepted item is known while the pool runs.
NoneLost(n) ==
  \/ n \in channel \cup requeueQueue \cup batch \cup handled
  \/ Parked(n) \/ Freed(n) \/ InHand(n)

Placed(n) ==
  /\ OnePlace(n)
  /\ n > added => Unknown(n)
  /\ n <= added /\ state = "running" => NoneLost(n)

PoolInv ==
  /\ TypeOK /\ HoldsByStep
  /\ \A n \in Items : Placed(n)
  /\ posted \subseteq acknowledged
  /\ ParentsPostedFirst

-----------------------------------------------------------------------------
(* Types.                                                                  *)

\* The channel stays within its size.
LEMMA ChannelBound ==
  ASSUME channel \subseteq Items, Cardinality(channel) < ChannelSize, NEW n \in Items
  PROVE  Cardinality(channel \cup {n}) <= ChannelSize
<1>1. IsFiniteSet(Items)
  BY PoolAssumption, FS_Interval DEF Items
<1>2. IsFiniteSet(channel) /\ Cardinality(channel) \in Nat
  BY <1>1, FS_Subset, FS_CardinalityType, Zenon
<1>3. Cardinality(channel \cup {n}) \in {Cardinality(channel), Cardinality(channel) + 1}
  BY <1>2, FS_AddElement, Zenon
<1> QED  BY <1>2, <1>3, PoolAssumption

\* A worker that takes an item leaves room in the channel.
LEMMA ChannelShrinks ==
  ASSUME channel \subseteq Items, Cardinality(channel) <= ChannelSize, NEW n
  PROVE  Cardinality(channel \ {n}) <= ChannelSize
<1>1. IsFiniteSet(Items)
  BY PoolAssumption, FS_Interval DEF Items
<1>2. IsFiniteSet(channel) /\ Cardinality(channel) \in Nat
  BY <1>1, FS_Subset, FS_CardinalityType, Zenon
<1>3. Cardinality(channel \ {n}) \in {Cardinality(channel), Cardinality(channel) - 1}
  BY <1>2, FS_RemoveElement, Zenon
<1> QED  BY <1>2, <1>3, PoolAssumption

Steps == {"idle", "taken", "posting", "requeue", "waking", "gone"}

\* Every step keeps the types, the channel's size and the clock's limit.
LEMMA TypeStep == ASSUME TypeOK, HoldsByStep, Next PROVE TypeOK'
<1> USE DEF itemVars, setVars, procVars, requeueVars, dispatchVars, historyVars
<1>1. ASSUME NEW ids \in SUBSET Txs, Add(ids) PROVE TypeOK'
  <2>1. added + 1 \in Items /\ added' = added + 1 /\ added + 1 \in 0..MaxAdds
    BY <1>1, PoolAssumption DEF Add, TypeOK, Items
  <2>2. channel' \subseteq Items /\ Cardinality(channel') <= ChannelSize
    BY <1>1, <2>1, ChannelBound, Zenon DEF Add, TypeOK
  <2> QED  BY <1>1, <2>1, <2>2, Zenon DEF Add, TypeOK
<1>2. ASSUME NEW n \in Items, MarkEnqueued(n) PROVE TypeOK'
  BY <1>2, Zenon DEF MarkEnqueued, TypeOK
<1>3. ASSUME NEW w \in Workers, Worker(w) PROVE TypeOK'
  <2>0. w \in Procs
    BY Zenon DEF Procs
  <2>t. ClockLimit \in Nat /\ 1 \in 0..ClockLimit /\ 0 \in 0..ClockLimit
    BY PoolAssumption DEF ClockLimit
  <2>h. pc[w] \in {"taken", "posting"} => hand[w] \in Items
    BY <2>0, Zenon DEF TypeOK, HoldsByStep
  <2>1. ASSUME NEW n \in Items, Take(w, n) PROVE TypeOK'
    <3>1. channel' \subseteq Items /\ Cardinality(channel') <= ChannelSize
      BY <2>1, ChannelShrinks, Zenon DEF Take, TypeOK
    <3> QED  BY <2>1, <3>1, Zenon DEF Take, TypeOK
  <2>2. CASE Park(w)
    <3>1. hand[w] \in Items
      BY <2>2, <2>h, Zenon DEF Park
    <3>2. PICK parent : waiting' = [waiting EXCEPT ![parent] = waiting[parent] \cup {hand[w]}]
      BY <2>2, Zenon DEF Park
    <3>3. waiting' \in [Txs -> SUBSET Items]
      BY <3>1, <3>2, Zenon DEF TypeOK
    <3>4. waited' \in [Items -> 0..ClockLimit]
      BY <2>2, <2>t, Zenon DEF Park, TypeOK
    <3> QED  BY <2>2, <3>3, <3>4, Zenon DEF Park, TypeOK
  <2>3. CASE Post(w)
    BY <2>3, <2>h, Zenon DEF Post, TypeOK
  <2>4. CASE PostFails(w)
    BY <2>4, <2>t, Zenon DEF PostFails, Forget, TypeOK
  <2>5. CASE MarkPostedAndRelease(w)
    <3>1. hand[w] \in Items
      BY <2>5, <2>h, Zenon DEF MarkPostedAndRelease
    <3>2. txIDs[hand[w]] \subseteq Txs
      BY <3>1, Zenon DEF TypeOK
    <3>3. UNION {waiting[t] : t \in txIDs[hand[w]]} \subseteq Items
      BY <3>2 DEF TypeOK
    <3>4. released' \in [Procs -> SUBSET Items] /\ waiting' \in [Txs -> SUBSET Items]
      BY <2>5, <3>3, Zenon DEF MarkPostedAndRelease, TypeOK
    <3>5. pc' \in [Procs -> Steps]
      BY <2>5, Zenon DEF MarkPostedAndRelease, TypeOK, Steps
    <3>6. posted' \subseteq Txs /\ acknowledged' \subseteq Txs
      BY <2>5, <3>2, Zenon DEF MarkPostedAndRelease, TypeOK
    <3>7. /\ txIDs' \in [Items -> SUBSET Txs] /\ waited' \in [Items -> 0..ClockLimit]
          /\ force' \in [Items -> BOOLEAN] /\ hand' \in [Procs -> Items \cup {0}]
      BY <2>5, <2>t, Zenon DEF MarkPostedAndRelease, Forget, TypeOK
    <3> QED  BY <2>5, <3>4, <3>5, <3>6, <3>7, Zenon DEF MarkPostedAndRelease, TypeOK, Steps
  <2> QED  BY <1>3, <2>1, <2>2, <2>3, <2>4, <2>5, Zenon DEF Worker
<1>4. ASSUME NEW p \in Procs, Goroutine(p) PROVE TypeOK'
  BY <1>4, Zenon DEF Goroutine, Requeue, Wake, Exit, TypeOK
<1>5. CASE Woken \/ TakeBatch \/ DispatcherExit \/ Cancel \/ Close
  BY <1>5, Zenon DEF Woken, TakeBatch, DispatcherExit, Cancel, Close, TypeOK
<1>6. ASSUME NEW n \in Items, Dispatch(n) PROVE TypeOK'
  <2>1. channel' \subseteq Items /\ Cardinality(channel') <= ChannelSize
    BY <1>6, ChannelBound, Zenon DEF Dispatch, TypeOK
  <2> QED  BY <1>6, <2>1, Zenon DEF Dispatch, TypeOK
<1>7. CASE Tick
  <2>1. ClockLimit \in Nat
    BY PoolAssumption DEF ClockLimit
  <2>2. waited' \in [Items -> 0..ClockLimit]
    BY <1>7, <2>1 DEF Tick, TypeOK
  <2> QED  BY <1>7, <2>2, Zenon DEF Tick, TypeOK
<1>8. ASSUME NEW old \in SUBSET Txs, Sweep(old) PROVE TypeOK'
  <2> DEFINE expired == UNION {Expired(t) : t \in Txs}
  <2>1. expired \subseteq Items
    BY DEF TypeOK, Expired
  <2>2. /\ force' = [n \in Items |-> force[n] \/ n \in expired]
        /\ released' = [released EXCEPT !["sweeper"] = expired]
        /\ pc' = [pc EXCEPT !["sweeper"] = IF expired = {} THEN "idle" ELSE "requeue"]
        /\ waiting' = [t \in Txs |-> waiting[t] \ Expired(t)]
    BY <1>8, Zenon DEF Sweep
  <2> HIDE DEF expired
  <2>3. /\ released' \in [Procs -> SUBSET Items] /\ waiting' \in [Txs -> SUBSET Items]
        /\ pc' \in [Procs -> Steps]
    BY <2>1, <2>2, Zenon DEF TypeOK, Steps
  <2>4. force' \in [Items -> BOOLEAN]
    BY <2>2, Zenon DEF TypeOK
  <2> QED  BY <1>8, <2>3, <2>4, Zenon DEF Sweep, TypeOK, Steps
<1> QED  BY <1>1, <1>2, <1>3, <1>4, <1>5, <1>6, <1>7, <1>8, Zenon DEF Next, Dispatcher

\* A goroutine lets go of what it holds when it moves on.
LEMMA HoldsStep == ASSUME TypeOK, HoldsByStep, Next PROVE HoldsByStep'
<1> USE DEF itemVars, setVars, procVars, requeueVars, dispatchVars, historyVars
<1>s. "sweeper" \in Procs /\ "sweeper" \notin Workers /\ Workers \subseteq Procs
  BY PoolAssumption, Zenon DEF Procs
<1>1. CASE (\E ids \in SUBSET Txs : Add(ids)) \/ (\E n \in Items : MarkEnqueued(n)) \/ Tick
            \/ Cancel \/ Close \/ Woken \/ DispatcherExit \/ TakeBatch
            \/ \E n \in Items : Dispatch(n)
  BY <1>1, Zenon DEF Add, MarkEnqueued, Tick, Cancel, Close, Woken, DispatcherExit, TakeBatch,
     Dispatch,
     HoldsByStep
<1>2. ASSUME NEW w \in Workers, Worker(w) PROVE HoldsByStep'
  <2>0. w \in Procs /\ w # "sweeper"
    BY <1>s, Zenon
  <2>1. ASSUME NEW n \in Items, Take(w, n) PROVE HoldsByStep'
    <3>1. n # 0
      BY DEF Items
    <3> QED  BY <2>0, <2>1, <3>1 DEF Take, HoldsByStep, TypeOK
  <2>2. CASE Park(w) \/ Post(w) \/ PostFails(w)
    <3>1. CASE Park(w)
      BY <2>0, <3>1 DEF Park, HoldsByStep, TypeOK
    <3>2. CASE Post(w)
      BY <2>0, <3>2, Zenon DEF Post, HoldsByStep, TypeOK
    <3>3. CASE PostFails(w)
      BY <2>0, <3>3 DEF PostFails, HoldsByStep, TypeOK
    <3> QED  BY <2>2, <3>1, <3>2, <3>3, Zenon
  <2>3. CASE MarkPostedAndRelease(w)
    BY <2>0, <2>3 DEF MarkPostedAndRelease, HoldsByStep, TypeOK
  <2> QED  BY <1>2, <2>1, <2>2, <2>3, Zenon DEF Worker
<1>3. ASSUME NEW p \in Procs, Goroutine(p) PROVE HoldsByStep'
  BY <1>3, Zenon DEF Goroutine, Requeue, Wake, Exit, HoldsByStep, TypeOK
<1>4. ASSUME NEW old \in SUBSET Txs, Sweep(old) PROVE HoldsByStep'
  <2> DEFINE expired == UNION {Expired(t) : t \in Txs}
  <2>1. /\ released' = [released EXCEPT !["sweeper"] = expired] /\ pc["sweeper"] = "idle"
        /\ pc' = [pc EXCEPT !["sweeper"] = IF expired = {} THEN "idle" ELSE "requeue"]
        /\ UNCHANGED <<hand, batch, dispatcher>>
    BY <1>4, Zenon DEF Sweep
  <2> HIDE DEF expired
  <2> QED  BY <1>s, <2>1, Zenon DEF HoldsByStep, TypeOK
<1> QED  BY <1>1, <1>2, <1>3, <1>4, Zenon DEF Next, Dispatcher

-----------------------------------------------------------------------------
(* Where the items are.                                                    *)

placeVars == <<channel, requeueQueue, batch, waiting, released, hand, handled>>

\* Steps that move no item.
LEMMA StillPlaced ==
  ASSUME TypeOK, NEW n \in Items, Placed(n), UNCHANGED <<placeVars, added>>,
         state' = "running" => state = "running",
         \A p \in Procs : pc'[p] = "posting" <=> pc[p] = "posting"
  PROVE  Placed(n)'
<1> USE DEF placeVars
<1>1. /\ Parked(n)' <=> Parked(n)
      /\ Freed(n)' <=> Freed(n)
      /\ InHand(n)' <=> InHand(n)
  BY Zenon DEF Parked, Freed, InHand
<1>2. OnePlace(n)'
  BY <1>1, Zenon DEF Placed, OnePlace
<1> QED  BY <1>1, <1>2, Zenon DEF Placed, Unknown, NoneLost

\* Add brings a new item to the channel.
LEMMA AddPlaces ==
  ASSUME TypeOK, NEW n \in Items, Placed(n), NEW ids, Add(ids)
  PROVE  Placed(n)'
<1> USE DEF Add, setVars, procVars, requeueVars, dispatchVars, historyVars
<1>0. added \in Nat /\ n \in Nat
  BY DEF TypeOK, Items
<1>1. /\ Parked(n)' <=> Parked(n)
      /\ Freed(n)' <=> Freed(n)
      /\ InHand(n)' <=> InHand(n)
  BY Zenon DEF Parked, Freed, InHand
<1>2. CASE n = added + 1
  <2>1. Unknown(n)
    BY <1>0, <1>2 DEF Placed
  <2>2. n \in channel'
    BY <1>2, Zenon
  <2>3. OnePlace(n)'
    BY <1>1, <2>1, <2>2, Zenon DEF OnePlace, Unknown, Parked, Freed, InHand
  <2> QED  BY <1>0, <1>2, <2>2, <2>3 DEF Placed, NoneLost
<1>3. CASE n # added + 1
  <2>1. n \in channel' <=> n \in channel
    BY <1>3, Zenon
  <2>2. OnePlace(n)'
    BY <1>1, <2>1, Zenon DEF Placed, OnePlace
  <2>3. (n > added' => n > added) /\ (n <= added' => n <= added)
    BY <1>0, <1>3
  <2> QED  BY <1>1, <2>1, <2>2, <2>3, Zenon DEF Placed, Unknown, NoneLost
<1> QED  BY <1>2, <1>3, Zenon

\* Take moves an item from the channel into a free hand.
LEMMA TakePlaces ==
  ASSUME TypeOK, HoldsByStep, NEW n \in Items, Placed(n), NEW w \in Procs, NEW m \in Items, Take(w, m)
  PROVE  Placed(n)'
<1> USE DEF Take, itemVars, setVars, requeueVars, dispatchVars, historyVars
<1>0. hand[w] = 0 /\ n # 0
  BY DEF HoldsByStep, Items
<1>1. hand'[w] = m /\ pc'[w] = "taken"
      /\ \A p \in Procs : p # w => hand'[p] = hand[p] /\ pc'[p] = pc[p]
  BY Zenon DEF TypeOK
<1>2. Parked(n)' <=> Parked(n)
  BY Zenon DEF Parked
<1>3. Freed(n)' <=> Freed(n)
  BY Zenon DEF Freed
<1>4. CASE n = m
  <2>1. n \in channel /\ n \notin channel'
    BY <1>4, Zenon
  <2>2. ~InHand(n) /\ n \notin handled
    BY <2>1, Zenon DEF Placed, OnePlace
  <2>3. \A p \in Procs : hand'[p] = n => p = w
    BY <1>1, <2>2, Zenon DEF InHand
  <2>4. InHand(n)'
    BY <1>1, <1>4, Zenon DEF InHand
  <2>5. OnePlace(n)'
    BY <1>1, <1>2, <1>3, <2>1, <2>2, <2>3, Zenon DEF Placed, OnePlace
  <2> QED  BY <1>2, <1>3, <2>1, <2>4, <2>5, Zenon DEF Placed, Unknown, NoneLost
<1>5. CASE n # m
  <2>1. \A p \in Procs : hand'[p] = n <=> hand[p] = n
    BY <1>0, <1>1, <1>5, Zenon
  <2>2. InHand(n)' <=> InHand(n)
    BY <2>1, Zenon DEF InHand
  <2>3. n \in channel' <=> n \in channel
    BY <1>5, Zenon
  <2>4. OnePlace(n)'
    BY <1>0, <1>1, <1>2, <1>3, <2>1, <2>2, <2>3, Zenon DEF Placed, OnePlace
  <2> QED  BY <1>2, <1>3, <2>2, <2>3, <2>4, Zenon DEF Placed, Unknown, NoneLost
<1> QED  BY <1>4, <1>5, Zenon

\* Park moves an item from the hand under one parent.
LEMMA ParkPlaces ==
  ASSUME TypeOK, HoldsByStep, NEW n \in Items, Placed(n), NEW w \in Procs, Park(w)
  PROVE  Placed(n)'
<1> USE DEF setVars, requeueVars, dispatchVars, historyVars
<1> DEFINE m == hand[w]
<1>0. /\ pc[w] = "taken" /\ m \in Items /\ n # 0
      /\ UNCHANGED <<channel, requeueQueue, batch, released, handled, added, state>>
  BY DEF TypeOK, HoldsByStep, Items, Park
<1>1. hand'[w] = 0 /\ pc'[w] = "idle"
      /\ \A p \in Procs : p # w => hand'[p] = hand[p] /\ pc'[p] = pc[p]
  BY Zenon DEF TypeOK, Park
<1>2. PICK parent \in Txs : waiting' = [waiting EXCEPT ![parent] = waiting[parent] \cup {m}]
  <2>1. txIDs[m] \subseteq Txs
    BY <1>0, Zenon DEF TypeOK
  <2>2. UnpostedParents(m) \subseteq Txs
    BY <2>1, PoolAssumption, Zenon DEF UnpostedParents
  <2> QED  BY <2>2, Zenon DEF Park
<1>3. \A t \in Txs : waiting'[t] = IF t = parent THEN waiting[t] \cup {m} ELSE waiting[t]
  BY <1>2, Zenon DEF TypeOK
<1>4. Freed(n)' <=> Freed(n)
  BY <1>0, Zenon DEF Freed
<1>5. CASE n = m
  <2>1. InHand(n) /\ n \notin handled
    BY <1>0, <1>5, Zenon DEF InHand, Placed, OnePlace
  <2>2. ~Parked(n)
    BY <2>1, Zenon DEF Placed, OnePlace
  <2>3. \A t \in Txs : n \in waiting'[t] <=> t = parent
    BY <1>3, <1>5, <2>2, Zenon DEF Parked
  <2>4. Parked(n)'
    BY <2>3, Zenon DEF Parked
  <2>5. \A p \in Procs : hand'[p] # n
    BY <1>0, <1>1, <1>5, Zenon DEF Placed, OnePlace
  <2>6. ~InHand(n)'
    BY <2>5, Zenon DEF InHand
  <2>7. OnePlace(n)'
    BY <1>0, <1>4, <2>1, <2>3, <2>5, <2>6, Zenon DEF Placed, OnePlace
  <2> QED  BY <1>0, <1>4, <2>1, <2>4, <2>7, Zenon DEF Placed, Unknown, NoneLost
<1>6. CASE n # m
  <2>1. \A t \in Txs : n \in waiting'[t] <=> n \in waiting[t]
    BY <1>3, <1>6, Zenon
  <2>2. Parked(n)' <=> Parked(n)
    BY <2>1, Zenon DEF Parked
  <2>3. \A p \in Procs : hand'[p] = n <=> hand[p] = n
    BY <1>0, <1>1, <1>6, Zenon
  <2>4. InHand(n)' <=> InHand(n)
    BY <2>3, Zenon DEF InHand
  <2>5. OnePlace(n)'
    BY <1>0, <1>1, <1>4, <2>1, <2>2, <2>3, <2>4 DEF Placed, OnePlace
  <2> QED  BY <1>0, <1>4, <2>2, <2>4, <2>5, Zenon DEF Placed, Unknown, NoneLost
<1> QED  BY <1>5, <1>6, Zenon

\* Post hands the item to BackgroundBroadcast.
LEMMA PostPlaces ==
  ASSUME TypeOK, HoldsByStep, NEW n \in Items, Placed(n), NEW w \in Procs, Post(w)
  PROVE  Placed(n)'
<1> USE DEF itemVars, setVars, requeueVars, dispatchVars
<1>0. /\ pc[w] = "taken" /\ hand[w] \in Items /\ handled' = handled \cup {hand[w]}
      /\ UNCHANGED <<channel, requeueQueue, batch, waiting, released, hand, added, state>>
  BY Zenon DEF TypeOK, HoldsByStep, Post
<1>1. pc'[w] = "posting" /\ \A p \in Procs : p # w => pc'[p] = pc[p]
  BY Zenon DEF TypeOK, Post
<1>2. /\ Parked(n)' <=> Parked(n)
      /\ Freed(n)' <=> Freed(n)
      /\ InHand(n)' <=> InHand(n)
  BY <1>0, Zenon DEF Parked, Freed, InHand
<1>3. n = hand[w] => InHand(n)
  BY Zenon DEF InHand
<1>4. OnePlace(n)'
  BY <1>0, <1>1, <1>2, <1>3, Zenon DEF Placed, OnePlace
<1> QED  BY <1>0, <1>2, <1>3, <1>4, Zenon DEF Placed, Unknown, NoneLost

\* A failed post drops the item, which has been handed over.
LEMMA PostFailsPlaces ==
  ASSUME TypeOK, HoldsByStep, NEW n \in Items, Placed(n), NEW w \in Procs, PostFails(w)
  PROVE  Placed(n)'
<1> USE DEF setVars, requeueVars, dispatchVars, historyVars
<1>0. /\ pc[w] = "posting" /\ n # 0
      /\ UNCHANGED <<channel, requeueQueue, batch, waiting, released, handled, added, state>>
  BY DEF PostFails, Items
<1>1. hand'[w] = 0 /\ pc'[w] = "idle"
      /\ \A p \in Procs : p # w => hand'[p] = hand[p] /\ pc'[p] = pc[p]
  BY Zenon DEF TypeOK, PostFails
<1>2. Parked(n)' <=> Parked(n)
  BY <1>0, Zenon DEF Parked
<1>3. Freed(n)' <=> Freed(n)
  BY <1>0, Zenon DEF Freed
<1>4. \A p \in Procs : hand'[p] = n => p # w /\ hand[p] = n /\ pc'[p] = pc[p]
  BY <1>0, <1>1, Zenon
<1>5. InHand(n)' => InHand(n)
  BY <1>4, Zenon DEF InHand
<1>6. InHand(n) /\ n \notin handled => InHand(n)'
  BY <1>0, <1>1, Zenon DEF InHand, Placed, OnePlace
<1>7. OnePlace(n)'
  BY <1>0, <1>2, <1>3, <1>4, <1>5, Zenon DEF Placed, OnePlace
<1> QED  BY <1>0, <1>2, <1>3, <1>5, <1>6, <1>7, Zenon DEF Placed, Unknown, NoneLost

\* A post that succeeds releases the children of what it posted.
LEMMA ReleasePlaces ==
  ASSUME TypeOK, HoldsByStep, NEW n \in Items, Placed(n), NEW w \in Procs, MarkPostedAndRelease(w)
  PROVE  Placed(n)'
<1> USE DEF requeueVars, dispatchVars
<1> DEFINE ids == txIDs[hand[w]]
<1>0. /\ pc[w] = "posting" /\ n # 0 /\ hand[w] \in Items /\ released[w] = {}
      /\ UNCHANGED <<channel, requeueQueue, batch, handled, added, state>>
  BY DEF MarkPostedAndRelease, Items, TypeOK, HoldsByStep
<1>1. ids \subseteq Txs
  BY <1>0, Zenon DEF TypeOK
<1>2. hand'[w] = 0 /\ pc'[w] # "posting"
      /\ \A p \in Procs : p # w => hand'[p] = hand[p] /\ pc'[p] = pc[p]
  BY Zenon DEF TypeOK, MarkPostedAndRelease
<1>3. \A p \in Procs :
        released'[p] = IF p = w THEN UNION {waiting[t] : t \in ids} ELSE released[p]
  BY Zenon DEF TypeOK, MarkPostedAndRelease
<1>4. \A t \in Txs : waiting'[t] = IF t \in ids THEN {} ELSE waiting[t]
  BY Zenon DEF MarkPostedAndRelease
<1> HIDE DEF ids
<1>5. \A p \in Procs : hand'[p] = n => p # w /\ hand[p] = n /\ pc'[p] = pc[p]
  BY <1>0, <1>2, Zenon
<1>6. InHand(n)' => InHand(n)
  BY <1>5, Zenon DEF InHand
<1>7. InHand(n) /\ n \notin handled => InHand(n)'
  BY <1>0, <1>2, Zenon DEF InHand, Placed, OnePlace
<1>8. CASE \E t \in ids : n \in waiting[t]
  <2>1. Parked(n) /\ ~Freed(n)
    BY <1>1, <1>8, Zenon DEF Parked, Placed, OnePlace
  <2>2. ~Parked(n)'
    BY <1>1, <1>4, <1>8, Zenon DEF Parked, Placed, OnePlace
  <2>3. \A p \in Procs : n \in released'[p] <=> p = w
    BY <1>3, <1>8, <2>1, Zenon DEF Freed
  <2>4. Freed(n)'
    BY <2>3, Zenon DEF Freed
  <2>5. OnePlace(n)'
    BY <1>0, <1>5, <1>6, <2>1, <2>2, <2>3, Zenon DEF Placed, OnePlace, Parked
  <2> QED  BY <1>0, <2>1, <2>4, <2>5, Zenon DEF Placed, Unknown, NoneLost
<1>9. CASE \A t \in ids : n \notin waiting[t]
  <2>1. \A t \in Txs : n \in waiting'[t] <=> n \in waiting[t]
    BY <1>4, <1>9, Zenon
  <2>2. Parked(n)' <=> Parked(n)
    BY <2>1, Zenon DEF Parked
  <2>n. n \notin UNION {waiting[t] : t \in ids}
    BY <1>9, Zenon
  <2>3. \A p \in Procs : n \in released'[p] <=> n \in released[p]
    BY <1>0, <1>3, <2>n, Zenon
  <2>4. Freed(n)' <=> Freed(n)
    BY <2>3, Zenon DEF Freed
  <2>5. OnePlace(n)'
    BY <1>0, <1>5, <1>6, <2>1, <2>2, <2>3, <2>4, Zenon DEF Placed, OnePlace
  <2> QED  BY <1>0, <1>6, <1>7, <2>2, <2>4, <2>5, Zenon DEF Placed, Unknown, NoneLost
<1> QED  BY <1>8, <1>9, Zenon

\* The sweeper releases the children whose wait is over.
LEMMA SweepPlaces ==
  ASSUME TypeOK, HoldsByStep, NEW n \in Items, Placed(n), NEW old, Sweep(old)
  PROVE  Placed(n)'
<1> USE DEF requeueVars, dispatchVars, historyVars
<1> DEFINE expired == UNION {Expired(t) : t \in Txs}
<1>0. /\ pc["sweeper"] = "idle" /\ released["sweeper"] = {}
      /\ UNCHANGED <<channel, requeueQueue, batch, hand, handled, added, state>>
  BY Zenon DEF Sweep, TypeOK, HoldsByStep, Procs
<1>1. \A p \in Procs : pc'[p] = "posting" <=> pc[p] = "posting"
  BY <1>0, Zenon DEF TypeOK, Sweep
<1>2. \A p \in Procs : released'[p] = IF p = "sweeper" THEN expired ELSE released[p]
  BY Zenon DEF TypeOK, Sweep
<1>3. \A t \in Txs : waiting'[t] = waiting[t] \ Expired(t) /\ Expired(t) \subseteq waiting[t]
  BY Zenon DEF Sweep, Expired
<1>4. n \in expired <=> \E t \in Txs : n \in Expired(t)
  BY Zenon
<1> HIDE DEF expired
<1>5. InHand(n)' <=> InHand(n)
  BY <1>0, Zenon DEF InHand
<1>6. CASE n \in expired
  <2>1. PICK t \in Txs : n \in Expired(t)
    BY <1>4, <1>6, Zenon
  <2>2. n \in waiting[t] /\ Parked(n) /\ ~Freed(n)
    BY <1>3, <2>1, Zenon DEF Parked, Placed, OnePlace
  <2>3. \A u \in Txs : n \notin waiting'[u]
    BY <1>3, <2>1, <2>2, Zenon DEF Placed, OnePlace
  <2>4. ~Parked(n)'
    BY <2>3, Zenon DEF Parked
  <2>5. \A p \in Procs : n \in released'[p] <=> p = "sweeper"
    BY <1>2, <1>6, <2>2, Zenon DEF Freed
  <2>6. Freed(n)'
    BY <2>5, Zenon DEF Freed, Procs
  <2>7. OnePlace(n)'
    BY <1>0, <1>1, <1>5, <2>2, <2>3, <2>4, <2>5, Zenon DEF Placed, OnePlace
  <2> QED  BY <1>0, <2>2, <2>6, <2>7, Zenon DEF Placed, Unknown, NoneLost
<1>7. CASE n \notin expired
  <2>1. \A u \in Txs : n \in waiting'[u] <=> n \in waiting[u]
    BY <1>3, <1>4, <1>7, Zenon
  <2>2. Parked(n)' <=> Parked(n)
    BY <2>1, Zenon DEF Parked
  <2>3. \A p \in Procs : n \in released'[p] <=> n \in released[p]
    BY <1>0, <1>2, <1>7, Zenon
  <2>4. Freed(n)' <=> Freed(n)
    BY <2>3, Zenon DEF Freed
  <2>5. OnePlace(n)'
    BY <1>0, <1>1, <1>5, <2>1, <2>2, <2>3, <2>4, Zenon DEF Placed, OnePlace
  <2> QED  BY <1>0, <1>5, <2>2, <2>4, <2>5, Zenon DEF Placed, Unknown, NoneLost
<1> QED  BY <1>6, <1>7, Zenon

\* requeue and the dispatcher bring released items back to the channel.
LEMMA RequeuePlaces ==
  ASSUME TypeOK, HoldsByStep, NEW n \in Items, Placed(n),
         (\E p \in Procs : Requeue(p)) \/ TakeBatch \/ \E m \in Items : Dispatch(m)
  PROVE  Placed(n)'
<1> USE DEF itemVars, setVars, procVars, requeueVars, historyVars
<1>1. ASSUME NEW p \in Procs, Requeue(p) PROVE Placed(n)'
  <2>0. /\ requeueQueue' = requeueQueue \cup released[p]
        /\ UNCHANGED <<channel, batch, waiting, hand, handled, added, state>>
    BY <1>1, Zenon DEF Requeue, dispatchVars
  <2>1. \A q \in Procs : /\ pc'[q] = "posting" <=> pc[q] = "posting"
                         /\ released'[q] = IF q = p THEN {} ELSE released[q]
    BY <1>1, Zenon DEF Requeue, TypeOK
  <2>2. Parked(n)' <=> Parked(n)
    BY <2>0, Zenon DEF Parked
  <2>3. InHand(n)' <=> InHand(n)
    BY <2>0, Zenon DEF InHand
  <2>4. n \in released[p] => Freed(n)
    BY Zenon DEF Freed
  <2>5. n \in released[p] => ~Freed(n)'
    BY <2>1, Zenon DEF Freed, Placed, OnePlace
  <2>6. n \notin released[p] => (Freed(n)' <=> Freed(n))
    BY <2>1, Zenon DEF Freed
  <2>7. OnePlace(n)'
    <3>1. CASE n \in released[p]
      BY <2>0, <2>1, <2>2, <2>3, <2>4, <2>5, <3>1, Zenon DEF Placed, OnePlace
    <3>2. CASE n \notin released[p]
      BY <2>0, <2>1, <2>2, <2>3, <2>6, <3>2, Zenon DEF Placed, OnePlace
    <3> QED  BY <3>1, <3>2, Zenon
  <2> QED  BY <2>0, <2>2, <2>3, <2>4, <2>5, <2>6, <2>7, Zenon DEF Placed, Unknown, NoneLost
<1>2. CASE TakeBatch
  <2>0. /\ batch = {} /\ batch' = requeueQueue /\ requeueQueue' = {}
        /\ UNCHANGED <<channel, waiting, released, hand, pc, handled, added, state>>
    BY <1>2, Zenon DEF TakeBatch, HoldsByStep
  <2>1. /\ Parked(n)' <=> Parked(n)
        /\ Freed(n)' <=> Freed(n)
        /\ InHand(n)' <=> InHand(n)
    BY <2>0, Zenon DEF Parked, Freed, InHand
  <2>2. OnePlace(n)'
    BY <2>0, <2>1, Zenon DEF Placed, OnePlace
  <2> QED  BY <2>0, <2>1, <2>2, Zenon DEF Placed, Unknown, NoneLost
<1>3. ASSUME NEW m \in Items, Dispatch(m) PROVE Placed(n)'
  <2>0. /\ m \in batch /\ channel' = channel \cup {m} /\ batch' = batch \ {m}
        /\ UNCHANGED <<requeueQueue, waiting, released, hand, pc, handled, added, state>>
    BY <1>3, Zenon DEF Dispatch
  <2>1. /\ Parked(n)' <=> Parked(n)
        /\ Freed(n)' <=> Freed(n)
        /\ InHand(n)' <=> InHand(n)
    BY <2>0, Zenon DEF Parked, Freed, InHand
  <2>2. OnePlace(n)'
    BY <2>0, <2>1, Zenon DEF Placed, OnePlace
  <2> QED  BY <2>0, <2>1, <2>2, Zenon DEF Placed, Unknown, NoneLost
<1> QED  BY <1>1, <1>2, <1>3, Zenon

\* Add, the workers, the sweeper, the dispatcher and Stop keep every item in one
\* place: none is lost between the channel, the waiting sets and a worker's hand.
LEMMA PlacesStep ==
  ASSUME TypeOK, HoldsByStep, NEW n \in Items, Placed(n), Next
  PROVE  Placed(n)'
<1> USE DEF itemVars, setVars, procVars, requeueVars, dispatchVars, historyVars
<1>0. Workers \subseteq Procs
  BY Zenon DEF Procs
<1>1. CASE \E ids \in SUBSET Txs : Add(ids)
  BY <1>1, AddPlaces, Zenon
<1>2. CASE (\E m \in Items : MarkEnqueued(m)) \/ Tick \/ Cancel \/ Close \/ Woken \/ DispatcherExit
  <2>1. UNCHANGED <<placeVars, added, pc>> /\ (state' = "running" => state = "running")
    BY <1>2, Zenon DEF MarkEnqueued, Tick, Cancel, Close, Woken, DispatcherExit, placeVars
  <2> QED  BY <2>1, StillPlaced, Zenon
<1>3. ASSUME NEW w \in Workers, Worker(w) PROVE Placed(n)'
  BY <1>0, <1>3, TakePlaces, ParkPlaces, PostPlaces, PostFailsPlaces, ReleasePlaces, Zenon DEF Worker
<1>4. ASSUME NEW p \in Procs, Goroutine(p) PROVE Placed(n)'
  <2>1. CASE Requeue(p)
    BY <2>1, RequeuePlaces, Zenon
  <2>2. CASE Wake(p) \/ Exit(p)
    <3>1. UNCHANGED <<placeVars, added, state>>
      BY <2>2, Zenon DEF Wake, Exit, placeVars
    <3>2. \A q \in Procs : pc'[q] = "posting" <=> pc[q] = "posting"
      BY <2>2, Zenon DEF Wake, Exit, TypeOK
    <3> QED  BY <3>1, <3>2, StillPlaced, Zenon
  <2> QED  BY <1>4, <2>1, <2>2, Zenon DEF Goroutine
<1>5. CASE TakeBatch \/ \E m \in Items : Dispatch(m)
  BY <1>5, RequeuePlaces, Zenon
<1>6. CASE \E old \in SUBSET Txs : Sweep(old)
  BY <1>6, SweepPlaces, Zenon
<1> QED  BY <1>1, <1>2, <1>3, <1>4, <1>5, <1>6, Zenon DEF Next, Dispatcher

-----------------------------------------------------------------------------
(* Parents first.                                                          *)

AfterParents(w) ==
  pc[w] = "posting" /\ ~force[hand[w]]
    => UNION {Parents[t] : t \in txIDs[hand[w]]} \subseteq acknowledged \cup txIDs[hand[w]]

\* An item without unposted parents depends on itself and on what was posted only.
LEMMA ParentsSeen ==
  ASSUME NEW n, UnpostedParents(n) = {}
  PROVE  UNION {Parents[t] : t \in txIDs[n]} \subseteq txIDs[n] \cup posted
<1> SUFFICES ASSUME NEW u \in UNION {Parents[t] : t \in txIDs[n]}, u \notin txIDs[n] \cup posted
             PROVE  FALSE
  BY Zenon
<1>1. u \in UnpostedParents(n)
  BY Zenon DEF UnpostedParents
<1> QED  BY <1>1, Zenon

\* A step that leaves the item of a posting worker alone.
LEMMA LeftAlone ==
  ASSUME NEW w \in Procs, AfterParents(w), acknowledged \subseteq acknowledged',
         pc'[w] = "posting" =>
           pc[w] = "posting" /\ hand'[w] = hand[w] /\ txIDs'[hand[w]] = txIDs[hand[w]]
             /\ (force[hand[w]] => force'[hand[w]])
  PROVE  AfterParents(w)'
  BY Zenon DEF AfterParents

\* What a posting worker holds is posted after its parents, whatever the others do.
LEMMA ParentsStep ==
  ASSUME PoolInv, Next, NEW w \in Workers
  PROVE  AfterParents(w)'
<1> USE DEF itemVars, setVars, procVars, requeueVars, dispatchVars, historyVars
<1>0. w \in Procs /\ w # "sweeper" /\ TypeOK /\ HoldsByStep /\ AfterParents(w) /\ posted \subseteq acknowledged
  BY PoolAssumption, Zenon DEF Procs, PoolInv, ParentsPostedFirst, AfterParents
<1>h. pc[w] = "posting" => hand[w] \in Items
  BY <1>0, Zenon DEF TypeOK, HoldsByStep
<1>1. ASSUME NEW ids \in SUBSET Txs, Add(ids)
      PROVE  AfterParents(w)'
  <2>1. pc[w] = "posting" => hand[w] # added + 1
    <3> SUFFICES ASSUME pc[w] = "posting", hand[w] = added + 1 PROVE FALSE
      BY Zenon
    <3>1. hand[w] \in Items /\ added \in Nat
      BY <1>0, <1>h DEF TypeOK
    <3>2. Placed(hand[w]) /\ hand[w] > added
      BY <3>1 DEF PoolInv
    <3>3. InHand(hand[w])
      BY <1>0, Zenon DEF InHand
    <3> QED  BY <3>2, <3>3, Zenon DEF Placed, Unknown
  <2>2. pc' = pc /\ hand' = hand /\ force' = force /\ acknowledged' = acknowledged
    BY <1>1, Zenon DEF Add
  <2>3. pc[w] = "posting" => txIDs'[hand[w]] = txIDs[hand[w]]
    BY <1>0, <1>1, <1>h, <2>1, Zenon DEF Add, TypeOK
  <2> QED  BY <1>0, <2>2, <2>3, LeftAlone, Zenon
<1>2. CASE (\E n \in Items : MarkEnqueued(n)) \/ Tick \/ Cancel \/ Close \/ Dispatcher
  <2>1. UNCHANGED <<pc, hand, txIDs, force, acknowledged>>
    BY <1>2, Zenon DEF MarkEnqueued, Tick, Cancel, Close, Dispatcher, Woken, TakeBatch, Dispatch,
       DispatcherExit
  <2> QED  BY <1>0, <2>1, LeftAlone, Zenon
<1>3. ASSUME NEW v \in Workers, Worker(v)
      PROVE  AfterParents(w)'
  <2>0. v \in Procs
    BY Zenon DEF Procs
  <2>1. CASE (\E n \in Items : Take(v, n)) \/ Park(v)
    <3>1. UNCHANGED <<txIDs, force, acknowledged>>
      BY <2>1, Zenon DEF Take, Park
    <3>2. pc'[w] = "posting" => pc[w] = "posting" /\ hand'[w] = hand[w]
      BY <1>0, <2>0, <2>1, Zenon DEF Take, Park, TypeOK
    <3> QED  BY <1>0, <3>1, <3>2, LeftAlone, Zenon
  <2>2. CASE Post(v)
    <3>1. UNCHANGED <<hand, txIDs, force, acknowledged>>
      BY <2>2, Zenon DEF Post
    <3>2. CASE v = w
      <4>1. force[hand[w]] \/ UnpostedParents(hand[w]) = {}
        BY <2>2, <3>2, Zenon DEF Post
      <4>2. UnpostedParents(hand[w]) = {} =>
              UNION {Parents[t] : t \in txIDs[hand[w]]} \subseteq txIDs[hand[w]] \cup posted
        BY ParentsSeen, Zenon
      <4>3. ~force[hand[w]] =>
              UNION {Parents[t] : t \in txIDs[hand[w]]} \subseteq acknowledged \cup txIDs[hand[w]]
        BY <1>0, <4>1, <4>2, Zenon
      <4> QED  BY <1>0, <3>1, <4>3, Zenon DEF AfterParents
    <3>3. CASE v # w
      <4>1. pc'[w] = pc[w]
        BY <1>0, <2>2, <3>3, Zenon DEF Post, TypeOK
      <4> QED  BY <1>0, <3>1, <4>1, LeftAlone, Zenon
    <3> QED  BY <3>2, <3>3, Zenon
  <2>3. CASE PostFails(v) \/ MarkPostedAndRelease(v)
    <3>1. /\ pc[v] = "posting" /\ pc'[v] # "posting" /\ Forget(hand[v])
          /\ acknowledged \subseteq acknowledged'
      BY <1>0, <2>0, <2>3, Zenon DEF PostFails, MarkPostedAndRelease, TypeOK
    <3>2. CASE pc'[w] # "posting"
      BY <3>1, <3>2, Zenon DEF AfterParents
    <3>3. CASE pc'[w] = "posting"
      <4>1. w # v
        BY <3>1, <3>3, Zenon
      <4>2. pc'[w] = pc[w] /\ hand'[w] = hand[w]
        BY <1>0, <2>3, <4>1, Zenon DEF PostFails, MarkPostedAndRelease, TypeOK
      <4>3. hand[w] \in Items
        BY <1>h, <3>3, <4>2, Zenon
      <4>4. hand[v] # hand[w]
        BY <1>0, <2>0, <4>1, <4>3, Zenon DEF PoolInv, Placed, OnePlace
      <4>5. txIDs'[hand[w]] = txIDs[hand[w]] /\ force'[hand[w]] = force[hand[w]]
        BY <1>0, <3>1, <4>3, <4>4, Zenon DEF Forget, TypeOK
      <4> QED  BY <1>0, <3>1, <4>2, <4>5, LeftAlone, Zenon
    <3> QED  BY <3>2, <3>3, Zenon
  <2> QED  BY <1>3, <2>1, <2>2, <2>3, Zenon DEF Worker
<1>4. ASSUME NEW p \in Procs, Goroutine(p)
      PROVE  AfterParents(w)'
  <2>1. UNCHANGED <<hand, txIDs, force, acknowledged>>
    BY <1>4, Zenon DEF Goroutine, Requeue, Wake, Exit
  <2>2. pc'[w] = "posting" => pc[w] = "posting"
    BY <1>0, <1>4, Zenon DEF Goroutine, Requeue, Wake, Exit, TypeOK
  <2> QED  BY <1>0, <2>1, <2>2, LeftAlone, Zenon
<1>5. ASSUME NEW old \in SUBSET Txs, Sweep(old)
      PROVE  AfterParents(w)'
  <2>1. UNCHANGED <<hand, txIDs, acknowledged>>
    BY <1>5, Zenon DEF Sweep
  <2>2. pc'[w] = pc[w]
    BY <1>0, <1>5, Zenon DEF Sweep, TypeOK
  <2>3. pc[w] = "posting" /\ force[hand[w]] => force'[hand[w]]
    BY <1>h, <1>5, Zenon DEF Sweep
  <2> QED  BY <1>0, <2>1, <2>2, <2>3, LeftAlone, Zenon
<1> QED  BY <1>1, <1>2, <1>3, <1>4, <1>5, Zenon DEF Next

\* What the pool remembers as posted was acknowledged.
LEMMA PostedStep ==
  ASSUME posted \subseteq acknowledged, Next
  PROVE  posted' \subseteq acknowledged'
<1> USE DEF itemVars, setVars, procVars, requeueVars, dispatchVars, historyVars
<1>1. CASE \E w \in Workers : MarkPostedAndRelease(w)
  BY <1>1, Zenon DEF MarkPostedAndRelease
<1>2. CASE \E old \in SUBSET Txs : Sweep(old)
  BY <1>2, Zenon DEF Sweep
<1>3. CASE UNCHANGED <<posted, acknowledged>>
  BY <1>3, Zenon
<1>4. ASSUME NEW w \in Workers, Worker(w)
      PROVE  MarkPostedAndRelease(w) \/ UNCHANGED <<posted, acknowledged>>
  BY <1>4, Zenon DEF Worker, Take, Park, Post, PostFails
<1>5. ASSUME NEW p \in Procs, Goroutine(p) PROVE UNCHANGED <<posted, acknowledged>>
  BY <1>5, Zenon DEF Goroutine, Requeue, Wake, Exit
<1>6. ASSUME (\E ids \in SUBSET Txs : Add(ids)) \/ (\E n \in Items : MarkEnqueued(n))
             \/ Dispatcher \/ Tick \/ Cancel \/ Close
      PROVE  UNCHANGED <<posted, acknowledged>>
  BY <1>6, Zenon DEF Add, MarkEnqueued, Dispatcher, Woken, TakeBatch, Dispatch, DispatcherExit, Tick,
     Cancel, Close
<1> QED  BY <1>1, <1>2, <1>3, <1>4, <1>5, <1>6, Zenon DEF Next

\* The inductive invariant: types, what goroutines hold, one place for every item, and
\* parents first.
LEMMA PoolInvariant == Spec => []PoolInv
<1>1. Init => PoolInv
  <2> SUFFICES ASSUME Init PROVE PoolInv
    BY Zenon
  <2>1. Cardinality({}) = 0
    BY FS_EmptySet, Zenon
  <2>2. ClockLimit \in Nat
    BY PoolAssumption DEF ClockLimit
  <2>3. TypeOK
    <3>1. added \in 0..MaxAdds /\ channel \subseteq Items /\ Cardinality(channel) <= ChannelSize
      BY <2>1, PoolAssumption DEF Init
    <3>2. waited \in [Items -> 0..ClockLimit]
      BY <2>2 DEF Init
    <3> QED  BY <3>1, <3>2, Zenon DEF Init, TypeOK
  <2>4. HoldsByStep
    BY Zenon DEF Init, HoldsByStep, Procs
  <2>5. ASSUME NEW n \in Items PROVE Placed(n)
    <3>1. n # 0 /\ ~(n <= added)
      BY DEF Init, Items
    <3>2. Unknown(n)
      BY <3>1, Zenon DEF Init, Unknown, Parked, Freed, InHand
    <3>3. OnePlace(n)
      BY <3>1, <3>2, Zenon DEF Unknown, OnePlace, Parked, Freed, InHand
    <3> QED  BY <3>1, <3>2, <3>3, Zenon DEF Placed
  <2>6. ParentsPostedFirst /\ posted \subseteq acknowledged
    BY Zenon DEF Init, ParentsPostedFirst, Procs
  <2> QED  BY <2>3, <2>4, <2>5, <2>6, Zenon DEF PoolInv
<1>2. PoolInv /\ Next => PoolInv'
  <2> SUFFICES ASSUME PoolInv, Next PROVE PoolInv'
    BY Zenon
  <2>1. TypeOK' /\ HoldsByStep'
    BY TypeStep, HoldsStep, Zenon DEF PoolInv
  <2>2. \A n \in Items : Placed(n)'
    BY PlacesStep, Zenon DEF PoolInv
  <2>3. ParentsPostedFirst'
    BY ParentsStep, Zenon DEF ParentsPostedFirst, AfterParents
  <2>4. (posted \subseteq acknowledged)'
    BY PostedStep, Zenon DEF PoolInv
  <2> QED  BY <2>1, <2>2, <2>3, <2>4, Zenon DEF PoolInv
<1>3. PoolInv /\ UNCHANGED vars => PoolInv'
  <2> SUFFICES ASSUME PoolInv, UNCHANGED vars PROVE PoolInv'
    BY Zenon
  <2> USE DEF vars, itemVars, setVars, procVars, requeueVars, dispatchVars, historyVars
  <2>1. TypeOK' /\ HoldsByStep'
    BY Zenon DEF PoolInv, TypeOK, HoldsByStep
  <2>2. \A n \in Items : Placed(n)'
    BY StillPlaced, Zenon DEF PoolInv, placeVars
  <2>3. ParentsPostedFirst' /\ (posted \subseteq acknowledged)'
    BY Zenon DEF PoolInv, ParentsPostedFirst
  <2> QED  BY <2>1, <2>2, <2>3, Zenon DEF PoolInv
<1> QED  BY <1>1, <1>2, <1>3, PTL DEF Spec

\* Types, and the channel within its size.
THEOREM PoolTypeCorrect == Spec => []TypeOK
<1>1. PoolInv => TypeOK
  BY Zenon DEF PoolInv
<1> QED  BY <1>1, PoolInvariant, PTL

\* What Pending holds, by place.
LEMMA PendingIs ==
  ASSUME NEW n
  PROVE  n \in Pending <=>
           \/ n \in channel \/ n \in requeueQueue \/ n \in batch \/ Parked(n) \/ Freed(n)
           \/ \E w \in Workers : pc[w] = "taken" /\ hand[w] = n
<1>1. n \in UNION {waiting[t] : t \in Txs} <=> Parked(n)
  BY Zenon DEF Parked
<1>2. n \in UNION {released[p] : p \in Procs} <=> Freed(n)
  BY Zenon DEF Freed
<1>3. n \in {hand[w] : w \in {v \in Workers : pc[v] = "taken"}}
        <=> \E w \in Workers : pc[w] = "taken" /\ hand[w] = n
  BY Zenon
<1> QED  BY <1>1, <1>2, <1>3, Zenon DEF Pending

\* EachItemOnce for every pool: no interleaving of posts, releases, expiries and
\* requeues loses an accepted item or hands one out twice.
THEOREM ItemsHandledOnce == Spec => []EachItemOnce
<1>1. PoolInv => EachItemOnce
  <2> SUFFICES ASSUME PoolInv PROVE EachItemOnce
    BY Zenon
  <2>0. TypeOK /\ HoldsByStep /\ added \in Nat /\ MaxAdds \in Nat
    BY PoolAssumption DEF PoolInv, TypeOK
  <2>1. ASSUME NEW n \in 1..added, state = "running" PROVE n \in handled \cup Pending
    <3>1. n \in Items /\ n <= added
      BY <2>0 DEF Items, TypeOK
    <3>2. NoneLost(n)
      BY <2>1, <3>1, Zenon DEF PoolInv, Placed
    <3>3. ASSUME NEW p \in Procs, hand[p] = n PROVE n \in handled \cup Pending
      <4>1. n # 0 /\ p # "sweeper" /\ pc[p] \in {"taken", "posting"}
        BY <2>0, <3>3 DEF HoldsByStep
      <4>2. p \in Workers
        BY <4>1, Zenon DEF Procs
      <4>3. CASE pc[p] = "taken"
        BY <3>3, <4>2, <4>3, PendingIs, Zenon
      <4>4. CASE pc[p] = "posting"
        BY <3>1, <3>3, <4>4, Zenon DEF PoolInv, Placed, OnePlace
      <4> QED  BY <4>1, <4>3, <4>4, Zenon
    <3> QED  BY <3>2, <3>3, PendingIs, Zenon DEF NoneLost, InHand
  <2>2. ASSUME NEW n \in handled, n \in Pending PROVE FALSE
    <3>1. n \in Items /\ OnePlace(n)
      BY <2>0, Zenon DEF TypeOK, PoolInv, Placed
    <3>2. n \notin channel /\ n \notin requeueQueue /\ n \notin batch /\ ~Parked(n) /\ ~Freed(n)
      BY <3>1, Zenon DEF OnePlace
    <3>3. PICK w \in Workers : pc[w] = "taken" /\ hand[w] = n
      BY <2>2, <3>2, PendingIs, Zenon
    <3> QED  BY <3>1, <3>3, Zenon DEF OnePlace, Procs
  <2> QED  BY <2>1, <2>2, Zenon DEF EachItemOnce
<1> QED  BY <1>1, PoolInvariant, PTL

\* ParentsPostedFirst for every pool.
THEOREM ParentsGoFirst == Spec => []ParentsPostedFirst
<1>1. PoolInv => ParentsPostedFirst
  BY Zenon DEF PoolInv
<1> QED  BY <1>1, PoolInvariant, PTL

=============================================================================
