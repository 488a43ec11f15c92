----------------------- MODULE BackgroundBroadcaster ------------------------
(***************************************************************************)
(* The pool that posts delayed transactions: Add puts an item on a bounded *)
(* channel, workers take items and hold a child under its first unposted   *)
(* parent, a post releases the children of what it posted, a sweeper       *)
(* forces out children whose wait has expired, and one dispatcher puts     *)
(* released items back on the channel.  depMu and requeueMu make a step of *)
(* what is done while one of them is held; everything else interleaves.    *)
(*                                                                         *)
(* An item is the number of the Add that was accepted.  Queues, and the    *)
(* transactions of an item, are sets: workers, requeues and the iteration  *)
(* over a map mix their order anyway and nothing below depends on it.      *)
(***************************************************************************)
EXTENDS Naturals, FiniteSets

CONSTANTS
  Txs,
  Parents,            \* the unmined parents a transaction has in its BEEF
  Workers,
  ChannelSize,
  MaxParentWait,      \* in ticks of the clock
  UnknownParentWait,
  MaxAdds             \* bound: items accepted by Add

ASSUME PoolAssumption ==
  /\ Parents \in [Txs -> SUBSET Txs]
  /\ ChannelSize \in Nat \ {0}
  /\ MaxParentWait \in Nat /\ UnknownParentWait \in Nat
  /\ UnknownParentWait <= MaxParentWait
  /\ MaxAdds \in Nat
  /\ "sweeper" \notin Workers

Items == 1..MaxAdds
Procs == Workers \cup {"sweeper"}

\* A wait longer than this has expired under every parent.
ClockLimit == MaxParentWait + 2

VARIABLES
  added,         \* the items accepted so far are 1..added
  txIDs,         \* the transactions of an item
  waited,        \* 0 until an item is first parked, then one more than the ticks since
  force,         \* the sweeper has let the item out
  unmarked,      \* what the Add of an accepted item has yet to record in enqueued
  channel,       \* broadcastChannel
  enqueued,
  posted,
  waiting,       \* items parked under a parent
  pc,            \* the step a worker or the sweeper is at
  hand,          \* the item a worker is processing, 0 for none
  released,      \* items a worker or the sweeper is about to requeue
  requeueQueue,
  wake,          \* requeueWake holds a token
  dispatcher,    \* the step of requeueDispatcher
  batch,         \* what drainRequeue still has to send
  state,         \* "running", "cancelled" and "closed"
  handled,       \* history: items that were handed to BackgroundBroadcast
  acknowledged   \* history: transactions whose broadcast returned no error

itemVars == <<added, txIDs, waited, force, unmarked>>
requeueVars == <<requeueQueue, wake>>
dispatchVars == <<dispatcher, batch>>
setVars == <<enqueued, posted>>
procVars == <<pc, hand, released>>
historyVars == <<handled, acknowledged>>
vars == <<itemVars, channel, setVars, waiting, procVars, requeueVars, dispatchVars, state,
          historyVars>>

TypeOK ==
  /\ added \in 0..MaxAdds
  /\ txIDs \in [Items -> SUBSET Txs]
  /\ waited \in [Items -> 0..ClockLimit]
  /\ force \in [Items -> BOOLEAN]
  /\ unmarked \in [Items -> SUBSET Txs]
  /\ channel \subseteq Items /\ Cardinality(channel) <= ChannelSize
  /\ enqueued \subseteq Txs /\ posted \subseteq Txs
  /\ waiting \in [Txs -> SUBSET Items]
  /\ pc \in [Procs -> {"idle", "taken", "posting", "requeue", "waking", "gone"}]
  /\ hand \in [Procs -> Items \cup {0}]
  /\ released \in [Procs -> SUBSET Items]
  /\ requeueQueue \subseteq Items
  /\ wake \in BOOLEAN
  /\ dispatcher \in {"asleep", "draining", "sending", "gone"}
  /\ batch \subseteq Items
  /\ state \in {"running", "cancelled", "closed"}
  /\ handled \subseteq Items
  /\ acknowledged \subseteq Txs

Init ==
  /\ added = 0
  /\ txIDs = [n \in Items |-> {}]
  /\ waited = [n \in Items |-> 0]
  /\ force = [n \in Items |-> FALSE]
  /\ unmarked = [n \in Items |-> {}]
  /\ channel = {}
  /\ enqueued = {} /\ posted = {}
  /\ waiting = [t \in Txs |-> {}]
  /\ pc = [p \in Procs |-> "idle"]
  /\ hand = [p \in Procs |-> 0]
  /\ released = [p \in Procs |-> {}]
  /\ requeueQueue = {}
  /\ wake = FALSE
  /\ dispatcher = "asleep"
  /\ batch = {}
  /\ state = "running"
  /\ handled = {} /\ acknowledged = {}

-----------------------------------------------------------------------------
(* Add: the item is on the channel before it is marked as enqueued.  An Add  *)
(* that meets a full channel leaves the transactions to send_waiting; one    *)
(* that comes after Stop has closed the channel panics in the caller.        *)

\* Mutant: the channel takes one item more than it has room for.
AddOverFull(ids) ==
  /\ state # "closed" /\ added < MaxAdds
  /\ Cardinality(channel) <= ChannelSize
  /\ added' = added + 1
  /\ txIDs' = [txIDs EXCEPT ![added + 1] = ids]
  /\ unmarked' = [unmarked EXCEPT ![added + 1] = ids]
  /\ channel' = channel \cup {added + 1}
  /\ UNCHANGED <<waited, force, setVars, waiting, procVars, requeueVars, dispatchVars, state,
                 historyVars>>

Add(ids) ==
  /\ state # "closed" /\ added < MaxAdds
  /\ Cardinality(channel) < ChannelSize
  /\ added' = added + 1
  /\ txIDs' = [txIDs EXCEPT ![added + 1] = ids]
  /\ unmarked' = [unmarked EXCEPT ![added + 1] = ids]
  /\ channel' = channel \cup {added + 1}
  /\ UNCHANGED <<waited, force, setVars, waiting, procVars, requeueVars, dispatchVars, state,
                 historyVars>>

MarkEnqueued(n) ==
  /\ unmarked[n] # {}
  /\ enqueued' = enqueued \cup unmarked[n]
  /\ unmarked' = [unmarked EXCEPT ![n] = {}]
  /\ UNCHANGED <<added, txIDs, waited, force, channel, posted, waiting, procVars, requeueVars,
                 dispatchVars, state, historyVars>>

-----------------------------------------------------------------------------
(* A worker.                                                                 *)

\* A worker that sees both the item and the cancelled context picks either.
Take(w, n) ==
  /\ pc[w] = "idle" /\ n \in channel
  /\ hand' = [hand EXCEPT ![w] = n]
  /\ channel' = channel \ {n}
  /\ pc' = [pc EXCEPT ![w] = "taken"]
  /\ UNCHANGED <<itemVars, setVars, waiting, released, requeueVars, dispatchVars, state,
                 historyVars>>

\* Mutant: only parents this pool was asked to post are waited for.
UnpostedKnownParents(n) ==
  (UNION {Parents[t] : t \in txIDs[n]}) \cap (enqueued \ (txIDs[n] \cup posted))

\* firstUnpostedParentLocked: parents in the same item do not count.
UnpostedParents(n) == (UNION {Parents[t] : t \in txIDs[n]}) \ (txIDs[n] \cup posted)

Park(w) ==
  LET n == hand[w]
  IN  /\ pc[w] = "taken" /\ ~force[n]
      /\ \E parent \in UnpostedParents(n) :
           waiting' = [waiting EXCEPT ![parent] = @ \cup {n}]
      /\ waited' = [waited EXCEPT ![n] = IF @ = 0 THEN 1 ELSE @]
      /\ hand' = [hand EXCEPT ![w] = 0]
      /\ pc' = [pc EXCEPT ![w] = "idle"]
      /\ UNCHANGED <<added, txIDs, force, unmarked, channel, setVars, released, requeueVars,
                     dispatchVars, state, historyVars>>

Post(w) ==
  /\ pc[w] = "taken"
  /\ force[hand[w]] \/ UnpostedParents(hand[w]) = {}
  /\ handled' = handled \cup {hand[w]}
  /\ pc' = [pc EXCEPT ![w] = "posting"]
  /\ UNCHANGED <<itemVars, channel, setVars, waiting, hand, released, requeueVars,
                 dispatchVars, state, acknowledged>>

\* The worker lets go of the item.
Forget(n) ==
  /\ txIDs' = [txIDs EXCEPT ![n] = {}]
  /\ waited' = [waited EXCEPT ![n] = 0]
  /\ force' = [force EXCEPT ![n] = FALSE]

\* BackgroundBroadcast returned an error or panicked: the item is dropped.
PostFails(w) ==
  /\ pc[w] = "posting"
  /\ Forget(hand[w])
  /\ hand' = [hand EXCEPT ![w] = 0]
  /\ pc' = [pc EXCEPT ![w] = "idle"]
  /\ UNCHANGED <<added, unmarked, channel, setVars, waiting, released, requeueVars,
                 dispatchVars, state, historyVars>>

\* It returned no error, also when there was nothing left to claim and post.
MarkPostedAndRelease(w) ==
  LET ids == txIDs[hand[w]]
  IN  /\ pc[w] = "posting"
      /\ posted' = posted \cup ids
      /\ acknowledged' = acknowledged \cup ids
      /\ released' = [released EXCEPT ![w] = UNION {waiting[t] : t \in ids}]
      /\ waiting' = [t \in Txs |-> IF t \in ids THEN {} ELSE waiting[t]]
      /\ Forget(hand[w])
      /\ hand' = [hand EXCEPT ![w] = 0]
      /\ pc' = [pc EXCEPT ![w] = IF released'[w] = {} THEN "idle" ELSE "requeue"]
      /\ UNCHANGED <<added, unmarked, channel, enqueued, requeueVars, dispatchVars,
                     state, handled>>

-----------------------------------------------------------------------------
(* requeue, called by the workers and the sweeper, and the dispatcher.       *)

\* Under requeueMu; a caller with nothing to requeue does not get here.
Requeue(p) ==
  /\ pc[p] = "requeue"
  /\ requeueQueue' = requeueQueue \cup released[p]
  /\ released' = [released EXCEPT ![p] = {}]
  /\ pc' = [pc EXCEPT ![p] = "waking"]
  /\ UNCHANGED <<itemVars, channel, setVars, waiting, hand, wake, dispatchVars, state,
                 historyVars>>

\* The wake-up comes after the items are queued; a pending one is enough.
Wake(p) ==
  /\ pc[p] = "waking"
  /\ wake' = TRUE
  /\ pc' = [pc EXCEPT ![p] = "idle"]
  /\ UNCHANGED <<itemVars, channel, setVars, waiting, hand, released, requeueQueue,
                 dispatchVars, state, historyVars>>

Woken ==
  /\ dispatcher = "asleep" /\ wake
  /\ wake' = FALSE
  /\ dispatcher' = "draining"
  /\ UNCHANGED <<itemVars, channel, setVars, waiting, procVars, requeueQueue, batch, state,
                 historyVars>>

\* drainRequeue takes what is queued by now, or goes back to sleep.
TakeBatch ==
  /\ dispatcher = "draining"
  /\ batch' = requeueQueue
  /\ requeueQueue' = {}
  /\ dispatcher' = IF requeueQueue = {} THEN "asleep" ELSE "sending"
  /\ UNCHANGED <<itemVars, channel, setVars, waiting, procVars, wake, state, historyVars>>

Dispatch(n) ==
  /\ dispatcher = "sending" /\ n \in batch
  /\ Cardinality(channel) < ChannelSize
  /\ channel' = channel \cup {n}
  /\ batch' = batch \ {n}
  /\ dispatcher' = IF batch = {n} THEN "draining" ELSE "sending"
  /\ UNCHANGED <<itemVars, setVars, waiting, procVars, requeueVars, state, historyVars>>

-----------------------------------------------------------------------------
(* The sweeper.                                                              *)

\* Time passes for every item that has been parked before, wherever it is now.
Tick ==
  /\ waited' = [n \in Items |-> IF waited[n] \in 1..(ClockLimit - 1) THEN waited[n] + 1
                                ELSE waited[n]]
  /\ waited' # waited
  /\ UNCHANGED <<added, txIDs, force, unmarked, channel, setVars, waiting, procVars,
                 requeueVars, dispatchVars, state, historyVars>>

\* Mutant: a parent that was enqueued here is waited for without limit.
UnlimitedParentWait(t) == IF t \in enqueued THEN ClockLimit ELSE UnknownParentWait

\* parentWaitLocked
ParentWait(t) == IF t \in enqueued THEN MaxParentWait ELSE UnknownParentWait

Expired(t) == {n \in waiting[t] : waited[n] - 1 > ParentWait(t)}

\* Mutant: the entry of a parent goes with the first child that expires.
SweepDropsSiblings(old) ==
  LET expired == UNION {Expired(t) : t \in Txs}
  IN  /\ pc["sweeper"] = "idle"
      /\ expired # {} \/ old \cap (enqueued \cup posted) # {}
      /\ force' = [n \in Items |-> force[n] \/ n \in expired]
      /\ waiting' = [t \in Txs |-> IF Expired(t) = {} THEN waiting[t] ELSE {}]
      /\ enqueued' = enqueued \ old
      /\ posted' = posted \ old
      /\ released' = [released EXCEPT !["sweeper"] = expired]
      /\ pc' = [pc EXCEPT !["sweeper"] = IF expired = {} THEN "idle" ELSE "requeue"]
      /\ UNCHANGED <<added, txIDs, waited, unmarked, channel, hand, requeueVars, dispatchVars,
                     state, historyVars>>

\* takeExpiredLocked, and the pruning of the remembered transactions: which of
\* them are old enough depends on postedRetention.
Sweep(old) ==
  LET expired == UNION {Expired(t) : t \in Txs}
  IN  /\ pc["sweeper"] = "idle"
      /\ expired # {} \/ old \cap (enqueued \cup posted) # {}
      /\ force' = [n \in Items |-> force[n] \/ n \in expired]
      /\ waiting' = [t \in Txs |-> waiting[t] \ Expired(t)]
      /\ enqueued' = enqueued \ old
      /\ posted' = posted \ old
      /\ released' = [released EXCEPT !["sweeper"] = expired]
      /\ pc' = [pc EXCEPT !["sweeper"] = IF expired = {} THEN "idle" ELSE "requeue"]
      /\ UNCHANGED <<added, txIDs, waited, unmarked, channel, hand, requeueVars, dispatchVars,
                     state, historyVars>>

-----------------------------------------------------------------------------
(* Stop.                                                                     *)

Cancel ==
  /\ state = "running"
  /\ state' = "cancelled"
  /\ UNCHANGED <<itemVars, channel, setVars, waiting, procVars, requeueVars, dispatchVars,
                 historyVars>>

Exit(p) ==
  /\ state = "cancelled" /\ pc[p] = "idle"
  /\ pc' = [pc EXCEPT ![p] = "gone"]
  /\ UNCHANGED <<itemVars, channel, setVars, waiting, hand, released, requeueVars,
                 dispatchVars, state, historyVars>>

DispatcherExit ==
  /\ state = "cancelled" /\ dispatcher \in {"asleep", "sending"}
  /\ dispatcher' = "gone"
  /\ UNCHANGED <<itemVars, channel, setVars, waiting, procVars, requeueVars, batch, state,
                 historyVars>>

\* wg.Wait, then the channel is closed.
Close ==
  /\ state = "cancelled"
  /\ \A p \in Procs : pc[p] = "gone"
  /\ dispatcher = "gone"
  /\ state' = "closed"
  /\ UNCHANGED <<itemVars, channel, setVars, waiting, procVars, requeueVars, dispatchVars,
                 historyVars>>

-----------------------------------------------------------------------------

Worker(w) ==
  \/ \E n \in Items : Take(w, n)
  \/ Park(w) \/ Post(w) \/ PostFails(w) \/ MarkPostedAndRelease(w)

Goroutine(p) == Requeue(p) \/ Wake(p) \/ Exit(p)

Dispatcher == Woken \/ TakeBatch \/ (\E n \in Items : Dispatch(n)) \/ DispatcherExit

Next ==
  \/ \E ids \in (SUBSET Txs) \ {{}} : Add(ids)
  \/ \E n \in Items : MarkEnqueued(n)
  \/ \E w \in Workers : Worker(w)
  \/ \E p \in Procs : Goroutine(p)
  \/ Dispatcher
  \/ Tick
  \/ \E old \in SUBSET Txs : Sweep(old)
  \/ Cancel \/ Close

Spec == Init /\ [][Next]_vars

\* Goroutines are scheduled, posts return, the ticker fires, Stop runs to its end.
Fairness ==
  /\ \A n \in Items : WF_vars(MarkEnqueued(n))
  /\ \A w \in Workers : WF_vars(Worker(w))
  /\ \A p \in Procs : WF_vars(Goroutine(p))
  /\ WF_vars(Dispatcher)
  /\ WF_vars(Tick)
  /\ WF_vars(Sweep({}))
  /\ WF_vars(Close)

FairSpec == Spec /\ Fairness

-----------------------------------------------------------------------------
(* Properties. *)

\* The items on their way to a post.
Pending ==
  channel \cup requeueQueue \cup batch
    \cup (UNION {waiting[t] : t \in Txs}) \cup (UNION {released[p] : p \in Procs})
    \cup {hand[w] : w \in {v \in Workers : pc[v] = "taken"}}

\* While the pool runs, every item that Add accepted is on its way or was handed to
\* BackgroundBroadcast, and never both: parking, releasing, expiring and requeueing
\* lose none, and the sweeper and a post that release the same child do not both
\* requeue it.
EachItemOnce ==
  /\ state = "running" => 1..added \subseteq handled \cup Pending
  /\ handled \cap Pending = {}

\* Unless the sweeper let it out, an item reaches the network after a broadcast of
\* each of its unmined parents has returned without an error.
ParentsPostedFirst ==
  \A w \in Workers : pc[w] = "posting" /\ ~force[hand[w]]
     => UNION {Parents[t] : t \in txIDs[hand[w]]} \subseteq acknowledged \cup txIDs[hand[w]]

\* An accepted item is posted in the end, parent or no parent, unless the pool is
\* stopped first: a full channel, failing parents and forgotten ones do not block
\* it, and a stop comes to its end.
EveryItemHandled ==
  \A n \in Items : n <= added ~> n \in handled \/ state = "closed"

=============================================================================
