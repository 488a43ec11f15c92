----------------------------- MODULE EventQueue -----------------------------
(***************************************************************************)
(* The mailboxes that feed one subscriber channel, and the two ways their  *)
(* owners share them.  Under "acquire" the owners count references and the *)
(* last release closes the queue, giving the subscriber until its deadline *)
(* to read the backlog.  Under "subscribe" the broadcasters of reorg and   *)
(* tip events keep one queue per channel without counting, and an          *)
(* unsubscribe discards it.  What is done while q.mu, sharedMu or the      *)
(* broadcaster's lock is held is one step; the rest interleaves.           *)
(*                                                                         *)
(* An event is its position among the events its queue accepted.           *)
(***************************************************************************)
EXTENDS Naturals, Sequences, FiniteSets, Functions

CONSTANTS
  Owners,       \* who acquire the queue of the channel, or subscribe it
  MaxQueues,    \* bound: queues created for the channel
  MaxEvents     \* bound: events accepted, by all queues

ASSUME QueueAssumption ==
  /\ IsFiniteSet(Owners) /\ MaxQueues \in Nat /\ MaxEvents \in Nat
  /\ "broadcast" \notin Owners

Queues == 1..MaxQueues
Publishers == Owners \cup {"broadcast"}

VARIABLES
  sharing,       \* "acquire" or "subscribe", fixed
  created,       \* the queues that exist are 1..created
  buf,
  closed,
  wakeup,        \* wake holds its token
  abort,         \* abort is closed
  forwarder,     \* the step of forward; "done" when q.done is closed
  inHand,        \* the event forward is sending
  sharedBy,      \* the queue registered for the channel, 0 for none
  owner,         \* the step an owner is at
  held,          \* the queue an owner got last, 0 for none
  publishing,    \* the queue a publisher has appended to and not yet poked, or 0
  accepted,      \* how many events a queue accepted
  out,           \* history: what each queue sent to the channel
  undelivered    \* history: what Close and Discard counted as left

forwardVars == <<forwarder, inHand>>
ownerVars == <<sharedBy, owner, held>>
queueVars == <<sharing, created, buf, closed, wakeup, abort, forwardVars, ownerVars, publishing,
               accepted, out, undelivered>>

OwnerSteps == {"out", "using", "closing", "poking", "draining", "discarding", "stopping"}
Releasing == {"closing", "poking", "draining", "discarding", "stopping"}

\* Types; what an owner or a publisher holds is a queue that was created.
QueueTypeOK ==
  /\ sharing \in {"acquire", "subscribe"}
  /\ created \in 0..MaxQueues
  /\ buf \in [Queues -> Seq(Nat)]
  /\ closed \in [Queues -> BOOLEAN]
  /\ wakeup \in [Queues -> BOOLEAN]
  /\ abort \in [Queues -> BOOLEAN]
  /\ forwarder \in [Queues -> {"look", "idle", "sending", "sent", "done"}]
  /\ inHand \in [Queues -> Nat]
  /\ sharedBy \in 0..created
  /\ owner \in [Owners -> OwnerSteps]
  /\ held \in [Owners -> 0..created]
  /\ publishing \in [Publishers -> 0..created]
  /\ accepted \in [Queues -> 0..MaxEvents]
  /\ out \in [Queues -> Seq(Nat)]
  /\ undelivered \in [Queues -> Nat]

QueueInit ==
  /\ sharing \in {"acquire", "subscribe"}
  /\ created = 0
  /\ buf = [q \in Queues |-> <<>>]
  /\ closed = [q \in Queues |-> FALSE]
  /\ wakeup = [q \in Queues |-> FALSE]
  /\ abort = [q \in Queues |-> FALSE]
  /\ forwarder = [q \in Queues |-> "look"]
  /\ inHand = [q \in Queues |-> 0]
  /\ sharedBy = 0
  /\ owner = [o \in Owners |-> "out"]
  /\ held = [o \in Owners |-> 0]
  /\ publishing = [p \in Publishers |-> 0]
  /\ accepted = [q \in Queues |-> 0]
  /\ out = [q \in Queues |-> <<>>]
  /\ undelivered = [q \in Queues |-> 0]

-----------------------------------------------------------------------------
(* The owners.  refs is the number of owners using the registered queue.   *)

refs(q) == Cardinality({o \in Owners : owner[o] = "using" /\ held[o] = q})

\* RWMutex of the broadcasters: broadcast publishes and pokes under its read lock.
Unlocked == publishing["broadcast"] = 0

Acquire(o) ==
  LET q == IF sharedBy = 0 THEN created + 1 ELSE sharedBy IN
  /\ owner[o] = "out"
  /\ Unlocked
  /\ q \in Queues
  /\ created' = IF sharedBy = 0 THEN q ELSE created
  /\ sharedBy' = q
  /\ held' = [held EXCEPT ![o] = q]
  /\ owner' = [owner EXCEPT ![o] = "using"]
  /\ UNCHANGED <<sharing, buf, closed, wakeup, abort, forwardVars, publishing, accepted, out,
                 undelivered>>

Release(o) ==
  /\ sharing = "acquire"
  /\ owner[o] = "using"
  /\ IF refs(held[o]) = 1
       THEN /\ sharedBy' = 0
            /\ owner' = [owner EXCEPT ![o] = "closing"]
       ELSE /\ owner' = [owner EXCEPT ![o] = "out"]
            /\ UNCHANGED sharedBy
  /\ UNCHANGED <<sharing, created, buf, closed, wakeup, abort, forwardVars, held, publishing,
                 accepted, out, undelivered>>

Unsubscribe(o) ==
  /\ sharing = "subscribe"
  /\ owner[o] = "using"
  /\ Unlocked
  /\ sharedBy' = IF sharedBy = held[o] THEN 0 ELSE sharedBy
  /\ owner' = [owner EXCEPT ![o] = "closing"]
  /\ UNCHANGED <<sharing, created, buf, closed, wakeup, abort, forwardVars, held, publishing,
                 accepted, out, undelivered>>

markClosed(o) ==
  /\ owner[o] = "closing"
  /\ closed' = [closed EXCEPT ![held[o]] = TRUE]
  /\ owner' = [owner EXCEPT ![o] = IF sharing = "acquire" THEN "poking" ELSE "discarding"]
  /\ UNCHANGED <<sharing, created, buf, wakeup, abort, forwardVars, sharedBy, held, publishing,
                 accepted, out, undelivered>>

PokeClosed(o) ==
  /\ owner[o] = "poking"
  /\ wakeup' = [wakeup EXCEPT ![held[o]] = TRUE]
  /\ owner' = [owner EXCEPT ![o] = "draining"]
  /\ UNCHANGED <<sharing, created, buf, closed, abort, forwardVars, sharedBy, held, publishing,
                 accepted, out, undelivered>>

\* The deadline of Close passes, or Discard goes on: abort is closed, once.
stopForwarder(o) ==
  /\ owner[o] \in {"draining", "discarding"}
  /\ abort' = [abort EXCEPT ![held[o]] = TRUE]
  /\ owner' = [owner EXCEPT ![o] = "stopping"]
  /\ UNCHANGED <<sharing, created, buf, closed, wakeup, forwardVars, sharedBy, held, publishing,
                 accepted, out, undelivered>>

\* A mutant: the deadline ends Close without waiting for the forwarder.
ClearAtOnce(o) ==
  /\ owner[o] \in {"draining", "stopping"}
  /\ forwarder[held[o]] = "done" \/ owner[o] = "stopping"
  /\ undelivered' = [undelivered EXCEPT ![held[o]] = @ + Len(buf[held[o]])]
  /\ buf' = [buf EXCEPT ![held[o]] = <<>>]
  /\ owner' = [owner EXCEPT ![o] = "out"]
  /\ UNCHANGED <<sharing, created, closed, wakeup, abort, forwardVars, sharedBy, held, publishing,
                 accepted, out>>

\* The wait for q.done, and the clear that ends Close and Discard.
Clear(o) ==
  /\ owner[o] \in {"draining", "stopping"}
  /\ forwarder[held[o]] = "done"
  /\ undelivered' = [undelivered EXCEPT ![held[o]] = @ + Len(buf[held[o]])]
  /\ buf' = [buf EXCEPT ![held[o]] = <<>>]
  /\ owner' = [owner EXCEPT ![o] = "out"]
  /\ UNCHANGED <<sharing, created, closed, wakeup, abort, forwardVars, sharedBy, held, publishing,
                 accepted, out>>

-----------------------------------------------------------------------------
(* The publishers.  An owner's tasks may still publish after its release.  *)

Publish(p) ==
  LET q == IF p = "broadcast" THEN sharedBy ELSE held[p] IN
  /\ (p = "broadcast") <=> (sharing = "subscribe")
  /\ publishing[p] = 0
  /\ q # 0
  /\ ~closed[q]       \* otherwise the event is refused and counted
  /\ SumFunction(accepted) < MaxEvents
  /\ accepted' = [accepted EXCEPT ![q] = @ + 1]
  /\ buf' = [buf EXCEPT ![q] = Append(@, accepted[q] + 1)]
  /\ publishing' = [publishing EXCEPT ![p] = q]
  /\ UNCHANGED <<sharing, created, closed, wakeup, abort, forwardVars, ownerVars, out,
                 undelivered>>

Poke(p) ==
  /\ publishing[p] # 0
  /\ wakeup' = [wakeup EXCEPT ![publishing[p]] = TRUE]
  /\ publishing' = [publishing EXCEPT ![p] = 0]
  /\ UNCHANGED <<sharing, created, buf, closed, abort, forwardVars, ownerVars, accepted, out,
                 undelivered>>

-----------------------------------------------------------------------------
(* forward, the only goroutine that sends what its queue accepted.         *)

forwardUnchanged ==
  UNCHANGED <<sharing, created, closed, abort, ownerVars, publishing, accepted, undelivered>>

\* A mutant: forward waits for a second event before it sends the first.
nextBatching(q) ==
  /\ q <= created
  /\ forwarder[q] = "look" /\ (Len(buf[q]) # 1 \/ closed[q])
  /\ IF buf[q] = <<>>
       THEN /\ forwarder' = [forwarder EXCEPT ![q] = IF closed[q] THEN "done" ELSE "idle"]
            /\ UNCHANGED inHand
       ELSE /\ forwarder' = [forwarder EXCEPT ![q] = "sending"]
            /\ inHand' = [inHand EXCEPT ![q] = Head(buf[q])]
  /\ UNCHANGED <<buf, wakeup, out>>
  /\ forwardUnchanged

next(q) ==
  /\ q <= created
  /\ forwarder[q] = "look"
  /\ IF buf[q] = <<>>
       THEN /\ forwarder' = [forwarder EXCEPT ![q] = IF closed[q] THEN "done" ELSE "idle"]
            /\ UNCHANGED inHand
       ELSE /\ forwarder' = [forwarder EXCEPT ![q] = "sending"]
            /\ inHand' = [inHand EXCEPT ![q] = Head(buf[q])]
  /\ UNCHANGED <<buf, wakeup, out>>
  /\ forwardUnchanged

WakeForwarder(q) ==
  /\ forwarder[q] = "idle"
  /\ wakeup[q]
  /\ wakeup' = [wakeup EXCEPT ![q] = FALSE]
  /\ forwarder' = [forwarder EXCEPT ![q] = "look"]
  /\ UNCHANGED <<buf, inHand, out>>
  /\ forwardUnchanged

\* The subscriber reads the channel.
Send(q) ==
  /\ forwarder[q] = "sending"
  /\ out' = [out EXCEPT ![q] = Append(@, inHand[q])]
  /\ forwarder' = [forwarder EXCEPT ![q] = "sent"]
  /\ UNCHANGED <<buf, wakeup, inHand>>
  /\ forwardUnchanged

\* A mutant: the newest event is removed instead of the one that was sent.
popNewest(q) ==
  /\ forwarder[q] = "sent"
  /\ buf' = [buf EXCEPT ![q] = IF @ = <<>> THEN @ ELSE SubSeq(@, 1, Len(@) - 1)]
  /\ forwarder' = [forwarder EXCEPT ![q] = "look"]
  /\ UNCHANGED <<wakeup, inHand, out>>
  /\ forwardUnchanged

pop(q) ==
  /\ forwarder[q] = "sent"
  /\ buf' = [buf EXCEPT ![q] = IF @ = <<>> THEN @ ELSE Tail(@)]
  /\ forwarder' = [forwarder EXCEPT ![q] = "look"]
  /\ UNCHANGED <<wakeup, inHand, out>>
  /\ forwardUnchanged

Aborted(q) ==
  /\ forwarder[q] \in {"idle", "sending"}
  /\ abort[q]
  /\ forwarder' = [forwarder EXCEPT ![q] = "done"]
  /\ UNCHANGED <<buf, wakeup, inHand, out>>
  /\ forwardUnchanged

-----------------------------------------------------------------------------
ReleaseStep(o) == markClosed(o) \/ PokeClosed(o) \/ stopForwarder(o) \/ Clear(o)
ForwardStep(q) == next(q) \/ WakeForwarder(q) \/ pop(q) \/ Aborted(q)

QueueNext ==
  \/ \E o \in Owners : Acquire(o) \/ Release(o) \/ Unsubscribe(o) \/ ReleaseStep(o)
  \/ \E p \in Publishers : Publish(p) \/ Poke(p)
  \/ \E q \in Queues : ForwardStep(q) \/ Send(q)

\* Goroutines are scheduled, and the context of a release has a deadline
\* (eventqueue.DefaultDrainTimeout in infra/server.go); the subscriber may stop reading.
QueueFairness ==
  /\ \A o \in Owners : WF_queueVars(ReleaseStep(o))
  /\ \A p \in Publishers : WF_queueVars(Poke(p))
  /\ \A q \in Queues : WF_queueVars(ForwardStep(q))

QueueSpec == QueueInit /\ [][QueueNext]_queueVars

-----------------------------------------------------------------------------
(* Properties.                                                             *)

InFlight(q) == IF forwarder[q] = "sent" THEN 1 ELSE 0

\* Publish "never drops v while the queue is open" and forward keeps the publish
\* order: what a queue has sent is exactly the first events it accepted, each
\* once, and what it has not sent is still in buf or was counted by Close or
\* Discard, although an event is in buf and in the channel between the send and
\* the pop.
DeliveredInOrder ==
  \A q \in Queues :
    /\ \A i \in 1..Len(out[q]) : out[q][i] = i
    /\ accepted[q] = Len(out[q]) + undelivered[q] + Len(buf[q]) - InFlight(q)

\* "After the last release returns nothing sends to out anymore": a forwarder
\* that may still send belongs to a queue that is registered or whose release or
\* unsubscribe has not returned.  So a channel has a second sender only while a
\* release of the first is under way.
SenderIsOwned ==
  \A q \in 1..created :
    forwarder[q] # "done" =>
      q = sharedBy \/ \E o \in Owners : held[o] = q /\ owner[o] \in Releasing

\* A release ends by its deadline even when the subscriber stopped reading.
EveryReleaseReturns == \A o \in Owners : owner[o] \in Releasing ~> owner[o] = "out"

\* When the subscriber keeps reading, every accepted event reaches it or is
\* counted by the Close or Discard that gave it up.
EveryEventSettles ==
  (\A q \in Queues : WF_queueVars(Send(q))) =>
    []<>(\A q \in Queues : Len(out[q]) + undelivered[q] = accepted[q])
=============================================================================
