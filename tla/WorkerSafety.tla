---------------------------- MODULE WorkerSafety ----------------------------
(***************************************************************************)
(* The workers of one process, for every number of owners, queues and      *)
(* messages, every target and every cap: the event queues with their       *)
(* forwarders, and the keeper of the fuel pool.                            *)
(***************************************************************************)
EXTENDS EventQueue, FuelKeeper, FiniteSetTheorems, TLAPS

-----------------------------------------------------------------------------
(* The event queues.                                                       *)

Forwarding == {"look", "idle", "sending", "sent", "done"}

\* A queue by its forwarder f, buffer b, event in hand h, output o, undelivered u,
\* accepted a and closed flag c.  The buffer holds the newest events in order; until
\* the forwarder is done they follow what was sent, and nothing was given up.
QueueOK(f, b, h, o, u, a, c) ==
  /\ f \in Forwarding /\ b \in Seq(Nat) /\ o \in Seq(Nat)
  /\ h \in Nat /\ u \in Nat /\ a \in Nat /\ c \in BOOLEAN
  /\ \A i \in 1..Len(o) : o[i] = i
  /\ a = Len(o) + u + Len(b) - (IF f = "sent" THEN 1 ELSE 0)
  /\ \A i \in 1..Len(b) : b[i] = a - Len(b) + i
  /\ f = "done" => c
  /\ f # "done" => u = 0
  /\ f \in {"sending", "sent"} => b # <<>>
  /\ f = "sending" => h = Len(o) + 1

QueueState(q) ==
  QueueOK(forwarder[q], buf[q], inHand[q], out[q], undelivered[q], accepted[q], closed[q])

QueueTypes ==
  /\ sharing \in {"acquire", "subscribe"}
  /\ created \in 0..MaxQueues /\ sharedBy \in 0..created
  /\ owner \in [Owners -> OwnerSteps] /\ held \in [Owners -> 0..created]
  /\ publishing \in [Publishers -> 0..created]
  /\ abort \in [Queues -> BOOLEAN]
  /\ forwarder \in [Queues -> Forwarding] /\ closed \in [Queues -> BOOLEAN]
  /\ inHand \in [Queues -> Nat] /\ accepted \in [Queues -> Nat]
  /\ undelivered \in [Queues -> Nat]
  /\ buf \in [Queues -> Seq(Nat)] /\ out \in [Queues -> Seq(Nat)]

\* A counted owner uses the registered queue; one that stops the forwarder has
\* closed the queue first.
OwnersAgree ==
  /\ \A o \in Owners :
       /\ owner[o] # "out" => held[o] # 0
       /\ owner[o] = "using" /\ sharing = "acquire" => held[o] = sharedBy
       /\ owner[o] \in {"poking", "draining", "discarding", "stopping"} => closed[held[o]]
  /\ \A q \in Queues : abort[q] => closed[q]

QueueInv ==
  QueueTypes /\ OwnersAgree /\ SenderIsOwned /\ \A q \in Queues : QueueState(q)

\* Publish appends the next event to an open queue.
LEMMA PublishOK ==
  ASSUME NEW f, NEW b, NEW h, NEW o, NEW u, NEW a, QueueOK(f, b, h, o, u, a, FALSE)
  PROVE  QueueOK(f, Append(b, a + 1), h, o, u, a + 1, FALSE)
<1> DEFINE more == Append(b, a + 1)
<1>1. b \in Seq(Nat) /\ Len(b) \in Nat /\ a \in Nat /\ Len(o) \in Nat
  BY DEF QueueOK
<1>2. /\ more \in Seq(Nat) /\ Len(more) = Len(b) + 1 /\ more # <<>>
      /\ \A i \in 1..Len(b) : more[i] = b[i]
      /\ more[Len(b) + 1] = a + 1
  BY <1>1
<1> HIDE DEF more
<1>3. \A i \in 1..Len(more) : more[i] = (a + 1) - Len(more) + i
  <2> SUFFICES ASSUME NEW i \in 1..Len(b) + 1 PROVE more[i] = (a + 1) - (Len(b) + 1) + i
    BY <1>2, Zenon
  <2>1. CASE i \in 1..Len(b)
    <3>1. b[i] = a - Len(b) + i
      BY <2>1, Zenon DEF QueueOK
    <3> QED  BY <1>1, <1>2, <2>1, <3>1
  <2>2. CASE i = Len(b) + 1
    BY <1>1, <1>2, <2>2
  <2> QED  BY <1>1, <2>1, <2>2
<1>4. a + 1 = Len(o) + u + Len(more) - (IF f = "sent" THEN 1 ELSE 0)
  <2> DEFINE k == IF f = "sent" THEN 1 ELSE 0
  <2>1. k \in Nat /\ u \in Nat /\ a = Len(o) + u + Len(b) - k
    BY Zenon DEF QueueOK
  <2> HIDE DEF k
  <2>2. a + 1 = Len(o) + u + Len(more) - k
    BY <1>1, <1>2, <2>1
  <2> QED  BY <2>2, Zenon DEF k
<1>5. QueueOK(f, more, h, o, u, a + 1, FALSE)
  BY <1>1, <1>2, <1>3, <1>4 DEF QueueOK
<1> QED  BY <1>5, Zenon DEF more

\* The forwarder looks at the buffer: it takes the head, waits or ends.
LEMMA LookOK ==
  ASSUME NEW b, NEW h, NEW o, NEW u, NEW a, NEW c, QueueOK("look", b, h, o, u, a, c)
  PROVE  /\ b = <<>> => QueueOK(IF c THEN "done" ELSE "idle", b, h, o, u, a, c)
         /\ b # <<>> => QueueOK("sending", b, Head(b), o, u, a, c)
<1>1. CASE b = <<>>
  <2> DEFINE f == IF c THEN "done" ELSE "idle"
  <2>1. f \in {"done", "idle"} /\ (f = "done" => c)
    BY Zenon DEF QueueOK
  <2> HIDE DEF f
  <2>2. QueueOK(f, b, h, o, u, a, c)
    BY <2>1, Zenon DEF QueueOK, Forwarding
  <2> QED  BY <1>1, <2>2, Zenon DEF f
<1>2. CASE b # <<>>
  <2>1. b \in Seq(Nat) /\ Len(b) \in Nat /\ Len(b) > 0 /\ Len(o) \in Nat
    BY <1>2 DEF QueueOK
  <2>2. Head(b) = b[1] /\ b[1] = a - Len(b) + 1
    BY <2>1 DEF QueueOK
  <2>3. u = 0 /\ a = Len(o) + u + Len(b) - 0
    BY Zenon DEF QueueOK
  <2>4. Head(b) = Len(o) + 1
    BY <2>1, <2>2, <2>3
  <2> QED  BY <1>2, <2>1, <2>4 DEF QueueOK, Forwarding
<1> QED  BY <1>1, <1>2, Zenon

\* The subscriber gets the event in hand, which stays in the buffer until the pop.
LEMMA SendOK ==
  ASSUME NEW b, NEW h, NEW o, NEW u, NEW a, NEW c, QueueOK("sending", b, h, o, u, a, c)
  PROVE  QueueOK("sent", b, h, Append(o, h), u, a, c)
<1> DEFINE more == Append(o, h)
<1>1. b \in Seq(Nat) /\ Len(b) \in Nat /\ o \in Seq(Nat) /\ Len(o) \in Nat /\ h = Len(o) + 1
  BY DEF QueueOK
<1>2. /\ more \in Seq(Nat) /\ Len(more) = Len(o) + 1
      /\ \A i \in 1..Len(o) : more[i] = o[i]
      /\ more[Len(o) + 1] = h
  BY <1>1
<1> HIDE DEF more
<1>3. \A i \in 1..Len(more) : more[i] = i
  <2>1. \A i \in 1..Len(o) : o[i] = i
    BY Zenon DEF QueueOK
  <2>2. \A i \in 1..Len(o) + 1 : i \in 1..Len(o) \/ i = Len(o) + 1
    BY <1>1
  <2> QED  BY <1>1, <1>2, <2>1, <2>2, Zenon
<1>4. u \in Nat /\ a = Len(o) + u + Len(b) - 0
  BY Zenon DEF QueueOK
<1>5. a = Len(more) + u + Len(b) - 1
  BY <1>1, <1>2, <1>4
<1>6. QueueOK("sent", b, h, more, u, a, c)
  BY <1>2, <1>3, <1>5, Zenon DEF QueueOK, Forwarding
<1> QED  BY <1>6, Zenon DEF more

\* The forwarder removes the head it has sent: what is delivered and what is
\* buffered still make up what was enqueued.
LEMMA PopOK ==
  ASSUME NEW b, NEW h, NEW o, NEW u, NEW a, NEW c, QueueOK("sent", b, h, o, u, a, c)
  PROVE  QueueOK("look", IF b = <<>> THEN b ELSE Tail(b), h, o, u, a, c)
<1> DEFINE rest == Tail(b)
<1>1. b \in Seq(Nat) /\ b # <<>> /\ Len(b) \in Nat \ {0} /\ Len(o) \in Nat /\ u \in Nat /\ a \in Nat
  BY DEF QueueOK
<1>2. /\ rest \in Seq(Nat) /\ Len(rest) = Len(b) - 1
      /\ \A i \in 1..Len(b) - 1 : rest[i] = b[i + 1]
  BY <1>1
<1> HIDE DEF rest
<1>3. ASSUME NEW i \in 1..Len(rest) PROVE rest[i] = a - Len(rest) + i
  <2>1. i + 1 \in 1..Len(b)
    BY <1>1, <1>2
  <2>2. b[i + 1] = a - Len(b) + (i + 1)
    BY <2>1, Zenon DEF QueueOK
  <2> QED  BY <1>1, <1>2, <2>2
<1>4. a = Len(o) + u + Len(b) - 1
  BY Zenon DEF QueueOK
<1>5. a = Len(o) + u + Len(rest) - 0
  BY <1>1, <1>2, <1>4
<1>6. QueueOK("look", rest, h, o, u, a, c)
  BY <1>2, <1>3, <1>5, Zenon DEF QueueOK, Forwarding
<1> QED  BY <1>1, <1>6, Zenon DEF rest

\* A wakeup, an abort of a closed queue, and the close itself.
LEMMA SignalOK ==
  ASSUME NEW f, NEW b, NEW h, NEW o, NEW u, NEW a, NEW c, QueueOK(f, b, h, o, u, a, c)
  PROVE  /\ f = "idle" => QueueOK("look", b, h, o, u, a, c)
         /\ f \in {"idle", "sending"} /\ c => QueueOK("done", b, h, o, u, a, c)
         /\ QueueOK(f, b, h, o, u, a, TRUE)
  BY Zenon DEF QueueOK, Forwarding

\* What the forwarder left is counted, once.
LEMMA ClearOK ==
  ASSUME NEW b, NEW h, NEW o, NEW u, NEW a, NEW c, QueueOK("done", b, h, o, u, a, c)
  PROVE  QueueOK("done", <<>>, h, o, u + Len(b), a, c)
<1>1. Len(b) \in Nat /\ u \in Nat /\ Len(o) \in Nat /\ a = Len(o) + u + Len(b) - 0
  BY DEF QueueOK
<1>2. <<>> \in Seq(Nat) /\ Len(<<>>) = 0
  OBVIOUS
<1>3. u + Len(b) \in Nat /\ a = Len(o) + (u + Len(b)) + 0 - 0
  BY <1>1
<1> QED  BY <1>2, <1>3 DEF QueueOK

\* A step that changes the contents of one queue, and leaves who owns it.
LEMMA OneQueueMoves ==
  ASSUME QueueInv, NEW q \in Queues, OwnersAgree', SenderIsOwned', QueueTypes',
         \A r \in Queues \ {q} :
           UNCHANGED <<forwarder[r], buf[r], inHand[r], out[r], undelivered[r], accepted[r],
                       closed[r]>>,
         QueueOK(forwarder'[q], buf'[q], inHand'[q], out'[q], undelivered'[q], accepted'[q],
                 closed'[q])
  PROVE  QueueInv'
<1>1. ASSUME NEW r \in Queues PROVE QueueState(r)'
  <2>1. CASE r = q
    BY <2>1, Zenon DEF QueueState
  <2>2. CASE r # q
    <3>1. QueueState(r)
      BY Zenon DEF QueueInv
    <3> QED  BY <2>2, <3>1, Zenon DEF QueueState
  <2> QED  BY <2>1, <2>2, Zenon
<1> QED  BY <1>1, Zenon DEF QueueInv

\* The forwarder: an ended one stays ended, so what may send stays owned.
LEMMA ForwarderKeeps ==
  ASSUME QueueInv, NEW q \in Queues, ForwardStep(q) \/ Send(q)
  PROVE  QueueInv'
<1> USE DEF forwardUnchanged, ownerVars
<1>t. QueueTypes
  BY Zenon DEF QueueInv
<1>s. QueueOK(forwarder[q], buf[q], inHand[q], out[q], undelivered[q], accepted[q], closed[q])
  BY Zenon DEF QueueInv, QueueState
<1>0. /\ UNCHANGED <<sharing, created, closed, abort, sharedBy, owner, held, publishing, accepted,
                     undelivered>>
      /\ forwarder[q] # "done"
      /\ \A r \in Queues : r # q => forwarder'[r] = forwarder[r]
  BY <1>t, Zenon DEF ForwardStep, next, WakeForwarder, pop, Aborted, Send, QueueTypes
<1>1. OwnersAgree'
  BY <1>0, Zenon DEF QueueInv, OwnersAgree
<1>2. SenderIsOwned'
  <2> SUFFICES ASSUME NEW r \in 1..created, forwarder'[r] # "done"
               PROVE  r = sharedBy \/ \E o \in Owners : held[o] = r /\ owner[o] \in Releasing
    BY <1>0, Zenon DEF SenderIsOwned
  <2>1. r \in Queues
    BY <1>t, QueueAssumption DEF QueueTypes, Queues
  <2> QED  BY <1>0, <2>1, Zenon DEF QueueInv, SenderIsOwned
<1> DEFINE Same == \A r \in Queues \ {q} :
                     UNCHANGED <<forwarder[r], buf[r], inHand[r], out[r], undelivered[r],
                                 accepted[r], closed[r]>>
           Fine == QueueOK(forwarder'[q], buf'[q], inHand'[q], out'[q], undelivered'[q],
                           accepted'[q], closed'[q])
<1>3. CASE next(q)
  <2>1. CASE buf[q] = <<>>
    <3>1. QueueOK(IF closed[q] THEN "done" ELSE "idle", buf[q], inHand[q], out[q], undelivered[q],
                  accepted[q], closed[q])
      BY <1>3, <1>s, <2>1, LookOK, Zenon DEF next
    <3>2. /\ Same /\ inHand' = inHand /\ buf' = buf /\ out' = out
          /\ forwarder' = [forwarder EXCEPT ![q] = IF closed[q] THEN "done" ELSE "idle"]
      BY <1>3, <1>t, <1>0, <2>1, Zenon DEF next, QueueTypes
    <3>3. Fine
      BY <1>t, <1>0, <3>1, <3>2, Zenon DEF QueueTypes
    <3>4. QueueTypes'
      BY <1>t, <1>0, <3>2, Zenon DEF QueueTypes, Forwarding
    <3> QED  BY <1>1, <1>2, <3>2, <3>3, <3>4, OneQueueMoves, Zenon
  <2>2. CASE buf[q] # <<>>
    <3>1. QueueOK("sending", buf[q], Head(buf[q]), out[q], undelivered[q], accepted[q], closed[q])
      BY <1>3, <1>s, <2>2, LookOK, Zenon DEF next
    <3>2. /\ Same /\ buf' = buf /\ out' = out
          /\ inHand' = [inHand EXCEPT ![q] = Head(buf[q])]
          /\ forwarder' = [forwarder EXCEPT ![q] = "sending"]
      BY <1>3, <1>t, <1>0, <2>2, Zenon DEF next, QueueTypes
    <3>3. Fine
      BY <1>t, <1>0, <3>1, <3>2, Zenon DEF QueueTypes
    <3>4. Head(buf[q]) \in Nat
      BY <3>1, Zenon DEF QueueOK
    <3>5. QueueTypes'
      BY <1>t, <1>0, <3>2, <3>4, Zenon DEF QueueTypes, Forwarding
    <3> QED  BY <1>1, <1>2, <3>2, <3>3, <3>5, OneQueueMoves, Zenon
  <2> QED  BY <2>1, <2>2, Zenon
<1>4. CASE WakeForwarder(q) \/ Aborted(q)
  <2>1. /\ Same /\ inHand' = inHand /\ buf' = buf /\ out' = out
        /\ \E f \in {"look", "done"} : forwarder' = [forwarder EXCEPT ![q] = f]
    BY <1>4, <1>t, <1>0, Zenon DEF WakeForwarder, Aborted, QueueTypes
  <2>2. \/ forwarder[q] = "idle" /\ forwarder'[q] = "look"
        \/ forwarder[q] \in {"idle", "sending"} /\ abort[q] /\ forwarder'[q] = "done"
    BY <1>4, <1>t, Zenon DEF WakeForwarder, Aborted, QueueTypes
  <2>3. abort[q] => closed[q]
    BY Zenon DEF QueueInv, OwnersAgree
  <2>4. \A f : QueueOK(f, buf[q], inHand[q], out[q], undelivered[q], accepted[q], closed[q])
              /\ f = forwarder'[q] => Fine
    BY <1>0, <2>1, Zenon
  <2>5. Fine
    <3>1. CASE forwarder[q] = "idle" /\ forwarder'[q] = "look"
      BY <1>s, <2>4, <3>1, SignalOK, Zenon
    <3>2. CASE forwarder[q] \in {"idle", "sending"} /\ abort[q] /\ forwarder'[q] = "done"
      BY <1>s, <2>3, <2>4, <3>2, SignalOK, Zenon
    <3> QED  BY <2>2, <3>1, <3>2, Zenon
  <2>6. QueueTypes'
    BY <1>t, <1>0, <2>1 DEF QueueTypes, Forwarding
  <2> QED  BY <1>1, <1>2, <2>1, <2>5, <2>6, OneQueueMoves, Zenon
<1>5. CASE Send(q)
  <2>1. QueueOK("sent", buf[q], inHand[q], Append(out[q], inHand[q]), undelivered[q], accepted[q],
                closed[q])
    BY <1>5, <1>s, SendOK, Zenon DEF Send
  <2>2. /\ Same /\ buf' = buf /\ inHand' = inHand
        /\ out' = [out EXCEPT ![q] = Append(out[q], inHand[q])]
        /\ forwarder' = [forwarder EXCEPT ![q] = "sent"]
    BY <1>5, <1>t, <1>0, Zenon DEF Send, QueueTypes
  <2>3. Fine
    BY <1>t, <1>0, <2>1, <2>2, Zenon DEF QueueTypes
  <2>4. Append(out[q], inHand[q]) \in Seq(Nat)
    BY <2>1, Zenon DEF QueueOK
  <2>5. QueueTypes'
    BY <1>t, <1>0, <2>2, <2>4, Zenon DEF QueueTypes, Forwarding
  <2> QED  BY <1>1, <1>2, <2>2, <2>3, <2>5, OneQueueMoves, Zenon
<1>6. CASE pop(q)
  <2> DEFINE rest == IF buf[q] = <<>> THEN buf[q] ELSE Tail(buf[q])
  <2>1. QueueOK("look", rest, inHand[q], out[q], undelivered[q], accepted[q], closed[q])
    BY <1>6, <1>s, PopOK, Zenon DEF pop
  <2>2. buf' = [buf EXCEPT ![q] = rest]
    BY <1>6, Zenon DEF pop
  <2> HIDE DEF rest
  <2>3. /\ Same /\ inHand' = inHand /\ out' = out
        /\ forwarder' = [forwarder EXCEPT ![q] = "look"]
    BY <1>6, <1>t, <1>0, <2>2, Zenon DEF pop, QueueTypes
  <2>4. Fine
    BY <1>t, <1>0, <2>1, <2>2, <2>3, Zenon DEF QueueTypes
  <2>5. rest \in Seq(Nat)
    BY <2>1, Zenon DEF QueueOK
  <2>6. QueueTypes'
    BY <1>t, <1>0, <2>2, <2>3, <2>5, Zenon DEF QueueTypes, Forwarding
  <2> QED  BY <1>1, <1>2, <2>3, <2>2, <2>4, <2>6, OneQueueMoves, Zenon
<1> QED  BY <1>3, <1>4, <1>5, <1>6, Zenon DEF ForwardStep

\* The publishers: only an open queue takes an event.
LEMMA PublisherKeeps ==
  ASSUME QueueInv, NEW p \in Publishers, Publish(p) \/ Poke(p)
  PROVE  QueueInv'
<1> USE DEF forwardVars, ownerVars
<1>t. QueueTypes
  BY Zenon DEF QueueInv
<1>0. UNCHANGED <<sharing, created, closed, abort, forwarder, inHand, sharedBy, owner, held, out,
                  undelivered>>
  BY Zenon DEF Publish, Poke
<1>1. OwnersAgree' /\ SenderIsOwned'
  BY <1>0, Zenon DEF QueueInv, OwnersAgree, SenderIsOwned
<1>2. CASE Publish(p)
  <2> DEFINE q == IF p = "broadcast" THEN sharedBy ELSE held[p]
  <2>1. /\ q # 0 /\ ~closed[q]
        /\ accepted' = [accepted EXCEPT ![q] = accepted[q] + 1]
        /\ buf' = [buf EXCEPT ![q] = Append(buf[q], accepted[q] + 1)]
        /\ publishing' = [publishing EXCEPT ![p] = q]
    BY <1>2, Zenon DEF Publish
  <2>2. q \in 0..created
    BY <1>t, Zenon DEF QueueTypes, Publishers
  <2> HIDE DEF q
  <2>3. q \in Queues
    BY <1>t, <2>1, <2>2, QueueAssumption DEF QueueTypes, Queues
  <2>4. closed[q] = FALSE
    BY <1>t, <2>1, <2>3, Zenon DEF QueueTypes
  <2>5. QueueOK(forwarder[q], buf[q], inHand[q], out[q], undelivered[q], accepted[q], FALSE)
    BY <2>3, <2>4, Zenon DEF QueueInv, QueueState
  <2>6. QueueOK(forwarder[q], Append(buf[q], accepted[q] + 1), inHand[q], out[q], undelivered[q],
                accepted[q] + 1, FALSE)
    BY <2>5, PublishOK, Zenon
  <2>7. QueueOK(forwarder'[q], buf'[q], inHand'[q], out'[q], undelivered'[q], accepted'[q],
                closed'[q])
    BY <1>t, <1>0, <2>1, <2>3, <2>4, <2>6, Zenon DEF QueueTypes
  <2>8. Append(buf[q], accepted[q] + 1) \in Seq(Nat) /\ accepted[q] + 1 \in Nat
    BY <2>6, Zenon DEF QueueOK
  <2>9. QueueTypes'
    BY <1>t, <1>0, <2>1, <2>2, <2>8, Zenon DEF QueueTypes
  <2>10. \A r \in Queues \ {q} :
           UNCHANGED <<forwarder[r], buf[r], inHand[r], out[r], undelivered[r], accepted[r],
                       closed[r]>>
    BY <1>t, <1>0, <2>1, Zenon DEF QueueTypes
  <2> QED  BY <1>1, <2>3, <2>7, <2>9, <2>10, OneQueueMoves, Zenon
<1>3. CASE Poke(p)
  <2>1. UNCHANGED <<buf, accepted>> /\ publishing' = [publishing EXCEPT ![p] = 0]
    BY <1>3, Zenon DEF Poke
  <2>2. QueueTypes'
    BY <1>t, <1>0, <2>1 DEF QueueTypes
  <2>3. \A q \in Queues : QueueState(q)'
    BY <1>0, <2>1, Zenon DEF QueueInv, QueueState
  <2> QED  BY <1>1, <2>2, <2>3, Zenon DEF QueueInv
<1> QED  BY <1>2, <1>3, Zenon

\* An owner that joins: the queue is the registered one, or a new one.
LEMMA AcquireKeeps ==
  ASSUME QueueInv, NEW o \in Owners, Acquire(o)
  PROVE  QueueInv'
<1> USE DEF forwardVars
<1> DEFINE q == IF sharedBy = 0 THEN created + 1 ELSE sharedBy
<1>t. QueueTypes
  BY Zenon DEF QueueInv
<1>0. /\ UNCHANGED <<sharing, buf, closed, abort, forwarder, inHand, publishing, accepted, out,
                     undelivered>>
      /\ q \in Queues /\ sharedBy' = q /\ owner[o] = "out"
      /\ created' = (IF sharedBy = 0 THEN q ELSE created)
      /\ held' = [held EXCEPT ![o] = q] /\ owner' = [owner EXCEPT ![o] = "using"]
  BY Zenon DEF Acquire
<1>1. /\ created' \in 0..MaxQueues /\ created <= created' /\ q \in 1..created'
      /\ (sharedBy # 0 => created' = created /\ q = sharedBy)
      /\ (sharedBy = 0 => q = created + 1 /\ created' = created + 1)
  BY <1>t, <1>0, QueueAssumption DEF QueueTypes, Queues
<1> HIDE DEF q
<1>2. 0..created \subseteq 0..created'
  BY <1>t, <1>1 DEF QueueTypes
<1>3. QueueTypes'
  <2>1. held' \in [Owners -> 0..created'] /\ publishing' \in [Publishers -> 0..created']
    BY <1>t, <1>0, <1>1, <1>2 DEF QueueTypes
  <2>2. owner' \in [Owners -> OwnerSteps] /\ sharedBy' \in 0..created'
    BY <1>t, <1>0, <1>1 DEF QueueTypes, OwnerSteps
  <2> QED  BY <1>t, <1>0, <1>1, <2>1, <2>2, Zenon DEF QueueTypes
<1>4. ASSUME NEW d \in Owners
      PROVE  /\ owner'[d] # "out" => held'[d] # 0
             /\ owner'[d] = "using" /\ sharing' = "acquire" => held'[d] = sharedBy'
             /\ owner'[d] \in {"poking", "draining", "discarding", "stopping"} => closed'[held'[d]]
  <2>1. CASE d = o
    BY <1>t, <1>0, <1>1, <2>1 DEF QueueTypes
  <2>2. CASE d # o
    <3>1. owner'[d] = owner[d] /\ held'[d] = held[d]
      BY <1>t, <1>0, <2>2, Zenon DEF QueueTypes
    <3> QED  BY <1>0, <1>1, <3>1, Zenon DEF QueueInv, OwnersAgree
  <2> QED  BY <2>1, <2>2, Zenon
<1>5. OwnersAgree'
  BY <1>0, <1>4, Zenon DEF QueueInv, OwnersAgree
<1>6. SenderIsOwned'
  <2> SUFFICES ASSUME NEW r \in 1..created', forwarder'[r] # "done", r # sharedBy'
               PROVE  \E d \in Owners : held'[d] = r /\ owner'[d] \in Releasing
    BY Zenon DEF SenderIsOwned
  <2>1. r \in 1..created /\ r # sharedBy
    BY <1>t, <1>0, <1>1 DEF QueueTypes
  <2>2. PICK d \in Owners : held[d] = r /\ owner[d] \in Releasing
    BY <1>0, <2>1, Zenon DEF QueueInv, SenderIsOwned
  <2>3. d # o
    BY <1>0, <2>2, Zenon DEF Releasing
  <2> QED  BY <1>t, <1>0, <2>2, <2>3, Zenon DEF QueueTypes
<1>7. \A r \in Queues : QueueState(r)'
  BY <1>0, Zenon DEF QueueInv, QueueState
<1> QED  BY <1>3, <1>5, <1>6, <1>7, Zenon DEF QueueInv

\* The queue numbers given out so far are numbers of queues.
LEMMA CreatedAreQueues == QueueTypes => \A q \in 0..created : q # 0 => q \in Queues
  BY QueueAssumption DEF QueueTypes, Queues

\* The last user is the one whose release finds one reference.
LEMMA LastUser ==
  ASSUME QueueTypes, NEW o \in Owners, owner[o] = "using", refs(held[o]) = 1,
         NEW d \in Owners, owner[d] = "using", held[d] = held[o]
  PROVE  d = o
<1> DEFINE Users == {e \in Owners : owner[e] = "using" /\ held[e] = held[o]}
<1>1. IsFiniteSet(Users)
  BY QueueAssumption, FS_Subset, Zenon
<1>2. Cardinality(Users) = 1 /\ o \in Users /\ d \in Users
  BY Zenon DEF refs
<1> HIDE DEF Users
<1>3. \E x : Users = {x}
  BY <1>1, <1>2, FS_Singleton, Zenon
<1> QED  BY <1>2, <1>3

\* An owner that leaves keeps the queue it closes in its name.
LEMMA LeaveKeeps ==
  ASSUME QueueInv, NEW o \in Owners, Release(o) \/ Unsubscribe(o)
  PROVE  QueueInv'
<1> USE DEF forwardVars
<1>t. QueueTypes
  BY Zenon DEF QueueInv
<1>0. /\ UNCHANGED <<sharing, created, buf, closed, abort, forwarder, inHand, held, publishing,
                     accepted, out, undelivered>>
      /\ owner[o] = "using" /\ sharedBy' \in {sharedBy, 0}
      /\ \E w \in {"closing", "out"} : owner' = [owner EXCEPT ![o] = w]
      /\ sharedBy' # sharedBy => owner'[o] = "closing"
  BY <1>t, Zenon DEF Release, Unsubscribe, QueueTypes
<1>1. sharedBy' # sharedBy => held[o] = sharedBy
  <2>1. CASE Release(o)
    BY <2>1, Zenon DEF Release, QueueInv, OwnersAgree
  <2>2. CASE Unsubscribe(o)
    BY <2>2, Zenon DEF Unsubscribe
  <2> QED  BY <2>1, <2>2, Zenon
<1>2. QueueTypes'
  BY <1>t, <1>0 DEF QueueTypes, OwnerSteps
<1>3. \A d \in Owners : d # o => owner'[d] = owner[d]
  BY <1>t, <1>0, Zenon DEF QueueTypes
<1>4. owner'[o] \in {"closing", "out"}
  BY <1>t, <1>0, Zenon DEF QueueTypes
<1>5. ASSUME NEW d \in Owners, owner'[d] = "using", sharing' = "acquire"
      PROVE  held'[d] = sharedBy'
  <2>1. d # o /\ owner[d] = "using" /\ held[d] = sharedBy /\ held[o] = sharedBy
    BY <1>0, <1>3, <1>4, <1>5, Zenon DEF QueueInv, OwnersAgree
  <2>2. Release(o)
    BY <1>0, <1>5, Zenon DEF Unsubscribe
  <2>3. refs(held[o]) # 1
    BY <1>t, <1>0, <2>1, LastUser, Zenon
  <2> QED  BY <1>0, <2>1, <2>2, <2>3, Zenon DEF Release
<1>6. ASSUME NEW d \in Owners
      PROVE  /\ owner'[d] # "out" => held'[d] # 0
             /\ owner'[d] \in {"poking", "draining", "discarding", "stopping"} => closed'[held'[d]]
  BY <1>0, <1>3, <1>4, Zenon DEF QueueInv, OwnersAgree
<1>7. OwnersAgree'
  BY <1>0, <1>5, <1>6, Zenon DEF QueueInv, OwnersAgree
<1>8. SenderIsOwned'
  <2> SUFFICES ASSUME NEW r \in 1..created, forwarder[r] # "done", r # sharedBy'
               PROVE  \E d \in Owners : held[d] = r /\ owner'[d] \in Releasing
    BY <1>0, Zenon DEF SenderIsOwned
  <2>1. CASE r = sharedBy
    BY <1>0, <1>1, <2>1, Zenon DEF Releasing
  <2>2. CASE r # sharedBy
    <3>1. PICK d \in Owners : held[d] = r /\ owner[d] \in Releasing
      BY <2>2, Zenon DEF QueueInv, SenderIsOwned
    <3> QED  BY <1>0, <1>3, <3>1, Zenon DEF Releasing
  <2> QED  BY <2>1, <2>2, Zenon
<1>9. \A r \in Queues : QueueState(r)'
  BY <1>0, Zenon DEF QueueInv, QueueState
<1> QED  BY <1>2, <1>7, <1>8, <1>9, Zenon DEF QueueInv

\* Close and Discard: the queue is closed before its forwarder is stopped, and it is
\* released when the forwarder is done.
LEMMA CloseKeeps ==
  ASSUME QueueInv, NEW o \in Owners, ReleaseStep(o)
  PROVE  QueueInv'
<1> USE DEF forwardVars
<1> DEFINE q == held[o]
<1>t. QueueTypes
  BY Zenon DEF QueueInv
<1>0. /\ UNCHANGED <<sharing, created, forwarder, inHand, sharedBy, held, publishing, accepted, out>>
      /\ owner[o] \in Releasing
      /\ \E w \in {"poking", "discarding", "draining", "stopping", "out"} :
           owner' = [owner EXCEPT ![o] = w]
  BY Zenon DEF ReleaseStep, markClosed, PokeClosed, stopForwarder, Clear, Releasing
<1>q. q \in Queues
  <2>1. q \in 0..created /\ q # 0
    BY <1>t, <1>0, Zenon DEF QueueTypes, QueueInv, OwnersAgree, Releasing
  <2> QED  BY <1>t, <2>1, CreatedAreQueues, Zenon
<1>s. QueueOK(forwarder[q], buf[q], inHand[q], out[q], undelivered[q], accepted[q], closed[q])
  BY <1>q, Zenon DEF QueueInv, QueueState
<1>1. /\ \A d \in Owners : d # o => owner'[d] = owner[d]
      /\ owner'[o] \in {"poking", "discarding", "draining", "stopping", "out"}
      /\ owner' \in [Owners -> OwnerSteps]
  BY <1>t, <1>0, Zenon DEF QueueTypes, OwnerSteps
<1>2. owner'[o] = "out" => forwarder[q] = "done"
  BY <1>t, Zenon DEF ReleaseStep, markClosed, PokeClosed, stopForwarder, Clear, QueueTypes
<1>3. SenderIsOwned'
  <2> SUFFICES ASSUME NEW r \in 1..created, forwarder[r] # "done", r # sharedBy
               PROVE  \E d \in Owners : held[d] = r /\ owner'[d] \in Releasing
    BY <1>0, Zenon DEF SenderIsOwned
  <2>1. PICK d \in Owners : held[d] = r /\ owner[d] \in Releasing
    BY Zenon DEF QueueInv, SenderIsOwned
  <2> QED  BY <1>1, <1>2, <2>1, Zenon DEF Releasing
<1>4. CASE markClosed(o)
  <2>1. closed' = [closed EXCEPT ![q] = TRUE] /\ UNCHANGED <<buf, abort, undelivered>>
    BY <1>4, Zenon DEF markClosed
  <2>2. closed' \in [Queues -> BOOLEAN] /\ closed'[q] = TRUE
        /\ \A r \in Queues : r # q => closed'[r] = closed[r]
    BY <1>t, <1>q, <2>1, Zenon DEF QueueTypes
  <2>3. QueueTypes'
    BY <1>t, <1>0, <1>1, <2>1, <2>2, Zenon DEF QueueTypes
  <2>4. \A r \in Queues : closed[r] => closed'[r]
    BY <2>2, Zenon
  <2>5. \A d \in Owners : held[d] # 0 => held[d] \in Queues
    BY <1>t, CreatedAreQueues, Zenon DEF QueueTypes
  <2>6. OwnersAgree'
    BY <1>0, <1>1, <2>1, <2>2, <2>4, <2>5 DEF QueueInv, OwnersAgree, Releasing
  <2>7. QueueOK(forwarder'[q], buf'[q], inHand'[q], out'[q], undelivered'[q], accepted'[q],
                closed'[q])
    BY <1>s, <1>0, <2>1, <2>2, SignalOK, Zenon
  <2> QED  BY <1>0, <1>q, <1>3, <2>1, <2>2, <2>3, <2>6, <2>7, OneQueueMoves, Zenon
<1>5. CASE PokeClosed(o) \/ stopForwarder(o)
  <2>1. /\ UNCHANGED <<buf, closed, undelivered>>
        /\ abort' = abort \/ abort' = [abort EXCEPT ![q] = TRUE]
        /\ owner[o] \in {"poking", "draining", "discarding"}
    BY <1>5, Zenon DEF PokeClosed, stopForwarder
  <2>2. closed[q]
    BY <2>1, Zenon DEF QueueInv, OwnersAgree
  <2>3. QueueTypes'
    BY <1>t, <1>0, <1>1, <2>1, Zenon DEF QueueTypes
  <2>4. \A r \in Queues : abort'[r] => closed'[r]
    BY <1>t, <2>1, <2>2, Zenon DEF QueueTypes, QueueInv, OwnersAgree
  <2>5. OwnersAgree'
    BY <1>0, <1>1, <2>1, <2>2, <2>4, Zenon DEF QueueInv, OwnersAgree, Releasing
  <2>6. \A r \in Queues : QueueState(r)'
    BY <1>0, <2>1, Zenon DEF QueueInv, QueueState
  <2> QED  BY <1>3, <2>3, <2>5, <2>6, Zenon DEF QueueInv
<1>6. CASE Clear(o)
  <2>1. /\ UNCHANGED <<closed, abort>> /\ forwarder[q] = "done"
        /\ owner' = [owner EXCEPT ![o] = "out"]
        /\ buf' = [buf EXCEPT ![q] = <<>>]
        /\ undelivered' = [undelivered EXCEPT ![q] = undelivered[q] + Len(buf[q])]
    BY <1>6, Zenon DEF Clear
  <2>2. QueueOK("done", <<>>, inHand[q], out[q], undelivered[q] + Len(buf[q]), accepted[q], closed[q])
    BY <1>s, <2>1, ClearOK, Zenon
  <2>3. QueueOK(forwarder'[q], buf'[q], inHand'[q], out'[q], undelivered'[q], accepted'[q],
                closed'[q])
    BY <1>t, <1>q, <1>0, <2>1, <2>2, Zenon DEF QueueTypes
  <2>4. undelivered[q] + Len(buf[q]) \in Nat /\ <<>> \in Seq(Nat)
    BY <2>2, Zenon DEF QueueOK
  <2>5. QueueTypes'
    BY <1>t, <1>0, <1>1, <2>1, <2>4, Zenon DEF QueueTypes
  <2>6. OwnersAgree'
    BY <1>t, <1>0, <1>1, <2>1, Zenon DEF QueueInv, OwnersAgree, QueueTypes
  <2>7. \A r \in Queues \ {q} :
          UNCHANGED <<forwarder[r], buf[r], inHand[r], out[r], undelivered[r], accepted[r],
                      closed[r]>>
    BY <1>t, <1>0, <2>1, Zenon DEF QueueTypes
  <2> QED  BY <1>q, <1>3, <2>3, <2>5, <2>6, <2>7, OneQueueMoves, Zenon
<1> QED  BY <1>4, <1>5, <1>6, Zenon DEF ReleaseStep

\* The invariant of the event queues holds in every reachable state.
LEMMA QueueInvariant == QueueSpec => []QueueInv
<1>1. QueueInit => QueueInv
  <2> SUFFICES ASSUME QueueInit PROVE QueueInv
    BY Zenon
  <2>1. QueueTypes
    BY QueueAssumption DEF QueueInit, QueueTypes, OwnerSteps, Forwarding
  <2>2. \A q \in Queues : QueueState(q)
    <3>1. QueueOK("look", <<>>, 0, <<>>, 0, 0, FALSE)
      BY DEF QueueOK, Forwarding
    <3> QED  BY <3>1, Zenon DEF QueueInit, QueueState
  <2>3. OwnersAgree /\ SenderIsOwned
    BY DEF QueueInit, OwnersAgree, SenderIsOwned
  <2> QED  BY <2>1, <2>2, <2>3, Zenon DEF QueueInv
<1>2. QueueInv /\ UNCHANGED queueVars => QueueInv'
  <2> SUFFICES ASSUME QueueInv, UNCHANGED queueVars PROVE QueueInv'
    BY Zenon
  <2> USE DEF queueVars, forwardVars, ownerVars
  <2>1. QueueTypes'
    BY Zenon DEF QueueInv, QueueTypes
  <2>2. OwnersAgree' /\ SenderIsOwned'
    BY Zenon DEF QueueInv, OwnersAgree, SenderIsOwned
  <2>3. \A q \in Queues : QueueState(q)'
    BY Zenon DEF QueueInv, QueueState
  <2> QED  BY <2>1, <2>2, <2>3, Zenon DEF QueueInv
<1>3. QueueInv /\ [QueueNext]_queueVars => QueueInv'
  BY <1>2, AcquireKeeps, LeaveKeeps, CloseKeeps, PublisherKeeps, ForwarderKeeps, Zenon DEF QueueNext
<1> QED  BY <1>1, <1>3, PTL DEF QueueSpec

\* DeliveredInOrder for every number of owners, queues and events.
THEOREM QueuesDeliverInOrder == QueueSpec => []DeliveredInOrder
<1>1. QueueInv => DeliveredInOrder
  BY Zenon DEF QueueInv, QueueState, QueueOK, DeliveredInOrder, InFlight
<1> QED  BY <1>1, QueueInvariant, PTL

\* SenderIsOwned for every number of owners and queues.
THEOREM SendersAreOwned == QueueSpec => []SenderIsOwned
<1>1. QueueInv => SenderIsOwned
  BY Zenon DEF QueueInv
<1> QED  BY <1>1, QueueInvariant, PTL

-----------------------------------------------------------------------------
(* The fuel keeper.                                                        *)

\* The smaller of two numbers, as the keeper's caps use it.
LEMMA SmallerOf ==
  ASSUME NEW x \in Nat, NEW y \in Nat
  PROVE  Capped(x, y) \in Nat /\ Capped(x, y) <= x /\ Capped(x, y) <= y
  BY DEF Capped

\* More fan-outs mint more; the outputs of one more and of one less.
LEMMA OutputsOf ==
  ASSUME NEW x \in Nat, NEW y \in Nat, x <= y
  PROVE  /\ x * FanoutOutputsPerTx \in Nat
         /\ x * FanoutOutputsPerTx <= y * FanoutOutputsPerTx
         /\ (x + 1) * FanoutOutputsPerTx = x * FanoutOutputsPerTx + FanoutOutputsPerTx
<1> DEFINE f == FanoutOutputsPerTx
<1>1. f \in Nat
  BY FuelAssumption, Zenon
<1> HIDE DEF f
<1>2. x * f \in Nat /\ x * f <= y * f /\ (x + 1) * f = x * f + f
  BY <1>1
<1> QED  BY <1>2, Zenon DEF f

\* Leaves that all have a chunk, whatever was paid from the default basket before.
LEMMA ChunksSuffice ==
  \A n, have, reserved, paid, failed \in Nat :
    n <= have /\ have + paid <= reserved + failed => n + paid <= 0 + reserved + failed
  OBVIOUS

\* leavesFor: as many fan-outs as cover the deficit, and not a whole one more.
LEMMA LeavesCover ==
  ASSUME NEW deficit \in Nat
  PROVE  /\ LeavesFor(deficit) \in Nat
         /\ LeavesFor(deficit) * FanoutOutputsPerTx <= deficit + FanoutOutputsPerTx - 1
<1> DEFINE n == deficit + FanoutOutputsPerTx - 1
<1>1. n \in Nat /\ FanoutOutputsPerTx \in Nat \ {0}
  BY FuelAssumption
<1>2. n \div FanoutOutputsPerTx \in Nat
      /\ FanoutOutputsPerTx * (n \div FanoutOutputsPerTx) <= n
  BY <1>1
<1> QED  BY <1>1, <1>2 DEF LeavesFor

\* Low water is not above high water.
LEMMA WaterLevels ==
  ASSUME NEW t \in Targets
  PROVE  LowWater(t) \in Nat /\ HighWater(t) \in Nat /\ LowWater(t) <= HighWater(t)
<1> DEFINE l == t * LowWaterPercent
           h == t * HighWaterPercent
<1>1. t \in Nat /\ LowWaterPercent \in Nat /\ HighWaterPercent \in Nat
      /\ LowWaterPercent <= HighWaterPercent
  BY FuelAssumption
<1>2. l \in Nat /\ h \in Nat /\ l <= h
  BY <1>1
<1> HIDE DEF l, h
<1>3. l \div 100 \in Nat /\ h \div 100 \in Nat /\ l \div 100 <= h \div 100
  BY <1>2
<1> QED  BY <1>3, Zenon DEF LowWater, HighWater, l, h

FuelTypes ==
  /\ pool \in Nat /\ reserve \in Nat /\ funds \in Nat
  /\ lost \in Nat /\ overdrawn \in Nat
  /\ leaves \in Nat /\ chunks \in Nat /\ minted \in Nat /\ ask \in Nat
  /\ poolTarget \in Targets
  /\ round \in [Runners -> {"idle", "measure", "reserve", "split", "mint"}]

\* roundInFlight keeps rounds apart, so that the locals belong to one runner.
OneRound ==
  /\ \A k \in Runners : round[k] # "idle" => roundInFlight
  /\ \A j, k \in Runners : round[j] # "idle" /\ round[k] # "idle" => j = k

\* Every round starts its count anew.
CountedAnew == (\A k \in Runners : round[k] # "mint") => minted = 0

\* What is left to mint fits under the high water it was computed for.
RoundFits(k) ==
  /\ round[k] # "idle" => snapshot \in Targets
  /\ round[k] \in {"reserve", "split", "mint"} =>
       /\ minted <= leaves
       /\ pool + (leaves - minted) * FanoutOutputsPerTx
            <= HighWater(snapshot) + FanoutOutputsPerTx - 1 + lost * FanoutOutputsPerTx

\* What is left to mint has its chunk in the reserve, but for one chunk for every
\* mishap that has not shown yet.
RoundIsProvided(k) ==
  /\ round[k] = "split" => chunks + overdrawn <= reserve + lost
  /\ round[k] = "mint" => leaves + overdrawn <= minted + reserve + lost

FuelInv ==
  /\ FuelTypes /\ OneRound /\ CountedAnew
  /\ \A k \in Runners : RoundFits(k) /\ RoundIsProvided(k)
  /\ PoolIsBounded /\ ReservePaysLeaves

\* A keeper starts with an empty pool and no round.
LEMMA FuelStarts == FuelInit => FuelInv
<1> SUFFICES ASSUME FuelInit PROVE FuelInv
  BY Zenon
<1>1. FuelTypes /\ OneRound /\ CountedAnew /\ ReservePaysLeaves
  BY FuelAssumption DEF FuelInit, FuelTypes, OneRound, CountedAnew, ReservePaysLeaves
<1>2. \A k \in Runners : RoundFits(k) /\ RoundIsProvided(k)
  BY Zenon DEF FuelInit, RoundFits, RoundIsProvided
<1>3. PoolIsBounded
  <2>1. PICK t \in Targets : TRUE
    BY FuelAssumption, Zenon
  <2>2. HighWater(t) \in Nat
    BY WaterLevels, Zenon
  <2> QED  BY <2>2, FuelAssumption DEF FuelInit, PoolIsBounded
<1> QED  BY <1>1, <1>2, <1>3, Zenon DEF FuelInv

\* Ending a round, whatever its step was.
LEMMA RoundEnds ==
  ASSUME FuelInv, NEW k \in Runners, round[k] # "idle", EndRound(k),
         UNCHANGED <<basketVars, poolTarget, spends, lost, overdrawn>>
  PROVE  FuelInv'
<1>1. \A j \in Runners : round'[j] = "idle"
  BY Zenon DEF FuelInv, FuelTypes, OneRound, EndRound, Enter
<1>2. FuelTypes'
  BY Zenon DEF FuelInv, FuelTypes, EndRound, Enter, basketVars
<1>3. OneRound' /\ CountedAnew' /\ \A j \in Runners : (RoundFits(j) /\ RoundIsProvided(j))'
  BY <1>1, Zenon DEF EndRound, OneRound, CountedAnew, RoundFits, RoundIsProvided
<1>4. PoolIsBounded' /\ ReservePaysLeaves'
  BY Zenon DEF FuelInv, PoolIsBounded, ReservePaysLeaves, basketVars, HighWater
<1> QED  BY <1>2, <1>3, <1>4, Zenon DEF FuelInv

\* A step of the round that is under way concerns no other runner.
LEMMA OnlyRound ==
  ASSUME FuelInv, NEW k \in Runners, round[k] # "idle", NEW s, s # "idle",
         round' = round \/ Enter(k, s), UNCHANGED roundInFlight
  PROVE  /\ OneRound'
         /\ \A j \in Runners : j # k => (RoundFits(j) /\ RoundIsProvided(j))'
<1>1. \A j \in Runners : j # k => round[j] = "idle" /\ round'[j] = "idle"
  BY Zenon DEF FuelInv, FuelTypes, OneRound, Enter
<1>2. roundInFlight
  BY Zenon DEF FuelInv, OneRound
<1> QED  BY <1>1, <1>2, Zenon DEF OneRound, RoundFits, RoundIsProvided

\* A new round finds none under way; it takes the target as it is now.
LEMMA RoundStarts ==
  ASSUME FuelInv, NEW k \in Runners, runOnce(k)
  PROVE  FuelInv'
<1>1. \A j \in Runners : round[j] = "idle"
  BY Zenon DEF FuelInv, OneRound, runOnce
<1>2. FuelTypes' /\ OneRound' /\ CountedAnew'
  BY <1>1, Zenon DEF FuelInv, FuelTypes, OneRound, CountedAnew, runOnce, Enter, basketVars
<1>3. RoundFits(k)' /\ RoundIsProvided(k)'
  BY <1>2, Zenon DEF FuelInv, FuelTypes, RoundFits, RoundIsProvided, runOnce, Enter
<1>4. \A j \in Runners : j # k => (RoundFits(j) /\ RoundIsProvided(j))'
  BY <1>1, Zenon DEF FuelInv, FuelTypes, RoundFits, RoundIsProvided, runOnce, Enter
<1>5. PoolIsBounded' /\ ReservePaysLeaves'
  BY Zenon DEF FuelInv, PoolIsBounded, ReservePaysLeaves, HighWater, runOnce, basketVars
<1> QED  BY <1>2, <1>3, <1>4, <1>5, Zenon DEF FuelInv

\* The round's size: its fan-outs cover the deficit and not a whole one more.
LEMMA RoundIsSized ==
  ASSUME FuelInv, NEW k \in Runners, MeasurePool(k)
  PROVE  FuelInv'
<1>1. CASE pool >= LowWater(snapshot) /\ EndRound(k)
  BY <1>1, RoundEnds, Zenon DEF MeasurePool
<1>2. CASE /\ pool < LowWater(snapshot)
           /\ \E cap \in {FanoutMaxTxsPerRound, Capped(FanoutMaxTxsPerRound, StreamLeafCap)} :
                leaves' = Capped(LeavesFor(HighWater(snapshot) - pool), cap)
           /\ Enter(k, "reserve")
           /\ UNCHANGED <<roundInFlight, snapshot, chunks, minted, ask>>
  <2>1. /\ round[k] = "measure" /\ snapshot \in Targets /\ minted = 0 /\ pool \in Nat /\ lost \in Nat
        /\ UNCHANGED <<pool, reserve, funds, poolTarget, spends, lost, overdrawn>>
    BY Zenon DEF FuelInv, FuelTypes, OneRound, CountedAnew, RoundFits, MeasurePool, basketVars
  <2>2. LowWater(snapshot) \in Nat /\ HighWater(snapshot) \in Nat
        /\ HighWater(snapshot) - pool \in Nat
    BY <1>2, <2>1, WaterLevels
  <2> DEFINE need == LeavesFor(HighWater(snapshot) - pool)
  <2>3. need \in Nat
        /\ need * FanoutOutputsPerTx <= HighWater(snapshot) - pool + FanoutOutputsPerTx - 1
    BY <2>2, LeavesCover, Zenon
  <2>4. leaves' \in Nat /\ leaves' <= need
    <3>1. FanoutMaxTxsPerRound \in Nat /\ Capped(FanoutMaxTxsPerRound, StreamLeafCap) \in Nat
      BY SmallerOf, FuelAssumption, Zenon
    <3> QED  BY <1>2, <2>3, <3>1, SmallerOf, Zenon
  <2> HIDE DEF need
  <2>5. leaves' * FanoutOutputsPerTx <= need * FanoutOutputsPerTx
    BY <2>3, <2>4, OutputsOf, Zenon
  <2>6. FuelTypes'
    BY <1>2, <2>1, <2>4, Zenon DEF FuelInv, FuelTypes, Enter
  <2>7. OneRound' /\ \A j \in Runners : j # k => (RoundFits(j) /\ RoundIsProvided(j))'
    BY <1>2, <2>1, OnlyRound, Zenon
  <2>8. round'[k] = "reserve"
    BY <1>2, Zenon DEF FuelInv, FuelTypes, Enter
  <2>9. RoundFits(k)' /\ RoundIsProvided(k)'
    <3>1. leaves' * FanoutOutputsPerTx \in Nat /\ lost * FanoutOutputsPerTx \in Nat
      BY <2>1, <2>4, OutputsOf
    <3>2. HighWater(snapshot)' = HighWater(snapshot)
      BY <1>2, Zenon DEF HighWater
    <3>3. pool + leaves' * FanoutOutputsPerTx
            <= HighWater(snapshot) + FanoutOutputsPerTx - 1 + lost * FanoutOutputsPerTx
      BY <2>1, <2>2, <2>3, <2>5, <3>1, FuelAssumption
    <3>4. (leaves - minted)' = leaves'
      BY <1>2, <2>1, <2>4
    <3> QED  BY <1>2, <2>1, <2>4, <2>8, <3>2, <3>3, <3>4 DEF RoundFits, RoundIsProvided
  <2>10. PoolIsBounded' /\ ReservePaysLeaves' /\ CountedAnew'
    BY <1>2, <2>1, Zenon DEF FuelInv, PoolIsBounded, ReservePaysLeaves, CountedAnew, HighWater
  <2> QED  BY <2>6, <2>7, <2>9, <2>10, Zenon DEF FuelInv
<1> QED  BY <1>1, <1>2, Zenon DEF MeasurePool

\* A smaller round and a larger allowance keep the bound of the pool.
LEMMA StillFits ==
  \A p, x, y, h, f, a, b \in Nat :
    x <= y /\ a <= b /\ p + y <= h + f - 1 + a => p + x <= h + f - 1 + b
OBVIOUS

\* ensureChunks asks for what is missing, and mints with what there is.
LEMMA ProvideLeads ==
  ASSUME leaves \in Nat, NEW have \in Nat, NEW k, Provide(k, have)
  PROVE  /\ Enter(k, "split") \/ (Enter(k, "mint") /\ leaves <= have)
         /\ leaves' = leaves /\ ask' \in Nat
<1>1. FanoutOutputsPerTx \in Nat
  BY FuelAssumption
<1>2. CASE have < leaves
  <2>1. Enter(k, "split") /\ leaves' = leaves /\ ask' = Capped(leaves - have, FanoutOutputsPerTx)
    BY <1>2, Zenon DEF Provide
  <2>2. leaves - have \in Nat
    BY <1>2
  <2> QED  BY <1>1, <2>1, <2>2, SmallerOf, Zenon
<1>3. CASE ~(have < leaves)
  <2>1. Enter(k, "mint") /\ leaves' = leaves /\ ask' = 0
    BY <1>3, Zenon DEF Provide
  <2>2. leaves <= have /\ 0 \in Nat
    BY <1>3
  <2> QED  BY <2>1, <2>2, Zenon
<1> QED  BY <1>2, <1>3, Zenon

\* A refused fan-out is tried again with half, or the round mints what it has.
LEMMA HalveLeads ==
  ASSUME ask \in Nat, NEW k, Halve(k)
  PROVE  /\ \/ round' = round /\ leaves' = leaves
            \/ Enter(k, "mint") /\ leaves' = Capped(leaves, chunks)
         /\ ask' \in Nat
<1>1. ask \div 2 \in Nat /\ 0 \in Nat
  OBVIOUS
<1> QED  BY <1>1, Zenon DEF Halve

\* ensureChunks and the chunk fan-outs: the round shrinks to what the reserve holds.
LEMMA ChunksAreProvided ==
  ASSUME FuelInv, NEW k \in Runners, MeasureReserve(k) \/ SplitChunks(k)
  PROVE  FuelInv'
<1>1. /\ round[k] \in {"reserve", "split"} /\ minted = 0 /\ snapshot \in Targets
      /\ UNCHANGED <<pool, poolTarget, roundInFlight, snapshot, minted, spends, overdrawn>>
  BY Zenon DEF MeasureReserve, SplitChunks, FuelInv, FuelTypes, OneRound, CountedAnew, RoundFits,
     basketVars
<1>2. /\ reserve' \in Nat /\ funds' \in Nat /\ chunks' \in Nat /\ lost' \in Nat /\ lost' >= lost
      /\ chunks' + overdrawn' <= reserve' + lost'
  <2>1. /\ reserve \in Nat /\ funds \in Nat /\ chunks \in Nat /\ lost \in Nat /\ ask \in Nat
        /\ overdrawn \in Nat /\ overdrawn <= lost /\ overdrawn' = overdrawn
        /\ round[k] = "split" => chunks + overdrawn <= reserve + lost
    BY <1>1, Zenon DEF FuelInv, FuelTypes, ReservePaysLeaves, RoundIsProvided
  <2>2. CASE MeasureReserve(k)
    <3>1. chunks' = reserve /\ reserve' = reserve /\ funds' = funds /\ lost' = lost
      BY <2>2, Zenon DEF MeasureReserve, basketVars
    <3> QED  BY <2>1, <3>1
  <2>3. CASE SplitChunks(k)
    <3>1. /\ round[k] = "split"
          /\ \/ /\ funds >= ask /\ funds' = funds - ask /\ reserve' = reserve + ask
                /\ chunks' = chunks + ask /\ lost' = lost
             \/ funds' = funds /\ reserve' = reserve /\ chunks' = chunks /\ lost' = lost
             \/ /\ funds >= ask /\ funds' = funds - ask /\ chunks' = chunks /\ lost' = lost + 1
                /\ reserve' = reserve + ask \/ reserve' = reserve
      BY <2>3, Zenon DEF SplitChunks
    <3> QED  BY <2>1, <3>1
  <2> QED  BY <2>2, <2>3, Zenon
<1>3. /\ \/ round' = round /\ round[k] = "split" /\ leaves' = leaves
         \/ Enter(k, "split") /\ leaves' = leaves
         \/ Enter(k, "mint") /\ leaves' = leaves /\ leaves <= chunks'
         \/ Enter(k, "mint") /\ leaves' = Capped(leaves, chunks')
      /\ ask' \in Nat
  <2>0. leaves \in Nat /\ ask \in Nat
    BY Zenon DEF FuelInv, FuelTypes
  <2>1. CASE MeasureReserve(k)
    <3>1. Provide(k, chunks')
      BY <2>1, Zenon DEF MeasureReserve
    <3> QED  BY <1>2, <2>0, <3>1, ProvideLeads, Zenon
  <2>2. CASE SplitChunks(k)
    <3>1. round[k] = "split" /\ (Provide(k, chunks') \/ (Halve(k) /\ chunks' = chunks))
      BY <2>2, Zenon DEF SplitChunks
    <3> QED  BY <1>2, <2>0, <3>1, ProvideLeads, HalveLeads, Zenon
  <2> QED  BY <2>1, <2>2, Zenon
<1>4. leaves' \in Nat /\ leaves' <= leaves /\ (round'[k] = "mint" => leaves' <= chunks')
  <2>0. leaves \in Nat /\ leaves <= leaves
    BY DEF FuelInv, FuelTypes
  <2>1. Enter(k, "split") => round'[k] = "split"
    BY Zenon DEF FuelInv, FuelTypes, Enter
  <2> QED  BY <1>2, <1>3, <2>0, <2>1, SmallerOf, Zenon
<1>5. ask' \in Nat
  BY <1>3, Zenon
<1>6. round' = round \/ Enter(k, "split") \/ Enter(k, "mint")
  BY <1>3, Zenon
<1>7. round'[k] \in {"split", "mint"}
  BY <1>3, Zenon DEF FuelInv, FuelTypes, Enter
<1>8. FuelTypes'
  BY <1>1, <1>2, <1>4, <1>5, <1>6, Zenon DEF FuelInv, FuelTypes, Enter
<1>9. OneRound' /\ \A j \in Runners : j # k => (RoundFits(j) /\ RoundIsProvided(j))'
  BY <1>1, <1>6, OnlyRound, Zenon
<1>10. RoundFits(k)'
  <2>1. leaves' * FanoutOutputsPerTx <= leaves * FanoutOutputsPerTx
        /\ leaves' * FanoutOutputsPerTx \in Nat /\ leaves * FanoutOutputsPerTx \in Nat
    BY <1>4, OutputsOf DEF FuelInv, FuelTypes
  <2>2. lost * FanoutOutputsPerTx <= lost' * FanoutOutputsPerTx
        /\ lost * FanoutOutputsPerTx \in Nat /\ lost' * FanoutOutputsPerTx \in Nat
    BY <1>2, OutputsOf DEF FuelInv, FuelTypes
  <2>3. pool + leaves * FanoutOutputsPerTx
          <= HighWater(snapshot) + FanoutOutputsPerTx - 1 + lost * FanoutOutputsPerTx
    <3>1. leaves - minted = leaves
      BY <1>1 DEF FuelInv, FuelTypes
    <3> QED  BY <1>1, <3>1, Zenon DEF FuelInv, RoundFits
  <2>4. HighWater(snapshot) \in Nat /\ HighWater(snapshot)' = HighWater(snapshot)
    BY <1>1, WaterLevels, Zenon DEF HighWater
  <2>5. pool + leaves' * FanoutOutputsPerTx
          <= HighWater(snapshot) + FanoutOutputsPerTx - 1 + lost' * FanoutOutputsPerTx
    <3>1. pool \in Nat /\ FanoutOutputsPerTx \in Nat
      BY FuelAssumption DEF FuelInv, FuelTypes
    <3> QED  BY <2>1, <2>2, <2>3, <2>4, <3>1, StillFits, Zenon
  <2>6. (leaves - minted)' = leaves'
    <3>1. minted' = 0 /\ \A n \in Nat : n - 0 = n
      BY <1>1
    <3> QED  BY <1>4, <3>1, Zenon
  <2> QED  BY <1>1, <1>4, <2>4, <2>5, <2>6 DEF RoundFits
<1>11. RoundIsProvided(k)'
  <2>1. overdrawn' \in Nat
    BY <1>1, Zenon DEF FuelInv, FuelTypes
  <2>2. ASSUME round'[k] = "mint" PROVE leaves' + overdrawn' <= minted' + reserve' + lost'
    <3>1. leaves' \in Nat /\ leaves' <= chunks' /\ minted' = 0
      BY <1>1, <1>4, <2>2, Zenon
    <3>2. /\ chunks' \in Nat /\ reserve' \in Nat /\ lost' \in Nat
          /\ chunks' + overdrawn' <= reserve' + lost'
      BY <1>2, Zenon
    <3> QED  BY <2>1, <3>1, <3>2, ChunksSuffice, Zenon
  <2> QED  BY <1>2, <2>2, Zenon DEF RoundIsProvided
<1>12. CountedAnew' /\ ReservePaysLeaves'
  BY <1>1, <1>2 DEF CountedAnew, ReservePaysLeaves, FuelInv, FuelTypes
<1>13. PoolIsBounded'
  <2>1. PICK t \in Targets :
          pool <= HighWater(t) + FanoutOutputsPerTx - 1 + lost * FanoutOutputsPerTx
    BY Zenon DEF FuelInv, PoolIsBounded
  <2>2. lost * FanoutOutputsPerTx <= lost' * FanoutOutputsPerTx
        /\ lost * FanoutOutputsPerTx \in Nat /\ lost' * FanoutOutputsPerTx \in Nat
    BY <1>2, OutputsOf DEF FuelInv, FuelTypes
  <2>3. HighWater(t) \in Nat
    BY WaterLevels, Zenon
  <2>4. pool' <= HighWater(t) + FanoutOutputsPerTx - 1 + lost' * FanoutOutputsPerTx
    BY <1>1, <2>1, <2>2, <2>3, FuelAssumption DEF FuelInv, FuelTypes
  <2> QED  BY <2>4, Zenon DEF PoolIsBounded, HighWater
<1> QED  BY <1>8, <1>9, <1>10, <1>11, <1>12, <1>13, Zenon DEF FuelInv

\* A leaf fan-out uses what was left to mint; one that is reported as failed, or keeps
\* its chunk, is allowed for by lost.
LEMMA LeafIsMinted ==
  ASSUME FuelInv, NEW k \in Runners, mintOneLeaf(k)
  PROVE  FuelInv'
<1>1. /\ round[k] = "mint" /\ minted < leaves /\ snapshot \in Targets
      /\ UNCHANGED <<poolTarget, roundInFlight, round, snapshot, leaves, chunks, ask, spends>>
      /\ \/ minted' = minted + 1 /\ lost' = lost /\ pool' = pool + FanoutOutputsPerTx
         \/ /\ minted' = minted /\ lost' = lost + 1
            /\ pool' = pool + FanoutOutputsPerTx \/ pool' = pool
  BY Zenon DEF mintOneLeaf, FuelInv, RoundFits
<1>2. /\ pool \in Nat /\ reserve \in Nat /\ funds \in Nat /\ lost \in Nat /\ overdrawn \in Nat
      /\ leaves \in Nat /\ minted \in Nat /\ FanoutOutputsPerTx \in Nat
      /\ overdrawn <= lost /\ leaves + overdrawn <= minted + reserve + lost
  BY <1>1, FuelAssumption, Zenon DEF FuelInv, FuelTypes, ReservePaysLeaves, RoundIsProvided
<1>3. \/ reserve > 0 /\ reserve' = reserve - 1 /\ UNCHANGED <<funds, overdrawn>>
      \/ reserve = 0 /\ funds > 0 /\ funds' = funds - 1 /\ overdrawn' = overdrawn + 1
         /\ reserve' = reserve
  BY Zenon DEF mintOneLeaf, PayLeaf
<1>4. FuelTypes'
  BY <1>1, <1>2, <1>3 DEF FuelInv, FuelTypes
<1>5. OneRound' /\ \A j \in Runners : j # k => (RoundFits(j) /\ RoundIsProvided(j))'
  BY <1>1, OnlyRound, Zenon
<1>6. CountedAnew'
  BY <1>1, Zenon DEF CountedAnew
<1>7. RoundIsProvided(k)' /\ ReservePaysLeaves'
  <2>1. leaves' + overdrawn' <= minted' + reserve' + lost' /\ overdrawn' <= lost'
    BY <1>1, <1>2, <1>3
  <2> QED  BY <1>1, <2>1, Zenon DEF RoundIsProvided, ReservePaysLeaves
<1> DEFINE level == HighWater(snapshot) + FanoutOutputsPerTx - 1
<1>8. pool' + (leaves' - minted') * FanoutOutputsPerTx <= level + lost' * FanoutOutputsPerTx
  <2>1. pool + (leaves - minted) * FanoutOutputsPerTx <= level + lost * FanoutOutputsPerTx
    BY <1>1, Zenon DEF FuelInv, RoundFits
  <2>2. HighWater(snapshot) \in Nat /\ level \in Nat
    BY <1>1, <1>2, WaterLevels, FuelAssumption
  <2> HIDE DEF level
  <2>3. CASE minted' = minted + 1 /\ lost' = lost /\ pool' = pool + FanoutOutputsPerTx
    <3> DEFINE rest == leaves - minted - 1
    <3>1. rest \in Nat /\ leaves - minted = rest + 1 /\ leaves' - minted' = rest
      BY <1>1, <1>2, <2>3
    <3> HIDE DEF rest
    <3>2. (rest + 1) * FanoutOutputsPerTx = rest * FanoutOutputsPerTx + FanoutOutputsPerTx
          /\ rest * FanoutOutputsPerTx \in Nat /\ lost * FanoutOutputsPerTx \in Nat
      BY <1>2, <3>1, OutputsOf
    <3> QED  BY <1>1, <1>2, <2>1, <2>2, <2>3, <3>1, <3>2
  <2>4. CASE /\ minted' = minted /\ lost' = lost + 1
             /\ pool' = pool + FanoutOutputsPerTx \/ pool' = pool
    <3> DEFINE rest == leaves - minted
    <3>1. rest \in Nat /\ leaves' - minted' = rest
      BY <1>1, <1>2, <2>4
    <3> HIDE DEF rest
    <3>2. (lost + 1) * FanoutOutputsPerTx = lost * FanoutOutputsPerTx + FanoutOutputsPerTx
          /\ rest * FanoutOutputsPerTx \in Nat /\ lost * FanoutOutputsPerTx \in Nat
      BY <1>2, <3>1, OutputsOf
    <3>3. pool + rest * FanoutOutputsPerTx <= level + lost * FanoutOutputsPerTx
      BY <2>1, Zenon DEF rest
    <3> QED  BY <1>1, <1>2, <2>2, <2>4, <3>1, <3>2, <3>3
  <2> QED  BY <1>1, <2>3, <2>4, Zenon
<1>9. RoundFits(k)'
  BY <1>1, <1>2, <1>8 DEF RoundFits, HighWater
<1>10. PoolIsBounded'
  <2>1. leaves' - minted' \in Nat /\ lost' \in Nat /\ pool' \in Nat
    BY <1>1, <1>2
  <2>2. (leaves' - minted') * FanoutOutputsPerTx \in Nat /\ lost' * FanoutOutputsPerTx \in Nat
    BY <2>1, OutputsOf
  <2>3. HighWater(snapshot) \in Nat
    BY <1>1, WaterLevels, Zenon
  <2>4. pool' <= HighWater(snapshot) + FanoutOutputsPerTx - 1 + lost' * FanoutOutputsPerTx
    BY <1>2, <1>8, <2>1, <2>2, <2>3
  <2> QED  BY <1>1, <2>4, Zenon DEF PoolIsBounded, HighWater
<1> QED  BY <1>4, <1>5, <1>6, <1>7, <1>9, <1>10, Zenon DEF FuelInv

\* A smaller pool and a larger allowance.
LEMMA StillBelow ==
  \A p, q, x, h, f, a, b \in Nat :
    p <= q /\ a <= b /\ q + x <= h + f - 1 + a => p + x <= h + f - 1 + b
OBVIOUS

\* A chunk less in the reserve for a mishap more.
LEMMA StillProvided ==
  \A n, m, r, s, a, b \in Nat :
    r + a <= s + b =>
      \A c \in Nat : /\ c + n <= r + a => c + n <= s + b
                     /\ c + n <= m + r + a => c + n <= m + s + b
OBVIOUS

\* The stream spends fuel, new targets are set, chunks fail on the network and abandoned
\* fan-outs are swept while a round is under way.
LEMMA StreamGoesOn ==
  ASSUME FuelInv,
         \/ SpendFuel \/ ChunkFails \/ FailAbandonedFanOut
         \/ \E t \in Targets : SetTargetPoolSize(t)
  PROVE  FuelInv'
<1>1. /\ UNCHANGED <<roundInFlight, round, snapshot, leaves, chunks, minted, ask, overdrawn>>
      /\ poolTarget' \in Targets
  BY Zenon DEF SpendFuel, ChunkFails, FailAbandonedFanOut, SetTargetPoolSize, roundVars, FuelInv,
     FuelTypes
<1>2. /\ pool \in Nat /\ pool' \in Nat /\ pool' <= pool /\ funds' \in Nat
      /\ lost \in Nat /\ lost' \in Nat /\ lost <= lost'
      /\ reserve \in Nat /\ reserve' \in Nat /\ reserve + lost <= reserve' + lost'
  <2>1. pool \in Nat /\ reserve \in Nat /\ funds \in Nat /\ lost \in Nat
    BY Zenon DEF FuelInv, FuelTypes
  <2>2. \/ pool > 0 /\ pool' = pool - 1 /\ UNCHANGED <<reserve, funds, lost>>
        \/ /\ reserve > 0 /\ reserve' = reserve - 1 /\ funds' = funds + 1 /\ lost' = lost + 1
           /\ pool' = pool
        \/ reserve' = reserve + 1 /\ UNCHANGED <<pool, funds, lost>>
        \/ funds' = funds + 1 /\ UNCHANGED <<pool, reserve, lost>>
        \/ UNCHANGED <<pool, reserve, funds, lost>>
    BY Zenon DEF SpendFuel, ChunkFails, FailAbandonedFanOut, SetTargetPoolSize, basketVars
  <2> QED  BY <2>1, <2>2
<1>3. FuelTypes' /\ OneRound' /\ CountedAnew'
  BY <1>1, <1>2, Zenon DEF FuelInv, FuelTypes, OneRound, CountedAnew
<1>4. ReservePaysLeaves'
  <2>1. overdrawn \in Nat /\ overdrawn <= lost
    BY Zenon DEF FuelInv, FuelTypes, ReservePaysLeaves
  <2> QED  BY <1>1, <1>2, <2>1 DEF ReservePaysLeaves
<1>5. /\ lost * FanoutOutputsPerTx \in Nat /\ lost' * FanoutOutputsPerTx \in Nat
      /\ lost * FanoutOutputsPerTx <= lost' * FanoutOutputsPerTx /\ FanoutOutputsPerTx \in Nat
  <2>1. FanoutOutputsPerTx \in Nat /\ lost' <= lost'
    BY <1>2, FuelAssumption
  <2> QED  BY <1>2, <2>1, OutputsOf, Zenon
<1>6. PoolIsBounded'
  <2>1. PICK t \in Targets :
          pool <= HighWater(t) + FanoutOutputsPerTx - 1 + lost * FanoutOutputsPerTx
    BY Zenon DEF FuelInv, PoolIsBounded
  <2>2. HighWater(t) \in Nat
    BY WaterLevels, Zenon
  <2>3. pool' <= HighWater(t) + FanoutOutputsPerTx - 1 + lost' * FanoutOutputsPerTx
    BY <1>2, <1>5, <2>1, <2>2
  <2> QED  BY <2>3, Zenon DEF PoolIsBounded, HighWater
<1>7. ASSUME NEW k \in Runners PROVE RoundIsProvided(k)'
  <2>1. /\ round[k] = "split" => chunks + overdrawn <= reserve + lost
        /\ round[k] = "mint" => leaves + overdrawn <= minted + reserve + lost
        /\ chunks \in Nat /\ overdrawn \in Nat /\ leaves \in Nat /\ minted \in Nat
    BY Zenon DEF FuelInv, FuelTypes, RoundIsProvided
  <2>2. /\ round[k] = "split" => chunks + overdrawn <= reserve' + lost'
        /\ round[k] = "mint" => leaves + overdrawn <= minted + reserve' + lost'
    BY <1>2, <2>1, StillProvided, Zenon
  <2> QED  BY <1>1, <2>2, Zenon DEF RoundIsProvided
<1>8. ASSUME NEW k \in Runners PROVE RoundFits(k)'
  <2>1. ASSUME round[k] \in {"reserve", "split", "mint"}
        PROVE  pool' + (leaves - minted) * FanoutOutputsPerTx
                 <= HighWater(snapshot) + FanoutOutputsPerTx - 1 + lost' * FanoutOutputsPerTx
    <3>1. snapshot \in Targets /\ leaves - minted \in Nat
      BY <2>1 DEF FuelInv, FuelTypes, RoundFits
    <3>2. HighWater(snapshot) \in Nat /\ (leaves - minted) * FanoutOutputsPerTx \in Nat
      BY <3>1, WaterLevels, OutputsOf
    <3>3. pool + (leaves - minted) * FanoutOutputsPerTx
            <= HighWater(snapshot) + FanoutOutputsPerTx - 1 + lost * FanoutOutputsPerTx
      BY <2>1, Zenon DEF FuelInv, RoundFits
    <3> QED  BY <1>2, <1>5, <3>2, <3>3, StillBelow, Zenon
  <2> QED  BY <1>1, <2>1, Zenon DEF FuelInv, RoundFits, HighWater
<1> QED  BY <1>3, <1>4, <1>6, <1>7, <1>8, Zenon DEF FuelInv

\* Every step of the keeper and of the stream keeps the invariant.
LEMMA FuelStep == FuelInv /\ [FuelNext]_fuelVars => FuelInv'
<1> SUFFICES ASSUME FuelInv, [FuelNext]_fuelVars PROVE FuelInv'
  BY Zenon
<1>1. ASSUME NEW k \in Runners, RoundStep(k) PROVE FuelInv'
  <2>1. CASE runOnce(k)
    BY <2>1, RoundStarts, Zenon
  <2>2. CASE MeasurePool(k)
    BY <2>2, RoundIsSized, Zenon
  <2>3. CASE MeasureReserve(k) \/ SplitChunks(k)
    BY <2>3, ChunksAreProvided, Zenon
  <2>4. CASE mintOneLeaf(k)
    BY <2>4, LeafIsMinted, Zenon
  <2>5. CASE RoundDone(k) \/ RoundFails(k)
    BY <2>5, RoundEnds, Zenon DEF RoundDone, RoundFails
  <2> QED  BY <1>1, <2>1, <2>2, <2>3, <2>4, <2>5, Zenon DEF RoundStep
<1>2. CASE \/ SpendFuel \/ ChunkFails \/ FailAbandonedFanOut
           \/ \E t \in Targets : SetTargetPoolSize(t)
  BY <1>2, StreamGoesOn, Zenon
<1>3. CASE UNCHANGED fuelVars
  BY <1>3, Zenon DEF fuelVars, basketVars, heldVars, roundVars, FuelInv, FuelTypes, OneRound, CountedAnew,
              RoundFits, RoundIsProvided, PoolIsBounded, ReservePaysLeaves, HighWater
<1> QED  BY <1>1, <1>2, <1>3, Zenon DEF FuelNext

\* PoolIsBounded for every fleet of runners, target and setting: rounds never mint
\* beyond a target's high water by a whole fan-out, but for those reported as failed.
THEOREM FuelBounded == FuelSpec => []PoolIsBounded
<1>1. FuelInv => PoolIsBounded
  BY Zenon DEF FuelInv
<1> QED  BY <1>1, FuelStarts, FuelStep, PTL DEF FuelSpec

\* ReservePaysLeaves for every fleet of runners, target, setting and number of mishaps:
\* the default basket pays for at most one leaf for every chunk that went another way.
THEOREM ReserveSuffices == FuelSpec => []ReservePaysLeaves
<1>1. FuelInv => ReservePaysLeaves
  BY Zenon DEF FuelInv
<1> QED  BY <1>1, FuelStarts, FuelStep, PTL DEF FuelSpec

=============================================================================
