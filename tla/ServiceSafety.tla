---------------------------- MODULE ServiceSafety ---------------------------
(***************************************************************************)
(* The broadcast router, the consumer of status events and the wallet's    *)
(* actions, for every number of clients, failovers, events, actions,       *)
(* stops and crashes.                                                      *)
(***************************************************************************)
EXTENDS StatusStream, BroadcastRouter, WalletActions, WellFoundedInduction, TLAPS

-----------------------------------------------------------------------------
(* The broadcast router.                                                   *)

Kinds == {"verdict", "rejected", "failed"}

Answers == [service : Range(Failovers) \cup {Primary}, answer : Kinds]

\* How many of the answers are the primary's: one if any, and it is the first.
Own(rs) == IF \E i \in DOMAIN rs : rs[i].service = Primary THEN 1 ELSE 0

\* The answers are the primary's, if it was asked, and those of the first failovers.
InOrder(rs) ==
  \A i \in 1..Len(rs) :
    \/ i = 1 /\ rs[i].service = Primary
    \/ i - Own(rs) \in 1..Len(Failovers) /\ rs[i].service = Failovers[i - Own(rs)]

Places == {"idle", "primary", "wait", "again", "failover", "done"}

\* Where a call may be, by what it has collected.
CallOK(where, rs) ==
  /\ where \in Places
  /\ rs \in Seq(Answers) /\ InOrder(rs)
  /\ \A i \in 1..Len(rs) : IsFinal(rs[i]) => i = Len(rs) /\ where = "done"
  /\ where \in {"idle", "primary", "wait", "again"} => rs = <<>>
  /\ where = "failover" => Len(rs) - Own(rs) < Len(Failovers)
  /\ where = "done" =>
       /\ rs # <<>>
       /\ \/ IsFinal(rs[Len(rs)]) \/ rs[Len(rs)].service = Primary
          \/ Len(rs) - Own(rs) = Len(Failovers)

RouterInv ==
  /\ call \in [Clients -> Places] /\ DOMAIN results = Clients
  /\ \A c \in Clients : CallOK(call[c], results[c])

\* runFailovers finds the configured targets, none of which is the primary.
LEMMA FailoversAre ==
  /\ Len(Failovers) \in Nat /\ DOMAIN Failovers = 1..Len(Failovers)
  /\ Failovers # <<>> => Len(Failovers) > 0
  /\ \A i \in 1..Len(Failovers) :
       /\ Failovers[i] \in Range(Failovers) /\ Failovers[i] # Primary
       /\ \A j \in 1..Len(Failovers) : Failovers[i] = Failovers[j] => i = j
<1>1. Failovers \in Seq(Range(Failovers)) /\ IsInjective(Failovers) /\ Primary \notin Range(Failovers)
  BY RouterAssumption, Zenon
<1>2. Len(Failovers) \in Nat /\ DOMAIN Failovers = 1..Len(Failovers)
      /\ (Failovers # <<>> => Len(Failovers) > 0)
  BY <1>1
<1>3. \A i \in 1..Len(Failovers) : Failovers[i] \in Range(Failovers)
  BY <1>2, Zenon DEF Range
<1> QED  BY <1>1, <1>2, <1>3, Zenon DEF IsInjective

\* A call that has asked nobody.
LEMMA NothingCollected ==
  /\ \A where \in {"idle", "primary", "wait", "again"} : CallOK(where, <<>>)
  /\ Failovers # <<>> => CallOK("failover", <<>>)
<1>1. Own(<<>>) = 0
  BY DEF Own
<1> QED  BY <1>1, FailoversAre DEF CallOK, InOrder, Places

\* A call that has asked the primary only.
LEMMA PrimaryCollected ==
  /\ \A a \in Kinds : CallOK("done", <<Outcome(Primary, a)>>)
  /\ Failovers # <<>> => CallOK("failover", <<Outcome(Primary, "failed")>>)
<1> SUFFICES ASSUME NEW a \in Kinds
             PROVE  /\ CallOK("done", <<Outcome(Primary, a)>>)
                    /\ Failovers # <<>> /\ a = "failed" => CallOK("failover", <<Outcome(Primary, a)>>)
  BY Zenon DEF Kinds
<1> DEFINE rs == <<Outcome(Primary, a)>>
<1>1. rs \in Seq(Answers) /\ Len(rs) = 1 /\ DOMAIN rs = 1..1
      /\ rs[1].service = Primary /\ (a = "failed" => ~IsFinal(rs[1]))
  BY DEF Outcome, Answers, IsFinal
<1>2. Own(rs) = 1
  BY <1>1 DEF Own
<1> HIDE DEF rs
<1>3. rs # <<>>
  BY <1>1
<1>4. CallOK("done", rs) /\ (Failovers # <<>> /\ a = "failed" => CallOK("failover", rs))
  BY <1>1, <1>2, <1>3, FailoversAre DEF CallOK, InOrder, Places
<1> QED  BY <1>4, Zenon DEF rs

\* The next failover is the one after those that have answered, and it answers once.
LEMMA FailoverCollected ==
  ASSUME NEW rs, CallOK("failover", rs), NEW a \in Kinds, NEW n, n = Len(rs) - Own(rs) + 1
  PROVE  CallOK(IF IsFinal(Outcome(Failovers[n], a)) \/ n = Len(Failovers) THEN "done" ELSE "failover",
                Append(rs, Outcome(Failovers[n], a)))
<1> DEFINE v == IsFinal(Outcome(Failovers[n], a))
           more == Append(rs, Outcome(Failovers[n], a))
           where == IF v \/ n = Len(Failovers) THEN "done" ELSE "failover"
<1>1. /\ rs \in Seq(Answers) /\ Len(rs) \in Nat /\ DOMAIN rs = 1..Len(rs)
      /\ \A i \in 1..Len(rs) : ~IsFinal(rs[i])
  BY DEF CallOK
<1>2. Own(rs) \in {0, 1} /\ Own(rs) <= Len(rs)
  BY <1>1 DEF Own
<1>3. n \in 1..Len(Failovers)
  BY <1>1, <1>2, FailoversAre DEF CallOK
<1>4. Failovers[n] \in Range(Failovers) /\ Failovers[n] # Primary
  BY <1>3, FailoversAre, Zenon
<1>5. /\ more \in Seq(Answers) /\ Len(more) = Len(rs) + 1 /\ DOMAIN more = 1..Len(rs) + 1
      /\ \A i \in 1..Len(rs) : more[i] = rs[i]
      /\ more[Len(rs) + 1] = Outcome(Failovers[n], a)
  BY <1>1, <1>4 DEF Answers, Outcome
<1>6. more[Len(rs) + 1].service = Failovers[n] /\ (IsFinal(more[Len(rs) + 1]) <=> v)
  BY <1>5 DEF Outcome
<1> HIDE DEF v
<1> HIDE DEF more
<1>7. Own(more) = Own(rs)
  BY <1>1, <1>4, <1>5, <1>6 DEF Own
<1>8. InOrder(more)
  <2> SUFFICES ASSUME NEW i \in 1..Len(rs) + 1
               PROVE  \/ i = 1 /\ more[i].service = Primary
                      \/ /\ i - Own(rs) \in 1..Len(Failovers)
                         /\ more[i].service = Failovers[i - Own(rs)]
    BY <1>5, <1>7, Zenon DEF InOrder
  <2>1. CASE i \in 1..Len(rs)
    BY <1>5, <2>1, Zenon DEF CallOK, InOrder
  <2>2. CASE i = Len(rs) + 1
    BY <1>1, <1>2, <1>3, <1>6, <2>2
  <2> QED  BY <1>1, <2>1, <2>2
<1>9. where \in {"failover", "done"} /\ (v => where = "done")
  BY Zenon
<1>10. \A i \in 1..Len(more) : IsFinal(more[i]) => i = Len(more) /\ where = "done"
  BY <1>1, <1>5, <1>6, <1>9
<1>11. where = "failover" => Len(more) - Own(more) < Len(Failovers)
  BY <1>1, <1>2, <1>3, <1>5, <1>7, FailoversAre
<1>12. where = "done" => more # <<>> /\ (IsFinal(more[Len(more)]) \/ Len(more) - Own(more) = Len(Failovers))
  BY <1>1, <1>2, <1>3, <1>5, <1>6, <1>7
<1> HIDE DEF where
<1>13. CallOK(where, more)
  BY <1>5, <1>8, <1>9, <1>10, <1>11, <1>12, Zenon DEF CallOK, Places
<1> QED  BY <1>13, Zenon DEF where, more, v

\* NextFailover counts the failovers that have answered.
LEMMA NextIsAfterCollected ==
  ASSUME NEW c \in Clients, Len(results[c]) \in Nat
  PROVE  NextFailover(c) = Len(results[c]) - Own(results[c]) + 1
<1>1. CASE Tried(c)
  <2>1. Own(results[c]) = 1 /\ NextFailover(c) = Len(results[c]) + 0
    BY <1>1, Zenon DEF Tried, Own, NextFailover
  <2> QED  BY <2>1
<1>2. CASE ~Tried(c)
  <2>1. Own(results[c]) = 0 /\ NextFailover(c) = Len(results[c]) + 1
    BY <1>2, Zenon DEF Tried, Own, NextFailover
  <2> QED  BY <2>1
<1> QED  BY <1>1, <1>2, Zenon

\* A call moves on, the others stay where they are.
LEMMA CallMoves ==
  ASSUME RouterInv, NEW c \in Clients, NEW where, NEW what, Go(c, where, what), CallOK(where, what)
  PROVE  RouterInv'
<1>1. where \in Places
  BY Zenon DEF CallOK
<1>2. call' \in [Clients -> Places] /\ DOMAIN results' = Clients
  BY <1>1, Zenon DEF RouterInv, Go
<1>3. \A d \in Clients : CallOK(call'[d], results'[d])
  BY Zenon DEF RouterInv, Go
<1> QED  BY <1>2, <1>3, Zenon DEF RouterInv

\* A call falls back with the primary's failure, or with nothing.
LEMMA FallsBack ==
  ASSUME RouterInv, NEW c \in Clients, NEW what,
         what = <<>> \/ what = <<Outcome(Primary, "failed")>>, FailOver(c, what)
  PROVE  RouterInv'
<1>1. CASE Failovers # <<>>
  <2>1. CallOK("failover", what)
    BY <1>1, NothingCollected, PrimaryCollected, Zenon
  <2> QED  BY <1>1, <2>1, CallMoves, Zenon DEF FailOver
<1>2. CASE Failovers = <<>>
  <2>1. Go(c, "done", <<Outcome(Primary, "failed")>>)
    BY <1>2, Zenon DEF FailOver
  <2> QED  BY <2>1, PrimaryCollected, CallMoves, Zenon DEF Kinds
<1> QED  BY <1>1, <1>2, Zenon

\* Every step of a call keeps the order of its answers.
LEMMA RouterStep == RouterInv /\ [RouterNext]_routerVars => RouterInv'
<1> SUFFICES ASSUME RouterInv, [RouterNext]_routerVars PROVE RouterInv'
  BY Zenon
<1>1. CASE UNCHANGED callVars
  BY <1>1, Zenon DEF callVars, RouterInv
<1>2. CASE ProbeStarts \/ ProbeAnswered \/ Outage \/ Recovery \/ RouterTick \/ UNCHANGED routerVars
  BY <1>1, <1>2, Zenon DEF ProbeStarts, ProbeAnswered, Outage, Recovery, RouterTick, routerVars
<1>3. ASSUME NEW c \in Clients,
             \/ StartBroadcast(c) \/ PrimaryAnswers(c) \/ Backpressure(c)
             \/ RetryAfterBackpressure(c) \/ PrimaryFails(c) \/ PrimaryCancelled(c)
             \/ FailoverAnswers(c) \/ Finished(c)
      PROVE  RouterInv'
  <2>0. CallOK(call[c], results[c])
    BY Zenon DEF RouterInv
  <2>1. call[c] \in {"idle", "primary", "wait", "again"} => results[c] = <<>>
    BY <2>0, Zenon DEF CallOK
  <2>2. \A o : Append(<<>>, o) = <<o>>
    OBVIOUS
  <2>3. CASE StartBroadcast(c)
    <3>1. results[c] = <<>>
      BY <2>1, <2>3, Zenon DEF StartBroadcast
    <3>2. CASE SendPrimary(c, "primary")
      BY <3>1, <3>2, NothingCollected, CallMoves, Zenon DEF SendPrimary
    <3>3. CASE FailOver(c, <<>>)
      BY <3>3, FallsBack, Zenon
    <3> QED  BY <2>3, <3>2, <3>3, Zenon DEF StartBroadcast
  <2>4. CASE PrimaryAnswers(c)
    BY <2>1, <2>2, <2>4, PrimaryCollected, CallMoves, Zenon DEF PrimaryAnswers, Kinds
  <2>5. CASE Backpressure(c)
    BY <2>1, <2>5, NothingCollected, CallMoves, Zenon DEF Backpressure
  <2>6. CASE RetryAfterBackpressure(c)
    BY <2>1, <2>6, NothingCollected, CallMoves, Zenon DEF RetryAfterBackpressure, SendPrimary
  <2>7. CASE PrimaryFails(c)
    BY <2>1, <2>2, <2>7, FallsBack, Zenon DEF PrimaryFails
  <2>8. CASE PrimaryCancelled(c)
    <3>1. \/ Go(c, "done", <<Outcome(Primary, "failed")>>)
          \/ FailOver(c, <<Outcome(Primary, "failed")>>)
      BY <2>1, <2>2, <2>8, Zenon DEF PrimaryCancelled
    <3> QED  BY <3>1, PrimaryCollected, CallMoves, FallsBack, Zenon DEF Kinds
  <2>9. CASE FailoverAnswers(c)
    <3>1. PICK a \in Kinds :
            LET o == Outcome(Failovers[NextFailover(c)], a)
            IN  Go(c, IF IsFinal(o) \/ NextFailover(c) = Len(Failovers) THEN "done" ELSE "failover",
                   Append(results[c], o))
      BY <2>9, Zenon DEF FailoverAnswers, Kinds
    <3>2. CallOK("failover", results[c])
      BY <2>0, <2>9, Zenon DEF FailoverAnswers
    <3>3. NextFailover(c) = Len(results[c]) - Own(results[c]) + 1
      BY <3>2, NextIsAfterCollected DEF CallOK
    <3> QED  BY <3>1, <3>2, <3>3, FailoverCollected, CallMoves, Zenon
  <2>10. CASE Finished(c)
    BY <2>10, NothingCollected, CallMoves, Zenon DEF Finished
  <2> QED  BY <1>3, <2>3, <2>4, <2>5, <2>6, <2>7, <2>8, <2>9, <2>10, Zenon
<1> QED  BY <1>2, <1>3, Zenon DEF RouterNext

\* What a call collects says what VerdictIsFinal asks of it.
LEMMA CollectedIsFinal == RouterInv => VerdictIsFinal
<1> SUFFICES ASSUME RouterInv, NEW c \in Clients
             PROVE  /\ \A i \in DOMAIN results[c] : IsFinal(results[c][i]) =>
                         i = Len(results[c]) /\ call[c] = "done"
                    /\ IsInjective([i \in DOMAIN results[c] |-> results[c][i].service])
                    /\ call[c] = "done" => results[c] # <<>>
                    /\ call[c] = "done" /\ ~IsFinal(results[c][Len(results[c])]) =>
                         results[c][Len(results[c])].service = Primary \/ NextFailover(c) > Len(Failovers)
  BY Zenon DEF VerdictIsFinal
<1> DEFINE rs == results[c]
<1>1. CallOK(call[c], rs)
  BY Zenon DEF RouterInv
<1>2. DOMAIN rs = 1..Len(rs) /\ Len(rs) \in Nat
  BY <1>1 DEF CallOK
<1>3. IsInjective([i \in DOMAIN rs |-> rs[i].service])
  <2> SUFFICES ASSUME NEW i \in 1..Len(rs), NEW j \in 1..Len(rs), rs[i].service = rs[j].service
               PROVE  i = j
    BY <1>2, Zenon DEF IsInjective
  <2>1. CASE rs[i].service = Primary
    BY <1>1, <1>2, <2>1, FailoversAre, Zenon DEF CallOK, InOrder
  <2>2. CASE rs[i].service # Primary
    <3>1. Own(rs) \in {0, 1}
      BY Zenon DEF Own
    <3>2. /\ i - Own(rs) \in 1..Len(Failovers) /\ rs[i].service = Failovers[i - Own(rs)]
          /\ j - Own(rs) \in 1..Len(Failovers) /\ rs[j].service = Failovers[j - Own(rs)]
      BY <1>1, <2>2, Zenon DEF CallOK, InOrder
    <3>3. i - Own(rs) = j - Own(rs)
      BY <3>2, FailoversAre, Zenon
    <3> HIDE DEF rs
    <3> QED  BY <3>1, <3>3
  <2> QED  BY <2>1, <2>2, Zenon
<1>4. NextFailover(c) = Len(rs) - Own(rs) + 1
  BY <1>2, NextIsAfterCollected, Zenon
<1>5. call[c] = "done" /\ ~IsFinal(rs[Len(rs)]) =>
        rs[Len(rs)].service = Primary \/ NextFailover(c) > Len(Failovers)
  BY <1>1, <1>2, <1>4, FailoversAre DEF CallOK
<1> QED  BY <1>1, <1>2, <1>3, <1>5, Zenon DEF CallOK

\* VerdictIsFinal for every number of concurrent broadcasts and every list of failovers:
\* a verdict anywhere and a rejection by the primary end the broadcast.
THEOREM VerdictEndsBroadcast == RouterSpec => []VerdictIsFinal
<1>1. RouterInit => RouterInv
  BY NothingCollected, Zenon DEF RouterInit, RouterInv, Places
<1> QED  BY <1>1, RouterStep, CollectedIsFinal, PTL DEF RouterSpec

-----------------------------------------------------------------------------
(* The consumer of the status events.                                      *)

\* Events that need not be asked for again.
Settled == attempted \cup gap \cup Malformed

\* Every event up to n is in S.
UpTo(n, S) == \A e \in 1..n : e \in S

First(s, n) == {s[i] : i \in 1..n}

StreamTypes ==
  /\ published \in Nat /\ sent \in Nat /\ lastId \in Nat /\ memory \in Nat /\ cursor \in Nat
  /\ reading \in {0, sent}
  /\ queue \in Seq(Nat) /\ drained \in Seq(Nat)
  /\ daemon \in {"up", "stopping", "down"} /\ applier \in {"idle", "apply", "done"}

\* What is empty when nobody works on it.
StreamRests ==
  /\ applier # "apply" => pending = {} /\ drained = <<>>
  /\ ~connected => sent = 0 /\ reading = 0
  /\ daemon = "down" => applier = "done" /\ ~connected /\ lastId = 0 /\ queue = <<>>

\* Both cursors lie before everything that is not settled.  While the context lives,
\* what lies before an event of the batch, of the queue or on the connection is
\* settled or on its way ahead of it.
NothingSkipped ==
  /\ UpTo(memory, Settled) /\ UpTo(cursor, Settled)
  /\ daemon = "up" =>
       /\ \A i \in 1..Len(drained) : UpTo(drained[i], Settled \cup pending)
       /\ \A i \in 1..Len(queue) : UpTo(queue[i], Settled \cup pending \cup First(queue, i))
       /\ UpTo(sent, Settled \cup InHand \cup {reading})
       /\ UpTo(lastId, Settled \cup InHand)

StreamInv == StreamTypes /\ StreamRests /\ NothingSkipped

\* A set of naturals has a least member, and one below a bound a greatest.
LEMMA Least ==
  ASSUME NEW S \in SUBSET Nat, S # {}
  PROVE  \E m \in S : \A k \in S : m <= k
<1> DEFINE Less == {p \in Nat \X Nat : p[1] < p[2]}
<1>1. IsWellFoundedOn(Less, Nat)
  BY NatLessThanWellFounded, Zenon DEF OpToRel
<1>2. \A x, y \in Nat : ~(<<y, x>> \in Less) => x <= y
  OBVIOUS
<1> HIDE DEF Less
<1>3. \E x \in S : \A y \in S : ~(<<y, x>> \in Less)
  BY <1>1, WFMin, Zenon
<1> QED  BY <1>2, <1>3, Zenon

\* A nonempty set of event numbers has a greatest element.
LEMMA Greatest ==
  ASSUME NEW n \in Nat, NEW S \in SUBSET 1..n, S # {}
  PROVE  \E m \in S : \A k \in S : k <= m
<1> DEFINE T == {t \in Nat : n - t \in S}
<1>1. \A k \in S : n - k \in T /\ k \in Nat
  <2> TAKE k \in S
  <2>1. n - k \in Nat /\ n - (n - k) = k
    OBVIOUS
  <2> QED  BY <2>1
<1>2. T \in SUBSET Nat /\ T # {}
  BY <1>1, Zenon
<1>3. PICK t \in T : \A k \in T : t <= k
  BY <1>2, Least, Zenon
<1>4. n - t \in S /\ t \in Nat
  BY <1>3, Zenon
<1> HIDE DEF T
<1>5. \A k \in S : k <= n - t
  BY <1>1, <1>3, <1>4
<1> QED  BY <1>4, <1>5, Zenon

\* The cursor of a batch is the id of one of its events, or none.
LEMMA CursorIsInBatch ==
  ASSUME NEW b \in Seq(Nat)
  PROVE  CursorOf(b) = 0 \/ \E i \in 1..Len(b) : CursorOf(b) = b[i]
<1> DEFINE ids == {i \in DOMAIN b : b[i] \notin WithoutId}
<1>1. CASE ids = {}
  BY <1>1, Zenon DEF CursorOf
<1>2. CASE ids # {}
  <2>1. ids \in SUBSET 1..Len(b) /\ Len(b) \in Nat
    OBVIOUS
  <2>2. \E m \in ids : \A k \in ids : k <= m
    BY <1>2, <2>1, Greatest, Zenon
  <2>3. (CHOOSE i \in ids : \A j \in ids : j <= i) \in ids
    BY <2>2, Zenon
  <2> QED  BY <1>2, <2>1, <2>3, Zenon DEF CursorOf
<1> QED  BY <1>1, <1>2, Zenon

\* A range of events that is covered stays covered when more events are.
LEMMA UpToWider == \A n, S, T : UpTo(n, S) /\ S \subseteq T => UpTo(n, T)
  BY Zenon DEF UpTo

\* The handler starts with an empty queue and a cursor of the storage.
LEMMA LoadKeeps == ASSUME StreamInv, LoadCursor PROVE StreamInv'
<1> USE DEF LoadCursor, clientVars
<1>1. StreamTypes'
  BY DEF StreamInv, StreamTypes
<1>2. StreamRests'
  BY Zenon DEF StreamInv, StreamRests
<1>3. NothingSkipped'
  <2>1. memory' \in {cursor, 0} /\ cursor' = cursor /\ Settled' = Settled
    BY Zenon DEF Settled
  <2>2. drained' = <<>> /\ queue' = <<>> /\ sent' = 0 /\ lastId' = 0
    BY Zenon DEF StreamInv, StreamRests
  <2> QED  BY <2>1, <2>2 DEF StreamInv, NothingSkipped, UpTo
<1> QED  BY <1>1, <1>2, <1>3, Zenon DEF StreamInv

\* The client of the stream: a connection starts at the last id, or leaves a gap.
LEMMA ClientKeeps ==
  ASSUME StreamInv, StreamEvents \/ StreamReturns \/ Connect \/ Disconnect PROVE StreamInv'
<1> USE DEF clientVars, applierVars, cursorVars
<1>1. StreamTypes'
  BY DEF StreamInv, StreamTypes, StreamRests, StreamEvents, StreamReturns, Connect, Disconnect
<1>2. StreamRests'
  BY Zenon DEF StreamInv, StreamRests, StreamEvents, StreamReturns, Connect, Disconnect
<1>3. CASE StreamEvents \/ StreamReturns \/ Disconnect
  <2>1. /\ Settled' = Settled /\ InHand' = InHand
        /\ UNCHANGED <<daemon, queue, drained, pending, memory, cursor, reading>>
    BY <1>3, Zenon DEF Settled, InHand, StreamEvents, StreamReturns, Disconnect
  <2>2. sent' \in {sent, 0} /\ lastId' \in {lastId, 0, memory}
    BY <1>3, Zenon DEF StreamEvents, StreamReturns, Disconnect
  <2>3. UpTo(memory, Settled \cup InHand)
    BY UpToWider, Zenon DEF StreamInv, NothingSkipped
  <2>4. \A S : UpTo(0, S)
    BY DEF UpTo
  <2>5. NothingSkipped'
    BY <2>1, <2>2, <2>3, <2>4, Zenon DEF StreamInv, NothingSkipped
  <2> QED  BY <1>1, <1>2, <2>5, Zenon DEF StreamInv
<1>4. CASE Connect
  <2>1. /\ Settled \subseteq Settled' /\ InHand' = InHand
        /\ UNCHANGED <<daemon, queue, drained, pending, memory, cursor, reading, lastId>>
    BY <1>4, Zenon DEF Settled, InHand, Connect
  <2>2. UpTo(sent', Settled' \cup InHand' \cup {reading'})
    <3>1. CASE lastId # 0 /\ sent' = lastId
      BY <1>4, <2>1, <3>1, UpToWider, Zenon DEF Connect, StreamInv, NothingSkipped, UpTo
    <3>2. CASE lastId = 0
      BY <1>4, <3>2, Zenon DEF Connect, Settled, InHand, UpTo
    <3> QED  BY <1>4, <3>1, <3>2, Zenon DEF Connect
  <2>3. /\ UpTo(memory', Settled') /\ UpTo(cursor', Settled')
    BY <2>1, UpToWider, Zenon DEF StreamInv, NothingSkipped
  <2>4. daemon' = "up" =>
          /\ \A i \in 1..Len(drained') : UpTo(drained'[i], Settled' \cup pending')
          /\ \A i \in 1..Len(queue') :
               UpTo(queue'[i], Settled' \cup pending' \cup First(queue', i))
          /\ UpTo(lastId', Settled' \cup InHand')
    BY <2>1, Zenon DEF StreamInv, NothingSkipped, UpTo
  <2>5. NothingSkipped'
    BY <2>2, <2>3, <2>4, Zenon DEF NothingSkipped
  <2> QED  BY <1>1, <1>2, <2>5, Zenon DEF StreamInv
<1> QED  BY <1>3, <1>4, Zenon

\* A frame is read in the order of the server's log.
LEMMA ReadKeeps == ASSUME StreamInv, NEW f, ReadFrame(f) PROVE StreamInv'
<1> USE DEF ReadFrame, applierVars, cursorVars
<1>1. StreamTypes'
  BY DEF StreamInv, StreamTypes
<1>2. StreamRests'
  BY Zenon DEF StreamInv, StreamRests
<1>3. Settled' = Settled /\ InHand' = InHand
  BY Zenon DEF Settled, InHand
<1>4. daemon = "up" => UpTo(sent', Settled' \cup InHand' \cup {reading'})
  <2> SUFFICES ASSUME daemon = "up", NEW e \in 1..sent + 1
               PROVE  e \in Settled \cup InHand \cup {reading'}
    BY <1>3, Zenon DEF UpTo
  <2>0. sent \in Nat
    BY Zenon DEF StreamInv, StreamTypes
  <2>1. CASE e \in 1..sent
    BY <2>0, <2>1 DEF StreamInv, NothingSkipped, UpTo
  <2>2. CASE e = sent + 1
    BY <2>2, Zenon DEF Settled
  <2> QED  BY <2>0, <2>1, <2>2
<1>5. NothingSkipped'
  BY <1>3, <1>4, Zenon DEF StreamInv, NothingSkipped
<1> QED  BY <1>1, <1>2, <1>5, Zenon DEF StreamInv

\* A frame joins the queue behind everything that was read before it.
LEMMA DispatchKeeps == ASSUME StreamInv, dispatchFrame PROVE StreamInv'
<1> USE DEF dispatchFrame, applierVars, cursorVars
<1>0. /\ queue \in Seq(Nat) /\ sent \in Nat /\ reading = sent /\ Len(queue) \in Nat
      /\ DOMAIN queue = 1..Len(queue)
  BY DEF StreamInv, StreamTypes
<1>1. StreamTypes'
  BY DEF StreamInv, StreamTypes
<1>2. StreamRests'
  BY Zenon DEF StreamInv, StreamRests
<1>3. Settled' = Settled /\ pending' = pending
  BY Zenon DEF Settled
<1>4. ASSUME daemon = "up"
      PROVE  /\ \A i \in 1..Len(queue') :
                  UpTo(queue'[i], Settled \cup pending \cup First(queue', i))
             /\ UpTo(sent, Settled \cup InHand') /\ UpTo(lastId', Settled \cup InHand')
  <2>1. queue' = Append(queue, reading)
    BY <1>4, Zenon
  <2>2. /\ Len(queue') = Len(queue) + 1 /\ DOMAIN queue' = 1..Len(queue) + 1
        /\ \A i \in 1..Len(queue) : queue'[i] = queue[i]
        /\ queue'[Len(queue) + 1] = reading
    <3> DEFINE more == Append(queue, reading)
    <3>1. /\ Len(more) = Len(queue) + 1 /\ DOMAIN more = 1..Len(queue) + 1
          /\ \A i \in 1..Len(queue) : more[i] = queue[i]
          /\ more[Len(queue) + 1] = reading
      BY <1>0
    <3> QED  BY <2>1, <3>1, Zenon
  <2>3. Range(queue') = Range(queue) \cup {reading}
    BY <1>0, <2>2 DEF Range
  <2>4. InHand' = InHand \cup {reading}
    BY <1>3, <2>3, Zenon DEF InHand
  <2>5. UpTo(sent, Settled \cup InHand')
    BY <1>4, <2>4, Zenon DEF StreamInv, NothingSkipped, UpTo
  <2>6. UpTo(lastId, Settled \cup InHand')
    BY <1>4, <2>4, Zenon DEF StreamInv, NothingSkipped, UpTo
  <2>7. UpTo(lastId', Settled \cup InHand')
    BY <1>0, <2>5, <2>6, Zenon
  <2>8. \A i \in 1..Len(queue) : First(queue', i) = First(queue, i)
    BY <1>0, <2>2 DEF First
  <2>9. First(queue', Len(queue) + 1) = Range(queue')
    BY <2>2, Zenon DEF First, Range
  <2>10. ASSUME NEW i \in 1..Len(queue) + 1
         PROVE  UpTo(queue'[i], Settled \cup pending \cup First(queue', i))
    <3>1. CASE i \in 1..Len(queue)
      BY <1>4, <2>2, <2>8, <3>1, Zenon DEF StreamInv, NothingSkipped
    <3>2. CASE i = Len(queue) + 1
      BY <1>0, <1>3, <2>2, <2>5, <2>9, <3>2, Zenon DEF InHand, UpTo
    <3> QED  BY <1>0, <3>1, <3>2
  <2> QED  BY <2>2, <2>5, <2>7, <2>10, Zenon
<1>5. NothingSkipped'
  BY <1>3, <1>4, UpToWider DEF StreamInv, NothingSkipped
<1> QED  BY <1>1, <1>2, <1>5, Zenon DEF StreamInv

\* The batch is the front of the queue.
LEMMA DrainKeeps == ASSUME StreamInv, DrainQueue PROVE StreamInv'
<1> USE DEF DrainQueue, clientVars, cursorVars
<1> DEFINE n == IF Len(queue) < BatchMax THEN Len(queue) ELSE BatchMax
<1>0. /\ queue \in Seq(Nat) /\ Len(queue) \in Nat /\ DOMAIN queue = 1..Len(queue)
      /\ pending = {}
  BY DEF StreamInv, StreamTypes, StreamRests
<1>1. n \in 1..Len(queue)
  BY <1>0, StreamAssumption
<1>2. /\ drained' = SubSeq(queue, 1, n) /\ queue' = SubSeq(queue, n + 1, Len(queue))
      /\ pending' = Range(drained') /\ Settled' = Settled
  BY Zenon DEF Settled
<1> HIDE DEF n
<1>3. /\ drained' \in Seq(Nat) /\ Len(drained') = n /\ DOMAIN drained' = 1..n
      /\ \A i \in 1..n : drained'[i] = queue[i]
  <2> DEFINE d == SubSeq(queue, 1, n)
  <2>1. d \in Seq(Nat) /\ Len(d) = n /\ \A i \in 1..n : d[i] = queue[i]
    BY <1>0, <1>1
  <2>2. DOMAIN d = 1..n
    BY <2>1
  <2> QED  BY <1>2, <2>1, <2>2, Zenon
<1>4. /\ queue' \in Seq(Nat) /\ Len(queue') = Len(queue) - n /\ DOMAIN queue' = 1..Len(queue) - n
      /\ \A i \in 1..Len(queue) - n : queue'[i] = queue[n + i]
  <2> DEFINE r == SubSeq(queue, n + 1, Len(queue))
  <2>0. n \in Nat /\ Len(queue) - n \in Nat
    BY <1>0, <1>1
  <2>a. \A m, k \in Nat : k <= m => (IF k + 1 <= m THEN m - (k + 1) + 1 ELSE 0) = m - k
    OBVIOUS
  <2>b. n <= Len(queue) /\ n + 1 \in 1..Len(queue) + 1
    BY <1>0, <1>1
  <2>c. r \in Seq(Nat) /\ Len(r) = IF n + 1 <= Len(queue) THEN Len(queue) - (n + 1) + 1 ELSE 0
    BY <1>0, <2>0, <2>b
  <2>1. r \in Seq(Nat) /\ Len(r) = Len(queue) - n
    BY <1>0, <2>0, <2>a, <2>b, <2>c, Zenon
  <2>2. DOMAIN r = 1..Len(queue) - n
    BY <2>1
  <2>3. \A i \in 1..Len(queue) - n : r[i] = queue[(n + 1) + i - 1] /\ (n + 1) + i - 1 = n + i
    BY <1>0, <1>1, <2>0
  <2>4. \A i \in 1..Len(queue) - n : r[i] = queue[n + i]
    BY <2>3, Zenon
  <2> QED  BY <1>2, <2>1, <2>2, <2>4, Zenon
<1>5. pending' = First(queue, n)
  BY <1>2, <1>3, Zenon DEF Range, First
<1>6. \A i \in 1..n : First(queue, i) \subseteq pending'
  BY <1>1, <1>5 DEF First
<1>7. \A i \in 1..Len(queue) - n : First(queue, n + i) \subseteq pending' \cup First(queue', i)
  <2> SUFFICES ASSUME NEW i \in 1..Len(queue) - n, NEW j \in 1..n + i
               PROVE  queue[j] \in pending' \cup First(queue', i)
    BY Zenon DEF First
  <2>1. CASE j \in 1..n
    BY <1>5, <2>1, Zenon DEF First
  <2>2. CASE j \notin 1..n
    <3>1. j - n \in 1..i /\ j - n \in 1..Len(queue) - n /\ n + (j - n) = j
      BY <1>0, <1>1, <2>2
    <3>2. queue'[j - n] = queue[j]
      BY <1>4, <3>1, Zenon
    <3> QED  BY <3>1, <3>2, Zenon DEF First
  <2> QED  BY <2>1, <2>2, Zenon
<1>8. Range(queue) \subseteq InHand'
  <2>1. Range(queue) = First(queue, Len(queue)) /\ Range(queue') = First(queue', Len(queue) - n)
    BY <1>0, <1>4, Zenon DEF Range, First
  <2>2. CASE n = Len(queue)
    BY <1>5, <2>1, <2>2, Zenon DEF InHand
  <2>3. CASE n # Len(queue)
    <3>1. \A m \in Nat : \A k \in 1..m : k # m => m - k \in 1..(m - k) /\ k + (m - k) = m
      OBVIOUS
    <3>2. Len(queue) - n \in 1..Len(queue) - n /\ n + (Len(queue) - n) = Len(queue)
      BY <1>0, <1>1, <2>3, <3>1, Zenon
    <3> QED  BY <1>7, <2>1, <3>2 DEF InHand
  <2> QED  BY <2>2, <2>3, Zenon
<1>9. InHand \subseteq InHand'
  BY <1>0, <1>8, Zenon DEF InHand
<1>10. StreamTypes'
  BY <1>3, <1>4, Zenon DEF StreamInv, StreamTypes
<1>11. StreamRests'
  BY Zenon DEF StreamInv, StreamRests
<1>12. ASSUME daemon = "up"
       PROVE  /\ \A i \in 1..Len(drained') : UpTo(drained'[i], Settled \cup pending')
              /\ \A i \in 1..Len(queue') :
                   UpTo(queue'[i], Settled \cup pending' \cup First(queue', i))
              /\ UpTo(sent, Settled \cup InHand' \cup {reading})
              /\ UpTo(lastId, Settled \cup InHand')
  <2>1. \A i \in 1..Len(queue) : UpTo(queue[i], Settled \cup First(queue, i))
    BY <1>0, <1>12, Zenon DEF StreamInv, NothingSkipped
  <2>2. ASSUME NEW i \in 1..n PROVE UpTo(drained'[i], Settled \cup pending')
    <3>1. i \in 1..Len(queue)
      BY <1>0, <1>1
    <3>2. UpTo(queue[i], Settled \cup First(queue, i))
      BY <2>1, <3>1, Zenon
    <3> QED  BY <1>3, <1>6, <3>2, Zenon DEF UpTo
  <2>3. ASSUME NEW i \in 1..Len(queue) - n
        PROVE  UpTo(queue'[i], Settled \cup pending' \cup First(queue', i))
    <3>1. n + i \in 1..Len(queue)
      BY <1>0, <1>1
    <3>2. UpTo(queue[n + i], Settled \cup First(queue, n + i))
      BY <2>1, <3>1, Zenon
    <3> QED  BY <1>4, <1>7, <3>2, Zenon DEF UpTo
  <2>4. UpTo(sent, Settled \cup InHand' \cup {reading}) /\ UpTo(lastId, Settled \cup InHand')
    BY <1>9, <1>12, Zenon DEF StreamInv, NothingSkipped, UpTo
  <2> QED  BY <1>3, <1>4, <2>2, <2>3, <2>4, Zenon
<1>13. NothingSkipped'
  BY <1>2, <1>12, Zenon DEF StreamInv, NothingSkipped
<1> QED  BY <1>10, <1>11, <1>13, Zenon DEF StreamInv

\* An event of the batch is attempted; what the cancelled context refuses stays unsettled.
LEMMA ApplyKeeps == ASSUME StreamInv, NEW e, applyBroadcastEvent(e) PROVE StreamInv'
<1> USE DEF applyBroadcastEvent, clientVars, cursorVars
<1>1. StreamTypes'
  BY Zenon DEF StreamInv, StreamTypes
<1>2. StreamRests'
  BY Zenon DEF StreamInv, StreamRests
<1>3. Settled \subseteq Settled'
  BY Zenon DEF Settled
<1>4. daemon = "up" => Settled \cup pending \subseteq Settled' \cup pending'
  BY Zenon DEF Settled
<1>5. daemon = "up" => Settled \cup InHand \subseteq Settled' \cup InHand'
  BY <1>4, Zenon DEF InHand
<1>6. NothingSkipped'
  <2>1. UpTo(memory', Settled') /\ UpTo(cursor', Settled')
    BY <1>3, UpToWider, Zenon DEF StreamInv, NothingSkipped
  <2>2. ASSUME daemon = "up"
        PROVE  /\ \A i \in 1..Len(drained) : UpTo(drained[i], Settled' \cup pending')
               /\ \A i \in 1..Len(queue) :
                    UpTo(queue[i], Settled' \cup pending' \cup First(queue, i))
               /\ UpTo(sent, Settled' \cup InHand' \cup {reading})
               /\ UpTo(lastId, Settled' \cup InHand')
    BY <1>4, <1>5, <2>2, Zenon DEF StreamInv, NothingSkipped, UpTo
  <2> QED  BY <2>1, <2>2, Zenon DEF NothingSkipped
<1> QED  BY <1>1, <1>2, <1>6, Zenon DEF StreamInv

\* The cursor moves to an event of a batch that has been attempted.
LEMMA PersistKeeps == ASSUME StreamInv, PersistCursor PROVE StreamInv'
<1> USE DEF PersistCursor, clientVars, cursorVars
<1> DEFINE id == CursorOf(drained)
<1>0. drained \in Seq(Nat) /\ pending = {}
  BY Zenon DEF StreamInv, StreamTypes
<1>1. id = 0 \/ \E i \in 1..Len(drained) : id = drained[i]
  BY <1>0, CursorIsInBatch, Zenon
<1>2. id \in Nat /\ (daemon = "up" => UpTo(id, Settled))
  BY <1>0, <1>1 DEF StreamInv, NothingSkipped, UpTo
<1> HIDE DEF id
<1>3. /\ cursor' \in {cursor, id} /\ memory' \in {memory, id}
      /\ (cursor' # cursor \/ memory' # memory) => daemon = "up"
  BY Zenon DEF id
<1>4. StreamTypes'
  BY <1>2, <1>3 DEF StreamInv, StreamTypes
<1>5. StreamRests'
  BY Zenon DEF StreamInv, StreamRests
<1>6. Settled' = Settled /\ InHand' = InHand
  BY Zenon DEF Settled, InHand
<1>7. NothingSkipped'
  <2>1. UpTo(memory', Settled) /\ UpTo(cursor', Settled)
    BY <1>2, <1>3, Zenon DEF StreamInv, NothingSkipped
  <2> QED  BY <1>6, <2>1 DEF StreamInv, NothingSkipped
<1> QED  BY <1>4, <1>5, <1>7, Zenon DEF StreamInv

\* A stop and a crash leave the storage and what was settled.
LEMMA StopKeeps ==
  ASSUME StreamInv,
         \/ PublishStatus \/ ApplierExits \/ CancelHandler \/ HandlerStopped \/ CrashDaemon
         \/ UNCHANGED streamVars
  PROVE  StreamInv'
<1> USE DEF clientVars, applierVars, cursorVars
<1>1. CASE PublishStatus \/ ApplierExits \/ CancelHandler \/ UNCHANGED streamVars
  <2>1. StreamTypes'
    BY <1>1 DEF StreamInv, StreamTypes, PublishStatus, ApplierExits, CancelHandler, streamVars
  <2>2. StreamRests'
    BY <1>1 DEF StreamInv, StreamRests, PublishStatus, ApplierExits, CancelHandler, streamVars
  <2>3. /\ Settled' = Settled /\ InHand' = InHand /\ (daemon' = "up" => daemon = "up")
        /\ UNCHANGED <<queue, drained, pending, sent, reading, lastId, memory, cursor>>
    BY <1>1, Zenon DEF Settled, InHand, PublishStatus, ApplierExits, CancelHandler, streamVars
  <2>4. NothingSkipped'
    BY <2>3, Zenon DEF StreamInv, NothingSkipped
  <2> QED  BY <2>1, <2>2, <2>4, Zenon DEF StreamInv
<1>2. CASE HandlerStopped \/ CrashDaemon
  <2>0. Gone
    BY <1>2, Zenon DEF HandlerStopped, CrashDaemon
  <2>1. StreamTypes' /\ StreamRests'
    BY <2>0 DEF StreamInv, StreamTypes, StreamRests, Gone
  <2>2. NothingSkipped'
    BY <2>0 DEF StreamInv, NothingSkipped, Gone, Settled, UpTo
  <2> QED  BY <2>1, <2>2, Zenon DEF StreamInv
<1> QED  BY <1>1, <1>2, Zenon

\* CursorCovers for every number of events, stops, crashes and replays, every queue
\* and batch size, and whichever events are malformed or carry no id.
THEOREM CursorNeverSkips == StreamSpec => []CursorCovers
<1>1. StreamInit => StreamInv
  BY DEF StreamInit, StreamInv, StreamTypes, StreamRests, NothingSkipped, UpTo
<1>2. StreamInv /\ [StreamNext]_streamVars => StreamInv'
  BY LoadKeeps, ClientKeeps, ReadKeeps, DispatchKeeps, DrainKeeps, ApplyKeeps, PersistKeeps,
     StopKeeps, Zenon DEF StreamNext
<1>3. StreamInv => CursorCovers
  BY Zenon DEF StreamInv, NothingSkipped, UpTo, Settled, CursorCovers
<1> QED  BY <1>1, <1>2, <1>3, PTL DEF StreamSpec

-----------------------------------------------------------------------------
(* createAction, signAction and abortAction.                               *)

TendedInv == WalletTypeOK /\ ReservedIsTended

\* A wallet starts without actions.
LEMMA WalletStarts == WalletInit => TendedInv
  BY WalletAssumption DEF WalletInit, TendedInv, WalletTypeOK, ReservedIsTended

\* The types survive every step of a call.
LEMMA CallTypes ==
  ASSUME WalletTypeOK, NEW a \in Apps,
         \/ SavePending(a) \/ Lookup(a) \/ Sign(a) \/ CallFails(a) \/ ProcessAction(a) \/ onError(a)
         \/ \E r \in Refs : CreateAction(a, r) \/ CreateAnswerLost(a, r) \/ SignAction(a, r)
  PROVE  WalletTypeOK'
<1> USE DEF WalletTypeOK
<1>0. ref[a] \in Refs \/ flow[a] = "none"
  BY Zenon
<1>1. CASE SavePending(a)
  BY <1>0, <1>1, WalletAssumption, Zenon DEF SavePending, Returned, Step
<1>2. CASE Lookup(a)
  BY <1>2, Zenon DEF Lookup, Step
<1>3. CASE Sign(a)
  BY <1>3, Zenon DEF Sign, Step
<1>4. CASE CallFails(a)
  BY <1>4, Zenon DEF CallFails, Step
<1>5. CASE ProcessAction(a)
  BY <1>0, <1>5, WalletAssumption DEF ProcessAction, Returned, Step
<1>6. CASE onError(a)
  BY <1>0, <1>6, WalletAssumption, Zenon DEF onError, Returned, Step
<1>7. ASSUME NEW r \in Refs, CreateAction(a, r) PROVE WalletTypeOK'
  BY <1>7, WalletAssumption DEF CreateAction, Called, Step
<1>8. ASSUME NEW r \in Refs, CreateAnswerLost(a, r) PROVE WalletTypeOK'
  BY <1>8, WalletAssumption DEF CreateAnswerLost, callerVars
<1>9. ASSUME NEW r \in Refs, SignAction(a, r) PROVE WalletTypeOK'
  BY <1>9, WalletAssumption DEF SignAction, Called, Step
<1> QED  BY <1>1, <1>2, <1>3, <1>4, <1>5, <1>6, <1>7, <1>8, <1>9, Zenon

\* Another call, or a fault, may take over what a call was tending; nothing else ends it.
LEMMA CallTends ==
  ASSUME TendedInv, NEW a \in Apps,
         \/ SavePending(a) \/ Lookup(a) \/ Sign(a) \/ CallFails(a) \/ ProcessAction(a) \/ onError(a)
         \/ \E r \in Refs : CreateAction(a, r) \/ CreateAnswerLost(a, r) \/ SignAction(a, r)
  PROVE  ReservedIsTended'
<1> SUFFICES ASSUME NEW r \in Refs, stored'[r] = "unsigned"
             PROVE  \/ r \in (pendingSign \cup handed \cup stranded)'
                    \/ \E b \in Apps : ref'[b] = r /\ (armed'[b] \/ at'[b] = "process")
  BY Zenon DEF ReservedIsTended
<1> DEFINE Tends(b) == ref[b] = r /\ (armed[b] \/ at[b] = "process")
<1>0. WalletTypeOK
  BY Zenon DEF TendedInv
<1>1. stored[r] = "unsigned" =>
        r \in pendingSign \cup handed \cup stranded \/ \E b \in Apps : Tends(b)
  BY Zenon DEF TendedInv, ReservedIsTended
<1>2. CASE SavePending(a)
  BY <1>0, <1>1, <1>2, Zenon DEF SavePending, Returned, Step, WalletTypeOK
<1>3. CASE Lookup(a) \/ CallFails(a)
  BY <1>0, <1>1, <1>3 DEF Lookup, CallFails, Step, WalletTypeOK
<1>4. CASE Sign(a)
  BY <1>0, <1>1, <1>4, Zenon DEF Sign, Step, WalletTypeOK
<1>5. CASE ProcessAction(a)
  BY <1>0, <1>1, <1>5, Zenon DEF ProcessAction, Returned, Step, WalletTypeOK
<1>6. CASE onError(a)
  BY <1>0, <1>1, <1>6 DEF onError, Returned, Step, WalletTypeOK
<1>7. ASSUME NEW q \in Refs, CreateAction(a, q) \/ SignAction(a, q)
      PROVE  \/ r \in (pendingSign \cup handed \cup stranded)'
             \/ \E b \in Apps : ref'[b] = r /\ (armed'[b] \/ at'[b] = "process")
  <2>1. ~Tends(a)
    BY <1>0, <1>7, WalletAssumption DEF CreateAction, SignAction, Called, WalletTypeOK
  <2> QED  BY <1>0, <1>1, <1>7, <2>1 DEF CreateAction, SignAction, Called, Step, WalletTypeOK
<1>8. ASSUME NEW q \in Refs, CreateAnswerLost(a, q)
      PROVE  \/ r \in (pendingSign \cup handed \cup stranded)'
             \/ \E b \in Apps : ref'[b] = r /\ (armed'[b] \/ at'[b] = "process")
  BY <1>0, <1>1, <1>8, Zenon DEF CreateAnswerLost, callerVars, WalletTypeOK
<1> QED  BY <1>2, <1>3, <1>4, <1>5, <1>6, <1>7, <1>8, Zenon

\* The storage's own steps, the TTL and a restart.
LEMMA OthersTend ==
  ASSUME TendedInv,
         \/ \E r \in Refs : \/ SendWith(r) \/ broadcastTxs(r) \/ AbortAction(r)
                            \/ failAbandoned(r) \/ PendingGrowsOld(r)
         \/ WalletRestart
  PROVE  TendedInv'
<1>1. ASSUME NEW r \in Refs, SendWith(r) \/ broadcastTxs(r) \/ AbortAction(r) \/ failAbandoned(r)
      PROVE  TendedInv'
  <2>1. WalletTypeOK'
    BY <1>1, Zenon DEF SendWith, broadcastTxs, AbortAction, failAbandoned, callerVars, TendedInv,
       WalletTypeOK
  <2>2. ReservedIsTended'
    BY <1>1 DEF SendWith, broadcastTxs, AbortAction, failAbandoned, callerVars, TendedInv,
       WalletTypeOK,
                ReservedIsTended
  <2> QED  BY <2>1, <2>2, Zenon DEF TendedInv
<1>2. ASSUME NEW r \in Refs, PendingGrowsOld(r) PROVE TendedInv'
  BY <1>2 DEF PendingGrowsOld, callerVars, TendedInv, WalletTypeOK, ReservedIsTended
<1>3. CASE WalletRestart
  BY <1>3, WalletAssumption DEF WalletRestart, TendedInv, WalletTypeOK, ReservedIsTended
<1> QED  BY <1>1, <1>2, <1>3, Zenon

\* ReservedIsTended for every number of callers and actions: an action's inputs stay
\* reserved only while a call, the cache or ProcessAction has it, or after a fault.
THEOREM ActionsAreTended == WalletSpec => []ReservedIsTended
<1>1. TendedInv /\ [WalletNext]_walletVars => TendedInv'
  <2> SUFFICES ASSUME TendedInv, [WalletNext]_walletVars PROVE TendedInv'
    BY Zenon
  <2>1. CASE UNCHANGED walletVars
    BY <2>1 DEF walletVars, callerVars, TendedInv, WalletTypeOK, ReservedIsTended
  <2>2. CASE WalletNext
    BY <2>2, CallTypes, CallTends, OthersTend, Zenon DEF WalletNext, TendedInv
  <2> QED  BY <2>1, <2>2, Zenon
<1>2. TendedInv => ReservedIsTended
  BY Zenon DEF TendedInv
<1> QED  BY <1>1, <1>2, WalletStarts, PTL DEF WalletSpec

=============================================================================
