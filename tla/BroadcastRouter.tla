-------------------------- MODULE BroadcastRouter ---------------------------
(***************************************************************************)
(* The broadcast router (services/broadcast_router.go) with its circuit    *)
(* breaker and health probe (services/internal/circuitbreaker): a call is  *)
(* sent to the primary (Arcade) when the breaker allows it, and to the     *)
(* failover services in order when the primary gave no answer about the    *)
(* transaction.                                                            *)
(*                                                                         *)
(* An answer is a verdict (accepted, or a double spend), a rejection of    *)
(* the transaction on other grounds, or a failure of the service.  Calls   *)
(* of several clients run at the same time; the breaker's methods are      *)
(* atomic (its mutex).                                                     *)
(***************************************************************************)
EXTENDS Naturals, Sequences, Functions

CONSTANTS
  Clients,           \* concurrent broadcasts
  Primary,
  Failovers,         \* the configured failover services, in order
  FailureThreshold,
  ProbeInterval,
  MaxOutages,
  MaxBroadcasts      \* broadcasts started

ASSUME RouterAssumption ==
  /\ FailureThreshold \in Nat \ {0} /\ ProbeInterval \in Nat \ {0}
  /\ Failovers \in Seq(Range(Failovers)) /\ IsInjective(Failovers)
  /\ Primary \notin Range(Failovers)

VARIABLES
  circuit,           \* "closed", "open", "half-open"
  failures,          \* consecutiveFailures, counted up to the threshold
  since,             \* the time since lastTrialAt, up to the interval
  probe,             \* "waiting", "asking"
  healthy,           \* the primary answers
  outages,
  call,              \* call[c]: where c's broadcast is
  doomed,            \* doomed[c]: its request went out during an outage
  results,           \* results[c]: what the broadcast has collected
  broadcasts

breakerVars == <<circuit, failures, since>>
callVars == <<call, doomed, results>>
routerVars == <<breakerVars, probe, healthy, outages, callVars, broadcasts>>

Outcome(s, a) == [service |-> s, answer |-> a]

\* resultAsTransportOutcome: a failover's rejection counts as its failure, a double
\* spend does not; the primary's result is taken as it is.
IsFinal(o) == o.answer = "verdict" \/ (o.answer = "rejected" /\ o.service = Primary)

RouterInit ==
  /\ circuit = "closed" /\ failures = 0 /\ since = ProbeInterval
  /\ probe = "waiting" /\ healthy = TRUE /\ outages = 0 /\ broadcasts = 0
  /\ call = [c \in Clients |-> "idle"] /\ doomed = [c \in Clients |-> FALSE]
  /\ results = [c \in Clients |-> <<>>]

-----------------------------------------------------------------------------
\* The breaker.  Allow, closed or for a trial:
MayTry == circuit = "closed" \/ since = ProbeInterval

Allow ==
  /\ MayTry
  /\ IF circuit = "closed" THEN UNCHANGED <<circuit, since>>
                           ELSE circuit' = "half-open" /\ since' = 0
  /\ UNCHANGED failures

RecordSuccess == circuit' = "closed" /\ failures' = 0 /\ UNCHANGED since

RecordFailure ==
  /\ failures' = IF failures < FailureThreshold THEN failures + 1 ELSE failures
  /\ IF circuit = "half-open" \/ (circuit = "closed" /\ failures + 1 >= FailureThreshold)
     THEN circuit' = "open" /\ since' = 0
     ELSE UNCHANGED <<circuit, since>>

\* Mutant: the probe asks only while a trial is under way.
ProbeStartsHalfOpen ==
  /\ probe = "waiting" /\ circuit = "half-open"
  /\ probe' = "asking"
  /\ UNCHANGED <<breakerVars, healthy, outages, callVars, broadcasts>>

\* The ticker of StartHealthProbe, which reads the state before it asks.
ProbeStarts ==
  /\ probe = "waiting" /\ circuit = "open"
  /\ probe' = "asking"
  /\ UNCHANGED <<breakerVars, healthy, outages, callVars, broadcasts>>

\* The primary answers the probe; by then the circuit may be in any state.
ProbeAnswered ==
  /\ probe = "asking"
  /\ IF healthy THEN RecordSuccess ELSE UNCHANGED breakerVars
  /\ probe' = "waiting"
  /\ UNCHANGED <<healthy, outages, callVars, broadcasts>>

-----------------------------------------------------------------------------
\* The router.  A call goes to where, having collected what.
Go(c, where, what) ==
  /\ call' = [call EXCEPT ![c] = where]
  /\ results' = [results EXCEPT ![c] = what]

\* The request to the primary leaves.
SendPrimary(c, where) ==
  /\ Go(c, where, results[c])
  /\ doomed' = [doomed EXCEPT ![c] = ~healthy]

\* The next service after the ones that have been tried, the primary not counted.
Tried(c) == \E i \in DOMAIN results[c] : results[c][i].service = Primary

NextFailover(c) == Len(results[c]) + IF Tried(c) THEN 0 ELSE 1

\* runFailovers: a result is reported even when there was nothing to try.
FailOver(c, collected) ==
  IF Failovers # <<>> THEN Go(c, "failover", collected)
  ELSE Go(c, "done", IF collected # <<>> THEN collected ELSE <<Outcome(Primary, "failed")>>)

StartBroadcast(c) ==
  /\ call[c] = "idle" /\ broadcasts < MaxBroadcasts /\ broadcasts' = broadcasts + 1
  /\ \/ Allow /\ SendPrimary(c, "primary")
     \/ ~MayTry /\ FailOver(c, <<>>) /\ UNCHANGED <<breakerVars, doomed>>
  /\ UNCHANGED <<probe, healthy, outages>>

\* The primary's answer, on the first request or on the one after backpressure.
PrimaryAnswers(c) ==
  /\ call[c] \in {"primary", "again"} /\ ~doomed[c]
  /\ RecordSuccess
  /\ \E a \in {"verdict", "rejected"} : Go(c, "done", Append(results[c], Outcome(Primary, a)))
  /\ UNCHANGED <<probe, healthy, outages, doomed, broadcasts>>

\* Backpressure: the router waits and asks once more.
Backpressure(c) ==
  /\ call[c] = "primary"
  /\ Go(c, "wait", results[c])
  /\ UNCHANGED <<breakerVars, probe, healthy, outages, doomed, broadcasts>>

RetryAfterBackpressure(c) ==
  /\ call[c] = "wait"
  /\ SendPrimary(c, "again")
  /\ UNCHANGED <<breakerVars, probe, healthy, outages, broadcasts>>

\* A transport failure, or backpressure again.
PrimaryFails(c) ==
  /\ \/ call[c] = "primary" /\ doomed[c]
     \/ call[c] = "again"
  /\ RecordFailure
  /\ FailOver(c, Append(results[c], Outcome(Primary, "failed")))
  /\ UNCHANGED <<probe, healthy, outages, doomed, broadcasts>>

\* A context error: the breaker is not told.  The caller has gone, or (the deadline
\* of the one request) it still waits and the failovers run.
PrimaryCancelled(c) ==
  /\ call[c] \in {"primary", "wait", "again"}
  /\ LET collected == Append(results[c], Outcome(Primary, "failed"))
     IN  \/ Go(c, "done", collected)
         \/ call[c] # "wait" /\ FailOver(c, collected)
  /\ UNCHANGED <<breakerVars, probe, healthy, outages, doomed, broadcasts>>

\* Mutant: a double-spend verdict with an error is taken for a failure of the service.
FailoverAnswersSpraying(c) ==
  /\ call[c] = "failover"
  /\ \E a \in {"verdict", "rejected", "failed"} :
       LET o == Outcome(Failovers[NextFailover(c)], a)
       IN  Go(c, IF NextFailover(c) = Len(Failovers) THEN "done" ELSE "failover",
              Append(results[c], o))
  /\ UNCHANGED <<breakerVars, probe, healthy, outages, doomed, broadcasts>>

\* The next failover answers: a verdict ends the broadcast, anything else moves on.
FailoverAnswers(c) ==
  /\ call[c] = "failover"
  /\ \E a \in {"verdict", "rejected", "failed"} :
       LET o == Outcome(Failovers[NextFailover(c)], a)
       IN  Go(c, IF IsFinal(o) \/ NextFailover(c) = Len(Failovers) THEN "done" ELSE "failover",
              Append(results[c], o))
  /\ UNCHANGED <<breakerVars, probe, healthy, outages, doomed, broadcasts>>

\* The results are handed to the caller.
Finished(c) ==
  /\ call[c] = "done"
  /\ Go(c, "idle", <<>>)
  /\ doomed' = [doomed EXCEPT ![c] = FALSE]
  /\ UNCHANGED <<breakerVars, probe, healthy, outages, broadcasts>>

\* External: the primary goes away and comes back.
Outage ==
  /\ healthy /\ outages < MaxOutages
  /\ healthy' = FALSE /\ outages' = outages + 1
  /\ UNCHANGED <<breakerVars, probe, callVars, broadcasts>>

Recovery ==
  /\ ~healthy /\ healthy' = TRUE
  /\ UNCHANGED <<breakerVars, probe, outages, callVars, broadcasts>>

RouterTick ==
  /\ since < ProbeInterval /\ since' = since + 1
  /\ UNCHANGED <<circuit, failures, probe, healthy, outages, callVars, broadcasts>>

RouterNext ==
  \/ ProbeStarts \/ ProbeAnswered \/ Outage \/ Recovery \/ RouterTick
  \/ \E c \in Clients :
       \/ StartBroadcast(c) \/ PrimaryAnswers(c) \/ Backpressure(c)
       \/ RetryAfterBackpressure(c) \/ PrimaryFails(c) \/ PrimaryCancelled(c)
       \/ FailoverAnswers(c) \/ Finished(c)

RouterSpec == RouterInit /\ [][RouterNext]_routerVars

\* The probe's ticker runs and requests end; nobody has to broadcast.
RouterFairness ==
  /\ WF_routerVars(ProbeStarts) /\ WF_routerVars(ProbeAnswered)
  /\ WF_routerVars(RouterTick)
  /\ \A c \in Clients :
       /\ WF_routerVars(PrimaryAnswers(c) \/ PrimaryFails(c) \/ PrimaryCancelled(c))
       /\ WF_routerVars(RetryAfterBackpressure(c) \/ FailoverAnswers(c) \/ Finished(c))

-----------------------------------------------------------------------------
\* Types; a closed circuit has seen fewer failures in a row than the threshold,
\* whatever late answers and probes were recorded in between.
RouterTypeOK ==
  /\ circuit \in {"closed", "open", "half-open"}
  /\ failures \in 0..FailureThreshold /\ since \in 0..ProbeInterval
  /\ circuit = "closed" => failures < FailureThreshold
  /\ probe \in {"waiting", "asking"}
  /\ healthy \in BOOLEAN /\ outages \in 0..MaxOutages /\ broadcasts \in 0..MaxBroadcasts
  /\ \A c \in Clients :
       /\ call[c] \in {"idle", "primary", "wait", "again", "failover", "done"}
       /\ doomed[c] \in BOOLEAN
       /\ Len(results[c]) <= 1 + Len(Failovers)

\* No service is asked once a transaction is accepted or a double spend anywhere, or
\* rejected by the primary ("broadcasting a possibly-conflicting tx to even more
\* services would be exactly the spraying this design forbids"); a failover's other
\* rejection moves on to the next one.  No service reports twice: a failover is asked
\* once, the primary again only after backpressure.  A finished broadcast has a result
\* ("never returns an empty slice"), and one that fell back gave up only after every
\* failover.
VerdictIsFinal ==
  \A c \in Clients :
    /\ \A i \in DOMAIN results[c] : IsFinal(results[c][i]) =>
         i = Len(results[c]) /\ call[c] = "done"
    /\ IsInjective([i \in DOMAIN results[c] |-> results[c][i].service])
    /\ call[c] = "done" => results[c] # <<>>
    /\ call[c] = "done" /\ ~IsFinal(results[c][Len(results[c])]) =>
         results[c][Len(results[c])].service = Primary \/ NextFailover(c) > Len(Failovers)

\* A primary that stays healthy is used again: the probe closes an open circuit
\* also when no broadcast comes to try it, and when trials were cancelled.
CircuitRecovers == <>[]healthy => <>[](circuit # "open")
=============================================================================
