------------------------------- MODULE MCParts -------------------------------
(***************************************************************************)
(* The parts that share no state with one another, checked side by side: a *)
(* behaviour is a behaviour of one of them, the others stay as they start. *)
(***************************************************************************)
EXTENDS EventQueue, LeaseLocker, StatusStream, BroadcastRouter, WalletActions, FuelKeeper,
        Funder, FiniteSetsExt

CONSTANT Parts

VARIABLE part    \* the part that runs

partsVars == <<part, queueVars, leaseVars, streamVars, routerVars, walletVars, fuelVars,
               fundVars>>

TwoFailovers == <<"failover1", "failover2">>

(* Four rows: three in the index and a noSend change output, or two in the fuel pool, *)
(* one in the default basket and the noSend change output.                            *)

RowOf(basket, status, sats) == [sats |-> sats, status |-> status, basket |-> basket]

NoSendChange == RowOf("default", "none", 7)

FourRows ==
  {<<RowOf("default", "mined", v), RowOf("default", "mined", w), RowOf("default", s, x),
     NoSendChange>> : v \in {2, 9}, w \in {5, 30}, x \in {5, 12}, s \in Tiers}
  \cup {<<RowOf("fuel", "mined", 9), RowOf("fuel", "unproven", 9), RowOf("default", s, 30),
          NoSendChange>> : s \in Tiers}

(* Plain requests, requests with noSend change or a sweep (also with change that the   *)
(* queries offer), requests without outputs, and requests to the fuel pool that may    *)
(* fall back to the default basket.                                                   *)

PassOf(basket, tiers, count, minimum) ==
  [basket |-> basket, tiers |-> tiers, desired |-> count, minimum |-> minimum, cap |-> count]

SafeTiers == <<"mined", "unproven">>
AllTiers == <<"mined", "unproven", "sending">>

RequestOf(target, outputs, sweep, priority, forbidden, passes) ==
  [target |-> target, size |-> 3, outputs |-> outputs, sweep |-> sweep, priority |-> priority,
   forbidden |-> forbidden, passes |-> passes]

ManyRequests ==
  {RequestOf(t, 1, FALSE, <<>>, {}, <<PassOf("default", SafeTiers, 3, m)>>) :
     t \in {-5, 4, 11, 40}, m \in {4, 8}}
  \cup {RequestOf(t, 1, sweep, p, f, <<PassOf("default", AllTiers, 3, 8)>>) :
          t \in {5, 9}, sweep \in BOOLEAN, p \in {<<4>>, <<3, 4>>}, f \in {{}, {1}, {4}}}
  \cup {RequestOf(t, 0, FALSE, <<>>, {}, <<PassOf("default", SafeTiers, 3, 4)>>) :
          t \in {0, 8, -20}}
  \cup {RequestOf(t, 1, FALSE, <<>>, {},
                  <<PassOf("fuel", <<"mined">>, 1, 4), PassOf("default", SafeTiers, 1, 4)>>) :
          t \in {3, 12, 19}}

AnyFunding == CHOOSE pair \in Requests \X Inventories : TRUE

PartsInit ==
  /\ part \in Parts
  /\ QueueInit /\ (part # "queue" => sharing = "acquire")
  /\ LeaseInit /\ (part # "lease" => \A i \in Instances : ahead[i] = 0)
  /\ StreamInit /\ RouterInit /\ WalletInit
  /\ FuelInit /\ (part # "fuel" => poolTarget = Max(Targets))
  /\ FundInit /\ (part # "funder" => <<request, coins>> = AnyFunding)

PartsNext ==
  /\ UNCHANGED part
  /\ \/ /\ part = "queue" /\ QueueNext
        /\ UNCHANGED <<leaseVars, streamVars, routerVars, walletVars, fuelVars, fundVars>>
     \/ /\ part = "lease" /\ LeaseNext
        /\ UNCHANGED <<queueVars, streamVars, routerVars, walletVars, fuelVars, fundVars>>
     \/ /\ part = "stream" /\ StreamNext
        /\ UNCHANGED <<queueVars, leaseVars, routerVars, walletVars, fuelVars, fundVars>>
     \/ /\ part = "router" /\ RouterNext
        /\ UNCHANGED <<queueVars, leaseVars, streamVars, walletVars, fuelVars, fundVars>>
     \/ /\ part = "wallet" /\ WalletNext
        /\ UNCHANGED <<queueVars, leaseVars, streamVars, routerVars, fuelVars, fundVars>>
     \/ /\ part = "fuel" /\ FuelNext
        /\ UNCHANGED <<queueVars, leaseVars, streamVars, routerVars, walletVars, fundVars>>
     \/ /\ part = "funder" /\ FundNext
        /\ UNCHANGED <<queueVars, leaseVars, streamVars, routerVars, walletVars, fuelVars>>

PartsSpec == PartsInit /\ [][PartsNext]_partsVars

\* The type invariants of the parts, and with them their bounds: a lease run is within
\* its budget, a batch and a queue of status events within their sizes, one top-up
\* round at a time is under way.
PartsTypeOK ==
  /\ QueueTypeOK /\ LeaseTypeOK /\ StreamTypeOK /\ RouterTypeOK /\ WalletTypeOK /\ FuelTypeOK
  /\ FunderTypeOK

(* What must happen in a part, under the fairness of that part. *)

\* EveryReleaseReturns and EveryEventSettles (EventQueue): a Release or Unsubscribe
\* returns even when the subscriber stopped reading, and with one that keeps reading
\* every accepted event reaches it or is counted by the Close or Discard that gave it up.
QueuesSettle == part = "queue" /\ QueueFairness => EveryReleaseReturns /\ EveryEventSettles

\* JobKeepsRunning (LeaseLocker): the job of a monitor task is run again and again
\* while an instance is up.
JobsKeepRunning == part = "lease" /\ LeaseFairness => JobKeepsRunning

\* CircuitRecovers (BroadcastRouter): a primary that stays healthy is used again.
PrimaryIsUsedAgain == part = "router" /\ RouterFairness => CircuitRecovers

\* PoolIsRefilled (FuelKeeper): the fuel pool comes back to low water while there
\* is anything to mint it from.
FuelComesBack == part = "fuel" /\ FuelFairness => PoolIsRefilled
=============================================================================
