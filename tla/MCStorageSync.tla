---------------------------- MODULE MCStorageSync ----------------------------
(***************************************************************************)
(* Instances of StorageSync and of StorageManager, which runs Syncs as      *)
(* single steps; a behaviour is one of either.                              *)
(*                                                                         *)
(* StorageSync gets small groups of rows that refer to each other, one      *)
(* group per behaviour, so that every entity is sent and every reference is *)
(* translated.                                                              *)
(***************************************************************************)
EXTENDS StorageSync, StorageManager, TLC

CONSTANTS Sides, store1, store2, store3

VARIABLE side    \* "sync" or "manager", fixed

\* The user is known to two of the three stores.
TwoStores == <<store1, store2>>

Basket == 1
Tx == 2
SpenderTx == 3
Change == 4       \* an output of Tx in Basket that SpenderTx may spend
Plain == 5        \* an output of Tx outside any basket
Label == 6
LabelMap == 7
Tag == 8
TagMap == 9
Certificate == 10
Field == 11
KnownTx == 12
Commission == 13

MCRows == 1..13

MCKind == <<"basket", "transaction", "transaction", "output", "output", "label", "labelMap",
            "tag", "tagMap", "certificate", "certificateField", "knownTx", "commission">>

MCRefs ==
  [r \in MCRows |->
     CASE r = Change -> {Basket, Tx}
       [] r \in {Plain, KnownTx, Commission} -> {Tx}
       [] r = LabelMap -> {Tx, Label}
       [] r = TagMap -> {Plain, Tag}
       [] r = Field -> {Certificate}
       [] OTHER -> {}]

MCSpender == [r \in MCRows |-> IF r = Change THEN {SpenderTx} ELSE {}]

\* Two or three local writes per group, the clock starting at 1.
MCWorlds ==
     {Basket, Tx, Change, SpenderTx} :> 3
  @@ {Tx, Plain, Tag, TagMap} :> 3
  @@ {Tx, Label, LabelMap} :> 3
  @@ {Certificate, Field} :> 4
  @@ {Tx, KnownTx} :> 4
  @@ {Tx, Commission} :> 3

\* The tags of one output, with a third write after two.
TagWorld == {Tx, Plain, Tag, TagMap} :> 4

ReplicationInit ==
  /\ side \in Sides
  /\ SyncInit /\ (side = "manager" => world = {Tx, Commission})
  /\ ManagerInit /\ (side = "sync" => stores = <<>>)

ReplicationNext ==
  /\ UNCHANGED side
  /\ \/ side = "sync" /\ SyncNext /\ UNCHANGED smVars
     \/ side = "manager" /\ ManagerNext /\ UNCHANGED syncVars

\* The type invariants of both; the manager is available only with every store loaded.
ReplicationTypeOK == SyncTypeOK /\ ManagerTypeOK

ReplicationSpec == ReplicationInit /\ [][ReplicationNext]_<<side, syncVars, smVars>> /\ SyncFairness
=============================================================================
