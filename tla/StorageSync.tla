----------------------------- MODULE StorageSync -----------------------------
(***************************************************************************)
(* Chunked synchronisation of one user's rows from a reader store to a     *)
(* writer store (storage/internal/sync and repo/syncrepo).                 *)
(*                                                                         *)
(* ReaderToWriter.Sync loops: read the writer's sync_states row, ask the   *)
(* reader for a chunk (one page query per entity, each its own database    *)
(* transaction), and let the writer upsert the chunk row by row and then   *)
(* save the sync_states row.  The loop ends at the first empty chunk, or   *)
(* after two chunks that changed nothing.  The reader keeps serving its    *)
(* user meanwhile, the writer may be the active store of another device,   *)
(* and the loop may be cut off between any two steps.                      *)
(*                                                                         *)
(* A row's content is abstracted to ver, the time of the last change it    *)
(* holds.  That is not its updated_at: the statuses, attempts and flags of *)
(* a known transaction are changed with updated_at left alone, and most    *)
(* upserts of a Sync stamp a stored row with the writer's own time.  Time  *)
(* is one clock that every local write advances.  A row that is absent has *)
(* created = 0.  Tables that hold no row of the world under study always   *)
(* answer with an empty page, so their chunkers are left out of the loop.  *)
(***************************************************************************)
EXTENDS Naturals, Sequences, FiniteSets

CONSTANTS
  Rows,       \* row numbers: the primary keys, which break ties of created_at
  Kind,       \* Kind[r]: the entity (table) of row r
  Refs,       \* Refs[r]: the rows whose reader ids row r carries; for a known
              \* transaction, the user's transactions with its txid
  Spender,    \* Spender[r]: the transactions that may come to spend output r
  Worlds,     \* the sets of rows to study, one per behaviour, each with a bound
              \* on the clock
  MaxItems    \* the chunk's item limit

Entities == {"basket", "knownTx", "transaction", "output", "label", "labelMap",
             "tag", "tagMap", "certificate", "certificateField", "commission"}

ASSUME SyncAssumption ==
  /\ Rows \subseteq Nat \ {0}
  /\ Kind \in [Rows -> Entities]
  /\ Refs \in [Rows -> SUBSET Rows]
  /\ Spender \in [Rows -> SUBSET Rows]
  /\ Worlds \in [DOMAIN Worlds -> Nat] /\ DOMAIN Worlds \subseteq SUBSET Rows
  /\ \A w \in DOMAIN Worlds : IsFiniteSet(w) /\ \A r \in w : Refs[r] \cup Spender[r] \subseteq w
  /\ MaxItems \in Nat \ {0}

VARIABLES
  world,      \* the rows this behaviour is about
  clock,      \* the time of the last local write
  src,        \* the reader's rows
  dst,        \* the writer's rows
  utxo,       \* the writer's user_utxos, per output: "none", "free", "reserved"
  srcUser,    \* updated_at of the reader's users row
  dstUser,    \* updated_at of the writer's users row
  saved,      \* the writer's sync_states row for this reader
  mem,        \* ChunkProcessor's copy of it
  pc,         \* "idle", "request", "query", "process", "upsert"
  at,         \* the chunker being paged
  offset,     \* the offset of its next page
  chunk,      \* the items of the chunk still to process
  chunkUser,  \* chunk.User: its updated_at, 0 for nil
  changed,    \* the chunk in hand made an insert or an update
  nothing,    \* nothingChangedCounter
  outcome,    \* how the last Sync ended: "none", "done", "quiet", "failed"
  calm        \* history: the reader changed only while no cycle was open

local == <<src, srcUser, clock>>
writer == <<dst, utxo, dstUser>>
syncing == <<saved, mem, pc, at, offset, chunk, chunkUser, changed, nothing, outcome>>
syncVars == <<world, local, writer, syncing, calm>>

MaxClock == Worlds[world]

Times == 0..MaxClock

\* live: an output is spendable change; spent: its spent_by is set.
Row == [created : Times, updated : Times, ver : Times, deleted : Times,
        live : BOOLEAN, spent : BOOLEAN]

Absent == [created |-> 0, updated |-> 0, ver |-> 0, deleted |-> 0, live |-> FALSE, spent |-> FALSE]

\* A sync_states row: when (since), and the sync map's count per entity, its
\* largest MaxUpdatedAt and the reader ids its IDMaps translate.
NoState == [when |-> 0, count |-> [e \in Entities |-> 0], max |-> 0, ids |-> {}]

Stored(table, e) == {r \in world : Kind[r] = e /\ table[r].created > 0}

-----------------------------------------------------------------------------
(* The reader's queries: one page of one entity.                           *)

Since(r) == src[r].updated >= saved.when

FindBasketsForSync == {r \in Stored(src, "basket") : Since(r)}

\* Only transactions that one of the user's own transactions refers to.
FindKnownTxsForSync ==
  {r \in Stored(src, "knownTx") :
     Since(r) /\ Refs[r] \cap Stored(src, "transaction") # {}}

FindTransactionsForSync == {r \in Stored(src, "transaction") : Since(r)}

FindOutputsForSync == {r \in Stored(src, "output") : Since(r)}

\* Labels and tags, soft-deleted ones included.
FindNames(e) == {r \in Stored(src, e) : Since(r)}

\* Label maps and tag maps: changed or deleted since.
FindMaps(e) == {r \in Stored(src, e) : Since(r) \/ src[r].deleted >= saved.when}

FindCertificatesForSync == {r \in Stored(src, "certificate") : Since(r)}

FindCertificateFieldsForSync == {r \in Stored(src, "certificateField") : Since(r)}

FindCommissionsForSync == {r \in Stored(src, "commission") : Since(r)}

FindForSync(e) ==
  CASE e = "basket" -> FindBasketsForSync
    [] e = "knownTx" -> FindKnownTxsForSync
    [] e = "transaction" -> FindTransactionsForSync
    [] e = "output" -> FindOutputsForSync
    [] e \in {"label", "tag"} -> FindNames(e)
    [] e \in {"labelMap", "tagMap"} -> FindMaps(e)
    [] e = "certificate" -> FindCertificatesForSync
    [] e = "certificateField" -> FindCertificateFieldsForSync
    [] OTHER -> FindCommissionsForSync

\* ORDER BY created_at DESC, primary key
Newer(r, s) ==
  \/ src[r].created > src[s].created
  \/ src[r].created = src[s].created /\ r < s

\* The number of rows that are listed before r.
Before(rows, r) == Cardinality({s \in rows : Newer(s, r)})

\* LIMIT limit OFFSET from: the page, as the set with the one sequence that lists it.
Paginate(rows, from, limit) ==
  LET page == {r \in rows : Before(rows, r) \in from..from + limit - 1}
  IN  {p \in [1..Cardinality(page) -> page] :
         \A i \in DOMAIN p : Before(rows, p[i]) = from + i - 1}

\* Mutant: outputs are sent before the transactions they belong to.
AllChunkersOutputsFirst == <<"basket", "knownTx", "output", "transaction", "label", "labelMap",
                 "tag", "tagMap", "certificate", "certificateField", "commission">>

AllChunkers == <<"basket", "knownTx", "transaction", "output", "label", "labelMap",
                 "tag", "tagMap", "certificate", "certificateField", "commission">>

Chunkers == SelectSeq(AllChunkers, LAMBDA e : \E r \in world : Kind[r] = e)

-----------------------------------------------------------------------------
(* ReaderToWriter.Sync and GetSyncChunk.                                   *)

\* A Sync begins: its first pass over the loop.
Start ==
  /\ pc = "idle"
  /\ pc' = "request" /\ outcome' = "none"
  /\ UNCHANGED <<world, local, writer, calm, saved, mem, at, offset, chunk, chunkUser, changed, nothing>>

\* FindOrInsertSyncStateAuth, buildOffsets, and the head of GetSyncChunk, which
\* includes the user when it changed since.
Request ==
  /\ pc = "request"
  /\ pc' = "query" /\ at' = 1 /\ offset' = saved.count[Chunkers[1]]
  /\ chunkUser' = IF saved.when = 0 \/ srcUser > saved.when THEN srcUser ELSE 0
  /\ UNCHANGED <<world, local, writer, calm, saved, mem, chunk, changed, nothing, outcome>>

Item(r) == [row |-> r, created |-> src[r].created, updated |-> src[r].updated,
            ver |-> src[r].ver, deleted |-> src[r].deleted, live |-> src[r].live,
            spent |-> src[r].spent]

\* One page query.  A chunk that holds something may also be full by size.
Query ==
  /\ pc = "query"
  /\ LET limit == MaxItems - Len(chunk)
     IN \E full \in BOOLEAN, rows \in Paginate(FindForSync(Chunkers[at]), offset, limit) :
          /\ chunk' = chunk \o [i \in DOMAIN rows |-> Item(rows[i])]
          /\ full => chunk' # <<>>
          /\ \/ /\ full \/ Len(chunk') >= MaxItems \/ (rows = <<>> /\ at = Len(Chunkers))
                /\ pc' = "process" /\ at' = 1 /\ offset' = 0
             \/ /\ ~full /\ Len(chunk') < MaxItems /\ rows = <<>> /\ at < Len(Chunkers)
                /\ at' = at + 1 /\ offset' = saved.count[Chunkers[at + 1]] /\ UNCHANGED pc
             \/ /\ ~full /\ Len(chunk') < MaxItems /\ rows # <<>>
                /\ offset' = offset + limit /\ UNCHANGED <<pc, at>>
  /\ UNCHANGED <<world, local, writer, calm, saved, mem, chunkUser, changed, nothing, outcome>>

\* The values of a round and of a Sync are gone once it is over.
ForgetRound ==
  mem' = NoState /\ at' = 1 /\ offset' = 0 /\ chunk' = <<>> /\ chunkUser' = 0 /\ changed' = FALSE

Forget == ForgetRound /\ nothing' = 0

\* Mutant: one idle round too many.
NextRoundLate ==
  LET idle == IF changed THEN 0 ELSE nothing + 1
  IN /\ ForgetRound
     /\ \/ idle <= 2 /\ pc' = "request" /\ nothing' = idle /\ UNCHANGED outcome
        \/ idle > 2 /\ pc' = "idle" /\ nothing' = 0 /\ outcome' = "quiet"

\* doWhileChangesMade, after a chunk that was not the last.
NextRound ==
  LET idle == IF changed THEN 0 ELSE nothing + 1
  IN /\ ForgetRound
     /\ \/ idle < 2 /\ pc' = "request" /\ nothing' = idle /\ UNCHANGED outcome
        \/ idle = 2 /\ pc' = "idle" /\ nothing' = 0 /\ outcome' = "quiet"

\* Sync returns an error: a failed call, a cancelled context, a crash.
Fail ==
  /\ pc' = "idle" /\ outcome' = "failed" /\ Forget
  /\ UNCHANGED <<world, local, writer, calm, saved>>

Interrupt == pc # "idle" /\ Fail

-----------------------------------------------------------------------------
(* ChunkProcessor.                                                         *)

\* The user row is merged when the writer's is older.
MergesUser == dstUser < chunkUser

\* updateSyncStateOnDone: the next cycle starts just after the newest row seen.
OnDone == [saved EXCEPT !.when = IF saved.max = 0 THEN 0 ELSE saved.max + 1,
                        !.count = [e \in Entities |-> 0]]

Process ==
  /\ pc = "process"
  /\ dstUser' = IF MergesUser THEN chunkUser ELSE dstUser
  /\ \/ /\ chunk = <<>>
        /\ saved' = OnDone /\ pc' = "idle" /\ outcome' = "done" /\ Forget
     \/ /\ chunk # <<>>
        /\ mem' = saved /\ pc' = "upsert" /\ changed' = MergesUser /\ chunkUser' = 0
        /\ UNCHANGED <<saved, outcome, at, offset, chunk, nothing>>
  /\ UNCHANGED <<world, local, dst, utxo, calm>>

\* UpdateSyncState once every item of the chunk is upserted.
SaveState ==
  /\ pc = "upsert" /\ chunk = <<>>
  /\ saved' = mem
  /\ NextRound
  /\ UNCHANGED <<world, local, writer, calm>>

\* updateSyncState: one more of entity e, its ids translated from now on.
updateSyncState(e, i, ids) ==
  mem' = [mem EXCEPT !.count[e] = @ + 1, !.ids = @ \cup ids,
                     !.max = IF i.updated > @ THEN i.updated ELSE @]

translateIDs(rows) == rows \subseteq mem.ids

\* The tables a Sync updates with a struct: gorm sets updated_at to the writer's
\* own time.  The others, and every insert, keep the time that was sent.
Stamped == {"basket", "knownTx", "transaction", "output", "label", "tag"}

UpdatedAt(i) ==
  IF dst[i.row].created > 0 /\ Kind[i.row] \in Stamped THEN clock ELSE i.updated

Version(i) == [created |-> i.created, updated |-> UpdatedAt(i), ver |-> i.ver,
               deleted |-> i.deleted, live |-> i.live, spent |-> i.spent]

Write(i) == dst' = [dst EXCEPT ![i.row] = Version(i)]

\* Mutant: an incoming version always wins.
IsNewerAlways(i) == TRUE

\* The stale-chunk guard: only a strictly newer version replaces a stored row.
IsNewer(i) == dst[i.row].created = 0 \/ i.updated > dst[i.row].updated

WriteIfNewer(i) == IF IsNewer(i) THEN Write(i) ELSE UNCHANGED dst

-----------------------------------------------------------------------------
(* The writer's upserts, one database transaction each.                    *)

\* An update in place or an insert, whatever the stored version.
UpsertOutputBasketForSync(i) == Write(i)

UpsertKnownTxForSync(i) == WriteIfNewer(i)

UpsertTransactionForSync(i) == WriteIfNewer(i)

\* upsertUserUTXO: a spendable output gets its user_utxos row, unreserved.
upsertUserUTXO(i) == utxo' = IF i.live THEN [utxo EXCEPT ![i.row] = "free"] ELSE utxo

\* The output under the stale-chunk guard, the user_utxos row whatever it says.
UpsertOutputForSync(i) == WriteIfNewer(i) /\ upsertUserUTXO(i)

\* Deleting a label or a tag deletes its maps.
DeleteNameForSync(i, map) ==
  LET gone == {i.row} \cup {m \in Stored(dst, map) : i.row \in Refs[m]}
  IN dst' = [r \in world |->
               IF r \in gone /\ dst[r].created > 0 /\ dst[r].deleted = 0
               THEN [dst[r] EXCEPT !.deleted = clock] ELSE dst[r]]

UpsertNameForSync(i) == Write(i)

\* The map's label or tag is on the writer, and the map is not deleted there.
Mappable(i) ==
  /\ \A r \in Refs[i.row] : Kind[r] \in {"label", "tag"} => dst[r].deleted = 0
  /\ dst[i.row].deleted = 0

UpsertMapForSync(i) == Mappable(i) /\ Write(i)

\* Deletes the row that is there, if any.
DeleteMapForSync(i) ==
  dst' = IF Mappable(i) /\ dst[i.row].created > 0
         THEN [dst EXCEPT ![i.row].deleted = clock] ELSE dst

\* A deleted certificate is stored as deleted, a restored one as restored.
UpsertCertificateForSync(i) == WriteIfNewer(i)

UpsertCertificateFieldForSync(i) == WriteIfNewer(i)

UpsertCommissionForSync(i) == WriteIfNewer(i)

-----------------------------------------------------------------------------
(* The handlers of ChunkProcessor: translate, upsert, record.              *)

upserts(e) == pc = "upsert" /\ chunk # <<>> /\ Kind[Head(chunk).row] = e

Upserted ==
  /\ chunk' = Tail(chunk)
  /\ UNCHANGED <<world, local, dstUser, calm, saved, pc, at, offset, chunkUser, nothing, outcome>>

upsertBasket ==
  /\ upserts("basket")
  /\ LET i == Head(chunk) IN UpsertOutputBasketForSync(i) /\ updateSyncState("basket", i, {i.row})
  /\ changed' = TRUE /\ UNCHANGED utxo
  /\ Upserted

\* upsertProvenTxReqs and upsertProvenTx: one table, and one offset, for both.
upsertKnownTx ==
  /\ upserts("knownTx")
  /\ LET i == Head(chunk) IN UpsertKnownTxForSync(i) /\ updateSyncState("knownTx", i, {i.row})
  /\ changed' = TRUE /\ UNCHANGED utxo
  /\ Upserted

upsertTransaction ==
  /\ upserts("transaction")
  /\ LET i == Head(chunk)
     IN UpsertTransactionForSync(i) /\ updateSyncState("transaction", i, {i.row})
  /\ changed' = TRUE /\ UNCHANGED utxo
  /\ Upserted

\* The rows an output's basket, transaction and spent_by ids stand for.
OutputRefs(i) == Refs[i.row] \cup (IF i.spent THEN Spender[i.row] ELSE {})

upsertOutput ==
  /\ upserts("output")
  /\ LET i == Head(chunk)
     IN /\ translateIDs(OutputRefs(i))
        /\ UpsertOutputForSync(i)
        /\ updateSyncState("output", i, {i.row})
  /\ changed' = TRUE
  /\ Upserted

\* upsertLabel, upsertTag.  The sync map does not count a deletion.
upsertName(e, map) ==
  /\ upserts(e)
  /\ LET i == Head(chunk)
     IN \/ /\ i.deleted = 0
           /\ UpsertNameForSync(i) /\ updateSyncState(e, i, {i.row}) /\ changed' = TRUE
        \/ /\ i.deleted > 0
           /\ DeleteNameForSync(i, map)
           /\ changed' = (changed \/ dst'[i.row] # dst[i.row])
           /\ UNCHANGED mem
  /\ UNCHANGED utxo
  /\ Upserted

upsertLabel == upsertName("label", "labelMap")

upsertTag == upsertName("tag", "tagMap")

\* Mutant: deleting a map counts as an update even when it is deleted already.
upsertMapCounted(e) ==
  /\ upserts(e)
  /\ LET i == Head(chunk)
     IN /\ translateIDs(Refs[i.row])
        /\ \/ i.deleted = 0 /\ UpsertMapForSync(i) /\ updateSyncState(e, i, {})
           \/ i.deleted > 0 /\ DeleteMapForSync(i) /\ UNCHANGED mem
  /\ changed' = TRUE /\ UNCHANGED utxo
  /\ Upserted

\* upsertLabelMap, upsertTagMap.  Deleting a map is not counted either.
upsertMap(e) ==
  /\ upserts(e)
  /\ LET i == Head(chunk)
     IN /\ translateIDs(Refs[i.row])
        /\ \/ /\ i.deleted = 0
              /\ UpsertMapForSync(i) /\ updateSyncState(e, i, {}) /\ changed' = TRUE
           \/ /\ i.deleted > 0
              /\ DeleteMapForSync(i) /\ UNCHANGED mem
              /\ changed' = (changed \/ dst' # dst)
  /\ UNCHANGED utxo
  /\ Upserted

upsertLabelMap == upsertMap("labelMap")

upsertTagMap == upsertMap("tagMap")

upsertCertificate ==
  /\ upserts("certificate")
  /\ LET i == Head(chunk)
     IN UpsertCertificateForSync(i) /\ updateSyncState("certificate", i, {i.row})
  /\ changed' = TRUE /\ UNCHANGED utxo
  /\ Upserted

\* Certificate fields have no id map.
upsertCertificateField ==
  /\ upserts("certificateField")
  /\ LET i == Head(chunk)
     IN /\ translateIDs(Refs[i.row])
        /\ UpsertCertificateFieldForSync(i) /\ updateSyncState("certificateField", i, {})
  /\ changed' = TRUE /\ UNCHANGED utxo
  /\ Upserted

upsertCommission ==
  /\ upserts("commission")
  /\ LET i == Head(chunk)
     IN /\ translateIDs(Refs[i.row])
        /\ UpsertCommissionForSync(i) /\ updateSyncState("commission", i, {i.row})
  /\ changed' = TRUE /\ UNCHANGED utxo
  /\ Upserted

Maps == {"labelMap", "tagMap"}

\* The ids an item carries that have to be translated before it can be stored.
Needs(i) ==
  CASE Kind[i.row] = "output" -> OutputRefs(i)
    [] Kind[i.row] \in Maps \cup {"certificateField", "commission"} -> Refs[i.row]
    [] OTHER -> {}

\* translateID finds no writer id, or a live map has no live name: Sync returns
\* the error.
Refused ==
  /\ pc = "upsert" /\ chunk # <<>>
  /\ LET i == Head(chunk)
     IN ~translateIDs(Needs(i)) \/ (Kind[i.row] \in Maps /\ i.deleted = 0 /\ ~Mappable(i))

Refuse == Refused /\ Fail

Upsert ==
  \/ upsertBasket \/ upsertKnownTx \/ upsertTransaction \/ upsertOutput
  \/ upsertLabel \/ upsertLabelMap \/ upsertTag \/ upsertTagMap
  \/ upsertCertificate \/ upsertCertificateField \/ upsertCommission

-----------------------------------------------------------------------------
(* The stores serve their users meanwhile.                                 *)

\* Every local write of the reader: at a new time, noting whether a Sync was
\* running or had been cut off.
ReaderWrites ==
  /\ clock < MaxClock /\ clock' = clock + 1
  /\ calm' = (calm /\ pc = "idle" /\ outcome # "failed")
  /\ outcome' = IF pc = "idle" THEN "none" ELSE outcome
  /\ UNCHANGED <<world, writer, saved, mem, pc, at, offset, chunk, chunkUser, changed, nothing>>

\* One database transaction creates rows, with one created_at.
Store(new) ==
  /\ new # {} /\ \A r \in new : src[r].created = 0
  /\ \A r \in new : \A q \in Refs[r] : q \in new \/ src[q].created > 0
  /\ \E live \in BOOLEAN :
       src' = [r \in world |->
                 IF r \in new
                 THEN [created |-> clock + 1, updated |-> clock + 1, ver |-> clock + 1,
                       deleted |-> 0, live |-> live /\ Kind[r] = "output", spent |-> FALSE]
                 ELSE src[r]]
  /\ UNCHANGED srcUser
  /\ ReaderWrites

\* A basket's settings, a known transaction's proof, a transaction's status or
\* txid, a commission's redemption: updates that move updated_at.  Labels, tags
\* and certificate fields are never updated.
Touch(r) ==
  /\ src[r].created > 0 /\ Kind[r] \in {"basket", "knownTx", "transaction", "commission"}
  /\ src' = [src EXCEPT ![r].updated = clock + 1, ![r].ver = clock + 1]
  /\ UNCHANGED srcUser
  /\ ReaderWrites

\* UpdateColumns on a known transaction: its status, was_broadcast, attempts,
\* rebroadcasts or batch, with updated_at left alone.
UpdateInPlace(r) ==
  /\ Kind[r] = "knownTx" /\ src[r].created > 0
  /\ src' = [src EXCEPT ![r].ver = clock + 1]
  /\ UNCHANGED srcUser
  /\ ReaderWrites

\* The network accepted the output's transaction.
MakeSpendable(r) ==
  /\ Kind[r] = "output" /\ src[r].created > 0 /\ ~src[r].live /\ ~src[r].spent
  /\ src' = [src EXCEPT ![r].live = TRUE, ![r].updated = clock + 1, ![r].ver = clock + 1]
  /\ UNCHANGED srcUser
  /\ ReaderWrites

Spend(r) ==
  /\ Kind[r] = "output" /\ src[r].live /\ Spender[r] # {}
  /\ \A t \in Spender[r] : src[t].created > 0
  /\ src' = [src EXCEPT ![r].live = FALSE, ![r].spent = TRUE, ![r].updated = clock + 1,
                        ![r].ver = clock + 1]
  /\ UNCHANGED srcUser
  /\ ReaderWrites

\* Internalizing again with other tags saves the output and replaces its tags:
\* the join row is soft-deleted, its updated_at stays.
ReplaceTags(r) ==
  /\ Kind[r] = "tagMap" /\ src[r].created > 0 /\ src[r].deleted = 0
  /\ src' = [q \in world |->
               IF q = r THEN [src[q] EXCEPT !.deleted = clock + 1]
               ELSE IF q \in Refs[r] /\ Kind[q] = "output"
                    THEN [src[q] EXCEPT !.updated = clock + 1, !.ver = clock + 1] ELSE src[q]]
  /\ UNCHANGED srcUser
  /\ ReaderWrites

\* Mutant: a plain soft delete, which the since filter does not see.
DeleteCertificateSilently(r) ==
  /\ Kind[r] = "certificate" /\ src[r].created > 0 /\ src[r].deleted = 0
  /\ src' = [src EXCEPT ![r].deleted = clock + 1]
  /\ UNCHANGED srcUser
  /\ ReaderWrites

\* DeleteCertificate moves updated_at along with deleted_at.
DeleteCertificate(r) ==
  /\ Kind[r] = "certificate" /\ src[r].created > 0 /\ src[r].deleted = 0
  /\ src' = [src EXCEPT ![r].deleted = clock + 1, ![r].updated = clock + 1, ![r].ver = clock + 1]
  /\ UNCHANGED srcUser
  /\ ReaderWrites

UpdateUser == srcUser' = clock + 1 /\ UNCHANGED src /\ ReaderWrites

\* The writer, active on another device, funds an action with its output: the
\* output is taken and its user_utxos row reserved.
FundFromWriter(r) ==
  /\ clock < MaxClock /\ clock' = clock + 1
  /\ utxo[r] = "free"
  /\ utxo' = [utxo EXCEPT ![r] = "reserved"]
  /\ dst' = [dst EXCEPT ![r].live = FALSE, ![r].spent = TRUE, ![r].updated = clock + 1,
                        ![r].ver = clock + 1]
  /\ UNCHANGED <<world, src, srcUser, dstUser, calm, syncing>>

\* The writer updates a known transaction in place.
UpdateInPlaceOnWriter(r) ==
  /\ clock < MaxClock /\ clock' = clock + 1
  /\ Kind[r] = "knownTx" /\ dst[r].created > 0
  /\ dst' = [dst EXCEPT ![r].ver = clock + 1]
  /\ UNCHANGED <<world, src, srcUser, utxo, dstUser, calm, syncing>>

-----------------------------------------------------------------------------
SyncInit ==
  /\ world \in DOMAIN Worlds
  /\ clock = 1
  /\ src = [r \in world |-> Absent] /\ srcUser = 1
  /\ dst = [r \in world |-> Absent] /\ dstUser = 0
  /\ utxo = [r \in world |-> "none"]
  /\ saved = NoState /\ mem = NoState
  /\ pc = "idle" /\ at = 1 /\ offset = 0
  /\ chunk = <<>> /\ chunkUser = 0
  /\ changed = FALSE /\ nothing = 0 /\ outcome = "none"
  /\ calm = TRUE

SyncStep == Request \/ Query \/ Process \/ Upsert \/ Refuse \/ SaveState

LocalStep ==
  \/ \E new \in SUBSET world : Store(new)
  \/ \E r \in world : \/ Touch(r) \/ UpdateInPlace(r) \/ MakeSpendable(r) \/ Spend(r)
                      \/ ReplaceTags(r) \/ DeleteCertificate(r)
                      \/ FundFromWriter(r) \/ UpdateInPlaceOnWriter(r)
  \/ UpdateUser

SyncNext == Start \/ SyncStep \/ Interrupt \/ LocalStep

SyncSpec == SyncInit /\ [][SyncNext]_syncVars

\* A Sync that was begun is driven on until it returns.
SyncFairness == WF_syncVars(SyncStep)

FairSyncSpec == SyncSpec /\ SyncFairness

-----------------------------------------------------------------------------
(* Properties.                                                             *)

State == [when : Nat, count : [Entities -> Nat], max : Times, ids : SUBSET world]

\* Types: the sync_states row and its copy, and the rows of both stores.
SyncTypeOK ==
  /\ world \in DOMAIN Worlds
  /\ clock \in Times /\ srcUser \in Times /\ dstUser \in Times /\ chunkUser \in Times
  /\ src \in [world -> Row] /\ dst \in [world -> Row]
  /\ utxo \in [world -> {"none", "free", "reserved"}]
  /\ saved \in State /\ mem \in State
  /\ pc \in {"idle", "request", "query", "process", "upsert"}
  /\ at \in Nat /\ offset \in Nat
  /\ chunk \in Seq([row : world, created : Times, updated : Times, ver : Times,
                    deleted : Times, live : BOOLEAN, spent : BOOLEAN])
  /\ changed \in BOOLEAN /\ nothing \in 0..1 /\ calm \in BOOLEAN
  /\ outcome \in {"none", "done", "quiet", "failed"}

\* The writer holds every change of row r up to the last one that moved the
\* reader's updated_at, or never saw the row before it was deleted.
Arrived(r) ==
  \/ /\ dst[r].created > 0 /\ dst[r].ver >= src[r].updated
     /\ src[r].deleted > 0 => dst[r].deleted > 0
  \/ dst[r].created = 0 /\ src[r].deleted > 0

\* A Sync that ends with the empty chunk (Done) has brought over every change that
\* moved updated_at, with those made in place before it, and every deletion,
\* whatever failed and was retried before it.  A known transaction's changes in
\* place since then are not seen by the since filter and not brought over.
DoneMeansReplicated ==
  calm /\ outcome = "done" => \A r \in world : src[r].created > 0 => Arrived(r)

\* Sync's own account of success: when it returned without an error, by Done or
\* because nothing changed any more, every row of the reader has arrived.
ReturnedMeansReplicated ==
  calm /\ outcome \in {"done", "quiet"} => \A r \in world : src[r].created > 0 => Arrived(r)

\* A reader that only changes between Syncs never makes one fail: everything a
\* row refers to was sent before it.
QuietSyncNeverRefused == calm => ~Refused

\* The stale-chunk guard of BRC-40: a chunk never replaces the content of a guarded
\* row of the writer by older content, whatever the writer stored meanwhile, as
\* long as the row's updated_at tells of that content.  A known transaction that
\* was changed in place since has no such protection.
Guarded == {"knownTx", "transaction", "output", "certificate", "certificateField", "commission"}

Dated(r) == dst[r].ver <= dst[r].updated

NeverBackToOlder ==
  [][\A r \in world : Kind[r] \in Guarded /\ Dated(r) => dst'[r].ver >= dst[r].ver]_syncVars

\* A Sync returns by itself, without the loop's safety limit of 1000 rounds:
\* whatever the reader holds, the empty chunk or two idle rounds come.
SyncReturns == pc # "idle" ~> pc = "idle"
=============================================================================
