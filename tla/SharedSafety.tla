---------------------------- MODULE SharedSafety ----------------------------
(***************************************************************************)
(* What several processes share: the lease of the monitor's tasks, for     *)
(* every number of instances and crashes, and a store that is written      *)
(* by a synchronisation, for every set of rows and chunk size.             *)
(***************************************************************************)
EXTENDS StorageSync, LeaseLocker, FiniteSetTheorems, TLAPS

-----------------------------------------------------------------------------
(* Stale chunks.                                                            *)

\* Rows and items with any times.
StoredRow == [created : Nat, updated : Nat, ver : Nat, deleted : Nat,
              live : BOOLEAN, spent : BOOLEAN]

SentItem == [row : world, created : Nat \ {0}, updated : Nat, ver : Nat, deleted : Nat,
             live : BOOLEAN, spent : BOOLEAN]

\* The writer's tables: no version is from the future, and a row that is absent has
\* no version and no free user_utxos row.
WriterOK(d, u, now) ==
  /\ d \in [world -> StoredRow]
  /\ u \in [world -> {"none", "free", "reserved"}]
  /\ \A r \in world : d[r].ver <= now
  /\ \A r \in world : d[r].created = 0 => d[r].ver = 0 /\ u[r] # "free"

\* What the reader holds was changed last when updated_at says, or later.
Current(v, now) == v.updated <= v.ver /\ v.ver <= now

\* The reader's table and the chunk that was read from it.
ReaderOK(s, c, now) ==
  /\ s \in [world -> StoredRow] /\ \A r \in world : Current(s[r], now)
  /\ c \in Seq(SentItem) /\ \A k \in 1..Len(c) : Current(c[k], now)

SyncInv ==
  /\ world \in DOMAIN Worlds
  /\ clock \in Nat
  /\ WriterOK(dst, utxo, clock)
  /\ ReaderOK(src, chunk, clock)

\* No guarded row of the writer goes back in d.
Forward(d) == \A r \in world : Kind[r] \in Guarded /\ Dated(r) => d[r].ver >= dst[r].ver

\* The world of a behaviour is a finite set of rows.
LEMMA WorldRows == SyncInv => world \subseteq Rows /\ IsFiniteSet(world)
BY SyncAssumption, Zenon DEF SyncInv

\* Later, what was not from the future is not either.
LEMMA ClockMoves ==
  ASSUME NEW now \in Nat, NEW d, NEW u, WriterOK(d, u, now),
         NEW s, NEW c, ReaderOK(s, c, now)
  PROVE  WriterOK(d, u, now + 1) /\ ReaderOK(s, c, now + 1)
<1>1. \A x \in Nat : x <= now => x <= now + 1
  OBVIOUS
<1>2. \A r \in world : d[r].ver \in Nat /\ s[r].ver \in Nat
  BY Zenon DEF WriterOK, ReaderOK, StoredRow
<1>3. \A k \in 1..Len(c) : c[k].ver \in Nat
  <2>1. \A k \in 1..Len(c) : c[k] \in SentItem
    BY DEF ReaderOK
  <2> QED BY <2>1, Zenon DEF SentItem
<1>4. WriterOK(d, u, now + 1)
  BY <1>1, <1>2, Zenon DEF WriterOK
<1>5. ReaderOK(s, c, now + 1)
  BY <1>1, <1>2, <1>3, Zenon DEF ReaderOK, Current
<1> QED BY <1>4, <1>5, Zenon

\* The head of the chunk is an item, and what follows it is a chunk.
LEMMA HeadOfChunk ==
  ASSUME SyncInv, chunk # <<>>
  PROVE  /\ Head(chunk) \in SentItem /\ Current(Head(chunk), clock)
         /\ ReaderOK(src, Tail(chunk), clock)
<1> DEFINE rest == Tail(chunk)
<1>1. chunk \in Seq(SentItem) /\ Len(chunk) \in Nat \ {0} /\ Head(chunk) = chunk[1]
  BY DEF SyncInv, ReaderOK
<1>2. /\ rest \in Seq(SentItem) /\ Len(rest) = Len(chunk) - 1
      /\ \A k \in 1..Len(chunk) - 1 : rest[k] = chunk[k + 1]
  BY <1>1
<1>3. Head(chunk) \in SentItem /\ Current(Head(chunk), clock)
  BY <1>1 DEF SyncInv, ReaderOK
<1> HIDE DEF rest
<1>4. \A k \in 1..Len(rest) : Current(rest[k], clock)
  <2> TAKE k \in 1..Len(rest)
  <2>1. k + 1 \in 1..Len(chunk) /\ rest[k] = chunk[k + 1]
    BY <1>1, <1>2
  <2> QED BY <2>1, Zenon DEF SyncInv, ReaderOK
<1>5. ReaderOK(src, rest, clock)
  BY <1>2, <1>4, Zenon DEF SyncInv, ReaderOK
<1> QED BY <1>3, <1>5, Zenon DEF rest

\* An item that is written over the row it names: the tables stay well-formed, and no
\* guarded row goes back when the item is newer.
LEMMA WriteRow ==
  ASSUME SyncInv, NEW i \in SentItem, Current(i, clock), NEW d,
         d = [dst EXCEPT ![i.row] = Version(i)]
  PROVE  /\ WriterOK(d, utxo, clock)
         /\ d[i.row].created > 0
         /\ IsNewer(i) \/ Kind[i.row] \notin Guarded => Forward(d)
<1>1. /\ i.row \in world /\ i.updated \in Nat /\ i.ver \in Nat /\ i.created \in Nat \ {0}
      /\ i.deleted \in Nat /\ i.live \in BOOLEAN /\ i.spent \in BOOLEAN
  BY Zenon DEF SentItem
<1>2. dst \in [world -> StoredRow]
      /\ \A r \in world : dst[r].updated \in Nat /\ dst[r].ver \in Nat
  BY Zenon DEF SyncInv, WriterOK, StoredRow
<1>u. UpdatedAt(i) \in Nat
  BY <1>1, Zenon DEF UpdatedAt, SyncInv
<1>v. Version(i) \in StoredRow /\ Version(i).created > 0 /\ Version(i).ver = i.ver
  BY <1>1, <1>u DEF StoredRow, Version
<1>3. /\ d \in [world -> StoredRow] /\ d[i.row] = Version(i)
      /\ \A r \in world : r # i.row => d[r] = dst[r]
  BY <1>1, <1>2, <1>v, Zenon
<1>4. WriterOK(d, utxo, clock)
  <2>1. \A r \in world : d[r].ver <= clock
    BY <1>3, <1>v, Zenon DEF SyncInv, WriterOK, Current
  <2>2. \A r \in world : d[r].created = 0 => d[r].ver = 0 /\ utxo[r] # "free"
    BY <1>3, <1>v DEF SyncInv, WriterOK
  <2> QED BY <1>3, <2>1, <2>2, Zenon DEF SyncInv, WriterOK
<1>5. ASSUME IsNewer(i) \/ Kind[i.row] \notin Guarded,
             NEW r \in world, Kind[r] \in Guarded, Dated(r)
      PROVE  d[r].ver >= dst[r].ver
  <2>1. CASE r # i.row
    BY <1>2, <1>3, <2>1
  <2>2. CASE r = i.row
    <3>1. dst[r].created = 0 => dst[r].ver = 0
      BY Zenon DEF SyncInv, WriterOK
    <3> QED BY <1>1, <1>2, <1>3, <1>v, <1>5, <2>2, <3>1 DEF IsNewer, Dated, Current
  <2> QED BY <2>1, <2>2, Zenon
<1> QED BY <1>3, <1>4, <1>5, <1>v, Zenon DEF Forward

\* What is to be shown of a step that leaves the world alone.
LEMMA InvFromParts ==
  ASSUME SyncInv, world' = world, clock' \in Nat,
         WriterOK(dst', utxo', clock'), ReaderOK(src', chunk', clock')
  PROVE  SyncInv'
BY Zenon DEF SyncInv, WriterOK, ReaderOK, Current, StoredRow, SentItem

\* A deletion leaves every version where it was.
LEMMA DeleteRows ==
  ASSUME SyncInv, NEW gone, NEW d,
         d = [r \in world |-> IF r \in gone /\ dst[r].created > 0 /\ dst[r].deleted = 0
                              THEN [dst[r] EXCEPT !.deleted = clock] ELSE dst[r]]
  PROVE  WriterOK(d, utxo, clock) /\ Forward(d)
<1>1. ASSUME NEW r \in world
      PROVE  d[r] \in StoredRow /\ d[r].ver = dst[r].ver /\ d[r].created = dst[r].created
  <2>1. dst[r] \in StoredRow
    BY Zenon DEF SyncInv, WriterOK
  <2>2. [dst[r] EXCEPT !.deleted = clock] \in StoredRow
    BY <2>1, Zenon DEF SyncInv, StoredRow
  <2>3. /\ [dst[r] EXCEPT !.deleted = clock].ver = dst[r].ver
        /\ [dst[r] EXCEPT !.deleted = clock].created = dst[r].created
    BY <2>1, Zenon DEF StoredRow
  <2> QED BY <2>1, <2>2, <2>3, Zenon
<1>2. d \in [world -> StoredRow]
  BY <1>1, Zenon
<1>3. \A r \in world : dst[r].ver \in Nat
  BY Zenon DEF SyncInv, WriterOK, StoredRow
<1>4. WriterOK(d, utxo, clock)
  BY <1>1, <1>2, Zenon DEF SyncInv, WriterOK
<1> QED BY <1>1, <1>3, <1>4 DEF Forward

\* The deletion of a map is the deletion of one row.
LEMMA DeleteOneRow ==
  ASSUME SyncInv, NEW m \in world, dst[m].created > 0, dst[m].deleted = 0, NEW d,
         d = [dst EXCEPT ![m].deleted = clock]
  PROVE  WriterOK(d, utxo, clock) /\ Forward(d)
<1>1. dst \in [world -> StoredRow]
  BY Zenon DEF SyncInv, WriterOK
<1>2. d = [r \in world |-> IF r \in {m} /\ dst[r].created > 0 /\ dst[r].deleted = 0
                           THEN [dst[r] EXCEPT !.deleted = clock] ELSE dst[r]]
  BY <1>1, Zenon
<1> QED BY <1>2, DeleteRows, Zenon

\* A guarded upsert.
LEMMA GuardedWrite ==
  ASSUME SyncInv, NEW i \in SentItem, Current(i, clock), WriteIfNewer(i)
  PROVE  WriterOK(dst', utxo, clock) /\ Forward(dst') /\ dst'[i.row].created > 0
<1>1. CASE IsNewer(i)
  BY <1>1, WriteRow, Zenon DEF WriteIfNewer, Write
<1>2. CASE ~IsNewer(i)
  <2>1. dst' = dst
    BY <1>2, Zenon DEF WriteIfNewer
  <2>2. i.row \in world /\ dst \in [world -> StoredRow]
    BY Zenon DEF SentItem, SyncInv, WriterOK
  <2>3. dst[i.row].created \in Nat /\ \A r \in world : dst[r].ver \in Nat
    BY <2>2, Zenon DEF StoredRow
  <2>4. dst[i.row].created > 0
    BY <1>2, <2>3 DEF IsNewer
  <2>5. Forward(dst)
    BY <2>3 DEF Forward
  <2> QED BY <2>1, <2>4, <2>5, Zenon DEF SyncInv
<1> QED BY <1>1, <1>2, Zenon

\* An output is stored under the guard, and its user_utxos row is made free after it:
\* a free row has its output.
LEMMA OutputWrite ==
  ASSUME SyncInv, NEW i \in SentItem, Current(i, clock), UpsertOutputForSync(i)
  PROVE  WriterOK(dst', utxo', clock) /\ Forward(dst')
<1>1. WriterOK(dst', utxo, clock) /\ Forward(dst') /\ dst'[i.row].created > 0
  BY GuardedWrite, Zenon DEF UpsertOutputForSync
<1>2. i.row \in world
  BY Zenon DEF SentItem
<1>3. utxo' \in [world -> {"none", "free", "reserved"}]
      /\ \A r \in world : utxo'[r] = "free" => utxo[r] = "free" \/ r = i.row
  BY <1>1, <1>2, Zenon DEF UpsertOutputForSync, upsertUserUTXO, WriterOK
<1>4. \A r \in world : dst'[r].created = 0 => dst'[r].ver = 0 /\ utxo'[r] # "free"
  BY <1>1, <1>3 DEF WriterOK
<1> QED BY <1>1, <1>3, <1>4, Zenon DEF WriterOK

\* ChunkProcessor stores one item.
LEMMA UpsertForward ==
  ASSUME SyncInv, Upsert
  PROVE  SyncInv' /\ Forward(dst')
<1> DEFINE i == Head(chunk)
<1>0. chunk # <<>> /\ Upserted /\ i.row \in world
  <2>1. chunk # <<>> /\ Upserted
    BY Zenon DEF Upsert, upserts, upsertBasket, upsertKnownTx, upsertTransaction, upsertOutput,
       upsertLabel, upsertTag, upsertName, upsertLabelMap, upsertTagMap, upsertMap,
       upsertCertificate, upsertCertificateField, upsertCommission
  <2> QED BY <2>1, HeadOfChunk, Zenon DEF SentItem
<1>1. i \in SentItem /\ Current(i, clock) /\ ReaderOK(src, Tail(chunk), clock)
  BY <1>0, HeadOfChunk, Zenon
<1>2. UNCHANGED <<world, src, clock>> /\ chunk' = Tail(chunk)
  BY <1>0, Zenon DEF Upserted, local
<1> DEFINE Fine == WriterOK(dst', utxo', clock) /\ Forward(dst')
<1> HIDE DEF i
<1>3. ASSUME \/ upsertKnownTx \/ upsertTransaction \/ upsertCertificate
             \/ upsertCertificateField \/ upsertCommission
      PROVE  Fine
  <2>1. WriteIfNewer(i) /\ utxo' = utxo
    BY <1>3, Zenon DEF i, upsertKnownTx, upsertTransaction, upsertCertificate,
       upsertCertificateField, upsertCommission, UpsertKnownTxForSync,
       UpsertTransactionForSync, UpsertCertificateForSync, UpsertCertificateFieldForSync,
       UpsertCommissionForSync
  <2> QED BY <1>1, <2>1, GuardedWrite, Zenon
<1>4. ASSUME upsertOutput PROVE Fine
  BY <1>1, <1>4, OutputWrite, Zenon DEF i, upsertOutput
<1>5. ASSUME upsertBasket PROVE Fine
  <2>1. Write(i) /\ utxo' = utxo /\ Kind[i.row] = "basket"
    BY <1>5, Zenon DEF i, upsertBasket, UpsertOutputBasketForSync, upserts
  <2>2. Kind[i.row] \notin Guarded
    BY <2>1, Zenon DEF Guarded
  <2> QED BY <1>1, <2>1, <2>2, WriteRow, Zenon DEF Write
<1>6. ASSUME NEW e \in {"label", "tag"}, NEW map, upsertName(e, map) PROVE Fine
  <2>1. utxo' = utxo /\ Kind[i.row] \notin Guarded
    BY <1>6, Zenon DEF i, upsertName, upserts, Guarded
  <2>2. CASE Write(i)
    BY <1>1, <2>1, <2>2, WriteRow, Zenon DEF Write
  <2>3. CASE DeleteNameForSync(i, map)
    BY <2>1, <2>3, DeleteRows, Zenon DEF DeleteNameForSync
  <2> QED BY <1>6, <2>2, <2>3, Zenon DEF i, upsertName, UpsertNameForSync
<1>7. ASSUME NEW e \in {"labelMap", "tagMap"}, upsertMap(e) PROVE Fine
  <2>1. utxo' = utxo /\ Kind[i.row] \notin Guarded
    BY <1>7, Zenon DEF i, upsertMap, upserts, Guarded
  <2>2. CASE Write(i)
    BY <1>1, <2>1, <2>2, WriteRow, Zenon DEF Write
  <2>3. CASE DeleteMapForSync(i)
    <3>1. CASE Mappable(i) /\ dst[i.row].created > 0
      <4>1. dst' = [dst EXCEPT ![i.row].deleted = clock] /\ dst[i.row].deleted = 0
        BY <2>3, <3>1, Zenon DEF DeleteMapForSync, Mappable
      <4> QED BY <1>0, <2>1, <3>1, <4>1, DeleteOneRow, Zenon DEF i
    <3>2. CASE ~(Mappable(i) /\ dst[i.row].created > 0)
      <4>1. dst' = dst
        BY <2>3, <3>2, Zenon DEF DeleteMapForSync
      <4>2. \A r \in world : dst[r].ver \in Nat
        BY Zenon DEF SyncInv, WriterOK, StoredRow
      <4> QED BY <2>1, <4>1, <4>2 DEF SyncInv, Forward
    <3> QED BY <3>1, <3>2, Zenon
  <2> QED BY <1>7, <2>2, <2>3, Zenon DEF i, upsertMap, UpsertMapForSync
<1>8. Fine
  <2> HIDE DEF Fine
  <2>1. "label" \in {"label", "tag"} /\ "tag" \in {"label", "tag"}
        /\ "labelMap" \in {"labelMap", "tagMap"} /\ "tagMap" \in {"labelMap", "tagMap"}
    BY Zenon
  <2> QED BY <1>3, <1>4, <1>5, <1>6, <1>7, <2>1, Zenon DEF Upsert, upsertLabel, upsertTag,
             upsertLabelMap, upsertTagMap
<1>9. SyncInv'
  BY <1>1, <1>2, <1>8, InvFromParts, Zenon DEF SyncInv
<1> QED BY <1>8, <1>9, Zenon

\* A page query reads items that are stored.
LEMMA QueryReads ==
  ASSUME SyncInv, Query
  PROVE  SyncInv' /\ dst' = dst
<1>1. UNCHANGED <<world, src, clock, dst, utxo>>
  BY Zenon DEF Query, local, writer
<1> DEFINE limit == MaxItems - Len(chunk)
<1>2. PICK found \in Paginate(FindForSync(Chunkers[at]), offset, limit) :
        chunk' = chunk \o [k \in DOMAIN found |-> Item(found[k])]
  BY Zenon DEF Query
<1> DEFINE listed == FindForSync(Chunkers[at])
           page == {r \in listed : Before(listed, r) \in offset..offset + limit - 1}
           more == [k \in DOMAIN found |-> Item(found[k])]
<1>3. found \in [1..Cardinality(page) -> page]
  BY <1>2, Zenon DEF Paginate
<1>4. listed \subseteq {r \in world : src[r].created > 0}
  BY Zenon DEF FindForSync, FindBasketsForSync, FindKnownTxsForSync, FindTransactionsForSync,
     FindOutputsForSync, FindNames, FindMaps, FindCertificatesForSync,
     FindCertificateFieldsForSync, FindCommissionsForSync, Stored
<1>5. Cardinality(page) \in Nat
  BY <1>4, WorldRows, FS_Subset, FS_CardinalityType, Zenon
<1> HIDE DEF listed, page, limit
<1>6. ASSUME NEW r \in listed PROVE Item(r) \in SentItem /\ Current(Item(r), clock)
  <2>1. src[r] \in StoredRow /\ Current(src[r], clock) /\ src[r].created > 0 /\ r \in world
    BY <1>4, Zenon DEF SyncInv, ReaderOK
  <2> QED BY <2>1 DEF Item, SentItem, StoredRow, Current
<1>7. more \in Seq(SentItem) /\ Len(more) = Cardinality(page)
      /\ \A k \in 1..Cardinality(page) : Current(more[k], clock)
  <2>1. \A k \in 1..Cardinality(page) : found[k] \in listed
    BY <1>3, Zenon DEF page
  <2>2. more = [k \in 1..Cardinality(page) |-> Item(found[k])]
    BY <1>3, Zenon
  <2> HIDE DEF more
  <2>3. \A k \in 1..Cardinality(page) : more[k] = Item(found[k])
    BY <2>2, Zenon
  <2>4. more \in [1..Cardinality(page) -> SentItem]
    BY <1>6, <2>1, <2>2, Zenon
  <2> QED BY <1>5, <1>6, <2>1, <2>3, <2>4
<1> HIDE DEF more
<1>8. chunk' = chunk \o more
  BY <1>2, Zenon DEF more
<1>9. ReaderOK(src, chunk \o more, clock)
  <2>1. chunk \in Seq(SentItem) /\ \A k \in 1..Len(chunk) : Current(chunk[k], clock)
    BY Zenon DEF SyncInv, ReaderOK
  <2>2. chunk \o more \in Seq(SentItem)
    BY <1>7, <2>1
  <2>3. \A k \in 1..Len(chunk \o more) : Current((chunk \o more)[k], clock)
    <3> TAKE k \in 1..Len(chunk \o more)
    <3>1. CASE k <= Len(chunk)
      <4>1. (chunk \o more)[k] = chunk[k] /\ k \in 1..Len(chunk)
        BY <1>7, <2>1, <3>1
      <4> QED BY <2>1, <4>1, Zenon
    <3>2. CASE k > Len(chunk)
      <4>1. (chunk \o more)[k] = more[k - Len(chunk)] /\ k - Len(chunk) \in 1..Len(more)
        BY <1>7, <2>1, <3>2
      <4> QED BY <1>7, <4>1, Zenon
    <3> QED BY <2>1, <3>1, <3>2
  <2> QED BY <2>2, <2>3, Zenon DEF SyncInv, ReaderOK
<1>10. SyncInv'
  BY <1>1, <1>8, <1>9, InvFromParts, Zenon DEF SyncInv
<1> QED BY <1>1, <1>10, Zenon

\* The local writes, of either store.
LEMMA LocalForward ==
  ASSUME SyncInv, LocalStep
  PROVE  SyncInv' /\ Forward(dst')
<1>c. clock \in Nat /\ clock + 1 \in Nat /\ WriterOK(dst, utxo, clock) /\ ReaderOK(src, chunk, clock)
  BY DEF SyncInv
<1>n. WriterOK(dst, utxo, clock + 1) /\ ReaderOK(src, chunk, clock + 1)
  BY <1>c, ClockMoves, Zenon
<1>f. Forward(dst)
  <2>1. \A r \in world : dst[r].ver \in Nat
    BY Zenon DEF SyncInv, WriterOK, StoredRow
  <2> QED BY <2>1 DEF Forward
<1> DEFINE Moved(r) ==
             \/ src'[r].updated = src[r].updated /\ src'[r].ver = src[r].ver
             \/ src'[r].updated <= src'[r].ver /\ src'[r].ver = clock + 1
<1>1. ASSUME ReaderWrites, src' \in [world -> StoredRow],
             \A r \in world : Moved(r)
      PROVE  SyncInv' /\ Forward(dst')
  <2>1. UNCHANGED <<world, dst, utxo, chunk>> /\ clock' = clock + 1
    BY <1>1, Zenon DEF ReaderWrites, writer
  <2>2. \A r \in world : Current(src'[r], clock + 1)
    <3> TAKE r \in world
    <3>1. Current(src[r], clock + 1) /\ Moved(r)
      BY <1>1, <1>n, Zenon DEF ReaderOK
    <3> QED BY <1>c, <3>1 DEF Current
  <2>3. ReaderOK(src', chunk, clock + 1)
    BY <1>1, <1>n, <2>2, Zenon DEF ReaderOK
  <2>4. SyncInv'
    BY <1>c, <1>n, <2>1, <2>3, InvFromParts, Zenon
  <2> QED BY <1>f, <2>1, <2>4, Zenon
<1>s. src \in [world -> StoredRow] /\ \A r \in world : src[r] \in StoredRow
  BY Zenon DEF SyncInv, ReaderOK
<1>2. ASSUME NEW new \in SUBSET world, Store(new)
      PROVE  ReaderWrites /\ src' \in [world -> StoredRow]
             /\ \A r \in world : Moved(r)
  <2>1. PICK live \in BOOLEAN :
          src' = [r \in world |->
                   IF r \in new
                   THEN [created |-> clock + 1, updated |-> clock + 1, ver |-> clock + 1,
                         deleted |-> 0, live |-> live /\ Kind[r] = "output", spent |-> FALSE]
                   ELSE src[r]]
    BY <1>2, Zenon DEF Store
  <2>2. \A r \in world : [created |-> clock + 1, updated |-> clock + 1, ver |-> clock + 1,
                         deleted |-> 0, live |-> live /\ Kind[r] = "output", spent |-> FALSE] \in StoredRow
    BY <1>c, Zenon DEF StoredRow
  <2>i. clock + 1 <= clock + 1
    BY <1>c
  <2>3. src' \in [world -> StoredRow]
    BY <1>s, <2>1, <2>2, Zenon
  <2>4. \A r \in world : Moved(r)
    BY <2>1, <2>i, Zenon
  <2> QED BY <1>2, <2>3, <2>4, Zenon DEF Store
<1>3. ASSUME NEW r \in world,
             Touch(r) \/ UpdateInPlace(r) \/ MakeSpendable(r) \/ Spend(r) \/ DeleteCertificate(r)
      PROVE  ReaderWrites /\ src' \in [world -> StoredRow]
             /\ \A q \in world : Moved(q)
  <2>1. ReaderWrites
    BY <1>3, Zenon DEF Touch, UpdateInPlace, MakeSpendable, Spend, DeleteCertificate
  <2>i. clock + 1 <= clock + 1 /\ src[r].updated <= clock + 1
    BY <1>c, <1>s DEF ReaderOK, Current, StoredRow
  <2>2. PICK v \in StoredRow : /\ v.updated <= v.ver /\ v.ver = clock + 1
                              /\ src' = [src EXCEPT ![r] = v]
    <3>1. CASE Touch(r)
      <4> DEFINE v == [src[r] EXCEPT !.updated = clock + 1, !.ver = clock + 1]
      <4>1. v \in StoredRow /\ v.updated = clock + 1 /\ v.ver = clock + 1
        BY <1>c, <1>s, Zenon DEF StoredRow
      <4>2. src' = [src EXCEPT ![r] = v]
        BY <1>s, <3>1, Zenon DEF Touch
      <4> QED BY <2>i, <4>1, <4>2, Zenon
    <3>2. CASE UpdateInPlace(r)
      <4> DEFINE v == [src[r] EXCEPT !.ver = clock + 1]
      <4>1. v \in StoredRow /\ v.updated = src[r].updated /\ v.ver = clock + 1
        BY <1>c, <1>s, Zenon DEF StoredRow
      <4>2. src' = [src EXCEPT ![r] = v]
        BY <1>s, <3>2, Zenon DEF UpdateInPlace
      <4> QED BY <2>i, <4>1, <4>2, Zenon
    <3>3. CASE MakeSpendable(r)
      <4> DEFINE v == [src[r] EXCEPT !.live = TRUE, !.updated = clock + 1, !.ver = clock + 1]
      <4>1. v \in StoredRow /\ v.updated = clock + 1 /\ v.ver = clock + 1
        BY <1>c, <1>s, Zenon DEF StoredRow
      <4>2. src' = [src EXCEPT ![r] = v]
        BY <1>s, <3>3, Zenon DEF MakeSpendable
      <4> QED BY <2>i, <4>1, <4>2, Zenon
    <3>4. CASE Spend(r)
      <4> DEFINE v == [src[r] EXCEPT !.live = FALSE, !.spent = TRUE, !.updated = clock + 1, !.ver = clock + 1]
      <4>1. v \in StoredRow /\ v.updated = clock + 1 /\ v.ver = clock + 1
        BY <1>c, <1>s, Zenon DEF StoredRow
      <4>2. src' = [src EXCEPT ![r] = v]
        BY <1>s, <3>4, Zenon DEF Spend
      <4> QED BY <2>i, <4>1, <4>2, Zenon
    <3>5. CASE DeleteCertificate(r)
      <4> DEFINE v == [src[r] EXCEPT !.deleted = clock + 1, !.updated = clock + 1, !.ver = clock + 1]
      <4>1. v \in StoredRow /\ v.updated = clock + 1 /\ v.ver = clock + 1
        BY <1>c, <1>s, Zenon DEF StoredRow
      <4>2. src' = [src EXCEPT ![r] = v]
        BY <1>s, <3>5, Zenon DEF DeleteCertificate
      <4> QED BY <2>i, <4>1, <4>2, Zenon
    <3> QED BY <1>3, <3>1, <3>2, <3>3, <3>4, <3>5, Zenon
  <2>3. src' \in [world -> StoredRow] /\ \A q \in world : Moved(q)
    BY <1>s, <2>2, Zenon
  <2> QED BY <2>1, <2>3, Zenon
<1>4. ASSUME NEW r \in world, ReplaceTags(r)
      PROVE  ReaderWrites /\ src' \in [world -> StoredRow]
             /\ \A q \in world : Moved(q)
  <2>1. \A q \in world :
          /\ [src[q] EXCEPT !.deleted = clock + 1] \in StoredRow
          /\ [src[q] EXCEPT !.deleted = clock + 1].updated = src[q].updated
          /\ [src[q] EXCEPT !.deleted = clock + 1].ver = src[q].ver
          /\ [src[q] EXCEPT !.updated = clock + 1, !.ver = clock + 1] \in StoredRow
          /\ [src[q] EXCEPT !.updated = clock + 1, !.ver = clock + 1].updated = clock + 1
          /\ [src[q] EXCEPT !.updated = clock + 1, !.ver = clock + 1].ver = clock + 1
    BY <1>c, <1>s, Zenon DEF StoredRow
  <2>i. clock + 1 <= clock + 1
    BY <1>c
  <2>2. src' = [q \in world |->
               IF q = r THEN [src[q] EXCEPT !.deleted = clock + 1]
               ELSE IF q \in Refs[r] /\ Kind[q] = "output"
                    THEN [src[q] EXCEPT !.updated = clock + 1, !.ver = clock + 1] ELSE src[q]]
        /\ ReaderWrites
    BY <1>4, Zenon DEF ReplaceTags
  <2>3. src' \in [world -> StoredRow]
    BY <1>s, <2>1, <2>2, Zenon
  <2>4. \A q \in world : Moved(q)
    BY <2>1, <2>2, <2>i, Zenon
  <2> QED BY <2>2, <2>3, <2>4, Zenon
<1>5. ASSUME UpdateUser
      PROVE  ReaderWrites /\ src' \in [world -> StoredRow]
             /\ \A q \in world : Moved(q)
  BY <1>5, <1>s, Zenon DEF UpdateUser
<1>6. ASSUME NEW r \in world, NEW v \in StoredRow, dst' = [dst EXCEPT ![r] = v],
             v.ver = clock + 1, v.created = dst[r].created, dst[r].created # 0,
             clock' = clock + 1, UNCHANGED <<world, src, chunk>>,
             utxo' \in [world -> {"none", "free", "reserved"}],
             \A q \in world : utxo'[q] = "free" => utxo[q] = "free"
      PROVE  SyncInv' /\ Forward(dst')
  <2>1. dst \in [world -> StoredRow] /\ \A q \in world : dst[q].ver \in Nat /\ dst[q].ver <= clock
    BY Zenon DEF SyncInv, WriterOK, StoredRow
  <2>2. /\ dst' \in [world -> StoredRow] /\ dst'[r] = v
        /\ \A q \in world : q # r => dst'[q] = dst[q]
    BY <1>6, <2>1, Zenon
  <2>3. \A q \in world : dst'[q].ver <= clock + 1 /\ dst'[q].ver >= dst[q].ver
    BY <1>6, <1>c, <2>1, <2>2
  <2>4. \A q \in world : dst'[q].created = 0 => dst'[q].ver = 0 /\ utxo'[q] # "free"
    BY <1>6, <2>2, Zenon DEF SyncInv, WriterOK
  <2>5. WriterOK(dst', utxo', clock + 1)
    BY <1>6, <2>2, <2>3, <2>4, Zenon DEF WriterOK
  <2>6. SyncInv'
    BY <1>6, <1>c, <1>n, <2>5, InvFromParts, Zenon
  <2> QED BY <2>3, <2>6, Zenon DEF Forward
<1>w. dst \in [world -> StoredRow] /\ utxo \in [world -> {"none", "free", "reserved"}]
      /\ \A q \in world : dst[q] \in StoredRow /\ (utxo[q] = "free" => dst[q].created # 0)
  BY Zenon DEF SyncInv, WriterOK
<1>7. ASSUME NEW r \in world, FundFromWriter(r)
      PROVE  SyncInv' /\ Forward(dst')
  <2> DEFINE v == [dst[r] EXCEPT !.live = FALSE, !.spent = TRUE, !.updated = clock + 1,
                                 !.ver = clock + 1]
  <2>1. /\ clock' = clock + 1 /\ utxo[r] = "free" /\ utxo' = [utxo EXCEPT ![r] = "reserved"]
        /\ UNCHANGED <<world, src, chunk>>
    BY <1>7, Zenon DEF FundFromWriter, syncing
  <2>2. v \in StoredRow /\ v.ver = clock + 1 /\ v.created = dst[r].created
    BY <1>c, <1>w, Zenon DEF StoredRow
  <2>3. dst' = [dst EXCEPT ![r] = v]
    BY <1>7, <1>w, Zenon DEF FundFromWriter
  <2> HIDE DEF v
  <2>4. utxo' \in [world -> {"none", "free", "reserved"}]
        /\ \A q \in world : utxo'[q] = "free" => utxo[q] = "free"
    BY <1>w, <2>1, Zenon
  <2> QED BY <1>6, <1>w, <2>1, <2>2, <2>3, <2>4, Zenon
<1>8. ASSUME NEW r \in world, UpdateInPlaceOnWriter(r)
      PROVE  SyncInv' /\ Forward(dst')
  <2> DEFINE v == [dst[r] EXCEPT !.ver = clock + 1]
  <2>1. /\ clock' = clock + 1 /\ utxo' = utxo /\ dst[r].created > 0
        /\ UNCHANGED <<world, src, chunk>>
    BY <1>8, Zenon DEF UpdateInPlaceOnWriter, syncing
  <2>2. v \in StoredRow /\ v.ver = clock + 1 /\ v.created = dst[r].created
    BY <1>c, <1>w, Zenon DEF StoredRow
  <2>3. dst' = [dst EXCEPT ![r] = v]
    BY <1>8, <1>w, Zenon DEF UpdateInPlaceOnWriter
  <2> HIDE DEF v
  <2>4. dst[r].created # 0
    BY <1>w, <2>1 DEF StoredRow
  <2> QED BY <1>6, <1>w, <2>1, <2>2, <2>3, <2>4, Zenon
<1> DEFINE Fine == SyncInv' /\ Forward(dst')
<1> HIDE DEF Fine, Moved
<1>9. ASSUME \/ \E new \in SUBSET world : Store(new)
             \/ \E r \in world : \/ Touch(r) \/ UpdateInPlace(r) \/ MakeSpendable(r) \/ Spend(r)
                                 \/ ReplaceTags(r) \/ DeleteCertificate(r)
             \/ UpdateUser
      PROVE  Fine
  BY <1>1, <1>2, <1>3, <1>4, <1>5, <1>9, Zenon DEF Fine
<1>10. Fine
  BY <1>7, <1>8, <1>9, Zenon DEF LocalStep, Fine
<1> QED BY <1>10, Zenon DEF Fine

\* SyncInv holds throughout, and no step takes a guarded row back.
LEMMA SyncForward ==
  ASSUME SyncInv, [SyncNext]_syncVars
  PROVE  SyncInv' /\ Forward(dst')
<1>f. Forward(dst)
  <2>1. \A r \in world : dst[r].ver \in Nat
    BY Zenon DEF SyncInv, WriterOK, StoredRow
  <2> QED BY <2>1 DEF Forward
<1>1. ASSUME UNCHANGED <<world, src, clock, dst, utxo>>, chunk' = chunk \/ chunk' = <<>>
      PROVE  SyncInv' /\ Forward(dst')
  <2>1. ReaderOK(src, chunk, clock) /\ WriterOK(dst, utxo, clock) /\ clock \in Nat
    BY Zenon DEF SyncInv
  <2>2. ReaderOK(src, <<>>, clock)
    BY <2>1 DEF ReaderOK
  <2>3. ReaderOK(src', chunk', clock') /\ WriterOK(dst', utxo', clock')
    BY <1>1, <2>1, <2>2, Zenon
  <2> QED BY <1>1, <1>f, <2>1, <2>3, InvFromParts, Zenon
<1>2. CASE Start \/ Request \/ Process \/ SaveState \/ Refuse \/ Interrupt \/ UNCHANGED syncVars
  <2>1. UNCHANGED <<world, src, clock, dst, utxo>>
    BY <1>2, Zenon DEF Start, Request, Process, SaveState, Refuse, Interrupt, Fail, syncVars, local, writer
  <2>2. chunk' = chunk \/ chunk' = <<>>
    BY <1>2, Zenon DEF Start, Request, Process, SaveState, Refuse, Interrupt, Fail, Forget, ForgetRound,
       NextRound, syncVars, syncing
  <2> QED BY <1>1, <2>1, <2>2, Zenon
<1>3. CASE Query
  BY <1>3, <1>f, QueryReads, Zenon
<1>4. CASE Upsert
  BY <1>4, UpsertForward, Zenon
<1>5. CASE LocalStep
  BY <1>5, LocalForward, Zenon
<1> QED BY <1>2, <1>3, <1>4, <1>5, Zenon DEF SyncNext, SyncStep

\* Nothing is stored and nothing was read when a behaviour begins.
LEMMA SyncStart == SyncInit => SyncInv
<1> SUFFICES ASSUME SyncInit PROVE SyncInv
  BY Zenon
<1>1. Absent \in StoredRow /\ Absent.updated = 0 /\ Absent.ver = 0 /\ Absent.created = 0
  BY Zenon DEF Absent, StoredRow
<1>2. WriterOK(dst, utxo, clock)
  BY <1>1 DEF SyncInit, WriterOK
<1>3. ReaderOK(src, chunk, clock)
  BY <1>1 DEF SyncInit, ReaderOK, Current
<1> QED BY <1>2, <1>3, Zenon DEF SyncInit, SyncInv

\* The stale-chunk guard of the upserts: a chunk never replaces the content of a guarded
\* row that the writer's updated_at tells of by older content, for any rows, references,
\* chunk size and interleaving of local writes, those in place included, however often
\* a Sync is cut off and begun again.
THEOREM StaleChunksLose == SyncSpec => NeverBackToOlder
<1>1. SyncInv /\ [SyncNext]_syncVars => SyncInv'
  BY SyncForward, Zenon
<1>2. SyncInv /\ [SyncNext]_syncVars
        => [\A r \in world : Kind[r] \in Guarded /\ Dated(r) => dst'[r].ver >= dst[r].ver]_syncVars
  BY SyncForward, Zenon DEF Forward
<1> QED BY <1>1, <1>2, SyncStart, PTL DEF SyncSpec, NeverBackToOlder

-----------------------------------------------------------------------------
(* The lease: at most one instance runs the job, for every lease, skew and   *)
(* budget with MaxHold + Skew < TTL.                                         *)

\* The lease of a runner is its own, and runs out TTL after it read the clock; the
\* row is there from the first insert on.
RunnerHoldsLease ==
  \A i \in Instances :
    /\ phase[i] \in {"claim", "run"} => exists
    /\ phase[i] = "run" => leaseOwner = i /\ left = LeaseUntil(i)

LeaseInv == LeaseTypeOK /\ RunnerHoldsLease

\* While an instance runs, no clock that another one may have read for its claim
\* is past the lease: the conditional update of Lock matches no row.
LEMMA RunnerKeepsOthersOut ==
  ASSUME LeaseInv, NEW i \in Instances, NEW j \in Instances, i # j, phase[i] = "run"
  PROVE  ~MayClaim(j)
<1>1. leaseOwner = i /\ left = TTL + ahead[i] - age[i]
  BY Zenon DEF LeaseInv, RunnerHoldsLease, LeaseUntil
<1>2. /\ ahead[i] \in 0..Skew /\ ahead[j] \in 0..Skew
      /\ age[i] \in 0..MaxHold /\ age[j] \in 0..MaxHold
  BY Zenon DEF LeaseInv, LeaseTypeOK
<1>3. left >= TTL - MaxHold /\ ahead[j] - age[j] <= Skew
  BY <1>1, <1>2, LeaseAssumption
<1> QED
  BY <1>1, <1>2, <1>3, LeaseAssumption DEF MayClaim

\* Every new instance starts without a run.
LEMMA LeaseInitial == LeaseInit => LeaseInv
<1> SUFFICES ASSUME LeaseInit PROVE LeaseInv
  BY Zenon
<1>1. LongAgo \in LongAgo..TTL + Skew
  BY LeaseAssumption DEF LongAgo
<1>2. LeaseTypeOK
  <2>1. /\ phase \in [Instances -> {"idle", "insert", "claim", "run", "unlock", "down"}]
        /\ age \in [Instances -> 0..MaxHold] /\ crashes \in 0..MaxCrashes
    BY LeaseAssumption DEF LeaseInit
  <2> QED
    BY <1>1, <2>1, Zenon DEF LeaseInit, LeaseTypeOK
<1> QED
  BY <1>2, Zenon DEF LeaseInit, LeaseInv, RunnerHoldsLease

\* Every statement of Lock and Unlock, every crash and the passing of time keep
\* the runner's lease.
LEMMA LeaseStep == LeaseInv /\ [LeaseNext]_leaseVars => LeaseInv'
<1> SUFFICES ASSUME LeaseInv, [LeaseNext]_leaseVars PROVE LeaseInv'
  BY Zenon
<1>t. LeaseTypeOK
  BY Zenon DEF LeaseInv
<1>r. RunnerHoldsLease
  BY Zenon DEF LeaseInv
<1>u. \A k \in Instances : LeaseUntil(k) \in LongAgo..TTL + Skew
  BY <1>t, LeaseAssumption DEF LeaseUntil, LeaseTypeOK, LongAgo
<1>1. CASE LeaseTick
  <2>1. LeaseTypeOK'
    BY <1>1, <1>t, LeaseAssumption DEF LeaseTick, LeaseTypeOK, LongAgo
  <2>2. ASSUME NEW k \in Instances, phase'[k] = "run"
        PROVE  leaseOwner' = k /\ left' = LeaseUntil(k)'
    <3>1. phase[k] = "run" /\ leaseOwner = k /\ left = TTL + ahead[k] - age[k]
      BY <1>1, <1>r, <2>2, Zenon DEF LeaseTick, RunnerHoldsLease, LeaseUntil
    <3>2. ahead[k] \in 0..Skew /\ age[k] \in 0..MaxHold
      BY <1>t, Zenon DEF LeaseTypeOK
    <3>3. left > LongAgo
      BY <3>1, <3>2, LeaseAssumption DEF LongAgo
    <3>4. left' = left - 1 /\ age'[k] = age[k] + 1
      BY <1>1, <3>1, <3>3, Zenon DEF LeaseTick, Holding
    <3>5. ahead'[k] = ahead[k] /\ leaseOwner' = k
      BY <1>1, <3>1, Zenon DEF LeaseTick
    <3> QED
      BY <3>1, <3>2, <3>4, <3>5, LeaseAssumption DEF LeaseUntil
  <2>3. \A k \in Instances : phase'[k] \in {"claim", "run"} => exists'
    BY <1>1, <1>r, Zenon DEF LeaseTick, RunnerHoldsLease
  <2> QED
    BY <2>1, <2>2, <2>3, Zenon DEF LeaseInv, RunnerHoldsLease
<1>2. ASSUME NEW i \in Instances, Due(i) PROVE LeaseInv'
  <2>1. LeaseTypeOK'
    BY <1>2, <1>t, Zenon DEF Due, To, Holding, LeaseTypeOK
  <2>2. RunnerHoldsLease'
    BY <1>2, <1>t, <1>r, Zenon DEF Due, To, Holding, RunnerHoldsLease, LeaseUntil, LeaseTypeOK
  <2> QED
    BY <2>1, <2>2, Zenon DEF LeaseInv
<1>3. ASSUME NEW i \in Instances, EnsureRow(i) PROVE LeaseInv'
  <2>1. LeaseTypeOK'
    BY <1>3, <1>t, <1>u, Zenon DEF EnsureRow, To, Holding, LeaseTypeOK
  <2>2. RunnerHoldsLease'
    BY <1>3, <1>t, <1>r, Zenon DEF EnsureRow, To, Holding, RunnerHoldsLease, LeaseUntil, LeaseTypeOK
  <2> QED
    BY <2>1, <2>2, Zenon DEF LeaseInv
<1>4. ASSUME NEW i \in Instances, Claim(i) PROVE LeaseInv'
  <2>1. LeaseTypeOK'
    <3>1. left' \in LongAgo..TTL + Skew /\ leaseOwner' \in Instances \cup {Nobody}
      BY <1>4, <1>t, <1>u, Zenon DEF Claim, LeaseTypeOK
    <3>2. /\ phase' \in [Instances -> {"idle", "insert", "claim", "run", "unlock", "down"}]
          /\ age' \in [Instances -> 0..MaxHold]
      BY <1>4, <1>t, LeaseAssumption DEF Claim, To, LeaseTypeOK
    <3> QED
      BY <1>4, <1>t, <3>1, <3>2, Zenon DEF Claim, LeaseTypeOK
  <2>2. ASSUME NEW k \in Instances, phase'[k] = "run"
        PROVE  leaseOwner' = k /\ left' = LeaseUntil(k)'
    <3>1. ahead' = ahead
      BY <1>4, Zenon DEF Claim
    <3>2. CASE k = i
      <4>1. MayClaim(i) /\ leaseOwner' = i /\ left' = LeaseUntil(i) /\ age' = age
        BY <1>4, <1>t, <2>2, <3>2, Zenon DEF Claim, To, Holding, LeaseTypeOK
      <4> QED
        BY <3>1, <3>2, <4>1, Zenon DEF LeaseUntil
    <3>3. CASE k # i
      <4>1. phase[k] = "run" /\ age'[k] = age[k]
        BY <1>4, <1>t, <2>2, <3>3, Zenon DEF Claim, To, LeaseTypeOK
      <4>2. ~MayClaim(i)
        BY <3>3, <4>1, RunnerKeepsOthersOut, Zenon
      <4>3. leaseOwner' = leaseOwner /\ left' = left
        BY <1>4, <4>2, Zenon DEF Claim
      <4> QED
        BY <1>r, <3>1, <4>1, <4>3, Zenon DEF RunnerHoldsLease, LeaseUntil
    <3> QED
      BY <3>2, <3>3, Zenon
  <2>3. \A k \in Instances : phase'[k] \in {"claim", "run"} => exists'
    BY <1>4, <1>t, <1>r, Zenon DEF Claim, To, RunnerHoldsLease, LeaseTypeOK
  <2> QED
    BY <2>1, <2>2, <2>3, Zenon DEF LeaseInv, RunnerHoldsLease
<1>5. ASSUME NEW i \in Instances, LockFails(i) \/ Finish(i) \/ InstanceRestart(i) PROVE LeaseInv'
  <2>1. LeaseTypeOK'
    BY <1>5, <1>t, LeaseAssumption DEF LockFails, Finish, InstanceRestart, To, Holding,
       LeaseTypeOK
  <2>2. RunnerHoldsLease'
    BY <1>5, <1>t, <1>r, Zenon
    DEF LockFails, Finish, InstanceRestart, To, Holding, RunnerHoldsLease, LeaseUntil, LeaseTypeOK
  <2> QED
    BY <2>1, <2>2, Zenon DEF LeaseInv
<1>6. ASSUME NEW i \in Instances, Unlock(i) PROVE LeaseInv'
  <2>1. ahead[i] \in LongAgo..TTL + Skew
    BY <1>t, LeaseAssumption DEF LeaseTypeOK, LongAgo
  <2>2. LeaseTypeOK'
    BY <1>6, <1>t, <2>1, LeaseAssumption DEF Unlock, To, Holding, LeaseTypeOK
  <2>3. RunnerHoldsLease'
    BY <1>6, <1>t, <1>r, Zenon DEF Unlock, To, Holding, RunnerHoldsLease, LeaseUntil, LeaseTypeOK
  <2> QED
    BY <2>2, <2>3, Zenon DEF LeaseInv
<1>7. ASSUME NEW i \in Instances, Crash(i) PROVE LeaseInv'
  <2>1. LeaseTypeOK'
    BY <1>7, <1>t, LeaseAssumption DEF Crash, To, Holding, LeaseTypeOK
  <2>2. RunnerHoldsLease'
    BY <1>7, <1>t, <1>r, Zenon DEF Crash, To, Holding, RunnerHoldsLease, LeaseUntil, LeaseTypeOK
  <2> QED
    BY <2>1, <2>2, Zenon DEF LeaseInv
<1>8. CASE UNCHANGED leaseVars
  BY <1>8, <1>t, <1>r, Zenon
  DEF leaseVars, LeaseInv, LeaseTypeOK, RunnerHoldsLease, LeaseUntil
<1> QED
  BY <1>1, <1>2, <1>3, <1>4, <1>5, <1>6, <1>7, <1>8, Zenon DEF LeaseNext

\* Exactly one instance runs a job at a time (LeaseLocker): never two, whatever
\* the clocks, the failures and the order of the statements.
THEOREM Exclusion == LeaseSpec => []OneRunner
<1>1. LeaseInv => OneRunner
  BY Zenon DEF LeaseInv, RunnerHoldsLease, OneRunner
<1> QED
  BY <1>1, LeaseInitial, LeaseStep, PTL DEF LeaseSpec

=============================================================================
