---------------------------- MODULE StorageSafety ---------------------------
(***************************************************************************)
(* The storage manager: loading, adding, backing up and writing to stores, *)
(* and SetActive step by step, for every number of stores, writes,         *)
(* failures and restarts.                                                  *)
(***************************************************************************)
EXTENDS StorageManager, FiniteSetTheorems, WellFoundedInduction, TLAPS

-----------------------------------------------------------------------------
(* The operators the manager is built from.                                *)

\* Every set of naturals that is not empty has a least member.
LEMMA Least ==
  ASSUME NEW S \in SUBSET Nat, S # {}
  PROVE  \E m \in S : \A k \in S : m <= k
<1> DEFINE Less == {p \in Nat \X Nat : p[1] < p[2]}
<1>1. IsWellFoundedOn(Less, Nat)
  BY NatLessThanWellFounded DEF OpToRel
<1>2. \A x, y \in Nat : ~(<<y, x>> \in Less) => x <= y
  OBVIOUS
<1> HIDE DEF Less
<1>3. \E x \in S : \A y \in S : ~(<<y, x>> \in Less)
  BY <1>1, WFMin, Zenon
<1> QED  BY <1>2, <1>3, Zenon

\* Latest of a bounded set of naturals is its greatest member.
LEMMA LatestIsGreatest ==
  ASSUME NEW n \in Nat, NEW S \in SUBSET (0..n), S # {}
  PROVE  Latest(S) \in S /\ \A k \in S : k <= Latest(S)
<1> DEFINE T == {t \in Nat : n - t \in S}
<1>1. \A k \in S : n - k \in T /\ k \in Nat
  <2> TAKE k \in S
  <2>1. n - k \in Nat /\ n - (n - k) = k
    OBVIOUS
  <2> QED  BY <2>1
<1>2. T \in SUBSET Nat /\ T # {}
  BY <1>1, Zenon
<1>3. PICK t \in T : \A k \in T : t <= k
  BY <1>2, Least, Zenon
<1>4. n - t \in S /\ t \in Nat
  BY <1>3
<1> HIDE DEF T
<1>5. \A k \in S : k <= n - t
  BY <1>1, <1>3, <1>4
<1> QED  BY <1>4, <1>5, Zenon DEF Latest

\* An order of a finite set holds each of its members once.
LEMMA SeqsOf ==
  ASSUME NEW S, IsFiniteSet(S), NEW q \in Orders(S)
  PROVE  q \in Seq(S) /\ IsInjective(q) /\ Range(q) = S
<1> DEFINE D == 1..Cardinality(S)
<1>1. Cardinality(S) \in Nat /\ IsFiniteSet(D) /\ Cardinality(D) = Cardinality(S)
  BY FS_CardinalityType, FS_Interval
<1>2. q \in Injection(D, S)
  BY DEF Orders
<1>3. q \in [D -> S] /\ IsInjective(q)
  BY <1>2 DEF Injection
<1>4. q \in Seq(S)
  BY <1>1, <1>3
<1>5. q \in Surjection(D, S)
  BY <1>1, <1>2, FS_Injection, Zenon
<1>6. Range(q) = S
  BY <1>3, <1>5 DEF Surjection, Range
<1> QED  BY <1>3, <1>4, <1>6

\* The position of a member of an injective list is its index.
LEMMA PositionIs ==
  ASSUME NEW list \in Seq(Stores), IsInjective(list), NEW i \in 1..Len(list)
  PROVE  Position(list, list[i]) = i
<1>1. DOMAIN list = 1..Len(list) /\ \A j \in DOMAIN list : list[j] = list[i] => j = i
  BY DEF IsInjective
<1> QED  BY <1>1 DEF Position

\* The store that ends up active is one of the list.
LEMMA ActiveIsListed ==
  ASSUME NEW list \in Seq(Stores), list # <<>>, NEW n \in 0..Len(list), NEW loaded
  PROVE  ActiveAmong(list, n, loaded) \in Range(list)
<1> DEFINE claims == {i \in 2..n : loaded[list[i]] = list[i]}
<1>1. claims # {} => Latest(claims) \in claims
  <2>1. claims \in SUBSET (0..n) /\ n \in Nat
    OBVIOUS
  <2> QED  BY <2>1, LatestIsGreatest, Zenon
<1> DEFINE k == IF claims = {} THEN 1 ELSE Latest(claims)
<1>2. k \in 1..Len(list)
  BY <1>1
<1>3. ActiveAmong(list, n, loaded) = list[k]
  BY DEF ActiveAmong
<1> HIDE DEF k
<1> QED  BY <1>2, <1>3 DEF Range

\* When every store of the list names the same one of them, that one is active.
LEMMA ActiveIsNamed ==
  ASSUME NEW list \in Seq(Stores), IsInjective(list), NEW k \in Range(list), NEW loaded,
         \A s \in Range(list) : loaded[s] = k
  PROVE  ActiveAmong(list, Len(list), loaded) = k
<1> DEFINE claims == {i \in 2..Len(list) : loaded[list[i]] = list[i]}
<1>1. PICK i \in 1..Len(list) : list[i] = k
  BY DEF Range
<1>2. \A j \in 1..Len(list) : loaded[list[j]] = list[j] <=> j = i
  BY <1>1 DEF Range, IsInjective
<1>3. CASE i = 1
  <2>1. claims = {}
    BY <1>2, <1>3
  <2> QED  BY <1>1, <1>3, <2>1 DEF ActiveAmong
<1>4. CASE i # 1
  <2>1. claims = {i}
    BY <1>2, <1>4
  <2>2. Latest(claims) = i
    BY <2>1 DEF Latest
  <2> QED  BY <1>1, <2>1, <2>2 DEF ActiveAmong
<1> QED  BY <1>3, <1>4

-----------------------------------------------------------------------------
(* The inductive invariant.                                                *)

\* A user that a store knows is active somewhere, and what is loaded is known.
Known ==
  \A s \in Stores : /\ user[s].updated > 0 => user[s].active \in Stores
                    /\ cached[s] # NoStore => user[s].updated > 0

\* A row that any store has is on the store it was made on.
RowsAtHome == \A s \in Stores : \A f \in rows[s] : f \in rows[f.by]

\* A store has what another took on itself up to its watermark for that store, or a
\* cycle between the two was open when it was made.  It need not have what the other
\* merged late: those rows keep their old time.
Watermarked ==
  \A w, r \in Stores : \A f \in OwnRows(r) :
    f.at <= when[w][r] => f \in rows[w] \/ <<w, f>> \in late

\* While the source is pushed: the stores done name the target, the source's users
\* row is newer than anything in the stores to come, and the claimed rows are on
\* the target or will be pushed there.
PushOK ==
  /\ todo # <<>> /\ Len(todo) <= Len(stores)
  /\ \A i \in 1..Len(todo) : todo[i] = stores[Len(stores) - Len(todo) + i]
  /\ user[backupSource].active = target
  /\ \A i \in 1..(Len(stores) - Len(todo)) :
       user[stores[i]].active = target /\ cached[stores[i]] = target
  /\ \A s \in Range(todo) \ {backupSource} :
       user[s].updated < user[backupSource].updated /\ when[s][backupSource] < user[backupSource].updated
  /\ \A f \in claimed : f \in rows[target] \/ (f.by = backupSource /\ target \in Range(todo))

SwitchOK ==
  /\ \A f \in claimed : f \in rows[f.by]
  /\ step # "idle" => isAvailable /\ target \in Stores
  /\ step \in {"merge", "mark", "push"} =>
       /\ target \in Managed /\ backupSource \in Managed
       /\ \A f \in claimed : <<target, f>> \notin late
  /\ step = "merge" =>
       /\ backupSource = target
       /\ \A f \in claimed : f \in rows[target] \/ f.by \in Range(todo)
  /\ step = "mark" => \A f \in claimed : f \in rows[target] \/ f.by = backupSource
  /\ step = "push" => PushOK
  /\ result = "switched" => step = "idle"

StorageInv ==
  /\ ManagerTypeOK /\ Known /\ RowsAtHome /\ Watermarked /\ SwitchOK
  /\ SwitchedEverywhere /\ OwnRowsFollow

-----------------------------------------------------------------------------
(* MakeAvailable.                                                          *)

\* Loading stores adds users only, and what was loaded or known stays.
LEMMA LoadKeeps ==
  ASSUME ManagerTypeOK, Known, NEW list \in Seq(Stores), IsInjective(list),
         NEW n \in 0..Len(list), MakeStoresAvailable(list, n)
  PROVE  /\ time' \in 0..MaxTime /\ time <= time'
         /\ user' \in [Stores -> [active : Stores \cup {NoStore}, updated : 0..time']]
         /\ cached' \in [Stores -> Stores \cup {NoStore}]
         /\ Known'
         /\ \A i \in 1..n : cached'[list[i]] # NoStore
         /\ \A s \in Stores : cached[s] # NoStore => cached'[s] = cached[s]
         /\ \A s \in Stores : user[s].updated > 0 => user'[s] = user[s]
<1> DEFINE M == Missing(list, n)
           Upto(s) == {i \in M : i <= Position(list, s)}
<1>0. NoStore \notin Stores /\ MaxTime \in Nat
  BY ManagerAssumption
<1>1. /\ n \in Nat /\ \A i \in 1..n : list[i] \in Stores /\ i \in 1..Len(list)
      /\ time \in Nat /\ user \in [Stores -> [active : Stores \cup {NoStore}, updated : 0..time]]
      /\ cached \in [Stores -> Stores \cup {NoStore}]
  <2>1. n \in Nat /\ \A i \in 1..n : list[i] \in Stores /\ i \in 1..Len(list)
    OBVIOUS
  <2>2. /\ time \in 0..MaxTime /\ cached \in [Stores -> Stores \cup {NoStore}]
        /\ user \in [Stores -> [active : Stores \cup {NoStore}, updated : 0..time]]
    BY Zenon DEF ManagerTypeOK
  <2>3. time \in Nat
    BY <1>0, <2>2
  <2> QED  BY <2>1, <2>2, <2>3, Zenon
<1>2. M \in SUBSET (1..n) /\ IsFiniteSet(1..n)
  BY <1>1, FS_Interval DEF Missing
<1>3. IsFiniteSet(M) /\ Cardinality(M) \in Nat
  BY <1>2, FS_Subset, FS_CardinalityType
<1>4. \A s : Cardinality(Upto(s)) \in Nat /\ Cardinality(Upto(s)) <= Cardinality(M)
             /\ (Upto(s) # {} => Cardinality(Upto(s)) > 0)
  <2> TAKE s
  <2>1. Upto(s) \in SUBSET M
    OBVIOUS
  <2> HIDE DEF Upto, M
  <2>2. IsFiniteSet(Upto(s)) /\ Cardinality(Upto(s)) <= Cardinality(M)
    BY <1>3, <2>1, FS_Subset
  <2>3. Cardinality(Upto(s)) \in Nat
    BY <2>2, FS_CardinalityType
  <2>4. Upto(s) # {} => Cardinality(Upto(s)) # 0
    BY <2>2, FS_EmptySet
  <2> QED  BY <2>2, <2>3, <2>4
<1>5. \A i \in M : i \in Upto(list[i])
  <2> TAKE i \in M
  <2>1. i \in 1..Len(list) /\ i <= i
    BY <1>1, <1>2
  <2>2. Position(list, list[i]) = i
    BY <2>1, PositionIs
  <2> QED  BY <2>1, <2>2
<1>6. /\ time' = time + Cardinality(M) /\ time' <= MaxTime
      /\ \A s \in Stores :
           user'[s] = IF \E i \in M : list[i] = s
                      THEN [active |-> s, updated |-> time + Cardinality(Upto(s))]
                      ELSE user[s]
      /\ user' = [s \in Stores |-> user'[s]]
      /\ \A s \in Stores :
           cached'[s] = IF cached[s] = NoStore /\ \E i \in 1..n : list[i] = s
                        THEN user'[s].active ELSE cached[s]
      /\ cached' = [s \in Stores |-> cached'[s]]
  BY DEF MakeStoresAvailable
<1>7. \A i \in 1..n : i \in M <=> cached[list[i]] = NoStore /\ user[list[i]].updated = 0
  BY DEF Missing
<1> HIDE DEF M, Upto
<1>8. time' \in 0..MaxTime /\ time <= time'
  BY <1>0, <1>1, <1>3, <1>6
<1>9. ASSUME NEW s \in Stores
      PROVE  /\ user'[s] \in [active : Stores \cup {NoStore}, updated : 0..time']
             /\ user'[s].updated > 0 => user'[s].active \in Stores
             /\ user[s].updated > 0 => user'[s] = user[s]
  <2>1. CASE \E i \in M : list[i] = s
    <3>1. user'[s] = [active |-> s, updated |-> time + Cardinality(Upto(s))]
      BY <1>6, <2>1
    <3>2. time + Cardinality(Upto(s)) \in 0..time'
      BY <1>1, <1>3, <1>4, <1>6
    <3>3. user[s].updated = 0
      BY <1>2, <1>7, <2>1
    <3> QED  BY <3>1, <3>2, <3>3
  <2>2. CASE ~\E i \in M : list[i] = s
    <3>1. user'[s] = user[s]
      BY <1>6, <2>2
    <3>2. user[s] \in [active : Stores \cup {NoStore}, updated : 0..time]
      BY <1>1
    <3>3. 0..time \subseteq 0..time'
      BY <1>1, <1>8
    <3> QED  BY <3>1, <3>2, <3>3 DEF Known
  <2> QED  BY <2>1, <2>2
<1>10. ASSUME NEW i \in 1..n, cached[list[i]] = NoStore
       PROVE  user'[list[i]].updated > 0
  <2>1. list[i] \in Stores
    BY <1>1
  <2>2. CASE i \in M
    <3>1. user'[list[i]] = [active |-> list[i], updated |-> time + Cardinality(Upto(list[i]))]
      BY <1>6, <2>1, <2>2
    <3>2. Cardinality(Upto(list[i])) > 0 /\ Cardinality(Upto(list[i])) \in Nat
      BY <1>4, <1>5, <2>2
    <3> QED  BY <1>1, <3>1, <3>2
  <2>3. CASE i \notin M
    <3>1. user[list[i]].updated \in Nat /\ user[list[i]].updated # 0
      BY <1>1, <1>7, <1>10, <2>1, <2>3
    <3> QED  BY <1>9, <2>1, <3>1
  <2> QED  BY <2>2, <2>3
<1>11. ASSUME NEW s \in Stores
       PROVE  /\ cached'[s] \in Stores \cup {NoStore}
              /\ cached'[s] # NoStore => user'[s].updated > 0
              /\ cached[s] # NoStore => cached'[s] = cached[s]
  <2>1. CASE cached[s] = NoStore /\ \E i \in 1..n : list[i] = s
    <3>1. user'[s].updated > 0
      BY <1>10, <2>1
    <3> QED  BY <1>6, <1>9, <2>1, <3>1
  <2>2. CASE ~(cached[s] = NoStore /\ \E i \in 1..n : list[i] = s)
    <3>1. cached'[s] = cached[s]
      BY <1>6, <2>2
    <3>2. cached[s] # NoStore => user'[s].updated > 0
      BY <1>9 DEF Known
    <3> QED  BY <1>1, <3>1, <3>2
  <2> QED  BY <2>1, <2>2
<1>12. ASSUME NEW i \in 1..n PROVE cached'[list[i]] # NoStore
  <2>1. list[i] \in Stores
    BY <1>1
  <2>2. CASE cached[list[i]] = NoStore
    BY <1>0, <1>6, <1>9, <1>10, <2>1, <2>2
  <2>3. CASE cached[list[i]] # NoStore
    BY <1>11, <2>1, <2>3
  <2> QED  BY <2>2, <2>3
<1>13. user' \in [Stores -> [active : Stores \cup {NoStore}, updated : 0..time']]
  BY <1>6, <1>9
<1>14. cached' \in [Stores -> Stores \cup {NoStore}]
  BY <1>6, <1>11
<1>15. Known'
  BY <1>9, <1>11 DEF Known
<1> QED  BY <1>8, <1>9, <1>11, <1>12, <1>13, <1>14, <1>15

-----------------------------------------------------------------------------
(* The databases: Syncs and writes.                                        *)

\* Types of the databases.
CopyTypes ==
  /\ rows \in [Stores -> SUBSET [by : Stores, at : 1..time]]
  /\ when \in [Stores -> [Stores -> 0..time]]
  /\ open \subseteq Stores \X Stores /\ late \subseteq Stores \X [by : Stores, at : 1..time]

DBTypes ==
  /\ time \in 0..MaxTime
  /\ user \in [Stores -> [active : Stores \cup {NoStore}, updated : 0..time]]
  /\ CopyTypes

\* What a step may do to the databases at any time: rows stay, users stay known,
\* and a users row moves to a later one only.
RowsStay == \A s \in Stores : rows[s] \subseteq rows'[s]

UsersStay ==
  \A s \in Stores : /\ user[s].updated > 0 => user'[s].updated > 0
                    /\ user'[s].updated > 0 => user'[s].active \in Stores

\* A Sync that adds rows known at home, and no watermark too many, keeps the rows in
\* order.
LEMMA RowsAdded ==
  ASSUME DBTypes, RowsAtHome, Watermarked, NEW w \in Stores,
         NEW new \in SUBSET [by : Stores, at : 1..time],
         \A f \in new : f \in rows[f.by],
         rows' = [rows EXCEPT ![w] = @ \cup new],
         when' \in [Stores -> [Stores -> 0..time]], open' \subseteq Stores \X Stores,
         UNCHANGED <<time, late>>,
         \A x, r \in Stores : \A f \in OwnRows(r) :
           f.at <= when'[x][r] => f \in rows'[x] \/ <<x, f>> \in late
  PROVE  CopyTypes' /\ RowsStay /\ RowsAtHome' /\ Watermarked'
<1>1. /\ \A s \in Stores : rows'[s] = IF s = w THEN rows[w] \cup new ELSE rows[s]
      /\ rows \in [Stores -> SUBSET [by : Stores, at : 1..time]]
  BY Zenon DEF DBTypes, CopyTypes
<1>2. rows' \in [Stores -> SUBSET [by : Stores, at : 1..time]]
  BY <1>1, Zenon
<1>3. RowsStay
  BY <1>1, Zenon DEF RowsStay
<1>4. \A s \in Stores : \A f \in rows'[s] : f.by \in Stores /\ f \in rows[f.by]
  <2> TAKE s \in Stores
  <2> TAKE f \in rows'[s]
  <2>1. f.by \in Stores
    BY <1>2, Zenon
  <2> QED  BY <1>1, <2>1, Zenon DEF RowsAtHome
<1>5. RowsAtHome'
  BY <1>3, <1>4, Zenon DEF RowsAtHome, RowsStay
<1>6. \A r \in Stores : \A f \in OwnRows(r)' : f \in OwnRows(r)
  BY <1>4, Zenon DEF OwnRows
<1>7. Watermarked'
  BY <1>6, Zenon DEF Watermarked
<1>8. CopyTypes'
  BY <1>2, Zenon DEF DBTypes, CopyTypes
<1> QED  BY <1>3, <1>5, <1>7, <1>8, Zenon

\* A Sync that is done brings everything its reader took on itself but late rows.
LEMMA SyncKeeps ==
  ASSUME DBTypes, RowsAtHome, Watermarked, NEW w \in Stores, NEW r \in Stores,
         SyncToWriter(w, r), UNCHANGED time
  PROVE  /\ CopyTypes' /\ RowsStay /\ RowsAtHome' /\ Watermarked'
         /\ \A f \in OwnRows(r) : f \in rows'[w] \/ <<w, f>> \in late
         /\ \A x \in Stores \ {w} : when'[x] = when[x]
<1>0. PICK skipped \in SUBSET {f \in RowsSince(w, r) : <<w, f>> \in late} :
        LET brought == RowsSince(w, r) \ skipped
        IN /\ rows' = [rows EXCEPT ![w] = @ \cup brought]
           /\ when' = [when EXCEPT ![w][r] = IF brought = {} THEN @ ELSE Latest({f.at : f \in brought})]
  BY Zenon DEF SyncToWriter
<1> DEFINE sent == RowsSince(w, r) \ skipped
           times == {f.at : f \in sent}
<1>1. /\ rows' = [rows EXCEPT ![w] = @ \cup sent]
      /\ when' = [when EXCEPT ![w][r] = IF sent = {} THEN @ ELSE Latest(times)]
  BY <1>0, Zenon
<1>2. sent \in SUBSET rows[r] /\ sent \in SUBSET [by : Stores, at : 1..time] /\ time \in Nat
  BY ManagerAssumption DEF RowsSince, DBTypes, CopyTypes
<1>3. \A f \in sent : f \in rows[f.by]
  BY <1>2, Zenon DEF RowsAtHome
<1>4. sent # {} => Latest(times) \in 0..time
  <2> HAVE sent # {}
  <2>1. times \in SUBSET (0..time) /\ times # {}
    BY <1>2
  <2>2. Latest(times) \in times
    BY <1>2, <2>1, LatestIsGreatest, Zenon
  <2> QED  BY <2>1, <2>2, Zenon
<1>5. \A f \in rows[r] : f.at > when[w][r] => f \in sent \/ <<w, f>> \in late
  BY Zenon DEF RowsSince
<1> DEFINE m == IF sent = {} THEN when[w][r] ELSE Latest(times)
<1>6. m \in 0..time
  BY <1>4, Zenon DEF DBTypes, CopyTypes
<1>7. when' = [when EXCEPT ![w][r] = m] /\ when \in [Stores -> [Stores -> 0..time]]
  BY <1>1, Zenon DEF DBTypes, CopyTypes
<1> HIDE DEF m
<1>8. /\ when' \in [Stores -> [Stores -> 0..time]]
      /\ \A x \in Stores \ {w} : when'[x] = when[x]
      /\ \A x, y \in Stores : <<x, y>> # <<w, r>> => when'[x][y] = when[x][y]
  BY <1>6, <1>7, Zenon
<1> HIDE DEF sent
<1>9. \A x \in Stores : rows'[x] = IF x = w THEN rows[w] \cup sent ELSE rows[x]
  BY <1>1, Zenon DEF DBTypes, CopyTypes
<1>10. ASSUME NEW f \in OwnRows(r) PROVE f \in rows'[w] \/ <<w, f>> \in late
  <2>1. f \in rows[r] /\ f.at \in Nat /\ when[w][r] \in Nat
    BY <1>2 DEF OwnRows, DBTypes, CopyTypes
  <2>2. CASE f.at > when[w][r]
    BY <1>5, <1>9, <2>1, <2>2, Zenon
  <2>3. CASE f.at <= when[w][r]
    BY <1>9, <2>3, Zenon DEF Watermarked
  <2> QED  BY <2>1, <2>2, <2>3
<1>11. \A x, y \in Stores : \A f \in OwnRows(y) :
         f.at <= when'[x][y] => f \in rows'[x] \/ <<x, f>> \in late
  <2> TAKE x, y \in Stores
  <2> TAKE f \in OwnRows(y)
  <2>1. CASE x = w /\ y = r
    BY <1>10, <2>1, Zenon
  <2>2. CASE <<x, y>> # <<w, r>>
    BY <1>8, <1>9, <2>2, Zenon DEF Watermarked
  <2> QED  BY <2>1, <2>2, Zenon
<1>12. open' \subseteq Stores \X Stores /\ UNCHANGED late
  BY Zenon DEF SyncToWriter, DBTypes, CopyTypes
<1>13. CopyTypes' /\ RowsStay /\ RowsAtHome' /\ Watermarked'
  BY <1>1, <1>2, <1>3, <1>8, <1>11, <1>12, RowsAdded, Zenon
<1> QED  BY <1>8, <1>10, <1>13, Zenon

\* One that fails or ends quietly keeps what it brought and moves no watermark.
LEMMA PartKeeps ==
  ASSUME DBTypes, RowsAtHome, Watermarked, NEW w \in Stores, NEW r \in Stores,
         SyncFails(w, r) \/ SyncEndsQuietly(w, r), UNCHANGED time
  PROVE  CopyTypes' /\ RowsStay /\ RowsAtHome' /\ Watermarked' /\ UNCHANGED <<when, late>>
<1>1. PICK part \in SUBSET RowsSince(w, r) : rows' = [rows EXCEPT ![w] = @ \cup part]
  BY Zenon DEF SyncFails, SyncEndsQuietly
<1>2. part \in SUBSET rows[r] /\ part \in SUBSET [by : Stores, at : 1..time]
  BY <1>1, Zenon DEF RowsSince, DBTypes, CopyTypes
<1>3. \A f \in part : f \in rows[f.by]
  BY <1>2, Zenon DEF RowsAtHome
<1>4. UNCHANGED <<when, late>> /\ when' \in [Stores -> [Stores -> 0..time]]
  BY Zenon DEF SyncFails, SyncEndsQuietly, DBTypes, CopyTypes
<1>5. open' \subseteq Stores \X Stores
  BY DEF SyncFails, SyncEndsQuietly, DBTypes, CopyTypes
<1>6. \A x \in Stores : rows[x] \subseteq rows'[x]
  BY <1>1, Zenon DEF DBTypes, CopyTypes
<1>7. \A x, y \in Stores : \A f \in OwnRows(y) :
        f.at <= when'[x][y] => f \in rows'[x] \/ <<x, f>> \in late
  BY <1>4, <1>6, Zenon DEF Watermarked
<1> QED  BY <1>1, <1>2, <1>3, <1>4, <1>5, <1>7, RowsAdded, Zenon

\* A Sync that returns without an error brings what is claimed of its reader.
LEMMA EndKeeps ==
  ASSUME DBTypes, RowsAtHome, Watermarked, faults \in 0..MaxFaults,
         NEW w \in Stores, NEW r \in Stores, SyncEnds(w, r), UNCHANGED time
  PROVE  /\ CopyTypes' /\ RowsStay /\ RowsAtHome' /\ Watermarked'
         /\ \A f \in claimed' : f \in OwnRows(r) => f \in rows'[w] \/ <<w, f>> \in late
         /\ \A x \in Stores \ {w} : when'[x] = when[x]
         /\ claimed' \subseteq claimed /\ faults' \in 0..MaxFaults /\ UNCHANGED late
<1>1. CASE SyncToWriter(w, r)
  <2>1. UNCHANGED <<claimed, faults, late>>
    BY <1>1, Zenon DEF SyncToWriter
  <2> QED  BY <1>1, <2>1, SyncKeeps, Zenon
<1>2. CASE SyncEndsQuietly(w, r)
  <2>1. claimed' = {}
    BY <1>2, Zenon DEF SyncEndsQuietly
  <2>2. faults' \in 0..MaxFaults
    BY <1>2, ManagerAssumption DEF SyncEndsQuietly, Fault
  <2> QED  BY <1>2, <2>1, <2>2, PartKeeps, Zenon
<1> QED  BY <1>1, <1>2, Zenon DEF SyncEnds

\* All replace the writer's users row by the reader's or leave it.
LEMMA SyncUsers ==
  ASSUME DBTypes, \A s \in Stores : user[s].updated > 0 => user[s].active \in Stores,
         NEW w \in Stores, NEW r \in Stores, SyncEnds(w, r) \/ SyncFails(w, r)
  PROVE  /\ user' \in [Stores -> [active : Stores \cup {NoStore}, updated : 0..time]]
         /\ UsersStay /\ \A s \in Stores \ {w} : user'[s] = user[s]
         /\ SyncEnds(w, r) /\ SendsUser(w, r) => user'[w] = user[r]
<1>1. user \in [Stores -> [active : Stores \cup {NoStore}, updated : 0..time]] /\ time \in Nat
  BY ManagerAssumption DEF DBTypes
<1>2. CASE SendsUser(w, r) /\ user' = [user EXCEPT ![w] = user[r]]
  <2>1. user[w].updated < user[r].updated /\ user[w].updated \in Nat /\ user[r].updated \in Nat
    BY <1>1, <1>2 DEF SendsUser
  <2>2. /\ user' \in [Stores -> [active : Stores \cup {NoStore}, updated : 0..time]]
        /\ \A s \in Stores \ {w} : user'[s] = user[s]
        /\ user'[w] = user[r]
    BY <1>1, <1>2, Zenon
  <2> QED  BY <2>1, <2>2 DEF UsersStay
<1>3. CASE user' = user /\ (SyncEnds(w, r) => ~SendsUser(w, r))
  BY <1>1, <1>3, Zenon DEF UsersStay
<1>4. SyncEnds(w, r) => CarriesUser(w, r)
  BY Zenon DEF SyncEnds, SyncToWriter, SyncEndsQuietly
<1>5. UNCHANGED user \/ CarriesUser(w, r)
  BY <1>4, Zenon DEF SyncFails
<1>6. CASE SyncEnds(w, r)
  BY <1>2, <1>3, <1>4, <1>6, Zenon DEF CarriesUser
<1>7. CASE ~SyncEnds(w, r)
  BY <1>2, <1>3, <1>5, <1>7, Zenon DEF CarriesUser
<1> QED  BY <1>6, <1>7, Zenon

-----------------------------------------------------------------------------
(* The steps that leave the manager idle.                                  *)

\* Types of the manager and of the switch.
PartTypes ==
  /\ stores \in Seq(Stores) /\ IsInjective(stores)
  /\ cached \in [Stores -> Stores \cup {NoStore}]
  /\ activeStorage \in Managed \cup {NoStore} /\ conflictingActives \subseteq Managed
  /\ isAvailable => activeStorage # NoStore /\ \A s \in Managed : cached[s] # NoStore

SwitchTypes ==
  /\ step \in {"idle", "begin", "merge", "mark", "push"}
  /\ target \in Stores \cup {NoStore} /\ backupSource \in Managed \cup {NoStore}
  /\ todo \in Seq(Managed) /\ faults \in 0..MaxFaults
  /\ result \in {"none", "already", "switched", "failed", "panic"}

ClaimTypes == claimed \subseteq [by : Stores, at : 1..time]

\* ManagerTypeOK in parts.
LEMMA TypesInParts ==
  ManagerTypeOK <=> DBTypes /\ PartTypes /\ SwitchTypes /\ ClaimTypes
BY Zenon DEF ManagerTypeOK, DBTypes, CopyTypes, PartTypes, SwitchTypes, ClaimTypes

\* The same after a step.
LEMMA TypesInPartsNext ==
  DBTypes' /\ PartTypes' /\ SwitchTypes' /\ ClaimTypes' => ManagerTypeOK'
BY Zenon DEF ManagerTypeOK, DBTypes, CopyTypes, PartTypes, SwitchTypes, ClaimTypes

\* The managed stores are finitely many.
LEMMA ManagedIsFinite == PartTypes => Managed \subseteq Stores /\ IsFiniteSet(Managed)
<1> HAVE PartTypes
<1>1. stores \in Seq(Stores) /\ Len(stores) \in Nat /\ DOMAIN stores = 1..Len(stores)
  BY DEF PartTypes
<1>2. Managed \subseteq Stores
  BY <1>1 DEF Managed, Range
<1>3. stores \in Surjection(1..Len(stores), Managed) /\ IsFiniteSet(1..Len(stores))
  BY <1>1, FS_Interval DEF Surjection, Managed, Range
<1> QED  BY <1>2, <1>3, FS_Surjection, Zenon

\* The stores that are done are one more when those to come are one fewer.
LEMMA OneFewer == \A m, n \in Nat : m - (n - 1) = m - n + 1
OBVIOUS

\* The members of a sequence are its head and those of its tail.
LEMMA HeadAndTail ==
  ASSUME Managed \subseteq Stores, NEW q \in Seq(Managed), q # <<>>
  PROVE  /\ Head(q) \in Managed /\ Tail(q) \in Seq(Managed)
         /\ Len(q) \in Nat /\ Len(Tail(q)) = Len(q) - 1
         /\ \A x \in Range(q) : x = Head(q) \/ x \in Range(Tail(q))
         /\ \A i \in 1..Len(Tail(q)) : Tail(q)[i] = q[i + 1]
<1>1. /\ Len(q) \in Nat \ {0} /\ Head(q) = q[1] /\ 1 \in 1..Len(q) /\ DOMAIN q = 1..Len(q)
      /\ Tail(q) \in Seq(Managed) /\ Len(Tail(q)) = Len(q) - 1
      /\ \A i \in 1..Len(Tail(q)) : Tail(q)[i] = q[i + 1]
  OBVIOUS
<1>2. Head(q) \in Managed
  BY <1>1
<1>3. \A i \in 2..Len(q) : i - 1 \in DOMAIN Tail(q) /\ Tail(q)[i - 1] = q[i]
  BY <1>1
<1>4. \A i \in 1..Len(q) : q[i] = Head(q) \/ q[i] \in Range(Tail(q))
  <2> TAKE i \in 1..Len(q)
  <2>1. i = 1 \/ i \in 2..Len(q)
    BY <1>1
  <2> QED  BY <1>1, <1>3, <2>1, Zenon DEF Range
<1> QED  BY <1>1, <1>2, <1>4, Zenon DEF Range

\* A manager just built, over any of the stores: nothing is loaded yet.
LEMMA InitKeeps == ManagerInit => StorageInv
<1> HAVE ManagerInit
<1>0. /\ NoStore \notin Stores /\ IsFiniteSet(Stores) /\ SignedUp \in Seq(Stores)
      /\ IsInjective(SignedUp) /\ MaxTime \in Nat /\ MaxTime >= Len(SignedUp) /\ MaxFaults \in Nat
  BY ManagerAssumption, Zenon
<1>1. \A x \in Range(SignedUp) : Position(SignedUp, x) \in 1..Len(SignedUp)
  <2> TAKE x \in Range(SignedUp)
  <2>1. PICK i \in 1..Len(SignedUp) : x = SignedUp[i]
    BY <1>0 DEF Range
  <2> QED  BY <1>0, <2>1, PositionIs, Zenon
<1>2. \A x \in Stores :
        \/ x \in Range(SignedUp) /\ user[x] = [active |-> x, updated |-> Position(SignedUp, x)]
        \/ user[x] = [active |-> NoStore, updated |-> 0]
  BY Zenon DEF ManagerInit
<1>3. time = Len(SignedUp) /\ time \in 0..MaxTime /\ 1..time \subseteq 0..time /\ 0 \in 0..time
  <2>1. time = Len(SignedUp)
    BY Zenon DEF ManagerInit
  <2>2. Len(SignedUp) \in Nat
    BY <1>0
  <2> QED  BY <1>0, <2>1, <2>2
<1>4. user \in [Stores -> [active : Stores \cup {NoStore}, updated : 0..time]]
  <2>1. \A x \in Stores : user[x] \in [active : Stores \cup {NoStore}, updated : 0..time]
    <3> TAKE x \in Stores
    <3>1. CASE x \in Range(SignedUp) /\ user[x] = [active |-> x, updated |-> Position(SignedUp, x)]
      <4>1. Position(SignedUp, x) \in 0..time
        BY <1>1, <1>3, <3>1, Zenon
      <4> QED  BY <3>1, <4>1
    <3>2. CASE user[x] = [active |-> NoStore, updated |-> 0]
      BY <1>3, <3>2
    <3> QED  BY <1>2, <3>1, <3>2, Zenon
  <2>2. user = [x \in Stores |-> user[x]]
    BY Zenon DEF ManagerInit
  <2> QED  BY <2>1, <2>2, Zenon
<1>5. /\ rows = [x \in Stores |-> {}] /\ when = [w \in Stores |-> [r \in Stores |-> 0]]
      /\ open = {} /\ late = {}
      /\ cached = [x \in Stores |-> NoStore] /\ claimed = {} /\ step = "idle" /\ result = "none"
  BY Zenon DEF ManagerInit
<1>6. DBTypes
  BY <1>3, <1>4, <1>5, Zenon DEF DBTypes, CopyTypes
<1>7. PartTypes
  <2>1. PICK given \in SUBSET Stores : stores \in Orders(given)
    BY Zenon DEF ManagerInit
  <2>2. stores \in Seq(given) /\ IsInjective(stores)
    BY <1>0, <2>1, FS_Subset, SeqsOf, Zenon
  <2>3. stores \in Seq(Stores)
    BY <2>1, <2>2
  <2> QED  BY <1>5, <2>2, <2>3, Zenon DEF ManagerInit, PartTypes
<1>8. SwitchTypes
  BY <1>0 DEF ManagerInit, SwitchTypes
<1>9. ManagerTypeOK
  BY <1>5, <1>6, <1>7, <1>8, TypesInParts, Zenon DEF ClaimTypes
<1>10. Known
  <2>1. \A x \in Stores : user[x].updated > 0 => user[x].active \in Stores
    <3> TAKE x \in Stores
    <3>1. user[x].active = x \/ user[x].updated = 0
      <4>1. ASSUME user[x] = [active |-> x, updated |-> Position(SignedUp, x)]
            PROVE  user[x].active = x
        BY <4>1
      <4>2. ASSUME user[x] = [active |-> NoStore, updated |-> 0]
            PROVE  user[x].updated = 0
        BY <4>2
      <4> QED  BY <1>2, <4>1, <4>2, Zenon
    <3> QED  BY <3>1
  <2> QED  BY <1>5, <2>1, Zenon DEF Known
<1>11. RowsAtHome /\ Watermarked
  BY <1>5, Zenon DEF RowsAtHome, Watermarked, OwnRows
<1> QED  BY <1>5, <1>9, <1>10, <1>11, Zenon DEF StorageInv, SwitchOK, SwitchedEverywhere, OwnRowsFollow

\* A later clock keeps the types of what it does not touch.
LEMMA ClockGrows ==
  ASSUME DBTypes, ClaimTypes, time' \in 0..MaxTime, time <= time'
  PROVE  /\ 0..time \subseteq 0..time' /\ 1..time \subseteq 1..time'
         /\ UNCHANGED user => user' \in [Stores -> [active : Stores \cup {NoStore}, updated : 0..time']]
         /\ UNCHANGED copies => CopyTypes'
         /\ UNCHANGED claimed => ClaimTypes'
<1>1. time \in Nat /\ time' \in Nat
  BY ManagerAssumption DEF DBTypes
<1>2. 0..time \subseteq 0..time' /\ 1..time \subseteq 1..time'
  BY <1>1
<1>3. [by : Stores, at : 1..time] \subseteq [by : Stores, at : 1..time']
  BY <1>2, Zenon
<1>4. [active : Stores \cup {NoStore}, updated : 0..time]
        \subseteq [active : Stores \cup {NoStore}, updated : 0..time']
  BY <1>2, Zenon
<1>5. UNCHANGED user => user' \in [Stores -> [active : Stores \cup {NoStore}, updated : 0..time']]
  BY <1>4, Zenon DEF DBTypes
<1>6. ASSUME UNCHANGED copies PROVE CopyTypes'
  <2>1. UNCHANGED <<rows, when, open, late>> /\ CopyTypes
    BY <1>6, Zenon DEF copies, DBTypes
  <2>2. rows' \in [Stores -> SUBSET [by : Stores, at : 1..time']]
    BY <1>3, <2>1, Zenon DEF CopyTypes
  <2>3. when' \in [Stores -> [Stores -> 0..time']]
    BY <1>2, <2>1, Zenon DEF CopyTypes
  <2>4. late' \subseteq Stores \X [by : Stores, at : 1..time']
    BY <1>3, <2>1, Zenon DEF CopyTypes
  <2> QED  BY <2>1, <2>2, <2>3, <2>4, Zenon DEF CopyTypes
<1>7. UNCHANGED claimed => ClaimTypes'
  BY <1>3, Zenon DEF ClaimTypes
<1> QED  BY <1>2, <1>5, <1>6, <1>7, Zenon

\* Rows and watermarks that stay are in order.
LEMMA RowsUnchanged ==
  ASSUME RowsAtHome, Watermarked, UNCHANGED copies
  PROVE  RowsStay /\ RowsAtHome' /\ Watermarked'
BY Zenon DEF copies, RowsStay, RowsAtHome, Watermarked, OwnRows

\* Claimed rows stay at home.
LEMMA ClaimsStay ==
  ASSUME ClaimTypes, SwitchOK, RowsStay, claimed' \subseteq claimed
  PROVE  \A f \in claimed' : f \in rows'[f.by]
BY Zenon DEF ClaimTypes, SwitchOK, RowsStay

\* An idle manager whose last call was no switch owes nothing else.
LEMMA AtRest ==
  ASSUME ClaimTypes, SwitchOK, RowsStay, ManagerTypeOK', Known', RowsAtHome', Watermarked',
         step' = "idle", result' # "switched", claimed' \subseteq claimed
  PROVE  StorageInv'
<1>1. SwitchOK'
  BY ClaimsStay, Zenon DEF SwitchOK
<1> QED  BY <1>1, Zenon DEF StorageInv, SwitchedEverywhere, OwnRowsFollow

\* MakeAvailable, done or not, leaves the manager in order; done, it is available.
LEMMA AvailableKeeps ==
  ASSUME ManagerTypeOK, Known, MakeAvailable \/ MakeAvailableFails
  PROVE  /\ time' \in 0..MaxTime /\ time <= time'
         /\ user' \in [Stores -> [active : Stores \cup {NoStore}, updated : 0..time']]
         /\ PartTypes' /\ Known' /\ stores' = stores /\ faults' \in 0..MaxFaults
         /\ MakeAvailable => isAvailable'
<1>0. DBTypes /\ PartTypes /\ SwitchTypes
  BY TypesInParts, Zenon
<1>1. stores' = stores /\ Managed' = Managed /\ stores \in Seq(Stores) /\ IsInjective(stores)
  BY <1>0, Zenon DEF MakeAvailable, MakeAvailableFails, PartTypes, Managed
<1>2. NoStore \notin Stores /\ time \in Nat /\ MaxTime \in Nat /\ MaxFaults \in Nat
      /\ faults \in 0..MaxFaults /\ Len(stores) \in Nat /\ Managed \subseteq Stores
  BY <1>0, <1>1, ManagerAssumption DEF DBTypes, SwitchTypes, Managed, Range
<1>3. ASSUME isAvailable, UNCHANGED <<time, user, cached, activeStorage, conflictingActives, isAvailable>>
      PROVE  /\ time' \in 0..MaxTime /\ time <= time'
             /\ user' \in [Stores -> [active : Stores \cup {NoStore}, updated : 0..time']]
             /\ PartTypes' /\ Known' /\ isAvailable'
  <2>1. time' \in 0..MaxTime /\ time <= time'
    BY <1>0, <1>2, <1>3 DEF DBTypes
  <2>2. user' \in [Stores -> [active : Stores \cup {NoStore}, updated : 0..time']]
    BY <1>0, <1>3, Zenon DEF DBTypes
  <2>3. PartTypes' /\ isAvailable'
    BY <1>0, <1>1, <1>3, Zenon DEF PartTypes
  <2>4. Known'
    BY <1>3, Zenon DEF Known
  <2> QED  BY <2>1, <2>2, <2>3, <2>4, Zenon
<1>4. ASSUME stores # <<>>, MakeStoresAvailable(stores, Len(stores)), Partition(stores, cached')
      PROVE  /\ time' \in 0..MaxTime /\ time <= time'
             /\ user' \in [Stores -> [active : Stores \cup {NoStore}, updated : 0..time']]
             /\ PartTypes' /\ Known' /\ isAvailable'
  <2>0. Len(stores) \in 0..Len(stores)
    BY <1>2
  <2>1. /\ time' \in 0..MaxTime /\ time <= time'
        /\ user' \in [Stores -> [active : Stores \cup {NoStore}, updated : 0..time']]
        /\ cached' \in [Stores -> Stores \cup {NoStore}] /\ Known'
        /\ \A i \in 1..Len(stores) : cached'[stores[i]] # NoStore
    BY <1>1, <1>4, <2>0, LoadKeeps, Zenon
  <2>2. activeStorage' \in Managed /\ conflictingActives' \subseteq Managed /\ isAvailable'
    BY <1>1, <1>4, <2>0, ActiveIsListed, Zenon DEF Partition, Managed
  <2>3. \A s \in Managed : cached'[s] # NoStore
    BY <1>1, <2>1 DEF Managed, Range
  <2>4. PartTypes'
    BY <1>1, <1>2, <2>1, <2>2, <2>3, Zenon DEF PartTypes
  <2> QED  BY <2>1, <2>2, <2>4, Zenon
<1>5. ASSUME stores # <<>>, Fault,
             NEW n \in 0..Len(stores) - 1, MakeStoresAvailable(stores, n), PartitionFails(stores, n)
      PROVE  /\ time' \in 0..MaxTime /\ time <= time'
             /\ user' \in [Stores -> [active : Stores \cup {NoStore}, updated : 0..time']]
             /\ PartTypes' /\ Known' /\ faults' \in 0..MaxFaults
  <2>0. n \in 0..Len(stores)
    BY <1>2
  <2>1. /\ time' \in 0..MaxTime /\ time <= time'
        /\ user' \in [Stores -> [active : Stores \cup {NoStore}, updated : 0..time']]
        /\ cached' \in [Stores -> Stores \cup {NoStore}] /\ Known'
    BY <1>1, <1>5, <2>0, LoadKeeps, Zenon
  <2>2. activeStorage' \in Managed /\ conflictingActives' \subseteq Managed /\ ~isAvailable'
    BY <1>0, <1>1, <1>5, <2>0, ActiveIsListed, Zenon DEF PartitionFails, Managed, PartTypes
  <2>3. faults' \in 0..MaxFaults
    BY <1>2, <1>5 DEF Fault
  <2>4. PartTypes'
    BY <1>1, <2>1, <2>2, Zenon DEF PartTypes
  <2> QED  BY <2>1, <2>3, <2>4, Zenon
<1>6. CASE MakeAvailable
  BY <1>1, <1>2, <1>3, <1>4, <1>6, Zenon DEF MakeAvailable
<1>7. CASE MakeAvailableFails /\ ~MakeAvailable
  BY <1>1, <1>5, <1>7, Zenon DEF MakeAvailableFails
<1> QED  BY <1>6, <1>7, Zenon

\* Databases that stay are in order.
LEMMA DBUnchanged ==
  ASSUME DBTypes, RowsAtHome, Watermarked, UNCHANGED <<time, dbVars>>
  PROVE  DBTypes' /\ RowsStay /\ RowsAtHome' /\ Watermarked'
<1>1. UNCHANGED <<time, user, rows, when, open, late, copies>>
  BY Zenon DEF dbVars, copies
<1>2. DBTypes'
  BY <1>1, Zenon DEF DBTypes, CopyTypes
<1> QED  BY <1>1, <1>2, RowsUnchanged, Zenon

\* A step that leaves the manager alone keeps its types and its stores.
LEMMA PartsUnchanged ==
  ASSUME PartTypes, UNCHANGED managerVars
  PROVE  PartTypes' /\ Managed' = Managed
BY Zenon DEF PartTypes, managerVars, Managed

\* A step that leaves the users, there and cached, keeps them known.
LEMMA KnownUnchanged ==
  ASSUME Known, UNCHANGED <<user, cached>>
  PROVE  Known'
BY Zenon DEF Known

\* A call that returns leaves no switch.
LEMMA Returned ==
  ASSUME NEW r \in {"none", "already", "switched", "failed", "panic"}, Return(r),
         faults' \in 0..MaxFaults
  PROVE  SwitchTypes' /\ step' = "idle" /\ result' = r
BY DEF Return, SwitchTypes

\* SetActive of the store that is active already.
LEMMA AlreadyKeeps ==
  ASSUME StorageInv, NEW k \in Stores, AlreadyActive(k)
  PROVE  StorageInv'
<1>0. DBTypes /\ PartTypes /\ SwitchTypes /\ ClaimTypes /\ Known /\ RowsAtHome /\ Watermarked /\ SwitchOK
  BY TypesInParts, Zenon DEF StorageInv
<1>1. DBTypes' /\ RowsStay /\ RowsAtHome' /\ Watermarked'
  BY <1>0, DBUnchanged, Zenon DEF AlreadyActive
<1>2. PartTypes' /\ Known'
  BY <1>0, PartsUnchanged, KnownUnchanged, Zenon DEF AlreadyActive, managerVars, dbVars
<1>3. SwitchTypes' /\ step' = "idle" /\ result' # "switched"
  <2>1. faults' \in 0..MaxFaults
    BY <1>0, Zenon DEF AlreadyActive, SwitchTypes
  <2> QED  BY <2>1, Returned, Zenon DEF AlreadyActive
<1>4. ClaimTypes' /\ UNCHANGED claimed
  BY <1>0, Zenon DEF AlreadyActive, ClaimTypes
<1> QED  BY <1>0, <1>1, <1>2, <1>3, <1>4, AtRest, TypesInPartsNext, Zenon

\* A switch of a manager whose active store was never loaded.
LEMMA PanicKeeps ==
  ASSUME StorageInv, Panics
  PROVE  StorageInv'
<1>0. DBTypes /\ PartTypes /\ SwitchTypes /\ ClaimTypes /\ Known /\ RowsAtHome /\ Watermarked /\ SwitchOK
  BY TypesInParts, Zenon DEF StorageInv
<1>1. DBTypes' /\ RowsStay /\ RowsAtHome' /\ Watermarked'
  BY <1>0, DBUnchanged, Zenon DEF Panics
<1>2. PartTypes'
  BY <1>0, Zenon DEF Panics, Forgotten, PartTypes, Managed
<1>3. Known'
  BY <1>0, Zenon DEF Panics, Forgotten, Known, dbVars
<1>4. SwitchTypes' /\ step' = "idle" /\ result' # "switched"
  <2>1. faults' \in 0..MaxFaults
    BY <1>0, Zenon DEF Panics, SwitchTypes
  <2> QED  BY <2>1, Returned, Zenon DEF Panics
<1>5. ClaimTypes' /\ UNCHANGED claimed
  BY <1>0, Zenon DEF Panics, ClaimTypes
<1> QED  BY <1>0, <1>1, <1>2, <1>3, <1>4, <1>5, AtRest, TypesInPartsNext, Zenon

\* A restart orders the same stores anew and forgets the rest.
LEMMA RestartKeeps ==
  ASSUME StorageInv, Restart
  PROVE  StorageInv'
<1>0. DBTypes /\ PartTypes /\ SwitchTypes /\ ClaimTypes /\ Known /\ RowsAtHome /\ Watermarked /\ SwitchOK
  BY TypesInParts, Zenon DEF StorageInv
<1>1. DBTypes' /\ RowsStay /\ RowsAtHome' /\ Watermarked'
  BY <1>0, DBUnchanged, Zenon DEF Restart
<1>2. stores' \in Seq(Stores) /\ IsInjective(stores')
  <2>1. Managed \subseteq Stores /\ IsFiniteSet(Managed)
    BY <1>0, ManagedIsFinite, Zenon
  <2>2. stores' \in Orders(Managed)
    BY Zenon DEF Restart
  <2>3. stores' \in Seq(Managed) /\ IsInjective(stores')
    BY <2>1, <2>2, SeqsOf, Zenon
  <2> QED  BY <2>1, <2>3
<1>3. PartTypes'
  BY <1>0, <1>2, Zenon DEF Restart, Forgotten, PartTypes, Managed
<1>4. Known'
  BY <1>0, Zenon DEF Restart, Forgotten, Known, dbVars
<1>5. SwitchTypes' /\ step' = "idle" /\ result' # "switched"
  <2>1. faults' \in 0..MaxFaults
    BY <1>0, ManagerAssumption DEF Restart, Fault, SwitchTypes
  <2> QED  BY <2>1, Returned, Zenon DEF Restart
<1>6. ClaimTypes' /\ UNCHANGED claimed
  BY <1>0, Zenon DEF Restart, ClaimTypes
<1> QED  BY <1>0, <1>1, <1>3, <1>4, <1>5, <1>6, AtRest, TypesInPartsNext, Zenon

\* The first step of SetActive, and GetAuth.
LEMMA MakingAvailableKeeps ==
  ASSUME StorageInv, (\E k \in Stores : SetActive(k)) \/ GetAuth
  PROVE  StorageInv'
<1>0. /\ DBTypes /\ PartTypes /\ SwitchTypes /\ ClaimTypes /\ Known /\ RowsAtHome /\ Watermarked
      /\ SwitchOK /\ ManagerTypeOK
  BY TypesInParts, Zenon DEF StorageInv
<1>1. (MakeAvailable \/ MakeAvailableFails) /\ UNCHANGED <<copies, claimed>>
  BY Zenon DEF SetActive, GetAuth
<1>2. /\ time' \in 0..MaxTime /\ time <= time'
      /\ user' \in [Stores -> [active : Stores \cup {NoStore}, updated : 0..time']]
      /\ PartTypes' /\ Known' /\ stores' = stores /\ faults' \in 0..MaxFaults
      /\ MakeAvailable => isAvailable'
  BY <1>0, <1>1, AvailableKeeps, Zenon
<1>3. DBTypes' /\ ClaimTypes'
  BY <1>0, <1>1, <1>2, ClockGrows, Zenon DEF DBTypes
<1>4. RowsStay /\ RowsAtHome' /\ Watermarked'
  BY <1>0, <1>1, RowsUnchanged, Zenon
<1>5. Managed' = Managed
  BY <1>2, Zenon DEF Managed
<1>6. ASSUME NEW k \in Stores, MakeAvailable, SetActive(k), step' = "begin", target' = k,
             result' = "none", UNCHANGED <<backupSource, todo>>
      PROVE  StorageInv'
  <2>1. SwitchTypes'
    BY <1>0, <1>2, <1>5, <1>6, Zenon DEF SwitchTypes
  <2>2. SwitchOK'
    BY <1>0, <1>1, <1>2, <1>4, <1>6, ClaimsStay, Zenon DEF SwitchOK
  <2>3. ManagerTypeOK'
    BY <1>2, <1>3, <2>1, TypesInPartsNext, Zenon
  <2> QED  BY <1>2, <1>4, <1>6, <2>2, <2>3, Zenon DEF StorageInv, SwitchedEverywhere, OwnRowsFollow
<1>7. ASSUME Return("failed") \/ (GetAuth /\ UNCHANGED switchVars /\ result' = "none" /\ step = "idle")
      PROVE  StorageInv'
  <2>1. SwitchTypes' /\ step' = "idle" /\ result' # "switched"
    <3>1. CASE Return("failed")
      BY <1>2, <3>1, Returned, Zenon
    <3>2. CASE UNCHANGED switchVars /\ result' = "none" /\ step = "idle"
      BY <1>0, <1>2, <1>5, <3>2, Zenon DEF switchVars, SwitchTypes
    <3> QED  BY <1>7, <3>1, <3>2, Zenon
  <2>2. ManagerTypeOK'
    BY <1>2, <1>3, <2>1, TypesInPartsNext, Zenon
  <2> QED  BY <1>0, <1>1, <1>2, <1>4, <2>1, <2>2, AtRest, Zenon
<1>8. CASE GetAuth
  BY <1>7, <1>8, Zenon DEF GetAuth
<1>9. CASE \E k \in Stores : SetActive(k)
  BY <1>6, <1>7, <1>9, Zenon DEF SetActive
<1> QED  BY <1>8, <1>9, Zenon

\* A store that is added is loaded first and listed last.
LEMMA AddKeeps ==
  ASSUME StorageInv, NEW s \in Stores, AddWalletStorageProvider(s)
  PROVE  StorageInv'
<1> DEFINE list == <<s>> \o stores
<1>0. /\ DBTypes /\ PartTypes /\ SwitchTypes /\ ClaimTypes /\ Known /\ RowsAtHome /\ Watermarked
      /\ SwitchOK /\ ManagerTypeOK
  BY TypesInParts, Zenon DEF StorageInv
<1>1. /\ step = "idle" /\ s \notin Managed /\ stores' = Append(stores, s) /\ result' = "none"
      /\ UNCHANGED <<copies, step, target, backupSource, todo, claimed>>
  BY Zenon DEF AddWalletStorageProvider, switchVars
<1>2. stores \in Seq(Stores) /\ Len(stores) \in Nat /\ IsInjective(stores)
      /\ \A i \in 1..Len(stores) : stores[i] # s /\ stores[i] \in Stores
  BY <1>0, <1>1 DEF PartTypes, Managed, Range
<1>3. /\ list \in Seq(Stores) /\ Len(list) = Len(stores) + 1
      /\ list[1] = s /\ \A i \in 1..Len(stores) : list[i + 1] = stores[i]
  BY <1>2
<1>4. IsInjective(list)
  <2> SUFFICES ASSUME NEW i \in 1..Len(list), NEW j \in 1..Len(list), list[i] = list[j]
               PROVE  i = j
    BY <1>3 DEF IsInjective
  <2>1. \A k \in 1..Len(list) : k = 1 \/ (k - 1 \in 1..Len(stores) /\ list[k] = stores[k - 1])
    BY <1>2, <1>3
  <2>2. CASE i = 1 \/ j = 1
    BY <1>2, <1>3, <2>1, <2>2
  <2>3. CASE i # 1 /\ j # 1
    <3>1. i - 1 \in 1..Len(stores) /\ j - 1 \in 1..Len(stores) /\ stores[i - 1] = stores[j - 1]
      BY <2>1, <2>3, Zenon
    <3>2. i - 1 = j - 1
      BY <1>2, <3>1 DEF IsInjective
    <3> QED  BY <3>2
  <2> QED  BY <2>2, <2>3, Zenon
<1>5. /\ stores' \in Seq(Stores) /\ Len(stores') = Len(stores) + 1 /\ stores' # <<>>
      /\ stores'[Len(stores) + 1] = s /\ \A i \in 1..Len(stores) : stores'[i] = stores[i]
  BY <1>1, <1>2
<1>6. IsInjective(stores')
  <2> SUFFICES ASSUME NEW i \in 1..Len(stores'), NEW j \in 1..Len(stores'), stores'[i] = stores'[j]
               PROVE  i = j
    BY <1>5 DEF IsInjective
  <2>1. \A k \in 1..Len(stores') : k = Len(stores) + 1 \/ k \in 1..Len(stores)
    BY <1>2, <1>5
  <2>2. CASE i \in 1..Len(stores) /\ j \in 1..Len(stores)
    BY <1>2, <1>5, <2>2 DEF IsInjective
  <2> QED  BY <1>2, <1>5, <2>1, <2>2, Zenon
<1>7. Managed \subseteq Managed' /\ Managed' \subseteq Stores
      /\ \A x \in Managed' : \E i \in 1..Len(list) : x = list[i]
  <2>1. DOMAIN stores = 1..Len(stores) /\ DOMAIN stores' = 1..Len(stores')
    BY <1>2, <1>5
  <2>2. Managed \subseteq Managed'
    BY <1>2, <1>5, <2>1 DEF Managed, Range
  <2>3. Managed' \subseteq Stores
    BY <1>5, <2>1 DEF Managed, Range
  <2>4. \A i \in 1..Len(stores') : \E j \in 1..Len(list) : stores'[i] = list[j]
    <3> TAKE i \in 1..Len(stores')
    <3>1. CASE i \in 1..Len(stores)
      <4>1. i + 1 \in 1..Len(list) /\ list[i + 1] = stores'[i]
        BY <1>2, <1>3, <1>5, <3>1
      <4> QED  BY <4>1, Zenon
    <3>2. CASE i = Len(stores) + 1
      <4>1. 1 \in 1..Len(list) /\ list[1] = stores'[i]
        BY <1>2, <1>3, <1>5, <3>2
      <4> QED  BY <4>1, Zenon
    <3> QED  BY <1>2, <1>5, <3>1, <3>2
  <2> QED  BY <2>1, <2>2, <2>3, <2>4, Zenon DEF Managed, Range
<1> HIDE DEF list
<1>8. ASSUME MakeStoresAvailable(list, Len(stores')), Partition(stores', cached'), UNCHANGED faults
      PROVE  /\ time' \in 0..MaxTime /\ time <= time'
             /\ user' \in [Stores -> [active : Stores \cup {NoStore}, updated : 0..time']]
             /\ PartTypes' /\ Known' /\ faults' \in 0..MaxFaults
  <2>0. Len(stores') \in 0..Len(list) /\ Len(stores') \in 0..Len(stores') /\ Len(stores') = Len(list)
    BY <1>2, <1>3, <1>5
  <2>1. /\ time' \in 0..MaxTime /\ time <= time'
        /\ user' \in [Stores -> [active : Stores \cup {NoStore}, updated : 0..time']]
        /\ cached' \in [Stores -> Stores \cup {NoStore}] /\ Known'
        /\ \A i \in 1..Len(list) : cached'[list[i]] # NoStore
    BY <1>0, <1>3, <1>4, <1>8, <2>0, LoadKeeps, Zenon
  <2>2. activeStorage' \in Managed' /\ conflictingActives' \subseteq Managed' /\ isAvailable'
    <3>1. ActiveAmong(stores', Len(stores'), cached') \in Range(stores')
      BY <1>5, <2>0, ActiveIsListed, Zenon
    <3> QED  BY <1>8, <3>1, Zenon DEF Partition, Managed
  <2>3. \A x \in Managed' : cached'[x] # NoStore
    BY <1>7, <2>1, Zenon
  <2>4. activeStorage' # NoStore
    BY <1>7, <2>2, ManagerAssumption, Zenon
  <2>5. PartTypes'
    BY <1>5, <1>6, <2>1, <2>2, <2>3, <2>4, Zenon DEF PartTypes
  <2>6. faults' \in 0..MaxFaults
    BY <1>0, <1>8, Zenon DEF SwitchTypes
  <2> QED  BY <2>1, <2>5, <2>6, Zenon
<1>9. ASSUME NEW n \in 0..Len(stores) - 1, Fault, MakeStoresAvailable(list, n + 1),
             PartitionFails(stores', n)
      PROVE  /\ time' \in 0..MaxTime /\ time <= time'
             /\ user' \in [Stores -> [active : Stores \cup {NoStore}, updated : 0..time']]
             /\ PartTypes' /\ Known' /\ faults' \in 0..MaxFaults
  <2>0. n + 1 \in 0..Len(list) /\ n \in 0..Len(stores')
    BY <1>2, <1>3, <1>5
  <2>1. /\ time' \in 0..MaxTime /\ time <= time'
        /\ user' \in [Stores -> [active : Stores \cup {NoStore}, updated : 0..time']]
        /\ cached' \in [Stores -> Stores \cup {NoStore}] /\ Known'
    BY <1>0, <1>3, <1>4, <1>9, <2>0, LoadKeeps, Zenon
  <2>2. activeStorage' \in Managed' /\ conflictingActives' \subseteq Managed' /\ ~isAvailable'
    <3>1. ActiveAmong(stores', n, cached') \in Range(stores')
      BY <1>5, <2>0, ActiveIsListed, Zenon
    <3>2. conflictingActives \subseteq Managed
      BY <1>0, Zenon DEF PartTypes
    <3> QED  BY <1>7, <1>9, <3>1, <3>2, Zenon DEF PartitionFails, Managed
  <2>3. faults' \in 0..MaxFaults
    BY <1>0, <1>9, ManagerAssumption DEF Fault, SwitchTypes
  <2>4. PartTypes'
    BY <1>5, <1>6, <2>1, <2>2, Zenon DEF PartTypes
  <2> QED  BY <2>1, <2>3, <2>4, Zenon
<1>10. /\ time' \in 0..MaxTime /\ time <= time'
       /\ user' \in [Stores -> [active : Stores \cup {NoStore}, updated : 0..time']]
       /\ PartTypes' /\ Known' /\ faults' \in 0..MaxFaults
  BY <1>8, <1>9, Zenon DEF AddWalletStorageProvider, list
<1>11. DBTypes' /\ ClaimTypes'
  BY <1>0, <1>1, <1>10, ClockGrows, Zenon DEF DBTypes
<1>12. RowsStay /\ RowsAtHome' /\ Watermarked'
  BY <1>0, <1>1, RowsUnchanged, Zenon
<1>13. SwitchTypes'
  BY <1>0, <1>1, <1>7, <1>10 DEF SwitchTypes
<1>14. ManagerTypeOK'
  BY <1>10, <1>11, <1>13, TypesInPartsNext, Zenon
<1> QED  BY <1>0, <1>1, <1>10, <1>12, <1>14, AtRest, Zenon

\* A backup on request.
LEMMA BackupKeeps ==
  ASSUME StorageInv, NEW w \in Stores, Backup(w)
  PROVE  StorageInv'
<1>0. DBTypes /\ PartTypes /\ SwitchTypes /\ ClaimTypes /\ Known /\ RowsAtHome /\ Watermarked /\ SwitchOK
  BY TypesInParts, Zenon DEF StorageInv
<1>1. /\ step = "idle" /\ result' = "none"
      /\ UNCHANGED <<time, managerVars, switchVars>>
      /\ SyncEnds(w, activeStorage) \/ SyncFails(w, activeStorage)
  BY Zenon DEF Backup
<1>2. activeStorage \in Stores
  BY <1>0 DEF Backup, PartTypes, Managed, Range
<1>3. /\ CopyTypes' /\ RowsStay /\ RowsAtHome' /\ Watermarked'
      /\ claimed' \subseteq claimed /\ faults' \in 0..MaxFaults
  <2>1. faults \in 0..MaxFaults
    BY <1>0, Zenon DEF SwitchTypes
  <2>2. CASE SyncEnds(w, activeStorage)
    BY <1>0, <1>1, <1>2, <2>1, <2>2, EndKeeps, Zenon
  <2>3. CASE SyncFails(w, activeStorage)
    <3>1. claimed' = claimed /\ faults' \in 0..MaxFaults
      BY <2>1, <2>3, ManagerAssumption DEF SyncFails, Fault
    <3> QED  BY <1>0, <1>1, <1>2, <2>3, <3>1, PartKeeps, Zenon
  <2> QED  BY <1>1, <2>2, <2>3, Zenon
<1>4. user' \in [Stores -> [active : Stores \cup {NoStore}, updated : 0..time]] /\ UsersStay
  BY <1>0, <1>1, <1>2, SyncUsers, Zenon DEF Known
<1>5. DBTypes' /\ ClaimTypes'
  BY <1>0, <1>1, <1>3, <1>4, Zenon DEF DBTypes, ClaimTypes
<1>6. PartTypes' /\ Managed' = Managed
  BY <1>0, <1>1, PartsUnchanged, Zenon
<1>7. Known'
  BY <1>0, <1>1, <1>4, Zenon DEF Known, UsersStay, managerVars
<1>8. SwitchTypes' /\ step' = "idle"
  BY <1>0, <1>1, <1>3, <1>6, Zenon DEF switchVars, SwitchTypes
<1>9. ManagerTypeOK'
  BY <1>5, <1>6, <1>8, TypesInPartsNext, Zenon
<1> QED  BY <1>0, <1>1, <1>3, <1>7, <1>8, <1>9, AtRest, Zenon

-----------------------------------------------------------------------------
(* Writes, at any time.                                                    *)

\* A new row is newer than every watermark, and only it becomes late.
LEMMA RowAdded ==
  ASSUME DBTypes, ClaimTypes, RowsAtHome, Watermarked, NEW s \in Stores, AddRow(s)
  PROVE  /\ time' \in 0..MaxTime /\ time <= time' /\ CopyTypes'
         /\ RowsStay /\ RowsAtHome' /\ Watermarked'
         /\ \A w \in Stores : \A f \in claimed : <<w, f>> \in late' => <<w, f>> \in late
<1> DEFINE new == [by |-> s, at |-> time']
<1>1. /\ time \in Nat /\ time < MaxTime /\ time' = time + 1
      /\ rows' = [rows EXCEPT ![s] = @ \cup {new}] /\ UNCHANGED <<when, open>>
      /\ rows \in [Stores -> SUBSET [by : Stores, at : 1..time]]
      /\ when \in [Stores -> [Stores -> 0..time]]
  <2>1. time \in Nat
    BY ManagerAssumption DEF DBTypes
  <2> QED  BY <2>1, Zenon DEF AddRow, DBTypes, CopyTypes
<1>2. time' \in 0..MaxTime /\ time <= time'
  BY <1>1, ManagerAssumption
<1>3. 1..time \subseteq 1..time' /\ 0..time \subseteq 0..time' /\ time' \in 1..time' /\ time' \notin 1..time
  BY <1>1
<1>4. new \in [by : Stores, at : 1..time'] /\ new.by = s /\ new.at = time + 1
  BY <1>1, <1>3, Zenon
<1>5. \A x \in Stores : rows'[x] = IF x = s THEN rows[s] \cup {new} ELSE rows[x]
  BY <1>1, Zenon
<1>6. PICK missed \in SUBSET Stores : late' = late \cup {<<w, new>> : w \in missed}
  <2>1. PICK running \in {{}} \cup {{w} : w \in SyncingTo(s)} :
          late' = late \cup {<<w, new>> : w \in {w \in Stores : <<w, s>> \in open} \cup running}
    BY Zenon DEF AddRow
  <2>2. {w \in Stores : <<w, s>> \in open} \cup running \in SUBSET Stores
    BY Zenon DEF SyncingTo
  <2> QED  BY <2>1, <2>2, Zenon
<1>7. new \notin [by : Stores, at : 1..time]
  BY <1>3, <1>4, Zenon
<1> HIDE DEF new
<1>8. [by : Stores, at : 1..time] \subseteq [by : Stores, at : 1..time']
  BY <1>3, Zenon
<1>9. CopyTypes'
  <2>1. rows' \in [Stores -> SUBSET [by : Stores, at : 1..time']]
    <3>1. rows \in [Stores -> SUBSET [by : Stores, at : 1..time']]
      BY <1>1, <1>8, Zenon
    <3> QED  BY <1>1, <1>4, <3>1, Zenon
  <2>2. when' \in [Stores -> [Stores -> 0..time']]
    <3>1. UNCHANGED when /\ when \in [Stores -> [Stores -> 0..time]]
      BY <1>1, Zenon
    <3>2. 0..time \subseteq 0..time'
      BY <1>3, Zenon
    <3> QED  BY <3>1, <3>2, Zenon
  <2>3. late' \subseteq Stores \X [by : Stores, at : 1..time']
    <3>1. late \subseteq Stores \X [by : Stores, at : 1..time']
      BY <1>8, Zenon DEF DBTypes, CopyTypes
    <3> QED  BY <1>4, <1>6, <3>1
  <2> QED  BY <1>1, <2>1, <2>2, <2>3, Zenon DEF DBTypes, CopyTypes
<1>10. RowsStay
  BY <1>5, Zenon DEF RowsStay
<1>11. RowsAtHome'
  <2> SUFFICES ASSUME NEW x \in Stores, NEW f \in rows'[x] PROVE f \in rows'[f.by]
    BY Zenon DEF RowsAtHome
  <2>1. CASE f \in rows[x]
    <3>1. f.by \in Stores /\ f \in rows[f.by]
      BY <1>1, <2>1 DEF RowsAtHome
    <3> QED  BY <1>10, <3>1, Zenon DEF RowsStay
  <2>2. CASE f = new
    BY <1>4, <1>5, <2>2, Zenon
  <2> QED  BY <1>5, <2>1, <2>2, Zenon
<1>12. Watermarked'
  <2> SUFFICES ASSUME NEW w \in Stores, NEW r \in Stores, NEW f \in rows'[r], f.by = r,
                      f.at <= when'[w][r]
               PROVE  f \in rows'[w] \/ <<w, f>> \in late'
    BY Zenon DEF Watermarked, OwnRows
  <2>1. CASE f \in rows[r]
    BY <1>1, <1>6, <1>10, <2>1, Zenon DEF Watermarked, OwnRows, RowsStay
  <2>2. CASE f = new
    <3>1. when[w][r] \in 0..time
      BY <1>1, Zenon
    <3> QED  BY <1>1, <1>4, <2>2, <3>1
  <2> QED  BY <1>5, <2>1, <2>2, Zenon
<1>13. ASSUME NEW w \in Stores, NEW f \in claimed, <<w, f>> \in late' PROVE <<w, f>> \in late
  <2>1. f # new
    BY <1>7, Zenon DEF ClaimTypes
  <2> QED  BY <1>6, <1>13, <2>1, Zenon
<1> QED  BY <1>2, <1>9, <1>10, <1>11, <1>12, <1>13, Zenon

\* A switch under way does not mind what others write.
LEMMA SwitchGoesOn ==
  ASSUME PartTypes, SwitchTypes, ClaimTypes, SwitchOK, RowsStay, result' # "switched",
         UNCHANGED <<when, managerVars, switchVars, claimed>>,
         isAvailable => \A s \in Managed : user'[s] = user[s],
         \A w \in Stores : \A f \in claimed : <<w, f>> \in late' => <<w, f>> \in late
  PROVE  SwitchOK'
<1>1. UNCHANGED <<when, stores, cached, isAvailable, step, target, backupSource, todo, claimed>>
      /\ Managed' = Managed
  BY Zenon DEF managerVars, switchVars, Managed
<1>2. stores \in Seq(Stores) /\ Len(stores) \in Nat /\ Managed \subseteq Stores
      /\ \A i \in 1..Len(stores) : stores[i] \in Managed
  BY DEF PartTypes, Managed, Range
<1>3. ASSUME step = "push" PROVE PushOK'
  <2>1. PushOK /\ isAvailable /\ target \in Managed /\ backupSource \in Managed
    BY <1>3, Zenon DEF SwitchOK
  <2>2. \A s \in Managed : user'[s] = user[s]
    BY <2>1, Zenon
  <2>3. Range(todo) \subseteq Managed
    BY DEF SwitchTypes, Range
  <2>4. \A s \in Range(todo) \ {backupSource} :
          /\ user'[s].updated < user'[backupSource].updated
          /\ when'[s][backupSource] < user'[backupSource].updated
    BY <1>1, <2>1, <2>2, <2>3, Zenon DEF PushOK
  <2>5. \A i \in 1..(Len(stores) - Len(todo)) :
          user'[stores[i]].active = target /\ cached[stores[i]] = target
    <3> TAKE i \in 1..(Len(stores) - Len(todo))
    <3>1. Len(todo) \in Nat /\ i \in 1..Len(stores)
      BY <1>2 DEF SwitchTypes
    <3> QED  BY <1>2, <2>1, <2>2, <3>1, Zenon DEF PushOK
  <2>6. user'[backupSource].active = target
    BY <2>1, <2>2, Zenon DEF PushOK
  <2>7. \A f \in claimed : f \in rows'[target] \/ (f.by = backupSource /\ target \in Range(todo))
    BY <1>2, <2>1, Zenon DEF PushOK, RowsStay
  <2>8. todo # <<>> /\ Len(todo) <= Len(stores)
        /\ \A i \in 1..Len(todo) : todo[i] = stores[Len(stores) - Len(todo) + i]
    BY <2>1, Zenon DEF PushOK
  <2> QED  BY <1>1, <2>4, <2>5, <2>6, <2>7, <2>8, Zenon DEF PushOK
<1>4. \A f \in claimed' : f \in rows'[f.by]
  BY <1>1, ClaimsStay, Zenon
<1>5. step = "merge" => \A f \in claimed : f \in rows'[target] \/ f.by \in Range(todo)
  BY <1>2, Zenon DEF SwitchOK, RowsStay
<1>6. step = "mark" => \A f \in claimed : f \in rows'[target] \/ f.by = backupSource
  BY <1>2, Zenon DEF SwitchOK, RowsStay
<1>7. step \in {"merge", "mark", "push"} => \A f \in claimed : <<target, f>> \notin late'
  BY <1>2, Zenon DEF SwitchOK
<1> QED  BY <1>1, <1>3, <1>4, <1>5, <1>6, <1>7, Zenon DEF SwitchOK

\* A write on the active store, or on any store by a wallet elsewhere, adds a row that
\* no switch under way has claimed.
LEMMA WorkKeeps ==
  ASSUME StorageInv, Work \/ \E s \in Stores : WorkElsewhere(s)
  PROVE  StorageInv'
<1>0. DBTypes /\ PartTypes /\ SwitchTypes /\ ClaimTypes /\ Known /\ RowsAtHome /\ Watermarked /\ SwitchOK
  BY TypesInParts, Zenon DEF StorageInv
<1>1. result' = "none" /\ UNCHANGED <<when, managerVars, switchVars, faults, claimed>>
  BY Zenon DEF Work, WorkElsewhere, AddRow, copies
<1>2. PartTypes' /\ Managed' = Managed /\ UNCHANGED cached
  BY <1>0, <1>1, PartsUnchanged, Zenon DEF managerVars
<1>3. SwitchTypes'
  BY <1>0, <1>1, <1>2, Zenon DEF SwitchTypes, switchVars
<1>4. ASSUME NEW s \in Stores, AddRow(s), UNCHANGED user
      PROVE  DBTypes' /\ ClaimTypes' /\ Known' /\ RowsStay /\ RowsAtHome' /\ Watermarked' /\ SwitchOK'
  <2>1. /\ time' \in 0..MaxTime /\ time <= time' /\ CopyTypes'
        /\ RowsStay /\ RowsAtHome' /\ Watermarked'
        /\ \A w \in Stores : \A f \in claimed : <<w, f>> \in late' => <<w, f>> \in late
    BY <1>0, <1>4, RowAdded, Zenon
  <2>2. /\ user' \in [Stores -> [active : Stores \cup {NoStore}, updated : 0..time']]
        /\ ClaimTypes'
    BY <1>0, <1>1, <1>4, <2>1, ClockGrows, Zenon
  <2>3. DBTypes' /\ Known'
    BY <1>0, <1>2, <1>4, <2>1, <2>2, KnownUnchanged, Zenon DEF DBTypes
  <2>4. SwitchOK'
    BY <1>0, <1>1, <1>4, <2>1, SwitchGoesOn, Zenon
  <2> QED  BY <2>1, <2>2, <2>3, <2>4, Zenon
<1>5. ASSUME NEW s \in Stores, user[s].updated = 0, time < MaxTime, time' = time + 1,
             user' = [user EXCEPT ![s] = [active |-> s, updated |-> time']], UNCHANGED copies
      PROVE  DBTypes' /\ ClaimTypes' /\ Known' /\ RowsStay /\ RowsAtHome' /\ Watermarked' /\ SwitchOK'
  <2>1. time \in Nat /\ time' \in 0..MaxTime /\ time <= time' /\ time' \in 0..time' /\ time' > 0
        /\ user \in [Stores -> [active : Stores \cup {NoStore}, updated : 0..time]]
    BY <1>0, <1>5, ManagerAssumption DEF DBTypes
  <2>2. 0..time \subseteq 0..time' /\ CopyTypes' /\ ClaimTypes' /\ UNCHANGED late
    BY <1>0, <1>1, <1>5, <2>1, ClockGrows, Zenon DEF copies
  <2>3. user \in [Stores -> [active : Stores \cup {NoStore}, updated : 0..time']]
    BY <2>1, <2>2, Zenon
  <2>4. user' \in [Stores -> [active : Stores \cup {NoStore}, updated : 0..time']]
    BY <1>5, <2>1, <2>3, Zenon
  <2>5. DBTypes'
    BY <2>1, <2>2, <2>4, Zenon DEF DBTypes
  <2>6. Known'
    BY <1>0, <1>2, <1>5, <2>1, Zenon DEF Known
  <2>7. RowsStay /\ RowsAtHome' /\ Watermarked'
    BY <1>0, <1>1, <1>5, RowsUnchanged, Zenon
  <2>8. isAvailable => \A x \in Managed : user'[x] = user[x]
    <3>1. isAvailable => s \notin Managed
      BY <1>0, <1>5 DEF PartTypes, Known
    <3>2. Managed \subseteq Stores
      BY <1>0 DEF PartTypes, Managed, Range
    <3> QED  BY <1>5, <2>1, <3>1, <3>2, Zenon
  <2>9. SwitchOK'
    BY <1>0, <1>1, <2>2, <2>7, <2>8, SwitchGoesOn, Zenon
  <2> QED  BY <2>2, <2>5, <2>6, <2>7, <2>9, Zenon
<1>6. DBTypes' /\ ClaimTypes' /\ Known' /\ RowsAtHome' /\ Watermarked' /\ SwitchOK'
  <2>1. CASE Work
    <3>1. activeStorage \in Stores
      BY <1>0, <2>1 DEF Work, PartTypes, Managed, Range
    <3> QED  BY <1>4, <2>1, <3>1, Zenon DEF Work
  <2>2. CASE \E s \in Stores : WorkElsewhere(s)
    BY <1>4, <1>5, <2>2, Zenon DEF WorkElsewhere
  <2> QED  BY <2>1, <2>2, Zenon
<1>7. ManagerTypeOK'
  BY <1>2, <1>3, <1>6, TypesInPartsNext, Zenon
<1> QED  BY <1>1, <1>6, <1>7, Zenon DEF StorageInv, SwitchedEverywhere, OwnRowsFollow

-----------------------------------------------------------------------------
(* The steps of a switch.                                                  *)

\* The beginning of a switch: what the claiming stores took is on the target, or
\* on the stores to be merged, or on the one source.
LEMMA BeginKeeps ==
  ASSUME StorageInv, BeginMerge \/ BeginBackup \/ NotManaged
  PROVE  StorageInv'
<1>0. /\ DBTypes /\ PartTypes /\ SwitchTypes /\ ClaimTypes /\ Known /\ RowsAtHome /\ Watermarked
      /\ SwitchOK
  BY TypesInParts, Zenon DEF StorageInv
<1>1. /\ step = "begin" /\ isAvailable /\ target \in Stores /\ activeStorage \in Managed
      /\ Managed \subseteq Stores /\ conflictingActives \subseteq Managed /\ result # "switched"
  <2>1. step = "begin"
    BY Zenon DEF BeginMerge, BeginBackup, NotManaged
  <2> QED  BY <1>0, <2>1 DEF SwitchOK, PartTypes, Managed, Range
<1>2. UNCHANGED <<time, dbVars, stores, cached, activeStorage, isAvailable, faults>> /\ Managed' = Managed
  BY Zenon DEF BeginMerge, BeginBackup, NotManaged, managerVars, Managed
<1>3. DBTypes' /\ RowsStay /\ RowsAtHome' /\ Watermarked'
  BY <1>0, <1>2, DBUnchanged, Zenon
<1>4. Known'
  BY <1>0, <1>2, KnownUnchanged, Zenon DEF dbVars
<1>5. \A s \in Managed : \A f \in OwnRowsFor(target, s) :
        /\ f \in [by : Stores, at : 1..time] /\ f.by = s /\ f \in rows[f.by]
        /\ <<target, f>> \notin late
  BY <1>0, <1>1, Zenon DEF OwnRowsFor, OwnRows, DBTypes, CopyTypes
<1>6. CASE NotManaged
  <2>1. PartTypes' /\ UNCHANGED claimed /\ ClaimTypes'
    BY <1>0, <1>2, <1>6, PartsUnchanged, Zenon DEF NotManaged, ClaimTypes
  <2>2. SwitchTypes' /\ step' = "idle" /\ result' # "switched"
    <3>1. faults' \in 0..MaxFaults
      BY <1>0, <1>2, Zenon DEF SwitchTypes
    <3> QED  BY <1>6, <3>1, Returned, Zenon DEF NotManaged
  <2>3. ManagerTypeOK'
    BY <1>3, <2>1, <2>2, TypesInPartsNext, Zenon
  <2> QED  BY <1>0, <1>3, <1>4, <2>1, <2>2, <2>3, AtRest, Zenon
<1>7. CASE BeginBackup
  <2>1. /\ target \in Managed /\ step' = "mark" /\ backupSource' = activeStorage
        /\ claimed' = OwnRowsFor(target, activeStorage)
        /\ UNCHANGED <<target, todo, result, rows, late>>
    BY <1>7, Zenon DEF BeginBackup, dbVars, copies
  <2>2. PartTypes'
    BY <1>0, <1>7, PartsUnchanged, Zenon DEF BeginBackup
  <2>3. SwitchTypes'
    BY <1>0, <1>1, <1>2, <2>1, Zenon DEF SwitchTypes
  <2>4. ClaimTypes'
    BY <1>1, <1>2, <1>5, <2>1, Zenon DEF ClaimTypes
  <2>5. ManagerTypeOK'
    BY <1>3, <2>2, <2>3, <2>4, TypesInPartsNext, Zenon
  <2>6. \A f \in claimed' :
          f \in rows'[f.by] /\ f.by = backupSource' /\ <<target', f>> \notin late'
    BY <1>1, <1>5, <2>1, Zenon
  <2>7. SwitchOK'
    BY <1>1, <1>2, <2>1, <2>6, Zenon DEF SwitchOK
  <2> QED  BY <1>1, <1>3, <1>4, <2>1, <2>5, <2>7, Zenon
      DEF StorageInv, SwitchedEverywhere, OwnRowsFollow
<1>8. CASE BeginMerge
  <2> DEFINE merged == (conflictingActives \cup {activeStorage}) \ {target}
  <2>1. /\ target \in Managed /\ step' = "merge" /\ backupSource' = target
        /\ conflictingActives' = merged /\ todo' \in Orders(merged)
        /\ claimed' = UNION {OwnRowsFor(target, s) : s \in conflictingActives \cup {activeStorage}}
        /\ UNCHANGED <<target, result, rows, late>>
    BY <1>8, Zenon DEF BeginMerge, dbVars, copies
  <2>2. merged \subseteq Managed
    BY <1>1, Zenon
  <2>3. todo' \in Seq(merged) /\ Range(todo') = merged
    <3>1. IsFiniteSet(Managed)
      BY <1>0, ManagedIsFinite, Zenon
    <3>2. IsFiniteSet(merged)
      BY <2>2, <3>1, FS_Subset, Zenon
    <3> QED  BY <2>1, <3>2, SeqsOf, Zenon
  <2>4. PartTypes'
    BY <1>0, <1>2, <2>1, <2>2, Zenon DEF PartTypes
  <2>5. SwitchTypes'
    <3>1. todo' \in Seq(Managed')
      BY <1>2, <2>2, <2>3
    <3> QED  BY <1>0, <1>2, <2>1, <3>1, Zenon DEF SwitchTypes
  <2>6. \A f \in claimed' : /\ f \in [by : Stores, at : 1..time] /\ f \in rows[f.by]
                            /\ f.by \in conflictingActives \cup {activeStorage}
                            /\ <<target, f>> \notin late
    BY <1>1, <1>5, <2>1
  <2>7. ClaimTypes'
    BY <1>2, <2>6, Zenon DEF ClaimTypes
  <2>8. ManagerTypeOK'
    BY <1>3, <2>4, <2>5, <2>7, TypesInPartsNext, Zenon
  <2>9. \A f \in claimed' : /\ f \in rows'[f.by] /\ <<target', f>> \notin late'
                            /\ f \in rows'[target'] \/ f.by \in Range(todo')
    BY <2>1, <2>3, <2>6, Zenon
  <2>10. SwitchOK'
    BY <1>1, <1>2, <2>1, <2>9, Zenon DEF SwitchOK
  <2> QED  BY <1>1, <1>3, <1>4, <2>1, <2>8, <2>10, Zenon
      DEF StorageInv, SwitchedEverywhere, OwnRowsFollow
<1> QED  BY <1>6, <1>7, <1>8, Zenon

\* A switch that fails in a Sync leaves what that brought.
LEMMA FailedKeeps ==
  ASSUME StorageInv, NEW w \in Stores, NEW r \in Stores, SyncFails(w, r), Return("failed"),
         PartTypes', Known' \/ UNCHANGED cached, UNCHANGED time
  PROVE  StorageInv'
<1>0. /\ DBTypes /\ PartTypes /\ SwitchTypes /\ ClaimTypes /\ Known /\ RowsAtHome /\ Watermarked
      /\ SwitchOK
  BY TypesInParts, Zenon DEF StorageInv
<1>1. CopyTypes' /\ RowsStay /\ RowsAtHome' /\ Watermarked' /\ UNCHANGED claimed
  BY <1>0, PartKeeps, Zenon DEF SyncFails
<1>2. user' \in [Stores -> [active : Stores \cup {NoStore}, updated : 0..time]] /\ UsersStay
  BY <1>0, SyncUsers, Zenon DEF Known
<1>3. DBTypes' /\ ClaimTypes'
  BY <1>0, <1>1, <1>2, Zenon DEF DBTypes, ClaimTypes
<1>4. Known'
  BY <1>0, <1>2, Zenon DEF Known, UsersStay
<1>5. SwitchTypes' /\ step' = "idle" /\ result' # "switched"
  <2>1. faults' \in 0..MaxFaults
    BY <1>0, ManagerAssumption DEF SyncFails, Fault, SwitchTypes
  <2> QED  BY <2>1, Returned, Zenon
<1>6. ManagerTypeOK'
  BY <1>3, <1>5, TypesInPartsNext, Zenon
<1> QED  BY <1>0, <1>1, <1>4, <1>5, <1>6, AtRest, Zenon

\* A conflicting store is merged: its own rows are on the target.
LEMMA MergeKeeps ==
  ASSUME StorageInv, MergeNext
  PROVE  StorageInv'
<1>0. /\ DBTypes /\ PartTypes /\ SwitchTypes /\ ClaimTypes /\ Known /\ RowsAtHome /\ Watermarked
      /\ SwitchOK
  BY TypesInParts, Zenon DEF StorageInv
<1>1. /\ step = "merge" /\ isAvailable /\ target \in Managed /\ backupSource = target
      /\ Managed \subseteq Stores /\ result # "switched"
      /\ todo \in Seq(Managed) /\ todo # <<>>
      /\ \A f \in claimed : /\ f \in rows[f.by] /\ <<target, f>> \notin late
                            /\ f \in rows[target] \/ f.by \in Range(todo)
  BY <1>0 DEF MergeNext, SwitchOK, SwitchTypes, PartTypes, Managed, Range
<1>2. /\ Head(todo) \in Stores /\ Tail(todo) \in Seq(Managed)
      /\ \A x \in Range(todo) : x = Head(todo) \/ x \in Range(Tail(todo))
  BY <1>1, HeadAndTail, Zenon
<1>3. ASSUME SyncEnds(target, Head(todo)), todo' = Tail(todo),
             step' = IF todo' = <<>> THEN "mark" ELSE step,
             UNCHANGED <<time, managerVars, target, backupSource, result>>
      PROVE  StorageInv'
  <2>1. /\ CopyTypes' /\ RowsStay /\ RowsAtHome' /\ Watermarked'
        /\ \A f \in claimed' :
             f \in OwnRows(Head(todo)) => f \in rows'[target] \/ <<target, f>> \in late
        /\ claimed' \subseteq claimed /\ faults' \in 0..MaxFaults /\ UNCHANGED late
    <3>1. faults \in 0..MaxFaults /\ target \in Stores
      BY <1>0, <1>1, Zenon DEF SwitchTypes
    <3> QED  BY <1>0, <1>2, <1>3, <3>1, EndKeeps, Zenon
  <2>2. user' \in [Stores -> [active : Stores \cup {NoStore}, updated : 0..time]] /\ UsersStay
    BY <1>0, <1>1, <1>2, <1>3, SyncUsers, Zenon DEF Known
  <2>3. DBTypes' /\ ClaimTypes'
    BY <1>0, <1>3, <2>1, <2>2, Zenon DEF DBTypes, ClaimTypes
  <2>4. PartTypes' /\ Managed' = Managed /\ UNCHANGED <<cached, isAvailable>>
    BY <1>0, <1>3, PartsUnchanged, Zenon DEF managerVars
  <2>5. Known'
    BY <1>0, <2>2, <2>4, Zenon DEF Known, UsersStay
  <2>6. step' \in {"merge", "mark"} /\ (step' = "mark" => todo' = <<>>)
    BY <1>1, <1>3, Zenon
  <2>7. SwitchTypes'
    BY <1>0, <1>2, <1>3, <2>1, <2>4, <2>6, Zenon DEF SwitchTypes
  <2>8. ManagerTypeOK'
    BY <2>3, <2>4, <2>7, TypesInPartsNext, Zenon
  <2>9. \A f \in claimed' : f \in rows'[target] \/ f.by \in Range(todo')
    <3> TAKE f \in claimed'
    <3>0. f \in claimed
      BY <2>1, Zenon
    <3>1. CASE f \in rows[target]
      BY <1>1, <2>1, <3>1, Zenon DEF RowsStay
    <3>2. CASE f.by = Head(todo)
      BY <1>1, <2>1, <3>0, <3>2, Zenon DEF OwnRows
    <3> QED  BY <1>1, <1>2, <1>3, <3>0, <3>1, <3>2, Zenon
  <2>10. todo' = <<>> => Range(todo') = {}
    BY DEF Range
  <2>11. \A f \in claimed' : f \in rows'[f.by] /\ <<target', f>> \notin late'
    BY <1>0, <1>1, <1>3, <2>1, ClaimsStay, Zenon
  <2>12. SwitchOK'
    BY <1>1, <1>3, <2>4, <2>6, <2>9, <2>10, <2>11, Zenon DEF SwitchOK
  <2> QED  BY <1>1, <1>3, <2>1, <2>5, <2>8, <2>12, Zenon
      DEF StorageInv, SwitchedEverywhere, OwnRowsFollow
<1>4. ASSUME SyncFails(target, Head(todo)), SwitchFails
      PROVE  StorageInv'
  <2>1. PartTypes' /\ Return("failed") /\ UNCHANGED <<time, cached>>
    BY <1>0, <1>4, PartsUnchanged, Zenon DEF SwitchFails, managerVars
  <2> QED  BY <1>1, <1>2, <1>4, <2>1, FailedKeeps, Zenon
<1> QED  BY <1>3, <1>4, Zenon DEF MergeNext

\* The source's users row names the target and is newer than anything anywhere.
LEMMA MarkKeeps ==
  ASSUME StorageInv, Mark
  PROVE  StorageInv'
<1>0. /\ DBTypes /\ PartTypes /\ SwitchTypes /\ ClaimTypes /\ Known /\ RowsAtHome /\ Watermarked
      /\ SwitchOK
  BY TypesInParts, Zenon DEF StorageInv
<1>1. /\ step = "mark" /\ isAvailable /\ target \in Managed /\ backupSource \in Managed
      /\ Managed \subseteq Stores /\ result # "switched"
      /\ \A f \in claimed : /\ f \in rows[f.by] /\ <<target, f>> \notin late
                            /\ f \in rows[target] \/ f.by = backupSource
  BY <1>0 DEF Mark, SwitchOK, PartTypes, Managed, Range
<1>2. ASSUME time < MaxTime, time' = time + 1,
             user' = [user EXCEPT ![backupSource] = [active |-> target, updated |-> time']],
             step' = "push", todo' = stores,
             UNCHANGED <<copies, managerVars, target, backupSource, faults, result, claimed>>
      PROVE  StorageInv'
  <2>1. PartTypes' /\ Managed' = Managed /\ UNCHANGED <<stores, cached, isAvailable>>
    BY <1>0, <1>2, PartsUnchanged, Zenon DEF managerVars
  <2>2. time \in Nat /\ time' \in 0..MaxTime /\ time <= time' /\ time' \in 0..time' /\ time' > 0
    <3>1. MaxTime \in Nat /\ time \in 0..MaxTime
      BY <1>0, ManagerAssumption, Zenon DEF DBTypes
    <3> QED  BY <1>2, <3>1
  <2>3. /\ 0..time \subseteq 0..time' /\ ClaimTypes' /\ CopyTypes'
        /\ UNCHANGED <<rows, when, late>>
    BY <1>0, <1>2, <2>2, ClockGrows, Zenon DEF copies
  <2>4. /\ user'[backupSource] = [active |-> target, updated |-> time']
        /\ \A s \in Stores \ {backupSource} : user'[s] = user[s]
        /\ user' \in [Stores -> [active : Stores \cup {NoStore}, updated : 0..time']]
    <3>1. user \in [Stores -> [active : Stores \cup {NoStore}, updated : 0..time']]
      BY <1>0, <2>3, Zenon DEF DBTypes
    <3> QED  BY <1>1, <1>2, <2>2, <3>1, Zenon
  <2>5. DBTypes'
    BY <2>2, <2>3, <2>4, Zenon DEF DBTypes
  <2>6. Known'
    BY <1>0, <1>1, <2>1, <2>2, <2>4 DEF Known
  <2>7. RowsStay /\ RowsAtHome' /\ Watermarked'
    BY <1>0, <1>2, RowsUnchanged, Zenon
  <2>8. /\ stores \in Seq(Managed) /\ Range(stores) = Managed /\ stores # <<>>
        /\ Len(stores) \in Nat /\ Len(stores) - Len(stores) = 0
    BY <1>0, <1>1 DEF PartTypes, Managed, Range
  <2>9. SwitchTypes'
    BY <1>0, <1>2, <2>1, <2>8, Zenon DEF SwitchTypes
  <2>10. ManagerTypeOK'
    BY <2>1, <2>3, <2>5, <2>9, TypesInPartsNext, Zenon
  <2>11. \A s \in Managed \ {backupSource} :
           user'[s].updated < user'[backupSource].updated /\ when[s][backupSource] < user'[backupSource].updated
    <3> TAKE s \in Managed \ {backupSource}
    <3>1. user[s].updated \in 0..time /\ when[s][backupSource] \in 0..time /\ user'[s] = user[s]
      BY <1>0, <1>1, <2>4, Zenon DEF DBTypes, CopyTypes
    <3> QED  BY <1>2, <2>2, <2>4, <3>1
  <2>12. PushOK'
    <3>1. \A i \in 1..Len(stores) : stores[i] = stores[Len(stores) - Len(stores) + i]
      BY <2>8
    <3>2. user'[backupSource].active = target
      BY <2>4
    <3>3. \A i \in 1..(Len(stores) - Len(stores)) :
            user'[stores[i]].active = target /\ cached[stores[i]] = target
      BY <2>8
    <3>4. \A f \in claimed : f \in rows[target] \/ (f.by = backupSource /\ target \in Range(stores))
      BY <1>1, <2>8, Zenon
    <3>5. stores # <<>> /\ Len(stores) <= Len(stores)
      BY <2>8
    <3> QED  BY <1>2, <2>1, <2>3, <2>8, <2>11, <3>1, <3>2, <3>3, <3>4, <3>5, Zenon DEF PushOK
  <2>13. \A f \in claimed' : f \in rows'[f.by] /\ <<target', f>> \notin late'
    BY <1>1, <1>2, <2>3, Zenon
  <2>14. SwitchOK'
    BY <1>1, <1>2, <2>1, <2>12, <2>13, Zenon DEF SwitchOK
  <2> QED  BY <1>1, <1>2, <2>6, <2>7, <2>10, <2>14, Zenon
      DEF StorageInv, SwitchedEverywhere, OwnRowsFollow
<1>3. ASSUME SwitchFails, Fault, UNCHANGED <<dbVars, claimed>>
      PROVE  StorageInv'
  <2>1. PartTypes' /\ Return("failed") /\ UNCHANGED <<time, claimed, cached, user>>
    BY <1>0, <1>3, PartsUnchanged, Zenon DEF SwitchFails, managerVars, dbVars
  <2>2. DBTypes' /\ RowsStay /\ RowsAtHome' /\ Watermarked' /\ Known'
    BY <1>0, <1>3, <2>1, DBUnchanged, KnownUnchanged, Zenon
  <2>3. SwitchTypes' /\ step' = "idle" /\ result' # "switched"
    <3>1. faults' \in 0..MaxFaults
      BY <1>0, <1>3, ManagerAssumption DEF Fault, SwitchTypes
    <3> QED  BY <2>1, <3>1, Returned, Zenon
  <2>4. ManagerTypeOK'
    BY <1>0, <2>1, <2>2, <2>3, TypesInPartsNext, Zenon DEF ClaimTypes
  <2> QED  BY <1>0, <2>1, <2>2, <2>3, <2>4, AtRest, Zenon
<1> QED  BY <1>2, <1>3, Zenon DEF Mark

\* A store pushed to names the target, has the source's own rows, and leaves the
\* stores to come as they were.
LEMMA PushDone ==
  ASSUME DBTypes, PartTypes, SwitchTypes, ClaimTypes, Known, RowsAtHome, Watermarked, SwitchOK,
         step = "push",
         IF Head(todo) = backupSource THEN UNCHANGED <<dbVars, faults, claimed>>
         ELSE SyncEnds(Head(todo), backupSource),
         cached' = [cached EXCEPT ![Head(todo)] = target],
         UNCHANGED <<time, stores>>
  PROVE  /\ DBTypes' /\ ClaimTypes' /\ Known' /\ RowsStay /\ RowsAtHome' /\ Watermarked'
         /\ faults' \in 0..MaxFaults /\ UNCHANGED late /\ claimed' \subseteq claimed
         /\ cached' \in [Stores -> Stores \cup {NoStore}]
         /\ \A s \in Managed : cached[s] # NoStore => cached'[s] # NoStore
         /\ user'[backupSource].active = target
         /\ \A i \in 1..(Len(stores) - Len(todo) + 1) :
              user'[stores[i]].active = target /\ cached'[stores[i]] = target
         /\ \A s \in Range(Tail(todo)) \ {backupSource} :
              /\ user'[s].updated < user'[backupSource].updated
              /\ when'[s][backupSource] < user'[backupSource].updated
         /\ \A f \in claimed' :
              f \in rows'[target] \/ (f.by = backupSource /\ target \in Range(Tail(todo)))
<1> DEFINE s == Head(todo)
           n == Len(stores) - Len(todo)
<1>1. /\ isAvailable /\ target \in Managed /\ backupSource \in Managed /\ PushOK
      /\ Managed \subseteq Stores /\ todo \in Seq(Managed) /\ todo # <<>>
      /\ target \in Stores /\ backupSource \in Stores
  <2>1. isAvailable /\ target \in Managed /\ backupSource \in Managed /\ PushOK
    BY Zenon DEF SwitchOK
  <2>2. todo \in Seq(Managed) /\ todo # <<>>
    BY <2>1, Zenon DEF SwitchTypes, PushOK
  <2>3. Managed \subseteq Stores
    BY ManagedIsFinite, Zenon
  <2> QED  BY <2>1, <2>2, <2>3, Zenon
<1>2. /\ s \in Managed /\ Tail(todo) \in Seq(Managed) /\ Len(Tail(todo)) = Len(todo) - 1
      /\ \A x \in Range(todo) : x = s \/ x \in Range(Tail(todo))
      /\ \A i \in 1..Len(Tail(todo)) : Tail(todo)[i] = todo[i + 1]
  BY <1>1, HeadAndTail, Zenon
<1>3. /\ Len(stores) \in Nat /\ Len(todo) \in Nat \ {0} /\ n \in Nat /\ n + 1 \in 1..Len(stores)
      /\ s = todo[1] /\ 1 \in 1..Len(todo) /\ s = stores[n + 1]
  <2>1. Len(stores) \in Nat /\ Len(todo) \in Nat \ {0} /\ Len(todo) <= Len(stores) /\ s = todo[1]
    BY <1>1 DEF PartTypes, PushOK
  <2> QED  BY <1>1, <2>1 DEF PushOK
<1>4. s \in Range(todo)
  BY <1>1, <1>3 DEF Range
<1>5. /\ \A i \in 1..n : stores[i] # s /\ stores[i] \in Managed
      /\ \A i \in 1..(n + 1) : i \in 1..n \/ i = n + 1
  BY <1>3 DEF PartTypes, IsInjective, Managed, Range
<1>6. \A x \in Range(Tail(todo)) : x # s /\ x \in Range(todo) /\ x \in Managed
  <2> TAKE x \in Range(Tail(todo))
  <2>1. PICK i \in 1..Len(Tail(todo)) : x = Tail(todo)[i]
    BY <1>2 DEF Range
  <2>2. i + 1 \in 1..Len(todo) /\ x = todo[i + 1] /\ i \in Nat \ {0}
    BY <1>2, <1>3, <2>1
  <2>3. x = stores[n + (i + 1)] /\ n + (i + 1) \in 1..Len(stores) /\ n + (i + 1) # n + 1
    <3>1. x = stores[n + (i + 1)]
      BY <1>1, <2>2, Zenon DEF PushOK
    <3>2. n + (i + 1) \in 1..Len(stores) /\ n + (i + 1) # n + 1
      BY <1>3, <2>2
    <3> QED  BY <3>1, <3>2, Zenon
  <2>4. x # s
    BY <1>3, <2>3 DEF PartTypes, IsInjective
  <2>5. x \in Range(todo) /\ x \in Managed
    BY <1>1, <2>2 DEF Range
  <2> QED  BY <2>4, <2>5, Zenon
<1>7. /\ DBTypes' /\ RowsStay /\ RowsAtHome' /\ Watermarked' /\ UsersStay
      /\ faults' \in 0..MaxFaults /\ UNCHANGED late /\ claimed' \subseteq claimed
      /\ \A x \in Stores \ {s} : user'[x] = user[x] /\ when'[x] = when[x]
      /\ user'[s].active = target
      /\ s = backupSource => user'[s] = user[s]
      /\ s # backupSource => \A f \in claimed' :
           f \in OwnRows(backupSource) => f \in rows'[s] \/ <<s, f>> \in late
  <2>1. CASE s = backupSource
    <3>1. UNCHANGED <<dbVars, faults, claimed>> /\ faults' \in 0..MaxFaults
      BY <2>1, Zenon DEF SwitchTypes
    <3>2. UNCHANGED <<user, when, late>>
      BY <3>1, Zenon DEF dbVars, copies
    <3>3. DBTypes' /\ RowsStay /\ RowsAtHome' /\ Watermarked'
      BY <3>1, DBUnchanged, Zenon
    <3>4. UsersStay
      BY <3>2, Zenon DEF Known, UsersStay
    <3>5. user'[s].active = target
      BY <1>1, <2>1, <3>2, Zenon DEF PushOK
    <3> QED  BY <2>1, <3>1, <3>2, <3>3, <3>4, <3>5, Zenon
  <2>2. CASE s # backupSource
    <3>1. SyncEnds(s, backupSource) /\ s \in Stores /\ faults \in 0..MaxFaults
      BY <1>1, <1>2, <2>2, Zenon DEF SwitchTypes
    <3>2. SendsUser(s, backupSource)
      BY <1>1, <1>4, <2>2, Zenon DEF PushOK, SendsUser
    <3>3. /\ CopyTypes' /\ RowsStay /\ RowsAtHome' /\ Watermarked'
          /\ \A f \in claimed' :
               f \in OwnRows(backupSource) => f \in rows'[s] \/ <<s, f>> \in late
          /\ \A x \in Stores \ {s} : when'[x] = when[x]
          /\ claimed' \subseteq claimed /\ faults' \in 0..MaxFaults /\ UNCHANGED late
      BY <1>1, <3>1, EndKeeps, Zenon
    <3>4. /\ user' \in [Stores -> [active : Stores \cup {NoStore}, updated : 0..time]]
          /\ UsersStay /\ \A x \in Stores \ {s} : user'[x] = user[x]
          /\ user'[s] = user[backupSource]
      BY <1>1, <3>1, <3>2, SyncUsers, Zenon DEF Known
    <3>5. DBTypes'
      BY <3>3, <3>4, Zenon DEF DBTypes
    <3>6. user'[s].active = target
      BY <1>1, <3>4, Zenon DEF PushOK
    <3> QED  BY <2>2, <3>3, <3>4, <3>5, <3>6, Zenon
  <2> QED  BY <2>1, <2>2, Zenon
<1>8. /\ cached'[s] = target /\ \A x \in Stores \ {s} : cached'[x] = cached[x]
      /\ cached' \in [Stores -> Stores \cup {NoStore}] /\ target # NoStore
  BY <1>1, <1>2, ManagerAssumption, Zenon DEF PartTypes
<1> HIDE DEF s
<1>9. ClaimTypes'
  BY <1>7, Zenon DEF ClaimTypes
<1>10. \A x \in Managed : cached[x] # NoStore => cached'[x] # NoStore
  BY <1>1, <1>8, Zenon
<1>11. Known'
  <2>1. cached[s] # NoStore
    BY <1>1, <1>2, Zenon DEF PartTypes
  <2>2. \A x \in Stores : cached'[x] # NoStore => cached[x] # NoStore
    BY <1>8, <2>1, Zenon
  <2> QED  BY <1>7, <2>2, Zenon DEF Known, UsersStay
<1>12. user'[backupSource] = user[backupSource]
  BY <1>1, <1>7, Zenon
<1>13. user'[backupSource].active = target
  BY <1>1, <1>12, Zenon DEF PushOK
<1>14. \A i \in 1..(n + 1) : user'[stores[i]].active = target /\ cached'[stores[i]] = target
  <2> TAKE i \in 1..(n + 1)
  <2>1. CASE i \in 1..n
    <3>1. user[stores[i]].active = target /\ cached[stores[i]] = target
      BY <1>1, <2>1, Zenon DEF PushOK
    <3> QED  BY <1>1, <1>5, <1>7, <1>8, <2>1, <3>1, Zenon
  <2>2. CASE i = n + 1
    BY <1>3, <1>7, <1>8, <2>2, Zenon
  <2> QED  BY <1>5, <2>1, <2>2, Zenon
<1>15. \A x \in Range(Tail(todo)) \ {backupSource} :
         /\ user'[x].updated < user'[backupSource].updated
         /\ when'[x][backupSource] < user'[backupSource].updated
  BY <1>1, <1>6, <1>7, <1>12, Zenon DEF PushOK
<1>16. \A f \in claimed' : f \in rows'[target] \/ (f.by = backupSource /\ target \in Range(Tail(todo)))
  <2> TAKE f \in claimed'
  <2>0. f \in claimed
    BY <1>7, Zenon
  <2>1. CASE f \in rows[target]
    BY <1>1, <1>7, <2>1, Zenon DEF RowsStay
  <2>2. CASE f.by = backupSource /\ target = s /\ s = backupSource
    <3>1. f \in rows[target]
      BY <2>0, <2>2, Zenon DEF SwitchOK
    <3> QED  BY <2>1, <3>1, Zenon
  <2>3. CASE f.by = backupSource /\ target = s /\ s # backupSource
    <3>1. f \in OwnRows(backupSource) /\ <<target, f>> \notin late
      BY <2>0, <2>3, Zenon DEF SwitchOK, OwnRows
    <3> QED  BY <1>7, <2>3, <3>1, Zenon
  <2> QED  BY <1>1, <1>2, <2>0, <2>1, <2>2, <2>3, Zenon DEF PushOK
<1> QED  BY <1>7, <1>8, <1>9, <1>10, <1>11, <1>13, <1>14, <1>15, <1>16, Zenon

\* A step of the push; after the last one every managed store names the target.
LEMMA PushKeeps ==
  ASSUME StorageInv, PushNext
  PROVE  StorageInv'
<1> DEFINE s == Head(todo)
           loaded == [cached EXCEPT ![s] = target]
           pushed == IF s = backupSource THEN UNCHANGED <<dbVars, faults, claimed>>
                     ELSE SyncEnds(s, backupSource)
<1>0. /\ DBTypes /\ PartTypes /\ SwitchTypes /\ ClaimTypes /\ Known /\ RowsAtHome /\ Watermarked
      /\ SwitchOK
  BY TypesInParts, Zenon DEF StorageInv
<1>1. /\ step = "push" /\ isAvailable /\ target \in Managed /\ backupSource \in Managed /\ PushOK
      /\ Managed \subseteq Stores /\ todo \in Seq(Managed) /\ todo # <<>> /\ result # "switched"
      /\ stores \in Seq(Stores) /\ IsInjective(stores) /\ Len(stores) \in Nat
  <2>1. step = "push"
    BY Zenon DEF PushNext
  <2>2. isAvailable /\ target \in Managed /\ backupSource \in Managed /\ PushOK /\ result # "switched"
    BY <1>0, <2>1, Zenon DEF SwitchOK
  <2>3. todo \in Seq(Managed) /\ todo # <<>>
    BY <1>0, <2>2, Zenon DEF SwitchTypes, PushOK
  <2>4. stores \in Seq(Stores) /\ IsInjective(stores)
    BY <1>0, Zenon DEF PartTypes
  <2>5. Managed \subseteq Stores /\ Len(stores) \in Nat
    BY <1>0, <2>4, ManagedIsFinite
  <2> QED  BY <2>1, <2>2, <2>3, <2>4, <2>5, Zenon
<1>2. /\ s \in Managed /\ Tail(todo) \in Seq(Managed)
      /\ Len(todo) \in Nat /\ Len(Tail(todo)) = Len(todo) - 1
      /\ \A i \in 1..Len(Tail(todo)) : Tail(todo)[i] = todo[i + 1]
  BY <1>1, HeadAndTail, Zenon
<1>3. ASSUME pushed, cached' = loaded, UNCHANGED <<time, stores>>
      PROVE  /\ DBTypes' /\ ClaimTypes' /\ Known' /\ RowsStay /\ RowsAtHome' /\ Watermarked'
             /\ faults' \in 0..MaxFaults /\ UNCHANGED late /\ claimed' \subseteq claimed
             /\ cached' \in [Stores -> Stores \cup {NoStore}]
             /\ \A x \in Managed : cached[x] # NoStore => cached'[x] # NoStore
             /\ user'[backupSource].active = target
             /\ \A i \in 1..(Len(stores) - Len(todo) + 1) :
                  user'[stores[i]].active = target /\ cached'[stores[i]] = target
             /\ \A x \in Range(Tail(todo)) \ {backupSource} :
                  /\ user'[x].updated < user'[backupSource].updated
                  /\ when'[x][backupSource] < user'[backupSource].updated
             /\ \A f \in claimed' :
                  f \in rows'[target] \/ (f.by = backupSource /\ target \in Range(Tail(todo)))
  BY <1>0, <1>1, <1>3, PushDone, Zenon
<1>4. ASSUME pushed, cached' = loaded, UNCHANGED <<time, stores>>,
             Len(todo) > 1, todo' = Tail(todo),
             UNCHANGED <<activeStorage, conflictingActives, isAvailable>>,
             UNCHANGED <<step, target, backupSource, result>>
      PROVE  StorageInv'
  <2>1. Managed' = Managed
    BY <1>4, Zenon DEF Managed
  <2>2. PartTypes'
    BY <1>0, <1>3, <1>4, <2>1, Zenon DEF PartTypes
  <2>3. SwitchTypes'
    BY <1>0, <1>2, <1>3, <1>4, <2>1, Zenon DEF SwitchTypes
  <2>4. ManagerTypeOK'
    BY <1>3, <1>4, <2>2, <2>3, TypesInPartsNext, Zenon
  <2>5. PushOK'
    <3>1. /\ Len(todo') = Len(todo) - 1 /\ Len(todo) \in Nat /\ Len(todo) <= Len(stores)
          /\ Len(stores) - Len(todo') = Len(stores) - Len(todo) + 1
      <4>1. Len(todo) <= Len(stores)
        BY <1>1, Zenon DEF PushOK
      <4> QED  BY <1>1, <1>2, <1>4, <4>1, OneFewer, Zenon
    <3>2. todo' # <<>> /\ Len(todo') <= Len(stores)
      <4>1. Len(todo) > 1 /\ Len(stores) \in Nat
        BY <1>1, <1>4, Zenon
      <4>2. Len(todo') # 0 /\ Len(todo') <= Len(stores)
        BY <3>1, <4>1
      <4> QED  BY <4>2
    <3>3. \A i \in 1..Len(todo') : todo'[i] = stores[Len(stores) - Len(todo') + i]
      <4> TAKE i \in 1..Len(todo')
      <4>1. i + 1 \in 1..Len(todo) /\ todo'[i] = todo[i + 1]
        BY <1>2, <1>4, <3>1
      <4>2. todo[i + 1] = stores[Len(stores) - Len(todo) + (i + 1)]
        BY <1>1, <4>1, Zenon DEF PushOK
      <4>3. Len(stores) - Len(todo) + (i + 1) = Len(stores) - Len(todo') + i
        BY <1>1, <3>1
      <4> QED  BY <4>1, <4>2, <4>3, Zenon
    <3>4. \A i \in 1..(Len(stores) - Len(todo')) :
            user'[stores[i]].active = target /\ cached'[stores[i]] = target
      BY <1>3, <1>4, <3>1, Zenon
    <3> QED  BY <1>3, <1>4, <3>2, <3>3, <3>4, Zenon DEF PushOK
  <2>6. \A f \in claimed' : f \in rows'[f.by] /\ <<target', f>> \notin late'
    <3>1. \A f \in claimed : <<target, f>> \notin late
      BY <1>0, <1>1, Zenon DEF SwitchOK
    <3> QED  BY <1>0, <1>3, <1>4, <3>1, ClaimsStay, Zenon
  <2>7. SwitchOK'
    BY <1>1, <1>4, <2>1, <2>5, <2>6, Zenon DEF SwitchOK
  <2> QED  BY <1>1, <1>3, <1>4, <2>4, <2>7, Zenon
      DEF StorageInv, SwitchedEverywhere, OwnRowsFollow
<1>5. ASSUME pushed, cached' = loaded, UNCHANGED <<time, stores>>,
             Len(todo) = 1, Partition(stores, loaded), Return("switched")
      PROVE  StorageInv'
  <2>1. Managed' = Managed /\ Range(stores) = Managed
    BY <1>5, Zenon DEF Managed
  <2>2. \A x \in Managed : user'[x].active = target /\ cached'[x] = target
    <3> TAKE x \in Managed
    <3>1. PICK i \in 1..Len(stores) : x = stores[i]
      BY <1>1 DEF Managed, Range
    <3>2. i \in 1..(Len(stores) - Len(todo) + 1)
      BY <1>1, <1>5, <3>1
    <3> QED  BY <1>3, <1>5, <3>1, <3>2, Zenon
  <2>3. \A f \in claimed' : f \in rows'[target]
    <3> DEFINE rest == Tail(todo)
    <3>1. Len(rest) = 0 /\ rest \in Seq(Managed)
      BY <1>2, <1>5
    <3> HIDE DEF rest
    <3>2. Range(rest) = {}
      BY <3>1 DEF Range
    <3> USE DEF rest
    <3> QED  BY <1>3, <1>5, <3>2, Zenon
  <2>4. ActiveAmong(stores, Len(stores), loaded) = target
    <3>1. \A x \in Range(stores) : loaded[x] = target
      BY <1>5, <2>1, <2>2, Zenon
    <3> HIDE DEF loaded
    <3> QED  BY <1>1, <2>1, <3>1, ActiveIsNamed, Zenon
  <2>5. activeStorage' = target /\ conflictingActives' = {} /\ isAvailable'
    <3>1. /\ activeStorage' = target /\ isAvailable'
          /\ conflictingActives' = {x \in Range(stores) \ {target} : loaded[x] # target}
      BY <1>5, <2>4, Zenon DEF Partition
    <3>2. \A x \in Range(stores) : loaded[x] = target
      BY <1>5, <2>1, <2>2, Zenon
    <3> QED  BY <3>1, <3>2, Zenon
  <2>6. target # NoStore
    BY <1>1, ManagerAssumption, Zenon
  <2>7. PartTypes'
    BY <1>1, <1>3, <1>5, <2>1, <2>2, <2>5, <2>6, Zenon DEF PartTypes
  <2>8. SwitchTypes' /\ step' = "idle" /\ result' = "switched"
    <3>1. faults' \in 0..MaxFaults
      BY <1>3, <1>5, Zenon
    <3> QED  BY <1>5, <3>1, Returned, Zenon
  <2>9. ManagerTypeOK'
    BY <1>3, <1>5, <2>7, <2>8, TypesInPartsNext, Zenon
  <2>10. SwitchOK'
    <3>1. \A f \in claimed' : f \in rows'[f.by]
      BY <1>0, <1>3, <1>5, ClaimsStay, Zenon
    <3> QED  BY <2>8, <3>1, Zenon DEF SwitchOK
  <2>11. SwitchedEverywhere' /\ OwnRowsFollow'
    <3>1. SwitchedEverywhere'
      BY <2>1, <2>2, <2>5, Zenon DEF SwitchedEverywhere
    <3>2. OwnRowsFollow'
      BY <1>5, <2>3, <2>5, Zenon DEF OwnRowsFollow
    <3> QED  BY <3>1, <3>2, Zenon
  <2> QED  BY <1>3, <1>5, <2>9, <2>10, <2>11, Zenon DEF StorageInv
<1>6. ASSUME s # backupSource, SyncFails(s, backupSource), cached' = loaded, Return("failed"),
             UNCHANGED <<time, stores, activeStorage, conflictingActives, isAvailable>>
      PROVE  StorageInv'
  <2>1. s \in Stores /\ backupSource \in Stores /\ target \in Stores /\ target # NoStore
    BY <1>1, <1>2, ManagerAssumption, Zenon
  <2>2. /\ cached' \in [Stores -> Stores \cup {NoStore}] /\ cached'[s] # NoStore
        /\ \A x \in Stores \ {s} : cached'[x] = cached[x]
    BY <1>0, <1>6, <2>1, Zenon DEF PartTypes
  <2>3. Managed' = Managed
    BY <1>6, Zenon DEF Managed
  <2>4. PartTypes'
    BY <1>0, <1>1, <1>6, <2>2, <2>3, Zenon DEF PartTypes
  <2>5. \A x \in Stores : cached'[x] # NoStore => cached[x] # NoStore
    BY <1>0, <1>1, <1>2, <2>2, Zenon DEF PartTypes
  <2>6. UsersStay
    BY <1>0, <1>6, <2>1, SyncUsers, Zenon DEF Known
  <2>7. Known'
    BY <1>0, <2>5, <2>6, Zenon DEF Known, UsersStay
  <2> HIDE DEF s
  <2> QED  BY <1>6, <2>1, <2>4, <2>7, FailedKeeps, Zenon
<1> QED  BY <1>4, <1>5, <1>6, Zenon DEF PushNext

-----------------------------------------------------------------------------
(* The theorems.                                                           *)

\* Every step of the manager and of the wallets elsewhere keeps the invariant.
LEMMA NextKeeps == StorageInv /\ [ManagerNext]_smVars => StorageInv'
<1> SUFFICES ASSUME StorageInv, [ManagerNext]_smVars PROVE StorageInv'
  BY Zenon
<1>1. CASE \E k \in Stores : AlreadyActive(k) \/ SetActive(k)
  BY <1>1, AlreadyKeeps, MakingAvailableKeeps, Zenon
<1>2. CASE SwitchStep
  BY <1>2, BeginKeeps, MergeKeeps, MarkKeeps, PushKeeps, Zenon DEF SwitchStep
<1>3. CASE Panics \/ GetAuth \/ Restart \/ Work
  BY <1>3, PanicKeeps, MakingAvailableKeeps, RestartKeeps, WorkKeeps, Zenon
<1>4. CASE \E s \in Stores : AddWalletStorageProvider(s) \/ Backup(s) \/ WorkElsewhere(s)
  BY <1>4, AddKeeps, BackupKeeps, WorkKeeps, Zenon
<1>5. CASE UNCHANGED smVars
  <2>1. UNCHANGED <<time, user, rows, when, open, late, stores, cached, activeStorage>> /\ UNCHANGED
          <<conflictingActives, isAvailable, step, target, backupSource, todo, faults, result, claimed>>
    BY <1>5, Zenon DEF smVars, dbVars, copies, managerVars, switchVars
  <2>2. ManagerTypeOK' /\ Known' /\ RowsAtHome' /\ Watermarked'
    BY <2>1, Zenon
       DEF StorageInv, ManagerTypeOK, Known, RowsAtHome, Watermarked, OwnRows, Managed
  <2>3. SwitchOK' /\ SwitchedEverywhere' /\ OwnRowsFollow'
    BY <2>1, Zenon
       DEF StorageInv, SwitchOK, PushOK, SwitchedEverywhere, OwnRowsFollow, Managed
  <2> QED  BY <2>2, <2>3, Zenon DEF StorageInv
<1> QED  BY <1>1, <1>2, <1>3, <1>4, <1>5, Zenon DEF ManagerNext

\* The inductive invariant of the storage manager.
THEOREM StorageHolds == ManagerSpec => []StorageInv
<1> QED  BY InitKeeps, NextKeeps, PTL DEF ManagerSpec

\* SetActive that reports success has told every managed store, whatever failed,
\* was restarted or was written before it, and no conflicting active store is left.
THEOREM SwitchIsComplete == ManagerSpec => []SwitchedEverywhere
<1>1. StorageInv => SwitchedEverywhere
  BY Zenon DEF StorageInv
<1> QED  BY <1>1, StorageHolds, PTL

\* What the stores that claimed to be active had taken on themselves when the
\* switch began is on the store it made active, through failed and repeated Syncs:
\* all but rows made while a cycle to that store was open, and when every Sync of
\* the switch ended with the empty chunk.
THEOREM ClaimedRowsFollow == ManagerSpec => []OwnRowsFollow
<1>1. StorageInv => OwnRowsFollow
  BY Zenon DEF StorageInv
<1> QED  BY <1>1, StorageHolds, PTL

=============================================================================
