--------------------------- MODULE StorageManager ---------------------------
(***************************************************************************)
(* WalletStorageManager (storage/storage_manager.go) over its managed      *)
(* stores: which store is active, and the switch to another one.           *)
(*                                                                         *)
(* Each store has its own users row, which names the store it believes to  *)
(* be active.  The manager caches those rows once, partitions the stores   *)
(* into the active one, backups and conflicting actives, and switches in   *)
(* steps that each may fail: merge the conflicting actives into the new    *)
(* one, mark the source of the backup, push it to every other store.       *)
(*                                                                         *)
(* A Sync is one step here (StorageSync has its chunks).  One that is done *)
(* has copied the rows that changed after the writer's watermark for that  *)
(* reader, except that it may have missed those made while its cycle was   *)
(* open: from the first chunk on, and after a failure, the offsets in      *)
(* sync_states skip as many rows as were sent, and a new row comes first   *)
(* in the order of the pages.  One that fails, or returns because nothing  *)
(* changed any more, has copied any part of them, moved no watermark and   *)
(* left the cycle open.                                                    *)
(*                                                                         *)
(* A row is the store it was made on and the time.  Other wallets use the  *)
(* stores meanwhile; they write only where the store names itself active,  *)
(* which is what IsActive in their AuthID says.                            *)
(***************************************************************************)
EXTENDS Naturals, Sequences, FiniteSets, Functions

CONSTANTS
  Stores,
  NoStore,
  SignedUp,   \* the stores the user signed up at before, in that order
  MaxTime,    \* bound on the clock
  MaxFaults   \* bound on failed calls, quiet Syncs and restarts

ASSUME ManagerAssumption ==
  /\ NoStore \notin Stores /\ IsFiniteSet(Stores)
  /\ SignedUp \in Seq(Stores) /\ IsInjective(SignedUp)
  /\ MaxTime \in Nat /\ MaxTime >= Len(SignedUp) /\ MaxFaults \in Nat

VARIABLES
  time,         \* the time of the last write anywhere
  user,         \* per store, its users row; updated = 0: none
  rows,         \* per store, the user's rows
  when,         \* when[w][r]: w's watermark for rows read from r
  open,         \* <<w, r>>: w's sync_states row for r has the offsets of a cycle
  late,         \* history: <<w, f>>: f was made while a cycle from its store to w
                \* was open
  stores,       \* the managed stores, in the manager's order
  cached,       \* managed.Storage.User.ActiveStorage; NoStore: not loaded
  activeStorage,
  conflictingActives,
  isAvailable,
  step,         \* SetActive: "idle", "merge", "mark", "push"
  target,       \* its argument
  backupSource,
  todo,         \* merge: the conflicting actives left; push: the stores left
  faults,       \* failed calls, quiet Syncs and restarts so far
  result,       \* of the last call: "none", "already", "switched", "failed", "panic"
  claimed       \* history: what the last switch has to bring along

copies == <<rows, when, open, late>>
dbVars == <<user, copies>>
managerVars == <<stores, cached, activeStorage, conflictingActives, isAvailable>>
switchVars == <<step, target, backupSource, todo>>
smVars == <<time, dbVars, managerVars, switchVars, faults, result, claimed>>

Fault == faults < MaxFaults /\ faults' = faults + 1

Managed == Range(stores)

OwnRows(s) == {f \in rows[s] : f.by = s}

Position(list, s) == CHOOSE i \in DOMAIN list : list[i] = s

\* The members of a finite set in any order.
Orders(S) == Injection(1..Cardinality(S), S)

-----------------------------------------------------------------------------
(* MakeAvailable.                                                          *)

\* FindOrInsertUser on the first n stores of a list that are not loaded yet: a new
\* user's active storage is the store itself.
Missing(list, n) == {i \in 1..n : cached[list[i]] = NoStore /\ user[list[i]].updated = 0}

MakeStoresAvailable(list, n) ==
  /\ time' = time + Cardinality(Missing(list, n)) /\ time' <= MaxTime
  /\ user' = [s \in Stores |->
                IF \E i \in Missing(list, n) : list[i] = s
                THEN [active |-> s,
                      updated |-> time + Cardinality({i \in Missing(list, n) : i <= Position(list, s)})]
                ELSE user[s]]
  /\ cached' = [s \in Stores |->
                  IF cached[s] = NoStore /\ \E i \in 1..n : list[i] = s
                  THEN user'[s].active ELSE cached[s]]

\* The last of a nonempty set of positions or times.
Latest(S) == CHOOSE n \in S : \A k \in S : k <= n

\* The first store is the candidate; every later one that thinks it is active
\* takes its place.
ActiveAmong(list, n, loaded) ==
  LET claims == {i \in 2..n : loaded[list[i]] = list[i]}
  IN list[IF claims = {} THEN 1 ELSE Latest(claims)]

Partition(list, loaded) ==
  LET a == ActiveAmong(list, Len(list), loaded)
  IN /\ activeStorage' = a
     /\ conflictingActives' = {s \in Range(list) \ {a} : loaded[s] # a}
     /\ isAvailable' = TRUE

\* One store cannot be reached: those before it are loaded, the candidate is set.
PartitionFails(list, n) ==
  /\ activeStorage' = ActiveAmong(list, n, cached')
  /\ conflictingActives' = IF n = 0 THEN conflictingActives ELSE {}
  /\ isAvailable' = FALSE

MakeAvailable ==
  /\ UNCHANGED <<stores, faults>>
  /\ \/ /\ isAvailable
        /\ UNCHANGED <<time, user, cached, activeStorage, conflictingActives, isAvailable>>
     \/ /\ ~isAvailable /\ stores # <<>>
        /\ MakeStoresAvailable(stores, Len(stores)) /\ Partition(stores, cached')

MakeAvailableFails ==
  /\ UNCHANGED stores
  /\ ~isAvailable /\ stores # <<>> /\ Fault
  /\ \E n \in 0..Len(stores) - 1 : MakeStoresAvailable(stores, n) /\ PartitionFails(stores, n)

-----------------------------------------------------------------------------
(* SyncToWriter.                                                           *)

RowsSince(w, r) == {f \in rows[r] : f.at > when[w][r]}

\* The user travels with the first chunk when it changed since, and replaces an
\* older one (mergeUser).
SendsUser(w, r) ==
  /\ when[w][r] = 0 \/ user[r].updated > when[w][r]
  /\ user[w].updated < user[r].updated

CarriesUser(w, r) == user' = IF SendsUser(w, r) THEN [user EXCEPT ![w] = user[r]] ELSE user

\* The Sync ends with the empty chunk.
SyncToWriter(w, r) ==
  /\ \E skipped \in SUBSET {f \in RowsSince(w, r) : <<w, f>> \in late} :
       LET sent == RowsSince(w, r) \ skipped
       IN /\ rows' = [rows EXCEPT ![w] = @ \cup sent]
          /\ when' = [when EXCEPT ![w][r] = IF sent = {} THEN @ ELSE Latest({f.at : f \in sent})]
  /\ CarriesUser(w, r)
  /\ open' = open \ {<<w, r>>} /\ UNCHANGED <<late, faults, claimed>>

\* The Sync ends by two rounds that changed nothing, as the deleted maps of the
\* reader make it do.  Nothing is claimed of a switch it is part of.
SyncEndsQuietly(w, r) ==
  /\ \E part \in SUBSET RowsSince(w, r) : rows' = [rows EXCEPT ![w] = @ \cup part]
  /\ CarriesUser(w, r)
  /\ open' = open \cup {<<w, r>>} /\ claimed' = {} /\ Fault /\ UNCHANGED <<when, late>>

SyncEnds(w, r) == SyncToWriter(w, r) \/ SyncEndsQuietly(w, r)

\* The Sync returns an error, before or after a chunk was saved.
SyncFails(w, r) ==
  /\ \E part \in SUBSET RowsSince(w, r) : rows' = [rows EXCEPT ![w] = @ \cup part]
  /\ UNCHANGED user \/ (SendsUser(w, r) /\ CarriesUser(w, r))
  /\ open' \in {open, open \cup {<<w, r>>}}
  /\ Fault /\ UNCHANGED <<when, late, claimed>>

-----------------------------------------------------------------------------
(* SetActive.                                                              *)

Return(r) ==
  /\ step' = "idle" /\ target' = NoStore /\ backupSource' = NoStore /\ todo' = <<>>
  /\ result' = r

\* An error return: the partition and the partly updated cache stay as they are.
SwitchFails ==
  /\ Return("failed")
  /\ UNCHANGED <<time, managerVars>>

\* The comparison with the current active store comes before anything else; it
\* reads the store's settings, which one that could not be loaded does not have.
AlreadyActive(k) ==
  /\ step = "idle" /\ activeStorage = k /\ cached[k] # NoStore
  /\ Return("already")
  /\ UNCHANGED <<time, dbVars, managerVars, faults, claimed>>

Forgotten ==
  /\ cached' = [s \in Stores |-> NoStore] /\ activeStorage' = NoStore
  /\ conflictingActives' = {} /\ isAvailable' = FALSE

Panics ==
  /\ step = "idle" /\ activeStorage # NoStore /\ cached[activeStorage] = NoStore
  /\ Return("panic") /\ Forgotten
  /\ UNCHANGED <<time, dbVars, stores, faults, claimed>>

SetActive(k) ==
  /\ step = "idle" /\ activeStorage # k
  /\ activeStorage # NoStore => cached[activeStorage] # NoStore
  /\ \/ /\ MakeAvailable
        /\ step' = "begin" /\ target' = k /\ result' = "none"
        /\ UNCHANGED <<backupSource, todo>>
     \/ MakeAvailableFails /\ Return("failed")
  /\ UNCHANGED <<copies, claimed>>

\* What s took on itself and every Sync to w will find.
OwnRowsFor(w, s) == {f \in OwnRows(s) : <<w, f>> \notin late}

\* With conflicts, the current active store becomes one of them and the new one
\* is taken out; they are merged in some order.
BeginMerge ==
  /\ step = "begin" /\ target \in Managed /\ conflictingActives # {}
  /\ conflictingActives' = (conflictingActives \cup {activeStorage}) \ {target}
  /\ todo' \in Orders(conflictingActives')
  /\ step' = "merge" /\ backupSource' = target
  /\ claimed' = UNION {OwnRowsFor(target, s) : s \in conflictingActives \cup {activeStorage}}
  /\ UNCHANGED <<time, dbVars, stores, cached, activeStorage, isAvailable, target, faults, result>>

BeginBackup ==
  /\ step = "begin" /\ target \in Managed /\ conflictingActives = {}
  /\ step' = "mark" /\ backupSource' = activeStorage
  /\ claimed' = OwnRowsFor(target, activeStorage)
  /\ UNCHANGED <<time, dbVars, managerVars, target, todo, faults, result>>

NotManaged ==
  /\ step = "begin" /\ target \notin Managed
  /\ Return("failed")
  /\ UNCHANGED <<time, dbVars, managerVars, faults, claimed>>

\* Mutant: reader and writer are swapped.
MergeNextSwapped ==
  /\ step = "merge" /\ todo # <<>>
  /\ \/ /\ SyncEnds(Head(todo), target) /\ todo' = Tail(todo)
        /\ step' = IF todo' = <<>> THEN "mark" ELSE step
        /\ UNCHANGED <<time, managerVars, target, backupSource, result>>
     \/ SyncFails(Head(todo), target) /\ SwitchFails

\* Merge state from conflicting actives into the new one.
MergeNext ==
  /\ step = "merge" /\ todo # <<>>
  /\ \/ /\ SyncEnds(target, Head(todo)) /\ todo' = Tail(todo)
        /\ step' = IF todo' = <<>> THEN "mark" ELSE step
        /\ UNCHANGED <<time, managerVars, target, backupSource, result>>
     \/ SyncFails(target, Head(todo)) /\ SwitchFails

\* Mutant: the users row is written without its updated_at.
MarkUndated ==
  /\ step = "mark"
  /\ \/ /\ user' = [user EXCEPT ![backupSource].active = target]
        /\ step' = "push" /\ todo' = stores
        /\ UNCHANGED <<time, copies, managerVars, target, backupSource, faults, result, claimed>>
     \/ SwitchFails /\ Fault /\ UNCHANGED <<dbVars, claimed>>

\* Provider.SetActive on the source of the backup.
Mark ==
  /\ step = "mark"
  /\ \/ /\ time < MaxTime /\ time' = time + 1
        /\ user' = [user EXCEPT ![backupSource] = [active |-> target, updated |-> time']]
        /\ step' = "push" /\ todo' = stores
        /\ UNCHANGED <<copies, managerVars, target, backupSource, faults, result, claimed>>
     \/ SwitchFails /\ Fault /\ UNCHANGED <<dbVars, claimed>>

\* The next store: its cached user, then the source's state; after the last one
\* the stores are partitioned anew from the cached users.
PushNext ==
  /\ step = "push"
  /\ LET s == Head(todo)
         loaded == [cached EXCEPT ![s] = target]
     IN \/ /\ IF s = backupSource THEN UNCHANGED <<dbVars, faults, claimed>>
              ELSE SyncEnds(s, backupSource)
           /\ cached' = loaded
           /\ \/ /\ Len(todo) > 1 /\ todo' = Tail(todo)
                 /\ UNCHANGED <<activeStorage, conflictingActives, isAvailable>>
                 /\ UNCHANGED <<step, target, backupSource, result>>
              \/ /\ Len(todo) = 1 /\ Partition(stores, loaded)
                 /\ Return("switched")
           /\ UNCHANGED <<time, stores>>
        \/ /\ s # backupSource /\ SyncFails(s, backupSource)
           /\ cached' = loaded
           /\ Return("failed")
           /\ UNCHANGED <<time, stores, activeStorage, conflictingActives, isAvailable>>

-----------------------------------------------------------------------------
(* The rest of the manager's life, and the other wallets.                  *)

\* GetAuth, at the head of every call of the wallet.
GetAuth ==
  /\ step = "idle" /\ ~isAvailable
  /\ MakeAvailable \/ MakeAvailableFails
  /\ result' = "none"
  /\ UNCHANGED <<copies, switchVars, claimed>>

\* The new store is loaded, then all of them are partitioned anew, or one of the
\* others fails; a new store that fails leaves everything as it was.
AddWalletStorageProvider(s) ==
  /\ step = "idle" /\ s \notin Managed
  /\ stores' = Append(stores, s)
  /\ \/ /\ MakeStoresAvailable(<<s>> \o stores, Len(stores')) /\ Partition(stores', cached')
        /\ UNCHANGED faults
     \/ \E n \in 0..Len(stores) - 1 :
          /\ cached[stores[n + 1]] = NoStore /\ Fault
          /\ MakeStoresAvailable(<<s>> \o stores, n + 1) /\ PartitionFails(stores', n)
  /\ result' = "none"
  /\ UNCHANGED <<copies, switchVars, claimed>>

\* A backup on request, to a store that knows the user.  It takes a conflicting
\* store's claim away without merging it.
Backup(w) ==
  /\ step = "idle" /\ activeStorage \notin {NoStore, w} /\ user[w].updated > 0
  /\ SyncEnds(w, activeStorage) \/ SyncFails(w, activeStorage)
  /\ result' = "none"
  /\ UNCHANGED <<time, managerVars, switchVars>>

\* A new process, with its stores in any order.
Restart ==
  /\ Fault /\ Forgotten /\ Return("none")
  /\ stores' \in Orders(Managed)
  /\ UNCHANGED <<time, dbVars, claimed>>

\* The stores that a Sync from s may be writing to.
SyncingTo(s) ==
  {w \in Stores \ {s} : \/ step = "merge" /\ w = target /\ s = Head(todo)
                        \/ step = "push" /\ w = Head(todo) /\ s = backupSource
                        \/ step = "idle" /\ s = activeStorage /\ user[w].updated > 0}

\* A row is made on s, while a Sync from s runs or not; that one, and those that
\* go on with a cycle, may miss it.
AddRow(s) ==
  /\ time < MaxTime /\ time' = time + 1
  /\ LET f == [by |-> s, at |-> time']
     IN /\ rows' = [rows EXCEPT ![s] = @ \cup {f}]
        /\ \E running \in {{}} \cup {{w} : w \in SyncingTo(s)} :
             late' = late \cup {<<w, f>> : w \in {w \in Stores : <<w, s>> \in open} \cup running}
  /\ UNCHANGED <<when, open, managerVars, switchVars, faults, claimed>>

\* The wallet above works on the active store, during a switch too.
Work ==
  /\ isAvailable
  /\ AddRow(activeStorage)
  /\ result' = "none"
  /\ UNCHANGED user

\* Another wallet works on a store that names itself active, and signs up first
\* where it is not known.
WorkElsewhere(s) ==
  /\ \/ user[s].active = s /\ AddRow(s) /\ UNCHANGED user
     \/ /\ user[s].updated = 0
        /\ time < MaxTime /\ time' = time + 1
        /\ user' = [user EXCEPT ![s] = [active |-> s, updated |-> time']]
        /\ UNCHANGED <<copies, managerVars, switchVars, faults, claimed>>
  /\ result' = "none"

-----------------------------------------------------------------------------
ManagerInit ==
  /\ time = Len(SignedUp)
  /\ user = [s \in Stores |->
               IF s \in Range(SignedUp) THEN [active |-> s, updated |-> Position(SignedUp, s)]
               ELSE [active |-> NoStore, updated |-> 0]]
  /\ rows = [s \in Stores |-> {}]
  /\ when = [w \in Stores |-> [r \in Stores |-> 0]] /\ open = {} /\ late = {}
  /\ \E given \in SUBSET Stores : stores \in Orders(given)   \* NewWalletStorageManager
  /\ cached = [s \in Stores |-> NoStore] /\ activeStorage = NoStore
  /\ conflictingActives = {} /\ isAvailable = FALSE
  /\ step = "idle" /\ target = NoStore /\ backupSource = NoStore /\ todo = <<>>
  /\ faults = 0 /\ result = "none" /\ claimed = {}

SwitchStep == BeginMerge \/ BeginBackup \/ NotManaged \/ MergeNext \/ Mark \/ PushNext

ManagerNext ==
  \/ \E k \in Stores : AlreadyActive(k) \/ SetActive(k)
  \/ Panics \/ SwitchStep
  \/ GetAuth \/ Restart \/ Work
  \/ \E s \in Stores : AddWalletStorageProvider(s) \/ Backup(s) \/ WorkElsewhere(s)

ManagerSpec == ManagerInit /\ [][ManagerNext]_smVars

-----------------------------------------------------------------------------
(* Properties.                                                             *)

\* Types; nothing is newer than the clock, and an available manager has an
\* active store that is loaded.
ManagerTypeOK ==
  /\ time \in 0..MaxTime
  /\ user \in [Stores -> [active : Stores \cup {NoStore}, updated : 0..time]]
  /\ rows \in [Stores -> SUBSET [by : Stores, at : 1..time]]
  /\ when \in [Stores -> [Stores -> 0..time]]
  /\ open \subseteq Stores \X Stores /\ late \subseteq Stores \X [by : Stores, at : 1..time]
  /\ stores \in Seq(Stores) /\ IsInjective(stores)
  /\ cached \in [Stores -> Stores \cup {NoStore}]
  /\ activeStorage \in Managed \cup {NoStore} /\ conflictingActives \subseteq Managed
  /\ isAvailable => activeStorage # NoStore /\ \A s \in Managed : cached[s] # NoStore
  /\ step \in {"idle", "begin", "merge", "mark", "push"}
  /\ target \in Stores \cup {NoStore} /\ backupSource \in Managed \cup {NoStore}
  /\ todo \in Seq(Managed) /\ faults \in 0..MaxFaults
  /\ result \in {"none", "already", "switched", "failed", "panic"}
  /\ claimed \subseteq [by : Stores, at : 1..time]

\* A switch that ran to its end leaves every managed store's users row naming the
\* new active store and no conflict, whatever failed and was retried before.
SwitchedEverywhere ==
  result = "switched" =>
    /\ conflictingActives = {}
    /\ \A s \in Managed : user[s].active = activeStorage /\ cached[s] = activeStorage

\* What the stores that claimed to be active had taken on themselves when a switch
\* began is on the new active store at its end ("Merge state from conflicting
\* actives"), whatever failed, was backed up, switched or written meanwhile: all but
\* the rows that were made while a cycle to the new active store was open, and
\* unless a Sync of the switch returned without the empty chunk.
OwnRowsFollow ==
  result = "switched" => claimed \subseteq rows[activeStorage]
=============================================================================
