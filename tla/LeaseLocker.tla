----------------------------- MODULE LeaseLocker -----------------------------
(***************************************************************************)
(* The lease of one monitor job (monitor/lease_locker.go) among the        *)
(* instances of the daemon: one row with an owner and an expiry, claimed   *)
(* by an insert that does nothing on conflict and a conditional update,    *)
(* released by expiring it.  gocron runs lock, job and unlock one after    *)
(* the other per instance (singleton mode).                                *)
(*                                                                         *)
(* Every instance reads its own clock, ahead of the slowest one by its     *)
(* skew.  Times are kept relative to the slowest clock: `left` is the      *)
(* row's lease_until, `age` the time since an instance read the clock for  *)
(* its claim.  MaxHold bounds that age up to the end of the run: the run   *)
(* has a context of 0.95 * interval and the lease is at least twice the    *)
(* interval.                                                               *)
(***************************************************************************)
EXTENDS Integers

CONSTANTS
  Instances,
  Nobody,     \* the owner of a row whose instance is gone
  TTL,
  Skew,       \* the largest difference of two clocks
  MaxHold,    \* from reading the clock to the end of the run
  MaxCrashes

ASSUME LeaseAssumption ==
  /\ Nobody \notin Instances
  /\ TTL \in Nat /\ Skew \in Nat /\ MaxHold \in Nat /\ MaxCrashes \in Nat
  /\ MaxHold + Skew < TTL

VARIABLES
  ahead,      \* ahead[i]: i's clock less the slowest clock
  exists,     \* the row has been inserted
  leaseOwner,
  left,       \* lease_until, relative to the slowest clock
  phase,      \* "idle", "insert", "claim", "run", "unlock", "down"
  age,
  crashes

leaseVars == <<ahead, exists, leaseOwner, left, phase, age, crashes>>

\* Before any clock reading that is still in use.
LongAgo == -(MaxHold + 1)

LeaseUntil(i) == TTL + ahead[i] - age[i]

LeaseInit ==
  /\ ahead \in [Instances -> 0..Skew]
  /\ exists = FALSE /\ leaseOwner = Nobody /\ left = LongAgo
  /\ phase = [i \in Instances |-> "idle"] /\ age = [i \in Instances |-> 0]
  /\ crashes = 0

Holding(p) == p \in {"insert", "claim", "run"}

\* The age counts from the reading of the clock to the end of the run.
To(i, p) ==
  /\ phase' = [phase EXCEPT ![i] = p]
  /\ age' = IF Holding(p) THEN age ELSE [age EXCEPT ![i] = 0]

\* The scheduler's tick: Lock reads the clock.
Due(i) ==
  /\ phase[i] = "idle"
  /\ To(i, "insert")
  /\ UNCHANGED <<ahead, exists, leaseOwner, left, crashes>>

\* INSERT ... ON CONFLICT DO NOTHING
EnsureRow(i) ==
  /\ phase[i] = "insert"
  /\ To(i, "claim")
  /\ exists' = TRUE
  /\ leaseOwner' = IF exists THEN leaseOwner ELSE i
  /\ left' = IF exists THEN left ELSE LeaseUntil(i)
  /\ UNCHANGED <<ahead, crashes>>

\* Mutant: an expired lease of another owner is not taken over.
MayClaimOwn(i) == leaseOwner = i

\* WHERE owner = me OR lease_until < now, with the clock read before the insert.
MayClaim(i) == leaseOwner = i \/ left < ahead[i] - age[i]

Claim(i) ==
  /\ phase[i] = "claim"
  /\ \/ /\ MayClaim(i)
        /\ leaseOwner' = i /\ left' = LeaseUntil(i)
        /\ To(i, "run") \/ To(i, "idle")   \* the answer may be lost
     \/ ~MayClaim(i) /\ To(i, "idle") /\ UNCHANGED <<leaseOwner, left>>
  /\ UNCHANGED <<ahead, exists, crashes>>

\* A statement of Lock fails: gocron skips the run.
LockFails(i) ==
  /\ phase[i] \in {"insert", "claim"}
  /\ To(i, "idle")
  /\ UNCHANGED <<ahead, exists, leaseOwner, left, crashes>>

Finish(i) ==
  /\ phase[i] = "run"
  /\ To(i, "unlock")
  /\ UNCHANGED <<ahead, exists, leaseOwner, left, crashes>>

\* Mutant: the release expires whatever lease is there.
UnlockAny(i) ==
  /\ phase[i] = "unlock"
  /\ To(i, "idle")
  /\ left' = ahead[i] \/ UNCHANGED left
  /\ UNCHANGED <<ahead, exists, leaseOwner, crashes>>

\* UPDATE ... SET lease_until = now WHERE owner = me, or its failure; it may come
\* after the lease has run out.
Unlock(i) ==
  /\ phase[i] = "unlock"
  /\ To(i, "idle")
  /\ (leaseOwner = i /\ left' = ahead[i]) \/ UNCHANGED left
  /\ UNCHANGED <<ahead, exists, leaseOwner, crashes>>

\* An instance dies; the owner name it wrote is never used again.
Crash(i) ==
  /\ crashes < MaxCrashes /\ crashes' = crashes + 1
  /\ phase[i] # "down" /\ To(i, "down")
  /\ leaseOwner' = IF leaseOwner = i THEN Nobody ELSE leaseOwner
  /\ UNCHANGED <<ahead, exists, left>>

InstanceRestart(i) ==
  /\ phase[i] = "down" /\ To(i, "idle")
  /\ UNCHANGED <<ahead, exists, leaseOwner, left, crashes>>

\* Time passes, while no run is over its budget.
LeaseTick ==
  /\ \A i \in Instances : Holding(phase[i]) => age[i] < MaxHold
  /\ left' = IF left > LongAgo THEN left - 1 ELSE left
  /\ age' = [i \in Instances |-> IF Holding(phase[i]) THEN age[i] + 1 ELSE age[i]]
  /\ UNCHANGED <<ahead, exists, leaseOwner, phase, crashes>>

LeaseNext ==
  \/ LeaseTick
  \/ \E i \in Instances : \/ Due(i) \/ EnsureRow(i) \/ Claim(i) \/ LockFails(i)
                          \/ Finish(i) \/ Unlock(i) \/ Crash(i) \/ InstanceRestart(i)

LeaseSpec == LeaseInit /\ [][LeaseNext]_leaseVars

\* Time passes, the scheduler ticks, runs end, and the database does not refuse
\* an instance for ever; no instance has to come back after a crash.
LeaseFairness ==
  /\ WF_leaseVars(LeaseTick)
  /\ \A i \in Instances :
       /\ WF_leaseVars(Due(i)) /\ WF_leaseVars(Finish(i))
       /\ WF_leaseVars(Unlock(i)) /\ SF_leaseVars(EnsureRow(i))
       /\ SF_leaseVars(Claim(i)) /\ SF_leaseVars(Claim(i) /\ phase'[i] # "idle")

-----------------------------------------------------------------------------
\* Types.
LeaseTypeOK ==
  /\ ahead \in [Instances -> 0..Skew]
  /\ exists \in BOOLEAN /\ leaseOwner \in Instances \cup {Nobody}
  /\ left \in LongAgo..TTL + Skew
  /\ phase \in [Instances -> {"idle", "insert", "claim", "run", "unlock", "down"}]
  /\ age \in [Instances -> 0..MaxHold]
  /\ crashes \in 0..MaxCrashes

\* "Exactly one instance runs a job at a time" (LeaseLocker), with clocks that
\* differ, slow statements, failed ones, crashes, and releases that come after
\* the lease was taken over.
OneRunner ==
  \A i, j \in Instances : phase[i] = "run" /\ phase[j] = "run" => i = j

\* The job is run again and again while an instance is up: a lease whose owner
\* died is claimed by another one once it has expired.
JobKeepsRunning ==
  []<>((\E i \in Instances : phase[i] = "run") \/ \A i \in Instances : phase[i] = "down")
=============================================================================
