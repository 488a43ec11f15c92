---------------------------- MODULE WalletActions ----------------------------
(***************************************************************************)
(* createAction, signAction and abortAction of the wallet client           *)
(* (wallet/internal/actions) with the cache of actions that wait for a     *)
(* signature (wallet/pending) and the release of an action that a call     *)
(* cannot complete.  Calls of several clients run at the same time; each   *)
(* call to the storage is one step, as its own effects are.                *)
(*                                                                         *)
(* The storage is seen through what these calls change: an action is       *)
(* "unsigned" with its inputs reserved, handed over as "nosend" or as      *)
(* "unprocessed" (to be sent, without evidence of a post), "sent" (posted, *)
(* or queued for the broadcast), or "aborted".                             *)
(***************************************************************************)
EXTENDS FiniteSets, Naturals

CONSTANTS
  Refs,        \* references of actions
  Apps,        \* callers, one call at a time each
  NoRef,
  MaxCalls,
  MaxWalletRestarts

ASSUME WalletAssumption ==
  /\ NoRef \notin Refs
  /\ MaxCalls \in Nat /\ MaxWalletRestarts \in Nat

VARIABLES
  stored,      \* the storage's status of an action
  pendingSign, \* the references in the cache
  expired,     \* references whose entry is older than the TTL
  flow,        \* flow[a]: "none", "create" or "sign"
  at,          \* the step of the call
  ref,
  armed,
  calls,
  restarts,
  handed,      \* history: actions ProcessAction has been called for
  stranded     \* history: a fault kept an action from being released

callerVars == <<flow, at, ref, armed>>
walletVars == <<stored, pendingSign, expired, callerVars, calls, restarts, handed, stranded>>

WalletInit ==
  /\ stored = [r \in Refs |-> "none"] /\ pendingSign = {} /\ expired = {}
  /\ flow = [a \in Apps |-> "none"] /\ at = [a \in Apps |-> "start"]
  /\ ref = [a \in Apps |-> NoRef] /\ armed = [a \in Apps |-> FALSE]
  /\ calls = 0 /\ restarts = 0 /\ handed = {} /\ stranded = {}

Step(a, s) == at' = [at EXCEPT ![a] = s]

Called(a, f, r, arm) ==
  /\ flow[a] = "none" /\ calls < MaxCalls /\ calls' = calls + 1
  /\ flow' = [flow EXCEPT ![a] = f] /\ ref' = [ref EXCEPT ![a] = r]
  /\ armed' = [armed EXCEPT ![a] = arm]

\* The call returns; nothing of it is left.
Returned(a) ==
  /\ flow' = [flow EXCEPT ![a] = "none"] /\ ref' = [ref EXCEPT ![a] = NoRef]
  /\ armed' = [armed EXCEPT ![a] = FALSE] /\ Step(a, "start")

\* storage.CreateAction commits and the release is armed with the reference; or the
\* answer is lost, and nobody knows the reference.
CreateAction(a, r) ==
  /\ stored[r] = "none"
  /\ Called(a, "create", r, TRUE)
  /\ Step(a, "assemble")
  /\ stored' = [stored EXCEPT ![r] = "unsigned"]
  /\ UNCHANGED <<pendingSign, expired, restarts, handed, stranded>>

CreateAnswerLost(a, r) ==
  /\ stored[r] = "none"
  /\ flow[a] = "none" /\ calls < MaxCalls /\ calls' = calls + 1
  /\ stored' = [stored EXCEPT ![r] = "unsigned"]
  /\ stranded' = stranded \cup {r}
  /\ UNCHANGED <<pendingSign, expired, callerVars, restarts, handed>>

\* signAction arms the release with the caller's reference before it looks at it.
SignAction(a, r) ==
  /\ stored[r] # "none"
  /\ Called(a, "sign", r, TRUE)
  /\ Step(a, "lookup")
  /\ UNCHANGED <<stored, pendingSign, expired, restarts, handed, stranded>>

\* Save of the cache, whose cleanup removes the entries past their TTL, if it is due.
SavePending(a) ==
  /\ flow[a] = "create" /\ at[a] = "assemble"
  /\ \E gone \in {{}, expired} :
       /\ pendingSign' = (pendingSign \ gone) \cup {ref[a]}
       /\ expired' = expired \ gone
       /\ stranded' = stranded \cup gone
  /\ Returned(a)
  /\ UNCHANGED <<stored, calls, restarts, handed>>

\* Get finds the cached action.
Lookup(a) ==
  /\ at[a] = "lookup" /\ ref[a] \in pendingSign
  /\ Step(a, "assemble")
  /\ UNCHANGED <<stored, pendingSign, expired, flow, ref, armed, calls, restarts, handed, stranded>>

\* Mutant: the release is disarmed before the transaction is signed.
SignDisarmed(a) ==
  /\ at[a] = "assemble"
  /\ armed' = [armed EXCEPT ![a] = FALSE]
  /\ Step(a, "process") \/ Step(a, "error")
  /\ UNCHANGED <<stored, pendingSign, expired, flow, ref, calls, restarts, handed, stranded>>

\* The transaction is assembled and signed: the point of no return.
Sign(a) ==
  /\ at[a] = "assemble"
  /\ armed' = [armed EXCEPT ![a] = FALSE]
  /\ Step(a, "process")
  /\ UNCHANGED <<stored, pendingSign, expired, flow, ref, calls, restarts, handed, stranded>>

\* A bad argument, no cached action, inputs that cannot be unlocked, a signature
\* that fails.
CallFails(a) ==
  /\ at[a] \in {"lookup", "assemble"}
  /\ Step(a, "error")
  /\ UNCHANGED <<stored, pendingSign, expired, flow, ref, armed, calls, restarts, handed, stranded>>

\* ProcessAction takes an action over that is unsigned or not yet sent, or fails; what is
\* to be sent it sends after that commit (broadcastTxs).  The cached action goes when the
\* call ends well, and stays when it still fails on what storage answered.
ProcessAction(a) ==
  /\ at[a] = "process"
  /\ handed' = handed \cup {ref[a]}
  /\ \/ /\ stored[ref[a]] \in {"unsigned", "unprocessed"}
        /\ \E s \in {"nosend", "unprocessed", "sent"} : stored' = [stored EXCEPT ![ref[a]] = s]
        /\ \/ pendingSign' = pendingSign \ {ref[a]} /\ expired' = expired \ {ref[a]}
           \/ UNCHANGED <<pendingSign, expired>>
     \/ UNCHANGED <<stored, pendingSign, expired>>
  /\ Returned(a)
  /\ UNCHANGED <<calls, restarts, stranded>>

\* createAction with sendWith only: ProcessAction sends an action kept back as noSend.
SendWith(r) ==
  /\ stored[r] = "nosend"
  /\ stored' = [stored EXCEPT ![r] = "sent"]
  /\ UNCHANGED <<pendingSign, expired, callerVars, calls, restarts, handed, stranded>>

\* An action that was left to be sent - its ProcessAction failed, or died, after the
\* commit - is claimed by the storage's sweep and posted.
broadcastTxs(r) ==
  /\ stored[r] = "unprocessed"
  /\ stored' = [stored EXCEPT ![r] = "sent"]
  /\ UNCHANGED <<pendingSign, expired, callerVars, calls, restarts, handed, stranded>>

\* What storage.AbortAction accepts: never what may have been posted.
MayAbort(r) == stored[r] \in {"unsigned", "unprocessed", "nosend"}

\* onError of an armed release: AbortAction on a context of its own, then the cached
\* action goes, also when the abort failed.
onError(a) ==
  /\ at[a] = "error"
  /\ \/ /\ armed[a] /\ MayAbort(ref[a])
        /\ stored' = [stored EXCEPT ![ref[a]] = "aborted"]
        /\ UNCHANGED stranded
     \/ armed[a] /\ stranded' = stranded \cup {ref[a]} /\ UNCHANGED stored
     \/ ~armed[a] /\ UNCHANGED <<stored, stranded>>
  /\ IF armed[a] /\ flow[a] = "sign"
     THEN pendingSign' = pendingSign \ {ref[a]} /\ expired' = expired \ {ref[a]}
     ELSE UNCHANGED <<pendingSign, expired>>
  /\ Returned(a)
  /\ UNCHANGED <<calls, restarts, handed>>

\* abortAction of the wallet, and the storage's sweep of abandoned actions: the
\* cache is not told.
AbortAction(r) ==
  /\ MayAbort(r)
  /\ stored' = [stored EXCEPT ![r] = "aborted"]
  /\ UNCHANGED <<pendingSign, expired, callerVars, calls, restarts, handed, stranded>>

failAbandoned(r) ==
  /\ stored[r] \in {"unsigned", "unprocessed"}
  /\ stored' = [stored EXCEPT ![r] = "aborted"]
  /\ UNCHANGED <<pendingSign, expired, callerVars, calls, restarts, handed, stranded>>

PendingGrowsOld(r) ==
  /\ r \in pendingSign \ expired /\ expired' = expired \cup {r}
  /\ UNCHANGED <<stored, pendingSign, callerVars, calls, restarts, handed, stranded>>

\* The process of the wallet dies with its calls and its cache.
WalletRestart ==
  /\ restarts < MaxWalletRestarts /\ restarts' = restarts + 1
  /\ flow' = [a \in Apps |-> "none"] /\ at' = [a \in Apps |-> "start"]
  /\ ref' = [a \in Apps |-> NoRef] /\ armed' = [a \in Apps |-> FALSE]
  /\ pendingSign' = {} /\ expired' = {}
  /\ stranded' = stranded \cup {r \in Refs : stored[r] = "unsigned"}
  /\ UNCHANGED <<stored, calls, handed>>

WalletNext ==
  \/ \E a \in Apps :
       \/ SavePending(a) \/ Lookup(a) \/ Sign(a) \/ CallFails(a) \/ ProcessAction(a) \/ onError(a)
       \/ \E r \in Refs : CreateAction(a, r) \/ CreateAnswerLost(a, r) \/ SignAction(a, r)
  \/ \E r \in Refs : \/ SendWith(r) \/ broadcastTxs(r) \/ AbortAction(r)
                     \/ failAbandoned(r) \/ PendingGrowsOld(r)
  \/ WalletRestart

WalletSpec == WalletInit /\ [][WalletNext]_walletVars

-----------------------------------------------------------------------------
\* Types; who has a reference is at a step of a call, and what has expired is cached.
WalletTypeOK ==
  /\ stored \in [Refs -> {"none", "unsigned", "nosend", "unprocessed", "sent", "aborted"}]
  /\ pendingSign \subseteq Refs /\ expired \subseteq pendingSign
  /\ flow \in [Apps -> {"none", "create", "sign"}]
  /\ at \in [Apps -> {"start", "lookup", "assemble", "process", "error"}]
  /\ ref \in [Apps -> Refs \cup {NoRef}] /\ armed \in [Apps -> BOOLEAN]
  /\ calls \in 0..MaxCalls /\ restarts \in 0..MaxWalletRestarts
  /\ handed \subseteq Refs /\ stranded \subseteq Refs
  /\ \A a \in Apps : /\ flow[a] = "none" <=> ref[a] = NoRef
                     /\ flow[a] = "none" <=> at[a] = "start"

\* "every failure ... releases the inputs, unless it happens after the point of no
\* return" (release.go): an action whose inputs are reserved is cached for a
\* signature, in the hands of a call that will complete or release it, was handed
\* to ProcessAction, or was kept from its release by a fault - a lost answer, a
\* failed abort, an expired entry or a restart.
ReservedIsTended ==
  \A r \in Refs : stored[r] = "unsigned" =>
    \/ r \in pendingSign \cup handed \cup stranded
    \/ \E a \in Apps : ref[a] = r /\ (armed[a] \/ at[a] = "process")

\* "point of no return: the action was handed to ProcessAction, so it may already
\* carry broadcast evidence and its inputs must stay spent" (release.go): the
\* release of a call never aborts an action that storage has taken over.
HandedOverStays ==
  [][\A a \in Apps, r \in Refs :
       onError(a) /\ ref[a] = r /\ stored[r] \in {"nosend", "unprocessed", "sent"} =>
         stored'[r] = stored[r]]_walletVars
=============================================================================
