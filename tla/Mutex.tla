------------------------------- MODULE Mutex --------------------------------
(***************************************************************************)
(* The Mutex class of source/div.js.  Every call of lock() makes a key     *)
(* with a promise of its own, leaves that promise in #lock for the next    *)
(* caller to wait for, pushes the key on #keys and awaits the promise it   *)
(* found in #lock.  unlock() drops the first element of #keys, whichever   *)
(* key it belongs to, and resolves the promise of its own key.             *)
(*                                                                         *)
(* An operator no action uses is a plausible mistake in the one after it,  *)
(* kept to show which property would notice.                               *)
(*                                                                         *)
(* A step is what runs between two awaits.  The callers hold the lock for  *)
(* as long as they like, so Unlock is a step of the environment.           *)
(***************************************************************************)
EXTENDS Naturals, Sequences, FiniteSets

CONSTANTS Keys,       \* one key object per call of lock()
          TimedKeys,  \* the calls that pass a timeout (none of source/ does)
          None        \* undefined

ASSUME MutexAssumption == TimedKeys \subseteq Keys /\ None \notin Keys

VARIABLES keys,      \* #keys
          lock,      \* #lock: the promise of the latest key, or undefined
          waitFor,   \* the promise each call found in #lock
          phase,     \* where each call is
          unlocked,  \* the keys with key.unlocked set and their promise resolved
          timers     \* the keys whose timeout timer is running

vars == <<keys, lock, waitFor, phase, unlocked, timers>>

Phases == {"new", "waiting", "held", "rejected", "released"}

TypeOK ==
  /\ keys \in Seq(Keys)
  /\ lock \in Keys \cup {None}
  /\ waitFor \in [Keys -> Keys \cup {None}]
  /\ phase \in [Keys -> Phases]
  /\ unlocked \subseteq Keys
  /\ timers \subseteq TimedKeys

Init ==
  /\ keys = <<>>
  /\ lock = None
  /\ waitFor = [k \in Keys |-> None]
  /\ phase = [k \in Keys |-> "new"]
  /\ unlocked = {}
  /\ timers = {}

Resolved(p) == p = None \/ p \in unlocked

TimerForAll(k) ==
  /\ phase[k] = "new"
  /\ waitFor' = [waitFor EXCEPT ![k] = lock]
  /\ lock' = k
  /\ keys' = Append(keys, k)
  /\ phase' = [phase EXCEPT ![k] = "waiting"]
  /\ timers' = timers \cup {k}
  /\ UNCHANGED unlocked

(* lock() up to its await: a timed call starts its timer and then rejects, *)
(* because Promise.race is given two arguments in place of an iterable.    *)
Lock(k) ==
  /\ phase[k] = "new"
  /\ waitFor' = [waitFor EXCEPT ![k] = lock]
  /\ lock' = k
  /\ keys' = Append(keys, k)
  /\ phase' = [phase EXCEPT ![k] = IF k \in TimedKeys THEN "rejected" ELSE "waiting"]
  /\ timers' = IF k \in TimedKeys THEN timers \cup {k} ELSE timers
  /\ UNCHANGED unlocked

(* lock() after "await waitFor": the caller has its key. *)
Grant(k) ==
  /\ phase[k] = "waiting"
  /\ Resolved(waitFor[k])
  /\ phase' = [phase EXCEPT ![k] = "held"]
  /\ UNCHANGED <<keys, lock, waitFor, unlocked, timers>>

Pop(seq) == IF seq = <<>> THEN <<>> ELSE SubSeq(seq, 1, Len(seq) - 1)

(* Array.prototype.shift *)
Shift(seq) == IF seq = <<>> THEN <<>> ELSE Tail(seq)

AlwaysClears(k) ==
  /\ k \notin unlocked
  /\ unlocked' = unlocked \cup {k}
  /\ keys' = Shift(keys)
  /\ lock' = None

ResolvesTheLast(k) ==
  /\ k \notin unlocked
  /\ keys' = Shift(keys)
  /\ lock' = IF keys' = <<>> THEN None ELSE lock
  /\ unlocked' = IF keys' = <<>> THEN unlocked \cup {k} ELSE unlocked

ResolvesTheFirst(k) ==
  /\ k \notin unlocked
  /\ unlocked' = unlocked \cup {keys[i] : i \in DOMAIN keys \cap {1}}
  /\ keys' = Shift(keys)
  /\ lock' = IF keys' = <<>> THEN None ELSE lock

(* key.unlock(): #keys.shift(), whoever is first. *)
ReleaseKey(k) ==
  /\ k \notin unlocked
  /\ unlocked' = unlocked \cup {k}
  /\ keys' = Shift(keys)
  /\ lock' = IF keys' = <<>> THEN None ELSE lock

Unlock(k) ==
  /\ phase[k] = "held"
  /\ ReleaseKey(k)
  /\ phase' = [phase EXCEPT ![k] = "released"]
  /\ UNCHANGED <<waitFor, timers>>

TimeoutKeepsKey(k) ==
  /\ k \in timers
  /\ timers' = timers \ {k}
  /\ unlocked' = unlocked \cup {k}
  /\ UNCHANGED <<keys, lock, waitFor, phase>>

(* The timer of a timed call: cancels the lock it may not have yet. *)
Timeout(k) ==
  /\ k \in timers
  /\ timers' = timers \ {k}
  /\ ReleaseKey(k)
  /\ UNCHANGED <<waitFor, phase>>

Next == \E k \in Keys : Lock(k) \/ Grant(k) \/ Unlock(k) \/ Timeout(k)

Spec == Init /\ [][Next]_vars

(* The event loop resumes every call whose promise is resolved, and every  *)
(* holder of a key is assumed to use it.  A timer that runs fires.         *)
Fairness ==
  \A k \in Keys : WF_vars(Grant(k)) /\ WF_vars(Unlock(k)) /\ WF_vars(Timeout(k))

FairSpec == Spec /\ Fairness
-----------------------------------------------------------------------------
Holders == {k \in Keys : phase[k] = "held"}

(* The calls whose timer has fired. *)
TimedOut == TimedKeys \cap unlocked

NoTimeoutYet == TimedOut = {}

(* Two callers are never both between lock() and unlock() until a timer of *)
(* lock() fires: the frames of two messages, or the bytes of two frames,   *)
(* would mix on the socket.                                                *)
MutualExclusion == NoTimeoutYet => \A a, b \in Holders : a = b

(* A timer that fires resolves the promise of a key that may be in the     *)
(* middle of the chain: it lets in the callers behind that key while the   *)
(* holder before it is still in, but no more than one at a time.           *)
OverlapOnlyByTimeouts == Cardinality(Holders) <= 1 + Cardinality(TimedOut)

(* "The number of pending unlocks" that the locked getter reads from #keys *)
(* counts every call that has not been unlocked, timed out ones included,  *)
(* although unlock() may shift a key other than its own.                   *)
PendingUnlocks == {k \in Keys : phase[k] # "new" /\ k \notin unlocked}

LockedCountsPendingUnlocks == Len(keys) = Cardinality(PendingUnlocks)

(* The inductive strengthening.  Until a timer fires the keys leave #keys  *)
(* at the front only, so the promise each call waits for is that of the    *)
(* key before its own, and #lock is the promise of the last one.           *)
Queued == {keys[i] : i \in 1..Len(keys)}

KeysDistinct == \A i, j \in 1..Len(keys) : keys[i] = keys[j] => i = j

QueuedAreActive ==
  \A k \in Keys : k \in Queued <=> phase[k] \in {"waiting", "held", "rejected"}

ChainInOrder ==
  \A i \in 1..Len(keys) :
    IF i = 1 THEN Resolved(waitFor[keys[i]])
             ELSE waitFor[keys[i]] = keys[i - 1] /\ phase[keys[i]] # "held"

LockIsLast == lock = IF keys = <<>> THEN None ELSE keys[Len(keys)]

UnlockedAreReleased == \A k \in unlocked : phase[k] = "released"

Chain ==
  /\ TypeOK
  /\ KeysDistinct
  /\ QueuedAreActive
  /\ ChainInOrder
  /\ LockIsLast
  /\ UnlockedAreReleased

(* Until a timer fires the promises of the calls follow #keys.             *)
ChainInv == NoTimeoutYet => Chain

(* The chain of promises implements a first-come first-served lock until a *)
(* timer fires; a timed call, which rejects at once, stays in the queue.   *)
Lock1 == INSTANCE FifoLock WITH Callers <- Keys, queue <- keys, holders <- Holders

ImplementsFifoLock ==
  Lock1!Init /\ [][NoTimeoutYet' => [Lock1!Next]_(Lock1!vars)]_vars

(* Every call of lock() without a timeout eventually returns its key if    *)
(* the holders before it unlock: send() and close() would otherwise wait   *)
(* for ever.  A call with a timeout never waits, it rejects at once.       *)
EveryCallGetsItsKey == \A k \in Keys : (phase[k] = "waiting") ~> (phase[k] = "held")
=============================================================================
