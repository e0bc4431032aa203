---------------------------- MODULE MutexProofs -----------------------------
(***************************************************************************)
(* The lock() of source/div.js excludes its callers from each other and    *)
(* serves them in the order of their calls, however many there are, until  *)
(* the timer of a call that passed a timeout fires; and its locked getter  *)
(* counts the pending unlocks whatever the timers do, which let in one     *)
(* caller each and no more.                                                *)
(***************************************************************************)
EXTENDS Mutex, SequenceTheorems, FiniteSetTheorems, TLAPS

(* Every variable keeps its type: a key is pushed, awaited and released    *)
(* once.                                                                   *)
LEMMA TypeStep == TypeOK /\ [Next]_vars => TypeOK'
<1> SUFFICES ASSUME TypeOK, [Next]_vars PROVE TypeOK'
  OBVIOUS
<1> USE MutexAssumption DEF TypeOK, Phases
<1>1. ASSUME NEW k \in Keys, Lock(k) PROVE TypeOK'
  BY <1>1 DEF Lock
<1>2. ASSUME NEW k \in Keys, Grant(k) PROVE TypeOK'
  BY <1>2 DEF Grant
<1>3. ASSUME NEW k \in Keys, Unlock(k) PROVE TypeOK'
  BY <1>3 DEF Unlock, ReleaseKey, Shift
<1>4. ASSUME NEW k \in Keys, Timeout(k) PROVE TypeOK'
  BY <1>4 DEF Timeout, ReleaseKey, Shift
<1>5. CASE UNCHANGED vars
  BY <1>5 DEF vars
<1> QED
  BY <1>1, <1>2, <1>3, <1>4, <1>5 DEF Next

(* A queued key whose promise is resolved is the first one: the promise    *)
(* every other one waits for belongs to a key that is not released.        *)
LEMMA OnlyFirstCanProceed ==
  ASSUME Chain, NEW i \in 1..Len(keys), Resolved(waitFor[keys[i]])
  PROVE  i = 1
<1> SUFFICES ASSUME i # 1 PROVE FALSE
  OBVIOUS
<1>1. /\ waitFor[keys[i]] = keys[i - 1]
      /\ i - 1 \in 1..Len(keys)
  BY DEF Chain, ChainInOrder, TypeOK
<1>2. keys[i - 1] \in Keys /\ keys[i - 1] \in Queued
  BY <1>1 DEF Chain, TypeOK, Queued
<1>3. phase[keys[i - 1]] \in {"waiting", "held", "rejected"}
  BY <1>2 DEF Chain, QueuedAreActive
<1> QED
  BY <1>1, <1>2, <1>3, MutexAssumption
     DEF Resolved, Chain, UnlockedAreReleased

(* Whoever holds the lock is first in #keys. *)
LEMMA HolderIsFirst ==
  ASSUME Chain, NEW k \in Keys, phase[k] = "held"
  PROVE  keys # <<>> /\ keys[1] = k
<1>1. PICK i \in 1..Len(keys) : keys[i] = k
  BY DEF Chain, QueuedAreActive, Queued
<1>2. i = 1
  BY <1>1 DEF Chain, ChainInOrder
<1> QED
  BY <1>1, <1>2 DEF Chain, TypeOK

(* A new mutex has an intact chain. *)
LEMMA ChainInit == Init => Chain
<1> SUFFICES ASSUME Init PROVE Chain
  OBVIOUS
<1>1. Len(keys) = 0 /\ keys \in Seq(Keys)
  BY DEF Init
<1> QED
  BY <1>1, MutexAssumption
     DEF Init, Chain, TypeOK, Phases, KeysDistinct, QueuedAreActive, Queued,
         ChainInOrder, LockIsLast, UnlockedAreReleased

(* lock() puts the new key behind the one whose promise it found in #lock. *)
LEMMA ChainLock ==
  ASSUME Chain, TypeOK', NEW k \in Keys, Lock(k)
  PROVE  Chain'
<1>1. /\ keys \in Seq(Keys)
      /\ Len(keys) \in Nat
      /\ keys' = Append(keys, k)
      /\ keys' \in Seq(Keys)
      /\ Len(keys') = Len(keys) + 1
      /\ keys'[Len(keys')] = k
      /\ keys' # <<>>
      /\ \A i \in 1..Len(keys) : keys'[i] = keys[i]
  BY AppendProperties DEF Chain, TypeOK, Lock
<1>2. /\ phase' = [phase EXCEPT ![k] = phase'[k]]
      /\ phase'[k] \in {"waiting", "rejected"}
      /\ waitFor' = [waitFor EXCEPT ![k] = lock]
      /\ lock' = k
      /\ unlocked' = unlocked
      /\ phase[k] = "new"
  BY DEF Lock, Chain, TypeOK
<1>3. k \notin Queued /\ \A i \in 1..Len(keys) : keys[i] # k
  BY <1>2 DEF Chain, QueuedAreActive, Queued
<1>4. Queued' = Queued \cup {k}
  BY <1>1 DEF Queued
<1>5. KeysDistinct'
  BY <1>1, <1>3 DEF Chain, KeysDistinct
<1>6. QueuedAreActive'
  BY <1>2, <1>4 DEF Chain, QueuedAreActive, TypeOK
<1>7. ChainInOrder'
  <2> SUFFICES ASSUME NEW i \in 1..Len(keys')
               PROVE IF i = 1 THEN Resolved(waitFor[keys[i]])'
                     ELSE waitFor'[keys'[i]] = keys'[i - 1] /\ phase'[keys'[i]] # "held"
    BY DEF ChainInOrder
  <2>1. CASE i \in 1..Len(keys)
    <3>1. /\ keys'[i] = keys[i] /\ keys[i] # k /\ keys[i] \in Keys
          /\ (i # 1 => keys'[i - 1] = keys[i - 1])
      BY <2>1, <1>1, <1>3
    <3> QED
      BY <2>1, <3>1, <1>2 DEF Chain, ChainInOrder, TypeOK, Resolved
  <2>2. CASE i = Len(keys) + 1
    <3>1. keys'[i] = k /\ waitFor'[k] = lock /\ phase'[k] # "held"
      BY <2>2, <1>1, <1>2 DEF Chain, TypeOK
    <3>2. CASE i = 1
      BY <3>1, <3>2, <2>2, <1>1 DEF Chain, LockIsLast, Resolved
    <3>3. CASE i # 1
      BY <3>1, <3>3, <2>2, <1>1 DEF Chain, LockIsLast
    <3> QED
      BY <3>2, <3>3
  <2> QED
    BY <2>1, <2>2, <1>1
<1>8. LockIsLast'
  BY <1>1, <1>2 DEF LockIsLast
<1>9. UnlockedAreReleased'
  BY <1>2 DEF Chain, UnlockedAreReleased, TypeOK
<1> QED
  BY <1>2, <1>5, <1>6, <1>7, <1>8, <1>9 DEF Chain

(* Only the first key is ever granted. *)
LEMMA ChainGrant ==
  ASSUME Chain, TypeOK', NEW k \in Keys, Grant(k)
  PROVE  Chain'
<1>1. PICK i \in 1..Len(keys) : keys[i] = k
  BY DEF Chain, QueuedAreActive, Queued, Grant
<1>2. i = 1
  BY <1>1, OnlyFirstCanProceed DEF Grant
<1>3. \A j \in 1..Len(keys) : j # 1 => keys[j] # k
  BY <1>1, <1>2 DEF Chain, KeysDistinct
<1>4. ChainInOrder'
  BY <1>3 DEF Chain, ChainInOrder, TypeOK, Grant, Resolved
<1>5. QueuedAreActive' /\ UnlockedAreReleased'
  BY DEF Chain, QueuedAreActive, Queued, UnlockedAreReleased, TypeOK, Grant
<1> QED
  BY <1>4, <1>5 DEF Chain, Grant, KeysDistinct, LockIsLast

(* unlock() shifts #keys, and the key it shifts is its own. *)
LEMMA ChainUnlock ==
  ASSUME Chain, TypeOK', NEW k \in Keys, Unlock(k)
  PROVE  Chain'
<1>1. keys # <<>> /\ keys[1] = k
  BY HolderIsFirst DEF Unlock
<1>2. /\ keys \in Seq(Keys)
      /\ Len(keys) \in Nat /\ Len(keys) # 0
      /\ keys' = Tail(keys)
      /\ Len(keys') = Len(keys) - 1
      /\ \A i \in 1..Len(keys') : i + 1 \in 1..Len(keys) /\ keys'[i] = keys[i + 1]
  BY <1>1, HeadTailProperties, EmptySeq DEF Chain, TypeOK, Unlock, ReleaseKey, Shift
<1>3. \A i \in 1..Len(keys) : i # 1 => keys[i] # k
  BY <1>1, <1>2 DEF Chain, KeysDistinct
<1>4. /\ phase' = [phase EXCEPT ![k] = "released"]
      /\ unlocked' = unlocked \cup {k}
      /\ lock' = IF keys' = <<>> THEN None ELSE lock
      /\ UNCHANGED <<waitFor, timers>>
  BY DEF Unlock, ReleaseKey
<1>5. KeysDistinct'
  BY <1>2 DEF Chain, KeysDistinct
<1>6. Queued' = Queued \ {k}
  <2>1. ASSUME NEW x \in Queued' PROVE x \in Queued /\ x # k
    BY <2>1, <1>2, <1>3 DEF Queued
  <2>2. ASSUME NEW x \in Queued, x # k PROVE x \in Queued'
    <3>1. PICK i \in 1..Len(keys) : keys[i] = x
      BY DEF Queued
    <3>2. i - 1 \in 1..Len(keys') /\ keys'[i - 1] = x
      BY <3>1, <2>2, <1>1, <1>2
    <3> QED
      BY <3>2 DEF Queued
  <2> QED
    BY <2>1, <2>2
<1>7. QueuedAreActive'
  BY <1>4, <1>6 DEF Chain, QueuedAreActive, TypeOK
<1>8. UnlockedAreReleased'
  BY <1>4 DEF Chain, UnlockedAreReleased, TypeOK
<1>9. ChainInOrder'
  <2> SUFFICES ASSUME NEW i \in 1..Len(keys')
               PROVE IF i = 1 THEN Resolved(waitFor[keys[i]])'
                     ELSE waitFor'[keys'[i]] = keys'[i - 1] /\ phase'[keys'[i]] # "held"
    BY DEF ChainInOrder
  <2>1. /\ keys'[i] = keys[i + 1] /\ keys[i + 1] \in Keys /\ keys[i + 1] # k
        /\ waitFor[keys[i + 1]] = keys[i] /\ phase[keys[i + 1]] # "held"
    BY <1>2, <1>3 DEF Chain, ChainInOrder
  <2>2. CASE i = 1
    BY <2>1, <2>2, <1>1, <1>4 DEF Resolved
  <2>3. CASE i # 1
    BY <2>1, <2>3, <1>2, <1>4 DEF Chain, TypeOK
  <2> QED
    BY <2>2, <2>3
<1>10. LockIsLast'
  <2>1. CASE keys' = <<>>
    BY <2>1, <1>4 DEF LockIsLast
  <2>2. CASE keys' # <<>>
    <3>1. keys' \in Seq(Keys) /\ Len(keys') \in 1..Len(keys')
      BY <2>2, <1>2, EmptySeq DEF TypeOK
    <3>2. keys'[Len(keys')] = keys[Len(keys)]
      BY <3>1, <1>2
    <3> QED
      BY <2>2, <3>2, <1>1, <1>4 DEF Chain, LockIsLast
  <2> QED
    BY <2>1, <2>2
<1> QED
  BY <1>4, <1>5, <1>7, <1>8, <1>9, <1>10 DEF Chain

(* Every step keeps the chain. *)
LEMMA ChainStep ==
  ASSUME Chain, NoTimeoutYet', [Next]_vars
  PROVE  Chain'
<1>1. TypeOK'
  BY TypeStep DEF Chain
<1>2. ASSUME NEW k \in Keys, Lock(k) PROVE Chain'
  BY <1>1, <1>2, ChainLock
<1>3. ASSUME NEW k \in Keys, Grant(k) PROVE Chain'
  BY <1>1, <1>3, ChainGrant
<1>4. ASSUME NEW k \in Keys, Unlock(k) PROVE Chain'
  BY <1>1, <1>4, ChainUnlock
<1>5. ASSUME NEW k \in Keys, Timeout(k) PROVE Chain'
  BY <1>5 DEF Timeout, ReleaseKey, Chain, TypeOK, NoTimeoutYet, TimedOut
<1>6. CASE UNCHANGED vars
  BY <1>6 DEF vars, Chain, TypeOK, KeysDistinct, QueuedAreActive, Queued,
              ChainInOrder, Resolved, LockIsLast, UnlockedAreReleased
<1> QED
  BY <1>2, <1>3, <1>4, <1>5, <1>6 DEF Next

(* Every variable of the Mutex class keeps its type, with or without       *)
(* timeouts.                                                               *)
THEOREM TypeCorrect == Spec => []TypeOK
<1>1. Init => TypeOK
  BY MutexAssumption, EmptySeq DEF Init, TypeOK, Phases
<1> QED
  BY <1>1, TypeStep, PTL DEF Spec

(* No step takes a timeout back. *)
LEMMA TimeoutsStay == NoTimeoutYet' /\ [Next]_vars => NoTimeoutYet
<1> SUFFICES ASSUME NoTimeoutYet', [Next]_vars PROVE NoTimeoutYet
  OBVIOUS
<1>1. unlocked \subseteq unlocked'
  BY DEF Next, vars, Lock, Grant, Unlock, Timeout, ReleaseKey
<1> QED
  BY <1>1 DEF NoTimeoutYet, TimedOut

(* The chain of promises follows #keys until a timer fires.                *)
THEOREM ChainCorrect == Spec => []ChainInv
<1>1. Init => ChainInv
  BY ChainInit DEF ChainInv
<1>2. ChainInv /\ [Next]_vars => ChainInv'
  BY ChainStep, TimeoutsStay DEF ChainInv
<1> QED
  BY <1>1, <1>2, PTL DEF Spec

(* Between lock() and unlock() there is at most one caller until a timer   *)
(* fires.                                                                  *)
THEOREM Exclusion == Spec => []MutualExclusion
<1>1. ChainInv => MutualExclusion
  BY HolderIsFirst DEF MutualExclusion, Holders, ChainInv
<1> QED
  BY <1>1, ChainCorrect, PTL

(* A step of the chain is a step of the first-come first-served lock.      *)
LEMMA FifoStep ==
  ASSUME Chain, NoTimeoutYet', [Next]_vars
  PROVE  [Lock1!Next]_(Lock1!vars)
<1> USE DEF Lock1!Next, Lock1!vars, Lock1!Waiting
<1>1. keys \in Seq(Keys) /\ phase \in [Keys -> Phases]
  BY DEF Chain, TypeOK
<1>2. ASSUME NEW k \in Keys, Lock(k) PROVE Lock1!Request(k)
  <2>1. k \notin Queued
    BY <1>2 DEF Lock, Chain, QueuedAreActive
  <2>2. k \notin {keys[i] : i \in DOMAIN keys}
    BY <1>1, <2>1, LenProperties DEF Queued
  <2>3. Holders' = Holders
    BY <1>1, <1>2, <2>1 DEF Lock, Holders
  <2> QED
    BY <1>2, <2>2, <2>3 DEF Lock, Lock1!Request
<1>3. ASSUME NEW k \in Keys, Grant(k) PROVE Lock1!Grant(k)
  <2>1. PICK i \in 1..Len(keys) : keys[i] = k
    BY <1>3 DEF Chain, QueuedAreActive, Queued, Grant
  <2>2. i = 1
    BY <1>3, <2>1, OnlyFirstCanProceed DEF Grant
  <2>3. keys # <<>> /\ k = Head(keys)
    BY <1>1, <2>1, <2>2
  <2>4. Holders = {}
    BY <1>3, <2>1, <2>2, HolderIsFirst DEF Holders, Grant
  <2>5. Holders' = {k}
    BY <1>1, <1>3, <2>4 DEF Holders, Grant
  <2> QED
    BY <1>3, <2>3, <2>4, <2>5 DEF Grant, Lock1!Grant
<1>4. ASSUME NEW k \in Keys, Unlock(k) PROVE Lock1!Release(k)
  <2>1. keys # <<>>
    BY <1>4, HolderIsFirst DEF Unlock
  <2>2. k \in Holders /\ Holders' = Holders \ {k}
    BY <1>1, <1>4 DEF Holders, Unlock
  <2> QED
    BY <1>4, <2>1, <2>2 DEF Unlock, ReleaseKey, Shift, Lock1!Release
<1>5. ASSUME NEW k \in Keys, Timeout(k) PROVE FALSE
  BY <1>5 DEF Timeout, ReleaseKey, Chain, TypeOK, NoTimeoutYet, TimedOut
<1>6. CASE UNCHANGED vars
  BY <1>6 DEF vars, Holders
<1> QED
  BY <1>2, <1>3, <1>4, <1>5, <1>6 DEF Next

(* The Mutex class is the lock its callers in protocolWriter.js rely on:   *)
(* it serves them one at a time, in the order of their calls.              *)
THEOREM Refinement == Spec => ImplementsFifoLock
<1>1. Init => Lock1!Init
  BY DEF Init, Lock1!Init, Holders
<1>2. ChainInv /\ [Next]_vars => [NoTimeoutYet' => [Lock1!Next]_(Lock1!vars)]_vars
  BY FifoStep, TimeoutsStay DEF ChainInv
<1> QED
  BY <1>1, <1>2, ChainCorrect, PTL DEF Spec, ImplementsFifoLock

(* What the count of #keys rests on: a key that is resolved was made by a  *)
(* call of lock(), and #keys has as many elements as there are such keys   *)
(* that are not resolved.                                                  *)
CountInv ==
  /\ TypeOK
  /\ \A k \in unlocked \cup timers : phase[k] # "new"
  /\ IsFiniteSet(PendingUnlocks)
  /\ LockedCountsPendingUnlocks

(* unlock() shortens #keys by one and settles one pending unlock, although *)
(* the key it shifts may be another one.                                   *)
LEMMA CountRelease ==
  ASSUME CountInv, TypeOK', NEW k \in Keys, ReleaseKey(k), phase[k] # "new",
         \A x \in Keys : (phase'[x] = "new") <=> (phase[x] = "new")
  PROVE  IsFiniteSet(PendingUnlocks') /\ LockedCountsPendingUnlocks'
<1>1. k \in PendingUnlocks /\ PendingUnlocks' = PendingUnlocks \ {k}
  BY DEF CountInv, ReleaseKey, PendingUnlocks
<1>2. /\ IsFiniteSet(PendingUnlocks')
      /\ Cardinality(PendingUnlocks') = Cardinality(PendingUnlocks) - 1
  BY <1>1, FS_RemoveElement DEF CountInv
<1>3. Len(keys) = Cardinality(PendingUnlocks) /\ PendingUnlocks # {}
  BY <1>1 DEF CountInv, LockedCountsPendingUnlocks
<1>4. keys \in Seq(Keys) /\ Len(keys) \in Nat /\ keys # <<>>
  BY <1>3, FS_EmptySet DEF CountInv, TypeOK
<1>5. Len(keys') = Len(keys) - 1
  BY <1>4, HeadTailProperties DEF ReleaseKey, Shift
<1> QED
  BY <1>2, <1>3, <1>5 DEF LockedCountsPendingUnlocks

(* Every step keeps the count. *)
LEMMA CountStep == CountInv /\ [Next]_vars => CountInv'
<1> SUFFICES ASSUME CountInv, [Next]_vars PROVE CountInv'
  OBVIOUS
<1>1. TypeOK'
  BY TypeStep DEF CountInv
<1>2. ASSUME NEW k \in Keys, Lock(k) PROVE CountInv'
  <2>1. k \notin PendingUnlocks /\ PendingUnlocks' = PendingUnlocks \cup {k}
    BY <1>2, <1>1 DEF Lock, CountInv, TypeOK, PendingUnlocks
  <2>2. /\ IsFiniteSet(PendingUnlocks')
        /\ Cardinality(PendingUnlocks') = Cardinality(PendingUnlocks) + 1
    BY <2>1, FS_AddElement DEF CountInv
  <2>3. Len(keys') = Len(keys) + 1
    BY <1>2, AppendProperties DEF Lock, CountInv, TypeOK
  <2>4. \A x \in unlocked' \cup timers' : phase'[x] # "new"
    BY <1>2, MutexAssumption DEF Lock, CountInv, TypeOK
  <2> QED
    BY <1>1, <2>2, <2>3, <2>4 DEF CountInv, LockedCountsPendingUnlocks
<1>3. ASSUME NEW k \in Keys, Grant(k) PROVE CountInv'
  <2>1. \A x \in Keys : (phase'[x] = "new") <=> (phase[x] = "new")
    BY <1>3 DEF Grant, CountInv, TypeOK
  <2>2. PendingUnlocks' = PendingUnlocks
    BY <1>3, <2>1 DEF Grant, PendingUnlocks
  <2>3. \A x \in unlocked' \cup timers' : phase'[x] # "new"
    BY <1>3, <2>1, MutexAssumption DEF Grant, CountInv, TypeOK
  <2> QED
    BY <1>1, <1>3, <2>2, <2>3 DEF Grant, CountInv, LockedCountsPendingUnlocks
<1>4. ASSUME NEW k \in Keys, Unlock(k) PROVE CountInv'
  <2>1. /\ phase[k] # "new"
        /\ \A x \in Keys : (phase'[x] = "new") <=> (phase[x] = "new")
    BY <1>4 DEF Unlock, CountInv, TypeOK
  <2>2. \A x \in unlocked' \cup timers' : phase'[x] # "new"
    BY <1>4, <2>1, MutexAssumption DEF Unlock, ReleaseKey, CountInv, TypeOK
  <2> QED
    BY <1>1, <1>4, <2>1, <2>2, CountRelease DEF Unlock, CountInv
<1>5. ASSUME NEW k \in Keys, Timeout(k) PROVE CountInv'
  <2>1. /\ phase[k] # "new"
        /\ \A x \in Keys : (phase'[x] = "new") <=> (phase[x] = "new")
    BY <1>5 DEF Timeout, CountInv
  <2>2. \A x \in unlocked' \cup timers' : phase'[x] # "new"
    BY <1>5, <2>1 DEF Timeout, ReleaseKey, CountInv
  <2> QED
    BY <1>1, <1>5, <2>1, <2>2, CountRelease DEF Timeout, CountInv
<1>6. CASE UNCHANGED vars
  BY <1>6, <1>1 DEF vars, CountInv, PendingUnlocks, LockedCountsPendingUnlocks
<1> QED
  BY <1>2, <1>3, <1>4, <1>5, <1>6 DEF Next

(* A new mutex has nothing pending.                                        *)
LEMMA CountInit == Init => CountInv
<1> SUFFICES ASSUME Init PROVE CountInv
  OBVIOUS
<1>1. TypeOK
  BY MutexAssumption, EmptySeq DEF Init, TypeOK, Phases
<1>2. PendingUnlocks = {}
  BY DEF Init, PendingUnlocks
<1> QED
  BY <1>1, <1>2, FS_EmptySet DEF Init, CountInv, LockedCountsPendingUnlocks

(* The locked getter counts the calls that are not unlocked, with or       *)
(* without timeouts.                                                       *)
THEOREM CountCorrect == Spec => []LockedCountsPendingUnlocks
<1>1. CountInv => LockedCountsPendingUnlocks
  BY DEF CountInv
<1> QED
  BY <1>1, CountInit, CountStep, PTL DEF Spec

(* Why no more calls are in than timers have fired.  Admitted are the      *)
(* calls that are in or have nothing left to wait for, and None stands for *)
(* a call that would not have to wait when it came now.                    *)
Admitted == {k \in Keys : phase[k] = "held" \/ (phase[k] = "waiting" /\ Resolved(waitFor[k]))}

Places == Admitted \cup {p \in {None} : Resolved(lock)}

(* A promise is waited for by one call at most, and #lock by none yet.     *)
WaitedForOnce ==
  /\ \A a, b \in Keys : waitFor[a] = waitFor[b] /\ waitFor[a] # None => a = b
  /\ \A a \in Keys : waitFor[a] # None => waitFor[a] # lock /\ phase[waitFor[a]] # "new"
  /\ lock # None => phase[lock] # "new"

(* A timed call never comes in, and a call whose promise is resolved is    *)
(* over.                                                                   *)
ResolvedAreOver ==
  /\ \A k \in TimedKeys : phase[k] \in {"new", "rejected"}
  /\ \A k \in unlocked : phase[k] \in {"rejected", "released"}

PlacesInv ==
  /\ CountInv
  /\ WaitedForOnce
  /\ ResolvedAreOver
  /\ IsFiniteSet(unlocked)
  /\ IsFiniteSet(Places)
  /\ Cardinality(Places) <= 1 + Cardinality(TimedOut)

(* The calls that wait for a promise, and those that #lock will make wait. *)
LEMMA WaitedForOnceStep == PlacesInv /\ [Next]_vars => WaitedForOnce' /\ ResolvedAreOver'
<1> SUFFICES ASSUME PlacesInv, [Next]_vars PROVE WaitedForOnce' /\ ResolvedAreOver'
  OBVIOUS
<1> USE MutexAssumption DEF PlacesInv, CountInv, TypeOK, Phases, WaitedForOnce, ResolvedAreOver
<1>1. ASSUME NEW k \in Keys, Lock(k) PROVE WaitedForOnce' /\ ResolvedAreOver'
  BY <1>1 DEF Lock
<1>2. ASSUME NEW k \in Keys, Grant(k) PROVE WaitedForOnce' /\ ResolvedAreOver'
  BY <1>2 DEF Grant
<1>3. ASSUME NEW k \in Keys, Unlock(k) PROVE WaitedForOnce' /\ ResolvedAreOver'
  BY <1>3 DEF Unlock, ReleaseKey
<1>4. ASSUME NEW k \in Keys, Timeout(k) PROVE WaitedForOnce' /\ ResolvedAreOver'
  BY <1>4 DEF Timeout, ReleaseKey
<1>5. CASE UNCHANGED vars
  BY <1>5 DEF vars
<1> QED
  BY <1>1, <1>2, <1>3, <1>4, <1>5 DEF Next

(* One more element is one more at most.                                   *)
LEMMA AddOne ==
  ASSUME NEW S, IsFiniteSet(S), NEW y
  PROVE  IsFiniteSet(S \cup {y}) /\ Cardinality(S \cup {y}) <= Cardinality(S) + 1
<1>1. Cardinality(S) \in Nat
  BY FS_CardinalityType
<1>2. /\ IsFiniteSet(S \cup {y})
      /\ Cardinality(S \cup {y}) = IF y \in S THEN Cardinality(S) ELSE Cardinality(S) + 1
  BY FS_AddElement
<1> QED
  BY <1>1, <1>2

(* Who takes the place of another changes nothing in the number.           *)
LEMMA Replace ==
  ASSUME NEW S, IsFiniteSet(S), NEW x \in S, NEW y, NEW T, T \subseteq (S \ {x}) \cup {y}
  PROVE  IsFiniteSet(T) /\ Cardinality(T) <= Cardinality(S)
<1> DEFINE R == S \ {x}
<1>1. /\ IsFiniteSet(R) /\ Cardinality(R) = Cardinality(S) - 1
      /\ Cardinality(S) \in Nat /\ Cardinality(R) \in Nat
  BY FS_RemoveElement, FS_CardinalityType
<1>2. IsFiniteSet(R \cup {y}) /\ Cardinality(R \cup {y}) <= Cardinality(R) + 1
  BY <1>1, AddOne
<1>3. IsFiniteSet(T) /\ Cardinality(T) <= Cardinality(R \cup {y})
  BY <1>2, FS_Subset
<1>4. Cardinality(T) \in Nat /\ Cardinality(R \cup {y}) \in Nat
  BY <1>2, <1>3, FS_CardinalityType
<1> QED
  BY <1>1, <1>2, <1>3, <1>4

(* A key that is resolved lets in one more at most, the call that waits    *)
(* for it or the next to come; and when it was the last one pending nobody *)
(* is in, so that #lock can be given up.                                   *)
LEMMA ReleaseLetsOneIn ==
  ASSUME PlacesInv, CountInv', ResolvedAreOver', NEW k \in Keys, ReleaseKey(k),
         phase'[k] \in {"rejected", "released"}, waitFor' = waitFor,
         \A x \in Keys : x # k => phase'[x] = phase[x]
  PROVE  \E y : Places' \subseteq (Places \ {k}) \cup {y}
<1>1. CASE keys' = <<>>
  <2>1. PendingUnlocks' = {}
    BY <1>1, FS_EmptySet DEF CountInv, LockedCountsPendingUnlocks
  <2>2. Admitted' = {}
    BY <2>1, MutexAssumption DEF Admitted, PendingUnlocks, ResolvedAreOver, CountInv, TypeOK
  <2> QED
    BY <2>2 DEF Places
<1>2. CASE keys' # <<>>
  <2>1. lock' = lock /\ unlocked' = unlocked \cup {k}
    BY <1>2 DEF ReleaseKey
  <2>2. \A x \in Admitted' : x \in Admitted \ {k} \/ waitFor[x] = k
    BY <2>1 DEF Admitted, Resolved
  <2>3. Resolved(lock)' => Resolved(lock) \/ lock = k
    BY <2>1 DEF Resolved
  <2>4. k # None /\ Admitted' \subseteq Keys
    BY MutexAssumption DEF Admitted
  <2>5. CASE lock = k
    <3>1. \A x \in Keys : waitFor[x] # k
      BY <2>4, <2>5 DEF PlacesInv, WaitedForOnce
    <3> QED
      BY <2>2, <2>4, <3>1 DEF Places
  <2>6. CASE lock # k
    <3>1. (Resolved(lock)' => Resolved(lock)) /\ None # k
      BY <2>3, <2>4, <2>6
    <3>2. CASE \E w \in Keys : waitFor[w] = k
      <4>1. PICK w \in Keys : waitFor[w] = k
        BY <3>2
      <4>2. \A x \in Keys : waitFor[x] = k => x = w
        BY <2>4, <4>1 DEF PlacesInv, WaitedForOnce
      <4> QED
        BY <2>2, <2>4, <3>1, <4>2 DEF Places
    <3>3. CASE ~ \E w \in Keys : waitFor[w] = k
      BY <2>2, <2>4, <3>1, <3>3 DEF Places
    <3> QED
      BY <3>2, <3>3
  <2> QED
    BY <2>5, <2>6
<1> QED
  BY <1>1, <1>2

(* Every step keeps the places within the bound.                           *)
LEMMA PlacesStep == PlacesInv /\ [Next]_vars => PlacesInv'
<1> SUFFICES ASSUME PlacesInv, [Next]_vars PROVE PlacesInv'
  OBVIOUS
<1>1. CountInv' /\ WaitedForOnce' /\ ResolvedAreOver'
  BY CountStep, WaitedForOnceStep DEF PlacesInv
<1>2. TypeOK /\ TypeOK' /\ IsFiniteSet(unlocked)
  BY <1>1 DEF PlacesInv, CountInv
<1>3. /\ IsFiniteSet(Places) /\ Cardinality(Places) \in Nat
      /\ IsFiniteSet(TimedOut) /\ Cardinality(TimedOut) \in Nat
      /\ Cardinality(Places) <= 1 + Cardinality(TimedOut)
  BY <1>2, FS_Subset, FS_CardinalityType DEF PlacesInv, TimedOut
<1>4. ASSUME NEW k \in Keys, Lock(k) PROVE PlacesInv'
  <2>1. unlocked' = unlocked /\ TimedOut' = TimedOut
    BY <1>4 DEF Lock, TimedOut
  <2>2. ~Resolved(lock)' /\ None \notin Keys
    BY <1>4, MutexAssumption DEF Lock, Resolved, PlacesInv, ResolvedAreOver
  <2>3. \A x \in Admitted' : x \in Admitted \/ (x = k /\ Resolved(lock))
    BY <1>2, <1>4 DEF Lock, Admitted, Resolved, TypeOK
  <2>4. Places' \subseteq Admitted \cup {x \in {k} : Resolved(lock)}
    BY <2>2, <2>3 DEF Places
  <2>5. Admitted \subseteq Keys
    BY DEF Admitted
  <2>6. IsFiniteSet(Places') /\ Cardinality(Places') <= Cardinality(Places)
    <3>1. CASE Resolved(lock)
      <4>1. None \in Places /\ Places' \subseteq (Places \ {None}) \cup {k}
        BY <2>2, <2>4, <2>5, <3>1 DEF Places
      <4> QED
        BY <1>3, <4>1, Replace
    <3>2. CASE ~Resolved(lock)
      <4>1. Places' \subseteq Places
        BY <2>4, <3>2 DEF Places
      <4> QED
        BY <1>3, <4>1, FS_Subset
    <3> QED
      BY <3>1, <3>2
  <2>7. Cardinality(Places') \in Nat
    BY <2>6, FS_CardinalityType
  <2> QED
    BY <1>1, <1>2, <1>3, <2>1, <2>6, <2>7 DEF PlacesInv
<1>5. ASSUME NEW k \in Keys, Grant(k) PROVE PlacesInv'
  <2>1. Admitted' = Admitted
    BY <1>2, <1>5 DEF Grant, Admitted, Resolved, TypeOK
  <2>2. unlocked' = unlocked /\ Places' = Places /\ TimedOut' = TimedOut
    BY <1>5, <2>1 DEF Grant, Places, Resolved, TimedOut
  <2> QED
    BY <1>1, <1>2, <1>3, <2>2 DEF PlacesInv
<1>6. ASSUME NEW k \in Keys, Unlock(k) PROVE PlacesInv'
  <2>1. /\ ReleaseKey(k) /\ waitFor' = waitFor /\ phase'[k] = "released"
        /\ \A x \in Keys : x # k => phase'[x] = phase[x]
    BY <1>2, <1>6 DEF Unlock, TypeOK
  <2>2. PICK y : Places' \subseteq (Places \ {k}) \cup {y}
    BY <1>1, <2>1, ReleaseLetsOneIn
  <2>3. k \in Places
    BY <1>6 DEF Unlock, Places, Admitted
  <2>4. IsFiniteSet(Places') /\ Cardinality(Places') <= Cardinality(Places)
    BY <1>3, <2>2, <2>3, Replace
  <2>5. unlocked' = unlocked \cup {k} /\ TimedOut \subseteq TimedOut'
    BY <2>1 DEF ReleaseKey, TimedOut
  <2>6. IsFiniteSet(unlocked') /\ IsFiniteSet(TimedOut')
    BY <1>2, <2>5, FS_AddElement, FS_Subset DEF TimedOut
  <2>7. /\ Cardinality(TimedOut) <= Cardinality(TimedOut') /\ Cardinality(TimedOut') \in Nat
        /\ Cardinality(Places') \in Nat
    BY <2>4, <2>5, <2>6, FS_Subset, FS_CardinalityType
  <2> QED
    BY <1>1, <1>3, <2>4, <2>6, <2>7 DEF PlacesInv
<1>7. ASSUME NEW k \in Keys, Timeout(k) PROVE PlacesInv'
  <2>1. /\ ReleaseKey(k) /\ waitFor' = waitFor /\ phase' = phase /\ k \in TimedKeys
        /\ phase[k] # "new" /\ phase[k] = "rejected"
    BY <1>2, <1>7 DEF Timeout, TypeOK, PlacesInv, CountInv, ResolvedAreOver
  <2>2. PICK y : Places' \subseteq (Places \ {k}) \cup {y}
    BY <1>1, <2>1, ReleaseLetsOneIn
  <2>3. IsFiniteSet(Places \cup {y}) /\ Cardinality(Places \cup {y}) <= Cardinality(Places) + 1
    BY <1>3, AddOne
  <2>4. Places' \subseteq Places \cup {y}
    BY <2>2
  <2>5. /\ IsFiniteSet(Places') /\ Cardinality(Places') <= Cardinality(Places \cup {y})
        /\ Cardinality(Places') \in Nat /\ Cardinality(Places \cup {y}) \in Nat
    BY <2>3, <2>4, FS_Subset, FS_CardinalityType
  <2>6. unlocked' = unlocked \cup {k} /\ TimedOut' = TimedOut \cup {k} /\ k \notin TimedOut
    BY <2>1 DEF ReleaseKey, TimedOut
  <2>7. IsFiniteSet(unlocked') /\ Cardinality(TimedOut') = Cardinality(TimedOut) + 1
    BY <1>2, <1>3, <2>6, FS_AddElement
  <2> QED
    BY <1>1, <1>3, <2>3, <2>5, <2>7 DEF PlacesInv
<1>8. CASE UNCHANGED vars
  <2>1. unlocked' = unlocked /\ Places' = Places /\ TimedOut' = TimedOut
    BY <1>8 DEF vars, Places, Admitted, Resolved, TimedOut
  <2> QED
    BY <1>1, <1>2, <1>3, <2>1 DEF PlacesInv
<1> QED
  BY <1>4, <1>5, <1>6, <1>7, <1>8 DEF Next

(* No more callers hold the lock at once than the first and one for every  *)
(* timer of lock() that has fired.                                         *)
THEOREM OverlapBounded == Spec => []OverlapOnlyByTimeouts
<1>1. Init => PlacesInv
  <2> SUFFICES ASSUME Init PROVE PlacesInv
    OBVIOUS
  <2>1. CountInv
    BY CountInit
  <2>2. WaitedForOnce /\ ResolvedAreOver /\ unlocked = {} /\ TimedOut = {}
    BY MutexAssumption DEF Init, WaitedForOnce, ResolvedAreOver, TimedOut
  <2>3. Places = {None}
    BY DEF Init, Places, Admitted, Resolved
  <2>4. IsFiniteSet(Places) /\ Cardinality(Places) = 1 /\ IsFiniteSet(unlocked)
    BY <2>2, <2>3, FS_EmptySet, FS_Singleton
  <2>5. Cardinality(TimedOut) = 0
    BY <2>2, FS_EmptySet
  <2> QED
    BY <2>1, <2>2, <2>4, <2>5 DEF PlacesInv
<1>2. PlacesInv => OverlapOnlyByTimeouts
  <2> SUFFICES ASSUME PlacesInv PROVE OverlapOnlyByTimeouts
    OBVIOUS
  <2>1. Holders \subseteq Places /\ TimedOut \subseteq unlocked
    BY DEF Holders, Places, Admitted, TimedOut
  <2>2. /\ Cardinality(Holders) <= Cardinality(Places) /\ Cardinality(Places) \in Nat
        /\ IsFiniteSet(Holders) /\ IsFiniteSet(TimedOut)
    BY <2>1, FS_Subset, FS_CardinalityType DEF PlacesInv
  <2>3. Cardinality(Holders) \in Nat /\ Cardinality(TimedOut) \in Nat
    BY <2>2, FS_CardinalityType
  <2> QED
    BY <2>2, <2>3 DEF PlacesInv, OverlapOnlyByTimeouts
<1> QED
  BY <1>1, <1>2, PlacesStep, PTL DEF Spec
=============================================================================
