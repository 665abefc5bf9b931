---------------------------- MODULE RWLockProofs ----------------------------
(***************************************************************************)
(* Proofs about the Redis read/write lock, for any sets of lock objects,   *)
(* timeouts, clock scale and bound on calls.                               *)
(***************************************************************************)
EXTENDS RWLock, TLAPS

-----------------------------------------------------------------------------
(***************************************************************************)
(* Names.  After these lemmas LockName, WriteName and the timeout key      *)
(* names need not be expanded again.                                       *)
(***************************************************************************)

\* The field names of GetLockName() and of its ":write" form are fields of the
\* hash, differ, and determine the object they belong to.
LEMMA FieldNames ==
    /\ \A l \in Locks : LockName(l) \in Fields /\ WriteName(l) \in Fields
    /\ \A l, m \in Locks : LockName(l) # WriteName(m)
    /\ \A l, m \in Locks : LockName(l) = LockName(m) => l = m
    /\ \A l, m \in Locks : WriteName(l) = WriteName(m) => l = m
    /\ \A f \in Fields : \E l \in Locks : f = LockName(l) \/ f = WriteName(l)
  BY DEF Fields, LockName, WriteName

\* The name ReadLock.unLockScript looks up is never one ReadLock.lockScript
\* stored, so the loop over the remaining readers finds no time to keep.
LEMMA LookupMisses ==
    ASSUME NEW c
    PROVE  {x \in RemainTimes(c) : x > 0} = {}
  <1>1. ASSUME NEW r, NEW i PROVE Pttl(LookedUpKey(r, i)) = -2
    BY DEF Pttl, LookedUpKey, TimeoutKeys
  <1>2. \A x \in RemainTimes(c) : x = -2
    BY <1>1 DEF RemainTimes
  <1> QED
    BY <1>2

\* Every name ReadLock.lockScript stores a timeout under is a timeout key.
LEMMA StoredNames ==
    \A r \in Readers, i \in Depth : StoredKey(r, i) \in TimeoutKeys
  BY DEF StoredKey, TimeoutKeys

-----------------------------------------------------------------------------
(***************************************************************************)
(* Each action preserves the inductive invariant.                          *)
(***************************************************************************)

\* The empty database satisfies the invariant.
LEMMA InitIInv == Init => IInv
  <1> SUFFICES ASSUME Init PROVE IInv
    OBVIOUS
  <1> USE RWAssumption DEF Init
  <1>1. TypeOK
    BY DEF TypeOK
  <1>2. HashConsistent
    BY FieldNames DEF HashConsistent
  <1>3. \A l \in Locks : OwnCount(l) = 0
    BY FieldNames DEF OwnCount, OwnField
  <1>4. LeaseBacked
    BY DEF LeaseBacked, Secured, Depth
  <1>5. HoldsCounted
    BY <1>3 DEF HoldsCounted
  <1> QED
    BY <1>1, <1>2, <1>4, <1>5 DEF IInv

\* A step that leaves Redis, the holds and the leases alone preserves what is
\* said about them.
LEMMA ClientStepIInv ==
    ASSUME IInv, TypeOK', UNCHANGED <<redis, held, lease, cut>>,
           \A l \in Locks :
               /\ held[l] + (IF pc'[l] = "locking" THEN 1 ELSE 0) <= calls'[l]
               /\ calls'[l] > 0 => internalLockLeaseTime'[l] \in Timeouts
    PROVE  IInv'
  <1> USE DEF IInv, redis
  <1>1. \A l \in Locks : OwnCount(l)' = OwnCount(l)
    BY DEF OwnCount, OwnField
  <1>2. HashConsistent'
    BY DEF HashConsistent
  <1>3. LeaseBacked'
    BY <1>1 DEF LeaseBacked, Secured
  <1>4. HoldsCounted'
    BY <1>1 DEF HoldsCounted
  <1> QED
    BY <1>2, <1>3, <1>4

\* Acquire stores the timeout in the object and touches nothing else.
LEMMA TryLockIInv ==
    ASSUME IInv, NEW l \in Locks, NEW t \in Timeouts, TryLock(l, t)
    PROVE  IInv'
  <1>1. TypeOK'
    BY RWAssumption DEF IInv, TypeOK, TryLock, redis
  <1>2. ASSUME NEW m \in Locks
        PROVE  /\ held[m] + (IF pc'[m] = "locking" THEN 1 ELSE 0) <= calls'[m]
               /\ calls'[m] > 0 => internalLockLeaseTime'[m] \in Timeouts
    BY RWAssumption DEF IInv, TypeOK, HoldsCounted, TryLock
  <1> QED
    BY <1>1, <1>2, ClientStepIInv DEF TryLock

\* The death of a task leaves Redis as it is.
LEMMA CrashIInv ==
    ASSUME IInv, NEW l \in Locks, Crash(l)
    PROVE  IInv'
  <1>1. TypeOK'
    BY DEF IInv, TypeOK, Crash, redis
  <1>2. ASSUME NEW m \in Locks
        PROVE  /\ held[m] + (IF pc'[m] = "locking" THEN 1 ELSE 0) <= calls'[m]
               /\ calls'[m] > 0 => internalLockLeaseTime'[m] \in Timeouts
    BY RWAssumption DEF IInv, TypeOK, HoldsCounted, Crash
  <1> QED
    BY <1>1, <1>2, ClientStepIInv DEF Crash

\* What Locked and the caller's argument say about the object that got the
\* lock: there is room for one more hold, and its lease is positive.
LEMMA LockedFacts ==
    ASSUME IInv, NEW l \in Locks, pc[l] = "locking"
    PROVE  /\ held[l] + 1 \in Depth
           /\ OwnCount(l) + 1 \in Depth
           /\ held[l] + 1 <= calls[l]
           /\ internalLockLeaseTime[l] \in Timeouts
           /\ ToMillisecond(internalLockLeaseTime[l]) \in Nat \ {0}
  <1>1. held[l] \in Nat /\ calls[l] \in 0 .. MaxCalls /\ held[l] + 1 <= calls[l]
    BY RWAssumption DEF IInv, TypeOK, HoldsCounted
  <1>2. OwnCount(l) \in Nat /\ OwnCount(l) <= held[l]
    BY FieldNames DEF IInv, TypeOK, HoldsCounted, OwnCount, OwnField
  <1>3. internalLockLeaseTime[l] \in Timeouts
    BY <1>1, RWAssumption DEF IInv, HoldsCounted
  <1>4. ASSUME NEW a \in Nat \ {0}, NEW b \in Nat \ {0} PROVE a * b \in Nat \ {0}
    BY SMT
  <1>5. ToMillisecond(internalLockLeaseTime[l]) \in Nat \ {0}
    BY <1>3, <1>4, RWAssumption DEF ToMillisecond
  <1> QED
    BY <1>1, <1>2, <1>3, <1>5, RWAssumption DEF Depth

\* The same conditions seen from the lock objects: the fields that have a
\* count are exactly the own fields of lock objects.
LEMMA OwnFields ==
    ASSUME TypeOK, HashConsistent
    PROVE  /\ \A l \in Locks : OwnField(l) \in Fields /\ OwnCount(l) \in Nat
           /\ \A l, m \in Locks : OwnField(l) = OwnField(m) => l = m
           /\ \A f \in Fields : count[f] > 0 =>
                 \E l \in Locks : f = OwnField(l) /\ mode = IF l \in Readers THEN "read" ELSE "write"
  <1>1. \A l \in Locks : OwnField(l) \in Fields /\ OwnCount(l) \in Nat
    BY FieldNames DEF TypeOK, OwnField, OwnCount
  <1>2. \A l, m \in Locks : OwnField(l) = OwnField(m) => l = m
    BY FieldNames DEF OwnField
  <1>3. ASSUME NEW f \in Fields, count[f] > 0
        PROVE  \E l \in Locks : f = OwnField(l) /\ mode = IF l \in Readers THEN "read" ELSE "write"
    <2>1. PICK l \in Locks : f = LockName(l) \/ f = WriteName(l)
      BY FieldNames
    <2> QED
      BY <2>1, <1>3, RWAssumption DEF HashConsistent, OwnField, Locks
  <1> QED
    BY <1>1, <1>2, <1>3

\* A successful lock script, whichever of the two: the own counter goes up,
\* the hash lives at least as long as before and as the lease, and nobody
\* holds the lock in a way the new holder excludes.
LEMMA AcquireIInv ==
    ASSUME IInv, NEW l \in Locks, pc[l] = "locking", Locked(l),
           count' = [count EXCEPT ![OwnField(l)] = @ + 1],
           mode' = IF l \in Readers THEN "read" ELSE "write",
           ttl' \in Nat, ttl' >= ttl,
           ttl' >= ToMillisecond(internalLockLeaseTime[l]),
           timeoutKey' \in [TimeoutKeys -> Nat],
           \A m \in Locks : OwnCount(m) > 0 => m = l \/ (l \in Readers /\ m \in Readers)
    PROVE  IInv'
  <1>0. cut' = cut \ {<<l, held[l] + 1>>} /\ cut' \subseteq Writers \X Depth
    BY DEF IInv, TypeOK, Locked
  <1>1. /\ held[l] + 1 \in Depth
        /\ held[l] + 1 <= calls[l]
        /\ ToMillisecond(internalLockLeaseTime[l]) \in Nat \ {0}
    BY LockedFacts
  <1>2. /\ \A m \in Locks : OwnField(m) \in Fields /\ OwnCount(m) \in Nat
        /\ \A m, n \in Locks : OwnField(m) = OwnField(n) => m = n
        /\ \A f \in Fields : count[f] > 0 => \E m \in Locks : f = OwnField(m)
    BY OwnFields DEF IInv
  <1>3. /\ held' \in [Locks -> 0 .. MaxCalls]
        /\ lease' \in [Locks -> [Depth -> Nat]]
        /\ \A m \in Locks : held'[m] = IF m = l THEN held[l] + 1 ELSE held[m]
        /\ \A m \in Locks, k \in Depth :
              lease'[m][k] = IF m = l /\ k = held[l] + 1
                             THEN ToMillisecond(internalLockLeaseTime[l]) ELSE lease[m][k]
    <2>1. held \in [Locks -> 0 .. MaxCalls] /\ lease \in [Locks -> [Depth -> Nat]]
      BY DEF IInv, TypeOK
    <2>2. held' = [held EXCEPT ![l] = held[l] + 1]
      BY DEF Locked
    <2>3. lease' = [lease EXCEPT ![l] = [lease[l] EXCEPT ![held[l] + 1] =
                       ToMillisecond(internalLockLeaseTime[l])]]
      BY DEF Locked
    <2> HIDE DEF ToMillisecond
    <2>4. held[l] + 1 \in 0 .. MaxCalls
      BY <1>1, RWAssumption DEF Depth
    <2> QED
      BY <2>1, <2>2, <2>3, <2>4, <1>1
  <1>4. TypeOK'
    <2>1. count' \in [Fields -> Nat]
      BY <1>2 DEF IInv, TypeOK, OwnCount
    <2>2. mode' \in {"none", "read", "write"}
      OBVIOUS
    <2>3. /\ internalLockLeaseTime' \in [Locks -> Timeouts \cup {0}]
          /\ pc' \in [Locks -> {"ready", "locking", "crashed"}]
          /\ calls' \in [Locks -> 0 .. MaxCalls]
      BY DEF IInv, TypeOK, Locked
    <2> QED
      BY <2>1, <2>2, <2>3, <1>3, <1>0 DEF TypeOK
  <1>5. \A m \in Locks : OwnCount(m)' = IF m = l THEN OwnCount(l) + 1 ELSE OwnCount(m)
    <2>1. \A m \in Locks : OwnCount(m)' = count'[OwnField(m)]
      BY DEF OwnCount, OwnField
    <2> QED
      BY <2>1, <1>2 DEF IInv, TypeOK, OwnCount
  <1>6. HashConsistent'
    <2>1. ttl' > 0 /\ mode' # "none" /\ count'[OwnField(l)] > 0
      BY <1>1, <1>2 DEF IInv, TypeOK
    <2>2. ASSUME NEW f \in Fields, count'[f] > 0
          PROVE  \E m \in Locks : f = OwnField(m) /\ (m = l \/ (l \in Readers /\ m \in Readers))
      BY <2>2, <1>2 DEF IInv, TypeOK, OwnCount
    <2>3. ASSUME NEW f \in Fields, NEW g \in Fields,
                 mode' = "write", count'[f] > 0, count'[g] > 0
          PROVE  f = g
      BY <2>2, <2>3
    <2>4. ASSUME NEW m \in Locks
          PROVE  /\ count'[LockName(m)] > 0 => m \in Readers /\ mode' = "read"
                 /\ count'[WriteName(m)] > 0 => m \in Writers /\ mode' = "write"
      <3>1. CASE count'[LockName(m)] > 0
        BY <3>1, <2>2, FieldNames, RWAssumption DEF OwnField, Locks
      <3>2. CASE count'[WriteName(m)] > 0
        BY <3>2, <2>2, FieldNames, RWAssumption DEF OwnField, Locks
      <3> QED
        BY <3>1, <3>2, <2>2, FieldNames, RWAssumption DEF OwnField, Locks
    <2> QED
      BY <2>1, <2>3, <2>4, <1>2 DEF HashConsistent
  <1>7. LeaseBacked'
    <2> SUFFICES ASSUME NEW m \in Locks, NEW k \in Depth, Secured(m, k)'
                 PROVE  held'[m] - k < OwnCount(m)' /\ lease'[m][k] <= ttl'
      BY DEF LeaseBacked
    <2>1. CASE m = l /\ k = held[l] + 1
      <3>1. /\ held'[m] - k = 0
            /\ OwnCount(m)' = OwnCount(l) + 1
            /\ lease'[m][k] = ToMillisecond(internalLockLeaseTime[l])
        BY <2>1, <1>3, <1>5, <1>1 DEF Depth
      <3> QED
        BY <3>1, <1>1, <1>2
    <2>2. CASE m # l \/ k # held[l] + 1
      <3>1. lease'[m][k] = lease[m][k] /\ k <= held[m] /\ lease[m][k] > 0
        BY <2>2, <1>3, <1>1 DEF IInv, TypeOK, Depth, Secured
      <3>2. <<m, k>> \notin cut
        BY <2>2, <1>0 DEF Secured
      <3>3. held[m] - k < OwnCount(m) /\ lease[m][k] <= ttl
        BY <3>1, <3>2 DEF IInv, LeaseBacked, Secured
      <3> QED
        <4>1. held[m] \in Nat /\ k \in Nat /\ ttl \in Nat /\ lease[m][k] \in Nat
          <5>1. held[m] \in 0 .. MaxCalls /\ ttl \in Nat /\ lease[m][k] \in Nat
            BY DEF IInv, TypeOK
          <5> QED
            BY <5>1, RWAssumption DEF Depth
        <4>2. OwnCount(m) \in Nat
          BY <1>2
        <4>3. CASE m = l
          <5>1. held'[m] = held[m] + 1 /\ OwnCount(m)' = OwnCount(m) + 1
            BY <4>3, <1>3, <1>5
          <5> QED
            BY <5>1, <3>1, <3>3, <4>1, <4>2
        <4>4. CASE m # l
          <5>1. held'[m] = held[m] /\ OwnCount(m)' = OwnCount(m)
            BY <4>4, <1>3, <1>5
          <5> QED
            BY <5>1, <3>1, <3>3, <4>1, <4>2
        <4> QED
          BY <4>3, <4>4
    <2> QED
      BY <2>1, <2>2
  <1>8. HoldsCounted'
    <2> SUFFICES ASSUME NEW m \in Locks
                 PROVE  /\ OwnCount(m)' <= held'[m]
                        /\ held'[m] + (IF pc'[m] = "locking" THEN 1 ELSE 0) <= calls'[m]
                        /\ calls'[m] > 0 => internalLockLeaseTime'[m] \in Timeouts
                        /\ \A k \in Depth : k > held'[m] => lease'[m][k] = 0
      BY DEF HoldsCounted
    <2>1. OwnCount(m)' <= held'[m]
      BY <1>2, <1>5 DEF IInv, TypeOK, HoldsCounted, Locked
    <2>2. held'[m] + (IF pc'[m] = "locking" THEN 1 ELSE 0) <= calls'[m]
      BY <1>1 DEF IInv, TypeOK, HoldsCounted, Locked
    <2>3. calls'[m] > 0 => internalLockLeaseTime'[m] \in Timeouts
      BY DEF IInv, HoldsCounted, Locked
    <2>4. \A k \in Depth : k > held'[m] => lease'[m][k] = 0
      BY <1>1 DEF IInv, TypeOK, HoldsCounted, Locked, Depth
    <2> QED
      BY <2>1, <2>2, <2>3, <2>4
  <1> QED
    BY <1>4, <1>6, <1>7, <1>8 DEF IInv

\* ReadLock.lockScript, when it returns nil, preserves the invariant: it got
\* past a missing or a read-mode hash only.
LEMMA ReadAcquireIInv ==
    ASSUME IInv, NEW r \in Readers, ReadAcquire(r)
    PROVE  IInv'
  <1>1. r \in Locks /\ r \notin Writers /\ OwnField(r) = LockName(r)
    BY RWAssumption DEF Locks, OwnField
  <1>2. pc[r] = "locking" /\ Locked(r)
    BY DEF ReadAcquire
  <1>3. mode \in {"none", "read"}
    BY <1>1 DEF ReadAcquire, ReadMayEnter, HExists, IInv, HashConsistent
  <1>4. /\ OwnCount(r) + 1 \in Depth
        /\ ToMillisecond(internalLockLeaseTime[r]) \in Nat \ {0}
    BY <1>1, <1>2, LockedFacts
  <1>5. count' = [count EXCEPT ![OwnField(r)] = @ + 1]
    BY <1>1 DEF ReadAcquire
  <1>6. mode' = IF r \in Readers THEN "read" ELSE "write"
    BY <1>3 DEF ReadAcquire
  <1>7. /\ ttl' \in Nat /\ ttl' >= ttl
        /\ ttl' >= ToMillisecond(internalLockLeaseTime[r])
    <2>1. ttl \in Nat /\ (mode = "none" => ttl = 0)
      BY DEF IInv, TypeOK, HashConsistent
    <2>2. ttl' = IF mode = "none" THEN ToMillisecond(internalLockLeaseTime[r])
                 ELSE Larger(ttl, ToMillisecond(internalLockLeaseTime[r]))
      BY DEF ReadAcquire
    <2> QED
      BY <2>1, <2>2, <1>4 DEF Larger
  <1>8. timeoutKey' \in [TimeoutKeys -> Nat]
    <2>1. timeoutKey' = [timeoutKey EXCEPT ![StoredKey(r, OwnCount(r) + 1)] =
                            ToMillisecond(internalLockLeaseTime[r])]
      BY <1>1 DEF ReadAcquire, OwnCount
    <2> QED
      BY <2>1, <1>4, StoredNames DEF IInv, TypeOK
  <1>9. \A m \in Locks : OwnCount(m) > 0 => m \in Readers
    BY <1>3 DEF IInv, HashConsistent, OwnCount, OwnField
  <1> QED
    BY <1>1, <1>2, <1>5, <1>6, <1>7, <1>8, <1>9, AcquireIInv

\* WriteLock.lockScript, when it returns nil, preserves the invariant: the
\* hash was missing or already its own.
LEMMA WriteAcquireIInv ==
    ASSUME IInv, NEW w \in Writers, WriteAcquire(w)
    PROVE  IInv'
  <1>1. w \in Locks /\ w \notin Readers /\ OwnField(w) = WriteName(w)
    BY RWAssumption DEF Locks, OwnField
  <1>2. pc[w] = "locking" /\ Locked(w)
    BY DEF WriteAcquire
  <1>3. ToMillisecond(internalLockLeaseTime[w]) \in Nat \ {0}
    BY <1>1, <1>2, LockedFacts
  <1>4. count' = [count EXCEPT ![OwnField(w)] = @ + 1]
    BY <1>1 DEF WriteAcquire
  <1>5. mode' = IF w \in Readers THEN "read" ELSE "write"
    BY <1>1 DEF WriteAcquire
  <1>6. /\ ttl' \in Nat /\ ttl' >= ttl
        /\ ttl' >= ToMillisecond(internalLockLeaseTime[w])
    <2>1. ttl \in Nat /\ (mode = "none" => ttl = 0)
      BY DEF IInv, TypeOK, HashConsistent
    <2>2. ttl' = IF mode = "none" THEN ToMillisecond(internalLockLeaseTime[w])
                 ELSE ttl + ToMillisecond(internalLockLeaseTime[w])
      BY DEF WriteAcquire
    <2> QED
      BY <2>1, <2>2, <1>3
  <1>7. timeoutKey' \in [TimeoutKeys -> Nat]
    BY DEF WriteAcquire, IInv, TypeOK
  <1>8. ASSUME NEW m \in Locks, OwnCount(m) > 0
        PROVE  m = w
    <2>1. OwnField(m) \in Fields /\ OwnField(w) \in Fields
      BY <1>1, OwnFields DEF IInv
    <2>2. mode # "none"
      BY <2>1, <1>8 DEF IInv, HashConsistent, OwnCount
    <2>3. mode = "write" /\ count[OwnField(w)] > 0
      BY <2>2, <1>1 DEF WriteAcquire, WriteMayEnter, HExists
    <2>4. OwnField(m) = OwnField(w)
      BY <2>1, <2>3, <1>8 DEF IInv, HashConsistent, OwnCount
    <2> QED
      BY <2>4, <1>1, OwnFields DEF IInv
  <1> QED
    BY <1>1, <1>2, <1>4, <1>5, <1>6, <1>7, <1>8, AcquireIInv

\* UnLock, whatever its script does: the task gives back its last hold and the
\* lease of that hold, and no other lease changes.
LEMMA UnlockedFacts ==
    ASSUME IInv, NEW l \in Locks, Unlocked(l)
    PROVE  /\ held[l] \in Depth
           /\ lease' \in [Locks -> [Depth -> Nat]]
           /\ \A m \in Locks, k \in Depth : lease'[m][k] <= lease[m][k]
           /\ \A k \in Depth : k >= held[l] => lease'[l][k] = 0
           /\ \A m \in Locks, k \in Depth : Secured(m, k)' =>
                 lease'[m][k] = lease[m][k] /\ lease[m][k] > 0 /\ k <= held[m]
  <1>1. lease' = [lease EXCEPT ![l] = [lease[l] EXCEPT ![held[l]] = 0]]
    BY DEF Unlocked
  <1>2. /\ held[l] \in Depth
        /\ lease \in [Locks -> [Depth -> Nat]]
        /\ \A k \in Depth : k > held[l] => lease[l][k] = 0
    BY RWAssumption DEF IInv, TypeOK, HoldsCounted, Unlocked, Depth
  <1>3. /\ lease' \in [Locks -> [Depth -> Nat]]
        /\ \A m \in Locks, k \in Depth :
              lease'[m][k] = IF m = l /\ k = held[l] THEN 0 ELSE lease[m][k]
    BY <1>1, <1>2
  <1>4. \A m \in Locks, k \in Depth : lease'[m][k] <= lease[m][k]
    <2>1. \A m \in Locks, k \in Depth : lease[m][k] \in Nat
      BY <1>2
    <2> QED
      BY <2>1, <1>3
  <1>5. ASSUME NEW k \in Depth, k >= held[l] PROVE lease'[l][k] = 0
    <2>1. k = held[l] \/ k > held[l]
      BY <1>5, <1>2, RWAssumption DEF Depth
    <2> QED
      BY <2>1, <1>2, <1>3
  <1>6. ASSUME NEW m \in Locks, NEW k \in Depth, Secured(m, k)'
        PROVE  lease'[m][k] = lease[m][k] /\ lease[m][k] > 0 /\ k <= held[m]
    BY <1>3, <1>6 DEF Secured, Unlocked, IInv, TypeOK, Depth
  <1> QED
    BY <1>2, <1>3, <1>4, <1>5, <1>6

\* An UnLock that finds no field of its own (the lease ran out and the hash
\* with it) gives back a hold that is not secured and touches nothing in Redis.
LEMMA StaleUnLockIInv ==
    ASSUME IInv, NEW l \in Locks, Unlocked(l), OwnCount(l) = 0,
           UNCHANGED redis, cut' = cut
    PROVE  IInv'
  <1>0. /\ lease' \in [Locks -> [Depth -> Nat]]
        /\ \A m \in Locks, k \in Depth : lease'[m][k] <= lease[m][k]
        /\ \A k \in Depth : k >= held[l] => lease'[l][k] = 0
    BY UnlockedFacts
  <1>1. /\ held \in [Locks -> 0 .. MaxCalls] /\ held[l] > 0
        /\ held' = [held EXCEPT ![l] = @ - 1]
        /\ UNCHANGED <<pc, calls, internalLockLeaseTime, mode, count, ttl, timeoutKey>>
    BY DEF IInv, TypeOK, Unlocked, redis
  <1>2. \A m \in Locks : OwnCount(m)' = OwnCount(m) /\ OwnCount(m) \in Nat
    BY <1>1, OwnFields DEF IInv, OwnCount, OwnField
  <1>3. TypeOK'
    BY <1>0, <1>1, RWAssumption DEF IInv, TypeOK
  <1>4. HashConsistent'
    BY <1>1 DEF IInv, HashConsistent
  <1>5. \A m \in Locks, k \in Depth :
            lease[m][k] \in Nat /\ lease'[m][k] \in Nat /\ k \in Nat /\ held[m] \in Nat
    BY <1>0, <1>1, RWAssumption DEF IInv, TypeOK, Depth
  <1>6. LeaseBacked'
    <2> SUFFICES ASSUME NEW m \in Locks, NEW k \in Depth, Secured(m, k)'
                 PROVE  held'[m] - k < OwnCount(m)' /\ lease'[m][k] <= ttl'
      BY DEF LeaseBacked
    <2>1. k <= held[m] /\ lease[m][k] > 0 /\ <<m, k>> \notin cut
      BY <1>0, <1>1, <1>5 DEF Secured
    <2>2. held[m] - k < OwnCount(m) /\ lease[m][k] <= ttl
      BY <2>1 DEF IInv, LeaseBacked, Secured
    <2>3. m # l
      BY <2>1, <2>2, <1>5
    <2>4. held'[m] = held[m]
      BY <2>3, <1>1
    <2> QED
      BY <2>2, <2>4, <1>0, <1>1, <1>2, <1>5 DEF IInv, TypeOK
  <1>7. HoldsCounted'
    <2> SUFFICES ASSUME NEW m \in Locks
                 PROVE  /\ OwnCount(m)' <= held'[m]
                        /\ held'[m] + (IF pc'[m] = "locking" THEN 1 ELSE 0) <= calls'[m]
                        /\ calls'[m] > 0 => internalLockLeaseTime'[m] \in Timeouts
                        /\ \A k \in Depth : k > held'[m] => lease'[m][k] = 0
      BY DEF HoldsCounted
    <2>1. /\ OwnCount(m) <= held[m]
          /\ held[m] + (IF pc[m] = "locking" THEN 1 ELSE 0) <= calls[m]
          /\ calls[m] > 0 => internalLockLeaseTime[m] \in Timeouts
          /\ \A k \in Depth : k > held[m] => lease[m][k] = 0
          /\ calls[m] \in 0 .. MaxCalls
      BY DEF IInv, TypeOK, HoldsCounted
    <2>2. CASE m = l
      BY <2>1, <2>2, <1>0, <1>1, <1>2, <1>5, RWAssumption
    <2>3. CASE m # l
      BY <2>1, <2>3, <1>0, <1>1, <1>2, <1>5
    <2> QED
      BY <2>2, <2>3
  <1> QED
    BY <1>3, <1>4, <1>6, <1>7 DEF IInv

\* Fields are deleted when their counter reaches 0, so hlen counts the owners
\* whose counter is not 0.
LEMMA OwnersLeftMeans ==
    ASSUME NEW c \in [Fields -> Nat]
    PROVE  OwnersLeft(c) <=> \E f \in Fields : c[f] # 0
  <1>1. \A f \in Fields : c[f] > 0 <=> c[f] # 0
    OBVIOUS
  <1> QED
    BY <1>1 DEF OwnersLeft

\* An UnLock that finds its field: the own counter goes down, the hash is
\* deleted exactly if no owner is left, and whoever is left stays backed.
LEMMA ReleaseIInv ==
    ASSUME IInv, NEW l \in Locks, Unlocked(l), OwnCount(l) > 0,
           count' = [count EXCEPT ![OwnField(l)] = @ - 1],
           ttl' \in Nat,
           timeoutKey' \in [TimeoutKeys -> Nat],
           cut \subseteq cut', cut' \subseteq Writers \X Depth,
           OwnersLeft(count') => mode' = mode /\ ttl' > 0,
           ~OwnersLeft(count') => mode' = "none" /\ ttl' = 0,
           OwnersLeft(count') =>
               \A m \in Locks, k \in Depth : Secured(m, k)' => lease'[m][k] <= ttl'
    PROVE  IInv'
  <1>0. /\ lease' \in [Locks -> [Depth -> Nat]]
        /\ \A m \in Locks, k \in Depth : lease'[m][k] <= lease[m][k]
        /\ \A k \in Depth : k >= held[l] => lease'[l][k] = 0
    BY UnlockedFacts
  <1>1. /\ held \in [Locks -> 0 .. MaxCalls] /\ held[l] > 0
        /\ held' = [held EXCEPT ![l] = @ - 1]
        /\ UNCHANGED <<pc, calls, internalLockLeaseTime>>
    BY DEF IInv, TypeOK, Unlocked
  <1>2. /\ \A m \in Locks : OwnField(m) \in Fields /\ OwnCount(m) \in Nat
        /\ \A m, n \in Locks : OwnField(m) = OwnField(n) => m = n
        /\ \A f \in Fields : count[f] > 0 => \E m \in Locks : f = OwnField(m)
    BY OwnFields DEF IInv
  <1>3. count' \in [Fields -> Nat] /\ \A f \in Fields : count'[f] <= count[f]
    BY <1>2 DEF IInv, TypeOK, OwnCount
  <1>4. \A m \in Locks : OwnCount(m)' = IF m = l THEN OwnCount(l) - 1 ELSE OwnCount(m)
    <2>1. \A m \in Locks : OwnCount(m)' = count'[OwnField(m)]
      BY DEF OwnCount, OwnField
    <2> QED
      BY <2>1, <1>2 DEF IInv, TypeOK, OwnCount
  <1>5. TypeOK'
    BY <1>0, <1>1, <1>3, RWAssumption DEF IInv, TypeOK
  <1>6. mode # "none"
    BY <1>2 DEF IInv, HashConsistent, OwnCount
  <1>7. HashConsistent'
    <2>1. (mode = "none" <=> ttl = 0)'
      BY <1>6
    <2>2. (mode = "none" <=> \A f \in Fields : count[f] = 0)'
      <3>1. OwnersLeft(count') <=> \E f \in Fields : count'[f] # 0
        BY <1>3, OwnersLeftMeans
      <3> QED
        BY <3>1, <1>6
    <2>3. \A f \in Fields : count'[f] > 0 => count[f] > 0 /\ mode' = mode
      <3>1. ASSUME NEW f \in Fields, count'[f] > 0 PROVE OwnersLeft(count')
        BY <3>1 DEF OwnersLeft
      <3>2. ASSUME NEW f \in Fields, count'[f] > 0 PROVE count[f] > 0
        BY <3>2, <1>3 DEF IInv, TypeOK
      <3> QED
        BY <3>1, <3>2
    <2>4. \A f, g \in Fields :
              mode' = "write" /\ count'[f] > 0 /\ count'[g] > 0 => f = g
      BY <2>3 DEF IInv, HashConsistent
    <2>5. \A m \in Locks :
              /\ count'[LockName(m)] > 0 => m \in Readers /\ mode' = "read"
              /\ count'[WriteName(m)] > 0 => m \in Writers /\ mode' = "write"
      BY <2>3, FieldNames DEF IInv, HashConsistent
    <2> QED
      BY <2>1, <2>2, <2>4, <2>5 DEF HashConsistent
  <1>8. \A m \in Locks, k \in Depth :
            lease[m][k] \in Nat /\ lease'[m][k] \in Nat /\ k \in Nat /\ held[m] \in Nat
    <2>1. lease \in [Locks -> [Depth -> Nat]]
      BY DEF IInv, TypeOK
    <2>2. \A k \in Depth : k \in Nat
      BY RWAssumption DEF Depth
    <2>3. \A m \in Locks : held[m] \in Nat
      BY <1>1, RWAssumption
    <2> QED
      BY <2>1, <2>2, <2>3, <1>0
  <1>9. LeaseBacked'
    <2> SUFFICES ASSUME NEW m \in Locks, NEW k \in Depth, Secured(m, k)'
                 PROVE  held'[m] - k < OwnCount(m)' /\ lease'[m][k] <= ttl'
      BY DEF LeaseBacked
    <2>1. k <= held'[m] /\ k <= held[m] /\ lease[m][k] > 0 /\ <<m, k>> \notin cut
      BY <1>0, <1>1, <1>8 DEF Secured
    <2>2. held[m] - k < OwnCount(m)
      BY <2>1 DEF IInv, LeaseBacked, Secured
    <2>3. held'[m] - k < OwnCount(m)'
      <3>1. CASE m = l
        BY <3>1, <2>2, <1>1, <1>2, <1>4, <1>8
      <3>2. CASE m # l
        BY <3>2, <2>2, <1>1, <1>4
      <3> QED
        BY <3>1, <3>2
    <2>4. OwnCount(m)' > 0
      <3>1. held'[m] \in Nat /\ OwnCount(m)' \in Int
        BY <1>1, <1>2, <1>4, <1>8
      <3> QED
        BY <3>1, <2>1, <2>3, <1>8
    <2>5. OwnersLeft(count')
      BY <2>4, <1>2 DEF OwnersLeft, OwnCount, OwnField
    <2> QED
      BY <2>3, <2>5
  <1>10. HoldsCounted'
    <2> SUFFICES ASSUME NEW m \in Locks
                 PROVE  /\ OwnCount(m)' <= held'[m]
                        /\ held'[m] + (IF pc'[m] = "locking" THEN 1 ELSE 0) <= calls'[m]
                        /\ calls'[m] > 0 => internalLockLeaseTime'[m] \in Timeouts
                        /\ \A k \in Depth : k > held'[m] => lease'[m][k] = 0
      BY DEF HoldsCounted
    <2>1. /\ OwnCount(m) <= held[m]
          /\ held[m] + (IF pc[m] = "locking" THEN 1 ELSE 0) <= calls[m]
          /\ calls[m] > 0 => internalLockLeaseTime[m] \in Timeouts
          /\ \A k \in Depth : k > held[m] => lease[m][k] = 0
          /\ calls[m] \in 0 .. MaxCalls
      BY DEF IInv, TypeOK, HoldsCounted
    <2>2. CASE m = l
      <3>1. held'[m] = held[m] - 1 /\ OwnCount(m)' = OwnCount(m) - 1
        BY <2>2, <1>1, <1>4
      <3> QED
        BY <3>1, <2>1, <2>2, <1>0, <1>1, <1>2, <1>8, RWAssumption
    <2>3. CASE m # l
      <3>1. held'[m] = held[m] /\ OwnCount(m)' = OwnCount(m)
        BY <2>3, <1>1, <1>4
      <3> QED
        BY <3>1, <2>1, <2>3, <1>0, <1>1, <1>8
    <2> QED
      BY <2>2, <2>3
  <1> QED
    BY <1>5, <1>7, <1>9, <1>10 DEF IInv

\* ReadLock.unLockScript preserves the invariant, also when the lease is long
\* over and the hash belongs to somebody else.
LEMMA ReadUnLockIInv ==
    ASSUME IInv, NEW r \in Readers, ReadUnLock(r)
    PROVE  IInv'
  <1>1. r \in Locks /\ OwnField(r) = LockName(r) /\ OwnCount(r) = count[LockName(r)]
    BY DEF Locks, OwnField, OwnCount
  <1>2. Unlocked(r) /\ cut' = cut
    BY DEF ReadUnLock
  <1>3. /\ held[r] \in Depth
        /\ \A m \in Locks, k \in Depth : Secured(m, k)' =>
              lease'[m][k] = lease[m][k] /\ lease[m][k] > 0 /\ k <= held[m]
    BY <1>1, <1>2, UnlockedFacts
  <1>4. OwnCount(r) \in Nat /\ LockName(r) \in Fields
    BY <1>1, OwnFields DEF IInv
  <1>5. CASE mode = "none" \/ OwnCount(r) = 0
    <2>1. OwnCount(r) = 0
      BY <1>1, <1>4, <1>5 DEF IInv, HashConsistent
    <2>2. UNCHANGED redis
      BY <1>1, <1>5 DEF ReadUnLock, HExists
    <2> QED
      BY <2>1, <2>2, <1>1, <1>2, StaleUnLockIInv
  <1>6. CASE mode # "none" /\ OwnCount(r) > 0
    <2> DEFINE left == [count EXCEPT ![OwnField(r)] = @ - 1]
    <2>1. /\ timeoutKey' = [timeoutKey EXCEPT ![StoredKey(r, OwnCount(r))] = 0]
          /\ IF OwnersLeft(left) THEN count' = left /\ ttl' = ttl /\ mode' = mode
             ELSE DelHash
      BY <1>1, <1>6, LookupMisses DEF ReadUnLock, HExists
    <2>2. left \in [Fields -> Nat]
      BY <1>1, <1>4, <1>6 DEF IInv, TypeOK
    <2>3. count' = left
      BY <2>1, <2>2 DEF OwnersLeft, DelHash
    <2>4. timeoutKey' \in [TimeoutKeys -> Nat]
      <3>1. OwnCount(r) \in Depth
        <4>1. OwnCount(r) <= held[r]
          BY <1>1 DEF IInv, HoldsCounted
        <4> QED
          BY <4>1, <1>3, <1>4, <1>6, RWAssumption DEF Depth
      <3> QED
        BY <3>1, <2>1, StoredNames DEF IInv, TypeOK
    <2>5. ttl \in Nat /\ ttl > 0
      BY <1>6 DEF IInv, TypeOK, HashConsistent
    <2>6. /\ ttl' \in Nat
          /\ OwnersLeft(count') => mode' = mode /\ ttl' = ttl
          /\ ~OwnersLeft(count') => mode' = "none" /\ ttl' = 0
      BY <2>1, <2>3, <2>5 DEF DelHash
    <2>7. ASSUME OwnersLeft(count'), NEW m \in Locks, NEW k \in Depth, Secured(m, k)'
          PROVE  lease'[m][k] <= ttl'
      <3>1. lease'[m][k] = lease[m][k] /\ lease[m][k] > 0 /\ k <= held[m]
        BY <2>7, <1>3
      <3>2. lease[m][k] <= ttl
        BY <3>1, <2>7, <1>2 DEF IInv, LeaseBacked, Secured
      <3> QED
        BY <3>1, <3>2, <2>6, <2>7
    <2> QED
      <3>1. cut \subseteq cut' /\ cut' \subseteq Writers \X Depth
        BY <1>2 DEF IInv, TypeOK
      <3> QED
        BY <3>1, <2>3, <2>4, <2>5, <2>6, <2>7, <1>1, <1>2, <1>6, ReleaseIInv
  <1> QED
    BY <1>4, <1>5, <1>6

\* WriteLock.unLockscript preserves the invariant: the nested holds it leaves
\* behind are cut, and nobody else has a hold on a hash in write mode.
LEMMA WriteUnLockIInv ==
    ASSUME IInv, NEW w \in Writers, WriteUnLock(w)
    PROVE  IInv'
  <1>1. /\ w \in Locks /\ OwnField(w) = WriteName(w)
        /\ OwnCount(w) = count[WriteName(w)]
    BY RWAssumption DEF Locks, OwnField, OwnCount
  <1>2. Unlocked(w) /\ timeoutKey' = timeoutKey
    BY DEF WriteUnLock
  <1>3. /\ held[w] \in Depth
        /\ \A m \in Locks, k \in Depth : Secured(m, k)' =>
              lease'[m][k] = lease[m][k] /\ lease[m][k] > 0 /\ k <= held[m]
    BY <1>1, <1>2, UnlockedFacts
  <1>4. internalLockLeaseTime[w] \in Nat \ {0}
    <2>1. held[w] \in Nat /\ held[w] > 0 /\ held[w] <= calls[w] /\ calls[w] \in 0 .. MaxCalls
      BY <1>1, <1>2, RWAssumption DEF IInv, TypeOK, HoldsCounted, Unlocked
    <2>2. internalLockLeaseTime[w] \in Timeouts
      BY <2>1, <1>1, RWAssumption DEF IInv, HoldsCounted
    <2> QED
      BY <2>2, RWAssumption
  <1>5. OwnCount(w) \in Nat /\ OwnField(w) \in Fields
    BY <1>1, OwnFields DEF IInv
  <1>6. CASE mode # "write" \/ OwnCount(w) = 0
    <2>1. OwnCount(w) = 0
      BY <1>1, <1>5, <1>6 DEF IInv, HashConsistent
    <2>2. UNCHANGED redis /\ cut' = cut
      BY <1>1, <1>6 DEF WriteUnLock, HExists, redis
    <2> QED
      BY <2>1, <2>2, <1>1, <1>2, StaleUnLockIInv
  <1>7. CASE mode = "write" /\ OwnCount(w) > 0
    <2> DEFINE left == [count EXCEPT ![OwnField(w)] = @ - 1]
    <2>1. left \in [Fields -> Nat] /\ left[OwnField(w)] = OwnCount(w) - 1
      BY <1>1, <1>5, <1>7 DEF IInv, TypeOK
    <2>2. \A f \in Fields : f # OwnField(w) => left[f] = 0
      <3>1. \A f \in Fields : f # OwnField(w) => ~(count[f] > 0)
        BY <1>1, <1>5, <1>7 DEF IInv, HashConsistent
      <3> QED
        BY <3>1 DEF IInv, TypeOK
    <2>3. OwnersLeft(left) <=> OwnCount(w) > 1
      <3>1. OwnersLeft(left) <=> \E f \in Fields : left[f] # 0
        BY <2>1, OwnersLeftMeans
      <3> QED
        <4>1. (\E f \in Fields : left[f] # 0) <=> left[OwnField(w)] # 0
          BY <2>2, <1>5
        <4>2. left[OwnField(w)] # 0 <=> OwnCount(w) > 1
          <5> HIDE DEF left
          <5> QED
            BY <2>1, <1>5, <1>7
        <4> HIDE DEF left
        <4> QED
          BY <3>1, <4>1, <4>2
    <2>4. IF left[OwnField(w)] > 0
          THEN /\ count' = left /\ ttl' = internalLockLeaseTime[w] /\ mode' = mode
               /\ cut' = cut \cup ({w} \X (1 .. (held[w] - 1)))
          ELSE /\ IF OwnersLeft(left) THEN count' = left /\ mode' = "read" /\ ttl' = ttl
                  ELSE DelHash
               /\ cut' = cut
      BY <1>1, <1>7 DEF WriteUnLock, HExists
    <2>5. count' = left
      BY <2>1, <2>4 DEF OwnersLeft, DelHash
    <2>6. /\ ttl' \in Nat
          /\ OwnersLeft(count') => mode' = mode /\ ttl' = internalLockLeaseTime[w]
          /\ ~OwnersLeft(count') => mode' = "none" /\ ttl' = 0
      <3>1. left[OwnField(w)] > 0 <=> OwnersLeft(left)
        BY <2>1, <2>3, <1>5
      <3> HIDE DEF left
      <3> QED
        BY <3>1, <2>4, <2>5, <1>4 DEF DelHash
    <2>7. cut \subseteq cut' /\ cut' \subseteq Writers \X Depth
      <3>1. {w} \X (1 .. (held[w] - 1)) \subseteq Writers \X Depth
        BY <1>3, RWAssumption DEF Depth
      <3>2. cut \subseteq Writers \X Depth
        BY DEF IInv, TypeOK
      <3>3. cut' = cut \/ cut' = cut \cup ({w} \X (1 .. (held[w] - 1)))
        BY <2>4
      <3> QED
        BY <3>1, <3>2, <3>3
    <2>8. ASSUME OwnersLeft(count'), NEW m \in Locks, NEW k \in Depth, Secured(m, k)'
          PROVE  FALSE
      <3>1. cut' = cut \cup ({w} \X (1 .. (held[w] - 1)))
        <4>1. left[OwnField(w)] > 0
          BY <2>1, <2>3, <2>5, <2>8, <1>5
        <4> QED
          BY <4>1, <2>4
      <3>2. k \in Nat \ {0} /\ k <= held'[m] /\ <<m, k>> \notin cut' /\ <<m, k>> \notin cut
        BY <2>7, <2>8, RWAssumption DEF Secured, Depth
      <3>3. m # w
        <4>1. held'[w] = held[w] - 1 /\ held[w] \in Nat
          BY <1>1, <1>2, RWAssumption DEF Unlocked, IInv, TypeOK
        <4>2. m = w => k \in 1 .. (held[w] - 1)
          BY <4>1, <3>2
        <4> QED
          BY <4>2, <3>1, <3>2
      <3>4. held[m] - k < OwnCount(m) /\ k <= held[m]
        BY <1>3, <2>8, <3>2 DEF IInv, LeaseBacked, Secured
      <3>5. held[m] \in Nat /\ k \in Nat /\ OwnCount(m) \in Nat
        BY RWAssumption, OwnFields DEF IInv, TypeOK, Depth
      <3>6. count[OwnField(m)] > 0
        BY <3>4, <3>5 DEF OwnCount
      <3>7. OwnField(m) = OwnField(w)
        BY <3>6, <1>1, <1>7, OwnFields DEF IInv, HashConsistent
      <3> QED
        BY <3>7, <3>3, <1>1, OwnFields DEF IInv
    <2>9. timeoutKey' \in [TimeoutKeys -> Nat]
      BY <1>2 DEF IInv, TypeOK
    <2>10. OwnersLeft(count') => mode' = mode /\ ttl' > 0
      BY <2>6, <1>4
    <2> QED
      BY <2>5, <2>6, <2>7, <2>8, <2>9, <2>10, <1>1, <1>2, <1>7, ReleaseIInv
  <1> QED
    BY <1>5, <1>6, <1>7

\* A millisecond passes: leases and the hash run down together, so a hash
\* that expires takes no secured hold with it.
LEMMA TickIInv ==
    ASSUME IInv, Tick
    PROVE  IInv'
  <1>1. \A n \in Nat : Minus1(n) \in Nat /\ (n > 0 => Minus1(n) = n - 1) /\ (n = 0 => Minus1(n) = 0)
    BY DEF Minus1
  <1>2. /\ ttl \in Nat /\ timeoutKey \in [TimeoutKeys -> Nat]
        /\ lease \in [Locks -> [Depth -> Nat]] /\ held \in [Locks -> 0 .. MaxCalls]
    BY DEF IInv, TypeOK
  <1>3. /\ timeoutKey' = [k \in TimeoutKeys |-> Minus1(timeoutKey[k])]
        /\ lease' = [l \in Locks |-> [k \in Depth |-> Minus1(lease[l][k])]]
        /\ UNCHANGED <<internalLockLeaseTime, pc, calls, held, cut>>
    BY DEF Tick
  <1> HIDE DEF Minus1
  <1>4. /\ timeoutKey' \in [TimeoutKeys -> Nat]
        /\ lease' \in [Locks -> [Depth -> Nat]]
        /\ \A l \in Locks, k \in Depth :
              lease'[l][k] = Minus1(lease[l][k]) /\ lease[l][k] \in Nat
    BY <1>1, <1>2, <1>3
  <1>5. \A l \in Locks, k \in Depth : Secured(l, k)' =>
            /\ k <= held[l] /\ lease[l][k] > 1 /\ lease[l][k] <= ttl
            /\ lease'[l][k] = lease[l][k] - 1 /\ held[l] - k < OwnCount(l)
    BY <1>1, <1>3, <1>4 DEF IInv, LeaseBacked, Secured
  <1>6. CASE ttl = 1
    <2>1. mode' = "none" /\ count' = [f \in Fields |-> 0] /\ ttl' = 0
      BY <1>6 DEF Tick, DelHash
    <2>2. TypeOK'
      BY <2>1, <1>3, <1>4 DEF IInv, TypeOK
    <2>3. HashConsistent'
      BY <2>1, FieldNames DEF HashConsistent
    <2>4. LeaseBacked'
      BY <1>5, <1>6, <1>4 DEF LeaseBacked
    <2>5. \A l \in Locks : OwnCount(l)' = 0
      BY <2>1, FieldNames DEF OwnCount, OwnField
    <2>6. HoldsCounted'
      BY <2>5, <1>1, <1>2, <1>3, <1>4, RWAssumption DEF IInv, HoldsCounted
    <2> QED
      BY <2>2, <2>3, <2>4, <2>6 DEF IInv
  <1>7. CASE ttl # 1
    <2>1. mode' = mode /\ count' = count /\ ttl' = Minus1(ttl)
      BY <1>7 DEF Tick
    <2>2. TypeOK'
      BY <2>1, <1>1, <1>2, <1>3, <1>4 DEF IInv, TypeOK
    <2>3. ttl = 0 <=> ttl' = 0
      BY <2>1, <1>1, <1>2, <1>7
    <2>4. HashConsistent'
      BY <2>1, <2>3 DEF IInv, HashConsistent
    <2>5. \A l \in Locks : OwnCount(l)' = OwnCount(l)
      BY <2>1 DEF OwnCount, OwnField
    <2>6. LeaseBacked'
      <3> SUFFICES ASSUME NEW l \in Locks, NEW k \in Depth, Secured(l, k)'
                   PROVE  held'[l] - k < OwnCount(l)' /\ lease'[l][k] <= ttl'
        BY DEF LeaseBacked
      <3>1. held'[l] - k < OwnCount(l)'
        BY <2>5, <1>3, <1>5
      <3>2. lease'[l][k] <= ttl'
        BY <2>1, <1>1, <1>2, <1>4, <1>5
      <3> QED
        BY <3>1, <3>2
    <2>7. HoldsCounted'
      BY <2>5, <1>1, <1>3, <1>4 DEF IInv, HoldsCounted
    <2> QED
      BY <2>2, <2>4, <2>6, <2>7 DEF IInv
  <1> QED
    BY <1>6, <1>7

-----------------------------------------------------------------------------
(***************************************************************************)
(* The theorems.                                                           *)
(***************************************************************************)

\* Every step of the lock objects, of Redis' clock or of a crash preserves the
\* inductive invariant.
LEMMA NextIInv == IInv /\ [Next]_vars => IInv'
  <1> SUFFICES ASSUME IInv, [Next]_vars PROVE IInv'
    OBVIOUS
  <1>1. CASE \E l \in Locks, t \in Timeouts : TryLock(l, t)
    BY <1>1, TryLockIInv
  <1>2. CASE \E r \in Readers : ReadAcquire(r)
    BY <1>2, ReadAcquireIInv
  <1>3. CASE \E w \in Writers : WriteAcquire(w)
    BY <1>3, WriteAcquireIInv
  <1>4. CASE \E r \in Readers : ReadUnLock(r)
    BY <1>4, ReadUnLockIInv
  <1>5. CASE \E w \in Writers : WriteUnLock(w)
    BY <1>5, WriteUnLockIInv
  <1>6. CASE \E l \in Locks : Crash(l)
    BY <1>6, CrashIInv
  <1>7. CASE Tick
    BY <1>7, TickIInv
  <1>8. CASE UNCHANGED vars
    BY <1>8 DEF vars, IInv, TypeOK, HashConsistent, LeaseBacked, HoldsCounted,
                Secured, OwnCount, OwnField
  <1> QED
    BY <1>1, <1>2, <1>3, <1>4, <1>5, <1>6, <1>7, <1>8 DEF Next

\* The inductive invariant holds in every reachable state of the lock service.
THEOREM Invariance == Spec => []IInv
  BY InitIInv, NextIInv, PTL DEF Spec

\* The variables keep their types: no counter of the hash and no time to live
\* ever goes below zero, whatever order late UnLocks, expiries and crashes come in.
THEOREM TypeCorrect == Spec => []TypeOK
  BY Invariance, PTL DEF IInv

\* The Lua scripts keep the hash well formed: it exists exactly while it has
\* an owner, and a write-mode hash has a single one.
THEOREM HashSafe == Spec => []HashConsistent
  BY Invariance, PTL DEF IInv

\* A hold whose lease runs is backed by Redis, its unit in the counter and a
\* time to live that outlives the lease, unless a partial WriteLock.UnLock has
\* cut it short.
THEOREM LeaseSafe == Spec => []LeaseBacked
  BY Invariance, PTL DEF IInv

\* Mutual exclusion of a write lock against every other lock object, while the
\* leases of both run and no partial WriteLock.UnLock has cut them short.
THEOREM ExclusionSafe == Spec => []Exclusion
  <1>1. IInv => Exclusion
    <2> SUFFICES ASSUME IInv, NEW w \in Writers, NEW l \in Locks,
                        NEW j \in Depth, NEW k \in Depth,
                        Secured(w, j), Secured(l, k), l # w
                 PROVE  FALSE
      BY DEF Exclusion
    <2>1. w \in Locks /\ w \notin Readers
      BY RWAssumption DEF Locks
    <2>2. ASSUME NEW m \in Locks, NEW i \in Depth, Secured(m, i)
          PROVE  count[OwnField(m)] > 0
      <3>1. held[m] - i < OwnCount(m) /\ i <= held[m]
        BY <2>2 DEF IInv, LeaseBacked, Secured
      <3>2. held[m] \in Nat /\ i \in Nat /\ OwnCount(m) \in Nat
        <4>1. held[m] \in 0 .. MaxCalls /\ OwnCount(m) \in Nat
          BY OwnFields DEF IInv, TypeOK
        <4> QED
          BY <4>1, RWAssumption DEF Depth
      <3> QED
        BY <3>1, <3>2 DEF OwnCount
    <2>3. count[OwnField(w)] > 0 /\ count[OwnField(l)] > 0
      BY <2>1, <2>2
    <2>4. mode = "write"
      BY <2>1, <2>3 DEF IInv, HashConsistent, OwnField
    <2>5. OwnField(w) = OwnField(l)
      BY <2>1, <2>3, <2>4, OwnFields DEF IInv, HashConsistent
    <2> QED
      BY <2>1, <2>5, OwnFields DEF IInv
  <1> QED
    BY <1>1, Invariance, PTL

\* An unlock script run for another object's hold leaves an owner's field where
\* it is: the hash it leaves behind still has that owner.
LEMMA OtherUnLockKeeps ==
    ASSUME IInv, NEW m \in Locks, NEW l \in Locks, l # m, OwnCount(l) > 0,
           NEW left, left = [count EXCEPT ![OwnField(m)] = @ - 1],
           \/ count' = count
           \/ count' = left
           \/ ~OwnersLeft(left)
    PROVE  OwnCount(l)' > 0
  <1>1. OwnField(l) \in Fields /\ OwnField(m) \in Fields /\ OwnField(l) # OwnField(m)
    BY OwnFields DEF IInv
  <1>2. left[OwnField(l)] = OwnCount(l)
    BY <1>1 DEF IInv, TypeOK, OwnCount
  <1>3. OwnersLeft(left)
    BY <1>1, <1>2 DEF OwnersLeft
  <1>4. OwnCount(l)' = count'[OwnField(l)] /\ OwnCount(l) = count[OwnField(l)]
    BY DEF OwnCount, OwnField
  <1> QED
    BY <1>2, <1>3, <1>4

\* A lock script takes no field away.
LEMMA AcquireKeeps ==
    ASSUME IInv, NEW m \in Locks, NEW l \in Locks, OwnCount(l) > 0,
           count' = [count EXCEPT ![OwnField(m)] = @ + 1]
    PROVE  OwnCount(l)' > 0
  <1>1. OwnField(l) \in Fields /\ OwnField(m) \in Fields /\ OwnCount(l) \in Nat
    BY OwnFields DEF IInv
  <1>2. OwnCount(l)' = count'[OwnField(l)] /\ OwnCount(l) = count[OwnField(l)]
    BY DEF OwnCount, OwnField
  <1> QED
    BY <1>1, <1>2 DEF IInv, TypeOK

\* The field of an object disappears only through its own UnLock or when the
\* hash expires, and then no hold is secured any more: an UnLock that
\* comes after its lease never frees the lock of the object that took over.
THEOREM OnlyOwnersFree == Spec => OwnerFrees
  <1>1. IInv /\ [Next]_vars =>
            [\A l \in Locks :
                OwnCount(l) > 0 /\ OwnCount(l)' = 0 =>
                    \/ held'[l] = held[l] - 1
                    \/ ttl = 1 /\ \A j \in Locks, k \in Depth : ~Secured(j, k)']_vars
    <2> SUFFICES ASSUME IInv, [Next]_vars, NEW l \in Locks, OwnCount(l) > 0, OwnCount(l)' = 0
                 PROVE  \/ held'[l] = held[l] - 1
                        \/ ttl = 1 /\ \A j \in Locks, k \in Depth : ~Secured(j, k)'
      OBVIOUS
    <2>1. ASSUME count' = count PROVE FALSE
      BY <2>1 DEF OwnCount, OwnField
    <2>2. ~(OwnCount(l)' > 0)
      OBVIOUS
    <2>3. ASSUME NEW r \in Readers, ReadAcquire(r) PROVE FALSE
      <3>1. r \in Locks /\ count' = [count EXCEPT ![OwnField(r)] = @ + 1]
        BY <2>3 DEF ReadAcquire, OwnField, Locks
      <3> QED
        BY <2>2, <3>1, AcquireKeeps
    <2>4. ASSUME NEW w \in Writers, WriteAcquire(w) PROVE FALSE
      <3>1. w \in Locks /\ count' = [count EXCEPT ![OwnField(w)] = @ + 1]
        BY <2>4, RWAssumption DEF WriteAcquire, OwnField, Locks
      <3> QED
        BY <2>2, <3>1, AcquireKeeps
    <2>5. ASSUME NEW m \in Locks, Unlocked(m), NEW left,
                 left = [count EXCEPT ![OwnField(m)] = @ - 1],
                 count' = count \/ count' = left \/ ~OwnersLeft(left)
          PROVE  held'[l] = held[l] - 1
      <3>1. l = m
        BY <2>2, <2>5, OtherUnLockKeeps
      <3> QED
        BY <2>5, <3>1 DEF Unlocked, IInv, TypeOK
    <2>6. ASSUME NEW r \in Readers, ReadUnLock(r) PROVE held'[l] = held[l] - 1
      <3>1. PICK left : left = [count EXCEPT ![OwnField(r)] = @ - 1]
        OBVIOUS
      <3>2. r \in Locks /\ OwnField(r) = LockName(r)
        BY DEF Locks, OwnField
      <3>3. Unlocked(r) /\ (count' = count \/ count' = left \/ ~OwnersLeft(left))
        BY <2>6, <3>1, <3>2 DEF ReadUnLock, redis
      <3> QED
        BY <2>5, <3>1, <3>2, <3>3
    <2>7. ASSUME NEW w \in Writers, WriteUnLock(w) PROVE held'[l] = held[l] - 1
      <3>1. PICK left : left = [count EXCEPT ![OwnField(w)] = @ - 1]
        OBVIOUS
      <3>2. w \in Locks /\ OwnField(w) = WriteName(w)
        BY RWAssumption DEF Locks, OwnField
      <3>3. Unlocked(w) /\ (count' = count \/ count' = left \/ ~OwnersLeft(left))
        BY <2>7, <3>1, <3>2 DEF WriteUnLock
      <3> QED
        BY <2>5, <3>1, <3>2, <3>3
    <2>8. ASSUME Tick PROVE ttl = 1 /\ \A j \in Locks, k \in Depth : ~Secured(j, k)'
      <3>1. ttl = 1
        BY <2>1, <2>8 DEF Tick
      <3>2. ASSUME NEW j \in Locks, NEW k \in Depth, Secured(j, k)' PROVE FALSE
        <4>1. IInv' /\ ttl' = 0
          BY <2>8, <3>1, TickIInv DEF Tick, DelHash
        <4>2. lease'[j][k] > 0 /\ lease'[j][k] <= 0
          BY <3>2, <4>1 DEF IInv, LeaseBacked, Secured
        <4>3. lease'[j][k] \in Nat
          BY <4>1 DEF IInv, TypeOK
        <4> QED
          BY <4>2, <4>3
      <3> QED
        BY <3>1, <3>2
    <2>9. CASE \E m \in Locks : Crash(m) \/ \E t \in Timeouts : TryLock(m, t)
      BY <2>1, <2>9 DEF Crash, TryLock, redis
    <2>10. CASE UNCHANGED vars
      BY <2>1, <2>10 DEF vars
    <2> QED
      BY <2>3, <2>4, <2>6, <2>7, <2>8, <2>9, <2>10 DEF Next
  <1> QED
    BY <1>1, Invariance, PTL DEF Spec, OwnerFrees
=============================================================================
