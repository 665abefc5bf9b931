------------------------------- MODULE RWLock -------------------------------
(***************************************************************************)
(* The Redis read/write lock of Samples/RReadLockPOC: ReadLock, WriteLock  *)
(* and their base class.  Redis runs each Lua script atomically, so one    *)
(* script is one step; between scripts any number of lock objects, each    *)
(* used by one task, interleave, hold leases, outlive them, and crash.     *)
(*                                                                         *)
(* One Redis hash stands behind all the objects that share a name.  It has *)
(* a field 'mode' and one counter per owner, and expires as a whole when   *)
(* its time to live runs out.                                              *)
(***************************************************************************)
EXTENDS Integers

CONSTANTS
    Readers,    \* the ReadLock objects
    Writers,    \* the WriteLock objects
    Timeouts,   \* the arguments TryLock is called with, in seconds
    Scale,      \* milliseconds in a second (1000 in the code)
    MaxCalls    \* bound: TryLock calls per object

ASSUME RWAssumption ==
    /\ Readers \cap Writers = {}
    /\ Timeouts \subseteq Nat \ {0}
    /\ Scale \in Nat \ {0}
    /\ MaxCalls \in Nat \ {0}

Locks == Readers \cup Writers

Depth == 1 .. MaxCalls

(***************************************************************************)
(* Names in Redis.  GetLockName() is unique to an object, because the      *)
(* constructor draws a fresh GUID; a write lock appends ":write".  The     *)
(* timeout keys of a read lock are written under one name and looked up    *)
(* under another.                                                          *)
(***************************************************************************)
Fields == Locks \X {"plain", "write"}

LockName(l) == <<l, "plain">>

WriteName(l) == <<l, "write">>

TimeoutKeys == Readers \X {"plain"} \X Depth

StoredKey(r, i) == <<r, "plain", i>>

LookedUpKey(r, i) == <<r, "rwlock_timeout", i>>

VARIABLES
    mode,       \* field 'mode' of the hash, "none" when the key is absent
    count,      \* the counters of the hash, 0 for a field that is absent
    ttl,        \* time to live of the hash in milliseconds, 0 when absent
    timeoutKey, \* time to live of each timeout key, 0 when absent
    internalLockLeaseTime, \* of each lock object, in seconds
    pc,         \* what the task that uses the object is doing
    calls,      \* TryLock calls made so far (bounded by MaxCalls)
    held,       \* history: TryLock returns minus UnLock calls
    lease,      \* history: what is left of the lease TryLock was asked for,
                \* for the k-th nested hold
    cut         \* history: the write holds left behind by an UnLock that
                \* shortened the time to live of the hash

redis == <<mode, count, ttl, timeoutKey>>

vars == <<mode, count, ttl, timeoutKey, internalLockLeaseTime,
          pc, calls, held, lease, cut>>

\* Types of the hash, the timeout keys and the lock objects.  Counters never go
\* below zero: the unlock scripts decrement a field only when it exists.
TypeOK ==
    /\ mode \in {"none", "read", "write"}
    /\ count \in [Fields -> Nat]
    /\ ttl \in Nat
    /\ timeoutKey \in [TimeoutKeys -> Nat]
    /\ internalLockLeaseTime \in [Locks -> Timeouts \cup {0}]
    /\ pc \in [Locks -> {"ready", "locking", "crashed"}]
    /\ calls \in [Locks -> 0 .. MaxCalls]
    /\ held \in [Locks -> 0 .. MaxCalls]
    /\ lease \in [Locks -> [Depth -> Nat]]
    /\ cut \subseteq Writers \X Depth

Init ==
    /\ mode = "none"
    /\ count = [f \in Fields |-> 0]
    /\ ttl = 0
    /\ timeoutKey = [k \in TimeoutKeys |-> 0]
    /\ internalLockLeaseTime = [l \in Locks |-> 0]
    /\ pc = [l \in Locks |-> "ready"]
    /\ calls = [l \in Locks |-> 0]
    /\ held = [l \in Locks |-> 0]
    /\ lease = [l \in Locks |-> [k \in Depth |-> 0]]
    /\ cut = {}

-----------------------------------------------------------------------------
ToMillisecond(t) == t * Scale

\* Mutant of Larger: the remaining time is ignored.
LargerForgotten(a, b) == b

\* math.max(remainTime, ARGV[1])
Larger(a, b) == IF a >= b THEN a ELSE b

\* pttl of a timeout key: -2 when there is no such key.
Pttl(k) == IF k \in TimeoutKeys /\ timeoutKey[k] > 0 THEN timeoutKey[k] ELSE -2

\* Mutant of HExists: the existence check is dropped.
HExistsUnchecked(f) == TRUE

\* redis.call('hexists', KEYS[1], f) == 1
HExists(f) == count[f] > 0

\* Mutant of OwnersLeft: hlen is not looked at before the hash is deleted.
OwnersForgotten(c) == FALSE

\* hlen(KEYS[1]) > 1, once the counters are c: some owner has a field.
OwnersLeft(c) == \E f \in Fields : c[f] > 0

\* redis.call('del', KEYS[1])
DelHash ==
    /\ mode' = "none"
    /\ count' = [f \in Fields |-> 0]
    /\ ttl' = 0

(***************************************************************************)
(* TryLock(timeout): Acquire stores the timeout, then the script is run    *)
(* until it returns nil.  A script that returns the remaining time to live *)
(* changes nothing, so the retry loop is "locking" until the script can    *)
(* succeed.  (The loop sleeps ttl ticks of 100 ns, not ttl milliseconds:   *)
(* it polls, and no wake-up can be missed.)                                *)
(***************************************************************************)
TryLock(l, t) ==
    /\ pc[l] = "ready"
    /\ calls[l] < MaxCalls
    /\ calls' = [calls EXCEPT ![l] = @ + 1]
    /\ internalLockLeaseTime' = [internalLockLeaseTime EXCEPT ![l] = t]
    /\ pc' = [pc EXCEPT ![l] = "locking"]
    /\ UNCHANGED <<redis, held, lease, cut>>

\* TryLock returns: the caller now counts on the lease it asked for.
Locked(l) ==
    /\ pc' = [pc EXCEPT ![l] = "ready"]
    /\ held' = [held EXCEPT ![l] = @ + 1]
    /\ lease' = [lease EXCEPT ![l][held[l] + 1] =
                    ToMillisecond(internalLockLeaseTime[l])]
    /\ cut' = cut \ {<<l, held[l] + 1>>}
    /\ UNCHANGED <<calls, internalLockLeaseTime>>

\* Mutant of ReadMayEnter: any hash in write mode is taken for one's own.
ReadMayAlwaysEnter(r) == TRUE

\* ReadLock.lockScript
ReadMayEnter(r) ==
    \/ mode \in {"none", "read"}
    \/ mode = "write" /\ HExists(WriteName(r))

ReadAcquire(r) ==
    LET argv1 == ToMillisecond(internalLockLeaseTime[r])
        ind   == count[LockName(r)] + 1
    IN  /\ pc[r] = "locking"
        /\ ReadMayEnter(r)
        /\ mode' = IF mode = "none" THEN "read" ELSE mode
        /\ count' = [count EXCEPT ![LockName(r)] = ind]
        /\ timeoutKey' = [timeoutKey EXCEPT ![StoredKey(r, ind)] = argv1]
        /\ ttl' = IF mode = "none" THEN argv1 ELSE Larger(ttl, argv1)
        /\ Locked(r)

\* Mutant of WriteMayEnter: a write-mode hash is not checked for its owner.
WriteMayEnterAnyWrite(w) == mode \in {"none", "write"}

\* WriteLock.lockScript
WriteMayEnter(w) ==
    \/ mode = "none"
    \/ mode = "write" /\ HExists(WriteName(w))

\* Mutant of WriteAcquire: the first acquisition sets no time to live.
WriteAcquireNoExpire(w) ==
    /\ pc[w] = "locking"
    /\ WriteMayEnter(w)
    /\ mode' = "write"
    /\ count' = [count EXCEPT ![WriteName(w)] = @ + 1]
    /\ UNCHANGED <<ttl, timeoutKey>>
    /\ Locked(w)

WriteAcquire(w) ==
    LET argv1 == ToMillisecond(internalLockLeaseTime[w])
    IN  /\ pc[w] = "locking"
        /\ WriteMayEnter(w)
        /\ mode' = "write"
        /\ count' = [count EXCEPT ![WriteName(w)] = @ + 1]
        /\ ttl' = IF mode = "none" THEN argv1 ELSE ttl + argv1
        /\ timeoutKey' = timeoutKey
        /\ Locked(w)

(***************************************************************************)
(* UnLock().  Main calls it once per TryLock, whether or not the lease is  *)
(* still running: the scripts themselves have to notice a lease that ran   *)
(* out.  The caller gives back its last hold and still counts on the whole *)
(* lease of the others.                                                    *)
(***************************************************************************)
Unlocked(l) ==
    /\ pc[l] = "ready"
    /\ held[l] > 0
    /\ held' = [held EXCEPT ![l] = @ - 1]
    /\ lease' = [lease EXCEPT ![l][held[l]] = 0]
    /\ UNCHANGED <<pc, calls, internalLockLeaseTime>>

\* The remaining times the loop of ReadLock.unLockScript finds, once the
\* counters are c.
RemainTimes(c) ==
    {Pttl(LookedUpKey(k[1], k[2])) :
        k \in {x \in Readers \X Depth : x[2] <= c[LockName(x[1])]}}

\* ReadLock.unLockScript
ReadUnLock(r) ==
    LET f    == LockName(r)
        left == [count EXCEPT ![f] = @ - 1]
        live == {x \in RemainTimes(left) : x > 0}
    IN  /\ Unlocked(r)
        /\ IF mode = "none" \/ ~HExists(f)
           THEN UNCHANGED redis
           ELSE /\ timeoutKey' = [timeoutKey EXCEPT ![StoredKey(r, count[f])] = 0]
                /\ IF OwnersLeft(left)
                   THEN /\ count' = left
                        /\ ttl' = IF live = {} THEN ttl
                                  ELSE CHOOSE x \in live : \A y \in live : y <= x
                        /\ mode' = mode
                   ELSE DelHash
        /\ cut' = cut

\* WriteLock.unLockscript.  The branch that leaves nested holds behind sets the
\* time to live to internalLockLeaseTime MILLISECONDS: those holds are cut.
WriteUnLock(w) ==
    LET f    == WriteName(w)
        left == [count EXCEPT ![f] = @ - 1]
    IN  /\ Unlocked(w)
        /\ IF mode # "write" \/ ~HExists(f)
           THEN UNCHANGED <<mode, count, ttl, cut>>
           ELSE IF left[f] > 0
           THEN /\ count' = left
                /\ ttl' = internalLockLeaseTime[w]
                /\ mode' = mode
                /\ cut' = cut \cup ({w} \X (1 .. (held[w] - 1)))
           ELSE /\ IF OwnersLeft(left)
                   THEN /\ count' = left
                        /\ mode' = "read"
                        /\ ttl' = ttl
                   ELSE DelHash
                /\ cut' = cut
        /\ timeoutKey' = timeoutKey

(***************************************************************************)
(* The environment: a millisecond passes and Redis drops what has expired; *)
(* the process that uses an object dies and never calls it again.          *)
(***************************************************************************)
Minus1(n) == IF n > 0 THEN n - 1 ELSE 0

Tick ==
    /\ \/ ttl > 0
       \/ \E k \in TimeoutKeys : timeoutKey[k] > 0
       \/ \E l \in Locks, k \in Depth : lease[l][k] > 0
    /\ IF ttl = 1 THEN DelHash
       ELSE /\ ttl' = Minus1(ttl)
            /\ UNCHANGED <<mode, count>>
    /\ timeoutKey' = [k \in TimeoutKeys |-> Minus1(timeoutKey[k])]
    /\ lease' = [l \in Locks |-> [k \in Depth |-> Minus1(lease[l][k])]]
    /\ UNCHANGED <<internalLockLeaseTime, pc, calls, held, cut>>

Crash(l) ==
    /\ pc[l] # "crashed"
    /\ pc' = [pc EXCEPT ![l] = "crashed"]
    /\ UNCHANGED <<redis, internalLockLeaseTime, calls, held, lease, cut>>

Next ==
    \/ \E l \in Locks, t \in Timeouts : TryLock(l, t)
    \/ \E r \in Readers : ReadAcquire(r)
    \/ \E w \in Writers : WriteAcquire(w)
    \/ \E r \in Readers : ReadUnLock(r)
    \/ \E w \in Writers : WriteUnLock(w)
    \/ \E l \in Locks : Crash(l)
    \/ Tick

Spec == Init /\ [][Next]_vars

\* Time passes, and a task inside the retry loop keeps polling.  No task has
\* to call UnLock: it may be killed or may sleep for ever.
Fairness ==
    /\ WF_vars(Tick)
    /\ \A r \in Readers : WF_vars(ReadAcquire(r))
    /\ \A w \in Writers : WF_vars(WriteAcquire(w))

FairSpec == Spec /\ Fairness

-----------------------------------------------------------------------------
(***************************************************************************)
(* Properties.                                                             *)
(***************************************************************************)

\* The k-th nested hold of a task is secured while its lease runs, unless an
\* UnLock of a hold nested in it has shortened the hash's time to live.
Secured(l, k) == k <= held[l] /\ lease[l][k] > 0 /\ <<l, k>> \notin cut

\* The hash as the scripts leave it: it lives exactly as long as it has an
\* owner, a write-mode hash has one owner, and read-mode hash only readers.
HashConsistent ==
    /\ mode = "none" <=> ttl = 0
    /\ mode = "none" <=> \A f \in Fields : count[f] = 0
    /\ \A f, g \in Fields :
         mode = "write" /\ count[f] > 0 /\ count[g] > 0 => f = g
    /\ \A l \in Locks :
         /\ count[LockName(l)] > 0 => l \in Readers /\ mode = "read"
         /\ count[WriteName(l)] > 0 => l \in Writers /\ mode = "write"

\* The field a lock object uses, and its counter.
OwnField(l) == IF l \in Readers THEN LockName(l) ELSE WriteName(l)

OwnCount(l) == count[OwnField(l)]

\* Redis backs every hold that is secured: the field is there, with one unit
\* for this hold and each one nested in it, and the hash outlives the lease.
\* (A hold that is cut has no such backing: WriteLock.unLockscript line 48 lets
\* the hash expire long before the lease the caller was promised.)
LeaseBacked ==
    \A l \in Locks, k \in Depth :
        Secured(l, k) => /\ held[l] - k < OwnCount(l)
                         /\ lease[l][k] <= ttl

\* Bookkeeping between an object and its field, which the invariants above
\* rest on: Redis never counts more holds than the task has, a task inside
\* TryLock has a call to spare, and a hold given back has no lease.
HoldsCounted ==
    \A l \in Locks :
        /\ OwnCount(l) <= held[l]
        /\ held[l] + (IF pc[l] = "locking" THEN 1 ELSE 0) <= calls[l]
        /\ calls[l] > 0 => internalLockLeaseTime[l] \in Timeouts
        /\ \A k \in Depth : k > held[l] => lease[l][k] = 0

\* The inductive invariant.
IInv == TypeOK /\ HashConsistent /\ LeaseBacked /\ HoldsCounted

\* Mutual exclusion: while a write hold is secured, no other object has a
\* secured hold in either mode.
Exclusion ==
    \A w \in Writers, l \in Locks, j, k \in Depth :
        l # w /\ Secured(w, j) => ~Secured(l, k)

\* A field of the hash disappears only through the last UnLock of its own
\* object or because the whole hash expired; in particular the late UnLock
\* of a task whose lease ran out never frees its successor.
OwnerFrees ==
    [][\A l \in Locks :
          OwnCount(l) > 0 /\ OwnCount(l)' = 0 =>
              \/ held'[l] = held[l] - 1
              \/ ttl = 1 /\ \A j \in Locks, k \in Depth : ~Secured(j, k)']_vars

\* The timeout keys of the readers are the ones ReadLock.unLockScript looks
\* at: an UnLock that leaves other readers behind leaves a hash that lives no
\* longer than the longest of their timeout keys.
ReadUnLockTrims ==
    [][\A r \in Readers :
          held'[r] < held[r] /\ count'[LockName(r)] < count[LockName(r)] /\ ttl' > 0 =>
              \/ \A k \in TimeoutKeys : timeoutKey'[k] = 0
              \/ \E k \in TimeoutKeys : timeoutKey'[k] >= ttl']_vars

\* Nobody waits for ever, whatever the holders do: a task in the retry loop
\* of TryLock gets the lock or dies, even if every holder has crashed.
WaiterServed ==
    \A l \in Locks : pc[l] = "locking" ~> pc[l] # "locking"
=============================================================================
