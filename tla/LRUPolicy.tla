------------------------------ MODULE LRUPolicy ------------------------------
(***************************************************************************)
(* What a least-recently-used cache promises, as its README describes it:  *)
(* a hit moves the entry to the front, a new entry goes to the front, and  *)
(* a new entry that finds the cache full pushes the last one out.          *)
(***************************************************************************)
EXTENDS Integers, Sequences

CONSTANTS Keys, Values, Capacity

VARIABLES
    entries,    \* the cached entries, most recently used first
    result      \* what the last Get returned

Entry == [key : Keys, value : Values]

Init == entries = <<>> /\ result = -1

Cached(k) == \E j \in 1 .. Len(entries) : entries[j].key = k

\* The entries but for the j-th.
Without(j) == SubSeq(entries, 1, j - 1) \o SubSeq(entries, j + 1, Len(entries))

Hit(k) ==
    \E j \in 1 .. Len(entries) :
        /\ entries[j].key = k
        /\ result' = entries[j].value
        /\ entries' = <<entries[j]>> \o Without(j)

Miss(k) == ~Cached(k) /\ result' = -1 /\ entries' = entries

Update(k, v) ==
    \E j \in 1 .. Len(entries) :
        /\ entries[j].key = k
        /\ entries' = <<[key |-> k, value |-> v]>> \o Without(j)
        /\ result' = result

Add(k, v) ==
    /\ ~Cached(k)
    /\ entries' = <<[key |-> k, value |-> v]>> \o
                  (IF Len(entries) = Capacity THEN Without(Capacity) ELSE entries)
    /\ result' = result

Next ==
    \/ \E k \in Keys : Hit(k) \/ Miss(k)
    \/ \E k \in Keys, v \in Values : Update(k, v) \/ Add(k, v)

Spec == Init /\ [][Next]_<<entries, result>>
=============================================================================
