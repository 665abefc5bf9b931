------------------------------ MODULE LRUCache ------------------------------
(***************************************************************************)
(* The cache of Algorithm_DataStructure/LRU_Algorithm at the level of its  *)
(* pointers: a Dictionary from keys to nodes and a DoubleLinkedList that   *)
(* strings the same nodes between two sentinels.                           *)
(***************************************************************************)
EXTENDS Integers, FiniteSets

CONSTANTS
    Keys, Values,   \* keys and values put into the cache
    Capacity,       \* _capacity
    Nodes,          \* bound: node objects that can exist at a time
    HeaderNode, TailNode,   \* the sentinels
    Null

ASSUME LRUAssumption ==
    /\ Capacity \in Nat \ {0}
    /\ Values \subseteq Nat
    /\ HeaderNode \notin Nodes /\ TailNode \notin Nodes /\ HeaderNode # TailNode
    /\ Null \notin Nodes \cup {HeaderNode, TailNode}
    /\ IsFiniteSet(Nodes) /\ Cardinality(Nodes) > Capacity

Objects == Nodes \cup {HeaderNode, TailNode}

Pointers == [Objects -> Objects \cup {Null}]

VARIABLES
    next, prev,     \* Next and Prev of every object
    key, value,     \* Key and Value of every node
    map,            \* _map: a node per cached key, Null for the others
    result          \* what the last Get returned

vars == <<next, prev, key, value, map, result>>

\* Types of the pointers, of the nodes, of _map and of what Get returns: a
\* cached Value, or -1.
TypeOK ==
    /\ next \in Pointers /\ prev \in Pointers
    /\ key \in [Nodes -> Keys \cup {Null}]
    /\ value \in [Nodes -> Values \cup {Null}]
    /\ map \in [Keys -> Nodes \cup {Null}]
    /\ result \in Values \cup {-1}

\* The constructors of LRUCache and DoubleLinkedList.
Init ==
    /\ next = [n \in Objects |-> IF n = HeaderNode THEN TailNode ELSE Null]
    /\ prev = [n \in Objects |-> IF n = TailNode THEN HeaderNode ELSE Null]
    /\ key = [n \in Nodes |-> Null]
    /\ value = [n \in Nodes |-> Null]
    /\ map = [k \in Keys |-> Null]
    /\ result = -1

-----------------------------------------------------------------------------
(***************************************************************************)
(* DoubleLinkedList.  A list is a record of the two pointer functions, so  *)
(* that the cache can call one method after another in a step.             *)
(***************************************************************************)
List == [next |-> next, prev |-> prev]

\* Mutant of AddHeader: the old first node keeps its Prev.
AddHeaderNoPrev(l, n) ==
    [next |-> [l.next EXCEPT ![n] = l.next[HeaderNode], ![HeaderNode] = n],
     prev |-> [l.prev EXCEPT ![n] = HeaderNode]]

AddHeader(l, n) ==
    LET first == l.next[HeaderNode]
    IN  [next |-> [l.next EXCEPT ![n] = first, ![HeaderNode] = n],
         prev |-> [l.prev EXCEPT ![n] = HeaderNode, ![first] = n]]

RemoveNode(l, n) ==
    LET after  == l.next[n]
        before == l.prev[n]
    IN  [next |-> [l.next EXCEPT ![before] = after, ![n] = Null],
         prev |-> [l.prev EXCEPT ![after] = before, ![n] = Null]]

\* Mutant of GetLastNode: the most recently used node instead.
GetFirstNode(l) == l.next[HeaderNode]

GetLastNode(l) == l.prev[TailNode]

SetList(l) == next' = l.next /\ prev' = l.prev

-----------------------------------------------------------------------------
\* Node objects no longer referred to have been collected and may be reused.
Fresh == {n \in Nodes : \A k \in Keys : map[k] # n}

Count == Cardinality({k \in Keys : map[k] # Null})

\* Get: a hit moves the node to the front.
GetHit(k) ==
    /\ map[k] # Null
    /\ SetList(AddHeader(RemoveNode(List, map[k]), map[k]))
    /\ result' = value[map[k]]
    /\ UNCHANGED <<key, value, map>>

GetMiss(k) ==
    /\ map[k] = Null
    /\ result' = -1
    /\ UNCHANGED <<next, prev, key, value, map>>

\* Mutant of NewNode: the Value is not set.
NewNodeNoValue(n, k, v) ==
    /\ key' = [key EXCEPT ![n] = k]
    /\ value' = value

\* new Node { Key = k, Value = v }
NewNode(n, k, v) ==
    /\ key' = [key EXCEPT ![n] = k]
    /\ value' = [value EXCEPT ![n] = v]

\* Put of a key that is there: its node is replaced.
PutUpdate(k, v) ==
    \E n \in Fresh :
        /\ map[k] # Null
        /\ NewNode(n, k, v)
        /\ SetList(AddHeader(RemoveNode(List, map[k]), n))
        /\ map' = [map EXCEPT ![k] = n]
        /\ result' = result

\* Put of a new key: a full cache gives up its last node first.
PutNew(k, v) ==
    \E n \in Fresh :
        LET last == GetLastNode(List)
        IN  /\ map[k] = Null
            /\ NewNode(n, k, v)
            /\ IF Count = Capacity
               THEN /\ SetList(AddHeader(RemoveNode(List, last), n))
                    /\ map' = [map EXCEPT ![key[last]] = Null, ![k] = n]
               ELSE /\ SetList(AddHeader(List, n))
                    /\ map' = [map EXCEPT ![k] = n]
            /\ result' = result

Next ==
    \/ \E k \in Keys : GetHit(k) \/ GetMiss(k)
    \/ \E k \in Keys, v \in Values : PutUpdate(k, v) \/ PutNew(k, v)

Spec == Init /\ [][Next]_vars

-----------------------------------------------------------------------------
(***************************************************************************)
(* Properties.                                                             *)
(***************************************************************************)

Linked == {map[k] : k \in Keys} \ {Null}

\* The two structures agree: the list strings exactly the nodes of the map,
\* forwards and backwards, each node knows the key it is mapped from, and the
\* map never outgrows the capacity.
Consistent ==
    /\ \A n \in Linked \cup {HeaderNode} :
          next[n] \in Linked \cup {TailNode} /\ prev[next[n]] = n
    /\ \A n \in Linked \cup {TailNode} :
          prev[n] \in Linked \cup {HeaderNode} /\ next[prev[n]] = n
    /\ \A k \in Keys : map[k] # Null => key[map[k]] = k
    /\ Count <= Capacity

\* PrintAll: cur after j steps along Next, from the header on.
Visited[j \in Nat] == IF j = 0 THEN HeaderNode ELSE next[Visited[j - 1]]

Walk == [j \in 1 .. Count |-> Visited[j]]

\* Key and Value of the nodes, in the order of the list.
Entries == [j \in 1 .. Count |-> [key |-> key[Walk[j]], value |-> value[Walk[j]]]]

Policy == INSTANCE LRUPolicy WITH entries <- Entries

\* The cache behaves as a least-recently-used cache: its entries, read off
\* the list, are the recency order of the policy, and Get returns what the
\* policy returns.
PolicySpec == Policy!Spec
=============================================================================
