--------------------------- MODULE LRUCacheProofs ---------------------------
(***************************************************************************)
(* Proofs about the LRU cache, for any keys, values and capacity, however  *)
(* the node objects are reused: the two structures agree, and the cache    *)
(* implements the least-recently-used policy.                              *)
(***************************************************************************)
EXTENDS LRUCache, FiniteSetTheorems, SequenceTheorems, WellFoundedInduction, TLAPS

-----------------------------------------------------------------------------
(***************************************************************************)
(* Induction over the naturals, and the recursive function it justifies.   *)
(***************************************************************************)

\* A set of numbers that has 0 and every successor has all the numbers.
LEMMA Induction ==
    ASSUME NEW T \in SUBSET Nat, 0 \in T, \A n \in T : n + 1 \in T
    PROVE  \A n \in Nat : n \in T
  <1> SUFFICES ASSUME NEW m \in Nat, m \notin T PROVE FALSE
    OBVIOUS
  <1> DEFINE R == OpToRel(<, Nat)
  <1>1. IsWellFoundedOn(R, Nat)
    BY NatLessThanWellFounded
  <1>2. \A x \in Nat, y \in Nat : y < x => <<y, x>> \in R
    BY DEF OpToRel
  <1> HIDE DEF R
  <1> DEFINE U == Nat \ T
  <1>3. U \subseteq Nat /\ U # {}
    OBVIOUS
  <1> HIDE DEF U
  <1>4. PICK x \in U : \A y \in U : ~(<<y, x>> \in R)
    BY <1>1, <1>3, WFMin
  <1> USE DEF U
  <1>5. x \in Nat /\ x # 0 /\ x - 1 \in Nat /\ x - 1 < x /\ x = (x - 1) + 1
    OBVIOUS
  <1>6. x - 1 \in U
    BY <1>5
  <1> QED
    BY <1>2, <1>4, <1>5, <1>6, Zenon

\* The first n steps of a walk from h along nx.
Steps(g, n, h, nx) == g[0] = h /\ \A j \in 0 .. n : j > 0 => g[j] = nx[g[j - 1]]

\* A walk of any length exists.
LEMMA StepsExist ==
    ASSUME NEW nx, NEW h
    PROVE  \A n \in Nat : \E g : Steps(g, n, h, nx)
  <1> DEFINE T == {n \in Nat : \E g : Steps(g, n, h, nx)}
  <1>1. 0 \in T
    <2> DEFINE g == [j \in 0 .. 0 |-> h]
    <2>1. Steps(g, 0, h, nx)
      BY DEF Steps
    <2> QED
      BY <2>1
  <1>2. ASSUME NEW n \in T PROVE n + 1 \in T
    <2>1. PICK g : Steps(g, n, h, nx)
      OBVIOUS
    <2> DEFINE f == [j \in 0 .. n + 1 |-> IF j <= n THEN g[j] ELSE nx[g[n]]]
    <2>2. n \in Nat
      OBVIOUS
    <2>3. ASSUME NEW j \in 0 .. n + 1, j > 0 PROVE f[j] = nx[f[j - 1]]
      <3>1. j \in Int /\ j - 1 \in 0 .. n + 1 /\ j - 1 <= n /\ f[j - 1] = g[j - 1]
        BY <2>2, <2>3
      <3>2. CASE j <= n
        <4>1. j \in 0 .. n /\ f[j] = g[j]
          BY <2>2, <3>2
        <4>2. g[j] = nx[g[j - 1]]
          BY <2>1, <2>3, <4>1 DEF Steps
        <4> QED
          BY <3>1, <4>1, <4>2
      <3>3. CASE j = n + 1
        BY <2>2, <3>1, <3>3
      <3> QED
        BY <2>2, <3>2, <3>3
    <2>4. f[0] = h
      BY <2>1, <2>2 DEF Steps
    <2> HIDE DEF f
    <2>5. Steps(f, n + 1, h, nx)
      BY <2>3, <2>4 DEF Steps
    <2> QED
      BY <2>2, <2>5
  <1>3. T \in SUBSET Nat
    OBVIOUS
  <1> HIDE DEF T
  <1>4. \A n \in Nat : n \in T
    BY <1>1, <1>2, <1>3, Induction
  <1> QED
    BY <1>4 DEF T

\* Two walks from the same node take the same steps.
LEMMA StepsUnique ==
    ASSUME NEW nx, NEW h, NEW f, NEW g, NEW m \in Nat, NEW n \in Nat,
           Steps(f, m, h, nx), Steps(g, n, h, nx)
    PROVE  \A j \in Nat : j <= m /\ j <= n => f[j] = g[j]
  <1> DEFINE T == {j \in Nat : j <= m /\ j <= n => f[j] = g[j]}
  <1>1. 0 \in T
    BY DEF Steps
  <1>2. ASSUME NEW j \in T PROVE j + 1 \in T
    <2>1. SUFFICES ASSUME j + 1 <= m, j + 1 <= n PROVE f[j + 1] = g[j + 1]
      OBVIOUS
    <2>2. j \in Nat /\ f[j] = g[j] /\ j + 1 \in 0 .. m /\ j + 1 \in 0 .. n /\ (j + 1) - 1 = j
      BY <2>1
    <2>3. f[j + 1] = nx[f[(j + 1) - 1]] /\ g[j + 1] = nx[g[(j + 1) - 1]]
      BY <2>2 DEF Steps
    <2> QED
      BY <2>2, <2>3
  <1>3. T \in SUBSET Nat
    OBVIOUS
  <1> HIDE DEF T
  <1>4. \A j \in Nat : j \in T
    BY <1>1, <1>2, <1>3, Induction
  <1> QED
    BY <1>4 DEF T

\* What PrintAll's loop visits from h on along nx.
Walked(h, nx) == CHOOSE g : g = [j \in Nat |-> IF j = 0 THEN h ELSE nx[g[j - 1]]]

\* There is such a function: it starts at h and takes every step along nx.
LEMMA WalkDefined ==
    ASSUME NEW nx, NEW h, NEW f, f = Walked(h, nx)
    PROVE  f[0] = h /\ \A j \in Nat : f[j + 1] = nx[f[j]]
  <1> DEFINE G(n) == CHOOSE g : Steps(g, n, h, nx)
  <1> DEFINE F == [n \in Nat |-> G(n)[n]]
  <1>1. ASSUME NEW n \in Nat PROVE Steps(G(n), n, h, nx)
    BY StepsExist
  <1>2. ASSUME NEW j \in Nat PROVE F[j] = IF j = 0 THEN h ELSE nx[F[j - 1]]
    <2>1. F[j] = G(j)[j] /\ Steps(G(j), j, h, nx)
      BY <1>1
    <2>2. CASE j = 0
      BY <2>1, <2>2 DEF Steps
    <2>3. CASE j # 0
      <3>1. j - 1 \in Nat /\ j \in 0 .. j /\ j > 0 /\ j - 1 <= j /\ j - 1 <= j - 1
        BY <2>3
      <3>2. G(j)[j] = nx[G(j)[j - 1]]
        BY <2>1, <3>1 DEF Steps
      <3>3. Steps(G(j - 1), j - 1, h, nx)
        BY <1>1, <3>1
      <3> HIDE DEF G
      <3>4. G(j)[j - 1] = G(j - 1)[j - 1]
        BY <2>1, <3>1, <3>3, StepsUnique
      <3>5. F[j - 1] = G(j - 1)[j - 1]
        BY <3>1
      <3> QED
        BY <2>1, <2>3, <3>2, <3>4, <3>5
    <2> QED
      BY <2>2, <2>3
  <1>3. F = [j \in Nat |-> F[j]]
    OBVIOUS
  <1> HIDE DEF F
  <1>4. F = [j \in Nat |-> IF j = 0 THEN h ELSE nx[F[j - 1]]]
    BY <1>2, <1>3
  <1>5. f = [j \in Nat |-> IF j = 0 THEN h ELSE nx[f[j - 1]]]
    BY <1>4 DEF Walked
  <1>6. f[0] = h
    BY <1>5
  <1>7. ASSUME NEW j \in Nat PROVE f[j + 1] = nx[f[j]]
    <2>1. j + 1 \in Nat /\ j + 1 # 0 /\ (j + 1) - 1 = j
      OBVIOUS
    <2> QED
      BY <1>5, <2>1
  <1> QED
    BY <1>6, <1>7

-----------------------------------------------------------------------------
(***************************************************************************)
(* DoubleLinkedList.                                                       *)
(***************************************************************************)

\* The list l strings c nodes, no node twice, between the sentinels: s names
\* the objects in the order of Next, and Prev leads back.
Strung(l, s, c) ==
    /\ l.next \in Pointers /\ l.prev \in Pointers
    /\ c \in Nat
    /\ s \in [0 .. c + 1 -> Objects]
    /\ s[0] = HeaderNode /\ s[c + 1] = TailNode
    /\ \A i \in 1 .. c : s[i] \in Nodes
    /\ \A i, j \in 0 .. c + 1 : s[i] = s[j] => i = j
    /\ \A i \in 0 .. c : l.next[s[i]] = s[i + 1] /\ l.prev[s[i + 1]] = s[i]

\* The order after a node was put in front, and after the p-th was taken out.
Pushed(s, c, n) == [i \in 0 .. c + 2 |-> IF i = 0 THEN s[0] ELSE IF i = 1 THEN n ELSE s[i - 1]]

Cut(s, c, p) == [i \in 0 .. c |-> IF i < p THEN s[i] ELSE s[i + 1]]

\* Only the pointers of a list matter.
LEMMA StrungByPointers ==
    ASSUME NEW l, NEW a, l.next = a.next, l.prev = a.prev, NEW s, NEW c, Strung(l, s, c)
    PROVE  Strung(a, s, c)
  BY DEF Strung

\* AddHeader puts a node that is not in the list in front of the others.
LEMMA AddHeaderStrung ==
    ASSUME NEW l, NEW s, NEW c, Strung(l, s, c), NEW n \in Nodes,
           \A i \in 1 .. c : s[i] # n
    PROVE  Strung(AddHeader(l, n), Pushed(s, c, n), c + 1)
  <1> DEFINE first == l.next[HeaderNode]
  <1> DEFINE a == AddHeader(l, n)
  <1> DEFINE t == Pushed(s, c, n)
  <1>1. /\ l.next \in Pointers /\ l.prev \in Pointers /\ c \in Nat
        /\ s \in [0 .. c + 1 -> Objects] /\ s[0] = HeaderNode /\ s[c + 1] = TailNode
        /\ \A i, j \in 0 .. c + 1 : s[i] = s[j] => i = j
        /\ \A i \in 0 .. c : l.next[s[i]] = s[i + 1] /\ l.prev[s[i + 1]] = s[i]
        /\ \A i \in 1 .. c : s[i] \in Nodes
    BY DEF Strung
  <1>2. /\ n \in Objects /\ n # HeaderNode /\ n # TailNode
        /\ \A i \in 0 .. c + 1 : s[i] # n
    <2>1. n \in Objects /\ n # HeaderNode /\ n # TailNode
      BY LRUAssumption DEF Objects
    <2>2. ASSUME NEW i \in 0 .. c + 1 PROVE s[i] # n
      <3>1. i = 0 \/ i = c + 1 \/ i \in 1 .. c
        BY <1>1
      <3> QED
        BY <1>1, <2>1, <3>1
    <2> QED
      BY <2>1, <2>2
  <1>3. first = s[1] /\ first \in Objects /\ HeaderNode \in Objects
    <2>1. 0 \in 0 .. c /\ 0 + 1 = 1 /\ 1 \in 0 .. c + 1 /\ 0 \in 0 .. c + 1
      BY <1>1
    <2>2. l.next[s[0]] = s[1]
      BY <1>1, <2>1
    <2>3. s[1] \in Objects
      BY <1>1, <2>1
    <2>4. HeaderNode \in Objects /\ s[0] = HeaderNode
      BY <1>1 DEF Objects
    <2> QED
      BY <2>2, <2>3, <2>4
  <1>4. /\ a.next = [l.next EXCEPT ![n] = first, ![HeaderNode] = n]
        /\ a.prev = [l.prev EXCEPT ![n] = HeaderNode, ![first] = n]
    BY DEF AddHeader
  <1> HIDE DEF first, a
  <1>5. a.next \in Pointers /\ a.prev \in Pointers
    <2>1. l.next \in Pointers /\ l.prev \in Pointers
      BY <1>1
    <2>2. n \in Objects
      BY <1>2
    <2> QED
      BY <1>3, <1>4, <2>1, <2>2 DEF Pointers
  <1>6. \A m \in Objects : /\ a.next[m] = IF m = HeaderNode THEN n ELSE IF m = n THEN first ELSE l.next[m]
                           /\ a.prev[m] = IF m = first THEN n ELSE IF m = n THEN HeaderNode ELSE l.prev[m]
    BY <1>1, <1>2, <1>3, <1>4 DEF Pointers
  <1>7. /\ t \in [0 .. c + 2 -> Objects] /\ t[0] = HeaderNode /\ t[1] = n /\ t[c + 2] = TailNode
        /\ \A i \in 1 .. c + 1 : t[i + 1] = s[i]
        /\ \A i \in 2 .. c + 2 : t[i] = s[i - 1]
    <2>1. \A i \in 2 .. c + 2 : i - 1 \in 0 .. c + 1
      BY <1>1
    <2> QED
      BY <1>1, <1>2, <1>3, <2>1 DEF Pushed
  <1> HIDE DEF t
  <1>8. \A i \in 1 .. c + 1 : t[i] \in Nodes
    <2> SUFFICES ASSUME NEW i \in 1 .. c + 1 PROVE t[i] \in Nodes
      OBVIOUS
    <2>1. CASE i = 1
      BY <1>7, <2>1
    <2>2. CASE i # 1
      <3>1. i \in 2 .. c + 2 /\ i - 1 \in 1 .. c
        BY <1>1, <2>2
      <3> QED
        BY <1>1, <1>7, <3>1
    <2> QED
      BY <2>1, <2>2
  <1>9. ASSUME NEW i \in 0 .. c + 2, NEW j \in 0 .. c + 2, t[i] = t[j] PROVE i = j
    <2>1. \A k \in 0 .. c + 2 : k = 0 \/ k = 1 \/ (k \in 2 .. c + 2 /\ k - 1 \in 1 .. c + 1)
      BY <1>1
    <2>2. \A k \in 2 .. c + 2 : t[k] # t[0] /\ t[k] # t[1]
      <3> SUFFICES ASSUME NEW k \in 2 .. c + 2 PROVE t[k] # t[0] /\ t[k] # t[1]
        OBVIOUS
      <3>1. k - 1 \in 0 .. c + 1 /\ k - 1 # 0 /\ 0 \in 0 .. c + 1
        BY <1>1
      <3> QED
        BY <1>1, <1>2, <1>7, <3>1
    <2>3. CASE i \in 2 .. c + 2 /\ j \in 2 .. c + 2
      <3>1. i - 1 \in 0 .. c + 1 /\ j - 1 \in 0 .. c + 1
        BY <1>1, <2>3
      <3>2. i - 1 = j - 1
        BY <1>1, <1>7, <1>9, <2>3, <3>1
      <3> QED
        BY <2>3, <3>2
    <2>4. t[0] # t[1]
      BY <1>2, <1>7
    <2> QED
      BY <1>9, <2>1, <2>2, <2>3, <2>4
  <1>10. ASSUME NEW i \in 0 .. c + 1 PROVE a.next[t[i]] = t[i + 1] /\ a.prev[t[i + 1]] = t[i]
    <2>1. 1 \in 0 .. c + 1 /\ 0 \in 0 .. c /\ 1 \in 1 .. c + 1
      BY <1>1
    <2>2. CASE i = 0
      <3>1. n # first
        BY <1>2, <1>3, <2>1
      <3> QED
        BY <1>2, <1>3, <1>6, <1>7, <2>2, <3>1
    <2>3. CASE i = 1
      <3>1. t[i + 1] = first /\ t[i] = n
        BY <1>3, <1>7, <2>1, <2>3
      <3> QED
        BY <1>2, <1>3, <1>6, <3>1
    <2>4. CASE i # 0 /\ i # 1
      <3>1. i \in 2 .. c + 2 /\ i - 1 \in 0 .. c /\ i \in 0 .. c + 1 /\ i \in 1 .. c + 1 /\ i \in Int
        BY <1>1, <2>4
      <3>2. t[i] = s[i - 1] /\ t[i + 1] = s[i]
        BY <1>7, <3>1
      <3>3. l.next[s[i - 1]] = s[i] /\ l.prev[s[i]] = s[i - 1]
        <4>1. (i - 1) + 1 = i
          BY <3>1
        <4> QED
          BY <1>1, <3>1, <4>1
      <3>4. s[i] # first /\ s[i - 1] # HeaderNode /\ s[i] # n /\ s[i - 1] # n
        <4>1. 0 \in 0 .. c + 1 /\ i - 1 \in 0 .. c + 1 /\ i # 1 /\ i - 1 # 0
          BY <1>1, <2>4, <3>1
        <4> QED
          BY <1>1, <1>2, <1>3, <2>1, <3>1, <4>1
      <3>5. s[i] \in Objects /\ s[i - 1] \in Objects
        BY <1>1, <3>1
      <3> QED
        BY <1>6, <3>2, <3>3, <3>4, <3>5
    <2> QED
      BY <2>2, <2>3, <2>4
  <1>11. c + 1 \in Nat /\ (c + 1) + 1 = c + 2
    BY <1>1
  <1>12. Strung(a, t, c + 1)
    BY <1>5, <1>7, <1>8, <1>9, <1>10, <1>11 DEF Strung
  <1> QED
    BY <1>12 DEF a, t

\* RemoveNode closes the list over the p-th node and leaves the others in order.
LEMMA RemoveNodeStrung ==
    ASSUME NEW l, NEW s, NEW c, Strung(l, s, c), NEW p \in 1 .. c
    PROVE  Strung(RemoveNode(l, s[p]), Cut(s, c, p), c - 1)
  <1> DEFINE n == s[p]
  <1> DEFINE after == l.next[n]
  <1> DEFINE before == l.prev[n]
  <1> DEFINE r == RemoveNode(l, n)
  <1> DEFINE t == Cut(s, c, p)
  <1>1. /\ l.next \in Pointers /\ l.prev \in Pointers /\ c \in Nat
        /\ s \in [0 .. c + 1 -> Objects] /\ s[0] = HeaderNode /\ s[c + 1] = TailNode
        /\ \A i, j \in 0 .. c + 1 : s[i] = s[j] => i = j
        /\ \A i \in 0 .. c : l.next[s[i]] = s[i + 1] /\ l.prev[s[i + 1]] = s[i]
        /\ \A i \in 1 .. c : s[i] \in Nodes
    BY DEF Strung
  <1>2. /\ p \in 0 .. c /\ p - 1 \in 0 .. c /\ p + 1 \in 0 .. c + 1 /\ p - 1 \in 0 .. c + 1
        /\ p \in 0 .. c + 1 /\ (p - 1) + 1 = p /\ p # p + 1 /\ p # p - 1 /\ p - 1 # p + 1
        /\ p \in Nat
    BY <1>1
  <1>3. after = s[p + 1] /\ before = s[p - 1]
    <2>1. l.prev[s[(p - 1) + 1]] = s[p - 1]
      BY <1>1, <1>2
    <2> QED
      BY <1>1, <1>2, <2>1
  <1>4. n \in Objects /\ after \in Objects /\ before \in Objects
    BY <1>1, <1>2, <1>3
  <1>5. n # after /\ n # before
    BY <1>1, <1>2, <1>3
  <1>6. /\ r.next = [l.next EXCEPT ![before] = after, ![n] = Null]
        /\ r.prev = [l.prev EXCEPT ![after] = before, ![n] = Null]
    BY DEF RemoveNode
  <1> HIDE DEF n, after, before, r
  <1>7. r.next \in Pointers /\ r.prev \in Pointers
    BY <1>1, <1>4, <1>6 DEF Pointers
  <1>8. \A m \in Objects : m # n => /\ r.next[m] = IF m = before THEN after ELSE l.next[m]
                                    /\ r.prev[m] = IF m = after THEN before ELSE l.prev[m]
    BY <1>1, <1>4, <1>6 DEF Pointers
  <1>9. /\ \A i \in 0 .. c : i < p => t[i] = s[i]
        /\ \A i \in 0 .. c : ~(i < p) => t[i] = s[i + 1]
        /\ t \in [0 .. c -> Objects]
    <2>1. \A i \in 0 .. c : i \in 0 .. c + 1 /\ i + 1 \in 0 .. c + 1
      BY <1>1
    <2> QED
      BY <1>1, <2>1 DEF Cut
  <1>10. t[0] = HeaderNode /\ t[c] = TailNode
    <2>1. 0 \in 0 .. c /\ 0 < p /\ c \in 0 .. c /\ ~(c < p)
      BY <1>1, <1>2
    <2> QED
      BY <1>1, <1>9, <2>1
  <1> HIDE DEF t
  <1>11. ASSUME NEW i \in 1 .. c - 1 PROVE t[i] \in Nodes
    <2>1. i \in 0 .. c /\ i \in 1 .. c /\ i + 1 \in 1 .. c
      BY <1>1
    <2> QED
      BY <1>1, <1>9, <2>1
  <1>12. ASSUME NEW i \in 0 .. c, NEW j \in 0 .. c, t[i] = t[j] PROVE i = j
    <2>1. /\ i \in 0 .. c + 1 /\ i + 1 \in 0 .. c + 1 /\ j \in 0 .. c + 1 /\ j + 1 \in 0 .. c + 1
          /\ i \in Int /\ j \in Int
      BY <1>1
    <2>2. CASE i < p /\ j < p
      BY <1>1, <1>9, <1>12, <2>1, <2>2
    <2>3. CASE ~(i < p) /\ ~(j < p)
      <3>1. i + 1 = j + 1
        BY <1>1, <1>9, <1>12, <2>1, <2>3
      <3> QED
        BY <2>1, <3>1
    <2>4. CASE i < p /\ ~(j < p)
      <3>1. i = j + 1
        BY <1>1, <1>9, <1>12, <2>1, <2>4
      <3> QED
        BY <1>2, <2>1, <2>4, <3>1
    <2>5. CASE ~(i < p) /\ j < p
      <3>1. i + 1 = j
        BY <1>1, <1>9, <1>12, <2>1, <2>5
      <3> QED
        BY <1>2, <2>1, <2>5, <3>1
    <2> QED
      BY <2>2, <2>3, <2>4, <2>5
  <1>13. ASSUME NEW i \in 0 .. c - 1 PROVE r.next[t[i]] = t[i + 1] /\ r.prev[t[i + 1]] = t[i]
    <2>1. /\ i \in 0 .. c /\ i + 1 \in 0 .. c /\ i \in 0 .. c + 1 /\ i + 1 \in 0 .. c + 1
          /\ (i + 1) + 1 \in 0 .. c + 1 /\ i \in Int
      BY <1>1
    <2>2. CASE i = p - 1
      <3>1. i < p /\ ~(i + 1 < p) /\ (i + 1) + 1 = p + 1
        BY <1>2, <2>2
      <3>2. t[i] = before /\ t[i + 1] = after
        BY <1>3, <1>9, <2>1, <2>2, <3>1
      <3> QED
        BY <1>4, <1>5, <1>8, <3>2
    <2>3. CASE i < p - 1
      <3>1. i < p /\ i + 1 < p /\ i # p - 1 /\ i # p /\ i + 1 # p + 1 /\ i + 1 # p
        BY <1>2, <2>1, <2>3
      <3>2. t[i] = s[i] /\ t[i + 1] = s[i + 1] /\ l.next[s[i]] = s[i + 1] /\ l.prev[s[i + 1]] = s[i]
        BY <1>1, <1>9, <2>1, <3>1
      <3>3. s[i] # n /\ s[i + 1] # n /\ s[i] # before /\ s[i + 1] # after
        BY <1>1, <1>2, <1>3, <2>1, <3>1 DEF n
      <3>4. s[i] \in Objects /\ s[i + 1] \in Objects
        BY <1>1, <2>1
      <3> QED
        BY <1>8, <3>2, <3>3, <3>4
    <2>4. CASE i > p - 1
      <3>1. /\ ~(i < p) /\ ~(i + 1 < p) /\ i + 1 # p - 1 /\ i + 1 # p
            /\ (i + 1) + 1 # p + 1 /\ (i + 1) + 1 # p
        BY <1>2, <2>1, <2>4
      <3>2. /\ t[i] = s[i + 1] /\ t[i + 1] = s[(i + 1) + 1]
            /\ l.next[s[i + 1]] = s[(i + 1) + 1] /\ l.prev[s[(i + 1) + 1]] = s[i + 1]
        BY <1>1, <1>9, <2>1, <3>1
      <3>3. s[i + 1] # n /\ s[(i + 1) + 1] # n /\ s[i + 1] # before /\ s[(i + 1) + 1] # after
        BY <1>1, <1>2, <1>3, <2>1, <3>1 DEF n
      <3>4. s[i + 1] \in Objects /\ s[(i + 1) + 1] \in Objects
        BY <1>1, <2>1
      <3> QED
        BY <1>8, <3>2, <3>3, <3>4
    <2> QED
      BY <1>2, <2>1, <2>2, <2>3, <2>4
  <1>14. c - 1 \in Nat /\ (c - 1) + 1 = c
    BY <1>1, <1>2
  <1>15. Strung(r, t, c - 1)
    BY <1>7, <1>9, <1>10, <1>11, <1>12, <1>13, <1>14 DEF Strung
  <1> QED
    BY <1>15 DEF r, t, n

\* What PrintAll visits is what the list strings.
LEMMA WalkRead ==
    ASSUME NEW l, NEW s, NEW c, Strung(l, s, c), NEW f, f = Walked(HeaderNode, l.next)
    PROVE  \A j \in 1 .. c : f[j] = s[j]
  <1>1. f[0] = HeaderNode /\ \A j \in Nat : f[j + 1] = l.next[f[j]]
    BY WalkDefined
  <1>2. /\ c \in Nat /\ s[0] = HeaderNode
        /\ \A i \in 0 .. c : l.next[s[i]] = s[i + 1]
    BY DEF Strung
  <1> DEFINE T == {j \in Nat : j <= c => f[j] = s[j]}
  <1>3. 0 \in T
    BY <1>1, <1>2
  <1>4. ASSUME NEW j \in T PROVE j + 1 \in T
    <2>1. SUFFICES ASSUME j + 1 <= c PROVE f[j + 1] = s[j + 1]
      OBVIOUS
    <2>2. j \in Nat /\ j <= c /\ j \in 0 .. c /\ f[j] = s[j]
      BY <1>2, <2>1
    <2> QED
      BY <1>1, <1>2, <2>2
  <1>5. T \in SUBSET Nat
    OBVIOUS
  <1> HIDE DEF T
  <1>6. \A j \in Nat : j \in T
    BY <1>3, <1>4, <1>5, Induction
  <1> QED
    BY <1>2, <1>6 DEF T

-----------------------------------------------------------------------------
(***************************************************************************)
(* The list and the map together.                                          *)
(***************************************************************************)
CachedKeys(m) == {k \in Keys : m[k] # Null}

LinkedIn(m) == {m[k] : k \in Keys} \ {Null}

\* The list l strings the nodes of the map m, in the order of s.
Listed(l, m, s, c) ==
    /\ Strung(l, s, c)
    /\ LinkedIn(m) = {s[i] : i \in 1 .. c}
    /\ IsFiniteSet(CachedKeys(m)) /\ Cardinality(CachedKeys(m)) = c

\* No node is mapped from two keys.
OneKey(m) == \A j, k \in Keys : m[j] # Null /\ m[j] = m[k] => j = k

\* The p-th node unlinked and its key dropped.
LEMMA DroppedListed ==
    ASSUME NEW l, NEW m \in [Keys -> Nodes \cup {Null}], NEW s, NEW c, Listed(l, m, s, c),
           OneKey(m), NEW e \in Keys, NEW p \in 1 .. c, m[e] = s[p]
    PROVE  Listed(RemoveNode(l, s[p]), [m EXCEPT ![e] = Null], Cut(s, c, p), c - 1)
  <1>1. PICK d : d = [m EXCEPT ![e] = Null]
    OBVIOUS
  <1>2. PICK t : t = Cut(s, c, p)
    OBVIOUS
  <1>3. /\ Strung(RemoveNode(l, s[p]), t, c - 1)
    BY <1>2, RemoveNodeStrung DEF Listed
  <1>4. c \in Nat /\ p \in Nat /\ \A i, j \in 1 .. c : s[i] = s[j] => i = j
    <2>1. c \in Nat /\ \A i, j \in 0 .. c + 1 : s[i] = s[j] => i = j
      BY DEF Listed, Strung
    <2>2. \A i \in 1 .. c : i \in 0 .. c + 1
      BY <2>1
    <2> QED
      BY <2>1, <2>2
  <1>5. s[p] # Null
    BY LRUAssumption DEF Listed, Strung
  <1>6. \A j \in Keys : d[j] = IF j = e THEN Null ELSE m[j]
    BY <1>1
  <1>7. LinkedIn(d) = LinkedIn(m) \ {s[p]}
    <2>1. ASSUME NEW x \in LinkedIn(d) PROVE x \in LinkedIn(m) /\ x # s[p]
      <3>1. PICK j \in Keys : x = d[j] /\ x # Null
        BY DEF LinkedIn
      <3>2. j # e /\ x = m[j]
        BY <1>6, <3>1
      <3> QED
        BY <3>1, <3>2 DEF LinkedIn, OneKey
    <2>2. ASSUME NEW x \in LinkedIn(m), x # s[p] PROVE x \in LinkedIn(d)
      <3>1. PICK j \in Keys : x = m[j] /\ x # Null
        BY DEF LinkedIn
      <3>2. j # e
        BY <2>2, <3>1
      <3> QED
        BY <1>6, <3>1, <3>2 DEF LinkedIn
    <2> QED
      BY <2>1, <2>2
  <1>8. \A i \in 1 .. c - 1 : t[i] = IF i < p THEN s[i] ELSE s[i + 1]
    BY <1>2, <1>4 DEF Cut
  <1>9. {s[i] : i \in 1 .. c} \ {s[p]} = {t[i] : i \in 1 .. c - 1}
    <2>1. ASSUME NEW i \in 1 .. c, i # p PROVE \E j \in 1 .. c - 1 : s[i] = t[j]
      <3>1. CASE i < p
        <4>1. i \in 1 .. c - 1
          BY <1>4, <3>1
        <4> QED
          BY <1>8, <3>1, <4>1
      <3>2. CASE ~(i < p)
        <4>1. i - 1 \in 1 .. c - 1 /\ ~(i - 1 < p) /\ (i - 1) + 1 = i
          BY <1>4, <2>1, <3>2
        <4>2. t[i - 1] = s[(i - 1) + 1]
          BY <1>8, <4>1
        <4> QED
          BY <4>1, <4>2
      <3> QED
        BY <3>1, <3>2
    <2>2. ASSUME NEW j \in 1 .. c - 1 PROVE t[j] # s[p] /\ \E i \in 1 .. c : t[j] = s[i]
      <3>1. j \in 1 .. c /\ j + 1 \in 1 .. c
        BY <1>4
      <3>2. CASE j < p
        BY <1>4, <1>8, <3>1, <3>2
      <3>3. CASE ~(j < p)
        <4>1. j + 1 # p
          BY <1>4, <3>1, <3>3
        <4> QED
          BY <1>4, <1>8, <3>1, <3>3, <4>1
      <3> QED
        BY <3>2, <3>3
    <2> QED
      BY <1>4, <2>1, <2>2
  <1>10. LinkedIn(d) = {t[i] : i \in 1 .. c - 1}
    BY <1>7, <1>9 DEF Listed
  <1>11. CachedKeys(d) = CachedKeys(m) \ {e} /\ e \in CachedKeys(m)
    BY <1>5, <1>6 DEF CachedKeys
  <1>12. IsFiniteSet(CachedKeys(m)) /\ Cardinality(CachedKeys(m)) = c
    BY DEF Listed
  <1>13. IsFiniteSet(CachedKeys(d)) /\ Cardinality(CachedKeys(d)) = c - 1
    BY <1>11, <1>12, FS_RemoveElement
  <1>14. Listed(RemoveNode(l, s[p]), d, t, c - 1)
    BY <1>3, <1>10, <1>13 DEF Listed
  <1> QED
    BY <1>1, <1>2, <1>14

\* A node that is not linked put in front and entered under a free key.
LEMMA PushedListed ==
    ASSUME NEW l, NEW m \in [Keys -> Nodes \cup {Null}], NEW s, NEW c, Listed(l, m, s, c),
           NEW k \in Keys, m[k] = Null, NEW n \in Nodes, n \notin LinkedIn(m)
    PROVE  Listed(AddHeader(l, n), [m EXCEPT ![k] = n], Pushed(s, c, n), c + 1)
  <1>1. PICK d : d = [m EXCEPT ![k] = n]
    OBVIOUS
  <1>2. PICK t : t = Pushed(s, c, n)
    OBVIOUS
  <1>3. LinkedIn(m) = {s[i] : i \in 1 .. c} /\ c \in Nat
    BY DEF Listed, Strung
  <1>4. \A i \in 1 .. c : s[i] # n
    BY <1>3
  <1>5. Strung(AddHeader(l, n), t, c + 1)
    BY <1>2, <1>4, AddHeaderStrung DEF Listed
  <1>6. n # Null /\ \A j \in Keys : d[j] = IF j = k THEN n ELSE m[j]
    BY <1>1, LRUAssumption
  <1>7. LinkedIn(d) = LinkedIn(m) \cup {n}
    <2>1. ASSUME NEW x \in LinkedIn(d) PROVE x \in LinkedIn(m) \/ x = n
      BY <1>6 DEF LinkedIn
    <2>2. ASSUME NEW x \in LinkedIn(m) PROVE x \in LinkedIn(d)
      <3>1. PICK j \in Keys : x = m[j] /\ x # Null
        BY DEF LinkedIn
      <3> QED
        BY <1>6, <3>1 DEF LinkedIn
    <2>3. n \in LinkedIn(d)
      BY <1>6 DEF LinkedIn
    <2> QED
      BY <2>1, <2>2, <2>3
  <1>8. t[1] = n /\ \A i \in 1 .. c : t[i + 1] = s[i] /\ i + 1 \in 1 .. c + 1
    BY <1>2, <1>3 DEF Pushed
  <1>9. {s[i] : i \in 1 .. c} \cup {n} = {t[i] : i \in 1 .. c + 1}
    <2>1. ASSUME NEW j \in 1 .. c + 1 PROVE t[j] = n \/ \E i \in 1 .. c : t[j] = s[i]
      <3>1. CASE j = 1
        BY <1>8, <3>1
      <3>2. CASE j # 1
        <4>1. j - 1 \in 1 .. c /\ (j - 1) + 1 = j
          BY <1>3, <3>2
        <4> QED
          BY <1>8, <4>1
      <3> QED
        BY <3>1, <3>2
    <2>2. 1 \in 1 .. c + 1
      BY <1>3
    <2> QED
      BY <1>8, <2>1, <2>2
  <1>10. LinkedIn(d) = {t[i] : i \in 1 .. c + 1}
    BY <1>3, <1>7, <1>9
  <1>11. CachedKeys(d) = CachedKeys(m) \cup {k} /\ k \notin CachedKeys(m)
    BY <1>6 DEF CachedKeys
  <1>12. IsFiniteSet(CachedKeys(m)) /\ Cardinality(CachedKeys(m)) = c
    BY DEF Listed
  <1>13. IsFiniteSet(CachedKeys(d)) /\ Cardinality(CachedKeys(d)) = c + 1
    <2>1. /\ IsFiniteSet(CachedKeys(m) \cup {k})
          /\ Cardinality(CachedKeys(m) \cup {k}) = Cardinality(CachedKeys(m)) + 1
      BY <1>11, <1>12, FS_AddElement
    <2> QED
      BY <1>11, <1>12, <2>1
  <1>14. Listed(AddHeader(l, n), d, t, c + 1)
    BY <1>5, <1>10, <1>13 DEF Listed
  <1> QED
    BY <1>1, <1>2, <1>14

-----------------------------------------------------------------------------
(***************************************************************************)
(* The inductive invariant.  Consistent alone does not say that the nodes  *)
(* of the map form one list: a node linked to itself beside it would pass, *)
(* and a full cache could then find no node to give up.  Listed adds the   *)
(* order that rules this out, and which the policy is about.               *)
(***************************************************************************)

\* Every mapped node carries its key and a value.
NodesFilled == \A k \in Keys : map[k] # Null => key[map[k]] = k /\ value[map[k]] \in Values

IInv ==
    /\ TypeOK
    /\ NodesFilled
    /\ \E s, c : Listed(List, map, s, c) /\ c <= Capacity

\* Because every mapped node carries its key, no node has two.
LEMMA FilledOneKey == NodesFilled => OneKey(map)
  BY DEF NodesFilled, OneKey

\* A map and a list that agree in this way are consistent.
LEMMA ListedConsistent ==
    ASSUME NodesFilled, NEW s, NEW c, Listed(List, map, s, c), c <= Capacity
    PROVE  Consistent
  <1>1. /\ Linked = {s[i] : i \in 1 .. c} /\ Count = c
        /\ List.next = next /\ List.prev = prev
    BY DEF Listed, Linked, LinkedIn, Count, CachedKeys, List
  <1>2. /\ c \in Nat /\ s[0] = HeaderNode /\ s[c + 1] = TailNode
        /\ \A i \in 0 .. c : next[s[i]] = s[i + 1] /\ prev[s[i + 1]] = s[i]
    BY <1>1 DEF Listed, Strung
  <1>3. ASSUME NEW n \in Linked \cup {HeaderNode}
        PROVE  next[n] \in Linked \cup {TailNode} /\ prev[next[n]] = n
    <2>1. PICK i \in 0 .. c : n = s[i]
      <3>1. 0 \in 0 .. c /\ \A i \in 1 .. c : i \in 0 .. c
        BY <1>2
      <3> QED
        BY <1>1, <1>2, <1>3, <3>1
    <2>2. i + 1 = c + 1 \/ i + 1 \in 1 .. c
      BY <1>2
    <2> QED
      BY <1>1, <1>2, <2>1, <2>2
  <1>4. ASSUME NEW n \in Linked \cup {TailNode}
        PROVE  prev[n] \in Linked \cup {HeaderNode} /\ next[prev[n]] = n
    <2>1. PICK i \in 0 .. c : n = s[i + 1]
      <3>1. c \in 0 .. c
        BY <1>2
      <3>2. CASE n = TailNode
        BY <1>2, <3>1, <3>2
      <3>3. CASE n \in Linked
        <4>1. PICK j \in 1 .. c : n = s[j]
          BY <1>1, <3>3
        <4>2. j - 1 \in 0 .. c /\ (j - 1) + 1 = j
          BY <1>2
        <4> QED
          BY <4>1, <4>2
      <3> QED
        BY <3>2, <3>3
    <2>2. i = 0 \/ i \in 1 .. c
      BY <1>2
    <2> QED
      BY <1>1, <1>2, <2>1, <2>2
  <1> QED
    BY <1>1, <1>3, <1>4 DEF Consistent, NodesFilled

\* The constructors leave an empty list and an empty map.
LEMMA InitIInv == Init => IInv
  <1> SUFFICES ASSUME Init PROVE IInv
    OBVIOUS
  <1>1. HeaderNode \in Objects /\ TailNode \in Objects /\ HeaderNode # TailNode
    BY LRUAssumption DEF Objects
  <1>2. TypeOK
    BY <1>1 DEF Init, TypeOK, Pointers
  <1>3. LinkedIn(map) = {} /\ CachedKeys(map) = {}
    BY DEF Init, LinkedIn, CachedKeys
  <1>4. /\ List.next[HeaderNode] = TailNode /\ List.prev[TailNode] = HeaderNode
        /\ List.next \in Pointers /\ List.prev \in Pointers
    BY <1>1, <1>2 DEF Init, List, TypeOK
  <1> DEFINE s == [i \in 0 .. 1 |-> IF i = 0 THEN HeaderNode ELSE TailNode]
  <1>5. /\ s \in [0 .. 0 + 1 -> Objects] /\ s[0] = HeaderNode /\ s[1] = TailNode
        /\ \A i, j \in 0 .. 0 + 1 : s[i] = s[j] => i = j
    BY <1>1
  <1> HIDE DEF s
  <1>6. /\ \A i \in 0 .. 0 : i = 0
        /\ \A i \in 1 .. 0 : FALSE
        /\ 0 + 1 = 1 /\ 0 \in Nat
    OBVIOUS
  <1>7. Strung(List, s, 0)
    BY <1>4, <1>5, <1>6 DEF Strung
  <1>8. IsFiniteSet({}) /\ Cardinality({}) = 0
    BY FS_EmptySet
  <1>9. {s[i] : i \in 1 .. 0} = {}
    BY <1>6
  <1>10. Listed(List, map, s, 0)
    BY <1>3, <1>7, <1>8, <1>9 DEF Listed
  <1>11. NodesFilled
    BY DEF Init, NodesFilled
  <1> QED
    BY <1>2, <1>10, <1>11, LRUAssumption DEF IInv

\* The node of a cached key has a place in the order.
LEMMA Place ==
    ASSUME NEW l, NEW m, NEW s, NEW c, Listed(l, m, s, c), NEW k \in Keys, m[k] # Null
    PROVE  \E p \in 1 .. c : m[k] = s[p]
  <1>1. m[k] \in LinkedIn(m)
    BY DEF LinkedIn
  <1> QED
    BY <1>1 DEF Listed

\* Get moves the node of its key to the front.
LEMMA GetHitStep ==
    ASSUME TypeOK, NodesFilled, NEW s, NEW c, Listed(List, map, s, c),
           NEW k \in Keys, GetHit(k)
    PROVE  \E p \in 1 .. c : /\ map[k] = s[p]
                             /\ Listed(List', map', Pushed(Cut(s, c, p), c - 1, s[p]), c)
  <1>1. /\ map[k] # Null /\ map' = map /\ map \in [Keys -> Nodes \cup {Null}]
        /\ SetList(AddHeader(RemoveNode(List, map[k]), map[k]))
    BY DEF GetHit, TypeOK
  <1>2. PICK p \in 1 .. c : map[k] = s[p]
    BY <1>1, Place
  <1>3. PICK m : m = [map EXCEPT ![k] = Null]
    OBVIOUS
  <1>4. PICK l : l = RemoveNode(List, s[p])
    OBVIOUS
  <1>5. Listed(l, m, Cut(s, c, p), c - 1)
    BY <1>1, <1>2, <1>3, <1>4, FilledOneKey, DroppedListed
  <1>6. /\ m \in [Keys -> Nodes \cup {Null}] /\ m[k] = Null /\ s[p] \in Nodes
        /\ [m EXCEPT ![k] = s[p]] = map
    BY <1>1, <1>2, <1>3
  <1>7. s[p] \notin LinkedIn(m)
    <2>1. ASSUME NEW j \in Keys PROVE m[j] = Null \/ m[j] # s[p]
      BY <1>1, <1>2, <1>3, FilledOneKey DEF OneKey
    <2> QED
      BY <1>6, <2>1 DEF LinkedIn
  <1>8. Listed(AddHeader(l, s[p]), map, Pushed(Cut(s, c, p), c - 1, s[p]), (c - 1) + 1)
    BY <1>5, <1>6, <1>7, PushedListed
  <1>9. (c - 1) + 1 = c
    BY DEF Listed, Strung
  <1>10. PICK a : a = AddHeader(l, s[p])
    OBVIOUS
  <1>11. a.next = List'.next /\ a.prev = List'.prev
    BY <1>1, <1>2, <1>4, <1>10 DEF SetList, List
  <1>12. PICK t : t = Pushed(Cut(s, c, p), c - 1, s[p])
    OBVIOUS
  <1>13. Listed(a, map, t, c)
    BY <1>8, <1>9, <1>10, <1>12
  <1>14. Listed(List', map', t, c)
    BY <1>1, <1>11, <1>13, StrungByPointers DEF Listed
  <1> QED
    BY <1>2, <1>12, <1>14

\* A fresh node is entered in front, after the operation left the list l and
\* the map m, with room in it.
LEMMA EnterStep ==
    ASSUME TypeOK, NodesFilled, NEW s, NEW c, NEW l, NEW m \in [Keys -> Nodes \cup {Null}],
           Listed(l, m, s, c), NEW k \in Keys, NEW v \in Values, NEW n \in Fresh,
           \A j \in Keys : m[j] = map[j] \/ m[j] = Null,
           m[k] = Null, NewNode(n, k, v), SetList(AddHeader(l, n)),
           map' = [m EXCEPT ![k] = n], result' = result
    PROVE  Listed(List', map', Pushed(s, c, n), c + 1) /\ TypeOK' /\ NodesFilled'
  <1>1. n \in Nodes /\ n # Null /\ n \notin LinkedIn(m)
    BY LRUAssumption DEF Fresh, LinkedIn
  <1>2. PICK a : a = AddHeader(l, n)
    OBVIOUS
  <1>3. PICK t : t = Pushed(s, c, n)
    OBVIOUS
  <1>4. Listed(a, map', t, c + 1)
    BY <1>1, <1>2, <1>3, PushedListed
  <1>5. next' = a.next /\ prev' = a.prev
    BY <1>2 DEF SetList
  <1>6. a.next = List'.next /\ a.prev = List'.prev
    BY <1>5 DEF List
  <1>7. Listed(List', map', t, c + 1)
    BY <1>4, <1>6, StrungByPointers DEF Listed
  <1>8. next' \in Pointers /\ prev' \in Pointers
    BY <1>4, <1>5 DEF Listed, Strung
  <1>9. /\ key \in [Nodes -> Keys \cup {Null}] /\ value \in [Nodes -> Values \cup {Null}]
        /\ key' = [key EXCEPT ![n] = k] /\ value' = [value EXCEPT ![n] = v]
    BY DEF TypeOK, NewNode
  <1>10. map' \in [Keys -> Nodes \cup {Null}] /\ \A j \in Keys : map'[j] = IF j = k THEN n ELSE m[j]
    BY <1>1
  <1>11. TypeOK'
    BY <1>1, <1>8, <1>9, <1>10 DEF TypeOK
  <1>12. NodesFilled'
    <2> SUFFICES ASSUME NEW j \in Keys, map'[j] # Null
                 PROVE  key'[map'[j]] = j /\ value'[map'[j]] \in Values
      BY DEF NodesFilled
    <2>1. CASE j = k
      BY <1>1, <1>9, <1>10, <2>1
    <2>2. CASE j # k
      <3>1. map'[j] = map[j] /\ map[j] # n /\ map[j] \in Nodes
        BY <1>1, <1>10, <2>2 DEF Fresh
      <3>2. key[map[j]] = j /\ value[map[j]] \in Values
        BY <3>1 DEF NodesFilled
      <3> QED
        BY <1>9, <3>1, <3>2
    <2> QED
      BY <2>1, <2>2
  <1> QED
    BY <1>3, <1>7, <1>11, <1>12

\* Put of a cached key replaces its node by one in front.
LEMMA PutUpdateStep ==
    ASSUME TypeOK, NodesFilled, NEW s, NEW c, Listed(List, map, s, c),
           NEW k \in Keys, NEW v \in Values, PutUpdate(k, v)
    PROVE  \E n \in Fresh, p \in 1 .. c :
              /\ map[k] = s[p] /\ map[k] # Null /\ NewNode(n, k, v) /\ result' = result
              /\ Listed(List', map', Pushed(Cut(s, c, p), c - 1, n), c) /\ TypeOK' /\ NodesFilled'
  <1>1. PICK n \in Fresh :
            /\ map[k] # Null
            /\ NewNode(n, k, v)
            /\ SetList(AddHeader(RemoveNode(List, map[k]), n))
            /\ map' = [map EXCEPT ![k] = n]
            /\ result' = result
    BY DEF PutUpdate
  <1>2. map \in [Keys -> Nodes \cup {Null}]
    BY DEF TypeOK
  <1>3. PICK p \in 1 .. c : map[k] = s[p]
    BY <1>1, Place
  <1>4. PICK m : m = [map EXCEPT ![k] = Null]
    OBVIOUS
  <1>5. PICK l : l = RemoveNode(List, s[p])
    OBVIOUS
  <1>6. Listed(l, m, Cut(s, c, p), c - 1)
    BY <1>2, <1>3, <1>4, <1>5, FilledOneKey, DroppedListed
  <1>7. /\ m \in [Keys -> Nodes \cup {Null}] /\ m[k] = Null
        /\ \A j \in Keys : m[j] = map[j] \/ m[j] = Null
        /\ map' = [m EXCEPT ![k] = n]
    BY <1>1, <1>2, <1>4
  <1>8. SetList(AddHeader(l, n))
    BY <1>1, <1>3, <1>5
  <1>9. PICK t, d : t = Cut(s, c, p) /\ d = c - 1
    OBVIOUS
  <1>10. Listed(List', map', Pushed(t, d, n), d + 1) /\ TypeOK' /\ NodesFilled'
    <2>1. Listed(l, m, t, d)
      BY <1>6, <1>9
    <2>2. NewNode(n, k, v) /\ result' = result
      BY <1>1
    <2> QED
      BY <1>7, <1>8, <2>1, <2>2, EnterStep
  <1>11. d + 1 = c
    BY <1>9 DEF Listed, Strung
  <1> QED
    BY <1>1, <1>3, <1>9, <1>10, <1>11

\* Put of a new key: the last node of a full cache, which its key leads back
\* to, makes room for the one in front.
LEMMA PutNewStep ==
    ASSUME TypeOK, NodesFilled, NEW s, NEW c, Listed(List, map, s, c), c <= Capacity,
           NEW k \in Keys, NEW v \in Values, PutNew(k, v)
    PROVE  \E n \in Fresh :
              /\ map[k] = Null /\ NewNode(n, k, v) /\ result' = result
              /\ c = Capacity => Listed(List', map', Pushed(Cut(s, c, c), c - 1, n), c)
              /\ c # Capacity => Listed(List', map', Pushed(s, c, n), c + 1)
              /\ TypeOK' /\ NodesFilled'
  <1> DEFINE last == GetLastNode(List)
  <1>1. PICK n \in Fresh :
            /\ map[k] = Null
            /\ NewNode(n, k, v)
            /\ IF Count = Capacity
               THEN /\ SetList(AddHeader(RemoveNode(List, last), n))
                    /\ map' = [map EXCEPT ![key[last]] = Null, ![k] = n]
               ELSE /\ SetList(AddHeader(List, n))
                    /\ map' = [map EXCEPT ![k] = n]
            /\ result' = result
    BY DEF PutNew
  <1>2. map \in [Keys -> Nodes \cup {Null}]
    BY DEF TypeOK
  <1>3. Count = c /\ c \in Nat /\ Capacity \in Nat \ {0}
    BY LRUAssumption DEF Listed, Strung, Count, CachedKeys
  <1>4. CASE c = Capacity
    <2>1. c \in 1 .. c /\ c \in 0 .. c
      BY <1>3, <1>4
    <2>2. last = s[c]
      BY <2>1 DEF Listed, Strung, GetLastNode, List
    <2> HIDE DEF last
    <2>3. PICK e \in Keys : map[e] = s[c] /\ map[e] # Null
      <3>1. s[c] \in LinkedIn(map)
        BY <2>1 DEF Listed
      <3> QED
        BY <3>1 DEF LinkedIn
    <2>4. key[last] = e /\ e # k
      BY <1>1, <2>2, <2>3 DEF NodesFilled
    <2>5. PICK m : m = [map EXCEPT ![e] = Null]
      OBVIOUS
    <2>6. PICK l : l = RemoveNode(List, s[c])
      OBVIOUS
    <2>7. Listed(l, m, Cut(s, c, c), c - 1)
      BY <1>2, <2>1, <2>3, <2>5, <2>6, FilledOneKey, DroppedListed
    <2>8. /\ SetList(AddHeader(l, n))
          /\ map' = [map EXCEPT ![e] = Null, ![k] = n]
      BY <1>1, <1>3, <1>4, <2>2, <2>4, <2>6
    <2>9. /\ m \in [Keys -> Nodes \cup {Null}] /\ m[k] = Null
          /\ \A j \in Keys : m[j] = map[j] \/ m[j] = Null
          /\ map' = [m EXCEPT ![k] = n]
      BY <1>1, <1>2, <2>5, <2>8
    <2>10. PICK t, d : t = Cut(s, c, c) /\ d = c - 1
      OBVIOUS
    <2>11. Listed(List', map', Pushed(t, d, n), d + 1) /\ TypeOK' /\ NodesFilled'
      <3>1. Listed(l, m, t, d)
        BY <2>7, <2>10
      <3>2. NewNode(n, k, v) /\ result' = result /\ SetList(AddHeader(l, n))
        BY <1>1, <2>8
      <3> QED
        BY <2>9, <3>1, <3>2, EnterStep
    <2>12. d + 1 = c
      BY <1>3, <2>10
    <2> QED
      BY <1>1, <1>4, <2>10, <2>11, <2>12
  <1>5. CASE c # Capacity
    <2>1. SetList(AddHeader(List, n)) /\ map' = [map EXCEPT ![k] = n]
      BY <1>1, <1>3, <1>5
    <2>2. PICK m : m = map
      OBVIOUS
    <2>3. PICK l : l = List
      OBVIOUS
    <2>4. /\ m \in [Keys -> Nodes \cup {Null}] /\ m[k] = Null /\ Listed(l, m, s, c)
          /\ \A j \in Keys : m[j] = map[j] \/ m[j] = Null
          /\ SetList(AddHeader(l, n)) /\ map' = [m EXCEPT ![k] = n]
      BY <1>1, <1>2, <2>1, <2>2, <2>3
    <2>5. Listed(List', map', Pushed(s, c, n), c + 1) /\ TypeOK' /\ NodesFilled'
      BY <1>1, <2>4, EnterStep
    <2> QED
      BY <1>1, <1>5, <2>5
  <1> QED
    BY <1>4, <1>5

\* Every Get and every Put preserves the inductive invariant.
LEMMA NextIInv == IInv /\ [Next]_vars => IInv'
  <1> SUFFICES ASSUME IInv, [Next]_vars PROVE IInv'
    OBVIOUS
  <1>1. PICK s, c : Listed(List, map, s, c) /\ c <= Capacity
    BY DEF IInv
  <1>2. TypeOK /\ NodesFilled /\ c \in Nat /\ Capacity \in Nat
    BY <1>1, LRUAssumption DEF IInv, Listed, Strung
  <1>3. ASSUME TypeOK', NodesFilled', NEW t, NEW d, Listed(List', map', t, d), d <= Capacity
        PROVE  IInv'
    BY <1>3 DEF IInv, Listed, Strung, LinkedIn, CachedKeys
  <1>4. ASSUME NEW k \in Keys, GetHit(k) PROVE IInv'
    <2>1. PICK p \in 1 .. c : Listed(List', map', Pushed(Cut(s, c, p), c - 1, s[p]), c)
      BY <1>1, <1>2, <1>4, GetHitStep
    <2>2. map[k] # Null /\ map' = map /\ key' = key /\ value' = value /\ result' = value[map[k]]
      BY <1>4 DEF GetHit
    <2>3. next' \in Pointers /\ prev' \in Pointers
      <3>1. List'.next \in Pointers /\ List'.prev \in Pointers
        BY <2>1 DEF Listed, Strung
      <3> QED
        BY <3>1 DEF List
    <2>4. TypeOK'
      BY <1>2, <2>2, <2>3 DEF TypeOK, NodesFilled
    <2>5. NodesFilled'
      BY <1>2, <2>2 DEF NodesFilled
    <2> QED
      BY <1>1, <1>3, <2>1, <2>4, <2>5
  <1>5. ASSUME next' = next, prev' = prev, key' = key, value' = value, map' = map,
               result' \in Values \cup {-1}
        PROVE  IInv'
    <2>1. TypeOK' /\ NodesFilled'
      BY <1>2, <1>5 DEF TypeOK, NodesFilled
    <2>2. List' = List /\ map' = map
      BY <1>5 DEF List
    <2>3. Listed(List', map', s, c)
      BY <1>1, <2>2
    <2> QED
      BY <1>1, <1>3, <2>1, <2>3
  <1>6. ASSUME NEW k \in Keys, GetMiss(k) PROVE IInv'
    BY <1>5, <1>6 DEF GetMiss
  <1>7. ASSUME NEW k \in Keys, NEW v \in Values, PutUpdate(k, v) PROVE IInv'
    <2>1. PICK n \in Fresh, p \in 1 .. c :
             /\ Listed(List', map', Pushed(Cut(s, c, p), c - 1, n), c)
             /\ TypeOK' /\ NodesFilled'
      BY <1>1, <1>2, <1>7, PutUpdateStep
    <2> QED
      BY <1>1, <1>3, <2>1
  <1>8. ASSUME NEW k \in Keys, NEW v \in Values, PutNew(k, v) PROVE IInv'
    <2>1. PICK n \in Fresh :
             /\ c = Capacity => Listed(List', map', Pushed(Cut(s, c, c), c - 1, n), c)
             /\ c # Capacity => Listed(List', map', Pushed(s, c, n), c + 1)
             /\ TypeOK' /\ NodesFilled'
      BY <1>1, <1>2, <1>8, PutNewStep
    <2>2. CASE c = Capacity
      BY <1>1, <1>3, <2>1, <2>2
    <2>3. CASE c # Capacity
      <3>1. c + 1 <= Capacity
        BY <1>1, <1>2, <2>3
      <3> QED
        BY <1>3, <2>1, <2>3, <3>1
    <2> QED
      BY <2>2, <2>3
  <1>9. CASE UNCHANGED vars
    BY <1>2, <1>5, <1>9 DEF vars, TypeOK
  <1> QED
    BY <1>4, <1>6, <1>7, <1>8, <1>9 DEF Next

\* The inductive invariant holds in every reachable state of the cache.
LEMMA AlwaysIInv == Spec => []IInv
  BY InitIInv, NextIInv, PTL DEF Spec

\* The pointers, the nodes and _map keep their types, and Get returns -1 or a
\* value that was put: never the Value of a node that was not filled in.
THEOREM TypeCorrect == Spec => []TypeOK
  <1>1. IInv => TypeOK
    BY DEF IInv
  <1> QED
    BY <1>1, AlwaysIInv, PTL

\* For every capacity and however many keys: Dictionary and DoubleLinkedList
\* hold the same nodes, the list is whole in both directions, and a full cache
\* always finds the entry to give up, so _map never exceeds _capacity.
THEOREM StructuresAgree == Spec => []Consistent
  <1>1. IInv => Consistent
    BY ListedConsistent DEF IInv
  <1> QED
    BY <1>1, AlwaysIInv, PTL

-----------------------------------------------------------------------------
(***************************************************************************)
(* The cache implements the policy.                                        *)
(***************************************************************************)
EntriesOf(s, c, ky, vl) == [j \in 1 .. c |-> [key |-> ky[s[j]], value |-> vl[s[j]]]]

\* The entries read off the list are those of the nodes it strings.
LEMMA EntriesListed ==
    ASSUME NEW s, NEW c, Listed(List, map, s, c)
    PROVE  Entries = EntriesOf(s, c, key, value) /\ Count = c
  <1>1. Count = c
    BY DEF Listed, Count, CachedKeys
  <1>2. Visited = Walked(HeaderNode, List.next)
    BY DEF Visited, Walked, List
  <1>3. \A j \in 1 .. c : Visited[j] = s[j]
    BY <1>2, WalkRead DEF Listed
  <1>4. \A j \in 1 .. c : Walk[j] = s[j]
    BY <1>1, <1>3 DEF Walk
  <1> QED
    BY <1>1, <1>4 DEF Entries, EntriesOf

\* The same after a step.
LEMMA EntriesListedPrime ==
    ASSUME NEW s, NEW c, Listed(List', map', s, c)
    PROVE  Entries' = EntriesOf(s, c, key', value')
  <1>1. Count' = c
    BY DEF Listed, Count, CachedKeys
  <1>2. Visited' = Walked(HeaderNode, List'.next)
    BY DEF Visited, Walked, List
  <1>3. \A j \in 1 .. c : Visited'[j] = s[j]
    BY <1>2, WalkRead DEF Listed
  <1>4. \A j \in 1 .. c : Walk'[j] = s[j]
    BY <1>1, <1>3 DEF Walk
  <1> QED
    BY <1>1, <1>4 DEF Entries, EntriesOf

\* A function on 1 .. c is a sequence of length c.
LEMMA FunctionSeq ==
    ASSUME NEW S, NEW c \in Nat, NEW E \in [1 .. c -> S]
    PROVE  E \in Seq(S) /\ Len(E) = c
  <1>1. E \in Seq(S)
    BY SeqDef
  <1> QED
    BY <1>1, LenProperties

EntryOf(n, ky, vl) == [key |-> ky[n], value |-> vl[n]]

\* The nodes of the list have the same keys and values in both.
SameEntries(s, c, ky, vl, ky2, vl2) ==
    \A i \in 1 .. c : ky2[s[i]] = ky[s[i]] /\ vl2[s[i]] = vl[s[i]]

\* An entry put in front, and the p-th taken out.
Ahead(e, E) == <<e>> \o E

But(E, p) == SubSeq(E, 1, p - 1) \o SubSeq(E, p + 1, Len(E))

\* A node in front of the list is an entry in front of the entries.
LEMMA EntriesPushed ==
    ASSUME NEW s, NEW c \in Nat, NEW n, NEW ky, NEW vl, NEW ky2, NEW vl2,
           SameEntries(s, c, ky, vl, ky2, vl2)
    PROVE  EntriesOf(Pushed(s, c, n), c + 1, ky2, vl2) =
               Ahead(EntryOf(n, ky2, vl2), EntriesOf(s, c, ky, vl))
  <1>1. PICK e : e = [key |-> ky2[n], value |-> vl2[n]]
    OBVIOUS
  <1>2. PICK E : E = EntriesOf(s, c, ky, vl)
    OBVIOUS
  <1>3. PICK t : t = Pushed(s, c, n)
    OBVIOUS
  <1>4. PICK D : D = EntriesOf(t, c + 1, ky2, vl2)
    OBVIOUS
  <1> DEFINE S == {D[i] : i \in 1 .. c + 1} \cup {E[i] : i \in 1 .. c} \cup {e}
  <1>5. E \in [1 .. c -> S] /\ D \in [1 .. c + 1 -> S] /\ e \in S
    BY <1>2, <1>4 DEF EntriesOf
  <1>6. /\ \A i \in 1 .. c : E[i] = [key |-> ky[s[i]], value |-> vl[s[i]]]
        /\ \A i \in 1 .. c + 1 : D[i] = [key |-> ky2[t[i]], value |-> vl2[t[i]]]
    BY <1>2, <1>4 DEF EntriesOf
  <1>7. t[1] = n /\ \A i \in 2 .. c + 1 : t[i] = s[i - 1] /\ i - 1 \in 1 .. c
    BY <1>3 DEF Pushed
  <1> HIDE DEF S
  <1>8. /\ E \in Seq(S) /\ Len(E) = c /\ D \in Seq(S) /\ Len(D) = c + 1
        /\ <<e>> \in Seq(S) /\ Len(<<e>>) = 1 /\ <<e>>[1] = e
    <2>1. c + 1 \in Nat
      OBVIOUS
    <2>2. E \in Seq(S) /\ Len(E) = c
      BY <1>5, FunctionSeq
    <2>3. D \in Seq(S) /\ Len(D) = c + 1
      BY <1>5, <2>1, FunctionSeq
    <2> QED
      BY <1>5, <2>2, <2>3
  <1>9. PICK F : F = <<e>> \o E
    OBVIOUS
  <1>10. /\ F \in Seq(S) /\ Len(F) = 1 + c
         /\ \A i \in 1 .. 1 + c : F[i] = IF i <= 1 THEN <<e>>[i] ELSE E[i - 1]
    BY <1>8, <1>9, ConcatProperties
  <1>11. ASSUME NEW i \in 1 .. Len(D) PROVE D[i] = F[i]
    <2>1. i \in 1 .. c + 1 /\ i \in 1 .. 1 + c
      BY <1>8, <1>11
    <2>2. CASE i = 1
      BY <1>1, <1>6, <1>7, <1>8, <1>10, <2>1, <2>2
    <2>3. CASE i # 1
      <3>1. i \in 2 .. c + 1 /\ ~(i <= 1)
        BY <2>1, <2>3
      <3>2. t[i] = s[i - 1] /\ i - 1 \in 1 .. c
        BY <1>7, <3>1
      <3>3. F[i] = E[i - 1]
        BY <1>10, <2>1, <3>1
      <3>4. D[i] = [key |-> ky2[s[i - 1]], value |-> vl2[s[i - 1]]]
        BY <1>6, <2>1, <3>2
      <3>5. E[i - 1] = [key |-> ky[s[i - 1]], value |-> vl[s[i - 1]]]
        BY <1>6, <3>2
      <3>6. ky2[s[i - 1]] = ky[s[i - 1]] /\ vl2[s[i - 1]] = vl[s[i - 1]]
        BY <3>2 DEF SameEntries
      <3> QED
        BY <3>3, <3>4, <3>5, <3>6
    <2> QED
      BY <2>2, <2>3
  <1>12. Len(D) = Len(F)
    BY <1>8, <1>10
  <1>13. D = F
    BY <1>8, <1>10, <1>11, <1>12, SeqEqual
  <1> QED
    BY <1>1, <1>2, <1>3, <1>4, <1>9, <1>13 DEF Ahead, EntryOf

\* A node out of the list is an entry out of the entries.
LEMMA EntriesCut ==
    ASSUME NEW s, NEW c \in Nat, NEW p \in 1 .. c, NEW ky, NEW vl, NEW E,
           E = EntriesOf(s, c, ky, vl)
    PROVE  EntriesOf(Cut(s, c, p), c - 1, ky, vl) = But(E, p)
  <1>1. PICK t : t = Cut(s, c, p)
    OBVIOUS
  <1>2. PICK D : D = EntriesOf(t, c - 1, ky, vl)
    OBVIOUS
  <1> DEFINE S == {D[i] : i \in 1 .. c - 1} \cup {E[i] : i \in 1 .. c}
  <1>3. E \in [1 .. c -> S] /\ D \in [1 .. c - 1 -> S]
    BY <1>2 DEF EntriesOf
  <1>4. /\ \A i \in 1 .. c : E[i] = [key |-> ky[s[i]], value |-> vl[s[i]]]
        /\ \A i \in 1 .. c - 1 : D[i] = [key |-> ky[t[i]], value |-> vl[t[i]]]
    BY <1>2 DEF EntriesOf
  <1>5. \A i \in 1 .. c - 1 : /\ t[i] = IF i < p THEN s[i] ELSE s[i + 1]
                              /\ i \in 1 .. c /\ i + 1 \in 1 .. c
    BY <1>1 DEF Cut
  <1> HIDE DEF S
  <1>6. c - 1 \in Nat /\ p \in Int /\ p >= 1 /\ p <= c
    OBVIOUS
  <1>7. E \in Seq(S) /\ Len(E) = c /\ D \in Seq(S) /\ Len(D) = c - 1
    BY <1>3, <1>6, FunctionSeq
  <1>8. PICK A : A = SubSeq(E, 1, p - 1)
    OBVIOUS
  <1>9. PICK B : B = SubSeq(E, p + 1, c)
    OBVIOUS
  <1>10. /\ A \in Seq(S) /\ Len(A) = p - 1
         /\ \A i \in 1 .. p - 1 : A[i] = E[i]
    <2>1. \A i \in 1 .. p - 1 : E[i] \in S /\ (1 + i) - 1 = i
      BY <1>3, <1>6
    <2>2. 1 \in Int /\ p - 1 \in Int /\ (p - 1) - 1 + 1 = p - 1
      BY <1>6
    <2>3. /\ A \in Seq(S) /\ Len(A) = IF 1 <= p - 1 THEN (p - 1) - 1 + 1 ELSE 0
          /\ \A i \in 1 .. (p - 1) - 1 + 1 : A[i] = E[1 + i - 1]
      BY <1>8, <2>1, <2>2, SubSeqProperties
    <2>4. Len(A) = p - 1
      BY <1>6, <2>2, <2>3
    <2> QED
      BY <2>1, <2>2, <2>3, <2>4
  <1>11. /\ B \in Seq(S) /\ Len(B) = c - p
         /\ \A i \in 1 .. c - p : B[i] = E[p + i]
    <2>1. \A i \in p + 1 .. c : E[i] \in S
      BY <1>3, <1>6
    <2>2. p + 1 \in Int /\ c \in Int /\ c - (p + 1) + 1 = c - p
      BY <1>6
    <2>3. /\ B \in Seq(S) /\ Len(B) = IF p + 1 <= c THEN c - (p + 1) + 1 ELSE 0
          /\ \A i \in 1 .. c - (p + 1) + 1 : B[i] = E[(p + 1) + i - 1]
      BY <1>9, <2>1, <2>2, SubSeqProperties
    <2>4. Len(B) = c - p
      BY <1>6, <2>2, <2>3
    <2>5. \A i \in 1 .. c - p : (p + 1) + i - 1 = p + i
      BY <1>6
    <2> QED
      BY <2>2, <2>3, <2>4, <2>5
  <1>12. PICK F : F = A \o B
    OBVIOUS
  <1>13. /\ F \in Seq(S) /\ Len(F) = c - 1
         /\ \A i \in 1 .. c - 1 : F[i] = IF i <= p - 1 THEN A[i] ELSE B[i - (p - 1)]
    <2>1. (p - 1) + (c - p) = c - 1
      BY <1>6
    <2> QED
      BY <1>10, <1>11, <1>12, <2>1, ConcatProperties
  <1>14. ASSUME NEW i \in 1 .. Len(D) PROVE D[i] = F[i]
    <2>1. i \in 1 .. c - 1 /\ i \in Int
      BY <1>6, <1>7, <1>14
    <2>2. CASE i < p
      <3>1. i <= p - 1 /\ i \in 1 .. p - 1
        BY <1>6, <2>1, <2>2
      <3>2. F[i] = E[i]
        BY <1>10, <1>13, <2>1, <3>1
      <3> QED
        BY <1>4, <1>5, <2>1, <2>2, <3>2
    <2>3. CASE ~(i < p)
      <3>1. ~(i <= p - 1) /\ i - (p - 1) \in 1 .. c - p /\ p + (i - (p - 1)) = i + 1
        BY <1>6, <2>1, <2>3
      <3>2. F[i] = B[i - (p - 1)]
        BY <1>13, <2>1, <3>1
      <3>3. B[i - (p - 1)] = E[i + 1]
        BY <1>11, <3>1
      <3> QED
        BY <1>4, <1>5, <2>1, <2>3, <3>2, <3>3
    <2> QED
      BY <2>2, <2>3
  <1>15. Len(D) = Len(F)
    BY <1>7, <1>13
  <1>16. D = F
    BY <1>7, <1>13, <1>14, <1>15, SeqEqual
  <1> QED
    BY <1>1, <1>2, <1>7, <1>8, <1>9, <1>12, <1>16 DEF But

\* The entries of a cache: what the policy looks at.
LEMMA EntriesFacts ==
    ASSUME TypeOK, NodesFilled, NEW s, NEW c, Listed(List, map, s, c), NEW E, E = Entries
    PROVE  /\ c \in Nat /\ E = EntriesOf(s, c, key, value) /\ Len(E) = c
           /\ \A i \in 1 .. c : E[i].key = key[s[i]] /\ E[i].value = value[s[i]]
           /\ \A k \in Keys : (\E i \in 1 .. c : E[i].key = k) <=> map[k] # Null
           /\ \A k \in Keys, p \in 1 .. c : map[k] = s[p] => E[p].key = k
  <1>1. c \in Nat /\ E = EntriesOf(s, c, key, value)
    BY EntriesListed DEF Listed, Strung
  <1>2. \A i \in 1 .. c : E[i] = [key |-> key[s[i]], value |-> value[s[i]]]
    BY <1>1 DEF EntriesOf
  <1>3. Len(E) = c
    <2> DEFINE S == {E[i] : i \in 1 .. c}
    <2>1. E \in [1 .. c -> S]
      BY <1>1 DEF EntriesOf
    <2> HIDE DEF S
    <2> QED
      BY <1>1, <2>1, FunctionSeq
  <1>4. \A i \in 1 .. c : E[i].key = key[s[i]] /\ E[i].value = value[s[i]]
    <2> SUFFICES ASSUME NEW i \in 1 .. c PROVE E[i].key = key[s[i]] /\ E[i].value = value[s[i]]
      OBVIOUS
    <2>1. E[i] = [key |-> key[s[i]], value |-> value[s[i]]]
      BY <1>2
    <2> QED
      BY <2>1
  <1>5. ASSUME NEW k \in Keys, NEW p \in 1 .. c, map[k] = s[p] PROVE E[p].key = k /\ map[k] # Null
    <2>1. s[p] # Null
      BY LRUAssumption DEF Listed, Strung
    <2> QED
      BY <1>4, <1>5, <2>1 DEF NodesFilled
  <1>6. ASSUME NEW k \in Keys, NEW i \in 1 .. c, E[i].key = k PROVE map[k] # Null
    <2>1. s[i] \in LinkedIn(map)
      BY DEF Listed
    <2>2. PICK j \in Keys : map[j] = s[i] /\ map[j] # Null
      BY <2>1 DEF LinkedIn
    <2> QED
      BY <1>5, <1>6, <2>2
  <1>7. ASSUME NEW k \in Keys, map[k] # Null PROVE \E i \in 1 .. c : E[i].key = k
    <2>1. PICK p \in 1 .. c : map[k] = s[p]
      BY <1>7, Place
    <2> QED
      BY <1>5, <2>1
  <1> QED
    BY <1>1, <1>3, <1>4, <1>5, <1>6, <1>7

\* A hit of Get is a hit of the policy.
LEMMA HitImplements ==
    ASSUME TypeOK, NodesFilled, NEW s, NEW c, Listed(List, map, s, c), NEW k \in Keys, GetHit(k)
    PROVE  Policy!Hit(k)
  <1>1. PICK E : E = Entries
    OBVIOUS
  <1>2. /\ c \in Nat /\ E = EntriesOf(s, c, key, value) /\ Len(E) = c
        /\ \A i \in 1 .. c : E[i].key = key[s[i]] /\ E[i].value = value[s[i]]
        /\ \A j \in Keys, p \in 1 .. c : map[j] = s[p] => E[p].key = j
    BY <1>1, EntriesFacts
  <1>3. PICK p \in 1 .. c : /\ map[k] = s[p]
                            /\ Listed(List', map', Pushed(Cut(s, c, p), c - 1, s[p]), c)
    BY GetHitStep
  <1>4. key' = key /\ value' = value /\ result' = value[s[p]]
    BY <1>3 DEF GetHit
  <1>5. PICK t, d : t = Cut(s, c, p) /\ d = c - 1
    OBVIOUS
  <1>6. d \in Nat /\ d + 1 = c
    BY <1>2, <1>5
  <1>7. Entries' = EntriesOf(Pushed(t, d, s[p]), d + 1, key, value)
    BY <1>3, <1>4, <1>5, <1>6, EntriesListedPrime
  <1>8. E[p] = EntryOf(s[p], key, value)
    BY <1>2 DEF EntriesOf, EntryOf
  <1>9. Entries' = Ahead(E[p], EntriesOf(t, d, key, value))
    <2>1. SameEntries(t, d, key, value, key, value)
      BY DEF SameEntries
    <2> QED
      BY <1>6, <1>7, <1>8, <2>1, EntriesPushed
  <1>10. EntriesOf(t, d, key, value) = But(E, p)
    BY <1>2, <1>5, EntriesCut
  <1>11. Entries' = Ahead(E[p], But(E, p))
    BY <1>9, <1>10
  <1>12. p \in 1 .. Len(E) /\ E[p].key = k /\ result' = E[p].value
    BY <1>2, <1>3, <1>4
  <1> QED
    BY <1>1, <1>11, <1>12 DEF Policy!Hit, Policy!Without, Ahead, But

\* A miss of Get is a miss of the policy.
LEMMA MissImplements ==
    ASSUME TypeOK, NodesFilled, NEW s, NEW c, Listed(List, map, s, c), NEW k \in Keys, GetMiss(k)
    PROVE  Policy!Miss(k)
  <1>1. PICK E : E = Entries
    OBVIOUS
  <1>2. Len(E) = c /\ ~\E i \in 1 .. c : E[i].key = k
    BY <1>1, EntriesFacts DEF GetMiss
  <1>3. ~Policy!Cached(k)
    BY <1>1, <1>2 DEF Policy!Cached
  <1>4. result' = -1 /\ next' = next /\ key' = key /\ value' = value /\ map' = map
    BY DEF GetMiss
  <1>5. Entries' = Entries
    BY <1>4 DEF Entries, Walk, Visited, Count
  <1> QED
    BY <1>3, <1>4, <1>5 DEF Policy!Miss

\* The entries of the other nodes stay when a fresh node is filled in.
LEMMA NewNodeFacts ==
    ASSUME TypeOK, NEW s, NEW c, Listed(List, map, s, c),
           NEW k \in Keys, NEW v \in Values, NEW n \in Fresh, NewNode(n, k, v)
    PROVE  /\ key'[n] = k /\ value'[n] = v
           /\ \A i \in 1 .. c : key'[s[i]] = key[s[i]] /\ value'[s[i]] = value[s[i]]
  <1>1. n \in Nodes /\ key \in [Nodes -> Keys \cup {Null}] /\ value \in [Nodes -> Values \cup {Null}]
    BY DEF Fresh, TypeOK
  <1>2. \A i \in 1 .. c : s[i] # n /\ s[i] \in Nodes
    <2>1. \A i \in 1 .. c : s[i] \in LinkedIn(map) /\ s[i] \in Nodes
      BY DEF Listed, Strung
    <2>2. n \notin LinkedIn(map)
      BY DEF Fresh, LinkedIn
    <2> QED
      BY <2>1, <2>2
  <1> QED
    BY <1>1, <1>2 DEF NewNode

\* Put of a cached key is an update of the policy.
LEMMA UpdateImplements ==
    ASSUME TypeOK, NodesFilled, NEW s, NEW c, Listed(List, map, s, c),
           NEW k \in Keys, NEW v \in Values, PutUpdate(k, v)
    PROVE  Policy!Update(k, v)
  <1>1. PICK E : E = Entries
    OBVIOUS
  <1>2. /\ c \in Nat /\ E = EntriesOf(s, c, key, value) /\ Len(E) = c
        /\ \A j \in Keys, p \in 1 .. c : map[j] = s[p] => E[p].key = j
    BY <1>1, EntriesFacts
  <1>3. PICK n \in Fresh, p \in 1 .. c :
            /\ map[k] = s[p] /\ map[k] # Null /\ NewNode(n, k, v) /\ result' = result
            /\ Listed(List', map', Pushed(Cut(s, c, p), c - 1, n), c)
    BY PutUpdateStep
  <1>4. /\ key'[n] = k /\ value'[n] = v
        /\ \A i \in 1 .. c : key'[s[i]] = key[s[i]] /\ value'[s[i]] = value[s[i]]
    BY <1>3, NewNodeFacts
  <1>5. PICK t, d : t = Cut(s, c, p) /\ d = c - 1
    OBVIOUS
  <1>6. d \in Nat /\ d + 1 = c
    BY <1>2, <1>5
  <1>7. \A i \in 1 .. d : key'[t[i]] = key[t[i]] /\ value'[t[i]] = value[t[i]]
    <2>1. \A i \in 1 .. d : i \in 1 .. c /\ i + 1 \in 1 .. c /\ i \in 0 .. c
      BY <1>6
    <2>2. \A i \in 1 .. d : t[i] = s[i] \/ t[i] = s[i + 1]
      BY <1>5, <2>1 DEF Cut
    <2> QED
      BY <1>4, <2>1, <2>2
  <1>8. Entries' = EntriesOf(Pushed(t, d, n), d + 1, key', value')
    BY <1>3, <1>5, <1>6, EntriesListedPrime
  <1>9. Entries' = Ahead([key |-> k, value |-> v], EntriesOf(t, d, key, value))
    <2>1. SameEntries(t, d, key, value, key', value')
      BY <1>7 DEF SameEntries
    <2>2. Entries' = Ahead(EntryOf(n, key', value'), EntriesOf(t, d, key, value))
      BY <1>6, <1>8, <2>1, EntriesPushed
    <2>3. EntryOf(n, key', value') = [key |-> k, value |-> v]
      BY <1>4 DEF EntryOf
    <2> QED
      BY <2>2, <2>3
  <1>10. EntriesOf(t, d, key, value) = But(E, p)
    BY <1>2, <1>5, EntriesCut
  <1>11. p \in 1 .. Len(E) /\ E[p].key = k
    BY <1>2, <1>3
  <1> QED
    BY <1>1, <1>3, <1>9, <1>10, <1>11 DEF Policy!Update, Policy!Without, Ahead, But

\* Put of a new key adds an entry, and in a full cache drops the one that was
\* used least recently.
LEMMA AddImplements ==
    ASSUME TypeOK, NodesFilled, NEW s, NEW c, Listed(List, map, s, c), c <= Capacity,
           NEW k \in Keys, NEW v \in Values, PutNew(k, v)
    PROVE  Policy!Add(k, v)
  <1>1. PICK E : E = Entries
    OBVIOUS
  <1>2. PICK n \in Fresh :
            /\ map[k] = Null /\ NewNode(n, k, v) /\ result' = result
            /\ c = Capacity => Listed(List', map', Pushed(Cut(s, c, c), c - 1, n), c)
            /\ c # Capacity => Listed(List', map', Pushed(s, c, n), c + 1)
    BY PutNewStep
  <1>3. /\ c \in Nat /\ E = EntriesOf(s, c, key, value) /\ Len(E) = c
        /\ ~\E i \in 1 .. c : E[i].key = k
    BY <1>1, <1>2, EntriesFacts
  <1>4. ~Policy!Cached(k)
    BY <1>1, <1>3 DEF Policy!Cached
  <1>5. /\ key'[n] = k /\ value'[n] = v
        /\ \A i \in 1 .. c : key'[s[i]] = key[s[i]] /\ value'[s[i]] = value[s[i]]
    BY <1>2, NewNodeFacts
  <1>6. PICK e : e = [key |-> k, value |-> v] /\ e = EntryOf(n, key', value')
    BY <1>5 DEF EntryOf
  <1>7. CASE c # Capacity
    <2>1. Entries' = EntriesOf(Pushed(s, c, n), c + 1, key', value')
      BY <1>2, <1>7, EntriesListedPrime
    <2>2. Entries' = Ahead(e, E)
      <3>1. SameEntries(s, c, key, value, key', value')
        BY <1>5 DEF SameEntries
      <3> QED
        BY <1>3, <1>6, <2>1, <3>1, EntriesPushed
    <2> QED
      BY <1>1, <1>2, <1>3, <1>4, <1>6, <1>7, <2>2 DEF Policy!Add, Ahead
  <1>8. CASE c = Capacity
    <2>1. c \in 1 .. c
      BY <1>3, <1>8, LRUAssumption
    <2>2. PICK t, d : t = Cut(s, c, c) /\ d = c - 1
      OBVIOUS
    <2>3. d \in Nat /\ d + 1 = c
      BY <1>3, <2>1, <2>2
    <2>4. \A i \in 1 .. d : key'[t[i]] = key[t[i]] /\ value'[t[i]] = value[t[i]]
      <3>1. \A i \in 1 .. d : i \in 1 .. c /\ i + 1 \in 1 .. c /\ i \in 0 .. c
        BY <2>3
      <3>2. \A i \in 1 .. d : t[i] = s[i] \/ t[i] = s[i + 1]
        BY <2>2, <3>1 DEF Cut
      <3> QED
        BY <1>5, <3>1, <3>2
    <2>5. Entries' = EntriesOf(Pushed(t, d, n), d + 1, key', value')
      BY <1>2, <1>8, <2>2, <2>3, EntriesListedPrime
    <2>6. Entries' = Ahead(e, EntriesOf(t, d, key, value))
      <3>1. SameEntries(t, d, key, value, key', value')
        BY <2>4 DEF SameEntries
      <3> QED
        BY <1>6, <2>3, <2>5, <3>1, EntriesPushed
    <2>7. EntriesOf(t, d, key, value) = But(E, c)
      BY <1>3, <2>1, <2>2, EntriesCut
    <2>8. Len(E) = Capacity /\ c = Capacity
      BY <1>3, <1>8
    <2> QED
      BY <1>1, <1>2, <1>4, <1>6, <2>6, <2>7, <2>8 DEF Policy!Add, Policy!Without, Ahead, But
  <1> QED
    BY <1>7, <1>8

\* Every Get and every Put of the pointer structure is a step of the
\* least-recently-used policy on the entries read off the list: what is given up
\* is what was used least recently, and a Get returns the Value last put.
THEOREM CacheImplementsPolicy == Spec => PolicySpec
  <1>1. Init => Policy!Init
    <2> SUFFICES ASSUME Init PROVE Policy!Init
      OBVIOUS
    <2>1. {k \in Keys : map[k] # Null} = {} /\ result = -1
      BY DEF Init
    <2>2. Count = 0
      BY <2>1, FS_EmptySet DEF Count
    <2>3. Entries = <<>>
      BY <2>2 DEF Entries
    <2> QED
      BY <2>1, <2>3 DEF Policy!Init
  <1>2. IInv /\ [Next]_vars => [Policy!Next]_<<Entries, result>>
    <2> SUFFICES ASSUME IInv, [Next]_vars PROVE [Policy!Next]_<<Entries, result>>
      OBVIOUS
    <2>1. PICK s, c : Listed(List, map, s, c) /\ c <= Capacity
      BY DEF IInv
    <2>2. TypeOK /\ NodesFilled
      BY DEF IInv
    <2>3. ASSUME NEW k \in Keys, GetHit(k) PROVE Policy!Next
      BY <2>1, <2>2, <2>3, HitImplements DEF Policy!Next
    <2>4. ASSUME NEW k \in Keys, GetMiss(k) PROVE Policy!Next
      BY <2>1, <2>2, <2>4, MissImplements DEF Policy!Next
    <2>5. ASSUME NEW k \in Keys, NEW v \in Values, PutUpdate(k, v) PROVE Policy!Next
      BY <2>1, <2>2, <2>5, UpdateImplements DEF Policy!Next
    <2>6. ASSUME NEW k \in Keys, NEW v \in Values, PutNew(k, v) PROVE Policy!Next
      BY <2>1, <2>2, <2>6, AddImplements DEF Policy!Next
    <2>7. CASE UNCHANGED vars
      BY <2>7 DEF vars, Entries, Walk, Visited, Count
    <2> QED
      BY <2>3, <2>4, <2>5, <2>6, <2>7 DEF Next
  <1> QED
    BY <1>1, <1>2, AlwaysIInv, PTL DEF Spec, PolicySpec, Policy!Spec
=============================================================================
