---------------------------- MODULE StoreProofs ----------------------------
(***************************************************************************)
(* Proofs about the producer/consumer store, for any threads, capacity and *)
(* batch size.                                                             *)
(***************************************************************************)
EXTENDS Store, FiniteSetTheorems, TLAPS

\* A pulsed thread was waiting, and only waiting threads are pulsed.
LEMMA PulseFacts ==
    \A ts \in Pulse : ts \subseteq Waiting
  BY DEF Pulse

\* The thread states change as MoveOn says.
LEMMA MoveOnFacts ==
    ASSUME NEW t, NEW p, NEW ts, MoveOn(t, p, ts)
    PROVE  \A u \in Threads : pc'[u] = IF u = t THEN p
                                       ELSE IF u \in ts THEN "woken" ELSE pc[u]
  BY DEF MoveOn

\* Main starts every thread with an empty store, in a state of the right type.
LEMMA InitTypeOK == Init => TypeOK
  <1> SUFFICES ASSUME Init PROVE TypeOK
    OBVIOUS
  <1> QED
    BY StoreAssumption DEF Init, TypeOK, Threads

\* A step that only moves one thread on keeps the types.
LEMMA MoveOnTypeOK ==
    ASSUME TypeOK, NEW t \in Threads, NEW p \in {"running", "waiting", "expired", "done"},
           MoveOn(t, p, {}), UNCHANGED <<productQueue, made, purchased, sold>>,
           t \in Factories => pc[t] # "done" /\ p \in {"running", "waiting"}
    PROVE  TypeOK'
  BY DEF TypeOK, MoveOn, Threads

\* Every step of a factory or of a customer keeps the types.
LEMMA NextTypeOK == TypeOK /\ [Next]_vars => TypeOK'
  <1> SUFFICES ASSUME TypeOK, [Next]_vars PROVE TypeOK'
    OBVIOUS
  <1>1. ASSUME NEW f \in Factories, PurchaseWait(f) PROVE TypeOK'
    BY <1>1, MoveOnTypeOK DEF PurchaseWait, Threads, Enters
  <1>2. ASSUME NEW f \in Factories, PurchaseProduct(f) PROVE TypeOK'
    <2>1. f \in Threads /\ f \notin Customers /\ made[f] \in 0 .. Batch - 1
      BY <1>2, StoreAssumption DEF PurchaseProduct, CreatesMore, TypeOK, Threads
    <2>2. <<f, made[f]>> \in Product
      BY <2>1 DEF Product
    <2>3. PICK ts \in Pulse :
              MoveOn(f, IF CreatesMore(made[f] + 1) THEN "running" ELSE "done", ts)
      BY <1>2 DEF PurchaseProduct
    <2>4. made' = [made EXCEPT ![f] = made[f] + 1] /\ made' \in [Factories -> 0 .. Batch]
      BY <1>2, <2>1, StoreAssumption DEF PurchaseProduct, TypeOK
    <2>5. pc' \in [Threads -> {"running", "waiting", "woken", "expired", "done"}]
      BY <2>3 DEF MoveOn, TypeOK
    <2>6. ASSUME NEW g \in Factories
          PROVE  pc'[g] # "expired" /\ (pc'[g] = "done" <=> made'[g] = Batch)
      <3>1. g \in Threads
        BY DEF Threads
      <3>2. CASE g = f
        <4>1. pc'[g] = IF made[f] + 1 < Batch THEN "running" ELSE "done"
          BY <3>1, <3>2, <2>3, MoveOnFacts DEF CreatesMore
        <4>2. made'[g] = made[f] + 1 /\ made[f] \in 0 .. Batch - 1
          BY <3>2, <2>1, <2>4 DEF TypeOK
        <4> QED
          BY <4>1, <4>2, StoreAssumption
      <3>3. CASE g # f
        BY <3>1, <3>3, <2>3, <2>4, MoveOnFacts, PulseFacts DEF TypeOK, Waiting
      <3> QED
        BY <3>2, <3>3
    <2>7. productQueue' \in Seq(Product) /\ purchased' \in Seq(Product) /\ sold' \in Seq(Product)
      BY <1>2, <2>2 DEF PurchaseProduct, TypeOK
    <2> QED
      BY <2>4, <2>5, <2>6, <2>7 DEF TypeOK
  <1>3. ASSUME NEW c \in Customers, SellWait(c) PROVE TypeOK'
    BY <1>3, MoveOnTypeOK, StoreAssumption DEF SellWait, Threads, Enters
  <1>4. ASSUME NEW c \in Customers, Sell(c) PROVE TypeOK'
    <2>1. c \in Threads /\ c \notin Factories
      BY StoreAssumption DEF Threads
    <2>2. MoveOn(c, "running", Waiting)
      BY <1>4 DEF Sell, PulseAll
    <2>3. pc' \in [Threads -> {"running", "waiting", "woken", "expired", "done"}]
      BY <2>2 DEF MoveOn, TypeOK
    <2>4. ASSUME NEW g \in Factories
          PROVE  pc'[g] # "expired" /\ (pc'[g] = "done" <=> made'[g] = Batch)
      <3>1. g \in Threads /\ g # c
        BY <2>1 DEF Threads
      <3> QED
        BY <3>1, <1>4, <2>2, MoveOnFacts DEF TypeOK, Waiting, Sell
    <2>5. productQueue' \in Seq(Product) /\ purchased' \in Seq(Product) /\ sold' \in Seq(Product)
      BY <1>4 DEF Sell, TypeOK
    <2> QED
      BY <1>4, <2>3, <2>4, <2>5 DEF TypeOK, Sell
  <1>5. ASSUME NEW c \in Customers, WaitTimeout(c) PROVE TypeOK'
    BY <1>5, MoveOnTypeOK, StoreAssumption DEF WaitTimeout, Threads
  <1>6. ASSUME NEW c \in Customers, SellNull(c) PROVE TypeOK'
    BY <1>6, MoveOnTypeOK, StoreAssumption DEF SellNull, Threads
  <1>7. CASE UNCHANGED vars
    BY <1>7 DEF vars, TypeOK
  <1> QED
    BY <1>1, <1>2, <1>3, <1>4, <1>5, <1>6, <1>7 DEF Next, FactoryStep, CustomerStep

\* The variables of the store keep their types: in particular no factory
\* produces more than its batch, or waits with a timeout.
THEOREM TypeCorrect == Spec => []TypeOK
  BY InitTypeOK, NextTypeOK, PTL DEF Spec

-----------------------------------------------------------------------------
\* PurchaseProduct and Sell are the Put and the Get of a bounded buffer, and
\* no other step touches the queue.
LEMMA StepsOfBuffer == TypeOK /\ [Next]_vars => [Buffer!Next]_<<productQueue, purchased, sold>>
  <1> SUFFICES ASSUME TypeOK, [Next]_vars
               PROVE  Buffer!Next \/ UNCHANGED <<productQueue, purchased, sold>>
    OBVIOUS
  <1>1. ASSUME NEW f \in Factories, PurchaseProduct(f) PROVE Buffer!Next
    <2>1. <<f, made[f]>> \in Product
      BY <1>1, StoreAssumption DEF PurchaseProduct, CreatesMore, TypeOK, Product
    <2>2. Len(productQueue) < MaxInStock
      BY <1>1, StoreAssumption DEF PurchaseProduct, Full, TypeOK
    <2>3. Buffer!Put(<<f, made[f]>>)
      BY <1>1, <2>2 DEF PurchaseProduct, Buffer!Put
    <2> QED
      BY <2>1, <2>3 DEF Buffer!Next
  <1>2. ASSUME NEW c \in Customers, Sell(c) PROVE Buffer!Next
    BY <1>2 DEF Sell, Buffer!Next, Buffer!Get
  <1> QED
    BY <1>1, <1>2 DEF Next, FactoryStep, CustomerStep, PurchaseWait, SellWait,
                      SellNull, WaitTimeout, vars

\* The store, with all its threads and its one monitor, implements
\* BoundedBuffer.
THEOREM StoreImplementsBuffer == Spec => BufferSpec
  <1>1. Init => Buffer!Init
    BY DEF Init, Buffer!Init
  <1> QED
    BY <1>1, StepsOfBuffer, TypeCorrect, PTL DEF Spec, BufferSpec, Buffer!Spec

\* Taking the head off the second of two sequences and appending it to the
\* first leaves their concatenation alone.
LEMMA ShiftHead ==
    ASSUME NEW S, NEW s \in Seq(S), NEW t \in Seq(S), t # <<>>
    PROVE  Append(s, Head(t)) \o Tail(t) = s \o t
  BY SMTT(30)

\* Appending to the second of two sequences appends to their concatenation.
LEMMA AppendRight ==
    ASSUME NEW S, NEW s \in Seq(S), NEW t \in Seq(S), NEW x \in S
    PROVE  s \o Append(t, x) = Append(s \o t, x)
  BY SMTT(30)

\* Buffer!FirstInFirstOut and Buffer!WithinCapacity are kept by the steps of
\* the buffer, so by the steps of everything that implements it.
LEMMA BufferStepKeeps ==
    ASSUME TypeOK, Buffer!FirstInFirstOut, Buffer!WithinCapacity,
           [Buffer!Next]_<<productQueue, purchased, sold>>
    PROVE  Buffer!FirstInFirstOut' /\ Buffer!WithinCapacity'
  <1> USE StoreAssumption DEF TypeOK, Buffer!FirstInFirstOut, Buffer!WithinCapacity
  <1>1. ASSUME NEW x \in Product, Buffer!Put(x)
        PROVE  sold' \o productQueue' = purchased' /\ Len(productQueue') <= MaxInStock
    <2>1. sold' \o productQueue' = purchased'
      BY <1>1, AppendRight DEF Buffer!Put
    <2>2. Len(productQueue') <= MaxInStock
      BY <1>1 DEF Buffer!Put
    <2> QED
      BY <2>1, <2>2
  <1>2. ASSUME Buffer!Get
        PROVE  sold' \o productQueue' = purchased' /\ Len(productQueue') <= MaxInStock
    <2>1. sold' \o productQueue' = purchased'
      BY <1>2, ShiftHead DEF Buffer!Get
    <2>2. Len(productQueue') <= MaxInStock
      BY <1>2 DEF Buffer!Get
    <2> QED
      BY <2>1, <2>2
  <1>3. CASE UNCHANGED <<productQueue, purchased, sold>>
    BY <1>3
  <1> QED
    BY <1>1, <1>2, <1>3 DEF Buffer!Next

\* What the factories put into the store comes out once and in order, nothing
\* is lost, and there are never more than _maxInStock products in stock.
THEOREM StoreFirstInFirstOut == Spec => [](Buffer!FirstInFirstOut /\ Buffer!WithinCapacity)
  <1>1. Init => Buffer!FirstInFirstOut /\ Buffer!WithinCapacity
    BY StoreAssumption DEF Init, Buffer!FirstInFirstOut, Buffer!WithinCapacity
  <1>2. TypeOK /\ (Buffer!FirstInFirstOut /\ Buffer!WithinCapacity) /\ [Next]_vars
            => (Buffer!FirstInFirstOut /\ Buffer!WithinCapacity)'
    BY StepsOfBuffer, BufferStepKeeps
  <1> QED
    BY <1>1, <1>2, TypeCorrect, PTL DEF Spec

-----------------------------------------------------------------------------
\* Customers are finitely many, so the woken ones can be counted.
LEMMA WokenFinite ==
    /\ IsFiniteSet(WokenCustomers) /\ Cardinality(WokenCustomers) \in Nat
    /\ IsFiniteSet(WokenCustomers') /\ Cardinality(WokenCustomers') \in Nat
  <1>1. WokenCustomers \in SUBSET Customers /\ WokenCustomers' \in SUBSET Customers
    BY DEF WokenCustomers
  <1> QED
    BY <1>1, StoreAssumption, FS_Subset, FS_CardinalityType

\* While there is room no factory waits, so the single Pulse of
\* PurchaseProduct always reaches a customer, if any customer waits: the
\* customers on the way grow with the stock.
LEMMA PurchaseKeepsWakeUps ==
    ASSUME TypeOK, NoLostWakeUp, NEW f \in Factories, PurchaseProduct(f)
    PROVE  NoLostWakeUp'
  <1>1. f \in Threads /\ f \notin Customers /\ pc[f] # "waiting" /\ ~Full
    BY StoreAssumption DEF PurchaseProduct, Enters, Threads
  <1>2. \A g \in Factories : pc[g] # "waiting"
    BY <1>1 DEF NoLostWakeUp
  <1>3. PICK ts \in Pulse :
            MoveOn(f, IF CreatesMore(made[f] + 1) THEN "running" ELSE "done", ts)
    BY DEF PurchaseProduct
  <1>4. \A g \in Factories : pc'[g] # "waiting"
    BY <1>2, <1>3, MoveOnFacts DEF Threads
  <1>5. ASSUME NEW c \in Customers, pc'[c] = "waiting"
        PROVE  Len(productQueue') <= Cardinality(WokenCustomers')
    <2>1. c \in Threads /\ pc[c] = "waiting" /\ Waiting # {}
      BY <1>1, <1>3, <1>5, MoveOnFacts DEF Threads, Waiting
    <2>2. PICK d \in Waiting : ts = {d}
      BY <1>3, <2>1 DEF Pulse
    <2>3. d \in Customers /\ d # f /\ pc[d] = "waiting" /\ d \notin WokenCustomers
      BY <2>2, <1>1, <1>2 DEF Waiting, Threads, WokenCustomers
    <2>4. WokenCustomers' = WokenCustomers \cup {d}
      BY <2>2, <2>3, <1>1, <1>3, MoveOnFacts DEF WokenCustomers, Threads
    <2>5. Cardinality(WokenCustomers') = Cardinality(WokenCustomers) + 1
      BY <2>3, <2>4, WokenFinite, FS_AddElement
    <2>6. Len(productQueue') = Len(productQueue) + 1 /\ Len(productQueue) \in Nat
      BY DEF PurchaseProduct, TypeOK
    <2>7. Len(productQueue) <= Cardinality(WokenCustomers)
      BY <2>1 DEF NoLostWakeUp
    <2> QED
      BY <2>5, <2>6, <2>7, WokenFinite
  <1> QED
    BY <1>4, <1>5 DEF NoLostWakeUp

\* A thread that moves on without pulsing anyone, and is not a woken customer
\* leaving stock behind, loses no wake-up.
LEMMA QuietStepKeepsWakeUps ==
    ASSUME NoLostWakeUp, NEW t \in Threads, NEW p, MoveOn(t, p, {}),
           productQueue' = productQueue,
           p # "woken",
           t \in Customers => pc[t] # "woken",
           p = "waiting" => t \in Factories /\ t \notin Customers /\ Full
    PROVE  NoLostWakeUp'
  <1>1. \A u \in Threads : pc'[u] = IF u = t THEN p ELSE pc[u]
    BY MoveOnFacts
  <1>2. Full' = Full
    BY DEF Full
  <1>3. WokenCustomers' = WokenCustomers
    BY <1>1 DEF WokenCustomers, Threads
  <1>4. \A g \in Factories : pc'[g] = "waiting" => Full'
    BY <1>1, <1>2 DEF NoLostWakeUp, Threads
  <1>5. \A c \in Customers : pc'[c] = "waiting" => pc[c] = "waiting"
    BY <1>1 DEF Threads
  <1> QED
    BY <1>3, <1>4, <1>5 DEF NoLostWakeUp

\* No step of a factory or of a customer loses a wake-up.
LEMMA NextNoLostWakeUp == TypeOK /\ NoLostWakeUp /\ [Next]_vars => NoLostWakeUp'
  <1> SUFFICES ASSUME TypeOK, NoLostWakeUp, [Next]_vars PROVE NoLostWakeUp'
    OBVIOUS
  <1>1. ASSUME NEW f \in Factories, PurchaseWait(f) PROVE NoLostWakeUp'
    BY <1>1, QuietStepKeepsWakeUps, StoreAssumption DEF PurchaseWait, Threads
  <1>2. ASSUME NEW f \in Factories, PurchaseProduct(f) PROVE NoLostWakeUp'
    BY <1>2, PurchaseKeepsWakeUps
  <1>3. ASSUME NEW c \in Customers, SellWait(c) PROVE NoLostWakeUp'
    <2>1. MoveOn(c, "waiting", {}) /\ productQueue = <<>> /\ productQueue' = <<>>
      BY <1>3 DEF SellWait
    <2>2. \A g \in Factories : pc'[g] # "waiting"
      <3>1. ~Full
        BY <2>1, StoreAssumption DEF Full
      <3> QED
        BY <3>1, <2>1, MoveOnFacts, StoreAssumption DEF NoLostWakeUp, Threads
    <2>3. Len(productQueue') = 0
      BY <2>1
    <2> QED
      BY <2>2, <2>3, WokenFinite DEF NoLostWakeUp
  <1>4. ASSUME NEW c \in Customers, Sell(c) PROVE NoLostWakeUp'
    <2>1. MoveOn(c, "running", Waiting)
      BY <1>4 DEF Sell, PulseAll
    <2>2. \A t \in Threads : pc'[t] # "waiting"
      BY <2>1, MoveOnFacts DEF Waiting
    <2> QED
      BY <2>2 DEF NoLostWakeUp, Threads
  <1>5. ASSUME NEW c \in Customers, WaitTimeout(c) PROVE NoLostWakeUp'
    BY <1>5, QuietStepKeepsWakeUps DEF WaitTimeout, Threads
  <1>6. ASSUME NEW c \in Customers, SellNull(c) PROVE NoLostWakeUp'
    BY <1>6, QuietStepKeepsWakeUps DEF SellNull, Threads
  <1>7. CASE UNCHANGED vars
    BY <1>7 DEF vars, NoLostWakeUp, Full, WokenCustomers
  <1> QED
    BY <1>1, <1>2, <1>3, <1>4, <1>5, <1>6, <1>7 DEF Next, FactoryStep, CustomerStep

\* One Pulse per product is enough, although factories and customers wait on
\* the same monitor.
THEOREM WakeUpsSafe == Spec => []NoLostWakeUp
  <1>1. Init => NoLostWakeUp
    BY DEF Init, NoLostWakeUp, Threads
  <1> QED
    BY <1>1, TypeCorrect, NextNoLostWakeUp, PTL DEF Spec
=============================================================================
