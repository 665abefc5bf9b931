-------------------------------- MODULE Store --------------------------------
(***************************************************************************)
(* The producer/consumer sample Samples/OwnConsumerPublisher: Store, its   *)
(* Factory and Customer threads, and the Monitor they synchronise on.      *)
(*                                                                         *)
(* lock (_productQueue) makes the code between entering the monitor, or    *)
(* coming back from Monitor.Wait, and leaving it, or calling Monitor.Wait, *)
(* one step.  A thread that waits is moved on by a Pulse, by a PulseAll or *)
(* (customers only) by its timeout; it then has to get the lock back, and  *)
(* any other thread may get it first.  Which waiter a Pulse picks is left  *)
(* open.                                                                   *)
(***************************************************************************)
EXTENDS Naturals, Sequences, FiniteSets

CONSTANTS
    Factories,      \* threads in Factory.CreateProduct
    Customers,      \* threads in Customer.Buy
    MaxInStock,     \* _maxInStock
    Batch           \* bound: products per factory (1000 in the code)

ASSUME StoreAssumption ==
    /\ Factories \cap Customers = {}
    /\ IsFiniteSet(Customers)
    /\ MaxInStock \in Nat \ {0}
    /\ Batch \in Nat \ {0}

Threads == Factories \cup Customers

\* A product carries the factory's thread and i, its Price.
Product == Factories \X (0 .. Batch - 1)

VARIABLES
    productQueue,   \* _productQueue
    pc,             \* where each thread is
    made,           \* i of CreateProduct
    purchased,      \* history: every product ever purchased by the store
    sold            \* history: every product ever sold by the store

vars == <<productQueue, pc, made, purchased, sold>>

\* Types of the queue and of the threads.  A factory is done exactly when its
\* loop in CreateProduct has ended, and never gives up waiting.
TypeOK ==
    /\ productQueue \in Seq(Product)
    /\ pc \in [Threads -> {"running", "waiting", "woken", "expired", "done"}]
    /\ made \in [Factories -> 0 .. Batch]
    /\ purchased \in Seq(Product)
    /\ sold \in Seq(Product)
    /\ \A f \in Factories : pc[f] # "expired" /\ (pc[f] = "done" <=> made[f] = Batch)

Init ==
    /\ productQueue = <<>>
    /\ pc = [t \in Threads |-> "running"]
    /\ made = [f \in Factories |-> 0]
    /\ purchased = <<>>
    /\ sold = <<>>

-----------------------------------------------------------------------------
(***************************************************************************)
(* System.Threading.Monitor.  Pulse and PulseAll give the possible sets of *)
(* threads moved from the waiting to the ready queue.                      *)
(***************************************************************************)
Waiting == {t \in Threads : pc[t] = "waiting"}

Pulse == IF Waiting = {} THEN {{}} ELSE {{t} : t \in Waiting}

\* Mutant of PulseAll: Pulse in its place.
PulseAllOne == Pulse

\* Mutant of PulseAll: left out.
PulseAllNone == {{}}

PulseAll == {Waiting}

\* The thread t is at p, and the threads of ts are back in the ready queue.
MoveOn(t, p, ts) ==
    pc' = [u \in Threads |-> IF u = t THEN p
                             ELSE IF u \in ts THEN "woken" ELSE pc[u]]

\* The thread is in the monitor: it called lock, or came back from Wait.
Enters(t) == pc[t] \in {"running", "woken"}

-----------------------------------------------------------------------------
\* Mutant of Full: off by one.
FullOffByOne == Len(productQueue) > MaxInStock

\* _productQueue.Count >= _maxInStock
Full == Len(productQueue) >= MaxInStock

\* Mutant of CreatesMore: one product too many.
CreatesMoreOffByOne(i) == i <= Batch

\* i < 1000 in CreateProduct
CreatesMore(i) == i < Batch

\* PurchaseProduct: the store is full and the factory waits.
PurchaseWait(f) ==
    /\ Enters(f)
    /\ CreatesMore(made[f])
    /\ Full
    /\ MoveOn(f, "waiting", {})
    /\ UNCHANGED <<productQueue, made, purchased, sold>>

\* PurchaseProduct: there is room; CreateProduct goes on to its next product
\* or ends.
PurchaseProduct(f) ==
    LET p == <<f, made[f]>>
    IN  /\ Enters(f)
        /\ CreatesMore(made[f])
        /\ ~Full
        /\ productQueue' = Append(productQueue, p)
        /\ purchased' = Append(purchased, p)
        /\ made' = [made EXCEPT ![f] = @ + 1]
        /\ \E ts \in Pulse :
              MoveOn(f, IF CreatesMore(made[f] + 1) THEN "running" ELSE "done", ts)
        /\ sold' = sold

\* Sell: out of stock, the customer waits for up to a second.
SellWait(c) ==
    /\ Enters(c)
    /\ productQueue = <<>>
    /\ MoveOn(c, "waiting", {})
    /\ UNCHANGED <<productQueue, made, purchased, sold>>

\* Sell: a product is sold; Buy shows it and calls Sell again.
Sell(c) ==
    /\ Enters(c)
    /\ productQueue # <<>>
    /\ productQueue' = Tail(productQueue)
    /\ sold' = Append(sold, Head(productQueue))
    /\ \E ts \in PulseAll : MoveOn(c, "running", ts)
    /\ UNCHANGED <<made, purchased>>

\* Mutant of WaitTimeout: Monitor.Wait without a timeout.
WaitForever(c) == FALSE /\ UNCHANGED vars

\* Monitor.Wait(_productQueue, 1000) gives up: the customer is back in the
\* ready queue, no longer reachable by a Pulse, and Wait will return false.
WaitTimeout(c) ==
    /\ pc[c] = "waiting"
    /\ MoveOn(c, "expired", {})
    /\ UNCHANGED <<productQueue, made, purchased, sold>>

\* Sell returns null, whether or not there is stock by now, and Buy ends.
SellNull(c) ==
    /\ pc[c] = "expired"
    /\ MoveOn(c, "done", {})
    /\ UNCHANGED <<productQueue, made, purchased, sold>>

FactoryStep(f) == PurchaseWait(f) \/ PurchaseProduct(f)

CustomerStep(c) == SellWait(c) \/ Sell(c) \/ SellNull(c)

Next ==
    \/ \E f \in Factories : FactoryStep(f)
    \/ \E c \in Customers : CustomerStep(c) \/ WaitTimeout(c)

Spec == Init /\ [][Next]_vars

\* Every thread that can get the monitor gets it in the end, and a wait with
\* a timeout ends.
Fairness ==
    /\ \A f \in Factories : WF_vars(FactoryStep(f))
    /\ \A c \in Customers : WF_vars(CustomerStep(c)) /\ WF_vars(WaitTimeout(c))

FairSpec == Spec /\ Fairness

-----------------------------------------------------------------------------
(***************************************************************************)
(* Properties.                                                             *)
(***************************************************************************)

\* The store is a bounded first-in first-out buffer of products.
Buffer ==
    INSTANCE BoundedBuffer WITH
        Items <- Product, Capacity <- MaxInStock,
        buffer <- productQueue, put <- purchased, got <- sold

BufferSpec == Buffer!Spec

WokenCustomers == {c \in Customers : pc[c] = "woken"}

\* Two conditions share one monitor, and PurchaseProduct pulses only one
\* waiter.  Still no wake-up is lost: a factory waits only while the store is
\* full, and while a customer waits, every product in stock has a customer of
\* its own on the way.
NoLostWakeUp ==
    /\ \A f \in Factories : pc[f] = "waiting" => Full
    /\ (\E c \in Customers : pc[c] = "waiting") =>
           Len(productQueue) <= Cardinality(WokenCustomers)

AllGone == \A c \in Customers : pc[c] = "done"

\* Customers do not get stuck: each runs out of patience in the end.
CustomersLeave == <>AllGone

\* How Task.WaitAll can end up: either every factory delivers its batch, or
\* the customers all left first and the factories are stranded before a full
\* store.
DeliveredOrStranded ==
    <>[](\/ \A f \in Factories : pc[f] = "done"
         \/ AllGone /\ Full)
=============================================================================
