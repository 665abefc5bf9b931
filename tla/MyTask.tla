------------------------------- MODULE MyTask -------------------------------
(***************************************************************************)
(* MyTask and MyThreadPool of Samples/await_async: tasks with one          *)
(* continuation slot each, a pool of workers behind a blocking queue, and  *)
(* timers.  The code inside lock (_sycn) is one step, except that Complete *)
(* runs the continuation while it holds the lock, and the continuation     *)
(* takes the locks of other tasks.                                         *)
(*                                                                         *)
(* Every thread has a list of instructions still to run, innermost first.  *)
(* A client starts with its program, one of the uses Main shows; a worker  *)
(* gets its instructions from the pool's queue and a timer from its task.  *)
(***************************************************************************)
EXTENDS Integers, SequencesExt

CONSTANTS
    PoolSize,   \* threads of MyThreadPool (Environment.ProcessorCount)
    Jobs,       \* bound: tasks of the WaitAll
    Rounds,     \* bound: delays of the Iterate and of the awaiting loop
    Scenarios   \* the sets of clients that run together

ASSUME MyTaskAssumption ==
    /\ PoolSize \in Nat \ {0} /\ Jobs \in Nat /\ Rounds \in Nat \ {0}

\* The task objects, grouped by the client that makes them.
Job(j) == <<"waitall", j>>          \* Run(action)
All == <<"waitall", 0>>             \* WaitAll(tasks)
Delay(k) == <<"iterate", k>>        \* what the iterator yields
Iter == <<"iterate", 0>>            \* Iterate(tasks)
Pause(k) == <<"count", k>>          \* await Delay(1000)
Hello == <<"chain", 1>>             \* Delay(2000)
World == <<"chain", 2>>             \* the Delay(1000) func returns
Unwrapped == <<"chain", 3>>         \* ContinueWith(func)
Daniel == <<"chain", 4>>            \* ContinueWith(action)
Shared == <<"twice", 1>>            \* Run(action)
Follow == <<"twice", 2>>            \* ContinueWith(action) on Shared

JobTasks == {Job(j) : j \in 1 .. Jobs}
DelayTasks == {Delay(k) : k \in 1 .. Rounds} \cup {Pause(k) : k \in 1 .. Rounds}
              \cup {Hello, World}
Tasks == JobTasks \cup DelayTasks \cup {All, Iter, Unwrapped, Daniel, Shared, Follow}

\* The callbacks a continuation slot or the pool's queue can hold.
Callbacks ==
    {<<"action", t>> : t \in JobTasks \cup {Shared, Daniel, Follow}} \cup
    {<<"countdown", t>> : t \in JobTasks} \cup
    {<<"moveNext", Delay(k)>> : k \in 1 .. Rounds} \cup
    {<<"resume", Pause(k)>> : k \in 1 .. Rounds} \cup
    {<<"func", Unwrapped>>, <<"unwrap", Unwrapped>>} \cup
    {<<"mres", t>> : t \in Tasks}

NoCallback == <<"none", <<"none", 0>>>>

Worker == {<<"worker", n>> : n \in 1 .. PoolSize}
Clients == {<<"client", c>> : c \in {"waitall", "iterate", "count", "chain", "twice"}}
Threads == Worker \cup Clients \cup DelayTasks

VARIABLES
    active,         \* the clients of the scenario that runs
    completed,      \* _completed of every task
    continuation,   \* _continuation of every task
    workerItems,    \* s_workerItems
    armed,          \* the delay tasks whose timer runs
    remaining,      \* remaining of WaitAll
    signalled,      \* the tasks whose Wait has had its mres set
    todo,           \* the instructions every thread has still to run
    submitted,      \* history: callbacks handed to ContinueWith or the pool
    ran,            \* history: callbacks that were called
    threw,          \* history: callbacks whose user code threw
    dropped         \* history: callbacks replaced in a slot

slots == <<active, continuation, submitted, dropped>>

counters == <<active, remaining, signalled, ran, threw>>

vars == <<completed, workerItems, armed, slots, counters, todo>>

\* Types of the tasks, the pool and WaitAll's counter, which never goes below
\* zero: no task counts down twice.
TypeOK ==
    /\ completed \in [Tasks -> BOOLEAN]
    /\ continuation \in [Tasks -> Callbacks \cup {NoCallback}]
    /\ workerItems \in Seq(Callbacks)
    /\ armed \subseteq DelayTasks
    /\ remaining \in 0 .. Jobs
    /\ signalled \subseteq Tasks

\* The uses of the library in Main, and a task that is both continued and
\* waited for.
Program(c) ==
    CASE c[2] = "waitall" ->
            [j \in 1 .. Jobs |-> <<"run", Job(j)>>] \o
            (IF Jobs = 0 THEN <<<<"set", All>>>>
             ELSE [j \in 1 .. Jobs |-> <<"subscribe", Job(j), <<"countdown", Job(j)>>>>]) \o
            <<<<"wait", All>>>>
      [] c[2] = "iterate" ->
            <<<<"call", <<"moveNext", Iter>>>>, <<"wait", Iter>>>>
      [] c[2] = "count" ->
            <<<<"delay", Pause(1)>>, <<"await", Pause(1)>>>>
      [] c[2] = "chain" ->
            <<<<"delay", Hello>>, <<"subscribe", Hello, <<"func", Unwrapped>>>>,
              <<"subscribe", Unwrapped, <<"action", Daniel>>>>, <<"wait", Daniel>>>>
      [] c[2] = "twice" ->
            <<<<"run", Shared>>, <<"subscribe", Shared, <<"action", Follow>>>>,
              <<"wait", Shared>>>>

Init ==
    /\ completed = [t \in Tasks |-> FALSE]
    /\ continuation = [t \in Tasks |-> NoCallback]
    /\ workerItems = <<>>
    /\ armed = {}
    /\ remaining = Jobs
    /\ signalled = {}
    /\ active \in Scenarios
    /\ todo = [th \in Threads |-> IF th[1] = "client" /\ th[2] \in active
                                  THEN Program(th) ELSE <<>>]
    /\ submitted = {} /\ ran = {} /\ threw = {} /\ dropped = {}

-----------------------------------------------------------------------------
At(th, op) == todo[th] # <<>> /\ Head(todo[th])[1] = op

Arg(th) == Head(todo[th])[2]

\* The first instruction of th is replaced by others.
Continue(th, instrs) == todo' = [todo EXCEPT ![th] = instrs \o Tail(@)]

\* Nobody else is inside Complete of t.  Locks are reentrant.
CanLock(th, t) ==
    \A u \in Threads \ {th} : <<"unlock", t>> \notin ToSet(todo[u])

\* Mutant of Submit: whether the task has completed is not looked at.
SubmitUnchecked(t, cb) ==
    /\ continuation' = [continuation EXCEPT ![t] = cb]
    /\ dropped' = dropped \cup ({continuation[t]} \ {NoCallback})
    /\ submitted' = submitted \cup {cb}
    /\ workerItems' = workerItems

\* The locked part of ContinueWith.
Submit(t, cb) ==
    /\ IF completed[t]
       THEN /\ workerItems' = Append(workerItems, cb)
            /\ UNCHANGED <<continuation, dropped>>
       ELSE /\ continuation' = [continuation EXCEPT ![t] = cb]
            /\ dropped' = dropped \cup ({continuation[t]} \ {NoCallback})
            /\ workerItems' = workerItems
    /\ submitted' = submitted \cup {cb}

ContinueWith(th) ==
    /\ At(th, "subscribe")
    /\ CanLock(th, Arg(th))
    /\ Submit(Arg(th), Head(todo[th])[3])
    /\ Continue(th, <<>>)
    /\ UNCHANGED <<completed, armed, counters>>

\* Mutant of Complete: the continuation also goes to the pool.
CompleteTwice(th) ==
    LET t == Arg(th)
    IN  /\ At(th, "set") /\ CanLock(th, t) /\ ~completed[t]
        /\ completed' = [completed EXCEPT ![t] = TRUE]
        /\ IF continuation[t] = NoCallback
           THEN Continue(th, <<>>) /\ workerItems' = workerItems
           ELSE /\ Continue(th, <<<<"call", continuation[t]>>, <<"unlock", t>>>>)
                /\ workerItems' = Append(workerItems, continuation[t])
        /\ UNCHANGED <<armed, slots, counters>>

\* Complete of a task that has completed throws, outside of every try: see
\* CompletesOnce.
Complete(th) ==
    LET t == Arg(th)
    IN  /\ At(th, "set")
        /\ CanLock(th, t)
        /\ ~completed[t]
        /\ completed' = [completed EXCEPT ![t] = TRUE]
        /\ Continue(th, IF continuation[t] = NoCallback THEN <<>>
                        ELSE <<<<"call", continuation[t]>>, <<"unlock", t>>>>)
        /\ UNCHANGED <<workerItems, armed, slots, counters>>

Unlock(th) ==
    /\ At(th, "unlock")
    /\ Continue(th, <<>>)
    /\ UNCHANGED <<completed, workerItems, armed, slots, counters>>

\* Wait: subscribe mres.Set, unless the task has completed, and leave the lock.
Wait(th) ==
    LET t == Arg(th)
    IN  /\ At(th, "wait")
        /\ CanLock(th, t)
        /\ IF completed[t]
           THEN /\ Continue(th, <<>>)
                /\ UNCHANGED <<workerItems, continuation, submitted, dropped>>
           ELSE /\ Submit(t, <<"mres", t>>)
                /\ Continue(th, <<<<"block", t>>>>)
        /\ UNCHANGED <<completed, armed, counters>>

\* mres.Wait() returns.
Wake(th) ==
    /\ At(th, "block")
    /\ Arg(th) \in signalled
    /\ Continue(th, <<>>)
    /\ UNCHANGED <<completed, workerItems, armed, slots, counters>>

Run(th) ==
    /\ At(th, "run")
    /\ workerItems' = Append(workerItems, <<"action", Arg(th)>>)
    /\ submitted' = submitted \cup {<<"action", Arg(th)>>}
    /\ Continue(th, <<>>)
    /\ UNCHANGED <<completed, armed, continuation, dropped, counters>>

\* Delay starts a timer.
StartDelay(th) ==
    /\ At(th, "delay")
    /\ armed' = armed \cup {Arg(th)}
    /\ Continue(th, <<>>)
    /\ UNCHANGED <<completed, workerItems, slots, counters>>

TimerFires(d) ==
    /\ d \in armed
    /\ armed' = armed \ {d}
    /\ todo' = [todo EXCEPT ![d] = <<<<"set", d>>>>]
    /\ UNCHANGED <<completed, workerItems, slots, counters>>

\* await: Awaiter.IsCompleted, then OnCompleted or straight on.
Await(th) ==
    LET t == Arg(th)
    IN  /\ At(th, "await")
        /\ CanLock(th, t)
        /\ Continue(th, IF completed[t] THEN <<<<"call", <<"resume", t>>>>>>
                        ELSE <<<<"subscribe", t, <<"resume", t>>>>>>)
        /\ UNCHANGED <<completed, workerItems, armed, slots, counters>>

\* Mutant of LastOne: every countdown is taken for the last one.
LastOneAlways == remaining >= 1

\* Interlocked.Decrement(ref remaining) == 0
LastOne == remaining = 1

\* What a callback goes on to do when its user code does not throw.
Body(cb) ==
    LET k == cb[2][2]
    IN  CASE cb[1] \in {"action", "unwrap"} -> <<<<"set", cb[2]>>>>
          [] cb[1] = "countdown" -> IF LastOne THEN <<<<"set", All>>>> ELSE <<>>
          [] cb[1] = "moveNext" ->
                IF k < Rounds
                THEN <<<<"delay", Delay(k + 1)>>,
                       <<"subscribe", Delay(k + 1), <<"moveNext", Delay(k + 1)>>>>>>
                ELSE <<<<"set", Iter>>>>
          [] cb[1] = "resume" ->
                <<<<"wait", Pause(k)>>>> \o
                (IF k < Rounds
                 THEN <<<<"delay", Pause(k + 1)>>, <<"await", Pause(k + 1)>>>> ELSE <<>>)
          [] cb[1] = "func" ->
                <<<<"delay", World>>, <<"subscribe", World, <<"unwrap", Unwrapped>>>>>>
          [] cb[1] = "mres" -> <<>>

\* A callback is called, by a worker or from inside Complete.
Call(th) ==
    LET cb == Arg(th)
    IN  /\ At(th, "call")
        /\ Continue(th, Body(cb))
        /\ ran' = ran \cup {cb}
        /\ remaining' = IF cb[1] = "countdown" THEN remaining - 1 ELSE remaining
        /\ signalled' = IF cb[1] = "mres" THEN signalled \cup {cb[2]} ELSE signalled
        /\ UNCHANGED <<completed, workerItems, armed, slots, threw>>

\* The user code in a callback throws: SetException does nothing.
CallThrows(th) ==
    LET cb == Arg(th)
    IN  /\ At(th, "call")
        /\ cb[1] \in {"action", "moveNext", "func"}
        /\ Continue(th, <<>>)
        /\ ran' = ran \cup {cb}
        /\ threw' = threw \cup {cb}
        /\ UNCHANGED <<completed, workerItems, armed, slots, remaining, signalled>>

\* A worker takes the oldest item of the queue.
Take(w) ==
    /\ w \in Worker /\ todo[w] = <<>> /\ workerItems # <<>>
    /\ todo' = [todo EXCEPT ![w] = <<<<"call", Head(workerItems)>>>>]
    /\ workerItems' = Tail(workerItems)
    /\ UNCHANGED <<completed, armed, slots, counters>>

Step(th) ==
    \/ ContinueWith(th) \/ Complete(th) \/ Unlock(th) \/ Wait(th) \/ Wake(th)
    \/ Run(th) \/ StartDelay(th) \/ Await(th) \/ Call(th) \/ CallThrows(th) \/ Take(th)

Next ==
    \/ \E th \in Threads : Step(th)
    \/ \E d \in DelayTasks : TimerFires(d)

Spec == Init /\ [][Next]_vars

\* Threads are scheduled, user code ends, and timers fire.
Fairness ==
    /\ \A th \in Threads : WF_vars(Step(th))
    /\ \A d \in DelayTasks : WF_vars(TimerFires(d))

FairSpec == Spec /\ Fairness

-----------------------------------------------------------------------------
(***************************************************************************)
(* Properties.                                                             *)
(***************************************************************************)

\* "Task has done!" is never thrown: whoever is about to set a task's result
\* finds the task incomplete.
CompletesOnce ==
    \A th \in Threads, t \in Tasks : <<"set", t>> \in ToSet(todo[th]) => ~completed[t]

\* No task completes before what it stands for: WaitAll not before its tasks,
\* Iterate and the awaiting loop in order, a continuation not before the task
\* it continues, and ContinueWith(func) not before the task func returned.
Causality ==
    /\ completed[All] => \A t \in JobTasks : completed[t]
    /\ completed[Iter] => \A k \in 1 .. Rounds : completed[Delay(k)]
    /\ \A k \in 1 .. Rounds - 1 :
          /\ completed[Delay(k + 1)] => completed[Delay(k)]
          /\ completed[Pause(k + 1)] => completed[Pause(k)]
    /\ completed[Unwrapped] => completed[World]
    /\ completed[Daniel] => completed[Unwrapped]
    /\ completed[Follow] => completed[Shared]

\* Where a callback can be, before and after it is called.
Places(cb) ==
    {<<"slot", t>> : t \in {u \in Tasks : ~completed[u] /\ continuation[u] = cb}} \cup
    {<<"queue", n>> : n \in {i \in 1 .. Len(workerItems) : workerItems[i] = cb}} \cup
    {<<"thread", th>> : th \in {u \in Threads : <<"call", cb>> \in ToSet(todo[u])}} \cup
    {<<"history", s>> : s \in {x \in {"ran", "dropped"} :
                                  cb \in IF x = "ran" THEN ran ELSE dropped}}

\* A callback handed over is called exactly once, or replaced by a later one:
\* it does not vanish between ContinueWith and a Complete that runs at the
\* same time, and is not both called and queued.
ExactlyOnce == \A cb \in submitted : Cardinality(Places(cb)) = 1

Lost(c) == \E cb \in threw \cup dropped : cb[2][1] = c[2]

\* Every client ends, with all its tasks completed, unless user code of its
\* own threw or it replaced a continuation of its own: no deadlock between
\* the nested locks of Complete, and no client suffers from another's failure.
ClientsEnd ==
    \A c \in Clients :
        <>[](\/ todo[c] = <<>> /\ (\A t \in Tasks : t[1] = c[2] => completed[t])
             \/ c[2] \notin active
             \/ Lost(c))
=============================================================================
