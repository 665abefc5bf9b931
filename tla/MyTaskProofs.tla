---------------------------- MODULE MyTaskProofs ----------------------------
(***************************************************************************)
(* Proofs about MyTask, for every number of workers, tasks and rounds and  *)
(* every set of clients.  A callback and the completion of a task are what *)
(* the program hands around: an instruction of a thread carries one, it    *)
(* goes from there to a slot, to the queue, to a timer or to another       *)
(* thread, and it ends when it is called, replaced or completed.  The      *)
(* invariant says that each is in one place, and which callback has run    *)
(* when another one, or a completion, is anywhere at all.                  *)
(***************************************************************************)
EXTENDS MyTask, FiniteSetTheorems, TLAPS

-----------------------------------------------------------------------------
(***************************************************************************)
(* What instructions carry.                                                *)
(***************************************************************************)

\* The task of a callback that waits for none.
NoTask == <<"none", 0>>

\* What can be called: the callbacks, and MoveNext for the first time.
Called == Callbacks \cup {<<"moveNext", Iter>>}

\* The task whose completion releases a callback.
Source(cb) ==
    CASE cb[1] \in {"countdown", "resume", "mres"} -> cb[2]
      [] cb[1] = "moveNext" -> IF cb[2] = Iter THEN NoTask ELSE cb[2]
      [] cb[1] = "func" -> Hello
      [] cb[1] = "unwrap" -> World
      [] cb = <<"action", Daniel>> -> Unwrapped
      [] cb = <<"action", Follow>> -> Shared
      [] OTHER -> NoTask

\* The instructions of the threads.
Instr ==
    {<<"run", t>> : t \in JobTasks \cup {Shared}} \cup
    {<<"subscribe", Source(cb), cb>> : cb \in {c \in Callbacks : Source(c) # NoTask}} \cup
    {<<"call", cb>> : cb \in Called} \cup
    {<<op, t>> : op \in {"set", "wait", "block", "unlock"}, t \in Tasks} \cup
    {<<"delay", d>> : d \in DelayTasks} \cup
    {<<"await", Pause(k)>> : k \in 1 .. Rounds}

\* What an instruction is about to hand over, call or complete.
Carries(x) ==
    CASE x[1] = "subscribe" -> x[3]
      [] x[1] = "run" -> <<"action", x[2]>>
      [] x[1] = "wait" -> <<"mres", x[2]>>
      [] x[1] = "await" -> <<"resume", x[2]>>
      [] x[1] \in {"call", "delay", "set"} -> x[2]
      [] OTHER -> NoCallback

\* The body of the callback cb brings k forth, another callback or the completion
\* of a task.  The rest comes from the clients, and All from the last countdown.
Causes(cb, k) ==
    \/ \E j \in 1 .. Rounds :
          cb = <<"moveNext", Delay(j - 1)>> /\ k \in {Delay(j), <<"moveNext", Delay(j)>>}
    \/ cb = <<"moveNext", Delay(Rounds)>> /\ k = Iter
    \/ \E j \in 1 .. Rounds - 1 :
          cb = <<"resume", Pause(j)>> /\ k \in {Pause(j + 1), <<"resume", Pause(j + 1)>>}
    \/ \E j \in 1 .. Rounds : cb = <<"resume", Pause(j)>> /\ k = <<"mres", Pause(j)>>
    \/ cb = <<"func", Unwrapped>> /\ k \in {World, <<"unwrap", Unwrapped>>}
    \/ cb = <<"unwrap", Unwrapped>> /\ k = Unwrapped
    \/ \E t \in JobTasks \cup {Shared, Follow, Daniel} : cb = <<"action", t>> /\ k = t

\* The instructions of s that carry something.
Tokens(s) == {x \in ToSet(s) : Carries(x) # NoCallback}

Pending == UNION {Tokens(todo[th]) : th \in Threads}

Carried(k) == \E x \in Pending : Carries(x) = k

\* Nothing is carried twice by s.
Distinct(s) ==
    \A i, j \in 1 .. Len(s) :
        Carries(s[i]) = Carries(s[j]) /\ Carries(s[i]) # NoCallback => i = j

\* Nothing is carried twice by the threads.
OneThread ==
    /\ \A th \in Threads : Distinct(todo[th])
    /\ \A th, u \in Threads : \A x \in Tokens(todo[th]), y \in Tokens(todo[u]) :
          Carries(x) = Carries(y) => th = u

\* The elements of a sequence.
LEMMA ToSetFacts ==
    ASSUME NEW S, NEW s \in Seq(S)
    PROVE  /\ \A x : x \in ToSet(s) <=> \E i \in 1 .. Len(s) : x = s[i]
           /\ ToSet(s) \subseteq S
  BY DEF ToSet

\* The instructions of a sequence that carry something.
LEMMA TokensFacts ==
    ASSUME NEW s \in Seq(Instr)
    PROVE  \A x : x \in Tokens(s) <=> Carries(x) # NoCallback /\ \E i \in 1 .. Len(s) : x = s[i]
  BY ToSetFacts DEF Tokens

\* The sequence after its first instruction was replaced.
LEMMA ReplacedFacts ==
    ASSUME NEW S, NEW s \in Seq(S), NEW t \in Seq(S), t # <<>>, NEW r, r = s \o Tail(t)
    PROVE  /\ r \in Seq(S)
           /\ Len(r) = Len(s) + Len(t) - 1
           /\ Head(t) = t[1] /\ Len(t) >= 1
           /\ \A i \in 1 .. Len(s) : r[i] = s[i]
           /\ \A i \in 2 .. Len(t) : r[i + Len(s) - 1] = t[i]
           /\ \A i \in 1 .. Len(r) : i > Len(s) =>
                 i - Len(s) + 1 \in 2 .. Len(t) /\ r[i] = t[i - Len(s) + 1]
  <1>1. Len(t) \in Nat /\ Len(t) >= 1 /\ Head(t) = t[1] /\ Len(s) \in Nat
    OBVIOUS
  <1>2. PICK w : w = Tail(t)
    OBVIOUS
  <1>3. w \in Seq(S) /\ Len(w) = Len(t) - 1 /\ \A i \in 1 .. Len(w) : w[i] = t[i + 1]
    BY <1>1, <1>2
  <1>4. r \in Seq(S) /\ Len(r) = Len(s) + Len(w)
    BY <1>2, <1>3
  <1>5. \A i \in 1 .. Len(r) : r[i] = IF i <= Len(s) THEN s[i] ELSE w[i - Len(s)]
    BY <1>2, <1>3
  <1> QED
    BY <1>1, <1>3, <1>4, <1>5

\* Its instructions, and that nothing is carried twice by it.
LEMMA ReplacedTokens ==
    ASSUME NEW s \in Seq(Instr), NEW t \in Seq(Instr), t # <<>>, NEW r, r = s \o Tail(t),
           Distinct(s), Distinct(t),
           \A x \in Tokens(s), y \in Tokens(t) : Carries(x) = Carries(y) => y = Head(t)
    PROVE  /\ r \in Seq(Instr)
           /\ Tokens(r) = (Tokens(t) \ {Head(t)}) \cup Tokens(s)
           /\ Distinct(r)
  <1>1. /\ r \in Seq(Instr)
        /\ Len(r) = Len(s) + Len(t) - 1
        /\ Head(t) = t[1] /\ Len(t) >= 1
        /\ \A i \in 1 .. Len(s) : r[i] = s[i]
        /\ \A i \in 2 .. Len(t) : r[i + Len(s) - 1] = t[i]
        /\ \A i \in 1 .. Len(r) : i > Len(s) =>
              i - Len(s) + 1 \in 2 .. Len(t) /\ r[i] = t[i - Len(s) + 1]
    BY ReplacedFacts
  <1>2. Len(s) \in Nat /\ Len(t) \in Nat
    OBVIOUS
  <1>3. \A i \in 2 .. Len(t) : Carries(t[i]) # NoCallback => t[i] # t[1]
    BY <1>1, <1>2 DEF Distinct
  <1>4. \A i \in 1 .. Len(s), j \in 2 .. Len(t) :
            Carries(s[i]) # NoCallback => Carries(s[i]) # Carries(t[j])
    <2>1. SUFFICES ASSUME NEW i \in 1 .. Len(s), NEW j \in 2 .. Len(t),
                          Carries(s[i]) # NoCallback, Carries(s[i]) = Carries(t[j])
                   PROVE  FALSE
      OBVIOUS
    <2>2. s[i] \in Tokens(s) /\ t[j] \in Tokens(t)
      BY <2>1, <1>2, ToSetFacts DEF Tokens
    <2> QED
      BY <2>1, <2>2, <1>1, <1>3
  <1>5. Tokens(r) = (Tokens(t) \ {Head(t)}) \cup Tokens(s)
    <2>1. ASSUME NEW x \in Tokens(r) PROVE x \in (Tokens(t) \ {Head(t)}) \cup Tokens(s)
      <3>0. x \in Tokens(r) /\ r \in Seq(Instr)
        BY <2>1, <1>1
      <3>a. Carries(x) # NoCallback /\ \E i \in 1 .. Len(r) : x = r[i]
        BY <3>0, TokensFacts, Zenon
      <3>1. PICK i \in 1 .. Len(r) : x = r[i] /\ Carries(x) # NoCallback
        BY <3>a
      <3>2. CASE i <= Len(s)
        <4>1. i \in 1 .. Len(s) /\ x = s[i]
          BY <3>1, <3>2, <1>1, <1>2
        <4> QED
          BY <4>1, <3>1, ToSetFacts DEF Tokens
      <3>3. CASE i > Len(s)
        <4>1. PICK j \in 2 .. Len(t) : x = t[j]
          BY <3>1, <3>3, <1>1, <1>2
        <4>2. x \in ToSet(t)
          BY <4>1, <1>2, ToSetFacts
        <4> QED
          BY <4>1, <4>2, <3>1, <1>1, <1>3 DEF Tokens
      <3> QED
        BY <3>1, <3>2, <3>3, <1>2
    <2>2. ASSUME NEW x \in Tokens(s) PROVE x \in Tokens(r)
      <3>1. PICK i \in 1 .. Len(s) : x = s[i] /\ Carries(x) # NoCallback
        BY <2>2, ToSetFacts DEF Tokens
      <3>2. i \in 1 .. Len(r) /\ x = r[i]
        BY <3>1, <1>1, <1>2
      <3> QED
        BY <3>1, <3>2, <1>1, ToSetFacts DEF Tokens
    <2>3. ASSUME NEW x \in Tokens(t), x # Head(t) PROVE x \in Tokens(r)
      <3>1. PICK i \in 1 .. Len(t) : x = t[i] /\ Carries(x) # NoCallback
        BY <2>3, ToSetFacts DEF Tokens
      <3>2. i \in 2 .. Len(t)
        BY <3>1, <2>3, <1>1, <1>2
      <3>3. i + Len(s) - 1 \in 1 .. Len(r) /\ x = r[i + Len(s) - 1]
        BY <3>1, <3>2, <1>1, <1>2
      <3> QED
        BY <3>1, <3>3, <1>1, TokensFacts
    <2> QED
      BY <2>1, <2>2, <2>3
  <1>6. Distinct(r)
    <2>1. SUFFICES ASSUME NEW i \in 1 .. Len(r), NEW j \in 1 .. Len(r),
                          Carries(r[i]) = Carries(r[j]), Carries(r[i]) # NoCallback
                   PROVE  i = j
      BY DEF Distinct
    <2>2. CASE i <= Len(s) /\ j <= Len(s)
      <3>1. i \in 1 .. Len(s) /\ j \in 1 .. Len(s) /\ r[i] = s[i] /\ r[j] = s[j]
        BY <2>2, <1>1, <1>2
      <3> QED
        BY <3>1, <2>1 DEF Distinct
    <2>3. CASE i > Len(s) /\ j > Len(s)
      <3>1. /\ i - Len(s) + 1 \in 2 .. Len(t) /\ r[i] = t[i - Len(s) + 1]
            /\ j - Len(s) + 1 \in 2 .. Len(t) /\ r[j] = t[j - Len(s) + 1]
        BY <2>3, <1>1, <1>2
      <3>2. i - Len(s) + 1 = j - Len(s) + 1
        BY <3>1, <2>1, <1>2 DEF Distinct
      <3> QED
        BY <3>2, <1>1, <1>2
    <2>4. CASE i <= Len(s) /\ j > Len(s)
      <3>1. i \in 1 .. Len(s) /\ r[i] = s[i]
            /\ j - Len(s) + 1 \in 2 .. Len(t) /\ r[j] = t[j - Len(s) + 1]
        BY <2>4, <1>1, <1>2
      <3> QED
        BY <3>1, <2>1, <1>4
    <2>5. CASE i > Len(s) /\ j <= Len(s)
      <3>1. j \in 1 .. Len(s) /\ r[j] = s[j]
            /\ i - Len(s) + 1 \in 2 .. Len(t) /\ r[i] = t[i - Len(s) + 1]
        BY <2>5, <1>1, <1>2
      <3> QED
        BY <3>1, <2>1, <1>4
    <2> QED
      BY <2>2, <2>3, <2>4, <2>5, <1>1, <1>2
  <1> QED
    BY <1>1, <1>5, <1>6

-----------------------------------------------------------------------------
\* The instructions x that s brings in carry nothing that a thread still
\* carries, except what the first instruction of th carried.
Fits(th, s) ==
    \A x \in Tokens(s), y \in Pending : Carries(x) = Carries(y) => y = Head(todo[th])

\* One thread replaced its first instruction.
LEMMA ContinueFacts ==
    ASSUME todo \in [Threads -> Seq(Instr)], OneThread,
           NEW th \in Threads, todo[th] # <<>>, NEW s \in Seq(Instr), Distinct(s), Fits(th, s),
           todo' = [todo EXCEPT ![th] = s \o Tail(todo[th])]
    PROVE  /\ todo' \in [Threads -> Seq(Instr)]
           /\ OneThread'
           /\ Pending' = (Pending \ {Head(todo[th])}) \cup Tokens(s)
           /\ \A u \in Threads : u # th => todo'[u] = todo[u]
  <1>1. PICK r : r = s \o Tail(todo[th])
    OBVIOUS
  <1>2. /\ r \in Seq(Instr)
        /\ Tokens(r) = (Tokens(todo[th]) \ {Head(todo[th])}) \cup Tokens(s)
        /\ Distinct(r)
    <2>1. Distinct(todo[th]) /\ todo[th] \in Seq(Instr)
      BY DEF OneThread
    <2>2. \A x \in Tokens(s), y \in Tokens(todo[th]) : Carries(x) = Carries(y) => y = Head(todo[th])
      BY DEF Fits, Pending
    <2> QED
      BY <1>1, <2>1, <2>2, ReplacedTokens
  <1>3. todo' = [todo EXCEPT ![th] = r]
    BY <1>1
  <1>4. todo' \in [Threads -> Seq(Instr)] /\ todo'[th] = r /\ \A u \in Threads : u # th => todo'[u] = todo[u]
    BY <1>2, <1>3
  <1>5. \A u \in Threads : Tokens(todo'[u]) =
            IF u = th THEN (Tokens(todo[th]) \ {Head(todo[th])}) \cup Tokens(s) ELSE Tokens(todo[u])
    BY <1>2, <1>4
  <1>6. \A u \in Threads : u # th /\ Head(todo[th]) \in Tokens(todo[u]) => FALSE
    <2>1. SUFFICES ASSUME NEW u \in Threads, u # th, Head(todo[th]) \in Tokens(todo[u]) PROVE FALSE
      OBVIOUS
    <2>2. Head(todo[th]) \in Tokens(todo[th])
      <3>1. todo[th] \in Seq(Instr) /\ 1 \in 1 .. Len(todo[th]) /\ Head(todo[th]) = todo[th][1]
        OBVIOUS
      <3>2. Head(todo[th]) \in ToSet(todo[th])
        BY <3>1, ToSetFacts
      <3> QED
        BY <2>1, <3>2 DEF Tokens
    <2> QED
      BY <2>1, <2>2 DEF OneThread
  <1>7. Pending' = (Pending \ {Head(todo[th])}) \cup Tokens(s)
    <2>1. Pending' = UNION {Tokens(todo'[u]) : u \in Threads}
      BY DEF Pending, Tokens, ToSet
    <2> QED
      BY <2>1, <1>5, <1>6 DEF Pending
  <1>8. OneThread'
    <2>1. \A u \in Threads : Distinct(todo'[u])
      BY <1>2, <1>4 DEF OneThread
    <2>2. ASSUME NEW u \in Threads, NEW v \in Threads, NEW x \in Tokens(todo'[u]),
                 NEW y \in Tokens(todo'[v]), Carries(x) = Carries(y), u # v
          PROVE  FALSE
      <3>1. CASE u = th
        <4>1. y \in Tokens(todo[v]) /\ y \in Pending
          BY <3>1, <2>2, <1>5 DEF Pending
        <4>2. y # Head(todo[th])
          BY <4>1, <3>1, <2>2, <1>6
        <4>3. x \notin Tokens(s)
          BY <4>1, <4>2, <2>2 DEF Fits
        <4>4. x \in Tokens(todo[u])
          BY <4>3, <3>1, <2>2, <1>5
        <4> QED
          BY <4>1, <4>4, <2>2 DEF OneThread
      <3>2. CASE v = th
        <4>1. x \in Tokens(todo[u]) /\ x \in Pending
          BY <3>2, <2>2, <1>5 DEF Pending
        <4>2. x # Head(todo[th])
          BY <4>1, <3>2, <2>2, <1>6
        <4>3. y \notin Tokens(s)
          BY <4>1, <4>2, <2>2 DEF Fits
        <4>4. y \in Tokens(todo[v])
          BY <4>3, <3>2, <2>2, <1>5
        <4> QED
          BY <4>1, <4>4, <2>2 DEF OneThread
      <3>3. CASE u # th /\ v # th
        BY <3>3, <2>2, <1>5 DEF OneThread
      <3> QED
        BY <3>1, <3>2, <3>3
    <2>3. OneThread' <=> /\ \A u \in Threads : Distinct(todo'[u])
                         /\ \A u, v \in Threads : \A x \in Tokens(todo'[u]), y \in Tokens(todo'[v]) :
                               Carries(x) = Carries(y) => u = v
      BY DEF OneThread, Tokens, ToSet, Distinct
    <2> QED
      BY <2>1, <2>2, <2>3
  <1> QED
    BY <1>4, <1>7, <1>8

\* One thread that had nothing to do gets an instruction.
LEMMA StartFacts ==
    ASSUME todo \in [Threads -> Seq(Instr)], OneThread,
           NEW th \in Threads, todo[th] = <<>>, NEW x \in Instr, Carries(x) # NoCallback,
           ~Carried(Carries(x)), todo' = [todo EXCEPT ![th] = <<x>>]
    PROVE  /\ todo' \in [Threads -> Seq(Instr)]
           /\ OneThread'
           /\ Pending' = Pending \cup {x}
           /\ \A u \in Threads : u # th => todo'[u] = todo[u]
  <1>1. <<x>> \in Seq(Instr) /\ Len(<<x>>) = 1 /\ <<x>>[1] = x
    OBVIOUS
  <1>2. PICK r : r = <<x>>
    OBVIOUS
  <1>3. r \in Seq(Instr) /\ Tokens(r) = {x} /\ Distinct(r)
    <2>1. r \in Seq(Instr) /\ Len(r) = 1 /\ r[1] = x
      BY <1>1, <1>2
    <2>2. \A i \in 1 .. Len(r) : i = 1
      BY <2>1
    <2>3. Tokens(r) = {x}
      <3>1. r \in Seq(Instr) /\ 1 \in 1 .. Len(r) /\ x = r[1]
        BY <2>1
      <3>2. x \in Tokens(r)
        BY <3>1, TokensFacts
      <3>3. ASSUME NEW y \in Tokens(r) PROVE y = x
        <4>1. PICK i \in 1 .. Len(r) : y = r[i]
          BY <3>1, <3>3, TokensFacts
        <4> QED
          BY <4>1, <2>1, <2>2
      <3> QED
        BY <3>2, <3>3
    <2> QED
      BY <2>1, <2>2, <2>3 DEF Distinct
  <1>4. todo' \in [Threads -> Seq(Instr)] /\ todo'[th] = r /\ \A u \in Threads : u # th => todo'[u] = todo[u]
    BY <1>2, <1>3
  <1>5. Tokens(todo[th]) = {}
    BY DEF Tokens, ToSet
  <1>6. \A u \in Threads : Tokens(todo'[u]) = IF u = th THEN {x} ELSE Tokens(todo[u])
    BY <1>3, <1>4
  <1>7. Pending' = Pending \cup {x}
    <2>1. Pending' = UNION {Tokens(todo'[u]) : u \in Threads}
      BY DEF Pending, Tokens, ToSet
    <2> QED
      BY <2>1, <1>5, <1>6 DEF Pending
  <1>8. OneThread'
    <2>1. \A u \in Threads : Distinct(todo'[u])
      BY <1>3, <1>4 DEF OneThread
    <2>2. \A u \in Threads : \A y \in Tokens(todo[u]) : Carries(y) # Carries(x)
      BY DEF Carried, Pending
    <2>3. \A u, v \in Threads : \A y \in Tokens(todo'[u]), z \in Tokens(todo'[v]) :
             Carries(y) = Carries(z) => u = v
      BY <1>6, <2>2 DEF OneThread
    <2>4. OneThread' <=> /\ \A u \in Threads : Distinct(todo'[u])
                         /\ \A u, v \in Threads : \A y \in Tokens(todo'[u]), z \in Tokens(todo'[v]) :
                               Carries(y) = Carries(z) => u = v
      BY DEF OneThread, Tokens, ToSet, Distinct
    <2> QED
      BY <2>1, <2>3, <2>4
  <1> QED
    BY <1>4, <1>7, <1>8

-----------------------------------------------------------------------------
(***************************************************************************)
(* Names of tasks, callbacks and instructions.                             *)
(***************************************************************************)

\* Which names are tasks, and which of them have a timer.
LEMMA NamesFacts ==
    /\ JobTasks \subseteq Tasks /\ DelayTasks \subseteq Tasks
    /\ {All, Iter, Unwrapped, Daniel, Shared, Follow, Hello, World} \subseteq Tasks
    /\ \A k \in 1 .. Rounds : Delay(k) \in DelayTasks /\ Pause(k) \in DelayTasks
    /\ Hello \in DelayTasks /\ World \in DelayTasks
    /\ All \notin JobTasks
  BY DEF Tasks, JobTasks, DelayTasks, Job, Delay, Pause, Hello, World, All

\* Tasks and callbacks are told apart by their first component.
LEMMA TaskNames ==
    ASSUME NEW t \in Tasks
    PROVE  /\ t[1] \in {"waitall", "iterate", "count", "chain", "twice"}
           /\ t # NoTask /\ t # NoCallback
  <1>1. t[1] \in {"waitall", "iterate", "count", "chain", "twice"}
    BY DEF Tasks, JobTasks, DelayTasks, Job, Delay, Pause, Hello, World, All, Iter, Unwrapped,
           Daniel, Shared, Follow
  <1> QED
    BY <1>1 DEF NoTask, NoCallback

\* What can be called is no task, and is not the empty slot.
LEMMA CallbackNames ==
    ASSUME NEW cb \in Called
    PROVE  /\ cb[1] \in {"action", "countdown", "moveNext", "resume", "func", "unwrap", "mres"}
           /\ cb # NoCallback
           /\ cb \notin Tasks
  <1>1. cb[1] \in {"action", "countdown", "moveNext", "resume", "func", "unwrap", "mres"}
    BY DEF Called, Callbacks
  <1>2. cb # NoCallback
    BY <1>1 DEF NoCallback
  <1>3. cb \notin Tasks
    BY <1>1, TaskNames
  <1> QED
    BY <1>1, <1>2, <1>3

\* A callback waits for a task, or for none.
LEMMA SourceFacts ==
    ASSUME NEW cb \in Called
    PROVE  Source(cb) \in Tasks \cup {NoTask}
  <1>1. CASE cb \in {<<"action", t>> : t \in JobTasks \cup {Shared, Daniel, Follow}}
    BY <1>1, NamesFacts DEF Source
  <1>2. CASE cb \in {<<"countdown", t>> : t \in JobTasks}
    BY <1>2, NamesFacts DEF Source
  <1>3. CASE cb \in {<<"moveNext", Delay(k)>> : k \in 1 .. Rounds}
    BY <1>3, NamesFacts DEF Source
  <1>4. CASE cb \in {<<"resume", Pause(k)>> : k \in 1 .. Rounds}
    BY <1>4, NamesFacts DEF Source
  <1>5. CASE cb \in {<<"func", Unwrapped>>, <<"unwrap", Unwrapped>>}
    BY <1>5, NamesFacts DEF Source
  <1>6. CASE cb \in {<<"mres", t>> : t \in Tasks}
    BY <1>6, NamesFacts DEF Source
  <1>7. CASE cb = <<"moveNext", Iter>>
    BY <1>7, NamesFacts DEF Source
  <1> QED
    BY <1>1, <1>2, <1>3, <1>4, <1>5, <1>6, <1>7 DEF Called, Callbacks

-----------------------------------------------------------------------------
\* The shape of an instruction, by its first component.
LEMMA InstrShapes ==
    ASSUME NEW x \in Instr
    PROVE  /\ x[1] = "run" => \E t \in JobTasks \cup {Shared} : x = <<"run", t>>
           /\ x[1] = "subscribe" => \E cb \in Callbacks :
                 Source(cb) # NoTask /\ x = <<"subscribe", Source(cb), cb>>
           /\ x[1] = "call" => \E cb \in Called : x = <<"call", cb>>
           /\ x[1] = "set" => \E t \in Tasks : x = <<"set", t>>
           /\ x[1] = "wait" => \E t \in Tasks : x = <<"wait", t>>
           /\ x[1] = "block" => \E t \in Tasks : x = <<"block", t>>
           /\ x[1] = "unlock" => \E t \in Tasks : x = <<"unlock", t>>
           /\ x[1] = "delay" => \E d \in DelayTasks : x = <<"delay", d>>
           /\ x[1] = "await" => \E k \in 1 .. Rounds : x = <<"await", Pause(k)>>
           /\ x[1] \in {"run", "subscribe", "call", "set", "wait", "block", "unlock", "delay", "await"}
  BY DEF Instr

\* What each kind of instruction carries.
LEMMA CarriesFacts ==
    /\ \A t : Carries(<<"run", t>>) = <<"action", t>>
    /\ \A t, cb : Carries(<<"subscribe", t, cb>>) = cb
    /\ \A cb : Carries(<<"call", cb>>) = cb
    /\ \A t : Carries(<<"set", t>>) = t
    /\ \A t : Carries(<<"delay", t>>) = t
    /\ \A t : Carries(<<"wait", t>>) = <<"mres", t>>
    /\ \A t : Carries(<<"await", t>>) = <<"resume", t>>
    /\ \A t : Carries(<<"block", t>>) = NoCallback
    /\ \A t : Carries(<<"unlock", t>>) = NoCallback
  BY DEF Carries

\* The instructions that carry a task are about its completion.
LEMMA CarriesType ==
    ASSUME NEW x \in Instr
    PROVE  /\ Carries(x) \in Called \cup Tasks \cup {NoCallback}
           /\ Carries(x) \in Tasks => x = <<"set", Carries(x)>> \/ x = <<"delay", Carries(x)>>
  <1> USE CarriesFacts, NamesFacts, CallbackNames, TaskNames
  <1>1. CASE x[1] = "run"
    <2>1. PICK t \in JobTasks \cup {Shared} : x = <<"run", t>>
      BY <1>1, InstrShapes
    <2>2. <<"action", t>> \in Called
      BY DEF Called, Callbacks
    <2> QED
      BY <2>1, <2>2
  <1>2. CASE x[1] = "subscribe"
    <2>1. PICK cb \in Callbacks : x = <<"subscribe", Source(cb), cb>>
      BY <1>2, InstrShapes
    <2>2. cb \in Called
      BY DEF Called
    <2> QED
      BY <2>1, <2>2
  <1>3. CASE x[1] = "call"
    BY <1>3, InstrShapes
  <1>4. CASE x[1] = "set"
    BY <1>4, InstrShapes
  <1>5. CASE x[1] = "wait"
    <2>1. PICK t \in Tasks : x = <<"wait", t>>
      BY <1>5, InstrShapes
    <2>2. <<"mres", t>> \in Called
      BY DEF Called, Callbacks
    <2> QED
      BY <2>1, <2>2
  <1>6. CASE x[1] = "block"
    BY <1>6, InstrShapes
  <1>7. CASE x[1] = "unlock"
    BY <1>7, InstrShapes
  <1>8. CASE x[1] = "delay"
    BY <1>8, InstrShapes
  <1>9. CASE x[1] = "await"
    <2>1. PICK k \in 1 .. Rounds : x = <<"await", Pause(k)>>
      BY <1>9, InstrShapes
    <2>2. <<"resume", Pause(k)>> \in Called
      BY DEF Called, Callbacks
    <2> QED
      BY <2>1, <2>2
  <1> QED
    BY <1>1, <1>2, <1>3, <1>4, <1>5, <1>6, <1>7, <1>8, <1>9, InstrShapes

-----------------------------------------------------------------------------
(***************************************************************************)
(* What the body of a callback goes on to do.                              *)
(***************************************************************************)

\* What a sequence of one, two or three instructions carries.
LEMMA OneInstr ==
    ASSUME NEW x \in Instr, NEW s, s = <<x>>
    PROVE  s \in Seq(Instr) /\ Distinct(s) /\ \A y \in ToSet(s) : y = x
  <1>1. s \in Seq(Instr) /\ Len(s) = 1 /\ s[1] = x
    OBVIOUS
  <1>2. \A i \in 1 .. Len(s) : i = 1
    BY <1>1
  <1>3. Distinct(s)
    BY <1>2 DEF Distinct
  <1>4. \A y \in ToSet(s) : y = x
    BY <1>1, <1>2 DEF ToSet
  <1> QED
    BY <1>1, <1>3, <1>4

LEMMA TwoInstrs ==
    ASSUME NEW x \in Instr, NEW y \in Instr, NEW s, s = <<x, y>>, Carries(x) # Carries(y)
    PROVE  s \in Seq(Instr) /\ Distinct(s) /\ \A z \in ToSet(s) : z = x \/ z = y
  <1>1. s \in Seq(Instr) /\ Len(s) = 2 /\ s[1] = x /\ s[2] = y
    OBVIOUS
  <1>2. \A i \in 1 .. Len(s) : i = 1 \/ i = 2
    BY <1>1
  <1>3. Distinct(s)
    BY <1>1, <1>2 DEF Distinct
  <1>4. \A z \in ToSet(s) : z = x \/ z = y
    BY <1>1, <1>2 DEF ToSet
  <1> QED
    BY <1>1, <1>3, <1>4

LEMMA ThreeInstrs ==
    ASSUME NEW x \in Instr, NEW y \in Instr, NEW z \in Instr, NEW s, s = <<x, y, z>>,
           Carries(x) # Carries(y), Carries(y) # Carries(z), Carries(x) # Carries(z)
    PROVE  s \in Seq(Instr) /\ Distinct(s) /\ \A w \in ToSet(s) : w = x \/ w = y \/ w = z
  <1>1. s \in Seq(Instr) /\ Len(s) = 3 /\ s[1] = x /\ s[2] = y /\ s[3] = z
    OBVIOUS
  <1>2. \A i \in 1 .. Len(s) : i = 1 \/ i = 2 \/ i = 3
    BY <1>1
  <1>3. Distinct(s)
    BY <1>1, <1>2 DEF Distinct
  <1>4. \A w \in ToSet(s) : w = x \/ w = y \/ w = z
    BY <1>1, <1>2 DEF ToSet
  <1> QED
    BY <1>1, <1>3, <1>4

\* Two sequences of Body, put together.
LEMMA Appended == ASSUME NEW x, NEW y, NEW z PROVE <<x>> \o <<y, z>> = <<x, y, z>>
  <1>1. PICK a, b, c, d : a = <<x>> /\ b = <<y, z>> /\ c = <<x, y, z>> /\ d = a \o b
    OBVIOUS
  <1>2. /\ a \in Seq({x, y, z}) /\ Len(a) = 1 /\ a[1] = x
        /\ b \in Seq({x, y, z}) /\ Len(b) = 2 /\ b[1] = y /\ b[2] = z
        /\ c \in Seq({x, y, z}) /\ Len(c) = 3 /\ c[1] = x /\ c[2] = y /\ c[3] = z
    BY <1>1
  <1>3. d \in Seq({x, y, z}) /\ Len(d) = 3 /\ \A i \in 1 .. 3 : d[i] = IF i <= 1 THEN a[i] ELSE b[i - 1]
    BY <1>1, <1>2
  <1>4. \A i \in 1 .. 3 : d[i] = c[i]
    BY <1>2, <1>3
  <1>5. d = c
    BY <1>2, <1>3, <1>4
  <1> QED
    BY <1>1, <1>5

\* The sequence without instructions.
LEMMA NoInstr ==
    ASSUME NEW s, s = <<>>
    PROVE  s \in Seq(Instr) /\ Distinct(s) /\ ToSet(s) = {}
  <1>1. s \in Seq(Instr) /\ Len(s) = 0
    OBVIOUS
  <1> QED
    BY <1>1 DEF Distinct, ToSet

-----------------------------------------------------------------------------
\* The instructions, kind by kind.
LEMMA Instructions ==
    /\ \A t \in Tasks : <<"set", t>> \in Instr /\ <<"wait", t>> \in Instr
                        /\ <<"block", t>> \in Instr /\ <<"unlock", t>> \in Instr
    /\ \A d \in DelayTasks : <<"delay", d>> \in Instr
    /\ \A k \in 1 .. Rounds : <<"await", Pause(k)>> \in Instr
    /\ \A t \in JobTasks \cup {Shared} : <<"run", t>> \in Instr
    /\ \A cb \in Called : <<"call", cb>> \in Instr
    /\ \A cb \in Callbacks : Source(cb) # NoTask => <<"subscribe", Source(cb), cb>> \in Instr
  BY DEF Instr

\* An instruction that the callback cb goes on to run: what it carries is brought
\* forth by cb, or it is the completion of WaitAll by the last countdown.
Follows(cb, x) ==
    /\ x[1] # "call"
    /\ Carries(x) # NoCallback
    /\ \/ Causes(cb, Carries(x))
       \/ x = <<"set", All>> /\ cb[1] = "countdown" /\ remaining = 1

BodyRight(cb) ==
    Body(cb) \in Seq(Instr) /\ Distinct(Body(cb)) /\ \A x \in ToSet(Body(cb)) : Follows(cb, x)

\* What action goes on to do: complete its task.
LEMMA BodyAction ==
    ASSUME NEW t \in JobTasks \cup {Shared, Daniel, Follow} PROVE BodyRight(<<"action", t>>)
  <1>1. PICK s : s = Body(<<"action", t>>)
    OBVIOUS
  <1>2. s = <<<<"set", t>>>>
    BY <1>1 DEF Body
  <1>3. t \in Tasks /\ <<"set", t>> \in Instr
    BY NamesFacts, Instructions
  <1>4. Causes(<<"action", t>>, t)
    BY DEF Causes
  <1>5. Follows(<<"action", t>>, <<"set", t>>)
    BY <1>3, <1>4, CarriesFacts, TaskNames DEF Follows
  <1> QED
    BY <1>1, <1>2, <1>3, <1>5, OneInstr DEF BodyRight

\* What the continuation of func's task goes on to do.
LEMMA BodyUnwrap == BodyRight(<<"unwrap", Unwrapped>>)
  <1>1. PICK s : s = Body(<<"unwrap", Unwrapped>>)
    OBVIOUS
  <1>2. s = <<<<"set", Unwrapped>>>>
    BY <1>1 DEF Body
  <1>3. Unwrapped \in Tasks /\ <<"set", Unwrapped>> \in Instr
    BY NamesFacts, Instructions
  <1>4. Causes(<<"unwrap", Unwrapped>>, Unwrapped)
    BY DEF Causes
  <1>5. Follows(<<"unwrap", Unwrapped>>, <<"set", Unwrapped>>)
    BY <1>3, <1>4, CarriesFacts, TaskNames DEF Follows
  <1> QED
    BY <1>1, <1>2, <1>3, <1>5, OneInstr DEF BodyRight

\* What a countdown of WaitAll goes on to do.
LEMMA BodyCountdown ==
    ASSUME NEW t \in JobTasks PROVE BodyRight(<<"countdown", t>>)
  <1>1. PICK s : s = Body(<<"countdown", t>>)
    OBVIOUS
  <1>2. s = IF LastOne THEN <<<<"set", All>>>> ELSE <<>>
    BY <1>1 DEF Body
  <1>3. CASE LastOne
    <2>1. All \in Tasks /\ <<"set", All>> \in Instr
      BY NamesFacts, Instructions
    <2>2. Follows(<<"countdown", t>>, <<"set", All>>)
      BY <1>3, <2>1, CarriesFacts, TaskNames DEF Follows, LastOne
    <2> QED
      BY <1>1, <1>2, <1>3, <2>1, <2>2, OneInstr DEF BodyRight
  <1>4. CASE ~LastOne
    BY <1>1, <1>2, <1>4, NoInstr DEF BodyRight
  <1> QED
    BY <1>3, <1>4

\* mres.Set goes on to do nothing.
LEMMA BodyMres ==
    ASSUME NEW t \in Tasks PROVE BodyRight(<<"mres", t>>)
  <1>1. PICK s : s = Body(<<"mres", t>>)
    OBVIOUS
  <1>2. s = <<>>
    BY <1>1 DEF Body
  <1> QED
    BY <1>1, <1>2, NoInstr DEF BodyRight

\* What func goes on to do.
LEMMA BodyFunc == BodyRight(<<"func", Unwrapped>>)
  <1>1. PICK s : s = Body(<<"func", Unwrapped>>)
    OBVIOUS
  <1>2. PICK x, y : x = <<"delay", World>> /\ y = <<"subscribe", World, <<"unwrap", Unwrapped>>>>
    OBVIOUS
  <1>3. s = <<x, y>>
    BY <1>1, <1>2 DEF Body
  <1>4. World \in Tasks /\ World \in DelayTasks /\ <<"unwrap", Unwrapped>> \in Callbacks
        /\ <<"unwrap", Unwrapped>> \in Called
    BY NamesFacts DEF Callbacks, Called
  <1>5. Source(<<"unwrap", Unwrapped>>) = World
    BY DEF Source
  <1>6. x \in Instr /\ y \in Instr
    BY <1>2, <1>4, <1>5, TaskNames, Instructions
  <1>7. Carries(x) = World /\ Carries(y) = <<"unwrap", Unwrapped>> /\ Carries(x) # Carries(y)
    BY <1>2, <1>4, CarriesFacts, CallbackNames
  <1>8. /\ Causes(<<"func", Unwrapped>>, World)
        /\ Causes(<<"func", Unwrapped>>, <<"unwrap", Unwrapped>>)
    BY DEF Causes
  <1>9. Follows(<<"func", Unwrapped>>, x)
    BY <1>2, <1>4, <1>7, <1>8, TaskNames DEF Follows
  <1>10. Follows(<<"func", Unwrapped>>, y)
    BY <1>2, <1>4, <1>7, <1>8, CallbackNames DEF Follows
  <1> QED
    BY <1>1, <1>3, <1>6, <1>7, <1>9, <1>10, TwoInstrs DEF BodyRight

\* What MoveNext of Iterate goes on to do.
LEMMA BodyMoveNext ==
    ASSUME NEW k \in 0 .. Rounds PROVE BodyRight(<<"moveNext", Delay(k)>>)
  <1>0. Rounds \in Nat /\ Rounds >= 1
    BY MyTaskAssumption
  <1>1. PICK s : s = Body(<<"moveNext", Delay(k)>>)
    OBVIOUS
  <1>2. CASE k < Rounds
    <2>0. k + 1 \in 1 .. Rounds
      BY <1>0, <1>2
    <2>1. PICK d, cb : d = Delay(k + 1) /\ cb = <<"moveNext", d>>
      OBVIOUS
    <2>2. PICK x, y : x = <<"delay", d>> /\ y = <<"subscribe", d, cb>>
      OBVIOUS
    <2>3. s = <<x, y>>
      BY <1>1, <1>2, <2>1, <2>2 DEF Body, Delay
    <2>4. d \in Tasks /\ d \in DelayTasks /\ cb \in Callbacks /\ cb \in Called
      BY <2>0, <2>1, NamesFacts DEF Callbacks, Called
    <2>5. d # Iter
      BY <2>0, <2>1 DEF Delay, Iter
    <2>6. Source(cb) = d
      BY <2>1, <2>5 DEF Source
    <2>7. x \in Instr /\ y \in Instr
      BY <2>2, <2>4, <2>6, TaskNames, Instructions
    <2>8. Carries(x) = d /\ Carries(y) = cb /\ Carries(x) # Carries(y)
      BY <2>2, <2>4, CarriesFacts, CallbackNames
    <2>9. Causes(<<"moveNext", Delay(k)>>, d) /\ Causes(<<"moveNext", Delay(k)>>, cb)
      <3>1. k = (k + 1) - 1
        OBVIOUS
      <3> QED
        BY <2>0, <2>1, <3>1 DEF Causes
    <2>10. Follows(<<"moveNext", Delay(k)>>, x)
      BY <2>2, <2>4, <2>8, <2>9, TaskNames DEF Follows
    <2>11. Follows(<<"moveNext", Delay(k)>>, y)
      BY <2>2, <2>4, <2>8, <2>9, CallbackNames DEF Follows
    <2> QED
      BY <1>1, <2>3, <2>7, <2>8, <2>10, <2>11, TwoInstrs DEF BodyRight
  <1>3. CASE k = Rounds
    <2>1. s = <<<<"set", Iter>>>>
      BY <1>0, <1>1, <1>3 DEF Body, Delay
    <2>2. Iter \in Tasks /\ <<"set", Iter>> \in Instr
      BY NamesFacts, Instructions
    <2>3. Causes(<<"moveNext", Delay(k)>>, Iter)
      BY <1>3 DEF Causes
    <2>4. Follows(<<"moveNext", Delay(k)>>, <<"set", Iter>>)
      BY <2>2, <2>3, CarriesFacts, TaskNames DEF Follows
    <2> QED
      BY <1>1, <2>1, <2>2, <2>4, OneInstr DEF BodyRight
  <1> QED
    BY <1>0, <1>2, <1>3

\* What the awaiting loop goes on to do.
LEMMA BodyResume ==
    ASSUME NEW k \in 1 .. Rounds PROVE BodyRight(<<"resume", Pause(k)>>)
  <1>0. Rounds \in Nat /\ Rounds >= 1
    BY MyTaskAssumption
  <1>1. PICK s, p, x, m : /\ s = Body(<<"resume", Pause(k)>>) /\ p = Pause(k)
                          /\ x = <<"wait", p>> /\ m = <<"mres", p>>
    OBVIOUS
  <1>2. s = <<x>> \o (IF k < Rounds THEN <<<<"delay", Pause(k + 1)>>, <<"await", Pause(k + 1)>>>> ELSE <<>>)
    BY <1>1 DEF Body, Pause
  <1>3. p \in Tasks /\ m \in Called
    BY <1>1, NamesFacts DEF Callbacks, Called
  <1>4. x \in Instr /\ Carries(x) = m
    BY <1>1, <1>3, Instructions, CarriesFacts
  <1>5. Causes(<<"resume", p>>, m)
    BY <1>1 DEF Causes
  <1>6. Follows(<<"resume", p>>, x)
    BY <1>1, <1>3, <1>4, <1>5, CallbackNames DEF Follows
  <1>7. CASE k < Rounds
    <2>0. k + 1 \in 1 .. Rounds
      BY <1>0, <1>7
    <2>1. PICK d, cb : d = Pause(k + 1) /\ cb = <<"resume", d>>
      OBVIOUS
    <2>2. PICK y, z : y = <<"delay", d>> /\ z = <<"await", d>>
      OBVIOUS
    <2>3. s = <<x, y, z>>
      BY <1>2, <1>7, <2>1, <2>2, Appended
    <2>4. d \in Tasks /\ d \in DelayTasks /\ cb \in Called
      BY <2>0, <2>1, NamesFacts DEF Callbacks, Called
    <2>5. d # Pause(1)
      BY <2>0, <2>1 DEF Pause
    <2>6. y \in Instr /\ z \in Instr
      BY <2>0, <2>1, <2>2, <2>4, Instructions
    <2>7. Carries(y) = d /\ Carries(z) = cb
      BY <2>1, <2>2, CarriesFacts
    <2>8. m # d /\ d # cb /\ m # cb
      BY <1>1, <1>3, <2>1, <2>4, CallbackNames
    <2>9. Causes(<<"resume", p>>, d) /\ Causes(<<"resume", p>>, cb)
      <3>1. k \in 1 .. Rounds - 1
        BY <1>0, <1>7
      <3> QED
        BY <1>1, <2>1, <3>1 DEF Causes
    <2>10. Follows(<<"resume", p>>, y)
      BY <2>2, <2>4, <2>7, <2>9, TaskNames DEF Follows
    <2>11. Follows(<<"resume", p>>, z)
      BY <2>2, <2>4, <2>7, <2>9, CallbackNames DEF Follows
    <2> QED
      <3>1. Carries(x) # Carries(y) /\ Carries(y) # Carries(z) /\ Carries(x) # Carries(z)
        BY <1>4, <2>7, <2>8
      <3>2. s \in Seq(Instr) /\ Distinct(s) /\ \A w \in ToSet(s) : w = x \/ w = y \/ w = z
        BY <1>4, <2>3, <2>6, <3>1, ThreeInstrs
      <3>3. \A w \in ToSet(s) : Follows(<<"resume", p>>, w)
        BY <3>2, <1>6, <2>10, <2>11
      <3> QED
        BY <1>1, <3>2, <3>3 DEF BodyRight
  <1>8. CASE ~(k < Rounds)
    <2>1. s = <<x>>
      BY <1>2, <1>8
    <2> QED
      BY <1>1, <1>4, <1>6, <2>1, OneInstr DEF BodyRight
  <1> QED
    BY <1>7, <1>8

\* A callback goes on to do only what it causes.
LEMMA BodyFacts == ASSUME NEW cb \in Called PROVE BodyRight(cb)
  <1>1. CASE cb \in {<<"action", t>> : t \in JobTasks \cup {Shared, Daniel, Follow}}
    BY <1>1, BodyAction
  <1>2. CASE cb \in {<<"countdown", t>> : t \in JobTasks}
    BY <1>2, BodyCountdown
  <1>3. CASE cb \in {<<"moveNext", Delay(k)>> : k \in 1 .. Rounds}
    <2>1. PICK k \in 1 .. Rounds : cb = <<"moveNext", Delay(k)>>
      BY <1>3
    <2>2. k \in 0 .. Rounds
      OBVIOUS
    <2> QED
      BY <2>1, <2>2, BodyMoveNext
  <1>4. CASE cb \in {<<"resume", Pause(k)>> : k \in 1 .. Rounds}
    BY <1>4, BodyResume
  <1>5. CASE cb \in {<<"func", Unwrapped>>, <<"unwrap", Unwrapped>>}
    BY <1>5, BodyFunc, BodyUnwrap
  <1>6. CASE cb \in {<<"mres", t>> : t \in Tasks}
    BY <1>6, BodyMres
  <1>7. CASE cb = <<"moveNext", Iter>>
    <2>1. Iter = Delay(0) /\ 0 \in 0 .. Rounds
      BY MyTaskAssumption DEF Iter, Delay
    <2> QED
      BY <1>7, <2>1, BodyMoveNext
  <1> QED
    BY <1>1, <1>2, <1>3, <1>4, <1>5, <1>6, <1>7 DEF Called, Callbacks

-----------------------------------------------------------------------------
\* What a sequence of four instructions carries.
LEMMA FourInstrs ==
    ASSUME NEW x \in Instr, NEW y \in Instr, NEW z \in Instr, NEW w \in Instr,
           NEW s, s = <<x, y, z, w>>,
           Carries(x) # Carries(y), Carries(y) # Carries(z), Carries(x) # Carries(z),
           Carries(x) # Carries(w), Carries(y) # Carries(w), Carries(z) # Carries(w)
    PROVE  s \in Seq(Instr) /\ Distinct(s) /\ \A v \in ToSet(s) : v = x \/ v = y \/ v = z \/ v = w
  <1>1. s \in Seq(Instr) /\ Len(s) = 4 /\ s[1] = x /\ s[2] = y /\ s[3] = z /\ s[4] = w
    OBVIOUS
  <1>2. \A i \in 1 .. Len(s) : i = 1 \/ i = 2 \/ i = 3 \/ i = 4
    BY <1>1
  <1>3. Distinct(s)
    BY <1>1, <1>2 DEF Distinct
  <1>4. \A v \in ToSet(s) : v = x \/ v = y \/ v = z \/ v = w
    BY <1>1, <1>2 DEF ToSet
  <1> QED
    BY <1>1, <1>3, <1>4

-----------------------------------------------------------------------------
(***************************************************************************)
(* What a client begins with.                                              *)
(***************************************************************************)

\* The client a task or a callback belongs to.
Owner(k) == IF k \in Tasks THEN k[1] ELSE k[2][1]

NotCaused(k) == \A cb : ~Causes(cb, k)

\* The callbacks that clients hand over come from no callback.
LEMMA InitialCallbacks ==
    /\ \A t \in JobTasks \cup {Shared, Daniel, Follow} : NotCaused(<<"action", t>>)
    /\ \A t : NotCaused(<<"countdown", t>>)
    /\ NotCaused(<<"func", Unwrapped>>)
    /\ \A t \in {All, Iter, Daniel, Shared} : NotCaused(<<"mres", t>>)
    /\ NotCaused(<<"moveNext", Iter>>)
    /\ NotCaused(<<"resume", Pause(1)>>)
  <1> USE MyTaskAssumption DEF NotCaused, Causes, Delay, Pause, World, Unwrapped, Iter, JobTasks,
                               Job, Shared, Follow, Daniel
  <1>1. \A t \in JobTasks \cup {Shared, Daniel, Follow} : NotCaused(<<"action", t>>)
    OBVIOUS
  <1>2. \A t : NotCaused(<<"countdown", t>>)
    OBVIOUS
  <1>3. NotCaused(<<"func", Unwrapped>>)
    OBVIOUS
  <1>4. \A t \in {All, Iter, Daniel, Shared} : NotCaused(<<"mres", t>>)
    BY DEF All
  <1>5. NotCaused(<<"moveNext", Iter>>)
    OBVIOUS
  <1>6. NotCaused(<<"resume", Pause(1)>>)
    OBVIOUS
  <1> QED
    BY <1>1, <1>2, <1>3, <1>4, <1>5, <1>6

\* Neither do the timers that clients start, or the completion of WaitAll.
LEMMA InitialTasks == NotCaused(Pause(1)) /\ NotCaused(Hello) /\ NotCaused(All)
  <1> USE MyTaskAssumption DEF NotCaused, Causes, Delay, Pause, World, Unwrapped, Iter, JobTasks,
                               Job, Shared, Follow, Daniel
  <1>1. NotCaused(Pause(1))
    OBVIOUS
  <1>2. NotCaused(Hello)
    BY DEF Hello
  <1>3. NotCaused(All)
    BY DEF All
  <1> QED
    BY <1>1, <1>2, <1>3

\* An instruction of the program of a client.
Begins(c, x) ==
    /\ Carries(x) # NoCallback
    /\ Owner(Carries(x)) = c
    /\ NotCaused(Carries(x))
    /\ x[1] = "call" => x[2] = <<"moveNext", Iter>>
    /\ Carries(x) = All => Jobs = 0

ProgramRight(c) ==
    /\ Program(<<"client", c>>) \in Seq(Instr)
    /\ Distinct(Program(<<"client", c>>))
    /\ \A x \in ToSet(Program(<<"client", c>>)) : Begins(c, x)

\* An instruction that carries a callback.
LEMMA BeginsCallback ==
    ASSUME NEW cb \in Called, NEW x, Carries(x) = cb, NotCaused(cb), NEW c, cb[2][1] = c,
           x[1] # "call" \/ x[2] = <<"moveNext", Iter>>
    PROVE  Begins(c, x)
  <1>1. cb \notin Tasks /\ cb # NoCallback /\ All \in Tasks
    BY CallbackNames, NamesFacts
  <1> QED
    BY <1>1 DEF Begins, Owner

\* An instruction that carries the completion of a task.
LEMMA BeginsTask ==
    ASSUME NEW t \in Tasks, NEW x, Carries(x) = t, NotCaused(t), NEW c, t[1] = c,
           x[1] # "call", t = All => Jobs = 0
    PROVE  Begins(c, x)
  BY TaskNames DEF Begins, Owner

\* The program of the client that calls Iterate.
LEMMA ProgramIterate == ProgramRight("iterate")
  <1>1. PICK s, x, y, a, b :
            /\ s = Program(<<"client", "iterate">>)
            /\ a = <<"moveNext", Iter>> /\ b = <<"mres", Iter>>
            /\ x = <<"call", a>> /\ y = <<"wait", Iter>>
    OBVIOUS
  <1>2. s = <<x, y>>
    BY <1>1 DEF Program
  <1>3. a \in Called /\ b \in Called /\ a # b
    BY <1>1, NamesFacts DEF Called, Callbacks
  <1>4. x \in Instr /\ y \in Instr /\ Carries(x) = a /\ Carries(y) = b
    BY <1>1, <1>3, NamesFacts, Instructions, CarriesFacts
  <1>5. a[2][1] = "iterate" /\ b[2][1] = "iterate"
    BY <1>1 DEF Iter
  <1>6. NotCaused(a) /\ NotCaused(b)
    BY <1>1, InitialCallbacks
  <1>7. Begins("iterate", x) /\ Begins("iterate", y)
    <2>1. x[2] = <<"moveNext", Iter>> /\ y[1] # "call"
      BY <1>1
    <2> QED
      BY <1>3, <1>4, <1>5, <1>6, <2>1, BeginsCallback
  <1>8. s \in Seq(Instr) /\ Distinct(s) /\ \A z \in ToSet(s) : z = x \/ z = y
    BY <1>2, <1>3, <1>4, TwoInstrs
  <1> QED
    BY <1>1, <1>7, <1>8 DEF ProgramRight

\* The program of the client that awaits.
LEMMA ProgramCount == ProgramRight("count")
  <1>0. 1 \in 1 .. Rounds
    BY MyTaskAssumption
  <1>1. PICK s, x, y, a, b :
            /\ s = Program(<<"client", "count">>)
            /\ a = Pause(1) /\ b = <<"resume", Pause(1)>>
            /\ x = <<"delay", a>> /\ y = <<"await", Pause(1)>>
    OBVIOUS
  <1>2. s = <<x, y>>
    BY <1>1 DEF Program
  <1>3. a \in Tasks /\ a \in DelayTasks /\ b \in Called /\ a # b
    <2>1. a \in Tasks /\ a \in DelayTasks /\ b \in Called
      BY <1>0, <1>1, NamesFacts DEF Called, Callbacks
    <2> QED
      BY <2>1, CallbackNames
  <1>4. x \in Instr /\ y \in Instr /\ Carries(x) = a /\ Carries(y) = b
    BY <1>0, <1>1, <1>3, Instructions, CarriesFacts
  <1>5. a[1] = "count" /\ b[2][1] = "count" /\ a # All
    BY <1>1 DEF Pause, All
  <1>6. NotCaused(a) /\ NotCaused(b)
    BY <1>1, InitialCallbacks, InitialTasks
  <1>7. x[1] # "call" /\ y[1] # "call"
    BY <1>1
  <1>8. Begins("count", x)
    BY <1>3, <1>4, <1>5, <1>6, <1>7, BeginsTask
  <1>9. Begins("count", y)
    BY <1>3, <1>4, <1>5, <1>6, <1>7, BeginsCallback
  <1>10. s \in Seq(Instr) /\ Distinct(s) /\ \A z \in ToSet(s) : z = x \/ z = y
    BY <1>2, <1>3, <1>4, TwoInstrs
  <1> QED
    BY <1>1, <1>8, <1>9, <1>10 DEF ProgramRight

\* The program of the client that continues and waits for one task.
LEMMA ProgramTwice == ProgramRight("twice")
  <1>1. PICK s, x, y, z, a, b, d :
            /\ s = Program(<<"client", "twice">>)
            /\ a = <<"action", Shared>> /\ b = <<"action", Follow>> /\ d = <<"mres", Shared>>
            /\ x = <<"run", Shared>> /\ y = <<"subscribe", Shared, b>> /\ z = <<"wait", Shared>>
    OBVIOUS
  <1>2. s = <<x, y, z>>
    BY <1>1 DEF Program
  <1>3. a \in Called /\ b \in Called /\ b \in Callbacks /\ d \in Called
    BY <1>1, NamesFacts DEF Called, Callbacks
  <1>4. a # b /\ a # d /\ b # d
    BY <1>1 DEF Shared, Follow
  <1>5. Source(b) = Shared /\ Source(b) # NoTask
    <2>1. Source(b) = Shared
      BY <1>1 DEF Source, Follow, Daniel
    <2> QED
      BY <2>1 DEF Shared, NoTask
  <1>6. x \in Instr /\ y \in Instr /\ z \in Instr
    BY <1>1, <1>3, <1>5, NamesFacts, Instructions
  <1>7. Carries(x) = a /\ Carries(y) = b /\ Carries(z) = d
    BY <1>1, CarriesFacts
  <1>8. a[2][1] = "twice" /\ b[2][1] = "twice" /\ d[2][1] = "twice"
    BY <1>1 DEF Shared, Follow
  <1>9. NotCaused(a) /\ NotCaused(b) /\ NotCaused(d)
    BY <1>1, InitialCallbacks
  <1>10. x[1] # "call" /\ y[1] # "call" /\ z[1] # "call"
    BY <1>1
  <1>11. Begins("twice", x) /\ Begins("twice", y) /\ Begins("twice", z)
    BY <1>3, <1>7, <1>8, <1>9, <1>10, BeginsCallback
  <1>12. s \in Seq(Instr) /\ Distinct(s) /\ \A w \in ToSet(s) : w = x \/ w = y \/ w = z
    BY <1>2, <1>4, <1>6, <1>7, ThreeInstrs
  <1> QED
    BY <1>1, <1>11, <1>12 DEF ProgramRight

\* The program of the client that chains its tasks.
LEMMA ProgramChain == ProgramRight("chain")
  <1>1. PICK s, x, y, z, w, b, d, e :
            /\ s = Program(<<"client", "chain">>)
            /\ b = <<"func", Unwrapped>> /\ d = <<"action", Daniel>> /\ e = <<"mres", Daniel>>
            /\ x = <<"delay", Hello>> /\ y = <<"subscribe", Hello, b>>
            /\ z = <<"subscribe", Unwrapped, d>> /\ w = <<"wait", Daniel>>
    OBVIOUS
  <1>2. s = <<x, y, z, w>>
    BY <1>1 DEF Program
  <1>3. /\ Hello \in Tasks /\ Hello \in DelayTasks
        /\ b \in Callbacks /\ d \in Callbacks /\ b \in Called /\ d \in Called /\ e \in Called
    BY <1>1, NamesFacts DEF Called, Callbacks
  <1>4. b # d /\ b # e /\ d # e /\ Hello # b /\ Hello # d /\ Hello # e
    <2>1. b # d /\ b # e /\ d # e
      BY <1>1
    <2> QED
      BY <2>1, <1>3, CallbackNames
  <1>5. Source(b) = Hello /\ Source(d) = Unwrapped /\ Hello # NoTask /\ Unwrapped # NoTask
    <2>1. Source(b) = Hello /\ Source(d) = Unwrapped
      BY <1>1 DEF Source, Daniel, Follow
    <2> QED
      BY <2>1 DEF Hello, Unwrapped, NoTask
  <1>6. x \in Instr /\ y \in Instr /\ z \in Instr /\ w \in Instr
    BY <1>1, <1>3, <1>5, NamesFacts, Instructions
  <1>7. Carries(x) = Hello /\ Carries(y) = b /\ Carries(z) = d /\ Carries(w) = e
    BY <1>1, CarriesFacts
  <1>8. Hello[1] = "chain" /\ b[2][1] = "chain" /\ d[2][1] = "chain" /\ e[2][1] = "chain" /\ Hello # All
    BY <1>1 DEF Hello, Unwrapped, Daniel, All
  <1>9. NotCaused(Hello) /\ NotCaused(b) /\ NotCaused(d) /\ NotCaused(e)
    BY <1>1, InitialCallbacks, InitialTasks
  <1>10. x[1] # "call" /\ y[1] # "call" /\ z[1] # "call" /\ w[1] # "call"
    BY <1>1
  <1>11. Begins("chain", y) /\ Begins("chain", z) /\ Begins("chain", w)
    BY <1>3, <1>7, <1>8, <1>9, <1>10, BeginsCallback
  <1>12. Begins("chain", x)
    BY <1>3, <1>7, <1>8, <1>9, <1>10, BeginsTask
  <1>13. /\ Carries(x) # Carries(y) /\ Carries(y) # Carries(z) /\ Carries(x) # Carries(z)
         /\ Carries(x) # Carries(w) /\ Carries(y) # Carries(w) /\ Carries(z) # Carries(w)
    BY <1>4, <1>7
  <1>14. s \in Seq(Instr) /\ Distinct(s) /\ \A v \in ToSet(s) : v = x \/ v = y \/ v = z \/ v = w
    BY <1>2, <1>6, <1>13, FourInstrs
  <1> QED
    BY <1>1, <1>11, <1>12, <1>14 DEF ProgramRight

\* e is a followed by b.
Joined(S, a, b, e) ==
    /\ e \in Seq(S) /\ Len(e) = Len(a) + Len(b)
    /\ \A i \in 1 .. Len(a) : e[i] = a[i]
    /\ \A i \in 1 .. Len(b) : e[Len(a) + i] = b[i]

\* The places of the elements of a concatenation.
LEMMA Concatenated ==
    ASSUME NEW S, NEW a \in Seq(S), NEW b \in Seq(S), NEW e, e = a \o b
    PROVE  Joined(S, a, b, e)
  BY DEF Joined

\* The runs, the subscriptions or, if there are no tasks, the completion, and the
\* wait of the WaitAll client, at their places.
LEMMA WaitAllPlaces ==
    ASSUME NEW s, s = Program(<<"client", "waitall">>),
           NEW n, n = (IF Jobs = 0 THEN 1 ELSE Jobs)
    PROVE  /\ s \in Seq(Instr)
           /\ Len(s) = Jobs + n + 1
           /\ \A i \in 1 .. Jobs : s[i] = <<"run", Job(i)>>
           /\ \A i \in 1 .. n : s[Jobs + i] =
                 IF Jobs = 0 THEN <<"set", All>>
                 ELSE <<"subscribe", Job(i), <<"countdown", Job(i)>>>>
           /\ s[Jobs + n + 1] = <<"wait", All>>
  <1>0. Jobs \in Nat
    BY MyTaskAssumption
  <1>1. PICK a, b, d :
            /\ a = [j \in 1 .. Jobs |-> <<"run", Job(j)>>]
            /\ b = (IF Jobs = 0 THEN <<<<"set", All>>>>
                    ELSE [j \in 1 .. Jobs |-> <<"subscribe", Job(j), <<"countdown", Job(j)>>>>])
            /\ d = <<<<"wait", All>>>>
    OBVIOUS
  <1>2. s = (a \o b) \o d
    BY <1>1 DEF Program
  <1>3. a \in Seq(Instr) /\ Len(a) = Jobs /\ \A i \in 1 .. Jobs : a[i] = <<"run", Job(i)>>
    <2>1. \A i \in 1 .. Jobs : <<"run", Job(i)>> \in Instr
      BY Instructions DEF JobTasks
    <2> QED
      BY <1>0, <1>1, <2>1
  <1>4. /\ b \in Seq(Instr) /\ Len(b) = n /\ n \in Nat
        /\ \A i \in 1 .. n : b[i] = IF Jobs = 0 THEN <<"set", All>>
                                    ELSE <<"subscribe", Job(i), <<"countdown", Job(i)>>>>
    <2>1. CASE Jobs = 0
      <3>1. <<"set", All>> \in Instr /\ n = 1 /\ b = <<<<"set", All>>>>
        BY <1>1, <2>1, NamesFacts, Instructions
      <3>2. b \in Seq(Instr) /\ Len(b) = 1 /\ b[1] = <<"set", All>>
        BY <3>1
      <3> QED
        BY <2>1, <3>1, <3>2
    <2>2. CASE Jobs # 0
      <3>1. n = Jobs /\ b = [j \in 1 .. Jobs |-> <<"subscribe", Job(j), <<"countdown", Job(j)>>>>]
        BY <1>1, <2>2
      <3>2. \A i \in 1 .. Jobs : <<"subscribe", Job(i), <<"countdown", Job(i)>>>> \in Instr
        <4>1. SUFFICES ASSUME NEW i \in 1 .. Jobs
                       PROVE  <<"subscribe", Job(i), <<"countdown", Job(i)>>>> \in Instr
          OBVIOUS
        <4>2. Job(i) \in JobTasks /\ Job(i) \in Tasks /\ <<"countdown", Job(i)>> \in Callbacks
          BY NamesFacts DEF JobTasks, Callbacks
        <4>3. Source(<<"countdown", Job(i)>>) = Job(i)
          BY DEF Source
        <4> QED
          BY <4>2, <4>3, TaskNames, Instructions
      <3> QED
        BY <1>0, <2>2, <3>1, <3>2
    <2> QED
      BY <2>1, <2>2
  <1>5. d \in Seq(Instr) /\ Len(d) = 1 /\ d[1] = <<"wait", All>>
    <2>1. PICK w : w = <<"wait", All>>
      OBVIOUS
    <2>2. w \in Instr
      BY <2>1, NamesFacts, Instructions
    <2>3. d = <<w>>
      BY <1>1, <2>1
    <2> QED
      BY <2>1, <2>2, <2>3
  <1>6. PICK e : e = a \o b
    OBVIOUS
  <1>7. /\ e \in Seq(Instr) /\ Len(e) = Jobs + n
        /\ \A i \in 1 .. Jobs : e[i] = a[i]
        /\ \A i \in 1 .. n : e[Jobs + i] = b[i]
    <2>1. e \in Seq(Instr) /\ Len(e) = Len(a) + Len(b)
          /\ (\A i \in 1 .. Len(a) : e[i] = a[i]) /\ (\A i \in 1 .. Len(b) : e[Len(a) + i] = b[i])
      <3>1. a \in Seq(Instr) /\ b \in Seq(Instr)
        BY <1>3, <1>4
      <3>2. Joined(Instr, a, b, e)
        BY <3>1, <1>6, Concatenated
      <3> QED
        BY <3>2 DEF Joined
    <2> QED
      BY <1>3, <1>4, <2>1
  <1>8. /\ s \in Seq(Instr) /\ Len(s) = Jobs + n + 1
        /\ \A i \in 1 .. Jobs + n : s[i] = e[i]
        /\ s[Jobs + n + 1] = d[1]
    <2>1. s = e \o d
      BY <1>2, <1>6
    <2>2. s \in Seq(Instr) /\ Len(s) = Len(e) + Len(d)
          /\ (\A i \in 1 .. Len(e) : s[i] = e[i]) /\ (\A i \in 1 .. Len(d) : s[Len(e) + i] = d[i])
      <3>1. e \in Seq(Instr) /\ d \in Seq(Instr)
        BY <1>5, <1>7
      <3>2. Joined(Instr, e, d, s)
        BY <3>1, <2>1, Concatenated
      <3> QED
        BY <3>2 DEF Joined
    <2> QED
      BY <1>0, <1>4, <1>5, <1>7, <2>2
  <1>9. ASSUME NEW i \in 1 .. n PROVE s[Jobs + i] = b[i]
    <2>1. Jobs + i \in 1 .. Jobs + n
      BY <1>0, <1>4
    <2> QED
      BY <2>1, <1>7, <1>8
  <1>10. ASSUME NEW i \in 1 .. Jobs PROVE s[i] = a[i]
    <2>1. i \in 1 .. Jobs + n
      BY <1>0, <1>4
    <2> QED
      BY <2>1, <1>7, <1>8
  <1> QED
    BY <1>3, <1>4, <1>5, <1>8, <1>9, <1>10

\* The program of the client that calls WaitAll.
LEMMA ProgramWaitAll == ProgramRight("waitall")
  <1>0. Jobs \in Nat
    BY MyTaskAssumption
  <1>1. PICK s, n, m : /\ s = Program(<<"client", "waitall">>)
                       /\ n = (IF Jobs = 0 THEN 1 ELSE Jobs)
                       /\ m = <<"mres", All>>
    OBVIOUS
  <1>2. n \in Nat
    BY <1>0, <1>1
  <1>3. /\ s \in Seq(Instr)
        /\ Len(s) = Jobs + n + 1
        /\ \A i \in 1 .. Jobs : s[i] = <<"run", Job(i)>>
        /\ \A i \in 1 .. n : s[Jobs + i] =
              IF Jobs = 0 THEN <<"set", All>>
              ELSE <<"subscribe", Job(i), <<"countdown", Job(i)>>>>
        /\ s[Jobs + n + 1] = <<"wait", All>>
    BY <1>1, WaitAllPlaces
  <1>4. \A i \in 1 .. Len(s) :
            \/ i \in 1 .. Jobs
            \/ \E j \in 1 .. n : i = Jobs + j
            \/ i = Jobs + n + 1
    <2>1. SUFFICES ASSUME NEW i \in 1 .. Len(s), i \notin 1 .. Jobs, i # Jobs + n + 1
                   PROVE  \E j \in 1 .. n : i = Jobs + j
      OBVIOUS
    <2>2. i - Jobs \in 1 .. n /\ i = Jobs + (i - Jobs)
      BY <1>0, <1>2, <1>3, <2>1
    <2> QED
      BY <2>2
  <1>5. ASSUME NEW i \in 1 .. Jobs
        PROVE  Carries(s[i]) = <<"action", Job(i)>> /\ Begins("waitall", s[i])
    <2>1. PICK cb : cb = <<"action", Job(i)>>
      OBVIOUS
    <2>2. Carries(s[i]) = cb /\ s[i][1] # "call"
      BY <1>3, <2>1, CarriesFacts
    <2>3. cb \in Called /\ cb[2][1] = "waitall"
      BY <2>1 DEF Called, Callbacks, JobTasks, Job
    <2>4. NotCaused(cb)
      BY <2>1, InitialCallbacks DEF JobTasks
    <2> QED
      BY <2>1, <2>2, <2>3, <2>4, BeginsCallback
  <1>6. ASSUME NEW i \in 1 .. n, Jobs # 0
        PROVE  Carries(s[Jobs + i]) = <<"countdown", Job(i)>> /\ Begins("waitall", s[Jobs + i])
    <2>1. PICK cb : cb = <<"countdown", Job(i)>>
      OBVIOUS
    <2>2. Carries(s[Jobs + i]) = cb /\ s[Jobs + i][1] # "call"
      <3>1. PICK x : x = s[Jobs + i]
        OBVIOUS
      <3>2. x = <<"subscribe", Job(i), cb>>
        BY <3>1, <1>3, <1>6, <2>1
      <3>3. Carries(x) = cb /\ x[1] # "call"
        BY <3>2, CarriesFacts
      <3> QED
        BY <3>1, <3>3
    <2>3. cb \in Called /\ cb[2][1] = "waitall"
      BY <1>1, <1>6, <2>1 DEF Called, Callbacks, JobTasks, Job
    <2>4. NotCaused(cb)
      BY <2>1, InitialCallbacks
    <2> QED
      BY <2>1, <2>2, <2>3, <2>4, BeginsCallback
  <1>7. ASSUME NEW i \in 1 .. n, Jobs = 0
        PROVE  Carries(s[Jobs + i]) = All /\ Begins("waitall", s[Jobs + i])
    <2>1. Carries(s[Jobs + i]) = All /\ s[Jobs + i][1] # "call"
      <3>1. PICK x : x = s[Jobs + i]
        OBVIOUS
      <3>2. x = <<"set", All>>
        BY <3>1, <1>3, <1>7
      <3>3. Carries(x) = All /\ x[1] # "call"
        BY <3>2, CarriesFacts
      <3> QED
        BY <3>1, <3>3
    <2>2. All \in Tasks /\ All[1] = "waitall"
      BY NamesFacts DEF All
    <2> QED
      BY <1>7, <2>1, <2>2, InitialTasks, BeginsTask
  <1>8. Carries(s[Jobs + n + 1]) = m /\ Begins("waitall", s[Jobs + n + 1])
    <2>1. Carries(s[Jobs + n + 1]) = m /\ s[Jobs + n + 1][1] # "call"
      BY <1>1, <1>3, CarriesFacts
    <2>2. m \in Called /\ m[2][1] = "waitall"
      <3>1. All \in Tasks
        BY NamesFacts
      <3>2. m \in Called
        BY <1>1, <3>1 DEF Called, Callbacks
      <3> QED
        BY <1>1, <3>2 DEF All
    <2>3. NotCaused(m)
      BY <1>1, InitialCallbacks
    <2> QED
      BY <2>1, <2>2, <2>3, BeginsCallback
  <1>9. \A x \in ToSet(s) : Begins("waitall", x)
    <2>1. \A i \in 1 .. Len(s) : Begins("waitall", s[i])
      BY <1>4, <1>5, <1>6, <1>7, <1>8
    <2> QED
      BY <2>1, <1>3, ToSetFacts
  <1>10. Distinct(s)
    <2>1. SUFFICES ASSUME NEW i \in 1 .. Len(s), NEW j \in 1 .. Len(s),
                          Carries(s[i]) = Carries(s[j])
                   PROVE  i = j
      BY DEF Distinct
    <2>2. \A k \in 1 .. Len(s) :
              \/ k \in 1 .. Jobs /\ Carries(s[k]) = <<"action", Job(k)>>
              \/ Jobs # 0 /\ k - Jobs \in 1 .. n /\ Carries(s[k]) = <<"countdown", Job(k - Jobs)>>
              \/ Jobs = 0 /\ k = 1 /\ Carries(s[k]) = All
              \/ k = Jobs + n + 1 /\ Carries(s[k]) = m
      <3>1. SUFFICES ASSUME NEW k \in 1 .. Len(s), k \notin 1 .. Jobs, k # Jobs + n + 1
                     PROVE  \/ Jobs # 0 /\ k - Jobs \in 1 .. n /\ Carries(s[k]) = <<"countdown", Job(k - Jobs)>>
                            \/ Jobs = 0 /\ k = 1 /\ Carries(s[k]) = All
        BY <1>5, <1>8
      <3>2. PICK l \in 1 .. n : k = Jobs + l
        BY <3>1, <1>4
      <3>3. l = k - Jobs
        BY <3>2, <1>0
      <3>4. CASE Jobs = 0
        BY <3>2, <3>4, <1>1, <1>7
      <3>5. CASE Jobs # 0
        BY <3>2, <3>3, <3>5, <1>6
      <3> QED
        BY <3>4, <3>5
    <2>3. /\ \A a, b : Job(a) = Job(b) => a = b
          /\ \A a, b : <<"action", a>> # <<"countdown", b>>
          /\ \A a : <<"action", a>> # m /\ <<"countdown", a>> # m /\ <<"action", a>> # All
          /\ m # All
      BY <1>1 DEF Job, All
    <2>4. CASE Jobs = 0
      BY <2>1, <2>2, <2>3, <2>4, <1>1, <1>3
    <2>5. CASE Jobs # 0
      <3>1. CASE i \in 1 .. Jobs
        BY <3>1, <2>1, <2>2, <2>3, <2>5, <1>0, <1>2
      <3>2. CASE i - Jobs \in 1 .. n /\ Carries(s[i]) = <<"countdown", Job(i - Jobs)>>
        <4>1. j - Jobs \in 1 .. n /\ Carries(s[j]) = <<"countdown", Job(j - Jobs)>>
          BY <3>2, <2>1, <2>2, <2>3, <2>5
        <4>2. i - Jobs = j - Jobs
          BY <3>2, <4>1, <2>1, <2>3
        <4> QED
          BY <4>2, <1>0, <1>2, <1>3
      <3>3. CASE i = Jobs + n + 1 /\ Carries(s[i]) = m
        BY <3>3, <2>1, <2>2, <2>3, <2>5
      <3> QED
        BY <2>2, <2>5, <3>1, <3>2, <3>3
    <2> QED
      BY <2>4, <2>5
  <1> QED
    BY <1>1, <1>3, <1>9, <1>10 DEF ProgramRight

\* Every client begins with what no callback brings forth.
LEMMA ProgramFacts ==
    ASSUME NEW c \in {"waitall", "iterate", "count", "chain", "twice"} PROVE ProgramRight(c)
  BY ProgramWaitAll, ProgramIterate, ProgramCount, ProgramChain, ProgramTwice

-----------------------------------------------------------------------------
(***************************************************************************)
(* Where callbacks and completions are.  C is what instructions carry, L   *)
(* what they call, S and Q the callbacks in slots and in the queue, R and  *)
(* D the ones that ran or were dropped, U the ones handed over, A the      *)
(* tasks whose timer runs, F the completed ones and r what remains.        *)
(***************************************************************************)

\* Nothing is in two places.
OnePlace(C, S, Q, R, D, A, F) ==
    /\ C \cap S = {} /\ C \cap Q = {} /\ C \cap R = {} /\ C \cap D = {}
    /\ S \cap Q = {} /\ S \cap R = {} /\ S \cap D = {}
    /\ Q \cap R = {} /\ Q \cap D = {} /\ R \cap D = {}
    /\ C \cap A = {} /\ C \cap F = {} /\ A \cap F = {}

\* What was handed over is somewhere.
Kept(L, S, Q, R, D, U) == \A cb \in U : cb \in L \/ cb \in S \/ cb \in Q \/ cb \in R \/ cb \in D

\* A callback is called after the task it waits for completed.
Released(L, Q, R, F) ==
    \A cb \in Called : cb \in L \/ cb \in Q \/ cb \in R => Source(cb) = NoTask \/ Source(cb) \in F

\* What a callback brings forth is there only after the callback was called.
AfterCause(C, S, Q, R, D, A, F) ==
    \A cb, k : Causes(cb, k) =>
        (k \in C \/ k \in S \/ k \in Q \/ k \in R \/ k \in D \/ k \in A \/ k \in F => cb \in R)

\* The jobs whose countdown ran.
CountedDown(R) == {j \in 1 .. Jobs : <<"countdown", Job(j)>> \in R}

\* remaining counts the others, and WaitAll's task completes when none is left.
Counting(C, R, F, r) ==
    /\ r \in Nat /\ r = Jobs - Cardinality(CountedDown(R))
    /\ All \in C \/ All \in F => r = 0

\* Iterate goes through its tasks in their order.
InOrder(R, F) ==
    \A k \in 1 .. Rounds : <<"moveNext", Delay(k)>> \in R => \A i \in 1 .. k : Delay(i) \in F

Kinds(C, S, Q, R, D, A, F) ==
    /\ C \subseteq Called \cup Tasks /\ S \subseteq Called /\ Q \subseteq Called
    /\ R \subseteq Called /\ D \subseteq Called /\ A \subseteq DelayTasks /\ F \subseteq Tasks

Placed(C, L, S, Q, R, D, A, F, U, r) ==
    /\ Kinds(C, S, Q, R, D, A, F)
    /\ OnePlace(C, S, Q, R, D, A, F)
    /\ Kept(L, S, Q, R, D, U)
    /\ Released(L, Q, R, F)
    /\ AfterCause(C, S, Q, R, D, A, F)
    /\ Counting(C, R, F, r)
    /\ InOrder(R, F)

\* The task of WaitAll has no timer.
LEMMA AllNoDelay == All \notin DelayTasks
  BY DEF All, DelayTasks, Delay, Pause, Hello, World

\* Callbacks are told apart from tasks.
LEMMA KindsApart == Called \cap Tasks = {}
  BY CallbackNames

\* A callback goes to the queue.
LEMMA QueueStep ==
    ASSUME NEW C, NEW L, NEW S, NEW Q, NEW R, NEW D, NEW A, NEW F, NEW U, NEW r,
           Placed(C, L, S, Q, R, D, A, F, U, r),
           NEW cb \in Called, cb \in C, Source(cb) = NoTask \/ Source(cb) \in F
    PROVE  Placed(C \ {cb}, L, S, Q \cup {cb}, R, D, A, F, U \cup {cb}, r)
  <1> USE KindsApart
  <1>1. Kinds(C \ {cb}, S, Q \cup {cb}, R, D, A, F)
    BY DEF Placed, Kinds
  <1>2. OnePlace(C \ {cb}, S, Q \cup {cb}, R, D, A, F)
    BY DEF Placed, OnePlace
  <1>3. Kept(L, S, Q \cup {cb}, R, D, U \cup {cb})
    BY DEF Placed, Kept
  <1>4. Released(L, Q \cup {cb}, R, F)
    BY DEF Placed, Released
  <1>5. AfterCause(C \ {cb}, S, Q \cup {cb}, R, D, A, F)
    BY DEF Placed, AfterCause
  <1>6. Counting(C \ {cb}, R, F, r)
    BY DEF Placed, Counting
  <1> QED
    BY <1>1, <1>2, <1>3, <1>4, <1>5, <1>6 DEF Placed

\* A callback goes into a slot, from where it pushes out the callbacks O.
LEMMA SlotStep ==
    ASSUME NEW C, NEW L, NEW S, NEW Q, NEW R, NEW D, NEW A, NEW F, NEW U, NEW r,
           Placed(C, L, S, Q, R, D, A, F, U, r),
           NEW cb \in Called, cb \in C, NEW O, O \subseteq S
    PROVE  Placed(C \ {cb}, L, (S \ O) \cup {cb}, Q, R, D \cup O, A, F, U \cup {cb}, r)
  <1>1. Kinds(C \ {cb}, (S \ O) \cup {cb}, Q, R, D \cup O, A, F)
    BY DEF Placed, Kinds
  <1>2. OnePlace(C \ {cb}, (S \ O) \cup {cb}, Q, R, D \cup O, A, F)
    BY DEF Placed, OnePlace
  <1>3. Kept(L, (S \ O) \cup {cb}, Q, R, D \cup O, U \cup {cb})
    BY DEF Placed, Kept
  <1>4. Released(L, Q, R, F)
    BY DEF Placed
  <1>5. AfterCause(C \ {cb}, (S \ O) \cup {cb}, Q, R, D \cup O, A, F)
    BY DEF Placed, AfterCause
  <1>6. Counting(C \ {cb}, R, F, r)
    BY DEF Placed, Counting
  <1> QED
    BY <1>1, <1>2, <1>3, <1>4, <1>5, <1>6 DEF Placed

\* A thread gives up what it carries, and calls the same.
LEMMA LeaveStep ==
    ASSUME NEW C, NEW L, NEW S, NEW Q, NEW R, NEW D, NEW A, NEW F, NEW U, NEW r,
           Placed(C, L, S, Q, R, D, A, F, U, r), NEW k
    PROVE  Placed(C \ {k}, L, S, Q, R, D, A, F, U, r)
  <1>1. Kinds(C \ {k}, S, Q, R, D, A, F)
    BY DEF Placed, Kinds
  <1>2. OnePlace(C \ {k}, S, Q, R, D, A, F)
    BY DEF Placed, OnePlace
  <1>3. AfterCause(C \ {k}, S, Q, R, D, A, F)
    BY DEF Placed, AfterCause
  <1>4. Counting(C \ {k}, R, F, r)
    BY DEF Placed, Counting
  <1> QED
    BY <1>1, <1>2, <1>3, <1>4 DEF Placed

\* A timer starts.
LEMMA ArmStep ==
    ASSUME NEW C, NEW L, NEW S, NEW Q, NEW R, NEW D, NEW A, NEW F, NEW U, NEW r,
           Placed(C, L, S, Q, R, D, A, F, U, r), NEW t \in DelayTasks, t \in C
    PROVE  Placed(C \ {t}, L, S, Q, R, D, A \cup {t}, F, U, r)
  <1>1. Kinds(C \ {t}, S, Q, R, D, A \cup {t}, F)
    BY DEF Placed, Kinds
  <1>2. OnePlace(C \ {t}, S, Q, R, D, A \cup {t}, F)
    BY DEF Placed, OnePlace
  <1>3. AfterCause(C \ {t}, S, Q, R, D, A \cup {t}, F)
    BY DEF Placed, AfterCause
  <1>4. Counting(C \ {t}, R, F, r)
    BY DEF Placed, Counting
  <1> QED
    BY <1>1, <1>2, <1>3, <1>4 DEF Placed

\* A timer fires.
LEMMA FireStep ==
    ASSUME NEW C, NEW L, NEW S, NEW Q, NEW R, NEW D, NEW A, NEW F, NEW U, NEW r,
           Placed(C, L, S, Q, R, D, A, F, U, r), NEW t \in A
    PROVE  Placed(C \cup {t}, L, S, Q, R, D, A \ {t}, F, U, r)
  <1> USE KindsApart
  <1>0. t \in Tasks /\ t # All
    BY NamesFacts, AllNoDelay DEF Placed, Kinds
  <1>1. Kinds(C \cup {t}, S, Q, R, D, A \ {t}, F)
    BY <1>0 DEF Placed, Kinds
  <1>2. OnePlace(C \cup {t}, S, Q, R, D, A \ {t}, F)
    BY <1>0 DEF Placed, OnePlace, Kinds
  <1>3. AfterCause(C \cup {t}, S, Q, R, D, A \ {t}, F)
    BY DEF Placed, AfterCause
  <1>4. Counting(C \cup {t}, R, F, r)
    BY <1>0 DEF Placed, Counting
  <1> QED
    BY <1>1, <1>2, <1>3, <1>4 DEF Placed

\* A worker takes a callback from the queue.
LEMMA TakeStep ==
    ASSUME NEW C, NEW L, NEW S, NEW Q, NEW R, NEW D, NEW A, NEW F, NEW U, NEW r,
           Placed(C, L, S, Q, R, D, A, F, U, r), NEW cb \in Q
    PROVE  Placed(C \cup {cb}, L \cup {cb}, S, Q \ {cb}, R, D, A, F, U, r)
  <1> USE KindsApart
  <1>0. A \subseteq Tasks
    BY NamesFacts DEF Placed, Kinds
  <1>1. Kinds(C \cup {cb}, S, Q \ {cb}, R, D, A, F)
    BY DEF Placed, Kinds
  <1>2. OnePlace(C \cup {cb}, S, Q \ {cb}, R, D, A, F)
    BY <1>0 DEF Placed, OnePlace, Kinds
  <1>3. Kept(L \cup {cb}, S, Q \ {cb}, R, D, U)
    BY DEF Placed, Kept
  <1>4. Released(L \cup {cb}, Q \ {cb}, R, F)
    BY DEF Placed, Released
  <1>5. AfterCause(C \cup {cb}, S, Q \ {cb}, R, D, A, F)
    BY DEF Placed, AfterCause
  <1>6. cb # All
    BY NamesFacts DEF Placed, Kinds
  <1>7. Counting(C \cup {cb}, R, F, r)
    BY <1>6 DEF Placed, Counting
  <1> QED
    BY <1>1, <1>2, <1>3, <1>4, <1>5, <1>7 DEF Placed

\* A task completes, and the callbacks O of its slot are called.
LEMMA DoneStep ==
    ASSUME NEW C, NEW L, NEW S, NEW Q, NEW R, NEW D, NEW A, NEW F, NEW U, NEW r,
           Placed(C, L, S, Q, R, D, A, F, U, r), NEW t \in Tasks, t \in C,
           NEW O, O \subseteq S, \A cb \in O : Source(cb) = t
    PROVE  Placed((C \ {t}) \cup O, L \cup O, S \ O, Q, R, D, A, F \cup {t}, U, r)
  <1> USE KindsApart
  <1>0. A \subseteq Tasks
    BY NamesFacts DEF Placed, Kinds
  <1>1. Kinds((C \ {t}) \cup O, S \ O, Q, R, D, A, F \cup {t})
    BY DEF Placed, Kinds
  <1>2. OnePlace((C \ {t}) \cup O, S \ O, Q, R, D, A, F \cup {t})
    BY <1>0 DEF Placed, OnePlace, Kinds
  <1>3. Kept(L \cup O, S \ O, Q, R, D, U)
    BY DEF Placed, Kept
  <1>4. Released(L \cup O, Q, R, F \cup {t})
    BY DEF Placed, Released
  <1>5. AfterCause((C \ {t}) \cup O, S \ O, Q, R, D, A, F \cup {t})
    BY DEF Placed, AfterCause
  <1>6. All \notin O
    BY NamesFacts DEF Placed, Kinds
  <1>7. Counting((C \ {t}) \cup O, R, F \cup {t}, r)
    BY <1>6 DEF Placed, Counting
  <1>8. InOrder(R, F \cup {t})
    BY DEF Placed, InOrder
  <1> QED
    BY <1>1, <1>2, <1>3, <1>4, <1>5, <1>7, <1>8 DEF Placed

-----------------------------------------------------------------------------
\* What a callback brings forth is brought forth by no other.
LEMMA CauseUnique ==
    ASSUME NEW b, NEW c, NEW k, Causes(b, k), Causes(c, k)
    PROVE  b = c
  <1>0. Rounds \in Nat
    BY MyTaskAssumption
  <1>1. ASSUME NEW j \in 1 .. Rounds, NEW x, Causes(x, Delay(j)) PROVE x = <<"moveNext", Delay(j - 1)>>
    BY <1>0, <1>1 DEF Causes, Delay, Iter, Pause, World, Unwrapped, JobTasks, Job, Shared,
                     Follow, Daniel
  <1>2. ASSUME NEW j \in 1 .. Rounds, NEW x, Causes(x, <<"moveNext", Delay(j)>>)
        PROVE  x = <<"moveNext", Delay(j - 1)>>
    BY <1>0, <1>2 DEF Causes, Delay, Iter, Pause, World, Unwrapped, JobTasks, Job, Shared,
                     Follow, Daniel
  <1>3. ASSUME NEW x, Causes(x, Iter) PROVE x = <<"moveNext", Delay(Rounds)>>
    BY <1>0, <1>3 DEF Causes, Delay, Iter, Pause, World, Unwrapped, JobTasks, Job, Shared,
                     Follow, Daniel
  <1>4. ASSUME NEW j \in 1 .. Rounds - 1, NEW x, Causes(x, Pause(j + 1)) PROVE x = <<"resume", Pause(j)>>
    BY <1>0, <1>4 DEF Causes, Delay, Iter, Pause, World, Unwrapped, JobTasks, Job, Shared,
                     Follow, Daniel
  <1>5. ASSUME NEW j \in 1 .. Rounds - 1, NEW x, Causes(x, <<"resume", Pause(j + 1)>>)
        PROVE  x = <<"resume", Pause(j)>>
    BY <1>0, <1>5 DEF Causes, Delay, Iter, Pause, World, Unwrapped, JobTasks, Job, Shared,
                     Follow, Daniel
  <1>6. ASSUME NEW j \in 1 .. Rounds, NEW x, Causes(x, <<"mres", Pause(j)>>)
        PROVE  x = <<"resume", Pause(j)>>
    BY <1>0, <1>6 DEF Causes, Delay, Iter, Pause, World, Unwrapped, JobTasks, Job, Shared,
                     Follow, Daniel
  <1>7. ASSUME NEW x, Causes(x, World) PROVE x = <<"func", Unwrapped>>
    BY <1>0, <1>7 DEF Causes, Delay, Iter, Pause, World, Unwrapped, JobTasks, Job, Shared,
                     Follow, Daniel
  <1>8. ASSUME NEW x, Causes(x, <<"unwrap", Unwrapped>>) PROVE x = <<"func", Unwrapped>>
    BY <1>0, <1>8 DEF Causes, Delay, Iter, Pause, World, Unwrapped, JobTasks, Job, Shared,
                     Follow, Daniel
  <1>9. ASSUME NEW x, Causes(x, Unwrapped) PROVE x = <<"unwrap", Unwrapped>>
    BY <1>0, <1>9 DEF Causes, Delay, Iter, Pause, World, Unwrapped, JobTasks, Job, Shared,
                     Follow, Daniel
  <1>10. ASSUME NEW t \in JobTasks \cup {Shared, Follow, Daniel}, NEW x, Causes(x, t)
         PROVE  x = <<"action", t>>
    BY <1>0, <1>10 DEF Causes, Delay, Iter, Pause, World, Unwrapped, JobTasks, Job, Shared,
                     Follow, Daniel
  <1> QED
    <2>1. CASE \E j \in 1 .. Rounds : k \in {Delay(j), <<"moveNext", Delay(j)>>}
      BY <2>1, <1>1, <1>2
    <2>2. CASE k = Iter
      BY <2>2, <1>3
    <2>3. CASE \E j \in 1 .. Rounds - 1 : k \in {Pause(j + 1), <<"resume", Pause(j + 1)>>}
      BY <2>3, <1>4, <1>5
    <2>4. CASE \E j \in 1 .. Rounds : k = <<"mres", Pause(j)>>
      BY <2>4, <1>6
    <2>5. CASE k \in {World, <<"unwrap", Unwrapped>>}
      BY <2>5, <1>7, <1>8
    <2>6. CASE k = Unwrapped
      BY <2>6, <1>9
    <2>7. CASE k \in JobTasks \cup {Shared, Follow, Daniel}
      BY <2>7, <1>10
    <2> QED
      BY <2>1, <2>2, <2>3, <2>4, <2>5, <2>6, <2>7 DEF Causes

\* MoveNext brings forth the next delay.
LEMMA CausesDelay ==
    ASSUME NEW k \in 1 .. Rounds PROVE Causes(<<"moveNext", Delay(k - 1)>>, Delay(k))
  BY DEF Causes

\* A countdown lowers the number of the ones that are left.
LEMMA CountedOne ==
    ASSUME NEW R, NEW j \in 1 .. Jobs, <<"countdown", Job(j)>> \notin R,
           NEW r \in Nat, r = Jobs - Cardinality(CountedDown(R))
    PROVE  /\ r >= 1
           /\ r - 1 = Jobs - Cardinality(CountedDown(R \cup {<<"countdown", Job(j)>>}))
  <1>0. Jobs \in Nat
    BY MyTaskAssumption
  <1>1. PICK X, Y : X = CountedDown(R) /\ Y = CountedDown(R \cup {<<"countdown", Job(j)>>})
    OBVIOUS
  <1>2. IsFiniteSet(1 .. Jobs) /\ Cardinality(1 .. Jobs) = Jobs
    BY <1>0, FS_Interval
  <1>3. X \subseteq 1 .. Jobs /\ j \notin X
    BY <1>1 DEF CountedDown
  <1>4. IsFiniteSet(X)
    BY <1>2, <1>3, FS_Subset
  <1>5. Y = X \cup {j}
    <2>1. \A i \in 1 .. Jobs : <<"countdown", Job(i)>> = <<"countdown", Job(j)>> => i = j
      BY DEF Job
    <2> QED
      BY <1>1, <2>1 DEF CountedDown
  <1>6. Cardinality(Y) = Cardinality(X) + 1 /\ IsFiniteSet(Y) /\ Cardinality(X) \in Nat
    BY <1>3, <1>4, <1>5, FS_AddElement, FS_CardinalityType
  <1>7. Cardinality(Y) <= Jobs
    <2>1. Y \subseteq 1 .. Jobs
      BY <1>3, <1>5
    <2> QED
      BY <1>2, <2>1, FS_Subset
  <1> QED
    BY <1>0, <1>1, <1>6, <1>7

\* What the body of a callback brings forth.
BroughtForth(cb, r, N) ==
    \A k \in N : /\ k \in Called \cup Tasks
                 /\ Causes(cb, k) \/ (k = All /\ cb[1] = "countdown" /\ r = 1)

\* It was nowhere before.
LEMMA ForthNew ==
    ASSUME NEW C, NEW L, NEW S, NEW Q, NEW R, NEW D, NEW A, NEW F, NEW U, NEW r,
           Placed(C, L, S, Q, R, D, A, F, U, r), NEW cb \in Called, cb \in C,
           NEW N, BroughtForth(cb, r, N), NEW k \in N
    PROVE  k \notin C /\ k \notin S /\ k \notin Q /\ k \notin R /\ k \notin D /\ k \notin A /\ k \notin F
  <1>1. CASE Causes(cb, k)
    BY <1>1 DEF Placed, OnePlace, AfterCause
  <1>2. CASE k = All /\ r = 1
    <2>1. All \notin C /\ All \notin F
      BY <1>2 DEF Placed, Counting
    <2>2. All \notin Called /\ All \notin DelayTasks
      BY NamesFacts, KindsApart, AllNoDelay
    <2> QED
      BY <1>2, <2>1, <2>2 DEF Placed, Kinds
  <1> QED
    BY <1>1, <1>2 DEF BroughtForth

\* A callback is called.
LEMMA CallStep ==
    ASSUME NEW C, NEW L, NEW S, NEW Q, NEW R, NEW D, NEW A, NEW F, NEW U, NEW r,
           Placed(C, L, S, Q, R, D, A, F, U, r), NEW cb \in Called, cb \in C, cb \in L,
           NEW N, BroughtForth(cb, r, N),
           NEW q, q = (IF cb[1] = "countdown" THEN r - 1 ELSE r)
    PROVE  Placed((C \ {cb}) \cup N, L \ {cb}, S, Q, R \cup {cb}, D, A, F, U, q)
  <1> USE KindsApart
  <1>0. \A k \in N : k \notin C /\ k \notin S /\ k \notin Q /\ k \notin R /\ k \notin D /\ k \notin A /\ k \notin F
    BY ForthNew
  <1>1. Kinds((C \ {cb}) \cup N, S, Q, R \cup {cb}, D, A, F)
    BY DEF Placed, Kinds, BroughtForth
  <1>2. OnePlace((C \ {cb}) \cup N, S, Q, R \cup {cb}, D, A, F)
    <2>1. N \cap S = {} /\ N \cap Q = {} /\ N \cap R = {} /\ N \cap D = {} /\ N \cap A = {} /\ N \cap F = {}
          /\ cb \notin N
      BY <1>0
    <2> QED
      BY <2>1 DEF Placed, OnePlace
  <1>3. Kept(L \ {cb}, S, Q, R \cup {cb}, D, U)
    BY DEF Placed, Kept
  <1>4. Released(L \ {cb}, Q, R \cup {cb}, F)
    BY DEF Placed, Released
  <1>5. AfterCause((C \ {cb}) \cup N, S, Q, R \cup {cb}, D, A, F)
    <2>1. \A b, k : Causes(b, k) /\ k \in N => b = cb
      <3>1. SUFFICES ASSUME NEW b, NEW k \in N, Causes(b, k) PROVE b = cb
        OBVIOUS
      <3>2. CASE Causes(cb, k)
        BY <3>1, <3>2, CauseUnique
      <3>3. CASE k = All
        BY <3>1, <3>3, InitialTasks DEF NotCaused
      <3> QED
        BY <3>2, <3>3 DEF BroughtForth
    <2> QED
      BY <2>1 DEF Placed, AfterCause
  <1>6. Counting((C \ {cb}) \cup N, R \cup {cb}, F, q)
    <2>1. CASE cb[1] = "countdown"
      <3>1. PICK j \in 1 .. Jobs : cb = <<"countdown", Job(j)>>
        BY <2>1 DEF Called, Callbacks, JobTasks
      <3>2. cb \notin R /\ r \in Nat /\ r = Jobs - Cardinality(CountedDown(R))
        BY DEF Placed, OnePlace, Counting
      <3>3. r >= 1 /\ r - 1 = Jobs - Cardinality(CountedDown(R \cup {cb}))
        BY <3>1, <3>2, CountedOne
      <3>4. All \notin C /\ All \notin F
        BY <3>3 DEF Placed, Counting
      <3>5. All \in N => r = 1
        BY InitialTasks DEF BroughtForth, NotCaused
      <3> QED
        BY <2>1, <3>2, <3>3, <3>4, <3>5 DEF Counting
    <2>2. CASE cb[1] # "countdown"
      <3>1. CountedDown(R \cup {cb}) = CountedDown(R)
        BY <2>2 DEF CountedDown
      <3>2. All \notin N
        BY <2>2, InitialTasks DEF BroughtForth, NotCaused
      <3> QED
        BY <2>2, <3>1, <3>2 DEF Placed, Counting
    <2> QED
      BY <2>1, <2>2
  <1>7. InOrder(R \cup {cb}, F)
    <2>1. SUFFICES ASSUME NEW k \in 1 .. Rounds, <<"moveNext", Delay(k)>> \in R \cup {cb},
                          NEW i \in 1 .. k
                   PROVE  Delay(i) \in F
      BY DEF InOrder
    <2>2. CASE <<"moveNext", Delay(k)>> \in R
      BY <2>1, <2>2 DEF Placed, InOrder
    <2>3. CASE cb = <<"moveNext", Delay(k)>>
      <3>1. Source(cb) = Delay(k) /\ Delay(k) # NoTask
        BY <2>3 DEF Source, Delay, Iter, NoTask
      <3>2. Delay(k) \in F
        BY <3>1 DEF Placed, Released
      <3>3. <<"moveNext", Delay(k - 1)>> \in R
        BY <3>2, CausesDelay DEF Placed, AfterCause
      <3>4. CASE i = k
        BY <3>2, <3>4
      <3>5. CASE i # k
        <4>1. k - 1 \in 1 .. Rounds /\ i \in 1 .. k - 1
          BY <3>5, MyTaskAssumption
        <4> QED
          BY <3>3, <4>1 DEF Placed, InOrder
      <3> QED
        BY <3>4, <3>5
    <2> QED
      BY <2>1, <2>2, <2>3
  <1> QED
    BY <1>1, <1>2, <1>3, <1>4, <1>5, <1>6, <1>7 DEF Placed

-----------------------------------------------------------------------------
(***************************************************************************)
(* The invariant.                                                          *)
(***************************************************************************)

\* What the instructions of the threads carry, and what they call.
CarriedNow == {Carries(x) : x \in Pending}
CalledNow == {cb \in Called : <<"call", cb>> \in Pending}

\* The callbacks in the slots of tasks that have not completed.
SlotOf(t) == IF completed[t] \/ continuation[t] = NoCallback THEN {} ELSE {continuation[t]}
InSlots == UNION {SlotOf(t) : t \in Tasks}

Done == {t \in Tasks : completed[t]}

\* A timer's thread has instructions only when its task is about to complete
\* or has completed: a task has one timer.
Timers == \A d \in DelayTasks : todo[d] # <<>> => <<"set", d>> \in Pending \/ completed[d]

\* No callback is in the queue twice.
OneItem == \A i, j \in 1 .. Len(workerItems) : workerItems[i] = workerItems[j] => i = j

Types ==
    /\ TypeOK
    /\ todo \in [Threads -> Seq(Instr)]
    /\ ran \subseteq Called /\ submitted \subseteq Callbacks /\ dropped \subseteq Callbacks
    /\ \A t \in Tasks : continuation[t] # NoCallback => Source(continuation[t]) = t

\* Every callback, and every completion, is in one place.
InPlace ==
    Placed(CarriedNow, CalledNow, InSlots, ToSet(workerItems), ran, dropped, armed, Done,
           submitted, remaining)

\* The inductive invariant.
IInv == Types /\ OneThread /\ OneItem /\ Timers /\ InPlace

-----------------------------------------------------------------------------
\* What the threads carry comes from their instructions, the first one included.
LEMMA PendingFacts ==
    ASSUME todo \in [Threads -> Seq(Instr)]
    PROVE  /\ Pending \subseteq Instr
           /\ \A x \in Pending : Carries(x) # NoCallback
           /\ \A th \in Threads : todo[th] # <<>> =>
                 Head(todo[th]) \in Instr
                 /\ (Carries(Head(todo[th])) # NoCallback => Head(todo[th]) \in Pending)
  <1>1. \A th \in Threads : Tokens(todo[th]) \subseteq Instr
    BY ToSetFacts DEF Tokens
  <1>2. \A x \in Pending : Carries(x) # NoCallback
    BY DEF Pending, Tokens
  <1>3. ASSUME NEW th \in Threads, todo[th] # <<>>
        PROVE  Head(todo[th]) \in Instr
               /\ (Carries(Head(todo[th])) # NoCallback => Head(todo[th]) \in Pending)
    <2>1. todo[th] \in Seq(Instr) /\ 1 \in 1 .. Len(todo[th]) /\ Head(todo[th]) = todo[th][1]
      BY <1>3
    <2>2. Head(todo[th]) \in ToSet(todo[th]) /\ Head(todo[th]) \in Instr
      BY <2>1, ToSetFacts
    <2> QED
      BY <2>2 DEF Pending, Tokens
  <1> QED
    BY <1>1, <1>2, <1>3 DEF Pending

\* Two instructions never carry the same.
LEMMA OneCarrier ==
    ASSUME todo \in [Threads -> Seq(Instr)], OneThread,
           NEW x \in Pending, NEW y \in Pending, Carries(x) = Carries(y)
    PROVE  x = y
  <1>1. PICK th \in Threads : x \in Tokens(todo[th])
    BY DEF Pending
  <1>2. PICK u \in Threads : y \in Tokens(todo[u])
    BY DEF Pending
  <1>3. th = u
    BY <1>1, <1>2 DEF OneThread
  <1>4. PICK s : s = todo[th]
    OBVIOUS
  <1>5. s \in Seq(Instr) /\ Distinct(s) /\ x \in Tokens(s) /\ y \in Tokens(s)
    BY <1>1, <1>2, <1>3, <1>4 DEF OneThread
  <1>6. PICK i \in 1 .. Len(s) : x = s[i] /\ Carries(x) # NoCallback
    BY <1>5, TokensFacts
  <1>7. PICK j \in 1 .. Len(s) : y = s[j]
    BY <1>5, TokensFacts
  <1> QED
    BY <1>5, <1>6, <1>7 DEF Distinct

-----------------------------------------------------------------------------
\* th replaced its first instruction by others, which carry N and call M.
MovedOn(th, N, M) ==
    /\ todo' \in [Threads -> Seq(Instr)]
    /\ OneThread'
    /\ Timers'
    /\ CarriedNow' = (CarriedNow \ {Carries(Head(todo[th]))}) \cup N
    /\ CalledNow' = {cb \in CalledNow : Head(todo[th]) # <<"call", cb>>} \cup M

\* Instructions that carry nothing another thread carries may take its place.
LEMMA MoveOn ==
    ASSUME todo \in [Threads -> Seq(Instr)], OneThread, Timers,
           NEW th \in Threads, todo[th] # <<>>,
           NEW s \in Seq(Instr), Distinct(s),
           \A x \in Tokens(s) : Carries(x) = Carries(Head(todo[th])) \/ Carries(x) \notin CarriedNow,
           Continue(th, s),
           \A d \in DelayTasks : completed[d] \/ Head(todo[th]) = <<"set", d>> => completed'[d],
           NEW N, N = {Carries(x) : x \in Tokens(s)},
           NEW M, M = {cb \in Called : <<"call", cb>> \in Tokens(s)}
    PROVE  MovedOn(th, N, M)
  <1>1. PICK h : h = Head(todo[th])
    OBVIOUS
  <1>2. h \in Instr /\ (Carries(h) # NoCallback => h \in Pending)
    BY <1>1, PendingFacts
  <1>3. Fits(th, s)
    <2>1. SUFFICES ASSUME NEW x \in Tokens(s), NEW y \in Pending, Carries(x) = Carries(y)
                   PROVE  y = h
      BY <1>1 DEF Fits
    <2>2. Carries(x) = Carries(h) /\ Carries(h) # NoCallback
      BY <2>1, <1>1, PendingFacts DEF CarriedNow
    <2> QED
      BY <2>1, <2>2, <1>2, OneCarrier
  <1>4. todo' = [todo EXCEPT ![th] = s \o Tail(todo[th])]
    BY DEF Continue
  <1>5. /\ todo' \in [Threads -> Seq(Instr)]
        /\ OneThread'
        /\ Pending' = (Pending \ {h}) \cup Tokens(s)
        /\ \A u \in Threads : u # th => todo'[u] = todo[u]
    BY <1>1, <1>3, <1>4, ContinueFacts
  <1>6. CarriedNow' = (CarriedNow \ {Carries(h)}) \cup N
    <2>1. CarriedNow' = {Carries(x) : x \in Pending'}
      BY DEF CarriedNow, Carries, NoCallback
    <2>2. \A y \in Pending : Carries(y) = Carries(h) => y = h
      BY <1>2, PendingFacts, OneCarrier
    <2> QED
      BY <1>5, <2>1, <2>2 DEF CarriedNow
  <1>7. CalledNow' = {cb \in CalledNow : h # <<"call", cb>>} \cup M
    <2>1. CalledNow' = {cb \in Called : <<"call", cb>> \in Pending'}
      BY DEF CalledNow
    <2> QED
      BY <1>5, <2>1 DEF CalledNow
  <1>8. Timers'
    <2>1. SUFFICES ASSUME NEW d \in DelayTasks, todo'[d] # <<>>
                   PROVE  <<"set", d>> \in Pending' \/ completed'[d]
      BY DEF Timers
    <2>2. d \in Threads
      BY DEF Threads
    <2>3. todo[d] # <<>>
      BY <2>1, <2>2, <1>5
    <2>4. <<"set", d>> \in Pending \/ completed[d]
      BY <2>3 DEF Timers
    <2> QED
      BY <2>4, <1>1, <1>5
  <1> QED
    BY <1>1, <1>5, <1>6, <1>7, <1>8 DEF MovedOn

\* What a sequence of no, one or two instructions carries and calls.
LEMMA TokensNone == Tokens(<<>>) = {} /\ <<>> \in Seq(Instr) /\ Distinct(<<>>)
  BY NoInstr DEF Tokens

\* One instruction that carries something.
LEMMA TokensOne ==
    ASSUME NEW x \in Instr, Carries(x) # NoCallback, NEW s, s = <<x>>
    PROVE  Tokens(s) = {x} /\ s \in Seq(Instr) /\ Distinct(s)
  <1>1. s \in Seq(Instr) /\ Distinct(s) /\ \A y \in ToSet(s) : y = x
    BY OneInstr
  <1>2. 1 \in 1 .. Len(s) /\ s[1] = x
    OBVIOUS
  <1>3. x \in ToSet(s)
    BY <1>1, <1>2, ToSetFacts
  <1> QED
    BY <1>1, <1>3 DEF Tokens

\* The last step of a thread's instruction: nothing takes its place.
LEMMA MoveOnNothing ==
    ASSUME todo \in [Threads -> Seq(Instr)], OneThread, Timers,
           NEW th \in Threads, todo[th] # <<>>, Continue(th, <<>>),
           \A d \in DelayTasks : completed[d] \/ Head(todo[th]) = <<"set", d>> => completed'[d]
    PROVE  MovedOn(th, {}, {})
  <1>1. PICK s : s = <<>>
    OBVIOUS
  <1>2. Tokens(s) = {} /\ s \in Seq(Instr) /\ Distinct(s)
    BY <1>1, TokensNone
  <1>3. PICK N, M : N = {Carries(x) : x \in Tokens(s)} /\ M = {cb \in Called : <<"call", cb>> \in Tokens(s)}
    OBVIOUS
  <1>4. N = {} /\ M = {}
    BY <1>2, <1>3
  <1>5. Continue(th, s)
    BY <1>1
  <1>6. MovedOn(th, N, M)
    BY <1>2, <1>3, <1>5, MoveOn
  <1> QED
    BY <1>4, <1>6

-----------------------------------------------------------------------------
(***************************************************************************)
(* The queue and the slots.                                                *)
(***************************************************************************)

\* The queue of the pool, when an item comes and when one is taken.
LEMMA QueueGets ==
    ASSUME workerItems \in Seq(Callbacks), OneItem, NEW cb \in Callbacks,
           cb \notin ToSet(workerItems), workerItems' = Append(workerItems, cb)
    PROVE  /\ workerItems' \in Seq(Callbacks) /\ OneItem'
           /\ ToSet(workerItems') = ToSet(workerItems) \cup {cb}
  <1>1. PICK q, r : q = workerItems /\ r = workerItems'
    OBVIOUS
  <1>2. /\ q \in Seq(Callbacks) /\ r \in Seq(Callbacks) /\ Len(q) \in Nat /\ Len(r) = Len(q) + 1
        /\ (\A i \in 1 .. Len(q) : r[i] = q[i]) /\ r[Len(q) + 1] = cb
    BY <1>1
  <1>3. \A x : x \in ToSet(q) <=> \E i \in 1 .. Len(q) : x = q[i]
    BY <1>2, ToSetFacts
  <1>4. \A x : x \in ToSet(r) <=> \E i \in 1 .. Len(r) : x = r[i]
    BY <1>2, ToSetFacts
  <1>5. \A i \in 1 .. Len(r) : i \in 1 .. Len(q) \/ i = Len(q) + 1
    BY <1>2
  <1>6. 1 .. Len(q) \subseteq 1 .. Len(r) /\ Len(q) + 1 \in 1 .. Len(r)
    BY <1>2
  <1>7. ToSet(r) = ToSet(q) \cup {cb}
    <2>1. ASSUME NEW x \in ToSet(r) PROVE x \in ToSet(q) \cup {cb}
      BY <2>1, <1>2, <1>3, <1>4, <1>5
    <2>2. ASSUME NEW x \in ToSet(q) \cup {cb} PROVE x \in ToSet(r)
      BY <2>2, <1>2, <1>3, <1>4, <1>6
    <2> QED
      BY <2>1, <2>2
  <1>8. \A i \in 1 .. Len(q) : r[i] # cb
    BY <1>1, <1>2, <1>3
  <1>9. \A i, j \in 1 .. Len(r) : r[i] = r[j] => i = j
    <2>1. \A i, j \in 1 .. Len(q) : q[i] = q[j] => i = j
      BY <1>1 DEF OneItem
    <2> QED
      BY <2>1, <1>2, <1>5, <1>8
  <1> QED
    BY <1>1, <1>2, <1>7, <1>9 DEF OneItem

\* A worker takes the oldest item.
LEMMA QueueGives ==
    ASSUME workerItems \in Seq(Callbacks), OneItem, workerItems # <<>>,
           workerItems' = Tail(workerItems)
    PROVE  /\ workerItems' \in Seq(Callbacks) /\ OneItem'
           /\ Head(workerItems) \in ToSet(workerItems)
           /\ ToSet(workerItems') = ToSet(workerItems) \ {Head(workerItems)}
  <1>1. PICK q, r : q = workerItems /\ r = workerItems'
    OBVIOUS
  <1>2. /\ q \in Seq(Callbacks) /\ r \in Seq(Callbacks) /\ Len(q) \in Nat /\ Len(q) >= 1
        /\ Len(r) = Len(q) - 1 /\ (\A i \in 1 .. Len(r) : r[i] = q[i + 1])
        /\ Head(workerItems) = q[1]
    BY <1>1
  <1>3. \A x : x \in ToSet(q) <=> \E i \in 1 .. Len(q) : x = q[i]
    BY <1>2, ToSetFacts
  <1>4. \A x : x \in ToSet(r) <=> \E i \in 1 .. Len(r) : x = r[i]
    BY <1>2, ToSetFacts
  <1>5. \A i, j \in 1 .. Len(q) : q[i] = q[j] => i = j
    BY <1>1 DEF OneItem
  <1>6. \A i \in 1 .. Len(r) : i + 1 \in 1 .. Len(q) /\ i + 1 # 1
    BY <1>2
  <1>7. 1 \in 1 .. Len(q)
    BY <1>2
  <1>8. ToSet(r) = ToSet(q) \ {q[1]}
    <2>1. ASSUME NEW x \in ToSet(r) PROVE x \in ToSet(q) /\ x # q[1]
      BY <2>1, <1>2, <1>3, <1>4, <1>5, <1>6, <1>7
    <2>2. ASSUME NEW x \in ToSet(q), x # q[1] PROVE x \in ToSet(r)
      <3>1. PICK i \in 1 .. Len(q) : x = q[i]
        BY <2>2, <1>3
      <3>2. i - 1 \in 1 .. Len(r) /\ r[i - 1] = q[i]
        <4>1. i # 1
          BY <3>1, <2>2
        <4>2. i - 1 \in 1 .. Len(r) /\ (i - 1) + 1 = i
          BY <4>1, <1>2
        <4> QED
          BY <4>2, <1>2
      <3> QED
        BY <3>1, <3>2, <1>4
    <2> QED
      BY <2>1, <2>2
  <1>9. \A i, j \in 1 .. Len(r) : r[i] = r[j] => i = j
    <2>1. SUFFICES ASSUME NEW i \in 1 .. Len(r), NEW j \in 1 .. Len(r), r[i] = r[j] PROVE i = j
      OBVIOUS
    <2>2. i + 1 = j + 1
      BY <2>1, <1>2, <1>5, <1>6
    <2> QED
      BY <2>2
  <1> QED
    BY <1>1, <1>2, <1>3, <1>7, <1>8, <1>9 DEF OneItem

-----------------------------------------------------------------------------
\* The slots, when a callback comes into one.
LEMMA SlotGets ==
    ASSUME continuation \in [Tasks -> Callbacks \cup {NoCallback}],
           \A u \in Tasks : continuation[u] # NoCallback => Source(continuation[u]) = u,
           NEW t \in Tasks, ~completed[t], NEW cb \in Callbacks, Source(cb) = t,
           completed' = completed,
           continuation' = [continuation EXCEPT ![t] = cb]
    PROVE  /\ continuation' \in [Tasks -> Callbacks \cup {NoCallback}]
           /\ \A u \in Tasks : continuation'[u] # NoCallback => Source(continuation'[u]) = u
           /\ SlotOf(t) = {continuation[t]} \ {NoCallback}
           /\ InSlots' = (InSlots \ SlotOf(t)) \cup {cb}
  <1>1. cb # NoCallback
    BY CallbackNames DEF Called
  <1>2. \A u \in Tasks : continuation'[u] = IF u = t THEN cb ELSE continuation[u]
    OBVIOUS
  <1>3. SlotOf(t) = {continuation[t]} \ {NoCallback}
    BY DEF SlotOf
  <1>4. InSlots' = UNION {SlotOf(u)' : u \in Tasks}
    BY DEF InSlots
  <1>5. \A u \in Tasks : SlotOf(u)' = IF u = t THEN {cb} ELSE SlotOf(u)
    BY <1>1, <1>2 DEF SlotOf
  <1>6. \A u \in Tasks : u # t => SlotOf(u) \cap SlotOf(t) = {}
    BY DEF SlotOf
  <1>7. InSlots' = (InSlots \ SlotOf(t)) \cup {cb}
    BY <1>4, <1>5, <1>6 DEF InSlots
  <1> QED
    BY <1>2, <1>3, <1>7

\* The slots, when a task completes.
LEMMA SlotDone ==
    ASSUME completed \in [Tasks -> BOOLEAN],
           continuation \in [Tasks -> Callbacks \cup {NoCallback}],
           \A u \in Tasks : continuation[u] # NoCallback => Source(continuation[u]) = u,
           NEW t \in Tasks,
           completed' = [completed EXCEPT ![t] = TRUE],
           continuation' = continuation
    PROVE  /\ completed' \in [Tasks -> BOOLEAN]
           /\ Done' = Done \cup {t}
           /\ InSlots' = InSlots \ SlotOf(t)
           /\ \A cb \in SlotOf(t) : Source(cb) = t
  <1>1. \A u \in Tasks : completed'[u] = IF u = t THEN TRUE ELSE completed[u]
    OBVIOUS
  <1>2. InSlots' = UNION {SlotOf(u)' : u \in Tasks}
    BY DEF InSlots
  <1>3. \A u \in Tasks : SlotOf(u)' = IF u = t THEN {} ELSE SlotOf(u)
    BY <1>1 DEF SlotOf
  <1>4. \A u \in Tasks : u # t => SlotOf(u) \cap SlotOf(t) = {}
    BY DEF SlotOf
  <1>5. InSlots' = InSlots \ SlotOf(t)
    BY <1>2, <1>3, <1>4 DEF InSlots
  <1>6. Done' = Done \cup {t}
    BY <1>1 DEF Done
  <1>7. \A cb \in SlotOf(t) : Source(cb) = t
    BY DEF SlotOf
  <1> QED
    BY <1>5, <1>6, <1>7

-----------------------------------------------------------------------------
(***************************************************************************)
(* The actions.                                                            *)
(***************************************************************************)

\* A callback for the task t was handed over, to its slot or to the pool.
HandedOver(cb) ==
    /\ workerItems' \in Seq(Callbacks) /\ OneItem'
    /\ continuation' \in [Tasks -> Callbacks \cup {NoCallback}]
    /\ \A u \in Tasks : continuation'[u] # NoCallback => Source(continuation'[u]) = u
    /\ submitted' \subseteq Callbacks /\ dropped' \subseteq Callbacks
    /\ Placed(CarriedNow \ {cb}, CalledNow, InSlots', ToSet(workerItems'), ran, dropped', armed,
              Done, submitted', remaining)

\* Submit puts the callback into one place, and loses none.
LEMMA SubmitFacts ==
    ASSUME IInv, NEW t \in Tasks, NEW cb \in Callbacks, Source(cb) = t, cb \in CarriedNow,
           Submit(t, cb), completed' = completed
    PROVE  HandedOver(cb)
  <1>1. /\ workerItems \in Seq(Callbacks)
        /\ continuation \in [Tasks -> Callbacks \cup {NoCallback}]
        /\ \A u \in Tasks : continuation[u] # NoCallback => Source(continuation[u]) = u
        /\ submitted \subseteq Callbacks /\ dropped \subseteq Callbacks /\ OneItem
    BY DEF IInv, Types, TypeOK
  <1>2. InPlace /\ cb \in Called
    BY DEF IInv, Called
  <1>3. cb \notin ToSet(workerItems)
    BY <1>2 DEF InPlace, Placed, OnePlace
  <1>4. submitted' = submitted \cup {cb}
    BY DEF Submit
  <1>5. CASE completed[t]
    <2>1. workerItems' = Append(workerItems, cb) /\ continuation' = continuation /\ dropped' = dropped
      BY <1>5 DEF Submit
    <2>2. /\ workerItems' \in Seq(Callbacks) /\ OneItem'
          /\ ToSet(workerItems') = ToSet(workerItems) \cup {cb}
      BY <1>1, <1>3, <2>1, QueueGets
    <2>3. InSlots' = InSlots
      BY <2>1 DEF InSlots, SlotOf
    <2>4. Source(cb) \in Done
      BY <1>5 DEF Done
    <2>5. Placed(CarriedNow \ {cb}, CalledNow, InSlots, ToSet(workerItems) \cup {cb}, ran, dropped,
                 armed, Done, submitted \cup {cb}, remaining)
      BY <1>2, <2>4, QueueStep DEF InPlace
    <2> QED
      BY <1>1, <1>4, <2>1, <2>2, <2>3, <2>5 DEF HandedOver
  <1>6. CASE ~completed[t]
    <2>1. /\ workerItems' = workerItems
          /\ continuation' = [continuation EXCEPT ![t] = cb]
          /\ dropped' = dropped \cup ({continuation[t]} \ {NoCallback})
      BY <1>6 DEF Submit
    <2>2. /\ continuation' \in [Tasks -> Callbacks \cup {NoCallback}]
          /\ \A u \in Tasks : continuation'[u] # NoCallback => Source(continuation'[u]) = u
          /\ SlotOf(t) = {continuation[t]} \ {NoCallback}
          /\ InSlots' = (InSlots \ SlotOf(t)) \cup {cb}
      BY <1>1, <1>6, <2>1, SlotGets
    <2>3. SlotOf(t) \subseteq InSlots /\ SlotOf(t) \subseteq Callbacks
      BY <1>1, <2>2 DEF InSlots
    <2>4. Placed(CarriedNow \ {cb}, CalledNow, (InSlots \ SlotOf(t)) \cup {cb}, ToSet(workerItems),
                 ran, dropped \cup SlotOf(t), armed, Done, submitted \cup {cb}, remaining)
      BY <1>2, <2>3, SlotStep DEF InPlace
    <2>5. OneItem'
      BY <1>1, <2>1 DEF OneItem
    <2> QED
      BY <1>1, <1>4, <2>1, <2>2, <2>3, <2>4, <2>5 DEF HandedOver
  <1> QED
    BY <1>5, <1>6

\* Facts of a step that th takes for its first instruction h.
LEMMA AtFacts ==
    ASSUME IInv, NEW th \in Threads, todo[th] # <<>>, NEW h, h = Head(todo[th])
    PROVE  /\ todo \in [Threads -> Seq(Instr)] /\ OneThread /\ Timers
           /\ h \in Instr
           /\ Carries(h) # NoCallback => h \in Pending /\ Carries(h) \in CarriedNow
  BY PendingFacts DEF IInv, Types, CarriedNow

\* Counters that do not change keep their types.
LEMMA StayTyped ==
    ASSUME IInv, remaining' = remaining, signalled' = signalled, ran' = ran
    PROVE  remaining' \in 0 .. Jobs /\ signalled' \subseteq Tasks /\ ran' \subseteq Called
  BY DEF IInv, Types, TypeOK

\* Slots that do not change.
LEMMA SameSlots ==
    ASSUME completed' = completed, continuation' = continuation
    PROVE  InSlots' = InSlots /\ Done' = Done
  BY DEF InSlots, SlotOf, Done

\* ContinueWith keeps the invariant.
LEMMA StepContinueWith ==
    ASSUME IInv, NEW th \in Threads, ContinueWith(th)
    PROVE  IInv'
  <1>1. PICK h : h = Head(todo[th])
    OBVIOUS
  <1>2. /\ todo[th] # <<>> /\ h[1] = "subscribe"
        /\ Submit(h[2], h[3]) /\ Continue(th, <<>>)
        /\ completed' = completed /\ armed' = armed /\ remaining' = remaining
        /\ signalled' = signalled /\ ran' = ran
    BY <1>1 DEF ContinueWith, At, Arg, counters
  <1>3. /\ todo \in [Threads -> Seq(Instr)] /\ OneThread /\ Timers /\ h \in Instr
        /\ Carries(h) # NoCallback => h \in Pending /\ Carries(h) \in CarriedNow
    BY <1>1, <1>2, AtFacts
  <1>4. PICK cb \in Callbacks : Source(cb) # NoTask /\ h = <<"subscribe", Source(cb), cb>>
    BY <1>2, <1>3, InstrShapes
  <1>5. Source(cb) \in Tasks /\ cb # NoCallback /\ h[2] = Source(cb) /\ h[3] = cb
    BY <1>4, SourceFacts, CallbackNames DEF Called
  <1>6. Carries(h) = cb /\ cb \in CarriedNow
    BY <1>3, <1>4, <1>5, CarriesFacts
  <1>7. HandedOver(cb)
    BY <1>2, <1>5, <1>6, SubmitFacts
  <1>8. MovedOn(th, {}, {})
    BY <1>1, <1>2, <1>3, <1>4, MoveOnNothing
  <1>9. CarriedNow' = CarriedNow \ {cb} /\ CalledNow' = CalledNow /\ Done' = Done
    BY <1>1, <1>2, <1>4, <1>6, <1>8 DEF MovedOn, Done
  <1>10. Types'
    <2>1. remaining' \in 0 .. Jobs /\ signalled' \subseteq Tasks /\ ran' \subseteq Called
      BY <1>2, StayTyped
    <2>2. completed' \in [Tasks -> BOOLEAN] /\ armed' \subseteq DelayTasks
      BY <1>2 DEF IInv, Types, TypeOK
    <2> QED
      BY <1>7, <1>8, <2>1, <2>2 DEF HandedOver, MovedOn, Types, TypeOK
  <1>11. InPlace'
    BY <1>2, <1>7, <1>9 DEF HandedOver, InPlace
  <1> QED
    BY <1>7, <1>8, <1>10, <1>11 DEF HandedOver, MovedOn, IInv

\* Steps that only give up the first instruction.
LEMMA StepLeave ==
    ASSUME IInv, NEW th \in Threads, todo[th] # <<>>, Continue(th, <<>>),
           Head(todo[th])[1] \in {"unlock", "block", "wait"},
           UNCHANGED <<completed, workerItems, armed, slots, counters>>
    PROVE  IInv'
  <1>1. PICK h : h = Head(todo[th])
    OBVIOUS
  <1>2. /\ completed' = completed /\ armed' = armed /\ remaining' = remaining
        /\ workerItems' = workerItems /\ continuation' = continuation /\ dropped' = dropped
        /\ submitted' = submitted /\ signalled' = signalled /\ ran' = ran
    BY DEF slots, counters
  <1>3. /\ todo \in [Threads -> Seq(Instr)] /\ OneThread /\ Timers /\ h \in Instr
    BY <1>1, AtFacts
  <1>4. MovedOn(th, {}, {})
    BY <1>1, <1>2, <1>3, MoveOnNothing
  <1>5. CarriedNow' = CarriedNow \ {Carries(h)} /\ CalledNow' = CalledNow
    BY <1>1, <1>4 DEF MovedOn
  <1>6. InSlots' = InSlots /\ Done' = Done
    BY <1>2, SameSlots
  <1>7. Placed(CarriedNow \ {Carries(h)}, CalledNow, InSlots, ToSet(workerItems), ran, dropped,
               armed, Done, submitted, remaining)
    BY LeaveStep DEF IInv, InPlace
  <1>8. Types' /\ OneItem'
    BY <1>2, <1>4 DEF MovedOn, IInv, Types, TypeOK, OneItem
  <1>9. InPlace'
    BY <1>2, <1>5, <1>6, <1>7 DEF InPlace
  <1> QED
    BY <1>4, <1>8, <1>9 DEF MovedOn, IInv

\* Leaving the lock of Complete keeps the invariant.
LEMMA StepUnlock ==
    ASSUME IInv, NEW th \in Threads, Unlock(th) PROVE IInv'
  <1>1. /\ todo[th] # <<>> /\ Continue(th, <<>>) /\ Head(todo[th])[1] = "unlock"
        /\ UNCHANGED <<completed, workerItems, armed, slots, counters>>
    BY DEF Unlock, At
  <1> QED
    BY <1>1, StepLeave

\* The end of mres.Wait keeps the invariant.
LEMMA StepWake ==
    ASSUME IInv, NEW th \in Threads, Wake(th) PROVE IInv'
  <1>1. /\ todo[th] # <<>> /\ Continue(th, <<>>) /\ Head(todo[th])[1] = "block"
        /\ UNCHANGED <<completed, workerItems, armed, slots, counters>>
    BY DEF Wake, At
  <1> QED
    BY <1>1, StepLeave

-----------------------------------------------------------------------------
\* A thread in mres.Wait carries nothing.
LEMMA TokensBlock ==
    ASSUME NEW t \in Tasks, NEW s, s = <<<<"block", t>>>>
    PROVE  Tokens(s) = {} /\ s \in Seq(Instr) /\ Distinct(s)
  <1>1. PICK x : x = <<"block", t>>
    OBVIOUS
  <1>2. x \in Instr /\ Carries(x) = NoCallback
    BY <1>1, Instructions, CarriesFacts
  <1>3. s = <<x>>
    BY <1>1
  <1>4. s \in Seq(Instr) /\ Distinct(s) /\ \A y \in ToSet(s) : y = x
    BY <1>2, <1>3, OneInstr
  <1> QED
    BY <1>2, <1>4 DEF Tokens

\* Wait keeps the invariant.
LEMMA StepWait ==
    ASSUME IInv, NEW th \in Threads, Wait(th)
    PROVE  IInv'
  <1>1. PICK h : h = Head(todo[th])
    OBVIOUS
  <1>2. /\ todo[th] # <<>> /\ h[1] = "wait"
        /\ completed' = completed /\ armed' = armed /\ UNCHANGED counters
        /\ remaining' = remaining /\ signalled' = signalled /\ ran' = ran
    BY <1>1 DEF Wait, At, Arg, counters
  <1>3. /\ todo \in [Threads -> Seq(Instr)] /\ OneThread /\ Timers /\ h \in Instr
        /\ Carries(h) # NoCallback => h \in Pending /\ Carries(h) \in CarriedNow
    BY <1>1, <1>2, AtFacts
  <1>4. PICK t \in Tasks : h = <<"wait", t>>
    BY <1>2, <1>3, InstrShapes
  <1>5. Arg(th) = t
    BY <1>1, <1>4 DEF Arg
  <1>6. CASE completed[t]
    <2>1. Continue(th, <<>>) /\ UNCHANGED <<workerItems, continuation, submitted, dropped>>
      BY <1>5, <1>6 DEF Wait
    <2>2. UNCHANGED <<completed, workerItems, armed, slots, counters>>
      BY <1>2, <2>1 DEF slots, counters
    <2>3. Head(todo[th])[1] = "wait"
      BY <1>1, <1>2
    <2> QED
      BY <1>2, <2>1, <2>2, <2>3, StepLeave
  <1>7. CASE ~completed[t]
    <2>1. PICK cb, s : cb = <<"mres", t>> /\ s = <<<<"block", t>>>>
      OBVIOUS
    <2>2. Submit(t, cb) /\ Continue(th, s)
      BY <1>5, <1>7, <2>1 DEF Wait
    <2>3. cb \in Callbacks /\ Source(cb) = t
      BY <2>1 DEF Callbacks, Source
    <2>4. Carries(h) = cb /\ cb # NoCallback
      BY <1>4, <2>1, <2>3, CarriesFacts, CallbackNames DEF Called
    <2>5. cb \in CarriedNow
      BY <1>3, <2>4
    <2>6. HandedOver(cb)
      BY <1>2, <2>2, <2>3, <2>5, SubmitFacts
    <2>7. Tokens(s) = {} /\ s \in Seq(Instr) /\ Distinct(s)
      BY <2>1, TokensBlock
    <2>8. PICK N, M : N = {Carries(x) : x \in Tokens(s)} /\ M = {c \in Called : <<"call", c>> \in Tokens(s)}
      OBVIOUS
    <2>9. N = {} /\ M = {}
      BY <2>7, <2>8
    <2>10. MovedOn(th, N, M)
      BY <1>1, <1>2, <1>3, <1>4, <2>2, <2>7, <2>8, MoveOn
    <2>11. CarriedNow' = CarriedNow \ {cb} /\ CalledNow' = CalledNow /\ Done' = Done
      BY <1>1, <1>2, <1>4, <2>4, <2>9, <2>10 DEF MovedOn, Done
    <2>12. Types'
      <3>1. remaining' \in 0 .. Jobs /\ signalled' \subseteq Tasks /\ ran' \subseteq Called
        BY <1>2, StayTyped
      <3>2. completed' \in [Tasks -> BOOLEAN] /\ armed' \subseteq DelayTasks
        BY <1>2 DEF IInv, Types, TypeOK
      <3> QED
        BY <2>6, <2>10, <3>1, <3>2 DEF HandedOver, MovedOn, Types, TypeOK
    <2>13. InPlace'
      BY <1>2, <2>6, <2>11 DEF HandedOver, InPlace
    <2> QED
      BY <2>6, <2>10, <2>12, <2>13 DEF HandedOver, MovedOn, IInv
  <1> QED
    BY <1>6, <1>7

\* Run keeps the invariant.
LEMMA StepRun ==
    ASSUME IInv, NEW th \in Threads, Run(th)
    PROVE  IInv'
  <1>1. PICK h : h = Head(todo[th])
    OBVIOUS
  <1>2. /\ todo[th] # <<>> /\ h[1] = "run" /\ Continue(th, <<>>)
        /\ completed' = completed /\ armed' = armed /\ remaining' = remaining
        /\ continuation' = continuation /\ dropped' = dropped
        /\ signalled' = signalled /\ ran' = ran
        /\ workerItems' = Append(workerItems, <<"action", h[2]>>)
        /\ submitted' = submitted \cup {<<"action", h[2]>>}
    BY <1>1 DEF Run, At, Arg, counters
  <1>3. /\ todo \in [Threads -> Seq(Instr)] /\ OneThread /\ Timers /\ h \in Instr
        /\ Carries(h) # NoCallback => h \in Pending /\ Carries(h) \in CarriedNow
    BY <1>1, <1>2, AtFacts
  <1>4. PICK t \in JobTasks \cup {Shared} : h = <<"run", t>>
    BY <1>2, <1>3, InstrShapes
  <1>5. PICK cb : cb = <<"action", t>>
    OBVIOUS
  <1>6. cb \in Callbacks /\ cb \in Called /\ <<"action", h[2]>> = cb
    BY <1>4, <1>5 DEF Callbacks, Called
  <1>7. Source(cb) = NoTask
    <2>1. t # Daniel /\ t # Follow
      BY DEF JobTasks, Job, Shared, Daniel, Follow
    <2> QED
      BY <1>5, <2>1 DEF Source
  <1>8. Carries(h) = cb /\ cb \in CarriedNow
    BY <1>3, <1>4, <1>5, <1>6, CarriesFacts, CallbackNames
  <1>9. cb \notin ToSet(workerItems)
    BY <1>8 DEF IInv, InPlace, Placed, OnePlace
  <1>10. /\ workerItems' \in Seq(Callbacks) /\ OneItem'
         /\ ToSet(workerItems') = ToSet(workerItems) \cup {cb}
    BY <1>2, <1>6, <1>9, QueueGets DEF IInv, Types, TypeOK
  <1>11. Placed(CarriedNow \ {cb}, CalledNow, InSlots, ToSet(workerItems) \cup {cb}, ran, dropped,
                armed, Done, submitted \cup {cb}, remaining)
    BY <1>6, <1>7, <1>8, QueueStep DEF IInv, InPlace
  <1>12. MovedOn(th, {}, {})
    BY <1>1, <1>2, <1>3, <1>4, MoveOnNothing
  <1>13. CarriedNow' = CarriedNow \ {cb} /\ CalledNow' = CalledNow
    BY <1>1, <1>4, <1>8, <1>12 DEF MovedOn
  <1>14. InSlots' = InSlots /\ Done' = Done
    BY <1>2, SameSlots
  <1>15. Types'
    BY <1>2, <1>6, <1>10, <1>12 DEF MovedOn, IInv, Types, TypeOK
  <1>16. InPlace'
    BY <1>2, <1>6, <1>10, <1>11, <1>13, <1>14 DEF InPlace
  <1> QED
    BY <1>10, <1>12, <1>15, <1>16 DEF MovedOn, IInv

\* Delay keeps the invariant.
LEMMA StepStartDelay ==
    ASSUME IInv, NEW th \in Threads, StartDelay(th)
    PROVE  IInv'
  <1>1. PICK h : h = Head(todo[th])
    OBVIOUS
  <1>2. /\ todo[th] # <<>> /\ h[1] = "delay" /\ Continue(th, <<>>)
        /\ completed' = completed /\ armed' = armed \cup {h[2]} /\ remaining' = remaining
        /\ workerItems' = workerItems /\ continuation' = continuation /\ dropped' = dropped
        /\ submitted' = submitted /\ signalled' = signalled /\ ran' = ran
    BY <1>1 DEF StartDelay, At, Arg, slots, counters
  <1>3. /\ todo \in [Threads -> Seq(Instr)] /\ OneThread /\ Timers /\ h \in Instr
        /\ Carries(h) # NoCallback => h \in Pending /\ Carries(h) \in CarriedNow
    BY <1>1, <1>2, AtFacts
  <1>4. PICK d \in DelayTasks : h = <<"delay", d>>
    BY <1>2, <1>3, InstrShapes
  <1>5. Carries(h) = d /\ h[2] = d /\ d \in CarriedNow
    BY <1>3, <1>4, CarriesFacts, NamesFacts, TaskNames
  <1>6. MovedOn(th, {}, {})
    BY <1>1, <1>2, <1>3, <1>4, MoveOnNothing
  <1>7. CarriedNow' = CarriedNow \ {d} /\ CalledNow' = CalledNow
    BY <1>1, <1>4, <1>5, <1>6 DEF MovedOn
  <1>8. Placed(CarriedNow \ {d}, CalledNow, InSlots, ToSet(workerItems), ran, dropped,
               armed \cup {d}, Done, submitted, remaining)
    BY <1>5, ArmStep DEF IInv, InPlace
  <1>9. InSlots' = InSlots /\ Done' = Done
    BY <1>2, SameSlots
  <1>10. Types' /\ OneItem'
    BY <1>2, <1>5, <1>6 DEF MovedOn, IInv, Types, TypeOK, OneItem
  <1>11. InPlace'
    BY <1>2, <1>5, <1>7, <1>8, <1>9 DEF InPlace
  <1> QED
    BY <1>6, <1>10, <1>11 DEF MovedOn, IInv

\* An await keeps the invariant: the callback stays on its thread.
LEMMA StepAwait ==
    ASSUME IInv, NEW th \in Threads, Await(th)
    PROVE  IInv'
  <1>1. PICK h : h = Head(todo[th])
    OBVIOUS
  <1>2. /\ todo[th] # <<>> /\ h[1] = "await"
        /\ completed' = completed /\ armed' = armed /\ remaining' = remaining
        /\ workerItems' = workerItems /\ continuation' = continuation /\ dropped' = dropped
        /\ submitted' = submitted /\ signalled' = signalled /\ ran' = ran
    BY <1>1 DEF Await, At, Arg, slots, counters
  <1>3. /\ todo \in [Threads -> Seq(Instr)] /\ OneThread /\ Timers /\ h \in Instr
        /\ Carries(h) # NoCallback => h \in Pending /\ Carries(h) \in CarriedNow
    BY <1>1, <1>2, AtFacts
  <1>4. PICK k \in 1 .. Rounds : h = <<"await", Pause(k)>>
    BY <1>2, <1>3, InstrShapes
  <1>5. PICK t, cb, x, s : /\ t = Pause(k) /\ cb = <<"resume", t>>
                           /\ x = (IF completed[t] THEN <<"call", cb>> ELSE <<"subscribe", t, cb>>)
                           /\ s = <<x>>
    OBVIOUS
  <1>6. t \in Tasks /\ cb \in Callbacks /\ cb \in Called /\ Source(cb) = t /\ t # NoTask /\ cb # NoCallback
    <2>1. t \in Tasks /\ cb \in Callbacks
      BY <1>5, NamesFacts DEF Callbacks
    <2>2. Source(cb) = t
      BY <1>5 DEF Source
    <2> QED
      BY <2>1, <2>2, TaskNames, CallbackNames DEF Called
  <1>7. x \in Instr /\ Carries(x) = cb
    <2>1. CASE completed[t]
      BY <2>1, <1>5, <1>6, Instructions, CarriesFacts
    <2>2. CASE ~completed[t]
      BY <2>2, <1>5, <1>6, Instructions, CarriesFacts
    <2> QED
      BY <2>1, <2>2
  <1>8. Continue(th, s)
    <2>1. Arg(th) = t
      BY <1>1, <1>4, <1>5 DEF Arg
    <2>2. Continue(th, IF completed[t] THEN <<<<"call", <<"resume", t>>>>>>
                       ELSE <<<<"subscribe", t, <<"resume", t>>>>>>)
      BY <2>1 DEF Await
    <2>3. s = (IF completed[t] THEN <<<<"call", <<"resume", t>>>>>>
               ELSE <<<<"subscribe", t, <<"resume", t>>>>>>)
      BY <1>5
    <2> QED
      BY <2>2, <2>3
  <1>9. Tokens(s) = {x} /\ s \in Seq(Instr) /\ Distinct(s)
    BY <1>5, <1>6, <1>7, TokensOne
  <1>10. Carries(h) = cb /\ cb \in CarriedNow
    BY <1>3, <1>4, <1>5, <1>6, CarriesFacts
  <1>11. PICK N, M : N = {Carries(y) : y \in Tokens(s)} /\ M = {c \in Called : <<"call", c>> \in Tokens(s)}
    OBVIOUS
  <1>12. N = {cb} /\ M = (IF completed[t] THEN {cb} ELSE {})
    <2>1. N = {cb}
      BY <1>7, <1>9, <1>11
    <2>2. CASE completed[t]
      <3>1. x = <<"call", cb>>
        BY <1>5, <2>2
      <3> QED
        BY <2>1, <2>2, <3>1, <1>6, <1>9, <1>11
    <2>3. CASE ~completed[t]
      <3>1. x[1] = "subscribe"
        BY <1>5, <2>3
      <3> QED
        BY <2>1, <2>3, <3>1, <1>9, <1>11
    <2> QED
      BY <2>2, <2>3
  <1>13. MovedOn(th, N, M)
    <2>1. \A y \in Tokens(s) : Carries(y) = Carries(Head(todo[th]))
      BY <1>1, <1>7, <1>9, <1>10
    <2>2. \A d \in DelayTasks : completed[d] \/ Head(todo[th]) = <<"set", d>> => completed'[d]
      BY <1>1, <1>2
    <2> QED
      BY <1>2, <1>3, <1>8, <1>9, <1>11, <2>1, <2>2, MoveOn
  <1>14. CarriedNow' = CarriedNow /\ CalledNow' = CalledNow \cup M
    BY <1>1, <1>4, <1>10, <1>12, <1>13 DEF MovedOn
  <1>15. InSlots' = InSlots /\ Done' = Done
    BY <1>2, SameSlots
  <1>16. Placed(CarriedNow, CalledNow \cup M, InSlots, ToSet(workerItems), ran, dropped,
                armed, Done, submitted, remaining)
    <2>1. \A c \in M : Source(c) \in Done
      BY <1>6, <1>12 DEF Done
    <2> QED
      BY <2>1 DEF IInv, InPlace, Placed, Kept, Released
  <1>17. Types' /\ OneItem'
    BY <1>2, <1>13 DEF MovedOn, IInv, Types, TypeOK, OneItem
  <1>18. InPlace'
    BY <1>2, <1>14, <1>15, <1>16 DEF InPlace
  <1> QED
    BY <1>13, <1>17, <1>18 DEF MovedOn, IInv

-----------------------------------------------------------------------------
\* What Complete leaves in the place of the instruction.
LEMMA TokensTwo ==
    ASSUME NEW x \in Instr, NEW y \in Instr, Carries(x) # NoCallback, Carries(y) = NoCallback,
           NEW s, s = <<x, y>>
    PROVE  Tokens(s) = {x} /\ s \in Seq(Instr) /\ Distinct(s)
  <1>1. s \in Seq(Instr) /\ Distinct(s) /\ \A z \in ToSet(s) : z = x \/ z = y
    BY TwoInstrs
  <1>2. 1 \in 1 .. Len(s) /\ s[1] = x
    OBVIOUS
  <1>3. x \in ToSet(s)
    BY <1>1, <1>2, ToSetFacts
  <1> QED
    BY <1>1, <1>3 DEF Tokens

\* The call of a continuation, and then the end of the lock.
LEMMA TokensCall ==
    ASSUME NEW cb \in Called, NEW t \in Tasks, NEW s, s = <<<<"call", cb>>, <<"unlock", t>>>>
    PROVE  Tokens(s) = {<<"call", cb>>} /\ s \in Seq(Instr) /\ Distinct(s)
  <1>1. PICK x, y : x = <<"call", cb>> /\ y = <<"unlock", t>>
    OBVIOUS
  <1>2. x \in Instr /\ y \in Instr /\ Carries(x) = cb /\ Carries(y) = NoCallback /\ cb # NoCallback
    BY <1>1, Instructions, CarriesFacts, CallbackNames
  <1>3. s = <<x, y>>
    BY <1>1
  <1>4. Tokens(s) = {x} /\ s \in Seq(Instr) /\ Distinct(s)
    BY <1>2, <1>3, TokensTwo
  <1> QED
    BY <1>1, <1>4

\* Complete keeps the invariant: the slot goes to the thread.
LEMMA StepComplete ==
    ASSUME IInv, NEW th \in Threads, Complete(th)
    PROVE  IInv'
  <1>1. PICK h : h = Head(todo[th])
    OBVIOUS
  <1>2. /\ todo[th] # <<>> /\ h[1] = "set"
        /\ armed' = armed /\ remaining' = remaining
        /\ workerItems' = workerItems /\ continuation' = continuation /\ dropped' = dropped
        /\ submitted' = submitted /\ signalled' = signalled /\ ran' = ran
    BY <1>1 DEF Complete, At, Arg, slots, counters
  <1>3. /\ todo \in [Threads -> Seq(Instr)] /\ OneThread /\ Timers /\ h \in Instr
        /\ Carries(h) # NoCallback => h \in Pending /\ Carries(h) \in CarriedNow
    BY <1>1, <1>2, AtFacts
  <1>4. PICK t \in Tasks : h = <<"set", t>>
    BY <1>2, <1>3, InstrShapes
  <1>5. Carries(h) = t /\ t \in CarriedNow
    BY <1>3, <1>4, CarriesFacts, TaskNames
  <1>6. PICK s : s = (IF continuation[t] = NoCallback THEN <<>>
                      ELSE <<<<"call", continuation[t]>>, <<"unlock", t>>>>)
    OBVIOUS
  <1>7. ~completed[t] /\ completed' = [completed EXCEPT ![t] = TRUE] /\ Continue(th, s)
    <2>1. Arg(th) = t
      BY <1>1, <1>4 DEF Arg
    <2> QED
      BY <2>1, <1>6 DEF Complete
  <1>8. /\ completed' \in [Tasks -> BOOLEAN] /\ Done' = Done \cup {t}
        /\ InSlots' = InSlots \ SlotOf(t)
        /\ \A cb \in SlotOf(t) : Source(cb) = t
    BY <1>2, <1>7, SlotDone DEF IInv, Types, TypeOK
  <1>9. SlotOf(t) \subseteq InSlots
    BY DEF InSlots
  <1>10. /\ Tokens(s) = {<<"call", cb>> : cb \in SlotOf(t)}
         /\ s \in Seq(Instr) /\ Distinct(s) /\ SlotOf(t) \subseteq Called
    <2>1. CASE continuation[t] = NoCallback
      <3>1. s = <<>> /\ SlotOf(t) = {}
        BY <1>6, <2>1 DEF SlotOf
      <3> QED
        BY <3>1, TokensNone
    <2>2. CASE continuation[t] # NoCallback
      <3>1. PICK cb : cb = continuation[t]
        OBVIOUS
      <3>2. cb \in Called
        BY <2>2, <3>1 DEF IInv, Types, TypeOK, Called
      <3>3. s = <<<<"call", cb>>, <<"unlock", t>>>> /\ SlotOf(t) = {cb}
        BY <1>6, <1>7, <2>2, <3>1 DEF SlotOf
      <3>4. Tokens(s) = {<<"call", cb>>} /\ s \in Seq(Instr) /\ Distinct(s)
        BY <3>2, <3>3, TokensCall
      <3> QED
        BY <3>2, <3>3, <3>4
    <2> QED
      BY <2>1, <2>2
  <1>11. PICK N, M : N = {Carries(x) : x \in Tokens(s)} /\ M = {c \in Called : <<"call", c>> \in Tokens(s)}
    OBVIOUS
  <1>12. N = SlotOf(t) /\ M = SlotOf(t)
    <2>1. \A cb : Carries(<<"call", cb>>) = cb
      BY CarriesFacts
    <2>2. \A cb : <<"call", cb>> \in Tokens(s) <=> cb \in SlotOf(t)
      BY <1>10
    <2>3. \A x \in Tokens(s) : \E cb \in SlotOf(t) : x = <<"call", cb>>
      BY <1>10
    <2>4. M = SlotOf(t)
      BY <1>10, <1>11, <2>2
    <2>5. N = SlotOf(t)
      <3>1. ASSUME NEW k \in N PROVE k \in SlotOf(t)
        <4>1. PICK x \in Tokens(s) : k = Carries(x)
          BY <1>11
        <4> QED
          BY <4>1, <2>1, <2>3
      <3>2. ASSUME NEW k \in SlotOf(t) PROVE k \in N
        <4>1. <<"call", k>> \in Tokens(s) /\ Carries(<<"call", k>>) = k
          BY <2>1, <2>2
        <4> QED
          BY <4>1, <1>11
      <3> QED
        BY <3>1, <3>2
    <2> QED
      BY <2>4, <2>5
  <1>13. MovedOn(th, N, M)
    <2>1. \A x \in Tokens(s) : Carries(x) \notin CarriedNow
      <3>1. \A x \in Tokens(s) : Carries(x) \in InSlots
        BY <1>9, <1>11, <1>12
      <3> QED
        BY <3>1 DEF IInv, InPlace, Placed, OnePlace
    <2>2. \A d \in DelayTasks : completed[d] \/ Head(todo[th]) = <<"set", d>> => completed'[d]
      <3>1. \A d \in DelayTasks : d \in Tasks
        BY NamesFacts
      <3>2. \A u \in Tasks : completed'[u] = IF u = t THEN TRUE ELSE completed[u]
        BY <1>7 DEF IInv, Types, TypeOK
      <3>3. \A d : Head(todo[th]) = <<"set", d>> => d = t
        BY <1>1, <1>4
      <3> QED
        BY <3>1, <3>2, <3>3
    <2> QED
      BY <1>2, <1>3, <1>7, <1>10, <1>11, <2>1, <2>2, MoveOn
  <1>14. CarriedNow' = (CarriedNow \ {t}) \cup SlotOf(t) /\ CalledNow' = CalledNow \cup SlotOf(t)
    BY <1>1, <1>4, <1>5, <1>12, <1>13 DEF MovedOn
  <1>15. Placed((CarriedNow \ {t}) \cup SlotOf(t), CalledNow \cup SlotOf(t), InSlots \ SlotOf(t),
                ToSet(workerItems), ran, dropped, armed, Done \cup {t}, submitted, remaining)
    BY <1>5, <1>8, <1>9, DoneStep DEF IInv, InPlace
  <1>16. Types' /\ OneItem'
    BY <1>2, <1>8, <1>13 DEF MovedOn, IInv, Types, TypeOK, OneItem
  <1>17. InPlace'
    BY <1>2, <1>8, <1>14, <1>15 DEF InPlace
  <1> QED
    BY <1>13, <1>16, <1>17 DEF MovedOn, IInv

-----------------------------------------------------------------------------
\* A timer that fires keeps the invariant: its thread was idle.
LEMMA StepTimerFires ==
    ASSUME IInv, NEW d \in DelayTasks, TimerFires(d)
    PROVE  IInv'
  <1>1. PICK x : x = <<"set", d>>
    OBVIOUS
  <1>2. /\ d \in armed /\ armed' = armed \ {d} /\ todo' = [todo EXCEPT ![d] = <<x>>]
        /\ completed' = completed /\ remaining' = remaining
        /\ workerItems' = workerItems /\ continuation' = continuation /\ dropped' = dropped
        /\ submitted' = submitted /\ signalled' = signalled /\ ran' = ran
    BY <1>1 DEF TimerFires, slots, counters
  <1>3. todo \in [Threads -> Seq(Instr)] /\ OneThread /\ Timers
    BY DEF IInv, Types
  <1>4. d \in Tasks /\ d \in Threads
    BY NamesFacts DEF Threads
  <1>5. x \in Instr /\ Carries(x) = d /\ d # NoCallback /\ x[1] # "call"
    BY <1>1, <1>4, Instructions, CarriesFacts, TaskNames
  <1>6. d \notin CarriedNow /\ d \notin Done
    BY <1>2 DEF IInv, InPlace, Placed, OnePlace
  <1>7. ~Carried(Carries(x))
    BY <1>5, <1>6 DEF Carried, CarriedNow
  <1>8. todo[d] = <<>>
    <2>1. x \notin Pending /\ ~completed[d]
      BY <1>4, <1>5, <1>6 DEF CarriedNow, Done
    <2> QED
      BY <1>1, <1>3, <2>1 DEF Timers
  <1>9. /\ todo' \in [Threads -> Seq(Instr)] /\ OneThread' /\ Pending' = Pending \cup {x}
        /\ \A u \in Threads : u # d => todo'[u] = todo[u]
    BY <1>2, <1>3, <1>4, <1>5, <1>7, <1>8, StartFacts
  <1>10. CarriedNow' = CarriedNow \cup {d}
    <2>1. CarriedNow' = {Carries(y) : y \in Pending'}
      BY DEF CarriedNow, Carries, NoCallback
    <2> QED
      BY <1>5, <1>9, <2>1 DEF CarriedNow
  <1>11. CalledNow' = CalledNow
    <2>1. CalledNow' = {cb \in Called : <<"call", cb>> \in Pending'}
      BY DEF CalledNow
    <2> QED
      BY <1>5, <1>9, <2>1 DEF CalledNow
  <1>12. Timers'
    <2>1. SUFFICES ASSUME NEW e \in DelayTasks, todo'[e] # <<>>
                   PROVE  <<"set", e>> \in Pending' \/ completed'[e]
      BY DEF Timers
    <2>2. CASE e = d
      BY <2>2, <1>1, <1>9
    <2>3. CASE e # d
      <3>1. todo[e] # <<>>
        BY <2>1, <2>3, <1>9 DEF Threads
      <3> QED
        BY <3>1, <1>2, <1>3, <1>9 DEF Timers
    <2> QED
      BY <2>2, <2>3
  <1>13. InSlots' = InSlots /\ Done' = Done
    BY <1>2, SameSlots
  <1>14. Placed(CarriedNow \cup {d}, CalledNow, InSlots, ToSet(workerItems), ran, dropped,
                armed \ {d}, Done, submitted, remaining)
    BY <1>2, FireStep DEF IInv, InPlace
  <1>15. Types' /\ OneItem'
    BY <1>2, <1>9 DEF IInv, Types, TypeOK, OneItem
  <1>16. InPlace'
    BY <1>2, <1>10, <1>11, <1>13, <1>14 DEF InPlace
  <1> QED
    BY <1>9, <1>12, <1>15, <1>16 DEF IInv

\* A worker that takes an item keeps the invariant.
LEMMA StepTake ==
    ASSUME IInv, NEW th \in Threads, Take(th)
    PROVE  IInv'
  <1>1. PICK cb, x : cb = Head(workerItems) /\ x = <<"call", cb>>
    OBVIOUS
  <1>2. /\ th \in Worker /\ todo[th] = <<>> /\ workerItems # <<>>
        /\ todo' = [todo EXCEPT ![th] = <<x>>] /\ workerItems' = Tail(workerItems)
        /\ completed' = completed /\ remaining' = remaining /\ armed' = armed
        /\ continuation' = continuation /\ dropped' = dropped
        /\ submitted' = submitted /\ signalled' = signalled /\ ran' = ran
    BY <1>1 DEF Take, slots, counters
  <1>3. todo \in [Threads -> Seq(Instr)] /\ OneThread /\ Timers /\ workerItems \in Seq(Callbacks) /\ OneItem
    BY DEF IInv, Types, TypeOK
  <1>4. /\ workerItems' \in Seq(Callbacks) /\ OneItem'
        /\ cb \in ToSet(workerItems)
        /\ ToSet(workerItems') = ToSet(workerItems) \ {cb}
    BY <1>1, <1>2, <1>3, QueueGives
  <1>5. cb \in Called
    BY <1>3, <1>4, ToSetFacts DEF Called
  <1>6. x \in Instr /\ Carries(x) = cb /\ cb # NoCallback
    BY <1>1, <1>5, Instructions, CarriesFacts, CallbackNames
  <1>7. ~Carried(Carries(x))
    <2>1. cb \notin CarriedNow
      BY <1>4 DEF IInv, InPlace, Placed, OnePlace
    <2> QED
      BY <1>6, <2>1 DEF Carried, CarriedNow
  <1>8. /\ todo' \in [Threads -> Seq(Instr)] /\ OneThread' /\ Pending' = Pending \cup {x}
        /\ \A u \in Threads : u # th => todo'[u] = todo[u]
    BY <1>2, <1>3, <1>6, <1>7, StartFacts
  <1>9. CarriedNow' = CarriedNow \cup {cb}
    <2>1. CarriedNow' = {Carries(y) : y \in Pending'}
      BY DEF CarriedNow, Carries, NoCallback
    <2> QED
      BY <1>6, <1>8, <2>1 DEF CarriedNow
  <1>10. CalledNow' = CalledNow \cup {cb}
    <2>1. CalledNow' = {c \in Called : <<"call", c>> \in Pending'}
      BY DEF CalledNow
    <2> QED
      BY <1>1, <1>5, <1>8, <2>1 DEF CalledNow
  <1>11. Timers'
    <2>1. SUFFICES ASSUME NEW e \in DelayTasks, todo'[e] # <<>>
                   PROVE  <<"set", e>> \in Pending' \/ completed'[e]
      BY DEF Timers
    <2>2. e # th /\ e \in Threads
      <3>1. e \in Tasks
        BY NamesFacts
      <3>2. e[1] # "worker"
        BY <3>1, TaskNames
      <3> QED
        BY <3>2, <1>2 DEF Worker, Threads
    <2>3. todo[e] # <<>>
      BY <2>1, <2>2, <1>8
    <2> QED
      BY <2>3, <1>2, <1>3, <1>8 DEF Timers
  <1>12. InSlots' = InSlots /\ Done' = Done
    BY <1>2, SameSlots
  <1>13. Placed(CarriedNow \cup {cb}, CalledNow \cup {cb}, InSlots, ToSet(workerItems) \ {cb}, ran,
                dropped, armed, Done, submitted, remaining)
    BY <1>4, TakeStep DEF IInv, InPlace
  <1>14. Types'
    BY <1>2, <1>4, <1>8 DEF IInv, Types, TypeOK
  <1>15. InPlace'
    BY <1>2, <1>4, <1>9, <1>10, <1>12, <1>13 DEF InPlace
  <1> QED
    BY <1>4, <1>8, <1>11, <1>14, <1>15 DEF IInv

-----------------------------------------------------------------------------
\* What remains is between zero and the number of tasks.
LEMMA RemainingType ==
    ASSUME NEW R, NEW r \in Nat, r = Jobs - Cardinality(CountedDown(R))
    PROVE  r \in 0 .. Jobs
  <1>0. Jobs \in Nat
    BY MyTaskAssumption
  <1>1. PICK X : X = CountedDown(R)
    OBVIOUS
  <1>2. IsFiniteSet(1 .. Jobs) /\ X \subseteq 1 .. Jobs
    BY <1>0, <1>1, FS_Interval DEF CountedDown
  <1>3. Cardinality(X) \in Nat
    BY <1>2, FS_Subset, FS_CardinalityType
  <1> QED
    BY <1>0, <1>1, <1>3

\* A callback is called and brings forth the instructions s.
LEMMA StepCalled ==
    ASSUME IInv, NEW th \in Threads, todo[th] # <<>>,
           NEW cb \in Called, Head(todo[th]) = <<"call", cb>>,
           NEW s \in Seq(Instr), Distinct(s), \A x \in ToSet(s) : Follows(cb, x),
           Continue(th, s),
           ran' = ran \cup {cb},
           remaining' = (IF cb[1] = "countdown" THEN remaining - 1 ELSE remaining),
           signalled' \subseteq Tasks,
           UNCHANGED <<completed, workerItems, armed, slots>>
    PROVE  IInv'
  <1>1. PICK h : h = Head(todo[th])
    OBVIOUS
  <1>2. /\ completed' = completed /\ armed' = armed
        /\ workerItems' = workerItems /\ continuation' = continuation /\ dropped' = dropped
        /\ submitted' = submitted
    BY DEF slots
  <1>3. /\ todo \in [Threads -> Seq(Instr)] /\ OneThread /\ Timers /\ h \in Instr
        /\ Carries(h) # NoCallback => h \in Pending /\ Carries(h) \in CarriedNow
    BY <1>1, AtFacts
  <1>4. Carries(h) = cb /\ cb \in CarriedNow /\ cb \in CalledNow
    <2>1. h = <<"call", cb>> /\ Carries(h) = cb /\ cb # NoCallback
      BY <1>1, CarriesFacts, CallbackNames
    <2>2. h \in Pending /\ cb \in CarriedNow
      BY <1>3, <2>1
    <2> QED
      BY <2>1, <2>2 DEF CalledNow
  <1>5. PICK N, M : N = {Carries(x) : x \in Tokens(s)} /\ M = {c \in Called : <<"call", c>> \in Tokens(s)}
    OBVIOUS
  <1>6. \A x \in Tokens(s) : x \in Instr /\ Follows(cb, x)
    BY ToSetFacts DEF Tokens
  <1>7. BroughtForth(cb, remaining, N)
    <2>1. SUFFICES ASSUME NEW x \in Tokens(s)
                   PROVE  /\ Carries(x) \in Called \cup Tasks
                          /\ \/ Causes(cb, Carries(x))
                             \/ Carries(x) = All /\ cb[1] = "countdown" /\ remaining = 1
      BY <1>5 DEF BroughtForth
    <2>2. x \in Instr /\ Carries(x) # NoCallback
      BY <1>6 DEF Follows
    <2>3. Carries(x) \in Called \cup Tasks
      BY <2>2, CarriesType
    <2>4. Carries(<<"set", All>>) = All
      BY CarriesFacts
    <2> QED
      BY <2>3, <2>4, <1>6 DEF Follows
  <1>8. M = {}
    <2>1. \A c \in Called : <<"call", c>>[1] = "call"
      OBVIOUS
    <2> QED
      BY <1>5, <1>6, <2>1 DEF Follows
  <1>9. MovedOn(th, N, M)
    <2>1. \A k \in N : k \notin CarriedNow
      BY <1>4, <1>7, ForthNew DEF IInv, InPlace
    <2>2. \A x \in Tokens(s) : Carries(x) \notin CarriedNow
      BY <1>5, <2>1
    <2>3. \A d \in DelayTasks : completed[d] \/ Head(todo[th]) = <<"set", d>> => completed'[d]
      BY <1>2
    <2> QED
      BY <1>3, <1>5, <2>2, <2>3, MoveOn
  <1>10. CarriedNow' = (CarriedNow \ {cb}) \cup N
    BY <1>1, <1>4, <1>9 DEF MovedOn
  <1>11. CalledNow' = CalledNow \ {cb}
    <2>1. \A c : h = <<"call", c>> <=> c = cb
      BY <1>1
    <2> QED
      BY <1>1, <1>8, <1>9, <2>1 DEF MovedOn
  <1>12. InSlots' = InSlots /\ Done' = Done
    BY <1>2, SameSlots
  <1>13. Placed((CarriedNow \ {cb}) \cup N, CalledNow \ {cb}, InSlots, ToSet(workerItems),
                ran \cup {cb}, dropped, armed, Done, submitted, remaining')
    BY <1>4, <1>7, CallStep DEF IInv, InPlace
  <1>14. remaining' \in 0 .. Jobs
    BY <1>13, RemainingType DEF Placed, Counting
  <1>15. Types' /\ OneItem'
    BY <1>2, <1>9, <1>14 DEF MovedOn, IInv, Types, TypeOK, OneItem
  <1>16. InPlace'
    BY <1>2, <1>10, <1>11, <1>12, <1>13 DEF InPlace
  <1> QED
    BY <1>9, <1>15, <1>16 DEF MovedOn, IInv

\* A call keeps the invariant.
LEMMA StepCall ==
    ASSUME IInv, NEW th \in Threads, Call(th)
    PROVE  IInv'
  <1>1. PICK h : h = Head(todo[th])
    OBVIOUS
  <1>2. todo[th] # <<>> /\ h[1] = "call" /\ h \in Instr
    BY <1>1, AtFacts DEF Call, At
  <1>3. PICK cb \in Called : h = <<"call", cb>>
    BY <1>2, InstrShapes
  <1>4. Arg(th) = cb
    BY <1>1, <1>3 DEF Arg
  <1>5. PICK s : s = Body(cb)
    OBVIOUS
  <1>6. s \in Seq(Instr) /\ Distinct(s) /\ \A x \in ToSet(s) : Follows(cb, x)
    BY <1>5, BodyFacts DEF BodyRight
  <1>7. /\ Continue(th, s)
        /\ ran' = ran \cup {cb}
        /\ remaining' = (IF cb[1] = "countdown" THEN remaining - 1 ELSE remaining)
        /\ signalled' = (IF cb[1] = "mres" THEN signalled \cup {cb[2]} ELSE signalled)
        /\ UNCHANGED <<completed, workerItems, armed, slots>>
    BY <1>4, <1>5 DEF Call
  <1>8. signalled' \subseteq Tasks
    <2>1. cb[1] = "mres" => cb[2] \in Tasks
      BY DEF Called, Callbacks
    <2> QED
      BY <1>7, <2>1 DEF IInv, Types, TypeOK
  <1>9. Head(todo[th]) = <<"call", cb>>
    BY <1>1, <1>3
  <1> QED
    BY <1>2, <1>6, <1>7, <1>8, <1>9, StepCalled

\* So does one whose user code throws.
LEMMA StepCallThrows ==
    ASSUME IInv, NEW th \in Threads, CallThrows(th)
    PROVE  IInv'
  <1>1. PICK h : h = Head(todo[th])
    OBVIOUS
  <1>2. todo[th] # <<>> /\ h[1] = "call" /\ h \in Instr
    BY <1>1, AtFacts DEF CallThrows, At
  <1>3. PICK cb \in Called : h = <<"call", cb>>
    BY <1>2, InstrShapes
  <1>4. Arg(th) = cb
    BY <1>1, <1>3 DEF Arg
  <1>5. PICK s : s = <<>>
    OBVIOUS
  <1>6. s \in Seq(Instr) /\ Distinct(s) /\ \A x \in ToSet(s) : Follows(cb, x)
    BY <1>5, NoInstr
  <1>7. /\ Continue(th, s)
        /\ ran' = ran \cup {cb}
        /\ cb[1] # "countdown" /\ remaining' = remaining /\ signalled' = signalled
        /\ UNCHANGED <<completed, workerItems, armed, slots>>
    BY <1>4, <1>5 DEF CallThrows
  <1>8. /\ remaining' = (IF cb[1] = "countdown" THEN remaining - 1 ELSE remaining)
        /\ signalled' \subseteq Tasks
    BY <1>7 DEF IInv, Types, TypeOK
  <1>9. Head(todo[th]) = <<"call", cb>>
    BY <1>1, <1>3
  <1> QED
    BY <1>2, <1>6, <1>7, <1>8, <1>9, StepCalled

\* So does a step that changes nothing.
LEMMA StepStutters == ASSUME IInv, UNCHANGED vars PROVE IInv'
  BY DEF vars, slots, counters, IInv, Types, TypeOK, OneThread, OneItem, Timers, InPlace, CarriedNow,
         CalledNow, InSlots, SlotOf, Done, Pending

-----------------------------------------------------------------------------
(***************************************************************************)
(* The initial states, and the theorems.                                   *)
(***************************************************************************)

\* At first every thread has the program of a client, or nothing to do.
LEMMA Starts ==
    ASSUME Init, NEW th \in Threads
    PROVE  \/ todo[th] = <<>>
           \/ \E c \in {"waitall", "iterate", "count", "chain", "twice"} :
                 th = <<"client", c>> /\ todo[th] = Program(<<"client", c>>)
  <1>1. todo[th] = IF th[1] = "client" /\ th[2] \in active THEN Program(th) ELSE <<>>
    BY DEF Init
  <1>2. th[1] = "client" => th \in Clients
    <2>1. ASSUME th \in DelayTasks PROVE th[1] # "client"
      BY <2>1, NamesFacts, TaskNames
    <2>2. ASSUME th \in Worker PROVE th[1] # "client"
      BY <2>2 DEF Worker
    <2> QED
      BY <2>1, <2>2 DEF Threads
  <1>3. CASE th[1] = "client"
    <2>1. PICK c \in {"waitall", "iterate", "count", "chain", "twice"} : th = <<"client", c>>
      BY <1>2, <1>3 DEF Clients
    <2> QED
      BY <2>1, <1>1
  <1> QED
    BY <1>1, <1>3

\* The invariant holds at first.
LEMMA Begin == ASSUME Init PROVE IInv
  <1>1. ASSUME NEW th \in Threads
        PROVE  /\ todo[th] \in Seq(Instr) /\ Distinct(todo[th])
               /\ \A x \in Tokens(todo[th]) : \E c : th = <<"client", c>> /\ Begins(c, x)
    <2>1. CASE todo[th] = <<>>
      <3>1. Tokens(todo[th]) = {}
        BY <2>1, TokensNone
      <3> QED
        BY <2>1, <3>1, TokensNone
    <2>2. CASE todo[th] # <<>>
      <3>1. PICK c \in {"waitall", "iterate", "count", "chain", "twice"} :
                th = <<"client", c>> /\ todo[th] = Program(<<"client", c>>)
        BY <1>1, <2>2, Starts
      <3>2. todo[th] \in Seq(Instr) /\ Distinct(todo[th]) /\ \A x \in ToSet(todo[th]) : Begins(c, x)
        BY <3>1, ProgramFacts DEF ProgramRight
      <3> QED
        BY <3>1, <3>2 DEF Tokens
    <2> QED
      BY <2>1, <2>2
  <1>2. todo \in [Threads -> Seq(Instr)]
    BY <1>1 DEF Init
  <1>3. OneThread
    <2>1. ASSUME NEW th \in Threads, NEW u \in Threads, NEW x \in Tokens(todo[th]),
                 NEW y \in Tokens(todo[u]), Carries(x) = Carries(y)
          PROVE  th = u
      <3>1. PICK c : th = <<"client", c>> /\ Begins(c, x)
        BY <1>1
      <3>2. PICK d : u = <<"client", d>> /\ Begins(d, y)
        BY <1>1
      <3>3. c = d
        BY <2>1, <3>1, <3>2 DEF Begins
      <3> QED
        BY <3>1, <3>2, <3>3
    <2> QED
      BY <1>1, <2>1 DEF OneThread
  <1>4. \A x \in Pending : x \in Instr /\ \E c : Begins(c, x)
    BY <1>1, <1>2, PendingFacts DEF Pending
  <1>5. Timers
    <2>1. SUFFICES ASSUME NEW d \in DelayTasks PROVE todo[d] = <<>>
      BY DEF Timers
    <2>2. d[1] # "client" /\ d \in Threads
      BY NamesFacts, TaskNames DEF Threads
    <2> QED
      BY <2>2, Starts
  <1>6. OneItem /\ ToSet(workerItems) = {}
    <2>1. workerItems = <<>> /\ Len(<<>>) = 0
      BY DEF Init
    <2> QED
      BY <2>1, NoInstr DEF OneItem
  <1>7. InSlots = {} /\ Done = {}
    BY DEF Init, InSlots, SlotOf, Done
  <1>8. Types
    BY <1>2, MyTaskAssumption DEF Types, TypeOK, Init
  <1>9. InPlace
    <2>1. Kinds(CarriedNow, {}, {}, {}, {}, {}, {})
      <3>1. \A x \in Pending : Carries(x) \in Called \cup Tasks
        BY <1>4, CarriesType DEF Begins
      <3> QED
        BY <3>1 DEF Kinds, CarriedNow
    <2>2. OnePlace(CarriedNow, {}, {}, {}, {}, {}, {})
      BY DEF OnePlace
    <2>3. Kept(CalledNow, {}, {}, {}, {}, {})
      BY DEF Kept
    <2>4. Released(CalledNow, {}, {}, {})
      <3>1. SUFFICES ASSUME NEW cb \in Called, cb \in CalledNow PROVE Source(cb) = NoTask
        BY DEF Released
      <3>2. PICK x : x = <<"call", cb>>
        OBVIOUS
      <3>3. x \in Pending /\ x[1] = "call" /\ x[2] = cb
        BY <3>1, <3>2 DEF CalledNow
      <3>4. PICK c : Begins(c, x)
        BY <3>3, <1>4
      <3>5. cb = <<"moveNext", Iter>>
        BY <3>3, <3>4 DEF Begins
      <3> QED
        BY <3>5 DEF Source
    <2>5. AfterCause(CarriedNow, {}, {}, {}, {}, {}, {})
      <3>1. \A k \in CarriedNow : NotCaused(k)
        BY <1>4 DEF CarriedNow, Begins
      <3> QED
        BY <3>1 DEF AfterCause, NotCaused
    <2>6. Counting(CarriedNow, {}, {}, Jobs)
      <3>1. CountedDown({}) = {} /\ Cardinality({}) = 0 /\ Jobs \in Nat
        BY FS_EmptySet, MyTaskAssumption DEF CountedDown
      <3>2. All \in CarriedNow => Jobs = 0
        BY <1>4 DEF CarriedNow, Begins
      <3>3. Cardinality(CountedDown({})) = 0
        BY <3>1
      <3>4. Jobs = Jobs - Cardinality(CountedDown({}))
        BY <3>1, <3>3
      <3> QED
        BY <3>1, <3>2, <3>4 DEF Counting
    <2>7. InOrder({}, {})
      BY DEF InOrder
    <2>8. Placed(CarriedNow, CalledNow, {}, {}, {}, {}, {}, {}, {}, Jobs)
      BY <2>1, <2>2, <2>3, <2>4, <2>5, <2>6, <2>7 DEF Placed
    <2>9. ran = {} /\ dropped = {} /\ armed = {} /\ submitted = {} /\ remaining = Jobs
      BY DEF Init
    <2> QED
      BY <2>8, <2>9, <1>6, <1>7 DEF InPlace
  <1> QED
    BY <1>3, <1>5, <1>6, <1>8, <1>9 DEF IInv

-----------------------------------------------------------------------------
\* Whatever the clients do and the threads' order, every callback handed to
\* ContinueWith or to the pool, and every completion of a task, is in one place.
THEOREM Invariance == Spec => []IInv
  <1>1. Init => IInv
    BY Begin
  <1>2. ASSUME IInv, [Next]_vars PROVE IInv'
    <2>1. ASSUME NEW th \in Threads, Step(th) PROVE IInv'
      <3>1. CASE ContinueWith(th)
        BY <1>2, <3>1, StepContinueWith
      <3>2. CASE Complete(th)
        BY <1>2, <3>2, StepComplete
      <3>3. CASE Unlock(th)
        BY <1>2, <3>3, StepUnlock
      <3>4. CASE Wait(th)
        BY <1>2, <3>4, StepWait
      <3>5. CASE Wake(th)
        BY <1>2, <3>5, StepWake
      <3>6. CASE Run(th)
        BY <1>2, <3>6, StepRun
      <3>7. CASE StartDelay(th)
        BY <1>2, <3>7, StepStartDelay
      <3>8. CASE Await(th)
        BY <1>2, <3>8, StepAwait
      <3>9. CASE Call(th)
        BY <1>2, <3>9, StepCall
      <3>10. CASE CallThrows(th)
        BY <1>2, <3>10, StepCallThrows
      <3>11. CASE Take(th)
        BY <1>2, <3>11, StepTake
      <3> QED
        BY <2>1, <3>1, <3>2, <3>3, <3>4, <3>5, <3>6, <3>7, <3>8, <3>9, <3>10, <3>11 DEF Step
    <2>2. ASSUME NEW d \in DelayTasks, TimerFires(d) PROVE IInv'
      BY <1>2, <2>2, StepTimerFires
    <2>3. CASE UNCHANGED vars
      BY <1>2, <2>3, StepStutters
    <2> QED
      BY <1>2, <2>1, <2>2, <2>3 DEF Next
  <1> QED
    BY <1>1, <1>2, PTL DEF Spec

\* The tasks, the slots and the pool keep their types, and the counter of
\* WaitAll never goes below zero: every task's continuation counts down once.
THEOREM TypeCorrect == Spec => []TypeOK
  <1>1. IInv => TypeOK
    BY DEF IInv, Types
  <1> QED
    BY <1>1, Invariance, PTL

\* Complete never finds its task completed: "Task has done!" is not thrown,
\* whichever of timers, workers and continuations gets to a task first.
THEOREM CompletedOnce == Spec => []CompletesOnce
  <1>1. ASSUME IInv PROVE CompletesOnce
    <2>1. SUFFICES ASSUME NEW th \in Threads, NEW t \in Tasks, <<"set", t>> \in ToSet(todo[th])
                   PROVE  ~completed[t]
      BY DEF CompletesOnce
    <2>2. PICK x : x = <<"set", t>>
      OBVIOUS
    <2>3. Carries(x) = t /\ t # NoCallback
      BY <2>2, CarriesFacts, TaskNames
    <2>4. x \in Pending
      BY <2>1, <2>2, <2>3 DEF Pending, Tokens
    <2>5. t \in CarriedNow
      BY <2>3, <2>4 DEF CarriedNow
    <2> QED
      BY <1>1, <2>5 DEF IInv, InPlace, Placed, OnePlace, Done
  <1> QED
    BY <1>1, Invariance, PTL

\* A callback that ran was released by the task it waits for.
LEMMA RanAfter ==
    ASSUME IInv, NEW cb \in ran, Source(cb) # NoTask
    PROVE  Source(cb) \in Tasks /\ completed[Source(cb)]
  BY DEF IInv, Types, InPlace, Placed, Released, Done

\* A task completed after the callback that completes it, or starts its timer, ran.
LEMMA DoneAfter ==
    ASSUME IInv, NEW t \in Tasks, completed[t], NEW cb, Causes(cb, t)
    PROVE  cb \in ran
  BY DEF IInv, InPlace, Placed, AfterCause, Done

\* WaitAll completes after every task: each of them has counted down.
LEMMA AllAfter ==
    ASSUME IInv, completed[All], NEW t \in JobTasks
    PROVE  completed[t]
  <1>0. Jobs \in Nat
    BY MyTaskAssumption
  <1>1. PICK X : X = CountedDown(ran)
    OBVIOUS
  <1>2. remaining = 0 /\ remaining = Jobs - Cardinality(X)
    BY <1>1, NamesFacts DEF IInv, InPlace, Placed, Counting, Done
  <1>3. IsFiniteSet(1 .. Jobs) /\ Cardinality(1 .. Jobs) = Jobs /\ X \subseteq 1 .. Jobs
    BY <1>0, <1>1, FS_Interval DEF CountedDown
  <1>4. Cardinality(X) \in Nat
    BY <1>3, FS_Subset, FS_CardinalityType
  <1>5. X = 1 .. Jobs
    <2>1. Cardinality(1 .. Jobs) = Cardinality(X)
      BY <1>0, <1>2, <1>3, <1>4
    <2> QED
      BY <2>1, <1>3, FS_Subset
  <1>6. PICK j \in 1 .. Jobs : t = Job(j)
    BY DEF JobTasks
  <1>7. PICK cb : cb = <<"countdown", t>>
    OBVIOUS
  <1>8. cb \in ran
    BY <1>1, <1>5, <1>6, <1>7 DEF CountedDown
  <1>9. Source(cb) = t /\ t # NoTask
    BY <1>7, NamesFacts, TaskNames DEF Source
  <1> QED
    BY <1>8, <1>9, RanAfter

\* No task completes before what it stands for: WaitAll after all its tasks,
\* Iterate and the awaiting loop in their order, a continuation after the task it
\* continues, ContinueWith(func) after the task func returned.
THEOREM CausalOrder == Spec => []Causality
  <1>1. ASSUME IInv PROVE Causality
    <2>0. Rounds \in Nat \ {0}
      BY MyTaskAssumption
    <2>1. completed[All] => \A t \in JobTasks : completed[t]
      BY <1>1, AllAfter
    <2>2. ASSUME NEW k \in 1 .. Rounds, <<"moveNext", Delay(k)>> \in ran, NEW i \in 1 .. k
          PROVE  completed[Delay(i)]
      BY <1>1, <2>2 DEF IInv, InPlace, Placed, InOrder, Done
    <2>3. ASSUME completed[Iter], NEW k \in 1 .. Rounds PROVE completed[Delay(k)]
      <3>1. Causes(<<"moveNext", Delay(Rounds)>>, Iter) /\ Iter \in Tasks
        BY NamesFacts DEF Causes
      <3>2. <<"moveNext", Delay(Rounds)>> \in ran
        BY <1>1, <2>3, <3>1, DoneAfter
      <3>3. Rounds \in 1 .. Rounds
        BY <2>0
      <3> QED
        BY <3>2, <3>3, <2>2
    <2>4. ASSUME NEW k \in 1 .. Rounds - 1, completed[Delay(k + 1)] PROVE completed[Delay(k)]
      <3>1. k + 1 \in 1 .. Rounds /\ (k + 1) - 1 = k /\ k \in 1 .. Rounds /\ k \in 1 .. k
        BY <2>0
      <3>2. Causes(<<"moveNext", Delay((k + 1) - 1)>>, Delay(k + 1))
        BY <3>1, CausesDelay
      <3>3. Delay(k + 1) \in Tasks
        BY <3>1, NamesFacts
      <3>4. <<"moveNext", Delay(k)>> \in ran
        BY <1>1, <2>4, <3>1, <3>2, <3>3, DoneAfter
      <3> QED
        BY <3>1, <3>4, <2>2
    <2>5. ASSUME NEW k \in 1 .. Rounds - 1, completed[Pause(k + 1)] PROVE completed[Pause(k)]
      <3>1. PICK cb : cb = <<"resume", Pause(k)>>
        OBVIOUS
      <3>2. Causes(cb, Pause(k + 1))
        BY <3>1 DEF Causes
      <3>3. Pause(k + 1) \in Tasks
        BY <2>0, NamesFacts
      <3>4. cb \in ran
        BY <1>1, <2>5, <3>2, <3>3, DoneAfter
      <3>5. Source(cb) = Pause(k) /\ Pause(k) # NoTask
        BY <3>1 DEF Source, Pause, NoTask
      <3> QED
        BY <1>1, <3>4, <3>5, RanAfter
    <2>6. ASSUME completed[Unwrapped] PROVE completed[World]
      <3>1. PICK cb : cb = <<"unwrap", Unwrapped>>
        OBVIOUS
      <3>2. Causes(cb, Unwrapped) /\ Unwrapped \in Tasks
        BY <3>1, NamesFacts DEF Causes
      <3>3. cb \in ran
        BY <1>1, <2>6, <3>2, DoneAfter
      <3>4. Source(cb) = World /\ World # NoTask
        BY <3>1 DEF Source, World, NoTask
      <3> QED
        BY <1>1, <3>3, <3>4, RanAfter
    <2>7. ASSUME completed[Daniel] PROVE completed[Unwrapped]
      <3>1. PICK cb : cb = <<"action", Daniel>>
        OBVIOUS
      <3>2. Causes(cb, Daniel) /\ Daniel \in Tasks
        BY <3>1, NamesFacts DEF Causes
      <3>3. cb \in ran
        BY <1>1, <2>7, <3>2, DoneAfter
      <3>4. Source(cb) = Unwrapped
        BY <3>1 DEF Source, Daniel, Follow
      <3>5. Unwrapped # NoTask
        BY DEF Unwrapped, NoTask
      <3> QED
        BY <1>1, <3>3, <3>4, <3>5, RanAfter
    <2>8. ASSUME completed[Follow] PROVE completed[Shared]
      <3>1. PICK cb : cb = <<"action", Follow>>
        OBVIOUS
      <3>2. Causes(cb, Follow) /\ Follow \in Tasks
        BY <3>1, NamesFacts DEF Causes
      <3>3. cb \in ran
        BY <1>1, <2>8, <3>2, DoneAfter
      <3>4. Source(cb) = Shared /\ Shared # NoTask
        BY <3>1 DEF Source, Shared, NoTask, Follow, Daniel
      <3> QED
        BY <1>1, <3>3, <3>4, RanAfter
    <2> QED
      BY <2>1, <2>3, <2>4, <2>5, <2>6, <2>7, <2>8 DEF Causality
  <1> QED
    BY <1>1, Invariance, PTL

-----------------------------------------------------------------------------
\* The parts of Places.
InTask(cb) == {<<"slot", t>> : t \in {u \in Tasks : ~completed[u] /\ continuation[u] = cb}}
InQueue(cb) == {<<"queue", n>> : n \in {i \in 1 .. Len(workerItems) : workerItems[i] = cb}}
OnThread(cb) == {<<"thread", th>> : th \in {u \in Threads : <<"call", cb>> \in ToSet(todo[u])}}
InHistory(cb) ==
    {<<"history", s>> : s \in {x \in {"ran", "dropped"} :
                                  cb \in IF x = "ran" THEN ran ELSE dropped}}

\* S holds one element if p, and none otherwise.
OneIf(p, S) == (p => \E e : S = {e}) /\ (~p => S = {})

\* A callback is in the slot of one task at most: the one it waits for.
LEMMA TaskPlace == ASSUME IInv, NEW cb \in Called PROVE OneIf(cb \in InSlots, InTask(cb))
  <1>1. cb # NoCallback
    BY CallbackNames
  <1>2. \A t \in Tasks : continuation[t] # NoCallback => Source(continuation[t]) = t
    BY DEF IInv, Types
  <1>3. cb \in InSlots <=> \E t \in Tasks : ~completed[t] /\ continuation[t] = cb
    BY <1>1 DEF InSlots, SlotOf
  <1>4. ASSUME NEW t \in Tasks, ~completed[t], continuation[t] = cb
        PROVE  InTask(cb) = {<<"slot", t>>}
    <2>1. \A u \in Tasks : continuation[u] = cb => u = t
      BY <1>1, <1>2, <1>4
    <2>2. {u \in Tasks : ~completed[u] /\ continuation[u] = cb} = {t}
      BY <1>4, <2>1
    <2> QED
      BY <2>2 DEF InTask
  <1> QED
    BY <1>3, <1>4 DEF OneIf, InTask

\* A callback is in the queue once at most.
LEMMA QueuePlace ==
    ASSUME IInv, NEW cb \in Called PROVE OneIf(cb \in ToSet(workerItems), InQueue(cb))
  <1>1. PICK q : q = workerItems
    OBVIOUS
  <1>2. q \in Seq(Callbacks) /\ \A i, j \in 1 .. Len(q) : q[i] = q[j] => i = j
    BY <1>1 DEF IInv, Types, TypeOK, OneItem
  <1>3. cb \in ToSet(q) <=> \E i \in 1 .. Len(q) : cb = q[i]
    BY <1>2, ToSetFacts
  <1>4. ASSUME NEW i \in 1 .. Len(q), cb = q[i] PROVE InQueue(cb) = {<<"queue", i>>}
    <2>1. {j \in 1 .. Len(q) : q[j] = cb} = {i}
      BY <1>2, <1>4
    <2> QED
      BY <1>1, <2>1 DEF InQueue
  <1>5. ASSUME \A i \in 1 .. Len(q) : cb # q[i] PROVE InQueue(cb) = {}
    BY <1>1, <1>5 DEF InQueue
  <1> QED
    BY <1>1, <1>3, <1>4, <1>5 DEF OneIf

\* A callback is called by one thread at most.
LEMMA ThreadPlace ==
    ASSUME IInv, NEW cb \in Called PROVE OneIf(cb \in CalledNow, OnThread(cb))
  <1>1. PICK x : x = <<"call", cb>>
    OBVIOUS
  <1>2. Carries(x) # NoCallback
    BY <1>1, CarriesFacts, CallbackNames
  <1>3. \A th \in Threads : x \in ToSet(todo[th]) <=> x \in Tokens(todo[th])
    BY <1>2 DEF Tokens
  <1>4. cb \in CalledNow <=> \E th \in Threads : x \in ToSet(todo[th])
    BY <1>1, <1>3 DEF CalledNow, Pending
  <1>5. ASSUME NEW th \in Threads, x \in ToSet(todo[th]) PROVE OnThread(cb) = {<<"thread", th>>}
    <2>1. \A u \in Threads : x \in ToSet(todo[u]) => u = th
      BY <1>3, <1>5 DEF IInv, OneThread
    <2>2. {u \in Threads : x \in ToSet(todo[u])} = {th}
      BY <1>5, <2>1
    <2> QED
      BY <1>1, <2>2 DEF OnThread
  <1>6. ASSUME \A th \in Threads : x \notin ToSet(todo[th]) PROVE OnThread(cb) = {}
    BY <1>1, <1>6 DEF OnThread
  <1> QED
    BY <1>4, <1>5, <1>6 DEF OneIf

\* A callback that ran was not replaced.
LEMMA HistoryPlace ==
    ASSUME NEW cb, ~(cb \in ran /\ cb \in dropped)
    PROVE  OneIf(cb \in ran \/ cb \in dropped, InHistory(cb))
  <1>1. cb \in ran => InHistory(cb) = {<<"history", "ran">>}
    BY DEF InHistory
  <1>2. cb \in dropped => InHistory(cb) = {<<"history", "dropped">>}
    BY DEF InHistory
  <1>3. cb \notin ran /\ cb \notin dropped => InHistory(cb) = {}
    BY DEF InHistory
  <1> QED
    BY <1>1, <1>2, <1>3 DEF OneIf

\* A callback handed to ContinueWith or to the pool is called exactly once, or
\* replaced in its slot by a later one: none is lost between ContinueWith and a
\* Complete at the same time, none is both called and queued.
THEOREM CalledOnce == Spec => []ExactlyOnce
  <1>1. ASSUME IInv PROVE ExactlyOnce
    <2>1. SUFFICES ASSUME NEW cb \in submitted PROVE Cardinality(Places(cb)) = 1
      BY DEF ExactlyOnce
    <2>2. cb \in Called
      BY <1>1 DEF IInv, Types, Called
    <2>3. \/ cb \in CalledNow \/ cb \in InSlots \/ cb \in ToSet(workerItems)
          \/ cb \in ran \/ cb \in dropped
      BY <1>1 DEF IInv, InPlace, Placed, Kept
    <2>4. cb \in CalledNow => cb \in CarriedNow
      BY CarriesFacts DEF CalledNow, CarriedNow
    <2>5. /\ cb \in CarriedNow => /\ cb \notin InSlots /\ cb \notin ToSet(workerItems)
                                  /\ cb \notin ran /\ cb \notin dropped
          /\ cb \in InSlots => cb \notin ToSet(workerItems) /\ cb \notin ran /\ cb \notin dropped
          /\ cb \in ToSet(workerItems) => cb \notin ran /\ cb \notin dropped
          /\ ~(cb \in ran /\ cb \in dropped)
      BY <1>1 DEF IInv, InPlace, Placed, OnePlace
    <2>6. /\ OneIf(cb \in InSlots, InTask(cb))
          /\ OneIf(cb \in ToSet(workerItems), InQueue(cb))
          /\ OneIf(cb \in CalledNow, OnThread(cb))
          /\ OneIf(cb \in ran \/ cb \in dropped, InHistory(cb))
      BY <1>1, <2>2, <2>5, TaskPlace, QueuePlace, ThreadPlace, HistoryPlace
    <2>7. Places(cb) = InTask(cb) \cup InQueue(cb) \cup OnThread(cb) \cup InHistory(cb)
      BY DEF Places, InTask, InQueue, OnThread, InHistory
    <2>8. \E e : Places(cb) = {e}
      BY <2>3, <2>4, <2>5, <2>6, <2>7 DEF OneIf
    <2> QED
      BY <2>8, FS_Singleton
  <1> QED
    BY <1>1, Invariance, PTL
=============================================================================
