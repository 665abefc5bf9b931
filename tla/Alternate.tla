------------------------------ MODULE Alternate ------------------------------
(***************************************************************************)
(* Alternate.Call of Samples/EventWaitHandleSample: three threads take     *)
(* turns to print, handing the turn on through an index and one            *)
(* AutoResetEvent each.  Every access to the shared index, every WaitOne   *)
(* and every Set is a step of its own; index++ is a read and a write.      *)
(***************************************************************************)
EXTENDS Integers, Sequences

CONSTANT Rounds     \* bound: the loop count (20 in the code)

Callers == 1 .. 3

VARIABLES
    index,      \* the volatile turn counter
    signal,     \* state of the AutoResetEvent each caller waits for
    pc,         \* the next step of each caller
    i,          \* loop counter of each caller
    tmp,        \* the value index++ has read
    printed     \* history: the callers in the order they printed

vars == <<index, signal, pc, i, tmp, printed>>

Init ==
    /\ index = 0
    /\ signal = [c \in Callers |-> FALSE]
    /\ pc = [c \in Callers |-> "key"]
    /\ i = [c \in Callers |-> 0]
    /\ tmp = [c \in Callers |-> 0]
    /\ printed = <<>>

Goto(c, l) == pc' = [pc EXCEPT ![c] = l]

\* _notifyMapping: caller c waits for its own event and notifies the next.
Notify(c) == (c % 3) + 1

\* var key = index % 3 + 1; if (key != caller.Index) ...
ReadKey(c) ==
    /\ pc[c] = "key"
    /\ i[c] < Rounds
    /\ Goto(c, IF (index % 3) + 1 # c THEN "wait" ELSE "print")
    /\ UNCHANGED <<index, signal, i, tmp, printed>>

\* WaitOne returns once the event is set, and resets it.
WaitOne(c) ==
    /\ pc[c] = "wait"
    /\ signal[c]
    /\ signal' = [signal EXCEPT ![c] = FALSE]
    /\ Goto(c, "print")
    /\ UNCHANGED <<index, i, tmp, printed>>

WriteLine(c) ==
    /\ pc[c] = "print"
    /\ printed' = Append(printed, c)
    /\ Goto(c, "read")
    /\ UNCHANGED <<index, signal, i, tmp>>

\* index++
ReadIndex(c) ==
    /\ pc[c] = "read"
    /\ tmp' = [tmp EXCEPT ![c] = index]
    /\ Goto(c, "write")
    /\ UNCHANGED <<index, signal, i, printed>>

WriteIndex(c) ==
    /\ pc[c] = "write"
    /\ index' = tmp[c] + 1
    /\ Goto(c, "set")
    /\ UNCHANGED <<signal, i, tmp, printed>>

\* Notify.Set(), i++, and Call returns after the last round.
Set(c) ==
    /\ pc[c] = "set"
    /\ signal' = [signal EXCEPT ![Notify(c)] = TRUE]
    /\ i' = [i EXCEPT ![c] = @ + 1]
    /\ Goto(c, IF i[c] + 1 = Rounds THEN "done" ELSE "key")
    /\ UNCHANGED <<index, tmp, printed>>

Step(c) ==
    \/ ReadKey(c) \/ WaitOne(c) \/ WriteLine(c)
    \/ ReadIndex(c) \/ WriteIndex(c) \/ Set(c)

Next == \E c \in Callers : Step(c)

Spec == Init /\ [][Next]_vars

-----------------------------------------------------------------------------
\* The task Program.cs sets: A, B, C, A, B, C, ...  The n-th line printed is
\* the turn of caller (n - 1) % 3 + 1.
PrintsInOrder == \A n \in 1 .. Len(printed) : printed[n] = ((n - 1) % 3) + 1
=============================================================================
