---------------------------- MODULE BoundedBuffer ----------------------------
(***************************************************************************)
(* What a bounded producer/consumer store promises its callers: items come *)
(* out in the order they went in, none is lost, invented or handed out     *)
(* twice, and never more than Capacity of them are inside.                 *)
(***************************************************************************)
EXTENDS Naturals, Sequences

CONSTANTS Items, Capacity

VARIABLES
    buffer,     \* the items inside
    put,        \* every item ever put in, oldest first
    got         \* every item ever taken out, oldest first

Init ==
    /\ buffer = <<>>
    /\ put = <<>>
    /\ got = <<>>

Put(x) ==
    /\ Len(buffer) < Capacity
    /\ buffer' = Append(buffer, x)
    /\ put' = Append(put, x)
    /\ got' = got

Get ==
    /\ buffer # <<>>
    /\ buffer' = Tail(buffer)
    /\ got' = Append(got, Head(buffer))
    /\ put' = put

Next == (\E x \in Items : Put(x)) \/ Get

Spec == Init /\ [][Next]_<<buffer, put, got>>

-----------------------------------------------------------------------------
\* First in, first out: nothing is lost, invented or handed out twice.
FirstInFirstOut == put = got \o buffer

\* Never more than Capacity items are inside.
WithinCapacity == Len(buffer) <= Capacity
=============================================================================
