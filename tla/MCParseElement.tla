-------------------------- MODULE MCParseElement --------------------------
(***************************************************************************)
(* Elements with every combination of the attributes that set lengths,     *)
(* with or without a message and with one, two or no bounds; of the other  *)
(* attributes whose rules look at the value; and of those that name other  *)
(* fields.                                                                 *)
(***************************************************************************)
EXTENDS ParseElement, TLC

MCValues ==
    [length : 1 .. 4, nonalpha : {0, 2}, match : {"whole", "part"}, formatted : BOOLEAN, number : {0, 2, 4}]
    \cup {[length |-> 0, nonalpha |-> 0, match |-> "none", formatted |-> FALSE, number |-> 0]}

Text(name, attr) == [name |-> name, checkbox |-> FALSE, attr |-> attr]

Name == <<"user", "name">>

\* An adapter's message and its two parameters, each there or not.
Choice(adapter, p, q) ==
    {(<<adapter>> :> m) @@ (<<adapter, p>> :> x) @@ (<<adapter, q>> :> y) :
        m \in {Absent, Blank, "wrong"}, x \in {Absent, 2}, y \in {Blank, 1, 3}}

Lengths ==
    {a @@ b @@ c : a \in Choice("length", "min", "max"),
                   b \in Choice("password", "min", "nonalphamin"),
                   c \in {(<<"minlength">> :> m) @@ (<<"minlength", "min">> :> 3) : m \in {Absent, "short"}}}

Others ==
    {(<<"required">> :> r) @@ (<<"email">> :> m) @@ (<<"digits">> :> d)
        @@ (<<"regex">> :> x) @@ (<<"regex", "pattern">> :> p)
        @@ (<<"range">> :> g) @@ (<<"range", "min">> :> 1) @@ (<<"range", "max">> :> 3)
        @@ (<<"maxlength">> :> l) @@ (<<"maxlength", "max">> :> 3) :
        r, m, d, x, g, l \in {Absent, "wrong"}, p \in {Absent, "pattern"}}

\* Names beside the element, at two depths, and absolute ones.
Linked ==
    {Text(name, (<<"equalto">> :> "differs") @@ (<<"equalto", "other">> :> other)
                 @@ (<<"remote">> :> "taken") @@ (<<"remote", "additionalfields">> :> fields)) :
        name \in {Name, <<"order", "user", "name">>, <<"name">>},
        other \in {<<"*", "mail">>, <<"user", "mail">>},
        fields \in {Absent, {<<"*", "name">>, <<"*", "mail">>}, {<<"user", "mail">>}}}

MCElements ==
    {Text(Name, attr) : attr \in Lengths \cup Others}
    \cup Linked
    \cup {[name |-> Name, checkbox |-> TRUE, attr |-> (<<"required">> :> "required")]}
=============================================================================
