--------------------------- MODULE MCUnobtrusive ---------------------------
(***************************************************************************)
(* Two fields: a user's name, required and checked remotely together with  *)
(* the mail address, and the mail address, required and checked remotely   *)
(* on its own.                                                             *)
(***************************************************************************)
EXTENDS Unobtrusive, Adapters, TLC

CONSTANTS Ann, Beth, Ann_at     \* two names and a mail address

MCField == {"name", "mail"}

Entered(length) ==
    [length |-> length, nonalpha |-> 0, match |-> "whole", formatted |-> TRUE, number |-> length]

\* What the rules look at in each value.
Reading == (Empty :> Entered(0)) @@ (Ann :> Entered(3)) @@ (Beth :> Entered(3)) @@ (Ann_at :> Entered(4))

Text(name, attr) == [name |-> <<"user", name>>, checkbox |-> FALSE, attr |-> attr]

Markup ==
    ("name" :> Text("name", <<"required">> :> "required" @@ <<"minlength">> :> "too short"
                            @@ <<"minlength", "min">> :> 2
                            @@ <<"remote">> :> "taken"
                            @@ <<"remote", "additionalfields">> :> {<<"*", "name">>, <<"*", "mail">>}))
    @@ ("mail" :> Text("mail", <<"required">> :> "required" @@ <<"remote">> :> "unknown"))

MCInput == ("name" :> {Empty, Ann, Beth}) @@ ("mail" :> {Empty, Ann_at})

MCDefault == [f \in MCField |-> Empty]

MCPassing == ("name" :> {Ann, Beth}) @@ ("mail" :> {Ann_at})

MCSent == ("name" :> {"name", "mail"}) @@ ("mail" :> {"mail"})

\* The rules of the two fields are the ones that the adapters read off their
\* attributes.
ASSUME RulesOfMarkup ==
    \A f \in MCField :
        /\ MCPassing[f] = {v \in MCInput[f] : LocallyValid(rules(Markup[f]), Reading[v])}
        /\ f \in Remote <=> HasRemote(Markup[f])
        /\ MCSent[f] = {f} \cup {g \in MCField : Markup[g].name \in remoteData(Markup[f])}

\* Nothing tells the two names apart.
Names == Permutations({Ann, Beth})
=============================================================================
