---------------------------- MODULE ParseElement ----------------------------
(***************************************************************************)
(* parseElement of jquery.validate.unobtrusive.js, one adapter at a time:  *)
(* the loop over the adapters that collects the rules and the messages of  *)
(* an element, against what its attributes ask for and against the closed  *)
(* form that Adapters gives.                                               *)
(***************************************************************************)
EXTENDS Adapters

CONSTANTS
    Elements,       \* elements with data-val=true
    Values          \* the values entered

VARIABLES
    element,        \* the element that is parsed
    next,           \* the place of the next adapter
    ruleSet,        \* rules
    messageSet      \* messages

\* The element has the adapter's data-val attribute.
Marked(e, name) == Attr(e, <<name>>) # Absent

\* The name of a field, or one relative to the element's: "*." and a property.
FieldName(n) == n \in Seq(STRING) /\ n # <<>> /\ (n[1] = "*" => Len(n) = 2)

Bounds == {"length", "range", "minlength", "maxlength", "password"} \X {"min", "max"}

\* Markup as the framework writes it: bounds are numbers, a range has both of
\* them, a minimum or a maximum has one, a password that has to have non-word
\* characters asks for at least one, and other fields are named.  The methods
\* for files and credit cards are not part of the sample.
WellFormed(e) ==
    /\ e.name \in Seq(STRING) /\ e.name # <<>>
    /\ \A b \in Bounds : Truthy(Attr(e, b)) => Attr(e, b) \in Int
    /\ Truthy(Attr(e, <<"password", "nonalphamin">>)) =>
          Attr(e, <<"password", "nonalphamin">>) \in Nat \ {0}
    /\ Marked(e, "range") => Truthy(Attr(e, <<"range", "min">>)) /\ Truthy(Attr(e, <<"range", "max">>))
    /\ ~Truthy(Attr(e, <<"minlength", "max">>)) /\ ~Truthy(Attr(e, <<"maxlength", "min">>))
    /\ Marked(e, "equalto") => FieldName(Attr(e, <<"equalto", "other">>))
    /\ Truthy(Attr(e, <<"remote", "additionalfields">>)) =>
          \A n \in Attr(e, <<"remote", "additionalfields">>) : FieldName(n)
    /\ \A name \in {"accept", "extension", "fileextensions", "creditcard"} : ~Marked(e, name)

ASSUME MarkupAssumption ==
    /\ \A e \in Elements : WellFormed(e)
    /\ \A v \in Values : v.length \in Nat /\ v.nonalpha \in Nat

vars == <<element, next, ruleSet, messageSet>>

Init ==
    /\ element \in Elements
    /\ next = 1
    /\ ruleSet = <<>>
    /\ messageSet = <<>>

\* Mutant of setAll: a rule that is there already stays.
setMissing(old, new) ==
    [r \in DOMAIN old \cup DOMAIN new |-> IF r \in DOMAIN old THEN old[r] ELSE new[r]]

\* setValidationValues, for all the values an adapter sets.
setAll(old, new) ==
    [r \in DOMAIN old \cup DOMAIN new |-> IF r \in DOMAIN new THEN new[r] ELSE old[r]]

\* The element has the adapter's data-val attribute.
Adapt ==
    /\ next <= Len(adapters)
    /\ LET a       == adapters[next]
           message == Attr(element, <<a.name>>)
           set     == adapt(a, element)
       IN  /\ message # Absent
           /\ ruleSet' = setAll(ruleSet, set)
           /\ messageSet' = IF Truthy(message)
                            THEN setAll(messageSet, [r \in DOMAIN set |-> message])
                            ELSE messageSet
    /\ next' = next + 1
    /\ UNCHANGED element

\* It does not.
Skip ==
    /\ next <= Len(adapters)
    /\ Attr(element, <<adapters[next].name>>) = Absent
    /\ next' = next + 1
    /\ UNCHANGED <<element, ruleSet, messageSet>>

\* $.extend(rules, {"__dummy__": true})
Finish ==
    /\ next = Len(adapters) + 1
    /\ ruleSet' = setAll(ruleSet, setRule("__dummy__", TRUE))
    /\ next' = next + 1
    /\ UNCHANGED <<element, messageSet>>

Next == Adapt \/ Skip \/ Finish

Spec == Init /\ [][Next]_vars

Done == next = Len(adapters) + 2

-----------------------------------------------------------------------------
(***************************************************************************)
(* Reference: what the attributes of an element ask of a value, read off   *)
(* the markup and not off the adapters.                                    *)
(***************************************************************************)
AtLeast(e, key, n) == Truthy(Attr(e, key)) => n >= Attr(e, key)
AtMost(e, key, n) == Truthy(Attr(e, key)) => n <= Attr(e, key)

Asks(e, v) ==
    /\ Marked(e, "required") => e.checkbox \/ v.length > 0
    /\ Marked(e, "password") => AtLeast(e, <<"password", "nonalphamin">>, v.nonalpha)
    /\ v.length > 0 =>
        /\ \A name \in {"length", "minlength", "password"} :
              Marked(e, name) => AtLeast(e, <<name, "min">>, v.length)
        /\ \A name \in {"length", "maxlength"} :
              Marked(e, name) => AtMost(e, <<name, "max">>, v.length)
        /\ Marked(e, "range") =>
              AtLeast(e, <<"range", "min">>, v.number) /\ AtMost(e, <<"range", "max">>, v.number)
        /\ Marked(e, "regex") /\ Attr(e, <<"regex", "pattern">>) # Absent => v.match = "whole"
        /\ Marked(e, "password") /\ Truthy(Attr(e, <<"password", "regex">>)) => v.match = "whole"
        /\ \A name \in {"email", "url", "date", "number", "digits"} : Marked(e, name) => v.formatted

\* Two adapters set the same rule, and only the last one counts.
Clash(e) ==
    \E j, k \in Applied(e) :
        j # k /\ DOMAIN adapt(adapters[j], e) \cap DOMAIN adapt(adapters[k], e) # {}

\* The field a name stands for: one beside the element if it begins with "*.".
Named(e, n) == IF Len(n) = 2 /\ n[1] = "*" THEN [e.name EXCEPT ![Len(e.name)] = n[2]] ELSE n

\* The rules that are collected let pass every value the attributes ask for, and
\* no other one, unless two adapters set the same rule: then they may let more
\* pass.  The rules that look at other fields look at the ones the attributes
\* name, at any depth of the model (the adapters and parseElement).
MarkupEnforced ==
    Done =>
        /\ \A v \in Values :
              /\ Asks(element, v) => LocallyValid(ruleSet, v)
              /\ LocallyValid(ruleSet, v) => Asks(element, v) \/ Clash(element)
        /\ Marked(element, "equalto") =>
              ruleSet["equalTo"] = Named(element, Attr(element, <<"equalto", "other">>))
        /\ Marked(element, "remote") /\ Truthy(Attr(element, <<"remote", "additionalfields">>)) =>
              ruleSet["remote"] =
                  {Named(element, n) : n \in Attr(element, <<"remote", "additionalfields">>)}

\* The loop leaves the rules and the messages of the closed form: for each rule
\* the last adapter that sets it, for its message the last that has a text.
RulesAgree ==
    Done => ruleSet = rules(element) /\ messageSet = messages(element)
=============================================================================
