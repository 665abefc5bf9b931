------------------------------ MODULE Adapters ------------------------------
(***************************************************************************)
(* The adapters of jquery.validate.unobtrusive.js: how the data-val-*      *)
(* attributes of an element become rules and messages of jQuery Validate,  *)
(* and which values those rules let pass.                                  *)
(*                                                                         *)
(* An element is a record of its name, a sequence of the parts between the *)
(* dots, of whether it is a checkbox, and of attr, its attributes:         *)
(* attr[<<"range">>] is data-val-range and attr[<<"range", "min">>] is     *)
(* data-val-range-min.  A value that was entered is a record of what the   *)
(* rules look at.                                                          *)
(***************************************************************************)
EXTENDS Integers, Sequences

CONSTANTS
    Absent,         \* undefined
    Blank,          \* the empty string
    HasExtension    \* $jQval.methods.extension: additional-methods.js is loaded

\* The rule of a name that is left out is not the one parseElement adds itself.
ASSUME AbsentAssumption == Absent # "__dummy__"

\* An attribute that is there and not empty.
Truthy(x) == x \notin {Absent, Blank}

Attr(e, key) == IF key \in DOMAIN e.attr THEN e.attr[key] ELSE Absent

-----------------------------------------------------------------------------
(***************************************************************************)
(* Registration: adapters.add, addBool, addMinMax and addSingleVal.  The   *)
(* function an adapter is registered with is told by its kind.             *)
(***************************************************************************)
add(adapterName, params, kind, ruleNames) ==
    <<[name |-> adapterName, params |-> params, kind |-> kind, rules |-> ruleNames]>>

addBool(adapterName) == add(adapterName, {}, "bool", <<adapterName>>)

addMinMax(adapterName, minRuleName, maxRuleName, minMaxRuleName) ==
    add(adapterName, {"min", "max"}, "minMax", <<minRuleName, maxRuleName, minMaxRuleName>>)

addSingleVal(adapterName, attribute, ruleName) ==
    add(adapterName, {attribute}, "singleVal", <<ruleName>>)

\* In the order of registration.  A rule name that is left out is undefined.
adapters ==
    (IF HasExtension
     THEN addSingleVal("accept", "mimtype", "accept") \o addSingleVal("extension", "extension", "extension")
     ELSE addSingleVal("extension", "extension", "accept"))
    \o addSingleVal("regex", "pattern", "regex")
    \o addBool("creditcard") \o addBool("date") \o addBool("digits")
    \o addBool("email") \o addBool("number") \o addBool("url")
    \o addMinMax("length", "minlength", "maxlength", "rangelength")
    \o addMinMax("range", "min", "max", "range")
    \o addMinMax("minlength", "minlength", Absent, Absent)
    \o addMinMax("maxlength", "minlength", "maxlength", Absent)
    \o add("equalto", {"other"}, "equalto", <<"equalTo">>)
    \o add("required", {}, "required", <<"required">>)
    \o add("remote", {"url", "type", "additionalfields"}, "remote", <<"remote">>)
    \o add("password", {"min", "nonalphamin", "regex"}, "password", <<"minlength", "nonalphamin", "regex">>)
    \o addSingleVal("fileextensions", "extensions", "extension")

-----------------------------------------------------------------------------
\* getModelPrefix: everything up to the last dot.
getModelPrefix(fieldName) == SubSeq(fieldName, 1, Len(fieldName) - 1)

\* appendModelPrefix: a name that begins with "*." is relative to the prefix.
appendModelPrefix(value, prefix) == IF Head(value) = "*" THEN prefix \o Tail(value) ELSE value

\* The names of the fields a remote check sends: additionalfields, or the field
\* itself.
remoteData(e) ==
    LET listed == Attr(e, <<"remote", "additionalfields">>)
    IN  IF Truthy(listed)
        THEN {appendModelPrefix(n, getModelPrefix(e.name)) : n \in listed}
        ELSE {e.name}

\* The rules when one is set.
setRule(ruleName, value) == [r \in {ruleName} |-> value]

\* Mutant of minMaxRules: the range of both bounds is forgotten.
minOrMaxRules(min, max, ruleNames) ==
    IF Truthy(min) THEN setRule(ruleNames[1], min)
    ELSE IF Truthy(max) THEN setRule(ruleNames[2], max)
    ELSE <<>>

\* The function of addMinMax.
minMaxRules(min, max, ruleNames) ==
    IF Truthy(min) /\ Truthy(max) THEN setRule(ruleNames[3], <<min, max>>)
    ELSE IF Truthy(min) THEN setRule(ruleNames[1], min)
    ELSE IF Truthy(max) THEN setRule(ruleNames[2], max)
    ELSE <<>>

\* The function of the password adapter: each of its rules has a parameter.
passwordRules(param) ==
    [r \in {s \in DOMAIN param : Truthy(param[s])} |-> param[r]]

\* adapt of the adapter a: the rules it sets on the element, as a function from
\* the rule's name to its value.
adapt(a, e) ==
    LET param(x) == Attr(e, <<a.name, x>>)
    IN  CASE a.kind = "bool"      -> setRule(a.rules[1], TRUE)
          [] a.kind = "singleVal" -> setRule(a.rules[1], param(CHOOSE x \in a.params : TRUE))
          [] a.kind = "minMax"    -> minMaxRules(param("min"), param("max"), a.rules)
          [] a.kind = "equalto"   ->
                setRule("equalTo", appendModelPrefix(param("other"), getModelPrefix(e.name)))
          [] a.kind = "required"  -> IF e.checkbox THEN <<>> ELSE setRule("required", TRUE)
          [] a.kind = "remote"    -> setRule("remote", remoteData(e))
          [] a.kind = "password"  ->
                passwordRules([minlength |-> param("min"), nonalphamin |-> param("nonalphamin"),
                               regex |-> param("regex")])

\* The adapters whose data-val attribute the element has, even an empty one.
Applied(e) == {k \in DOMAIN adapters : Attr(e, <<adapters[k].name>>) # Absent}

Setters(e, rule) == {k \in Applied(e) : rule \in DOMAIN adapt(adapters[k], e)}

\* Adapters run in the order of registration, so the last assignment stays.
lastOf(K) == CHOOSE k \in K : \A j \in K : j <= k

\* The rules parseElement gives to an element.  __dummy__ keeps jQuery Validate
\* from taking an element with one rule for unchecked.
rules(e) ==
    [r \in {"__dummy__"} \cup UNION {DOMAIN adapt(adapters[k], e) : k \in Applied(e)} |->
        IF Setters(e, r) = {} THEN TRUE ELSE adapt(adapters[lastOf(Setters(e, r))], e)[r]]

\* The messages: setValidationValues leaves an older one alone if its own is
\* empty.
messages(e) ==
    LET Worded(r) == {k \in Setters(e, r) : Truthy(Attr(e, <<adapters[k].name>>))}
    IN  [r \in {s \in DOMAIN rules(e) : Worded(s) # {}} |->
            Attr(e, <<adapters[lastOf(Worded(r))].name>>)]

-----------------------------------------------------------------------------
(***************************************************************************)
(* $.validator.methods, and the methods regex and nonalphamin.  A rule of  *)
(* a bool adapter asks for a format, which a value has or has not.  remote *)
(* is checked last and on its own.                                         *)
(***************************************************************************)
optional(v) == v.length = 0

\* The methods that are added to it.  A regex adapter without a pattern sets an
\* undefined rule, which $.extend drops when the settings are copied.  A value
\* without a non-word character has no match to count, whatever the minimum.
addedMethod(r, param, v) ==
    CASE r = "__dummy__"   -> TRUE
      [] r = "regex"       -> param = Absent \/ optional(v) \/ v.match = "whole"
      [] r = "nonalphamin" -> v.nonalpha > 0 /\ v.nonalpha >= param

method(r, param, v) ==
    CASE r = "required"    -> v.length > 0
      [] r = "minlength"   -> optional(v) \/ v.length >= param
      [] r = "maxlength"   -> optional(v) \/ v.length <= param
      [] r = "rangelength" -> optional(v) \/ (v.length >= param[1] /\ v.length <= param[2])
      [] r = "range"       -> optional(v) \/ (v.number >= param[1] /\ v.number <= param[2])
      [] r \in {"email", "url", "date", "number", "digits"} -> optional(v) \/ v.formatted
      [] OTHER -> TRUE

\* Every rule of rs but remote lets the value pass.
LocallyValid(rs, v) ==
    \A r \in DOMAIN rs :
        IF r \in {"__dummy__", "regex", "nonalphamin"}
        THEN addedMethod(r, rs[r], v)
        ELSE method(r, rs[r], v)

HasRemote(e) == "remote" \in DOMAIN rules(e)

=============================================================================
