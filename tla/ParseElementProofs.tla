------------------------- MODULE ParseElementProofs -------------------------
(***************************************************************************)
(* Proofs about parseElement, with or without additional-methods.js: the   *)
(* loop and the closed form agree for any attributes with any values, and  *)
(* the rules are what the attributes ask for if the markup is well-formed. *)
(***************************************************************************)
EXTENDS ParseElement, SequenceTheorems, WellFoundedInduction, TLAPS

-----------------------------------------------------------------------------
(***************************************************************************)
(* The registered adapters.                                                *)
(***************************************************************************)
Formats == {"email", "url", "date", "number", "digits"}
Files == {"accept", "extension", "fileextensions"}

RuleNames(a, x, y, z) == a.rules[1] = x /\ a.rules[2] = y /\ a.rules[3] = z

\* The adapters there are: name, kind and the rules they set.
Known(a) ==
    \/ a.kind = "bool" /\ a.rules[1] = a.name /\ a.name \in Formats \cup {"creditcard"}
    \/ a.kind = "singleVal" /\ a.name = "regex" /\ a.params = {"pattern"} /\ a.rules[1] = "regex"
    \/ a.kind = "singleVal" /\ a.name \in Files /\ a.rules[1] \in {"accept", "extension"}
    \/ a.kind = "minMax" /\ a.name = "length" /\ RuleNames(a, "minlength", "maxlength", "rangelength")
    \/ a.kind = "minMax" /\ a.name = "range" /\ RuleNames(a, "min", "max", "range")
    \/ a.kind = "minMax" /\ a.name = "minlength" /\ RuleNames(a, "minlength", Absent, Absent)
    \/ a.kind = "minMax" /\ a.name = "maxlength" /\ RuleNames(a, "minlength", "maxlength", Absent)
    \/ a.kind = a.name /\ a.name \in {"equalto", "required", "remote", "password"}

\* A sequence of known adapters, one for each of the names.
Registers(s, names) ==
    /\ \E S : s \in Seq(S)
    /\ \A i \in 1 .. Len(s) : Known(s[i])
    /\ \A n \in names : \E i \in 1 .. Len(s) : s[i].name = n

\* One such adapter, and two sequences of them.
LEMMA OneRegistered == ASSUME NEW a, Known(a) PROVE Registers(<<a>>, {a.name})
  <1>1. PICK s : s = <<a>>
    OBVIOUS
  <1>2. s \in Seq({a}) /\ Len(s) = 1 /\ s[1] = a
    BY <1>1
  <1>3. Registers(s, {a.name})
    BY <1>2 DEF Registers
  <1> QED
    BY <1>1, <1>3

LEMMA RegisteredJoined ==
    ASSUME NEW s, NEW t, NEW M, NEW N, Registers(s, M), Registers(t, N)
    PROVE  Registers(s \o t, M \cup N)
  <1>1. PICK S : s \in Seq(S)
    BY DEF Registers
  <1>2. PICK T : t \in Seq(T)
    BY DEF Registers
  <1>3. PICK U : U = S \cup T
    OBVIOUS
  <1>4. s \in Seq(U) /\ t \in Seq(U)
    BY <1>1, <1>2, <1>3
  <1>5. PICK u : u = s \o t
    OBVIOUS
  <1>6. /\ u \in Seq(U) /\ Len(u) = Len(s) + Len(t) /\ Len(s) \in Nat /\ Len(t) \in Nat
        /\ \A i \in 1 .. Len(u) : u[i] = IF i <= Len(s) THEN s[i] ELSE t[i - Len(s)]
    BY <1>4, <1>5
  <1>7. \A i \in 1 .. Len(u) : Known(u[i])
    <2>1. SUFFICES ASSUME NEW i \in 1 .. Len(u) PROVE Known(u[i])
      OBVIOUS
    <2>2. CASE i <= Len(s)
      BY <2>2, <1>6 DEF Registers
    <2>3. CASE ~(i <= Len(s))
      <3>1. i - Len(s) \in 1 .. Len(t) /\ u[i] = t[i - Len(s)]
        BY <2>3, <1>6
      <3> QED
        BY <3>1 DEF Registers
    <2> QED
      BY <2>2, <2>3
  <1>8. \A n \in M \cup N : \E i \in 1 .. Len(u) : u[i].name = n
    <2>1. SUFFICES ASSUME NEW n \in M \cup N PROVE \E i \in 1 .. Len(u) : u[i].name = n
      OBVIOUS
    <2>2. CASE n \in M
      <3>1. PICK i \in 1 .. Len(s) : s[i].name = n
        BY <2>2 DEF Registers
      <3>2. i \in 1 .. Len(u) /\ u[i] = s[i]
        BY <1>6
      <3> QED
        BY <3>1, <3>2
    <2>3. CASE n \in N
      <3>1. PICK i \in 1 .. Len(t) : t[i].name = n
        BY <2>3 DEF Registers
      <3>2. i + Len(s) \in 1 .. Len(u) /\ u[i + Len(s)] = t[i]
        BY <1>6
      <3> QED
        BY <3>1, <3>2
    <2> QED
      BY <2>2, <2>3
  <1> QED
    BY <1>5, <1>6, <1>7, <1>8 DEF Registers

\* addBool, addSingleVal, addMinMax and add.
LEMMA BoolAdapter ==
    ASSUME NEW n \in Formats \cup {"creditcard"} PROVE Registers(addBool(n), {n})
  <1>1. PICK a : a = [name |-> n, params |-> {}, kind |-> "bool", rules |-> <<n>>]
    OBVIOUS
  <1>2. Known(a) /\ a.name = n
    BY <1>1 DEF Known
  <1>3. addBool(n) = <<a>>
    BY <1>1 DEF addBool, add
  <1> QED
    BY <1>2, <1>3, OneRegistered

LEMMA SingleValAdapter ==
    ASSUME NEW n, NEW p, NEW r,
           (n = "regex" /\ p = "pattern" /\ r = "regex") \/ (n \in Files /\ r \in {"accept", "extension"})
    PROVE  Registers(addSingleVal(n, p, r), {n})
  <1>1. PICK a : a = [name |-> n, params |-> {p}, kind |-> "singleVal", rules |-> <<r>>]
    OBVIOUS
  <1>2. a.name = n /\ a.kind = "singleVal" /\ a.params = {p} /\ a.rules[1] = r
    BY <1>1
  <1>3. Known(a)
    BY <1>2 DEF Known
  <1>4. addSingleVal(n, p, r) = <<a>>
    BY <1>1 DEF addSingleVal, add
  <1> QED
    BY <1>2, <1>3, <1>4, OneRegistered

LEMMA MinMaxAdapter ==
    ASSUME NEW n, NEW r, NEW s, NEW t,
           \/ n = "length" /\ r = "minlength" /\ s = "maxlength" /\ t = "rangelength"
           \/ n = "range" /\ r = "min" /\ s = "max" /\ t = "range"
           \/ n = "minlength" /\ r = "minlength" /\ s = Absent /\ t = Absent
           \/ n = "maxlength" /\ r = "minlength" /\ s = "maxlength" /\ t = Absent
    PROVE  Registers(addMinMax(n, r, s, t), {n})
  <1>1. PICK a : a = [name |-> n, params |-> {"min", "max"}, kind |-> "minMax", rules |-> <<r, s, t>>]
    OBVIOUS
  <1>2. a.name = n /\ a.kind = "minMax" /\ RuleNames(a, r, s, t)
    BY <1>1 DEF RuleNames
  <1>3. Known(a)
    BY <1>2 DEF Known
  <1>4. addMinMax(n, r, s, t) = <<a>>
    BY <1>1 DEF addMinMax, add
  <1> QED
    BY <1>2, <1>3, <1>4, OneRegistered

LEMMA OwnAdapter ==
    ASSUME NEW n \in {"equalto", "required", "remote", "password"}, NEW P, NEW R
    PROVE  Registers(add(n, P, n, R), {n})
  <1>1. PICK a : a = [name |-> n, params |-> P, kind |-> n, rules |-> R]
    OBVIOUS
  <1>2. a.name = n /\ a.kind = n
    BY <1>1
  <1>3. Known(a)
    BY <1>2 DEF Known
  <1>4. add(n, P, n, R) = <<a>>
    BY <1>1 DEF add
  <1> QED
    BY <1>2, <1>3, <1>4, OneRegistered

\* The names the reference reads.
AskedNames ==
    Formats \cup {"regex", "length", "range", "minlength", "maxlength", "equalto", "required", "remote", "password"}

\* With or without additional-methods.js, the adapters are known, and there is
\* one for every name that is asked for.
LEMMA AdaptersKnown == Registers(adapters, AskedNames)
  <1>1. PICK first : first =
            IF HasExtension
            THEN addSingleVal("accept", "mimtype", "accept") \o addSingleVal("extension", "extension", "extension")
            ELSE addSingleVal("extension", "extension", "accept")
    OBVIOUS
  <1>2. PICK N0 : Registers(first, N0)
    <2>1. /\ Registers(addSingleVal("accept", "mimtype", "accept"), {"accept"})
          /\ Registers(addSingleVal("extension", "extension", "extension"), {"extension"})
          /\ Registers(addSingleVal("extension", "extension", "accept"), {"extension"})
      BY SingleValAdapter DEF Files
    <2>2. Registers(addSingleVal("accept", "mimtype", "accept") \o addSingleVal("extension", "extension", "extension"),
                    {"accept"} \cup {"extension"})
      BY <2>1, RegisteredJoined
    <2> QED
      BY <1>1, <2>1, <2>2
  <1>3. PICK s1 : s1 = first \o addSingleVal("regex", "pattern", "regex")
    OBVIOUS
  <1>4. PICK N1 : N1 = N0 \cup {"regex"} /\ Registers(s1, N1)
    <2>1. Registers(addSingleVal("regex", "pattern", "regex"), {"regex"})
      BY SingleValAdapter DEF Files
    <2> QED
      BY <1>2, <1>3, <2>1, RegisteredJoined
  <1>5. PICK s2 : s2 = s1 \o addBool("creditcard")
    OBVIOUS
  <1>6. PICK N2 : N2 = N1 \cup {"creditcard"} /\ Registers(s2, N2)
    <2>1. Registers(addBool("creditcard"), {"creditcard"})
      BY BoolAdapter DEF Formats
    <2> QED
      BY <1>4, <1>5, <2>1, RegisteredJoined
  <1>7. PICK s3 : s3 = s2 \o addBool("date")
    OBVIOUS
  <1>8. PICK N3 : N3 = N2 \cup {"date"} /\ Registers(s3, N3)
    <2>1. Registers(addBool("date"), {"date"})
      BY BoolAdapter DEF Formats
    <2> QED
      BY <1>6, <1>7, <2>1, RegisteredJoined
  <1>9. PICK s4 : s4 = s3 \o addBool("digits")
    OBVIOUS
  <1>10. PICK N4 : N4 = N3 \cup {"digits"} /\ Registers(s4, N4)
    <2>1. Registers(addBool("digits"), {"digits"})
      BY BoolAdapter DEF Formats
    <2> QED
      BY <1>8, <1>9, <2>1, RegisteredJoined
  <1>11. PICK s5 : s5 = s4 \o addBool("email")
    OBVIOUS
  <1>12. PICK N5 : N5 = N4 \cup {"email"} /\ Registers(s5, N5)
    <2>1. Registers(addBool("email"), {"email"})
      BY BoolAdapter DEF Formats
    <2> QED
      BY <1>10, <1>11, <2>1, RegisteredJoined
  <1>13. PICK s6 : s6 = s5 \o addBool("number")
    OBVIOUS
  <1>14. PICK N6 : N6 = N5 \cup {"number"} /\ Registers(s6, N6)
    <2>1. Registers(addBool("number"), {"number"})
      BY BoolAdapter DEF Formats
    <2> QED
      BY <1>12, <1>13, <2>1, RegisteredJoined
  <1>15. PICK s7 : s7 = s6 \o addBool("url")
    OBVIOUS
  <1>16. PICK N7 : N7 = N6 \cup {"url"} /\ Registers(s7, N7)
    <2>1. Registers(addBool("url"), {"url"})
      BY BoolAdapter DEF Formats
    <2> QED
      BY <1>14, <1>15, <2>1, RegisteredJoined
  <1>17. PICK s8 : s8 = s7 \o addMinMax("length", "minlength", "maxlength", "rangelength")
    OBVIOUS
  <1>18. PICK N8 : N8 = N7 \cup {"length"} /\ Registers(s8, N8)
    <2>1. Registers(addMinMax("length", "minlength", "maxlength", "rangelength"), {"length"})
      BY MinMaxAdapter
    <2> QED
      BY <1>16, <1>17, <2>1, RegisteredJoined
  <1>19. PICK s9 : s9 = s8 \o addMinMax("range", "min", "max", "range")
    OBVIOUS
  <1>20. PICK N9 : N9 = N8 \cup {"range"} /\ Registers(s9, N9)
    <2>1. Registers(addMinMax("range", "min", "max", "range"), {"range"})
      BY MinMaxAdapter
    <2> QED
      BY <1>18, <1>19, <2>1, RegisteredJoined
  <1>21. PICK s10 : s10 = s9 \o addMinMax("minlength", "minlength", Absent, Absent)
    OBVIOUS
  <1>22. PICK N10 : N10 = N9 \cup {"minlength"} /\ Registers(s10, N10)
    <2>1. Registers(addMinMax("minlength", "minlength", Absent, Absent), {"minlength"})
      BY MinMaxAdapter
    <2> QED
      BY <1>20, <1>21, <2>1, RegisteredJoined
  <1>23. PICK s11 : s11 = s10 \o addMinMax("maxlength", "minlength", "maxlength", Absent)
    OBVIOUS
  <1>24. PICK N11 : N11 = N10 \cup {"maxlength"} /\ Registers(s11, N11)
    <2>1. Registers(addMinMax("maxlength", "minlength", "maxlength", Absent), {"maxlength"})
      BY MinMaxAdapter
    <2> QED
      BY <1>22, <1>23, <2>1, RegisteredJoined
  <1>25. PICK s12 : s12 = s11 \o add("equalto", {"other"}, "equalto", <<"equalTo">>)
    OBVIOUS
  <1>26. PICK N12 : N12 = N11 \cup {"equalto"} /\ Registers(s12, N12)
    <2>1. Registers(add("equalto", {"other"}, "equalto", <<"equalTo">>), {"equalto"})
      BY OwnAdapter
    <2> QED
      BY <1>24, <1>25, <2>1, RegisteredJoined
  <1>27. PICK s13 : s13 = s12 \o add("required", {}, "required", <<"required">>)
    OBVIOUS
  <1>28. PICK N13 : N13 = N12 \cup {"required"} /\ Registers(s13, N13)
    <2>1. Registers(add("required", {}, "required", <<"required">>), {"required"})
      BY OwnAdapter
    <2> QED
      BY <1>26, <1>27, <2>1, RegisteredJoined
  <1>29. PICK s14 : s14 = s13 \o add("remote", {"url", "type", "additionalfields"}, "remote", <<"remote">>)
    OBVIOUS
  <1>30. PICK N14 : N14 = N13 \cup {"remote"} /\ Registers(s14, N14)
    <2>1. Registers(add("remote", {"url", "type", "additionalfields"}, "remote", <<"remote">>), {"remote"})
      BY OwnAdapter
    <2> QED
      BY <1>28, <1>29, <2>1, RegisteredJoined
  <1>31. PICK s15 : s15 = s14 \o add("password", {"min", "nonalphamin", "regex"}, "password", <<"minlength", "nonalphamin", "regex">>)
    OBVIOUS
  <1>32. PICK N15 : N15 = N14 \cup {"password"} /\ Registers(s15, N15)
    <2>1. Registers(add("password", {"min", "nonalphamin", "regex"}, "password", <<"minlength", "nonalphamin", "regex">>), {"password"})
      BY OwnAdapter
    <2> QED
      BY <1>30, <1>31, <2>1, RegisteredJoined
  <1>33. PICK s16 : s16 = s15 \o addSingleVal("fileextensions", "extensions", "extension")
    OBVIOUS
  <1>34. PICK N16 : N16 = N15 \cup {"fileextensions"} /\ Registers(s16, N16)
    <2>1. Registers(addSingleVal("fileextensions", "extensions", "extension"), {"fileextensions"})
      BY SingleValAdapter DEF Files
    <2> QED
      BY <1>32, <1>33, <2>1, RegisteredJoined
  <1>35. adapters = s16
    BY <1>1, <1>3, <1>5, <1>7, <1>9, <1>11, <1>13, <1>15, <1>17, <1>19, <1>21, <1>23, <1>25, <1>27, <1>29, <1>31, <1>33 DEF adapters
  <1>36. AskedNames \subseteq N16
    BY <1>4, <1>6, <1>8, <1>10, <1>12, <1>14, <1>16, <1>18, <1>20, <1>22, <1>24, <1>26, <1>28, <1>30, <1>32, <1>34 DEF AskedNames, Formats
  <1> QED
    BY <1>34, <1>35, <1>36 DEF Registers

-----------------------------------------------------------------------------
(***************************************************************************)
(* The rules each kind of adapter sets.                                    *)
(***************************************************************************)

\* One rule is set, and its value.
SetsOnly(f, r) == DOMAIN f = {r}
SetsTo(f, r, p) == DOMAIN f = {r} /\ f[r] = p

LEMMA SetRuleFacts ==
    ASSUME NEW r, NEW p PROVE SetsOnly(setRule(r, p), r) /\ SetsTo(setRule(r, p), r, p)
  BY DEF setRule, SetsOnly, SetsTo

LEMMA BoolSets ==
    ASSUME NEW a, NEW e, a.kind = "bool" PROVE SetsOnly(adapt(a, e), a.rules[1])
  <1>1. PICK p : p = TRUE
    OBVIOUS
  <1>2. adapt(a, e) = setRule(a.rules[1], p)
    BY <1>1 DEF adapt
  <1> QED
    BY <1>2, SetRuleFacts

LEMMA SingleValSets ==
    ASSUME NEW a, NEW e, a.kind = "singleVal" PROVE SetsOnly(adapt(a, e), a.rules[1])
  <1>1. PICK p : adapt(a, e) = setRule(a.rules[1], p)
    BY DEF adapt
  <1> QED
    BY <1>1, SetRuleFacts

\* The rule of the regex adapter is the pattern.
LEMMA PatternSets ==
    ASSUME NEW a, NEW e, a.kind = "singleVal", a.name = "regex", a.params = {"pattern"}, a.rules[1] = "regex"
    PROVE  SetsTo(adapt(a, e), "regex", Attr(e, <<"regex", "pattern">>))
  <1>1. (CHOOSE x \in a.params : TRUE) = "pattern"
    OBVIOUS
  <1>2. adapt(a, e) = setRule("regex", Attr(e, <<"regex", "pattern">>))
    BY <1>1 DEF adapt
  <1> QED
    BY <1>2, SetRuleFacts

\* Both bounds, one of them, or none.
MinMaxSet(f, min, max, x, y, z) ==
    /\ Truthy(min) /\ Truthy(max) => SetsTo(f, z, <<min, max>>)
    /\ Truthy(min) /\ ~Truthy(max) => SetsTo(f, x, min)
    /\ ~Truthy(min) /\ Truthy(max) => SetsTo(f, y, max)
    /\ ~Truthy(min) /\ ~Truthy(max) => DOMAIN f = {}

LEMMA MinMaxSets ==
    ASSUME NEW a, NEW e, NEW x, NEW y, NEW z, a.kind = "minMax", RuleNames(a, x, y, z)
    PROVE  MinMaxSet(adapt(a, e), Attr(e, <<a.name, "min">>), Attr(e, <<a.name, "max">>), x, y, z)
  <1>1. PICK min, max : min = Attr(e, <<a.name, "min">>) /\ max = Attr(e, <<a.name, "max">>)
    OBVIOUS
  <1>2. adapt(a, e) = minMaxRules(min, max, a.rules)
    BY <1>1 DEF adapt
  <1>3. minMaxRules(min, max, a.rules) =
          IF Truthy(min) /\ Truthy(max) THEN setRule(z, <<min, max>>)
          ELSE IF Truthy(min) THEN setRule(x, min)
          ELSE IF Truthy(max) THEN setRule(y, max)
          ELSE <<>>
    BY DEF minMaxRules, RuleNames
  <1>4. /\ SetsTo(setRule(z, <<min, max>>), z, <<min, max>>)
        /\ SetsTo(setRule(x, min), x, min)
        /\ SetsTo(setRule(y, max), y, max)
    BY SetRuleFacts
  <1>5. MinMaxSet(adapt(a, e), min, max, x, y, z)
    <2>1. CASE Truthy(min) /\ Truthy(max)
      BY <2>1, <1>2, <1>3, <1>4 DEF MinMaxSet
    <2>2. CASE Truthy(min) /\ ~Truthy(max)
      BY <2>2, <1>2, <1>3, <1>4 DEF MinMaxSet
    <2>3. CASE ~Truthy(min) /\ Truthy(max)
      BY <2>3, <1>2, <1>3, <1>4 DEF MinMaxSet
    <2>4. CASE ~Truthy(min) /\ ~Truthy(max)
      BY <2>4, <1>2, <1>3 DEF MinMaxSet
    <2> QED
      BY <2>1, <2>2, <2>3, <2>4
  <1> QED
    BY <1>1, <1>5

LEMMA RequiredSets ==
    ASSUME NEW a, NEW e, a.kind = "required"
    PROVE  IF e.checkbox THEN DOMAIN adapt(a, e) = {} ELSE SetsOnly(adapt(a, e), "required")
  <1>1. PICK p : p = TRUE
    OBVIOUS
  <1>2. CASE e.checkbox
    <2>1. adapt(a, e) = <<>>
      BY <1>2 DEF adapt
    <2> QED
      BY <2>1, <1>2
  <1>3. CASE ~e.checkbox
    <2>1. adapt(a, e) = setRule("required", p)
      BY <1>1, <1>3 DEF adapt
    <2> QED
      BY <2>1, <1>3, SetRuleFacts
  <1> QED
    BY <1>2, <1>3

LEMMA EqualToSets ==
    ASSUME NEW a, NEW e, a.kind = "equalto"
    PROVE  SetsTo(adapt(a, e), "equalTo",
                  appendModelPrefix(Attr(e, <<a.name, "other">>), getModelPrefix(e.name)))
  <1>1. adapt(a, e) = setRule("equalTo", appendModelPrefix(Attr(e, <<a.name, "other">>), getModelPrefix(e.name)))
    BY DEF adapt
  <1> QED
    BY <1>1, SetRuleFacts

LEMMA RemoteSets ==
    ASSUME NEW a, NEW e, a.kind = "remote" PROVE SetsTo(adapt(a, e), "remote", remoteData(e))
  <1>1. adapt(a, e) = setRule("remote", remoteData(e))
    BY DEF adapt
  <1> QED
    BY <1>1, SetRuleFacts

\* Each parameter that is there sets its rule.
PasswordSet(f, min, nonalphamin, regex) ==
    /\ DOMAIN f = {r \in {"minlength", "nonalphamin", "regex"} :
                      \/ r = "minlength" /\ Truthy(min)
                      \/ r = "nonalphamin" /\ Truthy(nonalphamin)
                      \/ r = "regex" /\ Truthy(regex)}
    /\ Truthy(min) => f["minlength"] = min
    /\ Truthy(nonalphamin) => f["nonalphamin"] = nonalphamin
    /\ Truthy(regex) => f["regex"] = regex

LEMMA PasswordSets ==
    ASSUME NEW a, NEW e, a.kind = "password"
    PROVE  PasswordSet(adapt(a, e), Attr(e, <<a.name, "min">>), Attr(e, <<a.name, "nonalphamin">>),
                       Attr(e, <<a.name, "regex">>))
  <1>1. PICK x, y, z : /\ x = Attr(e, <<a.name, "min">>) /\ y = Attr(e, <<a.name, "nonalphamin">>)
                       /\ z = Attr(e, <<a.name, "regex">>)
    OBVIOUS
  <1>2. PICK param : param = [minlength |-> x, nonalphamin |-> y, regex |-> z]
    OBVIOUS
  <1>3. adapt(a, e) = passwordRules(param)
    BY <1>1, <1>2 DEF adapt
  <1>4. /\ DOMAIN param = {"minlength", "nonalphamin", "regex"}
        /\ param["minlength"] = x /\ param["nonalphamin"] = y /\ param["regex"] = z
    BY <1>2
  <1>5. PasswordSet(passwordRules(param), x, y, z)
    BY <1>4 DEF PasswordSet, passwordRules
  <1> QED
    BY <1>1, <1>3, <1>5

\* No adapter sets __dummy__.
LEMMA KnownQuiet ==
    ASSUME NEW a, NEW e, Known(a) PROVE "__dummy__" \notin DOMAIN adapt(a, e)
  <1>1. CASE a.kind = "bool"
    <2>1. a.rules[1] # "__dummy__"
      BY <1>1 DEF Known, Formats
    <2> QED
      BY <1>1, <2>1, BoolSets DEF SetsOnly
  <1>2. CASE a.kind = "singleVal"
    <2>1. a.rules[1] # "__dummy__"
      BY <1>2 DEF Known, Files
    <2> QED
      BY <1>2, <2>1, SingleValSets DEF SetsOnly
  <1>3. CASE a.kind = "minMax"
    <2>1. PICK x, y, z : RuleNames(a, x, y, z) /\ "__dummy__" \notin {x, y, z}
      BY <1>3, AbsentAssumption DEF Known
    <2>2. PICK min, max : MinMaxSet(adapt(a, e), min, max, x, y, z)
      BY <1>3, <2>1, MinMaxSets
    <2> QED
      BY <2>1, <2>2 DEF MinMaxSet, SetsTo
  <1>4. CASE a.kind = "required"
    <2>1. CASE e.checkbox
      <3>1. DOMAIN adapt(a, e) = {}
        BY <1>4, <2>1, RequiredSets
      <3> QED
        BY <3>1
    <2>2. CASE ~e.checkbox
      <3>1. SetsOnly(adapt(a, e), "required")
        BY <1>4, <2>2, RequiredSets
      <3> QED
        BY <3>1 DEF SetsOnly
    <2> QED
      BY <2>1, <2>2
  <1>5. CASE a.kind = "equalto"
    <2>1. PICK p : SetsTo(adapt(a, e), "equalTo", p)
      BY <1>5, EqualToSets
    <2> QED
      BY <2>1 DEF SetsTo
  <1>6. CASE a.kind = "remote"
    <2>1. SetsTo(adapt(a, e), "remote", remoteData(e))
      BY <1>6, RemoteSets
    <2> QED
      BY <2>1 DEF SetsTo
  <1>7. CASE a.kind = "password"
    <2>1. PICK x, y, z : PasswordSet(adapt(a, e), x, y, z)
      BY <1>7, PasswordSets
    <2> QED
      BY <2>1 DEF PasswordSet
  <1> QED
    BY <1>1, <1>2, <1>3, <1>4, <1>5, <1>6, <1>7 DEF Known

-----------------------------------------------------------------------------
(***************************************************************************)
(* The closed form of a loop that has passed the adapters at the places K. *)
(* SetAt(k, e) is what the adapter at k sets and TextAt(k, e) its message.  *)
(***************************************************************************)
SetAt(k, e) == adapt(adapters[k], e)
TextAt(k, e) == Attr(e, <<adapters[k].name>>)

SettersIn(K, e, r) == {k \in K : r \in DOMAIN SetAt(k, e)}
WordedIn(K, e, r) == {k \in SettersIn(K, e, r) : Truthy(TextAt(k, e))}

RulesIn(K, e) ==
    [r \in UNION {DOMAIN SetAt(k, e) : k \in K} |-> SetAt(lastOf(SettersIn(K, e, r)), e)[r]]

MessagesIn(K, e) ==
    [r \in {s \in UNION {DOMAIN SetAt(k, e) : k \in K} : WordedIn(K, e, s) # {}} |->
        TextAt(lastOf(WordedIn(K, e, r)), e)]

\* The last of some places and a later one is the later one.
LEMMA LastIsNew ==
    ASSUME NEW K, K \subseteq Nat, NEW n \in Nat, \A k \in K : k < n
    PROVE  lastOf(K \cup {n}) = n
  <1>1. PICK L : L = K \cup {n}
    OBVIOUS
  <1>2. n \in L /\ \A j \in L : j <= n
    BY <1>1
  <1>3. \A k \in L : (\A j \in L : j <= k) => k = n
    BY <1>1, <1>2
  <1>4. lastOf(L) = n
    BY <1>2, <1>3 DEF lastOf
  <1> QED
    BY <1>1, <1>4

\* An adapter at n joins the setters of the rules it sets, and only those.
LEMMA SettersJoined ==
    ASSUME NEW K, NEW e, NEW n, NEW r, r \in DOMAIN SetAt(n, e)
    PROVE  SettersIn(K \cup {n}, e, r) = SettersIn(K, e, r) \cup {n}
  BY DEF SettersIn

LEMMA SettersKept ==
    ASSUME NEW K, NEW e, NEW n, NEW r, r \notin DOMAIN SetAt(n, e)
    PROVE  SettersIn(K \cup {n}, e, r) = SettersIn(K, e, r)
  BY DEF SettersIn

LEMMA WordedJoined ==
    ASSUME NEW K, NEW e, NEW n, NEW r, r \in DOMAIN SetAt(n, e), Truthy(TextAt(n, e))
    PROVE  WordedIn(K \cup {n}, e, r) = WordedIn(K, e, r) \cup {n}
  BY DEF WordedIn, SettersIn

LEMMA WordedKept ==
    ASSUME NEW K, NEW e, NEW n, NEW r, r \notin DOMAIN SetAt(n, e) \/ ~Truthy(TextAt(n, e))
    PROVE  WordedIn(K \cup {n}, e, r) = WordedIn(K, e, r)
  BY DEF WordedIn, SettersIn

\* Passing one more adapter is what setValidationValues does to the rules.
LEMMA RulesJoined ==
    ASSUME NEW K, K \subseteq Nat, NEW n \in Nat, \A k \in K : k < n, NEW e
    PROVE  RulesIn(K \cup {n}, e) = setAll(RulesIn(K, e), SetAt(n, e))
  <1>1. PICK D : D = UNION {DOMAIN SetAt(k, e) : k \in K}
    OBVIOUS
  <1>2. PICK E : E = UNION {DOMAIN SetAt(k, e) : k \in K \cup {n}}
    OBVIOUS
  <1>3. E = D \cup DOMAIN SetAt(n, e)
    BY <1>1, <1>2
  <1>4. /\ DOMAIN RulesIn(K, e) = D
        /\ \A r \in D : RulesIn(K, e)[r] = SetAt(lastOf(SettersIn(K, e, r)), e)[r]
    BY <1>1 DEF RulesIn
  <1>5. RulesIn(K \cup {n}, e) = [r \in E |-> SetAt(lastOf(SettersIn(K \cup {n}, e, r)), e)[r]]
    BY <1>2 DEF RulesIn
  <1>6. setAll(RulesIn(K, e), SetAt(n, e)) =
          [r \in E |-> IF r \in DOMAIN SetAt(n, e) THEN SetAt(n, e)[r] ELSE RulesIn(K, e)[r]]
    BY <1>3, <1>4 DEF setAll
  <1>7. ASSUME NEW r \in E
        PROVE  SetAt(lastOf(SettersIn(K \cup {n}, e, r)), e)[r] =
                 IF r \in DOMAIN SetAt(n, e) THEN SetAt(n, e)[r] ELSE RulesIn(K, e)[r]
    <2>1. CASE r \in DOMAIN SetAt(n, e)
      <3>1. SettersIn(K \cup {n}, e, r) = SettersIn(K, e, r) \cup {n}
        BY <2>1, SettersJoined
      <3>2. SettersIn(K, e, r) \subseteq Nat /\ \A k \in SettersIn(K, e, r) : k < n
        BY DEF SettersIn
      <3>3. lastOf(SettersIn(K, e, r) \cup {n}) = n
        BY <3>2, LastIsNew
      <3> QED
        BY <2>1, <3>1, <3>3
    <2>2. CASE r \notin DOMAIN SetAt(n, e)
      <3>1. SettersIn(K \cup {n}, e, r) = SettersIn(K, e, r)
        BY <2>2, SettersKept
      <3>2. r \in D
        BY <1>3, <2>2
      <3> QED
        BY <2>2, <3>1, <3>2, <1>4
    <2> QED
      BY <2>1, <2>2
  <1> QED
    BY <1>5, <1>6, <1>7

\* And to the messages: an empty one leaves the older one alone.
LEMMA MessagesJoined ==
    ASSUME NEW K, K \subseteq Nat, NEW n \in Nat, \A k \in K : k < n, NEW e
    PROVE  MessagesIn(K \cup {n}, e) =
             IF Truthy(TextAt(n, e)) THEN setAll(MessagesIn(K, e), [r \in DOMAIN SetAt(n, e) |-> TextAt(n, e)])
                             ELSE MessagesIn(K, e)
  <1>1. PICK D : D = {s \in UNION {DOMAIN SetAt(k, e) : k \in K} : WordedIn(K, e, s) # {}}
    OBVIOUS
  <1>2. PICK E : E = {s \in UNION {DOMAIN SetAt(k, e) : k \in K \cup {n}} : WordedIn(K \cup {n}, e, s) # {}}
    OBVIOUS
  <1>3. /\ DOMAIN MessagesIn(K, e) = D
        /\ \A r \in D : MessagesIn(K, e)[r] = TextAt(lastOf(WordedIn(K, e, r)), e)
        /\ MessagesIn(K, e) = [r \in D |-> TextAt(lastOf(WordedIn(K, e, r)), e)]
    BY <1>1 DEF MessagesIn
  <1>4. MessagesIn(K \cup {n}, e) = [r \in E |-> TextAt(lastOf(WordedIn(K \cup {n}, e, r)), e)]
    BY <1>2 DEF MessagesIn
  <1>5. CASE Truthy(TextAt(n, e))
    <2>1. E = D \cup DOMAIN SetAt(n, e)
      <3>1. \A s : s \in DOMAIN SetAt(n, e) => s \in E
        <4>1. SUFFICES ASSUME NEW s, s \in DOMAIN SetAt(n, e) PROVE s \in E
          OBVIOUS
        <4>2. n \in WordedIn(K \cup {n}, e, s)
          BY <1>5, <4>1 DEF WordedIn, SettersIn
        <4>3. s \in UNION {DOMAIN SetAt(k, e) : k \in K \cup {n}}
          BY <4>1
        <4> QED
          BY <1>2, <4>2, <4>3
      <3>2. \A s : s \notin DOMAIN SetAt(n, e) => (s \in E <=> s \in D)
        <4>1. SUFFICES ASSUME NEW s, s \notin DOMAIN SetAt(n, e) PROVE s \in E <=> s \in D
          OBVIOUS
        <4>2. WordedIn(K \cup {n}, e, s) = WordedIn(K, e, s)
          BY <4>1, WordedKept
        <4>3. s \in UNION {DOMAIN SetAt(k, e) : k \in K \cup {n}} <=> s \in UNION {DOMAIN SetAt(k, e) : k \in K}
          BY <4>1
        <4> QED
          BY <1>1, <1>2, <4>2, <4>3
      <3>3. \A s : s \in D => s \in E
        <4>1. SUFFICES ASSUME NEW s, s \in D PROVE s \in E
          OBVIOUS
        <4>2. CASE s \in DOMAIN SetAt(n, e)
          BY <4>2, <3>1
        <4>3. CASE s \notin DOMAIN SetAt(n, e)
          BY <4>1, <4>3, <3>2
        <4> QED
          BY <4>2, <4>3
      <3> QED
        BY <3>1, <3>2, <3>3
    <2>2. setAll(MessagesIn(K, e), [r \in DOMAIN SetAt(n, e) |-> TextAt(n, e)]) =
            [r \in E |-> IF r \in DOMAIN SetAt(n, e) THEN TextAt(n, e) ELSE MessagesIn(K, e)[r]]
      BY <1>3, <2>1 DEF setAll
    <2>3. ASSUME NEW r \in E
          PROVE  TextAt(lastOf(WordedIn(K \cup {n}, e, r)), e) =
                   IF r \in DOMAIN SetAt(n, e) THEN TextAt(n, e) ELSE MessagesIn(K, e)[r]
      <3>1. CASE r \in DOMAIN SetAt(n, e)
        <4>1. WordedIn(K \cup {n}, e, r) = WordedIn(K, e, r) \cup {n}
          BY <1>5, <3>1, WordedJoined
        <4>2. WordedIn(K, e, r) \subseteq Nat /\ \A k \in WordedIn(K, e, r) : k < n
          BY DEF WordedIn, SettersIn
        <4>3. lastOf(WordedIn(K, e, r) \cup {n}) = n
          BY <4>2, LastIsNew
        <4> QED
          BY <3>1, <4>1, <4>3
      <3>2. CASE r \notin DOMAIN SetAt(n, e)
        <4>1. WordedIn(K \cup {n}, e, r) = WordedIn(K, e, r)
          BY <3>2, WordedKept
        <4>2. r \in D
          BY <2>1, <3>2
        <4> QED
          BY <3>2, <4>1, <4>2, <1>3
      <3> QED
        BY <3>1, <3>2
    <2> QED
      BY <1>4, <1>5, <2>2, <2>3
  <1>6. CASE ~Truthy(TextAt(n, e))
    <2>1. \A r : WordedIn(K \cup {n}, e, r) = WordedIn(K, e, r)
      BY <1>6, WordedKept
    <2>2. \A s : WordedIn(K, e, s) # {} => s \in UNION {DOMAIN SetAt(k, e) : k \in K}
      BY DEF WordedIn, SettersIn
    <2>3. E = D
      BY <1>1, <1>2, <2>1, <2>2
    <2> QED
      BY <1>3, <1>4, <1>6, <2>1, <2>3
  <1> QED
    BY <1>5, <1>6

-----------------------------------------------------------------------------
(***************************************************************************)
(* The loop of parseElement.                                               *)
(***************************************************************************)

\* The adapters before n that have their data-val attribute.
Passed(e, n) == {k \in Applied(e) : k < n}

\* Before the end, the loop has the closed form of the adapters it has passed;
\* after it, that of all of them.
LoopInv ==
    /\ next \in 1 .. Len(adapters) + 2
    /\ next <= Len(adapters) + 1 =>
          /\ ruleSet = RulesIn(Passed(element, next), element)
          /\ messageSet = MessagesIn(Passed(element, next), element)
    /\ RulesAgree

LEMMA AdapterPlaces == Len(adapters) \in Nat /\ DOMAIN adapters = 1 .. Len(adapters)
  <1>1. PICK S : adapters \in Seq(S)
    BY AdaptersKnown DEF Registers
  <1> QED
    BY <1>1

LEMMA KnownAt == ASSUME NEW k \in DOMAIN adapters PROVE Known(adapters[k])
  BY AdaptersKnown, AdapterPlaces DEF Registers

LEMMA NoDummy ==
    ASSUME NEW e, NEW k \in DOMAIN adapters
    PROVE  "__dummy__" \notin DOMAIN adapt(adapters[k], e)
  BY KnownAt, KnownQuiet

\* The adapter at n is passed next if the element has its attribute.
LEMMA PassedNext ==
    ASSUME NEW e, NEW n \in DOMAIN adapters
    PROVE  /\ Passed(e, n) \subseteq Nat
           /\ \A k \in Passed(e, n) : k < n
           /\ Passed(e, n + 1) = IF Attr(e, <<adapters[n].name>>) # Absent
                                 THEN Passed(e, n) \cup {n} ELSE Passed(e, n)
  <1>1. Applied(e) \subseteq Nat /\ n \in Nat
    BY AdapterPlaces DEF Applied
  <1>2. n \in Applied(e) <=> Attr(e, <<adapters[n].name>>) # Absent
    BY DEF Applied
  <1>3. PICK A : A = Applied(e)
    OBVIOUS
  <1>4. {k \in A : k < n + 1} = IF n \in A THEN {k \in A : k < n} \cup {n} ELSE {k \in A : k < n}
    BY <1>1, <1>3
  <1> QED
    BY <1>1, <1>2, <1>3, <1>4 DEF Passed

\* At the end all the adapters are passed.
LEMMA PassedAll == ASSUME NEW e PROVE Passed(e, Len(adapters) + 1) = Applied(e)
  BY AdapterPlaces DEF Passed, Applied

\* With all of them passed, the closed form is the one Adapters gives.
LEMMA ClosedSetters ==
    ASSUME NEW e, NEW r
    PROVE  SettersIn(Applied(e), e, r) = Setters(e, r)
  BY DEF SettersIn, SetAt, Setters

LEMMA ClosedWorded ==
    ASSUME NEW e, NEW r
    PROVE  WordedIn(Applied(e), e, r) =
             {k \in Setters(e, r) : Truthy(Attr(e, <<adapters[k].name>>))}
  BY ClosedSetters DEF WordedIn, TextAt

LEMMA DummyUnset ==
    ASSUME NEW e
    PROVE  /\ "__dummy__" \notin UNION {DOMAIN SetAt(k, e) : k \in Applied(e)}
           /\ Setters(e, "__dummy__") = {}
  <1>1. \A k \in Applied(e) : "__dummy__" \notin DOMAIN adapt(adapters[k], e)
    BY NoDummy DEF Applied
  <1> QED
    BY <1>1 DEF SetAt, Setters

LEMMA ClosedRules ==
    ASSUME NEW e
    PROVE  setAll(RulesIn(Applied(e), e), setRule("__dummy__", TRUE)) = rules(e)
  <1>1. PICK D : D = UNION {DOMAIN SetAt(k, e) : k \in Applied(e)}
    OBVIOUS
  <1>2. PICK E : E = {"__dummy__"} \cup D
    OBVIOUS
  <1>3. "__dummy__" \notin D /\ Setters(e, "__dummy__") = {}
    BY <1>1, DummyUnset
  <1>4. /\ DOMAIN RulesIn(Applied(e), e) = D
        /\ \A r \in D : RulesIn(Applied(e), e)[r] = SetAt(lastOf(SettersIn(Applied(e), e, r)), e)[r]
    BY <1>1 DEF RulesIn
  <1>5. PICK dummy : dummy = setRule("__dummy__", TRUE)
    OBVIOUS
  <1>6. DOMAIN dummy = {"__dummy__"} /\ dummy["__dummy__"] = TRUE
    BY <1>5 DEF setRule
  <1>7. setAll(RulesIn(Applied(e), e), dummy) =
          [r \in E |-> IF r \in {"__dummy__"} THEN dummy[r] ELSE RulesIn(Applied(e), e)[r]]
    BY <1>2, <1>4, <1>6 DEF setAll
  <1>8. rules(e) = [r \in E |-> IF Setters(e, r) = {} THEN TRUE ELSE SetAt(lastOf(Setters(e, r)), e)[r]]
    BY <1>1, <1>2 DEF rules, SetAt
  <1>9. ASSUME NEW r \in E
        PROVE  (IF r \in {"__dummy__"} THEN dummy[r] ELSE RulesIn(Applied(e), e)[r]) =
                 IF Setters(e, r) = {} THEN TRUE ELSE SetAt(lastOf(Setters(e, r)), e)[r]
    <2>1. CASE r = "__dummy__"
      BY <2>1, <1>3, <1>6
    <2>2. CASE r # "__dummy__"
      <3>1. r \in D
        BY <2>2, <1>2
      <3>2. Setters(e, r) # {}
        BY <3>1, <1>1 DEF Setters, SetAt
      <3>3. SettersIn(Applied(e), e, r) = Setters(e, r)
        BY ClosedSetters
      <3> QED
        BY <2>2, <3>1, <3>2, <3>3, <1>4
    <2> QED
      BY <2>1, <2>2
  <1> QED
    BY <1>5, <1>7, <1>8, <1>9

LEMMA ClosedMessages ==
    ASSUME NEW e
    PROVE  MessagesIn(Applied(e), e) = messages(e)
  <1>1. PICK D : D = {s \in UNION {DOMAIN SetAt(k, e) : k \in Applied(e)} : WordedIn(Applied(e), e, s) # {}}
    OBVIOUS
  <1>2. PICK E : E = {s \in DOMAIN rules(e) : WordedIn(Applied(e), e, s) # {}}
    OBVIOUS
  <1>3. DOMAIN rules(e) = {"__dummy__"} \cup UNION {DOMAIN SetAt(k, e) : k \in Applied(e)}
    BY DEF rules, SetAt
  <1>4. WordedIn(Applied(e), e, "__dummy__") = {}
    BY ClosedWorded, DummyUnset
  <1>5. D = E
    BY <1>1, <1>2, <1>3, <1>4
  <1>6. MessagesIn(Applied(e), e) = [r \in D |-> TextAt(lastOf(WordedIn(Applied(e), e, r)), e)]
    BY <1>1 DEF MessagesIn
  <1>7. messages(e) = [r \in E |-> TextAt(lastOf(WordedIn(Applied(e), e, r)), e)]
    BY <1>2, ClosedWorded DEF messages, TextAt
  <1> QED
    BY <1>5, <1>6, <1>7

-----------------------------------------------------------------------------
LEMMA InitLoopInv == Init => LoopInv
  <1>1. SUFFICES ASSUME Init PROVE LoopInv
    OBVIOUS
  <1>2. next = 1 /\ ruleSet = <<>> /\ messageSet = <<>>
    BY <1>1 DEF Init
  <1>3. Len(adapters) \in Nat
    BY AdapterPlaces
  <1>4. Passed(element, 1) = {}
    BY AdapterPlaces DEF Passed, Applied
  <1>5. RulesIn({}, element) = <<>> /\ MessagesIn({}, element) = <<>>
    BY DEF RulesIn, MessagesIn
  <1> QED
    BY <1>2, <1>3, <1>4, <1>5 DEF LoopInv, RulesAgree, Done

\* The step of each adapter, and the end.
LEMMA AdaptKeeps == ASSUME LoopInv, Adapt PROVE LoopInv'
  <1>1. Len(adapters) \in Nat /\ next \in 1 .. Len(adapters) /\ next' = next + 1 /\ element' = element
    BY AdapterPlaces DEF LoopInv, Adapt
  <1>2. next \in DOMAIN adapters /\ next \in Nat
    BY <1>1, AdapterPlaces
  <1>3. PICK K : K = Passed(element, next)
    OBVIOUS
  <1>4. K \subseteq Nat /\ (\A k \in K : k < next) /\ Passed(element, next + 1) = K \cup {next}
    BY <1>2, <1>3, PassedNext DEF Adapt
  <1>5. ruleSet = RulesIn(K, element) /\ messageSet = MessagesIn(K, element)
    BY <1>1, <1>3 DEF LoopInv
  <1>6. /\ ruleSet' = setAll(ruleSet, SetAt(next, element))
        /\ messageSet' = IF Truthy(TextAt(next, element))
                         THEN setAll(messageSet, [r \in DOMAIN SetAt(next, element) |-> TextAt(next, element)])
                         ELSE messageSet
    BY DEF Adapt, SetAt, TextAt
  <1>7. ruleSet' = RulesIn(K \cup {next}, element)
    BY <1>2, <1>4, <1>5, <1>6, RulesJoined
  <1>8. messageSet' = MessagesIn(K \cup {next}, element)
    BY <1>2, <1>4, <1>5, <1>6, MessagesJoined
  <1>9. next' \in 1 .. Len(adapters) + 2 /\ next' # Len(adapters) + 2
    BY <1>1
  <1> QED
    BY <1>1, <1>4, <1>7, <1>8, <1>9 DEF LoopInv, RulesAgree, Done

LEMMA SkipKeeps == ASSUME LoopInv, Skip PROVE LoopInv'
  <1>1. Len(adapters) \in Nat /\ next \in 1 .. Len(adapters) /\ next' = next + 1
    BY AdapterPlaces DEF LoopInv, Skip
  <1>2. element' = element /\ ruleSet' = ruleSet /\ messageSet' = messageSet
    BY DEF Skip
  <1>3. next \in DOMAIN adapters
    BY <1>1, AdapterPlaces
  <1>4. Passed(element, next + 1) = Passed(element, next)
    BY <1>3, PassedNext DEF Skip
  <1>5. next' \in 1 .. Len(adapters) + 2 /\ next' # Len(adapters) + 2
    BY <1>1
  <1> QED
    BY <1>1, <1>2, <1>4, <1>5 DEF LoopInv, RulesAgree, Done

LEMMA FinishKeeps == ASSUME LoopInv, Finish PROVE LoopInv'
  <1>1. Len(adapters) \in Nat
    BY AdapterPlaces
  <1>2. next = Len(adapters) + 1 /\ next' = next + 1 /\ element' = element /\ messageSet' = messageSet
    BY DEF Finish
  <1>3. ruleSet = RulesIn(Applied(element), element) /\ messageSet = MessagesIn(Applied(element), element)
    BY <1>1, <1>2, PassedAll DEF LoopInv
  <1>4. ruleSet' = rules(element)
    BY <1>3, ClosedRules DEF Finish
  <1>5. messageSet' = messages(element)
    BY <1>2, <1>3, ClosedMessages
  <1>6. next' \in 1 .. Len(adapters) + 2 /\ ~(next' <= Len(adapters) + 1)
    BY <1>1, <1>2
  <1> QED
    BY <1>2, <1>4, <1>5, <1>6 DEF LoopInv, RulesAgree

LEMMA NextLoopInv == LoopInv /\ [Next]_vars => LoopInv'
  <1>1. CASE UNCHANGED vars
    BY <1>1 DEF vars, LoopInv, RulesAgree, Done
  <1> QED
    BY <1>1, AdaptKeeps, SkipKeeps, FinishKeeps DEF Next

\* For every element, whatever its attributes and their values are, the loop of
\* parseElement and setValidationValues leaves the rules and the messages of
\* the closed form, with which the form that is validated is modelled.
THEOREM ParsedRulesAgree == Spec => []RulesAgree
  <1>1. LoopInv => RulesAgree
    BY DEF LoopInv
  <1> QED
    BY <1>1, InitLoopInv, NextLoopInv, PTL DEF Spec

-----------------------------------------------------------------------------
(***************************************************************************)
(* The rules against the markup.                                           *)
(***************************************************************************)

\* The rule r with the parameter p lets v pass.
Passes(r, p, v) ==
    IF r \in {"__dummy__", "regex", "nonalphamin"} THEN addedMethod(r, p, v) ELSE method(r, p, v)

LEMMA LengthMethods ==
    ASSUME NEW p, NEW v
    PROVE  /\ Passes("required", p, v) <=> v.length > 0
           /\ Passes("minlength", p, v) <=> v.length = 0 \/ v.length >= p
           /\ Passes("maxlength", p, v) <=> v.length = 0 \/ v.length <= p
           /\ Passes("rangelength", p, v) <=> v.length = 0 \/ (v.length >= p[1] /\ v.length <= p[2])
  BY DEF Passes, method, optional

LEMMA ContentMethods ==
    ASSUME NEW p, NEW v
    PROVE  /\ Passes("range", p, v) <=> v.length = 0 \/ (v.number >= p[1] /\ v.number <= p[2])
           /\ Passes("regex", p, v) <=> p = Absent \/ v.length = 0 \/ v.match = "whole"
           /\ Passes("nonalphamin", p, v) <=> v.nonalpha > 0 /\ v.nonalpha >= p
           /\ Passes("__dummy__", p, v)
           /\ Passes("equalTo", p, v) /\ Passes("remote", p, v)
  BY DEF Passes, method, addedMethod, optional

LEMMA FormatMethods ==
    ASSUME NEW p, NEW v, NEW r \in Formats
    PROVE  Passes(r, p, v) <=> v.length = 0 \/ v.formatted
  BY DEF Passes, method, optional, Formats

\* Every rule the adapter a sets on e lets v pass.
AllPass(a, e, v) == \A r \in DOMAIN adapt(a, e) : Passes(r, adapt(a, e)[r], v)

\* What is asked of v in the name of one adapter.
AskedBy(n, e, v) ==
    /\ n = "required" => e.checkbox \/ v.length > 0
    /\ n = "password" => AtLeast(e, <<"password", "nonalphamin">>, v.nonalpha)
    /\ v.length > 0 =>
        /\ n \in {"length", "minlength", "password"} => AtLeast(e, <<n, "min">>, v.length)
        /\ n \in {"length", "maxlength"} => AtMost(e, <<n, "max">>, v.length)
        /\ n = "range" =>
              AtLeast(e, <<"range", "min">>, v.number) /\ AtMost(e, <<"range", "max">>, v.number)
        /\ n = "regex" /\ Attr(e, <<"regex", "pattern">>) # Absent => v.match = "whole"
        /\ n = "password" /\ Truthy(Attr(e, <<"password", "regex">>)) => v.match = "whole"
        /\ n \in Formats => v.formatted

LEMMA AsksByName ==
    ASSUME NEW e, NEW v
    PROVE  Asks(e, v) <=> \A n \in AskedNames : Marked(e, n) => AskedBy(n, e, v)
  <1>1. ASSUME Asks(e, v), NEW n \in AskedNames, Marked(e, n) PROVE AskedBy(n, e, v)
    BY <1>1 DEF Asks, AskedBy, Formats
  <1>2. ASSUME \A n \in AskedNames : Marked(e, n) => AskedBy(n, e, v) PROVE Asks(e, v)
    <2>1. Marked(e, "required") => e.checkbox \/ v.length > 0
      BY <1>2 DEF AskedBy, AskedNames
    <2>2. Marked(e, "password") => AtLeast(e, <<"password", "nonalphamin">>, v.nonalpha)
      BY <1>2 DEF AskedBy, AskedNames
    <2>3. ASSUME v.length > 0, NEW n \in {"length", "minlength", "password"}, Marked(e, n)
          PROVE  AtLeast(e, <<n, "min">>, v.length)
      BY <1>2, <2>3 DEF AskedBy, AskedNames
    <2>4. ASSUME v.length > 0, NEW n \in {"length", "maxlength"}, Marked(e, n)
          PROVE  AtMost(e, <<n, "max">>, v.length)
      BY <1>2, <2>4 DEF AskedBy, AskedNames
    <2>5. v.length > 0 /\ Marked(e, "range") =>
            AtLeast(e, <<"range", "min">>, v.number) /\ AtMost(e, <<"range", "max">>, v.number)
      BY <1>2 DEF AskedBy, AskedNames
    <2>6. v.length > 0 /\ Marked(e, "regex") /\ Attr(e, <<"regex", "pattern">>) # Absent =>
            v.match = "whole"
      BY <1>2 DEF AskedBy, AskedNames
    <2>7. v.length > 0 /\ Marked(e, "password") /\ Truthy(Attr(e, <<"password", "regex">>)) => v.match = "whole"
      BY <1>2 DEF AskedBy, AskedNames
    <2>8. ASSUME v.length > 0, NEW n \in Formats, Marked(e, n) PROVE v.formatted
      BY <1>2, <2>8 DEF AskedBy, AskedNames
    <2> QED
      BY <2>1, <2>2, <2>3, <2>4, <2>5, <2>6, <2>7, <2>8 DEF Asks, Formats
  <1> QED
    BY <1>1, <1>2

\* The rules of an adapter that sets one rule, or none.
LEMMA OnePasses ==
    ASSUME NEW a, NEW e, NEW v, NEW r, SetsOnly(adapt(a, e), r)
    PROVE  AllPass(a, e, v) <=> Passes(r, adapt(a, e)[r], v)
  BY DEF AllPass, SetsOnly

LEMMA OneValuePasses ==
    ASSUME NEW a, NEW e, NEW v, NEW r, NEW p, SetsTo(adapt(a, e), r, p)
    PROVE  AllPass(a, e, v) <=> Passes(r, p, v)
  BY DEF AllPass, SetsTo

LEMMA NonePasses ==
    ASSUME NEW a, NEW e, NEW v, DOMAIN adapt(a, e) = {} PROVE AllPass(a, e, v)
  BY DEF AllPass

\* The adapters for bounds: with both, with one, with none.
LEMMA BoundsPass ==
    ASSUME NEW a, NEW e, NEW v, v.length \in Nat, NEW min, NEW max,
           MinMaxSet(adapt(a, e), min, max, "minlength", "maxlength", "rangelength")
    PROVE  AllPass(a, e, v) <=>
             (v.length > 0 => (Truthy(min) => v.length >= min) /\ (Truthy(max) => v.length <= max))
  <1>1. CASE Truthy(min) /\ Truthy(max)
    <2>1. AllPass(a, e, v) <=> Passes("rangelength", <<min, max>>, v)
      BY <1>1, OneValuePasses DEF MinMaxSet
    <2>2. PICK p : p = <<min, max>>
      OBVIOUS
    <2>3. p[1] = min /\ p[2] = max
      BY <2>2
    <2>4. Passes("rangelength", p, v) <=> v.length = 0 \/ (v.length >= min /\ v.length <= max)
      BY <2>3, LengthMethods
    <2> QED
      BY <1>1, <2>1, <2>2, <2>4
  <1>2. CASE Truthy(min) /\ ~Truthy(max)
    <2>1. AllPass(a, e, v) <=> Passes("minlength", min, v)
      BY <1>2, OneValuePasses DEF MinMaxSet
    <2>2. Passes("minlength", min, v) <=> v.length = 0 \/ v.length >= min
      BY LengthMethods
    <2> QED
      BY <1>2, <2>1, <2>2
  <1>3. CASE ~Truthy(min) /\ Truthy(max)
    <2>1. AllPass(a, e, v) <=> Passes("maxlength", max, v)
      BY <1>3, OneValuePasses DEF MinMaxSet
    <2>2. Passes("maxlength", max, v) <=> v.length = 0 \/ v.length <= max
      BY LengthMethods
    <2> QED
      BY <1>3, <2>1, <2>2
  <1>4. CASE ~Truthy(min) /\ ~Truthy(max)
    <2>1. AllPass(a, e, v)
      BY <1>4, NonePasses DEF MinMaxSet
    <2> QED
      BY <1>4, <2>1
  <1> QED
    BY <1>1, <1>2, <1>3, <1>4

\* On well-formed markup the rules of an adapter let pass what is asked in its
\* name, and nothing else.
LEMMA AdapterEnforces ==
    ASSUME NEW a, Known(a), NEW e, WellFormed(e), Marked(e, a.name), NEW v,
           v.length \in Nat, v.nonalpha \in Nat
    PROVE  a.name \in AskedNames /\ (AllPass(a, e, v) <=> AskedBy(a.name, e, v))
  <1>1. CASE a.kind = "bool"
    <2>1. a.name \in Formats /\ a.rules[1] = a.name
      BY <1>1 DEF Known, WellFormed
    <2>2. AllPass(a, e, v) <=> Passes(a.name, adapt(a, e)[a.name], v)
      BY <1>1, <2>1, BoolSets, OnePasses
    <2>3. Passes(a.name, adapt(a, e)[a.name], v) <=> v.length = 0 \/ v.formatted
      BY <2>1, FormatMethods
    <2>4. AskedBy(a.name, e, v) <=> (v.length > 0 => v.formatted)
      BY <2>1 DEF AskedBy, Formats
    <2> QED
      BY <2>1, <2>2, <2>3, <2>4 DEF AskedNames
  <1>2. CASE a.kind = "singleVal"
    <2>1. a.name = "regex" /\ a.rules[1] = "regex"
      BY <1>2 DEF Known, WellFormed, Files
    <2>2. PICK p : p = Attr(e, <<"regex", "pattern">>)
      OBVIOUS
    <2>3. AllPass(a, e, v) <=> Passes("regex", p, v)
      <3>1. SetsTo(adapt(a, e), "regex", p)
        BY <1>2, <2>1, <2>2, PatternSets DEF Known, Files
      <3> QED
        BY <3>1, OneValuePasses
    <2>4. Passes("regex", p, v) <=> p = Absent \/ v.length = 0 \/ v.match = "whole"
      BY ContentMethods
    <2>5. AskedBy("regex", e, v) <=> (v.length > 0 /\ p # Absent => v.match = "whole")
      BY <2>2 DEF AskedBy, Formats
    <2> QED
      BY <2>1, <2>3, <2>4, <2>5 DEF AskedNames
  <1>3. CASE a.kind = "minMax"
    <2> DEFINE min == Attr(e, <<a.name, "min">>)
               max == Attr(e, <<a.name, "max">>)
    <2>1. CASE a.name = "length"
      <3>1. MinMaxSet(adapt(a, e), min, max, "minlength", "maxlength", "rangelength")
        BY <1>3, <2>1, MinMaxSets DEF Known, Formats, Files
      <3>2. AllPass(a, e, v) <=>
              (v.length > 0 => (Truthy(min) => v.length >= min) /\ (Truthy(max) => v.length <= max))
        BY <3>1, BoundsPass
      <3>3. AskedBy(a.name, e, v) <=>
              (v.length > 0 => (Truthy(min) => v.length >= min) /\ (Truthy(max) => v.length <= max))
        BY <2>1 DEF AskedBy, AtLeast, AtMost, Formats
      <3> QED
        BY <2>1, <3>2, <3>3 DEF AskedNames
    <2>2. CASE a.name = "minlength"
      <3>1. MinMaxSet(adapt(a, e), min, max, "minlength", Absent, Absent)
        BY <1>3, <2>2, MinMaxSets DEF Known, Formats, Files
      <3>2. ~Truthy(max)
        BY <2>2 DEF WellFormed
      <3>3. MinMaxSet(adapt(a, e), min, max, "minlength", "maxlength", "rangelength")
        BY <3>1, <3>2 DEF MinMaxSet
      <3>4. AllPass(a, e, v) <=> (v.length > 0 => (Truthy(min) => v.length >= min))
        BY <3>2, <3>3, BoundsPass
      <3>5. AskedBy(a.name, e, v) <=> (v.length > 0 => (Truthy(min) => v.length >= min))
        BY <2>2 DEF AskedBy, AtLeast, Formats
      <3> QED
        BY <2>2, <3>4, <3>5 DEF AskedNames
    <2>3. CASE a.name = "maxlength"
      <3>1. MinMaxSet(adapt(a, e), min, max, "minlength", "maxlength", Absent)
        BY <1>3, <2>3, MinMaxSets DEF Known, Formats, Files
      <3>2. ~Truthy(min)
        BY <2>3 DEF WellFormed
      <3>3. MinMaxSet(adapt(a, e), min, max, "minlength", "maxlength", "rangelength")
        BY <3>1, <3>2 DEF MinMaxSet
      <3>4. AllPass(a, e, v) <=> (v.length > 0 => (Truthy(max) => v.length <= max))
        BY <3>2, <3>3, BoundsPass
      <3>5. AskedBy(a.name, e, v) <=> (v.length > 0 => (Truthy(max) => v.length <= max))
        BY <2>3 DEF AskedBy, AtMost, Formats
      <3> QED
        BY <2>3, <3>4, <3>5 DEF AskedNames
    <2>4. CASE a.name = "range"
      <3>1. MinMaxSet(adapt(a, e), min, max, "min", "max", "range")
        BY <1>3, <2>4, MinMaxSets DEF Known, Formats, Files
      <3>2. Truthy(min) /\ Truthy(max)
        BY <2>4 DEF WellFormed
      <3>3. PICK p : p = <<min, max>>
        OBVIOUS
      <3>4. p[1] = min /\ p[2] = max
        BY <3>3
      <3>5. AllPass(a, e, v) <=> Passes("range", p, v)
        BY <3>1, <3>2, <3>3, OneValuePasses DEF MinMaxSet
      <3>6. Passes("range", p, v) <=> v.length = 0 \/ (v.number >= min /\ v.number <= max)
        BY <3>4, ContentMethods
      <3>7. AskedBy(a.name, e, v) <=> (v.length > 0 => v.number >= min /\ v.number <= max)
        BY <2>4, <3>2 DEF AskedBy, AtLeast, AtMost, Formats
      <3> QED
        BY <2>4, <3>5, <3>6, <3>7 DEF AskedNames
    <2> QED
      BY <1>3, <2>1, <2>2, <2>3, <2>4 DEF Known
  <1>4. CASE a.kind = "required"
    <2>1. a.name = "required"
      BY <1>4 DEF Known
    <2>2. AskedBy("required", e, v) <=> e.checkbox \/ v.length > 0
      BY DEF AskedBy, Formats
    <2>3. CASE e.checkbox
      <3>1. DOMAIN adapt(a, e) = {}
        BY <1>4, <2>3, RequiredSets
      <3>2. AllPass(a, e, v)
        BY <3>1, NonePasses
      <3> QED
        BY <2>1, <2>2, <2>3, <3>2 DEF AskedNames
    <2>4. CASE ~e.checkbox
      <3>1. SetsOnly(adapt(a, e), "required")
        BY <1>4, <2>4, RequiredSets
      <3>2. AllPass(a, e, v) <=> Passes("required", adapt(a, e)["required"], v)
        BY <3>1, OnePasses
      <3>3. Passes("required", adapt(a, e)["required"], v) <=> v.length > 0
        BY LengthMethods
      <3> QED
        BY <2>1, <2>2, <2>4, <3>2, <3>3 DEF AskedNames
    <2> QED
      BY <2>3, <2>4
  <1>5. CASE a.kind \in {"equalto", "remote"}
    <2>1. a.name \in {"equalto", "remote"}
      BY <1>5 DEF Known
    <2>2. AskedBy(a.name, e, v)
      BY <2>1 DEF AskedBy, Formats
    <2>3. PICK r, p : SetsTo(adapt(a, e), r, p) /\ r \in {"equalTo", "remote"}
      BY <1>5, EqualToSets, RemoteSets
    <2>4. AllPass(a, e, v) <=> Passes(r, p, v)
      BY <2>3, OneValuePasses
    <2>5. Passes(r, p, v)
      BY <2>3, ContentMethods
    <2> QED
      BY <2>1, <2>2, <2>4, <2>5 DEF AskedNames
  <1>6. CASE a.kind = "password"
    <2>1. a.name = "password"
      BY <1>6 DEF Known
    <2>2. PICK x, y, z : /\ x = Attr(e, <<"password", "min">>) /\ y = Attr(e, <<"password", "nonalphamin">>)
                         /\ z = Attr(e, <<"password", "regex">>)
      OBVIOUS
    <2>3. PasswordSet(adapt(a, e), x, y, z)
      BY <1>6, <2>1, <2>2, PasswordSets
    <2>4. AllPass(a, e, v) <=>
            /\ Truthy(x) => Passes("minlength", x, v)
            /\ Truthy(y) => Passes("nonalphamin", y, v)
            /\ Truthy(z) => Passes("regex", z, v)
      BY <2>3 DEF AllPass, PasswordSet
    <2>5. /\ Passes("minlength", x, v) <=> v.length = 0 \/ v.length >= x
          /\ Passes("nonalphamin", y, v) <=> v.nonalpha > 0 /\ v.nonalpha >= y
          /\ Passes("regex", z, v) <=> z = Absent \/ v.length = 0 \/ v.match = "whole"
      BY LengthMethods, ContentMethods
    <2>6. /\ Truthy(y) => (v.nonalpha > 0 /\ v.nonalpha >= y <=> v.nonalpha >= y)
          /\ Truthy(z) => z # Absent
      <3>1. Truthy(y) => y \in Nat \ {0}
        BY <2>2 DEF WellFormed
      <3>2. y \in Nat \ {0} => (v.nonalpha > 0 /\ v.nonalpha >= y <=> v.nonalpha >= y)
        OBVIOUS
      <3> QED
        BY <3>1, <3>2 DEF Truthy
    <2>7. AskedBy("password", e, v) <=>
            /\ Truthy(y) => v.nonalpha >= y
            /\ v.length > 0 => (Truthy(x) => v.length >= x) /\ (Truthy(z) => v.match = "whole")
      BY <2>2 DEF AskedBy, AtLeast, Formats
    <2> QED
      BY <2>1, <2>4, <2>5, <2>6, <2>7 DEF AskedNames
  <1> QED
    BY <1>1, <1>2, <1>3, <1>4, <1>5, <1>6 DEF Known

\* The last of some places of adapters is one of them.
LEMMA LastOfPlaces ==
    ASSUME NEW N \in Nat, NEW K, K \subseteq 1 .. N, K # {}
    PROVE  lastOf(K) \in K
  <1>1. PICK T : T = {N - k : k \in K}
    OBVIOUS
  <1>2. T \subseteq Nat /\ T # {}
    <2>1. \A k \in K : N - k \in Nat
      OBVIOUS
    <2>2. T \subseteq Nat
      BY <1>1, <2>1
    <2>3. PICK k : k \in K
      OBVIOUS
    <2>4. N - k \in T
      BY <1>1, <2>3
    <2> QED
      BY <2>2, <2>4
  <1> DEFINE R == OpToRel(<, Nat)
  <1>3. IsWellFoundedOn(R, Nat)
    BY NatLessThanWellFounded
  <1>4. \A x \in Nat, y \in Nat : y < x => <<y, x>> \in R
    BY DEF OpToRel
  <1> HIDE DEF R
  <1>5. PICK x \in T : \A y \in T : ~(<<y, x>> \in R)
    BY <1>2, <1>3, WFMin
  <1>6. \A y \in T : x <= y
    <2>1. SUFFICES ASSUME NEW y \in T, y < x PROVE FALSE
      BY <1>2
    <2>2. x \in Nat /\ y \in Nat
      BY <1>2
    <2> QED
      BY <1>4, <1>5, <2>1, <2>2, Zenon
  <1>7. PICK k \in K : x = N - k
    BY <1>1, <1>5
  <1>8. \A j \in K : j <= k
    <2>1. SUFFICES ASSUME NEW j \in K PROVE j <= k
      OBVIOUS
    <2>2. N - j \in T
      BY <1>1
    <2>3. N - k <= N - j
      BY <2>2, <1>6, <1>7
    <2> QED
      BY <2>3
  <1> QED
    BY <1>8 DEF lastOf

\* Every rule of an element but __dummy__ comes from one of its adapters.
LEMMA RuleHasSetter ==
    ASSUME NEW e, NEW r \in DOMAIN rules(e), r # "__dummy__"
    PROVE  \E k \in Applied(e) :
              r \in DOMAIN adapt(adapters[k], e) /\ rules(e)[r] = adapt(adapters[k], e)[r]
  <1>1. r \in UNION {DOMAIN adapt(adapters[k], e) : k \in Applied(e)}
    BY DEF rules
  <1>2. Setters(e, r) # {}
    BY <1>1 DEF Setters
  <1>3. Setters(e, r) \subseteq 1 .. Len(adapters) /\ Len(adapters) \in Nat
    BY AdapterPlaces DEF Setters, Applied
  <1>4. lastOf(Setters(e, r)) \in Setters(e, r)
    BY <1>2, <1>3, LastOfPlaces
  <1>5. rules(e)[r] = adapt(adapters[lastOf(Setters(e, r))], e)[r]
    BY <1>2 DEF rules
  <1> QED
    BY <1>4, <1>5 DEF Setters

\* A rule that one adapter alone sets has the value it gives.
LEMMA RuleOfOne ==
    ASSUME NEW e, NEW k \in Applied(e), NEW r \in DOMAIN adapt(adapters[k], e),
           \A j \in Applied(e) : r \in DOMAIN adapt(adapters[j], e) => j = k
    PROVE  r \in DOMAIN rules(e) /\ rules(e)[r] = adapt(adapters[k], e)[r]
  <1>1. r \in UNION {DOMAIN adapt(adapters[j], e) : j \in Applied(e)}
    OBVIOUS
  <1>2. r \in DOMAIN rules(e)
    BY <1>1 DEF rules
  <1>3. Setters(e, r) = {k}
    BY DEF Setters
  <1>4. k \in Nat
    BY AdapterPlaces DEF Applied
  <1>5. lastOf({k}) = k
    BY <1>4 DEF lastOf
  <1>6. rules(e)[r] = adapt(adapters[lastOf(Setters(e, r))], e)[r]
    BY <1>2, <1>3 DEF rules
  <1> QED
    BY <1>2, <1>3, <1>5, <1>6

LEMMA AppliedMarked ==
    ASSUME NEW e, NEW k \in Applied(e)
    PROVE  k \in DOMAIN adapters /\ Known(adapters[k]) /\ Marked(e, adapters[k].name)
  BY KnownAt DEF Applied, Marked

\* There is an adapter for every attribute that asks for something.
LEMMA MarkedApplied ==
    ASSUME NEW e, NEW n \in AskedNames, Marked(e, n)
    PROVE  \E k \in Applied(e) : adapters[k].name = n
  <1>1. PICK k \in 1 .. Len(adapters) : adapters[k].name = n
    BY AdaptersKnown DEF Registers
  <1>2. k \in DOMAIN adapters
    BY AdapterPlaces
  <1> QED
    BY <1>1, <1>2 DEF Applied, Marked

\* The value that is asked for passes every rule.
LEMMA AskedIsValid ==
    ASSUME NEW e, WellFormed(e), NEW v, v.length \in Nat, v.nonalpha \in Nat, Asks(e, v)
    PROVE  LocallyValid(rules(e), v)
  <1>1. SUFFICES ASSUME NEW r \in DOMAIN rules(e) PROVE Passes(r, rules(e)[r], v)
    BY DEF LocallyValid, Passes
  <1>2. CASE r = "__dummy__"
    BY <1>2, ContentMethods
  <1>3. CASE r # "__dummy__"
    <2>1. PICK k \in Applied(e) :
              r \in DOMAIN adapt(adapters[k], e) /\ rules(e)[r] = adapt(adapters[k], e)[r]
      BY <1>3, RuleHasSetter
    <2>2. Known(adapters[k]) /\ Marked(e, adapters[k].name)
      BY AppliedMarked
    <2>3. /\ adapters[k].name \in AskedNames
          /\ AllPass(adapters[k], e, v) <=> AskedBy(adapters[k].name, e, v)
      BY <2>2, AdapterEnforces
    <2>4. AskedBy(adapters[k].name, e, v)
      BY <2>2, <2>3, AsksByName
    <2> QED
      BY <2>1, <2>3, <2>4 DEF AllPass
  <1> QED
    BY <1>2, <1>3

\* Unless two adapters set the same rule, what passes was asked for.
LEMMA ValidIsAsked ==
    ASSUME NEW e, WellFormed(e), NEW v, v.length \in Nat, v.nonalpha \in Nat,
           LocallyValid(rules(e), v), ~Clash(e)
    PROVE  Asks(e, v)
  <1>1. SUFFICES ASSUME NEW n \in AskedNames, Marked(e, n) PROVE AskedBy(n, e, v)
    BY AsksByName
  <1>2. PICK k \in Applied(e) : adapters[k].name = n
    BY <1>1, MarkedApplied
  <1>3. Known(adapters[k])
    BY AppliedMarked
  <1>4. AllPass(adapters[k], e, v)
    <2>1. SUFFICES ASSUME NEW r \in DOMAIN adapt(adapters[k], e)
                   PROVE  Passes(r, adapt(adapters[k], e)[r], v)
      BY DEF AllPass
    <2>2. \A j \in Applied(e) : r \in DOMAIN adapt(adapters[j], e) => j = k
      BY DEF Clash
    <2>3. r \in DOMAIN rules(e) /\ rules(e)[r] = adapt(adapters[k], e)[r]
      BY <2>2, RuleOfOne
    <2>4. Passes(r, rules(e)[r], v)
      BY <2>3 DEF LocallyValid, Passes
    <2> QED
      BY <2>3, <2>4
  <1> QED
    BY <1>1, <1>2, <1>3, <1>4, AdapterEnforces

\* A relative name has one part behind the star.
LEMMA PairTail ==
    ASSUME NEW S, NEW n \in Seq(S), Len(n) = 2
    PROVE  Tail(n) \in Seq(S) /\ Len(Tail(n)) = 1 /\ Tail(n)[1] = n[2] /\ n[2] \in S
  <1>1. n # <<>>
    OBVIOUS
  <1>2. Tail(n) \in Seq(S) /\ Len(Tail(n)) = Len(n) - 1 /\ \A i \in 1 .. Len(Tail(n)) : Tail(n)[i] = n[i + 1]
    BY <1>1, HeadTailProperties
  <1>3. n[2] \in S
    OBVIOUS
  <1>4. Len(Tail(n)) = 1
    BY <1>2
  <1>5. Tail(n)[1] = n[1 + 1]
    BY <1>2, <1>4
  <1> QED
    BY <1>2, <1>3, <1>4, <1>5

\* The name without its last part.
LEMMA PrefixFacts ==
    ASSUME NEW S, NEW s \in Seq(S), NEW m \in Nat, Len(s) = m + 1
    PROVE  /\ SubSeq(s, 1, m) \in Seq(S)
           /\ Len(SubSeq(s, 1, m)) = m
           /\ \A i \in 1 .. m : SubSeq(s, 1, m)[i] = s[i]
  <1>1. \A i \in 1 .. m : s[i] \in S
    OBVIOUS
  <1>2. /\ SubSeq(s, 1, m) \in Seq(S)
        /\ Len(SubSeq(s, 1, m)) = IF 1 <= m THEN m - 1 + 1 ELSE 0
        /\ \A i \in 1 .. m - 1 + 1 : SubSeq(s, 1, m)[i] = s[1 + i - 1]
    BY <1>1, SubSeqProperties
  <1> QED
    BY <1>2

\* One part behind such a prefix.
LEMMA PartAppended ==
    ASSUME NEW S, NEW p \in Seq(S), NEW t \in Seq(S), Len(t) = 1
    PROVE  /\ p \o t \in Seq(S)
           /\ Len(p \o t) = Len(p) + 1
           /\ \A i \in 1 .. Len(p) : (p \o t)[i] = p[i]
           /\ (p \o t)[Len(p) + 1] = t[1]
  <1>1. /\ p \o t \in Seq(S)
        /\ Len(p \o t) = Len(p) + Len(t)
        /\ \A i \in 1 .. Len(p) + Len(t) : (p \o t)[i] = IF i <= Len(p) THEN p[i] ELSE t[i - Len(p)]
    BY ConcatProperties
  <1>2. Len(p) \in Nat
    OBVIOUS
  <1>3. PICK c : c = p \o t
    OBVIOUS
  <1>4. c \in Seq(S) /\ Len(c) = Len(p) + 1 /\ \A i \in 1 .. Len(p) + 1 : c[i] = IF i <= Len(p) THEN p[i] ELSE t[i - Len(p)]
    BY <1>1, <1>3
  <1>5. \A i \in 1 .. Len(p) : c[i] = p[i]
    BY <1>2, <1>4
  <1>6. c[Len(p) + 1] = t[1]
    BY <1>2, <1>4
  <1> QED
    BY <1>3, <1>4, <1>5, <1>6

\* The last part of the name, replaced.
LEMMA PartReplaced ==
    ASSUME NEW S, NEW s \in Seq(S), NEW m \in Nat, Len(s) = m + 1, NEW x \in S
    PROVE  /\ [s EXCEPT ![Len(s)] = x] \in Seq(S)
           /\ Len([s EXCEPT ![Len(s)] = x]) = m + 1
           /\ \A i \in 1 .. m : [s EXCEPT ![Len(s)] = x][i] = s[i]
           /\ [s EXCEPT ![Len(s)] = x][m + 1] = x
  OBVIOUS

LEMMA SameParts ==
    ASSUME NEW S, NEW s \in Seq(S), NEW t \in Seq(S), NEW m \in Nat, Len(s) = m + 1, Len(t) = m + 1,
           \A i \in 1 .. m : s[i] = t[i], s[m + 1] = t[m + 1]
    PROVE  s = t
  <1>1. \A i \in 1 .. m + 1 : s[i] = t[i]
    OBVIOUS
  <1> QED
    BY <1>1

\* appendModelPrefix finds the field that a name stands for.
Relative(name, n) == SubSeq(name, 1, Len(name) - 1) \o Tail(n)
Beside(name, n) == [name EXCEPT ![Len(name)] = n[2]]

LEMMA LastReplaced ==
    ASSUME NEW S, NEW name \in Seq(S), Len(name) >= 1, NEW n \in Seq(S), Len(n) = 2
    PROVE  Relative(name, n) = Beside(name, n)
  <1>1. PICK t : t = Tail(n)
    OBVIOUS
  <1>2. t \in Seq(S) /\ Len(t) = 1 /\ t[1] = n[2] /\ n[2] \in S
    BY <1>1, PairTail
  <1>3. PICK m \in Nat : Len(name) = m + 1 /\ m = Len(name) - 1
    <2>1. Len(name) \in Nat
      BY LenProperties
    <2> QED
      BY <2>1
  <1>4. PICK p : p = SubSeq(name, 1, m)
    OBVIOUS
  <1>5. p \in Seq(S) /\ Len(p) = m /\ \A i \in 1 .. m : p[i] = name[i]
    BY <1>3, <1>4, PrefixFacts
  <1>6. PICK s : s = p \o t
    OBVIOUS
  <1>7. s \in Seq(S) /\ Len(s) = m + 1 /\ (\A i \in 1 .. m : s[i] = p[i]) /\ s[m + 1] = n[2]
    <2>1. /\ p \o t \in Seq(S)
          /\ Len(p \o t) = Len(p) + 1
          /\ \A i \in 1 .. Len(p) : (p \o t)[i] = p[i]
          /\ (p \o t)[Len(p) + 1] = t[1]
      BY <1>2, <1>5, PartAppended
    <2> QED
      BY <1>2, <1>5, <1>6, <2>1
  <1>8. PICK x : x = [name EXCEPT ![Len(name)] = n[2]]
    OBVIOUS
  <1>9. x \in Seq(S) /\ Len(x) = m + 1 /\ (\A i \in 1 .. m : x[i] = name[i]) /\ x[m + 1] = n[2]
    BY <1>2, <1>3, <1>8, PartReplaced
  <1>10. s = x
    BY <1>5, <1>7, <1>9, SameParts
  <1>11. SubSeq(name, 1, Len(name) - 1) = p
    BY <1>3, <1>4
  <1> QED
    BY <1>1, <1>6, <1>8, <1>10, <1>11 DEF Relative, Beside

LEMMA NameFound ==
    ASSUME NEW e, e.name \in Seq(STRING), e.name # <<>>, NEW n, FieldName(n)
    PROVE  appendModelPrefix(n, getModelPrefix(e.name)) = Named(e, n)
  <1>1. PICK S : S = STRING
    OBVIOUS
  <1>2. e.name \in Seq(S) /\ n \in Seq(S) /\ n # <<>> /\ (n[1] = "*" => Len(n) = 2)
    BY <1>1 DEF FieldName
  <1>3. Head(n) = n[1]
    BY <1>2
  <1>4. CASE n[1] = "*"
    <2>1. Relative(e.name, n) = Beside(e.name, n)
      <3>1. PICK name : name = e.name
        OBVIOUS
      <3>2. name \in Seq(S) /\ Len(name) >= 1
        BY <3>1, <1>2
      <3>3. n \in Seq(S) /\ Len(n) = 2
        BY <1>2, <1>4
      <3>4. Relative(name, n) = Beside(name, n)
        BY <3>2, <3>3, LastReplaced
      <3> QED
        BY <3>1, <3>4
    <2>2. appendModelPrefix(n, getModelPrefix(e.name)) = Relative(e.name, n)
      BY <1>3, <1>4 DEF appendModelPrefix, getModelPrefix, Relative
    <2>3. Named(e, n) = Beside(e.name, n)
      BY <1>2, <1>4 DEF Named, Beside
    <2> QED
      BY <2>1, <2>2, <2>3
  <1>5. CASE n[1] # "*"
    BY <1>3, <1>5 DEF appendModelPrefix, Named
  <1> QED
    BY <1>4, <1>5

\* equalTo is set by the adapter of that name alone, and so is remote.
LEMMA LinkedRule ==
    ASSUME NEW a, Known(a), NEW e, WellFormed(e), Marked(e, a.name),
           NEW r \in DOMAIN adapt(a, e), r \in {"equalTo", "remote"}
    PROVE  IF r = "equalTo" THEN a.kind = "equalto" ELSE a.kind = "remote"
  <1>1. CASE a.kind = "bool"
    <2>1. a.rules[1] \notin {"equalTo", "remote"}
      BY <1>1 DEF Known, Formats
    <2>2. SetsOnly(adapt(a, e), a.rules[1])
      BY <1>1, BoolSets
    <2> QED
      BY <2>1, <2>2 DEF SetsOnly
  <1>2. CASE a.kind = "singleVal"
    <2>1. a.rules[1] \notin {"equalTo", "remote"}
      BY <1>2 DEF Known
    <2>2. SetsOnly(adapt(a, e), a.rules[1])
      BY <1>2, SingleValSets
    <2> QED
      BY <2>1, <2>2 DEF SetsOnly
  <1>3. CASE a.kind = "minMax"
    <2> DEFINE min == Attr(e, <<a.name, "min">>)
               max == Attr(e, <<a.name, "max">>)
    <2>1. CASE a.name = "length"
      <3>1. MinMaxSet(adapt(a, e), min, max, "minlength", "maxlength", "rangelength")
        BY <1>3, <2>1, MinMaxSets DEF Known
      <3> QED
        BY <3>1 DEF MinMaxSet, SetsTo
    <2>2. CASE a.name = "minlength"
      <3>1. MinMaxSet(adapt(a, e), min, max, "minlength", Absent, Absent)
        BY <1>3, <2>2, MinMaxSets DEF Known
      <3>2. ~Truthy(max)
        BY <2>2 DEF WellFormed
      <3> QED
        BY <3>1, <3>2 DEF MinMaxSet, SetsTo
    <2>3. CASE a.name = "maxlength"
      <3>1. MinMaxSet(adapt(a, e), min, max, "minlength", "maxlength", Absent)
        BY <1>3, <2>3, MinMaxSets DEF Known
      <3>2. ~Truthy(min)
        BY <2>3 DEF WellFormed
      <3> QED
        BY <3>1, <3>2 DEF MinMaxSet, SetsTo
    <2>4. CASE a.name = "range"
      <3>1. MinMaxSet(adapt(a, e), min, max, "min", "max", "range")
        BY <1>3, <2>4, MinMaxSets DEF Known
      <3> QED
        BY <3>1 DEF MinMaxSet, SetsTo
    <2> QED
      BY <1>3, <2>1, <2>2, <2>3, <2>4 DEF Known
  <1>4. CASE a.kind = "required"
    <2>1. DOMAIN adapt(a, e) = {} \/ SetsOnly(adapt(a, e), "required")
      BY <1>4, RequiredSets
    <2> QED
      BY <2>1 DEF SetsOnly
  <1>5. CASE a.kind = "equalto"
    <2>1. PICK p : SetsTo(adapt(a, e), "equalTo", p)
      BY <1>5, EqualToSets
    <2> QED
      BY <1>5, <2>1 DEF SetsTo
  <1>6. CASE a.kind = "remote"
    <2>1. PICK p : SetsTo(adapt(a, e), "remote", p)
      BY <1>6, RemoteSets
    <2> QED
      BY <1>6, <2>1 DEF SetsTo
  <1>7. CASE a.kind = "password"
    <2>1. PICK x, y, z : PasswordSet(adapt(a, e), x, y, z)
      BY <1>7, PasswordSets
    <2> QED
      BY <2>1 DEF PasswordSet
  <1> QED
    BY <1>1, <1>2, <1>3, <1>4, <1>5, <1>6, <1>7 DEF Known

\* An adapter of the element sets the rule it is read from.
LEMMA SetIsRule ==
    ASSUME NEW e, NEW k \in Applied(e), NEW r \in DOMAIN adapt(adapters[k], e)
    PROVE  r \in DOMAIN rules(e)
  BY DEF rules

\* The field a value is compared with is the one that is named.
LEMMA EqualToNamed ==
    ASSUME NEW e, WellFormed(e), Marked(e, "equalto")
    PROVE  rules(e)["equalTo"] = Named(e, Attr(e, <<"equalto", "other">>))
  <1>1. PICK k \in Applied(e) : adapters[k].name = "equalto"
    BY MarkedApplied DEF AskedNames
  <1>2. adapters[k].kind = "equalto"
    BY <1>1, AppliedMarked DEF Known, Formats, Files
  <1>3. PICK p : SetsTo(adapt(adapters[k], e), "equalTo", p)
    BY <1>2, EqualToSets
  <1>4. "equalTo" \in DOMAIN rules(e)
    BY <1>3, SetIsRule DEF SetsTo
  <1>5. PICK j \in Applied(e) : /\ "equalTo" \in DOMAIN adapt(adapters[j], e)
                                /\ rules(e)["equalTo"] = adapt(adapters[j], e)["equalTo"]
    BY <1>4, RuleHasSetter
  <1>6. Known(adapters[j]) /\ Marked(e, adapters[j].name)
    BY AppliedMarked
  <1>7. adapters[j].kind = "equalto"
    BY <1>5, <1>6, LinkedRule
  <1>8. adapters[j].name = "equalto"
    BY <1>6, <1>7 DEF Known
  <1>9. SetsTo(adapt(adapters[j], e), "equalTo",
               appendModelPrefix(Attr(e, <<adapters[j].name, "other">>), getModelPrefix(e.name)))
    BY <1>7, EqualToSets
  <1>10. FieldName(Attr(e, <<"equalto", "other">>)) /\ e.name \in Seq(STRING) /\ e.name # <<>>
    BY DEF WellFormed
  <1>11. appendModelPrefix(Attr(e, <<"equalto", "other">>), getModelPrefix(e.name)) =
            Named(e, Attr(e, <<"equalto", "other">>))
    BY <1>10, NameFound
  <1> QED
    BY <1>5, <1>8, <1>9, <1>11 DEF SetsTo

\* The fields a remote check sends are the ones that are named.
LEMMA RemoteNamed ==
    ASSUME NEW e, WellFormed(e), Marked(e, "remote"), Truthy(Attr(e, <<"remote", "additionalfields">>))
    PROVE  rules(e)["remote"] = {Named(e, n) : n \in Attr(e, <<"remote", "additionalfields">>)}
  <1>1. PICK k \in Applied(e) : adapters[k].name = "remote"
    BY MarkedApplied DEF AskedNames
  <1>2. adapters[k].kind = "remote"
    BY <1>1, AppliedMarked DEF Known, Formats, Files
  <1>3. SetsTo(adapt(adapters[k], e), "remote", remoteData(e))
    BY <1>2, RemoteSets
  <1>4. "remote" \in DOMAIN rules(e)
    BY <1>3, SetIsRule DEF SetsTo
  <1>5. PICK j \in Applied(e) : /\ "remote" \in DOMAIN adapt(adapters[j], e)
                                /\ rules(e)["remote"] = adapt(adapters[j], e)["remote"]
    BY <1>4, RuleHasSetter
  <1>6. Known(adapters[j]) /\ Marked(e, adapters[j].name)
    BY AppliedMarked
  <1>7. adapters[j].kind = "remote"
    BY <1>5, <1>6, LinkedRule
  <1>8. SetsTo(adapt(adapters[j], e), "remote", remoteData(e))
    BY <1>7, RemoteSets
  <1>9. PICK listed : listed = Attr(e, <<"remote", "additionalfields">>)
    OBVIOUS
  <1>10. remoteData(e) = {appendModelPrefix(n, getModelPrefix(e.name)) : n \in listed}
    BY <1>9 DEF remoteData
  <1>11. \A n \in listed : appendModelPrefix(n, getModelPrefix(e.name)) = Named(e, n)
    <2>1. (\A n \in listed : FieldName(n)) /\ e.name \in Seq(STRING) /\ e.name # <<>>
      BY <1>9 DEF WellFormed
    <2> QED
      BY <2>1, NameFound
  <1>12. remoteData(e) = {Named(e, n) : n \in listed}
    BY <1>10, <1>11
  <1> QED
    BY <1>5, <1>8, <1>9, <1>12 DEF SetsTo

\* On well-formed markup, whatever it asks for: the rules parseElement collects
\* let pass every value the attributes ask for, and, unless two adapters set the
\* same rule, no other; equalTo and remote look at the fields that are named.
THEOREM MarkupIsEnforced == Spec => []MarkupEnforced
  <1>1. Init => element \in Elements
    BY DEF Init
  <1>2. element \in Elements /\ [Next]_vars => (element \in Elements)'
    BY DEF Next, Adapt, Skip, Finish, vars
  <1>3. element \in Elements /\ RulesAgree => MarkupEnforced
    <2>1. SUFFICES ASSUME element \in Elements, RulesAgree, Done PROVE MarkupEnforced
      BY DEF MarkupEnforced
    <2>2. WellFormed(element)
      BY <2>1, MarkupAssumption
    <2>3. ruleSet = rules(element)
      BY <2>1 DEF RulesAgree
    <2>4. ASSUME NEW v \in Values
          PROVE  /\ Asks(element, v) => LocallyValid(ruleSet, v)
                 /\ LocallyValid(ruleSet, v) => Asks(element, v) \/ Clash(element)
      <3>1. v.length \in Nat /\ v.nonalpha \in Nat
        BY MarkupAssumption
      <3>2. Asks(element, v) => LocallyValid(rules(element), v)
        BY <2>2, <3>1, AskedIsValid
      <3>3. LocallyValid(rules(element), v) /\ ~Clash(element) => Asks(element, v)
        BY <2>2, <3>1, ValidIsAsked
      <3> QED
        BY <2>3, <3>2, <3>3
    <2>5. Marked(element, "equalto") =>
            ruleSet["equalTo"] = Named(element, Attr(element, <<"equalto", "other">>))
      BY <2>2, <2>3, EqualToNamed
    <2>6. Marked(element, "remote") /\ Truthy(Attr(element, <<"remote", "additionalfields">>)) =>
            ruleSet["remote"] =
                {Named(element, n) : n \in Attr(element, <<"remote", "additionalfields">>)}
      BY <2>2, <2>3, RemoteNamed
    <2> QED
      BY <2>4, <2>5, <2>6 DEF MarkupEnforced
  <1> QED
    BY <1>1, <1>2, <1>3, ParsedRulesAgree, PTL DEF Spec
=============================================================================
