-------------------------- MODULE UnobtrusiveProofs --------------------------
(***************************************************************************)
(* Proofs about a form under jquery.validate.unobtrusive.js, for any       *)
(* fields, rules and values.  The invariant speaks of a validator s, so    *)
(* that it can be carried through the operators that an event handler is   *)
(* composed of.                                                            *)
(***************************************************************************)
EXTENDS Unobtrusive, FiniteSetTheorems, TLAPS

\* pendingRequest counts the fields that wait, and who has a request waits.
Counting(s) ==
    /\ s.pendingRequest = Cardinality(s.pending)
    /\ \A f \in Field : s.request[f] # None => f \in s.pending

\* A request belongs to an attached field, asks for what the field remembers
\* as its last question, or is an orphan of a field that remembers none.
Asking(s) ==
    \A f \in Field : s.request[f] # None =>
        /\ f \in attached
        /\ s.previous[f].old = IF s.request[f].orphan THEN None ELSE s.request[f].key

\* What a field that waits for nothing remembers as right, the server's last
\* answer approved.
Remembering(s, apr) ==
    \A f \in Field :
        f \notin s.pending /\ s.previous[f].old # None /\ s.previous[f].valid = TRUE
        => apr[f] = s.previous[f].old

\* Messages go with what the validator takes for invalid, and only attached fields
\* have one.
Showing(s) ==
    \A f \in Field :
        /\ s.invalid[f] = "true" => s.container[f] = "error"
        /\ s.container[f] = "error" => s.invalid[f] = "true" \/ f \in s.pending
        /\ s.container[f] = "error" => f \in attached
        /\ f \in s.errorMap => s.invalid[f] = "true"

ValidatorInv(s, apr) ==
    s \in ValidatorType /\ Counting(s) /\ Asking(s) /\ Remembering(s, apr) /\ Showing(s)

\* The values of the fields.
Values == {val \in [Field -> AnyInput] : \A f \in Field : val[f] \in Input[f]}

IInv ==
    /\ TypeOK
    /\ ~created => attached = {}
    /\ ValidatorInv(validator, approved)
    /\ SubmittedValid

-----------------------------------------------------------------------------
(***************************************************************************)
(* The operators, field by field.                                          *)
(***************************************************************************)
Invalid(s, val, S) == {f \in S : check(s, val, f) = "invalid"}

Valid(s, val, S) == {f \in S : check(s, val, f) = "valid"}

Asked(s, val, S) == {f \in S : check(s, val, f) = "pending"}

\* What a remote check sends is a key, and is not null.
LEMMA KeyFacts ==
    ASSUME NEW val \in Values, NEW f \in Field
    PROVE  optionDataString(val, f) \in Key /\ optionDataString(val, f) # None
  <1>1. optionDataString(val, f) \in [Sent[f] -> AnyInput]
    BY FormAssumption DEF optionDataString, Values
  <1>2. optionDataString(val, f) \in Key
    BY <1>1 DEF Key
  <1> QED
    BY <1>2, NoneAssumption

\* What the outcome of a check says of the field.
LEMMA CheckFacts ==
    ASSUME NEW s \in ValidatorType, NEW val, NEW f \in Field
    PROVE  /\ check(s, val, f) \in {"valid", "invalid", "pending"}
           /\ check(s, val, f) = "invalid" => f \in attached
           /\ check(s, val, f) = "pending" => f \in attached /\ f \in Remote
           /\ check(s, val, f) = "valid" /\ f \in attached =>
                /\ val[f] \in Passing[f]
                /\ f \in Remote /\ val[f] # Empty =>
                      s.previous[f].old = optionDataString(val, f) /\ s.previous[f].valid = TRUE
  <1>1. s.previous[f].valid \in BOOLEAN
    BY DEF ValidatorType
  <1>2. CASE f \notin attached
    BY <1>2 DEF check
  <1>3. CASE f \in attached /\ val[f] \notin Passing[f]
    BY <1>3 DEF check
  <1>4. CASE f \in attached /\ val[f] \in Passing[f]
    <2>1. check(s, val, f) = IF f \notin Remote \/ val[f] = Empty THEN "valid"
            ELSE IF s.previous[f].old # optionDataString(val, f) THEN "pending"
            ELSE IF s.previous[f].valid THEN "valid" ELSE "invalid"
      BY <1>4 DEF check
    <2> QED
      BY <1>1, <1>4, <2>1
  <1> QED
    BY <1>2, <1>3, <1>4

\* The three outcomes of the checks of some fields.
LEMMA Outcomes ==
    ASSUME NEW s \in ValidatorType, NEW val, NEW S \in SUBSET Field
    PROVE  /\ S \ (Invalid(s, val, S) \cup Valid(s, val, S)) = Asked(s, val, S)
           /\ Invalid(s, val, S) \subseteq S \cap attached
           /\ Asked(s, val, S) \subseteq S \cap attached \cap Remote
  BY CheckFacts DEF Invalid, Valid, Asked

\* startRequest, field by field.
LEMMA startRequestFields ==
    ASSUME NEW s \in ValidatorType, NEW val \in Values, NEW asks \in SUBSET Remote
    PROVE  LET c == startRequest(s, val, asks)
           IN  /\ c \in ValidatorType
               /\ c.invalid = s.invalid
               /\ c.submitted = s.submitted
               /\ c.errorMap = s.errorMap
               /\ c.pending = s.pending \cup asks
               /\ c.pendingRequest = s.pendingRequest + Cardinality(asks \ s.pending)
               /\ c.formSubmitted = s.formSubmitted
               /\ \A f \in Field : c.previous[f] =
                     IF f \in asks THEN [old |-> optionDataString(val, f), valid |-> s.previous[f].valid]
                     ELSE s.previous[f]
               /\ \A f \in Field : c.request[f] =
                     IF f \in asks THEN [key |-> optionDataString(val, f), orphan |-> FALSE]
                     ELSE s.request[f]
               /\ c.container = s.container
               /\ c.summary = s.summary
  <1> DEFINE c == startRequest(s, val, asks)
  <1> DEFINE prev == [f \in Field |->
                        IF f \in asks THEN [s.previous[f] EXCEPT !.old = optionDataString(val, f)]
                        ELSE s.previous[f]]
  <1> DEFINE req == [f \in Field |->
                        IF f \in asks THEN [key |-> optionDataString(val, f), orphan |-> FALSE]
                        ELSE s.request[f]]
  <1> DEFINE n == s.pendingRequest + Cardinality(asks \ s.pending)
  <1>1. c = [s EXCEPT !.pendingRequest = n, !.pending = s.pending \cup asks,
                      !.previous = prev, !.request = req]
    BY DEF startRequest
  <1>2. n \in Nat
    <2>1. IsFiniteSet(asks \ s.pending)
      BY FormAssumption, FS_Subset
    <2>2. Cardinality(asks \ s.pending) \in Nat
      BY <2>1, FS_CardinalityType
    <2>3. s.pendingRequest \in Nat
      BY DEF ValidatorType
    <2> QED
      BY <2>2, <2>3
  <1>3. \A f \in Field : optionDataString(val, f) \in Key
    BY KeyFacts
  <1>4. /\ prev \in [Field -> [old : Key \cup {None}, valid : BOOLEAN]]
        /\ \A f \in Field : prev[f] =
              IF f \in asks THEN [old |-> optionDataString(val, f), valid |-> s.previous[f].valid]
              ELSE s.previous[f]
    <2> SUFFICES ASSUME NEW f \in Field
                 PROVE  /\ prev[f] \in [old : Key \cup {None}, valid : BOOLEAN]
                        /\ prev[f] = IF f \in asks
                              THEN [old |-> optionDataString(val, f), valid |-> s.previous[f].valid]
                              ELSE s.previous[f]
      BY Zenon
    <2>1. s.previous[f] \in [old : Key \cup {None}, valid : BOOLEAN]
      BY DEF ValidatorType
    <2>2. [s.previous[f] EXCEPT !.old = optionDataString(val, f)]
          = [old |-> optionDataString(val, f), valid |-> s.previous[f].valid]
      BY <2>1
    <2> QED
      BY <1>3, <2>1, <2>2
  <1>5. req \in [Field -> [key : Key, orphan : BOOLEAN] \cup {None}]
    BY <1>3 DEF ValidatorType
  <1> HIDE DEF c, prev, req, n
  <1>6. c \in ValidatorType
    BY <1>1, <1>2, <1>4, <1>5 DEF ValidatorType
  <1>7. /\ c.invalid = s.invalid /\ c.submitted = s.submitted /\ c.errorMap = s.errorMap
        /\ c.pending = s.pending \cup asks /\ c.pendingRequest = n
        /\ c.formSubmitted = s.formSubmitted /\ c.previous = prev /\ c.request = req
        /\ c.container = s.container /\ c.summary = s.summary
    BY <1>1 DEF ValidatorType
  <1>8. \A f \in Field : req[f] =
              IF f \in asks THEN [key |-> optionDataString(val, f), orphan |-> FALSE]
              ELSE s.request[f]
    BY DEF req
  <1> QED
    BY <1>4, <1>6, <1>7, <1>8 DEF c, n

\* showErrors only touches the messages.
LEMMA showErrorsFields ==
    ASSUME NEW s \in ValidatorType, NEW errors, NEW successes
    PROVE  LET c == showErrors(s, errors, successes)
           IN  /\ c \in ValidatorType
               /\ c.invalid = s.invalid /\ c.submitted = s.submitted /\ c.errorMap = s.errorMap
               /\ c.pending = s.pending /\ c.pendingRequest = s.pendingRequest
               /\ c.formSubmitted = s.formSubmitted
               /\ c.previous = s.previous /\ c.request = s.request /\ c.summary = s.summary
               /\ \A f \in Field : c.container[f] = IF f \in successes THEN "valid"
                                                    ELSE IF f \in errors THEN "error"
                                                    ELSE s.container[f]
  <1> DEFINE m1 == [f \in Field |-> IF f \in errors THEN "error" ELSE s.container[f]]
  <1> DEFINE d == [s EXCEPT !.container = m1]
  <1> DEFINE m2 == [f \in Field |-> IF f \in successes THEN "valid" ELSE m1[f]]
  <1>1. onError(s, errors) = d
    BY DEF onError
  <1>2. s.container \in [Field -> {"valid", "error"}]
    BY DEF ValidatorType
  <1>3. m1 \in [Field -> {"valid", "error"}] /\ m2 \in [Field -> {"valid", "error"}]
    BY <1>2
  <1>4. d \in ValidatorType /\ d.container = m1
    <2> HIDE DEF m1
    <2> QED
      BY <1>3 DEF ValidatorType
  <1>5. showErrors(s, errors, successes) = [d EXCEPT !.container = m2]
    <2>1. showErrors(s, errors, successes)
          = [d EXCEPT !.container = [f \in Field |-> IF f \in successes THEN "valid" ELSE d.container[f]]]
      BY <1>1 DEF showErrors, onSuccess
    <2> QED
      BY <2>1, <1>4
  <1>6. [d EXCEPT !.container = m2] = [s EXCEPT !.container = m2]
    <2> HIDE DEF m1, m2
    <2> QED
      BY <1>3 DEF ValidatorType
  <1>7. [s EXCEPT !.container = m2] \in ValidatorType
    <2> HIDE DEF m1, m2
    <2> QED
      BY <1>3 DEF ValidatorType
  <1>8. \A f \in Field : m2[f] = IF f \in successes THEN "valid"
                                 ELSE IF f \in errors THEN "error" ELSE s.container[f]
    OBVIOUS
  <1> DEFINE c == showErrors(s, errors, successes)
  <1> HIDE DEF m1, m2, d, c
  <1>9. c = [s EXCEPT !.container = m2] /\ c \in ValidatorType
    BY <1>5, <1>6, <1>7 DEF c
  <1>10. /\ c.invalid = s.invalid /\ c.submitted = s.submitted /\ c.errorMap = s.errorMap
         /\ c.pending = s.pending /\ c.pendingRequest = s.pendingRequest
         /\ c.formSubmitted = s.formSubmitted
         /\ c.previous = s.previous /\ c.request = s.request /\ c.summary = s.summary
         /\ c.container = m2
    BY <1>9 DEF ValidatorType
  <1> QED
    BY <1>8, <1>9, <1>10 DEF c

\* c is the validator s after the fields in S were checked and their errors
\* shown, whatever became of invalid and of the summary.
Checked(s, val, S, c) ==
    LET errors    == Invalid(s, val, S)
        successes == Valid(s, val, S)
        asks      == Asked(s, val, S)
    IN  /\ c \in ValidatorType
        /\ c.errorMap = errors
        /\ c.pending = s.pending \cup asks
        /\ c.pendingRequest = s.pendingRequest + Cardinality(asks \ s.pending)
        /\ c.formSubmitted = s.formSubmitted
        /\ \A f \in Field : c.previous[f] =
              IF f \in asks THEN [old |-> optionDataString(val, f), valid |-> s.previous[f].valid]
              ELSE s.previous[f]
        /\ \A f \in Field : c.request[f] =
              IF f \in asks THEN [key |-> optionDataString(val, f), orphan |-> FALSE]
              ELSE s.request[f]
        /\ \A f \in Field : c.container[f] =
              IF f \in successes THEN "valid"
              ELSE IF f \in errors THEN "error" ELSE s.container[f]

\* checkAll, field by field.
LEMMA checkAllFields ==
    ASSUME NEW s \in ValidatorType, NEW val \in Values, NEW S \in SUBSET Field
    PROVE  Checked(s, val, S, checkAll(s, val, S)) /\ checkAll(s, val, S).invalid = s.invalid
  <1> DEFINE c == checkAll(s, val, S)
  <1> DEFINE errors == Invalid(s, val, S)
  <1> DEFINE successes == Valid(s, val, S)
  <1> DEFINE asks == Asked(s, val, S)
  <1> DEFINE a == startRequest(s, val, asks)
  <1> DEFINE d == showErrors(a, errors, successes)
  <1>1. c = [d EXCEPT !.errorMap = errors, !.submitted = d.submitted \cup errors]
    <2>1. S \ (errors \cup successes) = asks
      BY Outcomes
    <2> QED
      BY <2>1 DEF checkAll, Invalid, Valid
  <1>2. asks \in SUBSET Remote /\ errors \in SUBSET Field
    BY Outcomes
  <1> HIDE DEF c, errors, successes, asks, a, d
  <1>3. /\ a \in ValidatorType
        /\ a.invalid = s.invalid
        /\ a.pending = s.pending \cup asks
        /\ a.pendingRequest = s.pendingRequest + Cardinality(asks \ s.pending)
        /\ a.formSubmitted = s.formSubmitted
        /\ \A f \in Field : a.previous[f] =
              IF f \in asks THEN [old |-> optionDataString(val, f), valid |-> s.previous[f].valid]
              ELSE s.previous[f]
        /\ \A f \in Field : a.request[f] =
              IF f \in asks THEN [key |-> optionDataString(val, f), orphan |-> FALSE]
              ELSE s.request[f]
        /\ a.container = s.container
        /\ a.summary = s.summary
    BY <1>2, startRequestFields DEF a
  <1>4. /\ d \in ValidatorType
        /\ d.invalid = a.invalid /\ d.pending = a.pending
        /\ d.pendingRequest = a.pendingRequest /\ d.formSubmitted = a.formSubmitted
        /\ d.previous = a.previous /\ d.request = a.request /\ d.summary = a.summary
        /\ \A f \in Field : d.container[f] = IF f \in successes THEN "valid"
                                             ELSE IF f \in errors THEN "error"
                                             ELSE a.container[f]
    BY <1>3, showErrorsFields DEF d
  <1>5. /\ c.invalid = d.invalid /\ c.errorMap = errors /\ c.pending = d.pending
        /\ c.pendingRequest = d.pendingRequest /\ c.formSubmitted = d.formSubmitted
        /\ c.previous = d.previous /\ c.request = d.request
        /\ c.container = d.container /\ c.summary = d.summary
    BY <1>1, <1>4 DEF ValidatorType
  <1>6. c \in ValidatorType
    <2>1. d.submitted \cup errors \in SUBSET Field
      BY <1>2, <1>4 DEF ValidatorType
    <2> QED
      BY <1>1, <1>2, <1>4, <2>1 DEF ValidatorType
  <1>7. \A f \in Field : c.container[f] = IF f \in successes THEN "valid"
                                          ELSE IF f \in errors THEN "error" ELSE s.container[f]
    BY <1>3, <1>4, <1>5
  <1>8. \A f \in Field : c.previous[f] =
            IF f \in asks THEN [old |-> optionDataString(val, f), valid |-> s.previous[f].valid]
            ELSE s.previous[f]
    BY <1>3, <1>4, <1>5
  <1>9. \A f \in Field : c.request[f] =
            IF f \in asks THEN [key |-> optionDataString(val, f), orphan |-> FALSE]
            ELSE s.request[f]
    BY <1>3, <1>4, <1>5
  <1>10. /\ c.invalid = s.invalid /\ c.errorMap = errors
         /\ c.pending = s.pending \cup asks
         /\ c.pendingRequest = s.pendingRequest + Cardinality(asks \ s.pending)
         /\ c.formSubmitted = s.formSubmitted
    BY <1>3, <1>4, <1>5
  <1> QED
    BY <1>6, <1>7, <1>8, <1>9, <1>10 DEF c, errors, successes, asks, Checked

\* onErrors only touches the summary.
LEMMA onErrorsFields ==
    ASSUME NEW s \in ValidatorType
    PROVE  LET c == onErrors(s)
           IN  /\ c \in ValidatorType
               /\ c.invalid = s.invalid /\ c.submitted = s.submitted /\ c.errorMap = s.errorMap
               /\ c.pending = s.pending /\ c.pendingRequest = s.pendingRequest
               /\ c.formSubmitted = s.formSubmitted
               /\ c.previous = s.previous /\ c.request = s.request /\ c.container = s.container
               /\ c.summary = IF s.errorMap = {} THEN s.summary ELSE "error"
  <1> DEFINE d == [s EXCEPT !.summary = "error"]
  <1>1. /\ d \in ValidatorType
        /\ d.invalid = s.invalid /\ d.submitted = s.submitted /\ d.errorMap = s.errorMap
        /\ d.pending = s.pending /\ d.pendingRequest = s.pendingRequest
        /\ d.formSubmitted = s.formSubmitted
        /\ d.previous = s.previous /\ d.request = s.request /\ d.container = s.container
        /\ d.summary = "error"
    BY DEF ValidatorType
  <1>2. onErrors(s) = IF s.errorMap = {} THEN s ELSE d
    BY DEF onErrors
  <1> HIDE DEF d
  <1> QED
    BY <1>1, <1>2

\* A step that sets only invalid and the summary leaves what was checked.
LEMMA CheckedKept ==
    ASSUME NEW s, NEW val, NEW S, NEW c, NEW d, Checked(s, val, S, c), d \in ValidatorType,
           d.errorMap = c.errorMap, d.pending = c.pending, d.pendingRequest = c.pendingRequest,
           d.formSubmitted = c.formSubmitted, d.previous = c.previous, d.request = c.request,
           d.container = c.container
    PROVE  Checked(s, val, S, d)
  BY DEF Checked

\* form, field by field.
LEMMA formFields ==
    ASSUME NEW s \in ValidatorType, NEW val \in Values, attached \subseteq Field
    PROVE  /\ Checked(s, val, attached, form(s, val))
           /\ \A f \in Field : form(s, val).invalid[f] =
                 IF f \in Invalid(s, val, attached) THEN "true" ELSE "absent"
  <1> DEFINE c == checkAll(s, val, attached)
  <1> DEFINE inv == [f \in Field |-> IF f \in c.errorMap THEN "true" ELSE "absent"]
  <1> DEFINE d == [c EXCEPT !.invalid = inv]
  <1> DEFINE e == onErrors(d)
  <1>1. form(s, val) = e
    BY DEF form
  <1>2. Checked(s, val, attached, c)
    BY checkAllFields
  <1>3. inv \in [Field -> {"absent", "false", "true"}]
    OBVIOUS
  <1>4. c \in ValidatorType /\ c.errorMap = Invalid(s, val, attached)
    BY <1>2 DEF Checked
  <1>5. \A f \in Field : inv[f] = IF f \in Invalid(s, val, attached) THEN "true" ELSE "absent"
    BY <1>4
  <1> HIDE DEF c, inv, d, e
  <1>6. /\ d \in ValidatorType /\ d.invalid = inv
        /\ d.errorMap = c.errorMap /\ d.pending = c.pending
        /\ d.pendingRequest = c.pendingRequest /\ d.formSubmitted = c.formSubmitted
        /\ d.previous = c.previous /\ d.request = c.request /\ d.container = c.container
    BY <1>3, <1>4 DEF d, ValidatorType
  <1>7. /\ e \in ValidatorType /\ e.invalid = d.invalid
        /\ e.errorMap = d.errorMap /\ e.pending = d.pending
        /\ e.pendingRequest = d.pendingRequest /\ e.formSubmitted = d.formSubmitted
        /\ e.previous = d.previous /\ e.request = d.request /\ e.container = d.container
    BY <1>6, onErrorsFields DEF e
  <1>8. Checked(s, val, attached, e)
    <2>1. Checked(s, val, attached, d)
      BY <1>2, <1>6, CheckedKept
    <2> QED
      BY <2>1, <1>7, CheckedKept
  <1> QED
    BY <1>1, <1>5, <1>6, <1>7, <1>8

\* element, field by field.
LEMMA elementFields ==
    ASSUME NEW s \in ValidatorType, NEW val \in Values, NEW g \in Field
    PROVE  /\ Checked(s, val, {g}, element(s, val, g))
           /\ element(s, val, g).invalid =
                 [s.invalid EXCEPT ![g] = IF g \in Invalid(s, val, {g}) THEN "true" ELSE "false"]
  <1> DEFINE c == checkAll(s, val, {g})
  <1> DEFINE x == IF g \in c.errorMap THEN "true" ELSE "false"
  <1> DEFINE d == [c EXCEPT !.invalid[g] = x]
  <1>1. element(s, val, g) = d
    BY DEF element
  <1>2. Checked(s, val, {g}, c) /\ c.invalid = s.invalid
    BY checkAllFields
  <1>3. c \in ValidatorType /\ c.errorMap = Invalid(s, val, {g})
    BY <1>2 DEF Checked
  <1>4. /\ x \in {"absent", "false", "true"}
        /\ x = IF g \in Invalid(s, val, {g}) THEN "true" ELSE "false"
    BY <1>3
  <1> HIDE DEF c, x, d
  <1>5. /\ d \in ValidatorType
        /\ d.errorMap = c.errorMap /\ d.pending = c.pending
        /\ d.pendingRequest = c.pendingRequest /\ d.formSubmitted = c.formSubmitted
        /\ d.previous = c.previous /\ d.request = c.request /\ d.container = c.container
        /\ d.invalid = [c.invalid EXCEPT ![g] = x]
    BY <1>3, <1>4 DEF d, ValidatorType
  <1>6. Checked(s, val, {g}, d)
    BY <1>2, <1>5, CheckedKept
  <1> QED
    BY <1>1, <1>2, <1>4, <1>5, <1>6

-----------------------------------------------------------------------------
(***************************************************************************)
(* The invariant, operator by operator.                                    *)
(***************************************************************************)

\* Only fields of the form wait, so they can be counted.
LEMMA PendingFinite ==
    ASSUME NEW S \in SUBSET Remote
    PROVE  IsFiniteSet(S) /\ Cardinality(S) \in Nat
  <1>1. S \in SUBSET Field
    BY FormAssumption
  <1>2. IsFiniteSet(S)
    BY <1>1, FormAssumption, FS_Subset
  <1> QED
    BY <1>2, FS_CardinalityType

\* A check counts the fields that did not wait already.
LEMMA CheckedCounting ==
    ASSUME NEW s \in ValidatorType, NEW val, NEW S \in SUBSET Field, NEW c,
           Checked(s, val, S, c), Counting(s)
    PROVE  Counting(c)
  <1> DEFINE asks == Asked(s, val, S)
  <1> DEFINE new == asks \ s.pending
  <1>1. s.pending \in SUBSET Remote /\ new \in SUBSET Remote
    BY Outcomes DEF ValidatorType
  <1>2. IsFiniteSet(s.pending) /\ IsFiniteSet(new)
        /\ Cardinality(s.pending) \in Nat /\ Cardinality(new) \in Nat
    BY <1>1, PendingFinite
  <1>3. s.pending \cup asks = s.pending \cup new /\ s.pending \cap new = {}
    OBVIOUS
  <1>4. Cardinality(s.pending \cup asks) = Cardinality(s.pending) + Cardinality(new)
    <2> HIDE DEF asks, new
    <2>1. Cardinality(s.pending \cup new)
          = Cardinality(s.pending) + Cardinality(new) - Cardinality(s.pending \cap new)
      BY <1>2, FS_Union
    <2>2. Cardinality(s.pending \cap new) = 0
      BY <1>3, FS_EmptySet
    <2>3. Cardinality(s.pending \cup asks) = Cardinality(s.pending \cup new)
      BY <1>3
    <2> QED
      BY <1>2, <2>1, <2>2, <2>3
  <1>5. /\ c.pending = s.pending \cup asks
        /\ c.pendingRequest = s.pendingRequest + Cardinality(new)
        /\ \A f \in Field : f \notin asks => c.request[f] = s.request[f]
    BY DEF Checked
  <1> HIDE DEF asks, new
  <1> QED
    BY <1>4, <1>5 DEF Counting

\* A check asks for attached fields, and each remembers what it asks.
LEMMA CheckedAsking ==
    ASSUME NEW s \in ValidatorType, NEW val, NEW S \in SUBSET Field, NEW c,
           Checked(s, val, S, c), Asking(s)
    PROVE  Asking(c)
  <1> SUFFICES ASSUME NEW f \in Field, c.request[f] # None
               PROVE  /\ f \in attached
                      /\ c.previous[f].old = IF c.request[f].orphan THEN None ELSE c.request[f].key
    BY DEF Asking
  <1>1. CASE f \in Asked(s, val, S)
    <2>1. c.previous[f] = [old |-> optionDataString(val, f), valid |-> s.previous[f].valid]
      BY <1>1 DEF Checked
    <2>2. c.request[f] = [key |-> optionDataString(val, f), orphan |-> FALSE]
      BY <1>1 DEF Checked
    <2>3. f \in attached
      BY <1>1, Outcomes
    <2> QED
      BY <2>1, <2>2, <2>3
  <1>2. CASE f \notin Asked(s, val, S)
    <2>1. c.previous[f] = s.previous[f] /\ c.request[f] = s.request[f]
      BY <1>2 DEF Checked
    <2> QED
      BY <2>1 DEF Asking
  <1> QED
    BY <1>1, <1>2

\* A check touches only what waiting fields remember.
LEMMA CheckedRemembering ==
    ASSUME NEW s \in ValidatorType, NEW val, NEW S \in SUBSET Field, NEW c, NEW apr,
           Checked(s, val, S, c), Remembering(s, apr)
    PROVE  Remembering(c, apr)
  <1> SUFFICES ASSUME NEW f \in Field, f \notin c.pending,
                      c.previous[f].old # None, c.previous[f].valid = TRUE
               PROVE  apr[f] = c.previous[f].old
    BY DEF Remembering
  <1>1. f \notin s.pending /\ f \notin Asked(s, val, S)
    BY DEF Checked
  <1>2. c.previous[f] = s.previous[f]
    BY <1>1 DEF Checked
  <1> QED
    BY <1>1, <1>2 DEF Remembering

\* form keeps the invariant.
LEMMA formInv ==
    ASSUME NEW s, NEW val \in Values, NEW apr, attached \subseteq Field, ValidatorInv(s, apr)
    PROVE  ValidatorInv(form(s, val), apr)
  <1> DEFINE c == form(s, val)
  <1>1. s \in ValidatorType /\ Counting(s) /\ Asking(s) /\ Remembering(s, apr) /\ Showing(s)
    BY DEF ValidatorInv
  <1>2. /\ Checked(s, val, attached, c)
        /\ \A f \in Field : c.invalid[f] =
              IF f \in Invalid(s, val, attached) THEN "true" ELSE "absent"
    BY <1>1, formFields
  <1> HIDE DEF c
  <1>3. Counting(c) /\ Asking(c) /\ Remembering(c, apr)
    BY <1>1, <1>2, CheckedCounting, CheckedAsking, CheckedRemembering
  <1>4. Showing(c)
    <2> SUFFICES ASSUME NEW f \in Field
                 PROVE  /\ c.invalid[f] = "true" => c.container[f] = "error"
                        /\ c.container[f] = "error" => c.invalid[f] = "true" \/ f \in c.pending
                        /\ c.container[f] = "error" => f \in attached
                        /\ f \in c.errorMap => c.invalid[f] = "true"
      BY DEF Showing
    <2>1. /\ c.container[f] = IF f \in Valid(s, val, attached) THEN "valid"
                              ELSE IF f \in Invalid(s, val, attached) THEN "error"
                              ELSE s.container[f]
          /\ c.errorMap = Invalid(s, val, attached)
          /\ c.pending = s.pending \cup Asked(s, val, attached)
      BY <1>2 DEF Checked
    <2>2. s.container[f] = "error" => f \in attached
      BY <1>1 DEF Showing
    <2>3. /\ f \in attached => \/ f \in Valid(s, val, attached)
                               \/ f \in Invalid(s, val, attached)
                               \/ f \in Asked(s, val, attached)
          /\ f \in Invalid(s, val, attached) => f \in attached /\ f \notin Valid(s, val, attached)
      BY <1>1, CheckFacts DEF Valid, Invalid, Asked
    <2> QED
      BY <1>2, <2>1, <2>2, <2>3
  <1>5. c \in ValidatorType
    BY <1>2 DEF Checked
  <1> QED
    BY <1>3, <1>4, <1>5 DEF ValidatorInv, c

\* element keeps the invariant.
LEMMA elementInv ==
    ASSUME NEW s, NEW val \in Values, NEW apr, NEW g \in Field, ValidatorInv(s, apr)
    PROVE  ValidatorInv(element(s, val, g), apr)
  <1> DEFINE c == element(s, val, g)
  <1>1. s \in ValidatorType /\ Counting(s) /\ Asking(s) /\ Remembering(s, apr) /\ Showing(s)
    BY DEF ValidatorInv
  <1>2. Checked(s, val, {g}, c)
    BY <1>1, elementFields
  <1>3. \A f \in Field : c.invalid[f] =
            IF f # g THEN s.invalid[f]
            ELSE IF g \in Invalid(s, val, {g}) THEN "true" ELSE "false"
    <2>1. c.invalid = [s.invalid EXCEPT ![g] = IF g \in Invalid(s, val, {g}) THEN "true" ELSE "false"]
      BY <1>1, elementFields
    <2>2. s.invalid \in [Field -> {"absent", "false", "true"}]
      BY <1>1 DEF ValidatorType
    <2> HIDE DEF c
    <2> QED
      BY <2>1, <2>2
  <1> HIDE DEF c
  <1>4. Counting(c) /\ Asking(c) /\ Remembering(c, apr)
    BY <1>1, <1>2, CheckedCounting, CheckedAsking, CheckedRemembering
  <1>5. Showing(c)
    <2> SUFFICES ASSUME NEW f \in Field
                 PROVE  /\ c.invalid[f] = "true" => c.container[f] = "error"
                        /\ c.container[f] = "error" => c.invalid[f] = "true" \/ f \in c.pending
                        /\ c.container[f] = "error" => f \in attached
                        /\ f \in c.errorMap => c.invalid[f] = "true"
      BY DEF Showing
    <2>1. /\ c.container[f] = IF f \in Valid(s, val, {g}) THEN "valid"
                              ELSE IF f \in Invalid(s, val, {g}) THEN "error"
                              ELSE s.container[f]
          /\ c.errorMap = Invalid(s, val, {g})
          /\ c.pending = s.pending \cup Asked(s, val, {g})
      BY <1>2 DEF Checked
    <2>2. /\ s.container[f] = "error" => f \in attached
          /\ s.container[f] = "error" => s.invalid[f] = "true" \/ f \in s.pending
          /\ s.invalid[f] = "true" => s.container[f] = "error"
      BY <1>1 DEF Showing
    <2>3. /\ f = g => \/ f \in Valid(s, val, {g})
                      \/ f \in Invalid(s, val, {g})
                      \/ f \in Asked(s, val, {g})
          /\ f # g => f \notin Valid(s, val, {g}) /\ f \notin Invalid(s, val, {g})
          /\ f \in Invalid(s, val, {g}) => f \in attached /\ f \notin Valid(s, val, {g})
      BY <1>1, CheckFacts DEF Valid, Invalid, Asked
    <2> QED
      BY <1>3, <2>1, <2>2, <2>3
  <1>6. c \in ValidatorType
    BY <1>2 DEF Checked
  <1> QED
    BY <1>4, <1>5, <1>6 DEF ValidatorInv, c

\* What a submitted form owes to the server and to its rules.
Approved(val, apr) ==
    \A f \in attached :
        /\ val[f] \in Passing[f]
        /\ f \in Remote /\ val[f] # Empty => apr[f] = optionDataString(val, f)

\* A form that is found valid while nothing is pending has values that the rules
\* let pass and that the server's last answers approved.
LEMMA LetThrough ==
    ASSUME NEW s, NEW val \in Values, NEW apr, attached \subseteq Field, ValidatorInv(s, apr),
           isValid(form(s, val)), form(s, val).pendingRequest = 0
    PROVE  Approved(val, apr)
  <1> DEFINE c == form(s, val)
  <1>1. s \in ValidatorType /\ Counting(s) /\ Remembering(s, apr)
    BY DEF ValidatorInv
  <1>2. Checked(s, val, attached, c)
    BY <1>1, formFields
  <1>3. c.errorMap = {} /\ c.pendingRequest = 0
    BY DEF isValid
  <1> HIDE DEF c
  <1>4. Invalid(s, val, attached) = {}
    BY <1>2, <1>3 DEF Checked
  <1>5. c.pending = {}
    <2>1. Counting(c)
      BY <1>1, <1>2, CheckedCounting
    <2>2. c \in ValidatorType
      BY <1>2 DEF Checked
    <2>3. c.pending \in SUBSET Remote
      BY <2>2 DEF ValidatorType
    <2>4. Cardinality(c.pending) = 0
      BY <1>3, <2>1 DEF Counting
    <2> QED
      BY <2>3, <2>4, PendingFinite, FS_EmptySet
  <1>6. s.pending = {} /\ Asked(s, val, attached) = {}
    BY <1>2, <1>5 DEF Checked
  <1> SUFFICES ASSUME NEW f \in attached
               PROVE  /\ val[f] \in Passing[f]
                      /\ f \in Remote /\ val[f] # Empty => apr[f] = optionDataString(val, f)
    BY DEF Approved
  <1>7. check(s, val, f) = "valid"
    <2>1. check(s, val, f) \in {"valid", "invalid", "pending"}
      BY <1>1, CheckFacts
    <2>2. check(s, val, f) # "invalid" /\ check(s, val, f) # "pending"
      BY <1>4, <1>6 DEF Invalid, Asked
    <2> QED
      BY <2>1, <2>2
  <1>8. val[f] \in Passing[f]
    BY <1>1, <1>7, CheckFacts
  <1>9. ASSUME f \in Remote, val[f] # Empty PROVE apr[f] = optionDataString(val, f)
    <2>1. s.previous[f].old = optionDataString(val, f) /\ s.previous[f].valid = TRUE
      BY <1>1, <1>7, <1>9, CheckFacts
    <2>2. s.previous[f].old # None
      BY <2>1, KeyFacts
    <2> QED
      BY <1>1, <1>6, <2>1, <2>2 DEF Remembering
  <1> QED
    BY <1>8, <1>9

\* formSubmitted and the summary are not part of the invariant.
LEMMA InvKept ==
    ASSUME NEW s, NEW d \in ValidatorType, NEW apr, ValidatorInv(s, apr),
           d.invalid = s.invalid, d.errorMap = s.errorMap, d.pending = s.pending,
           d.pendingRequest = s.pendingRequest, d.previous = s.previous,
           d.request = s.request, d.container = s.container
    PROVE  ValidatorInv(d, apr)
  BY DEF ValidatorInv, Counting, Asking, Remembering, Showing

\* formSubmitted set to b.
LEMMA SubmittedFlag ==
    ASSUME NEW s \in ValidatorType, NEW b \in BOOLEAN
    PROVE  LET d == [s EXCEPT !.formSubmitted = b]
           IN  /\ d \in ValidatorType /\ d.formSubmitted = b
               /\ d.invalid = s.invalid /\ d.errorMap = s.errorMap /\ d.pending = s.pending
               /\ d.pendingRequest = s.pendingRequest /\ d.previous = s.previous
               /\ d.request = s.request /\ d.container = s.container /\ d.summary = s.summary
  BY DEF ValidatorType

\* t is the validator s after the answer to the request of g was taken in.
Told(s, g, ok, t) ==
    LET errs == IF ok THEN {} ELSE s.errorMap \cup {g}
    IN  /\ t \in ValidatorType
        /\ t.invalid = [s.invalid EXCEPT ![g] = IF ok THEN "false" ELSE "true"]
        /\ t.errorMap = errs
        /\ t.pending = s.pending /\ t.pendingRequest = s.pendingRequest
        /\ t.formSubmitted = s.formSubmitted /\ t.summary = s.summary
        /\ t.previous = IF s.request[g].orphan THEN s.previous
                        ELSE [s.previous EXCEPT ![g].valid = ok]
        /\ t.request = [s.request EXCEPT ![g] = None]
        /\ t.container = [f \in Field |-> IF f \in (IF ok THEN {g} ELSE {}) THEN "valid"
                                          ELSE IF f \in errs THEN "error" ELSE s.container[f]]

\* success, field by field.
LEMMA successFields ==
    ASSUME NEW s \in ValidatorType, NEW g \in Field, NEW ok \in BOOLEAN, s.request[g] # None
    PROVE  Told(s, g, ok, success(s, g, ok))
  <1> DEFINE t == success(s, g, ok)
  <1> DEFINE errs == IF ok THEN {} ELSE s.errorMap \cup {g}
  <1> DEFINE succ == IF ok THEN {g} ELSE {}
  <1> DEFINE prev == IF s.request[g].orphan THEN s.previous ELSE [s.previous EXCEPT ![g].valid = ok]
  <1> DEFINE told == IF s.request[g].orphan THEN s ELSE [s EXCEPT !.previous[g].valid = ok]
  <1> DEFINE d == showErrors(told, errs, succ)
  <1> DEFINE x == IF ok THEN "false" ELSE "true"
  <1>1. t = [d EXCEPT !.errorMap = errs, !.invalid[g] = x, !.request[g] = None]
    BY DEF success
  <1>2. /\ told \in ValidatorType /\ told.previous = prev
        /\ told.invalid = s.invalid /\ told.pending = s.pending
        /\ told.pendingRequest = s.pendingRequest /\ told.formSubmitted = s.formSubmitted
        /\ told.request = s.request /\ told.container = s.container /\ told.summary = s.summary
    <2>1. CASE s.request[g].orphan
      BY <2>1
    <2>2. CASE ~s.request[g].orphan
      <3>1. told = [s EXCEPT !.previous[g].valid = ok] /\ prev = [s.previous EXCEPT ![g].valid = ok]
        BY <2>2
      <3>2. prev \in [Field -> [old : Key \cup {None}, valid : BOOLEAN]]
        <4>1. s.previous \in [Field -> [old : Key \cup {None}, valid : BOOLEAN]]
          BY DEF ValidatorType
        <4> QED
          BY <3>1, <4>1
      <3>3. told = [s EXCEPT !.previous = prev]
        BY <3>1
      <3> HIDE DEF told, prev
      <3> QED
        BY <3>2, <3>3 DEF ValidatorType
    <2> QED
      BY <2>1, <2>2
  <1>3. errs \in SUBSET Field /\ x \in {"absent", "false", "true"}
    BY DEF ValidatorType
  <1> HIDE DEF t, errs, succ, prev, told, d, x
  <1>4. /\ d \in ValidatorType /\ d.previous = told.previous
        /\ d.invalid = told.invalid /\ d.pending = told.pending
        /\ d.pendingRequest = told.pendingRequest /\ d.formSubmitted = told.formSubmitted
        /\ d.request = told.request /\ d.summary = told.summary
        /\ \A f \in Field : d.container[f] = IF f \in succ THEN "valid"
                                             ELSE IF f \in errs THEN "error"
                                             ELSE told.container[f]
    BY <1>2, showErrorsFields DEF d
  <1>5. /\ t \in ValidatorType /\ t.previous = d.previous
        /\ t.invalid = [d.invalid EXCEPT ![g] = x] /\ t.pending = d.pending
        /\ t.pendingRequest = d.pendingRequest /\ t.formSubmitted = d.formSubmitted
        /\ t.request = [d.request EXCEPT ![g] = None] /\ t.summary = d.summary
        /\ t.errorMap = errs /\ t.container = d.container
    BY <1>1, <1>3, <1>4 DEF ValidatorType
  <1>6. t.container = [f \in Field |-> IF f \in succ THEN "valid"
                                      ELSE IF f \in errs THEN "error" ELSE s.container[f]]
    <2>1. t.container \in [Field -> {"valid", "error"}]
      BY <1>5 DEF ValidatorType
    <2> QED
      BY <1>2, <1>4, <1>5, <2>1
  <1> QED
    BY <1>2, <1>4, <1>5, <1>6 DEF t, errs, succ, prev, x, Told

\* The answer to the request of g, before a submit that waits for it is taken up.
Stopped(s, g, ok) ==
    [success(s, g, ok) EXCEPT !.pendingRequest = IF @ > 0 THEN @ - 1 ELSE 0, !.pending = @ \ {g}]

\* What an answer to the request of g leaves for the submit that waits.
Taken(s, g, ok, p) ==
    /\ p.formSubmitted = s.formSubmitted
    /\ p.errorMap = IF ok THEN {} ELSE s.errorMap \cup {g}
    /\ ~ok => p.container[g] = "error"

\* An answer ends the wait of its field, and the field remembers it unless it was
\* reset in the meantime: the invariant holds with what the server has approved now.
LEMMA StoppedInv ==
    ASSUME NEW s, NEW apr \in [Field -> Key \cup {None}], NEW g \in Field, NEW ok \in BOOLEAN,
           ValidatorInv(s, apr), s.request[g] # None, attached \subseteq Field
    PROVE  /\ ValidatorInv(Stopped(s, g, ok),
                           [apr EXCEPT ![g] = IF ok THEN s.request[g].key ELSE None])
           /\ Taken(s, g, ok, Stopped(s, g, ok))
  <1> DEFINE t == success(s, g, ok)
  <1> DEFINE p == Stopped(s, g, ok)
  <1> DEFINE n == IF t.pendingRequest > 0 THEN t.pendingRequest - 1 ELSE 0
  <1> DEFINE new == [apr EXCEPT ![g] = IF ok THEN s.request[g].key ELSE None]
  <1> DEFINE errs == IF ok THEN {} ELSE s.errorMap \cup {g}
  <1>1. s \in ValidatorType /\ Counting(s) /\ Asking(s) /\ Remembering(s, apr) /\ Showing(s)
    BY DEF ValidatorInv
  <1>2. /\ t \in ValidatorType
        /\ t.invalid = [s.invalid EXCEPT ![g] = IF ok THEN "false" ELSE "true"]
        /\ t.errorMap = errs
        /\ t.pending = s.pending /\ t.pendingRequest = s.pendingRequest
        /\ t.formSubmitted = s.formSubmitted
        /\ t.previous = IF s.request[g].orphan THEN s.previous
                        ELSE [s.previous EXCEPT ![g].valid = ok]
        /\ t.request = [s.request EXCEPT ![g] = None]
        /\ t.container = [f \in Field |->
              IF f \in (IF ok THEN {g} ELSE {}) THEN "valid"
              ELSE IF f \in errs THEN "error" ELSE s.container[f]]
    <2>1. Told(s, g, ok, t)
      BY <1>1, successFields
    <2> HIDE DEF t
    <2> QED
      BY <2>1 DEF Told
  <1>3. p = [t EXCEPT !.pendingRequest = n, !.pending = t.pending \ {g}]
    BY DEF Stopped
  <1> HIDE DEF t, p, n, errs, new
  <1>4. n \in Nat
    <2>1. t.pendingRequest \in Nat
      BY <1>2 DEF ValidatorType
    <2> QED
      BY <2>1 DEF n
  <1>5. /\ p \in ValidatorType /\ p.invalid = t.invalid /\ p.errorMap = t.errorMap
        /\ p.pending = t.pending \ {g} /\ p.pendingRequest = n
        /\ p.formSubmitted = t.formSubmitted /\ p.previous = t.previous
        /\ p.request = t.request /\ p.container = t.container
    BY <1>2, <1>3, <1>4 DEF ValidatorType
  <1>6. g \in s.pending /\ g \in attached
    BY <1>1 DEF Counting, Asking
  <1>7. /\ s.pending \in SUBSET Remote /\ s.pendingRequest \in Nat
        /\ s.request \in [Field -> [key : Key, orphan : BOOLEAN] \cup {None}]
        /\ s.previous \in [Field -> [old : Key \cup {None}, valid : BOOLEAN]]
        /\ s.invalid \in [Field -> {"absent", "false", "true"}]
    BY <1>1 DEF ValidatorType
  <1>8. Counting(p)
    <2>1. IsFiniteSet(s.pending)
      BY <1>7, PendingFinite
    <2>2. Cardinality(s.pending \ {g}) = Cardinality(s.pending) - 1
      BY <1>6, <2>1, FS_RemoveElement
    <2>3. Cardinality(s.pending \ {g}) \in Nat
      BY <1>7, PendingFinite
    <2>4. n = Cardinality(s.pending \ {g})
      <3>1. t.pendingRequest = Cardinality(s.pending) /\ Cardinality(s.pending) \in Nat
        BY <1>1, <1>2, <1>7 DEF Counting
      <3> QED
        BY <3>1, <2>2, <2>3 DEF n
    <2>5. \A f \in Field : p.request[f] # None => f \in p.pending
      BY <1>1, <1>2, <1>5, <1>7 DEF Counting
    <2> QED
      BY <1>2, <1>5, <2>4, <2>5 DEF Counting
  <1>9. \A f \in Field : f # g =>
            /\ p.previous[f] = s.previous[f] /\ p.request[f] = s.request[f]
            /\ p.invalid[f] = s.invalid[f] /\ new[f] = apr[f]
    BY <1>2, <1>5, <1>7 DEF new
  <1>10. p.request[g] = None /\ p.invalid[g] = IF ok THEN "false" ELSE "true"
    BY <1>2, <1>5, <1>7
  <1>11. Asking(p)
    BY <1>1, <1>9, <1>10 DEF Asking
  <1>12. Remembering(p, new)
    <2> SUFFICES ASSUME NEW f \in Field, f \notin p.pending,
                        p.previous[f].old # None, p.previous[f].valid = TRUE
                 PROVE  new[f] = p.previous[f].old
      BY DEF Remembering
    <2>1. CASE f # g
      BY <1>1, <1>2, <1>5, <1>9, <2>1 DEF Remembering
    <2>2. CASE f = g /\ s.request[g].orphan
      <3>1. p.previous = s.previous
        BY <1>2, <1>5, <2>2
      <3>2. s.previous[g].old = None
        BY <1>1, <2>2 DEF Asking
      <3> QED
        BY <2>2, <3>1, <3>2
    <2>3. CASE f = g /\ ~s.request[g].orphan
      <3>1. p.previous = [s.previous EXCEPT ![g].valid = ok]
        BY <1>2, <1>5, <2>3
      <3>2. s.previous[g].old = s.request[g].key
        BY <1>1, <2>3 DEF Asking
      <3>3. p.previous[g].old = s.previous[g].old /\ p.previous[g].valid = ok
        BY <3>1, <1>7
      <3> QED
        BY <2>3, <3>2, <3>3 DEF new
    <2> QED
      BY <2>1, <2>2, <2>3
  <1>13. Showing(p)
    <2> SUFFICES ASSUME NEW f \in Field
                 PROVE  /\ p.invalid[f] = "true" => p.container[f] = "error"
                        /\ p.container[f] = "error" => p.invalid[f] = "true" \/ f \in p.pending
                        /\ p.container[f] = "error" => f \in attached
                        /\ f \in p.errorMap => p.invalid[f] = "true"
      BY DEF Showing
    <2>1. /\ s.invalid[f] = "true" => s.container[f] = "error"
          /\ s.container[f] = "error" => s.invalid[f] = "true" \/ f \in s.pending
          /\ s.container[f] = "error" => f \in attached
          /\ f \in s.errorMap => s.invalid[f] = "true"
      BY <1>1 DEF Showing
    <2>2. p.container[f] = IF f \in (IF ok THEN {g} ELSE {}) THEN "valid"
                           ELSE IF f \in errs THEN "error" ELSE s.container[f]
      BY <1>2, <1>5
    <2>3. p.errorMap = errs /\ p.pending = s.pending \ {g}
      BY <1>2, <1>5
    <2>4. CASE ok
      BY <1>9, <1>10, <2>1, <2>2, <2>3, <2>4 DEF errs
    <2>5. CASE ~ok
      BY <1>6, <1>9, <1>10, <2>1, <2>2, <2>3, <2>5 DEF errs
    <2> QED
      BY <2>4, <2>5
  <1>14. ~ok => p.container[g] = "error"
    BY <1>2, <1>5 DEF errs
  <1> QED
    BY <1>2, <1>5, <1>8, <1>11, <1>12, <1>13, <1>14 DEF ValidatorInv, Taken, p, new, errs

\* What becomes of the submit that waited for the answer to g: it went through with
\* approved values, or was given up with an error on the page.
Resumed(s, g, ok, val, r, new) ==
    /\ ok /\ s.formSubmitted = TRUE /\ r.formSubmitted = FALSE => Approved(val, new)
    /\ ~ok /\ s.formSubmitted = TRUE /\ r.formSubmitted = FALSE =>
          r.summary = "error" /\ r.container[g] = "error"

\* An answer keeps the invariant.  A submit that it takes up goes through with
\* approved values; one that it gives up leaves an error on the page.
LEMMA AnswerInv ==
    ASSUME NEW s, NEW apr \in [Field -> Key \cup {None}], NEW g \in Field, NEW ok \in BOOLEAN,
           NEW val \in Values, ValidatorInv(s, apr), s.request[g] # None, attached \subseteq Field,
           NEW new, new = [apr EXCEPT ![g] = IF ok THEN s.request[g].key ELSE None],
           NEW r, r = stopRequest(success(s, g, ok), val, g, ok)
    PROVE  ValidatorInv(r, new) /\ Resumed(s, g, ok, val, r, new)
  <1> DEFINE p == Stopped(s, g, ok)
  <1> DEFINE c == form(p, val)
  <1> DEFINE e == form(c, val)
  <1> DEFINE h == onErrors(p)
  <1>1. r = IF p.pendingRequest > 0 \/ ~p.formSubmitted THEN p
            ELSE IF ok THEN
                IF isValid(c) /\ c.pendingRequest = 0
                THEN [e EXCEPT !.formSubmitted = FALSE]
                ELSE c
            ELSE [h EXCEPT !.formSubmitted = FALSE]
    BY DEF stopRequest, Stopped
  <1>2. /\ ValidatorInv(p, new)
        /\ p.formSubmitted = s.formSubmitted
        /\ p.errorMap = IF ok THEN {} ELSE s.errorMap \cup {g}
        /\ ~ok => p.container[g] = "error"
    <2>1. ValidatorInv(p, new) /\ Taken(s, g, ok, p)
      BY StoppedInv
    <2> HIDE DEF p
    <2> QED
      BY <2>1 DEF Taken
  <1> HIDE DEF p
  <1>3. p \in ValidatorType /\ p.formSubmitted \in BOOLEAN
    BY <1>2 DEF ValidatorInv, ValidatorType
  <1>4. CASE p.pendingRequest > 0 \/ ~p.formSubmitted
    <2>1. r = p
      BY <1>1, <1>4
    <2> HIDE DEF c, e, h
    <2>2. ~(s.formSubmitted = TRUE /\ r.formSubmitted = FALSE)
      BY <1>2, <2>1
    <2> QED
      BY <1>2, <2>1, <2>2 DEF Resumed
  <1>5. CASE ~(p.pendingRequest > 0 \/ ~p.formSubmitted) /\ ok /\ isValid(c) /\ c.pendingRequest = 0
    <2>1. r = [e EXCEPT !.formSubmitted = FALSE]
      BY <1>1, <1>5
    <2>2. ValidatorInv(c, new)
      BY <1>2, formInv
    <2>3. ValidatorInv(e, new)
      BY <2>2, formInv
    <2>4. Approved(val, new)
      BY <1>2, <1>5, LetThrough
    <2> HIDE DEF c, e
    <2>5. e \in ValidatorType
      BY <2>3 DEF ValidatorInv
    <2>6. /\ r \in ValidatorType
          /\ r.invalid = e.invalid /\ r.errorMap = e.errorMap /\ r.pending = e.pending
          /\ r.pendingRequest = e.pendingRequest /\ r.previous = e.previous
          /\ r.request = e.request /\ r.container = e.container
      BY <2>1, <2>5, SubmittedFlag
    <2>7. ValidatorInv(r, new)
      BY <2>3, <2>6, InvKept
    <2> QED
      BY <1>5, <2>4, <2>7 DEF Resumed
  <1>6. CASE ~(p.pendingRequest > 0 \/ ~p.formSubmitted) /\ ok /\ ~(isValid(c) /\ c.pendingRequest = 0)
    <2>1. r = c
      BY <1>1, <1>6
    <2>2. ValidatorInv(c, new)
      BY <1>2, formInv
    <2>3. Checked(p, val, attached, c)
      BY <1>3, formFields
    <2> HIDE DEF c, e
    <2>4. c.formSubmitted = TRUE
      BY <1>3, <1>6, <2>3 DEF Checked
    <2> QED
      BY <1>6, <2>1, <2>2, <2>4 DEF Resumed
  <1>7. CASE ~(p.pendingRequest > 0 \/ ~p.formSubmitted) /\ ~ok
    <2>1. r = [h EXCEPT !.formSubmitted = FALSE]
      BY <1>1, <1>7
    <2>2. /\ h \in ValidatorType
          /\ h.invalid = p.invalid /\ h.errorMap = p.errorMap /\ h.pending = p.pending
          /\ h.pendingRequest = p.pendingRequest /\ h.previous = p.previous
          /\ h.request = p.request /\ h.container = p.container
          /\ h.summary = IF p.errorMap = {} THEN p.summary ELSE "error"
      BY <1>3, onErrorsFields
    <2> HIDE DEF h
    <2>3. /\ r \in ValidatorType
          /\ r.invalid = h.invalid /\ r.errorMap = h.errorMap /\ r.pending = h.pending
          /\ r.pendingRequest = h.pendingRequest /\ r.previous = h.previous
          /\ r.request = h.request /\ r.container = h.container /\ r.summary = h.summary
      BY <2>1, <2>2, SubmittedFlag
    <2>4. ValidatorInv(r, new)
      BY <1>2, <2>2, <2>3, InvKept
    <2>5. r.summary = "error" /\ r.container[g] = "error"
      BY <1>2, <1>7, <2>2, <2>3
    <2> QED
      BY <1>7, <2>4, <2>5 DEF Resumed
  <1> QED
    BY <1>4, <1>5, <1>6, <1>7

\* A reset keeps the invariant: the requests on their way become orphans of fields
\* that remember nothing.
LEMMA onResetInv ==
    ASSUME NEW s, NEW apr, attached \subseteq Field, ValidatorInv(s, apr)
    PROVE  ValidatorInv(onReset(s), apr) /\ onReset(s).formSubmitted = s.formSubmitted
  <1> DEFINE c == onReset(s)
  <1> DEFINE inv == NewValidator.invalid
  <1> DEFINE prev == [f \in Field |-> IF f \in attached THEN NoPrevious ELSE s.previous[f]]
  <1> DEFINE req == [f \in Field |-> IF s.request[f] = None THEN None
                                     ELSE [s.request[f] EXCEPT !.orphan = TRUE]]
  <1> DEFINE msg == [f \in Field |-> "valid"]
  <1>1. s \in ValidatorType /\ Counting(s) /\ Asking(s) /\ Remembering(s, apr)
    BY DEF ValidatorInv
  <1>2. c = [s EXCEPT !.invalid = inv, !.submitted = {}, !.errorMap = {}, !.previous = prev,
                      !.request = req, !.container = msg, !.summary = "valid"]
    BY DEF onReset
  <1>3. inv = [f \in Field |-> "absent"] /\ inv \in [Field -> {"absent", "false", "true"}]
    BY DEF NewValidator
  <1>4. /\ s.previous \in [Field -> [old : Key \cup {None}, valid : BOOLEAN]]
        /\ s.request \in [Field -> [key : Key, orphan : BOOLEAN] \cup {None}]
    BY <1>1 DEF ValidatorType
  <1>5. prev \in [Field -> [old : Key \cup {None}, valid : BOOLEAN]]
    BY <1>4 DEF NoPrevious
  <1>6. req \in [Field -> [key : Key, orphan : BOOLEAN] \cup {None}]
    BY <1>4
  <1>7. msg \in [Field -> {"valid", "error"}]
    OBVIOUS
  <1> HIDE DEF c, inv, prev, req, msg
  <1>8. /\ c \in ValidatorType /\ c.invalid = inv /\ c.errorMap = {} /\ c.previous = prev
        /\ c.request = req /\ c.container = msg
        /\ c.pending = s.pending /\ c.pendingRequest = s.pendingRequest
        /\ c.formSubmitted = s.formSubmitted
    BY <1>1, <1>2, <1>3, <1>5, <1>6, <1>7 DEF ValidatorType
  <1>9. Counting(c)
    BY <1>1, <1>8 DEF Counting, req
  <1>10. Asking(c)
    <2> SUFFICES ASSUME NEW f \in Field, req[f] # None
                 PROVE  f \in attached /\ prev[f].old = IF req[f].orphan THEN None ELSE req[f].key
      BY <1>8 DEF Asking
    <2>1. s.request[f] # None /\ s.request[f] \in [key : Key, orphan : BOOLEAN]
          /\ req[f] = [s.request[f] EXCEPT !.orphan = TRUE]
      BY <1>4 DEF req
    <2>2. f \in attached
      BY <1>1, <2>1 DEF Asking
    <2>3. prev[f].old = None
      BY <2>2 DEF prev, NoPrevious
    <2>4. req[f].orphan = TRUE
      BY <2>1
    <2> QED
      BY <2>2, <2>3, <2>4
  <1>11. Remembering(c, apr)
    <2> SUFFICES ASSUME NEW f \in Field, f \notin s.pending, prev[f].old # None, prev[f].valid = TRUE
                 PROVE  apr[f] = prev[f].old
      BY <1>8 DEF Remembering
    <2>1. prev[f] = s.previous[f]
      BY DEF prev, NoPrevious
    <2> QED
      BY <1>1, <2>1 DEF Remembering
  <1>12. Showing(c)
    BY <1>3, <1>8 DEF Showing, msg
  <1> QED
    BY <1>8, <1>9, <1>10, <1>11, <1>12 DEF ValidatorInv, c

-----------------------------------------------------------------------------
(***************************************************************************)
(* The events.                                                             *)
(***************************************************************************)

\* A validator without history.
LEMMA NewValidatorInv ==
    \A apr : ValidatorInv(NewValidator, apr) /\ NewValidator.formSubmitted = FALSE
  <1> DEFINE s == NewValidator
  <1>1. s \in ValidatorType
    BY FormAssumption DEF NewValidator, ValidatorType, NoPrevious
  <1>2. /\ s.pendingRequest = 0 /\ s.pending = {} /\ s.errorMap = {}
        /\ s.request = [f \in Field |-> None]
        /\ s.previous = [f \in Field |-> NoPrevious]
        /\ s.invalid = [f \in Field |-> "absent"]
        /\ s.container = [f \in Field |-> "valid"]
        /\ s.formSubmitted = FALSE
    BY DEF NewValidator
  <1> HIDE DEF s
  <1>3. Counting(s)
    BY <1>2, FS_EmptySet DEF Counting
  <1>4. Asking(s) /\ Showing(s)
    BY <1>2 DEF Asking, Showing
  <1>5. \A apr : Remembering(s, apr)
    BY <1>2 DEF Remembering, NoPrevious
  <1> QED
    BY <1>1, <1>2, <1>3, <1>4, <1>5 DEF ValidatorInv, s

LEMMA InitInv == Init => IInv
  <1> SUFFICES ASSUME Init PROVE IInv
    OBVIOUS
  <1>1. ValidatorInv(validator, approved)
    BY NewValidatorInv DEF Init
  <1>2. validator \in ValidatorType
    BY <1>1 DEF ValidatorInv
  <1>3. value \in [Field -> AnyInput] /\ \A f \in Field : value[f] \in Input[f]
    BY FormAssumption DEF Init, AnyInput
  <1>4. TypeOK
    BY <1>2, <1>3 DEF Init, TypeOK
  <1> QED
    BY <1>1, <1>4 DEF Init, IInv, SubmittedValid

\* More attached fields do no harm.
LEMMA InvPrimed ==
    ASSUME ValidatorInv(validator', approved'), attached \subseteq attached'
    PROVE  ValidatorInv(validator, approved)'
  BY DEF ValidatorInv, Counting, Asking, Remembering, Showing

\* What TypeOK says of the values and of the fields with rules.
LEMMA TypeFacts ==
    ASSUME TypeOK
    PROVE  value \in Values /\ attached \subseteq Field /\ validator \in ValidatorType
  BY DEF TypeOK, Values

\* The values after an edit.
LEMMA EditValues ==
    ASSUME TypeOK, NEW f \in Field, NEW v \in Input[f], value' = [value EXCEPT ![f] = v]
    PROVE  value' \in Values
  BY DEF TypeOK, Values, AnyInput

\* An event of a page that is not left: the invariant holds behind it if the
\* validator's part does.
LEMMA EventInv ==
    ASSUME IInv, ValidatorInv(validator', approved'), attached' = attached,
           UNCHANGED <<present, parsed>>, created' \in BOOLEAN, created => created',
           value' \in Values, approved' \in [Field -> Key \cup {None}],
           page' \in {"loading", "ready", "left"},
           page' = "left" => Approved(value', approved')
    PROVE  IInv'
  <1>1. validator' \in ValidatorType
    BY DEF ValidatorInv
  <1>2. TypeOK'
    BY <1>1 DEF IInv, TypeOK, Values
  <1>3. ValidatorInv(validator, approved)'
    BY InvPrimed
  <1>4. SubmittedValid'
    BY DEF SubmittedValid, Approved, optionDataString
  <1> QED
    BY <1>2, <1>3, <1>4 DEF IInv

\* Parsing: rules are attached once, to a validator without history.
LEMMA ParsingInv ==
    ASSUME IInv, page' = "ready", NEW S \in SUBSET present, parsed' = parsed \cup S,
           (UNCHANGED <<created, attached>>) \/ attachValidation(parsed'),
           UNCHANGED <<present, value, validator, approved>>
    PROVE  IInv'
  <1>1. TypeOK /\ (~created => attached = {}) /\ ValidatorInv(validator, approved)
    BY DEF IInv
  <1>2. /\ attached \subseteq attached' /\ attached' \subseteq parsed'
        /\ created' \in BOOLEAN /\ (~created' => attached' = {})
    BY <1>1 DEF attachValidation, TypeOK
  <1>3. TypeOK'
    BY <1>1, <1>2 DEF TypeOK
  <1>4. ValidatorInv(validator, approved)'
    BY <1>1, <1>2, InvPrimed
  <1> QED
    BY <1>2, <1>3, <1>4 DEF IInv, SubmittedValid

\* Every event keeps the invariant.
LEMMA NextInv == IInv /\ [Next]_vars => IInv'
  <1> SUFFICES ASSUME IInv, [Next]_vars PROVE IInv'
    OBVIOUS
  <1> USE DEF Handling
  <1>0. /\ TypeOK /\ ValidatorInv(validator, approved) /\ value \in Values
        /\ attached \subseteq Field /\ validator \in ValidatorType
        /\ approved \in [Field -> Key \cup {None}]
    BY TypeFacts DEF IInv, TypeOK
  <1>1. ASSUME DomReady PROVE IInv'
    BY <1>1, ParsingInv DEF DomReady, parse
  <1>2. ASSUME Parse PROVE IInv'
    BY <1>2, ParsingInv DEF Parse, parse
  <1>3. ASSUME NEW f \in Field, NEW skipAttach \in BOOLEAN, ParseElement(f, skipAttach)
        PROVE  IInv'
    <2>1. {f} \in SUBSET present
      BY <1>3 DEF ParseElement
    <2> QED
      BY <1>3, <2>1, ParsingInv DEF ParseElement
  <1>4. ASSUME NEW f \in Field, AddField(f) PROVE IInv'
    <2>1. TypeOK'
      BY <1>0, <1>4 DEF AddField, TypeOK
    <2>2. ValidatorInv(validator, approved)'
      BY <1>0, <1>4, InvPrimed DEF AddField
    <2> QED
      BY <1>4, <2>1, <2>2 DEF AddField, IInv, SubmittedValid
  <1>5. ASSUME NEW f \in Field, NEW v \in Input[f], Fill(f, v) PROVE IInv'
    <2>1. value' \in Values
      BY <1>0, <1>5, EditValues DEF Fill
    <2> QED
      BY <1>0, <1>5, <2>1, EventInv DEF Fill, TypeOK
  <1>6. ASSUME NEW f \in Field, NEW v \in Input[f], Type(f, v) PROVE IInv'
    <2>1. value' \in Values
      BY <1>0, <1>6, EditValues DEF Type
    <2>2. ValidatorInv(element(validator, value', f), approved)
      BY <1>0, <2>1, elementInv
    <2>3. ValidatorInv(validator', approved')
      BY <1>0, <1>6, <2>2 DEF Type
    <2> QED
      BY <1>0, <1>6, <2>1, <2>3, EventInv DEF Type, TypeOK
  <1>7. ASSUME NEW f \in Field, FocusOut(f) PROVE IInv'
    <2>1. ValidatorInv(validator', approved')
      BY <1>0, <1>7, elementInv DEF FocusOut
    <2> QED
      BY <1>0, <1>7, <2>1, EventInv DEF FocusOut, TypeOK
  <1>8. ASSUME Submit PROVE IInv'
    <2> DEFINE c == form(validator, value)
    <2>1. ValidatorInv(c, approved)
      BY <1>0, formInv
    <2>2. isValid(c) /\ c.pendingRequest = 0 => Approved(value, approved)
      BY <1>0, LetThrough
    <2>3. \/ validator' = c /\ page' = page
          \/ validator' = [c EXCEPT !.formSubmitted = TRUE] /\ page' = page
          \/ isValid(c) /\ c.pendingRequest = 0 /\ validator' = c /\ page' = "left"
      BY <1>8 DEF Submit
    <2> HIDE DEF c
    <2>4. ValidatorInv([c EXCEPT !.formSubmitted = TRUE], approved)
      <3> DEFINE d == [c EXCEPT !.formSubmitted = TRUE]
      <3>1. c \in ValidatorType
        BY <2>1 DEF ValidatorInv
      <3>2. /\ d \in ValidatorType
            /\ d.invalid = c.invalid /\ d.errorMap = c.errorMap /\ d.pending = c.pending
            /\ d.pendingRequest = c.pendingRequest /\ d.previous = c.previous
            /\ d.request = c.request /\ d.container = c.container
        BY <3>1, SubmittedFlag
      <3> HIDE DEF d
      <3>3. ValidatorInv(d, approved)
        BY <2>1, <3>2, InvKept
      <3> QED
        BY <3>3 DEF d
    <2>5. ValidatorInv(validator', approved')
      BY <1>8, <2>1, <2>3, <2>4 DEF Submit
    <2>6. page' = "left" => Approved(value', approved')
      BY <1>8, <2>2, <2>3 DEF Submit
    <2>7. page' \in {"loading", "ready", "left"}
      BY <1>0, <2>3 DEF TypeOK
    <2> QED
      BY <1>0, <1>8, <2>5, <2>6, <2>7, EventInv DEF Submit, TypeOK
  <1>9. ASSUME SubmitUnchecked PROVE IInv'
    <2>1. Approved(value', approved')
      BY <1>9 DEF SubmitUnchecked, IInv, Approved
    <2> QED
      BY <1>0, <1>9, <2>1, EventInv DEF SubmitUnchecked, TypeOK
  <1>10. ASSUME Validate PROVE IInv'
    <2>1. ValidatorInv(validator', approved')
      BY <1>0, <1>10, formInv DEF Validate
    <2> QED
      BY <1>0, <1>10, <2>1, EventInv DEF Validate, TypeOK
  <1>11. ASSUME Reset PROVE IInv'
    <2>1. ValidatorInv(validator', approved')
      BY <1>0, <1>11, onResetInv DEF Reset
    <2>2. value' \in Values
      <3>1. value' = [f \in Field |-> IF f \in present THEN Default[f] ELSE value[f]]
        BY <1>11 DEF Reset
      <3>2. \A f \in Field : Default[f] \in Input[f] /\ value[f] \in Input[f]
        BY <1>0, FormAssumption DEF Values
      <3>3. \A f \in Field : value'[f] \in Input[f]
        BY <3>1, <3>2
      <3>4. value' \in [Field -> AnyInput]
        BY <3>1, <3>2 DEF AnyInput
      <3> QED
        BY <3>3, <3>4 DEF Values
    <2> QED
      BY <1>0, <1>11, <2>1, <2>2, EventInv DEF Reset, TypeOK
  <1>12. ASSUME NEW f \in Field, NEW ok \in BOOLEAN, Answer(f, ok) PROVE IInv'
    <2>1. /\ ValidatorInv(validator', approved')
          /\ Resumed(validator, f, ok, value, validator', approved')
      BY <1>0, <1>12, AnswerInv DEF Answer
    <2>2. approved' \in [Field -> Key \cup {None}]
      <3>1. validator.request[f] \in [key : Key, orphan : BOOLEAN]
        BY <1>0, <1>12 DEF Answer, ValidatorType
      <3> QED
        BY <1>0, <1>12, <3>1 DEF Answer
    <2>3. validator' \in ValidatorType
      BY <2>1 DEF ValidatorInv
    <2>4. validator.formSubmitted \in BOOLEAN /\ validator'.formSubmitted \in BOOLEAN
      BY <1>0, <2>3 DEF ValidatorType
    <2>5. page' = "left" => Approved(value', approved')
      BY <1>12, <2>1, <2>4 DEF Answer, Resumed
    <2> QED
      BY <1>0, <1>12, <2>1, <2>2, <2>5, EventInv DEF Answer, TypeOK
  <1>13. ASSUME NEW f \in Field, Lose(f) PROVE IInv'
    <2>1. validator' = [validator EXCEPT !.request[f] = None]
      BY <1>13 DEF Lose
    <2>2. /\ validator' \in ValidatorType
          /\ validator'.invalid = validator.invalid /\ validator'.errorMap = validator.errorMap
          /\ validator'.pending = validator.pending
          /\ validator'.pendingRequest = validator.pendingRequest
          /\ validator'.previous = validator.previous
          /\ validator'.container = validator.container
          /\ validator'.request = [validator.request EXCEPT ![f] = None]
      BY <1>0, <2>1 DEF ValidatorType
    <2>3. \A g \in Field : validator'.request[g] = IF g = f THEN None ELSE validator.request[g]
      BY <1>0, <2>2 DEF ValidatorType
    <2>4. ValidatorInv(validator', approved)
      BY <1>0, <2>2, <2>3 DEF ValidatorInv, Counting, Asking, Remembering, Showing
    <2> QED
      BY <1>0, <1>13, <2>4, EventInv DEF Lose, TypeOK
  <1>14. ASSUME UNCHANGED vars PROVE IInv'
    <2>1. TypeOK'
      BY <1>0, <1>14 DEF vars, TypeOK
    <2>2. ValidatorInv(validator, approved)'
      BY <1>0, <1>14, InvPrimed DEF vars
    <2> QED
      BY <1>14, <2>1, <2>2 DEF vars, IInv, SubmittedValid, optionDataString
  <1> QED
    BY <1>1, <1>2, <1>3, <1>4, <1>5, <1>6, <1>7, <1>8, <1>9, <1>10, <1>11, <1>12, <1>13, <1>14
    DEF Next

LEMMA Inductive == Spec => []IInv
  BY InitInv, NextInv, PTL DEF Spec

-----------------------------------------------------------------------------
(***************************************************************************)
(* The theorems.                                                           *)
(***************************************************************************)

\* Page, form and validator keep their types, and only parsed fields have rules.
THEOREM TypeCorrect == Spec => []TypeOK
  <1>1. IInv => TypeOK
    BY DEF IInv
  <1> QED
    BY <1>1, Inductive, PTL

\* A form that is let through has valid fields only, and the server approved, in
\* its last answer, the very values that are submitted (the submit handler,
\* stopRequest, remote), for any fields, rules and values.
THEOREM SubmittedApproved == Spec => []SubmittedValid
  <1>1. IInv => SubmittedValid
    BY DEF IInv
  <1> QED
    BY <1>1, Inductive, PTL

\* pendingRequest counts the fields that wait for an answer (startRequest,
\* stopRequest), through aborted, lost and repeated requests and resets.
THEOREM RequestsCounted == Spec => []PendingCounted
  <1>1. IInv => PendingCounted
    BY DEF IInv, ValidatorInv, Counting, PendingCounted
  <1> QED
    BY <1>1, Inductive, PTL

\* A field shows its error as long as the validator takes it for invalid, and no
\* longer, except while the server is asked (onError, onSuccess, onReset).
THEOREM MessagesRight == Spec => []ErrorsShown
  <1>1. IInv => ErrorsShown
    BY DEF IInv, ValidatorInv, Showing, ErrorsShown
  <1> QED
    BY <1>1, Inductive, PTL

\* Only the answer to a remote check takes back that a submit waits.
LEMMA SubmitWaits ==
    ASSUME IInv, [Next]_vars, validator.formSubmitted = TRUE, validator'.formSubmitted = FALSE
    PROVE  \E f \in Field, ok \in BOOLEAN : Answer(f, ok)
  <1> USE DEF Handling
  <1>0. /\ TypeOK /\ ValidatorInv(validator, approved) /\ value \in Values
        /\ attached \subseteq Field /\ validator \in ValidatorType
    BY TypeFacts DEF IInv
  <1>1. ASSUME NEW val \in Values PROVE form(validator, val).formSubmitted = TRUE
    <2>1. Checked(validator, val, attached, form(validator, val))
      BY <1>0, formFields
    <2> QED
      BY <2>1 DEF Checked
  <1>2. ASSUME NEW val \in Values, NEW f \in Field
        PROVE  element(validator, val, f).formSubmitted = TRUE
    <2>1. Checked(validator, val, {f}, element(validator, val, f))
      BY <1>0, elementFields
    <2> QED
      BY <2>1 DEF Checked
  <1>3. validator' # validator
    OBVIOUS
  <1>4. ASSUME NEW f \in Field, NEW v \in Input[f], Type(f, v) PROVE FALSE
    <2>1. value' \in Values
      BY <1>0, <1>4, EditValues DEF Type
    <2>2. element(validator, value', f).formSubmitted = TRUE
      BY <1>2, <2>1
    <2> QED
      BY <1>3, <1>4, <2>2 DEF Type
  <1>5. ASSUME NEW f \in Field, FocusOut(f) PROVE FALSE
    BY <1>0, <1>2, <1>5 DEF FocusOut
  <1>6. ASSUME Submit PROVE FALSE
    <2> DEFINE c == form(validator, value)
    <2>1. c.formSubmitted = TRUE
      BY <1>0, <1>1
    <2>2. validator' = c \/ validator' = [c EXCEPT !.formSubmitted = TRUE]
      BY <1>6 DEF Submit
    <2>3. c \in ValidatorType
      <3>1. Checked(validator, value, attached, c)
        BY <1>0, formFields
      <3> QED
        BY <3>1 DEF Checked
    <2> HIDE DEF c
    <2>4. [c EXCEPT !.formSubmitted = TRUE].formSubmitted = TRUE
      BY <2>3, SubmittedFlag
    <2> QED
      BY <2>1, <2>2, <2>4
  <1>7. ASSUME Validate PROVE FALSE
    BY <1>0, <1>1, <1>7 DEF Validate
  <1>8. ASSUME Reset PROVE FALSE
    <2>1. onReset(validator).formSubmitted = validator.formSubmitted
      BY <1>0, onResetInv
    <2> QED
      BY <1>8, <2>1 DEF Reset
  <1>9. ASSUME NEW f \in Field, Lose(f) PROVE FALSE
    <2>1. validator' = [validator EXCEPT !.request[f] = None]
      BY <1>9 DEF Lose
    <2>2. validator'.formSubmitted = validator.formSubmitted
      BY <1>0, <2>1 DEF ValidatorType
    <2> QED
      BY <2>2
  <1> QED
    BY <1>3, <1>4, <1>5, <1>6, <1>7, <1>8, <1>9
    DEF Next, vars, DomReady, Parse, parse, ParseElement, AddField, Fill, SubmitUnchecked

\* A submit that was put off and is then given up leaves its reason on the page:
\* the summary and a field show an error (the answer's success handler, onErrors).
THEOREM RefusalsExplained == Spec => RefusalExplained
  <1>1. IInv /\ [Next]_vars =>
            [validator.formSubmitted /\ ~validator'.formSubmitted /\ page' = "ready" =>
             validator'.summary = "error" /\ \E f \in Field : validator'.container[f] = "error"]_vars
    <2> SUFFICES ASSUME IInv, [Next]_vars, validator.formSubmitted, ~validator'.formSubmitted,
                        page' = "ready"
                 PROVE  /\ validator'.summary = "error"
                        /\ \E f \in Field : validator'.container[f] = "error"
      OBVIOUS
    <2>1. IInv' /\ validator \in ValidatorType /\ validator' \in ValidatorType
      BY NextInv DEF IInv, TypeOK
    <2>2. validator.formSubmitted = TRUE /\ validator'.formSubmitted = FALSE
      BY <2>1 DEF ValidatorType
    <2>3. PICK f \in Field, ok \in BOOLEAN : Answer(f, ok)
      BY <2>2, SubmitWaits
    <2>4. /\ ValidatorInv(validator, approved) /\ value \in Values /\ attached \subseteq Field
          /\ approved \in [Field -> Key \cup {None}]
      BY TypeFacts DEF IInv, TypeOK
    <2>5. Resumed(validator, f, ok, value, validator', approved')
      BY <2>3, <2>4, AnswerInv DEF Answer
    <2>6. ~ok
      BY <2>2, <2>3 DEF Answer
    <2> QED
      BY <2>2, <2>5, <2>6 DEF Resumed
  <1> QED
    BY <1>1, Inductive, PTL DEF Spec, RefusalExplained
=============================================================================
