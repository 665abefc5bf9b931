----------------------------- MODULE Unobtrusive -----------------------------
(***************************************************************************)
(* A form under jquery.validate.unobtrusive.js: its fields are parsed, the *)
(* rules they get are attached to a validator of jQuery Validate, and      *)
(* the validator checks the fields as they are edited and the form as it   *)
(* is submitted.  A remote rule asks the server, and the answer comes      *)
(* while the user goes on editing, submits or resets the form.             *)
(*                                                                         *)
(* The scripts are single threaded: an event handler is one step.  What    *)
(* the rules of a field are, the module Adapters says; here it is known    *)
(* which values they let pass and whether the server is asked.             *)
(***************************************************************************)
EXTENDS Naturals, FiniteSets

CONSTANTS
    None,       \* null
    Empty,      \* the empty string
    Field,      \* the fields of the form
    Input,      \* the values the user gives to each field
    Default,    \* the value of each field before that, and after a reset
    Passing,    \* the values of each field that its local rules let pass
    Remote,     \* the fields with a remote rule
    Sent        \* the fields whose values the remote check of a field sends

ASSUME FormAssumption ==
    /\ IsFiniteSet(Field)
    /\ Remote \subseteq Field
    /\ Default \in [Field -> UNION {Input[f] : f \in Field}]
    /\ \A f \in Field :
          /\ Default[f] \in Input[f]
          /\ Passing[f] \subseteq Input[f]
          /\ f \in Sent[f] /\ Sent[f] \subseteq Field

VARIABLES
    page,       \* "loading", "ready" (the DOM), or "left" by a submit
    present,    \* fields that are in the form
    parsed,     \* fields with an entry in options.rules
    created,    \* the form has a validator
    attached,   \* fields with an entry in the validator's settings.rules
    value,      \* the value of each field
    validator,  \* the state of the validator and of the messages it controls
    approved    \* the values of each field that the server's last answer approved

vars == <<page, present, parsed, created, attached, value, validator, approved>>

-----------------------------------------------------------------------------
\* The values that a remote check of f sends.
optionDataString(val, f) == [g \in Sent[f] |-> val[g]]

AnyInput == UNION {Input[f] : f \in Field}

Key == UNION {[Sent[f] -> AnyInput] : f \in Field}

\* null is not what a remote check sends.
ASSUME NoneAssumption == None \notin Key

\* previousValue of a field that was not checked remotely.
NoPrevious == [old |-> None, valid |-> TRUE]

\* init
NewValidator ==
    [invalid        |-> [f \in Field |-> "absent"],   \* this.invalid
     submitted      |-> {},                           \* this.submitted
     errorMap       |-> {},                           \* this.errorMap
     pending        |-> {},                           \* this.pending
     pendingRequest |-> 0,                            \* this.pendingRequest
     formSubmitted  |-> FALSE,                        \* this.formSubmitted
     previous       |-> [f \in Field |-> NoPrevious], \* the fields' previousValue
     request        |-> [f \in Field |-> None],       \* pendingRequests[port]
     container      |-> [f \in Field |-> "valid"],    \* data-valmsg-for
     summary        |-> "valid"]                      \* data-valmsg-summary

ValidatorType ==
    [invalid        : [Field -> {"absent", "false", "true"}],
     submitted      : SUBSET Field,
     errorMap       : SUBSET Field,
     pending        : SUBSET Remote,
     pendingRequest : Nat,
     formSubmitted  : BOOLEAN,
     previous       : [Field -> [old : Key \cup {None}, valid : BOOLEAN]],
     request        : [Field -> [key : Key, orphan : BOOLEAN] \cup {None}],
     container      : [Field -> {"valid", "error"}],
     summary        : {"valid", "error"}]

-----------------------------------------------------------------------------
(***************************************************************************)
(* check: the local rules first, remote last.                              *)
(***************************************************************************)
check(s, val, f) ==
    CASE f \notin attached -> "valid"
      [] f \in attached /\ val[f] \notin Passing[f] -> "invalid"
      [] f \in attached /\ val[f] \in Passing[f] ->
            IF f \notin Remote \/ val[f] = Empty THEN "valid"
            ELSE IF s.previous[f].old # optionDataString(val, f) THEN "pending"
            ELSE IF s.previous[f].valid THEN "valid" ELSE "invalid"

\* Mutant of startRequest: every request is counted.
startRequestAlways(s, val, asks) ==
    [s EXCEPT !.pendingRequest = @ + Cardinality(asks),
              !.pending = @ \cup asks,
              !.previous = [f \in Field |->
                  IF f \in asks THEN [@[f] EXCEPT !.old = optionDataString(val, f)] ELSE @[f]],
              !.request = [f \in Field |->
                  IF f \in asks THEN [key |-> optionDataString(val, f), orphan |-> FALSE] ELSE @[f]]]

\* The requests of a check, and startRequest, which counts a field once.  The
\* request that was on its way for the same field is aborted.
startRequest(s, val, asks) ==
    [s EXCEPT !.pendingRequest = @ + Cardinality(asks \ s.pending),
              !.pending = @ \cup asks,
              !.previous = [f \in Field |->
                  IF f \in asks THEN [@[f] EXCEPT !.old = optionDataString(val, f)] ELSE @[f]],
              !.request = [f \in Field |->
                  IF f \in asks THEN [key |-> optionDataString(val, f), orphan |-> FALSE] ELSE @[f]]]

\* onError, for every field of errors.
onError(s, errors) ==
    [s EXCEPT !.container = [f \in Field |-> IF f \in errors THEN "error" ELSE @[f]]]

\* Mutant of onSuccess: the message of a field that has become valid stays.
onSuccessNot(s, successes) == s

\* onSuccess, for every field of successes.
onSuccess(s, successes) ==
    [s EXCEPT !.container = [f \in Field |-> IF f \in successes THEN "valid" ELSE @[f]]]

\* The handlers that validationInfo gives to the validator, as showErrors calls
\* them.
showErrors(s, errors, successes) == onSuccess(onError(s, errors), successes)

\* What form and element share: prepare, check the fields in S, show the errors.
checkAll(s, val, S) ==
    LET errors    == {f \in S : check(s, val, f) = "invalid"}
        successes == {f \in S : check(s, val, f) = "valid"}
        asked     == startRequest(s, val, S \ (errors \cup successes))
    IN  [showErrors(asked, errors, successes)
            EXCEPT !.errorMap = errors, !.submitted = @ \cup errors]

\* valid
isValid(s) == s.errorMap = {}

\* Mutant of onErrors: the list is not found.
onErrorsUnlisted(s) == s

\* onErrors, the handler of invalid-form
onErrors(s) == IF s.errorMap = {} THEN s ELSE [s EXCEPT !.summary = "error"]

form(s, val) ==
    LET c == checkAll(s, val, attached)
    IN  onErrors([c EXCEPT !.invalid = [f \in Field |-> IF f \in c.errorMap THEN "true" ELSE "absent"]])

element(s, val, f) ==
    LET c == checkAll(s, val, {f})
    IN  [c EXCEPT !.invalid[f] = IF f \in c.errorMap THEN "true" ELSE "false"]

\* success, up to stopRequest: the answer to the remote check of f.
success(s, f, ok) ==
    LET told == IF s.request[f].orphan THEN s ELSE [s EXCEPT !.previous[f].valid = ok]
        errs == IF ok THEN {} ELSE s.errorMap \cup {f}
    IN  [showErrors(told, errs, IF ok THEN {f} ELSE {})
            EXCEPT !.errorMap = errs,
                   !.invalid[f] = IF ok THEN "false" ELSE "true",
                   !.request[f] = None]

\* Mutant of stopRequest: the form is submitted without another look at it.
stopRequestBlindly(s, val, f, ok) ==
    LET p == [s EXCEPT !.pendingRequest = IF @ > 0 THEN @ - 1 ELSE 0, !.pending = @ \ {f}]
    IN  IF p.pendingRequest > 0 \/ ~p.formSubmitted THEN p
        ELSE IF ok THEN [p EXCEPT !.formSubmitted = FALSE]
        ELSE [onErrors(p) EXCEPT !.formSubmitted = FALSE]

\* stopRequest: with the last answer a submit that was put off is taken up again.
\* A form that is then found invalid, or asks anew, leaves formSubmitted set.
stopRequest(s, val, f, ok) ==
    LET p == [s EXCEPT !.pendingRequest = IF @ > 0 THEN @ - 1 ELSE 0, !.pending = @ \ {f}]
        c == form(p, val)
    IN  IF p.pendingRequest > 0 \/ ~p.formSubmitted THEN p
        ELSE IF ok THEN
            IF isValid(c) /\ c.pendingRequest = 0
            THEN [form(c, val) EXCEPT !.formSubmitted = FALSE]
            ELSE c
        ELSE [onErrors(p) EXCEPT !.formSubmitted = FALSE]

-----------------------------------------------------------------------------
Init ==
    /\ page = "loading"
    /\ present \in SUBSET Field
    /\ parsed = {}
    /\ created = FALSE
    /\ attached = {}
    /\ value = Default
    /\ validator = NewValidator
    /\ approved = [f \in Field |-> None]

\* Mutant of attachValidation: every field of the form gets its rules.
attachPresent(S) ==
    /\ created' = TRUE
    /\ attached' = IF created THEN attached ELSE present

\* attachValidation with the rules of the fields in S: validate() copies the
\* options into a new validator, and leaves the validator of a form that has one
\* as it is.
attachValidation(S) ==
    /\ created' = TRUE
    /\ attached' = IF created THEN attached ELSE S

\* parse(document), or of any part with the form: attaches if there is a field.
parse ==
    /\ parsed' = parsed \cup present
    /\ IF present = {} THEN UNCHANGED <<created, attached>> ELSE attachValidation(parsed')
    /\ UNCHANGED <<present, value, validator, approved>>

\* $(function () { parse(document) })
DomReady ==
    /\ page = "loading"
    /\ page' = "ready"
    /\ parse

\* A script of the page parses again, for fields it has added.
Parse ==
    /\ page = "ready"
    /\ parse
    /\ UNCHANGED page

ParseElement(f, skipAttach) ==
    /\ page = "ready"
    /\ f \in present
    /\ parsed' = parsed \cup {f}
    /\ IF skipAttach THEN UNCHANGED <<created, attached>> ELSE attachValidation(parsed')
    /\ UNCHANGED <<page, present, value, validator, approved>>

\* A script of the page adds a field.
AddField(f) ==
    /\ page = "ready"
    /\ f \in Field \ present
    /\ present' = present \cup {f}
    /\ UNCHANGED <<page, parsed, created, attached, value, validator, approved>>

\* A value that no key event tells of: pasted or filled in.
Fill(f, v) ==
    /\ page # "left"
    /\ f \in present
    /\ v # value[f]
    /\ value' = [value EXCEPT ![f] = v]
    /\ UNCHANGED <<page, present, parsed, created, attached, validator, approved>>

\* The form's handlers run once it has a validator.
Handling == page = "ready" /\ created

\* onkeyup
Type(f, v) ==
    /\ Handling
    /\ f \in present
    /\ v # value[f]
    /\ value' = [value EXCEPT ![f] = v]
    /\ validator' = IF f \in validator.submitted \/ validator.invalid[f] # "absent"
                    THEN element(validator, value', f) ELSE validator
    /\ UNCHANGED <<page, present, parsed, created, attached, approved>>

\* onfocusout
FocusOut(f) ==
    /\ Handling
    /\ f \in present
    /\ f \in validator.submitted \/ value[f] # Empty
    /\ validator' = element(validator, value, f)
    /\ UNCHANGED <<page, present, parsed, created, attached, value, approved>>

\* The submit handler: refused, put off until the pending answers are there, or
\* let through.
Submit ==
    /\ Handling
    /\ LET c == form(validator, value)
       IN  \/ /\ ~isValid(c)
              /\ validator' = c
              /\ UNCHANGED page
           \/ /\ isValid(c) /\ c.pendingRequest > 0
              /\ validator' = [c EXCEPT !.formSubmitted = TRUE]
              /\ UNCHANGED page
           \/ /\ isValid(c) /\ c.pendingRequest = 0
              /\ validator' = c
              /\ page' = "left"
    /\ UNCHANGED <<present, parsed, created, attached, value, approved>>

\* The submit of a form that has no validator yet.
SubmitUnchecked ==
    /\ page # "left"
    /\ ~created
    /\ page' = "left"
    /\ UNCHANGED <<present, parsed, created, attached, value, validator, approved>>

\* validate of the form's validationInfo, called by unobtrusive Ajax.  A form
\* whose fields were parsed and not attached gets a validator without rules.
Validate ==
    /\ page = "ready"
    /\ parsed # {}
    /\ created' = TRUE
    /\ validator' = form(validator, value)
    /\ UNCHANGED <<page, present, parsed, attached, value, approved>>

\* onReset and resetForm.  A request that is on its way is not aborted, and its
\* answer no longer belongs to the field's previousValue; pending, pendingRequest
\* and formSubmitted stay.
onReset(s) ==
    [s EXCEPT !.invalid = NewValidator.invalid,
              !.submitted = {},
              !.errorMap = {},
              !.previous = [f \in Field |-> IF f \in attached THEN NoPrevious ELSE @[f]],
              !.request = [f \in Field |-> IF @[f] = None THEN None ELSE [@[f] EXCEPT !.orphan = TRUE]],
              !.container = [f \in Field |-> "valid"],
              !.summary = "valid"]

\* The reset event, and then the reset itself.
Reset ==
    /\ page # "left"
    /\ validator' = IF created THEN onReset(validator) ELSE validator
    /\ value' = [f \in Field |-> IF f \in present THEN Default[f] ELSE value[f]]
    /\ UNCHANGED <<page, present, parsed, created, attached, approved>>

\* The server answers the remote check of f.
Answer(f, ok) ==
    /\ page = "ready"
    /\ validator.request[f] # None
    /\ validator' = stopRequest(success(validator, f, ok), value, f, ok)
    /\ approved' = [approved EXCEPT ![f] = IF ok THEN validator.request[f].key ELSE None]
    /\ page' = IF ok /\ validator.formSubmitted /\ ~validator'.formSubmitted THEN "left" ELSE page
    /\ UNCHANGED <<present, parsed, created, attached, value>>

\* The request for the remote check of f fails: $.ajax has no error handler.
Lose(f) ==
    /\ page = "ready"
    /\ validator.request[f] # None
    /\ validator' = [validator EXCEPT !.request[f] = None]
    /\ UNCHANGED <<page, present, parsed, created, attached, value, approved>>

Next ==
    \/ DomReady
    \/ Parse
    \/ \E f \in Field, skipAttach \in BOOLEAN : ParseElement(f, skipAttach)
    \/ \E f \in Field : AddField(f)
    \/ \E f \in Field : \E v \in Input[f] : Fill(f, v)
    \/ \E f \in Field : \E v \in Input[f] : Type(f, v)
    \/ \E f \in Field : FocusOut(f)
    \/ Submit
    \/ SubmitUnchecked
    \/ Validate
    \/ Reset
    \/ \E f \in Field, ok \in BOOLEAN : Answer(f, ok)
    \/ \E f \in Field : Lose(f)

Spec == Init /\ [][Next]_vars

-----------------------------------------------------------------------------
\* Every variable has its type, and only parsed fields are attached.
TypeOK ==
    /\ page \in {"loading", "ready", "left"}
    /\ present \subseteq Field
    /\ parsed \subseteq present
    /\ created \in BOOLEAN
    /\ attached \subseteq parsed
    /\ value \in [Field -> AnyInput]
    /\ \A f \in Field : value[f] \in Input[f]
    /\ validator \in ValidatorType
    /\ approved \in [Field -> Key \cup {None}]

\* A form that was let through had valid fields only, and the server said so, in
\* its last answer, of the very values that were submitted, additional fields
\* included: no answer that came late, to an older value or across a reset, and
\* no remembered one, stands in for it (the submit handler, stopRequest, remote).
SubmittedValid ==
    page = "left" =>
        \A f \in attached :
            /\ value[f] \in Passing[f]
            /\ f \in Remote /\ value[f] # Empty =>
                  approved[f] = optionDataString(value, f)

\* pendingRequest, which holds a submit back, counts the fields that wait for an
\* answer, through aborted, lost and repeated requests and resets (startRequest,
\* stopRequest): the repair for a count below zero is never needed.
PendingCounted ==
    /\ validator.pendingRequest = Cardinality(validator.pending)
    /\ \A f \in Field : validator.request[f] # None => f \in validator.pending

\* A field shows its error as long as the validator takes it for invalid, and
\* no longer, except while the server is asked (onError, onSuccess, onReset).
ErrorsShown ==
    \A f \in Field :
        /\ validator.invalid[f] = "true" => validator.container[f] = "error"
        /\ validator.container[f] = "error" => validator.invalid[f] = "true" \/ f \in validator.pending

\* A submit that was put off and is then given up leaves its reason on the page:
\* the summary and a field show an error (the answer's success handler, onErrors).
RefusalExplained ==
    [][validator.formSubmitted /\ ~validator'.formSubmitted /\ page' = "ready" =>
        validator'.summary = "error" /\ \E f \in Field : validator'.container[f] = "error"]_vars

\* What the doc of parse says: it enables validation of all the elements it finds,
\* according to their attributes.
ParseEnables == [][Parse => present \subseteq attached']_vars
=============================================================================
