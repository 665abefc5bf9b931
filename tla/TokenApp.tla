------------------------------ MODULE TokenApp ------------------------------
(***************************************************************************)
(* The Express application Nodejs/Azure-AAD-MI/app.js: a token of the      *)
(* managed identity is fetched at start-up and again for every GET of '/', *)
(* and kept in app.locals.tokenObj, which all requests share.              *)
(*                                                                         *)
(* Node runs one callback at a time, from one await to the next.  Behind   *)
(* its await the handler writes tokenObj and then reads it again for the   *)
(* message: two steps, between which only the thread keeps others out.     *)
(* The credential is external: getToken settles in its own time,           *)
(* calls overtake each other, and a call is answered with the newest token *)
(* (its cache) or with one issued for it.  Tokens are numbered in the      *)
(* order of their issue.  The test for an expired token has an empty body, *)
(* but it reads tokenObj.expiresOnTimestamp and throws if there is none.   *)
(***************************************************************************)
EXTENDS Naturals

CONSTANTS
    Requests,       \* GET requests for '/'
    Startup,        \* the call of getToken that precedes app.listen
    None,           \* undefined
    Error,          \* the response of status 500
    MaxTokens       \* bound: how many tokens are issued

ASSUME TokenAssumption ==
    /\ Startup \notin Requests
    /\ MaxTokens \in Nat \ {0}
    /\ None \notin Nat
    /\ Error \notin Nat \cup {None}

Callers == Requests \cup {Startup}

Token == 1 .. MaxTokens

VARIABLES
    process,        \* the Node process
    tokenObj,       \* app.locals.tokenObj
    call,           \* call[c]: the promise of c's getToken
    granted,        \* granted[c]: the token that promise was resolved with
    running,        \* the handlers that have the thread behind their await
    reply,          \* reply[r]: what the response to r shows: a token, or an error
    issued,         \* the newest token
    asked           \* history: the newest token when the request came in

vars == <<process, tokenObj, call, granted, running, reply, issued, asked>>

\* Types.  A process that listens has a token.
TypeOK ==
    /\ process \in {"starting", "listening", "dead"}
    /\ tokenObj \in Token \cup {None}
    /\ call \in [Callers -> {"none", "pending", "resolved", "rejected"}]
    /\ granted \in [Callers -> Token \cup {None}]
    /\ running \subseteq Requests
    /\ reply \in [Requests -> Token \cup {None, Error}]
    /\ issued \in 0 .. MaxTokens
    /\ asked \in [Requests -> 0 .. MaxTokens]
    /\ process = "listening" => tokenObj # None

Init ==
    /\ process = "starting"
    /\ tokenObj = None
    /\ call = [c \in Callers |-> IF c = Startup THEN "pending" ELSE "none"]
    /\ granted = [c \in Callers |-> None]
    /\ running = {}
    /\ reply = [r \in Requests |-> None]
    /\ issued = 0
    /\ asked = [r \in Requests |-> 0]

-----------------------------------------------------------------------------
\* The credential resolves a promise of getToken, with its newest token or with
\* a new one.
Resolve(c) ==
    /\ call[c] = "pending"
    /\ \E t \in {issued, issued + 1} :
          /\ t \in Token
          /\ granted' = [granted EXCEPT ![c] = t]
          /\ issued' = t
    /\ call' = [call EXCEPT ![c] = "resolved"]
    /\ UNCHANGED <<process, tokenObj, running, reply, asked>>

\* The credential rejects it: no identity, no network.
Reject(c) ==
    /\ call[c] = "pending"
    /\ call' = [call EXCEPT ![c] = "rejected"]
    /\ UNCHANGED <<process, tokenObj, granted, running, reply, issued, asked>>

-----------------------------------------------------------------------------
\* Mutant of Idle: the handler gives the thread away before it builds the
\* message, as with an await for the logger there.
IdleWhileHandling == TRUE

\* Node takes up the next callback when the one before has returned or has
\* come to an await.
Idle == running = {}

\* Mutant of Listen: the token is not kept.
ListenWithout ==
    /\ Idle
    /\ process = "starting"
    /\ call[Startup] = "resolved"
    /\ process' = "listening"
    /\ UNCHANGED <<tokenObj, call, granted, running, reply, issued, asked>>

\* The start-up function behind its await: keep the token and listen.
Listen ==
    /\ Idle
    /\ process = "starting"
    /\ call[Startup] = "resolved"
    /\ tokenObj' = granted[Startup]
    /\ process' = "listening"
    /\ UNCHANGED <<call, granted, running, reply, issued, asked>>

\* Nothing catches the rejection: the process ends without having listened.
StartupFails ==
    /\ Idle
    /\ process = "starting"
    /\ call[Startup] = "rejected"
    /\ process' = "dead"
    /\ UNCHANGED <<tokenObj, call, granted, running, reply, issued, asked>>

\* Mutant of Accepts: the server listens while the first token is fetched.
AcceptsEarly == process # "dead"

\* Requests reach the handler.
Accepts == process = "listening"

\* The handler up to its await.  Without a tokenObj it reads a property of
\* undefined: TypeError, caught, status 500.
Get(r) ==
    /\ Idle
    /\ Accepts
    /\ call[r] = "none"
    /\ reply[r] = None
    /\ IF tokenObj = None
       THEN /\ reply' = [reply EXCEPT ![r] = Error]
            /\ UNCHANGED <<call, asked>>
       ELSE /\ call' = [call EXCEPT ![r] = "pending"]
            /\ asked' = [asked EXCEPT ![r] = issued]
            /\ reply' = reply
    /\ UNCHANGED <<process, tokenObj, granted, running, issued>>

\* The handler behind its await: the token of its own call becomes the shared
\* one.
Assign(r) ==
    /\ Idle
    /\ call[r] = "resolved"
    /\ reply[r] = None
    /\ tokenObj' = granted[r]
    /\ running' = running \cup {r}
    /\ UNCHANGED <<process, call, granted, reply, issued, asked>>

\* The message is built from the shared token and sent.
Send(r) ==
    /\ r \in running
    /\ reply' = [reply EXCEPT ![r] = tokenObj]
    /\ running' = running \ {r}
    /\ UNCHANGED <<process, tokenObj, call, granted, issued, asked>>

\* Mutant of Catch: no handler for the rejection.
CatchNot(r) == FALSE /\ UNCHANGED vars

\* catch (err): status 500, and tokenObj stays what it was.
Catch(r) ==
    /\ Idle
    /\ call[r] = "rejected"
    /\ reply[r] = None
    /\ reply' = [reply EXCEPT ![r] = Error]
    /\ UNCHANGED <<process, tokenObj, call, granted, running, issued, asked>>

-----------------------------------------------------------------------------
Settle(c) == Resolve(c) \/ Reject(c)

Start == Listen \/ StartupFails

Handler(r) == Assign(r) \/ Send(r) \/ Catch(r)

Next ==
    \/ \E c \in Callers : Settle(c)
    \/ Start
    \/ \E r \in Requests : Get(r) \/ Handler(r)

\* A call of getToken settles (the credential gives up after its retries), and
\* Node runs the callbacks that are due.
Fairness ==
    /\ \A c \in Callers : WF_vars(Settle(c))
    /\ WF_vars(Start)
    /\ \A r \in Requests : WF_vars(Handler(r))

Spec == Init /\ [][Next]_vars /\ Fairness

-----------------------------------------------------------------------------
(***************************************************************************)
(* Properties.                                                             *)
(***************************************************************************)

\* A response shows the token its own getToken call returned, although it is
\* read from tokenObj, which every request assigns in the order in which the
\* promises happen to settle; so it is never older than the newest token at the
\* time the request came in.
OwnToken ==
    \A r \in Requests :
        reply[r] \in Token => reply[r] = granted[r] /\ reply[r] >= asked[r]

\* A request is answered with status 500 only if the credential refused it a
\* token: app.listen comes after the first token, so that the handler never
\* finds tokenObj undefined.
ErrorsJustified ==
    \A r \in Requests : reply[r] = Error => call[r] = "rejected"

\* Every request is answered, with a token or with an error, and the start-up
\* ends in a listening process or in none.
Answered ==
    /\ process = "starting" ~> process \in {"listening", "dead"}
    /\ \A r \in Requests : call[r] # "none" ~> reply[r] # None
=============================================================================
