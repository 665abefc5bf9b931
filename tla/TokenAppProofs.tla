--------------------------- MODULE TokenAppProofs ---------------------------
(***************************************************************************)
(* Safety of the token application, for any number of requests and tokens. *)
(***************************************************************************)
EXTENDS TokenApp, TLAPS

\* What was granted came with the promise, after the request; a response follows
\* from how the promise settled; and while a handler has the thread, the shared
\* token is the one of its own call.
Settled ==
    /\ \A c \in Callers : call[c] = "resolved" <=> granted[c] # None
    /\ \A r \in Requests :
          /\ asked[r] <= issued
          /\ granted[r] # None => asked[r] <= granted[r]
          /\ reply[r] # None => call[r] \in {"resolved", "rejected"}
          /\ reply[r] \in Token => reply[r] = granted[r]
          /\ r \in running => call[r] = "resolved" /\ tokenObj = granted[r]

IInv == TypeOK /\ Settled /\ ErrorsJustified

LEMMA InitIInv == Init => IInv
<1> SUFFICES ASSUME Init PROVE IInv
  OBVIOUS
<1> USE TokenAssumption DEF Init
<1>1. TypeOK
  BY DEF TypeOK, Callers, Token
<1>2. Settled
  <2>1. \A c \in Callers : call[c] # "resolved" /\ granted[c] = None
    OBVIOUS
  <2>2. \A r \in Requests : asked[r] = 0 /\ reply[r] = None /\ r \notin running
    OBVIOUS
  <2>3. None \notin Token
    BY DEF Token
  <2>4. issued = 0 /\ 0 <= 0
    OBVIOUS
  <2> HIDE DEF Init
  <2> QED BY <2>1, <2>2, <2>3, <2>4 DEF Settled, Callers
<1>3. ErrorsJustified
  BY DEF ErrorsJustified
<1> QED BY <1>1, <1>2, <1>3 DEF IInv

\* A promise settles with a token at least as new as every request's start.
LEMMA SettleIInv ==
    ASSUME IInv, NEW c \in Callers, Settle(c)
    PROVE  IInv'
<1> USE TokenAssumption DEF IInv, Callers
<1>1. CASE Resolve(c)
  <2>1. PICK t \in {issued, issued + 1} :
            /\ t \in Token
            /\ granted' = [granted EXCEPT ![c] = t]
            /\ issued' = t
    BY <1>1 DEF Resolve
  <2>2. /\ t \in Nat /\ t >= issued /\ t # None
        /\ call' = [call EXCEPT ![c] = "resolved"]
        /\ UNCHANGED <<process, tokenObj, running, reply, asked>>
        /\ call[c] = "pending"
    BY <1>1, <2>1 DEF Resolve, Token, TypeOK
  <2>3. TypeOK'
    BY <2>1, <2>2 DEF TypeOK, Token
  <2>4. Settled'
    BY <2>1, <2>2 DEF TypeOK, Settled, Token
  <2>5. ErrorsJustified'
    BY <2>2 DEF TypeOK, Settled, ErrorsJustified
  <2> QED BY <2>3, <2>4, <2>5
<1>2. CASE Reject(c)
  <2>1. TypeOK'
    BY <1>2 DEF Reject, TypeOK
  <2>2. Settled'
    BY <1>2 DEF Reject, TypeOK, Settled, Token
  <2>3. ErrorsJustified'
    BY <1>2 DEF Reject, TypeOK, Settled, ErrorsJustified
  <2> QED BY <2>1, <2>2, <2>3
<1> QED BY <1>1, <1>2 DEF Settle

\* The start-up assigns the token before the process listens.
LEMMA StartIInv ==
    ASSUME IInv, Start
    PROVE  IInv'
<1> USE TokenAssumption DEF IInv, Callers
<1>1. CASE Listen
  BY <1>1 DEF Listen, Idle, TypeOK, Settled, ErrorsJustified, Token
<1>2. CASE StartupFails
  BY <1>2 DEF StartupFails, TypeOK, Settled, ErrorsJustified, Token
<1> QED BY <1>1, <1>2 DEF Start

\* A listening process has a token, so that the handler reaches its await.
LEMMA GetIInv ==
    ASSUME IInv, NEW r \in Requests, Get(r)
    PROVE  IInv'
<1> USE TokenAssumption DEF IInv, Callers
<1>1. /\ tokenObj # None
      /\ call[r] = "none"
      /\ call' = [call EXCEPT ![r] = "pending"]
      /\ asked' = [asked EXCEPT ![r] = issued]
      /\ UNCHANGED <<reply, process, tokenObj, granted, running, issued>>
  BY DEF Get, Accepts, TypeOK
<1>2. TypeOK'
  BY <1>1 DEF TypeOK
<1>3. Settled'
  BY <1>1 DEF TypeOK, Settled, Token
<1>4. ErrorsJustified'
  BY <1>1 DEF TypeOK, Settled, ErrorsJustified
<1> QED BY <1>2, <1>3, <1>4

\* Behind its await the handler finds no other that has the thread, so that the
\* token it assigns is the one it reads again.
LEMMA HandlerIInv ==
    ASSUME IInv, NEW r \in Requests, Handler(r)
    PROVE  IInv'
<1> USE TokenAssumption DEF IInv, Callers
<1>1. CASE Assign(r)
  <2>1. granted[r] \in Token /\ running = {} /\ running' = {r}
    BY <1>1 DEF Assign, Idle, TypeOK, Settled
  <2>2. TypeOK'
    BY <1>1, <2>1 DEF Assign, TypeOK, Token
  <2>3. Settled'
    BY <1>1, <2>1 DEF Assign, TypeOK, Settled
  <2>4. ErrorsJustified'
    BY <1>1 DEF Assign, ErrorsJustified
  <2> QED BY <2>2, <2>3, <2>4
<1>2. CASE Send(r)
  <2>1. /\ tokenObj = granted[r] /\ call[r] = "resolved"
        /\ granted[r] \in Token /\ granted[r] \in Nat /\ granted[r] # Error
    BY <1>2 DEF Send, TypeOK, Settled, Token
  <2>2. TypeOK'
    BY <1>2, <2>1 DEF Send, TypeOK
  <2>3. Settled'
    BY <1>2, <2>1 DEF Send, TypeOK, Settled, Token
  <2>4. ErrorsJustified'
    BY <1>2, <2>1 DEF Send, TypeOK, ErrorsJustified
  <2> QED BY <2>2, <2>3, <2>4
<1>3. CASE Catch(r)
  <2>1. TypeOK'
    BY <1>3 DEF Catch, TypeOK
  <2>2. Settled'
    BY <1>3 DEF Catch, TypeOK, Settled, Token
  <2>3. ErrorsJustified'
    BY <1>3 DEF Catch, TypeOK, ErrorsJustified
  <2> QED BY <2>1, <2>2, <2>3
<1> QED BY <1>1, <1>2, <1>3 DEF Handler

LEMMA NextIInv ==
    ASSUME IInv, [Next]_vars
    PROVE  IInv'
<1>1. CASE Next
  BY <1>1, SettleIInv, StartIInv, GetIInv, HandlerIInv DEF Next
<1>2. CASE UNCHANGED vars
  BY <1>2 DEF vars, IInv, TypeOK, Settled, ErrorsJustified
<1> QED BY <1>1, <1>2

\* The inductive invariant holds throughout.
THEOREM Invariance == Spec => []IInv
<1>1. Init => IInv BY InitIInv
<1>2. IInv /\ [Next]_vars => IInv' BY NextIInv
<1> QED BY <1>1, <1>2, PTL DEF Spec

\* Types, and that a process that listens has a token (the start-up function).
THEOREM TypeCorrect == Spec => []TypeOK
<1>1. IInv => TypeOK BY DEF IInv
<1> QED BY <1>1, Invariance, PTL

\* A response, read from the shared tokenObj, shows the token of its own getToken
\* call, and none older than the newest one when the request came in (the
\* handler of GET /).
THEOREM OwnTokenShown == Spec => []OwnToken
<1>1. IInv => OwnToken
  BY TokenAssumption DEF IInv, TypeOK, Settled, OwnToken, Token, Callers
<1> QED BY <1>1, Invariance, PTL

\* Status 500 only where the credential refused a token: the handler never
\* finds tokenObj undefined (app.listen after the first token).
THEOREM ErrorsAreJustified == Spec => []ErrorsJustified
<1>1. IInv => ErrorsJustified BY DEF IInv
<1> QED BY <1>1, Invariance, PTL
=============================================================================
