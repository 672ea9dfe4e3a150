--------------------------- MODULE AuthSessions ---------------------------
(***************************************************************************)
(* A user signing up, signing in, resetting the password and using         *)
(* kushim-app in one browser tab, against AuthService.                     *)
(*                                                                         *)
(* kushim-app keeps the pair in localStorage, mirrors the access token in  *)
(* the auth store and refreshes after a 401 through the session gate: one  *)
(* promise for all callers, and a generation that tells a late answer that *)
(* its session is over.  A page load starts a new JavaScript runtime; what *)
(* was in flight goes on at the service with nobody listening.             *)
(*                                                                         *)
(* JavaScript runs to the next await, so an action is all that happens     *)
(* between an answer (or a click) and the next await, the continuations of *)
(* the callers that shared a promise included.                             *)
(***************************************************************************)
EXTENDS AuthService, FiniteSets

CONSTANTS
    Readers,       \* business requests of kushim-app
    Validation,    \* the call of validateSession
    MaxGeneration  \* bound: generations of one page load

Callers == Readers \cup {Validation}

ASSUME AuthSessionsAssumptions ==
    /\ Validation \notin Readers
    /\ MaxGeneration \in Nat \ {0}

VARIABLES
    page,     \* where the tab is
    front,    \* the pair of the last sign-in, on the pages of the auth front
    shown,    \* the recovery phrase shown last
    resets,   \* resets sent
    storage,  \* the pair in localStorage of kushim-app
    session,  \* the sign-in whose tokens the app accepted last, if not cleared
    store,    \* auth store: token and sessionStatus
    gate,     \* session gate: generation and inflightRefresh
    callers

frontVars == <<page, front, shown, resets>>
appVars   == <<storage, session, store, gate, callers>>
vars      == <<serviceVars, frontVars, appVars>>

Resting  == [at |-> "idle", pair |-> None, fresh |-> FALSE, generation |-> 0,
             call |-> None]
NoStore  == [token |-> None, status |-> "none"]
NewGate  == [generation |-> 0, inflight |-> None]
AllRest  == [c \in Callers |-> Resting]

PairOrNone   == Pairs \cup {None}
SecretOrNone == Secrets \cup {None}

Call ==
    [kind: {"none", "refresh", "logout", "exchange", "setup", "reset"},
     pair: PairOrNone, given: SecretOrNone, chosen: SecretOrNone,
     at: {"idle", "sent", "checked", "revoked", "stored", "answered"},
     answer: Pairs \cup {None, Done, Refused}, heard: BOOLEAN,
     generation: 0 .. MaxGeneration, late: BOOLEAN]

Caller ==
    [at: {"idle", "asked", "joined", "retried"}, pair: PairOrNone, fresh: BOOLEAN,
     generation: 0 .. MaxGeneration, call: Calls \cup {None}]

ServiceTypeOK ==
    /\ account \in {None} \cup Accounts
    /\ budget \in Budgets /\ issued \in 0 .. MaxPairs
    /\ parent \in [Pairs -> PairOrNone] /\ login \in [Pairs -> PairOrNone]
    /\ revoked \subseteq Pairs /\ expired \subseteq Pairs /\ codes \subseteq Pairs
    /\ calls \in [Calls -> Call]

BrowserTypeOK ==
    /\ page \in {"away", "app", "handoff", "signed", "phrase", "reset"}
    /\ front \in PairOrNone /\ shown \in SecretOrNone /\ resets \in 0 .. MaxResets
    /\ storage \in PairOrNone /\ session \in PairOrNone
    /\ store \in [token: PairOrNone, status: {"none", "idle", "validating", "authenticated",
                                              "unauthenticated"}]
    /\ gate \in [generation: 0 .. MaxGeneration, inflight: Calls \cup {None}]
    /\ callers \in [Callers -> Caller]

TypeOK == ServiceTypeOK /\ BrowserTypeOK

Init ==
    /\ ServiceInit
    /\ page = "away" /\ front = None /\ shown = None /\ resets = 0
    /\ storage = None /\ session = None
    /\ store = NoStore /\ gate = NewGate /\ callers = AllRest

-----------------------------------------------------------------------------
(* Requests of the browser. *)

Starts(q, call) == calls[q] = Free /\ calls' = [calls EXCEPT ![q] = call]

(* What the client learns of its call: the answer, or a timeout or network  *)
(* error that leaves the handler at work.                                   *)
Hears(q, a) ==
    /\ calls[q].heard
    /\ \/ /\ calls[q].at = "answered" /\ a = calls[q].answer
          /\ calls' = [calls EXCEPT ![q] = Free]
       \/ /\ calls[q].at # "answered" /\ a = Refused
          /\ calls' = [calls EXCEPT ![q].heard = FALSE]

Outcomes == Pairs \cup {Done, Refused}

(* The tab unloads.                                                         *)
Unheard == [q \in Calls |-> IF calls[q].at = "answered" THEN Free
                            ELSE [calls[q] EXCEPT !.heard = FALSE]]

Waiting(kind) == {q \in Calls : calls[q].kind = kind /\ calls[q].heard}

Asks(pair) == [at |-> "asked", pair |-> pair, fresh |-> pair \notin expired,
               generation |-> 0, call |-> None]

Joined(f) == [Resting EXCEPT !.at = "joined", !.call = f,
                             !.generation = gate.generation]

-----------------------------------------------------------------------------
(* The session gate and the auth store. *)

ClearSession ==
    /\ gate.generation < MaxGeneration
    /\ storage' = None /\ session' = None
    /\ gate' = [generation |-> gate.generation + 1, inflight |-> None]
    /\ store' = [token |-> None, status |-> "unauthenticated"]

BumpSessionGeneration ==
    /\ gate.generation < MaxGeneration
    /\ gate' = [generation |-> gate.generation + 1, inflight |-> None]

(* Tokens first, then the generation.                                       *)
SetTokens(n, status) ==
    /\ storage' = n /\ session' = login[n]
    /\ BumpSessionGeneration
    /\ store' = [token |-> n, status |-> status]

(* Mutation of Current: the generation is not compared.                     *)
CurrentAlways(f) == calls[f].kind = "refresh"

(* An answer to a refresh is used only in the generation that sent it.      *)
Current(f) == gate.generation = calls[f].generation

(* refreshAccessToken, up to its await.                                     *)
JoinRefresh(c) ==
    /\ gate.inflight # None
    /\ callers' = [callers EXCEPT ![c] = Joined(gate.inflight)]
    /\ UNCHANGED <<calls, storage, session, store, gate>>

StartRefresh(c, f) ==
    /\ gate.inflight = None /\ storage # None
    /\ Starts(f, Sent("refresh", storage, None, None, gate.generation))
    /\ gate' = [gate EXCEPT !.inflight = f]
    /\ callers' = [callers EXCEPT ![c] = Joined(f)]
    /\ UNCHANGED <<storage, session, store>>

NothingToRefresh(c) ==
    /\ gate.inflight = None /\ storage = None
    /\ ClearSession
    /\ callers' = [callers EXCEPT ![c] = Resting]
    /\ UNCHANGED calls

(* The callers that awaited f: with the new access token they retry.        *)
Resumed(f, n) ==
    [c \in Callers |->
        IF callers[c].at = "joined" /\ callers[c].call = f
        THEN IF n # None /\ callers[c].generation = gate.generation
             THEN [Asks(n) EXCEPT !.at = "retried"] ELSE Resting
        ELSE callers[c]]

(* The promise settles; its `finally` empties inflightRefresh, whichever    *)
(* refresh is there.                                                        *)
RefreshSettles(f) ==
    /\ calls[f].kind = "refresh"
    /\ \E a \in Outcomes :
        /\ Hears(f, a)
        /\ \/ /\ Current(f) /\ a # Refused
              /\ storage' = a
              /\ store' = [store EXCEPT !.token = a]
              /\ gate' = [gate EXCEPT !.inflight = None]
              /\ callers' = Resumed(f, a)
              /\ UNCHANGED session
           \/ /\ Current(f) /\ a = Refused
              /\ ClearSession
              /\ callers' = Resumed(f, None)
           \/ /\ ~Current(f)
              /\ gate' = [gate EXCEPT !.inflight = None]
              /\ callers' = Resumed(f, None)
              /\ UNCHANGED <<storage, session, store>>
    /\ UNCHANGED <<account, tokenVars, codes, frontVars>>

-----------------------------------------------------------------------------
(* Requests with an access token: authenticatedRequest and validateSession. *)

Ask(c) ==
    /\ page = "app" /\ store.status = "authenticated" /\ storage # None
    /\ callers[c] = Resting
    /\ callers' = [callers EXCEPT ![c] = Asks(storage)]
    /\ UNCHANGED <<serviceVars, frontVars, storage, session, store, gate>>

(* Validation puts the token it sent back into the store.                   *)
Succeeds(c) ==
    /\ callers[c].at \in {"asked", "retried"} /\ callers[c].fresh
    /\ callers' = [callers EXCEPT ![c] = Resting]
    /\ store' = IF c = Validation
                THEN [token |-> callers[c].pair, status |-> "authenticated"]
                ELSE store
    /\ UNCHANGED <<serviceVars, frontVars, storage, session, gate>>

(* 401: the access token had expired when the service looked.               *)
Unauthorized(c) ==
    /\ callers[c].pair \in expired
    /\ \/ /\ callers[c].at = "asked"
          /\ \/ JoinRefresh(c)
             \/ \E f \in Calls : StartRefresh(c, f)
             \/ NothingToRefresh(c)
       \/ /\ callers[c].at = "retried"
          /\ ClearSession
          /\ callers' = [callers EXCEPT ![c] = Resting]
          /\ UNCHANGED calls
    /\ UNCHANGED <<account, tokenVars, codes, frontVars>>

(* Any other error, timeouts included.                                      *)
FailsOtherwise(c) ==
    /\ callers[c].at \in {"asked", "retried"}
    /\ callers' = [callers EXCEPT ![c] = Resting]
    /\ store' = IF c = Validation THEN [store EXCEPT !.status = "unauthenticated"]
                                  ELSE store
    /\ UNCHANGED <<serviceVars, frontVars, storage, session, gate>>

-----------------------------------------------------------------------------
(* Logout: wait for the service, then clear whatever it said. *)

Logout(q) ==
    /\ page = "app" /\ store.status = "authenticated" /\ storage # None
    /\ Waiting("logout") = {}
    /\ Starts(q, Sent("logout", storage, None, None, 0))
    /\ UNCHANGED <<account, tokenVars, codes, frontVars, appVars>>

LogoutEnds(q) ==
    /\ calls[q].kind = "logout"
    /\ \E a \in Outcomes : Hears(q, a)
    /\ ClearSession
    /\ UNCHANGED <<account, tokenVars, codes, frontVars, callers>>

-----------------------------------------------------------------------------
(* Pages. *)

(* A runtime of kushim-app starts with what localStorage holds.             *)
LoadApp(status) ==
    /\ store' = [token |-> storage, status |-> status]
    /\ gate' = NewGate
    /\ UNCHANGED <<storage, session>>

Validates(n) == callers' = [AllRest EXCEPT ![Validation] = Asks(n)]

(* Leaving, closing or reloading the page, or a redirect of its own.        *)
LeavePage ==
    /\ page # "away"
    /\ page' = "away"
    /\ store' = NoStore /\ gate' = NewGate /\ callers' = AllRest
    /\ calls' = Unheard /\ front' = None
    /\ UNCHANGED <<account, tokenVars, codes, shown, resets, storage, session>>

OpenApp ==
    /\ page = "away" /\ storage # None
    /\ page' = "app"
    /\ LoadApp("validating") /\ Validates(storage)
    /\ UNCHANGED <<serviceVars, front, shown, resets>>

(* The Handoff page, with the code in its URL.                              *)
OpenHandoff(q) ==
    /\ page = "signed" /\ front \notin expired
    /\ CreateCode(front)
    /\ page' = "handoff"
    /\ LoadApp("idle") /\ callers' = AllRest
    /\ Starts(q, Sent("exchange", front, None, None, 0))
    /\ UNCHANGED <<account, tokenVars, front, shown, resets>>

ReloadHandoff(q) ==
    /\ page = "handoff"
    /\ calls[q] = Free
    /\ calls' = [Unheard EXCEPT ![q] = Sent("exchange", front, None, None, 0)]
    /\ LoadApp("idle") /\ callers' = AllRest
    /\ UNCHANGED <<account, tokenVars, codes, frontVars>>

(* The navigation bar is there while the code is exchanged: with the tokens *)
(* of an earlier visit it leads to the dashboard.                           *)
VisitDashboard ==
    /\ page = "handoff" /\ Waiting("exchange") # {} /\ storage # None
    /\ page' = "app" /\ front' = None
    /\ store' = [store EXCEPT !.status = "validating"]
    /\ Validates(storage)
    /\ UNCHANGED <<serviceVars, shown, resets, storage, session, gate>>

(* RequireAuth validates once: when the dashboard is open already, nothing  *)
(* starts a validation of the new tokens.                                   *)
ExchangeEnds(q) ==
    /\ calls[q].kind = "exchange"
    /\ \E a \in Outcomes :
        /\ Hears(q, a)
        /\ \/ /\ a # Refused /\ page = "handoff"
              /\ SetTokens(a, "validating") /\ Validates(a)
              /\ page' = "app" /\ front' = None
           \/ /\ a # Refused /\ page = "app"
              /\ SetTokens(a, "idle")
              /\ UNCHANGED <<page, front, callers>>
           \/ /\ a = Refused
              /\ UNCHANGED <<page, front, appVars>>
    /\ UNCHANGED <<account, tokenVars, codes, shown, resets>>

-----------------------------------------------------------------------------
(* The auth front. *)

(* The phrase is generated in the browser and shown before it is stored.    *)
SignUp ==
    /\ page = "away" /\ account = None
    /\ CreateUser(1)
    /\ IssueTokenPair(None)
    /\ \/ page' = "phrase" /\ front' = issued + 1 /\ shown' = 1
       \/ UNCHANGED <<page, front, shown>>   \* the answer is lost
    /\ UNCHANGED <<revoked, expired, codes, calls, resets, appVars>>

ConfirmPhrase(q) ==
    /\ page = "phrase" /\ Waiting("setup") = {}
    /\ Starts(q, Sent("setup", front, 1, shown, 0))
    /\ UNCHANGED <<account, tokenVars, codes, frontVars, appVars>>

SetupEnds(q) ==
    /\ calls[q].kind = "setup"
    /\ \E a \in Outcomes :
        /\ Hears(q, a)
        /\ page' = IF a = Done THEN "signed" ELSE page
    /\ UNCHANGED <<account, tokenVars, codes, front, shown, resets, appVars>>

SignIn ==
    /\ page = "away" /\ account # None
    /\ IssueTokenPair(None)
    /\ page' = "signed" /\ front' = issued + 1
    /\ UNCHANGED <<account, revoked, expired, codes, calls, shown, resets,
                   appVars>>

ResetPassword(q) ==
    /\ page = "away" /\ shown # None /\ resets < budget.resets
    /\ Starts(q, Sent("reset", None, shown, resets + 2, 0))
    /\ page' = "reset" /\ resets' = resets + 1
    /\ UNCHANGED <<account, tokenVars, codes, front, shown, appVars>>

(* The new phrase is shown only when the service has confirmed it.          *)
ResetEnds(q) ==
    /\ calls[q].kind = "reset"
    /\ \E a \in Outcomes :
        /\ Hears(q, a)
        /\ shown' = IF a = Done THEN calls[q].chosen ELSE shown
    /\ page' = "away"
    /\ UNCHANGED <<account, tokenVars, codes, front, resets, appVars>>

-----------------------------------------------------------------------------
Next ==
    \/ ServiceStep /\ UNCHANGED <<frontVars, appVars>>
    \/ \E q \in Calls :
          \/ RefreshSettles(q) \/ Logout(q) \/ LogoutEnds(q)
          \/ OpenHandoff(q) \/ ReloadHandoff(q) \/ ExchangeEnds(q)
          \/ ConfirmPhrase(q) \/ SetupEnds(q)
          \/ ResetPassword(q) \/ ResetEnds(q)
    \/ \E c \in Callers : Succeeds(c) \/ Unauthorized(c) \/ FailsOtherwise(c)
    \/ \E c \in Readers : Ask(c)
    \/ LeavePage \/ OpenApp \/ VisitDashboard \/ SignUp \/ SignIn

Spec == Init /\ [][Next]_vars

-----------------------------------------------------------------------------
(* What the app keeps in localStorage is a pair of the sign-in it accepted   *)
(* last, or a rotation of it, and nothing once that session was cleared: no  *)
(* late answer brings an older session back (sessionGate: generation).       *)
StorageIsOfTheLastSession ==
    storage # None => session # None /\ session = login[storage]

(* A refresh token works once, but for calls already under way: one that was *)
(* exchanged is revoked, wherever the handler that exchanged it stopped, and *)
(* a refresh sent after that gets no tokens (AuthService::refresh).          *)
RotationIsOneWay ==
    /\ \A n \in 1 .. issued : parent[n] # None => parent[n] \in revoked
    /\ \A q \in Calls :
          calls[q].kind = "refresh" /\ calls[q].late => calls[q].answer \notin Pairs

(* A user marked as having set up recovery has a phrase, wherever the setup  *)
(* stopped (setup_recovery_phrase: the phrase, then the flag).               *)
CompletedHasPhrase ==
    account # None => (account.completed => account.phrase # None)

===========================================================================
