-------------------------- MODULE RefreshTracking --------------------------
(***************************************************************************)
(* The dashboard of kushim-app in one browser tab: the modal that posts an *)
(* operation, the store that follows the refresh the operation caused, and *)
(* the read models the dashboard shows.                                    *)
(*                                                                         *)
(* The modal sends a key with every submission, the same one while the     *)
(* same form is sent again.  The tracking store polls the request that     *)
(* came back until it is settled, a bounded number of times; it keeps the  *)
(* request in sessionStorage so that a page loaded again goes on with it.  *)
(* A refresh that completed makes the dashboard load its read models.      *)
(*                                                                         *)
(* Of the services only what the tab can tell is here: a creation happens  *)
(* once for a key (IdempotentCreate), and a request is settled some time   *)
(* or never (RefreshQueue).                                                *)
(***************************************************************************)
EXTENDS Naturals, FiniteSets

CONSTANTS
    Users,
    Portfolios,
    OwnerOf,        \* OwnerOf[p]: the user that p belongs to
    Forms,          \* what a form can hold
    MaxPolls,       \* MAX_POLLS
    MaxOperations,  \* bound: operations created
    Budgets,        \* bounds, one record for a behaviour: see left
    None

Requests == 1 .. MaxOperations

Budget == [attempts : Nat, submits : Nat, switches : Nat, visits : Nat, slices : SUBSET STRING]
Timer == [next : {"poll", "clear"}, attempt : Nat]
Modal == [form : Forms, attempt : Nat, opening : Nat, key : Nat \cup {None},
          keyForm : Forms \cup {None}, submitting : BOOLEAN]

ASSUME RefreshTrackingAssumptions ==
    /\ {MaxPolls, MaxOperations} \subseteq Nat \ {0}
    /\ Budgets \subseteq Budget
    /\ OwnerOf \in [Portfolios -> Users]
    /\ None \notin Portfolios \cup Forms \cup Users \cup Nat \cup Timer \cup Modal

VARIABLES
    operations,  \* operations created: [key, form, portfolio, attempt, request]
    requests,    \* requests[r]: [portfolio, status], status "none" if unused
    creations,   \* creations under way
    page,        \* "out", "loading" or "open"
    user,
    active,      \* activePortfolioId
    modal,       \* the form that is open, or None
    left,        \* bound: openings and edits of the form, submissions,
                 \*        portfolio switches and loads of the page to come,
                 \*        and the slices of the read models looked at
    tracking,    \* refreshTracking: request, status, generation
    timer,       \* pollTimer: what it will do, or None
    polls,       \* polls under way
    persisted,   \* the request in sessionStorage, or None
    models,      \* portfolioReadModels
    loads        \* loads[s]: portfolios for which loads of s are under way

serverVars   == <<operations, requests>>
formVars     == <<creations, modal, left>>
trackingVars == <<tracking, timer, polls, persisted>>
modelVars    == <<models, loads>>
vars == <<serverVars, formVars, page, user, active, trackingVars, modelVars>>

Slices == left.slices

NotTracking(generation) == [request |-> None, status |-> "idle", generation |-> generation]
NoModels == [portfolio |-> None, slice |-> [s \in Slices |-> [of |-> None, status |-> "idle"]]]
NoLoads  == [s \in Slices |-> {}]

Operation == [key : Nat, form : Forms, portfolio : Portfolios, attempt : Nat,
              request : Requests]
Creation == [key : Nat, form : Forms, portfolio : Portfolios, attempt : Nat, opening : Nat,
             at : {"sent", "answered"}, request : Requests \cup {None}, heard : BOOLEAN]

ServerTypeOK ==
    /\ operations \subseteq Operation
    /\ requests \in [Requests ->
            [portfolio : Portfolios \cup {None},
             status : {"none", "pending", "processing", "completed", "failed"}]]

FormTypeOK ==
    /\ creations \subseteq Creation
    /\ modal \in Modal \cup {None}
    /\ left \in Budget

TrackingTypeOK ==
    /\ tracking \in [request : Requests \cup {None}, generation : Nat,
                     status : {"idle", "pending", "processing", "completed", "failed",
                               "timed_out"}]
    /\ timer \in Timer \cup {None}
    /\ polls \subseteq [generation : Nat, request : Requests, attempt : Nat]
    /\ persisted \in Requests \cup {None}

Models ==
    [portfolio : Portfolios \cup {None},
     slice : [Slices -> [of : Portfolios \cup {None},
                         status : {"idle", "loading", "success", "error"}]]]

PageTypeOK ==
    /\ page \in {"out", "loading", "open"}
    /\ user \in Users \cup {None} /\ active \in Portfolios \cup {None}
    /\ models \in Models /\ loads \in [Slices -> SUBSET (Portfolios \cup {None})]

TypeOK == ServerTypeOK /\ FormTypeOK /\ TrackingTypeOK /\ PageTypeOK

Init ==
    /\ operations = {} /\ creations = {}
    /\ requests = [r \in Requests |-> [portfolio |-> None, status |-> "none"]]
    /\ page = "out" /\ user = None /\ active = None /\ modal = None
    /\ left \in Budgets
    /\ tracking = NotTracking(0) /\ timer = None /\ polls = {} /\ persisted = None
    /\ models = NoModels /\ loads = NoLoads

-----------------------------------------------------------------------------
(* The services. *)

Recorded(c) == {o \in operations : o.key = c.key}
PendingOf(p) == {r \in Requests : requests[r] = [portfolio |-> p, status |-> "pending"]}
Unused == {r \in Requests : requests[r].status = "none"}
Some(S) == CHOOSE r \in S : TRUE

(* A known key is answered with what was recorded under it; a new one       *)
(* creates a posted operation, with the pending request of the portfolio or *)
(* a new one.                                                               *)
HandleCreation(c) ==
    /\ c.at = "sent"
    /\ IF Recorded(c) # {}
       THEN /\ creations' = (creations \ {c}) \cup
                   {[c EXCEPT !.at = "answered", !.request = o.request] : o \in Recorded(c)}
            /\ UNCHANGED serverVars
       ELSE /\ Cardinality(operations) < MaxOperations
            /\ LET r == IF PendingOf(c.portfolio) # {} THEN Some(PendingOf(c.portfolio))
                                                       ELSE Some(Unused)
               IN /\ operations' = operations \cup
                         {[key |-> c.key, form |-> c.form, portfolio |-> c.portfolio,
                           attempt |-> c.attempt, request |-> r]}
                  /\ requests' = [requests EXCEPT
                         ![r] = [portfolio |-> c.portfolio, status |-> "pending"]]
                  /\ creations' = (creations \ {c}) \cup
                         {[c EXCEPT !.at = "answered", !.request = r]}
    /\ UNCHANGED <<page, user, active, modal, left, trackingVars, modelVars>>

(* The worker: claim, completion, terminal failure, retry. *)
ChangesTo(r, from, to) ==
    /\ requests[r].status = from
    /\ requests' = [requests EXCEPT ![r].status = to]
    /\ UNCHANGED <<operations, formVars, page, user, active, trackingVars, modelVars>>

ClaimRequest(r) == ChangesTo(r, "pending", "processing")
SettleRequest(r) == ChangesTo(r, "processing", "completed") \/ ChangesTo(r, "processing", "failed")
RetryRequest(r) ==
    /\ PendingOf(requests[r].portfolio) = {}
    /\ ChangesTo(r, "processing", "pending")

-----------------------------------------------------------------------------
(* The read models and the effects of the dashboard that load them. *)

Loading(m, S, p) ==
    [portfolio |-> p,
     slice |-> [s \in Slices |-> IF s \in S THEN [m.slice[s] EXCEPT !.status = "loading"]
                                            ELSE m.slice[s]]]
Asked(l, S, p) == [s \in Slices |-> IF s \in S THEN l[s] \cup {p} ELSE l[s]]

(* Mutation of Missing: whose data they are is not asked. *)
MissingStatusOnly(m, p) == {s \in Slices : m.slice[s].status \notin {"loading", "success"}}

Missing(m, p) ==
    {s \in Slices : ~(m.portfolio = p /\ m.slice[s].status \in {"loading", "success"})}

(* What the effects make of the stores; nothing when no portfolio is shown. *)
Watch(m, l, p) ==
    LET S == IF p = None THEN {} ELSE Missing(m, p)
    IN /\ models' = IF S = {} THEN m ELSE Loading(m, S, p)
       /\ loads' = Asked(l, S, p)

Shown == IF page = "open" THEN active ELSE None

(* Mutation of NewGeneration: the counter stays. *)
SameGeneration == tracking.generation

(* The next value of a counter; any value that no poll remembers will do,   *)
(* and small ones keep the states few.                                      *)
NewGeneration ==
    CHOOSE g \in 0 .. Cardinality(polls) + 1 :
        g # tracking.generation /\ \A p \in polls : p.generation # g

Reset ==
    /\ tracking' = NotTracking(NewGeneration)
    /\ timer' = None /\ persisted' = None

(* A call that is refused after the session has ended makes the gate clear  *)
(* it once more.                                                            *)
ClearAgain ==
    /\ page = "out"
    /\ Reset
    /\ models' = NoModels /\ active' = None

(* A load ends.  loads tells of one or more of the same kind.               *)
LoadEnds(s, p) ==
    /\ p \in loads[s]
    /\ \E rest \in {loads[s], loads[s] \ {p}} :
          LET l == [loads EXCEPT ![s] = rest]
          IN \/ Watch([portfolio |-> p,
                       slice |-> [models.slice EXCEPT ![s] = [of |-> p, status |-> "success"]]],
                      l, Shown)
             \/ Watch([models EXCEPT !.slice[s].status = "error"], l, Shown)
    /\ UNCHANGED <<serverVars, formVars, page, user, active, trackingVars>>

LoadRefused(s, p) ==
    /\ p \in loads[s]
    /\ loads' = [loads EXCEPT ![s] = @ \ {p}]
    /\ ClearAgain
    /\ UNCHANGED <<serverVars, formVars, page, user, polls>>

SetActivePortfolio(p) ==
    /\ page = "open" /\ modal = None
    /\ OwnerOf[p] = user /\ p # active
    /\ left.switches > 0
    /\ left' = [left EXCEPT !.switches = @ - 1]
    /\ active' = p
    /\ Watch(models, loads, p)
    /\ UNCHANGED <<serverVars, creations, modal, page, user, trackingVars>>

-----------------------------------------------------------------------------
(* The tracking store. *)

PollOf(g, r, n) == [generation |-> g, request |-> r, attempt |-> n]

(* startTracking: the timer is stopped, and polls that are under way will   *)
(* find that their generation is over.                                      *)
StartTracking(r) ==
    /\ tracking' = [request |-> r, status |-> "pending", generation |-> NewGeneration]
    /\ timer' = None
    /\ polls' = polls \cup {PollOf(NewGeneration, r, 1)}

Track(r) == StartTracking(r) /\ persisted' = r

(* Mutation of PollLater: the attempts are not counted. *)
PollLaterForever(p) == timer' = [next |-> "poll", attempt |-> p.attempt]

PollLater(p) == timer' = [next |-> "poll", attempt |-> p.attempt + 1]

(* An answer of another generation is dropped. *)
PollIsStale(p) ==
    /\ p.generation # tracking.generation
    /\ UNCHANGED <<tracking, timer, persisted, page, active, modal, modelVars>>

(* The request of a portfolio of somebody else: 404. *)
PollNotFound(p) ==
    /\ page = "open" /\ OwnerOf[requests[p.request].portfolio] # user
    /\ tracking' = NotTracking(tracking.generation) /\ persisted' = None
    /\ UNCHANGED <<timer, page, active, modal, modelVars>>

PollSettled(p) ==
    LET request == requests[p.request] IN
    /\ page = "open" /\ OwnerOf[request.portfolio] = user
    /\ request.status \in {"completed", "failed"}
    /\ tracking' = [tracking EXCEPT !.status = request.status]
    /\ persisted' = None
    /\ IF request.status = "completed"
       THEN /\ timer' = [next |-> "clear", attempt |-> 0]
            /\ Watch(Loading(models, Slices, request.portfolio),
                     Asked(loads, Slices, request.portfolio), active)
       ELSE UNCHANGED <<timer, modelVars>>
    /\ UNCHANGED <<page, active, modal>>

PollUnsettled(p) ==
    LET request == requests[p.request] IN
    /\ page = "open" /\ OwnerOf[request.portfolio] = user
    /\ request.status \in {"pending", "processing"}
    /\ tracking' = [tracking EXCEPT !.status = request.status]
    /\ PollLater(p)
    /\ UNCHANGED <<persisted, page, active, modal, modelVars>>

PollFails(p) ==
    /\ PollLater(p)
    /\ UNCHANGED <<tracking, persisted, page, active, modal, modelVars>>

PollEnds(p) ==
    /\ polls' = polls \ {p}
    /\ \/ ClearAgain /\ UNCHANGED <<page, modal, loads>>
       \/ PollIsStale(p)
       \/ /\ p.generation = tracking.generation
          /\ PollNotFound(p) \/ PollSettled(p) \/ PollUnsettled(p) \/ PollFails(p)
    /\ UNCHANGED <<serverVars, creations, left, user>>

(* Mutation of TimedOut: as the other ends do. *)
TimedOutForgets ==
    /\ tracking' = [tracking EXCEPT !.status = "timed_out"]
    /\ persisted' = None

(* sessionStorage keeps the request for a page load within 15 minutes. *)
TimedOut ==
    /\ tracking' = [tracking EXCEPT !.status = "timed_out"]
    /\ UNCHANGED persisted

TimerFires ==
    /\ timer # None
    /\ timer' = None
    /\ \/ /\ timer.next = "clear"
          /\ tracking' = NotTracking(tracking.generation)
          /\ UNCHANGED <<polls, persisted>>
       \/ /\ timer.next = "poll" /\ timer.attempt > MaxPolls
          /\ TimedOut
          /\ UNCHANGED polls
       \/ /\ timer.next = "poll" /\ timer.attempt <= MaxPolls
          /\ polls' = polls \cup
                {PollOf(tracking.generation, tracking.request, timer.attempt)}
          /\ UNCHANGED <<tracking, persisted>>
    /\ UNCHANGED <<serverVars, formVars, page, user, active, modelVars>>

-----------------------------------------------------------------------------
(* The modal. *)

(* Each opening is a new mount, without a key. *)
OpenModal ==
    /\ page = "open" /\ active # None /\ modal = None
    /\ left.attempts > 0
    /\ left' = [left EXCEPT !.attempts = @ - 1]
    /\ \E form \in Forms :
          modal' = [form |-> form, attempt |-> left.attempts, opening |-> left.attempts,
                    key |-> None, keyForm |-> None, submitting |-> FALSE]
    /\ UNCHANGED <<serverVars, creations, page, user, active, trackingVars, modelVars>>

(* Fields stay open while a submission is under way. *)
Edit ==
    /\ modal # None /\ left.attempts > 0
    /\ left' = [left EXCEPT !.attempts = @ - 1]
    /\ \E form \in Forms \ {modal.form} :
          modal' = [modal EXCEPT !.form = form, !.attempt = left.attempts]
    /\ UNCHANGED <<serverVars, creations, page, user, active, trackingVars, modelVars>>

(* Mutation of KeepsKey: a key for every submission. *)
NeverKeepsKey == FALSE

(* attemptRef: the key of the last submission, if it sent the same form. *)
KeepsKey == modal.key # None /\ modal.keyForm = modal.form

Submit ==
    /\ modal # None /\ ~modal.submitting
    /\ left.submits > 0
    /\ left' = [left EXCEPT !.submits = @ - 1]
    /\ LET key == IF KeepsKey THEN modal.key ELSE left.submits
       IN /\ modal' = [modal EXCEPT !.key = key, !.keyForm = IF KeepsKey THEN @ ELSE modal.form,
                                    !.submitting = TRUE]
          /\ creations' = creations \cup
                {[key |-> key, form |-> modal.form, portfolio |-> active,
                  attempt |-> modal.attempt, opening |-> modal.opening,
                  at |-> "sent", request |-> None, heard |-> TRUE]}
    /\ UNCHANGED <<serverVars, page, user, active, trackingVars, modelVars>>

(* Escape and the backdrop work at any time; the handler goes on. *)
CloseModal ==
    /\ modal # None
    /\ modal' = None
    /\ UNCHANGED <<serverVars, creations, left, page, user, active, trackingVars, modelVars>>

(* The answer starts the tracking and closes the modal, whichever is open.  *)
CreationAnswered(c) ==
    /\ c.heard /\ c.at = "answered"
    /\ creations' = creations \ {c}
    /\ Track(c.request)
    /\ modal' = None
    /\ UNCHANGED <<serverVars, left, page, user, active, modelVars>>

(* A timeout, a network error or an error of the service; the request may   *)
(* be handled all the same.                                                 *)
CreationFails(c) ==
    /\ c.heard
    /\ creations' = (creations \ {c}) \cup
            (IF c.at = "sent" THEN {[c EXCEPT !.heard = FALSE]} ELSE {})
    /\ modal' = IF modal # None /\ modal.opening = c.opening
                THEN [modal EXCEPT !.submitting = FALSE] ELSE modal
    /\ \/ UNCHANGED <<active, trackingVars, models>>
       \/ ClearAgain /\ UNCHANGED polls
    /\ UNCHANGED <<serverVars, left, page, user, loads>>

-----------------------------------------------------------------------------
(* The page. *)

(* A load of the page: only what the storages hold is left.                 *)
LoadPage(u) ==
    /\ page = "out" \/ u = user
    /\ left.visits > 0
    /\ left' = [left EXCEPT !.visits = @ - 1]
    /\ page' = "loading" /\ user' = u
    /\ modal' = None
    /\ creations' = {[c EXCEPT !.heard = FALSE] : c \in {d \in creations : d.at = "sent"}}
    /\ tracking' = NotTracking(0) /\ timer' = None /\ polls' = {}
    /\ models' = NoModels /\ loads' = NoLoads
    /\ UNCHANGED <<serverVars, active, persisted>>

(* resumeFromStorage; an entry older than its TTL is removed. *)
ResumeFromStorage ==
    \/ persisted = None /\ UNCHANGED trackingVars
    \/ persisted # None /\ persisted' = None /\ UNCHANGED <<tracking, timer, polls>>
    \/ persisted # None /\ StartTracking(persisted) /\ UNCHANGED persisted

Owned == {p \in Portfolios : OwnerOf[p] = user}

(* The session is valid: the dashboard opens, on the portfolio of the last  *)
(* visit or the first of the list.                                          *)
Validated ==
    /\ page = "loading"
    /\ page' = "open"
    /\ active' \in IF active \in Owned THEN {active} ELSE IF Owned = {} THEN {None} ELSE Owned
    /\ ResumeFromStorage
    /\ Watch(models, loads, active')
    /\ UNCHANGED <<serverVars, formVars, user>>

(* A logout, or a session that could not be refreshed.  The runtime lives   *)
(* on until the browser has left the page.                                  *)
ClearSession ==
    /\ page = "open"
    /\ page' = "out" /\ user' = None /\ active' = None /\ modal' = None
    /\ Reset
    /\ models' = NoModels
    /\ UNCHANGED <<serverVars, creations, left, polls, loads>>

Next ==
    \/ \E c \in creations : HandleCreation(c) \/ CreationAnswered(c) \/ CreationFails(c)
    \/ \E r \in Requests : ClaimRequest(r) \/ SettleRequest(r) \/ RetryRequest(r)
    \/ \E s \in Slices, p \in Portfolios : LoadEnds(s, p) \/ LoadRefused(s, p)
    \/ \E p \in Portfolios : SetActivePortfolio(p)
    \/ \E p \in polls : PollEnds(p)
    \/ TimerFires
    \/ OpenModal \/ Edit \/ Submit \/ CloseModal
    \/ \E u \in Users : LoadPage(u)
    \/ Validated \/ ClearSession

(* Timers fire, and apiRequest ends every call: it has a timeout. *)
Fairness == WF_vars(TimerFires) /\ WF_vars(\E p \in polls : PollEnds(p))

Spec == Init /\ [][Next]_vars /\ Fairness

-----------------------------------------------------------------------------
(* Properties. *)

Polling ==
    {p \in polls : p.generation = tracking.generation}

(* While a refresh is shown as under way exactly one poll of it is under    *)
(* way or due: the polling neither stalls nor doubles, whatever is posted,  *)
(* loaded again or cleared meanwhile.                                       *)
UnsettledIsPolledOnce ==
    LET due == timer # None /\ timer.next = "poll"
    IN tracking.status \in {"pending", "processing"} =>
           /\ Cardinality(Polling) + (IF due THEN 1 ELSE 0) = 1
           /\ \A p \in Polling : p.request = tracking.request

(* sessionStorage names the refresh that the page follows or has given up   *)
(* waiting for, and nothing once the end of it was shown: a page loaded     *)
(* again goes on exactly with what was open.                                *)
UnsettledIsPersisted ==
    /\ tracking.status \in {"pending", "processing", "timed_out"} =>
           persisted = tracking.request
    /\ tracking.status \in {"completed", "failed"} => persisted = None

(* The notice of a refresh ends: in an end that stays, or in none.          *)
EveryTrackingEnds ==
    tracking.status \in {"pending", "processing", "completed"}
        ~> tracking.status \in {"idle", "failed", "timed_out"}

(* A form that is submitted again untouched, because its answer was lost,   *)
(* creates one operation; and a form that was edited is never answered with *)
(* the operation of another form.                                           *)
OneOperationPerAttempt ==
    /\ \A o, q \in operations : o.attempt = q.attempt => o = q
    /\ \A c \in creations : \A o \in Recorded(c) :
          o.form = c.form /\ o.portfolio = c.portfolio

(* What the dashboard presents as loaded belongs to the portfolio that is   *)
(* selected, though loads of other portfolios end late, and a refresh of    *)
(* another portfolio loads its own.                                         *)
LoadedIsActive ==
    (page = "open" /\ active # None) =>
        \A s \in Slices :
            models.slice[s].status = "success" => models.slice[s].of = active
=============================================================================
