----------------------- MODULE RefreshTrackingProofs -----------------------
(* What a dashboard tab guarantees its user, whatever the services answer   *)
(* and whenever: theorems about RefreshTracking for any users, portfolios,  *)
(* forms, polls and budgets.                                                *)
EXTENDS RefreshTracking, FiniteSetTheorems, TLAPS

-----------------------------------------------------------------------------
(* The inductive invariant, in parts that nearly keep to themselves.        *)

(* A request that was used was used for an operation, so that there is one  *)
(* for each operation to come.                                              *)
ServerOK ==
    /\ IsFiniteSet(operations)
    /\ \A r \in Requests :
          requests[r].status # "none" => \E o \in operations : o.request = r

(* The submissions that are under way or were handled.                      *)
Sent == creations \cup operations

(* A form that was sent has one key, and a key one form and one operation;  *)
(* the modal reuses its key exactly for the form it sent with it, on the    *)
(* portfolio it was opened on.  The bounds count down, so that what is left *)
(* of them is a fresh key and a fresh form.                                 *)
DraftOK ==
    /\ page = "open" /\ active \in Portfolios
    /\ modal.attempt > left.attempts
    /\ modal.key # None => modal.key > left.submits
    /\ \A x \in Sent : x.key = modal.key => /\ x.form = modal.keyForm
                                            /\ x.portfolio = active
    /\ \A x \in Sent : x.attempt = modal.attempt => /\ x.key = modal.key
                                                    /\ modal.keyForm = modal.form

SentOK ==
    /\ \A x \in Sent : x.key > left.submits /\ x.attempt > left.attempts
    /\ \A x, y \in Sent : x.attempt = y.attempt => x.key = y.key
    /\ \A x, y \in Sent : x.key = y.key => /\ x.form = y.form
                                           /\ x.portfolio = y.portfolio
    /\ \A o, q \in operations : o.key = q.key => o = q
    /\ \A c \in creations : c.at = "answered" => c.request \in Requests

FormOK == SentOK /\ (modal # None => DraftOK)

(* What is shown as under way is polled or will be; nothing else is, and a  *)
(* notice is cleared only after its refresh has completed.                  *)
Following == tracking.status \in {"pending", "processing"}
Due == timer # None /\ timer.next = "poll"

PolledOnce ==
    \/ Polling = {} /\ Due
    \/ ~Due /\ \E p \in polls : Polling = {p} /\ p.request = tracking.request

TrackingOK ==
    /\ IsFiniteSet(polls)
    /\ Following => PolledOnce /\ tracking.request # None
    /\ ~Following => Polling = {} /\ ~Due
    /\ timer # None /\ timer.next = "clear" => tracking.status = "completed"
    /\ UnsettledIsPersisted

(* The read models are loaded for the portfolio that is selected, and there *)
(* is one if the user has any; a page that loads has none yet.              *)
PageOK ==
    /\ page = "open" /\ active # None =>
          \A s \in Slices : /\ models.portfolio = active
                            /\ models.slice[s].status = "success" =>
                                  models.slice[s].of = active
    /\ page = "open" /\ active = None => Owned = {}
    /\ page = "loading" => models = NoModels /\ loads = NoLoads

(* A page that loads follows nothing yet and hears of nothing it has sent.  *)
LoadingOK ==
    page = "loading" =>
        /\ tracking.status = "idle"
        /\ \A c \in creations : ~c.heard

TrackingInv == TypeOK /\ ServerOK /\ FormOK /\ TrackingOK /\ PageOK /\ LoadingOK

-----------------------------------------------------------------------------
LEMMA InitTracking == Init => TrackingInv
<1>. SUFFICES ASSUME Init PROVE TrackingInv
  OBVIOUS
<1>1. left \in Budget /\ None \notin Nat \cup Portfolios
  BY RefreshTrackingAssumptions DEF Init
<1>2. ServerTypeOK /\ FormTypeOK /\ TrackingTypeOK
  BY <1>1 DEF Init, ServerTypeOK, FormTypeOK, TrackingTypeOK, NotTracking
<1>3. PageTypeOK
  BY <1>1 DEF Init, PageTypeOK, Models, NoModels, NoLoads
<1>4. ServerOK
  BY FS_EmptySet DEF Init, ServerOK
<1>5. FormOK
  BY DEF Init, FormOK, SentOK, Sent
<1>6. TrackingOK
  BY FS_EmptySet DEF Init, TrackingOK, Following, Polling, Due, NotTracking, UnsettledIsPersisted
<1>7. PageOK
  BY DEF Init, PageOK
<1>8. LoadingOK
  BY DEF Init, LoadingOK
<1>. QED BY <1>2, <1>3, <1>4, <1>5, <1>6, <1>7, <1>8 DEF TrackingInv, TypeOK

-----------------------------------------------------------------------------
(* The services. *)

LEMMA SomeMember ==
    ASSUME NEW S, S # {} PROVE Some(S) \in S
  BY DEF Some

(* As long as another operation may be created there is a row for it.       *)
LEMMA UnusedExists ==
    ASSUME ServerTypeOK, ServerOK, Cardinality(operations) < MaxOperations
    PROVE  Unused # {}
<1>. SUFFICES ASSUME Unused = {} PROVE FALSE
  OBVIOUS
<1>. DEFINE f == [o \in operations |-> o.request]
<1>1. f \in [operations -> Requests]
  BY DEF ServerTypeOK, Operation
<1>2. \A r \in Requests : \E o \in operations : f[o] = r
  BY DEF ServerOK, Unused
<1>3. f \in Surjection(operations, Requests)
  BY <1>1, <1>2 DEF Surjection
<1>4. Cardinality(Requests) <= Cardinality(operations)
  BY <1>3, FS_Surjection DEF ServerOK
<1>5. MaxOperations \in Nat \ {0}
  BY RefreshTrackingAssumptions
<1>6. Cardinality(Requests) = MaxOperations
  BY <1>5, FS_Interval DEF Requests
<1>7. Cardinality(operations) \in Nat
  BY FS_CardinalityType DEF ServerOK
<1>. QED BY <1>4, <1>5, <1>6, <1>7

(* The row of a new operation.                                              *)
LEMMA RowForCreation ==
    ASSUME ServerTypeOK, ServerOK, NEW c \in creations, Cardinality(operations) < MaxOperations
    PROVE  (IF PendingOf(c.portfolio) # {} THEN Some(PendingOf(c.portfolio))
                                           ELSE Some(Unused)) \in Requests
<1>1. PendingOf(c.portfolio) \subseteq Requests /\ Unused \subseteq Requests
  BY DEF PendingOf, Unused
<1>. QED BY <1>1, UnusedExists, SomeMember

LEMMA CreationServer ==
    ASSUME ServerTypeOK, FormTypeOK, ServerOK, NEW c \in creations, HandleCreation(c)
    PROVE  ServerTypeOK' /\ ServerOK'
<1>1. CASE Recorded(c) # {}
  BY <1>1 DEF HandleCreation, serverVars, ServerTypeOK, ServerOK
<1>2. CASE Recorded(c) = {}
  <2>1. PICK r \in Requests :
            /\ operations' = operations \cup
                   {[key |-> c.key, form |-> c.form, portfolio |-> c.portfolio,
                     attempt |-> c.attempt, request |-> r]}
            /\ requests' = [requests EXCEPT
                   ![r] = [portfolio |-> c.portfolio, status |-> "pending"]]
    BY <1>2, RowForCreation DEF HandleCreation
  <2>2. ServerTypeOK'
    BY <2>1 DEF ServerTypeOK, FormTypeOK, Operation, Creation
  <2>3. IsFiniteSet(operations')
    BY <2>1, FS_AddElement DEF ServerOK
  <2>4. ASSUME NEW q \in Requests, requests'[q].status # "none"
        PROVE  \E o \in operations' : o.request = q
    <3>1. CASE q = r
      <4>. DEFINE new == [key |-> c.key, form |-> c.form, portfolio |-> c.portfolio,
                          attempt |-> c.attempt, request |-> r]
      <4>1. new \in operations' /\ new.request = q
        BY <2>1, <3>1
      <4>. QED BY <4>1
    <3>2. CASE q # r
      <4>1. requests[q].status # "none"
        BY <2>1, <2>4, <3>2 DEF ServerTypeOK
      <4>2. PICK o \in operations : o.request = q
        BY <4>1 DEF ServerOK
      <4>. QED BY <2>1, <4>2
    <3>. QED BY <3>1, <3>2
  <2>. QED BY <2>2, <2>3, <2>4 DEF ServerOK
<1>. QED BY <1>1, <1>2

LEMMA RequestServer ==
    ASSUME ServerTypeOK, ServerOK, NEW r \in Requests, NEW from, from # "none",
           NEW to \in {"pending", "processing", "completed", "failed"}, ChangesTo(r, from, to)
    PROVE  ServerTypeOK' /\ ServerOK'
  BY DEF ChangesTo, ServerTypeOK, ServerOK

(* Nobody else touches the tables.                                          *)
LEMMA NextServer ==
    ASSUME TrackingInv, [Next]_vars PROVE ServerTypeOK' /\ ServerOK'
<1>. ServerTypeOK /\ FormTypeOK /\ ServerOK
  BY DEF TrackingInv, TypeOK
<1>1. CASE \E c \in creations : HandleCreation(c)
  BY <1>1, CreationServer
<1>2. CASE \E r \in Requests : ClaimRequest(r) \/ SettleRequest(r) \/ RetryRequest(r)
  BY <1>2, RequestServer DEF ClaimRequest, SettleRequest, RetryRequest
<1>3. CASE UNCHANGED serverVars
  BY <1>3 DEF serverVars, ServerTypeOK, ServerOK
<1>4. CASE \E c \in creations : CreationAnswered(c) \/ CreationFails(c)
  BY <1>3, <1>4 DEF CreationAnswered, CreationFails
<1>5. CASE \E s \in Slices, p \in Portfolios : LoadEnds(s, p) \/ LoadRefused(s, p)
  BY <1>3, <1>5 DEF LoadEnds, LoadRefused
<1>6. CASE \E p \in polls : PollEnds(p)
  BY <1>3, <1>6 DEF PollEnds
<1>7. CASE \/ \E p \in Portfolios : SetActivePortfolio(p)
           \/ TimerFires \/ OpenModal \/ Edit \/ Submit \/ CloseModal
           \/ \E u \in Users : LoadPage(u)
           \/ Validated \/ ClearSession
  BY <1>3, <1>7 DEF SetActivePortfolio, TimerFires, OpenModal, Edit, Submit, CloseModal,
                    LoadPage, Validated, ClearSession
<1>8. CASE UNCHANGED vars
  BY <1>3, <1>8 DEF vars
<1>. QED BY <1>1, <1>2, <1>4, <1>5, <1>6, <1>7, <1>8 DEF Next

-----------------------------------------------------------------------------
(* The modal. *)

(* What two submissions that differ only in how far they are agree on.      *)
SameDraft(x, y) ==
    x.key = y.key /\ x.form = y.form /\ x.portfolio = y.portfolio /\ x.attempt = y.attempt

(* A step that submits nothing.                                             *)
NothingNew == \A x \in Sent' : \E y \in Sent : SameDraft(x, y)

(* The bounds count down.                                                   *)
LEMMA LeftFields ==
    ASSUME NEW b \in Budget
    PROVE  /\ {b.attempts, b.submits, b.switches, b.visits} \subseteq Nat
           /\ b.attempts > 0 => [b EXCEPT !.attempts = @ - 1] \in Budget
           /\ b.submits > 0 => [b EXCEPT !.submits = @ - 1] \in Budget
           /\ b.switches > 0 => [b EXCEPT !.switches = @ - 1] \in Budget
           /\ b.visits > 0 => [b EXCEPT !.visits = @ - 1] \in Budget
  BY DEF Budget

LEMMA SentFields ==
    ASSUME ServerTypeOK, FormTypeOK, NEW x \in Sent
    PROVE  /\ x.key \in Nat /\ x.attempt \in Nat
           /\ x.form \in Forms /\ x.portfolio \in Portfolios
  BY DEF ServerTypeOK, FormTypeOK, Sent, Creation, Operation

LEMMA CreationFields ==
    ASSUME NEW c \in Creation
    PROVE  /\ LET x == [c EXCEPT !.heard = FALSE]
              IN  /\ x \in Creation /\ SameDraft(x, c)
                  /\ x.at = c.at /\ x.request = c.request
           /\ \A r \in Requests :
                 LET x == [c EXCEPT !.at = "answered", !.request = r]
                 IN  x \in Creation /\ SameDraft(x, c) /\ x.request = r
  BY DEF Creation, SameDraft

(* Nothing new is sent, the modal keeps what it had or is closed.           *)
LEMMA QuietForm ==
    ASSUME ServerTypeOK, FormTypeOK, FormOK, FormTypeOK', NothingNew,
           left'.attempts = left.attempts, left'.submits = left.submits,
           \A o, q \in operations' : o.key = q.key => o = q,
           \A d \in creations' : d.at = "answered" => d.request \in Requests,
           \/ modal' = None
           \/ /\ modal # None /\ page' = page /\ active' = active
              /\ modal'.key = modal.key /\ modal'.keyForm = modal.keyForm
              /\ modal'.form = modal.form /\ modal'.attempt = modal.attempt
    PROVE  FormOK'
<1>1. ASSUME NEW x \in Sent' PROVE x.key > left'.submits /\ x.attempt > left'.attempts
  BY DEF NothingNew, SameDraft, FormOK, SentOK
<1>2. ASSUME NEW x \in Sent', NEW y \in Sent'
      PROVE  /\ x.attempt = y.attempt => x.key = y.key
             /\ x.key = y.key => x.form = y.form /\ x.portfolio = y.portfolio
  BY DEF NothingNew, SameDraft, FormOK, SentOK
<1>3. SentOK'
  BY <1>1, <1>2 DEF SentOK
<1>4. ASSUME modal' # None PROVE DraftOK'
  <2>1. DraftOK
    BY <1>4 DEF FormOK
  <2>2. ASSUME NEW x \in Sent'
        PROVE  /\ x.key = modal'.key => /\ x.form = modal'.keyForm
                                        /\ x.portfolio = active'
               /\ x.attempt = modal'.attempt => /\ x.key = modal'.key
                                                /\ modal'.keyForm = modal'.form
    BY <1>4, <2>1 DEF NothingNew, SameDraft, DraftOK
  <2>. QED BY <1>4, <2>1, <2>2 DEF DraftOK
<1>. QED BY <1>3, <1>4 DEF FormOK

(* The submission is answered with an operation that was recorded for it or *)
(* is new.                                                                  *)
LEMMA AnswersOne ==
    ASSUME ServerTypeOK, ServerOK, NEW c \in creations, HandleCreation(c)
    PROVE  creations' \subseteq creations \cup
               {[c EXCEPT !.at = "answered", !.request = r] : r \in Requests}
<1>. DEFINE Answered(r) == [c EXCEPT !.at = "answered", !.request = r]
<1>1. CASE Recorded(c) # {}
  <2>1. \A o \in Recorded(c) : o.request \in Requests
    BY DEF Recorded, ServerTypeOK, Operation
  <2>2. creations' = (creations \ {c}) \cup {Answered(o.request) : o \in Recorded(c)}
    BY <1>1 DEF HandleCreation
  <2>. QED BY <2>1, <2>2
<1>2. CASE Recorded(c) = {}
  <2>1. PICK r \in Requests : creations' = (creations \ {c}) \cup {Answered(r)}
    BY <1>2, RowForCreation DEF HandleCreation
  <2>. QED BY <2>1
<1>. QED BY <1>1, <1>2

(* The service records a submission.                                        *)
LEMMA CreationForm ==
    ASSUME ServerTypeOK, FormTypeOK, ServerOK, FormOK, NEW c \in creations, HandleCreation(c)
    PROVE  FormTypeOK' /\ FormOK'
<1>1. c.at = "sent" /\ UNCHANGED <<page, active, modal, left>>
  BY DEF HandleCreation
<1>. DEFINE Answered(r) == [c EXCEPT !.at = "answered", !.request = r]
<1>2. creations' \subseteq creations \cup {Answered(r) : r \in Requests}
  BY AnswersOne
<1>3. c \in Creation
  BY DEF FormTypeOK
<1>4. \A r \in Requests : Answered(r) \in Creation /\ SameDraft(Answered(r), c) /\ Answered(r).request = r
  BY <1>3, CreationFields
<1>. HIDE DEF Answered
<1>5. FormTypeOK'
  BY <1>1, <1>2, <1>4 DEF FormTypeOK
<1>6. \A d \in creations' : d.at = "answered" => d.request \in Requests
  BY <1>2, <1>4 DEF FormOK, SentOK
<1>7. \A x \in creations' : \E y \in creations : SameDraft(x, y)
  BY <1>2, <1>4 DEF SameDraft
<1>8. NothingNew /\ \A o, q \in operations' : o.key = q.key => o = q
  <2>1. CASE Recorded(c) # {}
    <3>1. operations' = operations
      BY <2>1 DEF HandleCreation, serverVars
    <3>. QED BY <1>7, <3>1 DEF NothingNew, Sent, SameDraft, FormOK, SentOK
  <2>2. CASE Recorded(c) = {}
    <3>0. PICK r \in Requests :
              operations' = operations \cup
                  {[key |-> c.key, form |-> c.form, portfolio |-> c.portfolio,
                    attempt |-> c.attempt, request |-> r]}
      BY <2>2, RowForCreation DEF HandleCreation
    <3>. DEFINE new == [key |-> c.key, form |-> c.form, portfolio |-> c.portfolio,
                        attempt |-> c.attempt, request |-> r]
    <3>1. operations' = operations \cup {new} /\ SameDraft(new, c)
      BY <3>0 DEF SameDraft
    <3>. HIDE DEF new
    <3>2. NothingNew
      BY <1>7, <3>1 DEF NothingNew, Sent, SameDraft
    <3>3. \A o \in operations : o.key # new.key
      BY <2>2, <3>1 DEF Recorded, SameDraft
    <3>. QED BY <3>1, <3>2, <3>3 DEF FormOK, SentOK
  <2>. QED BY <2>1, <2>2
<1>. QED BY <1>1, <1>5, <1>6, <1>8, QuietForm

(* The answer, or none, gets to the tab.                                    *)
LEMMA AnswerForm ==
    ASSUME ServerTypeOK, FormTypeOK, FormOK, NEW c \in creations,
           CreationAnswered(c) \/ CreationFails(c)
    PROVE  FormTypeOK' /\ FormOK'
<1>1. UNCHANGED <<operations, left, page>>
  BY DEF CreationAnswered, CreationFails, serverVars
<1>. DEFINE unheard == [c EXCEPT !.heard = FALSE]
<1>2. creations' \subseteq creations \cup {unheard}
  BY DEF CreationAnswered, CreationFails
<1>3. /\ unheard \in Creation /\ SameDraft(unheard, c)
      /\ unheard.at = c.at /\ unheard.request = c.request
  BY CreationFields DEF FormTypeOK
<1>. HIDE DEF unheard
<1>4. \A d \in creations' : d.at = "answered" => d.request \in Requests
  BY <1>2, <1>3 DEF FormOK, SentOK
<1>5. NothingNew
  BY <1>1, <1>2, <1>3 DEF NothingNew, SameDraft, Sent
<1>6. \/ modal' = None
      \/ modal # None /\ modal' = modal /\ active' = active
      \/ modal # None /\ modal' = [modal EXCEPT !.submitting = FALSE] /\ active' = active
  BY DEF CreationAnswered, CreationFails, ClearAgain, FormOK, DraftOK
<1>7. modal' \in Modal \cup {None}
  BY <1>6 DEF FormTypeOK, Modal
<1>8. modal' # None => /\ modal'.key = modal.key /\ modal'.keyForm = modal.keyForm
                       /\ modal'.form = modal.form /\ modal'.attempt = modal.attempt
  BY <1>6 DEF FormTypeOK, Modal
<1>9. FormTypeOK'
  BY <1>1, <1>2, <1>3, <1>7 DEF FormTypeOK
<1>. QED BY <1>1, <1>4, <1>5, <1>6, <1>8, <1>9, QuietForm DEF FormOK, SentOK

(* A form of its own: nothing that was sent has its number.                 *)
LEMMA OpenForm ==
    ASSUME ServerTypeOK, FormTypeOK, FormOK, PageTypeOK, OpenModal
    PROVE  FormTypeOK' /\ FormOK'
<1>1. /\ UNCHANGED <<operations, creations, page, active>>
      /\ page = "open" /\ active \in Portfolios /\ left.attempts > 0
  BY DEF OpenModal, serverVars, PageTypeOK
<1>2. left' = [left EXCEPT !.attempts = @ - 1]
  BY DEF OpenModal
<1>3. left' \in Budget /\ left.attempts \in Nat
      /\ left'.attempts = left.attempts - 1 /\ left'.submits = left.submits
  BY <1>1, <1>2, LeftFields DEF FormTypeOK, Budget
<1>4. PICK form \in Forms :
          modal' = [form |-> form, attempt |-> left.attempts, opening |-> left.attempts,
                    key |-> None, keyForm |-> None, submitting |-> FALSE]
  BY DEF OpenModal
<1>5. FormTypeOK'
  BY <1>1, <1>3, <1>4 DEF FormTypeOK, Modal
<1>6. \A x \in Sent : x.key # None /\ x.attempt > left.attempts
  BY SentFields, RefreshTrackingAssumptions DEF FormOK, SentOK
<1>7. SentOK'
  <2>1. \A x \in Sent : x.key > left'.submits /\ x.attempt > left'.attempts
    BY <1>3, SentFields DEF FormOK, SentOK
  <2>. QED BY <1>1, <2>1 DEF FormOK, SentOK, Sent
<1>8. DraftOK'
  <2>1. \A x \in Sent : x.attempt # left.attempts
    BY <1>3, <1>6, SentFields
  <2>. QED BY <1>1, <1>3, <1>4, <1>6, <2>1 DEF DraftOK, Sent
<1>. QED BY <1>5, <1>7, <1>8 DEF FormOK

LEMMA EditForm ==
    ASSUME ServerTypeOK, FormTypeOK, FormOK, Edit
    PROVE  FormTypeOK' /\ FormOK'
<1>1. /\ UNCHANGED <<operations, creations, page, active>>
      /\ modal \in Modal /\ modal # None /\ left.attempts > 0
  BY DEF Edit, serverVars, FormTypeOK
<1>2. left' = [left EXCEPT !.attempts = @ - 1]
  BY DEF Edit
<1>3. left' \in Budget /\ left.attempts \in Nat
      /\ left'.attempts = left.attempts - 1 /\ left'.submits = left.submits
  BY <1>1, <1>2, LeftFields DEF FormTypeOK, Budget
<1>4. PICK form \in Forms : modal' = [modal EXCEPT !.form = form, !.attempt = left.attempts]
  BY DEF Edit
<1>5. /\ modal' \in Modal
      /\ modal'.key = modal.key /\ modal'.keyForm = modal.keyForm
      /\ modal'.attempt = left.attempts
  BY <1>1, <1>3, <1>4 DEF Modal
<1>6. FormTypeOK'
  BY <1>1, <1>3, <1>5 DEF FormTypeOK
<1>7. SentOK'
  <2>1. \A x \in Sent : x.key > left'.submits /\ x.attempt > left'.attempts
    BY <1>3, SentFields DEF FormOK, SentOK
  <2>. QED BY <1>1, <2>1 DEF FormOK, SentOK, Sent
<1>8. DraftOK'
  <2>1. \A x \in Sent : x.attempt # left.attempts
    BY <1>3, SentFields DEF FormOK, SentOK
  <2>. QED BY <1>1, <1>3, <1>5, <2>1 DEF DraftOK, Sent, FormOK
<1>. QED BY <1>6, <1>7, <1>8 DEF FormOK

(* The key is the one this form was sent with, or a fresh one.              *)
LEMMA SubmitForm ==
    ASSUME ServerTypeOK, FormTypeOK, FormOK, Submit
    PROVE  FormTypeOK' /\ FormOK'
<1>. DEFINE key == IF KeepsKey THEN modal.key ELSE left.submits
            new == [key |-> key, form |-> modal.form, portfolio |-> active,
                    attempt |-> modal.attempt, opening |-> modal.opening,
                    at |-> "sent", request |-> None, heard |-> TRUE]
<1>1. /\ UNCHANGED <<operations, page, active>>
      /\ modal \in Modal /\ modal # None /\ left.submits > 0 /\ DraftOK
  BY DEF Submit, serverVars, FormTypeOK, FormOK
<1>2. left' = [left EXCEPT !.submits = @ - 1]
  BY DEF Submit
<1>3. left' \in Budget /\ left.submits \in Nat /\ left.attempts \in Nat
      /\ left'.submits = left.submits - 1 /\ left'.attempts = left.attempts
  BY <1>1, <1>2, LeftFields DEF FormTypeOK, Budget
<1>4. key \in Nat /\ key >= left.submits
  BY <1>1, <1>3 DEF KeepsKey, Modal, DraftOK
<1>5. /\ creations' = creations \cup {new}
      /\ modal' = [modal EXCEPT !.key = key, !.keyForm = IF KeepsKey THEN @ ELSE modal.form,
                                !.submitting = TRUE]
  BY DEF Submit
<1>6. /\ new \in Creation
      /\ new.key = key /\ new.form = modal.form /\ new.portfolio = active
      /\ new.attempt = modal.attempt /\ new.at = "sent"
  BY <1>1, <1>4 DEF Creation, Modal, DraftOK
<1>7. /\ modal' \in Modal
      /\ modal'.key = key /\ modal'.form = modal.form /\ modal'.keyForm = modal.form
      /\ modal'.attempt = modal.attempt
  BY <1>1, <1>4, <1>5 DEF Modal, KeepsKey
<1>8. \A x \in Sent : x.key = key => x.form = modal.form /\ x.portfolio = active
  BY <1>1, <1>3, SentFields DEF FormOK, SentOK, DraftOK, KeepsKey
<1>9. \A x \in Sent : x.attempt = modal.attempt => x.key = key
  BY <1>1, SentFields, RefreshTrackingAssumptions DEF DraftOK, KeepsKey
<1>10. Sent' = Sent \cup {new}
  BY <1>1, <1>5 DEF Sent
<1>11. /\ \A x \in Sent : x.key > left'.submits /\ x.attempt > left'.attempts
       /\ new.key > left'.submits /\ new.attempt > left'.attempts
  BY <1>1, <1>3, <1>4, <1>6, SentFields DEF FormOK, SentOK, DraftOK
<1>. HIDE DEF key, new
<1>12. FormTypeOK'
  BY <1>1, <1>3, <1>5, <1>6, <1>7 DEF FormTypeOK
<1>13. SentOK'
  <2>1. \A x, y \in Sent' : x.attempt = y.attempt => x.key = y.key
    BY <1>6, <1>9, <1>10 DEF FormOK, SentOK
  <2>2. \A x, y \in Sent' : x.key = y.key => x.form = y.form /\ x.portfolio = y.portfolio
    BY <1>6, <1>8, <1>10 DEF FormOK, SentOK
  <2>3. \A c \in creations' : c.at = "answered" => c.request \in Requests
    BY <1>5, <1>6 DEF FormOK, SentOK
  <2>. QED BY <1>1, <1>10, <1>11, <2>1, <2>2, <2>3 DEF FormOK, SentOK
<1>14. DraftOK'
  BY <1>1, <1>3, <1>4, <1>6, <1>7, <1>8, <1>9, <1>10 DEF DraftOK
<1>. QED BY <1>12, <1>13, <1>14 DEF FormOK

(* A page that is loaded hears of nothing that was sent before.             *)
LEMMA LoadForm ==
    ASSUME ServerTypeOK, FormTypeOK, FormOK, NEW u \in Users, LoadPage(u)
    PROVE  FormTypeOK' /\ FormOK'
<1>. DEFINE Unheard(c) == [c EXCEPT !.heard = FALSE]
<1>1. UNCHANGED operations /\ modal' = None /\ left.visits > 0
  BY DEF LoadPage, serverVars
<1>2. left' = [left EXCEPT !.visits = @ - 1]
  BY DEF LoadPage
<1>3. left' \in Budget /\ left'.attempts = left.attempts /\ left'.submits = left.submits
  BY <1>1, <1>2, LeftFields DEF FormTypeOK, Budget
<1>4. creations' \subseteq {Unheard(c) : c \in creations}
  BY DEF LoadPage
<1>5. \A c \in creations : /\ Unheard(c) \in Creation /\ SameDraft(Unheard(c), c)
                           /\ Unheard(c).at = c.at /\ Unheard(c).request = c.request
  BY CreationFields DEF FormTypeOK
<1>. HIDE DEF Unheard
<1>6. NothingNew
  BY <1>1, <1>4, <1>5 DEF NothingNew, Sent, SameDraft
<1>7. \A d \in creations' : d.at = "answered" => d.request \in Requests
  BY <1>4, <1>5 DEF FormOK, SentOK
<1>8. FormTypeOK'
  BY <1>1, <1>3, <1>4, <1>5 DEF FormTypeOK
<1>. QED BY <1>1, <1>3, <1>6, <1>7, <1>8, QuietForm DEF FormOK, SentOK

(* Nothing is sent, and the modal stays as it is on its portfolio, or none  *)
(* is open.                                                                 *)
LEMMA RestForm ==
    ASSUME ServerTypeOK, FormTypeOK, FormOK, UNCHANGED <<operations, creations>>,
           left' \in Budget, left'.attempts = left.attempts, left'.submits = left.submits,
           modal' = None \/ (modal # None /\ UNCHANGED <<modal, page, active>>)
    PROVE  FormTypeOK' /\ FormOK'
<1>1. FormTypeOK'
  BY DEF FormTypeOK
<1>2. NothingNew
  BY DEF NothingNew, Sent, SameDraft
<1>. QED BY <1>1, <1>2, QuietForm DEF FormOK, SentOK

LEMMA NextForm ==
    ASSUME TrackingInv, [Next]_vars PROVE FormTypeOK' /\ FormOK'
<1>. ServerTypeOK /\ FormTypeOK /\ PageTypeOK /\ ServerOK /\ FormOK
  BY DEF TrackingInv, TypeOK
<1>. left \in Budget
  BY DEF FormTypeOK
<1>. modal # None => page = "open"
  BY DEF FormOK, DraftOK
<1>1. CASE \E c \in creations : HandleCreation(c) \/ CreationAnswered(c) \/ CreationFails(c)
  BY <1>1, CreationForm, AnswerForm
<1>2. CASE OpenModal \/ Edit \/ Submit
  BY <1>2, OpenForm, EditForm, SubmitForm
<1>3. CASE \E u \in Users : LoadPage(u)
  BY <1>3, LoadForm
<1>4. CASE \E p \in Portfolios : SetActivePortfolio(p)
  <2>1. /\ UNCHANGED <<operations, creations>> /\ modal' = None
        /\ left.switches > 0 /\ left' = [left EXCEPT !.switches = @ - 1]
    BY <1>4 DEF SetActivePortfolio, serverVars
  <2>2. left' \in Budget /\ left'.attempts = left.attempts /\ left'.submits = left.submits
    BY <2>1, LeftFields DEF Budget
  <2>. QED BY <2>1, <2>2, RestForm
<1>5. CASE UNCHANGED <<operations, creations, left>> /\
           (modal' = None \/ (modal # None /\ UNCHANGED <<modal, page, active>>))
  BY <1>5, RestForm
<1>6. CASE \E r \in Requests : ClaimRequest(r) \/ SettleRequest(r) \/ RetryRequest(r)
  BY <1>5, <1>6 DEF ClaimRequest, SettleRequest, RetryRequest, ChangesTo, formVars
<1>7. CASE \E s \in Slices, p \in Portfolios : LoadEnds(s, p) \/ LoadRefused(s, p)
  BY <1>5, <1>7 DEF LoadEnds, LoadRefused, ClearAgain, serverVars, formVars
<1>8. CASE \E p \in polls : PollEnds(p)
  BY <1>5, <1>8 DEF PollEnds, ClearAgain, PollIsStale, PollNotFound, PollSettled,
                    PollUnsettled, PollFails, serverVars
<1>9. CASE TimerFires \/ CloseModal \/ Validated \/ ClearSession
  BY <1>5, <1>9 DEF TimerFires, CloseModal, Validated, ClearSession, serverVars, formVars
<1>10. CASE UNCHANGED vars
  BY <1>5, <1>10 DEF vars, serverVars, formVars
<1>. QED BY <1>1, <1>2, <1>3, <1>4, <1>6, <1>7, <1>8, <1>9, <1>10 DEF Next

-----------------------------------------------------------------------------
(* The tracking. *)

(* n numbers and one more leave one out of n + 2.                           *)
LEMMA OneIsLeft ==
    ASSUME NEW S, IsFiniteSet(S), NEW n \in Nat, Cardinality(S) <= n, NEW g
    PROVE  \E k \in 0 .. n + 1 : k \notin S /\ k # g
<1>. DEFINE T == S \cup {g}
            I == 0 .. n + 1
<1>1. Cardinality(S) \in Nat
  BY FS_CardinalityType
<1>2. IsFiniteSet(T) /\ Cardinality(T) = IF g \in S THEN Cardinality(S) ELSE Cardinality(S) + 1
  BY FS_AddElement
<1>3. Cardinality(T) \in Nat /\ Cardinality(T) <= n + 1
  BY <1>1, <1>2
<1>4. 0 \in Int /\ n + 1 \in Int /\ ~(0 > n + 1) /\ (n + 1) - 0 + 1 = n + 2
  OBVIOUS
<1>5. Cardinality(I) = n + 2
  <2>1. Cardinality(0 .. n + 1) = IF 0 > n + 1 THEN 0 ELSE (n + 1) - 0 + 1
    BY <1>4, FS_Interval
  <2>. QED BY <1>4, <2>1
<1>6. ~ I \subseteq T
  <2>. SUFFICES ASSUME I \subseteq T PROVE FALSE
    OBVIOUS
  <2>1. Cardinality(I) <= Cardinality(T)
    <3>. HIDE DEF I, T
    <3>. QED BY <1>2, FS_Subset
  <2>. HIDE DEF I, T
  <2>. QED BY <1>3, <1>5, <2>1
<1>. QED BY <1>6

(* There is a generation that no poll remembers.                            *)
LEMMA FreshGeneration ==
    ASSUME TrackingTypeOK, IsFiniteSet(polls)
    PROVE  /\ NewGeneration \in Nat
           /\ NewGeneration # tracking.generation
           /\ \A p \in polls : p.generation # NewGeneration
<1>. DEFINE n == Cardinality(polls)
            known == {p.generation : p \in polls}
            f == [p \in polls |-> p.generation]
<1>1. n \in Nat
  BY FS_CardinalityType
<1>2. f \in Surjection(polls, known)
  BY DEF Surjection
<1>3. IsFiniteSet(known) /\ Cardinality(known) <= n
  BY <1>2, FS_Surjection
<1>4. \E g \in 0 .. n + 1 : g \notin known /\ g # tracking.generation
  <2>. HIDE DEF known, n
  <2>. QED BY <1>1, <1>3, OneIsLeft
<1>5. /\ NewGeneration \in 0 .. n + 1
      /\ NewGeneration # tracking.generation
      /\ \A p \in polls : p.generation # NewGeneration
  BY <1>4 DEF NewGeneration
<1>. QED BY <1>1, <1>5

(* A new generation: no poll is of it, whether others end or not.           *)
LEMMA ResetTracking ==
    ASSUME TrackingTypeOK, TrackingOK, Reset, polls' \subseteq polls
    PROVE  TrackingTypeOK' /\ TrackingOK'
<1>1. /\ NewGeneration \in Nat
      /\ \A p \in polls : p.generation # NewGeneration
  BY FreshGeneration DEF TrackingOK
<1>2. /\ tracking' = [request |-> None, status |-> "idle", generation |-> NewGeneration]
      /\ timer' = None /\ persisted' = None
  BY DEF Reset, NotTracking
<1>3. TrackingTypeOK'
  BY <1>1, <1>2 DEF TrackingTypeOK
<1>4. Polling' = {} /\ ~Due' /\ ~Following'
  BY <1>1, <1>2 DEF Polling, Due, Following
<1>5. IsFiniteSet(polls')
  BY FS_Subset DEF TrackingOK
<1>. QED BY <1>2, <1>3, <1>4, <1>5 DEF TrackingOK, UnsettledIsPersisted

(* A first poll of a new generation is the only one of it.                  *)
LEMMA StartTracks ==
    ASSUME TrackingTypeOK, TrackingOK, NEW r \in Requests, StartTracking(r), persisted' = r
    PROVE  TrackingTypeOK' /\ TrackingOK'
<1>. DEFINE g == NewGeneration
            first == [generation |-> g, request |-> r, attempt |-> 1]
<1>1. g \in Nat /\ \A p \in polls : p.generation # g
  BY FreshGeneration DEF TrackingOK
<1>. HIDE DEF g
<1>2. /\ tracking' = [request |-> r, status |-> "pending", generation |-> g]
      /\ timer' = None /\ polls' = polls \cup {first}
  BY DEF StartTracking, PollOf, g
<1>3. TrackingTypeOK'
  BY <1>1, <1>2 DEF TrackingTypeOK
<1>4. Polling' = {first} /\ first \in polls' /\ first.request = r
  BY <1>1, <1>2 DEF Polling
<1>5. ~Due' /\ Following' /\ tracking'.request = r
  BY <1>2 DEF Due, Following
<1>6. r # None
  BY RefreshTrackingAssumptions DEF Requests
<1>7. IsFiniteSet(polls')
  BY <1>2, FS_AddElement DEF TrackingOK
<1>8. PolledOnce'
  BY <1>4, <1>5 DEF PolledOnce
<1>. QED BY <1>2, <1>3, <1>5, <1>6, <1>7, <1>8 DEF TrackingOK, UnsettledIsPersisted

LEMMA SameTracking ==
    ASSUME TrackingTypeOK, TrackingOK, UNCHANGED trackingVars
    PROVE  TrackingTypeOK' /\ TrackingOK'
  BY DEF TrackingTypeOK, TrackingOK, trackingVars, UnsettledIsPersisted, Polling, Due, Following,
         PolledOnce

LEMMA TimerFields ==
    ASSUME NEW n \in {"poll", "clear"}, NEW k \in Nat
    PROVE  /\ [next |-> n, attempt |-> k] \in Timer
           /\ [next |-> n, attempt |-> k] # None
  BY RefreshTrackingAssumptions DEF Timer

(* The answer to the one poll of this generation settles the refresh, or    *)
(* sets the timer.                                                          *)
LEMMA PollTracking ==
    ASSUME TrackingTypeOK, TrackingOK, NEW p \in polls, PollEnds(p)
    PROVE  TrackingTypeOK' /\ TrackingOK'
<1>1. polls' = polls \ {p} /\ IsFiniteSet(polls')
  BY FS_RemoveElement DEF PollEnds, TrackingOK
<1>2. p.generation \in Nat /\ p.request \in Requests /\ p.attempt \in Nat
  BY DEF TrackingTypeOK
<1>3. CASE ClearAgain
  BY <1>1, <1>3, ResetTracking DEF ClearAgain
<1>4. CASE PollIsStale(p)
  <2>1. p.generation # tracking.generation /\ UNCHANGED <<tracking, timer, persisted>>
    BY <1>4 DEF PollIsStale
  <2>2. Polling' = Polling
    BY <1>1, <2>1 DEF Polling
  <2>3. PolledOnce => PolledOnce'
    BY <1>1, <2>1, <2>2 DEF PolledOnce, Due, Polling
  <2>. QED BY <1>1, <2>1, <2>2, <2>3
       DEF TrackingTypeOK, TrackingOK, Following, Due, UnsettledIsPersisted
<1>5. CASE /\ p.generation = tracking.generation
           /\ PollNotFound(p) \/ PollSettled(p) \/ PollUnsettled(p) \/ PollFails(p)
  <2>1. p \in Polling
    BY <1>5 DEF Polling
  <2>2. Following /\ ~Due /\ Polling = {p} /\ tracking.request # None
    BY <2>1 DEF TrackingOK, PolledOnce
  <2>3. timer = None
    BY <2>2 DEF TrackingOK, TrackingTypeOK, Following, Due, Timer
  <2>4. persisted = tracking.request
    BY <2>2 DEF TrackingOK, UnsettledIsPersisted, Following
  <2>5. tracking'.generation = tracking.generation
    BY <1>5 DEF PollNotFound, PollSettled, PollUnsettled, PollFails, NotTracking, TrackingTypeOK
  <2>6. Polling' = {}
    BY <1>1, <2>2, <2>5 DEF Polling
  <2>7. CASE PollNotFound(p)
    <3>1. /\ tracking' = [request |-> None, status |-> "idle",
                          generation |-> tracking.generation]
          /\ persisted' = None /\ timer' = None
      BY <2>3, <2>7 DEF PollNotFound, NotTracking
    <3>. QED BY <1>1, <2>6, <3>1
         DEF TrackingTypeOK, TrackingOK, Following, Due, UnsettledIsPersisted
  <2>8. CASE PollSettled(p)
    <3>1. PICK end \in {"completed", "failed"} : tracking' = [tracking EXCEPT !.status = end]
      BY <2>8 DEF PollSettled
    <3>2. /\ persisted' = None
          /\ timer' = None \/ (end = "completed" /\ timer' = [next |-> "clear", attempt |-> 0])
      <4>1. CASE requests[p.request].status = "completed"
        BY <2>8, <3>1, <4>1 DEF PollSettled, TrackingTypeOK
      <4>2. CASE requests[p.request].status # "completed"
        BY <2>3, <2>8, <4>2 DEF PollSettled
      <4>. QED BY <4>1, <4>2
    <3>3. timer' \in Timer \cup {None}
      BY <3>2, TimerFields
    <3>4. ~Due'
      BY <3>2 DEF Due
    <3>5. tracking'.status = end /\ TrackingTypeOK'
      BY <1>1, <3>1, <3>2, <3>3 DEF TrackingTypeOK
    <3>. QED BY <1>1, <2>6, <3>2, <3>4, <3>5 DEF TrackingOK, Following, UnsettledIsPersisted
  <2>9. CASE PollUnsettled(p) \/ PollFails(p)
    <3>1. /\ timer' = [next |-> "poll", attempt |-> p.attempt + 1]
          /\ UNCHANGED persisted
      BY <2>9 DEF PollUnsettled, PollFails, PollLater
    <3>2. \/ tracking' = tracking
          \/ \E s \in {"pending", "processing"} : tracking' = [tracking EXCEPT !.status = s]
      BY <2>9 DEF PollUnsettled, PollFails
    <3>3. /\ tracking'.request = tracking.request
          /\ tracking'.status \in {"pending", "processing"}
      BY <2>2, <3>2 DEF TrackingTypeOK, Following
    <3>4. TrackingTypeOK'
      BY <1>1, <1>2, <2>4, <3>1, <3>2, TimerFields DEF TrackingTypeOK
    <3>5. Due' /\ timer'.next = "poll"
      BY <1>2, <3>1, TimerFields DEF Due
    <3>. QED BY <1>1, <2>2, <2>4, <2>6, <3>1, <3>3, <3>4, <3>5
         DEF TrackingOK, PolledOnce, Following, UnsettledIsPersisted
  <2>. QED BY <1>5, <2>7, <2>8, <2>9
<1>. QED BY <1>3, <1>4, <1>5 DEF PollEnds

(* The timer stands for the poll to come.                                   *)
LEMMA TimerTracking ==
    ASSUME TrackingTypeOK, TrackingOK, TimerFires
    PROVE  TrackingTypeOK' /\ TrackingOK'
<1>1. timer # None /\ timer' = None /\ timer \in Timer
  BY DEF TimerFires, TrackingTypeOK
<1>2. CASE timer.next = "clear"
  <2>1. tracking.status = "completed" /\ Polling = {}
    BY <1>1, <1>2 DEF TrackingOK, Following
  <2>2. /\ tracking' = [request |-> None, status |-> "idle", generation |-> tracking.generation]
        /\ UNCHANGED <<polls, persisted>>
    BY <1>2 DEF TimerFires, NotTracking
  <2>3. Polling' = {}
    BY <2>1, <2>2 DEF Polling
  <2>. QED BY <1>1, <2>2, <2>3
       DEF TrackingTypeOK, TrackingOK, Following, Due, UnsettledIsPersisted
<1>3. CASE timer.next = "poll"
  <2>1. Due /\ Following /\ Polling = {} /\ tracking.request # None
    BY <1>1, <1>3 DEF Due, TrackingOK, PolledOnce
  <2>2. persisted = tracking.request
    BY <2>1 DEF TrackingOK, UnsettledIsPersisted, Following
  <2>3. CASE tracking' = [tracking EXCEPT !.status = "timed_out"] /\ UNCHANGED <<polls, persisted>>
    <3>1. /\ tracking'.status = "timed_out" /\ tracking'.request = tracking.request
          /\ tracking'.generation = tracking.generation
      BY <2>3 DEF TrackingTypeOK
    <3>2. Polling' = {}
      BY <2>1, <2>3, <3>1 DEF Polling
    <3>3. TrackingTypeOK'
      BY <1>1, <2>3 DEF TrackingTypeOK
    <3>. QED BY <1>1, <2>2, <2>3, <3>1, <3>2, <3>3
         DEF TrackingOK, Following, Due, UnsettledIsPersisted
  <2>4. CASE /\ polls' = polls \cup
                    {PollOf(tracking.generation, tracking.request, timer.attempt)}
             /\ UNCHANGED <<tracking, persisted>>
    <3>. DEFINE next == PollOf(tracking.generation, tracking.request, timer.attempt)
    <3>1. /\ next \in [generation : Nat, request : Requests, attempt : Nat]
          /\ next.generation = tracking.generation /\ next.request = tracking.request
      BY <1>1, <2>1 DEF PollOf, TrackingTypeOK, Timer
    <3>. HIDE DEF next
    <3>2. Polling' = {next}
      BY <2>1, <2>4, <3>1 DEF Polling, next
    <3>3. IsFiniteSet(polls')
      BY <2>4, FS_AddElement DEF TrackingOK, next
    <3>4. PolledOnce' /\ ~Due' /\ Following'
      BY <1>1, <2>1, <2>4, <3>1, <3>2 DEF PolledOnce, Due, Following, next
    <3>5. TrackingTypeOK'
      BY <1>1, <2>4, <3>1 DEF TrackingTypeOK, next
    <3>. QED BY <1>1, <2>1, <2>2, <2>4, <3>3, <3>4, <3>5
         DEF TrackingOK, Following, UnsettledIsPersisted
  <2>. QED BY <1>3, <2>3, <2>4 DEF TimerFires, TimedOut
<1>. QED BY <1>1, <1>2, <1>3 DEF Timer

(* A page that is loaded starts without polls, and goes on with what the    *)
(* sessionStorage names.                                                    *)
LEMMA PageTracking ==
    ASSUME TrackingTypeOK, TrackingOK, LoadingOK, Validated \/ \E u \in Users : LoadPage(u)
    PROVE  TrackingTypeOK' /\ TrackingOK'
<1>1. CASE \E u \in Users : LoadPage(u)
  <2>1. /\ tracking' = [request |-> None, status |-> "idle", generation |-> 0]
        /\ timer' = None /\ polls' = {} /\ UNCHANGED persisted
    BY <1>1 DEF LoadPage, NotTracking
  <2>. QED BY <2>1, FS_EmptySet
       DEF TrackingTypeOK, TrackingOK, Following, Due, Polling, UnsettledIsPersisted
<1>2. CASE Validated
  <2>1. CASE UNCHANGED trackingVars
    BY <2>1, SameTracking
  <2>2. CASE persisted' = None /\ UNCHANGED <<tracking, timer, polls>> /\ page = "loading"
    <3>1. tracking.status = "idle"
      BY <2>2 DEF LoadingOK
    <3>2. ~Following /\ Polling = {} /\ ~Due
      BY <3>1 DEF TrackingOK, Following
    <3>. QED BY <2>2, <3>1, <3>2
         DEF TrackingTypeOK, TrackingOK, Following, Due, Polling, UnsettledIsPersisted
  <2>3. CASE persisted # None /\ StartTracking(persisted) /\ UNCHANGED persisted
    BY <2>3, StartTracks DEF TrackingTypeOK
  <2>. QED BY <1>2, <2>1, <2>2, <2>3 DEF Validated, ResumeFromStorage
<1>. QED BY <1>1, <1>2

(* The rest of what happens leaves the tracking alone.                      *)
LEMMA NextTracking ==
    ASSUME TrackingInv, [Next]_vars PROVE TrackingTypeOK' /\ TrackingOK'
<1>. TrackingTypeOK /\ TrackingOK /\ FormTypeOK /\ FormOK /\ LoadingOK
  BY DEF TrackingInv, TypeOK
<1>1. CASE \E c \in creations : CreationAnswered(c)
  <2>1. PICK c \in creations : CreationAnswered(c)
    BY <1>1
  <2>2. c.request \in Requests
    BY <2>1 DEF CreationAnswered, FormOK, SentOK
  <2>. QED BY <2>1, <2>2, StartTracks DEF CreationAnswered, Track
<1>2. CASE Reset /\ UNCHANGED polls
  BY <1>2, ResetTracking
<1>3. CASE UNCHANGED trackingVars
  BY <1>3, SameTracking
<1>4. CASE \E c \in creations : HandleCreation(c) \/ CreationFails(c)
  BY <1>2, <1>3, <1>4 DEF HandleCreation, CreationFails, ClearAgain
<1>5. CASE \E r \in Requests : ClaimRequest(r) \/ SettleRequest(r) \/ RetryRequest(r)
  BY <1>3, <1>5 DEF ClaimRequest, SettleRequest, RetryRequest, ChangesTo
<1>6. CASE \E s \in Slices, p \in Portfolios : LoadEnds(s, p) \/ LoadRefused(s, p)
  BY <1>2, <1>3, <1>6 DEF LoadEnds, LoadRefused, ClearAgain
<1>7. CASE ClearSession \/ \E p \in Portfolios : SetActivePortfolio(p)
  BY <1>2, <1>3, <1>7 DEF ClearSession, SetActivePortfolio
<1>8. CASE OpenModal \/ Edit \/ Submit \/ CloseModal
  BY <1>3, <1>8 DEF OpenModal, Edit, Submit, CloseModal
<1>9. CASE UNCHANGED vars
  BY <1>3, <1>9 DEF vars
<1>. QED BY <1>1, <1>4, <1>5, <1>6, <1>7, <1>8, <1>9, PollTracking, TimerTracking, PageTracking
     DEF Next

LEMMA NextLoading ==
    ASSUME TrackingInv, [Next]_vars PROVE LoadingOK'
<1>. FormTypeOK /\ TrackingTypeOK /\ FormOK /\ LoadingOK /\ TrackingOK
  BY DEF TrackingInv, TypeOK
<1>. SUFFICES ASSUME page' = "loading"
     PROVE  tracking'.status = "idle" /\ \A c \in creations' : ~c.heard
  BY DEF LoadingOK
<1>1. CASE \E u \in Users : LoadPage(u)
  <2>1. /\ tracking' = NotTracking(0)
        /\ creations' = {[c EXCEPT !.heard = FALSE] : c \in {d \in creations : d.at = "sent"}}
    BY <1>1 DEF LoadPage
  <2>. QED BY <2>1 DEF NotTracking, FormTypeOK, Creation
<1>2. CASE page = "loading" /\ UNCHANGED <<tracking, creations>>
  BY <1>2 DEF LoadingOK
<1>3. CASE \E c \in creations : HandleCreation(c) \/ CreationAnswered(c) \/ CreationFails(c)
  <2>1. PICK c \in creations : HandleCreation(c) \/ CreationAnswered(c) \/ CreationFails(c)
    BY <1>3
  <2>2. page = "loading"
    BY <2>1 DEF HandleCreation, CreationAnswered, CreationFails
  <2>3. ~c.heard /\ c \in Creation
    BY <2>2 DEF LoadingOK, FormTypeOK
  <2>4. HandleCreation(c)
    BY <2>1, <2>3 DEF CreationAnswered, CreationFails
  <2>5. \A r \in Requests : ~[c EXCEPT !.at = "answered", !.request = r].heard
    BY <2>3 DEF Creation
  <2>6. creations' \subseteq creations \cup
            {[c EXCEPT !.at = "answered", !.request = r] : r \in Requests}
    BY <2>4, AnswersOne DEF TrackingInv, TypeOK
  <2>7. tracking' = tracking
    BY <2>4 DEF HandleCreation, trackingVars
  <2>. QED BY <2>2, <2>5, <2>6, <2>7 DEF LoadingOK
<1>4. CASE \E r \in Requests : ClaimRequest(r) \/ SettleRequest(r) \/ RetryRequest(r)
  BY <1>2, <1>4 DEF ClaimRequest, SettleRequest, RetryRequest, ChangesTo, formVars, trackingVars
<1>5. CASE \E s \in Slices, p \in Portfolios : LoadEnds(s, p) \/ LoadRefused(s, p)
  BY <1>2, <1>5 DEF LoadEnds, LoadRefused, ClearAgain, formVars, trackingVars
<1>6. CASE \E p \in polls : PollEnds(p)
  <2>1. PICK p \in polls : PollEnds(p)
    BY <1>6
  <2>2. page = "loading"
    BY <2>1 DEF PollEnds, ClearAgain, PollIsStale, PollNotFound, PollSettled, PollUnsettled,
                PollFails
  <2>3. ~Following
    BY <2>2 DEF LoadingOK, Following
  <2>4. p.generation # tracking.generation
    BY <2>3 DEF TrackingOK, Polling
  <2>. QED BY <1>2, <2>1, <2>2, <2>4 DEF PollEnds, ClearAgain, PollIsStale
<1>7. CASE TimerFires
  <2>1. page = "loading" /\ UNCHANGED creations
    BY <1>7 DEF TimerFires, formVars
  <2>2. ~Following /\ tracking.status # "completed"
    BY <2>1 DEF LoadingOK, Following
  <2>3. timer = None
    BY <2>2 DEF TrackingOK, TrackingTypeOK, Due, Timer
  <2>. QED BY <1>7, <2>3 DEF TimerFires
<1>8. CASE OpenModal \/ Edit \/ Submit \/ CloseModal
  BY <1>2, <1>8 DEF OpenModal, Edit, Submit, CloseModal, trackingVars, FormOK, DraftOK
<1>9. CASE Validated \/ ClearSession \/ \E p \in Portfolios : SetActivePortfolio(p)
  BY <1>9 DEF Validated, ClearSession, SetActivePortfolio
<1>10. CASE UNCHANGED vars
  BY <1>2, <1>10 DEF vars, formVars, trackingVars
<1>. QED BY <1>1, <1>3, <1>4, <1>5, <1>6, <1>7, <1>8, <1>9, <1>10 DEF Next

-----------------------------------------------------------------------------
(* The read models. *)

(* What Watch makes of any state of the store is the selected portfolio's.  *)
LEMMA WatchShows ==
    ASSUME NEW m \in Models, NEW l \in [Slices -> SUBSET (Portfolios \cup {None})],
           NEW p \in Portfolios \cup {None}, Watch(m, l, p),
           p # None =>
               \A s \in Slices : m.portfolio = p /\ m.slice[s].status = "success" =>
                                    m.slice[s].of = p
    PROVE  /\ models' \in Models /\ loads' \in [Slices -> SUBSET (Portfolios \cup {None})]
           /\ p # None =>
                 \A s \in Slices : /\ models'.portfolio = p
                                   /\ models'.slice[s].status = "success" =>
                                         models'.slice[s].of = p
<1>. DEFINE S == IF p = None THEN {} ELSE Missing(m, p)
<1>1. models' = (IF S = {} THEN m ELSE Loading(m, S, p)) /\ loads' = Asked(l, S, p)
  BY DEF Watch
<1>2. S \subseteq Slices
  BY DEF Missing
<1>3. loads' \in [Slices -> SUBSET (Portfolios \cup {None})]
  <2>. HIDE DEF S
  <2>. QED BY <1>1 DEF Asked
<1>4. CASE S = {}
  BY <1>1, <1>3, <1>4 DEF Missing
<1>5. CASE S # {}
  <2>. HIDE DEF S
  <2>1. models' = Loading(m, S, p)
    BY <1>1, <1>5
  <2>2. models' \in Models
    BY <2>1 DEF Loading, Models
  <2>3. models'.portfolio = p
    BY <2>1 DEF Loading
  <2>4. ASSUME NEW s \in Slices, p # None, models'.slice[s].status = "success"
        PROVE  models'.slice[s].of = p
    <3>1. s \notin S
      BY <2>1, <2>4 DEF Loading, Models
    <3>2. models'.slice[s] = m.slice[s]
      BY <2>1, <3>1 DEF Loading
    <3>3. m.portfolio = p
      BY <2>4, <3>1 DEF S, Missing
    <3>. QED BY <2>4, <3>2, <3>3
  <2>. QED BY <1>3, <2>2, <2>3, <2>4
<1>. QED BY <1>4, <1>5

(* The slices are those of the budget that a behaviour began with.          *)
LEMMA SlicesStay ==
    ASSUME TrackingInv, [Next]_vars PROVE Slices' = Slices
<1>. left \in Budget
  BY DEF TrackingInv, TypeOK, FormTypeOK
<1>1. \/ left' = left
      \/ left' = [left EXCEPT !.attempts = @ - 1]
      \/ left' = [left EXCEPT !.submits = @ - 1]
      \/ left' = [left EXCEPT !.switches = @ - 1]
      \/ left' = [left EXCEPT !.visits = @ - 1]
  <2>1. CASE \E c \in creations : HandleCreation(c) \/ CreationAnswered(c) \/ CreationFails(c)
    BY <2>1 DEF HandleCreation, CreationAnswered, CreationFails
  <2>2. CASE \E r \in Requests : ClaimRequest(r) \/ SettleRequest(r) \/ RetryRequest(r)
    BY <2>2 DEF ClaimRequest, SettleRequest, RetryRequest, ChangesTo, formVars
  <2>3. CASE \E s \in Slices, p \in Portfolios : LoadEnds(s, p) \/ LoadRefused(s, p)
    BY <2>3 DEF LoadEnds, LoadRefused, formVars
  <2>4. CASE \/ \E p \in Portfolios : SetActivePortfolio(p)
             \/ \E u \in Users : LoadPage(u)
    BY <2>4 DEF SetActivePortfolio, LoadPage
  <2>5. CASE \E p \in polls : PollEnds(p)
    BY <2>5 DEF PollEnds
  <2>6. CASE TimerFires \/ Validated \/ ClearSession
    BY <2>6 DEF TimerFires, Validated, ClearSession, formVars
  <2>7. CASE OpenModal \/ Edit \/ Submit \/ CloseModal
    BY <2>7 DEF OpenModal, Edit, Submit, CloseModal
  <2>8. CASE UNCHANGED vars
    BY <2>8 DEF vars, formVars
  <2>. QED BY <2>1, <2>2, <2>3, <2>4, <2>5, <2>6, <2>7, <2>8 DEF Next
<1>. QED BY <1>1 DEF Slices, Budget

(* Nothing is shown of a session that has ended.                            *)
LEMMA ClearedPage ==
    ASSUME PageTypeOK, Slices' = Slices, page' = "out", user' \in Users \cup {None},
           active' = None, models' = NoModels,
           loads' \in [Slices -> SUBSET (Portfolios \cup {None})]
    PROVE  PageTypeOK' /\ PageOK'
  BY DEF PageTypeOK, PageOK, Models, NoModels

LEMMA SamePage ==
    ASSUME PageTypeOK, PageOK, Slices' = Slices, UNCHANGED <<page, user, active, models, loads>>
    PROVE  PageTypeOK' /\ PageOK'
  BY DEF PageTypeOK, PageOK, Models, NoModels, NoLoads, Owned

(* Whatever a load brings.                                                  *)
LEMMA LoadPageOK ==
    ASSUME PageTypeOK, PageOK, Slices' = Slices, NEW s \in Slices, NEW p \in Portfolios,
           LoadEnds(s, p)
    PROVE  PageTypeOK' /\ PageOK'
<1>1. /\ UNCHANGED <<page, user, active>> /\ page # "loading"
      /\ Shown \in Portfolios \cup {None}
      /\ models \in Models /\ loads \in [Slices -> SUBSET (Portfolios \cup {None})]
  BY DEF LoadEnds, PageTypeOK, PageOK, NoLoads, Shown
<1>. DEFINE loaded == [portfolio |-> p,
                       slice |-> [models.slice EXCEPT ![s] = [of |-> p, status |-> "success"]]]
            failed == [models EXCEPT !.slice[s].status = "error"]
<1>2. PICK rest \in {loads[s], loads[s] \ {p}} :
          LET l == [loads EXCEPT ![s] = rest]
          IN  Watch(loaded, l, Shown) \/ Watch(failed, l, Shown)
  BY DEF LoadEnds
<1>. DEFINE l == [loads EXCEPT ![s] = rest]
<1>3. l \in [Slices -> SUBSET (Portfolios \cup {None})]
  BY <1>1
<1>4. loaded \in Models /\ failed \in Models
  BY <1>1 DEF Models
<1>5. ASSUME Shown # None, NEW t \in Slices
      PROVE  /\ loaded.portfolio = Shown /\ loaded.slice[t].status = "success" =>
                    loaded.slice[t].of = Shown
             /\ failed.portfolio = Shown /\ failed.slice[t].status = "success" =>
                    failed.slice[t].of = Shown
  <2>1. models.slice[t].status = "success" => models.slice[t].of = Shown
    BY <1>5 DEF Shown, PageOK
  <2>2. CASE t = s
    BY <1>1, <2>2 DEF Models
  <2>3. CASE t # s
    BY <1>1, <2>1, <2>3 DEF Models
  <2>. QED BY <2>2, <2>3
<1>6. Watch(loaded, l, Shown) \/ Watch(failed, l, Shown)
  BY <1>2
<1>. HIDE DEF loaded, failed, l
<1>7. /\ models' \in Models /\ loads' \in [Slices -> SUBSET (Portfolios \cup {None})]
      /\ Shown # None =>
            \A t \in Slices : /\ models'.portfolio = Shown
                              /\ models'.slice[t].status = "success" =>
                                    models'.slice[t].of = Shown
  <2>1. CASE Watch(loaded, l, Shown)
    BY <1>1, <1>3, <1>4, <1>5, <2>1, WatchShows
  <2>2. CASE Watch(failed, l, Shown)
    BY <1>1, <1>3, <1>4, <1>5, <2>2, WatchShows
  <2>. QED BY <1>6, <2>1, <2>2
<1>8. PageTypeOK'
  BY <1>1, <1>7 DEF PageTypeOK, Models
<1>. QED BY <1>1, <1>7, <1>8 DEF PageOK, Shown, Owned

(* A refresh that completed asks for everything anew, and the effects ask   *)
(* again when it was another portfolio's.                                   *)
LEMMA PollPage ==
    ASSUME PageTypeOK, PageOK, ServerTypeOK, TrackingTypeOK, Slices' = Slices,
           NEW p \in polls, PollEnds(p)
    PROVE  PageTypeOK' /\ PageOK'
<1>1. CASE ClearAgain
  BY <1>1, ClearedPage DEF PollEnds, ClearAgain, PageTypeOK, PollIsStale, PollNotFound,
                           PollSettled, PollUnsettled, PollFails, modelVars
<1>2. CASE UNCHANGED <<page, active, models, loads>>
  BY <1>2, SamePage DEF PollEnds
<1>3. CASE PollSettled(p) /\ requests[p.request].status = "completed"
  <2>. DEFINE owner == requests[p.request].portfolio
              m == Loading(models, Slices, owner)
              l == Asked(loads, Slices, owner)
  <2>1. owner \in Portfolios \cup {None}
    BY DEF ServerTypeOK, TrackingTypeOK
  <2>2. m \in Models /\ \A s \in Slices : m.slice[s].status = "loading"
    <3>. HIDE DEF owner
    <3>. QED BY <2>1 DEF PageTypeOK, Models, Loading
  <2>3. l \in [Slices -> SUBSET (Portfolios \cup {None})]
    <3>. HIDE DEF owner
    <3>. QED BY <2>1 DEF PageTypeOK, Asked
  <2>4. Watch(m, l, active) /\ UNCHANGED <<page, user, active>> /\ page = "open"
    BY <1>3 DEF PollEnds, PollSettled
  <2>. HIDE DEF m, l
  <2>5. /\ models' \in Models /\ loads' \in [Slices -> SUBSET (Portfolios \cup {None})]
        /\ active # None =>
              \A s \in Slices : /\ models'.portfolio = active
                                /\ models'.slice[s].status = "success" =>
                                      models'.slice[s].of = active
    BY <2>2, <2>3, <2>4, WatchShows DEF PageTypeOK
  <2>6. PageTypeOK'
    BY <2>4, <2>5 DEF PageTypeOK, Models
  <2>. QED BY <2>4, <2>5, <2>6 DEF PageOK, Owned
<1>4. PollIsStale(p) \/ PollNotFound(p) \/ PollUnsettled(p) \/ PollFails(p) =>
          UNCHANGED <<page, active, models, loads>>
  BY DEF PollIsStale, PollNotFound, PollUnsettled, PollFails, modelVars
<1>5. PollSettled(p) /\ requests[p.request].status # "completed" =>
          UNCHANGED <<page, active, models, loads>>
  BY DEF PollSettled, modelVars
<1>. QED BY <1>1, <1>2, <1>3, <1>4, <1>5 DEF PollEnds

(* Another portfolio's models are not shown while its own are loaded.       *)
LEMMA SwitchPage ==
    ASSUME PageTypeOK, PageOK, Slices' = Slices, NEW p \in Portfolios, SetActivePortfolio(p)
    PROVE  PageTypeOK' /\ PageOK'
<1>1. /\ page = "open" /\ page' = page /\ user' = user /\ active' = p
      /\ OwnerOf[p] = user /\ p # active /\ Watch(models, loads, p)
  BY DEF SetActivePortfolio
<1>2. active # None /\ p # None
  BY <1>1, RefreshTrackingAssumptions DEF PageOK, Owned
<1>3. \A s \in Slices : models.portfolio # p
  BY <1>1, <1>2 DEF PageOK
<1>4. /\ models' \in Models /\ loads' \in [Slices -> SUBSET (Portfolios \cup {None})]
      /\ \A s \in Slices : /\ models'.portfolio = p
                           /\ models'.slice[s].status = "success" => models'.slice[s].of = p
  BY <1>1, <1>2, <1>3, WatchShows DEF PageTypeOK
<1>5. PageTypeOK'
  BY <1>1, <1>4 DEF PageTypeOK, Models
<1>. QED BY <1>1, <1>2, <1>4, <1>5 DEF PageOK

LEMMA ReloadPage ==
    ASSUME PageTypeOK, PageOK, Slices' = Slices, NEW u \in Users, LoadPage(u)
    PROVE  PageTypeOK' /\ PageOK'
<1>1. /\ page' = "loading" /\ user' = u /\ active' = active
      /\ models' = NoModels /\ loads' = NoLoads
  BY DEF LoadPage
<1>. QED BY <1>1 DEF PageTypeOK, PageOK, Models, NoModels, NoLoads

LEMMA ValidatedPage ==
    ASSUME PageTypeOK, PageOK, Slices' = Slices, Validated
    PROVE  PageTypeOK' /\ PageOK'
<1>1. /\ page' = "open" /\ user' = user /\ Watch(models, loads, active')
      /\ models = NoModels /\ loads = NoLoads
      /\ active' \in (IF active \in Owned THEN {active} ELSE IF Owned = {} THEN {None} ELSE Owned)
  BY DEF Validated, PageOK
<1>2. active' \in Portfolios \cup {None} /\ (active' = None => Owned = {})
  BY <1>1, RefreshTrackingAssumptions DEF Owned
<1>3. \A s \in Slices : models.slice[s].status # "success"
  BY <1>1 DEF NoModels
<1>4. /\ models' \in Models /\ loads' \in [Slices -> SUBSET (Portfolios \cup {None})]
      /\ active' # None =>
            \A s \in Slices : /\ models'.portfolio = active'
                              /\ models'.slice[s].status = "success" =>
                                    models'.slice[s].of = active'
  BY <1>1, <1>2, <1>3, WatchShows DEF PageTypeOK
<1>5. PageTypeOK'
  BY <1>1, <1>2, <1>4 DEF PageTypeOK, Models
<1>. QED BY <1>1, <1>2, <1>4, <1>5 DEF PageOK, Owned

LEMMA NextPage ==
    ASSUME TrackingInv, [Next]_vars PROVE PageTypeOK' /\ PageOK'
<1>. PageTypeOK /\ PageOK /\ ServerTypeOK /\ TrackingTypeOK /\ Slices' = Slices
  BY SlicesStay DEF TrackingInv, TypeOK
<1>1. CASE UNCHANGED <<page, user, active, models, loads>>
  BY <1>1, SamePage
<1>2. CASE \E c \in creations : HandleCreation(c) \/ CreationAnswered(c) \/ CreationFails(c)
  <2>1. PICK c \in creations : HandleCreation(c) \/ CreationAnswered(c) \/ CreationFails(c)
    BY <1>2
  <2>2. CASE CreationFails(c) /\ ClearAgain
    BY <2>2, ClearedPage DEF CreationFails, ClearAgain, PageTypeOK
  <2>. QED BY <1>1, <2>1, <2>2 DEF HandleCreation, CreationAnswered, CreationFails, modelVars
<1>3. CASE \E r \in Requests : ClaimRequest(r) \/ SettleRequest(r) \/ RetryRequest(r)
  BY <1>1, <1>3 DEF ClaimRequest, SettleRequest, RetryRequest, ChangesTo, modelVars
<1>4. CASE \E s \in Slices, p \in Portfolios : LoadRefused(s, p)
  <2>1. PICK s \in Slices, p \in Portfolios : LoadRefused(s, p)
    BY <1>4
  <2>2. loads' \in [Slices -> SUBSET (Portfolios \cup {None})]
    BY <2>1 DEF LoadRefused, PageTypeOK
  <2>3. /\ page' = "out" /\ user' \in Users \cup {None}
        /\ active' = None /\ models' = NoModels
    BY <2>1 DEF LoadRefused, ClearAgain, PageTypeOK
  <2>. QED BY <2>2, <2>3, ClearedPage
<1>5. CASE TimerFires \/ OpenModal \/ Edit \/ Submit \/ CloseModal
  BY <1>1, <1>5 DEF TimerFires, OpenModal, Edit, Submit, CloseModal, modelVars
<1>6. CASE ClearSession
  BY <1>6, ClearedPage DEF ClearSession, PageTypeOK
<1>7. CASE UNCHANGED vars
  BY <1>1, <1>7 DEF vars, modelVars
<1>. QED BY <1>2, <1>3, <1>4, <1>5, <1>6, <1>7, LoadPageOK, PollPage, SwitchPage, ReloadPage,
            ValidatedPage DEF Next

-----------------------------------------------------------------------------
(* The theorems. *)

LEMMA TrackingInvariant == Spec => []TrackingInv
<1>1. TrackingInv /\ [Next]_vars => TrackingInv'
  BY NextServer, NextForm, NextTracking, NextLoading, NextPage DEF TrackingInv, TypeOK
<1>. QED BY <1>1, InitTracking, PTL DEF Spec

(* Type correctness: every request the tab follows is one of the table.     *)
THEOREM TrackingTypeCorrect == Spec => []TypeOK
<1>1. TrackingInv => TypeOK
  BY DEF TrackingInv
<1>. QED BY <1>1, TrackingInvariant, PTL

(* A refresh that is shown as under way has exactly one poll under way or   *)
(* due, whatever is posted, loaded again or cleared meanwhile.              *)
THEOREM OnePollAtATime == Spec => []UnsettledIsPolledOnce
<1>1. TrackingInv => UnsettledIsPolledOnce
  <2>. SUFFICES ASSUME TrackingInv, Following
       PROVE  /\ Cardinality(Polling) + (IF Due THEN 1 ELSE 0) = 1
              /\ \A p \in Polling : p.request = tracking.request
    BY DEF UnsettledIsPolledOnce, Following, Due
  <2>1. PolledOnce
    BY DEF TrackingInv, TrackingOK
  <2>2. CASE Polling = {} /\ Due
    BY <2>2, FS_EmptySet
  <2>3. CASE ~Due /\ \E p \in polls : Polling = {p} /\ p.request = tracking.request
    <3>1. PICK p \in polls : Polling = {p} /\ p.request = tracking.request
      BY <2>3
    <3>2. Cardinality(Polling) = 1
      BY <3>1, FS_Singleton
    <3>. QED BY <2>3, <3>1, <3>2
  <2>. QED BY <2>1, <2>2, <2>3 DEF PolledOnce
<1>. QED BY <1>1, TrackingInvariant, PTL

(* sessionStorage names the refresh that the page follows or gave up on,    *)
(* and nothing once its end was shown.                                      *)
THEOREM ReloadGoesOn == Spec => []UnsettledIsPersisted
<1>1. TrackingInv => UnsettledIsPersisted
  BY DEF TrackingInv, TrackingOK
<1>. QED BY <1>1, TrackingInvariant, PTL

(* A form that is sent again untouched creates one operation, and an edited *)
(* one is never answered with another's.                                    *)
THEOREM OneOperationForAForm == Spec => []OneOperationPerAttempt
<1>1. TrackingInv => OneOperationPerAttempt
  BY DEF TrackingInv, FormOK, SentOK, Sent, OneOperationPerAttempt, Recorded
<1>. QED BY <1>1, TrackingInvariant, PTL

(* What the dashboard presents as loaded is of the selected portfolio.      *)
THEOREM LoadedIsOfTheActive == Spec => []LoadedIsActive
<1>1. TrackingInv => LoadedIsActive
  BY DEF TrackingInv, PageOK, LoadedIsActive
<1>. QED BY <1>1, TrackingInvariant, PTL

=============================================================================
