--------------------------- MODULE OperationLedger ---------------------------
(***************************************************************************)
(* The operations of one portfolio, as kushim-api mutates them.  Every     *)
(* handler of services/portfolio_operations.rs works in two steps that     *)
(* nothing holds together: it READS the row and validates what it read,    *)
(* then it WRITES by primary key.  Any number of other handlers may commit *)
(* in between; only the trigger prevent_posted_operation_mutation looks at *)
(* the row again.                                                          *)
(*                                                                         *)
(* Of an operation's payload the model keeps what the rules tell apart:    *)
(* whether its currency differs from the portfolio's base currency         *)
(* (foreign), whether it carries fx_rate_to_portfolio (rate), and the      *)
(* operation it corrects.  Every operation has a monetary leg              *)
(* (cash_amount_minor # 0), so the cross-currency contract applies.        *)
(***************************************************************************)
EXTENDS Naturals

CONSTANTS
    Operations,    \* primary keys of portfolio_operations
    Calls,         \* handlers of kushim-api running at the same time
    NoOperation    \* NULL

ASSUME OperationLedgerAssumption == NoOperation \notin Operations

VARIABLES
    op,         \* the rows of portfolio_operations
    refreshes,  \* how many transactions enqueued a refresh for the operation
    call        \* the handlers: what they do, on which row, and what they read

vars == <<op, refreshes, call>>

Row == [status: {"absent", "pending", "posted", "cancelled"},
        foreign: BOOLEAN, rate: BOOLEAN, corrects: Operations \cup {NoOperation}]

AbsentRow == [status |-> "absent", foreign |-> FALSE, rate |-> FALSE,
              corrects |-> NoOperation]

(* row: the existing row of post and cancel, the merged row of update, the  *)
(* new row of a correction.                                                 *)
Call == [doing: {"update", "cancel", "post", "correct"}, target: Operations, row: Row]
Idle == [doing |-> "idle", target |-> NoOperation, row |-> AbsentRow]

TypeOK ==
    /\ op \in [Operations -> Row]
    /\ refreshes \in [Operations -> Nat]
    /\ call \in [Calls -> Call \cup {Idle}]

Init ==
    /\ op = [o \in Operations |-> AbsentRow]
    /\ refreshes = [o \in Operations |-> 0]
    /\ call = [c \in Calls |-> Idle]

-----------------------------------------------------------------------------
(* Validation. *)

(* validate_cross_currency_posting. *)
CrossCurrencyOK(row) == row.foreign => row.rate

Exists(o) == op[o].status # "absent"

(* What the foreign key and chk_..._corrected_operation_not_self allow in   *)
(* id_corrected_operation of row o; the service adds nothing but the type.  *)
Correctable(o) == {NoOperation} \cup {x \in Operations : Exists(x) /\ x # o}

(* The trigger raises on any UPDATE of a posted row.                        *)
(* Mutation of MutationAllowed: there is no trigger.                        *)
MutationUnchecked(o) == TRUE
MutationAllowed(o) == op[o].status # "posted"

-----------------------------------------------------------------------------
(* Reads. *)

(* A handler has read row o, accepted it, and is about to write. *)
Accept(c, doing, o, row) ==
    /\ call[c] = Idle
    /\ Exists(o)
    /\ call' = [call EXCEPT ![c] = [doing |-> doing, target |-> o, row |-> row]]
    /\ UNCHANGED <<op, refreshes>>

(* PATCH: fields of the input replace those of the row that was read.  An   *)
(* omitted field keeps the value READ, and the write sets every column.     *)
BeginUpdate(c, o) ==
    /\ op[o].status = "pending"
    /\ \E foreign \in BOOLEAN, rate \in BOOLEAN, corrects \in Correctable(o) :
          Accept(c, "update", o,
                 [op[o] EXCEPT !.foreign = foreign, !.rate = rate, !.corrects = corrects])

BeginCancel(c, o) ==
    /\ op[o].status = "pending"
    /\ Accept(c, "cancel", o, op[o])

BeginPost(c, o) ==
    /\ op[o].status = "pending"
    /\ CrossCurrencyOK(op[o])
    /\ Accept(c, "post", o, op[o])

(* The correction of a posted operation, pending or posted itself.          *)
(* Mutation of BeginCorrection: a pending original is accepted.             *)
BeginCorrectionOfAny(c, o) ==
    /\ op[o].status \in {"pending", "posted"}
    /\ \E status \in {"pending", "posted"}, foreign \in BOOLEAN, rate \in BOOLEAN :
          LET row == [status |-> status, foreign |-> foreign, rate |-> rate, corrects |-> o]
          IN  /\ status = "posted" => CrossCurrencyOK(row)
              /\ Accept(c, "correct", o, row)
BeginCorrection(c, o) ==
    /\ op[o].status = "posted"
    /\ \E status \in {"pending", "posted"}, foreign \in BOOLEAN, rate \in BOOLEAN :
          LET row == [status |-> status, foreign |-> foreign, rate |-> rate, corrects |-> o]
          IN  /\ status = "posted" => CrossCurrencyOK(row)
              /\ Accept(c, "correct", o, row)

-----------------------------------------------------------------------------
(* Writes. *)

Finish(c) == call' = [call EXCEPT ![c] = Idle]

(* The trigger's exception: the statement does nothing, the caller gets an  *)
(* internal error.                                                          *)
Rejected(c) ==
    /\ call[c].doing \in {"update", "cancel", "post"}
    /\ ~MutationAllowed(call[c].target)
    /\ Finish(c)
    /\ UNCHANGED <<op, refreshes>>

(* The handler is dropped, or a statement fails, before anything commits.   *)
Abandoned(c) ==
    /\ call[c] # Idle
    /\ Finish(c)
    /\ UNCHANGED <<op, refreshes>>

CommitUpdate(c) ==
    LET o == call[c].target
        new == call[c].row
    IN  /\ call[c].doing = "update"
        /\ MutationAllowed(o)
        /\ op' = [op EXCEPT ![o] = [new EXCEPT !.status = op[o].status]]
        /\ Finish(c)
        /\ UNCHANGED refreshes

CommitCancel(c) ==
    LET o == call[c].target
    IN  /\ call[c].doing = "cancel"
        /\ MutationAllowed(o)
        /\ op' = [op EXCEPT ![o] = [@ EXCEPT !.status = "cancelled"]]
        /\ Finish(c)
        /\ UNCHANGED refreshes

(* set_status_posted_with_refresh: the status and the refresh request in    *)
(* one transaction.                                                         *)
CommitPost(c) ==
    LET o == call[c].target
    IN  /\ call[c].doing = "post"
        /\ MutationAllowed(o)
        /\ op' = [op EXCEPT ![o] = [@ EXCEPT !.status = "posted"]]
        /\ refreshes' = [refreshes EXCEPT ![o] = @ + 1]
        /\ Finish(c)

(* The INSERT, with the refresh request when the row is born posted.        *)
(* Mutation of Insert: a row born posted enqueues nothing.                  *)
InsertWithoutRefresh(o, row) ==
    /\ op[o].status = "absent"
    /\ op' = [op EXCEPT ![o] = row]
    /\ UNCHANGED refreshes
Insert(o, row) ==
    /\ op[o].status = "absent"
    /\ op' = [op EXCEPT ![o] = row]
    /\ refreshes' = [refreshes EXCEPT ![o] = IF row.status = "posted" THEN 1 ELSE 0]

CommitCorrection(c) ==
    /\ call[c].doing = "correct"
    /\ \E o \in Operations : Insert(o, call[c].row)
    /\ Finish(c)

(* POST /operations.  Its checks read nothing that changes; pending or      *)
(* posted, and possibly an adjustment that names a corrected operation,     *)
(* whose status nobody looks at.                                            *)
Create ==
    \E o \in Operations, status \in {"pending", "posted"}, foreign \in BOOLEAN, rate \in BOOLEAN :
        \E corrects \in Correctable(o) :
            LET row == [status |-> status, foreign |-> foreign, rate |-> rate,
                        corrects |-> corrects]
            IN  /\ status = "posted" => CrossCurrencyOK(row)
                /\ Insert(o, row)
                /\ UNCHANGED call

-----------------------------------------------------------------------------
Next ==
    \/ Create
    \/ \E c \in Calls, o \in Operations :
          BeginUpdate(c, o) \/ BeginCancel(c, o) \/ BeginPost(c, o) \/ BeginCorrection(c, o)
    \/ \E c \in Calls :
          \/ CommitUpdate(c) \/ CommitCancel(c) \/ CommitPost(c) \/ CommitCorrection(c)
          \/ Rejected(c) \/ Abandoned(c)

Spec == Init /\ [][Next]_vars

-----------------------------------------------------------------------------
(* A posted operation never changes again, whatever handler read it while   *)
(* it was pending: the worker may replay it as business truth.              *)
PostedIsImmutable ==
    [][\A o \in Operations : op[o].status = "posted" => op'[o] = op[o]]_vars

(* A refresh is enqueued exactly once for each posted operation, and for no *)
(* other, however many handlers race to post it.                            *)
OneRefreshPerPosting ==
    \A o \in Operations : refreshes[o] = IF op[o].status = "posted" THEN 1 ELSE 0

(* The original of a correction is still posted when the correction is      *)
(* inserted, though it was checked in an earlier statement.                 *)
CorrectsAPostedOriginal ==
    \A c \in Calls : call[c].doing = "correct" => op[call[c].target].status = "posted"

(* The abstract specification: the ledger that the worker replays.          *)
Content(row) == [foreign |-> row.foreign, rate |-> row.rate, corrects |-> row.corrects]

PostedRows == [o \in {x \in Operations : op[x].status = "posted"} |-> Content(op[o])]

Ledger == INSTANCE PostedLedger WITH posted <- PostedRows

(* Whatever the handlers that race to update, cancel, post and correct, the *)
(* posted operations are added one at a time, each with one refresh in the  *)
(* same step, and never change; none corrects itself.                       *)
ImplementsPostedLedger == Ledger!Spec

(* A cancelled operation stays cancelled: it is never posted.               *)
CancelledIsFinal ==
    [][\A o \in Operations :
          op[o].status = "cancelled" => op'[o].status = "cancelled"]_vars

(* Every posted operation satisfies the cross-currency contract.  The code  *)
(* does not keep it: an update may commit between the check and the write   *)
(* of a posting.                                                            *)
PostedSatisfiesCrossCurrency ==
    \A o \in Operations : op[o].status = "posted" => CrossCurrencyOK(op[o])

(* Following id_corrected_operation from a posted operation leads back to   *)
(* an original: no set of posted operations correct only each other.  The   *)
(* code does not keep it: two pending adjustments may be made to correct    *)
(* each other by updates.                                                   *)
CorrectionChainsEnd ==
    \A S \in SUBSET Operations \ {{}} :
        ~ \A o \in S : op[o].status = "posted" /\ op[o].corrects \in S
==============================================================================
