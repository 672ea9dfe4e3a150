------------------------ MODULE OperationLedgerProofs ------------------------
(* Theorems about OperationLedger, for any operations and handlers.         *)
EXTENDS OperationLedger, TLAPS

(* The inductive invariant: the properties proved imply each other nothing, *)
(* but the type of the handlers is what makes a written row a row.          *)
LedgerInv == TypeOK /\ OneRefreshPerPosting /\ CorrectsAPostedOriginal

LEMMA InitLedger == Init => LedgerInv
  BY OperationLedgerAssumption
  DEF Init, LedgerInv, TypeOK, OneRefreshPerPosting, CorrectsAPostedOriginal,
      AbsentRow, Row, Idle

LEMMA Rows ==
    ASSUME NEW row \in Row
    PROVE  /\ \A s \in {"pending", "posted", "cancelled"} :
                 [row EXCEPT !.status = s] \in Row /\ [row EXCEPT !.status = s].status = s
           /\ \A t \in Row : /\ [row EXCEPT !.status = t.status] \in Row
                             /\ [row EXCEPT !.status = t.status].status = t.status
           /\ \A f \in BOOLEAN, r \in BOOLEAN, x \in Operations \cup {NoOperation} :
                 [row EXCEPT !.foreign = f, !.rate = r, !.corrects = x] \in Row
  BY DEF Row

(* A handler that writes a row works on an operation. *)
LEMMA Working ==
    ASSUME TypeOK, NEW c \in Calls, call[c] # Idle
    PROVE  call[c] \in Call /\ call[c].target \in Operations /\ call[c].row \in Row
  BY DEF TypeOK, Call

(* Reading and accepting a row writes nothing. *)
LEMMA AcceptLedger ==
    ASSUME LedgerInv, NEW c \in Calls, NEW o \in Operations, NEW row \in Row,
           NEW doing \in {"update", "cancel", "post", "correct"},
           doing = "correct" => op[o].status = "posted",
           Accept(c, doing, o, row)
    PROVE  LedgerInv'
<1>. DEFINE x == [doing |-> doing, target |-> o, row |-> row]
<1>1. x \in Call /\ x.doing = doing /\ x.target = o
  BY DEF Call
<1>2. call' = [call EXCEPT ![c] = x] /\ UNCHANGED <<op, refreshes>>
  BY DEF Accept
<1>. HIDE DEF x
<1>3. TypeOK' /\ OneRefreshPerPosting'
  BY <1>1, <1>2 DEF LedgerInv, TypeOK, OneRefreshPerPosting
<1>4. CorrectsAPostedOriginal'
  BY <1>1, <1>2 DEF LedgerInv, TypeOK, CorrectsAPostedOriginal
<1>. QED BY <1>3, <1>4 DEF LedgerInv

(* Handlers only end: none is started by the step.                          *)
OnlyReleases ==
    /\ call' \in [Calls -> Call \cup {Idle}]
    /\ \A d \in Calls : call'[d] \in {call[d], Idle}

LEMMA FinishReleases == \A c \in Calls : TypeOK /\ Finish(c) => OnlyReleases
  BY DEF OnlyReleases, TypeOK, Finish

LEMMA UnchangedReleases == TypeOK /\ UNCHANGED call => OnlyReleases
  BY DEF OnlyReleases, TypeOK

(* A step that writes one row: one that is not posted yet, with the         *)
(* refreshes its new status calls for.                                      *)
LEMMA WriteLedger ==
    ASSUME LedgerInv, OnlyReleases,
           NEW o \in Operations, NEW row \in Row, op[o].status # "posted",
           op' = [op EXCEPT ![o] = row],
           refreshes' \in [Operations -> Nat],
           refreshes'[o] = (IF row.status = "posted" THEN 1 ELSE 0),
           \A p \in Operations : p # o => refreshes'[p] = refreshes[p]
    PROVE  LedgerInv'
<1>1. TypeOK'
  BY DEF LedgerInv, TypeOK, OnlyReleases
<1>2. \A p \in Operations : p # o => op'[p] = op[p]
  BY DEF LedgerInv, TypeOK
<1>3. op'[o] = row
  BY DEF LedgerInv, TypeOK
<1>4. OneRefreshPerPosting'
  BY <1>2, <1>3 DEF LedgerInv, OneRefreshPerPosting
<1>5. CorrectsAPostedOriginal'
  <2>. SUFFICES ASSUME NEW d \in Calls, call'[d].doing = "correct"
                PROVE  op'[call'[d].target].status = "posted"
    BY DEF CorrectsAPostedOriginal
  <2>1. call'[d] = call[d] /\ call[d] # Idle
    BY DEF Idle, OnlyReleases
  <2>2. call[d].target \in Operations /\ op[call[d].target].status = "posted"
    BY <2>1, Working DEF LedgerInv, CorrectsAPostedOriginal
  <2>. QED BY <1>2, <2>1, <2>2
<1>. QED BY <1>1, <1>4, <1>5 DEF LedgerInv

LEMMA NothingWritten ==
    ASSUME LedgerInv, OnlyReleases, UNCHANGED <<op, refreshes>>
    PROVE  LedgerInv'
  BY DEF LedgerInv, TypeOK, OneRefreshPerPosting, CorrectsAPostedOriginal, Idle, OnlyReleases

(* A new row, which Create and CommitCorrection insert. *)
LEMMA InsertLedger ==
    ASSUME LedgerInv, OnlyReleases, NEW o \in Operations, NEW row \in Row, Insert(o, row)
    PROVE  LedgerInv'
  BY WriteLedger DEF Insert, LedgerInv, TypeOK

(* Handlers that read and accept a row. *)
LEMMA BeginLedger ==
    ASSUME LedgerInv, NEW c \in Calls, NEW o \in Operations,
           BeginUpdate(c, o) \/ BeginCancel(c, o) \/ BeginPost(c, o) \/ BeginCorrection(c, o)
    PROVE  LedgerInv'
<1>0. op[o] \in Row
  BY DEF LedgerInv, TypeOK
<1>1. CASE BeginUpdate(c, o)
  <2>1. PICK foreign \in BOOLEAN, rate \in BOOLEAN, corrects \in Correctable(o) :
            Accept(c, "update", o,
                   [op[o] EXCEPT !.foreign = foreign, !.rate = rate, !.corrects = corrects])
    BY <1>1 DEF BeginUpdate
  <2>2. [op[o] EXCEPT !.foreign = foreign, !.rate = rate, !.corrects = corrects] \in Row
    BY <1>0, Rows DEF Correctable
  <2>. QED BY <2>1, <2>2, AcceptLedger
<1>2. CASE BeginCancel(c, o)
  BY <1>0, <1>2, AcceptLedger DEF BeginCancel
<1>3. CASE BeginPost(c, o)
  BY <1>0, <1>3, AcceptLedger DEF BeginPost
<1>4. CASE BeginCorrection(c, o)
  <2>1. PICK status \in {"pending", "posted"}, foreign \in BOOLEAN, rate \in BOOLEAN :
            Accept(c, "correct", o,
                   [status |-> status, foreign |-> foreign, rate |-> rate, corrects |-> o])
    BY <1>4 DEF BeginCorrection
  <2>2. [status |-> status, foreign |-> foreign, rate |-> rate, corrects |-> o] \in Row
    BY DEF Row
  <2>. QED BY <1>4, <2>1, <2>2, AcceptLedger DEF BeginCorrection
<1>. QED BY <1>1, <1>2, <1>3, <1>4

(* Handlers that write by primary key. *)
LEMMA CommitLedger ==
    ASSUME LedgerInv, NEW c \in Calls,
           CommitUpdate(c) \/ CommitCancel(c) \/ CommitPost(c) \/ CommitCorrection(c)
    PROVE  LedgerInv'
<1>0. /\ call[c] # Idle /\ OnlyReleases
      /\ call[c].target \in Operations /\ call[c].row \in Row
      /\ op[call[c].target] \in Row
  <2>1. call[c] # Idle /\ Finish(c)
    BY DEF CommitUpdate, CommitCancel, CommitPost, CommitCorrection, Idle
  <2>. QED BY <2>1, FinishReleases, Working DEF LedgerInv, TypeOK
<1>. DEFINE o == call[c].target
            old == op[o]
<1>1. CASE CommitUpdate(c)
  <2>. DEFINE row == [call[c].row EXCEPT !.status = old.status]
  <2>1. /\ op[o].status # "posted" /\ UNCHANGED refreshes
        /\ op' = [op EXCEPT ![o] = row]
    BY <1>1 DEF CommitUpdate, MutationAllowed
  <2>2. row \in Row /\ row.status = old.status
    BY <1>0, Rows
  <2>. HIDE DEF row
  <2>3. refreshes'[o] = 0
    BY <1>0, <2>1 DEF LedgerInv, OneRefreshPerPosting
  <2>. QED BY <1>0, <2>1, <2>2, <2>3, WriteLedger DEF LedgerInv, TypeOK
<1>2. CASE CommitCancel(c)
  <2>. DEFINE row == [old EXCEPT !.status = "cancelled"]
  <2>1. /\ op[o].status # "posted" /\ UNCHANGED refreshes
        /\ op' = [op EXCEPT ![o] = row]
    BY <1>2 DEF CommitCancel, MutationAllowed
  <2>2. row \in Row /\ row.status = "cancelled"
    BY <1>0, Rows
  <2>. HIDE DEF row
  <2>3. refreshes'[o] = 0
    BY <1>0, <2>1 DEF LedgerInv, OneRefreshPerPosting
  <2>. QED BY <1>0, <2>1, <2>2, <2>3, WriteLedger DEF LedgerInv, TypeOK
<1>3. CASE CommitPost(c)
  <2>. DEFINE row == [old EXCEPT !.status = "posted"]
  <2>1. /\ op[o].status # "posted"
        /\ refreshes' = [refreshes EXCEPT ![o] = @ + 1]
        /\ op' = [op EXCEPT ![o] = row]
    BY <1>3 DEF CommitPost, MutationAllowed
  <2>2. row \in Row /\ row.status = "posted"
    BY <1>0, Rows
  <2>. HIDE DEF row
  <2>3. /\ refreshes' \in [Operations -> Nat] /\ refreshes'[o] = 1
        /\ \A p \in Operations : p # o => refreshes'[p] = refreshes[p]
    BY <1>0, <2>1 DEF LedgerInv, TypeOK, OneRefreshPerPosting
  <2>. QED BY <1>0, <2>1, <2>2, <2>3, WriteLedger
<1>4. CASE CommitCorrection(c)
  BY <1>0, <1>4, InsertLedger DEF CommitCorrection
<1>. QED BY <1>1, <1>2, <1>3, <1>4

LEMMA CreateLedger == ASSUME LedgerInv, Create PROVE LedgerInv'
<1>1. PICK o \in Operations, status \in {"pending", "posted"}, foreign \in BOOLEAN, rate \in BOOLEAN :
        \E corrects \in Correctable(o) :
            LET row == [status |-> status, foreign |-> foreign, rate |-> rate,
                        corrects |-> corrects]
            IN  Insert(o, row) /\ UNCHANGED call
  BY DEF Create
<1>2. PICK corrects \in Correctable(o) :
        /\ Insert(o, [status |-> status, foreign |-> foreign, rate |-> rate,
                      corrects |-> corrects])
        /\ UNCHANGED call
  BY <1>1
<1>3. [status |-> status, foreign |-> foreign, rate |-> rate, corrects |-> corrects] \in Row
  BY DEF Row, Correctable
<1>4. OnlyReleases
  BY <1>2, UnchangedReleases DEF LedgerInv
<1>. QED BY <1>2, <1>3, <1>4, InsertLedger

LEMMA NextLedger == LedgerInv /\ [Next]_vars => LedgerInv'
<1>. SUFFICES ASSUME LedgerInv, [Next]_vars PROVE LedgerInv'
  OBVIOUS
<1>1. ASSUME NEW c \in Calls, Rejected(c) \/ Abandoned(c) PROVE LedgerInv'
  BY <1>1, FinishReleases, NothingWritten DEF Rejected, Abandoned, LedgerInv
<1>2. CASE UNCHANGED vars
  BY <1>2, UnchangedReleases, NothingWritten DEF vars, LedgerInv
<1>. QED BY <1>1, <1>2, CreateLedger, BeginLedger, CommitLedger DEF Next

(* No step changes a posted row: every write but an insertion is stopped by *)
(* the trigger, and an insertion takes an absent row.                       *)
LEMMA NextKeepsPosted ==
    ASSUME LedgerInv, [Next]_vars, NEW p \in Operations, op[p].status = "posted"
    PROVE  op'[p] = op[p]
<1>0. op \in [Operations -> Row]
  BY DEF LedgerInv, TypeOK
<1>1. ASSUME NEW c \in Calls, NEW o \in Operations,
             BeginUpdate(c, o) \/ BeginCancel(c, o) \/ BeginPost(c, o) \/ BeginCorrection(c, o)
      PROVE  op'[p] = op[p]
  BY <1>1 DEF BeginUpdate, BeginCancel, BeginPost, BeginCorrection, Accept
<1>2. ASSUME NEW o \in Operations, NEW row, Insert(o, row) PROVE op'[p] = op[p]
  BY <1>0, <1>2 DEF Insert
<1>3. ASSUME NEW c \in Calls, CommitUpdate(c) \/ CommitCancel(c) \/ CommitPost(c)
      PROVE  op'[p] = op[p]
  BY <1>0, <1>3 DEF CommitUpdate, CommitCancel, CommitPost, MutationAllowed
<1>4. ASSUME NEW c \in Calls, CommitCorrection(c) PROVE op'[p] = op[p]
  BY <1>2, <1>4 DEF CommitCorrection
<1>5. CASE Create
  BY <1>2, <1>5 DEF Create
<1>6. ASSUME NEW c \in Calls, Rejected(c) \/ Abandoned(c) PROVE op'[p] = op[p]
  BY <1>6 DEF Rejected, Abandoned
<1>. QED BY <1>1, <1>3, <1>4, <1>5, <1>6 DEF Next, vars

(* The rows, the refreshes they enqueued and the calls under way keep their *)
(* types through every handler.                                             *)
THEOREM LedgerTypeCorrect == Spec => []TypeOK
<1>1. LedgerInv => TypeOK
  BY DEF LedgerInv
<1>. QED BY <1>1, InitLedger, NextLedger, PTL DEF Spec

(* Every posted operation has enqueued exactly one refresh, whatever the    *)
(* handlers that raced to update, cancel or post it.                        *)
THEOREM PostingEnqueuesOnce == Spec => []OneRefreshPerPosting
<1>1. LedgerInv => OneRefreshPerPosting
  BY DEF LedgerInv
<1>. QED BY <1>1, InitLedger, NextLedger, PTL DEF Spec

(* A correction under way still corrects a posted operation.                *)
THEOREM OriginalStaysPosted == Spec => []CorrectsAPostedOriginal
<1>1. LedgerInv => CorrectsAPostedOriginal
  BY DEF LedgerInv
<1>. QED BY <1>1, InitLedger, NextLedger, PTL DEF Spec

(* A posted operation is never modified by any handler.                     *)
THEOREM PostedForGood == Spec => PostedIsImmutable
<1>1. LedgerInv /\ [Next]_vars =>
        [\A o \in Operations : op[o].status = "posted" => op'[o] = op[o]]_vars
  BY NextKeepsPosted
<1>. QED BY <1>1, InitLedger, NextLedger, PTL DEF Spec, PostedIsImmutable

-----------------------------------------------------------------------------
(* The refinement: the posted operations are a PostedLedger.                *)

(* No row corrects itself, and no handler is about to write one that does:  *)
(* an update was refused it, a correction takes a new row.                  *)
NoSelfCorrection ==
    /\ \A o \in Operations : op[o].corrects # o
    /\ \A c \in Calls :
          /\ call[c].doing = "update" => call[c].row.corrects # call[c].target
          /\ call[c].doing = "correct" => call[c].row.corrects = call[c].target

LEMMA InitSelf == Init => NoSelfCorrection
  BY OperationLedgerAssumption DEF Init, NoSelfCorrection, AbsentRow, Idle

(* What a handler read, and what it is about to write.                      *)
LEMMA BeginSelf ==
    ASSUME LedgerInv, NoSelfCorrection, NEW c \in Calls, NEW o \in Operations,
           BeginUpdate(c, o) \/ BeginCancel(c, o) \/ BeginPost(c, o) \/ BeginCorrection(c, o)
    PROVE  NoSelfCorrection'
<1>1. ASSUME NEW doing, NEW row, Accept(c, doing, o, row),
             doing = "update" => row.corrects # o,
             doing = "correct" => row.corrects = o
      PROVE  NoSelfCorrection'
  <2>. DEFINE x == [doing |-> doing, target |-> o, row |-> row]
  <2>1. x.doing = doing /\ x.target = o /\ x.row = row
    OBVIOUS
  <2>2. call' = [call EXCEPT ![c] = x] /\ op' = op
    BY <1>1 DEF Accept
  <2>. HIDE DEF x
  <2>. QED BY <1>1, <2>1, <2>2 DEF NoSelfCorrection, LedgerInv, TypeOK
<1>2. CASE BeginUpdate(c, o)
  <2>1. PICK foreign \in BOOLEAN, rate \in BOOLEAN, corrects \in Correctable(o) :
            Accept(c, "update", o,
                   [op[o] EXCEPT !.foreign = foreign, !.rate = rate, !.corrects = corrects])
    BY <1>2 DEF BeginUpdate
  <2>2. corrects # o
    BY OperationLedgerAssumption DEF Correctable
  <2>3. [op[o] EXCEPT !.foreign = foreign, !.rate = rate, !.corrects = corrects].corrects
            = corrects
    BY DEF LedgerInv, TypeOK, Row
  <2>. QED BY <1>1, <2>1, <2>2, <2>3
<1>3. CASE BeginCancel(c, o)
  BY <1>1, <1>3 DEF BeginCancel
<1>4. CASE BeginPost(c, o)
  BY <1>1, <1>4 DEF BeginPost
<1>5. CASE BeginCorrection(c, o)
  <2>1. PICK status \in {"pending", "posted"}, foreign \in BOOLEAN, rate \in BOOLEAN :
            Accept(c, "correct", o,
                   [status |-> status, foreign |-> foreign, rate |-> rate, corrects |-> o])
    BY <1>5 DEF BeginCorrection
  <2>. QED BY <1>1, <2>1
<1>. QED BY <1>2, <1>3, <1>4, <1>5

(* Every step writes at most one row, and that one was not posted.          *)
WritesRow(o, row) ==
    op[o].status # "posted" /\ row.corrects # o /\ op' = [op EXCEPT ![o] = row]

LEMMA CommitWrites ==
    ASSUME LedgerInv, NoSelfCorrection, NEW c \in Calls,
           CommitUpdate(c) \/ CommitCancel(c) \/ CommitPost(c) \/ CommitCorrection(c)
    PROVE  OnlyReleases /\ \E o \in Operations, row \in Row : WritesRow(o, row)
<1>0. /\ call[c] # Idle /\ OnlyReleases
      /\ call[c].target \in Operations /\ call[c].row \in Row
      /\ op[call[c].target] \in Row
  <2>1. call[c] # Idle /\ Finish(c)
    BY DEF CommitUpdate, CommitCancel, CommitPost, CommitCorrection, Idle
  <2>. QED BY <2>1, FinishReleases, Working DEF LedgerInv, TypeOK
<1>. DEFINE o == call[c].target
            old == op[o]
<1>1. CASE CommitUpdate(c)
  <2>. DEFINE row == [call[c].row EXCEPT !.status = old.status]
  <2>1. row \in Row /\ row.corrects = call[c].row.corrects
    BY <1>0 DEF Row
  <2>2. op[o].status # "posted" /\ op' = [op EXCEPT ![o] = row]
    BY <1>1 DEF CommitUpdate, MutationAllowed
  <2>3. row.corrects # o
    BY <1>1, <2>1 DEF CommitUpdate, NoSelfCorrection
  <2>4. WritesRow(o, row)
    BY <2>2, <2>3 DEF WritesRow
  <2>. QED BY <1>0, <2>1, <2>4
<1>2. ASSUME NEW status \in {"cancelled", "posted"}, op[o].status # "posted",
             op' = [op EXCEPT ![o] = [@ EXCEPT !.status = status]]
      PROVE  \E p \in Operations, row \in Row : WritesRow(p, row)
  <2>. DEFINE row == [old EXCEPT !.status = status]
  <2>1. row \in Row /\ row.corrects = old.corrects
    BY <1>0 DEF Row
  <2>2. WritesRow(o, row)
    BY <1>0, <1>2, <2>1 DEF WritesRow, NoSelfCorrection
  <2>. QED BY <1>0, <2>1, <2>2
<1>3. CASE CommitCancel(c)
  BY <1>0, <1>2, <1>3 DEF CommitCancel, MutationAllowed
<1>4. CASE CommitPost(c)
  BY <1>0, <1>2, <1>4 DEF CommitPost, MutationAllowed
<1>5. CASE CommitCorrection(c)
  <2>1. PICK p \in Operations : Insert(p, call[c].row)
    BY <1>5 DEF CommitCorrection
  <2>2. op[o].status = "posted" /\ call[c].row.corrects = o
    BY <1>5 DEF CommitCorrection, LedgerInv, CorrectsAPostedOriginal, NoSelfCorrection
  <2>3. WritesRow(p, call[c].row)
    BY <2>1, <2>2 DEF Insert, WritesRow
  <2>. QED BY <1>0, <2>3
<1>. QED BY <1>0, <1>1, <1>3, <1>4, <1>5

LEMMA CreateWrites ==
    ASSUME LedgerInv, Create
    PROVE  OnlyReleases /\ \E o \in Operations, row \in Row : WritesRow(o, row)
<1>1. PICK o \in Operations, status \in {"pending", "posted"}, foreign \in BOOLEAN, rate \in BOOLEAN :
        \E corrects \in Correctable(o) :
            LET row == [status |-> status, foreign |-> foreign, rate |-> rate,
                        corrects |-> corrects]
            IN  Insert(o, row) /\ UNCHANGED call
  BY DEF Create
<1>2. PICK corrects \in Correctable(o) :
        /\ Insert(o, [status |-> status, foreign |-> foreign, rate |-> rate,
                      corrects |-> corrects])
        /\ UNCHANGED call
  BY <1>1
<1>. DEFINE row == [status |-> status, foreign |-> foreign, rate |-> rate,
                    corrects |-> corrects]
<1>3. row \in Row /\ row.corrects # o
  BY OperationLedgerAssumption DEF Row, Correctable
<1>4. WritesRow(o, row)
  BY <1>2, <1>3 DEF Insert, WritesRow
<1>. QED BY <1>2, <1>3, <1>4, UnchangedReleases DEF LedgerInv

(* Every step starts a handler, writes one row, or writes nothing.          *)
LEMMA StepWrites ==
    ASSUME LedgerInv, NoSelfCorrection, [Next]_vars
    PROVE  \/ \E c \in Calls, o \in Operations :
                 \/ BeginUpdate(c, o) \/ BeginCancel(c, o)
                 \/ BeginPost(c, o) \/ BeginCorrection(c, o)
           \/ /\ OnlyReleases
              /\ \/ \E o \in Operations, row \in Row : WritesRow(o, row)
                 \/ UNCHANGED <<op, refreshes>>
<1>1. ASSUME NEW c \in Calls, Rejected(c) \/ Abandoned(c)
      PROVE  OnlyReleases /\ UNCHANGED <<op, refreshes>>
  BY <1>1, FinishReleases DEF Rejected, Abandoned, LedgerInv
<1>2. CASE UNCHANGED vars
  BY <1>2, UnchangedReleases DEF vars, LedgerInv
<1>. QED BY <1>1, <1>2, CreateWrites, CommitWrites DEF Next

LEMMA NextSelf == LedgerInv /\ NoSelfCorrection /\ [Next]_vars => NoSelfCorrection'
<1>. SUFFICES ASSUME LedgerInv, NoSelfCorrection, [Next]_vars PROVE NoSelfCorrection'
  OBVIOUS
<1>1. ASSUME OnlyReleases, \A o \in Operations : op'[o].corrects # o
      PROVE  NoSelfCorrection'
  BY <1>1 DEF OnlyReleases, NoSelfCorrection, Idle
<1>2. ASSUME NEW o \in Operations, NEW row \in Row, WritesRow(o, row)
      PROVE  \A p \in Operations : op'[p].corrects # p
  BY <1>2 DEF WritesRow, NoSelfCorrection, LedgerInv, TypeOK
<1>3. ASSUME UNCHANGED op
      PROVE  \A p \in Operations : op'[p].corrects # p
  BY <1>3 DEF NoSelfCorrection
<1>. QED BY <1>1, <1>2, <1>3, StepWrites, BeginSelf

(* A written row is posted to the ledger or does not belong to it; either   *)
(* way the refreshes enqueued say so.                                       *)
LEMMA WriteRefines ==
    ASSUME LedgerInv, LedgerInv', NEW o \in Operations, NEW row \in Row, WritesRow(o, row)
    PROVE  [Ledger!Next]_Ledger!ledgerVars
<1>1. /\ op'[o] = row
      /\ \A p \in Operations : p # o => op'[p] = op[p] /\ refreshes'[p] = refreshes[p]
      /\ refreshes \in [Operations -> Nat] /\ refreshes' \in [Operations -> Nat]
      /\ refreshes[o] = 0 /\ refreshes'[o] = (IF row.status = "posted" THEN 1 ELSE 0)
  BY DEF WritesRow, LedgerInv, TypeOK, OneRefreshPerPosting
<1>2. o \notin DOMAIN PostedRows
  BY DEF PostedRows, WritesRow
<1>3. CASE row.status = "posted"
  <2>1. {x \in Operations : op'[x].status = "posted"} = DOMAIN PostedRows \cup {o}
    BY <1>1, <1>3 DEF PostedRows
  <2>2. \A x \in DOMAIN PostedRows : Content(op'[x]) = PostedRows[x]
    BY <1>1, <1>2 DEF PostedRows
  <2>3. PostedRows' = [x \in DOMAIN PostedRows \cup {o} |->
                          IF x = o THEN Content(row) ELSE PostedRows[x]]
    <3>1. PostedRows' = [x \in {y \in Operations : op'[y].status = "posted"}
                            |-> Content(op'[x])]
      BY DEF PostedRows, Content
    <3>. HIDE DEF PostedRows
    <3>. QED BY <1>1, <2>1, <2>2, <3>1
  <2>4. refreshes' = [refreshes EXCEPT ![o] = @ + 1]
    BY <1>1, <1>3
  <2>5. Content(row) \in Ledger!Content(o)
    BY DEF Content, Ledger!Content, Row, WritesRow
  <2>6. Ledger!Post(o, Content(row))
    BY <1>2, <2>3, <2>4 DEF Ledger!Post
  <2>. QED BY <2>5, <2>6 DEF Ledger!Next
<1>4. CASE row.status # "posted"
  <2>1. {x \in Operations : op'[x].status = "posted"} = {x \in Operations : op[x].status = "posted"}
    BY <1>1, <1>4 DEF WritesRow
  <2>2. \A x \in Operations : op[x].status = "posted" => op'[x] = op[x]
    BY <1>1 DEF WritesRow
  <2>3. PostedRows' = PostedRows
    BY <2>1, <2>2 DEF PostedRows, Content
  <2>4. refreshes' = refreshes
    BY <1>1, <1>4
  <2>. QED BY <2>3, <2>4 DEF Ledger!ledgerVars
<1>. QED BY <1>3, <1>4

LEMMA LedgerInitRefines == Init => Ledger!Init
  BY DEF Init, Ledger!Init, PostedRows, AbsentRow

LEMMA LedgerStepRefines ==
    LedgerInv /\ LedgerInv' /\ NoSelfCorrection /\ [Next]_vars
        => [Ledger!Next]_Ledger!ledgerVars
<1>. SUFFICES ASSUME LedgerInv, LedgerInv', NoSelfCorrection, [Next]_vars
              PROVE  [Ledger!Next]_Ledger!ledgerVars
  OBVIOUS
<1>1. ASSUME UNCHANGED <<op, refreshes>> PROVE [Ledger!Next]_Ledger!ledgerVars
  BY <1>1 DEF Ledger!ledgerVars, PostedRows
<1>2. ASSUME NEW c \in Calls, NEW o \in Operations,
             BeginUpdate(c, o) \/ BeginCancel(c, o) \/ BeginPost(c, o) \/ BeginCorrection(c, o)
      PROVE  UNCHANGED <<op, refreshes>>
  BY <1>2 DEF BeginUpdate, BeginCancel, BeginPost, BeginCorrection, Accept
<1>. QED BY <1>1, <1>2, StepWrites, WriteRefines

(* The handlers of kushim-api, however they race, implement the append-only *)
(* ledger that the refresh queue and the replay build on.                   *)
THEOREM LedgerIsAppendOnly == Spec => ImplementsPostedLedger
<1>1. LedgerInv /\ LedgerInv' /\ NoSelfCorrection /\ [Next]_vars
        => [Ledger!Next]_Ledger!ledgerVars
  BY LedgerStepRefines
<1>2. Spec => [](LedgerInv /\ NoSelfCorrection)
  BY InitLedger, NextLedger, InitSelf, NextSelf, PTL DEF Spec
<1>. QED BY <1>1, <1>2, LedgerInitRefines, PTL DEF Spec, ImplementsPostedLedger, Ledger!Spec
==============================================================================
