-------------------------- MODULE IdempotentCreate --------------------------
(***************************************************************************)
(* The creation of operations and of corrections under an Idempotency-Key  *)
(* (create_operation_idempotent, create_correction_idempotent).  A client  *)
(* may send a request any number of times, at the same time or later; a    *)
(* handler looks the key up, validates, then in one transaction claims the *)
(* key, inserts the operation and completes the record of the key.         *)
(*                                                                         *)
(* One user and one portfolio; a key is what (id_user, idempotency_key)    *)
(* identifies.  The body of a request is every field that goes into the    *)
(* fingerprint under its own name; id_corrected_operation does not always, *)
(* so it is kept apart.  Of the state validation depends on, the model     *)
(* keeps whether the asset referred to is active.                          *)
(***************************************************************************)
EXTENDS Naturals

CONSTANTS
    Keys,
    Bodies,
    Originals,     \* operations that a request may name as corrected
    Operations,    \* primary keys for the operations created
    Calls,         \* handlers running at the same time
    Nothing        \* NULL

ASSUME IdempotentCreateAssumption ==
    Nothing \notin Keys \cup Originals \cup Operations \cup Calls

VARIABLES
    record,    \* record[k]: the committed row of portfolio_operation_idempotency
    claimant,  \* claimant[k]: the open transaction that has inserted a row for k
    ledger,    \* ledger[o]: the request that created operation o
    active,    \* whether the asset is active
    call       \* the handlers

vars == <<record, claimant, ledger, active, call>>

(* correcting: sent to .../corrections (CreateCorrection), not to           *)
(* .../operations (CreateOperation), which takes an optional corrects too.  *)
Request == [key: Keys, body: Bodies, correcting: BOOLEAN,
            corrects: Originals \cup {Nothing}]
Sendable == {q \in Request : q.correcting => q.corrects # Nothing}

(* build_fingerprint: the correction link is there for a correction only.   *)
Fingerprint(q) ==
    [correcting |-> q.correcting, body |-> q.body,
     corrects |-> IF q.correcting THEN q.corrects ELSE Nothing]
Fingerprints == [correcting: BOOLEAN, body: Bodies, corrects: Originals \cup {Nothing}]

Record   == [fingerprint: Fingerprints, operation: Operations]
NoRecord == [fingerprint |-> Nothing, operation |-> Nothing]
NoRequest == [key |-> Nothing, body |-> Nothing, correcting |-> FALSE, corrects |-> Nothing]

Steps   == {"lookup", "validate", "claim", "insert", "reread"}
Answers == {"created", "replayed", "conflict", "rejected", "internal"}

(* recorded is history: the key had a record when the request was sent.     *)
Call == [pc: Steps \cup Answers, request: Sendable, recorded: BOOLEAN,
         operation: Operations \cup {Nothing}]
Idle == [pc |-> "idle", request |-> NoRequest, recorded |-> FALSE, operation |-> Nothing]

TypeOK ==
    /\ record \in [Keys -> Record \cup {NoRecord}]
    /\ claimant \in [Keys -> Calls \cup {Nothing}]
    /\ ledger \in [Operations -> Sendable \cup {NoRequest}]
    /\ active \in BOOLEAN
    /\ call \in [Calls -> Call \cup {Idle}]

Init ==
    /\ record = [k \in Keys |-> NoRecord]
    /\ claimant = [k \in Keys |-> Nothing]
    /\ ledger = [o \in Operations |-> NoRequest]
    /\ active = TRUE
    /\ call = [c \in Calls |-> Idle]

-----------------------------------------------------------------------------
Key(c) == call[c].request.key

Goto(c, pc) == call' = [call EXCEPT ![c] = [@ EXCEPT !.pc = pc]]

Answer(c, answer, operation) ==
    call' = [call EXCEPT ![c] = [@ EXCEPT !.pc = answer, !.operation = operation]]

(* A client sends a request, for the first time or again.                   *)
Send(c, q) ==
    /\ call[c] = Idle
    /\ call' = [call EXCEPT ![c] =
          [pc |-> "lookup", request |-> q, recorded |-> record[q.key] # NoRecord,
           operation |-> Nothing]]
    /\ UNCHANGED <<record, claimant, ledger, active>>

(* replay_existing. *)
(* Mutation of Replay: the fingerprint is not compared.                     *)
ReplayAnything(c) ==
    Answer(c, "replayed", record[Key(c)].operation)
Replay(c) ==
    IF record[Key(c)].fingerprint = Fingerprint(call[c].request)
    THEN Answer(c, "replayed", record[Key(c)].operation)
    ELSE Answer(c, "conflict", Nothing)

(* Mutation of Lookup: validation comes before the replay.                  *)
LookupAfterValidation(c) ==
    /\ call[c].pc = "lookup"
    /\ IF ~active THEN Answer(c, "rejected", Nothing)
       ELSE IF record[Key(c)] # NoRecord THEN Replay(c)
       ELSE Goto(c, "validate")
    /\ UNCHANGED <<record, claimant, ledger, active>>
Lookup(c) ==
    /\ call[c].pc = "lookup"
    /\ IF record[Key(c)] # NoRecord THEN Replay(c) ELSE Goto(c, "validate")
    /\ UNCHANGED <<record, claimant, ledger, active>>

(* Everything that depends on mutable state; the key is not consumed.       *)
Validate(c) ==
    /\ call[c].pc = "validate"
    /\ IF active THEN Goto(c, "claim") ELSE Answer(c, "rejected", Nothing)
    /\ UNCHANGED <<record, claimant, ledger, active>>

(* INSERT ... ON CONFLICT DO NOTHING: waits while another open transaction  *)
(* has inserted the key; then inserts it, or sees the committed row and     *)
(* rolls back (RaceLost).                                                   *)
(* Mutations of Claim: no unique index on the key; the loser does not wait. *)
ClaimUnchecked(c) ==
    /\ call[c].pc = "claim"
    /\ claimant' = [claimant EXCEPT ![Key(c)] = c]
    /\ Goto(c, "insert")
    /\ UNCHANGED <<record, ledger, active>>
ClaimWithoutWaiting(c) ==
    /\ call[c].pc = "claim"
    /\ IF record[Key(c)] = NoRecord /\ claimant[Key(c)] = Nothing
       THEN /\ claimant' = [claimant EXCEPT ![Key(c)] = c]
            /\ Goto(c, "insert")
       ELSE /\ Goto(c, "reread")
            /\ UNCHANGED claimant
    /\ UNCHANGED <<record, ledger, active>>
Claim(c) ==
    /\ call[c].pc = "claim"
    /\ claimant[Key(c)] = Nothing
    /\ IF record[Key(c)] = NoRecord
       THEN /\ claimant' = [claimant EXCEPT ![Key(c)] = c]
            /\ Goto(c, "insert")
       ELSE /\ Goto(c, "reread")
            /\ UNCHANGED claimant
    /\ UNCHANGED <<record, ledger, active>>

(* The rest of the transaction: the operation (with its refresh request)    *)
(* and the record become visible together.                                  *)
Insert(c) ==
    /\ call[c].pc = "insert"
    /\ \E o \in Operations :
          /\ ledger[o] = NoRequest
          /\ ledger' = [ledger EXCEPT ![o] = call[c].request]
          /\ record' = [record EXCEPT ![Key(c)] =
                [fingerprint |-> Fingerprint(call[c].request), operation |-> o]]
          /\ Answer(c, "created", o)
    /\ claimant' = [claimant EXCEPT ![Key(c)] = Nothing]
    /\ UNCHANGED active

Reread(c) ==
    /\ call[c].pc = "reread"
    /\ IF record[Key(c)] # NoRecord THEN Replay(c) ELSE Answer(c, "internal", Nothing)
    /\ UNCHANGED <<record, claimant, ledger, active>>

(* A statement fails, the handler is dropped or the process dies before the *)
(* commit; an open transaction is rolled back.                              *)
(* Mutation of Abort: the claim outlives the transaction.                   *)
AbortKeepingClaim(c) ==
    /\ call[c].pc \in Steps
    /\ call' = [call EXCEPT ![c] = Idle]
    /\ UNCHANGED <<record, claimant, ledger, active>>
Abort(c) ==
    /\ call[c].pc \in Steps
    /\ call' = [call EXCEPT ![c] = Idle]
    /\ claimant' = [k \in Keys |-> IF claimant[k] = c THEN Nothing ELSE claimant[k]]
    /\ UNCHANGED <<record, ledger, active>>

(* The answer is sent; whether it arrives does not matter here.             *)
Respond(c) ==
    /\ call[c].pc \in Answers
    /\ call' = [call EXCEPT ![c] = Idle]
    /\ UNCHANGED <<record, claimant, ledger, active>>

(* Somebody deactivates the asset, or activates it again.                   *)
ToggleAsset ==
    /\ active' = ~active
    /\ UNCHANGED <<record, claimant, ledger, call>>

-----------------------------------------------------------------------------
Handle(c) == Lookup(c) \/ Validate(c) \/ Claim(c) \/ Insert(c) \/ Reread(c)

Next ==
    \/ \E c \in Calls, q \in Sendable : Send(c, q)
    \/ \E c \in Calls : Handle(c) \/ Abort(c) \/ Respond(c)
    \/ ToggleAsset

Spec == Init /\ [][Next]_vars

(* A handler that is not aborted goes on; a transaction that waits for a    *)
(* key is woken when the other one ends and, in the end, gets its turn.     *)
Fairness == \A c \in Calls : /\ WF_vars(Handle(c))
                             /\ SF_vars(Claim(c))
                             /\ WF_vars(Respond(c))

FairSpec == Spec /\ Fairness

-----------------------------------------------------------------------------
(* However often and however concurrently a key is sent, it creates at most *)
(* one operation, and that is the operation its record names.               *)
OneOperationPerKey ==
    \A o \in Operations :
        ledger[o] # NoRequest => record[ledger[o].key].operation = o

(* Successful answers name an operation created under the key of the        *)
(* request, for a request of the same fingerprint.                          *)
SuccessNamesItsOperation ==
    \A c \in Calls :
        call[c].pc \in {"created", "replayed"} =>
            LET created == ledger[call[c].operation]
            IN  /\ created.key = Key(c)
                /\ Fingerprint(created) = Fingerprint(call[c].request)

(* Losing the race for a key always finds the winner's record.              *)
RaceLostFindsRecord == \A c \in Calls : call[c].pc # "internal"

(* A request sent again after it had been recorded is answered by the       *)
(* recorded operation, whatever happened to the asset since.                *)
RecordedRequestReplays ==
    \A c \in Calls :
        /\ call[c].recorded
        /\ call[c].pc \in Answers
        /\ record[Key(c)].fingerprint = Fingerprint(call[c].request)
        => call[c].pc = "replayed"

(* Two requests that differ are never taken for each other: an operation    *)
(* answered to a request is one created from exactly that request.          *)
ReplayIsForTheSameRequest ==
    \A c \in Calls :
        call[c].pc = "replayed" => ledger[call[c].operation] = call[c].request

(* The abstract specification: what the clients of the service can tell.    *)
Client == [c \in Calls |->
    [state |-> IF call[c].pc \in Steps THEN "waiting" ELSE call[c].pc,
     request |-> call[c].request, used |-> call[c].recorded,
     operation |-> call[c].operation]]

Once == INSTANCE CreateOnce WITH
    Clients <- Calls, Requests <- Sendable,
    KeyOf <- [q \in Sendable |-> q.key],
    PrintOf <- [q \in Sendable |-> Fingerprint(q)],
    None <- Nothing, client <- Client

(* A key claimed, checked and recorded by racing transactions that may fail *)
(* at any step is, to the clients, a key used in one step: no request sees  *)
(* two operations, a lost race or a rejection of what was created.          *)
ImplementsCreateOnce == Once!Spec

(* Every request is answered unless its handler is aborted: a transaction   *)
(* that waits for a key waits for one that ends.                            *)
EveryRequestEnds == \A c \in Calls : call[c].pc \in Steps ~> call[c].pc \notin Steps
=============================================================================
