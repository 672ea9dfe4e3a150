----------------------- MODULE IdempotentCreateProofs -----------------------
(* Theorems about IdempotentCreate, for any keys, requests and handlers.    *)
EXTENDS IdempotentCreate, TLAPS

(* The inductive invariant.  A handler about to insert holds the claim of   *)
(* its key, and a claim and a committed record exclude each other; so the   *)
(* key of an insertion has no record yet.                                   *)
InserterHoldsClaim == \A c \in Calls : call[c].pc = "insert" => claimant[Key(c)] = c
ClaimXorRecord == \A k \in Keys : record[k] # NoRecord => claimant[k] = Nothing
LoserHasRecord == \A c \in Calls : call[c].pc = "reread" => record[Key(c)] # NoRecord

KeyInv ==
    /\ TypeOK
    /\ InserterHoldsClaim
    /\ ClaimXorRecord
    /\ LoserHasRecord
    /\ OneOperationPerKey
    /\ RaceLostFindsRecord

LEMMA InitKey == Init => KeyInv
  BY DEF Init, KeyInv, TypeOK, InserterHoldsClaim, ClaimXorRecord, LoserHasRecord,
         OneOperationPerKey, RaceLostFindsRecord, Idle, NoRequest, NoRecord

(* The fingerprint of a request can be recorded.                            *)
LEMMA FingerprintType == \A q \in Sendable : Fingerprint(q) \in Fingerprints
  BY DEF Fingerprint, Fingerprints, Sendable, Request

LEMMA CallFields ==
    ASSUME NEW x \in Call, NEW pc \in Steps \cup Answers,
           NEW o \in Operations \cup {Nothing}
    PROVE  /\ [x EXCEPT !.pc = pc] \in Call
           /\ [x EXCEPT !.pc = pc].pc = pc
           /\ [x EXCEPT !.pc = pc].request = x.request
           /\ [x EXCEPT !.pc = pc, !.operation = o] \in Call
           /\ [x EXCEPT !.pc = pc, !.operation = o].pc = pc
           /\ [x EXCEPT !.pc = pc, !.operation = o].request = x.request
  BY DEF Call

(* A handler at some step handles a request. *)
LEMMA Handling ==
    ASSUME TypeOK, NEW c \in Calls, call[c].pc \in Steps \cup Answers
    PROVE  /\ call[c] \in Call
           /\ call[c].request \in Sendable
           /\ Key(c) \in Keys
<1>1. call[c] \in Call
  BY DEF TypeOK, Idle, Steps, Answers
<1>. QED BY <1>1 DEF Call, Key, Sendable, Request

(* What a step of one handler does to the handlers. *)
LEMMA Moved ==
    ASSUME TypeOK, NEW c \in Calls, call[c].pc \in Steps, NEW pc \in Steps \cup Answers,
           NEW o \in Operations \cup {Nothing},
           Goto(c, pc) \/ Answer(c, pc, o)
    PROVE  /\ call' \in [Calls -> Call \cup {Idle}]
           /\ call'[c].pc = pc
           /\ Key(c)' = Key(c)
           /\ \A d \in Calls : d # c => call'[d] = call[d]
<1>1. call[c] \in Call
  BY Handling
<1>2. CASE Goto(c, pc)
  BY <1>1, <1>2, CallFields DEF TypeOK, Goto, Key
<1>3. CASE Answer(c, pc, o)
  <2>. DEFINE x == [call[c] EXCEPT !.pc = pc, !.operation = o]
  <2>1. x \in Call /\ x.pc = pc /\ x.request = call[c].request
    BY <1>1 DEF Call
  <2>2. call' = [call EXCEPT ![c] = x]
    BY <1>3 DEF Answer
  <2>. HIDE DEF x
  <2>. QED BY <2>1, <2>2 DEF TypeOK, Key
<1>. QED BY <1>2, <1>3

(* A replay answers from a record. *)
LEMMA ReplayMoves ==
    ASSUME TypeOK, NEW c \in Calls, call[c].pc \in Steps, record[Key(c)] # NoRecord, Replay(c)
    PROVE  /\ call' \in [Calls -> Call \cup {Idle}]
           /\ call'[c].pc \in {"replayed", "conflict"}
           /\ \A d \in Calls : d # c => call'[d] = call[d]
<1>1. record[Key(c)].operation \in Operations
  BY Handling DEF TypeOK, Record
<1>2. CASE Answer(c, "replayed", record[Key(c)].operation)
  BY <1>1, <1>2, Moved DEF Answers
<1>3. CASE Answer(c, "conflict", Nothing)
  BY <1>3, Moved DEF Answers
<1>. QED BY <1>2, <1>3 DEF Replay

(* A step that changes neither records, claims nor ledger keeps the         *)
(* invariant if the handler it moves is neither about to insert nor beaten. *)
LEMMA OnlyMoves ==
    ASSUME KeyInv, NEW c \in Calls, UNCHANGED <<record, claimant, ledger>>,
           active' \in BOOLEAN,
           call' \in [Calls -> Call \cup {Idle}],
           call'[c].pc \notin {"insert", "reread", "internal"},
           \A d \in Calls : d # c => call'[d] = call[d]
    PROVE  KeyInv'
<1>1. TypeOK'
  BY DEF KeyInv, TypeOK
<1>2. InserterHoldsClaim' /\ LoserHasRecord' /\ RaceLostFindsRecord'
  BY DEF KeyInv, InserterHoldsClaim, LoserHasRecord, RaceLostFindsRecord, Key
<1>3. ClaimXorRecord' /\ OneOperationPerKey'
  BY DEF KeyInv, ClaimXorRecord, OneOperationPerKey
<1>. QED BY <1>1, <1>2, <1>3 DEF KeyInv

LEMMA ClaimKey ==
    ASSUME KeyInv, NEW c \in Calls, Claim(c)
    PROVE  KeyInv'
<1>0. call[c].pc = "claim" /\ Key(c) \in Keys /\ TypeOK /\ claimant[Key(c)] = Nothing
  BY Handling DEF Claim, KeyInv, Steps
<1>1. CASE record[Key(c)] = NoRecord
  <2>1. /\ claimant' = [claimant EXCEPT ![Key(c)] = c]
        /\ Goto(c, "insert")
        /\ UNCHANGED <<record, ledger, active>>
    BY <1>1 DEF Claim
  <2>2. /\ call' \in [Calls -> Call \cup {Idle}]
        /\ call'[c].pc = "insert"
        /\ Key(c)' = Key(c)
        /\ \A d \in Calls : d # c => call'[d] = call[d]
    BY <1>0, <2>1, Moved DEF Steps
  <2>3. TypeOK'
    BY <2>1, <2>2 DEF KeyInv, TypeOK
  <2>4. InserterHoldsClaim'
    <3>. SUFFICES ASSUME NEW d \in Calls, call'[d].pc = "insert" PROVE claimant'[Key(d)'] = d
      BY DEF InserterHoldsClaim
    <3>1. CASE d = c
      BY <1>0, <2>1, <2>2, <3>1 DEF TypeOK
    <3>2. CASE d # c
      <4>1. claimant[Key(d)] = d /\ Key(d)' = Key(d)
        BY <2>2, <3>2 DEF KeyInv, InserterHoldsClaim, Key
      <4>2. d # Nothing
        BY IdempotentCreateAssumption
      <4>. QED BY <1>0, <2>1, <4>1, <4>2 DEF TypeOK
    <3>. QED BY <3>1, <3>2
  <2>5. ClaimXorRecord' /\ OneOperationPerKey'
    BY <1>1, <2>1 DEF KeyInv, TypeOK, ClaimXorRecord, OneOperationPerKey
  <2>6. LoserHasRecord' /\ RaceLostFindsRecord'
    BY <2>1, <2>2 DEF KeyInv, LoserHasRecord, RaceLostFindsRecord, Key
  <2>. QED BY <2>3, <2>4, <2>5, <2>6 DEF KeyInv
<1>2. CASE record[Key(c)] # NoRecord
  <2>1. Goto(c, "reread") /\ UNCHANGED <<record, claimant, ledger, active>>
    BY <1>2 DEF Claim
  <2>2. /\ call' \in [Calls -> Call \cup {Idle}]
        /\ call'[c].pc = "reread"
        /\ Key(c)' = Key(c)
        /\ \A d \in Calls : d # c => call'[d] = call[d]
    BY <1>0, <2>1, Moved DEF Steps
  <2>3. TypeOK'
    BY <2>1, <2>2 DEF KeyInv, TypeOK
  <2>4. InserterHoldsClaim' /\ LoserHasRecord' /\ RaceLostFindsRecord'
    BY <1>2, <2>1, <2>2
    DEF KeyInv, InserterHoldsClaim, LoserHasRecord, RaceLostFindsRecord, Key
  <2>5. ClaimXorRecord' /\ OneOperationPerKey'
    BY <2>1 DEF KeyInv, ClaimXorRecord, OneOperationPerKey
  <2>. QED BY <2>3, <2>4, <2>5 DEF KeyInv
<1>. QED BY <1>1, <1>2

LEMMA InsertKey ==
    ASSUME KeyInv, NEW c \in Calls, Insert(c)
    PROVE  KeyInv'
<1>0. /\ call[c].pc = "insert" /\ TypeOK
      /\ Key(c) \in Keys /\ call[c].request \in Sendable
      /\ call[c].request.key = Key(c)
  BY Handling DEF Insert, KeyInv, Steps, Key
<1>. PICK o \in Operations :
        /\ ledger[o] = NoRequest
        /\ ledger' = [ledger EXCEPT ![o] = call[c].request]
        /\ record' = [record EXCEPT ![Key(c)] =
              [fingerprint |-> Fingerprint(call[c].request), operation |-> o]]
        /\ Answer(c, "created", o)
  BY DEF Insert
<1>1. claimant' = [claimant EXCEPT ![Key(c)] = Nothing] /\ active' = active
  BY DEF Insert
<1>2. claimant[Key(c)] = c /\ record[Key(c)] = NoRecord
  BY <1>0, IdempotentCreateAssumption DEF KeyInv, InserterHoldsClaim, ClaimXorRecord
<1>3. /\ call' \in [Calls -> Call \cup {Idle}]
      /\ call'[c].pc = "created"
      /\ \A d \in Calls : d # c => call'[d] = call[d]
  BY <1>0, Moved DEF Steps, Answers
<1>. DEFINE rec == [fingerprint |-> Fingerprint(call[c].request), operation |-> o]
<1>4. rec \in Record /\ rec.operation = o /\ rec # NoRecord
  BY <1>0, FingerprintType, IdempotentCreateAssumption DEF Record, NoRecord
<1>5. record' = [record EXCEPT ![Key(c)] = rec]
  OBVIOUS
<1>. HIDE DEF rec
<1>6. TypeOK'
  BY <1>0, <1>1, <1>3, <1>4, <1>5 DEF TypeOK
<1>7. InserterHoldsClaim'
  <2>. SUFFICES ASSUME NEW d \in Calls, call'[d].pc = "insert" PROVE claimant'[Key(d)'] = d
    BY DEF InserterHoldsClaim
  <2>1. d # c /\ claimant[Key(d)] = d /\ Key(d)' = Key(d)
    BY <1>3 DEF KeyInv, InserterHoldsClaim, Key
  <2>. QED BY <1>0, <1>1, <1>2, <2>1 DEF TypeOK
<1>8. ClaimXorRecord'
  BY <1>0, <1>1, <1>5 DEF KeyInv, TypeOK, ClaimXorRecord
<1>9. LoserHasRecord' /\ RaceLostFindsRecord'
  BY <1>0, <1>3, <1>4, <1>5
  DEF KeyInv, TypeOK, LoserHasRecord, RaceLostFindsRecord, Key
<1>10. OneOperationPerKey'
  <2>. SUFFICES ASSUME NEW p \in Operations, ledger'[p] # NoRequest
                PROVE  record'[ledger'[p].key].operation = p
    BY DEF OneOperationPerKey
  <2>1. CASE p = o
    BY <1>0, <1>4, <1>5, <2>1 DEF TypeOK
  <2>2. CASE p # o
    <3>1. ledger'[p] = ledger[p] /\ record[ledger[p].key].operation = p
      BY <1>0, <2>2 DEF KeyInv, TypeOK, OneOperationPerKey
    <3>2. ledger[p].key # Key(c)
      BY <1>2, <3>1, IdempotentCreateAssumption DEF NoRecord
    <3>. QED BY <1>0, <1>5, <3>1, <3>2 DEF TypeOK
  <2>. QED BY <2>1, <2>2
<1>. QED BY <1>6, <1>7, <1>8, <1>9, <1>10 DEF KeyInv

LEMMA NextKey == KeyInv /\ [Next]_vars => KeyInv'
<1>. SUFFICES ASSUME KeyInv, [Next]_vars PROVE KeyInv'
  OBVIOUS
<1>0. TypeOK
  BY DEF KeyInv
<1>1. ASSUME NEW c \in Calls, NEW q \in Sendable, Send(c, q) PROVE KeyInv'
  <2>. DEFINE x == [pc |-> "lookup", request |-> q, recorded |-> record[q.key] # NoRecord,
                    operation |-> Nothing]
  <2>1. x \in Call /\ x.pc = "lookup"
    BY DEF Call, Steps
  <2>2. call' = [call EXCEPT ![c] = x] /\ UNCHANGED <<record, claimant, ledger, active>>
    BY <1>1 DEF Send
  <2>. HIDE DEF x
  <2>. QED BY <1>0, <2>1, <2>2, OnlyMoves DEF TypeOK
<1>2. ASSUME NEW c \in Calls, Lookup(c) PROVE KeyInv'
  <2>1. CASE record[Key(c)] # NoRecord
    BY <1>0, <1>2, <2>1, ReplayMoves, OnlyMoves DEF Lookup, TypeOK, Steps
  <2>2. CASE record[Key(c)] = NoRecord
    BY <1>0, <1>2, <2>2, Moved, OnlyMoves DEF Lookup, TypeOK, Steps
  <2>. QED BY <2>1, <2>2
<1>3. ASSUME NEW c \in Calls, Validate(c) PROVE KeyInv'
  <2>1. CASE active
    BY <1>0, <1>3, <2>1, Moved, OnlyMoves DEF Validate, TypeOK, Steps
  <2>2. CASE ~active
    BY <1>0, <1>3, <2>2, Moved, OnlyMoves DEF Validate, TypeOK, Steps, Answers
  <2>. QED BY <2>1, <2>2
<1>4. ASSUME NEW c \in Calls, Reread(c) PROVE KeyInv'
  <2>1. record[Key(c)] # NoRecord
    BY <1>4 DEF KeyInv, LoserHasRecord, Reread
  <2>. QED BY <1>0, <1>4, <2>1, ReplayMoves, OnlyMoves DEF Reread, TypeOK, Steps
<1>5. ASSUME NEW c \in Calls, Abort(c) PROVE KeyInv'
  <2>1. /\ call' = [call EXCEPT ![c] = Idle]
        /\ claimant' = [k \in Keys |-> IF claimant[k] = c THEN Nothing ELSE claimant[k]]
        /\ UNCHANGED <<record, ledger, active>>
    BY <1>5 DEF Abort
  <2>2. TypeOK'
    BY <1>0, <2>1 DEF TypeOK
  <2>3. InserterHoldsClaim'
    <3>. SUFFICES ASSUME NEW d \in Calls, call'[d].pc = "insert" PROVE claimant'[Key(d)'] = d
      BY DEF InserterHoldsClaim
    <3>1. d # c /\ call'[d] = call[d]
      BY <1>0, <2>1 DEF TypeOK, Idle
    <3>2. claimant[Key(d)] = d /\ Key(d)' = Key(d) /\ Key(d) \in Keys
      BY <1>0, <3>1, Handling DEF KeyInv, InserterHoldsClaim, Key, Steps
    <3>. QED BY <2>1, <3>1, <3>2
  <2>4. ClaimXorRecord' /\ OneOperationPerKey'
    BY <2>1 DEF KeyInv, ClaimXorRecord, OneOperationPerKey
  <2>5. LoserHasRecord' /\ RaceLostFindsRecord'
    BY <1>0, <2>1 DEF KeyInv, TypeOK, LoserHasRecord, RaceLostFindsRecord, Key, Idle
  <2>. QED BY <2>2, <2>3, <2>4, <2>5 DEF KeyInv
<1>6. ASSUME NEW c \in Calls, Respond(c) PROVE KeyInv'
  BY <1>0, <1>6, OnlyMoves DEF Respond, TypeOK, Idle
<1>7. CASE ToggleAsset \/ UNCHANGED vars
  <2>1. UNCHANGED <<record, claimant, ledger, call>> /\ active' \in BOOLEAN
    BY <1>0, <1>7 DEF ToggleAsset, vars, TypeOK
  <2>. QED BY <2>1
       DEF KeyInv, TypeOK, InserterHoldsClaim, ClaimXorRecord, LoserHasRecord,
           OneOperationPerKey, RaceLostFindsRecord, Key
<1>. QED BY <1>1, <1>2, <1>3, <1>4, <1>5, <1>6, <1>7, ClaimKey, InsertKey DEF Next, Handle

(* The records, the operations and what every client is doing keep their    *)
(* types, through races, rollbacks and crashes.                             *)
THEOREM CreateTypeCorrect == Spec => []TypeOK
<1>1. KeyInv => TypeOK
  BY DEF KeyInv
<1>. QED BY <1>1, InitKey, NextKey, PTL DEF Spec

(* A key creates at most one operation, through any races, retries, crashes *)
(* and rollbacks.                                                           *)
THEOREM KeyCreatesOneOperation == Spec => []OneOperationPerKey
<1>1. KeyInv => OneOperationPerKey
  BY DEF KeyInv
<1>. QED BY <1>1, InitKey, NextKey, PTL DEF Spec

(* The loser of a race for a key always has the winner's record to replay.  *)
THEOREM RaceLoserReplays == Spec => []RaceLostFindsRecord
<1>1. KeyInv => RaceLostFindsRecord
  BY DEF KeyInv
<1>. QED BY <1>1, InitKey, NextKey, PTL DEF Spec

-----------------------------------------------------------------------------
(* The answers.  A record names an operation that was created from a        *)
(* request of its key and fingerprint, and both stay as they are; a request *)
(* that was recorded when it was sent is never validated again.             *)
RecordNamesItsOperation ==
    \A k \in Keys :
        record[k] # NoRecord =>
            LET created == ledger[record[k].operation]
            IN  created.key = k /\ Fingerprint(created) = record[k].fingerprint

SuccessHasOperation ==
    \A c \in Calls :
        call[c].pc \in {"created", "replayed"} => call[c].operation \in Operations

RecordedIsLookedUp ==
    \A c \in Calls :
        call[c].recorded =>
            /\ record[Key(c)] # NoRecord
            /\ call[c].pc \in {"lookup", "replayed", "conflict"}
            /\ call[c].pc = "conflict" =>
                  record[Key(c)].fingerprint # Fingerprint(call[c].request)

AnswerInv ==
    /\ RecordNamesItsOperation
    /\ SuccessHasOperation
    /\ SuccessNamesItsOperation
    /\ RecordedIsLookedUp

LEMMA InitAnswer == Init => AnswerInv
  BY DEF Init, AnswerInv, RecordNamesItsOperation, SuccessHasOperation,
         SuccessNamesItsOperation, RecordedIsLookedUp, Idle

(* Rows are only ever added. *)
LEMMA RowsStay ==
    ASSUME KeyInv, [Next]_vars
    PROVE  /\ \A k \in Keys : record[k] # NoRecord => record'[k] = record[k]
           /\ \A o \in Operations : ledger[o] # NoRequest => ledger'[o] = ledger[o]
<1>1. ASSUME NEW c \in Calls, Insert(c)
      PROVE  /\ \A k \in Keys : record[k] # NoRecord => record'[k] = record[k]
             /\ \A o \in Operations : ledger[o] # NoRequest => ledger'[o] = ledger[o]
  <2>1. Key(c) \in Keys /\ claimant[Key(c)] = c /\ record[Key(c)] = NoRecord
    BY <1>1, Handling, IdempotentCreateAssumption
    DEF Insert, KeyInv, InserterHoldsClaim, ClaimXorRecord, Steps
  <2>. QED BY <1>1, <2>1 DEF Insert, KeyInv, TypeOK
<1>2. CASE ~ \E c \in Calls : Insert(c)
  BY <1>2 DEF Next, Handle, Send, Lookup, Validate, Claim, Reread, Abort, Respond,
              ToggleAsset, vars
<1>. QED BY <1>1, <1>2

(* What one step makes of the handlers, as far as the answers go.           *)
Replays(c) ==
    /\ record[Key(c)] # NoRecord
    /\ \/ /\ record[Key(c)].fingerprint = Fingerprint(call[c].request)
          /\ call'[c].pc = "replayed"
          /\ call'[c].operation = record[Key(c)].operation
       \/ /\ record[Key(c)].fingerprint # Fingerprint(call[c].request)
          /\ call'[c].pc = "conflict"

Proceeds(c) ==
    \/ Replays(c)
    \/ /\ call[c].pc # "lookup" \/ record[Key(c)] = NoRecord
       /\ call'[c].pc \notin {"created", "replayed"}

LEMMA StepOfReplay ==
    ASSUME KeyInv, NEW c \in Calls, call[c].pc \in Steps, record[Key(c)] # NoRecord, Replay(c)
    PROVE  /\ Replays(c)
           /\ call'[c].request = call[c].request /\ call'[c].recorded = call[c].recorded
           /\ \A d \in Calls : d # c => call'[d] = call[d]
<1>1. call[c] \in Call /\ call \in [Calls -> Call \cup {Idle}]
  BY Handling DEF KeyInv, TypeOK
<1>2. CASE record[Key(c)].fingerprint = Fingerprint(call[c].request)
  BY <1>1, <1>2 DEF Replay, Answer, Replays, Call
<1>3. CASE record[Key(c)].fingerprint # Fingerprint(call[c].request)
  BY <1>1, <1>3 DEF Replay, Answer, Replays, Call
<1>. QED BY <1>2, <1>3

LEMMA StepOfHandler ==
    ASSUME KeyInv, NEW c \in Calls, Lookup(c) \/ Validate(c) \/ Claim(c) \/ Reread(c)
    PROVE  /\ Proceeds(c) /\ call[c].pc \in Steps
           /\ call'[c].request = call[c].request /\ call'[c].recorded = call[c].recorded
           /\ \A d \in Calls : d # c => call'[d] = call[d]
<1>0. call[c].pc \in Steps
  BY DEF Lookup, Validate, Claim, Reread, Steps
<1>1. call[c] \in Call /\ call \in [Calls -> Call \cup {Idle}]
  BY <1>0, Handling DEF KeyInv, TypeOK
<1>2. CASE Lookup(c)
  <2>1. CASE record[Key(c)] # NoRecord
    BY <1>0, <1>2, <2>1, StepOfReplay DEF Lookup, Proceeds
  <2>2. CASE record[Key(c)] = NoRecord
    BY <1>0, <1>1, <1>2, <2>2 DEF Lookup, Goto, Proceeds, Call
  <2>. QED BY <2>1, <2>2
<1>3. CASE Validate(c)
  <2>1. CASE Goto(c, "claim")
    BY <1>0, <1>1, <1>3, <2>1 DEF Validate, Goto, Proceeds, Call
  <2>2. CASE Answer(c, "rejected", Nothing)
    BY <1>0, <1>1, <1>3, <2>2 DEF Validate, Answer, Proceeds, Call
  <2>. QED BY <1>3, <2>1, <2>2 DEF Validate
<1>4. CASE Claim(c)
  BY <1>0, <1>1, <1>4 DEF Claim, Goto, Proceeds, Call
<1>5. CASE Reread(c)
  <2>1. record[Key(c)] # NoRecord
    BY <1>5 DEF KeyInv, LoserHasRecord, Reread
  <2>. QED BY <1>0, <1>5, <2>1, StepOfReplay DEF Reread, Proceeds
<1>. QED BY <1>2, <1>3, <1>4, <1>5

(* Handlers that do not move keep what AnswerInv says of them. *)
LEMMA OthersKeepAnswers ==
    ASSUME KeyInv, AnswerInv, [Next]_vars, NEW d \in Calls, call'[d] = call[d]
    PROVE  /\ call'[d].pc \in {"created", "replayed"} =>
                 /\ call'[d].operation \in Operations
                 /\ ledger'[call'[d].operation].key = Key(d)'
                 /\ Fingerprint(ledger'[call'[d].operation]) = Fingerprint(call'[d].request)
           /\ call'[d].recorded =>
                 /\ record'[Key(d)'] # NoRecord
                 /\ call'[d].pc \in {"lookup", "replayed", "conflict"}
                 /\ call'[d].pc = "conflict" =>
                       record'[Key(d)'].fingerprint # Fingerprint(call'[d].request)
<1>0. Key(d)' = Key(d)
  BY DEF Key
<1>1. ASSUME call[d].pc \in {"created", "replayed"}
      PROVE  /\ call'[d].operation \in Operations
             /\ ledger'[call'[d].operation].key = Key(d)'
             /\ Fingerprint(ledger'[call'[d].operation]) = Fingerprint(call'[d].request)
  <2>1. Key(d) \in Keys
    BY <1>1, Handling DEF KeyInv, Answers
  <2>2. /\ call[d].operation \in Operations
        /\ ledger[call[d].operation].key = Key(d)
        /\ Fingerprint(ledger[call[d].operation]) = Fingerprint(call[d].request)
    BY <1>1 DEF AnswerInv, SuccessHasOperation, SuccessNamesItsOperation
  <2>3. ledger[call[d].operation] # NoRequest
    BY <2>1, <2>2, IdempotentCreateAssumption DEF NoRequest
  <2>. QED BY <1>0, <2>2, <2>3, RowsStay
<1>2. ASSUME call[d].recorded
      PROVE  /\ record'[Key(d)'] # NoRecord
             /\ call'[d].pc \in {"lookup", "replayed", "conflict"}
             /\ call'[d].pc = "conflict" =>
                   record'[Key(d)'].fingerprint # Fingerprint(call'[d].request)
  <2>1. /\ record[Key(d)] # NoRecord
        /\ call[d].pc \in {"lookup", "replayed", "conflict"}
        /\ call[d].pc = "conflict" =>
              record[Key(d)].fingerprint # Fingerprint(call[d].request)
    BY <1>2 DEF AnswerInv, RecordedIsLookedUp
  <2>2. Key(d) \in Keys
    BY <2>1, Handling DEF KeyInv, Steps, Answers
  <2>. QED BY <1>0, <2>1, <2>2, RowsStay
<1>. QED BY <1>1, <1>2

LEMMA NextAnswer == KeyInv /\ AnswerInv /\ [Next]_vars => AnswerInv'
<1>. SUFFICES ASSUME KeyInv, AnswerInv, [Next]_vars PROVE AnswerInv'
  OBVIOUS
<1>0. TypeOK
  BY DEF KeyInv
<1>1. RecordNamesItsOperation'
  <2>. SUFFICES ASSUME NEW k \in Keys, record'[k] # NoRecord
                PROVE  /\ ledger'[record'[k].operation].key = k
                       /\ Fingerprint(ledger'[record'[k].operation]) = record'[k].fingerprint
    BY DEF RecordNamesItsOperation, Fingerprint
  <2>1. CASE record[k] # NoRecord
    <3>1. record'[k] = record[k] /\ record[k].operation \in Operations
      BY <1>0, <2>1, RowsStay DEF TypeOK, Record
    <3>2. /\ ledger[record[k].operation].key = k
          /\ Fingerprint(ledger[record[k].operation]) = record[k].fingerprint
      BY <2>1 DEF AnswerInv, RecordNamesItsOperation
    <3>3. ledger[record[k].operation] # NoRequest
      BY <3>2, IdempotentCreateAssumption DEF NoRequest
    <3>. QED BY <3>1, <3>2, <3>3, RowsStay
  <2>2. CASE record[k] = NoRecord
    <3>1. PICK c \in Calls : Insert(c)
      BY <2>2 DEF Next, Handle, Send, Lookup, Validate, Claim, Reread, Abort, Respond,
                  ToggleAsset, vars
    <3>2. PICK o \in Operations :
             /\ ledger' = [ledger EXCEPT ![o] = call[c].request]
             /\ record' = [record EXCEPT ![Key(c)] =
                   [fingerprint |-> Fingerprint(call[c].request), operation |-> o]]
      BY <3>1 DEF Insert
    <3>3. k = Key(c)
      BY <1>0, <2>2, <3>2 DEF TypeOK
    <3>. QED BY <1>0, <3>2, <3>3 DEF TypeOK, Key
  <2>. QED BY <2>1, <2>2
<1>2. ASSUME NEW d \in Calls
      PROVE  /\ call'[d].pc \in {"created", "replayed"} =>
                   /\ call'[d].operation \in Operations
                   /\ ledger'[call'[d].operation].key = Key(d)'
                   /\ Fingerprint(ledger'[call'[d].operation]) = Fingerprint(call'[d].request)
             /\ call'[d].recorded =>
                   /\ record'[Key(d)'] # NoRecord
                   /\ call'[d].pc \in {"lookup", "replayed", "conflict"}
                   /\ call'[d].pc = "conflict" =>
                         record'[Key(d)'].fingerprint # Fingerprint(call'[d].request)
  <2>1. CASE call'[d] = call[d]
    BY <2>1, OthersKeepAnswers
  <2>2. ASSUME NEW c \in Calls, NEW q \in Sendable, Send(c, q), call'[d] # call[d]
        PROVE  /\ call'[d].pc = "lookup"
               /\ call'[d].recorded => record'[Key(d)'] # NoRecord
    <3>. DEFINE x == [pc |-> "lookup", request |-> q, recorded |-> record[q.key] # NoRecord,
                      operation |-> Nothing]
    <3>1. x.pc = "lookup" /\ x.request = q /\ x.recorded = (record[q.key] # NoRecord)
      OBVIOUS
    <3>2. call' = [call EXCEPT ![c] = x] /\ record' = record
      BY <2>2 DEF Send
    <3>. HIDE DEF x
    <3>. QED BY <1>0, <2>2, <3>1, <3>2 DEF TypeOK, Key
  <2>3. ASSUME NEW c \in Calls, Lookup(c) \/ Validate(c) \/ Claim(c) \/ Reread(c),
               call'[d] # call[d]
        PROVE  /\ call'[d].pc \in {"created", "replayed"} =>
                     /\ call'[d].operation \in Operations
                     /\ ledger'[call'[d].operation].key = Key(d)'
                     /\ Fingerprint(ledger'[call'[d].operation]) = Fingerprint(call'[d].request)
               /\ call'[d].recorded =>
                     /\ record'[Key(d)'] # NoRecord
                     /\ call'[d].pc \in {"lookup", "replayed", "conflict"}
                     /\ call'[d].pc = "conflict" =>
                           record'[Key(d)'].fingerprint # Fingerprint(call'[d].request)
    <3>1. /\ Proceeds(d) /\ call[d].pc \in Steps
          /\ call'[d].request = call[d].request /\ call'[d].recorded = call[d].recorded
      BY <2>3, StepOfHandler
    <3>2. Key(d) \in Keys /\ Key(d)' = Key(d) /\ UNCHANGED <<record, ledger>>
      BY <1>0, <2>3, <3>1, Handling DEF Key, Lookup, Validate, Claim, Reread
    <3>3. ASSUME call[d].recorded PROVE call[d].pc = "lookup" /\ record[Key(d)] # NoRecord
      BY <3>1, <3>3 DEF AnswerInv, RecordedIsLookedUp, Steps
    <3>4. CASE Replays(d)
      <4>1. /\ record[Key(d)].operation \in Operations
            /\ ledger[record[Key(d)].operation].key = Key(d)
            /\ Fingerprint(ledger[record[Key(d)].operation]) = record[Key(d)].fingerprint
        BY <1>0, <3>2, <3>4 DEF Replays, TypeOK, Record, AnswerInv, RecordNamesItsOperation
      <4>. QED BY <3>1, <3>2, <3>4, <4>1 DEF Replays
    <3>5. CASE ~Replays(d)
      BY <3>1, <3>2, <3>3, <3>5 DEF Proceeds
    <3>. QED BY <3>4, <3>5
  <2>4. ASSUME NEW c \in Calls, Insert(c), call'[d] # call[d]
        PROVE  /\ call'[d].operation \in Operations
               /\ ledger'[call'[d].operation].key = Key(d)'
               /\ Fingerprint(ledger'[call'[d].operation]) = Fingerprint(call'[d].request)
               /\ ~call'[d].recorded
    <3>1. PICK o \in Operations :
             /\ ledger' = [ledger EXCEPT ![o] = call[c].request]
             /\ Answer(c, "created", o)
      BY <2>4 DEF Insert
    <3>2. call[c] \in Call /\ call[c].pc = "insert"
      BY <1>0, <2>4, Handling DEF Insert, Steps
    <3>3. d = c
      BY <1>0, <2>4, <3>1 DEF Answer, TypeOK
    <3>4. /\ call'[d].request = call[d].request /\ call'[d].operation = o
          /\ call'[d].recorded = call[d].recorded
      BY <1>0, <3>1, <3>2, <3>3 DEF Answer, TypeOK, Call
    <3>5. ~call[d].recorded
      BY <3>2, <3>3 DEF AnswerInv, RecordedIsLookedUp
    <3>. QED BY <1>0, <3>1, <3>3, <3>4, <3>5 DEF TypeOK, Key
  <2>5. ASSUME NEW c \in Calls, Abort(c) \/ Respond(c), call'[d] # call[d]
        PROVE  call'[d] = Idle
    BY <1>0, <2>5 DEF Abort, Respond, TypeOK
  <2>6. CASE ToggleAsset \/ UNCHANGED vars
    BY <2>1, <2>6 DEF ToggleAsset, vars
  <2>7. Idle.pc = "idle" /\ ~Idle.recorded
    BY DEF Idle
  <2>. QED BY <2>1, <2>2, <2>3, <2>4, <2>5, <2>6, <2>7 DEF Next, Handle
<1>3. SuccessHasOperation' /\ SuccessNamesItsOperation' /\ RecordedIsLookedUp'
  BY <1>2 DEF SuccessHasOperation, SuccessNamesItsOperation, RecordedIsLookedUp, Key, Fingerprint
<1>. QED BY <1>1, <1>3 DEF AnswerInv

LEMMA AnswersHold == Spec => [](KeyInv /\ AnswerInv)
  BY InitKey, NextKey, InitAnswer, NextAnswer, PTL DEF Spec

(* A successful answer names an operation created under the key of the      *)
(* request, for a request of the same fingerprint.                          *)
THEOREM SuccessNamesTheOperation == Spec => []SuccessNamesItsOperation
<1>1. KeyInv /\ AnswerInv => SuccessNamesItsOperation
  BY DEF AnswerInv
<1>. QED BY <1>1, AnswersHold, PTL

(* A request that was recorded when it was sent is answered by what was     *)
(* recorded, whatever became of the asset.                                  *)
THEOREM RecordedReplays == Spec => []RecordedRequestReplays
<1>1. KeyInv /\ AnswerInv => RecordedRequestReplays
  BY DEF AnswerInv, RecordedIsLookedUp, RecordedRequestReplays, Answers
<1>. QED BY <1>1, AnswersHold, PTL

-----------------------------------------------------------------------------
(* The refinement: to its clients the service is CreateOnce.                *)

(* What the client of a handler can tell.                                   *)
Seen(x) == [state |-> IF x.pc \in Steps THEN "waiting" ELSE x.pc,
            request |-> x.request, used |-> x.recorded, operation |-> x.operation]

(* The record of a key says which operation the key created.                *)
LEMMA CreatedIsRecorded ==
    ASSUME KeyInv, AnswerInv, NEW k \in Keys
    PROVE  Once!CreatedUnder(k) = IF record[k] = NoRecord THEN {} ELSE {record[k].operation}
<1>1. ASSUME NEW o \in Operations, ledger[o] # NoRequest, ledger[o].key = k
      PROVE  record[k] # NoRecord /\ record[k].operation = o
  BY <1>1, IdempotentCreateAssumption DEF KeyInv, OneOperationPerKey, NoRecord
<1>2. ASSUME record[k] # NoRecord
      PROVE  /\ record[k].operation \in Operations
             /\ ledger[record[k].operation] # NoRequest
             /\ ledger[record[k].operation].key = k
  BY <1>2, IdempotentCreateAssumption
  DEF KeyInv, TypeOK, Record, AnswerInv, RecordNamesItsOperation, NoRequest
<1>3. \A o \in Operations : ledger[o] # NoRequest => ledger[o] \in Sendable
  BY DEF KeyInv, TypeOK
<1>4. Once!CreatedUnder(k) = {o \in Operations : ledger[o] # NoRequest /\ ledger[o].key = k}
  BY <1>3 DEF Once!CreatedUnder
<1>. QED BY <1>1, <1>2, <1>4

(* When one handler moves, its client alone sees something.                 *)
LEMMA ClientMoves ==
    ASSUME NEW c \in Calls, call \in [Calls -> Call \cup {Idle}],
           call' \in [Calls -> Call \cup {Idle}],
           \A d \in Calls : d # c => call'[d] = call[d]
    PROVE  /\ Client' = [Client EXCEPT ![c] = Seen(call'[c])]
           /\ Client[c] = Seen(call[c])
  BY DEF Client, Seen

(* A handler that goes on to a further step shows nothing.                  *)
LEMMA GoingOn ==
    ASSUME TypeOK, NEW c \in Calls, call[c].pc \in Steps, NEW pc \in Steps, Goto(c, pc)
    PROVE  Client' = Client
<1>1. call[c] \in Call
  BY Handling
<1>2. /\ call' \in [Calls -> Call \cup {Idle}]
      /\ \A d \in Calls : d # c => call'[d] = call[d]
  BY Moved
<1>3. call'[c] = [call[c] EXCEPT !.pc = pc]
  BY DEF Goto, TypeOK
<1>4. Seen(call'[c]) = Seen(call[c])
  BY <1>1, <1>3 DEF Seen, Call
<1>5. Client' = [Client EXCEPT ![c] = Client[c]]
  BY <1>2, <1>4, ClientMoves DEF TypeOK
<1>6. \A d \in Calls : Client'[d] = Client[d]
  BY <1>5 DEF Client
<1>. QED BY <1>6 DEF Client

(* An answer is an answer to the client.                                    *)
LEMMA AnswerSeen ==
    ASSUME TypeOK, NEW c \in Calls, call[c].pc \in Steps, NEW answer \in Answers,
           NEW o \in Operations \cup {Nothing}, Answer(c, answer, o)
    PROVE  /\ Once!Waits(c)
           /\ Once!Answered(c, answer, o)
           /\ Client[c].request = call[c].request
           /\ Client[c].used = call[c].recorded
<1>1. call[c] \in Call
  BY Handling
<1>2. /\ call' \in [Calls -> Call \cup {Idle}]
      /\ \A d \in Calls : d # c => call'[d] = call[d]
  BY Moved
<1>3. call'[c] = [call[c] EXCEPT !.pc = answer, !.operation = o]
  BY DEF Answer, TypeOK
<1>4. /\ call'[c].pc = answer /\ call'[c].request = call[c].request
      /\ call'[c].recorded = call[c].recorded /\ call'[c].operation = o
  BY <1>1, <1>3 DEF Call
<1>5. Seen(call'[c]) = [state |-> answer, request |-> call[c].request,
                        used |-> call[c].recorded, operation |-> o]
  BY <1>4 DEF Seen, Answers, Steps
<1>6. /\ Client' = [Client EXCEPT ![c] = Seen(call'[c])]
      /\ Client[c] = Seen(call[c])
  BY <1>2, ClientMoves DEF TypeOK
<1>7. /\ Client[c].state = "waiting" /\ Client[c].request = call[c].request
      /\ Client[c].used = call[c].recorded
  BY <1>6 DEF Seen
<1>. QED BY <1>5, <1>6, <1>7 DEF Once!Waits, Once!Answered

LEMMA ReplayRefines ==
    ASSUME KeyInv, AnswerInv, NEW c \in Calls, call[c].pc \in Steps,
           record[Key(c)] # NoRecord, Replay(c), UNCHANGED ledger
    PROVE  \E o \in Operations : Once!Replay(c, o) \/ Once!Conflict(c, o)
<1>. DEFINE o == record[Key(c)].operation
            q == call[c].request
<1>1. TypeOK /\ q \in Sendable /\ Key(c) \in Keys /\ q.key = Key(c)
  BY Handling DEF KeyInv, Key
<1>2. o \in Once!CreatedUnder(q.key) /\ o \in Operations
  BY <1>1, CreatedIsRecorded DEF TypeOK, Record
<1>3. ledger[o] \in Sendable /\ Fingerprint(ledger[o]) = record[Key(c)].fingerprint
  <2>1. ledger[o] # NoRequest
    BY <1>2 DEF Once!CreatedUnder
  <2>. QED BY <1>1, <1>2, <2>1 DEF TypeOK, AnswerInv, RecordNamesItsOperation
<1>4. CASE record[Key(c)].fingerprint = Fingerprint(q)
  <2>1. Answer(c, "replayed", o)
    BY <1>4 DEF Replay
  <2>2. /\ Once!Waits(c) /\ Once!Answered(c, "replayed", o) /\ Client[c].request = q
    BY <1>1, <1>2, <2>1, AnswerSeen DEF Answers
  <2>3. Once!Replay(c, o)
    BY <1>1, <1>2, <1>3, <1>4, <2>2 DEF Once!Replay
  <2>. QED BY <1>2, <2>3
<1>5. CASE record[Key(c)].fingerprint # Fingerprint(q)
  <2>1. Answer(c, "conflict", Nothing)
    BY <1>5 DEF Replay
  <2>2. /\ Once!Waits(c) /\ Once!Answered(c, "conflict", Nothing) /\ Client[c].request = q
    BY <1>1, <1>2, <2>1, AnswerSeen DEF Answers
  <2>3. Once!Conflict(c, o)
    BY <1>1, <1>2, <1>3, <1>5, <2>2 DEF Once!Conflict
  <2>. QED BY <1>2, <2>3
<1>. QED BY <1>4, <1>5

LEMMA SendRefines ==
    ASSUME KeyInv, AnswerInv, NEW c \in Calls, NEW q \in Sendable, Send(c, q)
    PROVE  Once!Ask(c, q)
<1>. DEFINE x == [pc |-> "lookup", request |-> q, recorded |-> record[q.key] # NoRecord,
                  operation |-> Nothing]
<1>1. /\ x.pc = "lookup" /\ x.request = q /\ x.recorded = (record[q.key] # NoRecord)
      /\ x.operation = Nothing /\ x \in Call
  BY DEF Call, Steps
<1>2. /\ call[c] = Idle /\ call' = [call EXCEPT ![c] = x] /\ UNCHANGED ledger
      /\ call \in [Calls -> Call \cup {Idle}]
  BY DEF Send, KeyInv, TypeOK
<1>. HIDE DEF x
<1>3. /\ call' \in [Calls -> Call \cup {Idle}] /\ call'[c] = x
      /\ \A d \in Calls : d # c => call'[d] = call[d]
  BY <1>1, <1>2
<1>4. Client' = [Client EXCEPT ![c] = Seen(x)] /\ Client[c] = Seen(Idle)
  BY <1>2, <1>3, ClientMoves
<1>5. Seen(Idle) = Once!Quiet
  BY DEF Seen, Idle, Once!Quiet, Steps, NoRequest
<1>6. q.key \in Keys
  BY DEF Sendable, Request
<1>7. x.recorded = (Once!CreatedUnder(q.key) # {})
  BY <1>1, <1>6, CreatedIsRecorded
<1>8. Seen(x) = [state |-> "waiting", request |-> q,
                 used |-> Once!CreatedUnder(q.key) # {}, operation |-> Nothing]
  BY <1>1, <1>7 DEF Seen, Steps
<1>. QED BY <1>2, <1>4, <1>5, <1>8 DEF Once!Ask

LEMMA InsertRefines ==
    ASSUME KeyInv, AnswerInv, NEW c \in Calls, Insert(c)
    PROVE  \E o \in Operations : Once!Create(c, o)
<1>1. /\ TypeOK /\ call[c].pc = "insert" /\ call[c].request \in Sendable
      /\ Key(c) \in Keys /\ call[c].request.key = Key(c)
  BY Handling DEF Insert, KeyInv, Steps, Key
<1>2. record[Key(c)] = NoRecord
  BY <1>1, IdempotentCreateAssumption DEF KeyInv, InserterHoldsClaim, ClaimXorRecord
<1>3. PICK o \in Operations :
         /\ ledger[o] = NoRequest
         /\ ledger' = [ledger EXCEPT ![o] = call[c].request]
         /\ Answer(c, "created", o)
  BY DEF Insert
<1>4. /\ Once!Waits(c) /\ Once!Answered(c, "created", o)
      /\ Client[c].request = call[c].request
  BY <1>1, <1>3, AnswerSeen DEF Steps, Answers
<1>5. Once!CreatedUnder(Key(c)) = {}
  BY <1>1, <1>2, CreatedIsRecorded
<1>6. Once!Create(c, o)
  BY <1>1, <1>3, <1>4, <1>5 DEF Once!Create
<1>. QED BY <1>6

LEMMA CreateInitRefines == Init => Once!Init
<1>. SUFFICES ASSUME Init PROVE Once!Init
  OBVIOUS
<1>1. Seen(Idle) = Once!Quiet
  BY DEF Seen, Idle, Once!Quiet, Steps, NoRequest
<1>. QED BY <1>1 DEF Init, Once!Init, Client, Seen

LEMMA CreateStepRefines ==
    KeyInv /\ AnswerInv /\ [Next]_vars => [Once!Next]_Once!createVars
<1>. SUFFICES ASSUME KeyInv, AnswerInv, [Next]_vars
              PROVE  Once!Next \/ (UNCHANGED ledger /\ Client' = Client)
  BY DEF Once!createVars
<1>0. TypeOK
  BY DEF KeyInv
<1>1. ASSUME NEW c \in Calls, NEW q \in Sendable, Send(c, q)
      PROVE  Once!Next
  BY <1>1, SendRefines DEF Once!Next
<1>2. ASSUME NEW c \in Calls, Lookup(c)
      PROVE  Once!Next \/ (UNCHANGED ledger /\ Client' = Client)
  <2>1. call[c].pc \in Steps /\ UNCHANGED ledger
    BY <1>2 DEF Lookup, Steps
  <2>2. CASE record[Key(c)] # NoRecord
    BY <1>2, <2>1, <2>2, ReplayRefines DEF Lookup, Once!Next
  <2>3. CASE record[Key(c)] = NoRecord
    BY <1>0, <1>2, <2>1, <2>3, GoingOn DEF Lookup, Steps
  <2>. QED BY <2>2, <2>3
<1>3. ASSUME NEW c \in Calls, Validate(c)
      PROVE  Once!Next \/ (UNCHANGED ledger /\ Client' = Client)
  <2>1. call[c].pc \in Steps /\ call[c].pc = "validate" /\ UNCHANGED ledger
    BY <1>3 DEF Validate, Steps
  <2>2. CASE Goto(c, "claim")
    BY <1>0, <2>1, <2>2, GoingOn DEF Steps
  <2>3. CASE Answer(c, "rejected", Nothing)
    <3>1. /\ Once!Waits(c) /\ Once!Answered(c, "rejected", Nothing)
          /\ Client[c].used = call[c].recorded
      BY <1>0, <2>1, <2>3, AnswerSeen DEF Answers
    <3>2. ~call[c].recorded
      BY <2>1 DEF AnswerInv, RecordedIsLookedUp
    <3>3. Once!Reject(c)
      BY <2>1, <3>1, <3>2 DEF Once!Reject
    <3>. QED BY <3>3 DEF Once!Next
  <2>. QED BY <1>3, <2>2, <2>3 DEF Validate
<1>4. ASSUME NEW c \in Calls, Claim(c)
      PROVE  UNCHANGED ledger /\ Client' = Client
  <2>1. call[c].pc \in Steps /\ UNCHANGED ledger
    BY <1>4 DEF Claim, Steps
  <2>2. Goto(c, "insert") \/ Goto(c, "reread")
    BY <1>4 DEF Claim
  <2>. QED BY <1>0, <2>1, <2>2, GoingOn DEF Steps
<1>5. ASSUME NEW c \in Calls, Insert(c)
      PROVE  Once!Next
  BY <1>5, InsertRefines DEF Once!Next
<1>6. ASSUME NEW c \in Calls, Reread(c)
      PROVE  Once!Next
  <2>1. call[c].pc \in Steps /\ UNCHANGED ledger /\ record[Key(c)] # NoRecord
    BY <1>6 DEF Reread, Steps, KeyInv, LoserHasRecord
  <2>. QED BY <1>6, <2>1, ReplayRefines DEF Reread, Once!Next
<1>7. ASSUME NEW c \in Calls, Abort(c) \/ Respond(c)
      PROVE  Once!Next
  <2>1. call' = [call EXCEPT ![c] = Idle] /\ UNCHANGED ledger
    BY <1>7 DEF Abort, Respond
  <2>2. /\ call' \in [Calls -> Call \cup {Idle}] /\ call'[c] = Idle
        /\ \A d \in Calls : d # c => call'[d] = call[d]
    BY <1>0, <2>1 DEF TypeOK
  <2>3. Client' = [Client EXCEPT ![c] = Seen(Idle)]
    BY <1>0, <2>2, ClientMoves DEF TypeOK
  <2>4. Seen(Idle) = Once!Quiet
    BY DEF Seen, Idle, Once!Quiet, Steps, NoRequest
  <2>5. Once!Leave(c)
    BY <2>1, <2>3, <2>4 DEF Once!Leave
  <2>. QED BY <2>5 DEF Once!Next
<1>8. CASE ToggleAsset \/ UNCHANGED vars
  BY <1>8 DEF ToggleAsset, vars, Client
<1>. QED BY <1>1, <1>2, <1>3, <1>4, <1>5, <1>6, <1>7, <1>8 DEF Next, Handle

(* However its transactions race and wherever they fail, the service is     *)
(* CreateOnce to its clients.                                               *)
THEOREM CreationIsAtomic == Spec => ImplementsCreateOnce
<1>1. KeyInv /\ AnswerInv /\ [Next]_vars => [Once!Next]_Once!createVars
  BY CreateStepRefines
<1>2. Init => Once!Init
  BY CreateInitRefines
<1>. QED BY <1>1, <1>2, AnswersHold, PTL DEF Spec, ImplementsCreateOnce, Once!Spec

=============================================================================
