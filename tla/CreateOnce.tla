----------------------------- MODULE CreateOnce -----------------------------
(***************************************************************************)
(* What an Idempotency-Key promises a client, with no table of keys, no    *)
(* transactions and no races: each request is answered in one step, by the *)
(* operation that its key created, now or earlier; by a refusal to use the *)
(* key for another request; or by a rejection, which leaves the key unused *)
(* and is never given to a request that was sent after its key was used.   *)
(***************************************************************************)
CONSTANTS
    Clients,
    Requests,
    KeyOf,        \* KeyOf[q]: the key request q is sent under
    PrintOf,      \* PrintOf[q]: what the service compares requests by
    Operations,
    NoRequest,    \* no operation, or no request
    None          \* no answer names an operation

VARIABLES
    ledger,       \* ledger[o]: the request operation o was created for
    client        \* the requests under way and their answers

createVars == <<ledger, client>>

Exchange == [state: {"waiting", "created", "replayed", "conflict", "rejected"},
             request: Requests, used: BOOLEAN, operation: Operations \cup {None}]
Quiet == [state |-> "idle", request |-> NoRequest, used |-> FALSE, operation |-> None]

(* The operations that a key has created. *)
CreatedUnder(k) == {o \in Operations : ledger[o] # NoRequest /\ KeyOf[ledger[o]] = k}

Init ==
    /\ ledger = [o \in Operations |-> NoRequest]
    /\ client = [c \in Clients |-> Quiet]

Waits(c) == client[c].state = "waiting"

Answered(c, state, o) ==
    client' = [client EXCEPT ![c] =
        [state |-> state, request |-> @.request, used |-> @.used, operation |-> o]]

Ask(c, q) ==
    /\ client[c] = Quiet
    /\ client' = [client EXCEPT ![c] =
          [state |-> "waiting", request |-> q, used |-> CreatedUnder(KeyOf[q]) # {},
           operation |-> None]]
    /\ UNCHANGED ledger

(* The key is new: it creates one operation, for ever.                      *)
Create(c, o) ==
    /\ Waits(c)
    /\ CreatedUnder(KeyOf[client[c].request]) = {}
    /\ ledger[o] = NoRequest
    /\ ledger' = [ledger EXCEPT ![o] = client[c].request]
    /\ Answered(c, "created", o)

(* The key was used for this request.                                       *)
Replay(c, o) ==
    /\ Waits(c)
    /\ o \in CreatedUnder(KeyOf[client[c].request])
    /\ PrintOf[ledger[o]] = PrintOf[client[c].request]
    /\ Answered(c, "replayed", o)
    /\ UNCHANGED ledger

(* The key was used for another request.                                    *)
Conflict(c, o) ==
    /\ Waits(c)
    /\ o \in CreatedUnder(KeyOf[client[c].request])
    /\ PrintOf[ledger[o]] # PrintOf[client[c].request]
    /\ Answered(c, "conflict", None)
    /\ UNCHANGED ledger

(* The request is not valid, which is found out for a new key only.         *)
Reject(c) ==
    /\ Waits(c)
    /\ ~client[c].used
    /\ Answered(c, "rejected", None)
    /\ UNCHANGED ledger

(* The answer is given, or the request fails without one.                   *)
Leave(c) ==
    /\ client' = [client EXCEPT ![c] = Quiet]
    /\ UNCHANGED ledger

Next ==
    \E c \in Clients :
        \/ \E q \in Requests : Ask(c, q)
        \/ \E o \in Operations : Create(c, o) \/ Replay(c, o) \/ Conflict(c, o)
        \/ Reject(c) \/ Leave(c)

Spec == Init /\ [][Next]_createVars
=============================================================================
