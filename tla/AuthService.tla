---------------------------- MODULE AuthService ----------------------------
(***************************************************************************)
(* kushim-auth-api: the handlers that change its tables (users,            *)
(* user_recovery_phrases, revoked_tokens) and the hand-off codes in Redis. *)
(*                                                                         *)
(* No handler runs in a transaction.  Every statement commits by itself,   *)
(* so calls interleave between statements, and a handler may stop after    *)
(* any of them: an error of the database, a crash, or a client that closed *)
(* the connection.  The tokens are stateless: nothing but its expiry ends  *)
(* an access token, and only its jti in revoked_tokens ends a refresh      *)
(* token early.                                                            *)
(*                                                                         *)
(* One user.  A pair is an access token and the refresh token issued with  *)
(* it; passwords and phrases are numbered, the hashes are left out.        *)
(***************************************************************************)
EXTENDS Naturals

CONSTANTS
    Calls,      \* requests that can be in progress at once
    MaxPairs,   \* bound: pairs of tokens issued
    MaxResets,  \* bound: password resets sent
    Budgets,    \* bound: how many of the two a behaviour may use
    None,
    Done,       \* the answer of a call that succeeds without returning tokens
    Refused     \* any error, as the client sees it

Pairs   == 1 .. MaxPairs
Secrets == 1 .. MaxResets + 1

(* A row of users with its phrase. *)
Accounts == [password: Secrets, phrase: Secrets \cup {None}, completed: BOOLEAN]

ASSUME AuthServiceAssumptions ==
    /\ MaxPairs \in Nat \ {0} /\ MaxResets \in Nat
    /\ Budgets \subseteq [pairs : 0 .. MaxPairs, resets : 0 .. MaxResets]
    /\ {None, Done, Refused} \cap (Pairs \cup Secrets) = {}
    /\ None # Done /\ None # Refused /\ Done # Refused
    /\ None \notin Accounts

VARIABLES
    account,  \* the user and its recovery phrase, or None before the signup
    issued,   \* number of pairs issued
    parent,   \* parent[n]: the pair that was exchanged for pair n, or None
    login,    \* login[n]: the pair of the sign-in that n descends from
    revoked,  \* pairs whose refresh token is in revoked_tokens
    expired,  \* pairs whose access token has expired
    codes,    \* pairs waiting behind a hand-off code
    calls,
    budget    \* bound: what this behaviour may use

serviceVars ==
    <<account, issued, parent, login, revoked, expired, codes, calls, budget>>
tokenVars == <<budget, issued, parent, login, revoked, expired>>

(* late: the token was already revoked when the call was sent.              *)
Free == [kind |-> "none", pair |-> None, given |-> None, chosen |-> None,
         at |-> "idle", answer |-> None, heard |-> FALSE,
         generation |-> 0, late |-> FALSE]

ServiceInit ==
    /\ budget \in Budgets
    /\ account = None /\ issued = 0
    /\ parent = [n \in Pairs |-> None] /\ login = [n \in Pairs |-> None]
    /\ revoked = {} /\ expired = {} /\ codes = {}
    /\ calls = [q \in Calls |-> Free]

-----------------------------------------------------------------------------
(* Calls. *)

Sent(kind, pair, given, chosen, generation) ==
    [kind |-> kind, pair |-> pair, given |-> given, chosen |-> chosen,
     at |-> "sent", answer |-> None, heard |-> TRUE,
     generation |-> generation, late |-> pair \in revoked]

Is(q, kind, at) == calls[q].kind = kind /\ calls[q].at = at
Goes(q, at)     == calls' = [calls EXCEPT ![q].at = at]

(* An answer nobody waits for is lost.                                      *)
Answers(q, a) ==
    calls' = [calls EXCEPT ![q] =
                IF @.heard THEN [@ EXCEPT !.at = "answered", !.answer = a]
                           ELSE Free]

(* Every await of a handler can be its last.  So can its validation or the  *)
(* expiry of the refresh token; the client is told the same.                *)
Breaks(q) ==
    /\ calls[q].at \notin {"idle", "answered"}
    /\ Answers(q, Refused)
    /\ UNCHANGED <<account, tokenVars, codes>>

-----------------------------------------------------------------------------
(* Tokens. *)

IssueTokenPair(from) ==
    /\ issued < budget.pairs
    /\ issued' = issued + 1
    /\ UNCHANGED budget
    /\ parent' = [parent EXCEPT ![issued + 1] = from]
    /\ login' = [login EXCEPT ![issued + 1] =
                   IF from = None THEN issued + 1 ELSE login[from]]

(* Mutation of RevokeToken: an expired access token ends the pair.         *)
RevokeUnlessExpired(n) == revoked' = revoked \cup ({n} \ expired)

RevokeToken(n) == revoked' = revoked \cup {n}

(* refresh: is_revoked, find_active_by_id, revoke_refresh_claims, issue.    *)
RefreshChecks(q) ==
    /\ Is(q, "refresh", "sent")
    /\ IF calls[q].pair \in revoked THEN Answers(q, Refused)
                                    ELSE Goes(q, "checked")
    /\ UNCHANGED <<account, tokenVars, codes>>

(* A jti that is already there counts as revoked by this call.              *)
RefreshRevokes(q) ==
    /\ Is(q, "refresh", "checked")
    /\ RevokeToken(calls[q].pair)
    /\ Goes(q, "revoked")
    /\ UNCHANGED <<account, budget, issued, parent, login, expired, codes>>

RefreshIssues(q) ==
    /\ Is(q, "refresh", "revoked")
    /\ IssueTokenPair(calls[q].pair)
    /\ Answers(q, issued + 1)
    /\ UNCHANGED <<account, revoked, expired, codes>>

LogoutChecks(q) ==
    /\ Is(q, "logout", "sent")
    /\ IF calls[q].pair \in revoked THEN Answers(q, Done)
                                    ELSE Goes(q, "checked")
    /\ UNCHANGED <<account, tokenVars, codes>>

LogoutRevokes(q) ==
    /\ Is(q, "logout", "checked")
    /\ RevokeToken(calls[q].pair)
    /\ Answers(q, Done)
    /\ UNCHANGED <<account, budget, issued, parent, login, expired, codes>>

(* leeway = 0.                                                              *)
AccessTokenExpires(n) ==
    /\ n <= issued
    /\ n \notin expired
    /\ expired' = expired \cup {n}
    /\ UNCHANGED <<account, budget, issued, parent, login, revoked, codes, calls>>

-----------------------------------------------------------------------------
(* Hand-off codes: SETEX, then GETDEL. *)

CreateCode(n) == codes' = codes \cup {n}

Taken(n) == codes \ {n}

ExchangeCode(q) ==
    LET n == calls[q].pair IN
    /\ Is(q, "exchange", "sent")
    /\ IF n \in codes
       THEN codes' = Taken(n) /\ Answers(q, n)
       ELSE UNCHANGED codes /\ Answers(q, Refused)
    /\ UNCHANGED <<account, tokenVars>>

CodeExpires(n) ==
    /\ n \in codes
    /\ codes' = codes \ {n}
    /\ UNCHANGED <<account, tokenVars, calls>>

-----------------------------------------------------------------------------
(* Passwords and recovery phrases. *)

CreateUser(password) ==
    account' = [password |-> password, phrase |-> None, completed |-> FALSE]

(* The password is compared with the row read here, and not again.          *)
SetupChecks(q) ==
    /\ Is(q, "setup", "sent")
    /\ IF calls[q].pair \notin expired /\ calls[q].given = account.password
       THEN Goes(q, "checked") ELSE Answers(q, Refused)
    /\ UNCHANGED <<account, tokenVars, codes>>

(* Mutation of SetupStoresPhrase: the flag first.                           *)
SetupStoresFlag(q) ==
    /\ Is(q, "setup", "checked")
    /\ account' = [account EXCEPT !.completed = TRUE]
    /\ Goes(q, "stored")
    /\ UNCHANGED <<tokenVars, codes>>

SetupStoresPhrase(q) ==
    /\ Is(q, "setup", "checked")
    /\ account' = [account EXCEPT !.phrase = calls[q].chosen]
    /\ Goes(q, "stored")
    /\ UNCHANGED <<tokenVars, codes>>

SetupCompletes(q) ==
    /\ Is(q, "setup", "stored")
    /\ account' = [account EXCEPT !.completed = TRUE]
    /\ Answers(q, Done)
    /\ UNCHANGED <<tokenVars, codes>>

ResetChecks(q) ==
    /\ Is(q, "reset", "sent")
    /\ IF account.phrase # None /\ calls[q].given = account.phrase
       THEN Goes(q, "checked") ELSE Answers(q, Refused)
    /\ UNCHANGED <<account, tokenVars, codes>>

ResetStoresPassword(q) ==
    /\ Is(q, "reset", "checked")
    /\ account' = [account EXCEPT !.password = calls[q].chosen]
    /\ Goes(q, "stored")
    /\ UNCHANGED <<tokenVars, codes>>

ResetStoresPhrase(q) ==
    /\ Is(q, "reset", "stored")
    /\ account' = [account EXCEPT !.phrase = calls[q].chosen]
    /\ Answers(q, Done)
    /\ UNCHANGED <<tokenVars, codes>>

ServiceStep ==
    \/ \E q \in Calls :
          \/ RefreshChecks(q) \/ RefreshRevokes(q) \/ RefreshIssues(q)
          \/ LogoutChecks(q) \/ LogoutRevokes(q)
          \/ ExchangeCode(q)
          \/ SetupChecks(q) \/ SetupStoresPhrase(q) \/ SetupCompletes(q)
          \/ ResetChecks(q) \/ ResetStoresPassword(q) \/ ResetStoresPhrase(q)
          \/ Breaks(q)
    \/ \E n \in Pairs : AccessTokenExpires(n) \/ CodeExpires(n)
=============================================================================
