------------------------- MODULE AuthSessionsProofs -------------------------
(* Theorems about AuthSessions, for any numbers of calls, pairs and resets. *)
EXTENDS AuthSessions, TLAPS

(* What an issued pair tells. *)
PairsInv ==
    \A n \in 1 .. issued :
        /\ login[n] # None
        /\ parent[n] # None => parent[n] \in revoked

(* A call about tokens names an issued pair, its answer one of the same     *)
(* sign-in; a refresh that was late when it was sent gets nowhere.          *)
OfTokens(x) ==
    /\ x.kind \in {"refresh", "logout", "exchange"} => x.pair \in 1 .. issued
    /\ x.kind = "refresh" =>
          /\ \/ x.answer \in {None, Refused}
             \/ x.answer \in 1 .. issued /\ login[x.answer] = login[x.pair]
          /\ x.at = "revoked" => x.pair \in revoked
          /\ x.late => /\ x.pair \in revoked
                       /\ x.at \in {"sent", "answered"}
                       /\ x.answer \notin Pairs
    /\ x.kind = "exchange" => x.answer \in {None, Refused, x.pair}
    /\ x.at = "answered" => x.answer # None

(* A call about secrets: there is an account, and what is to be stored.     *)
OfAccount(x) ==
    /\ x.kind \in {"setup", "reset"} => account # None /\ x.chosen # None
    /\ x.kind = "setup" /\ x.at = "stored" => account.phrase # None

(* A call that is waited for: the page that waits; a refresh of the current *)
(* generation is one of the current session.                                *)
OfPage(x) ==
    x.heard =>
        /\ x.kind = "refresh" =>
              /\ page = "app"
              /\ x.generation <= gate.generation
              /\ x.generation = gate.generation =>
                    session # None /\ session = login[x.pair]
        /\ x.kind = "setup" => page = "phrase"
        /\ x.kind = "reset" => page = "reset"

OneForm ==
    \A q, r \in Calls :
        /\ calls[q].heard /\ calls[r].heard
        /\ calls[q].kind = calls[r].kind
        /\ calls[q].kind \in {"setup", "reset"}
        => q = r

CallsInv ==
    /\ \A q \in Calls : OfTokens(calls[q]) /\ OfAccount(calls[q]) /\ OfPage(calls[q])
    /\ OneForm

AccountInv ==
    /\ CompletedHasPhrase
    /\ shown # None => account # None
    /\ page = "phrase" => shown # None
    /\ page \in {"phrase", "signed", "handoff"} => front # None
    /\ front # None => front \in 1 .. issued

AppInv ==
    /\ storage # None => storage \in 1 .. issued
    /\ StorageIsOfTheLastSession
    /\ \A c \in Callers : callers[c] # Resting => page = "app"

AuthInv == TypeOK /\ PairsInv /\ CallsInv /\ AccountInv /\ AppInv

LEMMA InitAuth == Init => AuthInv
<1>. SUFFICES ASSUME Init PROVE AuthInv
  OBVIOUS
<1>1. TypeOK
  BY AuthServiceAssumptions, AuthSessionsAssumptions
  DEF Init, ServiceInit, TypeOK, ServiceTypeOK, BrowserTypeOK, Caller, Free, Call, PairOrNone, SecretOrNone, NoStore, NewGate,
      AllRest, Resting
<1>2. CallsInv
  BY DEF Init, ServiceInit, CallsInv, OfTokens, OfAccount, OfPage, OneForm, Free
<1>3. PairsInv /\ AccountInv /\ AppInv
  BY DEF Init, ServiceInit, PairsInv, AccountInv, AppInv, CompletedHasPhrase,
         StorageIsOfTheLastSession, AllRest, Resting
<1>. QED BY <1>1, <1>2, <1>3 DEF AuthInv

-----------------------------------------------------------------------------
(* Calls.  What moves one of them, and what the others are left with.       *)

LEMMA FreeFields ==
    /\ Free \in Call /\ ~Free.heard /\ Free.kind = "none" /\ Free.at = "idle"
    /\ Free.answer = None
  BY AuthServiceAssumptions, AuthSessionsAssumptions DEF Free, Call, PairOrNone, SecretOrNone

LEMMA GoesFields ==
    ASSUME TypeOK, NEW q \in Calls,
           NEW at \in {"idle", "sent", "checked", "revoked", "stored", "answered"},
           Goes(q, at)
    PROVE  /\ calls' \in [Calls -> Call]
           /\ \A r \in Calls : r # q => calls'[r] = calls[r]
           /\ calls'[q].at = at
           /\ calls'[q].kind = calls[q].kind /\ calls'[q].pair = calls[q].pair
           /\ calls'[q].chosen = calls[q].chosen /\ calls'[q].answer = calls[q].answer
           /\ calls'[q].heard = calls[q].heard /\ calls'[q].late = calls[q].late
           /\ calls'[q].generation = calls[q].generation
  BY DEF TypeOK, ServiceTypeOK, BrowserTypeOK, Goes, Call

LEMMA AnswersFields ==
    ASSUME TypeOK, NEW q \in Calls, NEW a \in Pairs \cup {Done, Refused}, Answers(q, a)
    PROVE  /\ calls' \in [Calls -> Call]
           /\ \A r \in Calls : r # q => calls'[r] = calls[r]
           /\ \/ calls'[q] = Free
              \/ /\ calls'[q].at = "answered" /\ calls'[q].answer = a
                 /\ calls[q].heard
                 /\ calls'[q].kind = calls[q].kind /\ calls'[q].pair = calls[q].pair
                 /\ calls'[q].chosen = calls[q].chosen
                 /\ calls'[q].heard = calls[q].heard /\ calls'[q].late = calls[q].late
                 /\ calls'[q].generation = calls[q].generation
<1>1. CASE calls[q].heard
  <2>. DEFINE x == [calls[q] EXCEPT !.at = "answered", !.answer = a]
  <2>0. calls[q] \in Call
    BY DEF TypeOK, ServiceTypeOK, BrowserTypeOK
  <2>1. calls' = [calls EXCEPT ![q] = x]
    BY <1>1 DEF Answers
  <2>2. /\ x \in Call /\ x.at = "answered" /\ x.answer = a
        /\ x.kind = calls[q].kind /\ x.pair = calls[q].pair /\ x.chosen = calls[q].chosen
        /\ x.heard = calls[q].heard /\ x.late = calls[q].late
        /\ x.generation = calls[q].generation
    BY <2>0 DEF Call
  <2>. HIDE DEF x
  <2>. QED BY <1>1, <2>1, <2>2 DEF TypeOK, ServiceTypeOK, BrowserTypeOK
<1>2. CASE ~calls[q].heard
  BY <1>2, FreeFields DEF Answers, TypeOK, ServiceTypeOK, BrowserTypeOK
<1>. QED BY <1>1, <1>2

(* The tables only grow. *)
Grows ==
    /\ issued <= issued' /\ issued' \in Nat
    /\ \A n \in 1 .. issued : login'[n] = login[n]
    /\ revoked \subseteq revoked'
    /\ account # None =>
          account' # None /\ (account.phrase # None => account'.phrase # None)

LEMMA OtherCallsKept ==
    ASSUME TypeOK, CallsInv, Grows, NEW r \in Calls, calls'[r] = calls[r]
    PROVE  OfTokens(calls[r])' /\ OfAccount(calls[r])'
<1>1. issued \in Nat /\ calls[r] \in Call
  BY AuthServiceAssumptions DEF TypeOK, ServiceTypeOK, BrowserTypeOK
<1>2. OfTokens(calls[r]) /\ OfAccount(calls[r])
  BY DEF CallsInv
<1>3. OfTokens(calls[r])'
  BY <1>1, <1>2 DEF OfTokens, Grows
<1>4. OfAccount(calls[r])'
  BY <1>1, <1>2 DEF OfAccount, Grows
<1>. QED BY <1>3, <1>4

LEMMA PageKept ==
    ASSUME TypeOK, CallsInv, Grows, UNCHANGED <<page, gate, session>>,
           NEW r \in Calls, calls'[r] = calls[r]
    PROVE  OfPage(calls[r])'
<1>1. issued \in Nat /\ calls[r] \in Call
  BY AuthServiceAssumptions DEF TypeOK, ServiceTypeOK, BrowserTypeOK
<1>2. OfTokens(calls[r]) /\ OfPage(calls[r])
  BY DEF CallsInv
<1>. QED BY <1>1, <1>2 DEF OfPage, OfTokens, Grows

(* A handler of the service moves its call. *)
LEMMA HandlerKeepsCalls ==
    ASSUME TypeOK, CallsInv, Grows, UNCHANGED <<page, gate, session>>, NEW q \in Calls,
           calls' \in [Calls -> Call],
           \A r \in Calls : r # q => calls'[r] = calls[r],
           calls'[q] = Free \/
               /\ calls'[q].kind = calls[q].kind /\ calls'[q].pair = calls[q].pair
               /\ calls'[q].chosen = calls[q].chosen
               /\ calls'[q].heard = calls[q].heard
               /\ calls'[q].generation = calls[q].generation
               /\ OfTokens(calls[q])'
               /\ calls[q].kind = "setup" /\ calls'[q].at = "stored" => account'.phrase # None
    PROVE  CallsInv'
<1>0. issued \in Nat /\ calls[q] \in Call
  BY AuthServiceAssumptions DEF TypeOK, ServiceTypeOK, BrowserTypeOK
<1>1. ASSUME NEW r \in Calls, r # q
      PROVE  OfTokens(calls[r])' /\ OfAccount(calls[r])' /\ OfPage(calls[r])'
  BY <1>1, OtherCallsKept, PageKept
<1>2. CASE calls'[q] = Free
  <2>1. OfTokens(calls[q])' /\ OfAccount(calls[q])' /\ OfPage(calls[q])'
    BY <1>2, FreeFields DEF OfTokens, OfAccount, OfPage
  <2>2. OneForm'
    BY <1>2, FreeFields DEF CallsInv, OneForm
  <2>. QED BY <1>1, <2>1, <2>2 DEF CallsInv
<1>3. CASE calls'[q] # Free
  <2>1. OfAccount(calls[q])'
    BY <1>3 DEF CallsInv, OfAccount, Grows
  <2>2. OfPage(calls[q])'
    <3>1. OfPage(calls[q]) /\ OfTokens(calls[q])
      BY DEF CallsInv
    <3>2. calls[q].kind = "refresh" => login'[calls[q].pair] = login[calls[q].pair]
      BY <3>1 DEF OfTokens, Grows
    <3>. QED BY <1>3, <3>1, <3>2 DEF OfPage
  <2>3. OneForm'
    BY <1>3 DEF CallsInv, OneForm
  <2>. QED BY <1>1, <1>3, <2>1, <2>2, <2>3 DEF CallsInv
<1>. QED BY <1>2, <1>3

-----------------------------------------------------------------------------
(* The service. *)

LEMMA BrowserStays ==
    ASSUME TypeOK, UNCHANGED <<frontVars, appVars>> PROVE BrowserTypeOK'
  BY DEF TypeOK, BrowserTypeOK, frontVars, appVars

LEMMA ServiceConcludes ==
    ASSUME AuthInv, UNCHANGED <<frontVars, appVars>>, Grows,
           TypeOK', PairsInv', CallsInv', CompletedHasPhrase'
    PROVE  AuthInv'
<1>0. issued \in Nat
  BY AuthServiceAssumptions DEF AuthInv, TypeOK, ServiceTypeOK, BrowserTypeOK
<1>1. AccountInv'
  BY <1>0 DEF AuthInv, AccountInv, Grows, frontVars
<1>2. AppInv'
  BY <1>0 DEF AuthInv, AppInv, StorageIsOfTheLastSession, Grows, appVars, frontVars
<1>. QED BY <1>1, <1>2 DEF AuthInv

(* Handlers that change no table. *)
LEMMA OnlyCalls ==
    ASSUME AuthInv, UNCHANGED <<account, tokenVars, frontVars, appVars>>, codes' \subseteq codes
    PROVE  /\ Grows /\ UNCHANGED <<page, gate, session>>
           /\ PairsInv' /\ CompletedHasPhrase'
           /\ calls' \in [Calls -> Call] => TypeOK'
<1>1. issued \in Nat
  BY AuthServiceAssumptions DEF AuthInv, TypeOK, ServiceTypeOK, BrowserTypeOK
<1>2. Grows /\ UNCHANGED <<page, gate, session>>
  BY <1>1 DEF Grows, tokenVars, frontVars, appVars
<1>3. PairsInv' /\ CompletedHasPhrase'
  BY DEF AuthInv, AccountInv, PairsInv, CompletedHasPhrase, tokenVars
<1>4. calls' \in [Calls -> Call] => TypeOK'
  BY DEF AuthInv, TypeOK, ServiceTypeOK, BrowserTypeOK, tokenVars, frontVars, appVars
<1>. QED BY <1>2, <1>3, <1>4

LEMMA GoesOn ==
    ASSUME AuthInv, UNCHANGED <<account, tokenVars, frontVars, appVars>>, codes' \subseteq codes,
           NEW q \in Calls, Goes(q, "checked"),
           calls[q].kind = "refresh" => calls[q].pair \notin revoked
    PROVE  AuthInv'
<1>1. TypeOK /\ CallsInv
  BY DEF AuthInv
<1>2. Grows /\ PairsInv' /\ CompletedHasPhrase' /\ UNCHANGED <<page, gate, session>>
  BY OnlyCalls
<1>3. OfTokens(calls[q])'
  BY <1>1, GoesFields DEF CallsInv, OfTokens, tokenVars
<1>4. TypeOK'
  BY <1>1, GoesFields, OnlyCalls
<1>5. CallsInv'
  BY <1>1, <1>2, <1>3, GoesFields, HandlerKeepsCalls
<1>. QED BY <1>2, <1>4, <1>5, ServiceConcludes

LEMMA GivesUp ==
    ASSUME AuthInv, UNCHANGED <<account, tokenVars, frontVars, appVars>>, codes' \subseteq codes,
           NEW q \in Calls,
           \/ Answers(q, Refused)
           \/ Answers(q, Done) /\ calls[q].kind \in {"logout", "setup", "reset"}
           \/ Answers(q, calls[q].pair) /\ calls[q].kind = "exchange"
    PROVE  AuthInv'
<1>1. TypeOK /\ CallsInv
  BY DEF AuthInv
<1>0. /\ calls[q].kind = "exchange" => calls[q].pair \in Pairs
      /\ Done # None /\ Refused # None /\ None \notin Pairs /\ Refused \notin Pairs
  BY <1>1, AuthServiceAssumptions DEF CallsInv, OfTokens, TypeOK, ServiceTypeOK, BrowserTypeOK, Pairs
<1>2. Grows /\ PairsInv' /\ CompletedHasPhrase' /\ UNCHANGED <<page, gate, session>>
  BY OnlyCalls
<1>3. PICK a \in Pairs \cup {Done, Refused} :
         /\ Answers(q, a)
         /\ calls[q].kind = "refresh" => a = Refused
         /\ calls[q].kind = "exchange" => a \in {Refused, calls[q].pair}
  <2>1. CASE Answers(q, Refused)
    BY <2>1
  <2>2. CASE Answers(q, Done) /\ calls[q].kind \in {"logout", "setup", "reset"}
    BY <2>2
  <2>3. CASE Answers(q, calls[q].pair) /\ calls[q].kind = "exchange"
    BY <1>0, <2>3
  <2>. QED BY <2>1, <2>2, <2>3
<1>4. CASE calls'[q] # Free
  <2>1. OfTokens(calls[q])'
    BY <1>0, <1>1, <1>3, <1>4, AnswersFields DEF CallsInv, OfTokens, tokenVars
  <2>2. CallsInv'
    BY <1>1, <1>2, <1>3, <1>4, <2>1, AnswersFields, HandlerKeepsCalls
  <2>3. TypeOK'
    BY <1>1, <1>3, AnswersFields, OnlyCalls
  <2>. QED BY <1>2, <2>2, <2>3, ServiceConcludes
<1>5. CASE calls'[q] = Free
  <2>1. CallsInv'
    BY <1>1, <1>2, <1>3, <1>5, AnswersFields, HandlerKeepsCalls
  <2>2. TypeOK'
    BY <1>1, <1>3, AnswersFields, OnlyCalls
  <2>. QED BY <1>2, <2>1, <2>2, ServiceConcludes
<1>. QED BY <1>4, <1>5

(* Handlers that revoke a pair. *)
LEMMA Revokes ==
    ASSUME AuthInv, NEW q \in Calls, calls[q].kind \in {"refresh", "logout"},
           revoked' = revoked \cup {calls[q].pair},
           \/ calls[q].kind = "refresh" /\ calls[q].at = "checked" /\ Goes(q, "revoked")
           \/ calls[q].kind = "logout" /\ Answers(q, Done),
           UNCHANGED <<account, budget, issued, parent, login, expired, codes>>,
           UNCHANGED <<frontVars, appVars>>
    PROVE  AuthInv'
<1>0. TypeOK /\ CallsInv /\ issued \in Nat /\ Done # None
  BY AuthServiceAssumptions DEF AuthInv, TypeOK, ServiceTypeOK, BrowserTypeOK
<1>1. calls[q].pair \in 1 .. issued /\ calls[q].pair \in Pairs
  BY <1>0, AuthServiceAssumptions DEF CallsInv, OfTokens, TypeOK, ServiceTypeOK, Pairs
<1>2. Grows /\ UNCHANGED <<page, gate, session>>
  BY <1>0 DEF Grows, frontVars, appVars
<1>3. PairsInv' /\ CompletedHasPhrase'
  BY DEF AuthInv, AccountInv, PairsInv, CompletedHasPhrase
<1>4. /\ calls' \in [Calls -> Call]
      /\ \A r \in Calls : r # q => calls'[r] = calls[r]
      /\ \/ calls'[q] = Free
         \/ /\ calls'[q].kind = calls[q].kind /\ calls'[q].pair = calls[q].pair
            /\ calls'[q].chosen = calls[q].chosen
            /\ calls'[q].heard = calls[q].heard
            /\ calls'[q].generation = calls[q].generation
            /\ OfTokens(calls[q])'
            /\ calls[q].kind # "setup"
  <2>1. CASE calls[q].kind = "refresh" /\ calls[q].at = "checked" /\ Goes(q, "revoked")
    <3>1. OfTokens(calls[q])'
      BY <1>0, <1>1, <2>1, GoesFields DEF CallsInv, OfTokens
    <3>. QED BY <1>0, <2>1, <3>1, GoesFields
  <2>2. CASE calls[q].kind = "logout" /\ Answers(q, Done)
    <3>1. calls'[q] # Free => OfTokens(calls[q])'
      BY <1>0, <1>1, <2>2, AnswersFields DEF OfTokens
    <3>. QED BY <1>0, <2>2, <3>1, AnswersFields
  <2>. QED BY <2>1, <2>2
<1>5. CallsInv'
  BY <1>0, <1>2, <1>4, HandlerKeepsCalls
<1>6. TypeOK'
  <2>1. ServiceTypeOK'
    BY <1>0, <1>1, <1>4 DEF TypeOK, ServiceTypeOK
  <2>. QED BY <1>0, <2>1, BrowserStays DEF TypeOK
<1>. QED BY <1>2, <1>3, <1>5, <1>6, ServiceConcludes

(* Issuing a pair. *)
LEMMA Issued ==
    ASSUME AuthInv, NEW from \in PairOrNone, from # None => from \in 1 .. issued /\ from \in revoked,
           IssueTokenPair(from), account = None \/ account' = account, UNCHANGED revoked
    PROVE  /\ issued + 1 \in Pairs /\ issued + 1 \in 1 .. issued'
           /\ issued' \in 0 .. MaxPairs
           /\ parent' \in [Pairs -> PairOrNone] /\ login' \in [Pairs -> PairOrNone]
           /\ budget' = budget
           /\ PairsInv' /\ Grows
           /\ from # None => login'[issued + 1] = login[from]
<1>0. /\ issued \in 0 .. MaxPairs /\ MaxPairs \in Nat /\ budget.pairs \in 0 .. MaxPairs
      /\ parent \in [Pairs -> PairOrNone] /\ login \in [Pairs -> PairOrNone]
      /\ None \notin Pairs
  BY AuthServiceAssumptions DEF AuthInv, TypeOK, ServiceTypeOK, BrowserTypeOK
<1>1. issued' = issued + 1 /\ issued < MaxPairs /\ issued + 1 \in Pairs
  BY <1>0 DEF IssueTokenPair, Pairs
<1>. DEFINE first == IF from = None THEN issued + 1 ELSE login[from]
<1>2. first \in PairOrNone /\ first # None
  <2>1. CASE from = None
    BY <1>0, <1>1, <2>1 DEF PairOrNone
  <2>2. CASE from # None
    BY <1>0, <2>2 DEF PairOrNone, AuthInv, PairsInv
  <2>. QED BY <2>1, <2>2
<1>3. parent' = [parent EXCEPT ![issued + 1] = from] /\ login' = [login EXCEPT ![issued + 1] = first]
      /\ budget' = budget
  BY DEF IssueTokenPair
<1>4. from # None => first = login[from]
  OBVIOUS
<1>. HIDE DEF first
<1>5. \A n \in 1 .. issued : n \in Pairs /\ n # issued + 1
  BY <1>0 DEF Pairs
<1>6. Grows
  BY <1>0, <1>1, <1>3, <1>5 DEF Grows
<1>7. PairsInv'
  <2>. SUFFICES ASSUME NEW n \in 1 .. issued + 1
                PROVE  login'[n] # None /\ (parent'[n] # None => parent'[n] \in revoked)
    BY <1>1 DEF PairsInv
  <2>1. CASE n = issued + 1
    BY <1>0, <1>1, <1>2, <1>3, <2>1
  <2>2. CASE n # issued + 1
    <3>1. n \in 1 .. issued
      BY <1>0, <2>2
    <3>. QED BY <1>0, <1>3, <1>5, <2>2, <3>1 DEF AuthInv, PairsInv
  <2>. QED BY <2>1, <2>2
<1>. QED BY <1>0, <1>1, <1>2, <1>3, <1>4, <1>6, <1>7 DEF Pairs

LEMMA IssuesRefreshed ==
    ASSUME AuthInv, NEW q \in Calls, RefreshIssues(q), UNCHANGED <<frontVars, appVars>>
    PROVE  AuthInv'
<1>0. TypeOK /\ CallsInv /\ issued \in Nat /\ None \notin Pairs
  BY AuthServiceAssumptions DEF AuthInv, TypeOK, ServiceTypeOK, BrowserTypeOK
<1>1. /\ calls[q].kind = "refresh" /\ calls[q].at = "revoked"
      /\ IssueTokenPair(calls[q].pair) /\ Answers(q, issued + 1)
      /\ UNCHANGED <<account, revoked, expired, codes>>
  BY DEF RefreshIssues, Is
<1>2. /\ calls[q].pair \in 1 .. issued /\ calls[q].pair \in revoked
      /\ calls[q].pair \in PairOrNone /\ ~calls[q].late
  BY <1>0, <1>1 DEF CallsInv, OfTokens, TypeOK, ServiceTypeOK, BrowserTypeOK, PairOrNone
<1>3. /\ issued + 1 \in Pairs /\ issued + 1 \in 1 .. issued'
      /\ issued' \in 0 .. MaxPairs
      /\ parent' \in [Pairs -> PairOrNone] /\ login' \in [Pairs -> PairOrNone]
      /\ budget' = budget
      /\ PairsInv' /\ Grows
      /\ login'[issued + 1] = login[calls[q].pair]
  <2>1. account' = account /\ UNCHANGED revoked
    BY <1>1
  <2>2. calls[q].pair # None => calls[q].pair \in 1 .. issued /\ calls[q].pair \in revoked
    BY <1>2
  <2>3. IssueTokenPair(calls[q].pair)
    BY <1>1
  <2>4. calls[q].pair # None
    BY <1>0, <1>2, AuthServiceAssumptions DEF Pairs, TypeOK, ServiceTypeOK
  <2>. QED BY <1>2, <2>1, <2>2, <2>3, <2>4, Issued
<1>4. login'[calls[q].pair] = login[calls[q].pair] /\ calls[q].pair \in 1 .. issued'
  BY <1>0, <1>2, <1>3 DEF Grows
<1>5. calls'[q] # Free => OfTokens(calls[q])'
  BY <1>0, <1>1, <1>2, <1>3, <1>4, AnswersFields DEF OfTokens
<1>6. CallsInv' /\ calls' \in [Calls -> Call]
  BY <1>0, <1>1, <1>3, <1>5, AnswersFields, HandlerKeepsCalls DEF frontVars, appVars
<1>7. TypeOK'
  <2>1. ServiceTypeOK'
    BY <1>0, <1>1, <1>3, <1>6 DEF TypeOK, ServiceTypeOK
  <2>. QED BY <1>0, <2>1, BrowserStays DEF TypeOK
<1>8. CompletedHasPhrase'
  BY <1>1 DEF AuthInv, AccountInv, CompletedHasPhrase
<1>. QED BY <1>3, <1>6, <1>7, <1>8, ServiceConcludes

(* Handlers that write the account. *)
LEMMA AccountFields ==
    ASSUME AuthInv, NEW q \in Calls, calls[q].kind \in {"setup", "reset"},
           SetupStoresPhrase(q) \/ SetupCompletes(q)
             \/ ResetStoresPassword(q) \/ ResetStoresPhrase(q)
    PROVE  /\ account # None /\ account' \in Accounts /\ account' # None
           /\ account.phrase # None => account'.phrase # None
           /\ account'.completed => account'.phrase # None
           /\ SetupStoresPhrase(q) => account'.phrase # None
<1>0. TypeOK /\ CallsInv /\ None \notin Secrets /\ None \notin Accounts
  BY AuthServiceAssumptions DEF AuthInv
<1>1. account \in Accounts /\ account # None /\ calls[q].chosen \in Secrets
  BY <1>0 DEF CallsInv, OfAccount, TypeOK, ServiceTypeOK, Call, SecretOrNone
<1>2. account.completed => account.phrase # None
  BY <1>1 DEF AuthInv, AccountInv, CompletedHasPhrase
<1>3. CASE SetupStoresPhrase(q)
  BY <1>0, <1>1, <1>3 DEF SetupStoresPhrase, Accounts
<1>4. CASE SetupCompletes(q)
  BY <1>0, <1>1, <1>4 DEF SetupCompletes, Is, CallsInv, OfAccount, Accounts
<1>5. CASE ResetStoresPassword(q)
  <2>1. account' = [account EXCEPT !.password = calls[q].chosen]
    BY <1>5 DEF ResetStoresPassword
  <2>2. ~SetupStoresPhrase(q)
    BY <1>5 DEF ResetStoresPassword, SetupStoresPhrase, Is
  <2>. QED BY <1>0, <1>1, <1>2, <2>1, <2>2 DEF Accounts
<1>6. CASE ResetStoresPhrase(q)
  BY <1>0, <1>1, <1>6 DEF ResetStoresPhrase, Accounts
<1>. QED BY <1>3, <1>4, <1>5, <1>6

LEMMA WritesAccount ==
    ASSUME AuthInv, NEW q \in Calls,
           UNCHANGED <<tokenVars, codes, frontVars, appVars>>,
           SetupStoresPhrase(q) \/ SetupCompletes(q)
             \/ ResetStoresPassword(q) \/ ResetStoresPhrase(q)
    PROVE  AuthInv'
<1>0. /\ TypeOK /\ CallsInv /\ issued \in Nat /\ Done # None
      /\ calls[q].kind \in {"setup", "reset"}
  BY AuthServiceAssumptions
  DEF AuthInv, TypeOK, ServiceTypeOK, Is, SetupStoresPhrase, SetupCompletes, ResetStoresPassword,
      ResetStoresPhrase
<1>1. /\ account # None /\ account' \in Accounts /\ account' # None
      /\ account.phrase # None => account'.phrase # None
      /\ account'.completed => account'.phrase # None
      /\ SetupStoresPhrase(q) => account'.phrase # None
  BY <1>0, AccountFields
<1>2. Grows /\ UNCHANGED <<page, gate, session>>
  BY <1>0, <1>1 DEF Grows, tokenVars, frontVars, appVars
<1>3. PairsInv' /\ CompletedHasPhrase'
  BY <1>1 DEF AuthInv, PairsInv, CompletedHasPhrase, tokenVars
<1>4. CASE Goes(q, "stored")
  <2>1. OfTokens(calls[q])'
    BY <1>0, <1>4, GoesFields DEF OfTokens
  <2>2. calls[q].kind = "setup" => account'.phrase # None
    <3>1. SetupCompletes(q) => account.phrase # None
      BY <1>0 DEF SetupCompletes, Is, CallsInv, OfAccount
    <3>2. calls[q].kind = "setup" => SetupStoresPhrase(q) \/ SetupCompletes(q)
      BY DEF ResetStoresPassword, ResetStoresPhrase, Is
    <3>. QED BY <1>1, <3>1, <3>2
  <2>3. calls' \in [Calls -> Call] /\ CallsInv'
    BY <1>0, <1>2, <1>4, <2>1, <2>2, GoesFields, HandlerKeepsCalls
  <2>4. ServiceTypeOK'
    BY <1>0, <1>1, <2>3 DEF TypeOK, ServiceTypeOK, tokenVars
  <2>. QED BY <1>0, <1>2, <1>3, <2>3, <2>4, BrowserStays, ServiceConcludes DEF TypeOK
<1>5. CASE Answers(q, Done)
  <2>1. calls'[q] # Free => OfTokens(calls[q])' /\ calls'[q].at # "stored"
    BY <1>0, <1>5, AnswersFields DEF OfTokens
  <2>2. calls' \in [Calls -> Call] /\ CallsInv'
    BY <1>0, <1>2, <1>5, <2>1, AnswersFields, HandlerKeepsCalls
  <2>3. ServiceTypeOK'
    BY <1>0, <1>1, <2>2 DEF TypeOK, ServiceTypeOK, tokenVars
  <2>. QED BY <1>0, <1>2, <1>3, <2>2, <2>3, BrowserStays, ServiceConcludes DEF TypeOK
<1>. QED
  BY <1>4, <1>5 DEF SetupStoresPhrase, SetupCompletes, ResetStoresPassword, ResetStoresPhrase

(* The expiry of a token or a code. *)
LEMMA Expires ==
    ASSUME AuthInv, expired' \subseteq Pairs, codes' \subseteq Pairs,
           UNCHANGED <<account, budget, issued, parent, login, revoked, calls>>,
           UNCHANGED <<frontVars, appVars>>
    PROVE  AuthInv'
<1>0. TypeOK /\ CallsInv /\ issued \in Nat
  BY AuthServiceAssumptions DEF AuthInv, TypeOK, ServiceTypeOK
<1>1. Grows
  BY <1>0 DEF Grows
<1>2. PairsInv' /\ CompletedHasPhrase' /\ CallsInv'
  BY DEF AuthInv, AccountInv, PairsInv, CompletedHasPhrase, CallsInv, OneForm, OfTokens,
         OfAccount, OfPage, frontVars, appVars
<1>3. ServiceTypeOK'
  BY <1>0 DEF TypeOK, ServiceTypeOK
<1>. QED BY <1>0, <1>1, <1>2, <1>3, BrowserStays, ServiceConcludes DEF TypeOK

LEMMA Exchanges ==
    ASSUME AuthInv, NEW q \in Calls, ExchangeCode(q), UNCHANGED <<frontVars, appVars>>
    PROVE  AuthInv'
<1>1. UNCHANGED <<account, tokenVars>> /\ calls[q].kind = "exchange"
  BY DEF ExchangeCode, Is
<1>2. codes' \subseteq codes
  BY DEF ExchangeCode, Taken
<1>3. Answers(q, calls[q].pair) \/ Answers(q, Refused)
  BY DEF ExchangeCode
<1>. QED BY <1>1, <1>2, <1>3, GivesUp

LEMMA ServiceKeeps ==
    ASSUME AuthInv, ServiceStep, UNCHANGED <<frontVars, appVars>> PROVE AuthInv'
<1>0. TypeOK
  BY DEF AuthInv
<1>1. ASSUME NEW q \in Calls, RefreshChecks(q) PROVE AuthInv'
  <2>1. UNCHANGED <<account, tokenVars, codes>> /\ calls[q].kind = "refresh"
    BY <1>1 DEF RefreshChecks, Is
  <2>2. CASE calls[q].pair \in revoked
    BY <1>1, <2>1, <2>2, GivesUp DEF RefreshChecks
  <2>3. CASE calls[q].pair \notin revoked
    BY <1>1, <2>1, <2>3, GoesOn DEF RefreshChecks
  <2>. QED BY <2>2, <2>3
<1>2. ASSUME NEW q \in Calls, RefreshRevokes(q) PROVE AuthInv'
  BY <1>2, Revokes DEF RefreshRevokes, RevokeToken, Is
<1>3. ASSUME NEW q \in Calls, RefreshIssues(q) PROVE AuthInv'
  BY <1>3, IssuesRefreshed
<1>4. ASSUME NEW q \in Calls, LogoutChecks(q) PROVE AuthInv'
  <2>1. UNCHANGED <<account, tokenVars, codes>> /\ calls[q].kind = "logout"
    BY <1>4 DEF LogoutChecks, Is
  <2>2. CASE calls[q].pair \in revoked
    BY <1>4, <2>1, <2>2, GivesUp DEF LogoutChecks
  <2>3. CASE calls[q].pair \notin revoked
    BY <1>4, <2>1, <2>3, GoesOn DEF LogoutChecks
  <2>. QED BY <2>2, <2>3
<1>5. ASSUME NEW q \in Calls, LogoutRevokes(q) PROVE AuthInv'
  BY <1>5, Revokes DEF LogoutRevokes, RevokeToken, Is
<1>6. ASSUME NEW q \in Calls, ExchangeCode(q) PROVE AuthInv'
  BY <1>6, Exchanges
<1>7. ASSUME NEW q \in Calls, SetupChecks(q) PROVE AuthInv'
  <2>1. UNCHANGED <<account, tokenVars, codes>> /\ calls[q].kind = "setup"
    BY <1>7 DEF SetupChecks, Is
  <2>2. Goes(q, "checked") \/ Answers(q, Refused)
    BY <1>7 DEF SetupChecks
  <2>. QED BY <2>1, <2>2, GoesOn, GivesUp
<1>8. ASSUME NEW q \in Calls, ResetChecks(q) PROVE AuthInv'
  <2>1. UNCHANGED <<account, tokenVars, codes>> /\ calls[q].kind = "reset"
    BY <1>8 DEF ResetChecks, Is
  <2>2. Goes(q, "checked") \/ Answers(q, Refused)
    BY <1>8 DEF ResetChecks
  <2>. QED BY <2>1, <2>2, GoesOn, GivesUp
<1>9. ASSUME NEW q \in Calls,
             SetupStoresPhrase(q) \/ SetupCompletes(q)
               \/ ResetStoresPassword(q) \/ ResetStoresPhrase(q)
      PROVE AuthInv'
  <2>1. UNCHANGED <<tokenVars, codes>>
    BY <1>9 DEF SetupStoresPhrase, SetupCompletes, ResetStoresPassword, ResetStoresPhrase
  <2>. QED BY <1>9, <2>1, WritesAccount
<1>10. ASSUME NEW q \in Calls, Breaks(q) PROVE AuthInv'
  BY <1>10, GivesUp DEF Breaks
<1>11. ASSUME NEW n \in Pairs, AccessTokenExpires(n) PROVE AuthInv'
  <2>1. expired' \subseteq Pairs /\ codes' \subseteq Pairs
    BY <1>0, <1>11 DEF AccessTokenExpires, TypeOK, ServiceTypeOK
  <2>. QED BY <1>11, <2>1, Expires DEF AccessTokenExpires
<1>12. ASSUME NEW n \in Pairs, CodeExpires(n) PROVE AuthInv'
  <2>1. expired' \subseteq Pairs /\ codes' \subseteq Pairs
    BY <1>0, <1>12 DEF CodeExpires, TypeOK, ServiceTypeOK, tokenVars
  <2>. QED BY <1>12, <2>1, Expires DEF CodeExpires, tokenVars
<1>. QED
  BY <1>1, <1>2, <1>3, <1>4, <1>5, <1>6, <1>7, <1>8, <1>9, <1>10, <1>11, <1>12
  DEF ServiceStep

-----------------------------------------------------------------------------
(* The browser: calls that it starts, hears of, or no longer waits for. *)

LEMMA SentFields ==
    ASSUME TypeOK, NEW kind \in {"refresh", "logout", "exchange", "setup", "reset"},
           NEW pair \in PairOrNone, NEW given \in SecretOrNone, NEW chosen \in SecretOrNone,
           NEW generation \in 0 .. MaxGeneration
    PROVE  LET x == Sent(kind, pair, given, chosen, generation)
           IN  /\ x \in Call /\ x.kind = kind /\ x.pair = pair /\ x.chosen = chosen
               /\ x.at = "sent" /\ x.answer = None /\ x.generation = generation
               /\ x.late => pair \in revoked
<1>. DEFINE l == pair \in revoked
            x == Sent(kind, pair, given, chosen, generation)
<1>1. l \in BOOLEAN /\ (l => pair \in revoked)
  OBVIOUS
<1>2. x = [kind |-> kind, pair |-> pair, given |-> given, chosen |-> chosen,
           at |-> "sent", answer |-> None, heard |-> TRUE,
           generation |-> generation, late |-> l]
  BY DEF Sent
<1>. HIDE DEF l, x
<1>3. x \in Call
  BY <1>1, <1>2 DEF Call
<1>4. /\ x.kind = kind /\ x.pair = pair /\ x.chosen = chosen
      /\ x.at = "sent" /\ x.answer = None /\ x.generation = generation /\ x.late = l
  BY <1>2
<1>5. /\ x \in Call /\ x.kind = kind /\ x.pair = pair /\ x.chosen = chosen
      /\ x.at = "sent" /\ x.answer = None /\ x.generation = generation
      /\ x.late => pair \in revoked
  BY <1>1, <1>3, <1>4
<1>. QED BY <1>5 DEF x

LEMMA StartsFields ==
    ASSUME TypeOK, NEW q \in Calls, NEW x \in Call, Starts(q, x)
    PROVE  /\ calls' \in [Calls -> Call] /\ calls'[q] = x
           /\ \A r \in Calls : r # q => calls'[r] = calls[r]
  BY DEF TypeOK, ServiceTypeOK, Starts

(* Nobody waits for the call any more. *)
Silenced(r) ==
    \/ calls'[r] = Free
    \/ /\ calls'[r].kind = calls[r].kind /\ calls'[r].pair = calls[r].pair
       /\ calls'[r].chosen = calls[r].chosen /\ calls'[r].at = calls[r].at
       /\ calls'[r].answer = calls[r].answer /\ calls'[r].late = calls[r].late
       /\ calls'[r].heard = FALSE

LEMMA HearsFields ==
    ASSUME TypeOK, NEW q \in Calls, NEW a, Hears(q, a)
    PROVE  /\ calls' \in [Calls -> Call]
           /\ \A r \in Calls : r # q => calls'[r] = calls[r]
           /\ Silenced(q) /\ calls[q].heard
           /\ (calls[q].at = "answered" /\ a = calls[q].answer) \/ a = Refused
<1>1. calls[q] \in Call
  BY DEF TypeOK, ServiceTypeOK
<1>2. CASE calls' = [calls EXCEPT ![q] = Free]
  BY <1>2, FreeFields DEF Hears, TypeOK, ServiceTypeOK, Silenced
<1>3. CASE calls' = [calls EXCEPT ![q].heard = FALSE] /\ a = Refused
  BY <1>1, <1>3 DEF Hears, TypeOK, ServiceTypeOK, Silenced, Call
<1>. QED BY <1>2, <1>3 DEF Hears

LEMMA UnheardType ==
    ASSUME TypeOK
    PROVE  /\ Unheard \in [Calls -> Call]
           /\ \A r \in Calls : calls'[r] = Unheard[r] => Silenced(r)
<1>1. ASSUME NEW o \in Calls
      PROVE  /\ Unheard[o] \in Call
             /\ \/ Unheard[o] = Free
                \/ /\ Unheard[o].kind = calls[o].kind /\ Unheard[o].pair = calls[o].pair
                   /\ Unheard[o].chosen = calls[o].chosen /\ Unheard[o].at = calls[o].at
                   /\ Unheard[o].answer = calls[o].answer /\ Unheard[o].late = calls[o].late
                   /\ Unheard[o].heard = FALSE
  <2>1. calls[o] \in Call
    BY DEF TypeOK, ServiceTypeOK
  <2>2. CASE calls[o].at = "answered"
    BY <2>2, FreeFields DEF Unheard
  <2>3. CASE calls[o].at # "answered"
    <3>. DEFINE y == [calls[o] EXCEPT !.heard = FALSE]
    <3>1. Unheard[o] = y
      BY <2>3 DEF Unheard
    <3>2. /\ y \in Call /\ y.kind = calls[o].kind /\ y.pair = calls[o].pair
          /\ y.chosen = calls[o].chosen /\ y.at = calls[o].at
          /\ y.answer = calls[o].answer /\ y.late = calls[o].late /\ y.heard = FALSE
      BY <2>1 DEF Call
    <3>. QED BY <3>1, <3>2
  <2>. QED BY <2>2, <2>3
<1>2. Unheard \in [Calls -> Call]
  BY <1>1 DEF Unheard
<1>. QED BY <1>1, <1>2 DEF Silenced

(* What a browser step makes of a call. *)
Quiet(r) == Silenced(r) \/ (calls'[r] = calls[r] /\ OfPage(calls[r])')

New(r) ==
    /\ OfTokens(calls[r])' /\ OfAccount(calls[r])' /\ OfPage(calls[r])'
    /\ calls'[r].kind \in {"setup", "reset"} =>
          \A o \in Calls \ {r} : calls'[o].heard => calls'[o].kind # calls'[r].kind

LEMMA BrowserKeepsCalls ==
    ASSUME TypeOK, CallsInv, Grows, \A r \in Calls : Quiet(r) \/ New(r)
    PROVE  CallsInv'
<1>1. ASSUME NEW r \in Calls PROVE OfTokens(calls[r])' /\ OfAccount(calls[r])' /\ OfPage(calls[r])'
  <2>0. issued \in Nat /\ OfTokens(calls[r]) /\ OfAccount(calls[r])
    BY AuthServiceAssumptions DEF CallsInv, TypeOK, ServiceTypeOK
  <2>1. CASE calls'[r] = Free
    BY <2>1, FreeFields DEF OfTokens, OfAccount, OfPage
  <2>2. CASE calls'[r] # Free /\ Silenced(r)
    <3>1. OfTokens(calls[r])'
      BY <2>0, <2>2 DEF OfTokens, Grows, Silenced
    <3>2. OfAccount(calls[r])'
      BY <2>0, <2>2 DEF OfAccount, Grows, Silenced
    <3>3. OfPage(calls[r])'
      BY <2>2 DEF OfPage, Silenced
    <3>. QED BY <3>1, <3>2, <3>3
  <2>3. CASE calls'[r] = calls[r] /\ OfPage(calls[r])'
    BY <2>3, OtherCallsKept
  <2>4. CASE New(r)
    BY <2>4 DEF New
  <2>. QED BY <2>1, <2>2, <2>3, <2>4 DEF Quiet
<1>2. ASSUME NEW r \in Calls, calls'[r].heard, ~New(r) PROVE calls'[r] = calls[r]
  BY <1>2, FreeFields DEF Quiet, Silenced
<1>3. OneForm'
  BY <1>2 DEF OneForm, CallsInv, New
<1>. QED BY <1>1, <1>3 DEF CallsInv

(* Calls that are waited for after the step. *)
LEMMA PageStays ==
    ASSUME TypeOK, CallsInv, UNCHANGED <<page, session, login>>,
           gate'.generation = gate.generation,
           NEW r \in Calls, calls'[r] = calls[r]
    PROVE  OfPage(calls[r])'
  BY DEF CallsInv, OfPage

LEMMA PageOutlives ==
    ASSUME TypeOK, CallsInv, UNCHANGED page, gate'.generation = gate.generation + 1,
           NEW r \in Calls, calls'[r] = calls[r]
    PROVE  OfPage(calls[r])'
<1>1. gate.generation \in Nat /\ calls[r].generation \in Nat /\ OfPage(calls[r])
  BY AuthSessionsAssumptions DEF TypeOK, ServiceTypeOK, BrowserTypeOK, Call, CallsInv
<1>. QED BY <1>1 DEF OfPage

LEMMA PageTurns ==
    ASSUME TypeOK, CallsInv, NEW r \in Calls, calls'[r] = calls[r],
           \/ page \in {"away", "signed", "handoff"}
           \/ page = "phrase" /\ calls[r].kind # "setup"
           \/ page = "reset" /\ calls[r].kind # "reset"
    PROVE  OfPage(calls[r])'
  BY DEF CallsInv, OfPage

-----------------------------------------------------------------------------
(* The browser: the session gate and the requests that use it. *)

LEMMA TablesKept ==
    ASSUME AuthInv, UNCHANGED <<account, tokenVars>>, codes' \subseteq Pairs,
           calls' \in [Calls -> Call]
    PROVE  /\ TypeOK /\ CallsInv /\ issued \in Nat /\ codes \subseteq Pairs
           /\ ServiceTypeOK' /\ Grows /\ PairsInv' /\ CompletedHasPhrase'
<1>1. TypeOK /\ CallsInv /\ issued \in Nat /\ codes \subseteq Pairs
  BY AuthServiceAssumptions DEF AuthInv, TypeOK, ServiceTypeOK
<1>2. ServiceTypeOK'
  BY <1>1 DEF TypeOK, ServiceTypeOK, tokenVars
<1>3. Grows
  BY <1>1 DEF Grows, tokenVars
<1>4. PairsInv' /\ CompletedHasPhrase'
  BY DEF AuthInv, AccountInv, PairsInv, CompletedHasPhrase, tokenVars
<1>. QED BY <1>1, <1>2, <1>3, <1>4

LEMMA ClearFields ==
    ASSUME TypeOK, ClearSession
    PROVE  /\ storage' = None /\ session' = None
           /\ gate'.generation = gate.generation + 1
           /\ gate' \in [generation: 0 .. MaxGeneration, inflight: Calls \cup {None}]
           /\ store' \in [token: PairOrNone, status: {"none", "idle", "validating",
                                                      "authenticated", "unauthenticated"}]
  BY AuthSessionsAssumptions DEF ClearSession, TypeOK, BrowserTypeOK, PairOrNone

LEMMA CallerTypes ==
    ASSUME TypeOK
    PROVE  /\ Resting \in Caller /\ AllRest \in [Callers -> Caller]
           /\ \A n \in PairOrNone : Asks(n) \in Caller /\ [Asks(n) EXCEPT !.at = "retried"] \in Caller
           /\ \A f \in Calls : Joined(f) \in Caller
<1>1. Resting \in Caller
  BY AuthSessionsAssumptions DEF Resting, Caller, PairOrNone
<1>2. ASSUME NEW n \in PairOrNone
      PROVE  Asks(n) \in Caller /\ [Asks(n) EXCEPT !.at = "retried"] \in Caller
  <2>. DEFINE fresh == n \notin expired
  <2>1. fresh \in BOOLEAN /\ 0 \in 0 .. MaxGeneration
    BY AuthSessionsAssumptions
  <2>2. Asks(n) = [at |-> "asked", pair |-> n, fresh |-> fresh, generation |-> 0, call |-> None]
    BY DEF Asks
  <2>. HIDE DEF fresh
  <2>3. Asks(n) \in Caller
    BY <2>1, <2>2 DEF Caller
  <2>. QED BY <2>3 DEF Caller
<1>3. ASSUME NEW f \in Calls PROVE Joined(f) \in Caller
  BY <1>1 DEF Joined, Resting, Caller, TypeOK, BrowserTypeOK
<1>. QED BY <1>1, <1>2, <1>3 DEF AllRest

LEMMA ResumedType ==
    ASSUME TypeOK, NEW f, NEW n \in PairOrNone PROVE Resumed(f, n) \in [Callers -> Caller]
<1>1. ASSUME NEW c \in Callers PROVE Resumed(f, n)[c] \in Caller
  BY CallerTypes DEF Resumed, TypeOK, BrowserTypeOK
<1>. QED BY <1>1 DEF Resumed

LEMMA Settles ==
    ASSUME AuthInv, NEW f \in Calls, RefreshSettles(f) PROVE AuthInv'
<1>1. PICK a \in Outcomes :
         /\ Hears(f, a)
         /\ \/ /\ Current(f) /\ a # Refused
               /\ storage' = a
               /\ store' = [store EXCEPT !.token = a]
               /\ gate' = [gate EXCEPT !.inflight = None]
               /\ callers' = Resumed(f, a)
               /\ UNCHANGED session
            \/ /\ Current(f) /\ a = Refused
               /\ ClearSession
               /\ callers' = Resumed(f, None)
            \/ /\ ~Current(f)
               /\ gate' = [gate EXCEPT !.inflight = None]
               /\ callers' = Resumed(f, None)
               /\ UNCHANGED <<storage, session, store>>
  BY DEF RefreshSettles
<1>2. UNCHANGED <<account, tokenVars, codes, frontVars>> /\ calls[f].kind = "refresh"
  BY DEF RefreshSettles
<1>3. TypeOK /\ CallsInv /\ codes \subseteq Pairs /\ None \notin Pairs /\ None \in PairOrNone
  BY AuthServiceAssumptions DEF AuthInv, TypeOK, ServiceTypeOK, PairOrNone
<1>4. /\ calls' \in [Calls -> Call]
      /\ \A r \in Calls : r # f => calls'[r] = calls[r]
      /\ Silenced(f) /\ calls[f].heard
      /\ (calls[f].at = "answered" /\ a = calls[f].answer) \/ a = Refused
  BY <1>1, <1>3, HearsFields
<1>5. ServiceTypeOK' /\ Grows /\ PairsInv' /\ CompletedHasPhrase' /\ issued \in Nat
  BY <1>2, <1>3, <1>4, TablesKept
<1>6. page = "app" /\ UNCHANGED <<page, front, shown, resets, issued, login, account>>
  BY <1>2, <1>3, <1>4 DEF CallsInv, OfPage, frontVars, tokenVars
<1>7. AccountInv'
  BY <1>5, <1>6 DEF AuthInv, AccountInv
<1>8. /\ gate \in [generation: 0 .. MaxGeneration, inflight: Calls \cup {None}]
      /\ store \in [token: PairOrNone, status: {"none", "idle", "validating",
                                                "authenticated", "unauthenticated"}]
      /\ front' \in PairOrNone /\ shown' \in SecretOrNone /\ resets' \in 0 .. MaxResets
      /\ page' \in {"away", "app", "handoff", "signed", "phrase", "reset"}
      /\ storage \in PairOrNone /\ session \in PairOrNone
  BY <1>3, <1>6 DEF TypeOK, BrowserTypeOK
<1>9. CallsInv'
  <2>1. \/ gate'.generation = gate.generation /\ UNCHANGED session
        \/ gate'.generation = gate.generation + 1
    BY <1>1, <1>3, <1>8, ClearFields
  <2>2. ASSUME NEW r \in Calls, r # f PROVE OfPage(calls[r])'
    BY <1>3, <1>4, <1>6, <2>1, <2>2, PageStays, PageOutlives
  <2>3. \A r \in Calls : Quiet(r)
    BY <1>4, <2>2 DEF Quiet
  <2>. QED BY <1>3, <1>5, <2>3, BrowserKeepsCalls
<1>10. CASE /\ Current(f) /\ a # Refused
            /\ storage' = a
            /\ store' = [store EXCEPT !.token = a]
            /\ gate' = [gate EXCEPT !.inflight = None]
            /\ callers' = Resumed(f, a)
            /\ UNCHANGED session
  <2>1. /\ a \in 1 .. issued /\ login[a] = login[calls[f].pair]
        /\ session # None /\ session = login[calls[f].pair]
    BY <1>2, <1>3, <1>4, <1>10 DEF CallsInv, OfTokens, OfPage, Current
  <2>2. a \in PairOrNone
    BY <1>3, <2>1, AuthServiceAssumptions DEF PairOrNone, Pairs, TypeOK, ServiceTypeOK
  <2>3. BrowserTypeOK'
    BY <1>3, <1>8, <1>10, <2>2, ResumedType DEF BrowserTypeOK
  <2>4. AppInv'
    BY <1>3, <1>6, <1>10, <2>1 DEF AppInv, StorageIsOfTheLastSession
  <2>. QED BY <1>5, <1>7, <1>9, <2>3, <2>4 DEF AuthInv, TypeOK
<1>11. CASE ClearSession /\ callers' = Resumed(f, None)
  <2>1. BrowserTypeOK'
    BY <1>3, <1>8, <1>11, ResumedType, ClearFields DEF BrowserTypeOK
  <2>2. AppInv'
    BY <1>3, <1>6, <1>11, ClearFields DEF AppInv, StorageIsOfTheLastSession
  <2>. QED BY <1>5, <1>7, <1>9, <2>1, <2>2 DEF AuthInv, TypeOK
<1>12. CASE /\ gate' = [gate EXCEPT !.inflight = None]
            /\ callers' = Resumed(f, None)
            /\ UNCHANGED <<storage, session, store>>
  <2>1. BrowserTypeOK'
    BY <1>3, <1>8, <1>12, ResumedType DEF BrowserTypeOK
  <2>2. AppInv'
    BY <1>6, <1>12 DEF AuthInv, AppInv, StorageIsOfTheLastSession
  <2>. QED BY <1>5, <1>7, <1>9, <2>1, <2>2 DEF AuthInv, TypeOK
<1>. QED BY <1>1, <1>10, <1>11, <1>12

LEMMA AppConcludes ==
    ASSUME AuthInv, UNCHANGED <<account, tokenVars, codes, frontVars>>,
           calls' \in [Calls -> Call], CallsInv',
           gate' \in [generation: 0 .. MaxGeneration, inflight: Calls \cup {None}],
           store' \in [token: PairOrNone, status: {"none", "idle", "validating",
                                                   "authenticated", "unauthenticated"}],
           callers' \in [Callers -> Caller],
           storage' \in PairOrNone, session' \in PairOrNone,
           AppInv'
    PROVE  AuthInv'
<1>1. TypeOK /\ codes' \subseteq Pairs
  BY DEF AuthInv, TypeOK, ServiceTypeOK
<1>2. ServiceTypeOK' /\ PairsInv' /\ CompletedHasPhrase'
  BY <1>1, TablesKept
<1>3. UNCHANGED <<page, front, shown, resets, issued, account>>
  BY DEF frontVars, tokenVars
<1>4. BrowserTypeOK'
  BY <1>1, <1>3 DEF TypeOK, BrowserTypeOK
<1>5. AccountInv'
  BY <1>2, <1>3 DEF AuthInv, AccountInv
<1>. QED BY <1>2, <1>4, <1>5 DEF AuthInv, TypeOK

LEMMA StillCalls ==
    ASSUME CallsInv, UNCHANGED <<calls, page, session, login, issued, account, revoked>>,
           gate'.generation = gate.generation
    PROVE  CallsInv'
  BY DEF CallsInv, OneForm, OfTokens, OfAccount, OfPage

(* Requests that no refresh and no clearing follows. *)
LEMMA CallerMoves ==
    ASSUME AuthInv, UNCHANGED <<serviceVars, frontVars, storage, session, gate>>,
           NEW c \in Callers, NEW x \in Caller, callers' = [callers EXCEPT ![c] = x],
           page = "app",
           store' \in [token: PairOrNone, status: {"none", "idle", "validating",
                                                   "authenticated", "unauthenticated"}]
    PROVE  AuthInv'
<1>1. TypeOK /\ CallsInv
  BY DEF AuthInv
<1>2. /\ UNCHANGED <<account, tokenVars, codes, frontVars>>
      /\ UNCHANGED <<calls, page, session, login, issued, account, revoked>>
  BY DEF serviceVars, tokenVars, frontVars
<1>3. CallsInv'
  BY <1>1, <1>2, StillCalls
<1>4. /\ calls' \in [Calls -> Call] /\ callers' \in [Callers -> Caller]
      /\ gate' \in [generation: 0 .. MaxGeneration, inflight: Calls \cup {None}]
      /\ storage' \in PairOrNone /\ session' \in PairOrNone
  BY <1>1, <1>2 DEF TypeOK, ServiceTypeOK, BrowserTypeOK
<1>5. AppInv'
  BY <1>2 DEF AuthInv, AppInv, StorageIsOfTheLastSession
<1>. QED BY <1>2, <1>3, <1>4, <1>5, AppConcludes

(* The session is cleared, with the calls as they are or one less. *)
LEMMA Clears ==
    ASSUME AuthInv, UNCHANGED <<account, tokenVars, codes, frontVars>>, ClearSession,
           calls' \in [Calls -> Call],
           \A r \in Calls : Silenced(r) \/ calls'[r] = calls[r],
           callers' \in [Callers -> Caller],
           \A c \in Callers : callers'[c] # Resting => page = "app"
    PROVE  AuthInv'
<1>1. TypeOK /\ CallsInv /\ codes' \subseteq Pairs /\ UNCHANGED page
  BY DEF AuthInv, TypeOK, ServiceTypeOK, frontVars
<1>2. Grows
  BY <1>1, TablesKept
<1>3. /\ storage' = None /\ session' = None
      /\ gate'.generation = gate.generation + 1
      /\ gate' \in [generation: 0 .. MaxGeneration, inflight: Calls \cup {None}]
      /\ store' \in [token: PairOrNone, status: {"none", "idle", "validating",
                                                 "authenticated", "unauthenticated"}]
  BY <1>1, ClearFields
<1>4. \A r \in Calls : Quiet(r)
  BY <1>1, <1>3, PageOutlives DEF Quiet
<1>5. CallsInv'
  BY <1>1, <1>2, <1>4, BrowserKeepsCalls
<1>6. AppInv'
  BY <1>1, <1>3 DEF AppInv, StorageIsOfTheLastSession
<1>7. storage' \in PairOrNone /\ session' \in PairOrNone
  BY <1>3 DEF PairOrNone
<1>. QED BY <1>3, <1>5, <1>6, <1>7, AppConcludes

(* A call that was just sent. *)
LEMMA SentIsNew ==
    ASSUME TypeOK, Grows, NEW q \in Calls,
           calls'[q].at = "sent", calls'[q].answer = None,
           calls'[q].late => calls'[q].pair \in revoked,
           calls'[q].kind \in {"refresh", "logout", "exchange"} => calls'[q].pair \in 1 .. issued,
           calls'[q].kind \in {"setup", "reset"} =>
               /\ account # None /\ calls'[q].chosen # None
               /\ \A o \in Calls \ {q} : calls'[o].heard => calls'[o].kind # calls'[q].kind,
           OfPage(calls[q])'
    PROVE  New(q)
<1>1. issued \in Nat /\ None \notin Pairs
  BY AuthServiceAssumptions DEF TypeOK, ServiceTypeOK
<1>2. OfTokens(calls[q])'
  BY <1>1 DEF OfTokens, Grows
<1>3. OfAccount(calls[q])'
  BY DEF OfAccount, Grows
<1>. QED BY <1>2, <1>3 DEF New

LEMMA AskedIsOnApp ==
    ASSUME AuthInv, NEW c \in Callers, callers[c].at # "idle" PROVE page = "app"
  BY DEF AuthInv, AppInv, Resting

LEMMA Requests ==
    ASSUME AuthInv, NEW c \in Callers, (c \in Readers /\ Ask(c)) \/ Succeeds(c) \/ FailsOtherwise(c)
    PROVE  AuthInv'
<1>1. TypeOK
  BY DEF AuthInv
<1>2. CASE Ask(c)
  BY <1>1, <1>2, CallerTypes, CallerMoves DEF Ask, TypeOK, BrowserTypeOK
<1>3. CASE Succeeds(c)
  <2>1. callers[c] \in Caller
    BY <1>1 DEF TypeOK, BrowserTypeOK
  <2>2. store' \in [token: PairOrNone, status: {"none", "idle", "validating",
                                                "authenticated", "unauthenticated"}]
    BY <1>1, <1>3, <2>1 DEF Succeeds, Caller, TypeOK, BrowserTypeOK
  <2>3. page = "app"
    BY <1>3, AskedIsOnApp DEF Succeeds
  <2>. QED BY <1>1, <1>3, <2>2, <2>3, CallerTypes, CallerMoves DEF Succeeds
<1>4. CASE FailsOtherwise(c)
  <2>1. store' \in [token: PairOrNone, status: {"none", "idle", "validating",
                                                "authenticated", "unauthenticated"}]
    BY <1>1, <1>4 DEF FailsOtherwise, TypeOK, BrowserTypeOK
  <2>2. page = "app"
    BY <1>4, AskedIsOnApp DEF FailsOtherwise
  <2>. QED BY <1>1, <1>4, <2>1, <2>2, CallerTypes, CallerMoves DEF FailsOtherwise
<1>. QED BY <1>2, <1>3, <1>4

LEMMA StartsRefresh ==
    ASSUME AuthInv, NEW c \in Callers, NEW f \in Calls, StartRefresh(c, f), page = "app",
           UNCHANGED <<account, tokenVars, codes, frontVars>>
    PROVE  AuthInv'
<1>. DEFINE x == Sent("refresh", storage, None, None, gate.generation)
<1>1. /\ TypeOK /\ CallsInv /\ codes' \subseteq Pairs /\ gate.generation \in 0 .. MaxGeneration
      /\ UNCHANGED <<page, login, storage, session, store>>
      /\ storage \in PairOrNone /\ None \in SecretOrNone
  BY DEF AuthInv, TypeOK, ServiceTypeOK, BrowserTypeOK, frontVars, tokenVars, StartRefresh, SecretOrNone
<1>2. /\ x \in Call /\ x.kind = "refresh" /\ x.pair = storage
      /\ x.at = "sent" /\ x.answer = None /\ x.generation = gate.generation
      /\ x.late => storage \in revoked
  BY <1>1, SentFields
<1>3. /\ Starts(f, x) /\ storage # None
      /\ gate' = [gate EXCEPT !.inflight = f] /\ callers' = [callers EXCEPT ![c] = Joined(f)]
  BY DEF StartRefresh
<1>. HIDE DEF x
<1>4. /\ calls' \in [Calls -> Call] /\ calls'[f] = x
      /\ \A r \in Calls : r # f => calls'[r] = calls[r]
  BY <1>1, <1>2, <1>3, StartsFields
<1>5. Grows
  BY <1>1, <1>4, TablesKept
<1>6. gate'.generation = gate.generation
  BY <1>1, <1>3 DEF TypeOK, BrowserTypeOK
<1>7. storage \in 1 .. issued /\ session # None /\ session = login[storage]
  BY <1>3 DEF AuthInv, AppInv, StorageIsOfTheLastSession
<1>8. OfPage(calls[f])'
  BY <1>1, <1>2, <1>4, <1>6, <1>7 DEF OfPage
<1>9. New(f)
  BY <1>1, <1>2, <1>4, <1>5, <1>7, <1>8, SentIsNew
<1>10. \A r \in Calls \ {f} : Quiet(r)
  BY <1>1, <1>4, <1>6, PageStays DEF Quiet
<1>11. CallsInv'
  BY <1>1, <1>5, <1>9, <1>10, BrowserKeepsCalls
<1>12. /\ gate' \in [generation: 0 .. MaxGeneration, inflight: Calls \cup {None}]
       /\ callers' \in [Callers -> Caller]
       /\ store' \in [token: PairOrNone, status: {"none", "idle", "validating",
                                                  "authenticated", "unauthenticated"}]
       /\ storage' \in PairOrNone /\ session' \in PairOrNone
  BY <1>1, <1>3, CallerTypes DEF TypeOK, BrowserTypeOK
<1>13. AppInv'
  BY <1>1, tokenVars' = tokenVars DEF AuthInv, AppInv, StorageIsOfTheLastSession, tokenVars
<1>. QED BY <1>4, <1>11, <1>12, <1>13, AppConcludes

LEMMA Refused401 ==
    ASSUME AuthInv, NEW c \in Callers, Unauthorized(c) PROVE AuthInv'
<1>1. TypeOK /\ UNCHANGED <<account, tokenVars, codes, frontVars>> /\ callers[c].at # "idle"
  BY DEF AuthInv, Unauthorized
<1>2. page = "app"
  BY <1>1, AskedIsOnApp
<1>3. CASE JoinRefresh(c)
  <2>1. Joined(gate.inflight) \in Caller
    BY <1>1, <1>3, CallerTypes DEF JoinRefresh, TypeOK, BrowserTypeOK
  <2>2. store' \in [token: PairOrNone, status: {"none", "idle", "validating",
                                                "authenticated", "unauthenticated"}]
    BY <1>1, <1>3 DEF JoinRefresh, TypeOK, BrowserTypeOK
  <2>3. UNCHANGED <<serviceVars, frontVars, storage, session, gate>>
    BY <1>1, <1>3 DEF JoinRefresh, serviceVars, tokenVars
  <2>. QED BY <1>2, <1>3, <2>1, <2>2, <2>3, CallerMoves DEF JoinRefresh
<1>4. CASE \E f \in Calls : StartRefresh(c, f)
  BY <1>1, <1>2, <1>4, StartsRefresh
<1>5. CASE ClearSession /\ callers' = [callers EXCEPT ![c] = Resting] /\ UNCHANGED calls
  <2>1. calls' \in [Calls -> Call] /\ callers' \in [Callers -> Caller]
    BY <1>1, <1>5, CallerTypes DEF TypeOK, ServiceTypeOK, BrowserTypeOK
  <2>. QED BY <1>1, <1>2, <1>5, <2>1, Clears
<1>. QED BY <1>3, <1>4, <1>5 DEF Unauthorized, NothingToRefresh

LEMMA LogsOut ==
    ASSUME AuthInv, NEW q \in Calls, Logout(q) PROVE AuthInv'
<1>. DEFINE x == Sent("logout", storage, None, None, 0)
<1>1. /\ TypeOK /\ CallsInv /\ codes' \subseteq Pairs
      /\ UNCHANGED <<account, tokenVars, codes, frontVars, appVars>>
      /\ UNCHANGED <<page, login, storage, session, store, gate, callers>>
      /\ storage \in PairOrNone /\ None \in SecretOrNone /\ 0 \in 0 .. MaxGeneration
  BY AuthSessionsAssumptions
  DEF AuthInv, TypeOK, ServiceTypeOK, BrowserTypeOK, frontVars, tokenVars, appVars, Logout, SecretOrNone
<1>2. /\ x \in Call /\ x.kind = "logout" /\ x.pair = storage
      /\ x.at = "sent" /\ x.answer = None /\ (x.late => storage \in revoked)
  BY <1>1, SentFields
<1>3. Starts(q, x) /\ storage # None
  BY DEF Logout
<1>. HIDE DEF x
<1>4. /\ calls' \in [Calls -> Call] /\ calls'[q] = x
      /\ \A r \in Calls : r # q => calls'[r] = calls[r]
  BY <1>1, <1>2, <1>3, StartsFields
<1>5. Grows
  BY <1>1, <1>4, TablesKept
<1>6. storage \in 1 .. issued
  BY <1>3 DEF AuthInv, AppInv
<1>7. New(q)
  BY <1>1, <1>2, <1>4, <1>5, <1>6, SentIsNew DEF OfPage
<1>8. \A r \in Calls \ {q} : Quiet(r)
  BY <1>1, <1>4, PageStays DEF Quiet
<1>9. CallsInv'
  BY <1>1, <1>5, <1>7, <1>8, BrowserKeepsCalls
<1>10. /\ gate' \in [generation: 0 .. MaxGeneration, inflight: Calls \cup {None}]
       /\ callers' \in [Callers -> Caller]
       /\ store' \in [token: PairOrNone, status: {"none", "idle", "validating",
                                                  "authenticated", "unauthenticated"}]
       /\ storage' \in PairOrNone /\ session' \in PairOrNone
  BY <1>1 DEF TypeOK, BrowserTypeOK
<1>11. AppInv'
  BY <1>1 DEF AuthInv, AppInv, StorageIsOfTheLastSession, tokenVars
<1>. QED BY <1>1, <1>4, <1>9, <1>10, <1>11, AppConcludes

LEMMA LogoutIsOver ==
    ASSUME AuthInv, NEW q \in Calls, LogoutEnds(q) PROVE AuthInv'
<1>1. TypeOK /\ ClearSession /\ UNCHANGED <<account, tokenVars, codes, frontVars, callers>>
  BY DEF AuthInv, LogoutEnds
<1>2. /\ calls' \in [Calls -> Call]
      /\ \A r \in Calls : Silenced(r) \/ calls'[r] = calls[r]
  BY <1>1, HearsFields DEF LogoutEnds
<1>3. callers' \in [Callers -> Caller] /\ \A c \in Callers : callers'[c] # Resting => page = "app"
  BY <1>1 DEF AuthInv, AppInv, TypeOK, BrowserTypeOK
<1>. QED BY <1>1, <1>2, <1>3, Clears

-----------------------------------------------------------------------------
(* The browser: pages. *)

(* A page of kushim-app is loaded. *)
LEMMA LoadFields ==
    ASSUME TypeOK, NEW status \in {"idle", "validating"}, LoadApp(status)
    PROVE  /\ gate' \in [generation: 0 .. MaxGeneration, inflight: Calls \cup {None}]
           /\ store' \in [token: PairOrNone, status: {"none", "idle", "validating",
                                                      "authenticated", "unauthenticated"}]
           /\ storage' = storage /\ session' = session
           /\ storage' \in PairOrNone /\ session' \in PairOrNone
  BY AuthSessionsAssumptions DEF LoadApp, NewGate, TypeOK, BrowserTypeOK

LEMMA ValidatesType ==
    ASSUME TypeOK, NEW n \in PairOrNone, Validates(n) PROVE callers' \in [Callers -> Caller]
  BY CallerTypes DEF Validates, Callers

LEMMA Leaves ==
    ASSUME AuthInv, LeavePage PROVE AuthInv'
<1>1. /\ TypeOK /\ CallsInv /\ codes' \subseteq Pairs
      /\ UNCHANGED <<account, tokenVars, codes, shown, resets, storage, session>>
      /\ UNCHANGED <<account, issued, login>>
      /\ page' = "away" /\ store' = NoStore /\ gate' = NewGate /\ callers' = AllRest
      /\ front' = None /\ calls' = Unheard
  BY DEF AuthInv, TypeOK, ServiceTypeOK, LeavePage, tokenVars
<1>2. calls' \in [Calls -> Call] /\ \A r \in Calls : Silenced(r)
  BY <1>1, UnheardType
<1>3. ServiceTypeOK' /\ Grows /\ PairsInv' /\ CompletedHasPhrase'
  BY <1>1, <1>2, TablesKept
<1>4. CallsInv'
  BY <1>1, <1>2, <1>3, BrowserKeepsCalls DEF Quiet
<1>5. BrowserTypeOK'
  BY <1>1, CallerTypes, AuthSessionsAssumptions
  DEF TypeOK, BrowserTypeOK, NoStore, NewGate, PairOrNone
<1>6. AccountInv'
  BY <1>1, <1>3 DEF AuthInv, AccountInv
<1>7. AppInv'
  BY <1>1 DEF AuthInv, AppInv, StorageIsOfTheLastSession, AllRest
<1>. QED BY <1>3, <1>4, <1>5, <1>6, <1>7 DEF AuthInv, TypeOK

LEMMA Opens ==
    ASSUME AuthInv, OpenApp PROVE AuthInv'
<1>1. /\ TypeOK /\ CallsInv /\ codes' \subseteq Pairs /\ storage \in PairOrNone
      /\ UNCHANGED <<account, tokenVars, codes, calls, front, shown, resets>>
      /\ UNCHANGED <<account, issued, login>>
      /\ page = "away" /\ page' = "app" /\ LoadApp("validating") /\ Validates(storage)
  BY DEF AuthInv, TypeOK, ServiceTypeOK, BrowserTypeOK, OpenApp, tokenVars, serviceVars
<1>2. calls' \in [Calls -> Call]
  BY <1>1 DEF TypeOK, ServiceTypeOK
<1>3. ServiceTypeOK' /\ Grows /\ PairsInv' /\ CompletedHasPhrase'
  BY <1>1, <1>2, TablesKept
<1>4. CallsInv'
  BY <1>1, <1>3, BrowserKeepsCalls, PageTurns DEF Quiet
<1>5. BrowserTypeOK'
  BY <1>1, LoadFields, ValidatesType DEF TypeOK, BrowserTypeOK
<1>6. AccountInv'
  BY <1>1, <1>3 DEF AuthInv, AccountInv
<1>7. AppInv'
  BY <1>1, LoadFields DEF AuthInv, AppInv, StorageIsOfTheLastSession
<1>. QED BY <1>3, <1>4, <1>5, <1>6, <1>7 DEF AuthInv, TypeOK

LEMMA Visits ==
    ASSUME AuthInv, VisitDashboard PROVE AuthInv'
<1>1. /\ TypeOK /\ CallsInv /\ codes' \subseteq Pairs /\ storage \in PairOrNone
      /\ UNCHANGED <<account, tokenVars, codes, calls, shown, resets, storage, session, gate>>
      /\ UNCHANGED <<account, issued, login>>
      /\ page = "handoff" /\ page' = "app" /\ front' = None /\ Validates(storage)
      /\ store' = [store EXCEPT !.status = "validating"]
  BY DEF AuthInv, TypeOK, ServiceTypeOK, BrowserTypeOK, VisitDashboard, tokenVars, serviceVars
<1>2. calls' \in [Calls -> Call]
  BY <1>1 DEF TypeOK, ServiceTypeOK
<1>3. ServiceTypeOK' /\ Grows /\ PairsInv' /\ CompletedHasPhrase'
  BY <1>1, <1>2, TablesKept
<1>4. CallsInv'
  BY <1>1, <1>3, BrowserKeepsCalls, PageTurns DEF Quiet
<1>5. BrowserTypeOK'
  BY <1>1, ValidatesType DEF TypeOK, BrowserTypeOK, PairOrNone
<1>6. AccountInv'
  BY <1>1, <1>3 DEF AuthInv, AccountInv
<1>7. AppInv'
  BY <1>1 DEF AuthInv, AppInv, StorageIsOfTheLastSession
<1>. QED BY <1>3, <1>4, <1>5, <1>6, <1>7 DEF AuthInv, TypeOK

LEMMA HandsOff ==
    ASSUME AuthInv, NEW q \in Calls, OpenHandoff(q) \/ ReloadHandoff(q) PROVE AuthInv'
<1>. DEFINE x == Sent("exchange", front, None, None, 0)
<1>1. /\ TypeOK /\ CallsInv /\ None \in SecretOrNone /\ 0 \in 0 .. MaxGeneration
      /\ UNCHANGED <<account, tokenVars, front, shown, resets>>
      /\ UNCHANGED <<account, issued, login>>
      /\ page \in {"signed", "handoff"} /\ page' = "handoff"
      /\ LoadApp("idle") /\ callers' = AllRest
  BY AuthSessionsAssumptions
  DEF AuthInv, OpenHandoff, ReloadHandoff, tokenVars, frontVars, SecretOrNone
<1>2. front # None /\ front \in 1 .. issued /\ front \in PairOrNone /\ front \in Pairs
  <2>1. front # None /\ front \in 1 .. issued /\ front \in PairOrNone
    BY <1>1 DEF AuthInv, AccountInv, TypeOK, BrowserTypeOK
  <2>. QED BY <2>1 DEF PairOrNone
<1>3. codes' \subseteq Pairs
  BY <1>1, <1>2 DEF OpenHandoff, ReloadHandoff, CreateCode, TypeOK, ServiceTypeOK
<1>4. /\ x \in Call /\ x.kind = "exchange" /\ x.pair = front
      /\ x.at = "sent" /\ x.answer = None /\ (x.late => front \in revoked)
  BY <1>1, <1>2, SentFields
<1>5. \/ Starts(q, x)
      \/ calls[q] = Free /\ calls' = [Unheard EXCEPT ![q] = x]
  BY DEF OpenHandoff, ReloadHandoff
<1>. HIDE DEF x
<1>6. /\ calls' \in [Calls -> Call] /\ calls'[q] = x
      /\ \A r \in Calls \ {q} : Silenced(r) \/ calls'[r] = calls[r]
  <2>1. CASE Starts(q, x)
    BY <1>1, <1>4, <2>1, StartsFields
  <2>2. CASE calls' = [Unheard EXCEPT ![q] = x]
    <3>1. Unheard \in [Calls -> Call]
      BY <1>1, UnheardType
    <3>2. \A r \in Calls \ {q} : calls'[r] = Unheard[r]
      BY <2>2, <3>1
    <3>. QED BY <1>1, <1>4, <2>2, <3>1, <3>2, UnheardType
  <2>. QED BY <1>5, <2>1, <2>2
<1>7. ServiceTypeOK' /\ Grows /\ PairsInv' /\ CompletedHasPhrase'
  BY <1>1, <1>3, <1>6, TablesKept
<1>8. New(q)
  BY <1>1, <1>2, <1>4, <1>6, <1>7, SentIsNew DEF OfPage
<1>9. \A r \in Calls \ {q} : Quiet(r)
  BY <1>1, <1>6, PageTurns DEF Quiet
<1>10. CallsInv'
  BY <1>1, <1>7, <1>8, <1>9, BrowserKeepsCalls
<1>11. BrowserTypeOK'
  BY <1>1, LoadFields, CallerTypes DEF TypeOK, BrowserTypeOK
<1>12. AccountInv'
  BY <1>1, <1>7 DEF AuthInv, AccountInv
<1>13. AppInv'
  BY <1>1, LoadFields DEF AuthInv, AppInv, StorageIsOfTheLastSession, AllRest
<1>. QED BY <1>7, <1>10, <1>11, <1>12, <1>13 DEF AuthInv, TypeOK

LEMMA HandedOff ==
    ASSUME AuthInv, NEW q \in Calls, ExchangeEnds(q) PROVE AuthInv'
<1>1. PICK a \in Outcomes :
         /\ Hears(q, a)
         /\ \/ /\ a # Refused /\ page = "handoff"
               /\ SetTokens(a, "validating") /\ Validates(a)
               /\ page' = "app" /\ front' = None
            \/ /\ a # Refused /\ page = "app"
               /\ SetTokens(a, "idle")
               /\ UNCHANGED <<page, front, callers>>
            \/ /\ a = Refused
               /\ UNCHANGED <<page, front, appVars>>
  BY DEF ExchangeEnds
<1>2. /\ TypeOK /\ CallsInv /\ codes' \subseteq Pairs /\ calls[q].kind = "exchange"
      /\ UNCHANGED <<account, tokenVars, codes, shown, resets>>
      /\ UNCHANGED <<account, issued, login>>
  BY DEF AuthInv, TypeOK, ServiceTypeOK, ExchangeEnds, tokenVars
<1>3. /\ calls' \in [Calls -> Call]
      /\ \A r \in Calls : Silenced(r) \/ calls'[r] = calls[r]
      /\ (calls[q].at = "answered" /\ a = calls[q].answer) \/ a = Refused
  BY <1>1, <1>2, HearsFields
<1>4. ServiceTypeOK' /\ Grows /\ PairsInv' /\ CompletedHasPhrase' /\ issued \in Nat
  BY <1>2, <1>3, TablesKept
<1>5. CASE a # Refused /\ page \in {"handoff", "app"}
  <2>1. /\ storage' = a /\ session' = login[a] /\ page' = "app" /\ BumpSessionGeneration
        /\ store' = [token |-> a, status |-> IF page = "handoff" THEN "validating" ELSE "idle"]
        /\ \/ UNCHANGED <<front, callers>>
           \/ front' = None /\ Validates(a)
    BY <1>1, <1>5 DEF SetTokens
  <2>2. a \in 1 .. issued
    BY <1>2, <1>3, <1>5 DEF CallsInv, OfTokens
  <2>3. a \in PairOrNone /\ login[a] # None /\ login[a] \in PairOrNone /\ a \in Pairs
    <3>1. a \in Pairs
      BY <1>2, <2>2, AuthServiceAssumptions DEF TypeOK, ServiceTypeOK, Pairs
    <3>. QED BY <1>2, <2>2, <3>1 DEF AuthInv, PairsInv, PairOrNone, TypeOK, ServiceTypeOK
  <2>4. /\ gate'.generation = gate.generation + 1
        /\ gate' \in [generation: 0 .. MaxGeneration, inflight: Calls \cup {None}]
    BY <1>2, <2>1, AuthSessionsAssumptions DEF BumpSessionGeneration, TypeOK, BrowserTypeOK
  <2>5. \A r \in Calls : Quiet(r)
    <3>1. CASE page = "handoff"
      BY <1>2, <1>3, <3>1, PageTurns DEF Quiet
    <3>2. CASE page = "app"
      BY <1>2, <1>3, <2>1, <2>4, <3>2, PageOutlives DEF Quiet
    <3>. QED BY <1>5, <3>1, <3>2
  <2>6. CallsInv'
    BY <1>2, <1>4, <2>5, BrowserKeepsCalls
  <2>7. BrowserTypeOK'
    BY <1>2, <2>1, <2>3, <2>4, ValidatesType DEF TypeOK, BrowserTypeOK, PairOrNone
  <2>8. AccountInv'
    BY <1>2, <1>4, <2>1 DEF AuthInv, AccountInv
  <2>9. AppInv'
    BY <1>2, <2>1, <2>2, <2>3 DEF AppInv, StorageIsOfTheLastSession
  <2>. QED BY <1>4, <2>6, <2>7, <2>8, <2>9 DEF AuthInv, TypeOK
<1>6. CASE a = Refused
  <2>1. /\ UNCHANGED <<page, front, appVars>>
        /\ UNCHANGED <<storage, session, store, gate, callers>>
    BY <1>1, <1>6 DEF appVars
  <2>2. CallsInv'
    BY <1>2, <1>3, <1>4, <2>1, BrowserKeepsCalls, PageStays DEF Quiet
  <2>3. BrowserTypeOK'
    BY <1>2, <2>1 DEF TypeOK, BrowserTypeOK
  <2>4. AccountInv' /\ AppInv'
    BY <1>2, <1>4, <2>1 DEF AuthInv, AccountInv, AppInv, StorageIsOfTheLastSession
  <2>. QED BY <1>4, <2>2, <2>3, <2>4 DEF AuthInv, TypeOK
<1>. QED BY <1>1, <1>5, <1>6

-----------------------------------------------------------------------------
(* The auth front. *)

LEMMA FrontConcludes ==
    ASSUME AuthInv, UNCHANGED appVars, ServiceTypeOK', Grows, PairsInv', CallsInv',
           page' \in {"away", "app", "handoff", "signed", "phrase", "reset"},
           front' \in PairOrNone, shown' \in SecretOrNone, resets' \in 0 .. MaxResets,
           page # "app", AccountInv'
    PROVE  AuthInv'
<1>1. BrowserTypeOK'
  BY DEF AuthInv, TypeOK, BrowserTypeOK, appVars
<1>2. AppInv'
  <2>1. issued \in Nat
    BY AuthServiceAssumptions DEF AuthInv, TypeOK, ServiceTypeOK
  <2>. QED BY <2>1 DEF AuthInv, AppInv, StorageIsOfTheLastSession, Grows, appVars
<1>. QED BY <1>1, <1>2 DEF AuthInv, TypeOK

LEMMA NewUser == CreateUser(1) => account' \in Accounts /\ account' # None /\ ~account'.completed
<1>1. 1 \in Secrets
  BY AuthServiceAssumptions DEF Secrets
<1>2. CreateUser(1) => account' \in Accounts /\ ~account'.completed
  BY <1>1 DEF CreateUser, Accounts
<1>. QED BY <1>2, AuthServiceAssumptions

(* Signing up and signing in issue a pair. *)
LEMMA SignsUpOrIn ==
    ASSUME AuthInv, SignUp \/ SignIn PROVE AuthInv'
<1>1. /\ TypeOK /\ CallsInv /\ page = "away" /\ IssueTokenPair(None)
      /\ UNCHANGED <<revoked, expired, codes, calls, resets, appVars>>
      /\ UNCHANGED <<session, gate>>
      /\ \/ UNCHANGED <<page, front>>
         \/ page' \in {"phrase", "signed"} /\ front' = issued + 1
      /\ None \in PairOrNone
  BY DEF AuthInv, SignUp, SignIn, appVars, PairOrNone
<1>2. /\ account' \in Accounts /\ account' # None
      /\ account = None \/ account' = account
      /\ account'.completed => account'.phrase # None
  <2>1. CASE SignUp
    BY <2>1, NewUser DEF SignUp
  <2>2. CASE SignIn
    <3>1. account' = account /\ account # None
      BY <2>2 DEF SignIn
    <3>. QED BY <1>1, <3>1 DEF AuthInv, AccountInv, CompletedHasPhrase, TypeOK, ServiceTypeOK
  <2>. QED BY <2>1, <2>2
<1>3. /\ shown' \in SecretOrNone
      /\ page' = "phrase" => shown' # None
  <2>1. 1 \in Secrets /\ None \notin Secrets
    BY AuthServiceAssumptions DEF Secrets
  <2>2. CASE SignUp
    BY <1>1, <2>1, <2>2 DEF SignUp, TypeOK, BrowserTypeOK, SecretOrNone
  <2>3. CASE SignIn
    BY <1>1, <2>3 DEF SignIn, TypeOK, BrowserTypeOK
  <2>. QED BY <2>2, <2>3
<1>4. /\ issued + 1 \in Pairs /\ issued + 1 \in 1 .. issued'
      /\ issued' \in 0 .. MaxPairs
      /\ parent' \in [Pairs -> PairOrNone] /\ login' \in [Pairs -> PairOrNone]
      /\ budget' = budget
      /\ PairsInv' /\ Grows
  BY <1>1, <1>2, Issued
<1>5. ServiceTypeOK'
  BY <1>1, <1>2, <1>4 DEF TypeOK, ServiceTypeOK
<1>6. CallsInv'
  BY <1>1, <1>4, BrowserKeepsCalls, PageTurns DEF Quiet
<1>7. front' \in PairOrNone /\ (front' # None => front' \in 1 .. issued')
      /\ (page' # "away" => front' # None)
  <2>1. front \in PairOrNone /\ (front # None => front \in 1 .. issued) /\ issued \in Nat
        /\ issued <= issued' /\ issued' \in Nat
    BY <1>1, <1>4, AuthServiceAssumptions
    DEF AuthInv, AccountInv, TypeOK, BrowserTypeOK, ServiceTypeOK, Grows
  <2>2. issued + 1 # None
    BY <1>4, AuthServiceAssumptions
  <2>. QED BY <1>1, <1>4, <2>1, <2>2 DEF PairOrNone
<1>8. AccountInv'
  BY <1>1, <1>2, <1>3, <1>7 DEF AccountInv, CompletedHasPhrase
<1>9. resets' \in 0 .. MaxResets /\ page' \in {"away", "app", "handoff", "signed", "phrase", "reset"}
  BY <1>1 DEF TypeOK, BrowserTypeOK
<1>. QED BY <1>1, <1>3, <1>4, <1>5, <1>6, <1>7, <1>8, <1>9, FrontConcludes

(* Sending a form about secrets. *)
LEMMA SendsForm ==
    ASSUME AuthInv, NEW q \in Calls, ConfirmPhrase(q) \/ ResetPassword(q) PROVE AuthInv'
<1>. DEFINE kind == IF page = "phrase" THEN "setup" ELSE "reset"
            pair == IF page = "phrase" THEN front ELSE None
            given == IF page = "phrase" THEN 1 ELSE shown
            chosen == IF page = "phrase" THEN shown ELSE resets + 2
            x == Sent(kind, pair, given, chosen, 0)
<1>1. /\ TypeOK /\ CallsInv /\ None \in PairOrNone /\ 0 \in 0 .. MaxGeneration
      /\ 1 \in Secrets /\ None \notin Secrets /\ codes' \subseteq Pairs
  BY AuthServiceAssumptions, AuthSessionsAssumptions
  DEF AuthInv, PairOrNone, Secrets, ConfirmPhrase, ResetPassword, TypeOK, ServiceTypeOK
<1>2. /\ UNCHANGED <<account, tokenVars, codes, front, shown, appVars>>
      /\ UNCHANGED <<session, gate, issued>>
      /\ shown # None /\ shown \in SecretOrNone
      /\ \/ page = "phrase" /\ UNCHANGED <<page, resets>> /\ Waiting("setup") = {}
         \/ page = "away" /\ page' = "reset" /\ resets' = resets + 1 /\ resets < budget.resets
      /\ Starts(q, x)
  BY DEF ConfirmPhrase, ResetPassword, AuthInv, AccountInv, frontVars, tokenVars, appVars, TypeOK,
         BrowserTypeOK
<1>3. page = "away" => resets + 2 \in Secrets /\ resets + 1 \in 0 .. MaxResets
  BY <1>1, <1>2, AuthServiceAssumptions DEF TypeOK, BrowserTypeOK, ServiceTypeOK, Secrets
<1>4. pair \in PairOrNone /\ given \in SecretOrNone /\ chosen \in SecretOrNone /\ chosen # None
  BY <1>1, <1>2, <1>3 DEF TypeOK, BrowserTypeOK, SecretOrNone
<1>5. kind \in {"setup", "reset"} /\ (kind = "setup" <=> page = "phrase")
  OBVIOUS
<1>. HIDE DEF kind, pair, given, chosen
<1>6. /\ x \in Call /\ x.kind = kind /\ x.pair = pair /\ x.chosen = chosen
      /\ x.at = "sent" /\ x.answer = None /\ (x.late => pair \in revoked)
  BY <1>1, <1>4, <1>5, SentFields
<1>. HIDE DEF x
<1>7. /\ calls' \in [Calls -> Call] /\ calls'[q] = x
      /\ \A r \in Calls : r # q => calls'[r] = calls[r]
  BY <1>1, <1>2, <1>6, StartsFields
<1>8. ServiceTypeOK' /\ Grows /\ PairsInv' /\ CompletedHasPhrase'
  BY <1>1, <1>2, <1>7, TablesKept
<1>9. \A o \in Calls \ {q} : calls'[o].heard => calls'[o].kind # x.kind
  BY <1>1, <1>2, <1>5, <1>6, <1>7 DEF CallsInv, OfPage, Waiting
<1>10. account # None
  BY <1>2 DEF AuthInv, AccountInv
<1>11. OfPage(calls[q])'
  BY <1>2, <1>5, <1>6, <1>7 DEF OfPage
<1>12. New(q)
  BY <1>1, <1>4, <1>5, <1>6, <1>7, <1>8, <1>9, <1>10, <1>11, SentIsNew
<1>13. \A r \in Calls \ {q} : Quiet(r)
  <2>1. CASE page = "phrase"
    BY <1>1, <1>2, <1>7, <2>1, PageStays DEF Quiet, tokenVars
  <2>2. CASE page = "away"
    BY <1>1, <1>7, <2>2, PageTurns DEF Quiet
  <2>. QED BY <1>2, <2>1, <2>2
<1>14. CallsInv'
  BY <1>1, <1>8, <1>12, <1>13, BrowserKeepsCalls
<1>15. AccountInv'
  BY <1>2, <1>8 DEF AuthInv, AccountInv
<1>16. /\ front' \in PairOrNone /\ shown' \in SecretOrNone /\ resets' \in 0 .. MaxResets
       /\ page' \in {"away", "app", "handoff", "signed", "phrase", "reset"} /\ page # "app"
  BY <1>1, <1>2, <1>3 DEF TypeOK, BrowserTypeOK
<1>. QED BY <1>2, <1>8, <1>14, <1>15, <1>16, FrontConcludes

(* Its answer. *)
LEMMA FormEnds ==
    ASSUME AuthInv, NEW q \in Calls, SetupEnds(q) \/ ResetEnds(q) PROVE AuthInv'
<1>1. PICK a \in Outcomes : Hears(q, a)
  BY DEF SetupEnds, ResetEnds
<1>2. /\ TypeOK /\ CallsInv /\ codes' \subseteq Pairs
      /\ UNCHANGED <<account, tokenVars, codes, front, resets, appVars>>
      /\ UNCHANGED <<session, gate, issued, account, login>>
  BY DEF AuthInv, TypeOK, ServiceTypeOK, SetupEnds, ResetEnds, tokenVars, appVars
<1>3. /\ calls' \in [Calls -> Call]
      /\ \A r \in Calls : r # q => calls'[r] = calls[r]
      /\ Silenced(q) /\ calls[q].heard
  BY <1>1, <1>2, HearsFields
<1>4. \/ /\ calls[q].kind = "setup" /\ page = "phrase"
         /\ page' \in {"signed", page} /\ shown' = shown
      \/ /\ calls[q].kind = "reset" /\ page = "reset"
         /\ page' = "away" /\ shown' \in {shown, calls[q].chosen} /\ account # None
  BY <1>2, <1>3 DEF SetupEnds, ResetEnds, CallsInv, OfPage, OfAccount
<1>5. ServiceTypeOK' /\ Grows /\ PairsInv' /\ CompletedHasPhrase'
  BY <1>2, <1>3, TablesKept
<1>6. ASSUME NEW r \in Calls, r # q PROVE OfPage(calls[r])'
  <2>1. calls[r].heard => calls[r].kind # calls[q].kind
    BY <1>2, <1>3, <1>4, <1>6 DEF CallsInv, OneForm
  <2>2. OfPage(calls[r]) /\ calls'[r] = calls[r]
    BY <1>2, <1>3, <1>6 DEF CallsInv
  <2>. QED BY <1>4, <2>1, <2>2 DEF OfPage
<1>7. CallsInv'
  <2>1. \A r \in Calls : Quiet(r)
    BY <1>3, <1>6 DEF Quiet
  <2>. QED BY <1>2, <1>5, <2>1, BrowserKeepsCalls
<1>8. AccountInv'
  BY <1>2, <1>4, <1>5 DEF AuthInv, AccountInv
<1>9. /\ front' \in PairOrNone /\ shown' \in SecretOrNone /\ resets' \in 0 .. MaxResets
      /\ page' \in {"away", "app", "handoff", "signed", "phrase", "reset"} /\ page # "app"
  BY <1>2, <1>4 DEF TypeOK, ServiceTypeOK, BrowserTypeOK, Call
<1>. QED BY <1>2, <1>5, <1>7, <1>8, <1>9, FrontConcludes

-----------------------------------------------------------------------------
LEMMA NextAuth == AuthInv /\ [Next]_vars => AuthInv'
<1>. SUFFICES ASSUME AuthInv, [Next]_vars PROVE AuthInv'
  OBVIOUS
<1>1. CASE UNCHANGED vars
  BY <1>1
  DEF vars, serviceVars, frontVars, appVars, AuthInv, TypeOK, ServiceTypeOK, BrowserTypeOK,
      PairsInv, CallsInv, OfTokens, OfAccount, OfPage, OneForm, AccountInv, CompletedHasPhrase,
      AppInv, StorageIsOfTheLastSession
<1>2. CASE Next
  BY <1>2, ServiceKeeps, Settles, LogsOut, LogoutIsOver, HandsOff, HandedOff, SendsForm, FormEnds,
     Requests, Refused401, Leaves, Opens, Visits, SignsUpOrIn
  DEF Next, Callers
<1>. QED BY <1>1, <1>2

LEMMA AlwaysAuth == Spec => []AuthInv
  BY InitAuth, NextAuth, PTL DEF Spec

(* The tables, the calls, the tab and the gate keep their types, for any    *)
(* numbers of calls, pairs, resets and generations.                         *)
THEOREM AuthTypeCorrect == Spec => []TypeOK
<1>1. AuthInv => TypeOK
  BY DEF AuthInv
<1>. QED BY <1>1, AlwaysAuth, PTL

(* However refreshes, logouts, page loads, sign-ins and lost answers        *)
(* interleave, kushim-app keeps tokens of the session it accepted last and  *)
(* none after that session was cleared (sessionGate: generation).           *)
THEOREM LateAnswersAreDropped == Spec => []StorageIsOfTheLastSession
<1>1. AuthInv => StorageIsOfTheLastSession
  BY DEF AuthInv, AppInv
<1>. QED BY <1>1, AlwaysAuth, PTL

(* Wherever AuthService::refresh stops, a pair that has been exchanged is   *)
(* revoked, and a refresh sent with it later gets no tokens.                *)
THEOREM ExchangedIsRevoked == Spec => []RotationIsOneWay
<1>1. AuthInv => RotationIsOneWay
  BY DEF AuthInv, PairsInv, CallsInv, OfTokens, RotationIsOneWay
<1>. QED BY <1>1, AlwaysAuth, PTL

(* Wherever setup_recovery_phrase and reset_password stop, an account whose *)
(* recovery is marked as set up has a phrase.                               *)
THEOREM RecoveryIsPossible == Spec => []CompletedHasPhrase
<1>1. AuthInv => CompletedHasPhrase
  BY DEF AuthInv, AccountInv
<1>. QED BY <1>1, AlwaysAuth, PTL
=============================================================================
