-------------------------- MODULE MarketDataProofs --------------------------
(* What the jobs of kushim-market-data guarantee of quotes, closes and      *)
(* rates: theorems about MarketDataCaches for any processes, assets,        *)
(* currencies, ranges and answers of the providers.                         *)
EXTENDS MarketDataCaches, WellFoundedInduction, TLAPS

-----------------------------------------------------------------------------
(* The inductive invariant. *)

Writing == {"pair", "fetch", "select", "insert"}

(* Of the fields only the jobs of quotes and closes use have a type here.   *)
Shape(x) ==
    x \in [name : {"quotes", "closes", "rates"}, version : {x.version},
           pc : {"idle", "quote", "upsert", "close"} \cup Writing, run : {x.run}, outcome : {x.outcome},
           from : Int, to : Int, date : Int, assets : SUBSET Assets, skipped : SUBSET Assets,
           pairs : {x.pairs}, missing : {x.missing}, todo : {x.todo},
           written : {x.written}, locked : {x.locked}, currencies : {x.currencies},
           lost : {x.lost}, changed : {x.changed},
           hand : {x.hand}, answers : {x.answers}]

(* A process is where the one job it runs can be.                           *)
OwnJob(x) ==
    /\ x.pc \in {"quote", "upsert"} => x.name = "quotes"
    /\ x.pc = "close" => x.name = "closes"
    /\ x.pc \in Writing => x.name = "rates"

ShapesOK ==
    /\ active \subseteq Assets
    /\ quote = [a \in Assets |-> quote[a]]
    /\ closes \in [Assets -> SUBSET Int]
    /\ job = [w \in Processes |-> job[w]]
    /\ \A w \in Processes : Shape(job[w]) /\ OwnJob(job[w])

(* What a run has left behind so far: the assets it has finished have every *)
(* date, the current one those before the current date.                     *)
FilledSoFar(w) ==
    At(w, "close") =>
        /\ \A a \in Selected \ (job[w].assets \cup job[w].skipped) :
              job[w].from .. job[w].to \subseteq closes[a]
        /\ job[w].assets # {} /\ CurrentAsset(w) \in active =>
              job[w].from .. (job[w].date - 1) \subseteq closes[CurrentAsset(w)]

ClosesInv ==
    /\ ShapesOK
    /\ \A w \in Processes : FilledSoFar(w) /\ NoGapInCloses(w)

-----------------------------------------------------------------------------
(* What a step of a job leaves alone. *)
SameRun(y, x) ==
    /\ y.name = x.name /\ y.version = x.version
    /\ y.from = x.from /\ y.to = x.to /\ y.currencies = x.currencies

SameBatch(y, x) ==
    /\ y.missing = x.missing /\ y.todo = x.todo
    /\ y.written = x.written /\ y.locked = x.locked

LEMMA IdleShape ==
    ASSUME NEW x, x.name \in {"quotes", "closes", "rates"}, NEW run, NEW outcome
    PROVE  LET y == Idle(x, run, outcome)
           IN  /\ Shape(y) /\ OwnJob(y)
               /\ y.name = x.name /\ y.pc = "idle" /\ y.outcome = outcome
               /\ y.answers = {}
  BY DEF Idle, Shape, OwnJob, Writing

LEMMA InitCloses == Init => ClosesInv
<1>. SUFFICES ASSUME Init PROVE ClosesInv
  OBVIOUS
<1>1. PICK deployed \in Deployments : job = [w \in Processes |-> Idle(deployed[w], 0, "none")]
  BY DEF Init
<1>2. \A w \in Processes : deployed[w].name \in {"quotes", "closes", "rates"}
  BY MarketDataAssumptions
<1>3. \A w \in Processes : /\ Shape(job[w]) /\ OwnJob(job[w])
                           /\ job[w].pc = "idle" /\ job[w].outcome = "none"
  BY <1>1, <1>2, IdleShape
<1>4. ShapesOK
  BY <1>1, <1>3 DEF Init, ShapesOK
<1>. QED BY <1>3, <1>4 DEF ClosesInv, FilledSoFar, NoGapInCloses, Reported, At

(* What other processes and deletions do to closes leaves the work of a     *)
(* process in place.                                                        *)
Kept == \A a \in active' : a \in active /\ closes[a] \subseteq closes'[a]

LEMMA BystanderKeeps ==
    ASSUME ClosesInv, Kept, NEW v \in Processes, job'[v] = job[v]
    PROVE  /\ Shape(job'[v]) /\ OwnJob(job'[v])
           /\ FilledSoFar(v)' /\ NoGapInCloses(v)'
<1>1. Selected' \subseteq Selected /\ \A a \in Selected' : a \in active'
  BY DEF Kept, Selected
<1>2. Shape(job'[v]) /\ OwnJob(job'[v])
  BY DEF ClosesInv, ShapesOK
<1>3. FilledSoFar(v)'
  BY <1>1 DEF ClosesInv, FilledSoFar, At, CurrentAsset, Kept
<1>4. NoGapInCloses(v)'
  BY <1>1 DEF ClosesInv, NoGapInCloses, Reported, At, Kept
<1>. QED BY <1>2, <1>3, <1>4

(* A step of one process.                                                   *)
LEMMA OneProcess ==
    ASSUME ClosesInv, Kept, NEW w \in Processes, NEW x, Becomes(w, x), Shape(x), OwnJob(x),
           active' = active, quote' = [a \in Assets |-> quote'[a]],
           closes' \in [Assets -> SUBSET Int], FilledSoFar(w)', NoGapInCloses(w)'
    PROVE  ClosesInv'
<1>1. /\ job' = [v \in Processes |-> job'[v]] /\ job'[w] = x
      /\ \A v \in Processes \ {w} : job'[v] = job[v]
  BY DEF Becomes, ClosesInv, ShapesOK
<1>2. ShapesOK'
  BY <1>1, BystanderKeeps DEF ShapesOK, ClosesInv
<1>. QED BY <1>1, <1>2, BystanderKeeps DEF ClosesInv

(* A step of a process that is not a job of closes, or has failed, or only  *)
(* begins: nothing is claimed of it.                                        *)
LEMMA NothingClaimed ==
    ASSUME ClosesInv, NEW w \in Processes, NEW x, Becomes(w, x), Shape(x), OwnJob(x),
           UNCHANGED <<active, closes>>, quote' = [a \in Assets |-> quote'[a]],
           x.name # "closes" \/ (x.pc = "idle" /\ x.outcome \notin {"done", "error"})
    PROVE  ClosesInv'
<1>1. job'[w] = x /\ Kept
  BY DEF Becomes, ClosesInv, ShapesOK, Kept
<1>2. FilledSoFar(w)' /\ NoGapInCloses(w)'
  BY <1>1 DEF FilledSoFar, NoGapInCloses, Reported, At, OwnJob
<1>3. closes' \in [Assets -> SUBSET Int]
  BY DEF ClosesInv, ShapesOK
<1>. QED BY <1>1, <1>2, <1>3, OneProcess

-----------------------------------------------------------------------------
(* The beginnings and the ends. *)

LEMMA BeginAny ==
    ASSUME ClosesInv, NEW w \in Processes,
           BeginQuotes(w) \/ BeginCloses(w) \/ BeginRates(w) \/ Fail(w)
    PROVE  ClosesInv'
<1>1. job[w].name \in {"quotes", "closes", "rates"} /\ active \subseteq Assets
  BY DEF ClosesInv, ShapesOK, Shape
<1>2. Selected \subseteq Assets
  BY <1>1 DEF Selected
<1>3. /\ Shape(Begun(w)) /\ OwnJob(Begun(w))
      /\ Begun(w).name = job[w].name /\ Begun(w).pc = "idle" /\ Begun(w).outcome = "none"
  BY <1>1, IdleShape DEF Begun
<1>4. quote' = quote /\ closes' = closes /\ active' = active
  BY DEF BeginQuotes, BeginCloses, BeginRates, Fail, Begins, CachesUnchanged
<1>5. quote' = [a \in Assets |-> quote'[a]]
  BY <1>4 DEF ClosesInv, ShapesOK
<1>6. CASE BeginQuotes(w)
  <2>. DEFINE x == [Begun(w) EXCEPT !.pc = "quote", !.assets = Selected]
  <2>1. Becomes(w, x) /\ job[w].name = "quotes"
    BY <1>6 DEF BeginQuotes, Begins
  <2>2. Shape(x) /\ OwnJob(x) /\ x.name = "quotes"
    BY <1>2, <1>3, <2>1 DEF Shape, OwnJob, Writing
  <2>. HIDE DEF x
  <2>. QED BY <1>4, <1>5, <2>1, <2>2, NothingClaimed
<1>7. CASE BeginCloses(w)
  <2>1. PICK r \in Ranges :
            Becomes(w, [Begun(w) EXCEPT !.pc = "close", !.assets = Selected,
                                        !.from = r[1], !.to = r[2], !.date = r[1]])
    BY <1>7 DEF BeginCloses
  <2>. DEFINE x == [Begun(w) EXCEPT !.pc = "close", !.assets = Selected,
                                    !.from = r[1], !.to = r[2], !.date = r[1]]
  <2>2. r[1] \in Int /\ r[2] \in Int /\ job[w].name = "closes"
    BY <1>7, MarketDataAssumptions DEF BeginCloses, Begins
  <2>3. /\ Shape(x) /\ OwnJob(x) /\ x.pc = "close" /\ x.assets = Selected
        /\ x.from = r[1] /\ x.date = r[1]
    BY <1>2, <1>3, <2>2 DEF Shape, OwnJob, Writing
  <2>. HIDE DEF x
  <2>4. Becomes(w, x) /\ job'[w] = x
    BY <2>1 DEF Becomes, ClosesInv, ShapesOK, x
  <2>5. r[1] .. (r[1] - 1) = {}
    BY <2>2
  <2>6. FilledSoFar(w)'
    BY <1>4, <2>3, <2>4, <2>5 DEF FilledSoFar, Selected
  <2>7. NoGapInCloses(w)'
    BY <2>3, <2>4 DEF NoGapInCloses, Reported, At
  <2>8. Kept /\ closes' \in [Assets -> SUBSET Int]
    BY <1>4 DEF Kept, ClosesInv, ShapesOK
  <2>. QED BY <1>4, <1>5, <2>3, <2>4, <2>6, <2>7, <2>8, OneProcess
<1>8. CASE BeginRates(w)
  <2>1. PICK r \in Ranges, currencies \in CurrencySets :
            Becomes(w, [Begun(w) EXCEPT !.pc = "pair", !.from = r[1], !.to = r[2],
                                        !.currencies = currencies,
                                        !.pairs = PairsOf(currencies)])
    BY <1>8 DEF BeginRates
  <2>2. PICK pairs : pairs = PairsOf(currencies)
    OBVIOUS
  <2>. DEFINE x == [Begun(w) EXCEPT !.pc = "pair", !.from = r[1], !.to = r[2],
                                    !.currencies = currencies, !.pairs = pairs]
  <2>3. r[1] \in Int /\ r[2] \in Int /\ job[w].name = "rates"
    BY <1>8, MarketDataAssumptions DEF BeginRates, Begins
  <2>4. Becomes(w, x)
    BY <2>1, <2>2
  <2>5. Shape(x) /\ OwnJob(x) /\ x.name = "rates"
    BY <1>3, <2>3 DEF Shape, OwnJob, Writing
  <2>. HIDE DEF x
  <2>. QED BY <1>4, <1>5, <2>4, <2>5, NothingClaimed
<1>9. CASE Fail(w)
  <2>. DEFINE x == Idle(job[w], job[w].run, "failed")
  <2>1. Becomes(w, x)
    BY <1>9 DEF Fail
  <2>2. Shape(x) /\ OwnJob(x) /\ x.pc = "idle" /\ x.outcome = "failed"
    BY <1>1, IdleShape
  <2>. HIDE DEF x
  <2>. QED BY <1>4, <1>5, <2>1, <2>2, NothingClaimed
<1>. QED BY <1>6, <1>7, <1>8, <1>9

LEMMA EndsShape ==
    ASSUME NEW w, Shape(job[w]), NEW outcome
    PROVE  LET y == Ends(w, outcome)
           IN  /\ Shape(y) /\ OwnJob(y) /\ SameRun(y, job[w])
               /\ y.pc = "idle" /\ y.outcome = outcome /\ y.skipped = job[w].skipped
               /\ SameBatch(y, job[w]) /\ y.pairs = job[w].pairs /\ y.lost = job[w].lost
               /\ y.answers = job[w].answers
<1>1. PICK x, no, zero : x = job[w] /\ no = {} /\ zero = 0
  OBVIOUS
<1>2. PICK y : y = [x EXCEPT !.pc = "idle", !.outcome = outcome, !.date = zero, !.assets = no]
  OBVIOUS
<1>3. Shape(x) /\ no \in SUBSET Assets /\ zero \in Int
  BY <1>1
<1>4. Shape(y) /\ y.pc = "idle" /\ y.outcome = outcome /\ y.skipped = x.skipped
  BY <1>2, <1>3 DEF Shape
<1>5. /\ SameRun(y, x) /\ SameBatch(y, x) /\ y.pairs = x.pairs /\ y.lost = x.lost
      /\ y.answers = x.answers
  BY <1>2, <1>3 DEF Shape, SameRun, SameBatch
<1>6. OwnJob(y)
  BY <1>4 DEF OwnJob, Writing
<1>7. Ends(w, outcome) = y
  BY <1>1, <1>2 DEF Ends
<1>. QED BY <1>1, <1>4, <1>5, <1>6, <1>7

LEMMA EndAssetsCloses ==
    ASSUME ClosesInv, NEW w \in Processes, EndAssets(w) PROVE ClosesInv'
<1>1. /\ Shape(job[w]) /\ OwnJob(job[w]) /\ FilledSoFar(w)
      /\ quote' = [a \in Assets |-> quote'[a]] /\ closes' \in [Assets -> SUBSET Int]
      /\ UNCHANGED <<active, closes>> /\ Kept
  BY DEF ClosesInv, ShapesOK, EndAssets, CachesUnchanged, Kept
<1>. DEFINE x == Ends(w, "done")
<1>2. /\ Shape(x) /\ OwnJob(x) /\ x.pc = "idle" /\ x.name = job[w].name
      /\ x.from = job[w].from /\ x.to = job[w].to /\ x.skipped = job[w].skipped
  BY <1>1, EndsShape DEF SameRun
<1>. HIDE DEF x
<1>3. Becomes(w, x) /\ job'[w] = x
  BY DEF EndAssets, Becomes, ClosesInv, ShapesOK, x
<1>4. FilledSoFar(w)'
  BY <1>2, <1>3 DEF FilledSoFar, At
<1>5. NoGapInCloses(w)'
  <2>. SUFFICES ASSUME x.name = "closes", NEW a \in Selected \ x.skipped
       PROVE  x.from .. x.to \subseteq closes[a]
    BY <1>1, <1>3 DEF NoGapInCloses, Reported, Selected
  <2>1. At(w, "close") /\ job[w].assets = {}
    BY <1>1, <1>2 DEF EndAssets, OwnJob, At
  <2>. QED BY <1>1, <1>2, <2>1 DEF FilledSoFar
<1>. QED BY <1>1, <1>2, <1>3, <1>4, <1>5, OneProcess

-----------------------------------------------------------------------------
(* The closes. *)

LEMMA LeaveShape ==
    ASSUME NEW w, Shape(job[w]), NEW a \in job[w].assets
    PROVE  LET x == LeaveAsset(w, a)
           IN  /\ Shape(x) /\ x.pc = job[w].pc /\ x.name = job[w].name
               /\ x.from = job[w].from /\ x.to = job[w].to /\ x.date = job[w].from
               /\ x.assets = job[w].assets \ {a} /\ x.skipped = job[w].skipped \cup {a}
<1>1. PICK y, date, assets, skipped :
          /\ y = job[w] /\ date = y.from
          /\ assets = y.assets \ {a} /\ skipped = y.skipped \cup {a}
  OBVIOUS
<1>2. PICK x : x = [y EXCEPT !.date = date, !.assets = assets, !.skipped = skipped]
  OBVIOUS
<1>3. LeaveAsset(w, a) = x
  BY <1>1, <1>2 DEF LeaveAsset
<1>4. Shape(y) /\ date \in Int /\ assets \in SUBSET Assets /\ skipped \in SUBSET Assets
  BY <1>1 DEF Shape
<1>5. /\ Shape(x) /\ x.pc = y.pc /\ x.name = y.name /\ x.from = y.from /\ x.to = y.to
      /\ x.date = date /\ x.assets = assets /\ x.skipped = skipped
  BY <1>2, <1>4 DEF Shape
<1>. QED BY <1>1, <1>3, <1>5

LEMMA NextCloseShape ==
    ASSUME NEW w, Shape(job[w]), NEW a \in job[w].assets
    PROVE  LET x == NextClose(w, a)
           IN  /\ Shape(x) /\ x.pc = job[w].pc /\ x.name = job[w].name
               /\ x.from = job[w].from /\ x.to = job[w].to /\ x.skipped = job[w].skipped
               /\ job[w].date < job[w].to =>
                     x.date = job[w].date + 1 /\ x.assets = job[w].assets
               /\ ~(job[w].date < job[w].to) =>
                     x.date = job[w].from /\ x.assets = job[w].assets \ {a}
<1>1. PICK y, next, left :
          y = job[w] /\ next = y.date + 1 /\ left = y.assets \ {a}
  OBVIOUS
<1>2. Shape(y) /\ next \in Int /\ left \in SUBSET Assets /\ y.from \in Int
  BY <1>1 DEF Shape
<1>3. CASE y.date < y.to
  <2>1. PICK x : x = [y EXCEPT !.date = next]
    OBVIOUS
  <2>2. NextClose(w, a) = x
    BY <1>1, <1>3, <2>1 DEF NextClose
  <2>3. /\ Shape(x) /\ x.pc = y.pc /\ x.name = y.name /\ x.from = y.from /\ x.to = y.to
        /\ x.skipped = y.skipped /\ x.date = next /\ x.assets = y.assets
    BY <1>2, <2>1 DEF Shape
  <2>. QED BY <1>1, <1>3, <2>2, <2>3
<1>4. CASE ~(y.date < y.to)
  <2>1. PICK x : x = [y EXCEPT !.date = y.from, !.assets = left]
    OBVIOUS
  <2>2. NextClose(w, a) = x
    BY <1>1, <1>4, <2>1 DEF NextClose
  <2>3. /\ Shape(x) /\ x.pc = y.pc /\ x.name = y.name /\ x.from = y.from /\ x.to = y.to
        /\ x.skipped = y.skipped /\ x.date = y.from /\ x.assets = left
    BY <1>2, <2>1 DEF Shape
  <2>. QED BY <1>1, <1>4, <2>2, <2>3
<1>. QED BY <1>3, <1>4

(* The asset is left: it is among the skipped ones.                         *)
LEMMA LeaveCloses ==
    ASSUME ClosesInv, NEW w \in Processes, At(w, "close"), job[w].assets # {},
           Becomes(w, LeaveAsset(w, CurrentAsset(w))), CachesUnchanged
    PROVE  ClosesInv'
<1>. DEFINE a == CurrentAsset(w)
            x == LeaveAsset(w, a)
<1>1. /\ Shape(job[w]) /\ OwnJob(job[w]) /\ FilledSoFar(w)
      /\ quote' = [b \in Assets |-> quote'[b]] /\ closes' \in [Assets -> SUBSET Int]
      /\ UNCHANGED <<active, closes>> /\ Kept /\ Selected' = Selected
  BY DEF ClosesInv, ShapesOK, CachesUnchanged, Kept, Selected
<1>2. a \in job[w].assets
  BY DEF CurrentAsset
<1>. HIDE DEF a
<1>3. /\ Shape(x) /\ x.pc = "close" /\ x.name = job[w].name
      /\ x.from = job[w].from /\ x.to = job[w].to /\ x.date = job[w].from
      /\ x.assets = job[w].assets \ {a} /\ x.skipped = job[w].skipped \cup {a}
  BY <1>1, <1>2, LeaveShape DEF At
<1>4. Becomes(w, x)
  BY DEF a
<1>. HIDE DEF x
<1>5. job'[w] = x /\ OwnJob(x)
  BY <1>1, <1>3, <1>4 DEF Becomes, ClosesInv, ShapesOK, OwnJob, At, Writing
<1>6. x.from .. (x.date - 1) = {}
  BY <1>3 DEF Shape
<1>7. FilledSoFar(w)'
  <2>1. \A b \in Selected \ (x.assets \cup x.skipped) : x.from .. x.to \subseteq closes[b]
    BY <1>1, <1>2, <1>3 DEF FilledSoFar
  <2>. QED BY <1>1, <1>5, <1>6, <2>1 DEF FilledSoFar
<1>8. NoGapInCloses(w)'
  BY <1>3, <1>5 DEF NoGapInCloses, Reported, At
<1>. QED BY <1>1, <1>3, <1>4, <1>5, <1>7, <1>8, OneProcess

(* The close of the current date is there, whoever wrote it.                *)
LEMMA FillCloses ==
    ASSUME ClosesInv, NEW w \in Processes, FillClose(w)
    PROVE  ClosesInv'
<1>. DEFINE a == CurrentAsset(w)
            x == NextClose(w, a)
<1>1. /\ Shape(job[w]) /\ OwnJob(job[w]) /\ FilledSoFar(w)
      /\ active \subseteq Assets /\ closes \in [Assets -> SUBSET Int]
  BY DEF ClosesInv, ShapesOK
<1>2. /\ At(w, "close") /\ job[w].assets # {}
      /\ UNCHANGED <<active, quote, rates>> /\ Selected' = Selected
  BY DEF FillClose, Selected
<1>3. CASE ~(job[w].date \in KnownOn[a] /\ a \in active)
  BY <1>2, <1>3, LeaveCloses DEF FillClose, CachesUnchanged
<1>4. CASE job[w].date \in KnownOn[a] /\ a \in active
  <2>1. Becomes(w, x) /\ closes' = [closes EXCEPT ![a] = @ \cup {job[w].date}]
    BY <1>4 DEF FillClose
  <2>2. a \in job[w].assets /\ a \in Assets
    BY <1>1, <1>2, <1>4 DEF CurrentAsset
  <2>3. /\ job[w].from \in Int /\ job[w].to \in Int /\ job[w].date \in Int
    BY <1>1 DEF Shape
  <2>4. /\ job[w].from .. (job[w].date - 1) \subseteq closes[a]
        /\ \A b \in Selected \ (job[w].assets \cup job[w].skipped) :
              job[w].from .. job[w].to \subseteq closes[b]
    BY <1>1, <1>2, <1>4 DEF FilledSoFar
  <2>5. /\ Shape(x) /\ x.pc = "close" /\ x.name = job[w].name
        /\ x.from = job[w].from /\ x.to = job[w].to /\ x.skipped = job[w].skipped
        /\ job[w].date < job[w].to => x.date = job[w].date + 1 /\ x.assets = job[w].assets
        /\ ~(job[w].date < job[w].to) => /\ x.date = job[w].from
                                         /\ x.assets = job[w].assets \ {a}
    <3>. HIDE DEF a
    <3>. QED BY <1>1, <1>2, <2>2, NextCloseShape DEF At
  <2>6. a = CurrentAsset(w) /\ (x.assets = job[w].assets => a = CHOOSE b \in x.assets : TRUE)
    BY DEF CurrentAsset
  <2>. HIDE DEF a, x
  <2>7. job'[w] = x /\ OwnJob(x)
    BY <1>1, <1>2, <2>1, <2>5 DEF Becomes, ClosesInv, ShapesOK, OwnJob, At, Writing
  <2>8. /\ closes' \in [Assets -> SUBSET Int]
        /\ \A b \in Assets : closes[b] \subseteq closes'[b]
        /\ job[w].from .. job[w].date \subseteq closes'[a]
    BY <1>1, <2>1, <2>2, <2>3, <2>4
  <2>9. Kept
    BY <1>1, <1>2, <2>8 DEF Kept
  <2>10. Selected \subseteq Assets
    BY <1>1 DEF Selected
  <2>11. CASE job[w].date < job[w].to
    <3>1. \A b \in Selected \ (x.assets \cup x.skipped) : x.from .. x.to \subseteq closes'[b]
      BY <2>4, <2>5, <2>8, <2>10, <2>11
    <3>2. x.from .. (x.date - 1) \subseteq closes'[CHOOSE b \in x.assets : TRUE]
      <4>1. a = (CHOOSE b \in x.assets : TRUE)
        BY <2>5, <2>6, <2>11
      <4>2. x.from .. (x.date - 1) \subseteq closes'[a]
        BY <2>3, <2>5, <2>8, <2>11
      <4>. QED BY <4>1, <4>2
    <3>3. FilledSoFar(w)'
      BY <1>2, <2>7, <3>1, <3>2 DEF FilledSoFar, CurrentAsset
    <3>4. NoGapInCloses(w)'
      BY <2>5, <2>7 DEF NoGapInCloses, Reported, At
    <3>. QED BY <1>1, <1>2, <2>1, <2>5, <2>7, <2>8, <2>9, <3>3, <3>4, OneProcess
         DEF ClosesInv, ShapesOK
  <2>12. CASE ~(job[w].date < job[w].to)
    <3>1. x.from .. x.to \subseteq closes'[a]
      BY <2>3, <2>5, <2>8, <2>12
    <3>2. \A b \in Selected \ (x.assets \cup x.skipped) : x.from .. x.to \subseteq closes'[b]
      BY <2>4, <2>5, <2>8, <2>10, <2>12, <3>1
    <3>3. x.from .. (x.date - 1) = {}
      BY <2>3, <2>5, <2>12
    <3>4. FilledSoFar(w)'
      BY <1>2, <2>7, <3>2, <3>3 DEF FilledSoFar
    <3>5. NoGapInCloses(w)'
      BY <2>5, <2>7 DEF NoGapInCloses, Reported, At
    <3>. QED BY <1>1, <1>2, <2>1, <2>5, <2>7, <2>8, <2>9, <3>4, <3>5, OneProcess
         DEF ClosesInv, ShapesOK
  <2>. QED BY <2>11, <2>12
<1>. QED BY <1>3, <1>4

-----------------------------------------------------------------------------
(* The rates: their steps leave quotes and closes alone. *)

AtRates(x) == Shape(x) /\ x.name = "rates" /\ x.pc \in Writing

LEMMA RatesStep ==
    ASSUME ClosesInv, NEW w \in Processes, NEW x, Becomes(w, x), AtRates(x),
           UNCHANGED <<active, quote, closes>>
    PROVE  ClosesInv'
<1>1. Shape(x) /\ OwnJob(x) /\ x.name # "closes"
  BY DEF AtRates, OwnJob, Writing
<1>2. quote' = [a \in Assets |-> quote'[a]]
  BY DEF ClosesInv, ShapesOK
<1>. QED BY <1>1, <1>2, NothingClaimed

(* What the operators that build the next state of a job change. *)
LEMMA NextPairFields ==
    ASSUME NEW w, AtRates(job[w])
    PROVE  LET y == NextPair(w)
           IN  /\ AtRates(y) /\ y.pc = "pair" /\ SameRun(y, job[w]) /\ y.lost = job[w].lost
               /\ y.pairs = job[w].pairs \ {CurrentPair(w)}
               /\ y.missing = {} /\ y.todo = {} /\ y.written = {} /\ y.locked = {}
<1>1. PICK x, left, none : x = job[w] /\ left = x.pairs \ {CurrentPair(w)} /\ none = {}
  OBVIOUS
<1>2. PICK u : u = [x EXCEPT !.pc = "pair", !.pairs = left, !.missing = none]
  OBVIOUS
<1>3. PICK y : y = [u EXCEPT !.todo = none, !.written = none, !.locked = none]
  OBVIOUS
<1>4. AtRates(x)
  BY <1>1
<1>5. /\ AtRates(u) /\ u.pc = "pair" /\ SameRun(u, x) /\ u.lost = x.lost
      /\ u.pairs = left /\ u.missing = none
  BY <1>2, <1>4 DEF AtRates, Shape, Writing, SameRun
<1>6. /\ AtRates(y) /\ y.pc = "pair" /\ SameRun(y, u) /\ y.lost = u.lost
      /\ y.pairs = left /\ y.missing = none
      /\ y.todo = none /\ y.written = none /\ y.locked = none
  BY <1>3, <1>5 DEF AtRates, Shape, Writing, SameRun
<1>7. NextPair(w) = y
  BY <1>1, <1>2, <1>3, <1>4 DEF NextPair, AtRates, Shape
<1>8. SameRun(y, x)
  BY <1>5, <1>6 DEF SameRun
<1>. QED BY <1>1, <1>5, <1>6, <1>7, <1>8

LEMMA PairFailedFields ==
    ASSUME NEW w, AtRates(job[w])
    PROVE  LET y == PairFailed(w)
           IN  /\ AtRates(y) /\ y.pc = "pair" /\ SameRun(y, job[w])
               /\ y.lost = job[w].lost \cup {CurrentPair(w)}
               /\ y.pairs = job[w].pairs \ {CurrentPair(w)}
               /\ y.missing = {} /\ y.todo = {} /\ y.written = {} /\ y.locked = {}
<1>1. PICK x, lost : x = NextPair(w) /\ lost = job[w].lost \cup {CurrentPair(w)}
  OBVIOUS
<1>2. PICK y : y = [x EXCEPT !.lost = lost]
  OBVIOUS
<1>3. /\ AtRates(x) /\ x.pc = "pair" /\ SameRun(x, job[w]) /\ x.lost = job[w].lost
      /\ x.pairs = job[w].pairs \ {CurrentPair(w)}
      /\ x.missing = {} /\ x.todo = {} /\ x.written = {} /\ x.locked = {}
  BY <1>1, NextPairFields
<1>4. AtRates(y) /\ y.pc = "pair" /\ SameRun(y, x) /\ y.lost = lost /\ y.pairs = x.pairs
  BY <1>2, <1>3 DEF AtRates, Shape, Writing, SameRun
<1>5. SameBatch(y, x)
  BY <1>2, <1>3 DEF AtRates, Shape, SameBatch
<1>6. PairFailed(w) = y
  BY <1>1, <1>2, <1>3 DEF PairFailed
<1>7. SameRun(y, job[w])
  BY <1>3, <1>4 DEF SameRun
<1>. QED BY <1>1, <1>3, <1>4, <1>5, <1>6, <1>7 DEF SameBatch

LEMMA PassedFields ==
    ASSUME NEW w, AtRates(job[w])
    PROVE  LET y == Passed(w)
           IN  /\ AtRates(y) /\ y.pc = "select" /\ SameRun(y, job[w])
               /\ y.lost = job[w].lost /\ y.pairs = job[w].pairs
               /\ y.todo = job[w].todo \ {NextDate(w)}
               /\ y.written = job[w].written /\ y.locked = job[w].locked
<1>1. PICK x, todo, missing : /\ x = job[w] /\ todo = x.todo \ {NextDate(w)}
                              /\ missing = x.missing \ {NextDate(w)}
  OBVIOUS
<1>2. PICK y : y = [x EXCEPT !.pc = "select", !.todo = todo, !.missing = missing]
  OBVIOUS
<1>3. AtRates(x)
  BY <1>1
<1>4. /\ AtRates(y) /\ y.pc = "select" /\ SameRun(y, x) /\ y.lost = x.lost
      /\ y.pairs = x.pairs /\ y.todo = todo /\ y.written = x.written /\ y.locked = x.locked
  BY <1>2, <1>3 DEF AtRates, Shape, Writing, SameRun
<1>5. Passed(w) = y
  BY <1>1, <1>2 DEF Passed
<1>. QED BY <1>1, <1>4, <1>5

LEMMA WrittenFields ==
    ASSUME NEW w, AtRates(job[w])
    PROVE  LET y == Written(w)
           IN  /\ AtRates(y) /\ y.pc = "select" /\ SameRun(y, job[w])
               /\ y.lost = job[w].lost /\ y.pairs = job[w].pairs
               /\ y.todo = job[w].todo \ {NextDate(w)}
               /\ y.written = job[w].written \cup {NextDate(w)} /\ y.locked = job[w].locked
<1>1. PICK x, written : x = Passed(w) /\ written = job[w].written \cup {NextDate(w)}
  OBVIOUS
<1>2. PICK y : y = [x EXCEPT !.written = written]
  OBVIOUS
<1>3. /\ AtRates(x) /\ x.pc = "select" /\ SameRun(x, job[w])
      /\ x.lost = job[w].lost /\ x.pairs = job[w].pairs
      /\ x.todo = job[w].todo \ {NextDate(w)}
      /\ x.written = job[w].written /\ x.locked = job[w].locked
  BY <1>1, PassedFields
<1>4. /\ AtRates(y) /\ y.pc = "select" /\ SameRun(y, x) /\ y.lost = x.lost
      /\ y.pairs = x.pairs /\ y.todo = x.todo /\ y.written = written /\ y.locked = x.locked
  BY <1>2, <1>3 DEF AtRates, Shape, Writing, SameRun
<1>5. Written(w) = y
  BY <1>1, <1>2, <1>3 DEF Written
<1>6. SameRun(y, job[w])
  BY <1>3, <1>4 DEF SameRun
<1>. QED BY <1>1, <1>3, <1>4, <1>5, <1>6

LEMMA LockedFields ==
    ASSUME NEW x, AtRates(x), NEW d
    PROVE  LET y == [x EXCEPT !.locked = @ \cup {d}]
           IN  /\ AtRates(y) /\ y.pc = x.pc /\ SameRun(y, x)
               /\ y.lost = x.lost /\ y.pairs = x.pairs /\ y.todo = x.todo
               /\ y.written = x.written /\ y.locked = x.locked \cup {d}
<1>1. PICK locked : locked = x.locked \cup {d}
  OBVIOUS
<1>2. PICK y : y = [x EXCEPT !.locked = locked]
  OBVIOUS
<1>3. /\ AtRates(y) /\ y.pc = x.pc /\ SameRun(y, x)
      /\ y.lost = x.lost /\ y.pairs = x.pairs /\ y.todo = x.todo
      /\ y.written = x.written /\ y.locked = locked
  BY <1>2 DEF AtRates, Shape, Writing, SameRun
<1>4. y = [x EXCEPT !.locked = @ \cup {d}]
  BY <1>1, <1>2
<1>. QED BY <1>1, <1>3, <1>4

(* The fields of a record that the other steps of the rates change.         *)
LEMMA RatesFields ==
    ASSUME NEW x, AtRates(x), NEW pc \in Writing, NEW a, NEW b
    PROVE  /\ AtRates([x EXCEPT !.pc = pc])
           /\ AtRates([x EXCEPT !.pc = pc, !.missing = a])
           /\ AtRates([x EXCEPT !.pc = pc, !.missing = a, !.todo = b])
           /\ AtRates([x EXCEPT !.changed = a])
  BY DEF AtRates, Shape, Writing

LEMMA RatesMove ==
    ASSUME ClosesInv, NEW w \in Processes,
           \/ SkipPair(w) \/ FindMissing(w) \/ FetchRates(w) \/ FetchFails(w)
           \/ SelectRate(w) \/ InsertRate(w) \/ CommitBatch(w) \/ BreakDeadlock(w)
    PROVE  \E x : Becomes(w, x) /\ AtRates(x)
<1>1. AtRates(job[w])
  BY DEF ClosesInv, ShapesOK, AtRates, OwnJob, Writing, At, Busy,
         SkipPair, FindMissing, FetchRates, FetchFails, SelectRate, InsertRate,
         CommitBatch, BreakDeadlock
<1>3. AtRates(NextPair(w)) /\ AtRates(PairFailed(w)) /\ AtRates(Written(w))
  BY <1>1, NextPairFields, PairFailedFields, WrittenFields
<1>4. CASE SkipPair(w) \/ FetchFails(w) \/ BreakDeadlock(w)
  BY <1>3, <1>4 DEF SkipPair, FetchFails, BreakDeadlock
<1>5. CASE FindMissing(w)
  <2>1. PICK missing :
            missing = MissingDates(CurrentPair(w), job[w].from, job[w].to)
    OBVIOUS
  <2>2. AtRates([job[w] EXCEPT !.pc = "fetch", !.missing = missing])
    BY <1>1, RatesFields DEF Writing
  <2>. QED BY <1>5, <2>1, <2>2 DEF FindMissing
<1>6. CASE FetchRates(w)
  <2>1. PICK todo, missing :
            /\ todo = BatchDates(CurrentPair(w), job[w].from, job[w].to, job[w].missing)
            /\ missing = job[w].missing \cap todo
    OBVIOUS
  <2>2. AtRates([job[w] EXCEPT !.pc = "select", !.missing = missing, !.todo = todo])
    BY <1>1, RatesFields DEF Writing
  <2>. QED BY <1>3, <1>6, <2>1, <2>2 DEF FetchRates
<1>7. CASE SelectRate(w)
  <2>1. AtRates([job[w] EXCEPT !.pc = "insert"])
    BY <1>1, RatesFields DEF Writing
  <2>2. PICK x : AtRates(x) /\ x = IF Stored(w) = Incoming(w) THEN Passed(w) ELSE Written(w)
    BY <1>1, <1>3, PassedFields
  <2>3. AtRates([x EXCEPT !.locked = @ \cup {NextDate(w)}])
    BY <2>2, LockedFields
  <2>. QED BY <1>7, <2>1, <2>2, <2>3 DEF SelectRate
<1>8. CASE InsertRate(w)
  BY <1>3, <1>8 DEF InsertRate
<1>9. CASE CommitBatch(w)
  <2>1. PICK y, changed : /\ y = NextPair(w)
                          /\ changed = (NextPair(w).changed \/ job[w].written # {})
    OBVIOUS
  <2>2. AtRates([y EXCEPT !.changed = changed])
    BY <1>3, <2>1, RatesFields DEF Writing
  <2>. QED BY <1>9, <2>1, <2>2 DEF CommitBatch
<1>. QED BY <1>4, <1>5, <1>6, <1>7, <1>8, <1>9

LEMMA RatesCloses ==
    ASSUME ClosesInv, NEW w \in Processes,
           \/ SkipPair(w) \/ FindMissing(w) \/ FetchRates(w) \/ FetchFails(w)
           \/ SelectRate(w) \/ InsertRate(w) \/ CommitBatch(w) \/ BreakDeadlock(w)
    PROVE  ClosesInv'
<1>1. UNCHANGED <<active, quote, closes>>
  BY DEF CachesUnchanged, SkipPair, FindMissing, FetchRates, FetchFails, SelectRate,
         InsertRate, CommitBatch, BreakDeadlock
<1>. QED BY <1>1, RatesMove, RatesStep

LEMMA EndRatesCloses ==
    ASSUME ClosesInv, NEW w \in Processes, EndRates(w)
    PROVE  ClosesInv'
<1>1. PICK outcome : Becomes(w, Ends(w, outcome))
  BY DEF EndRates
<1>2. Shape(job[w]) /\ OwnJob(job[w]) /\ job[w].name = "rates"
  BY DEF ClosesInv, ShapesOK, EndRates, At, OwnJob, Writing
<1>3. /\ Shape(Ends(w, outcome)) /\ OwnJob(Ends(w, outcome))
      /\ Ends(w, outcome).name = "rates"
  BY <1>2, EndsShape DEF SameRun
<1>4. UNCHANGED <<active, quote, closes>> /\ quote' = [a \in Assets |-> quote'[a]]
  BY DEF EndRates, CachesUnchanged, ClosesInv, ShapesOK
<1>. QED BY <1>1, <1>3, <1>4, NothingClaimed

-----------------------------------------------------------------------------
(* Quotes and deletions. *)

(* What a job of quotes changes of its record.                              *)
Aside(x, y) ==
    SameRun(x, y) /\ SameBatch(x, y) /\ x.pairs = y.pairs /\ x.lost = y.lost

LEMMA QuotePc ==
    ASSUME NEW y, Shape(y), NEW pc \in {"quote", "upsert"}, NEW x, x = [y EXCEPT !.pc = pc]
    PROVE  Shape(x) /\ Aside(x, y) /\ x.pc = pc /\ x.hand = y.hand /\ x.answers = y.answers
  BY DEF Shape, Aside, SameRun, SameBatch

LEMMA QuoteAssets ==
    ASSUME NEW y, Shape(y), NEW left \in SUBSET Assets, NEW x, x = [y EXCEPT !.assets = left]
    PROVE  Shape(x) /\ Aside(x, y) /\ x.pc = y.pc /\ x.hand = y.hand /\ x.answers = y.answers
  BY DEF Shape, Aside, SameRun, SameBatch

LEMMA QuoteHand ==
    ASSUME NEW y, Shape(y), NEW hand, NEW x, x = [y EXCEPT !.hand = hand]
    PROVE  Shape(x) /\ Aside(x, y) /\ x.pc = y.pc /\ x.hand = hand /\ x.answers = y.answers
  BY DEF Shape, Aside, SameRun, SameBatch

LEMMA QuoteAnswers ==
    ASSUME NEW y, Shape(y), NEW answers, NEW x, x = [y EXCEPT !.answers = answers]
    PROVE  Shape(x) /\ Aside(x, y) /\ x.pc = y.pc /\ x.hand = y.hand /\ x.answers = answers
  BY DEF Shape, Aside, SameRun, SameBatch

(* Asking: no answer, or one that is in hand now.                           *)
Answered(x, y) ==
    /\ x.pc = "upsert"
    /\ \E a \in Assets, q \in Quotes :
          x.hand = [asset |-> a, quote |-> q] /\ x.answers = y.answers \cup {x.hand}

LEMMA AskFields ==
    ASSUME ClosesInv, NEW w \in Processes, AskQuote(w)
    PROVE  \E x : /\ Becomes(w, x) /\ Shape(x) /\ OwnJob(x) /\ Aside(x, job[w])
                  /\ \/ x.pc = "quote" /\ x.answers = job[w].answers
                     \/ Answered(x, job[w])
<1>1. PICK y : y = job[w] /\ Shape(y) /\ y.pc = "quote" /\ y.name = "quotes"
  BY DEF ClosesInv, ShapesOK, AskQuote, At, OwnJob
<1>2. PICK a \in y.assets :
          \/ Becomes(w, [y EXCEPT !.assets = @ \ {a}])
          \/ \E q \in Quotes :
                LET answer == [asset |-> a, quote |-> q]
                IN Becomes(w, [y EXCEPT !.pc = "upsert", !.assets = @ \ {a},
                                        !.hand = answer, !.answers = @ \cup {answer}])
  BY <1>1 DEF AskQuote
<1>3. PICK u, left : u = [y EXCEPT !.assets = left] /\ left = y.assets \ {a}
  OBVIOUS
<1>4. a \in Assets /\ left \in SUBSET Assets
  BY <1>1, <1>2, <1>3 DEF Shape
<1>5. /\ Shape(u) /\ Aside(u, y) /\ u.pc = "quote" /\ u.answers = y.answers
      /\ u.name = "quotes"
  BY <1>1, <1>3, <1>4, QuoteAssets DEF Aside, SameRun
<1>6. CASE Becomes(w, [y EXCEPT !.assets = @ \ {a}])
  BY <1>1, <1>3, <1>5, <1>6 DEF OwnJob, Writing
<1>7. ASSUME NEW q \in Quotes,
             LET answer == [asset |-> a, quote |-> q]
             IN Becomes(w, [y EXCEPT !.pc = "upsert", !.assets = @ \ {a},
                                     !.hand = answer, !.answers = @ \cup {answer}])
      PROVE  \E x : /\ Becomes(w, x) /\ Shape(x) /\ OwnJob(x) /\ Aside(x, y)
                    /\ Answered(x, y)
  <2>1. PICK hand, answers : /\ hand = [asset |-> a, quote |-> q]
                             /\ answers = y.answers \cup {hand}
    OBVIOUS
  <2>2. PICK v : v = [u EXCEPT !.pc = "upsert"]
    OBVIOUS
  <2>3. Shape(v) /\ Aside(v, u) /\ v.pc = "upsert" /\ v.answers = u.answers
    BY <1>5, <2>2, QuotePc
  <2>4. PICK z : z = [v EXCEPT !.hand = hand]
    OBVIOUS
  <2>5. Shape(z) /\ Aside(z, v) /\ z.pc = "upsert" /\ z.hand = hand
    BY <2>3, <2>4, QuoteHand
  <2>6. PICK x : x = [z EXCEPT !.answers = answers]
    OBVIOUS
  <2>7. Shape(x) /\ Aside(x, z) /\ x.pc = "upsert" /\ x.hand = hand /\ x.answers = answers
    BY <2>5, <2>6, QuoteAnswers
  <2>8. x = [y EXCEPT !.pc = "upsert", !.assets = @ \ {a}, !.hand = hand,
                      !.answers = answers]
    BY <1>1, <1>3, <2>2, <2>4, <2>6 DEF Shape
  <2>9. Becomes(w, x)
    BY <1>7, <2>1, <2>8
  <2>10. Aside(x, y)
    BY <1>5, <2>3, <2>5, <2>7 DEF Aside, SameRun, SameBatch
  <2>11. OwnJob(x)
    BY <1>1, <2>7, <2>10 DEF OwnJob, Writing, Aside, SameRun
  <2>12. Answered(x, y)
    BY <1>4, <2>1, <2>7 DEF Answered
  <2>. QED BY <2>7, <2>9, <2>10, <2>11, <2>12
<1>8. CASE \E q \in Quotes :
              LET answer == [asset |-> a, quote |-> q]
              IN Becomes(w, [y EXCEPT !.pc = "upsert", !.assets = @ \ {a},
                                      !.hand = answer, !.answers = @ \cup {answer}])
  BY <1>1, <1>7, <1>8
<1>. QED BY <1>2, <1>3, <1>6, <1>8

LEMMA UpsertFields ==
    ASSUME ClosesInv, NEW w \in Processes, UpsertQuote(w)
    PROVE  \E x : /\ Becomes(w, x) /\ Shape(x) /\ OwnJob(x) /\ Aside(x, job[w])
                  /\ x.pc = "quote" /\ x.answers = job[w].answers
<1>1. PICK y : y = job[w] /\ Shape(y) /\ y.name = "quotes"
  BY DEF ClosesInv, ShapesOK, UpsertQuote, At, OwnJob
<1>2. PICK u, nothing : u = [y EXCEPT !.pc = "quote"] /\ nothing = Nothing
  OBVIOUS
<1>3. Shape(u) /\ Aside(u, y) /\ u.pc = "quote" /\ u.answers = y.answers
  BY <1>1, <1>2, QuotePc
<1>4. PICK x : x = [u EXCEPT !.hand = nothing]
  OBVIOUS
<1>5. Shape(x) /\ Aside(x, u) /\ x.pc = "quote" /\ x.answers = y.answers
  BY <1>3, <1>4, QuoteHand
<1>6. x = [y EXCEPT !.pc = "quote", !.hand = Nothing]
  BY <1>1, <1>2, <1>4 DEF Shape
<1>7. Becomes(w, x)
  BY <1>1, <1>6 DEF UpsertQuote
<1>8. Aside(x, y)
  BY <1>3, <1>5 DEF Aside, SameRun, SameBatch
<1>9. OwnJob(x)
  BY <1>1, <1>5, <1>8 DEF OwnJob, Writing, Aside, SameRun
<1>. QED BY <1>1, <1>5, <1>7, <1>8, <1>9

LEMMA QuotesCloses ==
    ASSUME ClosesInv, NEW w \in Processes, AskQuote(w) \/ UpsertQuote(w)
    PROVE  ClosesInv'
<1>1. PICK x : Becomes(w, x) /\ Shape(x) /\ OwnJob(x) /\ x.pc \in {"quote", "upsert"}
  BY AskFields, UpsertFields DEF Answered
<1>2. UNCHANGED <<active, closes>> /\ quote' = [b \in Assets |-> quote'[b]]
  BY DEF AskQuote, UpsertQuote, CachesUnchanged, ClosesInv, ShapesOK
<1>. QED BY <1>1, <1>2, NothingClaimed DEF OwnJob

LEMMA DeleteCloses ==
    ASSUME ClosesInv, NEW a \in Deletable, DeleteAsset(a)
    PROVE  ClosesInv'
<1>1. /\ active' = active \ {a} /\ job' = job
      /\ quote' = [quote EXCEPT ![a] = Nothing] /\ closes' = [closes EXCEPT ![a] = {}]
  BY DEF DeleteAsset
<1>2. Kept
  BY <1>1 DEF Kept, ClosesInv, ShapesOK
<1>3. \A v \in Processes : FilledSoFar(v)' /\ NoGapInCloses(v)'
  BY <1>1, <1>2, BystanderKeeps
<1>4. ShapesOK'
  BY <1>1 DEF ClosesInv, ShapesOK
<1>. QED BY <1>3, <1>4 DEF ClosesInv

LEMMA NextCloses == ClosesInv /\ [Next]_vars => ClosesInv'
<1>. SUFFICES ASSUME ClosesInv, [Next]_vars PROVE ClosesInv'
  OBVIOUS
<1>1. ASSUME NEW w \in Processes, BeginQuotes(w) \/ BeginCloses(w) \/ BeginRates(w) \/ Fail(w)
      PROVE  ClosesInv'
  BY <1>1, BeginAny
<1>2. ASSUME NEW w \in Processes,
             AskQuote(w) \/ UpsertQuote(w) \/ EndAssets(w) \/ EndRates(w)
      PROVE  ClosesInv'
  BY <1>2, QuotesCloses, EndAssetsCloses, EndRatesCloses
<1>3. ASSUME NEW w \in Processes, FillClose(w) PROVE ClosesInv'
  BY <1>3, FillCloses
<1>4. ASSUME NEW w \in Processes, CloseUnavailable(w) PROVE ClosesInv'
  BY <1>4, LeaveCloses DEF CloseUnavailable
<1>5. ASSUME NEW w \in Processes,
             \/ SkipPair(w) \/ FindMissing(w) \/ FetchRates(w) \/ FetchFails(w)
             \/ SelectRate(w) \/ InsertRate(w) \/ CommitBatch(w) \/ BreakDeadlock(w)
      PROVE  ClosesInv'
  BY <1>5, RatesCloses
<1>6. ASSUME NEW a \in Deletable, DeleteAsset(a) PROVE ClosesInv'
  BY <1>6, DeleteCloses
<1>7. CASE UNCHANGED vars
  BY <1>7 DEF vars, ClosesInv, ShapesOK, FilledSoFar, NoGapInCloses, Reported, At,
              Selected, CurrentAsset
<1>. QED BY <1>1, <1>2, <1>3, <1>4, <1>5, <1>6, <1>7 DEF Next, Run

-----------------------------------------------------------------------------
(* The rates: the inductive invariant, stated of the record of a job so that *)
(* a step is followed from the record it leaves to the one it makes.        *)

Current(x) == CHOOSE p \in x.pairs : \A q \in x.pairs \ {p} : PairBefore(p, q)
Writes(x) == x.pc \in {"select", "insert"}
BusinessDays(x) == {d \in x.from .. x.to : BusinessDay(d)}

(* Every row is what the provider has, in one data set or another.          *)
RowsOK(rs) ==
    /\ rs = [p \in Pairs |-> [d \in Dates |-> rs[p][d]]]
    /\ \A p \in Pairs, d \in Dates :
          rs[p][d] # Nothing =>
              /\ Quoted(p, d)
              /\ \E v \in DOMAIN CodeHash : rs[p][d] = DailyRate(p, d, v)

RunOK(x) ==
    /\ x.version \in DOMAIN CodeHash
    /\ x.currencies \subseteq Currencies
    /\ x.pairs \subseteq PairsOf(x.currencies)
    /\ x.currencies # {} => x.from .. x.to \subseteq Dates
    /\ x.pc \notin Writing => x.pairs = {}
    /\ x.pc \in Writing \ {"pair"} => x.pairs # {} /\ SupportsPair(Current(x))
    /\ x.pc = "fetch" => x.missing \subseteq x.from .. x.to
    /\ ~Writes(x) => x.todo = {} /\ x.written = {} /\ x.locked = {}
    /\ x.todo \cup x.written \cup x.locked \subseteq BusinessDays(x)
    /\ x.pc = "insert" => x.todo # {}

(* A batch forgets no business day, and what it will write is locked or not *)
(* there.                                                                   *)
BatchOK(x, rs) ==
    Writes(x) =>
        LET p == Current(x)
        IN /\ \A d \in BusinessDays(x) :
                 \/ d \in x.todo \cup x.written
                 \/ d \in x.locked /\ rs[p][d] = DailyRate(p, d, x.version)
           /\ \A d \in x.written : d \in x.locked \/ rs[p][d] = Nothing
           /\ \A d \in x.locked : rs[p][d] # Nothing

(* No two transactions hold the same row.                                   *)
Apart(x, y) ==
    Writes(x) /\ Writes(y) /\ Current(x) = Current(y) =>
        x.written \cap y.written = {} /\ x.locked \cap y.locked = {}

(* The pairs a run is done with have no gap.                                *)
NoGapYet(x, rs) ==
    \A p \in PairsOf(x.currencies) \ (x.pairs \cup x.lost), d \in BusinessDays(x) :
        rs[p][d] # Nothing

RatesInv ==
    /\ RowsOK(rates)
    /\ \A w \in Processes : /\ RunOK(job[w])
                            /\ BatchOK(job[w], rates)
                            /\ NoGapYet(job[w], rates)
    /\ \A w, k \in Processes : w # k => Apart(job[w], job[k])

-----------------------------------------------------------------------------
(* Least and greatest elements. *)

Below == {p \in Nat \X Nat : p[1] < p[2]}

LEMMA LeastNumber ==
    ASSUME NEW T, T \subseteq Nat, T # {}
    PROVE  \E n \in T : \A m \in T : n <= m
<1>1. IsWellFoundedOn(Below, Nat)
  BY NatLessThanWellFounded DEF OpToRel, Below
<1>2. PICK n \in T : \A m \in T : ~(<<m, n>> \in Below)
  BY <1>1, WFMin
<1>3. ASSUME NEW m \in T, m < n PROVE FALSE
  <2>1. <<m, n>> \in Nat \X Nat /\ <<m, n>>[1] < <<m, n>>[2]
    BY <1>3
  <2>. QED BY <1>2, <2>1 DEF Below
<1>. QED BY <1>3

LEMMA MinOfDates ==
    ASSUME NEW S, NEW from \in Int, S \subseteq Int, S # {}, \A d \in S : from <= d
    PROVE  Min(S) \in S
<1>. DEFINE T == {n \in Nat : from + n \in S}
<1>1. T \subseteq Nat /\ T # {}
  <2>1. PICK d \in S : TRUE
    OBVIOUS
  <2>2. d - from \in Nat /\ from + (d - from) = d
    OBVIOUS
  <2>. QED BY <2>1, <2>2
<1>2. PICK n \in T : \A m \in T : n <= m
  <2>. HIDE DEF T
  <2>. QED BY <1>1, LeastNumber
<1>3. ASSUME NEW d \in S PROVE from + n <= d
  <2>1. d - from \in T
    <3>1. d - from \in Nat /\ from + (d - from) = d
      OBVIOUS
    <3>. QED BY <3>1
  <2>. QED BY <1>2, <2>1
<1>4. from + n \in S
  BY <1>2
<1>. QED BY <1>3, <1>4 DEF Min

LEMMA MaxOfDates ==
    ASSUME NEW S, NEW to \in Int, S \subseteq Int, S # {}, \A d \in S : d <= to
    PROVE  Max(S) \in S /\ \A d \in S : d <= Max(S)
<1>. DEFINE T == {n \in Nat : to - n \in S}
<1>1. T \subseteq Nat /\ T # {}
  <2>1. PICK d \in S : TRUE
    OBVIOUS
  <2>2. to - d \in Nat /\ to - (to - d) = d
    OBVIOUS
  <2>. QED BY <2>1, <2>2
<1>2. PICK n \in T : \A m \in T : n <= m
  <2>. HIDE DEF T
  <2>. QED BY <1>1, LeastNumber
<1>3. ASSUME NEW d \in S PROVE to - n >= d
  <2>1. to - d \in T
    <3>1. to - d \in Nat /\ to - (to - d) = d
      OBVIOUS
    <3>. QED BY <3>1
  <2>. QED BY <1>2, <2>1
<1>4. to - n \in S
  BY <1>2
<1>5. \E x \in S : \A y \in S : x >= y
  BY <1>3, <1>4
<1>6. Max(S) \in S /\ \A y \in S : Max(S) >= y
  BY <1>5 DEF Max
<1>. QED BY <1>6

-----------------------------------------------------------------------------
(* The pairs. *)

LEMMA PairFields ==
    ASSUME NEW currencies \in SUBSET Currencies, NEW p \in PairsOf(currencies)
    PROVE  /\ p \in Pairs
           /\ p.base \in currencies /\ p.quote \in currencies
           /\ p = [base |-> p.base, quote |-> p.quote]
           /\ p.base # p.quote /\ Rank[p.base] < Rank[p.quote]
           /\ p = CanonicalPair(p.base, p.quote) /\ p = CanonicalPair(p.quote, p.base)
<1>1. PICK a \in currencies, b \in currencies : p = CanonicalPair(a, b) /\ p # Nothing
  BY DEF PairsOf
<1>2. a # b /\ Rank[a] \in Nat /\ Rank[b] \in Nat /\ Rank[a] # Rank[b]
  BY <1>1, FxRatesAssumptions DEF CanonicalPair
<1>3. p \in Pairs
  BY <1>1 DEF Pairs, PairsOf
<1>4. CASE Rank[a] < Rank[b]
  <2>1. p = [base |-> a, quote |-> b]
    BY <1>1, <1>2, <1>4 DEF CanonicalPair
  <2>2. p.base = a /\ p.quote = b
    BY <2>1
  <2>. QED BY <1>2, <1>3, <1>4, <2>1, <2>2 DEF CanonicalPair
<1>5. CASE Rank[b] < Rank[a]
  <2>1. p = [base |-> b, quote |-> a]
    BY <1>1, <1>2, <1>5 DEF CanonicalPair
  <2>2. p.base = b /\ p.quote = a
    BY <2>1
  <2>. QED BY <1>2, <1>3, <1>5, <2>1, <2>2 DEF CanonicalPair
<1>. QED BY <1>2, <1>4, <1>5

(* The loop takes the first of the pairs that are left: there is one.       *)
LEMMA CurrentIsPair ==
    ASSUME NEW x, x.currencies \in SUBSET Currencies,
           x.pairs \subseteq PairsOf(x.currencies), x.pairs # {}
    PROVE  Current(x) \in x.pairs
<1>1. \A p \in x.pairs :
          /\ p.base \in Currencies /\ p.quote \in Currencies
          /\ p = [base |-> p.base, quote |-> p.quote]
          /\ Rank[p.base] \in Nat /\ Rank[p.quote] \in Nat
  BY PairFields, FxRatesAssumptions
<1>2. PICK p \in x.pairs : \A q \in x.pairs : Rank[p.base] <= Rank[q.base]
  <2>. DEFINE T == {Rank[q.base] : q \in x.pairs}
  <2>1. T \subseteq Nat /\ T # {}
    BY <1>1
  <2>2. PICK n \in T : \A m \in T : n <= m
    <3>. HIDE DEF T
    <3>. QED BY <2>1, LeastNumber
  <2>3. PICK p \in x.pairs : n = Rank[p.base]
    BY <2>2
  <2>4. \A q \in x.pairs : n <= Rank[q.base]
    BY <2>2
  <2>. QED BY <2>3, <2>4
<1>3. PICK r \in x.pairs :
          /\ r.base = p.base
          /\ \A q \in x.pairs : q.base = p.base => Rank[r.quote] <= Rank[q.quote]
  <2>. DEFINE T == {Rank[q.quote] : q \in {t \in x.pairs : t.base = p.base}}
  <2>1. T \subseteq Nat
    BY <1>1
  <2>2. Rank[p.quote] \in T
    BY <1>2
  <2>3. PICK n \in T : \A m \in T : n <= m
    <3>. HIDE DEF T
    <3>. QED BY <2>1, <2>2, LeastNumber
  <2>4. PICK r \in x.pairs : r.base = p.base /\ n = Rank[r.quote]
    BY <2>3
  <2>5. \A q \in x.pairs : q.base = p.base => n <= Rank[q.quote]
    BY <2>3
  <2>. QED BY <2>4, <2>5
<1>4. ASSUME NEW q \in x.pairs \ {r} PROVE PairBefore(r, q)
  <2>1. CASE q.base = r.base
    <3>1. q.quote # r.quote
      BY <1>1, <1>4, <2>1
    <3>2. Rank[q.quote] # Rank[r.quote]
      BY <1>1, <3>1, FxRatesAssumptions
    <3>3. Rank[r.quote] <= Rank[q.quote] /\ Rank[q.quote] \in Nat /\ Rank[r.quote] \in Nat
      BY <1>1, <1>3, <2>1
    <3>. QED BY <2>1, <3>2, <3>3 DEF PairBefore
  <2>2. CASE q.base # r.base
    <3>1. Rank[q.base] # Rank[r.base]
      BY <1>1, <2>2, FxRatesAssumptions
    <3>2. Rank[r.base] <= Rank[q.base] /\ Rank[q.base] \in Nat /\ Rank[r.base] \in Nat
      BY <1>1, <1>2, <1>3
    <3>. QED BY <3>1, <3>2 DEF PairBefore
  <2>. QED BY <2>1, <2>2
<1>. QED BY <1>4 DEF Current

-----------------------------------------------------------------------------
(* The rates of the provider. *)

LEMMA Quotient ==
    ASSUME NEW n \in Nat, NEW d \in Nat \ {0}
    PROVE  /\ n \div d \in Nat
           /\ d * (n \div d) <= n /\ n < d * (n \div d) + d
           /\ n % d \in Nat /\ n % d < d /\ n = (d * (n \div d)) + (n % d)
  OBVIOUS

LEMMA LinearPart ==
    ASSUME NEW a \in 0 .. MaxAmplitude, NEW d \in Nat \ {0}, NEW t \in 0 .. d
    PROVE  /\ (a * t) \div d \in Int
           /\ -MaxAmplitude <= (a * t) \div d /\ (a * t) \div d <= MaxAmplitude
<1>1. PICK n \in Nat : n = a * t
  BY DEF MaxAmplitude
<1>2. a * t <= a * d /\ a * d <= MaxAmplitude * d
  BY DEF MaxAmplitude
<1>3. PICK q \in Nat : q = n \div d /\ d * q <= n
  BY Quotient
<1>4. d * q <= 50 * d
  BY <1>1, <1>2, <1>3 DEF MaxAmplitude
<1>5. q <= 50
  BY <1>4
<1>. QED BY <1>1, <1>3, <1>5 DEF MaxAmplitude

LEMMA AmplitudeBounded ==
    ASSUME NEW c \in Currencies, NEW v \in DOMAIN CodeHash, NEW d \in Int
    PROVE  /\ SignedAmplitude(c, d, v) \in Int
           /\ -MaxAmplitude <= SignedAmplitude(c, d, v)
           /\ SignedAmplitude(c, d, v) <= MaxAmplitude
<1>1. PICK h \in Nat : h = CodeHash[v][c]
  BY FxRatesAssumptions
<1>2. PICK a \in 0 .. MaxAmplitude : a = Amplitude(c, v)
  <2>1. h % 9 \in 0 .. 8
    OBVIOUS
  <2>2. PICK r \in 0 .. 8 : r = h % 9
    BY <2>1
  <2>3. 10 + r * 5 \in 0 .. 50
    OBVIOUS
  <2>. QED BY <1>1, <2>2, <2>3 DEF Amplitude, MaxAmplitude
<1>3. PICK r \in 0 .. 10 : r = (h \div 7) % 11
  <2>1. h \div 7 \in Nat
    OBVIOUS
  <2>. QED BY <2>1
<1>4. PICK period \in Nat : period = Period(c, v) /\ period >= 40
  BY <1>1, <1>3 DEF Period
<1>5. PICK half \in Nat, quarter \in Nat :
          half = period \div 2 /\ quarter = period \div 4
  OBVIOUS
<1>6. /\ 2 * half <= period /\ period < 2 * half + 2
      /\ 4 * quarter <= period /\ period < 4 * quarter + 4
  BY <1>5
<1>7. PICK t \in Nat : t = d % period /\ t < period
  BY <1>4
<1>8. SignedAmplitude(c, d, v) =
          IF t <= quarter THEN (a * t) \div quarter
          ELSE IF t <= half THEN (a * (half - t)) \div (half - quarter)
          ELSE IF t <= half + quarter THEN -((a * (t - half)) \div quarter)
          ELSE -((a * (period - t)) \div (period - half - quarter))
  BY <1>2, <1>4, <1>5, <1>7 DEF SignedAmplitude
<1>9. CASE t <= quarter
  <2>1. quarter \in Nat \ {0} /\ t \in 0 .. quarter
    BY <1>4, <1>6, <1>9
  <2>2. PICK q \in Int : q = (a * t) \div quarter /\ -MaxAmplitude <= q /\ q <= MaxAmplitude
    BY <2>1, LinearPart
  <2>. QED BY <1>8, <1>9, <2>2
<1>10. CASE ~(t <= quarter) /\ t <= half
  <2>1. PICK u \in Nat, e \in Nat \ {0} : u = half - t /\ e = half - quarter /\ u <= e
    BY <1>4, <1>6, <1>10
  <2>2. u \in 0 .. e
    BY <2>1
  <2>3. PICK q \in Int : q = (a * u) \div e /\ -MaxAmplitude <= q /\ q <= MaxAmplitude
    BY <2>2, LinearPart
  <2>. QED BY <1>8, <1>10, <2>1, <2>3
<1>11. CASE ~(t <= quarter) /\ ~(t <= half) /\ t <= half + quarter
  <2>1. PICK u \in Nat : u = t - half /\ u <= quarter
    BY <1>11
  <2>2. quarter \in Nat \ {0} /\ u \in 0 .. quarter
    BY <1>4, <1>6, <2>1
  <2>3. PICK q \in Int : q = (a * u) \div quarter /\ -MaxAmplitude <= q /\ q <= MaxAmplitude
    BY <2>2, LinearPart
  <2>4. SignedAmplitude(c, d, v) = -q
    BY <1>8, <1>11, <2>1, <2>3
  <2>. QED BY <2>3, <2>4 DEF MaxAmplitude
<1>12. CASE ~(t <= quarter) /\ ~(t <= half) /\ ~(t <= half + quarter)
  <2>1. PICK u \in Nat, e \in Nat \ {0} :
            u = period - t /\ e = period - half - quarter /\ u <= e
    BY <1>4, <1>6, <1>7, <1>12
  <2>2. u \in 0 .. e
    BY <2>1
  <2>3. PICK q \in Int : q = (a * u) \div e /\ -MaxAmplitude <= q /\ q <= MaxAmplitude
    BY <2>2, LinearPart
  <2>4. SignedAmplitude(c, d, v) = -q
    BY <1>8, <1>12, <2>1, <2>3
  <2>. QED BY <2>3, <2>4 DEF MaxAmplitude
<1>. QED BY <1>9, <1>10, <1>11, <1>12

LEMMA ValuePositive ==
    ASSUME NEW c \in Currencies, Supported(c), NEW v \in DOMAIN CodeHash, NEW d \in Int
    PROVE  /\ DailyValue(c, d, v) \in Nat \ {0}
           /\ UnitsPerEuro[c] * (BpsUnit - MaxAmplitude) <= DailyValue(c, d, v)
           /\ DailyValue(c, d, v) <= UnitsPerEuro[c] * (BpsUnit + MaxAmplitude)
<1>1. PICK u \in Nat \ {0}, b \in Nat : u = UnitsPerEuro[c] /\ b = BpsUnit /\ b > MaxAmplitude
  BY FxRatesAssumptions DEF Supported
<1>2. PICK s \in Int : /\ s = SignedAmplitude(c, d, v)
                       /\ -MaxAmplitude <= s /\ s <= MaxAmplitude
  BY AmplitudeBounded
<1>3. PICK f \in Int, low \in Int, high \in Int :
          f = b + s /\ low = b - MaxAmplitude /\ high = b + MaxAmplitude
  BY DEF MaxAmplitude
<1>4. low <= f /\ f <= high /\ 1 <= low
  BY <1>1, <1>2, <1>3 DEF MaxAmplitude
<1>5. u * low <= u * f /\ u * f <= u * high /\ u * f \in Nat \ {0}
  BY <1>4
<1>. QED BY <1>1, <1>2, <1>3, <1>5 DEF DailyValue

LEMMA HalfEven ==
    ASSUME NEW n \in Nat, NEW d \in Nat \ {0}
    PROVE  /\ RoundHalfEven(n, d) \in Nat
           /\ 2 * (d * RoundHalfEven(n, d)) - 2 * n <= d
           /\ 2 * n - 2 * (d * RoundHalfEven(n, d)) <= d
<1>1. PICK q \in Nat, r \in Nat : /\ q = n \div d /\ r = n % d
                                  /\ r < d /\ n = (d * q) + r
  BY Quotient
<1>2. d * (q + 1) = (d * q) + d /\ d * q \in Nat
  OBVIOUS
<1>3. CASE 2 * r > d \/ (2 * r = d /\ q % 2 = 1)
  <2>1. RoundHalfEven(n, d) = q + 1
    BY <1>1, <1>3 DEF RoundHalfEven
  <2>2. d <= 2 * r
    BY <1>3
  <2>. QED BY <1>1, <1>2, <2>1, <2>2
<1>4. CASE ~(2 * r > d \/ (2 * r = d /\ q % 2 = 1))
  <2>1. RoundHalfEven(n, d) = q
    BY <1>1, <1>4 DEF RoundHalfEven
  <2>2. 2 * r <= d
    BY <1>4
  <2>. QED BY <1>1, <1>2, <2>1, <2>2
<1>. QED BY <1>3, <1>4

(* The rate of a supported pair is positive and off by half a unit.         *)
LEMMA RateRounded ==
    ASSUME NEW p \in Pairs, SupportsPair(p), NEW v \in DOMAIN CodeHash, NEW d \in Int
    PROVE  LET m == CanonicalRate(p, d, v)
               base == DailyValue(p.base, d, v)
               quoted == DailyValue(p.quote, d, v)
           IN  /\ m \in Nat \ {0} /\ base \in Nat \ {0} /\ quoted \in Nat \ {0}
               /\ 2 * (base * m) - 2 * (quoted * RateUnit) <= base
               /\ 2 * (quoted * RateUnit) - 2 * (base * m) <= base
<1>1. p.base \in Currencies /\ p.quote \in Currencies
  BY PairFields DEF Pairs
<1>2. Supported(p.base) /\ Supported(p.quote)
  BY DEF SupportsPair
<1>3. PICK P \in Nat \ {0}, Q \in Nat \ {0} :
          /\ P = DailyValue(p.base, d, v) /\ Q = DailyValue(p.quote, d, v)
          /\ P <= UnitsPerEuro[p.base] * (BpsUnit + MaxAmplitude)
          /\ UnitsPerEuro[p.quote] * (BpsUnit - MaxAmplitude) <= Q
  BY <1>1, <1>2, ValuePositive
<1>4. PICK U \in Nat \ {0} : U = RateUnit
  BY FxRatesAssumptions
<1>5. P <= Q * U
  <2>1. PICK low \in Int :
            low = UnitsPerEuro[p.quote] * (BpsUnit - MaxAmplitude) /\ low <= Q
    BY <1>1, <1>2, <1>3, FxRatesAssumptions DEF Supported, MaxAmplitude
  <2>2. low * U <= Q * U
    BY <2>1
  <2>3. UnitsPerEuro[p.base] * (BpsUnit + MaxAmplitude)
            <= UnitsPerEuro[p.quote] * (BpsUnit - MaxAmplitude) * RateUnit
    BY <1>1, <1>2, RatesArePositive DEF Supported
  <2>4. PICK high \in Int :
            high = UnitsPerEuro[p.base] * (BpsUnit + MaxAmplitude) /\ P <= high
    BY <1>1, <1>2, <1>3, FxRatesAssumptions DEF Supported, MaxAmplitude
  <2>5. high <= low * U
    BY <1>4, <2>1, <2>3, <2>4
  <2>6. low * U \in Int
    OBVIOUS
  <2>. QED BY <2>2, <2>4, <2>5, <2>6
<1>6. PICK n \in Nat : n = Q * U
  OBVIOUS
<1>7. PICK m \in Nat : /\ m = RoundHalfEven(n, P)
                       /\ 2 * (P * m) - 2 * n <= P /\ 2 * n - 2 * (P * m) <= P
  BY HalfEven
<1>8. m = CanonicalRate(p, d, v)
  BY <1>3, <1>4, <1>6, <1>7 DEF CanonicalRate
<1>9. m # 0
  <2>. SUFFICES ASSUME m = 0 PROVE FALSE
    OBVIOUS
  <2>1. P * m = 0
    OBVIOUS
  <2>. QED BY <1>5, <1>6, <1>7, <2>1
<1>. QED BY <1>3, <1>4, <1>6, <1>7, <1>8, <1>9

LEMMA RateIsSomething ==
    ASSUME NEW p \in Pairs, NEW d \in Int, Quoted(p, d), NEW v \in DOMAIN CodeHash
    PROVE  DailyRate(p, d, v) # Nothing
<1>1. CanonicalRate(p, d, v) \in Int
  BY RateRounded DEF Quoted
<1>2. DailyRate(p, d, v) \in [rate : Int, version : DOMAIN CodeHash]
  BY <1>1 DEF DailyRate
<1>. QED BY <1>2, FxRatesAssumptions

-----------------------------------------------------------------------------
(* The rates: steps that write none. *)

LEMMA NoPairs == PairsOf({}) = {}
  BY DEF PairsOf

LEMMA NotWriting ==
    ASSUME NEW x, ~Writes(x), NEW rs, NEW y PROVE BatchOK(x, rs) /\ Apart(x, y) /\ Apart(y, x)
  BY DEF BatchOK, Apart

LEMMA RatesOneProcess ==
    ASSUME ClosesInv, RatesInv, NEW w \in Processes, NEW x, Becomes(w, x), rates' = rates,
           RunOK(x), BatchOK(x, rates), NoGapYet(x, rates),
           \A k \in Processes \ {w} : Apart(x, job[k])
    PROVE  RatesInv'
<1>1. /\ job' = [v \in Processes |-> job'[v]] /\ job'[w] = x
      /\ \A v \in Processes \ {w} : job'[v] = job[v]
  BY DEF Becomes, ClosesInv, ShapesOK
<1>2. ASSUME NEW v \in Processes
      PROVE  RunOK(job'[v]) /\ BatchOK(job'[v], rates') /\ NoGapYet(job'[v], rates')
  BY <1>1 DEF RatesInv
<1>3. ASSUME NEW v \in Processes, NEW k \in Processes, v # k
      PROVE  Apart(job'[v], job'[k])
  <2>1. Apart(job[v], job[k])
    BY <1>3 DEF RatesInv
  <2>2. ASSUME NEW u \in Processes \ {w} PROVE Apart(job[u], x)
    BY DEF Apart
  <2>. QED BY <1>1, <1>3, <2>1, <2>2
<1>. QED BY <1>2, <1>3 DEF RatesInv

(* A run that is not about rates, or has not begun, holds none.             *)
Blank(x) ==
    /\ x.pairs = {} /\ x.missing = {} /\ x.todo = {} /\ x.written = {} /\ x.locked = {}
    /\ x.currencies = {} /\ x.lost = {}

LEMMA BlankOK ==
    ASSUME NEW x, Blank(x), x.version \in DOMAIN CodeHash, x.pc \notin Writing, NEW rs
    PROVE  RunOK(x) /\ NoGapYet(x, rs) /\ ~Writes(x)
  BY NoPairs DEF Blank, RunOK, NoGapYet, Writes, Writing

LEMMA IdleIsBlank ==
    ASSUME NEW x, NEW run, NEW outcome
    PROVE  LET y == Idle(x, run, outcome)
           IN  Blank(y) /\ y.version = x.version /\ y.pc = "idle"
  BY DEF Idle, Blank

LEMMA InitRates == Init => RatesInv
<1>. SUFFICES ASSUME Init PROVE RatesInv
  OBVIOUS
<1>1. PICK deployed \in Deployments : job = [w \in Processes |-> Idle(deployed[w], 0, "none")]
  BY DEF Init
<1>2. \A w \in Processes : deployed[w].version \in DOMAIN CodeHash
  BY MarketDataAssumptions
<1>3. ASSUME NEW w \in Processes
      PROVE  RunOK(job[w]) /\ NoGapYet(job[w], rates) /\ ~Writes(job[w])
  <2>1. /\ Blank(job[w]) /\ job[w].version \in DOMAIN CodeHash /\ job[w].pc = "idle"
    BY <1>1, <1>2, IdleIsBlank
  <2>. QED BY <2>1, BlankOK DEF Writing
<1>4. RowsOK(rates)
  BY DEF Init, RowsOK
<1>. QED BY <1>3, <1>4, NotWriting DEF RatesInv

LEMMA BeginRatesInv ==
    ASSUME ClosesInv, RatesInv, NEW w \in Processes,
           BeginQuotes(w) \/ BeginCloses(w) \/ BeginRates(w) \/ Fail(w)
    PROVE  RatesInv'
<1>1. job[w].version \in DOMAIN CodeHash /\ rates' = rates
  BY DEF RatesInv, RunOK, BeginQuotes, BeginCloses, BeginRates, Fail, Begins, CachesUnchanged
<1>2. /\ Blank(Begun(w)) /\ Begun(w).version = job[w].version
      /\ Shape(Begun(w))
  BY IdleIsBlank, IdleShape DEF Begun, ClosesInv, ShapesOK, Shape
<1>3. ASSUME NEW x, Becomes(w, x), Blank(x), x.version = job[w].version, x.pc \notin Writing
      PROVE  RatesInv'
  <2>1. RunOK(x) /\ NoGapYet(x, rates) /\ ~Writes(x)
    BY <1>1, <1>3, BlankOK
  <2>. QED BY <1>1, <1>3, <2>1, NotWriting, RatesOneProcess
<1>4. CASE BeginQuotes(w)
  <2>1. PICK y, assets : y = Begun(w) /\ assets = Selected
    OBVIOUS
  <2>2. PICK x : x = [y EXCEPT !.pc = "quote", !.assets = assets]
    OBVIOUS
  <2>3. Becomes(w, x)
    BY <1>4, <2>1, <2>2 DEF BeginQuotes
  <2>4. Blank(x) /\ x.version = y.version /\ x.pc = "quote"
    BY <1>2, <2>1, <2>2 DEF Blank, Shape
  <2>. QED BY <1>2, <1>3, <2>1, <2>3, <2>4 DEF Writing
<1>5. CASE BeginCloses(w)
  <2>1. PICK r \in Ranges :
            Becomes(w, [Begun(w) EXCEPT !.pc = "close", !.assets = Selected,
                                        !.from = r[1], !.to = r[2], !.date = r[1]])
    BY <1>5 DEF BeginCloses
  <2>2. PICK y, assets, from, to : /\ y = Begun(w) /\ assets = Selected
                                   /\ from = r[1] /\ to = r[2]
    OBVIOUS
  <2>3. PICK x : x = [y EXCEPT !.pc = "close", !.assets = assets,
                               !.from = from, !.to = to, !.date = from]
    OBVIOUS
  <2>4. Becomes(w, x)
    BY <2>1, <2>2, <2>3
  <2>5. Blank(x) /\ x.version = y.version /\ x.pc = "close"
    BY <1>2, <2>2, <2>3 DEF Blank, Shape
  <2>. QED BY <1>2, <1>3, <2>2, <2>4, <2>5 DEF Writing
<1>6. CASE BeginRates(w)
  <2>1. PICK r \in Ranges, currencies \in CurrencySets :
            Becomes(w, [Begun(w) EXCEPT !.pc = "pair", !.from = r[1], !.to = r[2],
                                        !.currencies = currencies,
                                        !.pairs = PairsOf(currencies)])
    BY <1>6 DEF BeginRates
  <2>2. PICK y, pairs, from, to : /\ y = Begun(w) /\ pairs = PairsOf(currencies)
                                  /\ from = r[1] /\ to = r[2]
    OBVIOUS
  <2>3. PICK u : u = [y EXCEPT !.pc = "pair", !.from = from, !.to = to]
    OBVIOUS
  <2>4. PICK x : x = [u EXCEPT !.currencies = currencies, !.pairs = pairs]
    OBVIOUS
  <2>5. /\ Blank(u) /\ u.version = y.version /\ u.pc = "pair" /\ u.from = from /\ u.to = to
        /\ DOMAIN u = DOMAIN y
    BY <1>2, <2>2, <2>3 DEF Blank, Shape
  <2>6. /\ x.pairs = pairs /\ x.currencies = currencies /\ x.pc = "pair"
        /\ x.from = from /\ x.to = to /\ x.version = y.version
        /\ x.todo = {} /\ x.written = {} /\ x.locked = {}
    BY <1>2, <2>2, <2>4, <2>5 DEF Blank, Shape
  <2>7. Becomes(w, x)
    <3>1. x = [y EXCEPT !.pc = "pair", !.from = from, !.to = to,
                        !.currencies = currencies, !.pairs = pairs]
      BY <1>2, <2>2, <2>3, <2>4 DEF Shape
    <3>. QED BY <2>1, <2>2, <3>1
  <2>8. currencies \subseteq Currencies /\ from .. to \subseteq Dates
    BY <2>2, MarketDataAssumptions DEF Dates
  <2>9. RunOK(x) /\ ~Writes(x)
    BY <1>1, <1>2, <2>2, <2>6, <2>8 DEF RunOK, Writes, Writing
  <2>10. NoGapYet(x, rates)
    BY <2>2, <2>6 DEF NoGapYet
  <2>. QED BY <1>1, <2>7, <2>9, <2>10, NotWriting, RatesOneProcess
<1>7. CASE Fail(w)
  <2>1. PICK x : x = Idle(job[w], job[w].run, "failed")
    OBVIOUS
  <2>2. Becomes(w, x) /\ Blank(x) /\ x.version = job[w].version /\ x.pc = "idle"
    BY <1>7, <2>1, IdleIsBlank DEF Fail
  <2>. QED BY <1>3, <2>2 DEF Writing
<1>. QED BY <1>4, <1>5, <1>6, <1>7

(* The end of a run, and the steps of quotes and closes.                    *)
LEMMA AsideRatesInv ==
    ASSUME ClosesInv, RatesInv, NEW w \in Processes, NEW x, Becomes(w, x), rates' = rates,
           SameRun(x, job[w]), SameBatch(x, job[w]),
           x.pairs = job[w].pairs, x.lost = job[w].lost, x.pairs = {},
           ~Writes(job[w]), x.pc \notin Writing
    PROVE  RatesInv'
<1>1. RunOK(job[w]) /\ NoGapYet(job[w], rates)
  BY DEF RatesInv
<1>2. RunOK(x) /\ ~Writes(x)
  BY <1>1 DEF RunOK, SameRun, SameBatch, Writes, Writing, BusinessDays
<1>3. NoGapYet(x, rates)
  BY <1>1 DEF NoGapYet, SameRun, BusinessDays
<1>. QED BY <1>2, <1>3, NotWriting, RatesOneProcess

LEMMA AsideSteps ==
    ASSUME ClosesInv, RatesInv, NEW w \in Processes,
           \/ AskQuote(w) \/ UpsertQuote(w) \/ FillClose(w) \/ CloseUnavailable(w)
           \/ EndAssets(w) \/ EndRates(w)
    PROVE  RatesInv'
<1>1. /\ Shape(job[w]) /\ RunOK(job[w])
      /\ job[w].pc \notin Writing => job[w].pairs = {} /\ ~Writes(job[w])
  BY DEF ClosesInv, ShapesOK, RatesInv, RunOK, Writes, Writing
<1>2. CASE AskQuote(w) \/ UpsertQuote(w)
  <2>1. PICK x : /\ Becomes(w, x) /\ x.pc \in {"quote", "upsert"}
                 /\ SameRun(x, job[w]) /\ SameBatch(x, job[w])
                 /\ x.pairs = job[w].pairs /\ x.lost = job[w].lost
    BY <1>2, AskFields, UpsertFields DEF Answered, Aside
  <2>2. job[w].pc \in {"quote", "upsert"} /\ rates' = rates
    BY <1>2 DEF AskQuote, UpsertQuote, CachesUnchanged, At
  <2>. QED BY <1>1, <2>1, <2>2, AsideRatesInv DEF Writing
<1>3. CASE FillClose(w) \/ CloseUnavailable(w)
  <2>1. /\ job[w].pc = "close" /\ rates' = rates
        /\ \/ Becomes(w, NextClose(w, CurrentAsset(w)))
           \/ Becomes(w, LeaveAsset(w, CurrentAsset(w)))
    BY <1>3 DEF FillClose, CloseUnavailable, CachesUnchanged, At
  <2>2. PICK y, a, left, next, skipped :
            /\ y = job[w] /\ a = CurrentAsset(w) /\ left = y.assets \ {a}
            /\ next = y.date + 1 /\ skipped = y.skipped \cup {a}
    OBVIOUS
  <2>3. PICK x : /\ Becomes(w, x)
                 /\ \/ x = [y EXCEPT !.date = next]
                    \/ x = [y EXCEPT !.date = y.from, !.assets = left]
                    \/ x = [y EXCEPT !.date = y.from, !.assets = left, !.skipped = skipped]
    BY <2>1, <2>2 DEF NextClose, LeaveAsset
  <2>4. /\ SameRun(x, y) /\ SameBatch(x, y) /\ x.pairs = y.pairs /\ x.lost = y.lost
        /\ x.pc = y.pc
    BY <1>1, <2>2, <2>3 DEF Shape, SameRun, SameBatch
  <2>. QED BY <1>1, <2>1, <2>2, <2>3, <2>4, AsideRatesInv DEF Writing
<1>4. CASE EndAssets(w) \/ EndRates(w)
  <2>1. PICK outcome : Becomes(w, Ends(w, outcome))
    BY <1>4 DEF EndAssets, EndRates
  <2>2. PICK x : x = Ends(w, outcome)
    OBVIOUS
  <2>3. /\ SameRun(x, job[w]) /\ SameBatch(x, job[w]) /\ x.pairs = job[w].pairs
        /\ x.lost = job[w].lost /\ x.pc = "idle"
    BY <1>1, <2>2, EndsShape
  <2>4. rates' = rates /\ job[w].pairs = {} /\ ~Writes(job[w])
    BY <1>1, <1>4 DEF EndAssets, EndRates, CachesUnchanged, At, Writes, Writing
  <2>. QED BY <2>1, <2>2, <2>3, <2>4, AsideRatesInv DEF Writing
<1>. QED BY <1>2, <1>3, <1>4

(* A pair that failed is reported.                                          *)
LEMMA FailedPairInv ==
    ASSUME ClosesInv, RatesInv, NEW w \in Processes, AtRates(job[w]),
           Becomes(w, PairFailed(w)), rates' = rates
    PROVE  RatesInv'
<1>1. PICK x, c : x = PairFailed(w) /\ c = CurrentPair(w)
  OBVIOUS
<1>2. /\ x.pc = "pair" /\ SameRun(x, job[w]) /\ x.lost = job[w].lost \cup {c}
      /\ x.pairs = job[w].pairs \ {c} /\ x.todo = {} /\ x.written = {} /\ x.locked = {}
  BY <1>1, PairFailedFields
<1>3. RunOK(job[w]) /\ NoGapYet(job[w], rates)
  BY DEF RatesInv
<1>4. RunOK(x) /\ ~Writes(x)
  BY <1>2, <1>3 DEF RunOK, SameRun, Writes, Writing, BusinessDays
<1>5. NoGapYet(x, rates)
  BY <1>2, <1>3 DEF NoGapYet, SameRun, BusinessDays
<1>. QED BY <1>1, <1>4, <1>5, NotWriting, RatesOneProcess

(* What is known of a job that is at work on a pair.                        *)
LEMMA AtPair ==
    ASSUME ClosesInv, RatesInv, NEW w \in Processes, job[w].pc \in Writing \ {"pair"}
    PROVE  /\ AtRates(job[w]) /\ RunOK(job[w]) /\ CurrentPair(w) = Current(job[w])
           /\ CurrentPair(w) \in job[w].pairs /\ CurrentPair(w) \in Pairs
           /\ SupportsPair(CurrentPair(w))
           /\ job[w].from \in Int /\ job[w].to \in Int
           /\ BusinessDays(job[w]) \subseteq Dates /\ BusinessDays(job[w]) \subseteq Int
           /\ \A d \in BusinessDays(job[w]) : Quoted(CurrentPair(w), d)
<1>1. PICK x : x = job[w]
  OBVIOUS
<1>2. /\ Shape(x) /\ OwnJob(x) /\ RunOK(x)
  BY <1>1 DEF ClosesInv, ShapesOK, RatesInv
<1>3. CurrentPair(w) = Current(x)
  BY <1>1 DEF CurrentPair, Current
<1>4. x.pairs # {} /\ x.pairs \subseteq PairsOf(x.currencies) /\ x.currencies \subseteq Currencies
      /\ SupportsPair(Current(x))
  BY <1>1, <1>2 DEF RunOK
<1>5. Current(x) \in x.pairs
  BY <1>4, CurrentIsPair
<1>6. Current(x) \in Pairs
  BY <1>4, <1>5, PairFields
<1>7. x.from \in Int /\ x.to \in Int /\ x.from .. x.to \subseteq Dates
  BY <1>2, <1>4, NoPairs DEF RunOK, Shape
<1>8. /\ BusinessDays(x) \subseteq Dates /\ BusinessDays(x) \subseteq Int
      /\ \A d \in BusinessDays(x) : Quoted(Current(x), d)
  BY <1>4, <1>7 DEF BusinessDays, Quoted
<1>9. AtRates(x)
  BY <1>1, <1>2 DEF AtRates, OwnJob
<1>. QED BY <1>1, <1>2, <1>3, <1>4, <1>5, <1>6, <1>7, <1>8, <1>9

LEMMA FindInv ==
    ASSUME ClosesInv, RatesInv, NEW w \in Processes, FindMissing(w)
    PROVE  RatesInv'
<1>1. PICK y, missing : y = job[w] /\ missing = MissingDates(CurrentPair(w), y.from, y.to)
  OBVIOUS
<1>2. PICK x : x = [y EXCEPT !.pc = "fetch", !.missing = missing]
  OBVIOUS
<1>3. Becomes(w, x) /\ rates' = rates /\ y.pairs # {} /\ y.pc = "pair"
  BY <1>1, <1>2 DEF FindMissing, CachesUnchanged, At
<1>4. Shape(y) /\ RunOK(y) /\ NoGapYet(y, rates)
  BY <1>1 DEF ClosesInv, ShapesOK, RatesInv
<1>5. /\ x.pc = "fetch" /\ SameRun(x, y) /\ x.pairs = y.pairs /\ x.lost = y.lost
      /\ x.missing = missing /\ x.todo = y.todo /\ x.written = y.written /\ x.locked = y.locked
  BY <1>2, <1>4 DEF Shape, SameRun
<1>6. missing \subseteq x.from .. x.to
  BY <1>1, <1>5 DEF MissingDates, SameRun
<1>7. SupportsPair(Current(x))
  BY <1>1, <1>5 DEF FindMissing, CurrentPair, Current
<1>8. RunOK(x) /\ ~Writes(x)
  BY <1>3, <1>4, <1>5, <1>6, <1>7 DEF RunOK, SameRun, Writes, Writing, BusinessDays
<1>9. NoGapYet(x, rates)
  BY <1>4, <1>5 DEF NoGapYet, SameRun, BusinessDays
<1>. QED BY <1>3, <1>8, <1>9, NotWriting, RatesOneProcess

(* The batch is of all business days of the range, whatever is missing.     *)
LEMMA BatchIsWhole ==
    ASSUME ClosesInv, RatesInv, NEW w \in Processes, At(w, "fetch")
    PROVE  BatchDates(CurrentPair(w), job[w].from, job[w].to, job[w].missing)
               = BusinessDays(job[w])
<1>1. /\ job[w].missing \subseteq job[w].from .. job[w].to
      /\ SupportsPair(CurrentPair(w))
  BY AtPair DEF At, Writing, RunOK
<1>. QED BY <1>1 DEF BatchDates, BusinessDays, Quoted

LEMMA FetchInv ==
    ASSUME ClosesInv, RatesInv, NEW w \in Processes, FetchRates(w)
    PROVE  RatesInv'
<1>1. PICK y, todo, missing :
          /\ y = job[w] /\ todo = BusinessDays(y) /\ missing = y.missing \cap todo
  OBVIOUS
<1>2. y.pc = "fetch" /\ rates' = rates
  BY <1>1 DEF FetchRates, CachesUnchanged, At
<1>3. AtRates(y) /\ RunOK(y) /\ NoGapYet(y, rates) /\ ~Writes(y)
  BY <1>1, <1>2, AtPair DEF Writing, RatesInv, Writes
<1>4. Becomes(w, IF todo = {} THEN NextPair(w)
                 ELSE [y EXCEPT !.pc = "select", !.missing = missing, !.todo = todo])
  BY <1>1, BatchIsWhole DEF FetchRates
<1>5. CASE todo = {}
  <2>1. PICK x : x = NextPair(w)
    OBVIOUS
  <2>2. /\ x.pc = "pair" /\ SameRun(x, y) /\ x.lost = y.lost
        /\ x.pairs = y.pairs \ {CurrentPair(w)}
        /\ x.todo = {} /\ x.written = {} /\ x.locked = {}
    BY <1>1, <1>3, <2>1, NextPairFields
  <2>3. RunOK(x) /\ ~Writes(x)
    BY <1>3, <2>2 DEF RunOK, SameRun, Writes, Writing, BusinessDays
  <2>4. NoGapYet(x, rates)
    BY <1>1, <1>5, <2>2 DEF NoGapYet, SameRun, BusinessDays
  <2>. QED BY <1>2, <1>4, <1>5, <2>1, <2>3, <2>4, NotWriting, RatesOneProcess
<1>6. CASE todo # {}
  <2>1. PICK x : x = [y EXCEPT !.pc = "select", !.missing = missing, !.todo = todo]
    OBVIOUS
  <2>2. /\ x.pc = "select" /\ SameRun(x, y) /\ x.pairs = y.pairs /\ x.lost = y.lost
        /\ x.todo = todo /\ x.written = y.written /\ x.locked = y.locked
    BY <1>3, <2>1 DEF AtRates, Shape, SameRun
  <2>3. BusinessDays(x) = todo /\ Current(x) = Current(y) /\ x.written = {} /\ x.locked = {}
    BY <1>1, <1>3, <2>2 DEF BusinessDays, SameRun, Current, RunOK
  <2>4. RunOK(x)
    BY <1>2, <1>3, <2>2, <2>3 DEF RunOK, SameRun, Writes, Writing
  <2>5. NoGapYet(x, rates)
    BY <1>3, <2>2 DEF NoGapYet, SameRun, BusinessDays
  <2>6. BatchOK(x, rates) /\ \A k \in Processes \ {w} : Apart(x, job[k])
    BY <2>2, <2>3 DEF BatchOK, Apart
  <2>. QED BY <1>2, <1>4, <1>6, <2>1, <2>4, <2>5, <2>6, RatesOneProcess
<1>. QED BY <1>5, <1>6

LEMMA NextDateIsLeft ==
    ASSUME ClosesInv, RatesInv, NEW w \in Processes, Writes(job[w]), job[w].todo # {}
    PROVE  NextDate(w) \in job[w].todo /\ NextDate(w) \in BusinessDays(job[w])
<1>1. /\ job[w].from \in Int /\ BusinessDays(job[w]) \subseteq Int /\ job[w].to \in Int
      /\ job[w].todo \subseteq BusinessDays(job[w])
  BY AtPair DEF Writes, Writing, RunOK
<1>2. PICK S : /\ S = IF job[w].todo \cap job[w].missing # {}
                      THEN job[w].todo \cap job[w].missing ELSE job[w].todo
  OBVIOUS
<1>3. S # {} /\ S \subseteq job[w].todo /\ NextDate(w) = Min(S)
  BY <1>2 DEF NextDate
<1>4. PICK from \in Int : from = job[w].from
  BY <1>1
<1>5. S \subseteq Int /\ \A d \in S : from <= d
  BY <1>1, <1>3, <1>4 DEF BusinessDays
<1>6. Min(S) \in S
  BY <1>3, <1>5, MinOfDates
<1>. QED BY <1>1, <1>3, <1>6

LEMMA RivalsAre ==
    ASSUME NEW w \in Processes, NEW k \in Processes \ {w}, Writes(job[w]), Writes(job[k]),
           Current(job[w]) = Current(job[k])
    PROVE  k \in Rivals(w)
  BY DEF Rivals, Busy, Writes, CurrentPair, Current

(* The date is locked, written, or both.                                    *)
LEMMA DateDone ==
    ASSUME ClosesInv, RatesInv, NEW w \in Processes, NEW x, Becomes(w, x), rates' = rates,
           Writes(job[w]), job[w].todo # {},
           SameRun(x, job[w]), x.pairs = job[w].pairs, x.lost = job[w].lost, x.pc = "select",
           x.todo = job[w].todo \ {NextDate(w)},
           x.written = job[w].written \/ x.written = job[w].written \cup {NextDate(w)},
           x.locked = job[w].locked \/ x.locked = job[w].locked \cup {NextDate(w)},
           \/ NextDate(w) \in x.written
           \/ NextDate(w) \in x.locked /\ Stored(w) = Incoming(w),
           NextDate(w) \in x.locked \/ Stored(w) = Nothing,
           NextDate(w) \in x.locked => Stored(w) # Nothing,
           \A k \in Rivals(w) : NextDate(w) \notin job[k].locked \cup job[k].written
    PROVE  RatesInv'
<1>1. PICK y, d, p : y = job[w] /\ d = NextDate(w) /\ p = CurrentPair(w)
  OBVIOUS
<1>2. /\ AtRates(y) /\ RunOK(y) /\ p = Current(y) /\ d \in y.todo /\ d \in BusinessDays(y)
      /\ BatchOK(y, rates) /\ NoGapYet(y, rates)
      /\ \A k \in Processes \ {w} : Apart(y, job[k])
  BY <1>1, AtPair, NextDateIsLeft DEF Writes, Writing, RatesInv
<1>3. Stored(w) = rates[p][d] /\ Incoming(w) = DailyRate(p, d, y.version)
  BY <1>1 DEF Stored, Incoming
<1>4. /\ BusinessDays(x) = BusinessDays(y) /\ Current(x) = p /\ x.version = y.version
      /\ Writes(x) /\ Writes(y)
  BY <1>1, <1>2 DEF BusinessDays, SameRun, Current, Writes
<1>5. RunOK(x)
  BY <1>1, <1>2, <1>4 DEF RunOK, SameRun, Writes, Writing
<1>6. NoGapYet(x, rates)
  BY <1>1, <1>2, <1>4 DEF NoGapYet, SameRun
<1>7. BatchOK(x, rates)
  <2>1. ASSUME NEW e \in BusinessDays(x)
        PROVE  \/ e \in x.todo \cup x.written
               \/ e \in x.locked /\ rates[p][e] = DailyRate(p, e, x.version)
    <3>1. CASE e = d
      BY <1>1, <1>3, <1>4, <3>1
    <3>2. CASE e # d
      BY <1>1, <1>2, <1>4, <2>1, <3>2 DEF BatchOK
    <3>. QED BY <3>1, <3>2
  <2>2. ASSUME NEW e \in x.written PROVE e \in x.locked \/ rates[p][e] = Nothing
    <3>1. CASE e = d
      BY <1>1, <1>3, <3>1
    <3>2. CASE e # d
      BY <1>1, <1>2, <1>4, <2>2, <3>2 DEF BatchOK
    <3>. QED BY <3>1, <3>2
  <2>3. ASSUME NEW e \in x.locked PROVE rates[p][e] # Nothing
    <3>1. CASE e = d
      BY <1>1, <1>3, <2>3, <3>1
    <3>2. CASE e # d
      BY <1>1, <1>2, <1>4, <2>3, <3>2 DEF BatchOK
    <3>. QED BY <3>1, <3>2
  <2>. QED BY <1>4, <2>1, <2>2, <2>3 DEF BatchOK
<1>8. ASSUME NEW k \in Processes \ {w} PROVE Apart(x, job[k])
  <2>. SUFFICES ASSUME Writes(job[k]), p = Current(job[k])
       PROVE  x.written \cap job[k].written = {} /\ x.locked \cap job[k].locked = {}
    BY <1>4 DEF Apart
  <2>1. k \in Rivals(w)
    BY <1>1, <1>2, RivalsAre
  <2>2. y.written \cap job[k].written = {} /\ y.locked \cap job[k].locked = {}
    BY <1>2, <1>4 DEF Apart
  <2>. QED BY <1>1, <2>1, <2>2
<1>. QED BY <1>5, <1>6, <1>7, <1>8, RatesOneProcess

(* What a rival has written and not committed, it has locked or inserted.   *)
LEMMA WrittenOrLocked ==
    ASSUME ClosesInv, RatesInv, NEW w \in Processes, NEW k \in Rivals(w),
           NEW d \in job[k].written
    PROVE  d \in job[k].locked \/ rates[CurrentPair(w)][d] = Nothing
<1>1. k \in Processes /\ Writes(job[k]) /\ Current(job[k]) = CurrentPair(w)
  BY DEF Rivals, Busy, Writes, CurrentPair, Current
<1>. QED BY <1>1 DEF RatesInv, BatchOK

LEMMA SelectInv ==
    ASSUME ClosesInv, RatesInv, NEW w \in Processes, SelectRate(w)
    PROVE  RatesInv'
<1>1. PICK y, d : y = job[w] /\ d = NextDate(w)
  OBVIOUS
<1>2. y.pc = "select" /\ Writes(y) /\ y.todo # {} /\ rates' = rates
  BY <1>1 DEF SelectRate, At, Writes, CachesUnchanged
<1>3. AtRates(y) /\ RunOK(y)
  BY <1>1, <1>2, AtPair DEF Writing
<1>4. CASE Stored(w) = Nothing
  <2>1. PICK x : x = [y EXCEPT !.pc = "insert"]
    OBVIOUS
  <2>2. Becomes(w, x)
    BY <1>1, <1>4, <2>1 DEF SelectRate
  <2>3. /\ x.pc = "insert" /\ SameRun(x, y) /\ SameBatch(x, y)
        /\ x.pairs = y.pairs /\ x.lost = y.lost
    BY <1>3, <2>1 DEF AtRates, Shape, SameRun, SameBatch
  <2>4. /\ BusinessDays(x) = BusinessDays(y) /\ Current(x) = Current(y)
        /\ x.version = y.version /\ x.todo = y.todo
        /\ x.written = y.written /\ x.locked = y.locked
    BY <2>3 DEF BusinessDays, SameRun, SameBatch, Current
  <2>5. /\ BatchOK(y, rates) /\ NoGapYet(y, rates)
        /\ \A k \in Processes \ {w} : Apart(y, job[k])
    BY <1>1 DEF RatesInv
  <2>6. RunOK(x)
    BY <1>2, <1>3, <2>3, <2>4 DEF RunOK, SameRun, Writes, Writing
  <2>7. BatchOK(x, rates)
    BY <1>2, <2>4, <2>5 DEF BatchOK
  <2>8. NoGapYet(x, rates)
    BY <2>3, <2>4, <2>5 DEF NoGapYet, SameRun
  <2>9. \A k \in Processes \ {w} : Apart(x, job[k])
    BY <1>2, <2>4, <2>5 DEF Apart
  <2>. QED BY <1>2, <2>2, <2>6, <2>7, <2>8, <2>9, RatesOneProcess
<1>5. CASE Stored(w) # Nothing
  <2>1. PICK z : z = IF Stored(w) = Incoming(w) THEN Passed(w) ELSE Written(w)
    OBVIOUS
  <2>2. PICK x : x = [z EXCEPT !.locked = @ \cup {d}]
    OBVIOUS
  <2>3. Becomes(w, x) /\ \A k \in Rivals(w) : d \notin job[k].locked
    BY <1>1, <1>5, <2>1, <2>2 DEF SelectRate
  <2>4. /\ AtRates(z) /\ z.pc = "select" /\ SameRun(z, y) /\ z.lost = y.lost
        /\ z.pairs = y.pairs /\ z.todo = y.todo \ {d} /\ z.locked = y.locked
        /\ IF Stored(w) = Incoming(w) THEN z.written = y.written
           ELSE z.written = y.written \cup {d}
    BY <1>1, <1>3, <2>1, PassedFields, WrittenFields
  <2>5. /\ x.pc = "select" /\ SameRun(x, z) /\ x.lost = z.lost
        /\ x.pairs = z.pairs /\ x.todo = z.todo /\ x.written = z.written
        /\ x.locked = z.locked \cup {d}
    BY <2>2, <2>4, LockedFields
  <2>6. SameRun(x, y)
    BY <2>4, <2>5 DEF SameRun
  <2>7. \A k \in Rivals(w) : d \notin job[k].written
    BY <1>1, <1>5, <2>3, WrittenOrLocked DEF Stored
  <2>. QED BY <1>1, <1>2, <1>5, <2>3, <2>4, <2>5, <2>6, <2>7, DateDone
<1>. QED BY <1>4, <1>5

LEMMA InsertInv ==
    ASSUME ClosesInv, RatesInv, NEW w \in Processes, InsertRate(w)
    PROVE  RatesInv'
<1>1. PICK y, d : y = job[w] /\ d = NextDate(w)
  OBVIOUS
<1>2. /\ y.pc = "insert" /\ Writes(y) /\ rates' = rates
      /\ \A k \in Rivals(w) : d \notin job[k].written
  BY <1>1 DEF InsertRate, At, Writes, CachesUnchanged
<1>3. AtRates(y) /\ RunOK(y) /\ y.todo # {}
  BY <1>1, <1>2, AtPair DEF Writing, RunOK
<1>4. CASE Stored(w) # Nothing
  BY <1>1, <1>2, <1>3, <1>4, FailedPairInv DEF InsertRate
<1>5. CASE Stored(w) = Nothing
  <2>1. PICK x : x = Written(w)
    OBVIOUS
  <2>2. Becomes(w, x)
    BY <1>5, <2>1 DEF InsertRate
  <2>3. /\ x.pc = "select" /\ SameRun(x, y) /\ x.lost = y.lost /\ x.pairs = y.pairs
        /\ x.todo = y.todo \ {d} /\ x.written = y.written \cup {d} /\ x.locked = y.locked
    BY <1>1, <1>3, <2>1, WrittenFields
  <2>4. d \notin y.locked
    BY <1>1, <1>2, <1>5, AtPair DEF Writing, RatesInv, BatchOK, Stored
  <2>5. \A k \in Rivals(w) : d \notin job[k].locked
    <3>. SUFFICES ASSUME NEW k \in Rivals(w), d \in job[k].locked PROVE FALSE
      OBVIOUS
    <3>1. k \in Processes /\ Writes(job[k]) /\ Current(job[k]) = CurrentPair(w)
      BY DEF Rivals, Busy, Writes, CurrentPair, Current
    <3>. QED BY <1>1, <1>5, <3>1 DEF RatesInv, BatchOK, Stored
  <2>. QED BY <1>1, <1>2, <1>3, <1>5, <2>2, <2>3, <2>4, <2>5, DateDone
<1>. QED BY <1>4, <1>5

-----------------------------------------------------------------------------
(* A batch becomes visible. *)

LEMMA Published ==
    ASSUME ClosesInv, RatesInv, NEW w \in Processes, CommitBatch(w)
    PROVE  /\ Writes(job[w]) /\ job[w].todo = {}
           /\ \A p \in Pairs, d \in Dates :
                 rates'[p][d] = IF p = CurrentPair(w) /\ d \in job[w].written
                                THEN DailyRate(p, d, job[w].version) ELSE rates[p][d]
           /\ rates' = [p \in Pairs |-> [d \in Dates |-> rates'[p][d]]]
<1>1. PICK p, y : p = CurrentPair(w) /\ y = job[w]
  OBVIOUS
<1>2. rates' = [rates EXCEPT ![p] =
                   [d \in Dates |-> IF d \in y.written
                                    THEN DailyRate(p, d, y.version) ELSE rates[p][d]]]
  BY <1>1, AtPair DEF CommitBatch, Publish, At, Writing, RatesInv, RowsOK
<1>3. rates = [q \in Pairs |-> [d \in Dates |-> rates[q][d]]]
  BY DEF RatesInv, RowsOK
<1>4. \A q \in Pairs, d \in Dates :
          rates'[q][d] = IF q = p /\ d \in y.written
                         THEN DailyRate(q, d, y.version) ELSE rates[q][d]
  BY <1>2, <1>3
<1>5. \A q \in Pairs : rates'[q] = [d \in Dates |-> rates'[q][d]]
  <2>1. ASSUME NEW q \in Pairs PROVE rates'[q] = [d \in Dates |-> rates'[q][d]]
    <3>1. CASE q = p
      BY <1>2, <1>3, <3>1
    <3>2. CASE q # p
      BY <1>2, <1>3, <3>2
    <3>. QED BY <3>1, <3>2
  <2>. QED BY <2>1
<1>6. rates' = [q \in Pairs |-> rates'[q]]
  BY <1>2, <1>3
<1>. QED BY <1>1, <1>4, <1>5, <1>6 DEF CommitBatch, At, Writes

(* Every business day of the range has the rate of the batch's data set.    *)
LEMMA BatchLands ==
    ASSUME ClosesInv, RatesInv, NEW w \in Processes, CommitBatch(w),
           NEW d \in BusinessDays(job[w])
    PROVE  rates'[CurrentPair(w)][d] = DailyRate(CurrentPair(w), d, job[w].version)
<1>1. /\ Writes(job[w]) /\ job[w].todo = {} /\ BatchOK(job[w], rates)
  BY Published DEF RatesInv
<1>2. /\ CurrentPair(w) = Current(job[w]) /\ CurrentPair(w) \in Pairs /\ d \in Dates
  BY <1>1, AtPair DEF Writes, Writing
<1>. QED BY <1>1, <1>2, Published DEF BatchOK

(* A rate that is there stays.                                              *)
LEMMA RatesStay ==
    ASSUME ClosesInv, RatesInv, NEW w \in Processes, CommitBatch(w),
           NEW p \in Pairs, NEW d \in Dates
    PROVE  /\ rates[p][d] # Nothing => rates'[p][d] # Nothing
           /\ p = CurrentPair(w) /\ d \in job[w].written => rates'[p][d] # Nothing
<1>1. /\ RunOK(job[w]) /\ job[w].version \in DOMAIN CodeHash
      /\ \A e \in job[w].written : Quoted(CurrentPair(w), e) /\ e \in Int
  BY Published, AtPair DEF Writes, Writing, RunOK
<1>. QED BY <1>1, Published, RateIsSomething

LEMMA CommitInv ==
    ASSUME ClosesInv, RatesInv, NEW w \in Processes, CommitBatch(w)
    PROVE  RatesInv'
<1>1. PICK y, p : y = job[w] /\ p = CurrentPair(w)
  OBVIOUS
<1>2. /\ Writes(y) /\ AtRates(y) /\ RunOK(y) /\ p = Current(y) /\ p \in Pairs
      /\ BusinessDays(y) \subseteq Dates /\ y.written \subseteq BusinessDays(y)
      /\ y.version \in DOMAIN CodeHash /\ \A d \in BusinessDays(y) : Quoted(p, d)
  BY <1>1, Published, AtPair DEF Writes, Writing, RunOK
<1>3. RowsOK(rates')
  <2>1. ASSUME NEW q \in Pairs, NEW d \in Dates, rates'[q][d] # Nothing
        PROVE  /\ Quoted(q, d)
               /\ \E v \in DOMAIN CodeHash : rates'[q][d] = DailyRate(q, d, v)
    <3>1. CASE q = p /\ d \in y.written
      BY <1>1, <1>2, <3>1, Published
    <3>2. CASE ~(q = p /\ d \in y.written)
      BY <1>1, <2>1, <3>2, Published DEF RatesInv, RowsOK
    <3>. QED BY <3>1, <3>2
  <2>. QED BY <2>1, Published DEF RowsOK
<1>4. PICK z, changed : z = NextPair(w) /\ changed = (z.changed \/ y.written # {})
  OBVIOUS
<1>5. PICK x : x = [z EXCEPT !.changed = changed]
  OBVIOUS
<1>6. /\ AtRates(z) /\ z.pc = "pair" /\ SameRun(z, y) /\ z.lost = y.lost
      /\ z.pairs = y.pairs \ {p}
      /\ z.missing = {} /\ z.todo = {} /\ z.written = {} /\ z.locked = {}
  BY <1>1, <1>2, <1>4, NextPairFields
<1>7. /\ x.pc = "pair" /\ SameRun(x, y) /\ x.lost = y.lost /\ x.pairs = y.pairs \ {p}
      /\ x.todo = {} /\ x.written = {} /\ x.locked = {}
  BY <1>5, <1>6 DEF AtRates, Shape, SameRun
<1>8. Becomes(w, x)
  BY <1>1, <1>4, <1>5 DEF CommitBatch
<1>9. /\ job' = [v \in Processes |-> job'[v]] /\ job'[w] = x
      /\ \A v \in Processes \ {w} : job'[v] = job[v]
  BY <1>8 DEF Becomes, ClosesInv, ShapesOK
<1>10. RunOK(x) /\ ~Writes(x)
  BY <1>2, <1>7 DEF RunOK, SameRun, Writes, Writing, BusinessDays
<1>11. ASSUME NEW v \in Processes PROVE NoGapYet(job[v], rates')
  <2>. SUFFICES ASSUME NEW q \in PairsOf(job[v].currencies) \ (job[v].pairs \cup job[v].lost),
                       NEW d \in BusinessDays(job[v])
       PROVE  rates'[q][d] # Nothing
    BY DEF NoGapYet
  <2>1. RunOK(job[v]) /\ NoGapYet(job[v], rates)
    BY DEF RatesInv
  <2>2. PICK currencies \in SUBSET Currencies : currencies = job[v].currencies
    BY <2>1 DEF RunOK
  <2>3. q \in PairsOf(currencies)
    BY <2>2
  <2>4. q \in Pairs /\ currencies # {}
    BY <2>3, PairFields, NoPairs
  <2>5. d \in Dates
    BY <2>1, <2>2, <2>4 DEF RunOK, BusinessDays
  <2>. QED BY <2>1, <2>4, <2>5, RatesStay DEF NoGapYet
<1>12. NoGapYet(x, rates')
  <2>. SUFFICES ASSUME NEW q \in PairsOf(x.currencies) \ (x.pairs \cup x.lost),
                       NEW d \in BusinessDays(x)
       PROVE  rates'[q][d] # Nothing
    BY DEF NoGapYet
  <2>1. BusinessDays(x) = BusinessDays(y) /\ x.currencies = y.currencies
    BY <1>7 DEF BusinessDays, SameRun
  <2>2. CASE q = p
    <3>1. d \in Int
      BY <1>1, <1>2, <2>1, AtPair DEF Writes, Writing
    <3>. QED BY <1>1, <1>2, <2>1, <2>2, <3>1, BatchLands, RateIsSomething
  <2>3. CASE q # p
    BY <1>1, <1>7, <1>11, <2>1, <2>3 DEF NoGapYet
  <2>. QED BY <2>2, <2>3
<1>13. ASSUME NEW k \in Processes \ {w} PROVE BatchOK(job[k], rates')
  <2>. SUFFICES ASSUME Writes(job[k]) PROVE BatchOK(job[k], rates')
    BY DEF BatchOK
  <2>1. PICK c : c = Current(job[k])
    OBVIOUS
  <2>2. /\ BatchOK(job[k], rates) /\ Apart(y, job[k]) /\ RunOK(job[k])
        /\ BatchOK(y, rates)
    BY <1>1 DEF RatesInv
  <2>3. /\ c \in Pairs /\ BusinessDays(job[k]) \subseteq Dates
        /\ job[k].written \subseteq BusinessDays(job[k])
        /\ job[k].locked \subseteq BusinessDays(job[k])
    BY <2>1, <2>2, AtPair DEF Writes, Writing, RunOK
  <2>4. ASSUME NEW d \in job[k].written PROVE rates'[c][d] = rates[c][d]
    <3>. SUFFICES ASSUME c = p, d \in y.written PROVE FALSE
      BY <1>1, <2>3, Published
    <3>. QED BY <1>2, <2>1, <2>2 DEF Apart
  <2>5. ASSUME NEW d \in job[k].locked PROVE rates'[c][d] = rates[c][d]
    <3>. SUFFICES ASSUME c = p, d \in y.written PROVE FALSE
      BY <1>1, <2>3, Published
    <3>1. d \in y.locked \/ rates[p][d] = Nothing
      BY <1>2, <2>2 DEF BatchOK
    <3>2. rates[p][d] # Nothing /\ d \notin y.locked
      BY <1>2, <2>1, <2>2 DEF BatchOK, Apart
    <3>. QED BY <3>1, <3>2
  <2>. QED BY <2>1, <2>2, <2>4, <2>5 DEF BatchOK
<1>14. ASSUME NEW v \in Processes
       PROVE  RunOK(job'[v]) /\ BatchOK(job'[v], rates') /\ NoGapYet(job'[v], rates')
  BY <1>9, <1>10, <1>11, <1>12, <1>13, NotWriting DEF RatesInv
<1>15. ASSUME NEW v \in Processes, NEW k \in Processes, v # k PROVE Apart(job'[v], job'[k])
  BY <1>9, <1>10, <1>15, NotWriting DEF RatesInv
<1>. QED BY <1>3, <1>14, <1>15 DEF RatesInv

LEMMA NextRates == ClosesInv /\ RatesInv /\ [Next]_vars => RatesInv'
<1>. SUFFICES ASSUME ClosesInv, RatesInv, [Next]_vars PROVE RatesInv'
  OBVIOUS
<1>1. ASSUME NEW w \in Processes, BeginQuotes(w) \/ BeginCloses(w) \/ BeginRates(w) \/ Fail(w)
      PROVE  RatesInv'
  BY <1>1, BeginRatesInv
<1>2. ASSUME NEW w \in Processes,
             \/ AskQuote(w) \/ UpsertQuote(w) \/ FillClose(w) \/ CloseUnavailable(w)
             \/ EndAssets(w) \/ EndRates(w)
      PROVE  RatesInv'
  BY <1>2, AsideSteps
<1>3. ASSUME NEW w \in Processes, SkipPair(w) \/ FetchFails(w) \/ BreakDeadlock(w)
      PROVE  RatesInv'
  <2>1. AtRates(job[w])
    BY <1>3 DEF ClosesInv, ShapesOK, AtRates, OwnJob, Writing, At, Busy,
                SkipPair, FetchFails, BreakDeadlock
  <2>. QED BY <1>3, <2>1, FailedPairInv DEF SkipPair, FetchFails, BreakDeadlock, CachesUnchanged
<1>4. ASSUME NEW w \in Processes,
             FindMissing(w) \/ FetchRates(w) \/ SelectRate(w) \/ InsertRate(w)
      PROVE  RatesInv'
  BY <1>4, FindInv, FetchInv, SelectInv, InsertInv
<1>5. ASSUME NEW w \in Processes, CommitBatch(w) PROVE RatesInv'
  BY <1>5, CommitInv
<1>6. CASE UNCHANGED <<rates, job>>
  BY <1>6 DEF RatesInv
<1>7. ASSUME NEW a \in Deletable, DeleteAsset(a) PROVE RatesInv'
  BY <1>6, <1>7 DEF DeleteAsset
<1>8. CASE UNCHANGED vars
  BY <1>6, <1>8 DEF vars
<1>. QED BY <1>1, <1>2, <1>3, <1>4, <1>5, <1>7, <1>8 DEF Next, Run

-----------------------------------------------------------------------------
(* The answers of the providers: each is stored or superseded, but for the  *)
(* one in hand and those for assets that are gone.                          *)

Heeded(answer) ==
    /\ quote[answer.asset] # Nothing
    /\ quote[answer.asset].asOf >= answer.quote.asOf

AnswersOK(w) ==
    job[w].name = "quotes" =>
        /\ \A answer \in job[w].answers :
              /\ answer.asset \in Assets /\ answer.quote \in Quotes
              /\ \/ Heeded(answer)
                 \/ answer.asset \notin active
                 \/ job[w].pc = "upsert" /\ answer = job[w].hand
        /\ job[w].pc = "upsert" => job[w].hand \in job[w].answers

AnswersInv ==
    /\ \A a \in Assets : quote[a] \in Quotes \cup {Nothing}
    /\ \A w \in Processes : AnswersOK(w)

LEMMA InitAnswers == Init => AnswersInv
<1>. SUFFICES ASSUME Init PROVE AnswersInv
  OBVIOUS
<1>1. PICK deployed \in Deployments : job = [w \in Processes |-> Idle(deployed[w], 0, "none")]
  BY DEF Init
<1>2. \A w \in Processes : deployed[w].name \in {"quotes", "closes", "rates"}
  BY MarketDataAssumptions
<1>3. \A w \in Processes : job[w].pc = "idle" /\ job[w].answers = {}
  BY <1>1, <1>2, IdleShape
<1>. QED BY <1>3 DEF Init, AnswersInv, AnswersOK

(* A step that writes no quote.                                             *)
LEMMA AnswersKept ==
    ASSUME ClosesInv, AnswersInv, NEW w \in Processes, NEW x, Becomes(w, x),
           UNCHANGED <<active, quote>>, AnswersOK(w)'
    PROVE  AnswersInv'
<1>1. \A v \in Processes \ {w} : job'[v] = job[v]
  BY DEF Becomes, ClosesInv, ShapesOK
<1>2. \A v \in Processes : AnswersOK(v)'
  BY <1>1 DEF AnswersInv, AnswersOK, Heeded
<1>. QED BY <1>2 DEF AnswersInv

LEMMA OtherJobs ==
    ASSUME ClosesInv, AnswersInv, NEW w \in Processes, NEW x, Becomes(w, x),
           UNCHANGED <<active, quote>>, x.name # "quotes" \/ (x.pc = "idle" /\ x.answers = {})
    PROVE  AnswersInv'
<1>1. job'[w] = x
  BY DEF Becomes, ClosesInv, ShapesOK
<1>. QED BY <1>1, AnswersKept DEF AnswersOK

LEMMA BeginAnswers ==
    ASSUME ClosesInv, AnswersInv, NEW w \in Processes,
           BeginQuotes(w) \/ BeginCloses(w) \/ BeginRates(w) \/ Fail(w)
    PROVE  AnswersInv'
<1>1. job[w].name \in {"quotes", "closes", "rates"}
  BY DEF ClosesInv, ShapesOK, Shape
<1>2. PICK z : z = Begun(w) /\ Shape(z) /\ z.name = job[w].name /\ z.answers = {}
  BY <1>1, IdleShape DEF Begun
<1>3. UNCHANGED <<active, quote>>
  BY DEF BeginQuotes, BeginCloses, BeginRates, Fail, Begins, CachesUnchanged
<1>4. CASE BeginQuotes(w)
  <2>1. PICK assets, x : assets = Selected /\ x = [z EXCEPT !.pc = "quote", !.assets = assets]
    OBVIOUS
  <2>2. Becomes(w, x)
    BY <1>2, <1>4, <2>1 DEF BeginQuotes
  <2>3. x.pc = "quote" /\ x.answers = {}
    BY <1>2, <2>1 DEF Shape
  <2>4. job'[w] = x
    BY <2>2 DEF Becomes, ClosesInv, ShapesOK
  <2>. QED BY <1>3, <2>2, <2>3, <2>4, AnswersKept DEF AnswersOK
<1>5. CASE BeginCloses(w)
  <2>1. PICK assets, from, to :
            Becomes(w, [z EXCEPT !.pc = "close", !.assets = assets,
                                 !.from = from, !.to = to, !.date = from])
    BY <1>2, <1>5 DEF BeginCloses
  <2>2. PICK x : x = [z EXCEPT !.pc = "close", !.assets = assets,
                               !.from = from, !.to = to, !.date = from]
    OBVIOUS
  <2>3. Becomes(w, x) /\ x.name = "closes"
    BY <1>2, <1>5, <2>1, <2>2 DEF BeginCloses, Begins, Shape
  <2>. QED BY <1>3, <2>3, OtherJobs
<1>6. CASE BeginRates(w)
  <2>1. PICK from, to, currencies, pairs :
            Becomes(w, [z EXCEPT !.pc = "pair", !.from = from, !.to = to,
                                 !.currencies = currencies, !.pairs = pairs])
    BY <1>2, <1>6 DEF BeginRates
  <2>2. PICK x : x = [z EXCEPT !.pc = "pair", !.from = from, !.to = to,
                               !.currencies = currencies, !.pairs = pairs]
    OBVIOUS
  <2>3. Becomes(w, x) /\ x.name = "rates"
    BY <1>2, <1>6, <2>1, <2>2 DEF BeginRates, Begins, Shape
  <2>. QED BY <1>3, <2>3, OtherJobs
<1>7. CASE Fail(w)
  <2>1. PICK x : x = Idle(job[w], job[w].run, "failed")
    OBVIOUS
  <2>2. Becomes(w, x) /\ x.pc = "idle" /\ x.answers = {}
    BY <1>1, <1>7, <2>1, IdleShape DEF Fail
  <2>. QED BY <1>3, <2>2, OtherJobs
<1>. QED BY <1>4, <1>5, <1>6, <1>7

LEMMA AskAnswers ==
    ASSUME ClosesInv, AnswersInv, NEW w \in Processes, AskQuote(w)
    PROVE  AnswersInv'
<1>1. PICK x : /\ Becomes(w, x)
               /\ \/ x.pc = "quote" /\ x.answers = job[w].answers
                  \/ Answered(x, job[w])
  BY AskFields
<1>2. /\ job'[w] = x /\ UNCHANGED <<active, quote>>
      /\ job[w].pc = "quote" /\ job[w].name = "quotes"
  BY <1>1 DEF Becomes, ClosesInv, ShapesOK, AskQuote, CachesUnchanged, At, OwnJob
<1>3. \A answer \in job[w].answers :
          /\ answer.asset \in Assets /\ answer.quote \in Quotes
          /\ Heeded(answer)' \/ answer.asset \notin active'
  BY <1>2 DEF AnswersInv, AnswersOK, Heeded
<1>4. ASSUME NEW a \in Assets, NEW q \in Quotes, x.pc = "upsert",
             x.hand = [asset |-> a, quote |-> q], x.answers = job[w].answers \cup {x.hand}
      PROVE  AnswersOK(w)'
  <2>1. x.hand.asset \in Assets /\ x.hand.quote \in Quotes
    BY <1>4
  <2>. QED BY <1>2, <1>3, <1>4, <2>1 DEF AnswersOK
<1>5. ASSUME x.pc = "quote", x.answers = job[w].answers PROVE AnswersOK(w)'
  BY <1>2, <1>3, <1>5 DEF AnswersOK
<1>. QED BY <1>1, <1>2, <1>4, <1>5, AnswersKept DEF Answered

(* The upsert stores what is in hand, or what is there is not older; and    *)
(* what it replaces was not newer, so that no other answer suffers.         *)
LEMMA UpsertAnswers ==
    ASSUME ClosesInv, AnswersInv, NEW w \in Processes, UpsertQuote(w)
    PROVE  AnswersInv'
<1>1. PICK x : Becomes(w, x) /\ x.pc = "quote" /\ x.answers = job[w].answers
  BY UpsertFields
<1>2. /\ job'[w] = x /\ active' = active /\ job[w].pc = "upsert" /\ job[w].name = "quotes"
      /\ \A v \in Processes \ {w} : job'[v] = job[v]
  BY <1>1 DEF Becomes, ClosesInv, ShapesOK, UpsertQuote, At, OwnJob
<1>3. PICK mine : mine = job[w].hand /\ mine.asset \in Assets /\ mine.quote \in Quotes
  BY <1>2 DEF AnswersInv, AnswersOK
<1>4. /\ quote = [a \in Assets |-> quote[a]]
      /\ \A q \in Quotes : q # Nothing /\ q.asOf \in Int
      /\ \A a \in Assets : quote[a] \in Quotes \cup {Nothing}
  BY MarketDataAssumptions DEF ClosesInv, ShapesOK, AnswersInv
<1>5. quote' = IF mine.asset \in active /\ Overwrites(mine.asset, mine.quote)
               THEN [quote EXCEPT ![mine.asset] = mine.quote] ELSE quote
  BY <1>3 DEF UpsertQuote
<1>6. \A a \in Assets : /\ quote'[a] \in Quotes \cup {Nothing}
                        /\ quote[a] # Nothing =>
                              quote'[a] # Nothing /\ quote'[a].asOf >= quote[a].asOf
  BY <1>3, <1>4, <1>5 DEF Overwrites
<1>7. ASSUME NEW answer, answer.asset \in Assets, answer.quote \in Quotes, Heeded(answer)
      PROVE  Heeded(answer)'
  BY <1>4, <1>6, <1>7 DEF Heeded
<1>8. Heeded(mine)' \/ mine.asset \notin active'
  BY <1>2, <1>3, <1>4, <1>5 DEF Heeded, Overwrites
<1>9. AnswersOK(w)'
  BY <1>1, <1>2, <1>3, <1>7, <1>8 DEF AnswersInv, AnswersOK
<1>10. ASSUME NEW v \in Processes \ {w} PROVE AnswersOK(v)'
  BY <1>2, <1>7 DEF AnswersInv, AnswersOK
<1>. QED BY <1>6, <1>9, <1>10 DEF AnswersInv

LEMMA EndAnswers ==
    ASSUME ClosesInv, AnswersInv, NEW w \in Processes, EndAssets(w) \/ EndRates(w)
    PROVE  AnswersInv'
<1>1. Shape(job[w]) /\ job[w].pc # "upsert" /\ UNCHANGED <<active, quote>>
  BY DEF ClosesInv, ShapesOK, EndAssets, EndRates, CachesUnchanged, At
<1>2. PICK outcome : Becomes(w, Ends(w, outcome))
  BY DEF EndAssets, EndRates
<1>3. PICK x : x = Ends(w, outcome)
  OBVIOUS
<1>4. x.pc = "idle" /\ x.name = job[w].name /\ x.answers = job[w].answers
  BY <1>1, <1>3, EndsShape DEF SameRun
<1>5. Becomes(w, x) /\ job'[w] = x
  BY <1>2, <1>3 DEF Becomes, ClosesInv, ShapesOK
<1>6. AnswersOK(w)'
  BY <1>1, <1>4, <1>5 DEF AnswersInv, AnswersOK, Heeded
<1>. QED BY <1>1, <1>5, <1>6, AnswersKept

LEMMA CloseAnswers ==
    ASSUME ClosesInv, AnswersInv, NEW w \in Processes, FillClose(w) \/ CloseUnavailable(w)
    PROVE  AnswersInv'
<1>1. /\ Shape(job[w]) /\ job[w].name = "closes" /\ CurrentAsset(w) \in job[w].assets
      /\ UNCHANGED <<active, quote>>
  BY DEF ClosesInv, ShapesOK, OwnJob, FillClose, CloseUnavailable, CachesUnchanged, At,
         CurrentAsset
<1>2. \/ Becomes(w, NextClose(w, CurrentAsset(w)))
      \/ Becomes(w, LeaveAsset(w, CurrentAsset(w)))
  BY DEF FillClose, CloseUnavailable
<1>3. /\ NextClose(w, CurrentAsset(w)).name = "closes"
      /\ LeaveAsset(w, CurrentAsset(w)).name = "closes"
  BY <1>1, NextCloseShape, LeaveShape
<1>. QED BY <1>1, <1>2, <1>3, OtherJobs

LEMMA NextAnswers == ClosesInv /\ AnswersInv /\ [Next]_vars => AnswersInv'
<1>. SUFFICES ASSUME ClosesInv, AnswersInv, [Next]_vars PROVE AnswersInv'
  OBVIOUS
<1>1. ASSUME NEW w \in Processes,
             \/ SkipPair(w) \/ FindMissing(w) \/ FetchRates(w) \/ FetchFails(w)
             \/ SelectRate(w) \/ InsertRate(w) \/ CommitBatch(w) \/ BreakDeadlock(w)
      PROVE  AnswersInv'
  <2>1. PICK x : Becomes(w, x) /\ x.name = "rates"
    BY <1>1, RatesMove DEF AtRates
  <2>2. UNCHANGED <<active, quote>>
    BY <1>1 DEF CachesUnchanged, SkipPair, FindMissing, FetchRates, FetchFails, SelectRate,
                InsertRate, CommitBatch, BreakDeadlock
  <2>. QED BY <2>1, <2>2, OtherJobs
<1>2. ASSUME NEW a \in Deletable, DeleteAsset(a) PROVE AnswersInv'
  <2>1. /\ active' = active \ {a} /\ job' = job
        /\ quote = [b \in Assets |-> quote[b]] /\ quote' = [quote EXCEPT ![a] = Nothing]
    BY <1>2 DEF DeleteAsset, ClosesInv, ShapesOK
  <2>. QED BY <2>1 DEF AnswersInv, AnswersOK, Heeded
<1>3. CASE UNCHANGED vars
  BY <1>3 DEF vars, AnswersInv, AnswersOK, Heeded
<1>. QED BY <1>1, <1>2, <1>3, BeginAnswers, AskAnswers, UpsertAnswers, EndAnswers, CloseAnswers
     DEF Next, Run

Inv == ClosesInv /\ RatesInv /\ AnswersInv

LEMMA InvHolds == Spec => []Inv
<1>1. Init => Inv
  BY InitCloses, InitRates, InitAnswers DEF Inv
<1>2. Inv /\ [Next]_vars => Inv'
  BY NextCloses, NextRates, NextAnswers DEF Inv
<1>. QED BY <1>1, <1>2, PTL DEF Spec

-----------------------------------------------------------------------------
(* Three rates of one day and one data set, each off by half a unit: P, Q   *)
(* and R are the values of the three currencies, U the unit of a rate.      *)
LEMMA CrossRounded ==
    ASSUME NEW P \in Nat \ {0}, NEW Q \in Nat \ {0}, NEW R \in Nat \ {0}, NEW U \in Nat \ {0},
           NEW m \in Nat \ {0}, NEW n \in Nat \ {0}, NEW c \in Nat \ {0},
           2 * (P * m) - 2 * (Q * U) <= P, 2 * (Q * U) - 2 * (P * m) <= P,
           2 * (Q * n) - 2 * (R * U) <= Q, 2 * (R * U) - 2 * (Q * n) <= Q,
           2 * (P * c) - 2 * (R * U) <= P, 2 * (R * U) - 2 * (P * c) <= P
    PROVE  Near(m * n, c * U, m + n + U + 1)
<1>1. PICK a \in Int, b \in Int, e \in Int :
          /\ a = 2 * (P * m) - 2 * (Q * U) /\ a <= P /\ -a <= P
          /\ b = 2 * (Q * n) - 2 * (R * U) /\ b <= Q /\ -b <= Q
          /\ e = 2 * (P * c) - 2 * (R * U) /\ e <= P /\ -e <= P
  <2>. /\ P * m \in Int /\ Q * n \in Int /\ P * c \in Int
       /\ Q * U \in Int /\ R * U \in Int
    OBVIOUS
  <2>1. PICK a \in Int : a = 2 * (P * m) - 2 * (Q * U)
    <3>1. 2 * (P * m) - 2 * (Q * U) \in Int
      OBVIOUS
    <3>. QED BY <3>1
  <2>2. PICK b \in Int : b = 2 * (Q * n) - 2 * (R * U)
    <3>1. 2 * (Q * n) - 2 * (R * U) \in Int
      OBVIOUS
    <3>. QED BY <3>1
  <2>3. PICK e \in Int : e = 2 * (P * c) - 2 * (R * U)
    <3>1. 2 * (P * c) - 2 * (R * U) \in Int
      OBVIOUS
    <3>. QED BY <3>1
  <2>4. /\ a <= P /\ -a <= P /\ b <= Q /\ -b <= Q /\ e <= P /\ -e <= P
    BY <2>1, <2>2, <2>3
  <2>. QED BY <2>1, <2>2, <2>3, <2>4
<1>2. PICK g \in Int : g = m * n - c * U
  OBVIOUS
<1>3. 2 * (P * g) = a * n + b * U - e * U
  BY <1>1, <1>2
<1>4. /\ a * n <= P * n /\ -(a * n) <= P * n
      /\ b * U <= Q * U /\ -(b * U) <= Q * U
      /\ e * U <= P * U /\ -(e * U) <= P * U
  BY <1>1
<1>5. 2 * (Q * U) <= 2 * (P * m) + P
  BY <1>1
<1>6. PICK s \in Nat : s = m + n + U
  OBVIOUS
<1>7. P * s = P * m + P * n + P * U
  BY <1>6
<1>8. 4 * (P * g) <= 2 * (P * s) + P /\ -(4 * (P * g)) <= 2 * (P * s) + P
  <2>1. /\ P * g \in Int /\ P * s \in Int /\ P * m \in Int /\ P * n \in Int /\ P * U \in Int
        /\ a * n \in Int /\ b * U \in Int /\ e * U \in Int /\ Q * U \in Int
    OBVIOUS
  <2>. QED BY <1>3, <1>4, <1>5, <1>7, <2>1
<1>9. P * (4 * g) <= P * (2 * s + 1) /\ P * (-(4 * g)) <= P * (2 * s + 1)
  BY <1>8
<1>10. 4 * g <= 2 * s + 1 /\ -(4 * g) <= 2 * s + 1
  <2>1. ASSUME NEW f \in Int, NEW h \in Int, P * f <= P * h PROVE f <= h
    <3>. SUFFICES ASSUME h + 1 <= f PROVE FALSE
      OBVIOUS
    <3>1. P * (h + 1) <= P * f /\ P * (h + 1) = P * h + P
      OBVIOUS
    <3>2. P * h \in Int /\ P * f \in Int
      OBVIOUS
    <3>. QED BY <2>1, <3>1, <3>2
  <2>2. PICK f \in Int, k \in Int, h \in Int : f = 4 * g /\ k = -(4 * g) /\ h = 2 * s + 1
    OBVIOUS
  <2>. QED BY <1>9, <2>1, <2>2
<1>11. 2 * g <= s + 1 /\ -(2 * g) <= s + 1
  BY <1>10
<1>. QED BY <1>2, <1>6, <1>11 DEF Near

LEMMA InverseRounded ==
    ASSUME NEW m \in Nat \ {0} PROVE Near(m * InverseRate(m), RateUnit * RateUnit, m + 1)
<1>1. PICK u \in Nat : u = RateUnit * RateUnit
  BY FxRatesAssumptions
<1>2. PICK k \in Nat, e \in Nat \ {0} : k = 2 * u + m /\ e = 2 * m
  OBVIOUS
<1>3. PICK i \in Nat : i = k \div e /\ e * i <= k /\ k < e * i + e
  BY Quotient
<1>4. e * i = 2 * (m * i) /\ m * i \in Nat
  BY <1>2
<1>5. 2 * RateUnit * RateUnit = 2 * u
  BY <1>1, FxRatesAssumptions
<1>6. i = InverseRate(m)
  BY <1>2, <1>3, <1>5 DEF InverseRate
<1>. QED BY <1>1, <1>2, <1>3, <1>4, <1>6 DEF Near

(* A stored rate is the rounded rate of its data set.                       *)
LEMMA StoredRate ==
    ASSUME RatesInv, NEW p \in Pairs, NEW d \in Dates, rates[p][d] # Nothing
    PROVE  /\ SupportsPair(p) /\ rates[p][d].version \in DOMAIN CodeHash
           /\ rates[p][d].rate = CanonicalRate(p, d, rates[p][d].version)
<1>1. PICK v \in DOMAIN CodeHash : rates[p][d] = DailyRate(p, d, v)
  BY DEF RatesInv, RowsOK
<1>2. rates[p][d].rate = CanonicalRate(p, d, v) /\ rates[p][d].version = v
  BY <1>1 DEF DailyRate
<1>. QED BY <1>2 DEF RatesInv, RowsOK, Quoted

-----------------------------------------------------------------------------
(* The theorems. *)

(* A run that has ended without an error has left no silent gap: every date *)
(* of its range is in asset_price_history_cache for each asset that it did  *)
(* not leave early, and every business day in fx_rate_history_cache for     *)
(* each pair it does not report as failed, whatever other processes write   *)
(* at the same time and whichever assets are deleted.                       *)
THEOREM NoGapGoesUnreported == Spec => []NoUnreportedGap
<1>1. Inv => NoUnreportedGap
  <2>. SUFFICES ASSUME Inv, NEW w \in Processes, Reported(w, "rates"),
                       NEW p \in PairsOf(job[w].currencies) \ job[w].lost,
                       NEW d \in job[w].from .. job[w].to, BusinessDay(d)
       PROVE  rates[p][d] # Nothing
    BY DEF NoUnreportedGap, NoGapInRates, Inv, ClosesInv
  <2>1. job[w].pairs = {} /\ NoGapYet(job[w], rates) /\ d \in BusinessDays(job[w])
    BY DEF Inv, RatesInv, RunOK, Reported, At, Writing, BusinessDays
  <2>. QED BY <2>1 DEF NoGapYet
<1>. QED BY InvHolds, <1>1, PTL

(* The transaction of upsert_bulk lands whole: when rates of a pair change, *)
(* the job that commits them leaves its data set's rate on every business   *)
(* day of its range.  A rival cannot have changed the rows it only looked   *)
(* at, which FOR UPDATE keeps locked.                                       *)
THEOREM BatchesLandWhole == Spec => BatchLandsWhole
<1>. DEFINE Lands ==
        \A p \in Pairs :
            rates'[p] # rates[p] =>
                \E w \in Processes :
                    /\ job'[w] # job[w]
                    /\ \A d \in job[w].from .. job[w].to :
                          BusinessDay(d) => rates'[p][d] = DailyRate(p, d, job[w].version)
<1>1. Inv /\ [Next]_vars => [Lands]_vars
  <2>. SUFFICES ASSUME Inv, Next, NEW p \in Pairs, rates'[p] # rates[p]
       PROVE  \E w \in Processes :
                 /\ job'[w] # job[w]
                 /\ \A d \in job[w].from .. job[w].to :
                       BusinessDay(d) => rates'[p][d] = DailyRate(p, d, job[w].version)
    BY DEF Lands
  <2>1. PICK w \in Processes : CommitBatch(w)
    BY DEF Next, Run, BeginQuotes, BeginCloses, BeginRates, Begins, Fail, AskQuote,
           UpsertQuote, FillClose, CloseUnavailable, EndAssets, SkipPair, FindMissing, FetchRates,
           FetchFails, SelectRate, InsertRate, BreakDeadlock, EndRates, DeleteAsset,
           CachesUnchanged
  <2>2. ClosesInv /\ RatesInv
    BY DEF Inv
  <2>3. p = CurrentPair(w)
    <3>. SUFFICES ASSUME p # CurrentPair(w) PROVE FALSE
      OBVIOUS
    <3>1. /\ rates' = [q \in Pairs |-> [d \in Dates |-> rates'[q][d]]]
          /\ \A d \in Dates : rates'[p][d] = rates[p][d]
      BY <2>1, <2>2, Published
    <3>2. rates = [q \in Pairs |-> [d \in Dates |-> rates[q][d]]]
      BY <2>2 DEF RatesInv, RowsOK
    <3>3. rates'[p] = [d \in Dates |-> rates'[p][d]] /\ rates[p] = [d \in Dates |-> rates[p][d]]
      BY <3>1, <3>2
    <3>. QED BY <3>1, <3>3
  <2>4. job'[w] # job[w]
    <3>1. AtRates(job[w]) /\ job[w].pc = "select"
      BY <2>1, <2>2, AtPair DEF CommitBatch, At, Writing
    <3>2. PICK z, changed : /\ z = NextPair(w)
                            /\ changed = (z.changed \/ job[w].written # {})
      OBVIOUS
    <3>3. PICK x : x = [z EXCEPT !.changed = changed]
      OBVIOUS
    <3>4. AtRates(z) /\ z.pc = "pair"
      BY <3>1, <3>2, NextPairFields
    <3>5. x.pc = "pair"
      BY <3>3, <3>4 DEF AtRates, Shape
    <3>6. job'[w] = x
      BY <2>1, <2>2, <3>2, <3>3 DEF CommitBatch, Becomes, ClosesInv, ShapesOK
    <3>. QED BY <3>1, <3>5, <3>6
  <2>5. \A d \in job[w].from .. job[w].to :
            BusinessDay(d) => rates'[p][d] = DailyRate(p, d, job[w].version)
    BY <2>1, <2>2, <2>3, BatchLands DEF BusinessDays
  <2>. QED BY <2>4, <2>5
<1>. HIDE DEF Lands
<1>2. Spec => [][Lands]_vars
  BY InvHolds, <1>1, PTL DEF Spec
<1>. QED BY <1>2 DEF BatchLandsWhole, Lands

(* After a run without a failed pair, lookup_latest answers on every day of *)
(* the range, weekends included, in both directions, with the rate of the   *)
(* last business day: nothing older shadows it and nothing is stored on a   *)
(* weekend.                                                                 *)
THEOREM LookupsAreCarried == Spec => []LookupsCarryForward
<1>1. Inv => LookupsCarryForward
  <2>. SUFFICES ASSUME Inv, NEW w \in Processes, Reported(w, "rates"), job[w].lost = {},
                       NEW p \in PairsOf(job[w].currencies),
                       NEW d \in job[w].from .. job[w].to,
                       NEW e \in job[w].from .. d, BusinessDay(e), d - e <= MaxCarryDays,
                       NEW source \in {p.base, p.quote}
       PROVE  LET target == IF source = p.base THEN p.quote ELSE p.base
                  hit == LookupLatest(rates[p], source, target, d)
              IN hit.found /\ hit.date = LatestBusinessDay(d)
    BY DEF LookupsCarryForward
  <2>1. PICK x : x = job[w]
    OBVIOUS
  <2>2. /\ Shape(x) /\ RunOK(x) /\ x.pairs = {} /\ NoGapYet(x, rates) /\ x.lost = {}
    BY <2>1 DEF Inv, ClosesInv, ShapesOK, RatesInv, RunOK, Reported, At, Writing
  <2>3. PICK currencies \in SUBSET Currencies : currencies = x.currencies
    BY <2>2 DEF RunOK
  <2>4. /\ p \in Pairs /\ p.base # p.quote /\ currencies # {}
    BY <2>1, <2>3, PairFields, NoPairs
  <2>5. PICK from \in Int, to \in Int : from = x.from /\ to = x.to /\ from .. to \subseteq Dates
    BY <2>2, <2>3, <2>4 DEF Shape, RunOK
  <2>6. /\ d \in Int /\ from <= d /\ d <= to /\ e \in Int /\ from <= e /\ e <= d
    BY <2>1, <2>5
  <2>7. rates[p] = [f \in Dates |-> rates[p][f]]
    BY <2>4 DEF Inv, RatesInv, RowsOK
  <2>. DEFINE past == {f \in Dates : rates[p][f] # Nothing /\ f <= d}
              days == {f \in Dates : f <= d /\ BusinessDay(f)}
  <2>8. Dates \subseteq Int
    BY MarketDataAssumptions DEF Dates
  <2>9. past \subseteq days
    BY <2>4 DEF Inv, RatesInv, RowsOK, Quoted
  <2>10. \A f \in days : from <= f => f \in past
    BY <2>1, <2>2, <2>4, <2>5, <2>6, <2>8 DEF NoGapYet, BusinessDays
  <2>11. e \in days /\ e \in past
    BY <2>5, <2>6, <2>10
  <2>12. /\ days \subseteq Int /\ \A f \in days : f <= d
    BY <2>8
  <2>13. PICK last \in days : last = Max(days) /\ \A f \in days : f <= last
    <3>. HIDE DEF days, past
    <3>. QED BY <2>6, <2>11, <2>12, MaxOfDates
  <2>14. last \in past
    BY <2>6, <2>10, <2>11, <2>12, <2>13
  <2>15. last = Max(past)
    <3>1. Max(past) \in past /\ \A f \in past : f <= Max(past)
      <4>1. past \subseteq Int /\ \A f \in past : f <= d
        BY <2>9, <2>12
      <4>. HIDE DEF days, past
      <4>. QED BY <2>6, <2>11, <4>1, MaxOfDates
    <3>2. last <= Max(past) /\ Max(past) <= last /\ last \in Int /\ Max(past) \in Int
      BY <2>9, <2>12, <2>13, <2>14, <3>1
    <3>. QED BY <3>2
  <2>16. last = LatestBusinessDay(d)
    BY <2>13 DEF LatestBusinessDay
  <2>17. ~TooOld(d - last)
    <3>1. e <= last /\ last \in Int
      BY <2>11, <2>12, <2>13
    <3>2. MaxCarryDays \in Nat
      BY FxRatesAssumptions
    <3>. QED BY <2>6, <3>1, <3>2 DEF TooOld
  <2>18. PICK target : target = IF source = p.base THEN p.quote ELSE p.base
    OBVIOUS
  <2>19. source # target
    BY <2>4, <2>18
  <2>20. past = {f \in DOMAIN rates[p] : rates[p][f] # Nothing /\ f <= d}
    BY <2>7
  <2>21. PICK rate : LookupLatest(rates[p], source, target, d)
                       = [found |-> TRUE, date |-> last, rate |-> rate]
    <3>. HIDE DEF days
    <3>. QED BY <2>11, <2>15, <2>17, <2>19, <2>20 DEF LookupLatest
  <2>. QED BY <2>16, <2>18, <2>21
<1>. QED BY InvHolds, <1>1, PTL

(* Rates of one day and data set agree up to what rounding allows, however  *)
(* jobs of two releases have mixed in the cache: through a third currency,  *)
(* and there and back with the generated column inverse_rate.               *)
THEOREM CrossRatesAlwaysAgree == Spec => []CrossRatesAgree
<1>1. RatesInv => CrossRatesAgree
  <2>. SUFFICES ASSUME RatesInv, NEW p \in Pairs, NEW q \in Pairs, p.quote = q.base,
                       NEW c, c = CanonicalPair(p.base, q.quote), NEW d \in Dates,
                       Nothing \notin {rates[p][d], rates[q][d], rates[c][d]},
                       rates[p][d].version = rates[q][d].version,
                       rates[p][d].version = rates[c][d].version
       PROVE  LET m == rates[p][d].rate
                  n == rates[q][d].rate
              IN /\ Near(m * n, rates[c][d].rate * RateUnit, m + n + RateUnit + 1)
                 /\ Near(m * InverseRate(m), RateUnit * RateUnit, m + 1)
    BY DEF CrossRatesAgree
  <2>1. /\ p.base \in Currencies /\ q.quote \in Currencies /\ p.quote \in Currencies
        /\ Rank[p.base] < Rank[p.quote] /\ Rank[q.base] < Rank[q.quote]
    BY PairFields DEF Pairs
  <2>2. Rank[p.base] < Rank[q.quote]
    BY <2>1, FxRatesAssumptions
  <2>3. c = [base |-> p.base, quote |-> q.quote] /\ p.base # q.quote
    BY <2>1, <2>2, FxRatesAssumptions DEF CanonicalPair
  <2>4. SupportsPair(p) /\ SupportsPair(q)
    BY StoredRate
  <2>5. c.base = p.base /\ c.quote = q.quote /\ SupportsPair(c)
    BY <2>3, <2>4 DEF SupportsPair
  <2>6. c \in Pairs
    <3>1. c # Nothing
      BY <2>1, <2>3, FxRatesAssumptions
    <3>. QED BY <2>1, <3>1 DEF Pairs, PairsOf
  <2>7. PICK v \in DOMAIN CodeHash :
            /\ rates[p][d].version = v
            /\ rates[p][d].rate = CanonicalRate(p, d, v)
            /\ rates[q][d].rate = CanonicalRate(q, d, v)
            /\ rates[c][d].rate = CanonicalRate(c, d, v)
    BY <2>6, StoredRate
  <2>8. d \in Int
    BY MarketDataAssumptions DEF Dates
  <2>9. PICK P, Q, R, U : /\ P = DailyValue(p.base, d, v) /\ Q = DailyValue(q.base, d, v)
                          /\ R = DailyValue(q.quote, d, v) /\ U = RateUnit
    OBVIOUS
  <2>10. PICK m, n, e : /\ m = CanonicalRate(p, d, v) /\ n = CanonicalRate(q, d, v)
                        /\ e = CanonicalRate(c, d, v)
    OBVIOUS
  <2>11. /\ m \in Nat \ {0} /\ P \in Nat \ {0} /\ Q \in Nat \ {0}
         /\ 2 * (P * m) - 2 * (Q * U) <= P /\ 2 * (Q * U) - 2 * (P * m) <= P
    BY <2>4, <2>8, <2>9, <2>10, RateRounded
  <2>12. /\ n \in Nat \ {0} /\ R \in Nat \ {0}
         /\ 2 * (Q * n) - 2 * (R * U) <= Q /\ 2 * (R * U) - 2 * (Q * n) <= Q
    BY <2>4, <2>8, <2>9, <2>10, RateRounded
  <2>13. /\ e \in Nat \ {0}
         /\ 2 * (P * e) - 2 * (R * U) <= P /\ 2 * (R * U) - 2 * (P * e) <= P
    BY <2>5, <2>6, <2>8, <2>9, <2>10, RateRounded
  <2>14. U \in Nat \ {0}
    BY <2>9, FxRatesAssumptions
  <2>15. Near(m * n, e * U, m + n + U + 1)
    BY <2>11, <2>12, <2>13, <2>14, CrossRounded
  <2>16. Near(m * InverseRate(m), U * U, m + 1)
    BY <2>9, <2>11, InverseRounded
  <2>. QED BY <2>7, <2>9, <2>10, <2>15, <2>16
<1>. QED BY InvHolds, <1>1, PTL DEF Inv

(* A run of refresh_current_market_data that has ended leaves each asset it *)
(* got a quote for with that quote or one that is not older, unless the     *)
(* asset is gone: no late upsert of another process takes the newest        *)
(* observation away, with answers of any age and any number of processes.   *)
THEOREM NewestAnswerStays == Spec => []NoAnswerIsLost
<1>1. Inv => NoAnswerIsLost
  BY DEF Inv, AnswersInv, AnswersOK, Heeded, NoAnswerIsLost, Reported, At
<1>. QED BY InvHolds, <1>1, PTL
=============================================================================
