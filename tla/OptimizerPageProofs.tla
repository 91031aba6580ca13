------------------------ MODULE OptimizerPageProofs ------------------------
(* Proofs about OptimizerPage, for any texts, usage and bounds: what is       *)
(* applied is what was shown, and what is shown of a trial agrees.            *)
EXTENDS OptimizerPage, TotalsProofs, SequenceTheorems

-----------------------------------------------------------------------------
(* The input of a summary is the total over its categories.                  *)

LEMMA InputIs ==
  ASSUME NEW t \in [Keys -> Nat], NEW s, s.tokens = t
  PROVE  /\ Input(s) \in Nat
         /\ Input(s) = t["input"] + t["cached_input"] + t["cache_write"] + t["cache_write_1h"]
<1> DEFINE f == [k \in InputKeys |-> t[k]]
           D1 == InputKeys \ {"input"}
           D2 == D1 \ {"cached_input"}
           D3 == D2 \ {"cache_write"}
           D4 == D3 \ {"cache_write_1h"}
<1>1. IsFiniteSet(InputKeys)
  <2>1. /\ IsFiniteSet({}) /\ IsFiniteSet({} \cup {"input"})
        /\ IsFiniteSet(({} \cup {"input"}) \cup {"cached_input"})
        /\ IsFiniteSet((({} \cup {"input"}) \cup {"cached_input"}) \cup {"cache_write"})
        /\ IsFiniteSet(((({} \cup {"input"}) \cup {"cached_input"}) \cup {"cache_write"}) \cup {"cache_write_1h"})
    BY FS_EmptySet, FS_AddElement
  <2>2. InputKeys = ((({} \cup {"input"}) \cup {"cached_input"}) \cup {"cache_write"}) \cup {"cache_write_1h"}
    BY DEF InputKeys
  <2>3. QED
    BY <2>1, <2>2
<1>2. Input(s) = TotalOf(f)
  BY DEF Input
<1>3. f \in [InputKeys -> Nat] /\ f \in [InputKeys -> Int] /\ Only(f, InputKeys) = f
      /\ DOMAIN f = InputKeys
  BY DEF Keys, Only
<1>4. f["input"] = t["input"] /\ f["cached_input"] = t["cached_input"]
      /\ f["cache_write"] = t["cache_write"] /\ f["cache_write_1h"] = t["cache_write_1h"]
  BY DEF InputKeys
<1>5. t["input"] \in Nat /\ t["cached_input"] \in Nat /\ t["cache_write"] \in Nat
      /\ t["cache_write_1h"] \in Nat
  BY DEF Keys, InputKeys
<1>6. /\ InputKeys \in SUBSET InputKeys /\ "input" \in InputKeys
      /\ D1 \in SUBSET InputKeys /\ "cached_input" \in D1
      /\ D2 \in SUBSET InputKeys /\ "cache_write" \in D2
      /\ D3 \in SUBSET InputKeys /\ "cache_write_1h" \in D3
      /\ D4 = {}
  BY DEF InputKeys
<1> HIDE DEF f
<1>7. \A u \in SUBSET InputKeys : \A k \in u : TotalOf(Only(f, u)) = f[k] + TotalOf(Only(f, u \ {k}))
  <2>1. \A k \in DOMAIN f : f[k] \in Int
    BY <1>3
  <2>2. QED
    BY <1>1, <1>3, <2>1, SumRemove
<1>8. TotalOf(Only(f, {})) = 0
  BY SumEmpty DEF Only
<1>9. TotalOf(f) = f["input"] + (f["cached_input"] + (f["cache_write"] + (f["cache_write_1h"] + 0)))
  <2>1. TotalOf(f) = f["input"] + TotalOf(Only(f, D1))
    BY <1>3, <1>6, <1>7
  <2>2. TotalOf(Only(f, D1)) = f["cached_input"] + TotalOf(Only(f, D2))
    BY <1>6, <1>7
  <2>3. TotalOf(Only(f, D2)) = f["cache_write"] + TotalOf(Only(f, D3))
    BY <1>6, <1>7
  <2>4. TotalOf(Only(f, D3)) = f["cache_write_1h"] + TotalOf(Only(f, D4))
    BY <1>6, <1>7
  <2> HIDE DEF D1, D2, D3, D4
  <2>5. QED
    BY <2>1, <2>2, <2>3, <2>4, <1>6, <1>8
<1>10. QED
  BY <1>2, <1>4, <1>5, <1>9

-----------------------------------------------------------------------------
(* Averages as fractions.                                                    *)

\* The average of the whole is not below every part's, and not above it: parts
\* without responses have no input.
LEMMA AverageBetween ==
  ASSUME NEW D, IsFiniteSet(D), NEW a \in [D -> Nat], NEW n \in [D -> Nat],
         \A x \in D : n[x] = 0 => a[x] = 0, \E x \in D : n[x] > 0
  PROVE  /\ \E x \in D : n[x] > 0 /\ a[x] * TotalOf(n) <= TotalOf(a) * n[x]
         /\ \E x \in D : n[x] > 0 /\ TotalOf(a) * n[x] <= a[x] * TotalOf(n)
<1> DEFINE A == TotalOf(a)
           N == TotalOf(n)
           f == [x \in D |-> N * a[x]]
           g == [x \in D |-> A * n[x]]
<1>1. A \in Nat /\ N \in Nat /\ \A x \in D : a[x] \in Nat /\ n[x] \in Nat
  BY SumNat
<1>2. a \in [D -> Int] /\ n \in [D -> Int]
  OBVIOUS
<1>3. TotalOf(f) = N * A /\ TotalOf(g) = A * N
  BY <1>1, <1>2, SumScale
<1> HIDE DEF A, N
<1>4. TotalOf(f) = TotalOf(g)
  BY <1>1, <1>3
<1>5. f \in [D -> Int] /\ g \in [D -> Int]
  BY <1>1
<1>6. \A x \in D : f[x] = N * a[x] /\ g[x] = A * n[x] /\ f[x] \in Int /\ g[x] \in Int
  BY <1>1
<1> HIDE DEF f, g
<1>7. TotalOf(f) \in Int
  BY <1>5, SumInt
<1>8. \A x \in D : n[x] = 0 => f[x] = g[x]
  <2>1. ASSUME NEW x \in D, n[x] = 0 PROVE f[x] = g[x]
    <3>1. a[x] = 0
      BY <2>1
    <3>2. f[x] = N * 0 /\ g[x] = A * 0
      BY <1>6, <2>1, <3>1
    <3>3. QED
      BY <1>1, <3>2
  <2>2. QED
    BY <2>1
<1>9. PICK y \in D : n[y] > 0
  OBVIOUS
<1>10. \E x \in D : n[x] > 0 /\ f[x] <= g[x]
  <2>1. SUFFICES ASSUME \A x \in D : n[x] > 0 => g[x] < f[x] PROVE FALSE
    BY <1>6
  <2>2. (\A x \in D : g[x] <= f[x]) /\ g[y] < f[y]
    BY <1>1, <1>6, <1>8, <1>9, <2>1
  <2>3. TotalOf(g) < TotalOf(f)
    BY <1>5, <2>2, SumMonotone
  <2>4. QED
    BY <1>4, <1>7, <2>3
<1>11. \E x \in D : n[x] > 0 /\ g[x] <= f[x]
  <2>1. SUFFICES ASSUME \A x \in D : n[x] > 0 => f[x] < g[x] PROVE FALSE
    BY <1>6
  <2>2. (\A x \in D : f[x] <= g[x]) /\ f[y] < g[y]
    BY <1>1, <1>6, <1>8, <1>9, <2>1
  <2>3. TotalOf(f) < TotalOf(g)
    BY <1>5, <2>2, SumMonotone
  <2>4. QED
    BY <1>4, <1>7, <2>3
<1>12. \A x \in D : N * a[x] = a[x] * N
  BY <1>1
<1>13. QED
  BY <1>6, <1>10, <1>11, <1>12 DEF A, N

\* p/q <= a/b and a/b <= c/d give p/q <= c/d.
LEMMA FractionOrder ==
  ASSUME NEW p \in Nat, NEW q \in Nat, NEW a \in Nat, NEW b \in Nat, b > 0,
         NEW c \in Nat, NEW d \in Nat, p * b <= a * q, a * d <= c * b
  PROVE  p * d <= c * q
<1>1. \A x, y, k \in Nat : x <= y => x * k <= y * k
  OBVIOUS
<1>2. \A x, y \in Nat : x * y \in Nat
  OBVIOUS
<1>3. (p * b) * d <= (a * q) * d /\ (a * d) * q <= (c * b) * q
  BY <1>1, <1>2
<1>4. (a * q) * d = (a * d) * q
  OBVIOUS
<1>5. (p * b) * d = (p * d) * b /\ (c * b) * q = (c * q) * b
  OBVIOUS
<1>6. (p * d) * b <= (c * q) * b
  BY <1>2, <1>3, <1>4, <1>5
<1>7. \A x, y \in Nat : x * b <= y * b => x <= y
  OBVIOUS
<1>8. QED
  BY <1>2, <1>6, <1>7

\* Fractions <<amount, positive count>> of which none is the highest have no end.
LEMMA HighestFraction ==
  ASSUME NEW H, IsFiniteSet(H), H # {},
         \A f \in H : f[1] \in Nat /\ f[2] \in Nat \ {0}
  PROVE  \E f \in H : \A g \in H : g[1] * f[2] <= f[1] * g[2]
<1> DEFINE Highest(f, s) == \A g \in s : g[1] * f[2] <= f[1] * g[2]
           Good == {s \in SUBSET H : s = {} \/ \E f \in s : Highest(f, s)}
<1>1. {} \in Good
  OBVIOUS
<1>2. \A s \in SUBSET H : s # {} /\ (\A x \in s : s \ {x} \in Good) => s \in Good
  <2>1. SUFFICES ASSUME NEW s \in SUBSET H, NEW x \in s, s \ {x} \in Good
                 PROVE  \E f \in s : Highest(f, s)
    OBVIOUS
  <2>2. CASE s \ {x} = {}
    <3>1. \A g \in s : g = x
      BY <2>2
    <3>2. x[1] * x[2] <= x[1] * x[2]
      BY <2>1
    <3>3. QED
      BY <3>1, <3>2
  <2>3. CASE s \ {x} # {}
    <3>1. PICK f \in s \ {x} : Highest(f, s \ {x})
      BY <2>1, <2>3
    <3>2. /\ f[1] \in Nat /\ f[2] \in Nat /\ f[2] > 0
          /\ x[1] \in Nat /\ x[2] \in Nat /\ x[2] > 0
      BY <3>1
    <3>3. CASE x[1] * f[2] <= f[1] * x[2]
      <4>1. Highest(f, s)
        BY <3>1, <3>3
      <4>2. QED
        BY <4>1
    <3>4. CASE f[1] * x[2] <= x[1] * f[2]
      <4>1. ASSUME NEW g \in s PROVE g[1] * x[2] <= x[1] * g[2]
        <5>1. CASE g = x
          BY <3>2, <5>1
        <5>2. CASE g # x
          <6>1. g[1] * f[2] <= f[1] * g[2] /\ g[1] \in Nat /\ g[2] \in Nat
            BY <3>1, <5>2
          <6>2. ASSUME NEW p \in Nat, NEW q \in Nat, NEW a \in Nat, NEW b \in Nat, b > 0,
                       NEW c \in Nat, NEW d \in Nat,
                       p * b <= a * q, a * d <= c * b
                PROVE  p * d <= c * q
            BY <6>2, FractionOrder
          <6>3. QED
            BY <3>2, <3>4, <6>1, <6>2
        <5>3. QED
          BY <5>1, <5>2
      <4>2. QED
        BY <4>1
    <3>5. QED
      BY <3>2, <3>3, <3>4
  <2>4. QED
    BY <2>2, <2>3
<1>3. H \in Good
  <2> HIDE DEF Good
  <2>1. QED
    BY <1>1, <1>2, SubsetInduction
<1>4. QED
  BY <1>3

-----------------------------------------------------------------------------
(* What is invariant.                                                        *)

Trial ==
  [before : Texts, status : {"prepared", "active", "restoring", "restored"},
   beforeRating : {0} \cup Ratings, rating : {0} \cup Ratings,
   outcome : {"unknown", "good", "regression"}, baseline : Baselines, started : BOOLEAN,
   hours : Seq(Summaries)]

Diagnoses == [plan : Plans, ready : BOOLEAN, fresh : BOOLEAN]

\* The server never calls limited settings ready for the change.
ServerOK ==
  /\ settings \in Plans /\ doctor \in Diagnoses
  /\ doctor.ready => ~doctor.plan.limited
  /\ trials \in Seq(Trial)

ViewOK(view) ==
  /\ view.trial \in Trial
  /\ JudgedAlike(view) /\ SameCost(view) /\ SameHours(view)

\* A report is of a state the server was in: it has no trial the server has not.
ReportOK(r, n) ==
  /\ r.some = TRUE /\ r.plan \in Plans
  /\ \E m \in 0 .. n : r.views = [id \in 1 .. m |-> r.views[id]]
  /\ \A id \in DOMAIN r.views : ViewOK(r.views[id])

Requests ==
  [action : {"diagnose"}, phase : {"sent"}]
    \cup [action : {"apply"}, phase : {"sent"}, plan : Plans, rating : {0} \cup Ratings]
    \cup [action : {"restore"}, phase : {"sent"}, id : Nat]
    \cup [action : {"rate"}, phase : {"sent"}, id : Nat, rating : Ratings,
          outcome : {"unknown", "good", "regression", "keep"}]

PostOK(n) ==
  \/ post = NoPost
  \/ post \in Requests
  \/ post.phase = "done" /\ ReportOK(post.report, n)
  \/ post.phase = "failed"

PageOK(n) ==
  /\ page = [state |-> page.state, busy |-> page.busy]
  /\ page.busy = (post # NoPost)
  /\ page.state = NoReport \/ ReportOK(page.state, n)

PollsOK(n) ==
  /\ DOMAIN polls = Polls
  /\ \A i \in Polls :
       /\ polls[i] = [phase |-> polls[i].phase, report |-> polls[i].report]
       /\ IF polls[i].phase = "answered" THEN ReportOK(polls[i].report, n)
          ELSE polls[i].phase \in {"free", "sent"} /\ polls[i].report = NoReport

CountersOK == clicks \in 0 .. MaxClicks /\ events \in 0 .. MaxEvents

IInv ==
  /\ ServerOK
  /\ PostOK(Len(trials)) /\ PageOK(Len(trials)) /\ PollsOK(Len(trials))
  /\ CountersOK

-----------------------------------------------------------------------------
(* The verdicts and the costs of one trial.                                  *)

\* The caveats about quality, of two summaries with responses.
LEMMA QualitySignals ==
  ASSUME NEW a, NEW b, NEW options
  PROVE  LET s == Signals(a, b, options) IN
         /\ s \subseteq Messages
         /\ "no_usage" \notin s =>
              /\ "quality_regression" \in s <=> QualityRegression(options)
              /\ "quality_unknown" \in s <=> ~QualityRegression(options) /\ QualityUnknown(options)
              /\ "price_gap" \in s => ~(Priced(a) /\ Priced(b))
         /\ "price_gap" \in s => "no_usage" \notin s
<1> DEFINE x == Measure(a)
           y == Measure(b)
           both == x.cost # <<>> /\ y.cost # <<>>
           raised ==
             [more_total_input |-> x.input * y.requests > y.input * x.requests /\ y.input > x.input,
              less_input_more_cost |-> both /\ y.input < x.input /\ y.cost[1] > x.cost[1],
              more_responses |-> y.requests > x.requests,
              price_gap |-> ~both,
              different_windows |-> x.hours # <<>> /\ y.hours # <<>> /\ x.hours # y.hours,
              different_models |-> a.models # b.models,
              quality_regression |-> QualityRegression(options),
              quality_unknown |-> ~QualityRegression(options) /\ QualityUnknown(options),
              coverage_gap |-> options.incomplete]
           none == x.requests = 0 \/ y.requests = 0
<1>1. Signals(a, b, options) = IF none THEN {"no_usage"} ELSE {signal \in DOMAIN raised : raised[signal]}
  BY DEF Signals
<1>2. DOMAIN raised = {"more_total_input", "less_input_more_cost", "more_responses", "price_gap",
                       "different_windows", "different_models", "quality_regression",
                       "quality_unknown", "coverage_gap"}
  OBVIOUS
<1>3. /\ raised["price_gap"] = ~both
      /\ raised["quality_regression"] = QualityRegression(options)
      /\ raised["quality_unknown"] = (~QualityRegression(options) /\ QualityUnknown(options))
  OBVIOUS
<1>4. ~both => ~(Priced(a) /\ Priced(b))
  BY DEF Measure
<1> HIDE DEF raised, both, none
<1>5. CASE none
  BY <1>1, <1>5 DEF Messages
<1>6. CASE ~none
  <2>1. Signals(a, b, options) = {signal \in DOMAIN raised : raised[signal]}
    BY <1>1, <1>6
  <2>2. Signals(a, b, options) \subseteq Messages
    BY <2>1, <1>2 DEF Messages
  <2>3. "no_usage" \notin Signals(a, b, options)
    BY <2>1, <1>2
  <2>4. /\ "quality_regression" \in Signals(a, b, options) <=> QualityRegression(options)
        /\ "quality_unknown" \in Signals(a, b, options)
             <=> ~QualityRegression(options) /\ QualityUnknown(options)
        /\ "price_gap" \in Signals(a, b, options) => ~both
    BY <2>1, <1>2, <1>3
  <2>5. QED
    BY <2>2, <2>3, <2>4, <1>4
<1>7. QED
  BY <1>5, <1>6

LEMMA ViewsJudgedAlike == ASSUME NEW trial \in Trial PROVE JudgedAlike(View(trial))
<1> DEFINE v == View(trial)
           Judged(s) ==
             /\ s \subseteq Messages
             /\ "no_usage" \notin s =>
                  /\ v.assessment = "regression" => "quality_regression" \in s
                  /\ v.assessment = "rate first" => "quality_unknown" \in s
                  /\ v.assessment = "compare" => "quality_regression" \notin s
<1>1. v.trial = trial /\ v.assessment = Assessment(trial)
  BY DEF View
<1>2. Assessment(trial) \in Translated
  BY DEF Assessment, Translated
<1>3. \A language \in {"en", "ko"} : message(v.assessment, language)[1] = language
  BY <1>1, <1>2 DEF message
<1>4. ASSUME NEW incomplete \in BOOLEAN
      PROVE  Judged(Signals(v.trial.baseline, v.after, TrialOptions(v.trial, incomplete)))
  <2> DEFINE options == TrialOptions(trial, incomplete)
             s == Signals(v.trial.baseline, v.after, options)
  <2>1. /\ trial.beforeRating \in Int /\ trial.rating \in Nat
        /\ options.before = trial.beforeRating /\ options.after = trial.rating
        /\ options.outcome = trial.outcome
    <3>1. /\ trial.beforeRating \in {0} \cup Ratings /\ trial.rating \in {0} \cup Ratings
      BY DEF Trial
    <3>2. /\ options.before = trial.beforeRating /\ options.after = trial.rating
          /\ options.outcome = trial.outcome
      BY DEF TrialOptions
    <3> HIDE DEF options
    <3>3. \A rating \in {0} \cup Ratings : rating \in Nat /\ rating \in Int
      BY RatingAssumption DEF RatingAssumption
    <3>4. QED
      BY <3>1, <3>2, <3>3
  <2>2. QualityRegression(options)
          <=> trial.outcome = "regression" \/ trial.rating \in 1 .. trial.beforeRating - 1
    BY <2>1 DEF QualityRegression
  <2>3. Assessment(trial) = "regression" => QualityRegression(options)
    BY <2>2 DEF Assessment
  <2>4. Assessment(trial) \in {"rate first", "compare"} => ~QualityRegression(options)
    BY <2>2 DEF Assessment
  <2>5. Assessment(trial) = "rate first" => QualityUnknown(options)
    <3>1. Assessment(trial) = "rate first" => trial.rating = 0 \/ trial.outcome = "unknown"
      BY DEF Assessment
    <3>2. QED
      BY <3>1, <2>1 DEF QualityUnknown
  <2>6. /\ s \subseteq Messages
        /\ "no_usage" \notin s =>
             /\ "quality_regression" \in s <=> QualityRegression(options)
             /\ "quality_unknown" \in s <=> ~QualityRegression(options) /\ QualityUnknown(options)
    BY QualitySignals
  <2> HIDE DEF v, s, options
  <2>7. Judged(s)
    BY <1>1, <2>3, <2>4, <2>5, <2>6
  <2>8. QED
    BY <1>1, <2>7 DEF s, options
<1>5. QED
  BY <1>3, <1>4 DEF JudgedAlike

-----------------------------------------------------------------------------
(* The totals of a trial.                                                    *)

LEMMA HoursOf ==
  ASSUME NEW trial \in Trial
  PROVE  /\ trial.hours \in Seq(Summaries) /\ IsFiniteSet(DOMAIN trial.hours)
         /\ DOMAIN trial.hours = 1 .. Len(trial.hours) /\ Len(trial.hours) \in Nat
         /\ \A i \in DOMAIN trial.hours :
              /\ trial.hours[i].tokens \in [Keys -> Nat] /\ trial.hours[i].requests \in Nat
              /\ trial.hours[i].usd \in Nat /\ trial.hours[i].unpriced \in Nat
              /\ trial.hours[i].requests = 0 => \A k \in Keys : trial.hours[i].tokens[k] = 0
<1>1. trial.hours \in Seq(Summaries)
  BY DEF Trial
<1>2. Len(trial.hours) \in Nat /\ DOMAIN trial.hours = 1 .. Len(trial.hours)
  BY <1>1
<1>3. IsFiniteSet(1 .. Len(trial.hours))
  BY <1>2, FS_Interval
<1>4. \A i \in DOMAIN trial.hours : trial.hours[i] \in Summaries
  BY <1>1, <1>2
<1>5. QED
  BY <1>1, <1>2, <1>3, <1>4 DEF Summaries

LEMMA AfterIs ==
  ASSUME NEW trial \in Trial
  PROVE  LET hours == trial.hours
             a == After(trial) IN
         /\ a.tokens \in [Keys -> Nat] /\ a.requests \in Nat /\ a.usd \in Nat /\ a.unpriced \in Nat
         /\ a.requests = TotalOf([i \in DOMAIN hours |-> hours[i].requests])
         /\ Input(a) = TotalOf([i \in DOMAIN hours |-> Input(hours[i])])
         /\ \A i \in DOMAIN hours : Input(hours[i]) \in Nat
         /\ \A i \in DOMAIN hours : hours[i].requests = 0 => Input(hours[i]) = 0
<1> DEFINE hours == trial.hours
           D == DOMAIN hours
           a == After(trial)
           f(k) == [i \in D |-> hours[i].tokens[k]]
<1>1. /\ a.tokens = [k \in Keys |-> TotalOf(f(k))]
      /\ a.requests = TotalOf([i \in D |-> hours[i].requests])
      /\ a.usd = TotalOf([i \in D |-> hours[i].usd])
      /\ a.unpriced = TotalOf([i \in D |-> hours[i].unpriced])
  BY DEF After
<1>2. IsFiniteSet(D) /\ \A i \in D : /\ hours[i].tokens \in [Keys -> Nat]
                                     /\ hours[i].requests \in Nat
                                     /\ hours[i].usd \in Nat /\ hours[i].unpriced \in Nat
                                     /\ hours[i].requests = 0 => \A k \in Keys : hours[i].tokens[k] = 0
  BY HoursOf
<1> HIDE DEF D, a, hours
<1>3. \A k \in Keys : f(k) \in [D -> Nat] /\ f(k) \in [D -> Int]
  BY <1>2
<1>4. \A k \in Keys : TotalOf(f(k)) \in Nat
  BY <1>2, <1>3, SumNat
<1>5. a.tokens \in [Keys -> Nat]
  BY <1>1, <1>4
<1>6. a.requests \in Nat /\ a.usd \in Nat /\ a.unpriced \in Nat
  <2>1. [i \in D |-> hours[i].requests] \in [D -> Nat] /\ [i \in D |-> hours[i].usd] \in [D -> Nat]
        /\ [i \in D |-> hours[i].unpriced] \in [D -> Nat]
    BY <1>2
  <2>2. QED
    BY <1>1, <1>2, <2>1, SumNat
<1>7. ASSUME NEW i \in D
      PROVE  /\ Input(hours[i]) \in Nat
             /\ Input(hours[i]) = hours[i].tokens["input"] + hours[i].tokens["cached_input"]
                                    + hours[i].tokens["cache_write"] + hours[i].tokens["cache_write_1h"]
  BY <1>2, InputIs
<1>8. ASSUME NEW i \in D, hours[i].requests = 0
      PROVE  Input(hours[i]) = 0
  BY <1>2, <1>7, <1>8 DEF Keys, InputKeys
<1>9. Input(a) = TotalOf([i \in D |-> Input(hours[i])])
  <2> DEFINE f1 == f("input")
             f2 == f("cached_input")
             f3 == f("cache_write")
             f4 == f("cache_write_1h")
             g2 == [i \in D |-> f1[i] + f2[i]]
             g3 == [i \in D |-> g2[i] + f3[i]]
             g4 == [i \in D |-> g3[i] + f4[i]]
  <2>1. Input(a) = a.tokens["input"] + a.tokens["cached_input"] + a.tokens["cache_write"]
                     + a.tokens["cache_write_1h"]
    BY <1>5, InputIs
  <2>2. /\ a.tokens["input"] = TotalOf(f1) /\ a.tokens["cached_input"] = TotalOf(f2)
        /\ a.tokens["cache_write"] = TotalOf(f3) /\ a.tokens["cache_write_1h"] = TotalOf(f4)
    BY <1>1 DEF Keys, InputKeys
  <2>3. f1 \in [D -> Int] /\ f2 \in [D -> Int] /\ f3 \in [D -> Int] /\ f4 \in [D -> Int]
    BY <1>3 DEF Keys, InputKeys
  <2>4. \A i \in D : /\ f1[i] = hours[i].tokens["input"] /\ f2[i] = hours[i].tokens["cached_input"]
                     /\ f3[i] = hours[i].tokens["cache_write"]
                     /\ f4[i] = hours[i].tokens["cache_write_1h"]
    OBVIOUS
  <2> HIDE DEF f1, f2, f3, f4
  <2>5. /\ g2 \in [D -> Int] /\ g2 = [i \in D |-> f1[i] + f2[i]]
        /\ \A i \in D : g2[i] = f1[i] + f2[i]
    BY <2>3
  <2> HIDE DEF g2
  <2>6. /\ g3 \in [D -> Int] /\ g3 = [i \in D |-> g2[i] + f3[i]]
        /\ \A i \in D : g3[i] = g2[i] + f3[i]
    BY <2>3, <2>5
  <2> HIDE DEF g3
  <2>7. g4 = [i \in D |-> g3[i] + f4[i]] /\ \A i \in D : g4[i] = g3[i] + f4[i]
    OBVIOUS
  <2>8. TotalOf(g2) = TotalOf(f1) + TotalOf(f2)
    BY <1>2, <2>3, <2>5, SumAdd
  <2>9. TotalOf(g3) = TotalOf(g2) + TotalOf(f3)
    BY <1>2, <2>3, <2>5, <2>6, SumAdd
  <2>10. TotalOf(g4) = TotalOf(g3) + TotalOf(f4)
    BY <1>2, <2>3, <2>6, <2>7, SumAdd, SMTT(30)
  <2>11. g4 = [i \in D |-> Input(hours[i])]
    <3>1. \A i \in D : g4[i] = Input(hours[i])
      BY <1>7, <2>4, <2>5, <2>6, <2>7
    <3>2. QED
      BY <3>1
  <2>12. QED
    BY <2>1, <2>2, <2>8, <2>9, <2>10, <2>11
<1>10. QED
  BY <1>1, <1>5, <1>6, <1>7, <1>8, <1>9 DEF D, a, hours

\* The cost of a priced summary is its amount, and of any other one is missing.
LEMMA ViewsSameCost == ASSUME NEW trial \in Trial PROVE SameCost(View(trial))
<1> DEFINE v == View(trial)
           a == v.trial.baseline
           b == v.after
           card == TrialCard(v)
           s(incomplete) == Signals(a, b, TrialOptions(v.trial, incomplete))
<1>1. card.delta = TrialDelta(v) /\ card.money = <<Money(a), Money(b)>>
      /\ card.comparison = Comparison(a, b)
  BY DEF TrialCard
<1>2. /\ v.trial = trial /\ b = After(trial)
  BY DEF View
<1>3. /\ a.requests \in Nat /\ b.requests \in Nat /\ a.usd \in Nat /\ b.usd \in Nat
      /\ a.unpriced \in Nat /\ b.unpriced \in Nat
  <2>1. a \in Summaries
    BY <1>2, FiguresAssumption DEF FiguresAssumption, Trial
  <2>2. QED
    BY <1>2, <2>1, AfterIs DEF Summaries
<1>4. TrialDelta(v) = IF a.requests > 0 /\ b.requests > 0 /\ a.unpriced = 0 /\ b.unpriced = 0 /\ a.usd > 0
                      THEN <<<<b.usd - a.usd, a.usd>>>> ELSE <<>>
  BY DEF TrialDelta
<1>5. Comparison(a, b).cost = Shown(Measure(a), Measure(b), Measure(a).cost, Measure(b).cost)
  BY DEF Comparison
<1>6. /\ Measure(a).requests = a.requests /\ Measure(b).requests = b.requests
      /\ Measure(a).cost = IF Priced(a) THEN <<a.usd>> ELSE <<>>
      /\ Measure(b).cost = IF Priced(b) THEN <<b.usd>> ELSE <<>>
  BY DEF Measure
<1>7. \A incomplete \in BOOLEAN : "price_gap" \in s(incomplete) => ~(Priced(a) /\ Priced(b))
  BY QualitySignals
<1>0. SameCost(v) <=> /\ card.delta = card.comparison.cost
                      /\ \A incomplete \in BOOLEAN :
                           "price_gap" \in s(incomplete) => \E k \in {1, 2} : card.money[k] = <<>>
  BY DEF SameCost
<1> HIDE DEF v, a, b, s, card
<1>8. Comparison(a, b).cost = TrialDelta(v)
  BY <1>3, <1>4, <1>5, <1>6 DEF Shown, Delta, Priced
<1>9. ~(Priced(a) /\ Priced(b)) => \E k \in {1, 2} : card.money[k] = <<>>
  <2>1. (~Priced(a) => Money(a) = <<>>) /\ (~Priced(b) => Money(b) = <<>>)
    <3>1. a.requests > 0 \/ a.requests = 0
      BY <1>3
    <3>2. b.requests > 0 \/ b.requests = 0
      BY <1>3
    <3>3. a.unpriced > 0 \/ a.unpriced = 0
      BY <1>3
    <3>4. b.unpriced > 0 \/ b.unpriced = 0
      BY <1>3
    <3>5. QED
      BY <3>1, <3>2, <3>3, <3>4 DEF Money, Priced
  <2>2. card.money[1] = Money(a) /\ card.money[2] = Money(b)
    BY <1>1
  <2>3. QED
    BY <2>1, <2>2
<1>10. QED
  BY <1>0, <1>1, <1>7, <1>8, <1>9 DEF v

\* The graph of the hours, its averages and its running total.
LEMMA ViewsSameHours == ASSUME NEW trial \in Trial PROVE SameHours(View(trial))
<1> DEFINE v == View(trial)
           hours == trial.hours
           D == DOMAIN hours
           b == After(trial)
           base == trial.baseline
           card == TrialCard(v)
           n == [i \in D |-> hours[i].requests]
           a == [i \in D |-> Input(hours[i])]
           used == {h \in D : hours[h].requests > 0}
           bars == [h \in used |-> Average(hours[h])[1]]
           heights == {<<1, 1>>} \cup {bars[h] : h \in used} \cup ToSet(Average(base))
           full == CHOOSE f \in heights : \A g \in heights : ~Above(g, f)
<1>1. /\ v.trial = trial /\ v.after = b
      /\ card.chart = Chart(v) /\ card.timeline = Timeline(hours)
  BY DEF View, TrialCard
<1>2. Chart(v) = IF used = {} THEN <<>> ELSE <<[bars |-> bars, full |-> full]>>
  BY <1>1 DEF Chart
<1>3. /\ IsFiniteSet(D) /\ D = 1 .. Len(hours) /\ Len(hours) \in Nat
      /\ \A i \in D : hours[i].requests \in Nat /\ Input(hours[i]) \in Nat
      /\ \A i \in D : hours[i].requests = 0 => Input(hours[i]) = 0
      /\ b.requests \in Nat /\ b.requests = TotalOf(n) /\ Input(b) = TotalOf(a)
  BY HoursOf, AfterIs
<1>4. /\ n \in [D -> Nat] /\ a \in [D -> Nat]
      /\ \A i \in D : n[i] = hours[i].requests /\ a[i] = Input(hours[i])
  BY <1>3
<1>5. base.requests \in Nat /\ Input(base) \in Nat
  <2>1. base \in Summaries
    BY FiguresAssumption DEF FiguresAssumption, Trial
  <2>2. base.tokens \in [Keys -> Nat] /\ base.requests \in Nat
    BY <2>1 DEF Summaries
  <2>3. QED
    BY <2>2, InputIs
<1>6. \A h \in used : bars[h] = <<Input(hours[h]), hours[h].requests>>
  BY DEF Average
<1>7. SameHours(v) <=>
        /\ (card.chart = <<>>) = (b.requests = 0)
        /\ card.chart # <<>> =>
             LET shown == card.chart[1].bars IN
             /\ \E h \in DOMAIN shown : ~Above(shown[h], Average(b)[1])
             /\ \E h \in DOMAIN shown : ~Above(Average(b)[1], shown[h])
             /\ \A h \in DOMAIN shown : ~Above(shown[h], card.chart[1].full)
             /\ card.timeline[Len(card.timeline)].input = Input(b)
  BY <1>1 DEF SameHours
<1> HIDE DEF v, b, card, n, a
<1>8. (used = {}) <=> (b.requests = 0)
  <2>1. ASSUME used = {} PROVE b.requests = 0
    <3>1. \A i \in D : n[i] = 0
      BY <1>3, <1>4, <2>1
    <3>2. QED
      BY <1>3, <1>4, <3>1, SumNat
  <2>2. ASSUME NEW i \in used PROVE b.requests # 0
    <3>1. n[i] <= TotalOf(n) /\ TotalOf(n) \in Nat /\ n[i] > 0 /\ n[i] \in Nat
      BY <1>3, <1>4, SumNat
    <3>2. QED
      BY <1>3, <3>1
  <2>3. QED
    BY <2>1, <2>2
<1>0. /\ used \in SUBSET D /\ DOMAIN bars = used
      /\ \A h \in D : h \in used <=> hours[h].requests > 0
      /\ \A h \in used : bars[h] \in heights
  OBVIOUS
<1> HIDE DEF used, bars, heights, full
<1>9. CASE used = {}
  BY <1>1, <1>2, <1>7, <1>8, <1>9 DEF v
<1>10. CASE used # {}
  <2>1. card.chart # <<>> /\ card.chart[1].bars = bars /\ card.chart[1].full = full
    BY <1>1, <1>2, <1>10
  <2>3. Average(b) = <<<<Input(b), b.requests>>>> /\ b.requests > 0
    BY <1>3, <1>8, <1>10 DEF Average
  <2>4. /\ \E h \in used : a[h] * TotalOf(n) <= TotalOf(a) * n[h]
        /\ \E h \in used : TotalOf(a) * n[h] <= a[h] * TotalOf(n)
    <3>1. (\A i \in D : n[i] = 0 => a[i] = 0) /\ (\E i \in D : n[i] > 0)
      BY <1>0, <1>3, <1>4, <1>10
    <3>2. \A h \in D : n[h] > 0 => h \in used
      BY <1>0, <1>4
    <3>3. /\ \E h \in D : n[h] > 0 /\ a[h] * TotalOf(n) <= TotalOf(a) * n[h]
          /\ \E h \in D : n[h] > 0 /\ TotalOf(a) * n[h] <= a[h] * TotalOf(n)
      BY <1>3, <1>4, <3>1, AverageBetween
    <3>4. QED
      BY <3>2, <3>3
  <2>5. \A h \in used : /\ bars[h][1] = a[h] /\ bars[h][2] = n[h]
                        /\ a[h] \in Nat /\ n[h] \in Nat /\ n[h] > 0
    <3>1. SUFFICES ASSUME NEW h \in used
                   PROVE  /\ bars[h][1] = a[h] /\ bars[h][2] = n[h]
                          /\ a[h] \in Nat /\ n[h] \in Nat /\ n[h] > 0
      OBVIOUS
    <3>2. h \in D /\ hours[h].requests > 0
      BY <1>0
    <3>3. QED
      BY <1>3, <1>4, <1>6, <3>2
  <2>6. TotalOf(a) \in Nat /\ TotalOf(n) \in Nat
    BY <1>3, <1>4, SumNat
  <2>7. Average(b)[1][1] = TotalOf(a) /\ Average(b)[1][2] = TotalOf(n)
    BY <1>3, <2>3
  <2>8. \A x, y \in Nat : \A p, q \in Nat : x * q <= p * y <=> ~(x * q > p * y)
    OBVIOUS
  <2>9. /\ \E h \in used : ~Above(bars[h], Average(b)[1])
        /\ \E h \in used : ~Above(Average(b)[1], bars[h])
    BY <2>4, <2>5, <2>6, <2>7, <2>8 DEF Above
  <2>10. \A h \in used : ~Above(bars[h], full)
    <3> DEFINE shown == {bars[h] : h \in used}
    <3>1. heights = {<<1, 1>>} \cup shown \cup ToSet(Average(base))
      BY DEF heights
    <3>2. ToSet(Average(base)) \subseteq {<<Input(base), base.requests>>}
          /\ (base.requests = 0 => ToSet(Average(base)) = {})
      BY DEF ToSet, Average
    <3>3. IsFiniteSet(heights)
      <4>1. IsFiniteSet(used)
        BY <1>0, <1>3, FS_Subset
      <4>2. bars \in Surjection(used, shown)
        BY <1>0, <1>6 DEF Surjection, bars
      <4>3. IsFiniteSet(shown)
        BY <4>1, <4>2, FS_Surjection
      <4> HIDE DEF shown
      <4>4. IsFiniteSet(shown \cup {<<1, 1>>})
        BY <4>3, FS_AddElement
      <4>5. IsFiniteSet((shown \cup {<<1, 1>>}) \cup {<<Input(base), base.requests>>})
        BY <4>4, FS_AddElement
      <4>6. heights \in SUBSET ((shown \cup {<<1, 1>>}) \cup {<<Input(base), base.requests>>})
        BY <3>1, <3>2
      <4>7. QED
        BY <4>5, <4>6, FS_Subset
    <3>4. ASSUME NEW f \in heights
          PROVE  f[1] \in Nat /\ f[2] \in Nat \ {0}
      <4>1. CASE f = <<1, 1>>
        BY <4>1
      <4>2. CASE f \in shown
        BY <2>5, <4>2
      <4>3. CASE f \in ToSet(Average(base))
        BY <1>5, <3>2, <4>3
      <4>4. QED
        BY <3>1, <4>1, <4>2, <4>3
    <3>5. PICK f \in heights : \A g \in heights : g[1] * f[2] <= f[1] * g[2]
      <4>1. heights # {}
        BY <3>1
      <4>2. QED
        BY <3>3, <3>4, <4>1, HighestFraction
    <3>6. \A g \in heights : ~Above(g, f)
      BY <2>8, <3>4, <3>5 DEF Above
    <3>7. \A g \in heights : ~Above(g, full)
      BY <3>6 DEF full
    <3>8. QED
      BY <1>0, <3>7
  <2>11. card.timeline[Len(card.timeline)].input = Input(b)
    <3>1. Len(hours) \in 1 .. Len(hours) /\ Len(hours) \in Nat
      BY <1>0, <1>3, <1>10
    <3>2. /\ DOMAIN Timeline(hours) = 1 .. Len(hours)
          /\ Timeline(hours)[Len(hours)].input = TotalOf([j \in D |-> Input(hours[j])])
      BY <1>3, <3>1 DEF Timeline
    <3>3. Len(Timeline(hours)) = Len(hours)
      BY <3>1, <3>2, LenProperties DEF Timeline
    <3>4. QED
      BY <1>1, <1>3, <3>2, <3>3 DEF a
  <2>12. QED
    BY <1>0, <1>7, <1>8, <1>10, <2>1, <2>9, <2>10, <2>11 DEF v
<1>11. QED
  BY <1>9, <1>10 DEF v

-----------------------------------------------------------------------------
(* The server: its answers are reports of what it has.                       *)

LEMMA ServerReports == ServerOK => ReportOK(Report, Len(trials))
<1> SUFFICES ASSUME ServerOK PROVE ReportOK(Report, Len(trials))
  OBVIOUS
<1>1. Report.some = TRUE /\ Report.plan = doctor.plan
      /\ Report.views = [id \in DOMAIN trials |-> View(trials[id])]
  BY DEF Report
<1>2. doctor.plan \in Plans /\ trials \in Seq(Trial)
  BY DEF ServerOK, Diagnoses
<1>3. DOMAIN trials = 1 .. Len(trials) /\ Len(trials) \in Nat
      /\ \A id \in DOMAIN trials : trials[id] \in Trial
  BY <1>2
<1>4. ASSUME NEW trial \in Trial PROVE ViewOK(View(trial))
  <2>1. View(trial).trial = trial
    BY DEF View
  <2>2. QED
    BY <2>1, ViewsJudgedAlike, ViewsSameCost, ViewsSameHours DEF ViewOK
<1>5. \A id \in DOMAIN Report.views : ViewOK(Report.views[id])
  BY <1>1, <1>3, <1>4
<1>6. Report.views = [id \in 1 .. Len(trials) |-> Report.views[id]]
      /\ Len(trials) \in 0 .. Len(trials)
  BY <1>1, <1>3
<1>7. QED
  BY <1>1, <1>2, <1>5, <1>6 DEF ReportOK

LEMMA ServerReportsNext == (ServerOK => ReportOK(Report, Len(trials)))'
BY ServerReports, PTL

LEMMA ReportKept ==
  ASSUME NEW r, NEW n \in Nat, NEW m \in Nat, n <= m, ReportOK(r, n)
  PROVE  ReportOK(r, m)
<1>1. 0 .. n \subseteq 0 .. m
  OBVIOUS
<1>2. QED
  BY <1>1 DEF ReportOK

\* The trials are changed in place, and one is added at the end.
LEMMA TrialReplaced ==
  ASSUME trials \in Seq(Trial), NEW id \in DOMAIN trials, NEW t \in Trial,
         trials' = [trials EXCEPT ![id] = t]
  PROVE  trials' \in Seq(Trial) /\ Len(trials') = Len(trials)
<1>1. QED
  BY ExceptSeq

\* A trial that enters the journal replaces the settings that were previewed.
LEMMA TrialEnters ==
  ASSUME ServerOK, NEW request, request.rating \in {0} \cup Ratings, AppliedOn(request),
         NEW status \in {"prepared", "active", "restoring", "restored"}, Entered(request, status),
         settings' \in {settings, [settings EXCEPT !.limited = TRUE]}, doctor' = doctor
  PROVE  /\ ServerOK' /\ Len(trials') = Len(trials) + 1
         /\ request.plan = [text |-> trials'[Len(trials')].before, limited |-> FALSE]
<1>1. PICK baseline \in Baselines : trials' = Append(trials,
           [before |-> settings.text, status |-> status, beforeRating |-> request.rating,
            rating |-> 0, outcome |-> "unknown", baseline |-> baseline, started |-> FALSE,
            hours |-> <<>>])
  BY DEF Entered
<1> DEFINE t == [before |-> settings.text, status |-> status, beforeRating |-> request.rating,
                 rating |-> 0, outcome |-> "unknown", baseline |-> baseline, started |-> FALSE,
                 hours |-> <<>>]
<1>2. settings \in Plans /\ doctor \in Diagnoses
      /\ (doctor.ready => ~doctor.plan.limited) /\ trials \in Seq(Trial)
  BY DEF ServerOK
<1>3. t \in Trial
  <2>1. settings.text \in Texts /\ <<>> \in Seq(Summaries)
    BY <1>2 DEF Plans
  <2>2. QED
    BY <2>1 DEF Trial
<1>4. settings = doctor.plan /\ request.plan = settings /\ doctor.ready
  BY DEF AppliedOn, Previewed
<1>5. settings = [text |-> settings.text, limited |-> FALSE]
  BY <1>2, <1>4 DEF Plans
<1>6. t.before = settings.text
  OBVIOUS
<1> HIDE DEF t
<1>7. trials' \in Seq(Trial) /\ Len(trials') = Len(trials) + 1 /\ trials'[Len(trials')] = t
  BY <1>1, <1>2, <1>3, AppendProperties DEF t
<1>8. settings' \in Plans
  <2>1. [settings EXCEPT !.limited = TRUE] \in Plans
    BY <1>2 DEF Plans
  <2>2. QED
    BY <1>2, <2>1
<1>9. QED
  BY <1>2, <1>4, <1>5, <1>6, <1>7, <1>8 DEF ServerOK

LEMMA ServerApplies ==
  ASSUME ServerOK, NEW request, request.rating \in {0} \cup Ratings, ServerApply(request)
  PROVE  /\ ServerOK' /\ Len(trials') = Len(trials) + 1
         /\ request.plan = [text |-> trials'[Len(trials')].before, limited |-> FALSE]
<1>1. /\ AppliedOn(request) /\ Entered(request, "active") /\ doctor' = doctor
      /\ settings' \in {settings, [settings EXCEPT !.limited = TRUE]}
  BY DEF ServerApply
<1>2. QED
  BY <1>1, TrialEnters

\* One field of a trial changes, and the settings with it.
LEMMA StatusChanges ==
  ASSUME ServerOK, NEW id \in DOMAIN trials,
         NEW status \in {"prepared", "active", "restoring", "restored"},
         trials' = [trials EXCEPT ![id].status = status],
         settings' \in {settings, Restored(id)}
  PROVE  settings' \in Plans /\ trials' \in Seq(Trial) /\ Len(trials') = Len(trials)
<1>1. settings \in Plans /\ trials \in Seq(Trial) /\ trials[id] \in Trial
  BY DEF ServerOK
<1> DEFINE t == [trials[id] EXCEPT !.status = status]
<1>2. t \in Trial
  BY <1>1 DEF Trial
<1>3. trials' = [trials EXCEPT ![id] = t]
  OBVIOUS
<1>4. Restored(id) \in Plans
  BY <1>1 DEF Restored, Plans, Trial
<1> HIDE DEF t
<1>5. trials' \in Seq(Trial) /\ Len(trials') = Len(trials)
  BY <1>1, <1>2, <1>3, TrialReplaced
<1>6. QED
  BY <1>1, <1>4, <1>5

LEMMA ServerRestores ==
  ASSUME ServerOK, NEW id, ServerRestore(id)
  PROVE  ServerOK' /\ Len(trials') = Len(trials)
<1>1. settings \in Plans /\ trials \in Seq(Trial) /\ id \in DOMAIN trials
  BY DEF ServerOK, ServerRestore
<1>2. /\ settings' \in Plans
      /\ trials' \in Seq(Trial) /\ Len(trials') = Len(trials)
  <2>1. CASE trials[id].status = "restored"
    BY <1>1, <2>1 DEF ServerRestore
  <2>2. CASE trials[id].status # "restored"
    <3>1. trials' = [trials EXCEPT ![id].status = "restored"] /\ settings' = Restored(id)
      BY <2>2 DEF ServerRestore
    <3>2. QED
      BY <1>1, <3>1, StatusChanges
  <2>3. QED
    BY <2>1, <2>2
<1>3. doctor' = [plan |-> settings', ready |-> ~settings'.limited, fresh |-> TRUE]
  BY DEF ServerRestore
<1>4. doctor' \in Diagnoses /\ (doctor'.ready => ~doctor'.plan.limited)
  BY <1>2, <1>3 DEF Plans, Diagnoses
<1>5. QED
  BY <1>2, <1>4 DEF ServerOK

\* A write that fails half-way leaves a trial that is prepared or restoring.
LEMMA ServerFailing ==
  ASSUME ServerOK, NEW request,
         request.action = "apply" => request.rating \in {0} \cup Ratings, ServerFails(request)
  PROVE  /\ ServerOK'
         /\ \/ Len(trials') = Len(trials)
            \/ /\ Len(trials') = Len(trials) + 1
               /\ request.plan = [text |-> trials'[Len(trials')].before, limited |-> FALSE]
<1>1. doctor' = doctor
  BY DEF ServerFails
<1>2. CASE /\ request.action = "apply" /\ AppliedOn(request) /\ Entered(request, "prepared")
           /\ settings' \in {settings, [settings EXCEPT !.limited = TRUE]}
  BY <1>1, <1>2, TrialEnters
<1>3. CASE /\ request.id \in Live
           /\ trials' = [trials EXCEPT ![request.id].status = "restoring"]
           /\ settings' \in {settings, Restored(request.id)}
  <2>1. request.id \in DOMAIN trials
    BY <1>3 DEF Live
  <2>2. settings' \in Plans /\ trials' \in Seq(Trial) /\ Len(trials') = Len(trials)
    BY <1>3, <2>1, StatusChanges
  <2>3. QED
    BY <1>1, <2>2 DEF ServerOK
<1>4. QED
  BY <1>2, <1>3 DEF ServerFails

LEMMA ServerRates ==
  ASSUME ServerOK, NEW id, NEW rating \in Ratings,
         NEW outcome \in {"unknown", "good", "regression", "keep"}, ServerRate(id, rating, outcome)
  PROVE  ServerOK' /\ Len(trials') = Len(trials)
<1>1. settings \in Plans /\ trials \in Seq(Trial) /\ id \in DOMAIN trials /\ trials[id] \in Trial
  BY DEF ServerOK, ServerRate
<1> DEFINE o == IF outcome = "keep" THEN "good" ELSE outcome
           t == [trials[id] EXCEPT !.rating = rating, !.outcome = o]
<1>2. o \in {"unknown", "good", "regression"}
  OBVIOUS
<1> HIDE DEF o
<1>3. t \in Trial
  BY <1>1, <1>2 DEF Trial
<1>4. trials' = [trials EXCEPT ![id] = t]
  BY <1>1 DEF ServerRate, o
<1> HIDE DEF t
<1>5. trials' \in Seq(Trial) /\ Len(trials') = Len(trials)
  BY <1>1, <1>3, <1>4, TrialReplaced
<1>6. settings' = settings /\ doctor' = doctor
  BY DEF ServerRate
<1>7. QED
  BY <1>5, <1>6 DEF ServerOK

LEMMA ServerDiagnoses ==
  ASSUME ServerOK, ServerDiagnose
  PROVE  ServerOK' /\ Len(trials') = Len(trials)
<1>1. settings' = settings /\ trials' = trials
      /\ doctor' = [plan |-> settings, ready |-> ~settings.limited, fresh |-> TRUE]
  BY DEF ServerDiagnose, Diagnosis
<1>2. doctor' \in Diagnoses /\ (doctor'.ready => ~doctor'.plan.limited)
  BY <1>1 DEF ServerOK, Plans, Diagnoses
<1>3. QED
  BY <1>1, <1>2 DEF ServerOK

-----------------------------------------------------------------------------
(* Every step keeps the invariant.                                           *)

\* What is held of the server's trials stays right when they become more.
LEMMA HeldKept ==
  ASSUME IInv, ServerOK', Len(trials) <= Len(trials')
  PROVE  /\ post' = post => PostOK(Len(trials))'
         /\ page' = page /\ (post' = NoPost <=> post = NoPost) => PageOK(Len(trials))'
         /\ polls' = polls => PollsOK(Len(trials))'
<1>1. Len(trials) \in Nat /\ Len(trials') \in Nat
  BY DEF IInv, ServerOK
<1>2. \A r : ReportOK(r, Len(trials)) => ReportOK(r, Len(trials'))
  BY <1>1, ReportKept
<1>3. PostOK(Len(trials)) /\ PageOK(Len(trials)) /\ PollsOK(Len(trials))
  BY DEF IInv
<1>4. ASSUME post' = post PROVE PostOK(Len(trials))'
  BY <1>2, <1>3, <1>4 DEF PostOK
<1>5. ASSUME page' = page, post' = NoPost <=> post = NoPost PROVE PageOK(Len(trials))'
  BY <1>2, <1>3, <1>5 DEF PageOK
<1>6. ASSUME polls' = polls PROVE PollsOK(Len(trials))'
  <2>1. SUFFICES ASSUME NEW i \in Polls
                 PROVE  /\ polls[i] = [phase |-> polls[i].phase, report |-> polls[i].report]
                        /\ IF polls[i].phase = "answered" THEN ReportOK(polls[i].report, Len(trials'))
                           ELSE polls[i].phase \in {"free", "sent"} /\ polls[i].report = NoReport
    BY <1>3, <1>6 DEF PollsOK
  <2>2. QED
    BY <1>2, <1>3 DEF PollsOK
<1>7. QED
  BY <1>4, <1>5, <1>6

\* A step that leaves the server alone.
LEMMA ServerIdle ==
  ASSUME IInv, UNCHANGED server
  PROVE  ServerOK' /\ Len(trials) <= Len(trials') /\ Len(trials') = Len(trials)
<1>1. settings' = settings /\ doctor' = doctor /\ trials' = trials
  BY DEF server
<1>2. Len(trials) \in Nat
  BY DEF IInv, ServerOK
<1>3. QED
  BY <1>1, <1>2 DEF IInv, ServerOK

LEMMA InitInv == Init => IInv
<1> SUFFICES ASSUME Init PROVE IInv
  OBVIOUS
<1>1. PICK text \in Texts : settings = [text |-> text, limited |-> FALSE] /\ doctor = Diagnosis
  BY DEF Init
<1>2. trials = <<>> /\ <<>> \in Seq(Trial) /\ Len(<<>>) = 0
  BY DEF Init
<1>3. ServerOK
  <2>1. settings \in Plans /\ settings.limited = FALSE
    BY <1>1 DEF Plans
  <2>2. doctor = [plan |-> settings, ready |-> TRUE, fresh |-> TRUE]
    BY <1>1, <2>1 DEF Diagnosis
  <2>3. QED
    BY <1>2, <2>1, <2>2 DEF ServerOK, Diagnoses
<1>4. PostOK(Len(trials)) /\ PageOK(Len(trials))
  BY DEF Init, PostOK, PageOK
<1>5. PollsOK(Len(trials))
  <2>1. polls = [i \in Polls |-> [phase |-> "free", report |-> NoReport]]
    BY DEF Init
  <2>2. QED
    BY <2>1 DEF PollsOK
<1>6. CountersOK
  BY BoundsAssumption DEF Init, CountersOK, BoundsAssumption
<1>7. QED
  BY <1>3, <1>4, <1>5, <1>6 DEF IInv

\* A step that changes one read.
LEMMA PollChanged ==
  ASSUME IInv, NEW i \in Polls, NEW q, polls' = [polls EXCEPT ![i] = q], Len(trials') = Len(trials),
         q = [phase |-> q.phase, report |-> q.report],
         IF q.phase = "answered" THEN ReportOK(q.report, Len(trials))
         ELSE q.phase \in {"free", "sent"} /\ q.report = NoReport
  PROVE  PollsOK(Len(trials))'
<1>1. DOMAIN polls = Polls
  BY DEF IInv, PollsOK
<1>2. DOMAIN polls' = Polls /\ polls'[i] = q /\ \A j \in Polls : j # i => polls'[j] = polls[j]
  BY <1>1
<1>3. SUFFICES ASSUME NEW j \in Polls
               PROVE  /\ polls'[j] = [phase |-> polls'[j].phase, report |-> polls'[j].report]
                      /\ IF polls'[j].phase = "answered" THEN ReportOK(polls'[j].report, Len(trials))
                         ELSE polls'[j].phase \in {"free", "sent"} /\ polls'[j].report = NoReport
  BY <1>2 DEF PollsOK
<1>4. CASE j = i
  BY <1>2, <1>4
<1>5. CASE j # i
  BY <1>2, <1>5 DEF IInv, PollsOK
<1>6. QED
  BY <1>4, <1>5

LEMMA ReadSteps ==
  ASSUME IInv, NEW i \in Polls, Poll(i) \/ PollAnswered(i) \/ PollFailed(i) \/ PollShown(i)
  PROVE  IInv'
<1>0. /\ DOMAIN polls = Polls /\ polls[i] = [phase |-> polls[i].phase, report |-> polls[i].report]
      /\ IF polls[i].phase = "answered" THEN ReportOK(polls[i].report, Len(trials))
         ELSE polls[i].phase \in {"free", "sent"} /\ polls[i].report = NoReport
  BY DEF IInv, PollsOK
<1>1. UNCHANGED <<server, post>> /\ clicks' = clicks
  BY DEF Poll, PollAnswered, PollFailed, PollShown
<1>2. ServerOK' /\ Len(trials) <= Len(trials') /\ Len(trials') = Len(trials) /\ PostOK(Len(trials))'
  BY <1>1, ServerIdle, HeldKept
<1>3. CountersOK'
  <2>1. clicks \in 0 .. MaxClicks /\ events \in 0 .. MaxEvents
    BY DEF IInv, CountersOK
  <2>2. events' = events \/ (events < MaxEvents /\ events' = events + 1)
    BY DEF Poll, PollAnswered, PollFailed, PollShown
  <2>3. QED
    BY <1>1, <2>1, <2>2, BoundsAssumption DEF CountersOK, BoundsAssumption
<1>4. CASE Poll(i)
  <2>1. polls' = [polls EXCEPT ![i] = [phase |-> "sent", report |-> polls[i].report]]
    <3>1. polls' = [polls EXCEPT ![i] = [polls[i] EXCEPT !.phase = "sent"]]
      BY <1>0, <1>4 DEF Poll
    <3>2. \A r : r = [phase |-> r.phase, report |-> r.report]
            => [r EXCEPT !.phase = "sent"] = [phase |-> "sent", report |-> r.report]
      OBVIOUS
    <3>3. [polls[i] EXCEPT !.phase = "sent"] = [phase |-> "sent", report |-> polls[i].report]
      BY <1>0, <3>2
    <3>4. QED
      BY <3>1, <3>3
  <2>2. polls[i].report = NoReport
    BY <1>0, <1>4 DEF Poll
  <2>3. PollsOK(Len(trials))'
    BY <1>2, <2>1, <2>2, PollChanged
  <2>4. PageOK(Len(trials))'
    BY <1>1, <1>2, <1>4, HeldKept DEF Poll
  <2>5. QED
    BY <1>2, <1>3, <2>3, <2>4 DEF IInv
<1>5. CASE PollAnswered(i)
  <2>1. polls' = [polls EXCEPT ![i] = [phase |-> "answered", report |-> Report]]
    BY <1>5 DEF PollAnswered
  <2>2. ReportOK(Report, Len(trials))
    BY ServerReports DEF IInv
  <2>3. PollsOK(Len(trials))'
    BY <1>2, <2>1, <2>2, PollChanged
  <2>4. PageOK(Len(trials))'
    BY <1>1, <1>2, <1>5, HeldKept DEF PollAnswered
  <2>5. QED
    BY <1>2, <1>3, <2>3, <2>4 DEF IInv
<1>6. CASE PollFailed(i)
  <2>1. polls' = [polls EXCEPT ![i] = [phase |-> "free", report |-> polls[i].report]]
    <3>1. polls' = [polls EXCEPT ![i] = [polls[i] EXCEPT !.phase = "free"]]
      BY <1>0, <1>6 DEF PollFailed
    <3>2. \A r : r = [phase |-> r.phase, report |-> r.report]
            => [r EXCEPT !.phase = "free"] = [phase |-> "free", report |-> r.report]
      OBVIOUS
    <3>3. [polls[i] EXCEPT !.phase = "free"] = [phase |-> "free", report |-> polls[i].report]
      BY <1>0, <3>2
    <3>4. QED
      BY <3>1, <3>3
  <2>2. polls[i].report = NoReport
    BY <1>0, <1>6 DEF PollFailed
  <2>3. PollsOK(Len(trials))'
    BY <1>2, <2>1, <2>2, PollChanged
  <2>4. PageOK(Len(trials))'
    BY <1>1, <1>2, <1>6, HeldKept DEF PollFailed
  <2>5. QED
    BY <1>2, <1>3, <2>3, <2>4 DEF IInv
<1>7. CASE PollShown(i)
  <2>1. polls' = [polls EXCEPT ![i] = [phase |-> "free", report |-> NoReport]]
    BY <1>7 DEF PollShown
  <2>2. PollsOK(Len(trials))'
    BY <1>2, <2>1, PollChanged
  <2>3. ReportOK(polls[i].report, Len(trials))
    BY <1>0, <1>7 DEF PollShown
  <2>4. page = [state |-> page.state, busy |-> page.busy] /\ page.busy = (post # NoPost)
    BY DEF IInv, PageOK
  <2>5. page' = [state |-> polls[i].report, busy |-> page.busy]
    BY <1>7, <2>4 DEF PollShown
  <2>6. PageOK(Len(trials))'
    BY <1>1, <1>2, <2>3, <2>4, <2>5 DEF PageOK
  <2>7. QED
    BY <1>2, <1>3, <2>2, <2>6 DEF IInv
<1>8. QED
  BY <1>4, <1>5, <1>6, <1>7

LEMMA ClickStep == ASSUME IInv, Click PROVE IInv'
<1>1. UNCHANGED <<server, polls>> /\ events' = events /\ clicks' = clicks + 1 /\ clicks < MaxClicks
  BY DEF Click
<1>2. ServerOK' /\ Len(trials) <= Len(trials') /\ Len(trials') = Len(trials) /\ PollsOK(Len(trials))'
  BY <1>1, ServerIdle, HeldKept
<1>3. CountersOK'
  BY <1>1, BoundsAssumption DEF IInv, CountersOK, BoundsAssumption
<1>4. PICK request \in Buttons : post' = request
  BY DEF Click
<1>5. ReportOK(page.state, Len(trials)) /\ page = [state |-> page.state, busy |-> page.busy]
      /\ page.state.some
  BY DEF IInv, PageOK, Click, NoReport
<1>6. ShownViews = page.state.views /\ DOMAIN ShownViews \subseteq Nat /\ page.state.plan \in Plans
  BY <1>5 DEF ShownViews, ReportOK
<1>7. RatingChoices \ {0} \subseteq Ratings /\ RatingChoices = {0} \cup Ratings
      /\ ShownLive \subseteq DOMAIN ShownViews
  BY DEF RatingChoices, ShownLive
<1>8. request \in Requests
  <2>1. CASE request = [action |-> "diagnose", phase |-> "sent"]
    BY <2>1 DEF Requests
  <2>2. CASE \E rating \in RatingChoices :
               request = [action |-> "apply", phase |-> "sent", plan |-> page.state.plan, rating |-> rating]
    BY <1>6, <1>7, <2>2 DEF Requests
  <2>3. CASE \E id \in ShownLive : request = [action |-> "restore", phase |-> "sent", id |-> id]
    BY <1>6, <1>7, <2>3 DEF Requests
  <2>4. CASE \E id \in DOMAIN ShownViews, rating \in RatingChoices \ {0},
                outcome \in {"unknown", "good", "regression", "keep"} :
               request = [action |-> "rate", phase |-> "sent", id |-> id, rating |-> rating,
                          outcome |-> outcome]
    BY <1>6, <1>7, <2>4 DEF Requests
  <2>5. \/ request = [action |-> "diagnose", phase |-> "sent"]
        \/ \E rating \in RatingChoices :
             request = [action |-> "apply", phase |-> "sent", plan |-> page.state.plan, rating |-> rating]
        \/ \E id \in ShownLive : request = [action |-> "restore", phase |-> "sent", id |-> id]
        \/ \E id \in DOMAIN ShownViews, rating \in RatingChoices \ {0},
              outcome \in {"unknown", "good", "regression", "keep"} :
             request = [action |-> "rate", phase |-> "sent", id |-> id, rating |-> rating,
                        outcome |-> outcome]
    BY <1>4 DEF Buttons
  <2>6. QED
    BY <2>1, <2>2, <2>3, <2>4, <2>5
<1>9. PostOK(Len(trials))'
  BY <1>4, <1>8 DEF PostOK
<1>10. request # NoPost
  BY <1>8 DEF Requests, NoPost
<1>11. page' = [state |-> page.state, busy |-> TRUE]
  BY <1>5 DEF Click
<1>12. PageOK(Len(trials))'
  BY <1>2, <1>4, <1>5, <1>10, <1>11 DEF PageOK
<1>13. QED
  BY <1>2, <1>3, <1>9, <1>12 DEF IInv

\* An accepted action: the trials are as many as before, or one more that
\* replaces the settings that were approved.
LEMMA Handled ==
  ASSUME IInv, post.phase = "sent", Handle(post)
  PROVE  /\ ServerOK' /\ Len(trials) <= Len(trials')
         /\ Len(trials') > Len(trials) =>
              post.plan = [text |-> trials'[Len(trials')].before, limited |-> FALSE]
<1>1. post \in Requests
  <2>1. PostOK(Len(trials))
    BY DEF IInv
  <2>2. NoPost.phase # "sent"
    BY DEF NoPost
  <2>3. QED
    BY <2>1, <2>2 DEF PostOK
<1>2. ServerOK /\ Len(trials) \in Nat
  BY DEF IInv, ServerOK
<1>3. CASE post.action = "diagnose" /\ ServerDiagnose
  BY <1>2, <1>3, ServerDiagnoses
<1>4. CASE post.action = "apply" /\ ServerApply(post)
  <2>1. post.rating \in {0} \cup Ratings
    BY <1>1, <1>4 DEF Requests
  <2>2. QED
    BY <1>2, <1>4, <2>1, ServerApplies
<1>5. CASE post.action = "restore" /\ ServerRestore(post.id)
  BY <1>2, <1>5, ServerRestores
<1>6. CASE post.action = "rate" /\ ServerRate(post.id, post.rating, post.outcome)
  <2>1. post.rating \in Ratings /\ post.outcome \in {"unknown", "good", "regression", "keep"}
    BY <1>1, <1>6 DEF Requests
  <2>2. QED
    BY <1>2, <1>6, <2>1, ServerRates
<1>7. QED
  BY <1>3, <1>4, <1>5, <1>6 DEF Handle

\* An action that fails half-way: the trials are as many as before, or one more
\* that would have replaced the settings that were approved.
LEMMA HalfHandled ==
  ASSUME IInv, PostFails
  PROVE  /\ ServerOK' /\ Len(trials) <= Len(trials')
         /\ Len(trials') > Len(trials) =>
              post.plan = [text |-> trials'[Len(trials')].before, limited |-> FALSE]
<1>1. post \in Requests
  <2>1. PostOK(Len(trials)) /\ post.phase = "sent"
    BY DEF IInv, PostFails
  <2>2. NoPost.phase # "sent"
    BY DEF NoPost
  <2>3. QED
    BY <2>1, <2>2 DEF PostOK
<1>2. ServerOK /\ Len(trials) \in Nat /\ ServerFails(post)
  BY DEF IInv, ServerOK, PostFails
<1>3. post.action = "apply" => post.rating \in {0} \cup Ratings
  BY <1>1 DEF Requests
<1>4. /\ ServerOK'
      /\ \/ Len(trials') = Len(trials)
         \/ /\ Len(trials') = Len(trials) + 1
            /\ post.plan = [text |-> trials'[Len(trials')].before, limited |-> FALSE]
  BY <1>2, <1>3, ServerFailing
<1>5. QED
  BY <1>2, <1>4

LEMMA PostSteps ==
  ASSUME IInv, PostAccepted \/ PostRefused \/ PostFails \/ PostLost \/ PostShown
  PROVE  IInv'
<1>0. PostOK(Len(trials)) /\ PageOK(Len(trials)) /\ CountersOK
  BY DEF IInv
<1>1. clicks' = clicks /\ polls' = polls
  BY DEF PostAccepted, PostRefused, PostFails, PostLost, PostShown
<1>2. CountersOK'
  <2>1. events' = events \/ (events < MaxEvents /\ events' = events + 1)
    BY DEF PostAccepted, PostRefused, PostFails, PostLost, PostShown
  <2>2. QED
    BY <1>0, <1>1, <2>1, BoundsAssumption DEF CountersOK, BoundsAssumption
<1>3. CASE PostAccepted
  <2>1. ServerOK' /\ Len(trials) <= Len(trials')
    BY <1>3, Handled DEF PostAccepted
  <2>2. ReportOK(Report', Len(trials'))
    BY <2>1, ServerReportsNext
  <2>3. post' = [action |-> post.action, phase |-> "done", report |-> Report'] /\ page' = page
    BY <1>3 DEF PostAccepted
  <2>4. post'.phase = "done" /\ post'.report = Report' /\ post' # NoPost
    BY <2>3 DEF NoPost
  <2>5. PostOK(Len(trials))'
    BY <2>2, <2>4 DEF PostOK
  <2>6. post # NoPost
    BY <1>3 DEF PostAccepted, NoPost
  <2>7. PageOK(Len(trials))' /\ PollsOK(Len(trials))'
    BY <1>1, <2>1, <2>3, <2>4, <2>6, HeldKept
  <2>8. QED
    BY <1>2, <2>1, <2>5, <2>7 DEF IInv
<1>4. CASE PostRefused \/ PostLost
  <2>1. UNCHANGED server /\ page' = page /\ post' = [action |-> post.action, phase |-> "failed"]
    BY <1>4 DEF PostRefused, PostLost
  <2>2. ServerOK' /\ Len(trials) <= Len(trials')
    BY <2>1, ServerIdle
  <2>3. post'.phase = "failed" /\ post' # NoPost
    BY <2>1 DEF NoPost
  <2>4. post # NoPost
    BY <1>4 DEF PostRefused, PostLost, NoPost
  <2>5. PageOK(Len(trials))' /\ PollsOK(Len(trials))'
    BY <1>1, <2>1, <2>2, <2>3, <2>4, HeldKept
  <2>6. QED
    BY <1>2, <2>2, <2>3, <2>5 DEF IInv, PostOK
<1>5. CASE PostFails
  <2>1. ServerOK' /\ Len(trials) <= Len(trials')
    BY <1>5, HalfHandled
  <2>2. page' = page /\ post' = [action |-> post.action, phase |-> "failed"]
    BY <1>5 DEF PostFails
  <2>3. post'.phase = "failed" /\ post' # NoPost
    BY <2>2 DEF NoPost
  <2>4. post # NoPost
    BY <1>5 DEF PostFails, NoPost
  <2>5. PageOK(Len(trials))' /\ PollsOK(Len(trials))'
    BY <1>1, <2>1, <2>2, <2>3, <2>4, HeldKept
  <2>6. QED
    BY <1>2, <2>1, <2>3, <2>5 DEF IInv, PostOK
<1>6. CASE PostShown
  <2>1. UNCHANGED server /\ post' = NoPost
        /\ page' = [state |-> IF post.phase = "done" THEN post.report ELSE page.state, busy |-> FALSE]
    BY <1>6 DEF PostShown, BusyAfter
  <2>2. ServerOK' /\ Len(trials) <= Len(trials') /\ Len(trials') = Len(trials)
    BY <2>1, ServerIdle
  <2>3. PollsOK(Len(trials))'
    BY <1>1, <2>2, HeldKept
  <2>4. post.phase = "done" => ReportOK(post.report, Len(trials))
    BY <1>0 DEF PostOK, NoPost, Requests
  <2>5. PageOK(Len(trials))'
    BY <1>0, <2>1, <2>2, <2>4 DEF PageOK
  <2>6. QED
    BY <1>2, <2>1, <2>2, <2>3, <2>5 DEF IInv, PostOK
<1>7. QED
  BY <1>3, <1>4, <1>5, <1>6

LEMMA OutsideSteps ==
  ASSUME IInv, OtherPage \/ Edit \/ Expire \/ SessionStart \/ Hours
  PROVE  IInv' /\ Len(trials') = Len(trials)
<1>1. ServerOK /\ Len(trials) \in Nat
  BY DEF IInv, ServerOK
<1>2. page' = page /\ post' = post /\ polls' = polls /\ clicks' = clicks
  BY DEF OtherPage, Edit, Expire, SessionStart, Hours, Event
<1>3. CountersOK'
  <2>1. events' = events \/ (events < MaxEvents /\ events' = events + 1)
    BY DEF OtherPage, Edit, Expire, SessionStart, Hours, Event
  <2>2. QED
    BY <1>2, <2>1, BoundsAssumption DEF IInv, CountersOK, BoundsAssumption
<1>4. ServerOK' /\ Len(trials') = Len(trials)
  <2>1. CASE OtherPage
    <3>1. CASE ServerDiagnose
      BY <1>1, <3>1, ServerDiagnoses
    <3>2. CASE \E id \in DOMAIN trials : ServerRestore(id)
      BY <1>1, <3>2, ServerRestores
    <3>3. CASE \E id \in DOMAIN trials, rating \in Ratings : ServerRate(id, rating, "good")
      BY <1>1, <3>3, ServerRates
    <3>4. QED
      BY <2>1, <3>1, <3>2, <3>3 DEF OtherPage
  <2>2. CASE Edit
    BY <1>1, <2>2 DEF Edit, ServerOK
  <2>3. CASE Expire
    BY <1>1, <2>3 DEF Expire, ServerOK, Diagnoses
  <2>4. CASE Hours
    <3>1. PICK id \in Live, run \in HourRuns :
            trials' = [trials EXCEPT ![id].hours = @ \o run] /\ settings' = settings /\ doctor' = doctor
      BY <2>4 DEF Hours
    <3>2. id \in DOMAIN trials /\ trials[id] \in Trial /\ trials \in Seq(Trial)
      BY <1>1 DEF Live, ServerOK
    <3>3. trials[id].hours \in Seq(Summaries) /\ run \in Seq(Summaries)
      BY <3>2, FiguresAssumption DEF Trial, FiguresAssumption
    <3>4. trials[id].hours \o run \in Seq(Summaries)
      BY <3>3
    <3> DEFINE t == [trials[id] EXCEPT !.hours = @ \o run]
    <3>5. t \in Trial
      BY <3>2, <3>4 DEF Trial
    <3>6. trials' = [trials EXCEPT ![id] = t]
      BY <3>1, <3>2
    <3> HIDE DEF t
    <3>7. trials' \in Seq(Trial) /\ Len(trials') = Len(trials)
      BY <3>2, <3>5, <3>6, TrialReplaced
    <3>8. QED
      BY <1>1, <3>1, <3>7 DEF ServerOK
  <2>5. CASE SessionStart
    <3>1. PICK id \in Live :
            trials' = [trials EXCEPT ![id].started = TRUE] /\ settings' = settings /\ doctor' = doctor
      BY <2>5 DEF SessionStart
    <3>2. id \in DOMAIN trials /\ trials[id] \in Trial /\ trials \in Seq(Trial)
      BY <1>1 DEF Live, ServerOK
    <3> DEFINE t == [trials[id] EXCEPT !.started = TRUE]
    <3>3. t \in Trial
      BY <3>2 DEF Trial
    <3>4. trials' = [trials EXCEPT ![id] = t]
      BY <3>1, <3>2
    <3> HIDE DEF t
    <3>5. trials' \in Seq(Trial) /\ Len(trials') = Len(trials)
      BY <3>2, <3>3, <3>4, TrialReplaced
    <3>6. QED
      BY <1>1, <3>1, <3>5 DEF ServerOK
  <2>6. QED
    BY <2>1, <2>2, <2>3, <2>4, <2>5
<1>5. PostOK(Len(trials))' /\ PageOK(Len(trials))' /\ PollsOK(Len(trials))'
  BY <1>1, <1>2, <1>4, HeldKept
<1>6. QED
  BY <1>3, <1>4, <1>5 DEF IInv

LEMMA NextInv == IInv /\ [Next]_vars => IInv'
<1> SUFFICES ASSUME IInv, [Next]_vars PROVE IInv'
  OBVIOUS
<1>1. CASE \E i \in Polls : Poll(i) \/ PollAnswered(i) \/ PollFailed(i) \/ PollShown(i)
  BY <1>1, ReadSteps
<1>2. CASE Click
  BY <1>2, ClickStep
<1>3. CASE PostAccepted \/ PostRefused \/ PostFails \/ PostLost \/ PostShown
  BY <1>3, PostSteps
<1>4. CASE OtherPage \/ Edit \/ Expire \/ SessionStart \/ Hours
  BY <1>4, OutsideSteps
<1>5. CASE UNCHANGED vars
  <2>1. UNCHANGED server /\ page' = page /\ post' = post /\ polls' = polls
        /\ clicks' = clicks /\ events' = events
    BY <1>5 DEF vars, server
  <2>2. ServerOK' /\ Len(trials) <= Len(trials')
    BY <2>1, ServerIdle
  <2>3. PostOK(Len(trials))' /\ PageOK(Len(trials))' /\ PollsOK(Len(trials))'
    BY <2>1, <2>2, HeldKept
  <2>4. QED
    BY <2>1, <2>2, <2>3 DEF IInv, CountersOK
<1>6. QED
  BY <1>1, <1>2, <1>3, <1>4, <1>5 DEF Next

THEOREM Invariance == Spec => []IInv
BY InitInv, NextInv, PTL DEF Spec

-----------------------------------------------------------------------------
(* What the page promises.                                                   *)

LEMMA Consistent == IInv => PageConsistent
<1> SUFFICES ASSUME IInv PROVE PageConsistent
  OBVIOUS
<1>1. ServerOK /\ PageOK(Len(trials)) /\ PollsOK(Len(trials)) /\ CountersOK
  BY DEF IInv
<1>2. trials \in Seq(Trial) /\ Len(trials) \in Nat
  BY <1>1 DEF ServerOK
<1>3. \A id \in DOMAIN ShownViews : ViewOK(ShownViews[id])
  <2>1. CASE page.state = NoReport
    BY <2>1 DEF ShownViews, NoReport
  <2>2. CASE ReportOK(page.state, Len(trials))
    BY <2>2 DEF ShownViews, ReportOK
  <2>3. QED
    BY <1>1, <2>1, <2>2 DEF PageOK
<1>4. Len(ShownViews) <= Len(trials)
  <2>1. CASE page.state = NoReport
    <3>1. ShownViews = <<>>
      BY <2>1 DEF ShownViews, NoReport
    <3>2. QED
      BY <1>2, <3>1
  <2>2. CASE ReportOK(page.state, Len(trials))
    <3>1. PICK m \in 0 .. Len(trials) : page.state.views = [id \in 1 .. m |-> page.state.views[id]]
      BY <2>2 DEF ReportOK
    <3>2. ShownViews = page.state.views
      BY <2>2 DEF ShownViews, ReportOK
    <3>3. ShownViews = [id \in 1 .. m |-> page.state.views[id]]
      BY <3>1, <3>2
    <3>4. Len(ShownViews) = m
      BY <3>3
    <3>5. QED
      BY <1>2, <3>4
  <2>3. QED
    BY <1>1, <2>1, <2>2 DEF PageOK
<1>5. TypeOK
  <2>1. \A id \in DOMAIN trials : /\ trials[id].before \in Texts
                                  /\ trials[id].status \in {"prepared", "active", "restoring", "restored"}
                                  /\ trials[id].rating \in {0} \cup Ratings
    <3>1. \A id \in DOMAIN trials : trials[id] \in Trial
      BY <1>2
    <3>2. QED
      BY <3>1 DEF Trial
  <2>2. \A i \in Polls : polls[i].report.some = (polls[i].phase = "answered")
    <3>1. NoReport.some = FALSE
      BY DEF NoReport
    <3>2. QED
      BY <1>1, <3>1 DEF PollsOK, ReportOK
  <2>3. QED
    BY <1>1, <1>4, <2>1, <2>2 DEF TypeOK, ServerOK, Diagnoses, PageOK, CountersOK
<1>6. FiguresAgree /\ OneVerdict
  BY <1>3 DEF FiguresAgree, CostsAgree, HoursAgree, OneVerdict, ViewOK
<1>7. QED
  BY <1>5, <1>6 DEF PageConsistent

\* Whatever usage the hours of a trial bring and whatever answer is late, lost
\* or old: the card of every trial the page shows is one picture - the two
\* computations of its cost, the graph of its hours and its running total, and
\* the verdicts of the server and of the page agree.
THEOREM ShownIsConsistent == Spec => []PageConsistent
BY Invariance, Consistent, PTL

\* However stale the report on the page is when the user applies it: a trial
\* begins only by replacing the very settings the user was shown.
THEOREM AppliesWhatWasShown == Spec => ApprovedPlan
<1>1. IInv /\ [Next]_vars =>
        [Len(trials') > Len(trials) =>
           post.plan = [text |-> trials'[Len(trials')].before, limited |-> FALSE]]_vars
  <2> SUFFICES ASSUME IInv, Next, Len(trials') > Len(trials)
               PROVE  post.plan = [text |-> trials'[Len(trials')].before, limited |-> FALSE]
    OBVIOUS
  <2>1. CASE PostAccepted
    BY <2>1, Handled DEF PostAccepted
  <2>2. CASE PostFails
    BY <2>2, HalfHandled
  <2>3. CASE ~PostAccepted /\ ~PostFails
    <3>1. Len(trials) \in Nat
      BY DEF IInv, ServerOK
    <3>2. CASE OtherPage \/ Edit \/ Expire \/ SessionStart \/ Hours
      BY <3>1, <3>2, OutsideSteps
    <3>3. CASE UNCHANGED server
      BY <3>1, <3>3 DEF server
    <3>4. QED
      BY <2>3, <3>2, <3>3
      DEF Next, Poll, PollAnswered, PollFailed, PollShown, Click, PostRefused, PostLost, PostShown
  <2>4. QED
    BY <2>1, <2>2, <2>3
<1>2. QED
  BY <1>1, Invariance, PTL DEF Spec, ApprovedPlan
=============================================================================
