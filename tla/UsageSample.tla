----------------------------- MODULE UsageSample -----------------------------
(* The sample modes of the usage page (the demo branches of claude.js): the   *)
(* report is made up in the browser, for one store or for three, and trials   *)
(* are simulated, never posted.  Every step of the user is atomic here.       *)
(* Tokens are counted in tens, those of reasoning one by one, and money in    *)
(* units of 1e-7 dollars.                                                     *)
EXTENDS UsageView

CONSTANTS
    SampleDays,         \* the ranges: 1, 7 or 30 days
    SampleRatings,      \* satisfaction ratings
    MaxSampleTrials     \* trials of a store

VARIABLES
    mode,           \* the kind of page, boot.mode
    chosen,         \* the chosen store, or all of them
    days,           \* the chosen range
    selected,       \* the session in the inspector
    report,         \* the report on the page, but for its trials
    state,          \* the trials on the page
    demoTrials      \* the trials of each store, kept while another one is shown

sampleVars == <<mode, chosen, days, selected, report, state, demoTrials>>

demo == mode \in {"claude-demo", "native-demo"}
-----------------------------------------------------------------------------
(* sample *)

Pattern == <<28, 48, 32, 81, 59, 95, 47>>
Rates == [input |-> 300, cached_input |-> 30, cache_write |-> 375, cache_write_1h |-> 600,
          output |-> 1500]
Scale(i) == Pattern[((i - 1) % 7) + 1]
Units(period) == IF period = 1 THEN 24 ELSE period

SampleTokens(i) ==
    [k \in Keys |-> CASE k = "input" -> 22 * Scale(i)
                      [] k = "cached_input" -> 710 * Scale(i)
                      [] k = "cache_write" -> 65 * Scale(i)
                      [] k = "cache_write_1h" -> 0
                      [] k = "output" -> 23 * Scale(i)]

Charges(tokens) == [k \in Keys |-> tokens[k] * Rates[k]]
Cost(tokens) == 300 * tokens["input"] + 30 * tokens["cached_input"] + 375 * tokens["cache_write"]
                + 1500 * tokens["output"]

\* The tokens of a session are dealt to its responses, the rest to the first ones.
Share(total, n, j) == (total \div n) + (IF j <= total % n THEN 1 ELSE 0)

Responses(requests, tokens) ==
    [j \in 1 .. requests |->
       LET t == [k \in Keys |-> Share(tokens[k], requests, j)]
       IN [tokens |-> t, requests |-> 1, usd |-> Cost(t), unpriced |-> 0, reasoning |-> 0]]

\* Mutant: the rank is rounded down.
RankDown(percent, n) == Max({1, (percent * n) \div 100})

\* The nearest rank: rounded up.
Rank(percent, n) == (percent * n + 99) \div 100

Stats(responses) ==
    LET inputs == SortSeq([j \in DOMAIN responses |-> Input(responses[j])], LAMBDA x, y : x < y)
        n == Len(inputs)
    IN [p50 |-> inputs[Rank(50, n)], p95 |-> inputs[Rank(95, n)], max |-> inputs[n]]

Session(i) ==
    LET tokens == SampleTokens(i)
        requests == Round(40 * Scale(i), 100)
        responses == Responses(requests, tokens)
    IN [id |-> i, end |-> i, tokens |-> tokens, requests |-> requests, usd |-> Cost(tokens),
        unpriced |-> 0, reasoning |-> 0, responses |-> responses, stats |-> Stats(responses),
        price |-> [rates |-> <<Rates>>, reason |-> "", unpriced |-> 0, requests |-> requests, tokens |-> tokens,
                   cost |-> Cost(tokens), usd |-> Charges(tokens)]]

\* The newest session is the first one.
SampleSessions(period) == Reverse([i \in 1 .. Units(period) |-> Session(i)])

NoUsage == [requests |-> 0, tokens |-> [k \in Keys |-> 0], usd |-> 0, unpriced |-> 0, reasoning |-> 0]

Plus(s, q) ==
    [requests |-> s.requests + q.requests, tokens |-> [k \in Keys |-> s.tokens[k] + q.tokens[k]],
     usd |-> s.usd + q.usd, unpriced |-> s.unpriced + q.unpriced,
     reasoning |-> s.reasoning + q.reasoning]

Added(figures) == FoldLeft(Plus, NoUsage, figures)

\* Bytes are counted in units of 10 kB.
SampleDiagnostics(requests) ==
    [human_turns |-> Max({1, Round(requests, 5)}), tool_calls |-> 87,
     result_bytes |-> 84, mcp_bytes |-> 72, large_results |-> 12, repeated_calls |-> 9,
     tools |-> <<[name |-> "mcp__docs__search", bytes |-> 72], [name |-> "Read", bytes |-> 9],
                 [name |-> "Bash", bytes |-> 3]>>]

SampleRecipes == <<"tool-results", "mcp", "turns">>

Sample(period) ==
    LET sessions == SampleSessions(period) IN
    [sessions |-> sessions, buckets |-> Reverse(sessions), summary |-> Added(sessions),
     recipes |-> SampleRecipes, diagnostics |-> SampleDiagnostics(Added(sessions).requests)]
-----------------------------------------------------------------------------
(* sampleNative *)

Stores == <<"sample-claude", "sample-codex", "sample-sandbox">>
StoreOf(k) == Stores[((k - 1) % 3) + 1]

\* Codex usage has no price, and a third of its output is reasoning.
Unpriced(session) ==
    [session EXCEPT !.unpriced = session.requests, !.usd = 0,
       !.reasoning = (10 * session.tokens["output"]) \div 3,
       !.responses = [j \in DOMAIN session.responses |->
                        [session.responses[j] EXCEPT !.usd = 0, !.unpriced = 1]],
       !.price = [session.price EXCEPT !.rates = <<>>, !.reason = "native_codex_unpriced",
                                       !.unpriced = session.requests, !.cost = 0,
                                       !.usd = [k \in Keys |-> 0]]]

NativeSessions(period) ==
    LET sessions == SampleSessions(period) IN
    [k \in DOMAIN sessions |->
       (IF StoreOf(k) = "sample-claude" THEN sessions[k] ELSE Unpriced(sessions[k]))
         @@ [source |-> StoreOf(k)]]

\* Mutant: buckets keep the usage of the stores that are filtered out.
InBucketOfAll(session, i, store) == session.id = i
InBucket(session, i, store) == session.id = i /\ store \in {"", session.source}

NoDiagnostics ==
    [human_turns |-> 0, tool_calls |-> 0, result_bytes |-> 0, mcp_bytes |-> 0,
     large_results |-> 0, repeated_calls |-> 0, tools |-> <<>>]

SampleNative(period, store) ==
    LET all == NativeSessions(period)
        sessions == SelectSeq(all, LAMBDA s : store \in {"", s.source})
    IN [sessions |-> sessions, summary |-> Added(sessions),
        buckets |-> [i \in 1 .. Units(period) |->
                       Added(SelectSeq(all, LAMBDA s : InBucket(s, i, store)))],
        sources |-> [s \in ToSet(Stores) |->
                       Added(SelectSeq(all, LAMBDA q : q.source = s))],
        recommendations |-> <<"cache", "pack", "mcp">>,
        recipes |-> IF store = "sample-claude" THEN SampleRecipes ELSE <<>>,
        diagnostics |-> IF store \in {"", "sample-claude"} THEN Sample(period).diagnostics
                        ELSE NoDiagnostics]

SampleReports == [d \in SampleDays |-> Sample(d)]
NativeReports == [d \in SampleDays, s \in ToSet(Stores) \cup {""} |-> SampleNative(d, s)]

ReportOf(kind, period, store) ==
    CASE kind = "native-demo" -> NativeReports[period, store]
      [] kind = "claude-demo" -> SampleReports[period]
      [] OTHER -> [sessions |-> <<>>]

PageReport == [changes |-> state] @@ report

\* What the page passes to the breakdown of costs: the price groups of its sessions.
PriceGroups == [k \in DOMAIN report.sessions |-> report.sessions[k].price]
-----------------------------------------------------------------------------
(* refresh and change *)

SampleInit(kind) ==
    /\ mode = kind /\ chosen = "" /\ days = 7 /\ selected = 0
    /\ report = ReportOf(kind, 7, "")
    /\ state = <<>> /\ demoTrials = [s \in ToSet(Stores) \cup {""} |-> <<>>]

\* Mutant: the sample report comes without the trials that were simulated.
NoTrialsAt(store) == <<>>

\* The simulated trials are those of the store, or stay on the page.
TrialsAt(store) == IF mode = "native-demo" THEN demoTrials[store] ELSE state

ChooseStore ==
    /\ mode = "native-demo"
    /\ \E s \in ToSet(Stores) \cup {""} : chosen' = s
    /\ selected' = 0 /\ state' = TrialsAt(chosen') /\ report' = ReportOf(mode, days, chosen')
    /\ UNCHANGED <<mode, days, demoTrials>>

ChooseRange ==
    /\ \E d \in SampleDays : days' = d
    /\ selected' = 0 /\ state' = TrialsAt(chosen) /\ report' = ReportOf(mode, days', chosen)
    /\ UNCHANGED <<mode, chosen, demoTrials>>

Select ==
    /\ \E k \in DOMAIN report.sessions : selected' = report.sessions[k].id
    /\ UNCHANGED <<mode, chosen, days, report, state, demoTrials>>

\* The trials of the page are stored for the store they belong to.
Kept(changes) ==
    /\ state' = changes
    /\ demoTrials' = IF mode = "native-demo" THEN [demoTrials EXCEPT ![chosen] = changes]
                     ELSE demoTrials
    /\ UNCHANGED <<mode, chosen, days, selected, report>>

\* One of the 24 hours of a simulated trial.
SampleHour(before) ==
    [requests |-> Max({1, Round(before.requests, 24)}),
     tokens |-> [k \in Keys |-> IF k = "output" THEN Round(before.tokens[k], 24)
                                ELSE Round(before.tokens[k], 32)],
     usd |-> before.usd \div 30, unpriced |-> 0, reasoning |-> 0]

\* The 24 hours are alike.
Hours(hour) == [i \in 1 .. 24 |-> hour]

Try ==
    /\ Len(state) < MaxSampleTrials
    /\ Offered(PageReport) # {}
    /\ \E rating \in SampleRatings :
         LET hour == SampleHour(report.summary)
         IN Kept(Append(state, [status |-> "saved", baseline |-> report.summary, hour |-> hour,
                                sum |-> Added(Hours(hour)), before |-> rating, after |-> 0]))

Rate ==
    \E i \in DOMAIN state, rating \in SampleRatings :
      Kept([state EXCEPT ![i].after = rating])

Restore ==
    \E i \in DOMAIN state :
      /\ state[i].status = "saved"
      /\ Kept([state EXCEPT ![i].status = "restored"])

SampleNext == ChooseStore \/ ChooseRange \/ Select \/ Try \/ Rate \/ Restore
-----------------------------------------------------------------------------
SameUsage(s, t) == /\ s.requests = t.requests /\ s.tokens = t.tokens
                   /\ s.usd = t.usd /\ s.unpriced = t.unpriced /\ s.reasoning = t.reasoning

\* The report follows from the mode, the store and the range alone: it is looked
\* at before anything is selected or tried.
Fresh == demo /\ selected = 0 /\ state = <<>>

\* No usage is counted twice or lost on the way from responses to sessions, to
\* buckets, to stores and to the headline, whichever store is chosen; and the
\* stores together are what is shown without a choice.
Conserved ==
  Fresh =>
    /\ SameUsage(report.summary, Added(report.buckets))
    /\ \A k \in DOMAIN report.sessions :
         LET s == report.sessions[k] IN
           SameUsage([s EXCEPT !.usd = IF s.unpriced > 0 THEN 0 ELSE @, !.reasoning = 0],
                     Added(s.responses))
    /\ mode = "native-demo" =>
         /\ chosen # "" => SameUsage(report.summary, report.sources[chosen])
         /\ chosen = "" => SameUsage(report.summary, Added([k \in 1 .. 3 |-> report.sources[Stores[k]]]))

\* The four categories of the breakdown add up to the headline's cost, and the
\* breakdown covers exactly the responses that have a price.
SpendAgrees ==
  Fresh =>
    LET spend == Spend(PriceGroups) IN
      /\ TotalOf(Parts(spend)) = report.summary.usd
      /\ spend.responses = report.summary.requests - report.summary.unpriced
      /\ Detailed(report.summary, spend) = (Estimate(report.summary) # "unpriced")

\* The chart of everything has the headline's tokens, and no more than its
\* cost; a session's chart ends with its last response, rightly numbered.
ChartAgrees ==
  demo =>
    LET rows == ChartRows(report, selected)
        drawn(unit) == MapThenSumSet(LAMBDA k : Bar(rows[k], unit), Drawn(rows, unit))
        total == MapThenSumSet(LAMBDA k : Total(rows[k]), DOMAIN rows)
    IN IF selected = 0
       THEN drawn("tokens") = Total(report.summary) /\ drawn("usd") <= report.summary.usd
       ELSE LET s == CHOOSE q \in ToSet(report.sessions) : q.id = selected IN
            /\ rows[Len(rows)].label = s.requests
            /\ Len(rows) = s.requests => total = Total(s)

\* Whatever the user looks at meanwhile, a simulated trial keeps its place, its
\* figures and its outcome in the store it was made for.
SampleKept ==
    [][\A s \in DOMAIN demoTrials :
         LET old == IF mode = "native-demo" THEN demoTrials[s] ELSE state
             new == IF mode = "native-demo" THEN demoTrials'[s] ELSE state'
         IN /\ Len(new) >= Len(old)
            /\ \A i \in DOMAIN old : /\ new[i].baseline = old[i].baseline
                                     /\ old[i].status = "restored" => new[i] =
                                          [old[i] EXCEPT !.after = new[i].after]
            /\ mode = "native-demo" => state' = demoTrials'[chosen']]_sampleVars

\* The page's own sentence about the ratings and the caveats of the comparison
\* come from two pieces of code, and agree for every trial; and the running
\* total of a trial's graph ends at what the comparison says it used.
VerdictsAgree ==
    \A i \in DOMAIN state :
      LET c == state[i]
          day == [from |-> 0, until |-> 24, models |-> {}]
          signals == Signals(c.baseline @@ day, c.sum @@ day, ChangeOptions(c))
          totals == Timeline(Hours(c.hour))
      IN /\ (Verdict(c) = "fell") = ("quality_regression" \in signals)
         /\ (Verdict(c) = "rate") = ("quality_unknown" \in signals)
         /\ totals[24].input = Measure(c.sum @@ day).input /\ totals[24].calls = c.sum.requests

\* The percentiles of a session are those of the nearest rank: the smallest
\* input that so many per cent of the responses do not exceed.
NearestRank ==
  Fresh =>
    \A n \in DOMAIN report.sessions :
      LET s == report.sessions[n]
          below(x) == Cardinality({j \in DOMAIN s.responses : Input(s.responses[j]) < x})
          upTo(x) == Cardinality({j \in DOMAIN s.responses : Input(s.responses[j]) <= x})
          isRank(x, percent) == /\ 100 * upTo(x) >= percent * s.requests
                                /\ 100 * below(x) < percent * s.requests
      IN /\ isRank(s.stats.p50, 50) /\ isRank(s.stats.p95, 95) /\ upTo(s.stats.max) = s.requests
         /\ s.stats.max * s.requests >= Input(s)

Window == [from |-> 0, until |-> 24, models |-> {}]

\* The headline, the diagnosis and the breakdown of the costs are three pieces of
\* code with the same figures; reasoning is within the output, and there is no
\* figure per turn of the user where stores are mixed; a rule that is suggested has its evidence, and is
\* the first of the rules if it can be tried; the cards of the stores add up to
\* the headline of all of them, and one card at most is the chosen store's.
HeadlinesAgree ==
  demo =>
    LET s == report.summary
        d == report.diagnostics
        shown == Metrics(s)
        diagnosis == Diagnosis(PageReport)
        first == Suggested(d)
        recipes == RecipeOrder(PageReport)
        cards == [k \in 1 .. 3 |-> SourceCard(Stores[k], report.sources[Stores[k]], chosen)]
    IN /\ shown.input = diagnosis.input /\ shown.output = diagnosis.output
       /\ shown.cached = Measure(s @@ Window).cache
       /\ shown.cached # <<>> => shown.cached[1] = diagnosis.cached
       /\ (shown.cost = "complete") = (Measure(s @@ Window).cost # <<>>)
       /\ mode = "native-demo" =>
            /\ diagnosis.perTurn = <<>>
            /\ Recommendations(PageReport)[1].reasoning <= 10 * s.tokens["output"]
       /\ first # "" => d.large_results > 0 \/ d.repeated_calls > 0 \/ d.mcp_bytes > 0
       /\ first \in ToSet(recipes) => recipes[1] = first
       /\ ToSet(recipes) = ToSet(report.recipes) /\ Len(recipes) = Len(report.recipes)
       /\ \A k \in DOMAIN ToolBars(d).bars : ToolBars(d).bars[k] <= ToolBars(d).full
       /\ mode = "native-demo" =>
            /\ chosen = "" => /\ FoldLeft(LAMBDA n, c : n + c.tokens, 0, cards) = Total(s)
                              /\ FoldLeft(LAMBDA n, c : n + c.requests, 0, cards) = s.requests
            /\ \A k \in DOMAIN cards : cards[k].selected => cards[k].tokens = Total(s)

\* The tables of the page and the comparison below them are computed apart:
\* a cost is missing in both or in neither, an average that falls while the
\* total rises is pointed out, and the price table's rows are its subtotal,
\* with a reason where there is no table.
NoRating == [before |-> 0, after |-> 0, outcome |-> "unknown", incomplete |-> FALSE]

SessionsAgree(a, b) ==
    LET x == SessionSide(a)
        y == SessionSide(b)
        signals == Signals(a @@ Window, b @@ Window, NoRating)
    IN /\ (x.cost = <<>> \/ y.cost = <<>>) = ("price_gap" \in signals)
       /\ x.input > y.input /\ Input(b) > Input(a) => "more_total_input" \in signals

ChangeAgrees(c) ==
    LET x == Side(c.baseline)
        y == Side(c.sum)
        signals == Signals(c.baseline @@ Window, c.sum @@ Window, ChangeOptions(c))
        drawn == HourBars(c.baseline, Hours(c.hour))
    IN /\ (x.cost = <<>> \/ y.cost = <<>>) = ("price_gap" \in signals)
       /\ x.input[1] > y.input[1] /\ Input(c.sum) > Input(c.baseline) => "more_total_input" \in signals
       /\ drawn.bars[1] = x.input /\ ComparisonGraph(c.baseline, c.sum).bars = <<x.input, y.input>>
       /\ \A k \in DOMAIN drawn.bars : \A length \in ToSet(drawn.bars[k]) : length <= drawn.full

TablesAgree ==
  demo =>
    /\ \A i \in DOMAIN state : ChangeAgrees(state[i])
    /\ \A k, n \in DOMAIN report.sessions :
         report.sessions[k].id = selected => SessionsAgree(report.sessions[n], report.sessions[k])
    /\ \A n \in DOMAIN report.sessions :
         LET s == report.sessions[n] IN
           /\ \A table \in ToSet(PriceTable(s.price)) :
                /\ table.subtotal = s.usd
                /\ table.subtotal = TotalOf([k \in Keys |-> table.rows[k].tokens * table.rows[k].rate])
           /\ PriceTable(s.price) = <<>> =>
                s.unpriced > 0 /\ PriceReason(s.price) = "native_codex_unpriced"
=============================================================================
