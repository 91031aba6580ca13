------------------------------ MODULE UsageView ------------------------------
(* What the usage page draws from a report (internal/webui/claude.js): a      *)
(* report has a summary, buckets of time and sessions, newest first; a        *)
(* session has its responses in order and its price groups.                   *)
EXTENDS Economics, SequencesExt

CONSTANT MaxRows    \* the responses a session's chart shows: 60

ASSUME MaxRowsAssumption == MaxRows \in Nat \ {0}

Total(s) == Input(s) + s.tokens["output"]

Estimate(s) ==
    IF s.requests > 0 /\ s.unpriced = s.requests THEN "unpriced"
    ELSE IF s.unpriced > 0 THEN "known" ELSE "complete"

\* The chart shows the latest responses of a session, or the buckets.
LastOf(s, n) == SubSeq(s, Len(s) - n + 1, Len(s))

Labels(session, shown) == [k \in 1 .. shown |-> session.requests - shown + k]

\* A response without a cost is unpriced, not free.
Row(figure, label) == figure @@ [label |-> label]

SessionRows(session) ==
    LET shown == Min({Len(session.responses), MaxRows})
        last == LastOf(session.responses, shown)
    IN [k \in 1 .. shown |-> Row(last[k], Labels(session, shown)[k])]

BucketRows(report) == [k \in DOMAIN report.buckets |-> Row(report.buckets[k], k)]

\* `selected` is a session of the report, or none of them.
ChartRows(report, selected) ==
    LET chosen == SelectSeq(report.sessions, LAMBDA s : s.id = selected) IN
    IF chosen # <<>> THEN SessionRows(chosen[1]) ELSE BucketRows(report)

\* In the view of costs a row with a gap in its prices has no bar.
Drawn(rows, unit) == {k \in DOMAIN rows : unit = "tokens" \/ rows[k].unpriced = 0}
Bar(row, unit) == IF unit = "tokens" THEN Total(row) ELSE row.usd

\* The rules that can be tried: none beside an active trial, or without usage.
ActiveChange(changes) == \E i \in DOMAIN changes : changes[i].status \in {"saved", "prepared"}

Offered(report) == IF ActiveChange(report.changes) \/ report.summary.requests = 0
                   THEN {} ELSE ToSet(report.recipes)

\* The page's sentence about the two ratings of a trial.
Verdict(c) == IF c.after = 0 THEN "rate"
              ELSE IF c.after < c.before THEN "fell" ELSE "kept"

Round(n, d) == (2 * n + d) \div (2 * d)
Per(n, d) == IF d = 0 THEN <<>> ELSE <<Round(n, d)>>

PerResponse(s) == IF s.requests > 0 /\ s.unpriced = 0 THEN <<s.usd, s.requests>> ELSE <<>>

\* One side of the table under a trial.
Side(s) ==
    [requests |-> s.requests, total |-> Total(s), input |-> Per(Input(s), s.requests),
     cached |-> Per(s.tokens["cached_input"], s.requests),
     output |-> Per(s.tokens["output"], s.requests), cost |-> PerResponse(s)]

\* The two bars above that table.
ComparisonGraph(before, after) ==
    LET length == <<Per(Input(before), before.requests), Per(Input(after), after.requests)>>
    IN [bars |-> length, full |-> Max({1} \cup ToSet(length[1]) \cup ToSet(length[2]))]

\* The bars of a trial: the day before, then its hours; the longest is full.
HourBars(before, hours) ==
    LET rows == <<before>> \o hours
        length == [k \in DOMAIN rows |-> Per(Input(rows[k]), rows[k].requests)]
    IN [bars |-> length, full |-> Max({1} \cup UNION {ToSet(length[k]) : k \in DOMAIN length})]

SessionCost(s) == IF s.unpriced > 0 THEN <<>> ELSE <<s.usd>>

\* The table of the inspector that compares two sessions.
SessionSide(s) ==
    [requests |-> s.requests, input |-> Round(Input(s), s.requests), p95 |-> s.stats.p95,
     cached |-> Round(s.tokens["cached_input"], s.requests),
     output |-> Round(s.tokens["output"], s.requests),
     cost |-> SessionCost(s)]

Reasons ==
    {"native_codex_unpriced", "model_not_in_price_book", "cache_lifetime_unknown",
     "unsupported_speed", "unsupported_geography", "unsupported_long_context_tier",
     "price_breakdown_unavailable"}

PriceReason(group) ==
    IF group.reason \in Reasons THEN group.reason ELSE "price_breakdown_unavailable"

\* The price table of a session's model: a group without rates, or with
\* responses that have no price, shows a reason instead.
PriceTable(group) ==
    IF group.rates = <<>> \/ group.unpriced > 0 THEN <<>>
    ELSE <<[rows |-> [k \in Keys |-> [tokens |-> group.tokens[k], rate |-> group.rates[1][k],
                                     usd |-> group.usd[k]]],
            subtotal |-> group.cost]>>

\* The headline: cost, average input and output of a response, cached part of
\* the input.
Metrics(s) ==
    [cost |-> Estimate(s), input |-> Per(Input(s), s.requests),
     cached |-> IF Input(s) > 0 THEN <<<<s.tokens["cached_input"], Input(s)>>>> ELSE <<>>,
     output |-> Per(s.tokens["output"], s.requests)]

\* The same in the diagnosis, with the responses of a turn of the user, unless
\* the report mixes stores; where nothing was read, no part of it was cached.
Diagnosis(report) ==
    LET s == report.summary
        cached == IF Input(s) > 0 THEN <<s.tokens["cached_input"], Input(s)>> ELSE <<0, 1>>
    IN [input |-> Per(Input(s), s.requests), output |-> Per(s.tokens["output"], s.requests),
        cached |-> cached, mostlyCached |-> 10 * cached[1] >= 7 * cached[2],
        perTurn |-> IF "sources" \in DOMAIN report THEN <<>>
                    ELSE Per(s.requests, report.diagnostics.human_turns)]

\* Below the recommendations, where there are any: the reasoning tokens, which
\* are part of the output.
Recommendations(report) ==
    IF "recommendations" \in DOMAIN report
    THEN <<[cards |-> report.recommendations, reasoning |-> report.summary.reasoning]>> ELSE <<>>

\* The bars of the tools that returned most data, eight of them.
ToolBars(d) ==
    LET shown == SubSeq(d.tools, 1, Min({8, Len(d.tools)}))
    IN [bars |-> [k \in DOMAIN shown |-> shown[k].bytes],
        full |-> FoldLeft(LAMBDA m, t : Max({m, t.bytes}), 1, d.tools)]

Suggested(d) ==
    IF 2 * d.mcp_bytes > d.result_bytes THEN "mcp"
    ELSE IF d.large_results > 0 THEN "tool-results"
    ELSE IF d.repeated_calls > 0 THEN "turns" ELSE ""

\* The suggested rule is listed first; the others keep their order.
RecipeOrder(report) ==
    LET suggested == Suggested(report.diagnostics)
    IN SelectSeq(report.recipes, LAMBDA r : r = suggested)
         \o SelectSeq(report.recipes, LAMBDA r : r # suggested)

\* The cards of the stores.
SourceCard(source, s, selected) ==
    [tokens |-> Total(s), requests |-> s.requests, selected |-> source = selected]

ChangeOptions(c) ==
    [before |-> c.before, after |-> c.after, outcome |-> IF c.after > 0 THEN "rated" ELSE "unknown",
     incomplete |-> FALSE]
=============================================================================
