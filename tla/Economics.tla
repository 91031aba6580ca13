------------------------------ MODULE Economics ------------------------------
(* What the pages compute from recorded usage: internal/webui/economics.js.   *)
(* A summary is a record of tokens per billing category, responses, known     *)
(* cost, responses without a price and the window it covers; money, tokens    *)
(* and time are small integers.  A value that may be missing (null in the     *)
(* code) is a sequence of at most one element.                                *)
EXTENDS Totals, Sequences

InputKeys == {"input", "cached_input", "cache_write", "cache_write_1h"}
Keys == InputKeys \cup {"output"}

Input(s) == TotalOf([k \in InputKeys |-> s.tokens[k]])

\* Mutant: a cost with unpriced responses in it counts as complete.
PricedPartly(s) == s.requests > 0
Priced(s) == s.requests > 0 /\ s.unpriced = 0

Duration(s) == IF s.until >= s.from THEN <<s.until - s.from>> ELSE <<>>

Measure(s) ==
    [input |-> Input(s), requests |-> s.requests,
     cache |-> IF Input(s) > 0 THEN <<<<s.tokens["cached_input"], Input(s)>>>> ELSE <<>>,
     cost |-> IF Priced(s) THEN <<s.usd>> ELSE <<>>, hours |-> Duration(s)]

\* Usage is incomplete when the logs could not be read, or when a source that
\* the report is about has gaps.
Incomplete(report) ==
    \/ report.logError \/ report.gaps
    \/ \E source \in report.sources :
         /\ report.selected \in {"", source.id}
         /\ source.gaps \/ source.unresolved > 0

QualityRegression(options) ==
    \/ options.outcome = "regression"
    \/ 0 < options.after /\ options.after < options.before

QualityUnknown(options) ==
    options.before = 0 \/ options.after = 0 \/ options.outcome = "unknown"

\* The caveats shown with a comparison of two summaries.
Signals(a, b, options) ==
    LET x == Measure(a)
        y == Measure(b)
        both == x.cost # <<>> /\ y.cost # <<>>
        raised ==
          [more_total_input |-> x.input * y.requests > y.input * x.requests /\ y.input > x.input,
           less_input_more_cost |-> both /\ y.input < x.input /\ y.cost[1] > x.cost[1],
           more_responses |-> y.requests > x.requests,
           price_gap |-> ~both,
           different_windows |-> x.hours # <<>> /\ y.hours # <<>> /\ x.hours # y.hours,
           different_models |-> a.models # b.models,
           quality_regression |-> QualityRegression(options),
           quality_unknown |-> ~QualityRegression(options) /\ QualityUnknown(options),
           coverage_gap |-> options.incomplete]
    IN IF x.requests = 0 \/ y.requests = 0 THEN {"no_usage"}
       ELSE {signal \in DOMAIN raised : raised[signal]}

\* The caveats there is a text for.
Messages ==
    {"no_usage", "more_total_input", "less_input_more_cost", "more_responses", "price_gap",
     "different_windows", "different_models", "quality_regression", "quality_unknown",
     "coverage_gap"}

\* A change in per cent as a fraction: <<difference, old value>>.
Delta(old, new) == IF old > 0 THEN <<<<new - old, old>>>> ELSE <<>>

\* The change a row of the comparison shows; a missing value is never a zero.
Shown(x, y, old, new) ==
    IF x.requests > 0 /\ y.requests > 0 /\ old # <<>> /\ new # <<>>
    THEN Delta(old[1], new[1]) ELSE <<>>

Comparison(a, b) ==
    LET x == Measure(a)
        y == Measure(b)
    IN [input |-> Shown(x, y, <<x.input>>, <<y.input>>),
        responses |-> Shown(x, y, <<x.requests>>, <<y.requests>>),
        cost |-> Shown(x, y, x.cost, y.cost)]

\* The running totals of an hourly graph.
Timeline(hours) ==
    [i \in 1 .. Len(hours) |->
       [input |-> TotalOf([j \in 1 .. i |-> Input(hours[j])]),
        cache |-> TotalOf([j \in 1 .. i |-> hours[j].tokens["cached_input"]]),
        calls |-> TotalOf([j \in 1 .. i |-> hours[j].requests])]]

-----------------------------------------------------------------------------
(* The cost by category, from the price groups of a session: a group is a     *)
(* model at one set of rates, with the cost per category it was charged.      *)

Charged(groups) == {g \in DOMAIN groups : groups[g].unpriced = 0 /\ groups[g].rates # <<>>}

Spend(groups) ==
    [responses |-> MapThenSumSet(LAMBDA g : groups[g].requests, Charged(groups)),
     usd |-> [k \in Keys |-> MapThenSumSet(LAMBDA g : groups[g].usd[k], Charged(groups))]]

\* The breakdown is shown only when it covers some, and no more than all, responses.
Detailed(s, spend) == 0 < spend.responses /\ spend.responses <= s.requests

\* What the four bars of the breakdown stand for: both kinds of writes are one.
Parts(spend) ==
    [cached_input |-> spend.usd["cached_input"], input |-> spend.usd["input"],
     writes |-> spend.usd["cache_write"] + spend.usd["cache_write_1h"],
     output |-> spend.usd["output"]]
=============================================================================
