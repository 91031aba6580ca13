--------------------------- MODULE MCOptimizerPage ---------------------------
(* A small instance of OptimizerPage: usage that is missing, unpriced, dearer *)
(* and cheaper than before.                                                   *)
EXTENDS OptimizerPage

Figure(requests, input, usd, unpriced) ==
    [tokens |-> [k \in Keys |-> IF k = "input" THEN input ELSE 0], requests |-> requests,
     usd |-> usd, unpriced |-> unpriced, from |-> 0, until |-> 1, models |-> {}]

MCBaselines == {Figure(0, 0, 0, 0), Figure(2, 4, 4, 0)}
MCHourRuns ==
    {<<Figure(0, 0, 0, 0), Figure(1, 3, 3, 1), Figure(0, 0, 0, 0)>>,
     <<Figure(3, 6, 2, 0), Figure(0, 0, 0, 0), Figure(1, 5, 1, 0)>>}
=============================================================================
