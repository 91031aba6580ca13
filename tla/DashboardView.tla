---------------------------- MODULE DashboardView ----------------------------
(* What the dashboard draws (internal/webui/dashboard.js) from its state: the *)
(* points of the cost chart, the buttons it offers, and the check of a report *)
(* that the user opens.  A settings profile is its output cap, and has that   *)
(* as its hash; money is in units of 1e-6 dollars.                            *)
EXTENDS Totals, SequencesExt

\* A cost that was not recorded, a hash or an ID that is not there.
None == -1

finite(value) == value >= 0

SumOver(tasks, figure(_)) == TotalOf([i \in DOMAIN tasks |-> figure(tasks[i])])

\* The elements at some places, in order.
Chosen(seq, places) ==
    LET chosen[i \in 0 .. Len(seq)] ==
          IF i = 0 THEN <<>>
          ELSE IF i \in places THEN Append(chosen[i - 1], seq[i]) ELSE chosen[i - 1]
    IN chosen[Len(seq)]

-----------------------------------------------------------------------------
(* historyPoints *)

Measured(e, hash) ==
    \/ e.before = hash /\ finite(e.baseline)
    \/ e.after = hash /\ finite(e.candidate)

HasCost(entries, hash) == \E i \in DOMAIN entries : Measured(entries[i], hash)

\* The cost of some settings is the last one that was measured, and a candidate
\* is measured after its baseline.
CostOf(entries, hash) ==
    LET e == entries[SelectInSeq(entries, LAMBDA v : Measured(v, hash))]
    IN IF e.after = hash /\ finite(e.candidate) THEN e.candidate ELSE e.baseline

Point(label, cost, status) == [label |-> label, cost |-> cost, status |-> status]

\* Mutant: a baseline that was measured before is not a point again.
TrialPointsOnce(e, trial, first) ==
    (IF first THEN <<Point("Start", e.baseline, "baseline")>> ELSE <<>>)
    \o (IF finite(e.candidate) THEN <<Point("after", e.candidate, e.status)>> ELSE <<>>)

\* Each measured baseline is a point of its own; the first one is the start.
TrialPoints(e, trial, first) ==
    (IF first THEN <<Point("Start", e.baseline, "baseline")>> ELSE <<>>)
    \o (IF trial > 1 THEN <<Point("before", e.baseline, "baseline")>> ELSE <<>>)
    \o (IF finite(e.candidate) THEN <<Point("after", e.candidate, e.status)>> ELSE <<>>)

\* An entry's points, after those of the entries before it.
Extended(drawn, e, entries) ==
    IF e.action = "experiment" /\ finite(e.baseline)
    THEN [trial |-> drawn.trial + 1,
          points |-> drawn.points \o TrialPoints(e, drawn.trial + 1, drawn.points = <<>>)]
    ELSE IF e.status = "rolled_back" /\ HasCost(entries, e.after)
    THEN [trial |-> drawn.trial,
          points |-> Append(drawn.points, Point("Restored", CostOf(entries, e.after), "rolled_back"))]
    ELSE drawn

\* Entries are newest first, and drawn in the order of time.
Drawn(entries) ==
    LET n == Len(entries)
        drawn[i \in 0 .. n] ==
          IF i = 0 THEN [trial |-> 0, points |-> <<>>]
          ELSE Extended(drawn[i - 1], entries[n + 1 - i], entries)
    IN drawn

historyPoints(entries) == Drawn(entries)[Len(entries)].points
-----------------------------------------------------------------------------
(* renderTrend *)

TaskPoints(report) ==
    [i \in DOMAIN report.tasks |->
       Point(report.tasks[i].task_id, report.tasks[i].cost, "baseline")]

\* All points are in the table below the chart, the latest 8 are plotted.
Trend(state) == IF state.report.some THEN TaskPoints(state.report) ELSE historyPoints(state.entries)

Plotted(state) == LET all == Trend(state) IN SubSeq(all, Max({1, Len(all) - 7}), Len(all))

accepted(p) == p.status \in {"baseline", "applied", "rolled_back"}

\* The line goes through the points whose settings were in use.
Line(state) == {k \in DOMAIN Plotted(state) : accepted(Plotted(state)[k])}
-----------------------------------------------------------------------------
(* renderAction *)

Undo(state) == IF state.rollback_id = None THEN {} ELSE {"undo"}

Buttons(state) ==
    IF state.report.some THEN {}
    ELSE IF state.paused THEN {"resume"}
    ELSE IF state.demo THEN {"try"} \cup Undo(state)
    ELSE Undo(state)
-----------------------------------------------------------------------------
(* render *)

\* The improvement card is about the experiment that applied the active settings.
Current(state) ==
    LET i == SelectInSeq(state.entries, LAMBDA e : /\ e.applied /\ e.action = "experiment"
                                                   /\ e.after = state.active_hash)
    IN IF i = 0 THEN None ELSE state.entries[i].id

InputTokens(report) == TotalOf([k \in 1 .. 4 |-> report.tokens[k]])

\* The cards of a report; a share is a fraction.
ReportCards(report) ==
    [cost |-> report.cost, requests |-> report.requests,
     cached |-> IF InputTokens(report) > 0 THEN <<<<report.tokens[2], InputTokens(report)>>>> ELSE <<>>,
     quality |-> <<report.successful_tasks,
                   report.successful_tasks + report.failed_tasks + report.tasks_without_result>>]

HistoryCards(state) ==
    [cost |-> state.current_report, improvement |-> Current(state), spend |-> state.spend]

\* The ring of the token categories, as parts of the total: each arc starts
\* where the one before ends.
tokenChart(report) ==
    LET total == TotalOf(report.tokens)
        offset(i) == TotalOf([k \in 1 .. i - 1 |-> report.tokens[k]])
    IN [total |-> total,
        arcs |-> [i \in 1 .. 5 |-> [offset |-> offset(i), length |-> report.tokens[i]]],
        rows |-> [i \in {k \in 1 .. 5 : report.tokens[k] > 0 \/ k \in {1, 2, 5}} |-> report.tokens[i]]]

statusTitle ==
    {"applied", "rejected", "rolled_back", "resumed", "error", "running", "applying",
     "recommended", "unchanged"}

\* A row of the history: the cost of what was tried, if it was measured.
eventRow(e) ==
    [titled |-> e.status \in statusTitle,
     cost |-> IF finite(e.candidate) THEN <<e.candidate>> ELSE <<>>,
     restored |-> ~finite(e.candidate) /\ e.status = "rolled_back"]

History(state) == [i \in DOMAIN state.entries |-> eventRow(state.entries[i])]
-----------------------------------------------------------------------------
(* validateReport *)

CountOf(tasks, success) == Cardinality({i \in DOMAIN tasks : tasks[i].success = success})

TotalsMatch(r) ==
    /\ SumOver(r.tasks, LAMBDA t : t.requests) = r.requests
    /\ CountOf(r.tasks, "true") = r.successful_tasks
    /\ CountOf(r.tasks, "false") = r.failed_tasks
    /\ CountOf(r.tasks, "null") = r.tasks_without_result
    /\ SumOver(r.tasks, LAMBDA t : t.cost) = r.cost

\* A cost per success needs a success and no missing result; it is a fraction.
PerSuccess(cost, passed, unknown) == IF passed > 0 /\ unknown = 0 THEN <<cost, passed>> ELSE <<>>

PerSuccessMatches(r) ==
    LET own == PerSuccess(SumOver(r.tasks, LAMBDA t : t.cost), r.successful_tasks, r.tasks_without_result)
    IN /\ (own = <<>>) = (r.per_success = <<>>)
       /\ own # <<>> => own[1] * r.per_success[2] = r.per_success[1] * own[2]

UniqueTasks(r) == \A i, j \in DOMAIN r.tasks : r.tasks[i].task_id = r.tasks[j].task_id => i = j

\* What a file must hold at all, before it is compared with itself.
IsReport(r) ==
    /\ {"tasks", "requests", "cost", "tokens", "successful_tasks", "failed_tasks",
        "tasks_without_result", "per_success"} \subseteq DOMAIN r
    /\ r.tasks \in Seq([task_id : STRING, requests : Nat, cost : Nat,
                        success : {"true", "false", "null"}])
    /\ r.tokens \in [1 .. 5 -> Nat]

validateReport(r) == UniqueTasks(r) /\ TotalsMatch(r) /\ PerSuccessMatches(r)
=============================================================================
