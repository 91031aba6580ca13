---------------------------- MODULE UsageRecorder ----------------------------
(* The recorder of SDK usage (examples/record_usage.py) and the analysis of   *)
(* the trace it writes (Analyze of internal/ledger/ledger.go).  Each task is  *)
(* worked on by a thread of its own, which records one response and, if there *)
(* is an evaluator, the outcome.  A line reaches the file in two parts.       *)
EXTENDS Totals, SequencesExt

CONSTANTS
    Tasks,          \* the tasks' IDs
    Response        \* the tokens of a response, by category

VARIABLES
    trace,          \* the parts of lines in the file
    calls,          \* what each thread has done: its next line is that of its last call
    writing         \* the threads in _append

recorder == <<trace, calls, writing>>

ASSUME TasksAssumption == IsFiniteSet(Tasks)
ASSUME ResponseAssumption == Response \in [1 .. 5 -> Nat]

\* A thread records one response, and the demo one for each task: its ID is the task's.
Request(task, tokens) ==
    [type |-> "request", task_id |-> task, request_id |-> task, tokens |-> tokens]
Result(task, success) == [type |-> "task_result", task_id |-> task, success |-> success]
-----------------------------------------------------------------------------
RecorderInit == trace = <<>> /\ calls = [t \in Tasks |-> "new"] /\ writing = {}

\* The normalizer refuses usage that it does not support, and the call raises.
record_response(t) ==
    /\ calls[t] = "new"
    /\ \E outcome \in {"normalized", "raised"} : calls' = [calls EXCEPT ![t] = outcome]
    /\ UNCHANGED <<trace, writing>>

record_outcome(t) ==
    /\ calls[t] = "recorded"
    /\ \E success \in {"true", "false"} : calls' = [calls EXCEPT ![t] = success]
    /\ UNCHANGED <<trace, writing>>

NextLine(t) == IF calls[t] = "normalized" THEN Request(t, Response) ELSE Result(t, calls[t])

\* Mutant: the file is opened without the lock.
OpenUnlocked(t) ==
    /\ calls[t] \in {"normalized", "true", "false"} /\ t \notin writing
    /\ writing' = writing \cup {t}
    /\ trace' = Append(trace, <<"start", NextLine(t)>>)
    /\ UNCHANGED calls

\* _append, under the lock of the process: the line begins ...
Open(t) ==
    /\ calls[t] \in {"normalized", "true", "false"} /\ writing = {}
    /\ writing' = {t}
    /\ trace' = Append(trace, <<"start", NextLine(t)>>)
    /\ UNCHANGED calls

\* ... and is complete when the file is closed.
Close(t) ==
    /\ t \in writing
    /\ writing' = writing \ {t}
    /\ trace' = Append(trace, <<"end", NextLine(t)>>)
    /\ calls' = [calls EXCEPT ![t] = IF @ = "normalized" THEN "recorded" ELSE "rated"]

RecorderNext == \E t \in Tasks : record_response(t) \/ record_outcome(t) \/ Open(t) \/ Close(t)
-----------------------------------------------------------------------------
(* Analyze *)

\* The demo's price book, in halves of a dollar per million tokens.
PriceBook == <<10, 1, 0, 0, 30>>

price(tokens) == TotalOf([i \in 1 .. 5 |-> tokens[i] * PriceBook[i]]) \div 2

\* Half a line is not JSON.
Whole(parts) ==
    /\ Len(parts) % 2 = 0
    /\ \A i \in DOMAIN parts :
         (i % 2 = 1) => parts[i][1] = "start" /\ parts[i + 1] = <<"end", parts[i][2]>>

Events(parts) == [k \in 1 .. (Len(parts) \div 2) |-> parts[2 * k][2]]

\* The events of one type, and those of a task among them, by their places.
OfType(events, type) == {k \in DOMAIN events : events[k].type = type}
Of(events, type, task) == {k \in OfType(events, type) : events[k].task_id = task}
Named(events) == {events[k].task_id : k \in DOMAIN events}

\* A response is recorded once, and a result once and for a task with responses.
Valid(events) ==
    /\ events # <<>>
    /\ \A j, k \in OfType(events, "request") :
         events[j].request_id = events[k].request_id => j = k
    /\ \A t \in Named(events) : /\ Of(events, "request", t) # {}
                                /\ Cardinality(Of(events, "task_result", t)) <= 1

The(events, places) == events[CHOOSE k \in places : TRUE]

Success(events, t) ==
    LET results == Of(events, "task_result", t)
    IN IF results = {} THEN "null" ELSE The(events, results).success

TaskReport(events, t) ==
    LET requests == Of(events, "request", t)
    IN [task_id |-> t, requests |-> Cardinality(requests),
        cost |-> TotalOf([k \in requests |-> price(events[k].tokens)]),
        success |-> Success(events, t)]

TotalCost(tasks) == TotalOf([i \in DOMAIN tasks |-> tasks[i].cost])

TotalTokens(events, i) == TotalOf([k \in OfType(events, "request") |-> events[k].tokens[i]])

\* The report lists the tasks in the order of these IDs.
Analyze(events, ids) ==
    LET tasks == [i \in DOMAIN ids |-> TaskReport(events, ids[i])]
        of(success) == Cardinality({i \in DOMAIN ids : Success(events, ids[i]) = success})
        cost == TotalCost(tasks)
    IN [requests |-> Cardinality(OfType(events, "request")), cost |-> cost, tasks |-> tasks,
        tokens |-> [i \in 1 .. 5 |-> TotalTokens(events, i)],
        successful_tasks |-> of("true"), failed_tasks |-> of("false"),
        tasks_without_result |-> of("null"),
        per_success |-> IF of("true") > 0 /\ of("null") = 0 THEN <<cost, of("true")>> ELSE <<>>]

Readable == Whole(trace) /\ Valid(Events(trace))

\* In an order that the IDs alone decide.
TraceReport == LET events == Events(trace) IN Analyze(events, SetToSeq(Named(events)))
-----------------------------------------------------------------------------
(* examples/experiment/evaluate_demo.py *)

DemoTasks == <<"explain-error", "extract-fields">>

\* Both tasks fail when the output is cut too short.
evaluate(cap) ==
    LET lines(task) == <<Request(task, <<500, 2000, 0, 0, cap>>),
                         Result(task, IF cap >= 256 THEN "true" ELSE "false")>>
    IN lines(DemoTasks[1]) \o lines(DemoTasks[2])
-----------------------------------------------------------------------------
\* record_usage.py: "Thread-safe in this process."  Whatever the threads do at
\* the same time, the trace can be read whenever no line is being written, and
\* then has each response and each outcome that was recorded, exactly once.
TraceReadable ==
    LET done == {t \in Tasks : calls[t] \in {"recorded", "rated", "true", "false"}}
        report == TraceReport
    IN writing = {} =>
         /\ Whole(trace)
         /\ Readable = (done # {})
         /\ Readable =>
              /\ {report.tasks[i].task_id : i \in DOMAIN report.tasks} = done
              /\ report.requests = Cardinality(done)
              /\ report.tasks_without_result = Cardinality({t \in done : calls[t] # "rated"})
=============================================================================
