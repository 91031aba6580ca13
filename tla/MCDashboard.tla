----------------------------- MODULE MCDashboard -----------------------------
(* A small instance of Dashboard: two profiles, a candidate that is cheaper   *)
(* or dearer, and three files, of which one lists a task twice and one counts *)
(* its requests wrongly; the trace is written by the threads of two tasks.    *)
EXTENDS Dashboard

MCTask(id, success) == [task_id |-> id, requests |-> 1, cost |-> 3, success |-> success]

MCFile(tasks, requests, per_success) ==
    [tasks |-> tasks, requests |-> requests, cost |-> 6, tokens |-> <<5, 4, 0, 2, 1>>,
     successful_tasks |-> 1, failed_tasks |-> 1, tasks_without_result |-> 0, per_success |-> per_success]

MCGood == MCFile(<<MCTask("a", "true"), MCTask("b", "false")>>, 2, <<6, 1>>)
MCTwice == MCFile(<<MCTask("a", "true"), MCTask("a", "false")>>, 2, <<6, 1>>)
MCMiscounted == MCFile(<<MCTask("a", "true"), MCTask("b", "false")>>, 3, <<6, 1>>)
MCFiles == {MCGood, MCTwice, MCMiscounted}
MCCosts == {<<6, 4>>, <<4, 6>>}
MCResponse == <<4, 8, 0, 0, 2>>
=============================================================================
