------------------------------ MODULE Dashboard ------------------------------
(* The dashboard page of `tracefrugal serve` and of the public demo           *)
(* (internal/webui/dashboard.js), with the server it polls (historyDashboard  *)
(* and dashboard of cmd/tracefrugal/serve.go).  The mode is fixed when the    *)
(* page is loaded: the history of a state directory, the usage of a trace, or *)
(* the demo, whose trials are made up in the browser.  In every mode a report *)
(* may be opened from a file, which then takes the place of the page's state. *)
(* An experiment, a rollback and a resume are one step of the server here;    *)
(* ExperimentState has them write by write.                                   *)
EXTENDS DashboardView, UsageRecorder

CONSTANTS
    Modes,              \* among "history", "usage" and "demo"
    Profiles,           \* profiles of the user, as output caps
    Baseline,           \* the profile that is active at first
    Costs,              \* costs of a baseline and of its candidate
    Files,              \* reports the user may open
    MaxExperiments,     \* experiments of the scheduler
    MaxTrials,          \* trials of the demo
    MaxClicks,          \* clicks on a page with a server
    MaxDemoClicks,      \* clicks in the demo
    MaxPolls,           \* reads in flight
    MaxEvents           \* edits, other pages' actions, failures

ASSUME BaselineAssumption == Baseline \in Profiles
ASSUME CostsAssumption == Costs \subseteq Nat \X Nat
ASSUME FilesAssumption == \A file \in Files : IsReport(file)
ASSUME BoundsAssumption == MaxClicks \in Nat /\ MaxDemoClicks \in Nat /\ MaxEvents \in Nat

VARIABLES
    mode,
    server,             \* the state directory: the active profile, its history, the pause
    page,               \* what the page holds: state, loaded, busy, imported
    dialog,             \* the change that the open undo dialog describes
    op,                 \* the action that is running
    polls,              \* the reads in flight
    clicks, events

vars == <<mode, server, recorder, page, dialog, op, polls, clicks, events>>

Polls == 1 .. MaxPolls
NoReport == [some |-> FALSE]
NoOp == [action |-> "none", phase |-> "none"]
NoDialog == [id |-> None, from |-> None, to |-> None]
Opened(file) == [f \in DOMAIN file \cup {"some"} |-> IF f = "some" THEN TRUE ELSE file[f]]
Consistent == {file \in Files : validateReport(file)}
AllClicks == IF mode = "demo" THEN MaxDemoClicks ELSE MaxClicks

Blank == [demo |-> FALSE, report |-> NoReport, entries |-> <<>>, active_hash |-> None,
          paused |-> FALSE, spend |-> 0, current_report |-> None, rollback_id |-> None]

Entry(id, action, status) ==
    [id |-> id, action |-> action, status |-> status, applied |-> FALSE,
     before |-> None, after |-> None, baseline |-> None, candidate |-> None]
-----------------------------------------------------------------------------
(* Snapshot of internal/experiment/dashboard.go; entries are newest first *)

Cost(value) == IF finite(value) THEN value ELSE 0

IsExperiment(e) == e.action = "experiment"

\* The experiment an undo is offered for: the newest that applied the settings.
RollbackID(entries, active) ==
    LET i == SelectInSeq(entries, LAMBDA e : IsExperiment(e) /\ e.applied /\ e.after = active)
    IN IF i = 0 THEN None ELSE entries[i].id

\* The newest evaluation of the active settings, as a baseline or as a candidate.
CurrentReport(entries, active) ==
    LET i == SelectInSeq(entries, LAMBDA e :
               /\ IsExperiment(e)
               /\ \/ e.before = active /\ finite(e.baseline)
                  \/ e.after = active /\ finite(e.candidate))
    IN IF i = 0 THEN None
       ELSE IF entries[i].before = active /\ finite(entries[i].baseline)
       THEN entries[i].baseline ELSE entries[i].candidate

Snapshot(entries, active, paused) ==
    [Blank EXCEPT !.entries = entries, !.active_hash = active, !.paused = paused,
                  !.spend = SumOver(entries, LAMBDA e : Cost(e.baseline) + Cost(e.candidate)),
                  !.current_report = CurrentReport(entries, active),
                  !.rollback_id = RollbackID(entries, active)]

Report == IF mode = "usage" THEN [Blank EXCEPT !.report = Opened(TraceReport)]
          ELSE Snapshot(server.entries, server.active, server.paused)
-----------------------------------------------------------------------------
(* The server *)

NewID == Len(server.entries) + 1
EntryOf(id) == server.entries[Len(server.entries) + 1 - id]
Running == server.entries # <<>> /\ server.entries[1].status = "running"
Experiments == Len(SelectSeq(server.entries, IsExperiment))

\* The lock of a running experiment refuses every other operation.
Start ==
    /\ mode = "history" /\ ~Running /\ ~server.paused /\ Experiments < MaxExperiments
    /\ \E after \in Profiles \ {server.active} :
         server' = [server EXCEPT !.entries =
           <<[Entry(NewID, "experiment", "running") EXCEPT !.before = server.active, !.after = after]>>
           \o @]
    /\ UNCHANGED <<mode, recorder, page, dialog, op, polls, clicks, events>>

\* An evaluation fails, or the candidate is kept, applied or only recommended;
\* it is not applied when the profile was changed meanwhile.  A stop between the
\* intent to apply it and the last record leaves the intent, with the profile
\* before or after; that its lock is then removed by hand is the same step.
Finish ==
    /\ Running
    /\ LET e == server.entries[1]
           Ends(entry, active) ==
             server' = [server EXCEPT !.entries[1] = entry, !.active = active]
       IN \/ Ends([e EXCEPT !.status = "error"], server.active)
          \/ \E cost \in Costs :
               LET With(status) == [e EXCEPT !.status = status,
                                             !.baseline = cost[1], !.candidate = cost[2]]
               IN \/ Ends([e EXCEPT !.status = "error", !.baseline = cost[1]], server.active)
                  \/ \E status \in {"error", "rejected", "recommended"} :
                       Ends(With(status), server.active)
                  \/ /\ server.active = e.before
                     /\ \/ Ends([With("applied") EXCEPT !.applied = TRUE], e.after)
                        \/ \E active \in {e.before, e.after} : Ends(With("applying"), active)
    /\ UNCHANGED <<mode, recorder, page, dialog, op, polls, clicks, events>>

\* Mutant: the active profile is not compared with the experiment's.
RollbackAnyApplied(id) ==
    /\ ~Running /\ id \in 1 .. Len(server.entries)
    /\ IsExperiment(EntryOf(id)) /\ EntryOf(id).applied

RollbackAllowed(id) ==
    /\ ~Running /\ id \in 1 .. Len(server.entries)
    /\ IsExperiment(EntryOf(id)) /\ EntryOf(id).applied
    /\ server.active = EntryOf(id).after

Rollback(id) ==
    /\ RollbackAllowed(id)
    /\ server' = [active |-> EntryOf(id).before, paused |-> TRUE,
                  entries |-> <<[Entry(NewID, "rollback", "rolled_back") EXCEPT
                                   !.applied = TRUE, !.before = server.active,
                                   !.after = EntryOf(id).before]>> \o server.entries]

ResumeAllowed == ~Running /\ server.paused

Resume ==
    /\ ResumeAllowed
    /\ server' = [server EXCEPT !.paused = FALSE,
                                !.entries = <<Entry(NewID, "resume", "resumed")>> \o @]
-----------------------------------------------------------------------------
(* The demo: trials of demoTrial *)

demoReport(cap) ==
    LET cost == 500 * 5 + 1000 + cap * 15
        success == cap >= 256
        task(id) == [task_id |-> id, requests |-> 1, cost |-> cost,
                     success |-> IF success THEN "true" ELSE "false"]
    IN [requests |-> 2, cost |-> 2 * cost, tokens |-> <<1000, 4000, 0, 0, 2 * cap>>,
        tasks |-> <<task("explain-error"), task("extract-fields")>>,
        successful_tasks |-> IF success THEN 2 ELSE 0, failed_tasks |-> IF success THEN 0 ELSE 2,
        tasks_without_result |-> 0, per_success |-> IF success THEN <<cost, 1>> ELSE <<>>]

NextID(state) == Len(state.entries) + 1

\* The trial of a state that is not the demo's: its figures are not numbers.
StrayTrial(state) ==
    [state EXCEPT !.entries = <<Entry(NextID(state), "experiment", "rejected")>> \o @,
                  !.spend = None, !.current_report = None]

demoTrial(state) ==
    LET before == state.active_hash
        after == Max({64, before \div 2})
        a == demoReport(before)
        b == demoReport(after)
        applied == b.successful_tasks = 2 /\ after < before
        e == [Entry(NextID(state), "experiment", IF applied THEN "applied" ELSE "rejected") EXCEPT
                !.applied = applied, !.before = before, !.after = after,
                !.baseline = a.cost, !.candidate = b.cost]
    IN [state EXCEPT !.entries = <<e>> \o @, !.spend = @ + a.cost + b.cost,
                     !.active_hash = IF applied THEN after ELSE @,
                     !.rollback_id = IF applied THEN e.id ELSE @,
                     !.current_report = demoReport(IF applied THEN after ELSE before).cost]

\* Mutant: an undone trial stays the one to be undone.
NextUndoStale(entries, active, id) == id

\* After an undo, the next one to undo is the one that applied these settings.
NextUndo(entries, active, id) == RollbackID(entries, active)

demoRollback(state) ==
    LET i == SelectInSeq(state.entries, LAMBDA e : e.id = state.rollback_id)
        source == state.entries[i]
        entry == [Entry(NextID(state), "rollback", "rolled_back") EXCEPT
                    !.applied = TRUE, !.before = state.active_hash, !.after = source.before]
    IN IF i = 0 THEN state
       ELSE IF state.active_hash # source.after THEN state
       ELSE [state EXCEPT !.entries = <<entry>> \o @, !.active_hash = source.before,
                          !.current_report = demoReport(source.before).cost, !.paused = TRUE,
                          !.rollback_id = NextUndo(<<entry>> \o state.entries, source.before, @)]

demoResume(state) ==
    [state EXCEPT !.paused = FALSE,
                  !.entries = <<Entry(NextID(state), "resume", "resumed")>> \o @]

resetDemo == demoTrial([Blank EXCEPT !.demo = TRUE, !.active_hash = 1024])
-----------------------------------------------------------------------------
Init ==
    /\ mode \in Modes
    /\ server = [active |-> Baseline, entries |-> <<>>, paused |-> FALSE]
    /\ RecorderInit
    /\ page = [state |-> IF mode = "demo" THEN resetDemo ELSE Blank, loaded |-> mode = "demo",
               busy |-> FALSE, imported |-> FALSE]
    /\ dialog = NoDialog
    /\ op = NoOp
    /\ polls = [i \in Polls |-> [phase |-> "free", state |-> Blank]]
    /\ clicks = 0 /\ events = 0

(* refresh, every 3 seconds *)

\* Mutant: the page is read once.
PollOnce(i) ==
    /\ mode # "demo" /\ ~page.imported /\ ~page.busy /\ dialog = NoDialog
    /\ polls[i].phase = "free" /\ ~page.loaded
    /\ polls' = [polls EXCEPT ![i].phase = "sent"]
    /\ UNCHANGED <<mode, server, recorder, page, dialog, op, clicks, events>>

Poll(i) ==
    /\ mode # "demo" /\ ~page.imported /\ ~page.busy /\ dialog = NoDialog
    /\ polls[i].phase = "free"
    /\ polls' = [polls EXCEPT ![i].phase = "sent"]
    /\ UNCHANGED <<mode, server, recorder, page, dialog, op, clicks, events>>

PollAnswered(i) ==
    /\ polls[i].phase = "sent" /\ (mode = "usage" => Readable)
    /\ polls' = [polls EXCEPT ![i] = [phase |-> "answered", state |-> Report]]
    /\ UNCHANGED <<mode, server, recorder, page, dialog, op, clicks, events>>

\* What is shown stays, and a page without a state shows an empty one.
Unavailable(i) ==
    /\ polls' = [polls EXCEPT ![i].phase = "free"]
    /\ page' = [page EXCEPT !.loaded = TRUE]
    /\ UNCHANGED <<mode, server, recorder, dialog, op, clicks>>

\* The history cannot be read, or the server is gone.
PollFailed(i) ==
    /\ polls[i].phase = "sent" /\ events < MaxEvents
    /\ events' = events + 1
    /\ Unavailable(i)

\* The trace ends in a partial line, or has no responses yet.
PollRefused(i) ==
    /\ polls[i].phase = "sent" /\ mode = "usage" /\ ~Readable
    /\ Unavailable(i)
    /\ UNCHANGED events

\* Mutant: a read that was sent before a file was opened replaces it.
ShownAlways(state) == state

\* A report that was opened meanwhile is kept.
Shown(state) == IF page.imported THEN page.state ELSE state

PollShown(i) ==
    /\ polls[i].phase = "answered"
    /\ page' = [page EXCEPT !.state = Shown(polls[i].state), !.loaded = TRUE]
    /\ polls' = [polls EXCEPT ![i] = [phase |-> "free", state |-> Blank]]
    /\ UNCHANGED <<mode, server, recorder, dialog, op, clicks, events>>
-----------------------------------------------------------------------------
(* act *)

Click(action) ==
    /\ ~page.busy /\ page.loaded /\ dialog = NoDialog
    /\ action \in Buttons(page.state)
    /\ clicks < AllClicks
    /\ clicks' = clicks + 1

\* The dialog describes the change that would be undone now, and its text stays.
OpenUndo ==
    /\ Click("undo")
    /\ LET entries == page.state.entries
           i == SelectInSeq(entries, LAMBDA e : e.id = page.state.rollback_id)
       IN /\ i # 0
          /\ dialog' = [id |-> entries[i].id, from |-> entries[i].after, to |-> entries[i].before]
    /\ UNCHANGED <<mode, server, recorder, page, op, polls, events>>

CancelUndo ==
    /\ dialog # NoDialog
    /\ dialog' = NoDialog
    /\ UNCHANGED <<mode, server, recorder, page, op, polls, clicks, events>>

Begin(action, phase) ==
    /\ page' = [page EXCEPT !.busy = TRUE]
    /\ op' = [action |-> action, phase |-> phase, id |-> page.state.rollback_id,
              shown |-> page.state.active_hash, reviewed |-> dialog]

\* The rollback is of the experiment that the page knows now, also when a read
\* has replaced the one that the dialog describes.
ConfirmUndo ==
    /\ dialog # NoDialog
    /\ dialog' = NoDialog
    /\ IF page.state.demo
       THEN page' = [page EXCEPT !.state = demoRollback(@)] /\ UNCHANGED op
       ELSE Begin("rollback", "sent")
    /\ UNCHANGED <<mode, server, recorder, polls, clicks, events>>

ClickResume ==
    /\ Click("resume")
    /\ IF page.state.demo
       THEN page' = [page EXCEPT !.state = demoResume(@)] /\ UNCHANGED op
       ELSE Begin("resume", "sent")
    /\ UNCHANGED <<mode, server, recorder, dialog, polls, events>>

Trials == Len(SelectSeq(page.state.entries, IsExperiment))

\* The demo shows its test for 650 ms before the trial.
ClickTry ==
    /\ Click("try") /\ Trials < MaxTrials
    /\ Begin("try", "waiting")
    /\ UNCHANGED <<mode, server, recorder, dialog, polls, events>>

\* finally: the page is no longer busy, whatever happened.
BusyAfter == FALSE

\* The trial is of the state at its end, which an opened file may have replaced.
TryEnds ==
    /\ op.phase = "waiting"
    /\ page' = [page EXCEPT !.busy = BusyAfter,
                            !.state = IF @.demo THEN demoTrial(@) ELSE StrayTrial(@)]
    /\ op' = NoOp
    /\ UNCHANGED <<mode, server, recorder, dialog, polls, clicks, events>>

(* localAction *)
PostAccepted ==
    /\ mode # "demo" /\ op.phase = "sent"
    /\ \/ op.action = "rollback" /\ Rollback(op.id)
       \/ op.action = "resume" /\ Resume
    /\ op' = [op EXCEPT !.phase = "done"]
    /\ UNCHANGED <<mode, recorder, page, dialog, polls, clicks, events>>

\* The demo's site has no server.
PostRefused ==
    /\ op.phase = "sent"
    /\ \/ mode = "demo"
       \/ op.action = "rollback" /\ ~RollbackAllowed(op.id)
       \/ op.action = "resume" /\ ~ResumeAllowed
    /\ op' = [op EXCEPT !.phase = "failed"]
    /\ UNCHANGED <<mode, server, recorder, page, dialog, polls, clicks, events>>

\* The request, its answer, or the read that follows it is lost.
PostLost ==
    /\ op.phase \in {"sent", "done", "reading"} /\ events < MaxEvents
    /\ events' = events + 1
    /\ op' = [op EXCEPT !.phase = "failed"]
    /\ UNCHANGED <<mode, server, recorder, page, dialog, polls, clicks>>

\* After the action the page is read again, unless a file was opened.
ReadAgain ==
    /\ op.phase = "done"
    /\ op' = [op EXCEPT !.phase = IF page.imported THEN "failed" ELSE "reading"]
    /\ UNCHANGED <<mode, server, recorder, page, dialog, polls, clicks, events>>

ReadAnswered ==
    /\ op.phase = "reading"
    /\ op' = [action |-> op.action, phase |-> "answered", state |-> Report]
    /\ UNCHANGED <<mode, server, recorder, page, dialog, polls, clicks, events>>

ActEnds ==
    /\ op.phase \in {"answered", "failed"}
    /\ page' = [page EXCEPT !.busy = BusyAfter,
                            !.state = IF op.phase = "answered" THEN Shown(op.state) ELSE @]
    /\ op' = NoOp
    /\ UNCHANGED <<mode, server, recorder, dialog, polls, clicks, events>>
-----------------------------------------------------------------------------
(* The other controls *)

\* The button is in the banner of the demo.
Reset ==
    /\ page.state.demo /\ ~page.busy /\ dialog = NoDialog /\ clicks < AllClicks
    /\ clicks' = clicks + 1
    /\ page' = [page EXCEPT !.state = resetDemo, !.imported = FALSE]
    /\ UNCHANGED <<mode, server, recorder, dialog, op, polls, events>>

\* A file is read while the page goes on: it may arrive during an action, or
\* while the dialog is open.  An inconsistent report is not opened.
OpenFile ==
    /\ clicks < AllClicks
    /\ clicks' = clicks + 1
    /\ \E file \in Consistent :
         page' = [page EXCEPT !.imported = TRUE, !.loaded = TRUE,
                              !.state = [Blank EXCEPT !.report = Opened(file)]]
    /\ UNCHANGED <<mode, server, recorder, dialog, op, polls, events>>

Event ==
    /\ mode # "demo" /\ events < MaxEvents
    /\ events' = events + 1
    /\ UNCHANGED <<mode, page, dialog, op, polls, clicks>>

OtherPage ==
    /\ Event
    /\ Resume \/ \E id \in 1 .. Len(server.entries) : Rollback(id)
    /\ UNCHANGED recorder

Edit ==
    /\ Event /\ mode = "history"
    /\ \E profile \in Profiles \ {server.active} : server' = [server EXCEPT !.active = profile]
    /\ UNCHANGED recorder

\* In the mode of usage the server reads the trace that an application writes.
Recording(step) ==
    /\ mode = "usage" /\ step
    /\ UNCHANGED <<mode, server, page, dialog, op, polls, clicks, events>>

TraceGrows == Recording(RecorderNext)
TraceCloses == Recording(\E t \in Tasks : Close(t))
-----------------------------------------------------------------------------
Next ==
    \/ Start \/ Finish
    \/ \E i \in Polls : Poll(i) \/ PollAnswered(i) \/ PollRefused(i) \/ PollFailed(i)
                         \/ PollShown(i)
    \/ OpenUndo \/ CancelUndo \/ ConfirmUndo \/ ClickResume \/ ClickTry \/ TryEnds
    \/ PostAccepted \/ PostRefused \/ PostLost \/ ReadAgain \/ ReadAnswered \/ ActEnds
    \/ Reset \/ OpenFile \/ OtherPage \/ Edit \/ TraceGrows

OpStep == TryEnds \/ PostAccepted \/ PostRefused \/ ReadAgain \/ ReadAnswered \/ ActEnds
PollStep(i) == Poll(i) \/ PollAnswered(i) \/ PollRefused(i) \/ PollShown(i)

\* The timers fire, the server answers, the browser delivers, and a line that
\* was begun is completed.  An action, and a read, has one such step at a time.
Fairness ==
    /\ WF_vars(OpStep)
    /\ \A i \in Polls : WF_vars(PollStep(i))
    /\ WF_vars(TraceCloses)

Spec == Init /\ [][Next]_vars /\ Fairness
-----------------------------------------------------------------------------
\* The page is busy exactly while an action is running, no dialog is open then,
\* and an opened file is what the page shows.
TypeOK ==
    /\ mode \in Modes
    /\ server.active \in Profiles /\ server.paused \in BOOLEAN
    /\ \A i \in DOMAIN server.entries : server.entries[i].id = Len(server.entries) + 1 - i
    /\ page.busy = (op # NoOp)
    /\ page.imported => page.loaded /\ page.state.report.some /\ ~page.state.demo
    /\ dialog # NoDialog => ~page.busy
    /\ clicks \in 0 .. AllClicks /\ events \in 0 .. MaxEvents

\* The demo keeps its total, its current report and its next undo by hand, step
\* by step: they are always what the server would work out from that history;
\* and its report of some settings is what the analysis makes of the trace that
\* the demo's evaluator writes under them.
DemoMatchesSnapshot ==
    LET s == page.state IN
    s.demo =>
      /\ s = [Snapshot(s.entries, s.active_hash, s.paused) EXCEPT !.demo = TRUE]
      /\ LET shown == demoReport(s.active_hash)
             analyzed == Analyze(evaluate(s.active_hash), DemoTasks)
         IN /\ [shown EXCEPT !.per_success = <<>>] = [analyzed EXCEPT !.per_success = <<>>]
            /\ PerSuccessMatches([shown EXCEPT !.per_success = analyzed.per_success])

\* What a record leaves as the settings in use.
Leaves(e) == IF e.applied THEN e.after ELSE e.before

\* docs/dashboard.md: "A rejected point is excluded from the applied line."  So
\* the line ends at the cost of the settings in use, which is the cost on the
\* first card, unless the settings were changed since the last record that is
\* plotted.
LineEndsAtActive ==
    LET s == page.state
        i == SelectInSeq(s.entries, LAMBDA e : \/ IsExperiment(e) /\ finite(e.baseline)
                                               \/ e.action = "rollback")
    IN ~s.report.some /\ i # 0 /\ Leaves(s.entries[i]) = s.active_hash =>
         /\ Line(s) # {}
         /\ Plotted(s)[Max(Line(s))].cost = s.current_report

\* The cards, the chart and the history are three pieces of code over one list:
\* the testing cost is what the chart's points cost, restored ones apart; the
\* rows of the history that show a cost are the chart's candidates; and the
\* improvement that is shown is the one that undo would take back.
CardsAgree ==
    LET s == page.state
        points == Trend(s)
        of(label) == {k \in DOMAIN points : points[k].label = label}
        rows == Reverse(History(s))
    IN ~s.report.some /\ page.loaded =>
         /\ HistoryCards(s).spend =
              TotalOf([k \in DOMAIN points \ of("Restored") |-> points[k].cost])
         /\ Chosen([i \in DOMAIN rows |-> rows[i].cost], {i \in DOMAIN rows : rows[i].cost # <<>>})
              = Chosen([k \in DOMAIN points |-> <<points[k].cost>>], of("after"))
         /\ HistoryCards(s).improvement = s.rollback_id
         /\ \A i \in DOMAIN History(s) : History(s)[i].titled

\* Whatever file is opened or trace is read, the page's own check of a report
\* would accept it, and the cards of the page, its chart, its ring and its
\* table are about the same tasks: the costs add up to the total, each task has
\* one result, and the categories of tokens fill the ring and the table.
ReportAddsUp ==
    LET s == page.state IN
    s.report.some =>
      /\ validateReport(s.report)
      /\ SumOver(Trend(s), LAMBDA p : p.cost) = s.report.cost
      /\ Cardinality({p.label : p \in ToSet(Trend(s))}) = Len(Trend(s))
      /\ SumOver(s.report.tasks, LAMBDA t : t.requests) = s.report.requests
      /\ Len(Trend(s)) = ReportCards(s.report).quality[2]
      /\ LET ring == tokenChart(s.report) IN
           /\ \A i \in 1 .. 4 : ring.arcs[i].offset + ring.arcs[i].length = ring.arcs[i + 1].offset
           /\ ring.arcs[5].offset + ring.arcs[5].length = ring.total
           /\ TotalOf(ring.rows) = ring.total
           /\ ReportCards(s.report).cached # <<>> =>
                ReportCards(s.report).cached[1][2] = ring.total - ring.rows[5]

\* "Review the previous response limit, then restore it" (docs/dashboard.md:9):
\* an accepted rollback changes the settings as the dialog said.  That fails
\* when a read that was under way brought another experiment to the page while
\* the dialog was open: Confirm undoes that one, and the dialog still describes
\* the other.  But even then the settings that are replaced are those that the
\* page held as active when the user confirmed, whatever happened meanwhile.
UndoOfShown ==
    [][PostAccepted /\ op.action = "rollback" =>
         /\ server.active = op.shown
         /\ op.id = op.reviewed.id =>
              server.active = op.reviewed.from /\ server'.active = op.reviewed.to]_vars

\* A file that was opened stays on the page: no read, and no action that was
\* running, replaces its report.
ImportKept ==
    [][page.imported /\ ~OpenFile => page'.state.report = page.state.report]_vars

\* An action always ends, and the page can be used again.
BusyEnds == page.busy ~> ~page.busy

\* When nothing changes any more, the page comes to show what the server has,
\* unless a file or the dialog is open.
Converges ==
    mode # "demo" =>
      <>[](\/ page.imported \/ dialog # NoDialog
           \/ page.state = IF mode = "usage" /\ ~Readable THEN Blank ELSE Report)

\* The totals, cards, line, ring, table and history agree about one list of
\* records, or one report, whatever was opened, read or undone.
FiguresAgree == TypeOK /\ LineEndsAtActive /\ CardsAgree /\ ReportAddsUp

\* Whatever fails or is opened meanwhile, the page comes to rest: usable and
\* current.
Settles == BusyEnds /\ Converges
=============================================================================
