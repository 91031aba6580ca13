# TraceFrugal in TLA+

TraceFrugal measures what coding agents spend and makes a few reversible
changes to spend less: it limits how long Claude Code keeps shell output, it
promotes a cheaper agent profile after a paired experiment, and it shortens
large MCP results behind a proxy. The reports are arithmetic over log files; what can really go
wrong is in the changes. Several processes write a few small files, beside a user
who edits the same files, and each promise of the documentation ("one active
trial", "restore the exact bytes", "never overwritten", "no receipt, no claim")
is about what is left when something stops halfway. The user sees all of it through three
browser pages that poll a local server: there a late answer, a second tab, or a figure that
is computed in two places, can tell him something that is not so. Both are modelled here:
the writes, and what is shown of them.

Paths are relative to the repository. A line such as `state.go:221` names the
file of the component under discussion.

## 1. Inventory

### Optimizer trial: `internal/optimize/state.go`, `doctor.go`, `cmd/tracefrugal/optimize.go`

*State.* In `.tracefrugal/optimizer`: the directory `.lock`, the journal `history.json`
(one record per trial: status, hashes of both texts, mode, verdict), a directory
per trial with `before.json`, `after.json`, `baseline.json`, and one receipt file
per session. Outside: `<project>/.claude/settings.local.json`, which belongs to
the user. In memory: each server's last diagnosis, under the mutex `a.mu`.
*Operations.* `Diagnose`, `Apply`, `Restore`, `Rate`, `Record` (the SessionStart
hook that the applied settings install).
*Interaction.* A server per `tracefrugal optimize` and a process per session share
the directory; the lock directory refuses at once, nobody waits.
*Hard.* Two journal writes and a settings write in each of Apply and Restore, with
crashes between; edits at any moment; a lock that survives its owner; sessions that
start while a restore runs.
*Correct when* the user's settings can always be had back, at most one trial claims
the file, the journal does not lie, receipts are for active trials, and
an unfinished trial can be finished.

### Experiments: `internal/experiment/experiment.go`, `history.go`, `dashboard.go`

*State.* In the state directory: `active.json`, the marker `paused`, the file
`.lock`, and per operation `runs/<id>/event.json` with `before.json` and
`candidate.json` for experiments.
*Operations.* `Run` (two evaluations by an external command, a comparison, perhaps
a promotion), `Rollback`, `Resume`; `History` and the dashboard only read.
*Interaction.* The command line, the interval loop and the dashboard's POST
requests run the same functions on one directory; the evaluator is an external program with
the user's rights.
*Hard.* Minutes pass between the reading of the profile and its promotion; a
rollback is four writes; profiles may return to an earlier text; snapshots can be modified.
*Correct when* no edit is lost, the journal tells what `active.json` is, a pause
holds, and a rollback restores exactly what the experiment replaced.

### MCP result packing: `internal/pack/proxy.go`, `pack.go`, `report.go`

*State.* Per trial directory: `trial.json`, the marker `stopped`, `running.lock`,
`archives/<digest>.txt`, `events.jsonl`, two rating files. In memory: the map of
pending requests, the read-only hints, the engine and its mutex.
*Operations.* `Open`, `Run` with a goroutine per direction, `Transform`,
`Recall`, `Stop`, `Rate`, `ReadReport`.
*Interaction.* The client's requests and the server's messages cross in two
goroutines; `Stop`, `Rate` and `ReadReport` run in other processes on the files.
*Hard.* Results in flight at the end of the trial, or when the server changes its tools; torn archives
and receipts; a baseline that races with the first shortened result.
*Correct when* whatever was shortened can be recalled and was in scope, every
request is answered, and a baseline is one.

### The pages: `internal/webui/*.js`, with the servers in `cmd/tracefrugal`

*State.* Per page: the last report, the choices (source, range, session, language), rating
controls and dialogs, a busy flag, and the requests under way. The usage page numbers
its reads (`refreshVersion`); the optimizer's and the dashboard's pages do not. The language
and the session names are in the browser's storage.
*Operations.* A timer polls; clicks post actions; an answer redraws the page; a mutation
observer translates what was drawn. Two pages have sample modes in which the browser makes
up the report and simulates the trials.
*Interaction.* Several tabs and pages talk to one server, whose handlers are one step each
under a mutex; the server's state is that of the three components above.
*Hard.* Reads, posts and timers overtake each other; an answer is lost after the server acted; a poll
redraws controls the user is filling in; the same figure is computed by the server, by a
table and by `economics.js`; one catalogue translates texts by matching templates in order.
*Correct when* nothing older replaces what is newer, nothing is applied or undone that the page has not
shown (whether it is what the open dialog says is another question, and the dashboard's answer is no: section 5), drafts survive, the page
becomes usable and current again, and figures agree wherever they appear.

### Recorder and ledger: `examples/record_usage.py`, `internal/ledger/ledger.go`

*State.* An append-only trace, written by the application's threads under a lock, read by the dashboard.
*Operations.* `record_response`, `record_outcome`; `Analyze`, which refuses a trace it cannot read.
*Correct when* lines do not mix, and the report of a trace adds up.

### The other components

| Component | State and operations | What makes it correct | Here |
|---|---|---|---|
| Optimizer report (`optimize/report.go`) | `usage.json`, request IDs archived per trial and hour while a trial is active | a request counts once, only for a session with a receipt, although logs vanish | not modelled |
| Claude context trials (`claude/changes.go`) | advisory rule file in `.claude/rules`, `changes.json`, observed hours | as the optimizer's trial; hours are frozen once | as the page sees it |
| Claude and Codex readers (`claude/usage.go`, `codex/usage.go`), native aggregate | per-file cache; cumulative counters | the result does not depend on file order, on repeated rows or on resets | not modelled |
| HTML export, static site, command line, tests | none | rendering; `site/` repeats `internal/webui` | not modelled |

`PROJECT.json` lists each of them with its status, and the hazards at their lines.

## 2. Modules

    ReversibleChange <~~ OptimizeTrial <--- MCOptimizeTrial      (<~~ implemented by)
                              ^------------ OptimizeTrialProofs
    ExperimentState <- MCExperimentState    PackProxy <- MCPackProxy
         ^------- ExperimentStateProofs         ^------- PackProxyProofs

    Economics <- OptimizerPage <- MCOptimizerPage
        ^------- UsageView <- UsageSample <--\
        ^------- UsagePage <----------------- UsagePages <- MCUsagePages
                              PackPanel <----/
    DashboardView, UsageRecorder <- Dashboard <- MCDashboard
    Catalogue <- SessionLabels <- MCSessionLabels

    Totals <- Economics, DashboardView, UsageRecorder
    Totals <- TotalsProofs <- OptimizerPageProofs   (and OptimizerPage)
                     ^------- UsagePageProofs       (and UsagePages)
                     ^------- DashboardProofs       (and Dashboard)
                     ^------- SessionLabelsProofs   (and SessionLabels)

The three components that write share no file and no memory, so `OptimizeTrial`,
`ExperimentState` and `PackProxy` do not compose with each other. They are written alike:
**every durable write, every re-reading of shared state and every lock operation is an
action**, the computation in between is part of the action before it, and `pc` and `mem` are a process's program counter and local
variables. Requests are actions that start an operation, `Crash` loses `pc` and
`mem` and keeps the disk, `Fault` makes the next read or write return its error.
History variables are marked as such in the declarations; no guard reads them.

The pages' modules take those operations as one step of a server (the mutex of the handler
makes them so for every page) and split the browser instead: **sending, answering and showing a request are
three actions**, and a timer, a click, another tab and a lost answer may come in between.
What a page draws is an operator over its state; markup and wording are left out.

### OptimizeTrial

| Code | Model |
|---|---|
| `readSettings`, `object`, `afterSettings` | `file`, `Absent`, `Parses`, `AfterSettings`: a text is a base and the ID in its hook entry |
| `Diagnose` and the server's copy of it | `Diagnosis`, `doctor` |
| `locked` | `Acquire`, `Unlock`, `UnlockRestored`; the second is followed by the diagnosis the server makes after a restore |
| `Apply` | `ApplyCheck` / `ApplyRefused`, `ApplyBackup`, `ApplyJournal`, `ApplyRecheck`, `ApplyWrite`, `ApplyCommit` |
| `Restore` | `RestoreCheck` / `RestoreRefused`, `RestoreJournal`, `RestoreWrite`, `RestoreChmod` or `RestoreRemove`, `RestoreCommit` |
| `Rate`, `Record` | `RateCheck`, `RateSave`; `RecordCheck`, `RecordWrite` |

The whole journal is loaded into `mem` and saved from there, as in the code, so a
missing lock really loses updates. Hash equality is text equality; the mode is a bit:
the 0600 of a new temporary file, or another one. `own` is the history variable the
main invariant is about: what the user would expect to find. An edit that
produces exactly the text a live trial applied is no new text of the user's
(`UserOwns`): the code cannot tell it from its own, and neither can he.

`ReversibleChange` is what a trial promises, without journal, lock, backup or processes: one
trial is open at a time, only an open trial moves the settings, from exactly the text it recorded to that
text with its change or back, and it is closed on one of the two unless the user wrote in
between. `OptimizeTrial` maps its journal and its file to that (`Reversible == R!Spec`),
and every write of Apply and Restore, every crash and every retry is a step of it or a stutter.

### ExperimentState

| Code | Model |
|---|---|
| `lock`, `start`, `save` | `Acquire`, `MakeDir` and then `Save`, `Unlock` |
| `Run` and its deferred function | `RunPaused` ... `RunPromote`, `Fail`; an error after the journal exists is journaled, an earlier one only returned |
| `evaluate`, `Compare` | `RunEvaluate` and the choice in `RunDecide` |
| `Rollback` | `RollbackRead`, `RollbackHashes`, `RollbackIntent`, `RollbackPause`, `RollbackWrite` and two `Save` |
| `Resume` | `ResumeRead`, `ResumeRemove` and two `Save` |

Operations are numbered by their time stamps. Costs, reports and messages are left out.

### PackProxy

| Code | Model |
|---|---|
| `Open`, `create` | `Open`, `OpenWrite`: the file exists before its contents do |
| `Run`, the client's goroutine | `Input...`: a request is in the map before it is forwarded |
| `Run`, the server's goroutine | `Output...`: map and hints are read, and the entry is deleted, in one critical section (`OutputLookup`); `Transform` comes after it |
| `Transform`, `Recall` | `OutputTransform` ... `OutputReceipt`; `InputRecall`, which waits for the engine's mutex (`EngineFree`) |
| `append` | `Appended`, `MaybeWritten`: what follows a torn line is glued to it |
| `Stop`, `Rate`, `ReadReport` | `Stop`, `RateRead` then `RateWrite`, `Baseline` and `Readable` |

A text stands for a result that passes the size and shape checks and for its
digest; `Plain` for any other. The server is external: it answers what it was asked, in
any order, with a result or an error, changes a hint, or stops.

### OptimizerPage and Economics

| Code | Model |
|---|---|
| `optimizer.js`: `refresh`, `act` | `Poll`, `PollAnswered`, `PollFailed`, `PollShown`; `Click` with the posts the buttons would send (`Buttons`), `PostShown` |
| `optimize.go`: the handlers | `Handle`, `Refused`; another page's are `OtherPage` |
| the journal's intents, left by a write that fails | `PostFails` with `ServerFails`: the trial stays `prepared` or `restoring`, its settings written or not |
| the 15 minutes of a diagnosis | `Expire`: `Apply` refuses from then on (`doctor.fresh`), while the page goes on showing the plan as ready |
| the SessionStart hook, the hours of a trial | `SessionStart`, and `Hours` only after it |
| `Snapshot`, `trialAssessment` | `Report`, `View`, `After`, `Assessment` |
| `trialHTML`, `hourlyChart` | `TrialCard`, `Chart`, `Money`, `TrialDelta` |
| `economics.js` | `Economics`: `Measure`, `Signals`, `Comparison`, `Timeline`, `Spend` |

A value that may be `null` is a sequence of at most one element, an average a fraction.

### UsagePage, UsageView, UsageSample, PackPanel, UsagePages

| Code | Model |
|---|---|
| `claude.js`: `refresh` and its version | `Poll`, `Send`, `ReadAnswered`, `ReadFails`, `ReadShown` with `IsCurrent` |
| `change` and the dialogs | `OpenTry`, `OpenRestore`, `Confirm`, `SaveRating`, `PostAccepted` ... `PostDone`, which sends the read the change waits for |
| the redrawing of rating controls | `RatingsAfter` |
| what is drawn of a report | `UsageView`: chart, cards, tables, diagnosis, headline |
| `sample`, `sampleNative`, simulated trials | `UsageSample`: the made-up report and `Try`, `Rate`, `Restore`, `ChooseStore` |
| `renderPacking`, `packingAction`, `ReadReport`, `Stop`, `Rate` | `PackPanel` |
| `Transform` of the proxy, as the panel sees it | `ProxyArchives` asks whether the trial is active (`pack.go:201`); `ProxyPacks` dates and appends the receipt (`pack.go:257`), after time has passed, or Stop has come, in between; `ProxyGivesUp` |

`UsagePages` is the page as it is loaded: `mode` selects which of the parts runs, as
`boot.mode` does. In a sample mode the report is a function of the choices and is computed from
the code's own pattern, in full (24 buckets for a day), because its sums are what is checked.

### Dashboard, DashboardView, UsageRecorder

`Dashboard` has the page's polls, its undo dialog (`dialog` is the change it was opened for, `op.reviewed` that change when it
is confirmed, `op.id` and `op.shown` what the page holds by then), its actions, files that are opened, and the
demo's bookkeeping (`demoTrial`, `NextUndo`), over a server that runs, promotes and rolls back
experiments in one step each, or over a trace. `DashboardView` is what is drawn
(`historyPoints`, `validateReport`, the cards, the token ring). `UsageRecorder` has the threads
that append to the trace, one for each of `Tasks`, a line in two parts, and `Analyze`, for traces with any number of responses of a
task; a thread records one response and one outcome. The report lists its tasks in some
order that their IDs decide. `Totals` has the one operator for what is added up, `TotalOf`: a total over any finite set
of keys. The chart walks over the history with what it has met so far; `Drawn` is that walk, a recursive function.

`FilesAssumption` says of opened files what the first checks of `validateReport` demand (`IsReport`); whether their figures
agree is left to the checks that follow, which are modelled.

### Catalogue and SessionLabels

`Catalogue` has every template of `i18n-ko.js`, in its order, and the first-match rule of
`i18n.js`; a text is a sequence of words, the rest of a long sentence one word, and matching a template is a recursive function over
the words. `SessionLabels`
has the translator with its record per text, the three sources of the language, and what
`inspector.js` and `claude.js` draw of session names: title, list, panel, name field.

## 3. Runs

| Run | Bounds | Question |
|---|---|---|
| `optimize_safety` | 2 servers, 2 trials, 2 texts, one edit, one crash | Is the user's text always on disk or one restore away, is there one live trial, does the journal tell the truth and only move forward, and is the whole a `ReversibleChange`? |
| `optimize_liveness` | a server, a hook, 1 trial, 3 texts, an edit at any moment, a crash and a fault | Can every unfinished trial be finished, and are receipts for active trials only? |
| `optimize_permissions` (violated) | 1 trial, one crash | Are the permissions restored, as documented? |
| `experiment_safety` | 2 processes, 4 operations of which 2 experiments, one edit, one modified snapshot, one crash, one fault | Is an edit ever lost, can the journal be trusted, does a pause hold, is a rollback exact? |
| `experiment_liveness` | 1 process, 6 operations, a crash and a fault | Is an applied experiment undone in the end? |
| `experiment_newest` (violated) | 3 experiments | Does a rollback refuse newer changes, as documented? |
| `pack_delivery` | 2 requests, a text that is shortened and one that is not, a new directory or one an earlier proxy was stopped in, 2 crashes with restarts, 2 faults | Can what was shortened be recalled, is the recall tool advertised, is every request answered? |
| `pack_scope` | 2 requests, a clock of 2 values, one changed hint, one rating, one crash | Is nothing shortened out of scope, is a baseline a baseline? |
| `optimizer_page` | 1 trial of 3 hours, a read in flight, 2 clicks, one event (an edit, another page, a failed write, a lost answer, an expired diagnosis) | Is what is applied what was shown, do figures and verdicts agree, does the page settle? |
| `usage_page` | 2 sources with one trial each, 2 reads in flight, 3 clicks, one event; ranges of a day and a week in the samples, a trial per store; a packing trial of one hour, 2 receipts, 2 reads, 2 clicks | Does nothing older come back, are changes shown, drafts kept, and is every figure the same wherever it is shown? |
| `dashboard` | 2 experiments, 2 profiles, 2 pairs of costs, 2 clicks (6 in the demo), one event; 3 files; a trace of 2 threads | Do totals, cards, chart and undo agree, is an undo what the dialog said, or at least of what the page held, does an opened file stay? |
| `labels` | 2 sessions, 2 names, 6 clicks; every URL, browser language and kind of storage | Is the page in one language, are names stored, hidden and literal, has every label of the inspector its translation, and every template its own match? |

A property that several panels share is a conjunction of named parts, each with its own comment where
it is defined: `PageConsistent`, `FiguresAgree`, `PanelsAgree` and the like name the question, their conjuncts the
places that must agree. Type invariants are among the parts.

*Why the bounds are enough.* `Apply` and `Restore` look at one trial and "is there another live
one", so two trials show every case; of the texts, "empty
object", "does not parse" and "any other" are the classes the code distinguishes (the first two are the
special ones; `optimize_liveness` has all three). One crash and
one fault at every point include each half-finished operation and the failure
of its retry. Four operations hold two experiments, the rollback of one and a
second rollback or a resume; `experiment_liveness` has six so that repeated rollbacks do not run out
of records. A request lists the tools and the other is the call that may be shortened, so a result that meets its own archive again
is the one of a directory that an earlier proxy left (`Used`): its archive may be half written or whole, its receipt missing, torn or
whole, and `running.lock` stays. Two packed texts have different archives and touch nothing in common but the journal,
so one is enough; two crashes let a restart fail too. The clock's two values are "within" and "after" the trial.

The packing trial of one hour ends at every point of a packing: its results can have their check, their receipt, Stop and the end in any order.
On a page, two reads in flight are what it takes for one to overtake the other, and an older
third one is dropped by the same comparison. The pages whose reads are not numbered have one read in flight beside the
action, which is the pair that can overtake. Two or three clicks are an action and what the user does
while it runs; one event is another tab's action, an edit or a lost answer, at every point. The
samples' figures are those of the code and need no bound but the ranges: a day has 24 buckets, a week 7; a month
repeats the week's pattern. Six clicks are two rounds of select, type, save or of switching the language.

`CHECK_DEADLOCK FALSE` is in every configuration: the systems rest when nobody asks for anything,
and a bounded instance ends when its requests or its bounds are used up.

*Edits in the window.* No portable call compares a file and replaces it in one
step, so an edit between the last look and the rename is lost. The
safety runs exclude exactly this window (`EditsInWindow = FALSE`, `InWindow`). With
`EditsInWindow = TRUE` the part `UserContentKept` of the optimizer and `EditKept` of the experiments fail.

### Mutants

Each property of a passing run is accompanied by a variant of one definition that
a plausible mistake would give (marked `Mutant:` in the modules) and under which
the run violates it: a dropped recheck, a status written too early, a lock that
does not refuse, an answer shown whatever was asked since, a draft that is redrawn, an archive trusted by its name.

## 4. Fairness

* *Weak fairness of a running operation* (`Step`, `InputStep`, `OutputStep`): a
  process that is not stopped goes on, since no step waits for anything but the engine's
  mutex, which the other goroutine gives back.
* *Weak fairness of `RemoveStaleLock`*: the refusals of `locked` and `lock` tell the
  user to remove the lock after verifying that no process runs.
* *Strong fairness of a request* (`StartRestore`, `StartRollback`): the user repeats a
  refused request, and one of the repetitions meets a free lock. Weak fairness
  would not do, as other operations may hold the lock again and again.
* *Weak fairness of `ServerAnswers`*: the server is assumed to answer what it was asked; a
  server that stops is covered by `~Up` in the conclusion.
* *The browser and its servers*: weak fairness of the timer that polls, of the server's answer
  and of showing it, of the steps of an action under way, and of completing a line of
  the trace. A page polls again every few seconds as long as it is open, a local request is answered or refused, and
  JavaScript delivers what has arrived.
* *Strong fairness of the latest read* on the usage page: a read that was overtaken is dropped, and
  weak fairness would allow every read to be overtaken by the next timer, 30 seconds later. The
  local server is not for ever slower than that.

Nothing makes a crash, a fault or an edit happen, and nothing makes the user click or start new work.

## 5. Where the code and its words differ

Checked by a run that is violated:

1. *Permissions* (`optimize_permissions`). `Restore` renames the original over the
   settings and then changes its mode. A stop in between is repaired in the bytes
   but not in the mode: the retry finds the original bytes and skips both steps. The
   settings stay 0600, although `docs/local-optimizer.md:127` promises exact permissions.
2. *Newest to oldest* (`experiment_newest`). After A→B, B→A, A→B the first experiment
   can be rolled back over the third: the guard compares texts, not experiments,
   while `docs/experiments.md:49` says that newer changes are refused.

Stated as an exception inside a property that is checked:

3. *Undo last change* (`UndoOfShown`). The dialog's text is written when it opens (`dashboard.js:240-243`); a read that was under way may
   still replace the page's state (219), and *Confirm* posts the `rollback_id` of the new state (232). With two
   experiments the dialog says "from 2 to 1" and the click puts 2 in the place of 1, although `docs/dashboard.md:9` says
   "Review the previous response limit, then restore it". The antecedent `op.id = op.reviewed.id` is this exception, and
   without it TLC finds that behaviour in 2 experiments, one click and one read. What is promised in every case: the settings that
   are replaced are those the page held at the click.
4. *Korean templates* (`CatalogueSound`, `NamesLiteral`). `"{{n}} tokens"` comes before `"Output limit: … tokens"`
   in the catalogue, so that row of the demo is half English; a session whose name begins with
   "Hour " is retitled by the template of the hours, although `docs/session-inspector.md` keeps user names literal.
5. *A failed read* (`ShownSource`, `ReadYourWrites`): after one, the figures of the old range stay until the next poll.
6. *A receipt after the end* (`PackAddsUp`, `StopSticks`). Whether a trial is active is asked before the archive is written, the receipt is
   dated afterwards. A result can therefore be packed after the panel has said "Packing stopped. Future results pass through", and
   one whose receipt is dated after the 24 hours is in the totals of the report but in no hour of its graph (`report.go:62-69`). Both properties say
   that it is one result at most.
7. *A torn line* of `events.jsonl` (`PackedRecallable`) makes `ReadReport` and `Rate` refuse the journal for good. Recalls still work, and
   from then on the property promises them only. A `trial.json` that was torn at its creation refuses its directory.

Met while modelling, and part of the models, without a run of their own:

8. *Edits in the window.* The comment at `state.go:237` says that edits are never overwritten; an
   edit between `state.go:268` and the rename is.
9. *A directory without a journal.* A stop between `mkdir` and the first `event.json` makes `History`, and so the
   dashboard, fail for the whole directory from then on; `docs/experiments.md:134` says that a run leaves a journal.
10. *Unnumbered polls.* A late poll puts an older state on the optimizer's page and on the dashboard, until the
    next one (`Settles` says no more than that it ends; 3 is what it means for an undo).
11. *Names on the usage page.* After another range is chosen no session is selected while the old panel
    is still shown: a name saved then is stored under the empty ID. Saving a name does not redraw the chart's
    title; hiding names while a source is loading redraws only with the answer.
12. *Packing rating.* A rating picked under the "before" question is a draft, survives the first packed
    result, and is then saved as the "after" rating.
13. *A file opened during the demo's 650 ms* gets a stray trial with undefined figures (`StrayTrial`).
14. *A recorder call that raises* leaves its task without a request; a later `record_outcome` then makes the trace unreadable.
    `UsageRecorder` records outcomes only of recorded responses, as the example does.
15. `optimizer.js` keeps the language under `tracefrugal-language`, `i18n.js` under `tracefrugal.language`.

## 6. Proofs

The theorems hold for every value of the constants that satisfies the named assumptions of the modules:
any processes, trials, texts, sources and requests, and any bounds on edits, crashes, faults and clicks.
Those assumptions are about constants only, and the runs evaluate them. Each inductive invariant was first
checked by TLC with the constants of the component's run. A theorem that names an invariant has three
lemmas or steps under it: the initial states, every action of the next-state relation, and that it implies
what is stated; PTL combines them. The lemma of a step has one step per action.

### Optimizer trial: `OptimizeTrialProofs`

| Theorem | Says | Assumes besides `ConstantsAssumption` |
|---|---|---|
| `TypeCorrect` | `Spec => []TypeOK` | |
| `AtMostOneLiveTrial` | `Spec => []OneLiveTrial` | |
| `HistoryIsKept` | `Spec => HistoryKept` | |
| `ReceiptsOnlyWhenActive` | `Spec => ReceiptOnlyWhenActive` | |
| `UserContentAlwaysKept` | `Spec => []UserContentKept` | `EditsInWindow = FALSE` |
| `JournalIsHonest` | `Spec => []JournalHonest` | `EditsInWindow = FALSE` |
| `TrialIsReversible` | `Spec => Reversible` (implements `ReversibleChange`) | `EditsInWindow = FALSE` |
| `TrialsAreKept` | `Spec => TrialsKept` | `EditsInWindow = FALSE` |

The last assumption is necessary: with edits in the window TLC finds a counterexample to `UserContentKept`.

*The argument.* `LockInv` is inductive by itself and has five parts beyond types:

* `Exclusive`: a process inside an operation holds the lock, and is alone. A crash
  leaves the lock, and `RemoveStaleLock` waits until no process is inside, so this survives both.
* `Loaded`: what an operation has in memory is the journal on disk, but for the
  one trial it is about. Without it nothing is known of what a save writes.
* `OneLiveTrial`, which needs `Loaded`: `Apply` looked at the journal it saves.
* `BackedUp`: the backup of every journaled trial is its recorded text. It makes the
  hash check of `Restore` succeed whenever the trial is restorable.
* `Hooked`: a hook entry in the settings belongs to a trial that exists, which tells the
  texts before and after a trial apart.

`ContentInv` adds to it, under `EditsInWindow = FALSE`:

* `Checked`: from the last look at the settings to the write, they are still the text looked at.
* `AppliedStandsForOwn`: if the settings are the text a live trial applied, then the
  text that trial replaced is what the user owns. This is the part `UserContentKept` alone lacks: it
  says *which* trial's backup counts, and it is what makes restoring right.

`RecordInv` is about the journal's words: a verdict about to be saved changes nothing else (`Rated`), a
receipt about to be written is for an active trial, since restores are locked out (`Delivering`), and without edits
what the journal calls active, or is about to, the file shows (`Shown`).

*The refinement.* `RefinementInv` adds one fact that neither of them has: before the first edit, a restore
that is past its write has written the text that was recorded (`WrittenBack`), which is where `ReversibleChange` closes a
trial that the user did not interfere with. `RefinementInit` and `RefinementStep` are the two obligations of the
mapping. A write of the journal opens, moves on or closes one abstract trial, and changes one record, forward (`HistoryStep`);
a write of the settings is the abstract change, from exactly the recorded text by `Checked`; an edit is the user's; every read,
backup, receipt, lock operation, crash and fault is a stutter.

### Experiments: `ExperimentStateProofs`

| Theorem | Says | Assumes besides `ConstantsAssumption` |
|---|---|---|
| `TypeCorrect` | `Spec => []TypeOK` | |
| `JournalIsHonest` | `Spec => []JournalHonest` | |
| `PauseIsKept` | `Spec => []PauseHolds` | |
| `EditIsKept` | `Spec => []EditKept` | `~EditsInWindow` |
| `RollbackIsExact` | `Spec => RollbackExact` | `~EditsInWindow` |

`LockInv`: processes work one at a time (`Exclusive`); a running operation owns its record, which nothing has applied or
undone (`Own`); what it is about to save follows what is there (`Experimenting`, `Undoes`); only what is journaled as applied
was promoted or undone (`Accounted`). With it a stop at any label leaves a journal that tells the truth, and a rollback
that has passed the pause marker has set it. `ContentInv` adds what snapshots hold at each label of a run, up to
modifications (`Snapped`, `Snapshotted`), and that `active.json` is what the process found there until it writes (`Checked`).
`RollbackIsExact` follows although snapshots may be modified: the hashes in the journal decide.

### MCP result packing: `PackProxyProofs`

| Theorem | Says | Assumes |
|---|---|---|
| `TypeCorrect` | `Spec => []TypeOK` | `ConstantsAssumption` |
| `PackedIsRecallable` | `Spec => []PackedRecallable` | `ConstantsAssumption` |
| `PackedIsInScope` | `Spec => []PackedInScope` | `ConstantsAssumption` |
| `ListsAdvertise` | `Spec => []ListAdvertises` | `ConstantsAssumption` |
| `BaselineIsGenuine` | `Spec => []BaselineGenuine` | `ConstantsAssumption` |

`IInv` follows a request through the goroutines: it is in flight at most once, and a `tools/list` is in the map from before
it is forwarded until it is looked up (`InputWork`, `InFlight`); each label of the server's goroutine knows what those before it
found (`OutputWork`: after its write the archive is whole, after its receipt the text is `Delivered`); nothing survives a stop in memory
(`DownClean`). The heart of the scope is `HintsFollowed`, which relates the proxy's hints to messages it has not read yet: if it takes a tool
for read-only and the server no longer says so, the notice of the withdrawal is in the pipe before any result that
was sent without the hint, or the trial has lapsed. No invariant over the map and the hints alone is inductive. `Dated` gives
the baseline: a rating saved too late is dated after a receipt, and is then not shown.

### The pages: `TotalsProofs`, `OptimizerPageProofs`, `UsagePageProofs`

| Theorem | Says | Assumes |
|---|---|---|
| `ShownIsConsistent` | `OptimizerPage`: `Spec => []PageConsistent` | the assumptions of `OptimizerPage` |
| `AppliesWhatWasShown` | `OptimizerPage`: `Spec => ApprovedPlan` | the same |
| `ShownAsChosen` | `UsagePages`: `Spec => []LocalConsistent` | the assumptions of `UsagePage`, `PackPanel`, `UsageView` |
| `FiguresNeverGoBack` | `UsagePages`: `Spec => NeverOlder` | the same |
| `DraftsStay` | `UsagePages`: `Spec => DraftKept` | the same |
| `WritesAreSeen` | `UsagePages`: `Spec => WritesShown` | the same |
| `SimulatedTrialsStay` | `UsagePages`: `Spec => SampleKept` | the same |

*Figures.* `TotalsProofs` has what `TotalOf` gives for any finite set of summands: that it is a number, that
totals add, scale and are monotone, that taking one summand out takes out its value, that numbering the summands differently changes nothing, and what
a summand at either end of a sequence adds. It needs an induction over finite
sets. The library states that with an operator parameter, which the provers cannot instantiate; `SubsetInduction` states it for a *set* of
good subsets instead, from the theorem that strict inclusion of finite sets is well-founded. `UpToInduction` is the same for
the numbers up to a bound, and `Recursion` concludes that a recursive function over numbers exists and satisfies its equation: the proofs about the
dashboard's chart and the catalogue's templates begin with it. `AverageBetween` and
`FractionOrder` of `OptimizerPageProofs` compare averages that are kept as fractions: an average over both parts lies between those of the parts.

*Optimizer page.* Every report there is, in an answer under way, in the result of an action or on the page, is one of a state the server was in
(`ReportOK`), and of any trial such a report shows the costs, the graph's total and both verdicts agree (`ViewsJudgedAlike`, `ViewsSameCost`,
`ViewsSameHours`), also of one whose intent is all that was written (`HalfHandled`). That the server's hours arrive in any number makes these lemmas about sums of any length. They use that a summary without
responses has no tokens, as `Summary.Add` of `internal/claude/report.go` guarantees (`Summaries`). `ApprovedPlan` needs that the
server never calls limited settings ready (`ServerOK`), that a trial enters the journal only for the previewed plan, whether its write succeeds or not (`TrialEnters`), and that a post carries the plan of the report it was made from.

*Usage page.* Every answer, and what is shown, is of a past state of the source (`ReadInv`, `ShownInv`); the latest read is for what is
chosen (`LatestInv`), and what is shown is not newer than the answer that will replace it, although both are of the past: the one was
sent after the other was shown. That conjunct is what `NeverOlder` alone lacks. `WriteInv`: an accepted change
is in the latest answer or on the page, until the page can be used again. `PackInv` is the same argument for the panel, whose
report is a function of a growing list of receipts (`CountGrows`, `PackGrows`), and whose sample never reads; that at most one result
is packed after Stop needs that a stopped proxy begins none, so that what it had begun is the only one (`packing`). `WritesShown` is the conjunction of
`ChangesAreSeen`, `PackActionsAreSeen` and `StoppedStays`. `SampleInv` says where the simulated trials of the native sample are: those of the
chosen store on the page, those of the others put away, and each of them with the summary of a report that was offered.

### Dashboard: `DashboardProofs`

| Theorem | Says | Assumes |
|---|---|---|
| `TypeCorrect` | `Spec => []TypeOK` | `BaselineAssumption`, `BoundsAssumption` |
| `ImportedStays` | `Spec => ImportKept` | the same |
| `UndoesWhatWasShown` | `Spec => UndoOfShown` | all assumptions of `Dashboard` and `UsageRecorder` |
| `TraceStaysReadable` | `Spec => []TraceReadable` | `TasksAssumption`, `ResponseAssumption` |
| `DemoIsTheServers` | `Spec => []DemoMatchesSnapshot` | all assumptions again |
| `FiguresAlwaysAgree` | `Spec => []FiguresAgree` | the same |

The dashboard's reads are not numbered, so a late one may put an older state on the page, and the rollback is of whatever the
page holds when it is confirmed. It is safe because of what never changes: the server keeps every record, and a record that applied its settings is
not rewritten (`Grown`). So the pair of an undo and the settings it was offered for stays true of the server however old it is (`Undoable`,
`UndoableKept`), in every state that is held by a read, by an action or by the page (`StateOK`), and a rollback is accepted only while those settings are
active. The demo's states and opened files are kept apart from the server's: the first exist only in the demo, the second offer no undo. `MinIs` and `RollbackIDIs` say
what the search for the newest experiment finds. That the settings also change as the dialog said is `RInv`: a state that offers an undo has the
record of it, with the settings the server has in that record (`Faithful`), and so has a dialog (`Describes`), from which the page of the moment may
have moved on to another experiment.

*The trace.* `RecorderOK`: the file is whole lines and at most one half line after them, which is of the one thread in
`writing`. `EventsOK`: those lines hold one response of each task that has recorded one and one outcome of each that is rated, and nothing else. So
the analysis refuses nothing, and what it counts equals what the threads did: two counts are the same when the one set is mapped onto the other
one to one, in whatever order the lines came (`SameCount`, `ListIs`).

*The figures.* `FiguresAgree` alone is far from inductive: what is drawn now came from a state that was read or simulated earlier. `FInv` has what is needed:

* `ServerHistory`: what a record of the history may hold at each status (`RecordOK`); a rollback leads back to settings
  that an applied experiment had replaced; an experiment compares different settings.
* `AllHeld`: whatever the page, a read or an action holds is a report that the page's own check accepts (`GoodReport`), or a state whose
  figures are those of its history (`FromHistory`). For the demo, `DemoOf` adds that every cost is that of the demo's report for
  its settings, and that the active settings were tried: with it the figures that the demo keeps by hand are the ones the server would work out.
* `ModesOK`: the demo asks no server, and a server of usage has no history.

A report is held only if it is one of a trace (`TraceIsGood`), of the demo, or of a file that was checked when it was opened
(`FileIsGood`); `ReportOfPage` concludes that cards, ring and table agree about it. For a history the chart is followed from
the oldest record to the newest: `Extended` adds the points of a record to what was drawn before, and the last point of the line is the total on the card
(`CardsOfHistory`, `LineOfHistory`).

### Names and languages: `SessionLabelsProofs`

| Theorem | Says | Assumes |
|---|---|---|
| `InputStays` | `Spec => InputKept` | `LabelsAssumption` |
| `TextsInOneLanguage` | `Spec => []OneLanguage` | `LabelsAssumption` |
| `NamesStay` | `Spec => []NamesKept` | `LabelsAssumption` |

`Consistent` is inductive: every record of the translator has the text that was written last, and shows it in the page's language; once
the page is loaded, what is drawn of sessions is what the names, the selection and *Hide* say (`Shows`); names and language are those that the
storage would give back (`Stored`). What depends on the catalogue is
about all names a user can type, not those of the run. `Fits` says for every end of a template where in the text that end
can begin; what it gives for a title is shown by induction over the words. So `NamesAsTyped`: the title's own template is the first to match, unless the
name begins with "Hour", and the Korean title ends with the name as it was typed.

### Only model-checked

* The liveness properties `Recoverable`, `UndoWorks`, `Answered`, `Settles`, `Converges`: the prover handles neither liveness under
  fairness nor ENABLED.
* `SampleAddsUp` and `PanelsAgree` of the usage page. The samples are closed computations over the code's own pattern, in full, so
  that the run evaluates all of them; `PanelsAgree` also adds up receipts with a fold over their sequence.
* `CatalogueSound`: a statement about one constant catalogue, which the run evaluates completely.
* The two properties that fail (section 5) are not theorems, of course.

## 7. Not modelled

* Power failures: a stop is the stop of a process, so a completed rename stays.
  The code does not sync directories after its renames.
* The contents of settings, profiles and messages beyond what the checks tell apart; markup, number formats, wording.
* The optimizer's report (`report.go`): polling logs that vanish, archiving request IDs per trial and hour. `OptimizerPage` takes
  hours as they arrive. Next in the plan.
* `claude/changes.go` write by write: `UsagePage` takes its Apply, Restore and Rate as one step. Its rule file is written in place, so that a
  stop leaves part of it; its hours are frozen by the first poll after they end.
* The usage that a context trial needs before it (`changes.go:213`) and its rating after it (310): `UsagePage` lets the server refuse either at any time.
* Of names, what typing them means: trimming, the cut at 80 characters and blank names (`inspector.js:25`); of the search, that it also
  finds IDs, models and parts of names (`claude.js:205`). `FoundIn` has the label and the project, which are what *Hide* is about.
* The readers of Claude and Codex logs and the native aggregate: merging and attribution of rows.
* The paging of `Recall` at UTF-8 boundaries; `Compare` and its margins in the ledger. For these `PackProxy` and the
  ledger are marked *partly*.
* Texts of the catalogue that are whole sentences: nothing depends on them but their own entry. `Catalogue` has those of the
  inspector and all templates.
* A stop of the recorder in the middle of a line; the next line is glued to it.
* Origin and token checks of the servers, HTML export, command line, tests.

## 8. Plan

For the proofs: `PackAddsUp` of the panel, with `TotalOf` for its folds and the lemmas of `TotalsProofs`.

For the models, the most important first:

1. `ContextTrial`: apply, restore and observe of `claude/changes.go`, implementing `ReversibleChange` too.
2. `TrialUsage`: receipts, polls and the archive of request IDs over vanishing logs.
3. `UsageReader` and `CodexReader`: merging in any order against a reference definition.
4. `RecallPaging` and `LedgerGate`: pure functions over all small inputs.
