---------------------------- MODULE OptimizerPage ----------------------------
(* The optimizer's page in the browser (internal/webui/optimizer.js) and the  *)
(* server it polls (cmd/tracefrugal/optimize.go).  The server handles one     *)
(* request at a time under its mutex; Apply, Restore and Rate are one step    *)
(* here, and OptimizeTrial has them write by write.  The page reads the state *)
(* every 30 seconds, without numbering its reads, and posts what the user     *)
(* clicks; reads and posts may be overtaken, refused or lost.                 *)
EXTENDS Economics, SequencesExt

CONSTANTS
    Texts,          \* what the user's settings may say
    Ratings,        \* satisfaction ratings
    Baselines,      \* summaries of the day before a trial
    HourRuns,       \* the summaries of the hours that pass at once
    MaxTrials,
    MaxHours,       \* hours of a trial
    MaxPolls,       \* reads in flight
    MaxClicks,      \* actions of this page
    MaxEvents       \* edits, expiries, other pages' actions, failures

\* Tokens are counted with the response that used them.
Summaries ==
    {s \in [tokens : [Keys -> Nat], requests : Nat, usd : Nat, unpriced : Nat, from : Nat,
            until : Nat, models : SUBSET STRING] :
       s.requests = 0 => \A k \in Keys : s.tokens[k] = 0}

ASSUME RatingAssumption == Ratings \subseteq 1 .. 5
ASSUME FiguresAssumption == Baselines \subseteq Summaries /\ HourRuns \subseteq Seq(Summaries)
ASSUME BoundsAssumption == MaxTrials \in Nat /\ MaxClicks \in Nat /\ MaxEvents \in Nat

VARIABLES
    settings,       \* the project's settings: a text, with our limit or not
    doctor,         \* the server's diagnosis: the settings it saw, whether the change
                    \* suits them, and whether it is less than 15 minutes old
    trials,         \* the journal, oldest first
    page,           \* what the page holds: the last report, busy
    post,           \* the action in flight
    polls,          \* the reads in flight
    clicks, events

server == <<settings, doctor, trials>>
vars == <<server, page, post, polls, clicks, events>>

Plans == [text : Texts, limited : BOOLEAN]
Ids == 1 .. MaxTrials
Polls == 1 .. MaxPolls

NoReport == [some |-> FALSE]
NoPost == [action |-> "none", phase |-> "none"]
-----------------------------------------------------------------------------
(* The server *)

Diagnosis == [plan |-> settings, ready |-> ~settings.limited, fresh |-> TRUE]

Drift(trial) == trial.status # "restored" /\ settings # [text |-> trial.before, limited |-> TRUE]

CanRestore(trial) ==
    /\ trial.status # "restored"
    /\ ~Drift(trial) \/ settings = [text |-> trial.before, limited |-> FALSE]

\* The summary of the trial is that of its hours.
After(trial) ==
    LET hours == trial.hours IN
    [tokens |-> [k \in Keys |-> TotalOf([i \in DOMAIN hours |-> hours[i].tokens[k]])],
     requests |-> TotalOf([i \in DOMAIN hours |-> hours[i].requests]),
     usd |-> TotalOf([i \in DOMAIN hours |-> hours[i].usd]),
     unpriced |-> TotalOf([i \in DOMAIN hours |-> hours[i].unpriced]),
     from |-> 0, until |-> Len(hours),
     models |-> UNION {hours[i].models : i \in DOMAIN hours}]

\* The server's sentence about a trial.
Assessment(trial) ==
    IF trial.status \in {"prepared", "restoring"} THEN "interrupted"
    ELSE IF Drift(trial) /\ trial.status = "active" THEN "changed outside"
    ELSE IF trial.status = "restored" THEN "restored"
    ELSE IF ~trial.started THEN "no session"
    ELSE IF trial.outcome = "regression" \/ trial.rating \in 1 .. trial.beforeRating - 1
    THEN "regression"
    ELSE IF After(trial).requests = 0 THEN "waiting"
    ELSE IF trial.baseline.requests = 0 THEN "no baseline"
    ELSE IF trial.rating = 0 \/ trial.outcome = "unknown" THEN "rate first"
    ELSE "compare"

View(trial) ==
    [trial |-> trial, after |-> After(trial), canRestore |-> CanRestore(trial),
     assessment |-> Assessment(trial)]

Report == [some |-> TRUE, plan |-> doctor.plan, ready |-> doctor.ready,
           views |-> [id \in DOMAIN trials |-> View(trials[id])]]

Live == {id \in DOMAIN trials : trials[id].status # "restored"}

\* Mutant: the server applies its diagnosis, whatever the page has shown.
PreviewedByServer(request) == doctor.ready /\ doctor.fresh /\ settings = doctor.plan

\* Apply changes only the settings that were previewed: the plan of the request,
\* the server's diagnosis and the settings must be one.
Previewed(request) ==
    /\ doctor.ready /\ request.plan = doctor.plan /\ doctor.fresh
    /\ settings = doctor.plan

AppliedOn(request) == Previewed(request) /\ Live = {} /\ Len(trials) < MaxTrials

\* A trial enters the journal, with this status.
Entered(request, status) ==
    \E baseline \in Baselines :
      trials' = Append(trials,
        [before |-> settings.text, status |-> status, beforeRating |-> request.rating,
         rating |-> 0, outcome |-> "unknown", baseline |-> baseline, started |-> FALSE,
         hours |-> <<>>])

ServerApply(request) ==
    /\ AppliedOn(request)
    /\ Entered(request, "active")
    /\ settings' = [settings EXCEPT !.limited = TRUE]
    /\ UNCHANGED doctor

Restored(id) == [text |-> trials[id].before, limited |-> FALSE]

\* A restored trial stays as it is; afterwards the settings are diagnosed again.
ServerRestore(id) ==
    /\ id \in DOMAIN trials
    /\ trials[id].status = "restored" \/ CanRestore(trials[id])
    /\ IF trials[id].status = "restored" THEN UNCHANGED <<trials, settings>>
       ELSE /\ trials' = [trials EXCEPT ![id].status = "restored"]
            /\ settings' = Restored(id)
    /\ doctor' = [plan |-> settings', ready |-> ~settings'.limited, fresh |-> TRUE]

\* A write fails after the intent is in the journal, before or after the
\* settings are written: the request is refused, and the trial can be restored.
ServerFails(request) ==
    /\ \/ /\ request.action = "apply" /\ AppliedOn(request)
          /\ Entered(request, "prepared")
          /\ settings' \in {settings, [settings EXCEPT !.limited = TRUE]}
       \/ /\ request.action = "restore" /\ request.id \in Live /\ CanRestore(trials[request.id])
          /\ trials' = [trials EXCEPT ![request.id].status = "restoring"]
          /\ settings' \in {settings, Restored(request.id)}
    /\ UNCHANGED doctor

ServerRate(id, rating, outcome) ==
    /\ id \in DOMAIN trials
    /\ outcome = "keep" => trials[id].status = "active"
    /\ trials' = [trials EXCEPT ![id].rating = rating,
                                ![id].outcome = IF outcome = "keep" THEN "good" ELSE outcome]
    /\ UNCHANGED <<settings, doctor>>

ServerDiagnose == doctor' = Diagnosis /\ UNCHANGED <<settings, trials>>

Handle(request) ==
    \/ request.action = "diagnose" /\ ServerDiagnose
    \/ request.action = "apply" /\ ServerApply(request)
    \/ request.action = "restore" /\ ServerRestore(request.id)
    \/ request.action = "rate" /\ ServerRate(request.id, request.rating, request.outcome)

Refused(request) ==
    \/ request.action = "apply" /\ ~AppliedOn(request)
    \/ request.action = "restore" /\ (request.id \in DOMAIN trials)
       /\ trials[request.id].status # "restored" /\ ~CanRestore(trials[request.id])
    \/ request.action = "rate" /\ request.outcome = "keep"
       /\ trials[request.id].status # "active"
-----------------------------------------------------------------------------
Init ==
    /\ \E text \in Texts :
         /\ settings = [text |-> text, limited |-> FALSE]
         /\ doctor = Diagnosis
    /\ trials = <<>>
    /\ page = [state |-> NoReport, busy |-> FALSE]
    /\ post = NoPost
    /\ polls = [i \in Polls |-> [phase |-> "free", report |-> NoReport]]
    /\ clicks = 0 /\ events = 0

(* refresh: at the start and every 30 seconds, unless an action is running *)
Poll(i) ==
    /\ ~page.busy /\ polls[i].phase = "free"
    /\ polls' = [polls EXCEPT ![i].phase = "sent"]
    /\ UNCHANGED <<server, page, post, clicks, events>>

PollAnswered(i) ==
    /\ polls[i].phase = "sent"
    /\ polls' = [polls EXCEPT ![i] = [phase |-> "answered", report |-> Report]]
    /\ UNCHANGED <<server, page, post, clicks, events>>

\* A failed read leaves a notice and the state that is shown.
PollFailed(i) ==
    /\ polls[i].phase = "sent" /\ events < MaxEvents
    /\ events' = events + 1
    /\ polls' = [polls EXCEPT ![i].phase = "free"]
    /\ UNCHANGED <<server, page, post, clicks>>

\* Mutant: only the first answer is shown.
PollShownOnce(i) ==
    /\ polls[i].phase = "answered"
    /\ page' = [page EXCEPT !.state = IF @.some THEN @ ELSE polls[i].report]
    /\ polls' = [polls EXCEPT ![i] = [phase |-> "free", report |-> NoReport]]
    /\ UNCHANGED <<server, post, clicks, events>>

\* The answer replaces the state, also while an action is running.
PollShown(i) ==
    /\ polls[i].phase = "answered"
    /\ page' = [page EXCEPT !.state = polls[i].report]
    /\ polls' = [polls EXCEPT ![i] = [phase |-> "free", report |-> NoReport]]
    /\ UNCHANGED <<server, post, clicks, events>>

(* act *)
ShownViews == IF page.state.some THEN page.state.views ELSE <<>>
ShownLive == {id \in DOMAIN ShownViews : ShownViews[id].trial.status # "restored"}

\* A select of ratings, and its empty choice.
RatingChoices == {0} \cup Ratings

\* The buttons of the page as it is shown: one that is disabled posts nothing,
\* and an outcome is not posted without a rating.
Buttons ==
    {[action |-> "diagnose", phase |-> "sent"]}
    \cup {[action |-> "apply", phase |-> "sent", plan |-> page.state.plan, rating |-> rating] :
            rating \in IF ShownLive = {} /\ page.state.ready THEN RatingChoices ELSE {}}
    \cup {[action |-> "restore", phase |-> "sent", id |-> id] :
            id \in {i \in ShownLive : ShownViews[i].canRestore}}
    \cup {[action |-> "rate", phase |-> "sent", id |-> id, rating |-> rating, outcome |-> outcome] :
            id \in DOMAIN ShownViews, rating \in RatingChoices \ {0},
            outcome \in {"unknown", "good", "regression"}}
    \cup {[action |-> "rate", phase |-> "sent", id |-> id, rating |-> rating, outcome |-> "keep"] :
            id \in {i \in DOMAIN ShownViews : /\ ShownViews[i].trial.status = "active"
                                              /\ ShownViews[i].after.requests > 0},
            rating \in RatingChoices \ {0}}

Click ==
    /\ ~page.busy /\ page.state.some /\ clicks < MaxClicks
    /\ \E request \in Buttons : post' = request
    /\ page' = [page EXCEPT !.busy = TRUE]
    /\ clicks' = clicks + 1
    /\ UNCHANGED <<server, polls, events>>

\* The server's answer to an accepted action is its new state.
PostAccepted ==
    /\ post.phase = "sent"
    /\ Handle(post)
    /\ post' = [action |-> post.action, phase |-> "done", report |-> Report']
    /\ UNCHANGED <<page, polls, clicks, events>>

PostRefused ==
    /\ post.phase = "sent" /\ Refused(post)
    /\ post' = [action |-> post.action, phase |-> "failed"]
    /\ UNCHANGED <<server, page, polls, clicks, events>>

PostFails ==
    /\ post.phase = "sent" /\ events < MaxEvents
    /\ events' = events + 1
    /\ ServerFails(post)
    /\ post' = [action |-> post.action, phase |-> "failed"]
    /\ UNCHANGED <<page, polls, clicks>>

\* The request, or only its answer, is lost.
PostLost ==
    /\ post.phase \in {"sent", "done"} /\ events < MaxEvents
    /\ events' = events + 1
    /\ post' = [action |-> post.action, phase |-> "failed"]
    /\ UNCHANGED <<server, page, polls, clicks>>

\* finally: whatever the answer, the page is no longer busy.
BusyAfter == FALSE

PostShown ==
    /\ post.phase \in {"done", "failed"}
    /\ page' = [state |-> IF post.phase = "done" THEN post.report ELSE page.state,
                busy |-> BusyAfter]
    /\ post' = NoPost
    /\ UNCHANGED <<server, polls, clicks, events>>
-----------------------------------------------------------------------------
(* Around the page: another page of the same server, the user, and time *)

Event ==
    /\ events < MaxEvents
    /\ events' = events + 1
    /\ UNCHANGED <<page, post, polls, clicks>>

OtherPage ==
    /\ Event
    /\ \/ ServerDiagnose
       \/ \E id \in DOMAIN trials : ServerRestore(id)
       \/ \E id \in DOMAIN trials, rating \in Ratings : ServerRate(id, rating, "good")

Edit ==
    /\ Event
    /\ \E plan \in Plans \ {settings} : settings' = plan
    /\ UNCHANGED <<doctor, trials>>

\* Apply refuses a diagnosis that is older than 15 minutes, which the page
\* goes on showing as ready.
Expire ==
    /\ Event
    /\ doctor.fresh
    /\ doctor' = [doctor EXCEPT !.fresh = FALSE]
    /\ UNCHANGED <<settings, trials>>

\* A session starts under an active trial, and its hook leaves a receipt.
SessionStart ==
    /\ \E id \in Live :
         /\ trials[id].status = "active" /\ ~trials[id].started
         /\ trials' = [trials EXCEPT ![id].started = TRUE]
    /\ UNCHANGED <<settings, doctor, page, post, polls, clicks, events>>

\* Hours of a trial pass; usage is that of sessions that left a receipt.
Hours ==
    /\ \E id \in {live \in Live : trials[live].started} : \E run \in HourRuns :
         /\ Len(trials[id].hours) + Len(run) <= MaxHours
         /\ trials' = [trials EXCEPT ![id].hours = @ \o run]
    /\ UNCHANGED <<settings, doctor, page, post, polls, clicks, events>>
-----------------------------------------------------------------------------
Next ==
    \/ \E i \in Polls : Poll(i) \/ PollAnswered(i) \/ PollFailed(i) \/ PollShown(i)
    \/ Click \/ PostAccepted \/ PostRefused \/ PostFails \/ PostLost \/ PostShown
    \/ OtherPage \/ Edit \/ Expire \/ SessionStart \/ Hours

\* The timer fires, the server answers and the browser delivers.
Fairness ==
    /\ WF_vars(\E i \in Polls : Poll(i))
    /\ \A i \in Polls : WF_vars(PollAnswered(i)) /\ WF_vars(PollShown(i))
    /\ WF_vars(PostAccepted \/ PostRefused) /\ WF_vars(PostShown)

Spec == Init /\ [][Next]_vars /\ Fairness
-----------------------------------------------------------------------------
\* The page is busy exactly while an action is in flight, it has acted on
\* trials the server has, and a read has a report only once it is answered.
TypeOK ==
    /\ settings \in Plans /\ doctor \in [plan : Plans, ready : BOOLEAN, fresh : BOOLEAN]
    /\ \A id \in DOMAIN trials : /\ trials[id].before \in Texts
                                 /\ trials[id].status \in {"prepared", "active", "restoring", "restored"}
                                 /\ trials[id].rating \in {0} \cup Ratings
    /\ page.busy = (post # NoPost)
    /\ Len(ShownViews) <= Len(trials)
    /\ \A i \in Polls : polls[i].report.some = (polls[i].phase = "answered")
    /\ clicks \in 0 .. MaxClicks /\ events \in 0 .. MaxEvents

\* "Apply is a compare-and-swap against the preview": whatever stale report the
\* page shows, a trial replaces the very settings that the page was showing
\* when the user clicked.
ApprovedPlan ==
    [][Len(trials') > Len(trials) =>
         post.plan = [text |-> trials'[Len(trials')].before, limited |-> FALSE]]_vars

\* Averages are fractions <<input tokens, responses>>.
Average(s) == IF s.requests > 0 THEN <<<<Input(s), s.requests>>>> ELSE <<>>
Above(f, g) == f[1] * g[2] > g[1] * f[2]

\* The hourly graph: a bar for every hour with usage, against the highest of
\* them, of the day before, and of 1.
Chart(view) ==
    LET hours == view.trial.hours
        used == {h \in DOMAIN hours : hours[h].requests > 0}
        bars == [h \in used |-> Average(hours[h])[1]]
        heights == {<<1, 1>>} \cup {bars[h] : h \in used} \cup ToSet(Average(view.trial.baseline))
    IN IF used = {} THEN <<>>
       ELSE <<[bars |-> bars,
               full |-> CHOOSE f \in heights : \A g \in heights : ~Above(g, f)]>>

Money(s) == IF s.requests = 0 \/ s.unpriced > 0 THEN <<>> ELSE <<s.usd>>

\* trialHTML's own figure for the change of the total cost.
TrialDelta(view) ==
    LET a == view.trial.baseline
        b == view.after
    IN IF a.requests > 0 /\ b.requests > 0 /\ a.unpriced = 0 /\ b.unpriced = 0 /\ a.usd > 0
       THEN <<<<b.usd - a.usd, a.usd>>>> ELSE <<>>

\* The figures of a trial's card: its own, and those of economics.js.
TrialCard(view) ==
    [delta |-> TrialDelta(view), money |-> <<Money(view.trial.baseline), Money(view.after)>>,
     chart |-> Chart(view), comparison |-> Comparison(view.trial.baseline, view.after),
     timeline |-> Timeline(view.trial.hours)]

\* The logs of the report may have gaps, whatever the trial.
TrialOptions(trial, incomplete) ==
    [before |-> trial.beforeRating, after |-> trial.rating, outcome |-> trial.outcome,
     incomplete |-> incomplete]

\* A card's cost is computed twice, by two pieces of code: the change is the
\* same, or missing, in both, and an amount is missing where the caveats call
\* the pricing incomplete.
SameCost(view) ==
    LET card == TrialCard(view)
        signals(incomplete) ==
          Signals(view.trial.baseline, view.after, TrialOptions(view.trial, incomplete))
    IN /\ card.delta = card.comparison.cost
       /\ \A incomplete \in BOOLEAN :
            "price_gap" \in signals(incomplete) => \E k \in {1, 2} : card.money[k] = <<>>

\* The graph of the hours is there exactly with usage, no bar leaves it, and the
\* average of the whole lies between its bars; the running total ends at the
\* total.
SameHours(view) ==
    LET card == TrialCard(view)
        between(bars, average) == /\ \E h \in DOMAIN bars : ~Above(bars[h], average)
                                  /\ \E h \in DOMAIN bars : ~Above(average, bars[h])
    IN /\ (card.chart = <<>>) = (view.after.requests = 0)
       /\ card.chart # <<>> =>
            LET bars == card.chart[1].bars IN
            /\ between(bars, Average(view.after)[1])
            /\ \A h \in DOMAIN bars : ~Above(bars[h], card.chart[1].full)
            /\ card.timeline[Len(card.timeline)].input = Input(view.after)

CostsAgree == \A id \in DOMAIN ShownViews : SameCost(ShownViews[id])
HoursAgree == \A id \in DOMAIN ShownViews : SameHours(ShownViews[id])

\* A trial's card shows its figures more than once, always the same.
FiguresAgree == CostsAgree /\ HoursAgree

\* The sentences of the server that the page has in Korean too.
Translated ==
    {"changed outside", "interrupted", "restored", "no session", "waiting", "regression",
     "no baseline", "rate first", "compare"}
message(sentence, language) ==
    IF language = "ko" /\ sentence \in Translated THEN <<"ko", sentence>> ELSE <<"en", sentence>>

JudgedAlike(view) ==
    /\ \A language \in {"en", "ko"} : message(view.assessment, language)[1] = language
    /\ \A incomplete \in BOOLEAN :
         LET signals == Signals(view.trial.baseline, view.after, TrialOptions(view.trial, incomplete)) IN
         /\ signals \subseteq Messages
         /\ "no_usage" \notin signals =>
              /\ view.assessment = "regression" => "quality_regression" \in signals
              /\ view.assessment = "rate first" => "quality_unknown" \in signals
              /\ view.assessment = "compare" => "quality_regression" \notin signals

\* The server's sentence and the page's caveats judge a trial alike, in either
\* language: a reported regression is a warning in both, and a trial whose
\* quality is unchecked is never shown without saying so.
OneVerdict == \A id \in DOMAIN ShownViews : JudgedAlike(ShownViews[id])

\* What the page shows is one picture of the server's trials: the figures, the
\* verdicts and the state of the page agree.
PageConsistent == TypeOK /\ FiguresAgree /\ OneVerdict

\* Whatever answer is late or lost, the page comes to rest.  An action always
\* ends, and the page can be used again; a late answer may put an older state on
\* the page, but not for good: once the user has clicked for the last time and
\* nothing changes any more, the page comes to show what the server has.
Settles == <>[](~page.busy /\ page.state = Report)
=============================================================================
