------------------------------ MODULE UsagePage ------------------------------
(* The usage page in the browser (internal/webui/claude.js) on a local        *)
(* server.  Every read of the report is numbered, and only the answer to the  *)
(* latest read is shown; reads are started by a timer, by the choice of a     *)
(* source or a range, and after every change, and they may be answered in any *)
(* order, or fail.  A change is posted for the source that is chosen when it  *)
(* is confirmed.  Between a change of source and its first report the page    *)
(* still shows the controls of the old source.                                *)
EXTENDS Economics

CONSTANTS
    Claude,         \* the Claude sources: each may have context trials
    All,            \* the choice of all sources together, without trials
    Days,           \* the ranges: 1, 7 or 30 days
    Ratings,        \* satisfaction ratings
    MaxReads,       \* reads in flight
    MaxClicks,      \* choices and confirmed changes of the user
    MaxEvents,      \* usage, other tabs, failures
    MaxTrials       \* trials of a source

ASSUME RatingsAssumption == Ratings \subseteq 1 .. 5
ASSUME SourcesAssumption == IsFiniteSet(Claude) /\ All \notin Claude
ASSUME RangeAssumption == 7 \in Days
ASSUME ReadsAssumption == MaxReads \in Nat \ {0}

VARIABLES
    usage,          \* how much the logs of a source have grown
    trials,         \* the trials of a Claude source, oldest first
    page,           \* the page: choices, the report it shows, rating controls, dialog
    reads,          \* the reads in flight
    latest,         \* the latest read, 0 when it has been answered
    post,           \* the change in flight
    clicks, events

server == <<usage, trials>>
bounds == <<clicks, events>>
localVars == <<server, page, reads, latest, post, bounds>>

Sources == Claude \cup {All}
Slots == 1 .. MaxReads
Ids == Claude \X (1 .. MaxTrials)      \* a trial ID is drawn by one source

NoReport == [source |-> All, days |-> 0, usage |-> 0, trials |-> <<>>]
NoPost == [action |-> "none", phase |-> "none"]
NoRead == [phase |-> "free", source |-> All, days |-> 0, report |-> NoReport, awaited |-> FALSE]
NoDialog == [kind |-> "none"]
-----------------------------------------------------------------------------
(* The server: each request is handled under a mutex *)

Report(source, days) ==
    [source |-> source, days |-> days,
     usage |-> IF source = All THEN TotalOf(usage) ELSE usage[source],
     trials |-> IF source = All THEN <<>> ELSE trials[source]]

ActiveIn(history) == \E i \in DOMAIN history : history[i].status = "saved"

\* What a change needs from the source it is posted for: Claude's rules, no
\* other active trial, or a trial of this very source; only the latest trial is
\* restored, and only once.
Accepts(request) ==
    /\ request.source \in Claude
    /\ IF request.action = "try"
       THEN /\ ~ActiveIn(trials[request.source]) /\ Len(trials[request.source]) < MaxTrials
       ELSE /\ request.id[1] = request.source /\ request.id[2] \in DOMAIN trials[request.source]
            /\ request.action = "restore" =>
                 /\ request.id[2] = Len(trials[request.source])
                 /\ trials[request.source][request.id[2]].status = "saved"

Changed(request) ==
    LET history == trials[request.source] IN
    CASE request.action = "try" ->
           Append(history, [status |-> "saved", before |-> request.rating, after |-> 0])
      [] request.action = "rate" -> [history EXCEPT ![request.id[2]].after = request.rating]
      [] request.action = "restore" -> [history EXCEPT ![request.id[2]].status = "restored"]

LocalInit ==
    /\ usage = [s \in Claude |-> 0] /\ trials = [s \in Claude |-> <<>>]
    /\ page = [source |-> All, days |-> 7, loaded |-> FALSE, shown |-> NoReport,
               ratings |-> [id \in Ids |-> 0], busy |-> FALSE, dialog |-> NoDialog]
    /\ reads = [i \in Slots |-> IF i = 1 THEN [NoRead EXCEPT !.phase = "sent", !.days = 7] ELSE NoRead]
    /\ latest = 1
    /\ post = NoPost /\ clicks = 0 /\ events = 0
-----------------------------------------------------------------------------
(* refresh *)

\* A read asks for the choices of the moment and becomes the latest one.  It is
\* kept in the first free place.
Send(i, source, days, awaited) ==
    /\ reads[i].phase = "free" /\ \A j \in 1 .. i - 1 : reads[j].phase # "free"
    /\ reads' = [reads EXCEPT ![i] = [NoRead EXCEPT !.phase = "sent", !.source = source,
                                                    !.days = days, !.awaited = awaited]]
    /\ latest' = i

\* Mutant: the timer reads only until there are figures.
PollUntilLoaded(i) ==
    /\ ~page.loaded /\ ~page.busy /\ page.dialog = NoDialog
    /\ Send(i, page.source, page.days, FALSE)
    /\ UNCHANGED <<server, page, post, bounds>>

\* Every 30 seconds, unless a change is running or a dialog is open.
Poll(i) ==
    /\ ~page.busy /\ page.dialog = NoDialog
    /\ Send(i, page.source, page.days, FALSE)
    /\ UNCHANGED <<server, page, post, bounds>>

ReadAnswered(i) ==
    /\ reads[i].phase = "sent"
    /\ reads' = [reads EXCEPT ![i].phase = "answered",
                              ![i].report = Report(reads[i].source, reads[i].days)]
    /\ UNCHANGED <<server, page, latest, post, bounds>>

ReadFails(i) ==
    /\ reads[i].phase = "sent" /\ events < MaxEvents
    /\ events' = events + 1
    /\ reads' = [reads EXCEPT ![i].phase = "failed"]
    /\ UNCHANGED <<server, page, latest, post, clicks>>

ShownIds(report) == {id \in Ids : id[1] = report.source /\ id[2] \in DOMAIN report.trials}
Rated(report, id) == report.trials[id[2]].after

\* Mutant: a new report resets the rating controls.
RatingsReset(report) ==
    [id \in Ids |-> IF id \in ShownIds(report) THEN Rated(report, id) ELSE 0]

\* A control that does not show the saved rating is a draft, and stays.
RatingsAfter(report) ==
    LET draft(id) == /\ id \in ShownIds(page.shown)
                     /\ page.ratings[id] # Rated(page.shown, id)
    IN [id \in Ids |-> IF id \notin ShownIds(report) THEN 0
                       ELSE IF draft(id) THEN page.ratings[id] ELSE Rated(report, id)]

\* Mutant: an answer is shown whatever was asked since.
IsCurrentAlways(i) == TRUE
IsCurrent(i) == latest = i

\* An answer that is not the latest read's is dropped; an error leaves the
\* figures.  The change that waited for this read is over.
ReadShown(i) ==
    /\ reads[i].phase \in {"answered", "failed"}
    /\ LET show == reads[i].phase = "answered" /\ IsCurrent(i)
           report == reads[i].report
       IN page' = [page EXCEPT
            !.loaded = @ \/ show,
            !.shown = IF show THEN report ELSE @,
            !.ratings = IF show THEN RatingsAfter(report) ELSE @,
            !.busy = @ /\ ~reads[i].awaited]
    /\ post' = IF reads[i].awaited THEN NoPost ELSE post
    /\ latest' = IF latest = i THEN 0 ELSE latest
    /\ reads' = [reads EXCEPT ![i] = NoRead]
    /\ UNCHANGED <<server, bounds>>
-----------------------------------------------------------------------------
(* The controls, as they were last rendered *)

UserActs == page.dialog = NoDialog /\ clicks < MaxClicks /\ clicks' = clicks + 1

\* Not while a change is running: it would be answered for another source.
ChooseSource(i) ==
    /\ UserActs /\ ~page.busy
    /\ \E s \in Sources \ {page.source} :
         /\ page' = [page EXCEPT !.source = s, !.loaded = FALSE]
         /\ Send(i, s, page.days, FALSE)
    /\ UNCHANGED <<server, post, events>>

\* Also while a change is running.
ChooseDays(i) ==
    /\ UserActs
    /\ \E d \in Days \ {page.days} :
         /\ page' = [page EXCEPT !.days = d]
         /\ Send(i, page.source, d, FALSE)
    /\ UNCHANGED <<server, post, events>>

OpenTry ==
    /\ UserActs
    /\ page.loaded /\ ~page.busy /\ page.source # All /\ ~ActiveIn(page.shown.trials)
    /\ page' = [page EXCEPT !.dialog = [kind |-> "try"]]
    /\ UNCHANGED <<server, reads, latest, post, events>>

\* The button may still be that of the source shown before.
OpenRestore ==
    /\ UserActs /\ ~page.busy
    /\ \E id \in ShownIds(page.shown) :
         /\ page.shown.trials[id[2]].status = "saved"
         /\ page' = [page EXCEPT !.dialog = [kind |-> "restore", id |-> id]]
    /\ UNCHANGED <<server, reads, latest, post, events>>

CloseDialog ==
    /\ page.dialog # NoDialog
    /\ page' = [page EXCEPT !.dialog = NoDialog]
    /\ UNCHANGED <<server, reads, latest, post, bounds>>

PickRating ==
    /\ \E id \in ShownIds(page.shown), rating \in Ratings :
         /\ page.ratings[id] # rating /\ UserActs
         /\ page' = [page EXCEPT !.ratings[id] = rating]
    /\ UNCHANGED <<server, reads, latest, post, events>>
-----------------------------------------------------------------------------
(* change *)

Start(request) ==
    /\ ~page.busy
    /\ page' = [page EXCEPT !.busy = TRUE, !.dialog = NoDialog]
    /\ post' = request

Confirm ==
    /\ \/ page.dialog.kind = "try" /\ \E rating \in Ratings :
            Start([action |-> "try", source |-> page.source, rating |-> rating, phase |-> "sent"])
       \/ page.dialog.kind = "restore" /\
            Start([action |-> "restore", source |-> page.source, id |-> page.dialog.id,
                   phase |-> "sent"])
    /\ UNCHANGED <<server, reads, latest, bounds>>

\* The button waits for the trial's first usage (claude.js:230); here it may be
\* clicked at once, which only adds behaviours.
SaveRating ==
    /\ UserActs
    /\ \E id \in ShownIds(page.shown) :
         /\ page.ratings[id] \in Ratings
         /\ Start([action |-> "rate", source |-> page.source, id |-> id,
                   rating |-> page.ratings[id], phase |-> "sent"])
    /\ UNCHANGED <<server, reads, latest, events>>

PostAccepted ==
    /\ post.phase = "sent" /\ Accepts(post)
    /\ trials' = [trials EXCEPT ![post.source] = Changed(post)]
    /\ post' = [post EXCEPT !.phase = "done"]
    /\ UNCHANGED <<usage, page, reads, latest, bounds>>

\* A trial needs usage before it, and a rating usage after it, which the model
\* does not count: either may be refused at any time.
PostRefused ==
    /\ post.phase = "sent" /\ (Accepts(post) => post.action # "restore")
    /\ post' = [post EXCEPT !.phase = "failed"]
    /\ UNCHANGED <<server, page, reads, latest, bounds>>

\* The request, or its answer, is lost, or the rule file was edited.
PostLost ==
    /\ post.phase \in {"sent", "done"} /\ events < MaxEvents
    /\ events' = events + 1
    /\ post' = [post EXCEPT !.phase = "failed"]
    /\ UNCHANGED <<server, page, reads, latest, clicks>>

\* Mutant: an accepted change is not followed by a read.
PostDoneUnread(i) ==
    /\ post.phase = "done"
    /\ page' = [page EXCEPT !.busy = FALSE] /\ post' = NoPost
    /\ UNCHANGED <<server, reads, latest, bounds>>

\* An accepted change is followed by a read, and the change waits for it.
PostDone(i) ==
    /\ post.phase = "done"
    /\ Send(i, page.source, page.days, TRUE)
    /\ post' = [post EXCEPT !.phase = "reading"]
    /\ UNCHANGED <<server, page, bounds>>

\* finally: the page is usable again, whatever the answer.
BusyAfter == FALSE

PostFailed ==
    /\ post.phase = "failed"
    /\ page' = [page EXCEPT !.busy = BusyAfter]
    /\ post' = NoPost
    /\ UNCHANGED <<server, reads, latest, bounds>>
-----------------------------------------------------------------------------
(* Around the page *)

Usage ==
    /\ events < MaxEvents /\ events' = events + 1
    /\ \E s \in Claude : usage' = [usage EXCEPT ![s] = @ + 1]
    /\ UNCHANGED <<trials, page, reads, latest, post, clicks>>

OtherTab ==
    /\ events < MaxEvents /\ events' = events + 1
    /\ \E id \in Ids, action \in {"try", "rate", "restore"}, rating \in Ratings :
         LET request == [action |-> action, source |-> id[1], id |-> id, rating |-> rating] IN
         /\ Accepts(request)
         /\ trials' = [trials EXCEPT ![id[1]] = Changed(request)]
    /\ UNCHANGED <<usage, page, reads, latest, post, clicks>>

LocalNext ==
    \/ \E i \in Slots : \/ Poll(i) \/ ReadAnswered(i) \/ ReadFails(i) \/ ReadShown(i)
                        \/ ChooseSource(i) \/ ChooseDays(i) \/ PostDone(i)
    \/ OpenTry \/ OpenRestore \/ CloseDialog \/ PickRating \/ Confirm \/ SaveRating
    \/ PostAccepted \/ PostRefused \/ PostLost \/ PostFailed \/ Usage \/ OtherTab
-----------------------------------------------------------------------------
\* A change is in flight exactly while the page is busy, and one awaited read
\* at most; the latest read is one that is in flight.
LocalTypeOK ==
    /\ page.source \in Sources /\ page.days \in Days
    /\ page.busy = (post # NoPost)
    /\ \A id \in Ids : page.ratings[id] \in {0} \cup Ratings
    /\ (post.phase = "reading") = (\E i \in Slots : reads[i].awaited)
    /\ latest # 0 => reads[latest].phase # "free"

\* The figures on the page are those of the source that is chosen, whatever
\* answers arrive late; and once no read is on its way they are for the range
\* that is chosen, unless a read failed.
ShownSource ==
    page.loaded =>
      /\ page.shown.source = page.source
      /\ latest = 0 /\ events = 0 => page.shown.days = page.days

NotOlder(old, new) ==
    old.source = new.source =>
      /\ new.usage >= old.usage /\ Len(new.trials) >= Len(old.trials)
      /\ \A i \in DOMAIN old.trials :
           old.trials[i].status = "restored" => new.trials[i].status = "restored"

\* The figures of a source never go back to an earlier state of its logs and
\* trials while it stays on the page.
NeverOlder ==
    [][page.loaded /\ page'.loaded => NotOlder(page.shown, page'.shown)]_localVars

\* When a change has been accepted and the page is usable again, the page
\* shows it, or waits for a read that will, or a read has failed.
ReadYourWrites ==
    [][post.phase \in {"done", "reading"} /\ ~page'.busy /\ events' = 0 =>
         \/ page'.loaded /\ page'.shown.trials = trials[post.source]
         \/ latest' # 0]_localVars

\* "Polling must not erase an unsaved rating": a rating the user has picked
\* stays in its control as long as its trial is on the page.
DraftKept ==
    [][\A id \in ShownIds(page.shown) \cap ShownIds(page'.shown) :
         LET picked == page.ratings[id] # Rated(page.shown, id)
         IN picked /\ clicks' = clicks => page'.ratings[id] = page.ratings[id]]_localVars
=============================================================================
