------------------------------ MODULE PackPanel ------------------------------
(* The panel of the packing trial on the usage page (renderPacking and        *)
(* packingAction of internal/webui/claude.js), with the report it shows       *)
(* (ReadReport of internal/pack/report.go) and the Stop and Rate of           *)
(* internal/pack/pack.go, each one step here; PackProxy has the proxy whose   *)
(* receipts are counted.  The panel's reads are those of the page: numbered,  *)
(* and only the latest is shown.  A sample page shows a made-up trial.        *)
EXTENDS Integers, SequencesExt

CONSTANTS
    TrialHours,             \* the hours of a trial: 24
    PackRatings,        \* satisfaction ratings
    RawSizes,           \* sizes of a result that is packed; an excerpt has size 1, a recall 2
    MaxReceipts,        \* packed and recalled results
    MaxPackReads,       \* reads in flight
    MaxPackClicks,      \* choices and confirmed actions of the user
    MaxPackEvents       \* actions of another page, failures

ASSUME PackAssumption == TrialHours \in Nat \ {0} /\ PackRatings \subseteq 1 .. 5

VARIABLES
    pack,               \* the trial: the hour, receipts, marker of Stop, ratings, and whether
                        \* the proxy has begun to pack a result
    panel,              \* the report that is shown, its rating control, busy
    packReads, packLatest,
    packPost,           \* the action in flight
    packClicks, packEvents

packVars == <<pack, panel, packReads, packLatest, packPost, packClicks, packEvents>>

PackSlots == 1 .. MaxPackReads
Idle == [phase |-> "free", awaited |-> FALSE, report |-> <<>>]
NoAction == [action |-> "none", phase |-> "none"]
-----------------------------------------------------------------------------
(* ReadReport *)

BytesOf(receipts, figure(_)) == FoldLeft(LAMBDA n, e : n + figure(e), 0, receipts)
Of(receipts, kind) == SelectSeq(receipts, LAMBDA e : e.kind = kind)
Count(receipts, kind) == Cardinality({i \in DOMAIN receipts : receipts[i].kind = kind})

Status(p) == IF p.halted THEN "Stopped" ELSE IF p.hour >= TrialHours THEN "Expired" ELSE "Within"

HourDelivered(receipts) == BytesOf(receipts, LAMBDA e : e.delivered)

HourOf(receipts) ==
    [packed |-> Count(receipts, "packed"), recalls |-> Count(receipts, "recalled"),
     original |-> BytesOf(Of(receipts, "packed"), LAMBDA e : e.original),
     delivered |-> HourDelivered(receipts)]

\* What is dated after the last hour is in the totals and in no hour.
ReadReport(p) ==
    LET packed == Of(p.receipts, "packed")
        recalled == Of(p.receipts, "recalled")
    IN [status |-> Status(p), packed |-> Count(p.receipts, "packed"),
        recalls |-> Count(p.receipts, "recalled"),
        original |-> BytesOf(packed, LAMBDA e : e.original),
        delivered |-> BytesOf(packed, LAMBDA e : e.delivered),
        recall |-> BytesOf(recalled, LAMBDA e : e.delivered),
        before |-> p.before, after |-> p.after,
        hours |-> [h \in 1 .. TrialHours |->
                     HourOf(SelectSeq(p.receipts, LAMBDA e : e.hour = h - 1))]]

\* The trial of the sample: two results in every third hour, a recall in every
\* sixth (the sizes are in units of 2000 bytes).
SampleHours ==
    [h \in 1 .. 24 |->
       LET third == (h - 1) % 3 = 0
           sixth == (h - 1) % 6 = 0
       IN [packed |-> IF third THEN 2 ELSE 0, recalls |-> IF sixth THEN 1 ELSE 0,
           original |-> IF third THEN 40 ELSE 0,
           delivered |-> IF third THEN 2 + (IF sixth THEN 3 ELSE 0) ELSE 0]]

SamplePack ==
    [status |-> "Expired", packed |-> 16, recalls |-> 4, original |-> 320, delivered |-> 16,
     recall |-> 12, before |-> 4, after |-> 0, hours |-> SampleHours]
-----------------------------------------------------------------------------
(* Stop and Rate *)

\* A baseline is refused once a result was packed, a later rating before that.
RateAllowed(before) == before = (Of(pack.receipts, "packed") = <<>>)

Handled(request) ==
    IF request.action = "stop" THEN [pack EXCEPT !.halted = TRUE]
    ELSE IF request.before THEN [pack EXCEPT !.before = request.rating]
    ELSE [pack EXCEPT !.after = request.rating]

Refuses(request) == request.action = "rate" /\ ~RateAllowed(request.before)
-----------------------------------------------------------------------------
(* renderPacking *)

Some(shown) == shown # <<>>

\* The rating the control shows by itself: for the side that is asked about.
Chosen(report) == IF report.packed > 0 THEN report.after ELSE report.before

\* A control that differs from the saved rating is a draft, and stays.
Control(old, report) ==
    IF Some(old.shown) /\ old.control # Chosen(old.shown[1]) THEN old.control ELSE Chosen(report)

Panel(old, report) == [old EXCEPT !.shown = <<report>>, !.control = Control(old, report)]

CanStop(report) == report.status = "Within"

\* The part of the bytes that was saved or added, of the original.
Reduction(r) == IF r.original > 0 THEN <<<<r.original - (r.delivered + r.recall), r.original>>>> ELSE <<>>

\* The bars of an hour against the longest one.
Graph(r) ==
    [full |-> FoldLeft(LAMBDA m, h : Max({m, h.original, h.delivered}), 1, r.hours),
     bars |-> [h \in DOMAIN r.hours |-> <<r.hours[h].original, r.hours[h].delivered>>]]

Satisfaction(r) ==
    IF r.before = 0 \/ r.after = 0 THEN "incomplete"
    ELSE IF r.after < r.before THEN "fell" ELSE "kept"
-----------------------------------------------------------------------------
PackInit(sample) ==
    /\ pack = [hour |-> 0, receipts |-> <<>>, halted |-> FALSE, packing |-> FALSE,
               before |-> 0, after |-> 0]
    /\ panel = IF sample
               THEN [sample |-> TRUE, shown |-> <<SamplePack>>, control |-> 0, busy |-> FALSE]
               ELSE [sample |-> FALSE, shown |-> <<>>, control |-> 0, busy |-> FALSE]
    /\ packReads = [i \in PackSlots |-> Idle]
    /\ packLatest = 0
    /\ packPost = NoAction /\ packClicks = 0 /\ packEvents = 0

PackClick == packClicks < MaxPackClicks /\ packClicks' = packClicks + 1
PackEvent == packEvents < MaxPackEvents /\ packEvents' = packEvents + 1

SendPackRead(i, awaited) ==
    /\ packReads[i].phase = "free" /\ \A j \in 1 .. i - 1 : packReads[j].phase # "free"
    /\ packReads' = [packReads EXCEPT ![i] = [Idle EXCEPT !.phase = "sent", !.awaited = awaited]]
    /\ packLatest' = i

\* The page's timer, not while an action is running (UsagePage has the reads of
\* another range, which do not wait).
PackPoll(i) ==
    /\ ~panel.sample /\ ~panel.busy
    /\ SendPackRead(i, FALSE)
    /\ UNCHANGED <<pack, panel, packPost, packClicks, packEvents>>

PackAnswered(i) ==
    /\ packReads[i].phase = "sent"
    /\ packReads' = [packReads EXCEPT ![i].phase = "answered", ![i].report = <<ReadReport(pack)>>]
    /\ UNCHANGED <<pack, panel, packLatest, packPost, packClicks, packEvents>>

\* finally: what waited for the read is over.
PackReadEnds(i) ==
    /\ packPost' = IF packReads[i].awaited THEN NoAction ELSE packPost
    /\ packLatest' = IF packLatest = i THEN 0 ELSE packLatest
    /\ packReads' = [packReads EXCEPT ![i] = Idle]

PackReadFails(i) ==
    /\ packReads[i].phase # "free" /\ PackEvent
    /\ panel' = [panel EXCEPT !.busy = @ /\ ~packReads[i].awaited]
    /\ PackReadEnds(i)
    /\ UNCHANGED <<pack, packClicks>>

PackCurrent(i) == packLatest = i

PackShown(i) ==
    /\ packReads[i].phase = "answered"
    /\ LET next == IF PackCurrent(i) THEN Panel(panel, packReads[i].report[1]) ELSE panel
       IN panel' = [next EXCEPT !.busy = @ /\ ~packReads[i].awaited]
    /\ PackReadEnds(i)
    /\ UNCHANGED <<pack, packClicks, packEvents>>

PickPackRating ==
    /\ Some(panel.shown) /\ PackClick
    /\ \E rating \in PackRatings : panel' = [panel EXCEPT !.control = rating]
    /\ UNCHANGED <<pack, packReads, packLatest, packPost, packEvents>>

\* packingAction: the side is that of the report on the page.
ClickPack ==
    /\ Some(panel.shown) /\ ~panel.busy /\ ~panel.sample /\ PackClick
    /\ LET r == panel.shown[1] IN
         \/ CanStop(r) /\ packPost' = [action |-> "stop", phase |-> "sent"]
         \/ panel.control \in PackRatings
            /\ packPost' = [action |-> "rate", phase |-> "sent", before |-> r.packed = 0,
                            rating |-> panel.control]
    /\ panel' = [panel EXCEPT !.busy = TRUE]
    /\ UNCHANGED <<pack, packReads, packLatest, packEvents>>

\* In the sample nothing is posted.
RateSample ==
    /\ panel.sample /\ panel.control \in PackRatings /\ PackClick
    /\ panel' = [panel EXCEPT !.shown[1].after = panel.control]
    /\ UNCHANGED <<pack, packReads, packLatest, packPost, packEvents>>

PackPostAccepted ==
    /\ packPost.phase = "sent" /\ ~Refuses(packPost)
    /\ pack' = Handled(packPost)
    /\ packPost' = [packPost EXCEPT !.phase = "done"]
    /\ UNCHANGED <<panel, packReads, packLatest, packClicks, packEvents>>

\* An error, too, ends in finally.
PackPostFails ==
    /\ \/ packPost.phase = "sent" /\ Refuses(packPost) /\ UNCHANGED packEvents
       \/ packPost.phase \in {"sent", "done"} /\ PackEvent
    /\ panel' = [panel EXCEPT !.busy = FALSE]
    /\ packPost' = NoAction
    /\ UNCHANGED <<pack, packReads, packLatest, packClicks>>

PackDone(i) ==
    /\ packPost.phase = "done"
    /\ SendPackRead(i, TRUE)
    /\ packPost' = [packPost EXCEPT !.phase = "reading"]
    /\ UNCHANGED <<pack, panel, packClicks, packEvents>>
-----------------------------------------------------------------------------
(* The proxy, time, and another page *)

\* The lock of the engine: a result is packed, or recalled, one at a time.
Receipt(receipt) ==
    /\ Len(pack.receipts) < MaxReceipts
    /\ pack' = [pack EXCEPT !.receipts = Append(@, receipt), !.packing = FALSE]

\* Mutants: the marker of Stop is not looked for; the end is not.
CanPackAfterStop(p) == p.hour < TrialHours
CanPackAfterEnd(p) == ~p.halted

\* Whether the trial is active is asked before the result is archived ...
CanPack(p) == Status(p) = "Within"

ProxyArchives ==
    /\ ~panel.sample /\ ~pack.packing /\ CanPack(pack) /\ Len(pack.receipts) < MaxReceipts
    /\ pack' = [pack EXCEPT !.packing = TRUE]
    /\ UNCHANGED <<panel, packReads, packLatest, packPost, packClicks, packEvents>>

\* ... and its receipt has the time after that, when the trial may have ended.
ProxyPacks ==
    /\ pack.packing
    /\ \E size \in RawSizes :
         Receipt([kind |-> "packed", hour |-> pack.hour, original |-> size, delivered |-> 1])
    /\ UNCHANGED <<panel, packReads, packLatest, packPost, packClicks, packEvents>>

\* The result does not qualify, cannot be archived or gets no receipt, or the
\* proxy is stopped.
ProxyGivesUp ==
    /\ pack.packing
    /\ pack' = [pack EXCEPT !.packing = FALSE]
    /\ UNCHANGED <<panel, packReads, packLatest, packPost, packClicks, packEvents>>

\* What was packed can be recalled at any time.
ProxyRecalls ==
    /\ ~pack.packing /\ Of(pack.receipts, "packed") # <<>>
    /\ Receipt([kind |-> "recalled", hour |-> pack.hour, original |-> 0, delivered |-> 2])
    /\ UNCHANGED <<panel, packReads, packLatest, packPost, packClicks, packEvents>>

HourPasses ==
    /\ ~panel.sample /\ pack.hour < TrialHours
    /\ pack' = [pack EXCEPT !.hour = @ + 1]
    /\ UNCHANGED <<panel, packReads, packLatest, packPost, packClicks, packEvents>>

PackOtherPage ==
    /\ ~panel.sample /\ PackEvent
    /\ \/ pack' = [pack EXCEPT !.halted = TRUE]
       \/ \E rating \in PackRatings, before \in BOOLEAN :
            /\ RateAllowed(before)
            /\ pack' = Handled([action |-> "rate", before |-> before, rating |-> rating])
    /\ UNCHANGED <<panel, packReads, packLatest, packPost, packClicks>>
-----------------------------------------------------------------------------
PackNext ==
    \/ \E i \in PackSlots : \/ PackPoll(i) \/ PackAnswered(i) \/ PackReadFails(i)
                            \/ PackShown(i) \/ PackDone(i)
    \/ PickPackRating \/ ClickPack \/ RateSample
    \/ PackPostAccepted \/ PackPostFails
    \/ ProxyArchives \/ ProxyPacks \/ ProxyGivesUp \/ ProxyRecalls \/ HourPasses \/ PackOtherPage

PackFairness ==
    /\ WF_packVars(\E i \in PackSlots : PackDone(i))
    /\ \A i \in PackSlots : WF_packVars(PackAnswered(i)) /\ WF_packVars(PackShown(i))
    /\ WF_packVars(PackPostAccepted \/ PackPostFails)
-----------------------------------------------------------------------------
\* The graph of the trial and its totals are one count: at most one packed
\* result is in the totals and in no hour, the one that was begun before the end
\* of the trial and had its receipt after it; otherwise only recalls after the
\* end are missing from the hours; and no bar is longer than the graph.
PackAddsUp ==
    Some(panel.shown) =>
      LET r == panel.shown[1]
          total(figure(_)) == BytesOf(r.hours, figure)
          late == r.packed - total(LAMBDA h : h.packed)
          drawn == Graph(r)
      IN /\ late \in {0, 1}
         /\ late = 0 => /\ total(LAMBDA h : h.original) = r.original
                        /\ total(LAMBDA h : h.delivered) >= r.delivered
         /\ late = 1 => total(LAMBDA h : h.original) < r.original
         /\ late = 0 /\ total(LAMBDA h : h.recalls) = r.recalls
              => total(LAMBDA h : h.delivered) = r.delivered + r.recall
         /\ \A h \in DOMAIN drawn.bars : \A k \in {1, 2} : drawn.bars[h][k] <= drawn.full
         /\ Reduction(r) = <<>> <=> r.packed = 0
         /\ Satisfaction(r) = "fell" => r.packed > 0

\* "Packing stopped. Future results pass through": once the panel has said so,
\* it never offers to stop again, its count of packed results never falls, and
\* at most one result more than it says is ever packed: the one the proxy had
\* begun when the trial was stopped, whose receipt comes afterwards.
StopSticks ==
    [][Some(panel.shown) /\ panel.shown[1].status = "Stopped" =>
         /\ panel'.shown[1].status = "Stopped"
         /\ panel'.shown[1].packed >= panel.shown[1].packed
         /\ Count(pack'.receipts, "packed") <= panel.shown[1].packed + 1
         /\ pack'.halted]_packVars

\* When an action has been accepted and the page is usable again, the panel
\* shows what it did, or waits for a read that will, or something has failed.
PackWritesShown ==
    [][packPost.phase \in {"done", "reading"} /\ ~panel'.busy /\ packEvents' = 0 =>
         \/ packLatest' # 0
         \/ IF packPost.action = "stop" THEN panel'.shown[1].status = "Stopped"
            ELSE IF packPost.before THEN panel'.shown[1].before = packPost.rating
            ELSE panel'.shown[1].after = packPost.rating]_packVars
=============================================================================
