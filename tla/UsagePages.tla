------------------------------ MODULE UsagePages ------------------------------
(* The usage page as it is delivered: on a local server (UsagePage), as one   *)
(* of the two samples (UsageSample), or its panel of a packing trial, local   *)
(* or sample (PackPanel), which is watched by itself: the panel and the rest  *)
(* of the page share only the flag and the reads that both models have.  The  *)
(* mode is fixed when the page is loaded (boot.mode of claude.js).            *)
EXTENDS UsagePage, UsageSample, PackPanel

pageVars == <<localVars, sampleVars, packVars>>

local == mode = "local"
packing == mode \in {"packing", "packing-sample"}

Init ==
    /\ LocalInit
    /\ \E kind \in {"local", "claude-demo", "native-demo", "packing", "packing-sample"} :
         SampleInit(kind) /\ PackInit(kind = "packing-sample")

Next ==
    \/ local /\ LocalNext /\ UNCHANGED <<sampleVars, packVars>>
    \/ demo /\ SampleNext /\ UNCHANGED <<localVars, packVars>>
    \/ packing /\ PackNext /\ UNCHANGED <<localVars, sampleVars>>

\* The timer fires, requests are answered or fail, and the browser delivers.  A
\* read is not for ever slower than the 30 seconds until the next one.
LocalFairness ==
    /\ WF_localVars(local /\ \E i \in Slots : Poll(i))
    /\ WF_localVars(local /\ \E i \in Slots : PostDone(i))
    /\ \A i \in Slots : /\ WF_localVars(local /\ ReadAnswered(i))
                        /\ WF_localVars(local /\ ReadShown(i))
                        /\ SF_localVars(local /\ ReadAnswered(i) /\ latest = i)
                        /\ SF_localVars(local /\ ReadShown(i) /\ latest = i)
    /\ WF_localVars(local /\ (PostAccepted \/ PostRefused)) /\ WF_localVars(local /\ PostFailed)

Spec == Init /\ [][Next]_pageVars /\ LocalFairness /\ PackFairness
-----------------------------------------------------------------------------
\* When nothing changes any more, the page can be used again, every change and
\* every action of the packing panel having ended, and it has come to show the
\* chosen source and range as the server has them, unless the user leaves a
\* dialog open.
Converges ==
    <>[](/\ ~page.busy /\ ~panel.busy
         /\ local /\ page.dialog = NoDialog =>
              page.loaded /\ page.shown = Report(page.source, page.days))

\* What is shown is of the source and range that are chosen, and exactly one
\* change and one read are awaited when the page is busy.
LocalConsistent == LocalTypeOK /\ ShownSource

\* Headline, buckets, sessions, stores, costs and chart add up the same usage.
SampleAddsUp == Conserved /\ SpendAgrees /\ ChartAgrees

\* The page's tables, comparisons, percentiles and graphs, which are computed by
\* different pieces of code, agree with each other and with the headline.
PanelsAgree == VerdictsAgree /\ NearestRank /\ TablesAgree /\ HeadlinesAgree /\ PackAddsUp

\* A change of a rule, or of the packing trial, is seen on the page as soon as
\* the page can be used again; and a packing trial that was stopped stays so.
WritesShown == ReadYourWrites /\ PackWritesShown /\ StopSticks
=============================================================================
