------------------------------ MODULE PackProxy ------------------------------
(***************************************************************************)
(* The MCP proxy of `tracefrugal pack`: Run of internal/pack/proxy.go, the  *)
(* engine it calls (Open, Transform, Recall, Stop and Rate of pack.go) and  *)
(* what ReadReport of report.go makes of the files.                         *)
(*                                                                          *)
(* One goroutine relays the client's requests to the upstream server (and   *)
(* answers recalls itself), the other relays the server's messages to the   *)
(* client.  They share the map of requests, the read-only hints and the     *)
(* engine, whose mutex they hold during Transform and Recall.  Stop, Rate   *)
(* and ReadReport run in other processes on the same directory.             *)
(*                                                                          *)
(* A text stands for a result that qualifies for packing by its size and    *)
(* shape, and for its handle; Plain for any other result.  Request IDs are  *)
(* numbered in the order in which they are used.                            *)
(***************************************************************************)
EXTENDS Naturals, Sequences, FiniteSets, SequencesExt

CONSTANTS
    MaxRequests,    \* bound on the requests of the client
    Tools, Allow,   \* the upstream's tools; those named by --allow
    Texts, Plain,   \* qualifying results; a result that does not qualify
    Duration,       \* length of the trial
    MaxTime,        \* bound on the clock
    MaxChanges,     \* bound on the upstream's changes of a hint
    MaxRatings,     \* bound on the baseline ratings
    Used,           \* may the directory be that of an earlier proxy?
    MaxCrashes, MaxFaults   \* bounds on stops and failed writes of the proxy

ASSUME ConstantsAssumption ==
    /\ MaxRequests \in Nat /\ MaxTime \in Nat /\ MaxChanges \in Nat
    /\ Used \in BOOLEAN
    /\ MaxRatings \in Nat /\ MaxCrashes \in Nat /\ MaxFaults \in Nat
    /\ Allow \subseteq Tools
    /\ Plain \notin Texts
    /\ Duration \in Nat \ {0}

Ids == 1 .. MaxRequests

VARIABLES
    now,        \* the clock
    trial,      \* trial.json: absent, torn or whole, and when it expires
    stopped,    \* does the marker of Stop exist?
    lock,       \* does running.lock exist?
    archive,    \* archives/<handle>.txt: absent, part of the text, or all of it
    journal,    \* events.jsonl
    ratings,    \* before-rating.json
    rater,      \* Rate has looked at the report and not yet written
    proxy,      \* down, opening the trial, ready to run, or up
    requests,   \* IDs with an entry in the map of pending requests
    readOnly,   \* the hints collected from tools/list
    input, output,   \* the two goroutines
    upstream,   \* is the server running?
    todo,       \* requests the server has not answered
    hint,       \* the server's readOnlyHint annotations
    pipe,       \* what the server wrote and the proxy has not read
    ask,        \* what the client asked
    answer,     \* what the client got
    begun,      \* history variable: when the trial was first started
    changes, crashes, faults

disk == <<trial, stopped, lock, archive, journal, ratings>>
maps == <<requests, readOnly>>
threads == <<input, output>>
server == <<upstream, todo, hint, pipe>>
client == <<ask, answer>>
bounds == <<changes, crashes, faults>>
vars == <<now, disk, rater, proxy, maps, threads, server, client, begun, bounds>>
-----------------------------------------------------------------------------
NoAsk == [kind |-> "unused", about |-> "nothing"]

\* about: the tool that is called, or the handle that is recalled.
Asks == [kind : {"list", "other"}, about : {"nothing"}]
        \cup [kind : {"call"}, about : Tools] \cup [kind : {"recall"}, about : Texts]

NoAnswer == [form |-> "none", body |-> Plain, last |-> FALSE, live |-> FALSE]
Answers == [form : {"none", "raw", "packed", "listed", "recalled", "refused"},
            body : Texts \cup {Plain}, last : BOOLEAN, live : BOOLEAN]

\* A page of tools/list has the hints of some tools.  live is a history field:
\* was this the result of a call of a tool of the allowlist, declared read-only,
\* sent within the trial and before Stop?
NoHints == [t \in {} |-> FALSE]
NoMsg == [id |-> 0, form |-> "none", body |-> Plain, hints |-> NoHints,
          last |-> FALSE, live |-> FALSE]
Messages == [id : Ids \cup {0}, form : {"none", "result", "error", "invalid", "changed"},
             body : Texts \cup {Plain}, hints : UNION {[S -> BOOLEAN] : S \in SUBSET Tools},
             last : BOOLEAN, live : BOOLEAN]

InIdle == [pc |-> "idle", id |-> 0, form |-> "none"]
OutIdle == [pc |-> "idle", msg |-> NoMsg, form |-> "none"]

Torn == [kind |-> "torn", text |-> Plain, time |-> 0]
Event(kind, text) == [kind |-> kind, text |-> text, time |-> now]

\* O_APPEND: what follows a torn line becomes part of it.
Appended(line) ==
    IF journal # <<>> /\ Last(journal) = Torn THEN journal ELSE Append(journal, line)

Readable == \A i \in DOMAIN journal : journal[i] # Torn
Packed == {i \in DOMAIN journal : journal[i].kind = "packed"}

NoArchive == [t \in Texts |-> "absent"]

NewDirectory ==
    /\ trial = [status |-> "absent", expires |-> 0] /\ lock = FALSE
    /\ archive = NoArchive /\ journal = <<>>

\* An earlier proxy was stopped while it shortened its first result.
UsedDirectory ==
    /\ trial = [status |-> "whole", expires |-> Duration] /\ lock = TRUE
    /\ \E text \in Texts :
         \/ archive = [NoArchive EXCEPT ![text] = "part"] /\ journal = <<>>
         \/ /\ archive = [NoArchive EXCEPT ![text] = "whole"]
            /\ journal \in {<<>>, <<Torn>>, <<Event("packed", text)>>}

Init ==
    /\ now = 0
    /\ NewDirectory \/ (Used /\ UsedDirectory)
    /\ stopped = FALSE /\ ratings = {} /\ rater = FALSE
    /\ proxy = "down"
    /\ requests = {} /\ readOnly = [t \in Tools |-> FALSE]
    /\ input = InIdle /\ output = OutIdle
    /\ upstream = FALSE /\ todo = {} /\ pipe = <<>>
    /\ hint \in [Tools -> BOOLEAN]
    /\ ask = [i \in Ids |-> NoAsk] /\ answer = [i \in Ids |-> NoAnswer]
    /\ begun = 0
    /\ changes = 0 /\ crashes = 0 /\ faults = 0
-----------------------------------------------------------------------------
(* Open, and the start and the end of Run *)

\* Until the file is written, expires is what the process is about to write.
CreateTrial ==
    /\ trial' = [status |-> "torn", expires |-> now + Duration]
    /\ begun' = IF trial.status = "absent" THEN now ELSE begun
    /\ proxy' = "opening"

\* A restart keeps the trial it finds; a trial.json without contents is refused.
Open ==
    /\ proxy = "down"
    /\ \/ trial.status = "absent" /\ CreateTrial
       \/ trial.status = "whole" /\ proxy' = "ready" /\ UNCHANGED <<trial, begun>>
    /\ UNCHANGED <<now, stopped, lock, archive, journal, ratings, rater, maps, threads,
                   server, client, bounds>>

OpenWrite ==
    /\ proxy = "opening"
    /\ trial' = [trial EXCEPT !.status = "whole"]
    /\ proxy' = "ready"
    /\ UNCHANGED <<now, stopped, lock, archive, journal, ratings, rater, maps, threads,
                   server, client, begun, bounds>>

\* running.lock keeps a second proxy out of the directory.
Launch ==
    /\ proxy = "ready"
    /\ lock' = TRUE
    /\ IF lock THEN proxy' = "down" /\ UNCHANGED upstream
               ELSE proxy' = "up" /\ upstream' = TRUE
    /\ UNCHANGED <<now, trial, stopped, archive, journal, ratings, rater, maps, threads,
                   todo, hint, pipe, client, begun, bounds>>

\* The process is gone, with its memory, and the server with it.
Gone ==
    /\ proxy' = "down"
    /\ requests' = {} /\ readOnly' = [t \in Tools |-> FALSE]
    /\ input' = InIdle /\ output' = OutIdle
    /\ upstream' = FALSE /\ todo' = {} /\ pipe' = <<>>
    /\ UNCHANGED <<now, trial, stopped, ratings, rater, hint, client, begun, changes>>

Return == Gone /\ lock' = FALSE /\ UNCHANGED <<archive, journal, crashes, faults>>

Up == proxy = "up"
-----------------------------------------------------------------------------
(* The goroutine that reads the client *)

InputAt(label) == Up /\ input.pc = label
InputGoto(label) == input' = [input EXCEPT !.pc = label]
InputOnly == UNCHANGED <<now, disk, rater, proxy, output, begun, bounds>>

InputRead(id, request) ==
    /\ InputAt("idle")
    /\ ask[id] = NoAsk /\ \A j \in Ids : j < id => ask[j] # NoAsk
    /\ ask' = [ask EXCEPT ![id] = request]
    /\ input' = [pc |-> CASE request.kind = "recall" -> "recall"
                          [] request.kind \in {"list", "call"} -> "record"
                          [] request.kind = "other" -> "forward",
                 id |-> id, form |-> "none"]
    /\ InputOnly /\ UNCHANGED <<maps, server, answer>>

\* Mutant: the request is forwarded first and then entered in the map.
InputRecordLate ==
    /\ InputAt("record")
    /\ IF input.form = "none"
       THEN /\ todo' = todo \cup {input.id}
            /\ input' = [input EXCEPT !.form = "refused"]  \* marks the second half
            /\ UNCHANGED requests
       ELSE /\ requests' = requests \cup {input.id}
            /\ input' = InIdle
            /\ UNCHANGED todo
    /\ InputOnly /\ UNCHANGED <<readOnly, upstream, hint, pipe, client>>

InputRecord ==
    /\ InputAt("record")
    /\ requests' = requests \cup {input.id}
    /\ InputGoto("forward")
    /\ InputOnly /\ UNCHANGED <<readOnly, server, client>>

\* A write to a server that has stopped ends the goroutine.
InputForward ==
    /\ InputAt("forward")
    /\ IF upstream THEN todo' = todo \cup {input.id} /\ input' = InIdle
                   ELSE InputGoto("closed") /\ UNCHANGED todo
    /\ InputOnly /\ UNCHANGED <<maps, upstream, hint, pipe, client>>

\* Transform and Recall hold the engine's mutex.
EngineFree == output.pc \notin {"create", "write", "receipt"}

Recallable(text) == archive[text] = "whole"

\* Mutant: a refused recall is not answered.
InputRecallSilent ==
    /\ InputAt("recall") /\ EngineFree
    /\ LET text == ask[input.id].about
       IN  IF Recallable(text)
           THEN /\ journal' = Appended(Event("recalled", text))
                /\ input' = [input EXCEPT !.pc = "send", !.form = "recalled"]
           ELSE input' = InIdle /\ UNCHANGED journal
    /\ UNCHANGED <<now, trial, stopped, lock, archive, ratings, rater, proxy, maps, output,
                   server, client, begun, bounds>>

\* Recall checks the digest and leaves a receipt before it answers.
InputRecall ==
    /\ InputAt("recall") /\ EngineFree
    /\ LET text == ask[input.id].about
       IN  IF Recallable(text)
           THEN /\ journal' = Appended(Event("recalled", text))
                /\ input' = [input EXCEPT !.pc = "send", !.form = "recalled"]
           ELSE /\ input' = [input EXCEPT !.pc = "send", !.form = "refused"]
                /\ UNCHANGED journal
    /\ UNCHANGED <<now, trial, stopped, lock, archive, ratings, rater, proxy, maps, output,
                   server, client, begun, bounds>>

InputSend ==
    /\ InputAt("send")
    /\ answer' = [answer EXCEPT ![input.id] =
                    [NoAnswer EXCEPT !.form = input.form,
                       !.body = IF input.form = "recalled" THEN ask[input.id].about ELSE Plain]]
    /\ input' = InIdle
    /\ InputOnly /\ UNCHANGED <<maps, server, ask>>

\* At the end of the input the server's is closed; an invalid frame kills it.
InputEnd ==
    /\ InputAt("idle")
    /\ InputGoto("closed")
    /\ upstream' \in {upstream, FALSE}
    /\ InputOnly /\ UNCHANGED <<maps, todo, hint, pipe, client>>

InputStep == InputRecord \/ InputForward \/ InputRecall \/ InputSend
-----------------------------------------------------------------------------
(* The upstream server *)

Sends(msg) == pipe' = Append(pipe, msg)

RespondError(id) == Sends([NoMsg EXCEPT !.id = id, !.form = "error"])

RespondList(id) ==
    /\ ask[id].kind = "list"
    /\ \/ Sends([NoMsg EXCEPT !.id = id, !.form = "invalid"])
       \/ \E page \in SUBSET Tools, last \in BOOLEAN :
            Sends([NoMsg EXCEPT !.id = id, !.form = "result",
                                !.hints = [t \in page |-> hint[t]], !.last = last])

RespondCall(id) ==
    /\ ask[id].kind = "call"
    /\ \E body \in Texts \cup {Plain} :
         Sends([NoMsg EXCEPT !.id = id, !.form = "result", !.body = body,
                             !.live = /\ hint[ask[id].about] /\ ask[id].about \in Allow
                                      /\ ~stopped /\ now < begun + Duration])

RespondOther(id) ==
    /\ ask[id].kind \notin {"list", "call"}
    /\ Sends([NoMsg EXCEPT !.id = id, !.form = "result"])

ServerAnswers(id) ==
    /\ upstream /\ id \in todo
    /\ RespondError(id) \/ RespondList(id) \/ RespondCall(id) \/ RespondOther(id)
    /\ todo' = todo \ {id}
    /\ UNCHANGED <<now, disk, rater, proxy, maps, threads, upstream, hint, client, begun, bounds>>

ServerChanges(tool) ==
    /\ upstream /\ changes < MaxChanges
    /\ hint' = [hint EXCEPT ![tool] = ~@]
    /\ Sends([NoMsg EXCEPT !.form = "changed"])
    /\ changes' = changes + 1
    /\ UNCHANGED <<now, disk, rater, proxy, maps, threads, upstream, todo, client, begun,
                   crashes, faults>>

ServerStops ==
    /\ upstream
    /\ upstream' = FALSE
    /\ UNCHANGED <<now, disk, rater, proxy, maps, threads, todo, hint, pipe, client, begun, bounds>>
-----------------------------------------------------------------------------
(* The goroutine that reads the server *)

OutputAt(label) == Up /\ output.pc = label
OutputGoto(label) == output' = [output EXCEPT !.pc = label]
OutputAs(form) == output' = [output EXCEPT !.pc = "send", !.form = form]
OutputOnly == UNCHANGED <<now, trial, stopped, lock, ratings, rater, proxy, input,
                          upstream, todo, hint, ask, begun, bounds>>

\* Mutant: a list_changed notification is relayed and otherwise ignored.
HintsKept == readOnly

HintsForgotten == [t \in Tools |-> FALSE]

OutputRead ==
    /\ OutputAt("idle") /\ pipe # <<>>
    /\ pipe' = Tail(pipe)
    /\ IF Head(pipe).form = "changed"
       THEN readOnly' = HintsForgotten /\ UNCHANGED output
       ELSE output' = [pc |-> "lookup", msg |-> Head(pipe), form |-> "none"] /\ UNCHANGED readOnly
    /\ OutputOnly /\ UNCHANGED <<archive, journal, requests, answer>>

\* The request and the tool's hint are read, and the entry deleted, at once.
OutputLookup ==
    LET id == output.msg.id
        known == id \in requests /\ output.msg.form # "error"
    IN  /\ OutputAt("lookup")
        /\ requests' = requests \ {id}
        /\ CASE known /\ ask[id].kind = "list" -> OutputGoto("list")
             [] known /\ ask[id].kind = "call" /\ readOnly[ask[id].about] -> OutputGoto("transform")
             [] OTHER -> OutputAs("raw")
        /\ OutputOnly /\ UNCHANGED <<archive, journal, readOnly, pipe, answer>>

\* The recall tool is added on the last page.
OutputList ==
    /\ OutputAt("list") /\ output.msg.form # "invalid"
    /\ readOnly' = [t \in Tools |-> IF t \in DOMAIN output.msg.hints THEN output.msg.hints[t]
                                                                    ELSE readOnly[t]]
    /\ OutputAs(IF output.msg.last THEN "listed" ELSE "raw")
    /\ OutputOnly /\ UNCHANGED <<archive, journal, requests, pipe, answer>>

\* A malformed list, or one that names tracefrugal_recall, ends the proxy.
OutputAbort == OutputAt("list") /\ output.msg.form = "invalid" /\ Return

Active == now < trial.expires /\ ~stopped

OutputTransform ==
    /\ OutputAt("transform")
    /\ IF Active /\ ask[output.msg.id].about \in Allow /\ output.msg.body \in Texts
       THEN OutputGoto("create") ELSE OutputAs("raw")
    /\ OutputOnly /\ UNCHANGED <<archive, journal, maps, pipe, answer>>

\* Mutant: an archive of that name is taken for the text.
IntactByName(text) == TRUE

Intact(text) == archive[text] = "whole"

\* O_EXCL creation; an archive that is there is used when its digest is right.
OutputCreate ==
    LET text == output.msg.body IN
    /\ OutputAt("create")
    /\ IF archive[text] = "absent"
       THEN archive' = [archive EXCEPT ![text] = "part"] /\ OutputGoto("write")
       ELSE /\ IF Intact(text) THEN OutputGoto("receipt") ELSE OutputAs("raw")
            /\ UNCHANGED archive
    /\ OutputOnly /\ UNCHANGED <<journal, maps, pipe, answer>>

OutputWrite ==
    /\ OutputAt("write")
    /\ archive' = [archive EXCEPT ![output.msg.body] = "whole"]
    /\ OutputGoto("receipt")
    /\ OutputOnly /\ UNCHANGED <<journal, maps, pipe, answer>>

OutputReceipt ==
    /\ OutputAt("receipt")
    /\ journal' = Appended(Event("packed", output.msg.body))
    /\ OutputAs("packed")
    /\ OutputOnly /\ UNCHANGED <<archive, maps, pipe, answer>>

OutputSend ==
    /\ OutputAt("send")
    /\ answer' = [answer EXCEPT ![output.msg.id] =
                    [form |-> output.form, body |-> output.msg.body,
                     last |-> output.msg.last, live |-> output.msg.live]]
    /\ output' = OutIdle
    /\ OutputOnly /\ UNCHANGED <<archive, journal, maps, pipe>>

\* When the server is gone and read to the end, Run returns, whatever the other
\* goroutine is doing.
OutputEnd == OutputAt("idle") /\ pipe = <<>> /\ ~upstream /\ Return

OutputStep ==
    \/ OutputRead \/ OutputLookup \/ OutputList \/ OutputAbort \/ OutputTransform
    \/ OutputCreate \/ OutputWrite \/ OutputReceipt \/ OutputSend \/ OutputEnd
-----------------------------------------------------------------------------
(* Stops and failed writes of the proxy *)

\* A line being written is lost, torn or whole.
MaybeWritten(line) == journal' \in {journal, Appended(Torn), Appended(line)}

Crash ==
    /\ crashes < MaxCrashes
    /\ proxy # "down"
    /\ crashes' = crashes + 1
    /\ CASE OutputAt("receipt") -> MaybeWritten(Event("packed", output.msg.body))
         [] InputAt("recall") /\ EngineFree /\ Recallable(ask[input.id].about) ->
              MaybeWritten(Event("recalled", ask[input.id].about))
         [] OTHER -> UNCHANGED journal
    /\ Gone
    /\ UNCHANGED <<lock, archive, faults>>

\* create fails after a partial or a full write (the full text passes the digest),
\* append after anything: then the result is not packed, the recall refused.
Fault ==
    /\ faults < MaxFaults
    /\ faults' = faults + 1
    /\ \/ /\ OutputAt("write")
          /\ OutputAs("raw")
          /\ UNCHANGED <<journal, input>>
       \/ /\ OutputAt("receipt")
          /\ MaybeWritten(Event("packed", output.msg.body))
          /\ OutputAs("raw")
          /\ UNCHANGED input
       \/ /\ InputAt("recall") /\ EngineFree /\ Recallable(ask[input.id].about)
          /\ MaybeWritten(Event("recalled", ask[input.id].about))
          /\ input' = [input EXCEPT !.pc = "send", !.form = "refused"]
          /\ UNCHANGED output
    /\ UNCHANGED <<now, trial, stopped, lock, archive, ratings, rater, proxy, maps, server,
                   client, begun, changes, crashes>>
-----------------------------------------------------------------------------
(* The other commands, the user and the clock *)

Stop ==
    /\ trial.status # "absent" /\ ~stopped
    /\ stopped' = TRUE
    /\ UNCHANGED <<now, trial, lock, archive, journal, ratings, rater, proxy, maps, threads,
                   server, client, begun, bounds>>

\* Rate looks at the report and appends the baseline rating later.
RateRead ==
    /\ ~rater /\ Cardinality(ratings) < MaxRatings
    /\ trial.status = "whole" /\ Readable /\ Packed = {}
    /\ rater' = TRUE
    /\ UNCHANGED <<now, disk, proxy, maps, threads, server, client, begun, bounds>>

\* unseen is a history field: had the client got no packed result yet?
RateWrite ==
    /\ rater
    /\ rater' = FALSE
    /\ ratings' = ratings \cup
         {[time |-> now, unseen |-> \A id \in Ids : answer[id].form # "packed"]}
    /\ UNCHANGED <<now, trial, stopped, lock, archive, journal, proxy, maps, threads,
                   server, client, begun, bounds>>

\* Mutant: ReadReport shows every baseline rating.
BaselineAsRated == ratings

\* ReadReport shows those made before the first packed result.
Baseline == {r \in ratings : \A i \in Packed : r.time < journal[i].time}

RemoveStaleLock ==
    /\ lock /\ ~Up
    /\ lock' = FALSE
    /\ UNCHANGED <<now, trial, stopped, archive, journal, ratings, rater, proxy, maps, threads,
                   server, client, begun, bounds>>

Tick ==
    /\ now < MaxTime
    /\ now' = now + 1
    /\ UNCHANGED <<disk, rater, proxy, maps, threads, server, client, begun, bounds>>
-----------------------------------------------------------------------------
Next ==
    \/ Open \/ OpenWrite \/ Launch
    \/ \E id \in Ids, request \in Asks : InputRead(id, request)
    \/ InputStep \/ InputEnd
    \/ \E id \in Ids : ServerAnswers(id)
    \/ \E tool \in Tools : ServerChanges(tool)
    \/ ServerStops
    \/ OutputStep
    \/ Crash \/ Fault
    \/ Stop \/ RateRead \/ RateWrite \/ RemoveStaleLock \/ Tick

Spec == Init /\ [][Next]_vars

\* Both goroutines go on, and the server answers every request or stops.
Fairness ==
    /\ WF_vars(InputStep) /\ WF_vars(OutputStep)
    /\ \A id \in Ids : WF_vars(ServerAnswers(id))

FairSpec == Spec /\ Fairness
-----------------------------------------------------------------------------
TrialFiles == [status : {"absent", "torn", "whole"}, expires : 0 .. MaxTime + Duration]
Inputs == [pc : {"idle", "record", "forward", "recall", "send", "closed"},
           id : Ids \cup {0}, form : {"none", "recalled", "refused"}]
Outputs == [pc : {"idle", "lookup", "list", "transform", "create", "write", "receipt", "send"},
            msg : Messages, form : {"none", "raw", "packed", "listed"}]
Lines == [kind : {"packed", "recalled", "torn"}, text : Texts \cup {Plain}, time : 0 .. MaxTime]

\* Every variable has its type, and a receipt is about a text that was archived.
TypeOK ==
    /\ now \in 0 .. MaxTime /\ begun \in 0 .. MaxTime
    /\ trial \in TrialFiles
    /\ stopped \in BOOLEAN /\ lock \in BOOLEAN /\ rater \in BOOLEAN /\ upstream \in BOOLEAN
    /\ archive \in [Texts -> {"absent", "part", "whole"}]
    /\ journal \in Seq(Lines)
    /\ \A i \in DOMAIN journal : journal[i] # Torn =>
         journal[i].text \in Texts /\ archive[journal[i].text] = "whole"
    /\ \A r \in ratings : r.time \in 0 .. MaxTime /\ r.unseen \in BOOLEAN
    /\ proxy \in {"down", "opening", "ready", "up"}
    /\ requests \subseteq Ids /\ todo \subseteq Ids
    /\ readOnly \in [Tools -> BOOLEAN] /\ hint \in [Tools -> BOOLEAN]
    /\ input \in Inputs /\ output \in Outputs
    /\ pipe \in Seq(Messages)
    /\ ask \in [Ids -> Asks \cup {NoAsk}] /\ answer \in [Ids -> Answers]
    /\ changes \in 0 .. MaxChanges /\ crashes \in 0 .. MaxCrashes /\ faults \in 0 .. MaxFaults

\* Whatever stopped or failed before, a result that reached the client shortened
\* can be recalled in full.  Unless a line of the journal was torn, it has its
\* receipt, too ("No receipt, no claim of activation", pack.go:260); of a torn
\* journal, which no report is made from, only the recall is promised.
PackedRecallable ==
    \A id \in Ids : answer[id].form = "packed" =>
        /\ Recallable(answer[id].body)
        /\ Readable => \E i \in Packed : journal[i].text = answer[id].body

\* A shortened result was sent by the server within the 24 hours after the first
\* start, before Stop, and while its tool was declared read-only: restarts,
\* changed hints and results in flight included.
PackedInScope ==
    \A id \in Ids : answer[id].form = "packed" => answer[id].live

\* The client learns of the recall tool from every complete tools/list.
ListAdvertises ==
    \A id \in Ids :
        ask[id].kind = "list" /\ answer[id].form # "none" /\ answer[id].last
            => answer[id].form = "listed"

\* A baseline that raced with the first shortened result is not shown as one
\* (report.go:115): who gave it had seen none.
BaselineGenuine ==
    Readable => \A r \in Baseline : r.unseen

\* Every request the proxy has read is answered, unless the proxy stops first:
\* forwarded, refused, failed and shortened ones alike.
Answered ==
    \A id \in Ids : input.id = id ~> (answer[id] # NoAnswer \/ ~Up)
=============================================================================
