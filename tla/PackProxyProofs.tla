-------------------------- MODULE PackProxyProofs --------------------------
(* Proofs about PackProxy, for any number of requests, tools, texts, stops   *)
(* and failed writes, and for a trial of any length.                         *)
EXTENDS PackProxy, SequenceTheorems, TLAPS

-----------------------------------------------------------------------------
(* The inductive invariant.                                                  *)

\* A proxy that is not up has nothing in memory, and there is no server.
DownClean ==
  ~Up => /\ requests = {} /\ readOnly = [t \in Tools |-> FALSE]
         /\ input = InIdle /\ output = OutIdle
         /\ upstream = FALSE /\ todo = {} /\ pipe = <<>>

\* trial.json keeps the end that the first start gave it.
TrialKept ==
  /\ trial.status # "absent" => trial.expires = begun + Duration
  /\ trial.status = "absent" => proxy = "down" /\ ~stopped

\* Somewhere between the client and the proxy's answer, and not yet looked up.
Pending(id) ==
  \/ id \in todo
  \/ \E k \in DOMAIN pipe : pipe[k].id = id
  \/ output.pc = "lookup" /\ output.msg.id = id

\* The client's goroutine works on a request of the client; it forwards a
\* tools/list that the other goroutine will find in the map.
InputWork ==
  /\ input.pc \in {"record", "forward", "recall", "send"} =>
       input.id \in Ids /\ ask[input.id].kind \in {"list", "call", "other", "recall"}
  /\ input.pc \in {"record", "forward"} => ~Pending(input.id)
  /\ input.pc = "record" => ask[input.id].kind \in {"list", "call"}
  /\ input.pc = "forward" /\ ask[input.id].kind = "list" => input.id \in requests
  /\ input.pc = "recall" \/ input.form = "recalled" => ask[input.id].kind = "recall"
  /\ input.form # "none" => input.pc = "send"

\* Only what was asked is in flight, only once, and a tools/list is in the map.
InFlight ==
  /\ \A id \in requests : ask[id] # NoAsk
  /\ \A id \in Ids : Pending(id) =>
       ask[id] # NoAsk /\ (ask[id].kind = "list" => id \in requests)
  /\ \A k \in DOMAIN pipe :
       /\ pipe[k].id \notin todo
       /\ output.pc = "lookup" => pipe[k].id # output.msg.id
       /\ \A j \in DOMAIN pipe : pipe[j].id = pipe[k].id /\ pipe[k].id # 0 => j = k
  /\ output.pc = "lookup" => output.msg.id \notin todo

\* What a message may say: notices have no ID, and only a list can be malformed
\* or the last page.
Sound(m) ==
  /\ m.form = "changed" => m.id = 0 /\ m.hints = NoHints
  /\ m.form # "changed" => m.form \in {"result", "error", "invalid"} /\ m.id \in Ids
  /\ m.form = "invalid" \/ m.last => m.id \in Ids /\ ask[m.id].kind = "list"
  /\ m.last => m.form = "result"
Relayed ==
  /\ \A k \in DOMAIN pipe : Sound(pipe[k])
  /\ output.pc # "idle" => Sound(output.msg) /\ output.msg.form # "changed"

\* The text can be recalled, and its receipt is in the journal.
Delivered(text) ==
  /\ text \in Texts
  /\ Recallable(text)
  /\ Readable => \E i \in Packed : journal[i].text = text

\* The trial has ended, so that nothing is in its scope any more.
Lapsed == stopped \/ now >= begun + Duration

\* The other goroutine: each label knows what the ones before it have found.
OutputWork ==
  /\ output.pc = "list" => ask[output.msg.id].kind = "list"
  /\ output.pc \in {"transform", "create", "write", "receipt"} =>
       /\ ask[output.msg.id].kind = "call"
       /\ ask[output.msg.id].about \in Allow => output.msg.live \/ Lapsed
  /\ output.pc \in {"create", "write", "receipt"} => output.msg.body \in Texts
  /\ output.pc \in {"create", "write", "receipt"} => output.msg.live
  /\ output.pc = "write" => archive[output.msg.body] = "part"
  /\ output.pc = "receipt" => archive[output.msg.body] = "whole"
  /\ output.pc = "send" /\ output.form = "packed" =>
       output.msg.live /\ Delivered(output.msg.body)
  /\ output.pc = "send" /\ output.msg.last => output.form = "listed"
  /\ output.pc # "send" => output.form = "none"

\* m is the result of a call of the tool t of the allowlist.
Calls(m, t) ==
  /\ t \in Allow /\ m.form = "result" /\ m.id \in Ids
  /\ ask[m.id].kind = "call" /\ ask[m.id].about = t

\* The proxy takes t for read-only, by what it has read (0) or by message i.
Claimed(t, i) ==
  IF i = 0
  THEN readOnly[t] \/ (/\ output.pc \in {"lookup", "list"}
                       /\ t \in DOMAIN output.msg.hints /\ output.msg.hints[t])
  ELSE t \in DOMAIN pipe[i].hints /\ pipe[i].hints[t]

\* No message between i and k says that the tools have changed.
Undisturbed(i, k) == \A j \in (i + 1) .. k : pipe[j].form # "changed"

\* A hint is followed by the notice of its withdrawal before any result that
\* was sent without it.
HintsFollowed ==
  /\ \A t \in Tools, i \in 0 .. Len(pipe) : Claimed(t, i) =>
       /\ Undisturbed(i, Len(pipe)) => hint[t]
       /\ \A k \in (i + 1) .. Len(pipe) :
            Undisturbed(i, k) /\ Calls(pipe[k], t) => pipe[k].live \/ Lapsed
  /\ \A t \in Tools :
       output.pc = "lookup" /\ Calls(output.msg, t) /\ readOnly[t]
         => output.msg.live \/ Lapsed

\* What the client got.
Answering ==
  \A id \in Ids :
    /\ answer[id].form = "packed" => answer[id].live /\ Delivered(answer[id].body)
    /\ answer[id].last => ask[id].kind = "list"

\* Receipts carry a time that has been, and a baseline that was given too late
\* is dated after one.
Dated ==
  /\ \A i \in DOMAIN journal : journal[i].time <= now
  /\ \A r \in ratings : ~r.unseen /\ Readable =>
       \E i \in Packed : journal[i].time <= r.time

FlowInv == TypeOK /\ DownClean /\ InputWork /\ InFlight /\ Relayed /\ OutputWork
ScopeInv == TrialKept /\ HintsFollowed
IInv == FlowInv /\ ScopeInv /\ Answering /\ Dated /\ ListAdvertises
-----------------------------------------------------------------------------
(* Type correctness.                                                         *)

Archived(text) == text \in Texts /\ archive[text] = "whole"

\* A goroutine that goes on to another label, or with another result, has a state still.
LEMMA GoroutineTypes ==
  /\ \A x \in Inputs :
       /\ \A label \in {"idle", "record", "forward", "recall", "send", "closed"} :
            [x EXCEPT !.pc = label] \in Inputs
       /\ \A form \in {"none", "recalled", "refused"} :
            [x EXCEPT !.pc = "send", !.form = form] \in Inputs
  /\ \A x \in Outputs :
       /\ \A label \in {"idle", "lookup", "list", "transform", "create", "write", "receipt", "send"} :
            [x EXCEPT !.pc = label] \in Outputs
       /\ \A form \in {"none", "raw", "packed", "listed"} :
            [x EXCEPT !.pc = "send", !.form = form] \in Outputs
<1>1. ASSUME NEW x \in Inputs
      PROVE  /\ \A label \in {"idle", "record", "forward", "recall", "send", "closed"} :
                  [x EXCEPT !.pc = label] \in Inputs
             /\ \A form \in {"none", "recalled", "refused"} :
                  [x EXCEPT !.pc = "send", !.form = form] \in Inputs
  BY DEF Inputs
<1>2. ASSUME NEW x \in Outputs
      PROVE  /\ \A label \in {"idle", "lookup", "list", "transform", "create", "write",
                              "receipt", "send"} :
                  [x EXCEPT !.pc = label] \in Outputs
             /\ \A form \in {"none", "raw", "packed", "listed"} :
                  [x EXCEPT !.pc = "send", !.form = form] \in Outputs
  BY DEF Outputs
<1>3. QED
  BY <1>1, <1>2

\* The values the proxy starts from, and returns to, have their types.
LEMMA InitialValues ==
  /\ NoMsg \in Messages /\ NoAnswer \in Answers /\ Torn \in Lines
  /\ InIdle \in [pc : {"idle"}, id : Ids \cup {0}, form : {"none"}]
  /\ OutIdle \in [pc : {"idle"}, msg : Messages, form : {"none"}]
<1>1. NoHints \in [{} -> BOOLEAN]
  BY DEF NoHints
<1>2. NoMsg \in Messages
  BY <1>1 DEF NoMsg, Messages
<1>3. Torn \in Lines
  BY ConstantsAssumption DEF Torn, Lines
<1>4. QED
  BY <1>2, <1>3 DEF NoAnswer, Answers, InIdle, OutIdle

\* The journal keeps its lines; a line that is added is the one given, unless
\* the last one was torn.
LEMMA AppendedLine ==
  ASSUME journal \in Seq(Lines), NEW line \in Lines, journal' = Appended(line)
  PROVE  /\ journal' \in Seq(Lines)
         /\ \A i \in DOMAIN journal : i \in DOMAIN journal' /\ journal'[i] = journal[i]
         /\ \A i \in DOMAIN journal' \ DOMAIN journal : journal'[i] = line
         /\ Readable' => /\ line # Torn
                         /\ \E i \in DOMAIN journal' : journal'[i] = line
<1>1. CASE journal # <<>> /\ Last(journal) = Torn
  <2>1. journal' = journal /\ Len(journal) \in DOMAIN journal /\ journal[Len(journal)] = Torn
    BY <1>1 DEF Appended, Last
  <2>2. QED
    BY <2>1 DEF Readable
<1>2. CASE ~(journal # <<>> /\ Last(journal) = Torn)
  <2>1. journal' = Append(journal, line)
    BY <1>2 DEF Appended
  <2>2. /\ journal' \in Seq(Lines) /\ Len(journal') = Len(journal) + 1
        /\ \A i \in 1 .. Len(journal) : journal'[i] = journal[i]
        /\ journal'[Len(journal) + 1] = line
    BY <2>1
  <2>3. DOMAIN journal = 1 .. Len(journal) /\ DOMAIN journal' = 1 .. (Len(journal) + 1)
        /\ Len(journal) \in Nat
    BY <2>2
  <2>4. QED
    BY <2>2, <2>3 DEF Readable
<1>3. QED
  BY <1>1, <1>2

LEMMA InitTypeOK == ASSUME Init PROVE TypeOK
<1> USE ConstantsAssumption
<1>1. /\ now \in 0 .. MaxTime /\ begun \in 0 .. MaxTime
      /\ trial \in TrialFiles
      /\ stopped \in BOOLEAN /\ lock \in BOOLEAN /\ rater \in BOOLEAN /\ upstream \in BOOLEAN
  <2>1. trial \in TrialFiles
    <3>1. \A n \in {0, Duration} : n \in 0 .. MaxTime + Duration
      OBVIOUS
    <3>2. \/ trial = [status |-> "absent", expires |-> 0]
          \/ trial = [status |-> "whole", expires |-> Duration]
      BY DEF Init, NewDirectory, UsedDirectory
    <3>3. QED
      BY <3>1, <3>2 DEF TrialFiles
  <2>2. lock \in BOOLEAN
    BY DEF Init, NewDirectory, UsedDirectory
  <2>3. stopped \in BOOLEAN /\ rater \in BOOLEAN /\ upstream \in BOOLEAN
    BY DEF Init
  <2>4. now \in 0 .. MaxTime /\ begun \in 0 .. MaxTime
    BY DEF Init
  <2>5. QED
    BY <2>1, <2>2, <2>3, <2>4
<1>2. /\ archive \in [Texts -> {"absent", "part", "whole"}] /\ journal \in Seq(Lines)
      /\ \A i \in DOMAIN journal : journal[i] # Torn => Archived(journal[i].text)
  <2>1. CASE NewDirectory
    BY <2>1 DEF NewDirectory, NoArchive
  <2>2. CASE UsedDirectory
    <3>1. PICK text \in Texts :
            \/ archive = [NoArchive EXCEPT ![text] = "part"] /\ journal = <<>>
            \/ /\ archive = [NoArchive EXCEPT ![text] = "whole"]
               /\ journal \in {<<>>, <<Torn>>, <<Event("packed", text)>>}
      BY <2>2 DEF UsedDirectory
    <3>2. Event("packed", text) \in Lines /\ Event("packed", text).text = text
      BY <1>1 DEF Event, Lines
    <3>3. archive \in [Texts -> {"absent", "part", "whole"}]
      BY <3>1 DEF NoArchive
    <3>4. CASE journal = <<>>
      BY <3>3, <3>4
    <3>5. CASE journal = <<Torn>>
      BY <3>3, <3>5, InitialValues
    <3>6. CASE journal = <<Event("packed", text)>> /\ archive = [NoArchive EXCEPT ![text] = "whole"]
      <4>1. DOMAIN journal = {1} /\ journal[1] = Event("packed", text)
        BY <3>6
      <4>2. Archived(text)
        BY <3>6 DEF NoArchive, Archived
      <4>3. QED
        BY <3>2, <3>3, <3>6, <4>1, <4>2
    <3>7. QED
      BY <3>1, <3>4, <3>5, <3>6
  <2>3. QED
    BY <2>1, <2>2 DEF Init
<1>3. /\ \A r \in ratings : r.time \in 0 .. MaxTime /\ r.unseen \in BOOLEAN
      /\ proxy \in {"down", "opening", "ready", "up"}
      /\ requests \subseteq Ids /\ todo \subseteq Ids
      /\ readOnly \in [Tools -> BOOLEAN] /\ hint \in [Tools -> BOOLEAN]
      /\ input \in Inputs /\ output \in Outputs
  BY InitialValues DEF Init, InIdle, OutIdle, Inputs, Outputs
<1>4. /\ pipe \in Seq(Messages)
      /\ ask \in [Ids -> Asks \cup {NoAsk}] /\ answer \in [Ids -> Answers]
      /\ changes \in 0 .. MaxChanges /\ crashes \in 0 .. MaxCrashes /\ faults \in 0 .. MaxFaults
  BY InitialValues DEF Init
<1>5. QED
  BY <1>1, <1>2, <1>3, <1>4 DEF TypeOK, Archived

\* The start and the end of the proxy.
LEMMA ProxyTypeOK ==
  ASSUME TypeOK, Open \/ OpenWrite \/ Launch \/ Return
  PROVE  TypeOK'
<1> USE DEF TypeOK, maps, threads, server, client, bounds, disk
<1>1. CASE Open
  <2>1. trial' \in TrialFiles /\ begun' \in 0 .. MaxTime /\ proxy' \in {"opening", "ready"}
    BY <1>1, ConstantsAssumption DEF Open, CreateTrial, TrialFiles
  <2>2. QED
    BY <1>1, <2>1 DEF Open
<1>2. CASE OpenWrite
  <2>1. trial' \in TrialFiles
    BY <1>2 DEF OpenWrite, TrialFiles
  <2>2. QED
    BY <1>2, <2>1 DEF OpenWrite
<1>3. CASE Launch
  <2>1. proxy' \in {"down", "up"} /\ lock' \in BOOLEAN /\ upstream' \in BOOLEAN
    BY <1>3 DEF Launch
  <2>2. QED
    BY <1>3, <2>1 DEF Launch
<1>4. CASE Return
  <2>1. /\ readOnly' \in [Tools -> BOOLEAN] /\ input' \in Inputs /\ output' \in Outputs
        /\ pipe' \in Seq(Messages) /\ proxy' \in {"down", "opening", "ready", "up"}
    BY <1>4, InitialValues DEF Return, Gone, InIdle, OutIdle, Inputs, Outputs
  <2>2. lock' \in BOOLEAN /\ upstream' \in BOOLEAN
    BY <1>4 DEF Return, Gone
  <2>3. QED
    BY <1>4, <2>1, <2>2 DEF Return, Gone
<1>5. QED
  BY <1>1, <1>2, <1>3, <1>4

LEMMA InputTypeOK ==
  ASSUME TypeOK, InputWork,
         \/ \E id \in Ids, request \in Asks : InputRead(id, request)
         \/ InputStep \/ InputEnd
  PROVE  TypeOK'
<1> USE DEF TypeOK, InputAt, InputGoto, InputOnly, maps, threads, server, client, bounds, disk
<1>0. input \in Inputs /\ InIdle \in Inputs
  BY DEF Inputs, InIdle
<1>1. CASE \E id \in Ids, request \in Asks : InputRead(id, request)
  <2>1. PICK id \in Ids, request \in Asks : InputRead(id, request)
    BY <1>1
  <2>2. input' \in Inputs
    BY <2>1 DEF InputRead, Asks, Inputs
  <2>3. ask' \in [Ids -> Asks \cup {NoAsk}]
    BY <2>1 DEF InputRead
  <2>4. QED
    BY <2>1, <2>2, <2>3 DEF InputRead
<1>2. CASE InputRecord
  <2>1. input' \in Inputs /\ requests' \subseteq Ids
    BY <1>0, <1>2, GoroutineTypes DEF InputRecord, InputWork
  <2>2. QED
    BY <1>2, <2>1 DEF InputRecord
<1>3. CASE InputForward
  <2>1. input' \in Inputs /\ todo' \subseteq Ids
    BY <1>0, <1>3, GoroutineTypes DEF InputForward, InputWork
  <2>2. QED
    BY <1>3, <2>1 DEF InputForward
<1>4. CASE InputRecall
  <2> DEFINE text == ask[input.id].about
             line == Event("recalled", text)
  <2>1. text \in Texts
    BY <1>4 DEF InputRecall, InputWork, Asks, NoAsk
  <2>2. line \in Lines /\ line.text = text
    BY <2>1 DEF Event, Lines
  <2>3. input' \in Inputs
    BY <1>0, <1>4, GoroutineTypes DEF InputRecall
  <2>4. /\ journal' \in Seq(Lines)
        /\ \A i \in DOMAIN journal' : journal'[i] # Torn => Archived(journal'[i].text)
    <3>1. CASE Recallable(text)
      <4>1. journal' = Appended(line) /\ Archived(line.text)
        BY <1>4, <2>1, <2>2, <3>1 DEF InputRecall, Recallable, Archived
      <4>2. QED
        BY <2>2, <4>1, AppendedLine DEF Archived
    <3>2. CASE ~Recallable(text)
      BY <1>4, <3>2 DEF InputRecall, Archived
    <3>3. QED
      BY <3>1, <3>2
  <2>5. QED
    BY <1>4, <2>3, <2>4 DEF InputRecall, Archived
<1>5. CASE InputSend
  <2>1. input.form = "recalled" => ask[input.id].about \in Texts
    BY <1>5, SMTT(30) DEF InputSend, InputWork, Asks, NoAsk
  <2>2. answer' \in [Ids -> Answers]
    <3>1. [NoAnswer EXCEPT !.form = input.form,
             !.body = IF input.form = "recalled" THEN ask[input.id].about ELSE Plain]
            \in Answers
      BY <1>0, <2>1 DEF NoAnswer, Answers, Inputs
    <3>2. QED
      BY <1>5, <3>1 DEF InputSend
  <2>3. QED
    BY <1>0, <1>5, <2>2 DEF InputSend
<1>6. CASE InputEnd
  <2>1. input' \in Inputs /\ upstream' \in BOOLEAN
    BY <1>0, <1>6, GoroutineTypes DEF InputEnd
  <2>2. QED
    BY <1>6, <2>1 DEF InputEnd
<1>7. QED
  BY <1>1, <1>2, <1>3, <1>4, <1>5, <1>6 DEF InputStep

\* A server answers with a message: an error, the hints of the tools it lists, or
\* a result.
LEMMA ResponseTypes ==
  ASSUME TypeOK, NEW id \in Ids, ServerAnswers(id)
  PROVE  \E msg \in Messages :
           /\ Sends(msg) /\ msg.id = id
           /\ msg.form \in {"error", "invalid", "result"}
           /\ msg.form = "invalid" \/ msg.last => ask[id].kind = "list"
           /\ msg.last => msg.form = "result"
           /\ \A t \in DOMAIN msg.hints : t \in Tools /\ msg.hints[t] = hint[t]
           /\ ask[id].kind = "call" /\ msg.form = "result" =>
                (msg.live <=> /\ hint[ask[id].about] /\ ask[id].about \in Allow
                              /\ ~stopped /\ now < begun + Duration)
<1> USE DEF TypeOK
<1>0. /\ NoMsg \in Messages /\ NoMsg.last = FALSE /\ NoMsg.hints = NoHints
      /\ DOMAIN NoHints = {}
  BY InitialValues DEF NoMsg, NoHints
<1>1. CASE RespondError(id)
  <2> DEFINE msg == [NoMsg EXCEPT !.id = id, !.form = "error"]
  <2>1. /\ msg \in Messages /\ msg.id = id /\ msg.form = "error"
        /\ msg.last = FALSE /\ msg.hints = NoHints
    BY <1>0 DEF Messages
  <2>2. Sends(msg)
    BY <1>1 DEF RespondError
  <2> HIDE DEF msg
  <2>3. QED
    BY <1>0, <2>1, <2>2
<1>2. CASE RespondList(id)
  <2>1. ask[id].kind = "list"
    BY <1>2 DEF RespondList
  <2>2. CASE Sends([NoMsg EXCEPT !.id = id, !.form = "invalid"])
    <3> DEFINE msg == [NoMsg EXCEPT !.id = id, !.form = "invalid"]
    <3>1. /\ msg \in Messages /\ msg.id = id /\ msg.form = "invalid"
          /\ msg.last = FALSE /\ msg.hints = NoHints
      BY <1>0 DEF Messages
    <3>2. Sends(msg)
      BY <2>2
    <3> HIDE DEF msg
    <3>3. QED
      BY <1>0, <2>1, <3>1, <3>2
  <2>3. CASE \E page \in SUBSET Tools, last \in BOOLEAN :
               Sends([NoMsg EXCEPT !.id = id, !.form = "result",
                                   !.hints = [t \in page |-> hint[t]], !.last = last])
    <3>1. PICK page \in SUBSET Tools, last \in BOOLEAN :
            Sends([NoMsg EXCEPT !.id = id, !.form = "result",
                                !.hints = [t \in page |-> hint[t]], !.last = last])
      BY <2>3
    <3> DEFINE hints == [t \in page |-> hint[t]]
               msg == [NoMsg EXCEPT !.id = id, !.form = "result", !.hints = hints, !.last = last]
    <3>2. hints \in [page -> BOOLEAN]
      OBVIOUS
    <3>3. /\ hints \in UNION {[S -> BOOLEAN] : S \in SUBSET Tools}
          /\ \A t \in DOMAIN hints : t \in Tools /\ hints[t] = hint[t]
      BY <3>2
    <3>4. Sends(msg)
      BY <3>1
    <3> HIDE DEF hints
    <3>5. msg \in Messages /\ msg.id = id /\ msg.form = "result" /\ msg.hints = hints
      BY <1>0, <3>3 DEF Messages
    <3> HIDE DEF msg
    <3>6. QED
      BY <2>1, <3>3, <3>4, <3>5
  <2>4. QED
    BY <1>2, <2>2, <2>3 DEF RespondList
<1>3. CASE RespondCall(id)
  <2> DEFINE live == /\ hint[ask[id].about] /\ ask[id].about \in Allow
                     /\ ~stopped /\ now < begun + Duration
  <2>1. PICK body \in Texts \cup {Plain} :
          Sends([NoMsg EXCEPT !.id = id, !.form = "result", !.body = body, !.live = live])
    BY <1>3 DEF RespondCall
  <2>2. live \in BOOLEAN
    OBVIOUS
  <2> HIDE DEF live
  <2> DEFINE msg == [NoMsg EXCEPT !.id = id, !.form = "result", !.body = body, !.live = live]
  <2>3. /\ msg \in Messages /\ msg.id = id /\ msg.form = "result"
        /\ msg.last = FALSE /\ msg.hints = NoHints /\ msg.live = live
    BY <1>0, <2>2 DEF Messages
  <2>4. Sends(msg)
    BY <2>1
  <2> HIDE DEF msg
  <2>5. msg.live <=> /\ hint[ask[id].about] /\ ask[id].about \in Allow
                     /\ ~stopped /\ now < begun + Duration
    BY <2>3 DEF live
  <2>6. QED
    BY <1>0, <2>3, <2>4, <2>5
<1>4. CASE RespondOther(id)
  <2> DEFINE msg == [NoMsg EXCEPT !.id = id, !.form = "result"]
  <2>1. /\ msg \in Messages /\ msg.id = id /\ msg.form = "result"
        /\ msg.last = FALSE /\ msg.hints = NoHints
    BY <1>0 DEF Messages
  <2>2. Sends(msg) /\ ask[id].kind # "call"
    BY <1>4 DEF RespondOther
  <2> HIDE DEF msg
  <2>3. QED
    BY <1>0, <2>1, <2>2
<1>5. QED
  BY <1>1, <1>2, <1>3, <1>4 DEF ServerAnswers

LEMMA ServerTypeOK ==
  ASSUME TypeOK,
         \/ \E id \in Ids : ServerAnswers(id)
         \/ \E tool \in Tools : ServerChanges(tool)
         \/ ServerStops
  PROVE  TypeOK'
<1> USE DEF TypeOK, maps, threads, server, client, bounds, disk
<1>1. ASSUME NEW id \in Ids, ServerAnswers(id) PROVE TypeOK'
  <2>1. PICK msg \in Messages : pipe' = Append(pipe, msg)
    BY <1>1, ResponseTypes DEF Sends
  <2>2. pipe' \in Seq(Messages)
    BY <2>1
  <2>3. todo' \subseteq Ids
    BY <1>1 DEF ServerAnswers
  <2>4. QED
    BY <1>1, <2>2, <2>3 DEF ServerAnswers
<1>2. ASSUME NEW tool \in Tools, ServerChanges(tool) PROVE TypeOK'
  <2>1. [NoMsg EXCEPT !.form = "changed"] \in Messages
    BY InitialValues DEF Messages
  <2>2. pipe' \in Seq(Messages)
    BY <1>2, <2>1 DEF ServerChanges, Sends
  <2>3. hint' \in [Tools -> BOOLEAN]
    BY <1>2 DEF ServerChanges
  <2>4. changes' \in 0 .. MaxChanges
    BY <1>2, ConstantsAssumption, SMTT(30) DEF ServerChanges
  <2>5. QED
    BY <1>2, <2>2, <2>3, <2>4 DEF ServerChanges
<1>3. CASE ServerStops
  <2>1. upstream' \in BOOLEAN
    BY <1>3 DEF ServerStops
  <2>2. QED
    BY <1>3, <2>1 DEF ServerStops
<1>4. QED
  BY <1>1, <1>2, <1>3

LEMMA OutputTypeOK ==
  ASSUME TypeOK, Relayed, OutputWork, OutputStep
  PROVE  TypeOK'
<1> USE DEF TypeOK, OutputAt, OutputGoto, OutputAs, OutputOnly, maps, threads, server, client,
            bounds, disk
<1>0. output \in Outputs /\ OutIdle \in Outputs
  BY InitialValues DEF Outputs
<1>1. CASE OutputRead
  <2>1. pipe' \in Seq(Messages) /\ Head(pipe) \in Messages
    BY <1>1 DEF OutputRead
  <2>2. output' \in Outputs
    BY <1>0, <1>1, <2>1 DEF OutputRead, Outputs
  <2>3. readOnly' \in [Tools -> BOOLEAN]
    BY <1>1 DEF OutputRead, HintsForgotten
  <2>4. QED
    BY <1>1, <2>1, <2>2, <2>3 DEF OutputRead
<1>2. CASE OutputLookup
  <2>1. output' \in Outputs /\ requests' \subseteq Ids
    BY <1>0, <1>2, GoroutineTypes DEF OutputLookup
  <2>2. QED
    BY <1>2, <2>1 DEF OutputLookup
<1>3. CASE OutputList
  <2>1. output' \in Outputs
    BY <1>0, <1>3, GoroutineTypes DEF OutputList
  <2>2. readOnly' \in [Tools -> BOOLEAN]
    <3>1. output.msg \in Messages
      BY <1>0 DEF Outputs
    <3>2. output.msg.hints \in UNION {[S -> BOOLEAN] : S \in SUBSET Tools}
      BY <3>1 DEF Messages
    <3>3. \A t \in DOMAIN output.msg.hints : output.msg.hints[t] \in BOOLEAN
      BY <3>2
    <3>4. QED
      BY <1>3, <3>3 DEF OutputList
  <2>3. QED
    BY <1>3, <2>1, <2>2 DEF OutputList
<1>4. CASE OutputAbort
  BY <1>4, ProxyTypeOK DEF OutputAbort
<1>5. CASE OutputTransform
  <2>1. output' \in Outputs
    BY <1>0, <1>5, GoroutineTypes DEF OutputTransform
  <2>2. QED
    BY <1>5, <2>1 DEF OutputTransform
<1>6. CASE OutputCreate
  <2>1. output' \in Outputs
    BY <1>0, <1>6, GoroutineTypes DEF OutputCreate
  <2>2. /\ archive' \in [Texts -> {"absent", "part", "whole"}]
        /\ \A text \in Texts : archive[text] = "whole" => archive'[text] = "whole"
    BY <1>6 DEF OutputCreate
  <2>3. QED
    BY <1>6, <2>1, <2>2 DEF OutputCreate
<1>7. CASE OutputWrite
  <2>1. output' \in Outputs
    BY <1>0, <1>7, GoroutineTypes DEF OutputWrite
  <2>2. archive' \in [Texts -> {"absent", "part", "whole"}]
    BY <1>7 DEF OutputWrite
  <2>3. \A text \in Texts : archive[text] = "whole" => archive'[text] = "whole"
    BY <1>7 DEF OutputWrite
  <2>4. QED
    BY <1>7, <2>1, <2>2, <2>3 DEF OutputWrite
<1>8. CASE OutputReceipt
  <2> DEFINE line == Event("packed", output.msg.body)
  <2>1. output' \in Outputs
    BY <1>0, <1>8, GoroutineTypes DEF OutputReceipt
  <2>2. line \in Lines /\ line.text = output.msg.body /\ Archived(line.text)
    BY <1>8 DEF OutputReceipt, OutputWork, Event, Lines, Archived
  <2>3. journal' = Appended(line)
    BY <1>8 DEF OutputReceipt
  <2>4. /\ journal' \in Seq(Lines)
        /\ \A i \in DOMAIN journal' : journal'[i] # Torn => Archived(journal'[i].text)
    BY <2>2, <2>3, AppendedLine DEF Archived
  <2>5. QED
    BY <1>8, <2>1, <2>4 DEF OutputReceipt, Archived
<1>9. CASE OutputSend
  <2>1. [form |-> output.form, body |-> output.msg.body,
         last |-> output.msg.last, live |-> output.msg.live] \in Answers
    <3>1. output.msg \in Messages /\ output.form \in {"none", "raw", "packed", "listed"}
      BY <1>0 DEF Outputs
    <3>2. QED
      BY <3>1 DEF Messages, Answers
  <2>2. answer' \in [Ids -> Answers]
    BY <1>9, <2>1 DEF OutputSend
  <2>3. QED
    BY <1>0, <1>9, <2>2 DEF OutputSend
<1>10. CASE OutputEnd
  BY <1>10, ProxyTypeOK DEF OutputEnd
<1>11. QED
  BY <1>1, <1>2, <1>3, <1>4, <1>5, <1>6, <1>7, <1>8, <1>9, <1>10 DEF OutputStep

\* A line of which a part may be written leaves a journal.
LEMMA WrittenTypes ==
  ASSUME TypeOK, NEW line \in Lines, Archived(line.text), MaybeWritten(line)
  PROVE  /\ journal' \in Seq(Lines)
         /\ \A i \in DOMAIN journal' : journal'[i] # Torn => Archived(journal'[i].text)
<1> USE DEF TypeOK
<1>0. /\ journal \in Seq(Lines)
      /\ \A i \in DOMAIN journal : journal[i] # Torn => Archived(journal[i].text)
  BY DEF Archived
<1> HIDE DEF TypeOK
<1>1. CASE journal' = journal
  BY <1>0, <1>1
<1>2. CASE journal' = Appended(Torn)
  BY <1>0, <1>2, AppendedLine, InitialValues
<1>3. CASE journal' = Appended(line)
  BY <1>0, <1>3, AppendedLine
<1>4. QED
  BY <1>1, <1>2, <1>3 DEF MaybeWritten

\* So does a stop or a failure while a receipt is written.
LEMMA InterruptedTypes ==
  ASSUME TypeOK, InputWork, OutputWork,
         \/ UNCHANGED journal
         \/ OutputAt("receipt") /\ MaybeWritten(Event("packed", output.msg.body))
         \/ /\ InputAt("recall") /\ Recallable(ask[input.id].about)
            /\ MaybeWritten(Event("recalled", ask[input.id].about))
  PROVE  /\ journal' \in Seq(Lines)
         /\ \A i \in DOMAIN journal' : journal'[i] # Torn => Archived(journal'[i].text)
<1>1. CASE UNCHANGED journal
  BY <1>1 DEF TypeOK, Archived
<1>2. CASE OutputAt("receipt") /\ MaybeWritten(Event("packed", output.msg.body))
  <2> DEFINE line == Event("packed", output.msg.body)
  <2>1. line \in Lines /\ Archived(line.text)
    BY <1>2 DEF TypeOK, OutputAt, OutputWork, Event, Lines, Archived
  <2>2. MaybeWritten(line)
    BY <1>2
  <2>3. QED
    BY <2>1, <2>2, WrittenTypes
<1>3. CASE /\ InputAt("recall") /\ Recallable(ask[input.id].about)
           /\ MaybeWritten(Event("recalled", ask[input.id].about))
  <2> DEFINE line == Event("recalled", ask[input.id].about)
  <2>1. ask[input.id].about \in Texts
    BY <1>3 DEF TypeOK, InputAt, InputWork, Asks, NoAsk
  <2>2. line \in Lines /\ Archived(line.text)
    BY <1>3, <2>1 DEF TypeOK, Event, Lines, Recallable, Archived
  <2>3. MaybeWritten(line)
    BY <1>3
  <2>4. QED
    BY <2>2, <2>3, WrittenTypes
<1>4. QED
  BY <1>1, <1>2, <1>3

LEMMA StopTypeOK ==
  ASSUME TypeOK, InputWork, OutputWork, Crash \/ Fault
  PROVE  TypeOK'
<1> USE DEF TypeOK, maps, threads, server, client, bounds, disk
<1>0. input \in Inputs /\ output \in Outputs
  OBVIOUS
<1>1. CASE Crash
  <2>1. /\ readOnly' \in [Tools -> BOOLEAN] /\ input' \in Inputs /\ output' \in Outputs
        /\ pipe' \in Seq(Messages) /\ proxy' \in {"down", "opening", "ready", "up"}
    BY <1>1, InitialValues DEF Crash, Gone, InIdle, OutIdle, Inputs, Outputs
  <2>2. upstream' \in BOOLEAN
    BY <1>1 DEF Crash, Gone
  <2>3. crashes' \in 0 .. MaxCrashes
    BY <1>1, ConstantsAssumption, SMTT(30) DEF Crash
  <2>4. \/ UNCHANGED journal
        \/ OutputAt("receipt") /\ MaybeWritten(Event("packed", output.msg.body))
        \/ /\ InputAt("recall") /\ Recallable(ask[input.id].about)
           /\ MaybeWritten(Event("recalled", ask[input.id].about))
    BY <1>1 DEF Crash
  <2>5. /\ journal' \in Seq(Lines)
        /\ \A i \in DOMAIN journal' : journal'[i] # Torn => Archived(journal'[i].text)
    BY <2>4, InterruptedTypes
  <2>6. QED
    BY <1>1, <2>1, <2>2, <2>3, <2>5 DEF Crash, Gone, Archived
<1>2. CASE Fault
  <2>1. faults' \in 0 .. MaxFaults
    BY <1>2, ConstantsAssumption, SMTT(30) DEF Fault
  <2>2. output' \in Outputs
    BY <1>0, <1>2, GoroutineTypes DEF Fault, OutputAs
  <2>3. input' \in Inputs
    BY <1>0, <1>2, GoroutineTypes DEF Fault
  <2>4. \/ UNCHANGED journal
        \/ OutputAt("receipt") /\ MaybeWritten(Event("packed", output.msg.body))
        \/ /\ InputAt("recall") /\ Recallable(ask[input.id].about)
           /\ MaybeWritten(Event("recalled", ask[input.id].about))
    BY <1>2 DEF Fault
  <2>5. /\ journal' \in Seq(Lines)
        /\ \A i \in DOMAIN journal' : journal'[i] # Torn => Archived(journal'[i].text)
    BY <2>4, InterruptedTypes
  <2>6. QED
    BY <1>2, <2>1, <2>2, <2>3, <2>5 DEF Fault, Archived
<1>3. QED
  BY <1>1, <1>2

LEMMA OtherTypeOK ==
  ASSUME TypeOK, Stop \/ RateRead \/ RateWrite \/ RemoveStaleLock \/ Tick
  PROVE  TypeOK'
<1> USE DEF TypeOK, maps, threads, server, client, bounds, disk
<1>1. CASE Stop
  <2>1. stopped' \in BOOLEAN
    BY <1>1 DEF Stop
  <2>2. QED
    BY <1>1, <2>1 DEF Stop
<1>2. CASE RateRead
  <2>1. rater' \in BOOLEAN
    BY <1>2 DEF RateRead
  <2>2. QED
    BY <1>2, <2>1 DEF RateRead
<1>3. CASE RateWrite
  <2>1. rater' \in BOOLEAN
    BY <1>3 DEF RateWrite
  <2> DEFINE unseen == \A id \in Ids : answer[id].form # "packed"
  <2>2. \A r \in ratings' : r.time \in 0 .. MaxTime /\ r.unseen \in BOOLEAN
    <3>1. unseen \in BOOLEAN /\ ratings' = ratings \cup {[time |-> now, unseen |-> unseen]}
      BY <1>3 DEF RateWrite
    <3> HIDE DEF unseen
    <3>2. QED
      BY <3>1
  <2>3. QED
    BY <1>3, <2>1, <2>2 DEF RateWrite
<1>4. CASE RemoveStaleLock
  <2>1. lock' \in BOOLEAN
    BY <1>4 DEF RemoveStaleLock
  <2>2. QED
    BY <1>4, <2>1 DEF RemoveStaleLock
<1>5. CASE Tick
  <2>1. now' \in 0 .. MaxTime
    BY <1>5, ConstantsAssumption DEF Tick
  <2>2. QED
    BY <1>5, <2>1 DEF Tick
<1>6. QED
  BY <1>1, <1>2, <1>3, <1>4, <1>5

LEMMA NextTypeOK ==
  ASSUME TypeOK, InputWork, Relayed, OutputWork, [Next]_vars
  PROVE  TypeOK'
<1>1. CASE Next
  BY <1>1, ProxyTypeOK, InputTypeOK, ServerTypeOK, OutputTypeOK, StopTypeOK, OtherTypeOK DEF Next
<1>2. CASE UNCHANGED vars
  BY <1>2 DEF TypeOK, vars, disk, maps, threads, server, client, bounds, Recallable
<1>3. QED
  BY <1>1, <1>2

-----------------------------------------------------------------------------
(* What the steps have in common.                                            *)

\* Nothing moves between the client and the server.
Quiet == UNCHANGED <<maps, threads, server, client>> /\ (Up' <=> Up)

\* A failure while a result is shortened, or while a recall is served.
OutputFault ==
  /\ Up /\ output.pc \in {"write", "receipt"} /\ OutputAs("raw")
  /\ UNCHANGED <<proxy, archive, maps, input, server, client>>
InputFault ==
  /\ InputAt("recall") /\ input' = [input EXCEPT !.pc = "send", !.form = "refused"]
  /\ UNCHANGED <<proxy, archive, maps, output, server, client>>

\* The steps by what they do to the goroutines and the server.
InputMoves ==
  \/ \E id \in Ids, request \in Asks : InputRead(id, request)
  \/ InputRecord \/ InputForward \/ InputRecall \/ InputSend \/ InputEnd \/ InputFault
ServerMoves ==
  \/ \E id \in Ids : ServerAnswers(id)
  \/ \E tool \in Tools : ServerChanges(tool)
  \/ ServerStops
OutputMoves ==
  \/ OutputRead \/ OutputLookup \/ OutputList \/ OutputTransform \/ OutputCreate
  \/ OutputWrite \/ OutputReceipt \/ OutputSend \/ OutputFault

LEMMA StepKinds ==
  ASSUME [Next]_vars
  PROVE  Quiet \/ Launch \/ Gone \/ InputMoves \/ ServerMoves \/ OutputMoves
<1> USE DEF maps, threads, server, client, bounds, disk
<1>1. CASE Open \/ OpenWrite
  BY <1>1 DEF Open, OpenWrite, CreateTrial, Quiet, Up
<1>2. CASE Stop \/ RateRead \/ RateWrite \/ RemoveStaleLock \/ Tick
  BY <1>2 DEF Stop, RateRead, RateWrite, RemoveStaleLock, Tick, Quiet, Up
<1>3. CASE UNCHANGED vars
  BY <1>3 DEF vars, Quiet, Up
<1>4. CASE Crash \/ OutputAbort \/ OutputEnd
  BY <1>4 DEF Crash, OutputAbort, OutputEnd, Return
<1>5. CASE Fault
  BY <1>5 DEF Fault, InputFault, OutputFault, InputMoves, OutputMoves, OutputAt
<1>6. QED
  BY <1>1, <1>2, <1>3, <1>4, <1>5
     DEF Next, InputStep, OutputStep, InputMoves, ServerMoves, OutputMoves

\* The journal stays as it is, or gets a line with the time of the clock.
LEMMA JournalSteps ==
  ASSUME TypeOK, InputWork, OutputWork, [Next]_vars
  PROVE  \/ UNCHANGED journal
         \/ \E line \in Lines : journal' = Appended(line) /\ line.time <= now
<1> USE DEF TypeOK, maps, threads, server, client, bounds, disk
<1>0. /\ now \in Nat /\ Torn \in Lines /\ Torn.time = 0
      /\ OutputAt("receipt") => /\ Event("packed", output.msg.body) \in Lines
                                /\ Event("packed", output.msg.body).time = now
      /\ InputAt("recall") => /\ Event("recalled", ask[input.id].about) \in Lines
                              /\ Event("recalled", ask[input.id].about).time = now
  <2>1. now \in Nat /\ Torn \in Lines /\ Torn.time = 0
    BY InitialValues DEF Torn
  <2>2. OutputAt("receipt") => output.msg.body \in Texts
    BY DEF OutputAt, OutputWork
  <2>3. InputAt("recall") => ask[input.id].about \in Texts
    BY DEF InputAt, InputWork, Asks, NoAsk
  <2>4. \A kind \in {"packed", "recalled"}, text \in Texts :
          Event(kind, text) \in Lines /\ Event(kind, text).time = now
    BY DEF Event, Lines
  <2>5. QED
    BY <2>1, <2>2, <2>3, <2>4
<1> HIDE DEF TypeOK
<1>1. CASE InputRecall
  BY <1>0, <1>1 DEF InputRecall
<1>2. CASE OutputReceipt
  BY <1>0, <1>2 DEF OutputReceipt
<1>3. CASE Crash \/ Fault
  <2>1. \/ UNCHANGED journal
        \/ OutputAt("receipt") /\ MaybeWritten(Event("packed", output.msg.body))
        \/ InputAt("recall") /\ MaybeWritten(Event("recalled", ask[input.id].about))
    BY <1>3 DEF Crash, Fault
  <2>2. 0 <= now /\ now <= now
    BY <1>0
  <2>3. QED
    BY <1>0, <2>1, <2>2 DEF MaybeWritten
<1>4. CASE \/ Open \/ OpenWrite \/ Launch \/ Return \/ OutputAbort \/ OutputEnd
           \/ Stop \/ RateRead \/ RateWrite \/ RemoveStaleLock \/ Tick \/ UNCHANGED vars
  BY <1>4 DEF Open, OpenWrite, Launch, Return, OutputAbort, OutputEnd, Stop, RateRead,
     RateWrite, RemoveStaleLock, Tick, vars
<1>5. CASE \/ \E id \in Ids, request \in Asks : InputRead(id, request)
           \/ InputRecord \/ InputForward \/ InputSend \/ InputEnd
  BY <1>5 DEF InputRead, InputRecord, InputForward, InputSend, InputEnd, InputOnly
<1>6. CASE ServerMoves
  BY <1>6 DEF ServerMoves, ServerAnswers, ServerChanges, ServerStops
<1>7. CASE \/ OutputRead \/ OutputLookup \/ OutputList \/ OutputTransform \/ OutputCreate
           \/ OutputWrite \/ OutputSend
  BY <1>7 DEF OutputRead, OutputLookup, OutputList, OutputTransform, OutputCreate, OutputWrite,
     OutputSend
<1>8. QED
  BY <1>1, <1>2, <1>3, <1>4, <1>5, <1>6, <1>7 DEF Next, InputStep, OutputStep, ServerMoves

\* Only the engine writes archives.
LEMMA ArchiveSteps ==
  ASSUME [Next]_vars
  PROVE  UNCHANGED archive \/ OutputCreate \/ OutputWrite
<1> USE DEF maps, threads, server, client, bounds, disk
<1>1. CASE \/ Open \/ OpenWrite \/ Launch \/ Crash \/ OutputAbort \/ OutputEnd \/ Fault
           \/ Stop \/ RateRead \/ RateWrite \/ RemoveStaleLock \/ Tick \/ UNCHANGED vars
  BY <1>1 DEF Open, OpenWrite, Launch, Crash, Return, OutputAbort, OutputEnd, Fault, Stop,
     RateRead, RateWrite, RemoveStaleLock, Tick, vars
<1>2. CASE \/ \E id \in Ids, request \in Asks : InputRead(id, request)
           \/ InputStep \/ InputEnd \/ ServerMoves
  BY <1>2 DEF InputRead, InputStep, InputRecord, InputForward, InputRecall, InputSend,
     InputEnd, InputOnly, ServerMoves, ServerAnswers, ServerChanges, ServerStops
<1>3. CASE \/ OutputRead \/ OutputLookup \/ OutputList \/ OutputTransform
           \/ OutputReceipt \/ OutputSend
  BY <1>3 DEF OutputRead, OutputLookup, OutputList, OutputTransform, OutputReceipt, OutputSend
<1>4. QED
  BY <1>1, <1>2, <1>3 DEF Next, OutputStep, ServerMoves

\* What no step takes back: lines, archives, requests, the time, Stop, and while
\* the proxy is up, the beginning of the trial.
LEMMA StepKeeps ==
  ASSUME TypeOK, InputWork, OutputWork, [Next]_vars
  PROVE  /\ \A i \in DOMAIN journal : i \in DOMAIN journal' /\ journal'[i] = journal[i]
         /\ \A text \in Texts : archive[text] = "whole" => archive'[text] = "whole"
         /\ \A id \in Ids : ask[id] # NoAsk => ask'[id] = ask[id]
         /\ now <= now' /\ (stopped => stopped')
         /\ Up => begun' = begun
<1> USE DEF maps, threads, server, client, bounds, disk
<1>1. \A i \in DOMAIN journal : i \in DOMAIN journal' /\ journal'[i] = journal[i]
  BY JournalSteps, AppendedLine DEF TypeOK
<1>2. \A text \in Texts : archive[text] = "whole" => archive'[text] = "whole"
  <2>1. CASE OutputCreate \/ OutputWrite
    BY <2>1 DEF TypeOK, OutputCreate, OutputWrite
  <2>2. CASE ~(OutputCreate \/ OutputWrite)
    BY <2>2, ArchiveSteps
  <2>3. QED
    BY <2>1, <2>2
<1>3. \A id \in Ids : ask[id] # NoAsk => ask'[id] = ask[id]
  <2>1. CASE \E id \in Ids, request \in Asks : InputRead(id, request)
    BY <2>1 DEF TypeOK, InputRead
  <2>2. CASE UNCHANGED ask
    BY <2>2
  <2>3. ASSUME ~(\E id \in Ids, request \in Asks : InputRead(id, request)) PROVE UNCHANGED ask
    <3>1. CASE Quiet \/ Launch \/ Gone
      BY <3>1 DEF Quiet, Launch, Gone
    <3>2. CASE InputMoves
      BY <2>3, <3>2 DEF InputMoves, InputRecord, InputForward, InputRecall, InputSend, InputEnd,
         InputFault
    <3>3. CASE ServerMoves
      BY <3>3 DEF ServerMoves, ServerAnswers, ServerChanges, ServerStops
    <3>4. CASE OutputMoves
      BY <3>4 DEF OutputMoves, OutputOnly, OutputFault, OutputRead, OutputLookup, OutputList,
         OutputTransform, OutputCreate, OutputWrite, OutputReceipt, OutputSend
    <3>5. QED
      BY <3>1, <3>2, <3>3, <3>4, StepKinds
  <2>4. QED
    BY <2>1, <2>2, <2>3
<1>4. now <= now'
  <2>1. CASE Tick
    BY <2>1 DEF Tick, TypeOK
  <2>2. ASSUME ~Tick PROVE now' = now
    <3>1. CASE \/ Open \/ OpenWrite \/ Launch \/ Crash \/ OutputAbort \/ OutputEnd \/ Fault
               \/ Stop \/ RateRead \/ RateWrite \/ RemoveStaleLock \/ UNCHANGED vars
      BY <3>1 DEF Open, OpenWrite, Launch, Crash, Return, Gone, OutputAbort, OutputEnd, Fault, Stop,
         RateRead, RateWrite, RemoveStaleLock, vars
    <3>2. CASE \/ \E id \in Ids, request \in Asks : InputRead(id, request)
               \/ InputStep \/ InputEnd \/ ServerMoves
      BY <3>2 DEF InputRead, InputStep, InputRecord, InputForward, InputRecall, InputSend,
         InputEnd, InputOnly, ServerMoves, ServerAnswers, ServerChanges, ServerStops
    <3>3. CASE \/ OutputRead \/ OutputLookup \/ OutputList \/ OutputTransform \/ OutputCreate
               \/ OutputWrite \/ OutputReceipt \/ OutputSend
      BY <3>3 DEF OutputRead, OutputLookup, OutputList, OutputTransform, OutputCreate, OutputWrite,
         OutputReceipt, OutputSend, OutputOnly
    <3>4. QED
      BY <2>2, <3>1, <3>2, <3>3 DEF Next, OutputStep, ServerMoves
  <2>3. QED
    BY <2>1, <2>2 DEF TypeOK
<1>5. (stopped => stopped') /\ (Up => begun' = begun)
  <2>1. CASE Stop \/ Open
    BY <2>1 DEF Stop, Open, Up
  <2>2. CASE \/ OpenWrite \/ Launch \/ Crash \/ OutputAbort \/ OutputEnd \/ Fault \/ RateRead
             \/ RateWrite \/ RemoveStaleLock \/ Tick \/ UNCHANGED vars
    BY <2>2 DEF OpenWrite, Launch, Crash, Return, Gone, OutputAbort, OutputEnd, Fault, RateRead,
       RateWrite, RemoveStaleLock, Tick, vars
  <2>3. CASE \/ \E id \in Ids, request \in Asks : InputRead(id, request)
             \/ InputStep \/ InputEnd \/ ServerMoves
    <3>1. UNCHANGED <<stopped, begun>>
      BY <2>3 DEF InputRead, InputStep, InputRecord, InputForward, InputRecall, InputSend,
         InputEnd, InputOnly, ServerMoves, ServerAnswers, ServerChanges, ServerStops
    <3>2. QED
      BY <3>1
  <2>4. CASE \/ OutputRead \/ OutputLookup \/ OutputList \/ OutputTransform \/ OutputCreate
             \/ OutputWrite \/ OutputReceipt \/ OutputSend
    BY <2>4 DEF OutputRead, OutputLookup, OutputList, OutputTransform, OutputCreate, OutputWrite,
       OutputReceipt, OutputSend, OutputOnly
  <2>5. QED
    BY <2>1, <2>2, <2>3, <2>4 DEF Next, OutputStep, ServerMoves
<1>6. QED
  BY <1>1, <1>2, <1>3, <1>4, <1>5

\* So what has been delivered stays so, and what has lapsed, while the proxy is up.
LEMMA Lasting ==
  ASSUME TypeOK, TypeOK', InputWork, OutputWork, [Next]_vars
  PROVE  /\ Readable' => Readable
         /\ \A text : Delivered(text) => Delivered(text)'
         /\ Up /\ Lapsed => Lapsed'
<1>1. Readable' => Readable
  BY StepKeeps DEF Readable
<1>2. ASSUME NEW text, Delivered(text) PROVE Delivered(text)'
  <2>1. text \in Texts /\ archive'[text] = "whole"
    BY <1>2, StepKeeps DEF Delivered, Recallable
  <2>2. Packed \subseteq Packed' /\ \A i \in Packed : journal'[i] = journal[i]
    BY StepKeeps DEF Packed
  <2>3. QED
    BY <1>1, <1>2, <2>1, <2>2 DEF Delivered, Recallable
<1>3. ASSUME Up, Lapsed PROVE Lapsed'
  <2>1. now \in Nat /\ now' \in Nat /\ begun + Duration \in Nat
    BY ConstantsAssumption DEF TypeOK
  <2>2. QED
    BY <1>3, <2>1, StepKeeps DEF Lapsed
<1>4. QED
  BY <1>1, <1>2, <1>3

-----------------------------------------------------------------------------
(* What is in flight between the client, the proxy and the server.           *)

LEMMA NextDownClean ==
  ASSUME DownClean, [Next]_vars
  PROVE  DownClean'
<1> USE DEF DownClean, maps, threads, server, client, disk
<1>1. CASE Quiet
  BY <1>1 DEF Quiet, Up
<1>2. CASE Launch
  BY <1>2 DEF Launch, Up
<1>3. CASE Gone
  BY <1>3 DEF Gone, Up
<1>4. CASE InputMoves
  BY <1>4 DEF InputMoves, InputRead, InputRecord, InputForward, InputRecall, InputSend, InputEnd,
     InputFault, InputOnly, InputAt, Up
<1>5. CASE ServerMoves
  BY <1>5 DEF ServerMoves, ServerAnswers, ServerChanges, ServerStops, Up
<1>6. CASE OutputMoves
  BY <1>6 DEF OutputMoves, OutputRead, OutputLookup, OutputList, OutputTransform, OutputCreate,
     OutputWrite, OutputReceipt, OutputSend, OutputFault, OutputOnly, OutputAt, Up
<1>7. QED
  BY <1>1, <1>2, <1>3, <1>4, <1>5, <1>6, StepKinds

\* The goroutine that reads the client leaves the server's alone.
LEMMA InputLeaves ==
  ASSUME InputMoves
  PROVE  UNCHANGED <<proxy, readOnly, output, hint, pipe>>
BY DEF InputMoves, InputRead, InputRecord, InputForward, InputRecall, InputSend, InputEnd,
   InputFault, InputOnly, maps, threads, server, client, disk

\* The server leaves the proxy alone.
LEMMA ServerLeaves ==
  ASSUME ServerMoves
  PROVE  UNCHANGED <<proxy, maps, threads, client>> /\ Up' = Up
BY DEF ServerMoves, ServerAnswers, ServerChanges, ServerStops, Up

\* The goroutine that reads the server leaves the client's alone.
LEMMA OutputLeaves ==
  ASSUME OutputMoves
  PROVE  Up /\ UNCHANGED <<proxy, input, upstream, todo, hint, ask>>
BY DEF OutputMoves, OutputRead, OutputLookup, OutputList, OutputTransform, OutputCreate,
   OutputWrite, OutputReceipt, OutputSend, OutputFault, OutputOnly, OutputAt, maps, threads,
   server, client, disk

\* After its lookup, a message has been dealt with.
OutputWorks ==
  /\ output.pc \notin {"idle", "lookup"} /\ output'.pc # "lookup"
  /\ UNCHANGED <<requests, pipe>>
LEMMA OutputKinds ==
  ASSUME OutputMoves, output \in Outputs
  PROVE  OutputRead \/ OutputLookup \/ OutputWorks
<1>1. CASE OutputList \/ OutputTransform \/ OutputCreate \/ OutputWrite \/ OutputReceipt
  BY <1>1 DEF Outputs, OutputList, OutputTransform, OutputCreate, OutputWrite, OutputReceipt,
     OutputAt, OutputGoto, OutputAs, OutputWorks, maps
<1>2. CASE OutputSend
  BY <1>2 DEF OutputSend, OutputAt, OutIdle, OutputWorks, maps
<1>3. CASE OutputFault
  BY <1>3 DEF Outputs, OutputFault, OutputAs, OutputWorks, maps, server
<1>4. QED
  BY <1>1, <1>2, <1>3 DEF OutputMoves

\* The server's answer takes the place of the request.
LEMMA AnswerSteps ==
  ASSUME TypeOK, NEW id \in Ids, ServerAnswers(id)
  PROVE  \E msg \in Messages :
           /\ msg.id = id /\ msg.form \in {"error", "invalid", "result"}
           /\ msg.form = "invalid" \/ msg.last => ask[id].kind = "list"
           /\ msg.last => msg.form = "result"
           /\ \A t \in DOMAIN msg.hints : t \in Tools /\ msg.hints[t] = hint[t]
           /\ ask[id].kind = "call" /\ msg.form = "result" =>
                (msg.live <=> /\ hint[ask[id].about] /\ ask[id].about \in Allow
                              /\ ~stopped /\ now < begun + Duration)
           /\ id \in todo /\ todo' = todo \ {id}
           /\ pipe' \in Seq(Messages) /\ Len(pipe') = Len(pipe) + 1
           /\ \A k \in 1 .. Len(pipe) : pipe'[k] = pipe[k]
           /\ pipe'[Len(pipe) + 1] = msg
<1>1. PICK msg \in Messages :
        /\ pipe' = Append(pipe, msg)
        /\ msg.id = id /\ msg.form \in {"error", "invalid", "result"}
        /\ msg.form = "invalid" \/ msg.last => ask[id].kind = "list"
        /\ msg.last => msg.form = "result"
        /\ \A t \in DOMAIN msg.hints : t \in Tools /\ msg.hints[t] = hint[t]
        /\ ask[id].kind = "call" /\ msg.form = "result" =>
             (msg.live <=> /\ hint[ask[id].about] /\ ask[id].about \in Allow
                           /\ ~stopped /\ now < begun + Duration)
  BY ResponseTypes DEF Sends
<1>2. /\ pipe' \in Seq(Messages) /\ Len(pipe') = Len(pipe) + 1
      /\ \A k \in 1 .. Len(pipe) : pipe'[k] = pipe[k]
      /\ pipe'[Len(pipe) + 1] = msg
  <2>1. pipe \in Seq(Messages)
    BY DEF TypeOK
  <2>2. QED
    BY <1>1, <2>1
<1>3. id \in todo /\ todo' = todo \ {id}
  BY DEF ServerAnswers
<1>4. QED
  BY <1>1, <1>2, <1>3

LEMMA NoticeSteps ==
  ASSUME TypeOK, NEW tool \in Tools, ServerChanges(tool)
  PROVE  \E msg \in Messages :
           /\ msg.id = 0 /\ msg.form = "changed" /\ msg.last = FALSE /\ msg.hints = NoHints
           /\ todo' = todo
           /\ pipe' \in Seq(Messages) /\ Len(pipe') = Len(pipe) + 1
           /\ \A k \in 1 .. Len(pipe) : pipe'[k] = pipe[k]
           /\ pipe'[Len(pipe) + 1] = msg
<1> DEFINE msg == [NoMsg EXCEPT !.form = "changed"]
<1>1. NoMsg \in Messages /\ NoMsg.id = 0 /\ NoMsg.last = FALSE /\ NoMsg.hints = NoHints
  BY InitialValues DEF NoMsg
<1>2. /\ msg \in Messages /\ msg.id = 0 /\ msg.form = "changed"
      /\ msg.last = FALSE /\ msg.hints = NoHints
  BY <1>1 DEF Messages
<1>3. pipe' = Append(pipe, msg) /\ todo' = todo
  BY DEF ServerChanges, Sends
<1> HIDE DEF msg
<1>4. pipe \in Seq(Messages)
  BY DEF TypeOK
<1>5. /\ pipe' \in Seq(Messages) /\ Len(pipe') = Len(pipe) + 1
      /\ \A k \in 1 .. Len(pipe) : pipe'[k] = pipe[k]
      /\ pipe'[Len(pipe) + 1] = msg
  BY <1>2, <1>3, <1>4
<1>6. QED
  BY <1>2, <1>3, <1>5

\* A message that is read leaves the others in order.
LEMMA ReadSteps ==
  ASSUME TypeOK, OutputRead
  PROVE  /\ Len(pipe) \in Nat \ {0} /\ pipe' \in Seq(Messages) /\ Len(pipe') = Len(pipe) - 1
         /\ \A k \in 1 .. Len(pipe') : pipe'[k] = pipe[k + 1]
         /\ pipe[1] \in Messages
         /\ output.pc = "idle" /\ requests' = requests
         /\ pipe[1].form = "changed" => UNCHANGED output /\ readOnly' = HintsForgotten
         /\ pipe[1].form # "changed" =>
              output' = [pc |-> "lookup", msg |-> pipe[1], form |-> "none"] /\ UNCHANGED readOnly
<1>1. pipe \in Seq(Messages) /\ pipe # <<>> /\ pipe' = Tail(pipe) /\ Head(pipe) = pipe[1]
  BY DEF TypeOK, OutputRead
<1>2. /\ Len(pipe) \in Nat \ {0} /\ pipe' \in Seq(Messages) /\ Len(pipe') = Len(pipe) - 1
      /\ \A k \in 1 .. Len(pipe') : pipe'[k] = pipe[k + 1]
      /\ pipe[1] \in Messages
  BY <1>1
<1>3. QED
  BY <1>1, <1>2 DEF OutputRead, OutputAt

\* Nothing comes to be in flight but what is forwarded.
LEMMA PendingSteps ==
  ASSUME TypeOK, TypeOK', DownClean, [Next]_vars, NEW id \in Ids, Pending(id)'
  PROVE  Pending(id) \/ (InputForward /\ id = input.id)
<1> USE DEF maps, threads, server, client
<1>0. /\ DOMAIN pipe = 1 .. Len(pipe) /\ DOMAIN pipe' = 1 .. Len(pipe')
      /\ Len(pipe) \in Nat /\ Len(pipe') \in Nat
  BY SMTT(30) DEF TypeOK
<1>1. CASE Quiet
  BY <1>1 DEF Quiet, Pending
<1>2. CASE Launch
  BY <1>2 DEF Launch, Pending
<1>3. CASE Gone
  BY <1>3 DEF Gone, Pending, OutIdle
<1>4. CASE InputMoves
  <2>1. todo' \subseteq todo \/ (InputForward /\ todo' = todo \cup {input.id})
    BY <1>4 DEF InputMoves, InputRead, InputRecord, InputForward, InputRecall, InputSend, InputEnd,
       InputFault
  <2>2. QED
    BY <1>4, <2>1, InputLeaves DEF Pending
<1>5. CASE ServerMoves
  <2>1. ASSUME NEW i \in Ids, ServerAnswers(i) PROVE Pending(id)
    <3>1. PICK msg \in Messages :
            /\ msg.id = i /\ i \in todo /\ todo' = todo \ {i} /\ Len(pipe') = Len(pipe) + 1
            /\ \A k \in 1 .. Len(pipe) : pipe'[k] = pipe[k]
            /\ pipe'[Len(pipe) + 1] = msg
      BY <2>1, AnswerSteps
    <3>2. \A k \in DOMAIN pipe' : k \in DOMAIN pipe \/ k = Len(pipe) + 1
      BY <1>0, <3>1
    <3>3. QED
      BY <1>0, <1>5, <3>1, <3>2, ServerLeaves DEF Pending
  <2>2. ASSUME NEW tool \in Tools, ServerChanges(tool) PROVE Pending(id)
    <3>1. PICK msg \in Messages :
            /\ msg.id = 0 /\ todo' = todo /\ Len(pipe') = Len(pipe) + 1
            /\ \A k \in 1 .. Len(pipe) : pipe'[k] = pipe[k]
            /\ pipe'[Len(pipe) + 1] = msg
      BY <2>2, NoticeSteps
    <3>2. \A k \in DOMAIN pipe' : k \in DOMAIN pipe \/ k = Len(pipe) + 1
      BY <1>0, <3>1
    <3>3. id # 0
      BY DEF Ids
    <3>4. QED
      BY <1>0, <1>5, <3>1, <3>2, <3>3, ServerLeaves DEF Pending
  <2>3. CASE ServerStops
    BY <2>3 DEF ServerStops, Pending
  <2>4. QED
    BY <1>5, <2>1, <2>2, <2>3 DEF ServerMoves
<1>6. CASE OutputMoves
  <2>1. CASE OutputRead
    <3>1. ASSUME NEW k \in DOMAIN pipe', pipe'[k].id = id PROVE Pending(id)
      <4>1. k + 1 \in DOMAIN pipe /\ pipe[k + 1].id = id
        BY <1>0, <2>1, <3>1, ReadSteps
      <4>2. QED
        BY <4>1 DEF Pending
    <3>2. ASSUME output'.pc = "lookup", output'.msg.id = id PROVE Pending(id)
      <4>1. 1 \in DOMAIN pipe /\ pipe[1].id = id
        <5>1. pipe[1].form # "changed" => output'.msg = pipe[1]
          BY <2>1, ReadSteps
        <5>2. pipe[1].form # "changed"
          BY <2>1, <3>2, ReadSteps
        <5>3. QED
          BY <1>0, <2>1, <3>2, <5>1, <5>2, ReadSteps
      <4>2. QED
        BY <4>1 DEF Pending
    <3>3. QED
      BY <1>6, <3>1, <3>2, OutputLeaves DEF Pending
  <2>2. CASE OutputLookup
    <3>1. output'.pc # "lookup" /\ UNCHANGED pipe
      BY <2>2 DEF OutputLookup, OutputGoto, OutputAs, TypeOK, Outputs
    <3>2. QED
      BY <1>6, <3>1, OutputLeaves DEF Pending
  <2>3. CASE OutputWorks
    BY <1>6, <2>3, OutputLeaves DEF Pending, OutputWorks
  <2>4. QED
    BY <1>6, <2>1, <2>2, <2>3, OutputKinds DEF TypeOK
<1>7. QED
  BY <1>1, <1>2, <1>3, <1>4, <1>5, <1>6, StepKinds

\* The lookup takes a message's request out of the map; nothing else does.
LEMMA RequestsSteps ==
  ASSUME TypeOK, DownClean, [Next]_vars, Up'
  PROVE  \A id \in requests \ requests' : OutputLookup /\ id = output.msg.id
<1> USE DEF maps, threads, server, client
<1>1. CASE Quiet \/ Launch \/ Gone
  BY <1>1 DEF Quiet, Launch, Gone, DownClean, Up
<1>2. CASE InputMoves
  BY <1>2 DEF InputMoves, InputRead, InputRecord, InputForward, InputRecall, InputSend, InputEnd,
     InputFault
<1>3. CASE ServerMoves
  BY <1>3, ServerLeaves
<1>4. CASE OutputMoves
  BY <1>4, OutputKinds, ReadSteps DEF OutputLookup, OutputWorks, TypeOK
<1>5. QED
  BY <1>1, <1>2, <1>3, <1>4, StepKinds

LEMMA NextInputWork ==
  ASSUME TypeOK, TypeOK', DownClean, InputWork, InFlight, OutputWork, [Next]_vars
  PROVE  InputWork'
<1> USE DEF maps, threads, server, client
<1>1. CASE \E id \in Ids, request \in Asks : InputRead(id, request)
  <2>1. PICK id \in Ids, request \in Asks : InputRead(id, request)
    BY <1>1
  <2>2. /\ ask[id] = NoAsk /\ ask'[id] = request
        /\ input'.id = id /\ input'.form = "none"
        /\ input'.pc \in {"record", "forward", "recall"}
        /\ input'.pc = "record" => request.kind \in {"list", "call"}
        /\ input'.pc = "forward" => request.kind = "other"
        /\ input'.pc = "recall" => request.kind = "recall"
    BY <2>1 DEF InputRead, TypeOK, Asks
  <2>3. request.kind \in {"list", "call", "other", "recall"}
    BY DEF Asks
  <2>4. ~Pending(id)'
    <3>1. ~Pending(id)
      BY <2>2 DEF InFlight
    <3>2. UNCHANGED <<todo, pipe, output>>
      BY <2>1 DEF InputRead, InputOnly
    <3>3. QED
      BY <3>1, <3>2 DEF Pending
  <2>5. QED
    BY <2>2, <2>3, <2>4 DEF InputWork
<1>2. CASE InputRecord
  <2>1. /\ input.pc = "record" /\ input' = [input EXCEPT !.pc = "forward"]
        /\ requests' = requests \cup {input.id}
        /\ UNCHANGED <<todo, pipe, output, ask>>
    BY <1>2 DEF InputRecord, InputAt, InputGoto, InputOnly
  <2>2. input'.pc = "forward" /\ input'.id = input.id /\ input'.form = input.form
    BY <2>1 DEF TypeOK, Inputs
  <2>3. Pending(input.id)' => Pending(input.id)
    BY <2>1, <2>2 DEF Pending
  <2>4. QED
    BY <2>1, <2>2, <2>3 DEF InputWork
<1>3. CASE InputForward \/ InputEnd
  <2>1. /\ UNCHANGED ask /\ input.form = "none"
        /\ input' = InIdle \/ input' = [input EXCEPT !.pc = "closed"]
    BY <1>3 DEF InputForward, InputEnd, InputAt, InputGoto, InputWork
  <2>2. input'.pc \in {"idle", "closed"} /\ input'.form = "none"
    BY <2>1 DEF InIdle, TypeOK, Inputs
  <2>3. QED
    BY <2>1, <2>2 DEF InputWork
<1>4. CASE InputRecall \/ InputFault
  <2>1. /\ input.pc = "recall" /\ UNCHANGED ask /\ input'.pc = "send" /\ input'.id = input.id
    BY <1>4 DEF InputRecall, InputFault, InputAt, TypeOK, Inputs
  <2>2. QED
    BY <2>1 DEF InputWork
<1>5. CASE InputSend
  BY <1>5 DEF InputSend, InIdle, InputWork
<1>6. CASE Gone
  BY <1>6 DEF Gone, InIdle, InputWork
<1>7. ASSUME UNCHANGED <<input, ask>>, ~InputForward PROVE InputWork'
  <2>1. input.pc \in {"record", "forward"} => ~Pending(input.id)'
    BY <1>7, PendingSteps DEF InputWork
  <2>2. ASSUME input.pc = "forward", input.id \in requests PROVE input.id \in requests'
    <3>1. CASE Up'
      <4>1. ~Pending(input.id)
        BY <2>2 DEF InputWork
      <4>2. output.pc = "lookup" => output.msg.id # input.id
        BY <4>1 DEF Pending
      <4>3. QED
        BY <2>2, <3>1, <4>2, RequestsSteps DEF OutputLookup, OutputAt
    <3>2. CASE ~Up'
      <4>1. input' = InIdle
        BY <3>2, NextDownClean DEF DownClean
      <4>2. QED
        BY <1>7, <2>2, <4>1 DEF InIdle
    <3>3. QED
      BY <3>1, <3>2
  <2>3. QED
    BY <1>7, <2>1, <2>2 DEF InputWork
<1>8. CASE Quiet \/ Launch \/ ServerMoves \/ OutputMoves
  <2>1. UNCHANGED <<input, ask>>
    BY <1>8, ServerLeaves, OutputLeaves DEF Quiet, Launch
  <2>2. CASE InputForward
    BY <1>3, <2>2
  <2>3. QED
    BY <1>7, <2>1, <2>2
<1>9. QED
  BY <1>1, <1>2, <1>3, <1>4, <1>5, <1>6, <1>8, StepKinds DEF InputMoves

\* A message that is in flight once stays so.
Once ==
  /\ \A k \in DOMAIN pipe :
       /\ pipe[k].id \notin todo
       /\ output.pc = "lookup" => pipe[k].id # output.msg.id
       /\ \A j \in DOMAIN pipe : pipe[j].id = pipe[k].id /\ pipe[k].id # 0 => j = k
  /\ output.pc = "lookup" => output.msg.id \notin todo

LEMMA NextOnce ==
  ASSUME TypeOK, TypeOK', DownClean, InputWork, InFlight, Relayed, [Next]_vars
  PROVE  Once'
<1> USE DEF maps, threads, server, client
<1>0. /\ DOMAIN pipe = 1 .. Len(pipe) /\ DOMAIN pipe' = 1 .. Len(pipe')
      /\ Len(pipe) \in Nat /\ Len(pipe') \in Nat
  BY DEF TypeOK
<1>1. Once
  BY DEF Once, InFlight
<1>2. CASE Quiet \/ Launch \/ ServerStops
  BY <1>1, <1>2 DEF Once, Quiet, Launch, ServerStops
<1>3. CASE Gone
  BY <1>3 DEF Once, Gone, OutIdle
<1>4. CASE InputMoves
  <2>1. CASE todo' \subseteq todo
    BY <1>1, <1>4, <2>1, InputLeaves DEF Once
  <2>2. CASE InputForward /\ todo' = todo \cup {input.id}
    <3>1. ~Pending(input.id)
      BY <2>2 DEF InputForward, InputAt, InputWork
    <3>2. QED
      BY <1>1, <1>4, <2>2, <3>1, InputLeaves DEF Once, Pending
  <2>3. todo' \subseteq todo \/ (InputForward /\ todo' = todo \cup {input.id})
    BY <1>4 DEF InputMoves, InputRead, InputRecord, InputForward, InputRecall, InputSend, InputEnd,
       InputFault
  <2>4. QED
    BY <2>1, <2>2, <2>3
<1>5. ASSUME NEW id \in Ids, ServerAnswers(id) PROVE Once'
  <2>1. PICK msg \in Messages :
          /\ msg.id = id /\ id \in todo /\ todo' = todo \ {id} /\ Len(pipe') = Len(pipe) + 1
          /\ \A k \in 1 .. Len(pipe) : pipe'[k] = pipe[k]
          /\ pipe'[Len(pipe) + 1] = msg
    BY <1>5, AnswerSteps
  <2>2. \A k \in DOMAIN pipe' : k \in DOMAIN pipe \/ k = Len(pipe) + 1
    BY <1>0, <2>1
  <2>3. UNCHANGED output
    BY <1>5 DEF ServerAnswers
  <2>4. QED
    BY <1>0, <1>1, <2>1, <2>2, <2>3 DEF Once
<1>6. ASSUME NEW tool \in Tools, ServerChanges(tool) PROVE Once'
  <2>1. PICK msg \in Messages :
          /\ msg.id = 0 /\ todo' = todo /\ Len(pipe') = Len(pipe) + 1
          /\ \A k \in 1 .. Len(pipe) : pipe'[k] = pipe[k]
          /\ pipe'[Len(pipe) + 1] = msg
    BY <1>6, NoticeSteps
  <2>2. \A k \in DOMAIN pipe' : k \in DOMAIN pipe \/ k = Len(pipe) + 1
    BY <1>0, <2>1
  <2>3. UNCHANGED output
    BY <1>6 DEF ServerChanges
  <2>4. 0 \notin todo /\ (output.pc = "lookup" => output.msg.id # 0)
    BY SMTT(30) DEF TypeOK, Ids, Relayed, Sound
  <2>5. QED
    BY <1>0, <1>1, <2>1, <2>2, <2>3, <2>4 DEF Once
<1>7. CASE OutputRead
  <2>1. \A k \in DOMAIN pipe' : k + 1 \in DOMAIN pipe /\ k + 1 # 1 /\ pipe'[k] = pipe[k + 1]
    BY <1>0, <1>7, ReadSteps
  <2>2. todo' = todo /\ 1 \in DOMAIN pipe
    BY <1>0, <1>7, ReadSteps DEF OutputRead, OutputOnly
  <2>3. CASE pipe[1].form = "changed"
    BY <1>0, <1>1, <1>7, <2>1, <2>2, <2>3, ReadSteps DEF Once
  <2>4. CASE pipe[1].form # "changed"
    <3>1. output'.msg = pipe[1] /\ pipe[1].id # 0 /\ pipe[1].id \notin todo
      <4>1. output'.msg = pipe[1]
        BY <1>7, <2>4, ReadSteps
      <4>2. QED
        BY <1>1, <2>2, <2>4, <4>1 DEF Relayed, Sound, Ids, Once
    <3>2. \A j, k \in DOMAIN pipe' : pipe'[j].id = pipe'[k].id /\ pipe'[k].id # 0 => j = k
      <4>1. \A j, k \in DOMAIN pipe' : j + 1 = k + 1 => j = k
        BY <1>0
      <4>2. QED
        BY <1>1, <2>1, <4>1 DEF Once
    <3>3. QED
      BY <1>1, <2>1, <2>2, <3>1, <3>2 DEF Once
  <2>5. QED
    BY <2>3, <2>4
<1>8. CASE OutputLookup
  <2>1. output'.pc # "lookup" /\ UNCHANGED <<pipe, todo>>
    BY <1>8 DEF OutputLookup, OutputGoto, OutputAs, OutputOnly, TypeOK, Outputs
  <2>2. QED
    BY <1>1, <2>1 DEF Once
<1>9. CASE OutputMoves /\ OutputWorks
  BY <1>1, <1>9, OutputLeaves DEF Once, OutputWorks
<1>10. QED
  BY <1>2, <1>3, <1>4, <1>5, <1>6, <1>7, <1>8, <1>9, StepKinds, OutputKinds
     DEF ServerMoves, TypeOK

LEMMA NextInFlight ==
  ASSUME TypeOK, TypeOK', DownClean, InputWork, InFlight, Relayed, OutputWork, [Next]_vars
  PROVE  InFlight'
<1> USE DEF maps, threads, server, client
<1>1. ASSUME NEW id \in requests' PROVE ask'[id] # NoAsk
  <2>1. id \in requests \/ (InputRecord /\ id = input.id)
    <3>1. CASE Quiet \/ Launch \/ Gone
      BY <3>1 DEF Quiet, Launch, Gone
    <3>2. CASE InputMoves
      BY <1>1, <3>2 DEF InputMoves, InputRead, InputRecord, InputForward, InputRecall, InputSend,
         InputEnd, InputFault
    <3>3. CASE ServerMoves
      BY <3>3, ServerLeaves
    <3>4. CASE OutputMoves
      BY <1>1, <3>4, OutputKinds, ReadSteps DEF OutputLookup, OutputWorks, TypeOK
    <3>5. QED
      BY <3>1, <3>2, <3>3, <3>4, StepKinds
  <2>2. id \in Ids /\ ask[id] # NoAsk
    BY <2>1, SMTT(30) DEF InFlight, TypeOK, InputRecord, InputAt, InputWork, NoAsk
  <2>3. QED
    BY <2>2, StepKeeps
<1>2. ASSUME NEW id \in Ids, Pending(id)'
      PROVE  ask'[id] # NoAsk /\ (ask'[id].kind = "list" => id \in requests')
  <2>1. ask[id] # NoAsk /\ (ask[id].kind = "list" => id \in requests)
    BY <1>2, PendingSteps DEF InFlight, InputForward, InputAt, InputWork, NoAsk
  <2>2. ask'[id] = ask[id]
    BY <2>1, StepKeeps
  <2>3. ASSUME id \in requests PROVE id \in requests'
    <3>1. Up'
      <4>1. ~Up' => todo' = {} /\ pipe' = <<>> /\ output' = OutIdle
        BY NextDownClean DEF DownClean
      <4>2. QED
        BY <1>2, <4>1 DEF Pending, OutIdle
    <3>2. CASE OutputLookup /\ id = output.msg.id
      <4>1. Once /\ output.pc = "lookup"
        BY <3>2 DEF InFlight, Once, OutputLookup, OutputAt
      <4>2. output'.pc # "lookup" /\ UNCHANGED <<pipe, todo>>
        BY <3>2 DEF OutputLookup, OutputGoto, OutputAs, OutputOnly, TypeOK, Outputs
      <4>3. QED
        BY <1>2, <3>2, <4>1, <4>2 DEF Pending, Once
    <3>3. QED
      BY <2>3, <3>1, <3>2, RequestsSteps
  <2>4. QED
    BY <2>1, <2>2, <2>3
<1>3. QED
  BY <1>1, <1>2, NextOnce DEF InFlight, Once

LEMMA NextRelayed ==
  ASSUME TypeOK, TypeOK', InputWork, InFlight, Relayed, OutputWork, [Next]_vars
  PROVE  Relayed'
<1> USE DEF maps, threads, server, client
<1>0. /\ DOMAIN pipe = 1 .. Len(pipe) /\ DOMAIN pipe' = 1 .. Len(pipe')
      /\ Len(pipe) \in Nat /\ Len(pipe') \in Nat
  BY DEF TypeOK
<1>1. \A m : Sound(m) => Sound(m)'
  <2>1. \A id \in Ids : ask[id].kind = "list" => ask'[id].kind = "list"
    BY StepKeeps DEF NoAsk
  <2>2. QED
    BY <2>1 DEF Sound
<1>2. CASE UNCHANGED <<pipe, output>>
  BY <1>1, <1>2 DEF Relayed
<1>3. CASE Gone
  BY <1>3 DEF Gone, OutIdle, Relayed
<1>4. ASSUME NEW id \in Ids, ServerAnswers(id) PROVE Relayed'
  <2>1. PICK msg \in Messages :
          /\ msg.id = id /\ msg.form \in {"error", "invalid", "result"}
          /\ msg.form = "invalid" \/ msg.last => ask[id].kind = "list"
          /\ msg.last => msg.form = "result"
          /\ Len(pipe') = Len(pipe) + 1
          /\ \A k \in 1 .. Len(pipe) : pipe'[k] = pipe[k]
          /\ pipe'[Len(pipe) + 1] = msg
    BY <1>4, AnswerSteps
  <2>2. Sound(msg)
    BY <2>1 DEF Sound
  <2>3. \A k \in DOMAIN pipe' : Sound(pipe'[k])
    <3>1. \A k \in DOMAIN pipe' : k \in DOMAIN pipe \/ k = Len(pipe) + 1
      BY <1>0, <2>1
    <3>2. QED
      BY <1>0, <2>1, <2>2, <3>1 DEF Relayed
  <2>4. UNCHANGED output
    BY <1>4 DEF ServerAnswers
  <2>5. QED
    BY <1>1, <2>3, <2>4 DEF Relayed
<1>5. ASSUME NEW tool \in Tools, ServerChanges(tool) PROVE Relayed'
  <2>1. PICK msg \in Messages :
          /\ msg.id = 0 /\ msg.form = "changed" /\ msg.last = FALSE /\ msg.hints = NoHints
          /\ Len(pipe') = Len(pipe) + 1
          /\ \A k \in 1 .. Len(pipe) : pipe'[k] = pipe[k]
          /\ pipe'[Len(pipe) + 1] = msg
    BY <1>5, NoticeSteps
  <2>2. Sound(msg)
    BY <2>1 DEF Sound
  <2>3. \A k \in DOMAIN pipe' : Sound(pipe'[k])
    <3>1. \A k \in DOMAIN pipe' : k \in DOMAIN pipe \/ k = Len(pipe) + 1
      BY <1>0, <2>1
    <3>2. QED
      BY <1>0, <2>1, <2>2, <3>1 DEF Relayed
  <2>4. UNCHANGED output
    BY <1>5 DEF ServerChanges
  <2>5. QED
    BY <1>1, <2>3, <2>4 DEF Relayed
<1>6. CASE OutputRead
  <2>1. \A k \in DOMAIN pipe' : k + 1 \in DOMAIN pipe /\ pipe'[k] = pipe[k + 1]
    BY <1>0, <1>6, ReadSteps
  <2>2. 1 \in DOMAIN pipe
    BY <1>0, <1>6, ReadSteps
  <2>3. output'.pc # "idle" => output'.msg = pipe[1] /\ pipe[1].form # "changed"
    BY <1>6, ReadSteps
  <2>4. QED
    BY <1>1, <2>1, <2>2, <2>3 DEF Relayed
<1>7. CASE \/ OutputLookup \/ OutputList \/ OutputTransform \/ OutputCreate \/ OutputWrite
           \/ OutputReceipt \/ OutputFault
  <2>1. output.pc # "idle" /\ UNCHANGED pipe
    BY <1>7 DEF OutputLookup, OutputList, OutputTransform, OutputCreate, OutputWrite, OutputReceipt,
       OutputFault, OutputAt
  <2>2. output'.msg = output.msg
    BY <1>7 DEF OutputLookup, OutputList, OutputTransform, OutputCreate, OutputWrite, OutputReceipt,
       OutputFault, OutputGoto, OutputAs, TypeOK, Outputs
  <2>3. QED
    BY <1>1, <2>1, <2>2 DEF Relayed
<1>8. CASE OutputSend
  BY <1>1, <1>8 DEF OutputSend, OutIdle, Relayed
<1>9. CASE InputMoves \/ Quiet \/ Launch \/ ServerStops
  BY <1>2, <1>9, InputLeaves DEF Quiet, Launch, ServerStops
<1>10. QED
  BY <1>3, <1>4, <1>5, <1>6, <1>7, <1>8, <1>9, StepKinds DEF ServerMoves, OutputMoves
-----------------------------------------------------------------------------
(* The scope of the trial.                                                   *)

LEMMA NextTrialKept ==
  ASSUME TrialKept, [Next]_vars
  PROVE  TrialKept'
<1> USE DEF TrialKept, disk
<1>1. CASE Open
  BY <1>1 DEF Open, CreateTrial
<1>2. CASE OpenWrite
  BY <1>2 DEF OpenWrite
<1>3. CASE Stop \/ Launch
  BY <1>3 DEF Stop, Launch
<1>4. CASE Crash \/ OutputAbort \/ OutputEnd
  BY <1>4 DEF Crash, Return, Gone, OutputAbort, OutputEnd
<1>5. CASE UNCHANGED <<trial, stopped, proxy, begun>>
  BY <1>5
<1>6. CASE Fault \/ RateRead \/ RateWrite \/ RemoveStaleLock \/ Tick \/ UNCHANGED vars
  BY <1>5, <1>6 DEF Fault, RateRead, RateWrite, RemoveStaleLock, Tick, vars
<1>7. CASE \/ \E id \in Ids, request \in Asks : InputRead(id, request)
           \/ InputStep \/ InputEnd \/ ServerMoves
  BY <1>5, <1>7 DEF InputRead, InputStep, InputRecord, InputForward, InputRecall, InputSend,
     InputEnd, InputOnly, ServerMoves, ServerAnswers, ServerChanges, ServerStops
<1>8. CASE \/ OutputRead \/ OutputLookup \/ OutputList \/ OutputTransform \/ OutputCreate
           \/ OutputWrite \/ OutputReceipt \/ OutputSend
  BY <1>5, <1>8 DEF OutputRead, OutputLookup, OutputList, OutputTransform, OutputCreate, OutputWrite,
     OutputReceipt, OutputSend, OutputOnly
<1>9. QED
  BY <1>1, <1>2, <1>3, <1>4, <1>6, <1>7, <1>8 DEF Next, OutputStep, ServerMoves

\* A result of an allowed tool that is looked up as read-only was sent in scope.
LEMMA LookupInScope ==
  ASSUME TypeOK, InFlight, Relayed, HintsFollowed, OutputLookup, output'.pc = "transform"
  PROVE  /\ ask[output.msg.id].kind = "call"
         /\ ask[output.msg.id].about \in Allow => output.msg.live \/ Lapsed
<1>1. /\ output.pc = "lookup" /\ output.msg.form # "error" /\ output.msg.id \in Ids
      /\ ask[output.msg.id].kind = "call" /\ readOnly[ask[output.msg.id].about]
  BY DEF OutputLookup, OutputAt, OutputGoto, OutputAs, TypeOK, Outputs
<1>2. output.msg.form = "result"
  BY <1>1 DEF Relayed, Sound
<1>3. ASSUME ask[output.msg.id].about \in Allow PROVE output.msg.live \/ Lapsed
  <2>1. ask[output.msg.id].about \in Tools
    BY <1>3, ConstantsAssumption
  <2>2. Calls(output.msg, ask[output.msg.id].about)
    BY <1>1, <1>2, <1>3 DEF Calls
  <2>3. QED
    BY <1>1, <2>1, <2>2 DEF HintsFollowed
<1>4. QED
  BY <1>1, <1>3

\* A result that the engine takes was sent in scope, and the trial goes on.
LEMMA TransformInScope ==
  ASSUME TypeOK, TrialKept, OutputWork, OutputTransform, output'.pc = "create"
  PROVE  output.msg.live /\ output.msg.body \in Texts
<1>1. /\ Active /\ ask[output.msg.id].about \in Allow /\ output.msg.body \in Texts
      /\ output.pc = "transform" /\ proxy = "up"
  BY DEF OutputTransform, OutputAs, OutputAt, Up, TypeOK, Outputs
<1>2. ~Lapsed
  <2>1. trial.expires = begun + Duration
    BY <1>1 DEF TrialKept
  <2>2. now \in Nat /\ begun + Duration \in Nat
    BY ConstantsAssumption DEF TypeOK
  <2>3. QED
    BY <1>1, <2>1, <2>2 DEF Active, Lapsed
<1>3. QED
  BY <1>1, <1>2 DEF OutputWork

\* A receipt that was written makes the shortened result recallable.
LEMMA ReceiptDelivers ==
  ASSUME TypeOK, TypeOK', OutputWork, OutputReceipt
  PROVE  Delivered(output.msg.body)'
<1> DEFINE text == output.msg.body
           line == Event("packed", text)
<1>1. text \in Texts /\ archive[text] = "whole" /\ journal' = Appended(line) /\ UNCHANGED archive
  BY DEF OutputReceipt, OutputAt, OutputWork
<1>2. line \in Lines /\ line.kind = "packed" /\ line.text = text
  BY <1>1 DEF TypeOK, Event, Lines
<1> HIDE DEF line
<1>3. journal \in Seq(Lines)
  BY DEF TypeOK
<1>4. Readable' => \E i \in DOMAIN journal' : journal'[i] = line
  BY <1>1, <1>2, <1>3, AppendedLine
<1>5. Readable' => \E i \in Packed' : journal'[i].text = text
  BY <1>2, <1>4 DEF Packed
<1>6. output'.msg.body = text
  BY DEF OutputReceipt, OutputAs, TypeOK, Outputs
<1>7. QED
  BY <1>1, <1>5, <1>6 DEF Delivered, Recallable

LEMMA NextOutputWork ==
  ASSUME TypeOK, TypeOK', DownClean, InputWork, InFlight, Relayed, OutputWork, TrialKept,
         HintsFollowed, [Next]_vars
  PROVE  OutputWork'
<1> USE DEF maps, threads, server, client
<1>1. CASE UNCHANGED output /\ (output.pc = "write" => UNCHANGED archive)
  <2>1. CASE output.pc = "idle"
    BY <1>1, <2>1 DEF OutputWork
  <2>2. CASE output.pc # "idle"
    <3>1. Up
      BY <2>2 DEF DownClean, OutIdle
    <3>2. /\ \A id \in Ids : ask[id].kind \in {"list", "call"} => ask'[id] = ask[id]
          /\ \A text \in Texts : archive[text] = "whole" => archive'[text] = "whole"
          /\ Lapsed => Lapsed'
          /\ \A text : Delivered(text) => Delivered(text)'
      BY <3>1, StepKeeps, Lasting DEF NoAsk
    <3>3. output.msg.id \in Ids
      BY <2>2 DEF Relayed, Sound
    <3>4. /\ output.pc = "list" => ask'[output.msg.id].kind = "list"
          /\ output.pc \in {"transform", "create", "write", "receipt"} =>
               /\ ask'[output.msg.id].kind = "call"
               /\ ask'[output.msg.id].about \in Allow => output.msg.live \/ Lapsed'
      BY <3>2, <3>3 DEF OutputWork
    <3>5. /\ output.pc = "write" => archive'[output.msg.body] = "part"
          /\ output.pc = "receipt" => archive'[output.msg.body] = "whole"
          /\ output.pc = "send" /\ output.form = "packed" => Delivered(output.msg.body)'
      BY <1>1, <3>2 DEF OutputWork
    <3>6. QED
      BY <1>1, <3>4, <3>5 DEF OutputWork
  <2>3. QED
    BY <2>1, <2>2
<1>2. CASE output' = OutIdle
  BY <1>2 DEF OutIdle, OutputWork
<1>3. CASE OutputRead
  <2>1. output' = output \/ (output'.pc = "lookup" /\ output'.form = "none")
    BY <1>3, ReadSteps
  <2>2. UNCHANGED archive
    BY <1>3 DEF OutputRead
  <2>3. QED
    BY <1>1, <2>1, <2>2 DEF OutputWork
\* From here on, the goroutine keeps its message.
<1>4. ASSUME OutputMoves, ~OutputRead, ~OutputSend
      PROVE  UNCHANGED ask /\ output'.msg = output.msg /\ (Lapsed => Lapsed') /\ output.pc # "idle"
  <2>1. output'.msg = output.msg /\ output.pc # "idle"
    BY <1>4 DEF OutputMoves, OutputLookup, OutputList, OutputTransform, OutputCreate, OutputWrite,
       OutputReceipt, OutputFault, OutputAt, OutputGoto, OutputAs, TypeOK, Outputs
  <2>2. QED
    BY <1>4, <2>1, OutputLeaves, Lasting
<1>5. CASE OutputLookup
  <2>1. output'.msg = output.msg /\ output.pc = "lookup" /\ UNCHANGED ask /\ (Lapsed => Lapsed')
    BY <1>4, <1>5 DEF OutputMoves, OutputLookup, OutputAt, OutputRead, OutputSend
  <2>2. \/ output'.pc = "list" /\ output'.form = "none" /\ ask[output.msg.id].kind = "list"
        \/ output'.pc = "transform" /\ output'.form = "none"
        \/ output'.pc = "send" /\ output'.form = "raw"
    BY <1>5, ZenonT(40) DEF OutputLookup, OutputAt, OutputGoto, OutputAs, OutputWork, TypeOK, Outputs
  <2>3. ASSUME output'.pc = "send", output.msg.last PROVE FALSE
    <3>1. ask[output.msg.id].kind = "list" /\ output.msg.form # "error"
      BY <2>1, <2>3 DEF Relayed, Sound
    <3>2. output.msg.id \in requests
      <4>1. Pending(output.msg.id) /\ output.msg.id \in Ids
        BY <2>1, <2>3 DEF Pending, Relayed, Sound
      <4>2. QED
        BY <3>1, <4>1 DEF InFlight
    <3>3. output'.pc = "list"
      BY <1>5, <3>1, <3>2 DEF OutputLookup, OutputGoto, TypeOK, Outputs
    <3>4. QED
      BY <2>3, <3>3
  <2>4. QED
    BY <1>5, <2>1, <2>2, <2>3, LookupInScope DEF OutputWork
<1>6. CASE OutputList
  <2>1. /\ output'.msg = output.msg /\ output'.pc = "send"
        /\ output'.form = IF output.msg.last THEN "listed" ELSE "raw"
    BY <1>6 DEF OutputList, OutputAs, TypeOK, Outputs
  <2>2. QED
    BY <2>1 DEF OutputWork
<1>7. ASSUME OutputTransform \/ OutputCreate \/ OutputFault, output' = [output EXCEPT !.pc = "send", !.form = "raw"]
      PROVE  OutputWork'
  <2>1. output.pc \in {"transform", "create", "write", "receipt"}
    BY <1>7 DEF OutputTransform, OutputCreate, OutputFault, OutputAt
  <2>2. ask[output.msg.id].kind = "call"
    BY <2>1 DEF OutputWork
  <2>3. ~output.msg.last
    BY <2>1, <2>2 DEF Relayed, Sound
  <2>4. output'.pc = "send" /\ output'.form = "raw" /\ output'.msg = output.msg
    BY <1>7 DEF TypeOK, Outputs
  <2>5. QED
    BY <2>3, <2>4 DEF OutputWork
<1>8. CASE OutputTransform
  <2>1. CASE output' = [output EXCEPT !.pc = "create"]
    <3>1. output'.pc = "create" /\ output'.form = output.form /\ output'.msg = output.msg
      BY <2>1 DEF TypeOK, Outputs
    <3>2. output.msg.live /\ output.msg.body \in Texts
      BY <1>8, <3>1, TransformInScope
    <3>3. UNCHANGED ask /\ output.pc = "transform"
      BY <1>8 DEF OutputTransform, OutputAt, OutputOnly
    <3>4. QED
      BY <3>1, <3>2, <3>3 DEF OutputWork
  <2>2. QED
    BY <1>7, <1>8, <2>1 DEF OutputTransform, OutputGoto, OutputAs
<1>9. CASE OutputCreate
  <2> DEFINE text == output.msg.body
  <2>1. /\ output.pc = "create" /\ output.form = "none" /\ UNCHANGED ask
        /\ text \in Texts /\ output.msg.live /\ ask[output.msg.id].kind = "call"
    BY <1>9 DEF OutputCreate, OutputAt, OutputOnly, OutputWork
  <2>2. CASE output' = [output EXCEPT !.pc = "write"] /\ archive' = [archive EXCEPT ![text] = "part"]
    <3>1. output'.pc = "write" /\ output'.form = output.form /\ output'.msg = output.msg
      BY <2>2 DEF TypeOK, Outputs
    <3>2. archive'[text] = "part"
      BY <2>1, <2>2 DEF TypeOK
    <3>3. QED
      BY <2>1, <3>1, <3>2 DEF OutputWork
  <2>3. CASE output' = [output EXCEPT !.pc = "receipt"] /\ archive[text] = "whole" /\ UNCHANGED archive
    <3>1. output'.pc = "receipt" /\ output'.form = output.form /\ output'.msg = output.msg
      BY <2>3 DEF TypeOK, Outputs
    <3>2. QED
      BY <2>1, <2>3, <3>1 DEF OutputWork
  <2>4. QED
    BY <1>7, <1>9, <2>2, <2>3 DEF OutputCreate, OutputGoto, OutputAs, Intact
<1>10. CASE OutputWrite
  <2>1. /\ output.pc = "write" /\ output.form = "none" /\ UNCHANGED ask
        /\ output.msg.body \in Texts /\ output.msg.live /\ ask[output.msg.id].kind = "call"
    BY <1>10 DEF OutputWrite, OutputAt, OutputOnly, OutputWork
  <2>2. output'.pc = "receipt" /\ output'.form = output.form /\ output'.msg = output.msg
    BY <1>10 DEF OutputWrite, OutputGoto, TypeOK, Outputs
  <2>3. archive'[output.msg.body] = "whole"
    BY <1>10, <2>1 DEF OutputWrite, TypeOK
  <2>4. QED
    BY <2>1, <2>2, <2>3 DEF OutputWork
<1>11. CASE OutputReceipt
  <2>1. /\ output.pc = "receipt" /\ output.msg.live /\ ask[output.msg.id].kind = "call"
    BY <1>11 DEF OutputReceipt, OutputAt, OutputWork
  <2>2. output'.pc = "send" /\ output'.form = "packed" /\ output'.msg = output.msg
    BY <1>11 DEF OutputReceipt, OutputAs, TypeOK, Outputs
  <2>3. ~output.msg.last
    BY <2>1 DEF Relayed, Sound
  <2>4. Delivered(output.msg.body)'
    BY <1>11, ReceiptDelivers
  <2>5. QED
    BY <2>1, <2>2, <2>3, <2>4 DEF OutputWork
<1>12. CASE OutputFault
  BY <1>7, <1>12 DEF OutputFault, OutputAs
<1>13. CASE OutputSend \/ Gone
  BY <1>2, <1>13 DEF OutputSend, Gone
<1>14. CASE Quiet \/ Launch \/ InputMoves \/ ServerMoves
  <2>1. UNCHANGED output
    BY <1>14, InputLeaves, ServerLeaves DEF Quiet, Launch
  <2>2. CASE UNCHANGED archive
    BY <1>1, <2>1, <2>2
  <2>3. QED
    BY <1>9, <1>10, <2>2, ArchiveSteps
<1>15. QED
  BY <1>3, <1>5, <1>6, <1>8, <1>9, <1>10, <1>11, <1>12, <1>13, <1>14, StepKinds
     DEF OutputMoves

\* A proxy that is down claims nothing.
LEMMA DownHints ==
  ASSUME DownClean, ~Up
  PROVE  HintsFollowed
<1>1. pipe = <<>> /\ readOnly = [t \in Tools |-> FALSE] /\ output = OutIdle
  BY DEF DownClean
<1>2. \A t \in Tools : ~Claimed(t, 0)
  BY <1>1 DEF Claimed, OutIdle
<1>3. 0 .. Len(pipe) = {0} /\ output.pc = "idle"
  BY <1>1 DEF OutIdle
<1>4. QED
  BY <1>2, <1>3 DEF HintsFollowed

\* Calls in flight are of the tools they were, whatever is asked now.
LEMMA CallsStay ==
  ASSUME TypeOK, InputWork, InFlight, OutputWork, [Next]_vars
  PROVE  \A m, t : m.id \in Ids /\ Pending(m.id) => (Calls(m, t)' <=> Calls(m, t))
<1>1. \A id \in Ids : Pending(id) => ask'[id] = ask[id]
  BY StepKeeps DEF InFlight
<1>2. QED
  BY <1>1 DEF Calls

\* The hints stay followed while the messages and the hints are as they are, and
\* the proxy claims no more of them.
LEMMA HintsFrame ==
  ASSUME TypeOK, TypeOK', InputWork, InFlight, OutputWork, HintsFollowed, [Next]_vars, Up,
         UNCHANGED <<pipe, hint>>,
         \A t \in Tools : Claimed(t, 0)' => Claimed(t, 0),
         output'.pc = "lookup" => UNCHANGED <<output, readOnly>>
  PROVE  HintsFollowed'
<1>1. Lapsed => Lapsed'
  BY Lasting
<1>2. /\ \A i, k : Undisturbed(i, k)' = Undisturbed(i, k)
      /\ \A t \in Tools, i \in 0 .. Len(pipe) : Claimed(t, i)' => Claimed(t, i)
  <2>1. \A t \in Tools, i \in 1 .. Len(pipe) : Claimed(t, i)' = Claimed(t, i)
    BY DEF Claimed
  <2>2. QED
    BY <2>1, SMTT(30) DEF Undisturbed, TypeOK
<1>3. \A t \in Tools, k \in 1 .. Len(pipe) : Calls(pipe[k], t)' => Calls(pipe[k], t)
  <2>1. ASSUME NEW k \in 1 .. Len(pipe), pipe[k].id \in Ids PROVE Pending(pipe[k].id)
    BY <2>1, SMTT(30) DEF Pending, TypeOK
  <2>2. QED
    BY <2>1, CallsStay DEF Calls
<1>4. ASSUME NEW t \in Tools, output'.pc = "lookup", Calls(output.msg, t)'
      PROVE  Calls(output.msg, t)
  BY <1>4, CallsStay DEF Calls, Pending
<1>5. ASSUME NEW t \in Tools, NEW i \in 0 .. Len(pipe), Claimed(t, i)'
      PROVE  /\ Undisturbed(i, Len(pipe))' => hint'[t]
             /\ \A k \in (i + 1) .. Len(pipe) :
                  Undisturbed(i, k)' /\ Calls(pipe[k], t)' => pipe[k].live \/ Lapsed'
  <2>1. Claimed(t, i)
    BY <1>2, <1>5
  <2>2. \A k \in (i + 1) .. Len(pipe) : k \in 1 .. Len(pipe)
    OBVIOUS
  <2>3. QED
    BY <1>1, <1>2, <1>3, <2>1, <2>2 DEF HintsFollowed
<1>6. ASSUME NEW t \in Tools, output'.pc = "lookup", Calls(output.msg, t)', readOnly'[t]
      PROVE  output'.msg.live \/ Lapsed'
  BY <1>1, <1>4, <1>6 DEF HintsFollowed
<1>7. QED
  BY <1>5, <1>6 DEF HintsFollowed

\* A message that is sent comes after all hints in flight, and agrees with the
\* server's own.
LEMMA AnswerHints ==
  ASSUME TypeOK, TypeOK', InputWork, InFlight, OutputWork, HintsFollowed, [Next]_vars, Up,
         NEW id \in Ids, ServerAnswers(id)
  PROVE  HintsFollowed'
<1>0. PICK n \in Nat : n = Len(pipe)
  BY DEF TypeOK
<1>1. PICK msg \in Messages :
        /\ msg.id = id
        /\ \A t \in DOMAIN msg.hints : t \in Tools /\ msg.hints[t] = hint[t]
        /\ ask[id].kind = "call" /\ msg.form = "result" =>
             (msg.live <=> /\ hint[ask[id].about] /\ ask[id].about \in Allow
                           /\ ~stopped /\ now < begun + Duration)
        /\ id \in todo
        /\ Len(pipe') = n + 1
        /\ \A k \in 1 .. n : pipe'[k] = pipe[k]
        /\ pipe'[n + 1] = msg
  BY <1>0, AnswerSteps
<1>2. /\ now \in Nat /\ begun + Duration \in Nat
      /\ UNCHANGED <<hint, output, readOnly, ask, now, stopped, begun>>
  BY ConstantsAssumption DEF TypeOK, ServerAnswers, disk, maps, threads, client
<1>3. Lapsed' = Lapsed /\ \A m, t : Calls(m, t)' = Calls(m, t)
  BY <1>0, <1>2 DEF Lapsed, Calls
<1>4. ASSUME NEW t \in Tools
      PROVE  /\ \A i \in 0 .. n : Claimed(t, i)' = Claimed(t, i)
             /\ Claimed(t, n + 1)' => hint[t]
  <2>1. \A i \in 0 .. n : Claimed(t, i)' = Claimed(t, i)
    <3>1. \A i \in 0 .. n : i = 0 \/ i \in 1 .. n
      BY <1>0, <1>2
    <3>2. QED
      BY <1>0, <1>1, <1>2, <3>1 DEF Claimed
  <2>2. Claimed(t, n + 1)' => hint[t]
    <3>1. n + 1 # 0
      BY <1>0, <1>2
    <3>2. QED
      BY <1>0, <1>1, <3>1 DEF Claimed
  <2>3. QED
    BY <2>1, <2>2
<1>5. /\ \A i \in 0 .. n, k \in 0 .. n : Undisturbed(i, k)' = Undisturbed(i, k)
      /\ \A i \in 0 .. n : Undisturbed(i, n + 1)' => Undisturbed(i, n)
  <2>1. \A i \in 0 .. n, k \in 0 .. n : \A j \in (i + 1) .. k : j \in 1 .. n
    BY <1>0, <1>2
  <2>2. \A i \in 0 .. n : \A j \in (i + 1) .. n : j \in (i + 1) .. (n + 1) /\ j \in 1 .. n
    BY <1>0, <1>2
  <2>3. QED
    BY <1>0, <1>1, <2>1, <2>2 DEF Undisturbed
<1>6. ASSUME NEW t \in Tools, Calls(msg, t), hint[t] PROVE msg.live \/ Lapsed
  BY <1>0, <1>1, <1>2, <1>6 DEF Calls, Lapsed
<1>7. ASSUME NEW t \in Tools, NEW i \in 0 .. Len(pipe'), Claimed(t, i)'
      PROVE  /\ Undisturbed(i, Len(pipe))' => hint'[t]
             /\ \A k \in (i + 1) .. Len(pipe') :
                  Undisturbed(i, k)' /\ Calls(pipe[k], t)' => pipe'[k].live \/ Lapsed'
  <2>1. CASE i \in 0 .. n
    <3>1. Claimed(t, i)
      BY <1>4, <1>7, <2>1
    <3>2. Undisturbed(i, n) => hint[t]
      BY <1>0, <2>1, <3>1 DEF HintsFollowed
    <3>3. ASSUME NEW k \in (i + 1) .. (n + 1), Undisturbed(i, k)', Calls(pipe'[k], t)
          PROVE  pipe'[k].live \/ Lapsed
      <4>1. CASE k = n + 1
        BY <1>0, <1>1, <1>5, <1>6, <2>1, <3>2, <3>3, <4>1
      <4>2. CASE k # n + 1
        <5>1. k \in (i + 1) .. n /\ k \in 1 .. n /\ k \in 0 .. n
          BY <1>0, <1>2, <2>1, <4>2
        <5>2. Undisturbed(i, k) /\ pipe'[k] = pipe[k]
          BY <1>0, <1>1, <1>5, <2>1, <3>3, <5>1
        <5>3. QED
          BY <1>0, <2>1, <3>1, <3>3, <5>1, <5>2 DEF HintsFollowed
      <4>3. QED
        BY <4>1, <4>2
    <3>4. Len(pipe') = n + 1 /\ hint' = hint
      BY <1>0, <1>1, <1>2
    <3>5. QED
      BY <1>3, <1>5, <2>1, <3>2, <3>3, <3>4
  <2>2. CASE i = n + 1
    <3>1. hint'[t]
      BY <1>0, <1>2, <1>4, <1>7, <2>2
    <3>2. (i + 1) .. Len(pipe') = {}
      BY <1>0, <1>1, <1>2, <2>2
    <3>3. QED
      BY <3>1, <3>2
  <2>3. QED
    BY <1>0, <1>1, <1>2, <2>1, <2>2
<1>8. ASSUME NEW t \in Tools, output'.pc = "lookup", Calls(output.msg, t)', readOnly'[t]
      PROVE  output'.msg.live \/ Lapsed'
  BY <1>0, <1>2, <1>3, <1>8 DEF HintsFollowed
<1>9. QED
  BY <1>0, <1>7, <1>8 DEF HintsFollowed

\* A notice comes after all hints in flight.
LEMMA NoticeHints ==
  ASSUME TypeOK, TypeOK', HintsFollowed, NEW tool \in Tools, ServerChanges(tool)
  PROVE  HintsFollowed'
<1>0. PICK n \in Nat : n = Len(pipe)
  BY DEF TypeOK
<1>1. PICK msg \in Messages :
        /\ msg.form = "changed" /\ msg.hints = NoHints
        /\ Len(pipe') = n + 1
        /\ \A k \in 1 .. n : pipe'[k] = pipe[k]
        /\ pipe'[n + 1] = msg
  BY <1>0, NoticeSteps
<1>2. n \in Nat /\ UNCHANGED <<output, readOnly, ask, now, stopped, begun>>
  BY DEF TypeOK, ServerChanges, disk, maps, threads, client
<1>3. Lapsed' = Lapsed /\ \A m, t : Calls(m, t)' = Calls(m, t)
  BY <1>0, <1>2 DEF Lapsed, Calls
<1>4. ASSUME NEW t \in Tools
      PROVE  /\ \A i \in 0 .. n : Claimed(t, i)' = Claimed(t, i)
             /\ ~Claimed(t, n + 1)'
  <2>1. \A i \in 0 .. n : Claimed(t, i)' = Claimed(t, i)
    <3>1. \A i \in 0 .. n : i = 0 \/ i \in 1 .. n
      BY <1>0, <1>2
    <3>2. QED
      BY <1>0, <1>1, <1>2, <3>1 DEF Claimed
  <2>2. ~Claimed(t, n + 1)'
    <3>1. n + 1 # 0 /\ t \notin DOMAIN NoHints
      BY <1>0, <1>2 DEF NoHints
    <3>2. QED
      BY <1>0, <1>1, <3>1 DEF Claimed
  <2>3. QED
    BY <2>1, <2>2
<1>5. /\ \A i \in 0 .. n, k \in 0 .. n : Undisturbed(i, k)' = Undisturbed(i, k)
      /\ \A i \in 0 .. n : ~Undisturbed(i, n + 1)'
  <2>1. \A i \in 0 .. n, k \in 0 .. n : \A j \in (i + 1) .. k : j \in 1 .. n
    BY <1>0, <1>2
  <2>2. \A i \in 0 .. n : n + 1 \in (i + 1) .. (n + 1)
    BY <1>0, <1>2
  <2>3. QED
    BY <1>0, <1>1, <2>1, <2>2 DEF Undisturbed
<1>6. ASSUME NEW t \in Tools, NEW i \in 0 .. Len(pipe'), Claimed(t, i)'
      PROVE  /\ Undisturbed(i, Len(pipe))' => hint'[t]
             /\ \A k \in (i + 1) .. Len(pipe') :
                  Undisturbed(i, k)' /\ Calls(pipe[k], t)' => pipe'[k].live \/ Lapsed'
  <2>1. i \in 0 .. n /\ Claimed(t, i)
    BY <1>0, <1>1, <1>2, <1>4, <1>6
  <2>2. ASSUME NEW k \in (i + 1) .. (n + 1), Undisturbed(i, k)', Calls(pipe'[k], t)
        PROVE  pipe'[k].live \/ Lapsed
    <3>1. k # n + 1
      BY <1>5, <2>1, <2>2
    <3>2. k \in (i + 1) .. n /\ k \in 1 .. n /\ k \in 0 .. n
      BY <1>0, <1>2, <2>1, <3>1
    <3>3. Undisturbed(i, k) /\ pipe'[k] = pipe[k]
      BY <1>0, <1>1, <1>5, <2>1, <2>2, <3>2
    <3>4. QED
      BY <1>0, <2>1, <2>2, <3>2, <3>3 DEF HintsFollowed
  <2>3. Len(pipe') = n + 1
    BY <1>0, <1>1
  <2>4. QED
    BY <1>3, <1>5, <2>1, <2>2, <2>3
<1>7. ASSUME NEW t \in Tools, output'.pc = "lookup", Calls(output.msg, t)', readOnly'[t]
      PROVE  output'.msg.live \/ Lapsed'
  BY <1>0, <1>2, <1>3, <1>7 DEF HintsFollowed
<1>8. QED
  BY <1>0, <1>6, <1>7 DEF HintsFollowed

\* What has been read is claimed by what the proxy keeps, unless it forgets.
LEMMA ReadHints ==
  ASSUME TypeOK, TypeOK', HintsFollowed, OutputRead
  PROVE  HintsFollowed'
<1>0. PICK n \in Nat : n = Len(pipe')
  BY DEF TypeOK
<1>1. /\ Len(pipe) = n + 1 /\ \A k \in 1 .. n : pipe'[k] = pipe[k + 1]
      /\ output.pc = "idle"
      /\ UNCHANGED <<hint, ask, now, stopped, begun>>
  BY <1>0, ReadSteps DEF OutputRead, OutputOnly
<1>2. Lapsed' = Lapsed /\ \A m, t : Calls(m, t)' = Calls(m, t)
  BY <1>0, <1>1 DEF Lapsed, Calls
<1>3. /\ pipe[1].form = "changed" => UNCHANGED output /\ readOnly' = HintsForgotten
      /\ pipe[1].form # "changed" =>
           /\ output'.pc = "lookup" /\ output'.msg = pipe[1]
           /\ UNCHANGED readOnly
  BY ReadSteps
\* A claim was made one message later, or, of a message that is no notice, by
\* what the proxy had read.
<1>4. ASSUME NEW t \in Tools, NEW i \in 0 .. n, Claimed(t, i)'
      PROVE  Claimed(t, i + 1) \/ (i = 0 /\ Claimed(t, 0) /\ pipe[1].form # "changed")
  <2>1. CASE i = 0
    <3>1. CASE pipe[1].form = "changed"
      BY <1>0, <1>1, <1>3, <1>4, <2>1, <3>1 DEF Claimed, HintsForgotten
    <3>2. CASE pipe[1].form # "changed"
      BY <1>0, <1>1, <1>3, <1>4, <2>1, <3>2 DEF Claimed
    <3>3. QED
      BY <3>1, <3>2
  <2>2. CASE i # 0
    <3>1. i \in 1 .. n /\ i + 1 # 0
      BY <1>0, <1>1, <2>2
    <3>2. QED
      BY <1>0, <1>1, <1>4, <3>1, <2>2 DEF Claimed
  <2>3. QED
    BY <2>1, <2>2
<1>5. /\ \A i \in 0 .. n, k \in 0 .. n : Undisturbed(i, k)' => Undisturbed(i + 1, k + 1)
      /\ \A k \in 0 .. n : Undisturbed(0, k)' /\ pipe[1].form # "changed" => Undisturbed(0, k + 1)
  <2>1. \A i \in 0 .. n, k \in 0 .. n : \A j \in (i + 1 + 1) .. (k + 1) :
          j - 1 \in (i + 1) .. k /\ j - 1 \in 1 .. n /\ j = (j - 1) + 1
    BY <1>0, <1>1
  <2>2. \A k \in 0 .. n : \A j \in (0 + 1) .. (k + 1) :
          j = 1 \/ (j - 1 \in (0 + 1) .. k /\ j - 1 \in 1 .. n /\ j = (j - 1) + 1)
    BY <1>0, <1>1
  <2>3. \A j \in Int : j - 1 \in 1 .. n /\ j = (j - 1) + 1 => pipe'[j - 1] = pipe[j]
    BY <1>0, <1>1
  <2>4. QED
    BY <2>1, <2>2, <2>3 DEF Undisturbed
<1>6. ASSUME NEW t \in Tools, NEW i \in 0 .. n, Claimed(t, i)'
      PROVE  /\ Undisturbed(i, n)' => hint[t]
             /\ \A k \in (i + 1) .. n :
                  Undisturbed(i, k)' /\ Calls(pipe'[k], t) => pipe'[k].live \/ Lapsed
  <2>1. PICK i0 \in {i + 1, 0} :
          /\ Claimed(t, i0)
          /\ \A k \in 0 .. n : Undisturbed(i, k)' => Undisturbed(i0, k + 1)
    BY <1>4, <1>5, <1>6
  <2>2. i0 \in 0 .. Len(pipe) /\ \A k \in (i + 1) .. n : k + 1 \in (i0 + 1) .. Len(pipe)
    BY <1>0, <1>1
  <2>3. Undisturbed(i0, Len(pipe)) => hint[t]
    BY <1>0, <2>1, <2>2 DEF HintsFollowed
  <2>4. \A k \in (i0 + 1) .. Len(pipe) :
          Undisturbed(i0, k) /\ Calls(pipe[k], t) => pipe[k].live \/ Lapsed
    BY <1>0, <2>1, <2>2 DEF HintsFollowed
  <2>5. n \in 0 .. n /\ \A k \in (i + 1) .. n : k \in 0 .. n /\ k \in 1 .. n
    BY <1>0, <1>1
  <2>6. QED
    BY <1>0, <1>1, <2>1, <2>2, <2>3, <2>4, <2>5
<1>7. ASSUME NEW t \in Tools, output'.pc = "lookup", Calls(output'.msg, t), readOnly'[t]
      PROVE  output'.msg.live \/ Lapsed
  <2>1. output'.msg = pipe[1] /\ pipe[1].form # "changed" /\ readOnly[t]
    BY <1>0, <1>1, <1>3, <1>7
  <2>2. /\ 0 \in 0 .. Len(pipe) /\ 1 \in (0 + 1) .. Len(pipe)
        /\ \A j \in (0 + 1) .. 1 : j = 1
    BY <1>0, <1>1
  <2>3. Claimed(t, 0) /\ Undisturbed(0, 1)
    BY <2>1, <2>2 DEF Claimed, Undisturbed
  <2>4. QED
    BY <1>0, <1>7, <2>1, <2>2, <2>3 DEF HintsFollowed
<1>8. QED
  BY <1>0, <1>1, <1>2, <1>6, <1>7 DEF HintsFollowed

LEMMA NextHintsFollowed ==
  ASSUME TypeOK, TypeOK', DownClean, InputWork, InFlight, OutputWork, HintsFollowed, [Next]_vars
  PROVE  HintsFollowed'
<1> USE DEF maps, threads, server, client
<1>1. CASE ~Up'
  BY <1>1, NextDownClean, DownHints, PTL
<1>2. CASE ~Up /\ Up'
  <2>1. UNCHANGED <<readOnly, output, pipe>>
    <3>1. CASE Quiet \/ Launch
      BY <3>1 DEF Quiet, Launch
    <3>2. CASE Gone
      BY <1>2, <3>2 DEF Gone, Up
    <3>3. CASE InputMoves \/ ServerMoves
      BY <1>2, <3>3, InputLeaves, ServerLeaves DEF Up
    <3>4. CASE OutputMoves
      BY <1>2, <3>4, OutputLeaves
    <3>5. QED
      BY <3>1, <3>2, <3>3, <3>4, StepKinds
  <2>2. pipe' = <<>> /\ readOnly' = [t \in Tools |-> FALSE] /\ output' = OutIdle
    BY <1>2, <2>1 DEF DownClean
  <2>3. \A t \in Tools : ~Claimed(t, 0)'
    BY <2>2 DEF Claimed, OutIdle
  <2>4. 0 .. Len(pipe') = {0} /\ output'.pc = "idle"
    BY <2>2 DEF OutIdle
  <2>5. QED
    BY <2>3, <2>4 DEF HintsFollowed
<1>3. CASE Up /\ UNCHANGED <<pipe, hint, output, readOnly>>
  <2>1. \A t \in Tools : Claimed(t, 0)' => Claimed(t, 0)
    BY <1>3 DEF Claimed
  <2>2. QED
    BY <1>3, <2>1, HintsFrame
<1>4. CASE Up /\ OutputMoves /\ ~OutputRead
  <2>1. UNCHANGED <<pipe, hint>> /\ output'.pc # "lookup"
    BY <1>4, OutputLeaves, OutputKinds
       DEF OutputLookup, OutputGoto, OutputAs, OutputWorks, TypeOK, Outputs
  <2>2. ASSUME NEW t \in Tools, Claimed(t, 0)' PROVE Claimed(t, 0)
    <3>1. CASE OutputList
      <4>1. /\ output.pc = "list" /\ output'.pc = "send"
            /\ readOnly'[t] = IF t \in DOMAIN output.msg.hints THEN output.msg.hints[t]
                                                               ELSE readOnly[t]
        BY <3>1 DEF OutputList, OutputAt, OutputAs, TypeOK, Outputs
      <4>2. QED
        BY <2>2, <4>1 DEF Claimed
    <3>2. CASE OutputLookup
      <4>1. output.pc = "lookup" /\ UNCHANGED readOnly /\ output'.msg = output.msg
        BY <3>2 DEF OutputLookup, OutputAt, OutputGoto, OutputAs, TypeOK, Outputs
      <4>2. QED
        BY <2>2, <4>1 DEF Claimed
    <3>3. CASE \/ OutputTransform \/ OutputCreate \/ OutputWrite \/ OutputReceipt
               \/ OutputSend \/ OutputFault
      <4>1. UNCHANGED readOnly
        BY <3>3 DEF OutputTransform, OutputCreate, OutputWrite, OutputReceipt, OutputSend, OutputFault
      <4>2. output'.pc \notin {"lookup", "list"}
        <5>1. CASE OutputTransform \/ OutputCreate \/ OutputFault
          BY <5>1 DEF OutputTransform, OutputCreate, OutputFault, OutputGoto, OutputAs, TypeOK, Outputs
        <5>2. CASE OutputWrite \/ OutputReceipt
          BY <5>2 DEF OutputWrite, OutputReceipt, OutputGoto, OutputAs, TypeOK, Outputs
        <5>3. CASE OutputSend
          BY <5>3 DEF OutputSend, OutIdle
        <5>4. QED
          BY <3>3, <5>1, <5>2, <5>3
      <4>3. QED
        BY <2>2, <4>1, <4>2 DEF Claimed
    <3>4. QED
      BY <1>4, <3>1, <3>2, <3>3 DEF OutputMoves
  <2>3. QED
    BY <1>4, <2>1, <2>2, HintsFrame
<1>5. CASE Up /\ Up'
  <2>1. CASE Quiet \/ Launch \/ InputMoves \/ ServerStops
    BY <1>3, <1>5, <2>1, InputLeaves DEF Quiet, Launch, ServerStops, Up
  <2>2. CASE Gone
    BY <1>5, <2>2 DEF Gone, Up
  <2>3. CASE \/ \E id \in Ids : ServerAnswers(id)
             \/ \E tool \in Tools : ServerChanges(tool)
    BY <1>5, <2>3, AnswerHints, NoticeHints
  <2>4. CASE OutputRead
    BY <2>4, ReadHints
  <2>5. CASE OutputMoves /\ ~OutputRead
    BY <1>4, <1>5, <2>5
  <2>6. QED
    BY <2>1, <2>2, <2>3, <2>4, <2>5, StepKinds DEF ServerMoves
<1>6. QED
  BY <1>1, <1>2, <1>5
-----------------------------------------------------------------------------
(* What the client got, and when.                                            *)

\* The client gets its answers from the two goroutines.
LEMMA AnswerSent ==
  ASSUME TypeOK, TypeOK', InputWork, Relayed, OutputWork, [Next]_vars, NEW id \in Ids
  PROVE  \/ answer'[id] = answer[id]
         \/ answer'[id].form \in {"none", "recalled", "refused"} /\ ~answer'[id].last
         \/ /\ OutputSend /\ id = output.msg.id
            /\ answer'[id].form = output.form /\ answer'[id].body = output.msg.body
            /\ answer'[id].last = output.msg.last /\ answer'[id].live = output.msg.live
<1> USE DEF maps, threads, server, client
<1>1. CASE InputSend
  <2>1. input.form \in {"none", "recalled", "refused"}
    BY DEF TypeOK, Inputs
  <2>2. CASE id = input.id
    <3> DEFINE got == [NoAnswer EXCEPT !.form = input.form,
                         !.body = IF input.form = "recalled" THEN ask[input.id].about ELSE Plain]
    <3>1. answer'[id] = got
      BY <1>1, <2>2 DEF InputSend, TypeOK
    <3>2. got.form = input.form /\ got.last = FALSE
      BY DEF NoAnswer
    <3>3. QED
      BY <2>1, <3>1, <3>2
  <2>3. CASE id # input.id
    BY <1>1, <2>3 DEF InputSend, TypeOK
  <2>4. QED
    BY <2>2, <2>3
<1>2. CASE OutputSend
  BY <1>2 DEF OutputSend, TypeOK
<1>3. CASE Quiet \/ Launch \/ Gone
  BY <1>3 DEF Quiet, Launch, Gone
<1>4. CASE InputMoves /\ ~InputSend
  BY <1>4 DEF InputMoves, InputRead, InputRecord, InputForward, InputRecall, InputEnd, InputFault
<1>5. CASE ServerMoves
  BY <1>5, ServerLeaves
<1>6. CASE OutputMoves /\ ~OutputSend
  BY <1>6 DEF OutputMoves, OutputRead, OutputLookup, OutputList, OutputTransform, OutputCreate,
     OutputWrite, OutputReceipt, OutputFault
<1>7. QED
  BY <1>1, <1>2, <1>3, <1>4, <1>5, <1>6, StepKinds

LEMMA NextAnswering ==
  ASSUME TypeOK, TypeOK', InputWork, Relayed, OutputWork, Answering, [Next]_vars
  PROVE  Answering'
<1> SUFFICES ASSUME NEW id \in Ids
             PROVE  /\ answer'[id].form = "packed" => answer'[id].live /\ Delivered(answer[id].body)'
                    /\ answer'[id].last => ask'[id].kind = "list"
  BY DEF Answering
<1>1. CASE answer'[id] = answer[id]
  <2>1. answer[id].last => ask'[id].kind = "list"
    BY StepKeeps DEF Answering, NoAsk
  <2>2. QED
    BY <1>1, <2>1, Lasting DEF Answering, Delivered, Recallable, Packed, Readable
<1>2. CASE answer'[id].form \in {"none", "recalled", "refused"} /\ ~answer'[id].last
  BY <1>2
<1>3. CASE /\ OutputSend /\ id = output.msg.id
           /\ answer'[id].form = output.form /\ answer'[id].body = output.msg.body
           /\ answer'[id].last = output.msg.last /\ answer'[id].live = output.msg.live
  <2>1. output.pc = "send" /\ UNCHANGED <<archive, journal, ask>>
    BY <1>3 DEF OutputSend, OutputAt, OutputOnly
  <2>2. QED
    BY <1>3, <2>1 DEF OutputWork, Relayed, Sound, Delivered, Recallable, Packed, Readable
<1>4. QED
  BY <1>1, <1>2, <1>3, AnswerSent

LEMMA NextListAdvertises ==
  ASSUME TypeOK, TypeOK', InputWork, Relayed, OutputWork, Answering, ListAdvertises, [Next]_vars
  PROVE  ListAdvertises'
<1> SUFFICES ASSUME NEW id \in Ids, ask'[id].kind = "list", answer'[id].form # "none",
                    answer'[id].last
             PROVE  answer'[id].form = "listed"
  BY DEF ListAdvertises
<1>1. CASE answer'[id] = answer[id]
  <2>1. ask[id].kind = "list"
    BY <1>1 DEF Answering
  <2>2. QED
    BY <1>1, <2>1 DEF ListAdvertises
<1>2. CASE OutputSend /\ id = output.msg.id /\ answer'[id].form = output.form
           /\ answer'[id].last = output.msg.last
  BY <1>2 DEF OutputSend, OutputAt, OutputWork
<1>3. QED
  BY <1>1, <1>2, AnswerSent

\* The baseline ratings are Rate's.
LEMMA RatingSteps ==
  ASSUME [Next]_vars
  PROVE  UNCHANGED ratings \/ RateWrite
<1> USE DEF maps, threads, server, client, bounds, disk
<1>1. CASE \/ Open \/ OpenWrite \/ Launch \/ Crash \/ OutputAbort \/ OutputEnd \/ Fault
           \/ Stop \/ RateRead \/ RemoveStaleLock \/ Tick \/ UNCHANGED vars
  BY <1>1 DEF Open, OpenWrite, Launch, Crash, Return, Gone, OutputAbort, OutputEnd, Fault, Stop,
     RateRead, RemoveStaleLock, Tick, vars
<1>2. CASE \/ \E id \in Ids, request \in Asks : InputRead(id, request)
           \/ InputStep \/ InputEnd \/ ServerMoves
  BY <1>2 DEF InputRead, InputStep, InputRecord, InputForward, InputRecall, InputSend,
     InputEnd, InputOnly, ServerMoves, ServerAnswers, ServerChanges, ServerStops
<1>3. CASE \/ OutputRead \/ OutputLookup \/ OutputList \/ OutputTransform \/ OutputCreate
           \/ OutputWrite \/ OutputReceipt \/ OutputSend
  BY <1>3 DEF OutputRead, OutputLookup, OutputList, OutputTransform, OutputCreate, OutputWrite,
     OutputReceipt, OutputSend, OutputOnly
<1>4. QED
  BY <1>1, <1>2, <1>3 DEF Next, OutputStep, ServerMoves

LEMMA NextDated ==
  ASSUME TypeOK, TypeOK', InputWork, OutputWork, Answering, Dated, [Next]_vars
  PROVE  Dated'
<1>0. /\ now \in Nat /\ now' \in Nat /\ now <= now'
      /\ journal \in Seq(Lines) /\ \A line \in Lines : line.time \in Nat
  <2>1. now \in Nat /\ now' \in Nat /\ journal \in Seq(Lines)
    BY DEF TypeOK
  <2>2. \A line \in Lines : line.time \in Nat
    BY DEF Lines
  <2>3. QED
    BY <2>1, <2>2, StepKeeps
<1>1. ASSUME NEW i \in DOMAIN journal' PROVE journal'[i].time <= now'
  <2>1. CASE i \in DOMAIN journal
    <3>1. journal'[i] = journal[i] /\ journal[i] \in Lines /\ journal[i].time <= now
      BY <1>0, <2>1, StepKeeps DEF Dated
    <3>2. QED
      BY <1>0, <3>1
  <2>2. CASE i \notin DOMAIN journal
    <3>1. PICK line \in Lines : journal' = Appended(line) /\ line.time <= now
      BY <1>1, <2>2, JournalSteps
    <3>2. journal'[i] = line
      BY <1>0, <1>1, <2>2, <3>1, AppendedLine
    <3>3. QED
      BY <1>0, <3>1, <3>2
  <2>3. QED
    BY <2>1, <2>2
<1>2. Packed \subseteq Packed' /\ \A i \in Packed : journal'[i] = journal[i]
  BY StepKeeps DEF Packed
<1>3. ASSUME NEW r \in ratings', ~r.unseen, Readable'
      PROVE  \E i \in Packed' : journal'[i].time <= r.time
  <2>1. Readable
    BY <1>3, Lasting
  <2>2. CASE r \in ratings
    BY <1>2, <1>3, <2>1, <2>2 DEF Dated
  <2>3. CASE r \notin ratings
    <3> DEFINE unseen == \A id \in Ids : answer[id].form # "packed"
    <3>1. ratings' = ratings \cup {[time |-> now, unseen |-> unseen]}
      BY <1>3, <2>3, RatingSteps DEF RateWrite
    <3> HIDE DEF unseen
    <3>2. r.time = now /\ ~unseen
      BY <1>3, <2>3, <3>1
    <3>3. PICK id \in Ids : answer[id].form = "packed"
      BY <3>2 DEF unseen
    <3>4. \E i \in Packed : TRUE
      BY <2>1, <3>3 DEF Answering, Delivered
    <3>5. \A i \in Packed : journal[i].time <= now
      BY DEF Packed, Dated
    <3>6. QED
      BY <1>2, <3>2, <3>4, <3>5
  <2>4. QED
    BY <2>2, <2>3
<1>4. QED
  BY <1>1, <1>3 DEF Dated
-----------------------------------------------------------------------------
(* The invariant, and what it says of the results the client gets.           *)

LEMMA InitIInv == ASSUME Init PROVE IInv
<1>1. TypeOK
  BY InitTypeOK
<1>2. DownClean /\ InputWork /\ InFlight /\ Relayed /\ OutputWork
  <2>1. input = InIdle /\ output = OutIdle /\ pipe = <<>> /\ requests = {} /\ todo = {}
    BY DEF Init
  <2>2. DownClean
    BY DEF Init, DownClean
  <2>3. QED
    BY <2>1, <2>2 DEF InputWork, InFlight, Pending, Relayed, OutputWork, InIdle, OutIdle
<1>3. TrialKept
  <2>1. \/ trial.status = "absent"
        \/ trial.status = "whole" /\ trial.expires = Duration
    BY DEF Init, NewDirectory, UsedDirectory
  <2>2. begun = 0 /\ 0 + Duration = Duration /\ proxy = "down" /\ ~stopped
    BY ConstantsAssumption DEF Init
  <2>3. QED
    BY <2>1, <2>2 DEF TrialKept
<1>4. HintsFollowed
  BY <1>2, DownHints DEF Init, Up
<1>5. Answering /\ ListAdvertises
  BY DEF Init, Answering, ListAdvertises, NoAnswer
<1>6. Dated
  <2>1. ratings = {} /\ now = 0
    BY DEF Init
  <2>2. \A i \in DOMAIN journal : journal[i].time = 0
    <3>1. \/ journal = <<>> \/ journal = <<Torn>>
          \/ \E text \in Texts : journal = <<Event("packed", text)>>
      BY DEF Init, NewDirectory, UsedDirectory
    <3>2. QED
      BY <2>1, <3>1 DEF Torn, Event
  <2>3. QED
    BY <2>1, <2>2 DEF Dated
<1>7. QED
  BY <1>1, <1>2, <1>3, <1>4, <1>5, <1>6 DEF IInv, FlowInv, ScopeInv

LEMMA NextIInv == ASSUME IInv, [Next]_vars PROVE IInv'
<1> USE DEF IInv, FlowInv, ScopeInv
<1>1. TypeOK'
  BY NextTypeOK
<1>2. DownClean'
  BY NextDownClean
<1>3. InputWork' /\ InFlight' /\ Relayed' /\ OutputWork'
  BY <1>1, NextInputWork, NextInFlight, NextRelayed, NextOutputWork
<1>4. TrialKept' /\ HintsFollowed'
  BY <1>1, NextTrialKept, NextHintsFollowed
<1>5. Answering' /\ ListAdvertises' /\ Dated'
  BY <1>1, NextAnswering, NextListAdvertises, NextDated
<1>6. QED
  BY <1>1, <1>2, <1>3, <1>4, <1>5

THEOREM Invariance == Spec => []IInv
<1>1. Init => IInv
  BY InitIInv
<1>2. IInv /\ [Next]_vars => IInv'
  BY NextIInv
<1>3. QED
  BY <1>1, <1>2, PTL DEF Spec

\* Every variable has its type, and a receipt is about a text that is archived.
THEOREM TypeCorrect == Spec => []TypeOK
<1>1. IInv => TypeOK
  BY DEF IInv, FlowInv
<1>2. QED
  BY <1>1, Invariance, PTL

\* However the goroutines, the stops and the failed writes fall, a result that
\* reached the client shortened can be recalled in full, and has its receipt
\* unless the journal was torn.
THEOREM PackedIsRecallable == Spec => []PackedRecallable
<1>1. IInv => PackedRecallable
  BY DEF IInv, Answering, Delivered, PackedRecallable
<1>2. QED
  BY <1>1, Invariance, PTL

\* A shortened result was sent within the trial, before Stop, and while its tool
\* was declared read-only, however many notices were on their way.
THEOREM PackedIsInScope == Spec => []PackedInScope
<1>1. IInv => PackedInScope
  BY DEF IInv, Answering, PackedInScope
<1>2. QED
  BY <1>1, Invariance, PTL

\* The client learns of the recall tool from every complete list it gets.
THEOREM ListsAdvertise == Spec => []ListAdvertises
<1>1. IInv => ListAdvertises
  BY DEF IInv
<1>2. QED
  BY <1>1, Invariance, PTL

\* A baseline rating that raced with the first shortened result is not shown.
THEOREM BaselineIsGenuine == Spec => []BaselineGenuine
<1>1. ASSUME IInv PROVE BaselineGenuine
  <2> SUFFICES ASSUME Readable, NEW r \in Baseline, ~r.unseen PROVE FALSE
    BY DEF BaselineGenuine
  <2>1. r \in ratings /\ \A i \in Packed : r.time < journal[i].time
    BY DEF Baseline
  <2>2. PICK i \in Packed : journal[i].time <= r.time
    BY <1>1, <2>1 DEF IInv, Dated
  <2>3. r.time \in Nat /\ journal[i].time \in Nat
    <3>1. TypeOK
      BY <1>1 DEF IInv, FlowInv
    <3>2. journal[i] \in Lines /\ r.time \in 0 .. MaxTime
      BY <2>1, <3>1 DEF TypeOK, Packed
    <3>3. QED
      BY <3>2 DEF Lines
  <2>4. QED
    BY <2>1, <2>2, <2>3
<1>2. QED
  BY <1>1, Invariance, PTL
=============================================================================
