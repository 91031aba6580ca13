--------------------------- MODULE UsagePageProofs ---------------------------
(* Proofs about UsagePages, for any sources, ranges and bounds: answers in    *)
(* any order never put an older or another source's figures on the page, nor  *)
(* take a picked rating away; the packing panel shows what was done; and the  *)
(* trials of a sample stay with their store.                                  *)
EXTENDS UsagePages, TotalsProofs, SequenceTheorems

-----------------------------------------------------------------------------
(* The panel of a packing trial, for any trial, any results and any order of  *)
(* the answers.                                                              *)
(* What is invariant.                                                        *)

PackReceipts ==
  [kind : {"packed", "recalled"}, hour : Nat, original : {0} \cup RawSizes, delivered : {1, 2}]
Packs ==
  [hour : Nat, receipts : Seq(PackReceipts), halted : BOOLEAN, packing : BOOLEAN,
   before : {0} \cup PackRatings, after : {0} \cup PackRatings]

Actions ==
  [action : {"stop"}, phase : {"sent", "done", "reading"}]
    \cup [action : {"rate"}, phase : {"sent", "done", "reading"}, before : BOOLEAN,
          rating : PackRatings]

Answers == {<<>>} \cup {<<ReadReport(p)>> : p \in Packs}
PackReads == [phase : {"free", "sent", "answered"}, awaited : BOOLEAN, report : Answers]

PackStateOK ==
  /\ pack \in Packs
  /\ panel = [sample |-> panel.sample, shown |-> panel.shown, control |-> panel.control,
              busy |-> panel.busy]
  /\ panel.sample \in BOOLEAN /\ panel.busy \in BOOLEAN
  /\ packReads \in [PackSlots -> PackReads]
  /\ packLatest \in {0} \cup PackSlots
  /\ packPost \in {NoAction} \cup Actions
  /\ packEvents \in Nat

Packed == Count(pack.receipts, "packed")

\* With the result that is being packed: what there is at most after a Stop.
Begun == Packed + (IF pack.packing THEN 1 ELSE 0)

\* A report is of an earlier state of the trial, or of this one; after a Stop no
\* packing is begun.
PastReport(r) == /\ r.status = "Stopped" => pack.halted /\ Begun <= r.packed + 1
                 /\ r.packed \in Nat /\ r.packed <= Packed

NotBefore(r, q) == /\ r.status = "Stopped" => q.status = "Stopped"
                   /\ r.packed <= q.packed

PackReadInv ==
  \A i \in PackSlots :
    /\ packReads[i].phase = "free" => ~packReads[i].awaited
    /\ packReads[i].phase = "answered" => PastReport(packReads[i].report[1])

\* A busy panel waits for its action, and then for one read.
PackBusyInv ==
  /\ panel.busy = (packPost # NoAction)
  /\ packPost.phase = "reading" <=> \E i \in PackSlots : packReads[i].awaited
  /\ \A i, j \in PackSlots : packReads[i].awaited /\ packReads[j].awaited => i = j
  /\ packLatest # 0 => packReads[packLatest].phase # "free"

\* What the panel shows is of an earlier state than the answer that replaces it.
PanelInv ==
  IF panel.sample
  THEN /\ packPost = NoAction /\ \A i \in PackSlots : packReads[i].phase = "free"
       /\ \E rating \in {0} \cup PackRatings :
            panel.shown = <<[SamplePack EXCEPT !.after = rating]>>
  ELSE Some(panel.shown) =>
         /\ PastReport(panel.shown[1])
         /\ packLatest # 0 /\ packReads[packLatest].phase = "answered" =>
              NotBefore(panel.shown[1], packReads[packLatest].report[1])

\* What an accepted action has done, to the trial or in a report of it.
DoneTo(p) == IF packPost.action = "stop" THEN p.halted
             ELSE IF packPost.before THEN p.before = packPost.rating
             ELSE p.after = packPost.rating
SeenIn(r) == IF packPost.action = "stop" THEN r.status = "Stopped"
             ELSE IF packPost.before THEN r.before = packPost.rating
             ELSE r.after = packPost.rating

\* An action that was accepted is in the latest answer, or on the panel.
PackWriteInv ==
  packEvents = 0 =>
    /\ packPost.phase \in {"done", "reading"} => DoneTo(pack)
    /\ packPost.phase = "reading" =>
         /\ packLatest = 0 => SeenIn(panel.shown[1])
         /\ packLatest # 0 /\ packReads[packLatest].phase = "answered" =>
              SeenIn(packReads[packLatest].report[1])

PackInv == PackStateOK /\ PackReadInv /\ PackBusyInv /\ PanelInv /\ PackWriteInv

-----------------------------------------------------------------------------
(* Reports of the trial, now and later.                                      *)

LEMMA CountGrows ==
  ASSUME NEW s \in Seq(PackReceipts), NEW e \in PackReceipts, NEW kind
  PROVE  /\ Count(s, kind) \in Nat
         /\ Count(Append(s, e), kind) = IF e.kind = kind THEN Count(s, kind) + 1 ELSE Count(s, kind)
<1> DEFINE t == Append(s, e)
           n == Len(s) + 1
           S == {i \in DOMAIN s : s[i].kind = kind}
           T == {i \in DOMAIN t : t[i].kind = kind}
<1>1. /\ Len(s) \in Nat /\ DOMAIN s = 1 .. Len(s) /\ DOMAIN t = 1 .. n
      /\ \A i \in DOMAIN s : t[i] = s[i]
      /\ t[n] = e
  BY AppendProperties
<1>2. IsFiniteSet(S) /\ Cardinality(S) \in Nat
  <2>1. S \subseteq 1 .. Len(s)
    BY <1>1
  <2>2. IsFiniteSet(1 .. Len(s))
    BY <1>1, FS_Interval
  <2>3. QED
    BY <2>1, <2>2, FS_Subset, FS_CardinalityType
<1> HIDE DEF t
<1>3. n \notin S /\ T = IF e.kind = kind THEN S \cup {n} ELSE S
  BY <1>1
<1>4. Cardinality(T) = IF e.kind = kind THEN Cardinality(S) + 1 ELSE Cardinality(S)
  <2> HIDE DEF S, T, n
  <2>1. Cardinality(S \cup {n}) = Cardinality(S) + 1
    BY <1>2, <1>3, FS_AddElement
  <2>2. QED
    BY <1>3, <2>1
<1>5. QED
  BY <1>2, <1>4 DEF Count, t

LEMMA CountIs == ASSUME pack \in Packs PROVE Packed \in Nat /\ Begun \in {Packed, Packed + 1}
<1>1. pack.receipts \in Seq(PackReceipts)
  BY DEF Packs
<1>2. [kind |-> "packed", hour |-> 0, original |-> 0, delivered |-> 1] \in PackReceipts
  BY DEF PackReceipts
<1>3. QED
  BY <1>1, <1>2, CountGrows DEF Packed, Begun

LEMMA ReportIs ==
  ASSUME pack \in Packs
  PROVE  /\ ReadReport(pack).status = "Stopped" <=> pack.halted
         /\ ReadReport(pack).packed = Packed
         /\ ReadReport(pack).before = pack.before /\ ReadReport(pack).after = pack.after
         /\ PastReport(ReadReport(pack))
<1>1. /\ ReadReport(pack).status = Status(pack) /\ ReadReport(pack).packed = Packed
      /\ ReadReport(pack).before = pack.before /\ ReadReport(pack).after = pack.after
  BY DEF ReadReport, Packed
<1>2. Status(pack) = "Stopped" <=> pack.halted
  BY DEF Packs, Status
<1>3. Packed \in Nat /\ Begun <= Packed + 1
  BY CountIs
<1>4. QED
  BY <1>1, <1>2, <1>3 DEF PastReport

\* What was packed stays; and once the trial is stopped, none is begun.
PackGrown == /\ pack.halted => pack'.halted /\ Begun' <= Begun
             /\ Packed <= Packed'

LEMMA PackGrows ==
  ASSUME pack \in Packs, pack' \in Packs, PackGrown, NEW r, PastReport(r)
  PROVE  PastReport(r)'
<1>1. Packed \in Nat /\ Packed' \in Nat /\ Begun \in Nat /\ Begun' \in Nat
  <2>1. pack' \in Packs => Packed' \in Nat /\ Begun' \in {Packed', Packed' + 1}
    <3>1. (pack \in Packs => Packed \in Nat /\ Begun \in {Packed, Packed + 1})'
      BY CountIs, PTL
    <3>2. QED
      BY <3>1
  <2>2. QED
    BY <2>1, CountIs
<1>2. QED
  BY <1>1 DEF PastReport, PackGrown

LEMMA PackStays == ASSUME pack \in Packs, pack' = pack PROVE pack' \in Packs /\ PackGrown
<1>1. Packed' = Packed /\ Begun' = Begun /\ Packed \in Nat /\ Begun \in Nat
  BY CountIs DEF Packed, Begun
<1>2. QED
  BY <1>1 DEF PackGrown

LEMMA IdleIs == Idle \in PackReads /\ Idle.phase = "free" /\ Idle.awaited = FALSE
BY DEF Idle, PackReads, Answers

-----------------------------------------------------------------------------
(* Steps of the panel.                                                       *)

LEMMA PackReadsStay ==
  ASSUME PackInv, pack' \in Packs, PackGrown, packReads' = packReads
  PROVE  PackReadInv'
<1>1. PackReadInv /\ pack \in Packs
  BY DEF PackInv, PackStateOK
<1>2. \A r : PastReport(r) => PastReport(r)'
  BY <1>1, PackGrows
<1>3. \A i \in PackSlots : packReads[i].phase = "answered" => PastReport(packReads[i].report[1])'
  BY <1>1, <1>2 DEF PackReadInv, PastReport
<1>4. QED
  BY <1>1, <1>3 DEF PackReadInv

\* The proxy, time and another page change the trial's directory.
LEMMA TrialSteps ==
  ASSUME PackInv, \/ ProxyArchives \/ ProxyPacks \/ ProxyGivesUp \/ ProxyRecalls
                  \/ HourPasses \/ PackOtherPage
  PROVE  PackInv' /\ PackGrown
<1>0. /\ PackStateOK /\ pack \in Packs /\ packEvents \in Nat
      /\ PackBusyInv /\ PanelInv /\ PackWriteInv
  BY DEF PackInv, PackStateOK
<1>1. UNCHANGED <<panel, packReads, packLatest, packPost>>
  BY DEF ProxyArchives, ProxyPacks, ProxyGivesUp, ProxyRecalls, HourPasses, PackOtherPage
<1>2. Packed \in Nat
  BY <1>0, CountIs
<1>3. ASSUME NEW e \in PackReceipts, Receipt(e), e.kind = "packed" => pack.packing
      PROVE  /\ pack' \in Packs /\ PackGrown
             /\ pack'.halted = pack.halted /\ pack'.before = pack.before
             /\ pack'.after = pack.after
  <2> DEFINE all == Append(pack.receipts, e)
  <2>1. pack.receipts \in Seq(PackReceipts) /\ all \in Seq(PackReceipts)
    BY <1>0 DEF Packs
  <2>2. Count(all, "packed") = IF e.kind = "packed" THEN Packed + 1 ELSE Packed
    BY <2>1, CountGrows DEF Packed
  <2>3. pack' = [pack EXCEPT !.receipts = all, !.packing = FALSE]
    BY <1>3 DEF Receipt
  <2> HIDE DEF all
  <2>4. /\ pack' \in Packs /\ pack'.receipts = all /\ pack'.halted = pack.halted
        /\ pack'.packing = FALSE /\ pack'.before = pack.before /\ pack'.after = pack.after
    BY <1>0, <2>1, <2>3 DEF Packs
  <2>5. /\ Begun' = IF e.kind = "packed" THEN Packed + 1 ELSE Packed
        /\ Packed' = IF e.kind = "packed" THEN Packed + 1 ELSE Packed
    BY <1>2, <2>2, <2>4 DEF Packed, Begun
  <2>6. Begun' <= Begun
    BY <1>2, <1>3, <2>5 DEF Begun
  <2>7. QED
    BY <1>2, <2>4, <2>5, <2>6 DEF PackGrown
<1>4. /\ pack' \in Packs /\ PackGrown
      /\ \/ /\ pack'.halted = pack.halted /\ pack'.before = pack.before
            /\ pack'.after = pack.after /\ packEvents' = packEvents
         \/ packEvents' = packEvents + 1
  <2>1. CASE ProxyPacks
    <3>1. PICK size \in RawSizes :
            Receipt([kind |-> "packed", hour |-> pack.hour, original |-> size, delivered |-> 1])
      BY <2>1 DEF ProxyPacks
    <3> DEFINE e == [kind |-> "packed", hour |-> pack.hour, original |-> size, delivered |-> 1]
    <3>2. e \in PackReceipts /\ Receipt(e) /\ packEvents' = packEvents /\ pack.packing
      BY <1>0, <2>1, <3>1 DEF Packs, PackReceipts, ProxyPacks
    <3> HIDE DEF e
    <3>3. QED
      BY <1>3, <3>2
  <2>2. CASE ProxyRecalls
    <3> DEFINE e == [kind |-> "recalled", hour |-> pack.hour, original |-> 0, delivered |-> 2]
    <3>1. e \in PackReceipts /\ Receipt(e) /\ packEvents' = packEvents /\ e.kind = "recalled"
      BY <1>0, <2>2 DEF Packs, PackReceipts, ProxyRecalls
    <3> HIDE DEF e
    <3>2. QED
      BY <1>3, <3>1
  <2>3. CASE HourPasses
    <3>1. pack' = [pack EXCEPT !.hour = pack.hour + 1] /\ packEvents' = packEvents
      BY <2>3 DEF HourPasses
    <3>2. /\ pack' \in Packs /\ pack'.receipts = pack.receipts /\ pack'.halted = pack.halted
          /\ pack'.packing = pack.packing /\ pack'.before = pack.before /\ pack'.after = pack.after
      BY <1>0, <3>1 DEF Packs
    <3>3. QED
      BY <1>2, <3>1, <3>2 DEF PackGrown, Packed, Begun
  <2>4. CASE PackOtherPage
    <3>1. packEvents' = packEvents + 1
      BY <2>4 DEF PackOtherPage, PackEvent
    <3>2. \/ pack' = [pack EXCEPT !.halted = TRUE]
          \/ \E rating \in PackRatings : pack' = [pack EXCEPT !.before = rating]
          \/ \E rating \in PackRatings : pack' = [pack EXCEPT !.after = rating]
      <4>1. CASE pack' = [pack EXCEPT !.halted = TRUE]
        BY <4>1
      <4>2. CASE \E rating \in PackRatings, before \in BOOLEAN :
                   pack' = Handled([action |-> "rate", before |-> before, rating |-> rating])
        BY <4>2 DEF Handled
      <4>3. QED
        BY <2>4, <4>1, <4>2 DEF PackOtherPage
    <3>3. /\ pack' \in Packs /\ pack'.receipts = pack.receipts
          /\ pack'.packing = pack.packing
          /\ pack.halted => pack'.halted
      BY <1>0, <3>2 DEF Packs
    <3>4. QED
      BY <1>2, <3>1, <3>3 DEF PackGrown, Packed, Begun
  <2>5. CASE ProxyArchives \/ ProxyGivesUp
    <3>1. PICK begin \in BOOLEAN : /\ pack' = [pack EXCEPT !.packing = begin]
                                   /\ begin => ~pack.halted
                                   /\ packEvents' = packEvents
      BY <2>5 DEF ProxyArchives, ProxyGivesUp, CanPack, Status
    <3>2. /\ pack' \in Packs /\ pack'.receipts = pack.receipts /\ pack'.halted = pack.halted
          /\ pack'.packing = begin /\ pack'.before = pack.before /\ pack'.after = pack.after
      BY <1>0, <3>1 DEF Packs
    <3>3. QED
      BY <1>2, <3>1, <3>2 DEF PackGrown, Packed, Begun
  <2>6. QED
    BY <2>1, <2>2, <2>3, <2>4, <2>5
<1>5. PackReadInv'
  BY <1>1, <1>4, PackReadsStay
<1>6. PackBusyInv'
  BY <1>0, <1>1 DEF PackBusyInv
<1>7. PanelInv'
  <2>1. \A r : PastReport(r) => PastReport(r)'
    BY <1>0, <1>4, PackGrows
  <2>2. PastReport(panel.shown[1]) => PastReport(panel.shown[1])'
    BY <1>1, <2>1 DEF PastReport
  <2>3. QED
    BY <1>0, <1>1, <2>2 DEF PanelInv, NotBefore
<1>8. PackWriteInv'
  <2>1. CASE /\ pack'.halted = pack.halted /\ pack'.before = pack.before
             /\ pack'.after = pack.after /\ packEvents' = packEvents
    BY <1>0, <1>1, <2>1 DEF PackWriteInv, DoneTo, SeenIn
  <2>2. CASE packEvents' = packEvents + 1
    BY <1>0, <2>2 DEF PackWriteInv
  <2>3. QED
    BY <1>4, <2>1, <2>2
<1>9. packEvents' \in Nat
  BY <1>0, <1>4
<1>10. PackStateOK'
  BY <1>0, <1>1, <1>4, <1>9 DEF PackStateOK
<1>11. QED
  BY <1>4, <1>5, <1>6, <1>7, <1>8, <1>10 DEF PackInv

\* The user's choice and the beginning of an action.
LEMMA PanelSteps ==
  ASSUME PackInv, PickPackRating \/ ClickPack \/ RateSample
  PROVE  PackInv' /\ PackGrown
<1>0. /\ PackStateOK /\ pack \in Packs /\ packEvents \in Nat
      /\ PackBusyInv /\ PanelInv /\ PackWriteInv /\ packPost \in {NoAction} \cup Actions
      /\ panel.sample \in BOOLEAN /\ panel.busy \in BOOLEAN
  BY DEF PackInv, PackStateOK
<1>1. UNCHANGED <<pack, packReads, packLatest, packEvents>>
  BY DEF PickPackRating, ClickPack, RateSample
<1>2. /\ panel' = [sample |-> panel'.sample, shown |-> panel'.shown, control |-> panel'.control,
                  busy |-> panel'.busy]
      /\ panel'.sample = panel.sample
      /\ \/ panel'.shown = panel.shown
         \/ /\ panel.sample
            /\ \E rating \in PackRatings :
                 panel'.shown = <<[SamplePack EXCEPT !.after = rating]>>
      /\ \/ panel'.busy = panel.busy /\ packPost' = packPost
         \/ /\ panel'.busy = TRUE /\ ~panel.busy /\ ~panel.sample
            /\ packPost' \in Actions /\ packPost'.phase = "sent"
  <2>1. CASE PickPackRating
    <3>1. PICK rating \in PackRatings : panel' = [panel EXCEPT !.control = rating]
      BY <2>1 DEF PickPackRating
    <3>2. packPost' = packPost
      BY <2>1 DEF PickPackRating
    <3>3. QED
      BY <1>0, <3>1, <3>2 DEF PackStateOK
  <2>2. CASE ClickPack
    <3>1. panel' = [panel EXCEPT !.busy = TRUE] /\ ~panel.busy /\ ~panel.sample
      BY <2>2 DEF ClickPack
    <3> DEFINE stop == [action |-> "stop", phase |-> "sent"]
               rate == [action |-> "rate", phase |-> "sent",
                        before |-> panel.shown[1].packed = 0, rating |-> panel.control]
    <3>2. packPost' = stop \/ (panel.control \in PackRatings /\ packPost' = rate)
      BY <2>2 DEF ClickPack
    <3>3. stop \in Actions /\ stop.phase = "sent" /\ rate.phase = "sent"
      BY DEF Actions
    <3>4. panel.control \in PackRatings => rate \in Actions
      BY DEF Actions
    <3> HIDE DEF stop, rate
    <3>5. packPost' \in Actions /\ packPost'.phase = "sent"
      BY <3>2, <3>3, <3>4
    <3>6. QED
      BY <1>0, <3>1, <3>5 DEF PackStateOK
  <2>3. CASE RateSample
    <3>1. PICK old \in {0} \cup PackRatings :
            panel.shown = <<[SamplePack EXCEPT !.after = old]>>
      BY <1>0, <2>3 DEF RateSample, PanelInv
    <3>2. panel.sample /\ panel.control \in PackRatings /\ packPost' = packPost
      BY <2>3 DEF RateSample
    <3> DEFINE now == [panel.shown EXCEPT ![1].after = panel.control]
    <3>3. now = <<[SamplePack EXCEPT !.after = panel.control]>>
      <4>1. [[SamplePack EXCEPT !.after = old] EXCEPT !.after = panel.control]
              = [SamplePack EXCEPT !.after = panel.control]
        BY ZenonT(40) DEF SamplePack
      <4>2. QED
        BY <3>1, <4>1
    <3>4. panel' = [panel EXCEPT !.shown = now]
      BY <2>3 DEF RateSample
    <3> HIDE DEF now
    <3>5. QED
      BY <1>0, <3>2, <3>3, <3>4 DEF PackStateOK
  <2>4. QED
    BY <2>1, <2>2, <2>3
<1>3. pack' \in Packs /\ PackGrown
  BY <1>0, <1>1, PackStays
<1>4. PackReadInv'
  BY <1>1, <1>3, PackReadsStay
<1>5. packPost' \in {NoAction} \cup Actions /\ panel'.busy \in BOOLEAN
  BY <1>0, <1>2
<1>6. PackStateOK'
  BY <1>0, <1>1, <1>2, <1>5 DEF PackStateOK
<1>7. PackBusyInv'
  <2>1. CASE panel'.busy = panel.busy /\ packPost' = packPost
    BY <1>0, <1>1, <2>1 DEF PackBusyInv
  <2>2. CASE panel'.busy = TRUE /\ ~panel.busy /\ packPost'.phase = "sent"
    <3>1. packPost = NoAction
      BY <1>0, <2>2 DEF PackBusyInv
    <3>2. NoAction.phase = "none"
      BY DEF NoAction
    <3>3. packPost' # NoAction /\ \A i \in PackSlots : ~packReads[i].awaited
      BY <1>0, <2>2, <3>1, <3>2 DEF PackBusyInv
    <3>4. QED
      BY <1>0, <1>1, <2>2, <3>3 DEF PackBusyInv
  <2>3. QED
    BY <1>2, <2>1, <2>2
<1>8. PanelInv'
  <2>1. CASE panel.sample
    BY <1>0, <1>1, <1>2, <2>1 DEF PanelInv
  <2>2. CASE ~panel.sample
    <3>1. panel'.shown = panel.shown
      BY <1>2, <2>2
    <3>2. PastReport(panel.shown[1]) => PastReport(panel.shown[1])'
      BY <1>1, <3>1 DEF PastReport, Packed, Begun
    <3>3. QED
      BY <1>0, <1>1, <1>2, <2>2, <3>1, <3>2 DEF PanelInv
  <2>3. QED
    BY <2>1, <2>2
<1>9. PackWriteInv'
  <2>1. CASE packPost' = packPost
    <3>1. CASE panel'.shown = panel.shown
      BY <1>0, <1>1, <2>1, <3>1 DEF PackWriteInv, DoneTo, SeenIn
    <3>2. CASE panel.sample
      <4>1. packPost = NoAction
        BY <1>0, <3>2 DEF PanelInv
      <4>2. QED
        BY <2>1, <4>1 DEF PackWriteInv, NoAction
    <3>3. QED
      BY <1>2, <3>1, <3>2
  <2>2. CASE packPost'.phase = "sent"
    BY <2>2 DEF PackWriteInv
  <2>3. QED
    BY <1>2, <2>1, <2>2
<1>10. QED
  BY <1>3, <1>4, <1>6, <1>7, <1>8, <1>9 DEF PackInv

\* The answer to an action.
LEMMA ActionSteps ==
  ASSUME PackInv, PackPostAccepted \/ PackPostFails
  PROVE  PackInv' /\ PackGrown
<1>0. /\ PackStateOK /\ pack \in Packs /\ packEvents \in Nat
      /\ PackBusyInv /\ PanelInv /\ PackWriteInv /\ packPost \in {NoAction} \cup Actions
      /\ panel.sample \in BOOLEAN /\ panel.busy \in BOOLEAN
  BY DEF PackInv, PackStateOK
<1>1. /\ UNCHANGED <<packReads, packLatest>> /\ packPost.phase \in {"sent", "done"}
      /\ packEvents' = packEvents \/ packEvents' = packEvents + 1
  BY DEF PackPostAccepted, PackPostFails, PackEvent
<1>2. /\ packPost \in Actions /\ ~panel.sample
      /\ \A i \in PackSlots : ~packReads[i].awaited
  <2>1. packPost # NoAction
    BY <1>1 DEF NoAction
  <2>2. QED
    BY <1>0, <1>1, <2>1 DEF PackBusyInv, PanelInv
<1>3. Packed \in Nat
  BY <1>0, CountIs
<1>4. /\ pack' \in Packs /\ PackGrown
      /\ PackPostAccepted => /\ packPost'.phase = "done" /\ packPost' \in Actions
                             /\ panel' = panel /\ DoneTo(pack)'
      /\ PackPostFails => packPost' = NoAction /\ panel' = [panel EXCEPT !.busy = FALSE]
  <2>1. CASE PackPostAccepted
    <3>1. /\ pack' = Handled(packPost) /\ packPost' = [packPost EXCEPT !.phase = "done"]
          /\ panel' = panel
      BY <2>1 DEF PackPostAccepted
    <3>2. CASE packPost.action = "stop"
      <4>1. pack' = [pack EXCEPT !.halted = TRUE]
        BY <3>1, <3>2 DEF Handled
      <4>2. /\ pack' \in Packs /\ pack'.receipts = pack.receipts /\ pack'.halted
            /\ pack'.packing = pack.packing
        BY <1>0, <4>1 DEF Packs
      <4>3. /\ packPost' \in Actions /\ packPost'.phase = "done" /\ packPost'.action = "stop"
        BY <1>2, <3>1, <3>2 DEF Actions
      <4>4. QED
        BY <1>3, <2>1, <3>1, <4>2, <4>3 DEF PackGrown, Packed, Begun, DoneTo, PackPostAccepted, PackPostFails
    <3>3. CASE packPost.action = "rate"
      <4>1. packPost.before \in BOOLEAN /\ packPost.rating \in PackRatings
        BY <1>2, <3>3 DEF Actions
      <4>2. pack' = IF packPost.before THEN [pack EXCEPT !.before = packPost.rating]
                    ELSE [pack EXCEPT !.after = packPost.rating]
        BY <3>1, <3>3 DEF Handled
      <4>3. /\ pack' \in Packs /\ pack'.receipts = pack.receipts /\ pack'.halted = pack.halted
            /\ pack'.packing = pack.packing
            /\ IF packPost.before THEN pack'.before = packPost.rating
               ELSE pack'.after = packPost.rating
        BY <1>0, <4>1, <4>2 DEF Packs
      <4>4. /\ packPost' \in Actions /\ packPost'.phase = "done" /\ packPost'.action = "rate"
            /\ packPost'.before = packPost.before /\ packPost'.rating = packPost.rating
        BY <1>2, <3>1, <3>3 DEF Actions
      <4>5. QED
        BY <1>3, <2>1, <3>1, <4>3, <4>4 DEF PackGrown, Packed, Begun, DoneTo, PackPostAccepted, PackPostFails
    <3>4. QED
      BY <1>2, <3>2, <3>3 DEF Actions
  <2>2. CASE PackPostFails
    <3>1. pack' = pack /\ packPost' = NoAction /\ panel' = [panel EXCEPT !.busy = FALSE]
      BY <2>2 DEF PackPostFails
    <3>2. ~PackPostAccepted
      <4>1. PackPostAccepted => packPost'.phase = "done"
        BY <1>2 DEF PackPostAccepted, Actions
      <4>2. packPost'.phase = "none"
        BY <3>1 DEF NoAction
      <4>3. QED
        BY <4>1, <4>2
    <3>3. pack' \in Packs /\ PackGrown
      BY <1>0, <3>1, PackStays
    <3>4. QED
      BY <3>1, <3>2, <3>3
  <2>3. QED
    BY <2>1, <2>2
<1>5. PackReadInv'
  BY <1>1, <1>4, PackReadsStay
<1>6. /\ panel' = [sample |-> panel'.sample, shown |-> panel'.shown, control |-> panel'.control,
                  busy |-> panel'.busy]
      /\ panel'.sample = panel.sample /\ panel'.shown = panel.shown /\ panel'.busy \in BOOLEAN
      /\ panel'.busy = (packPost' # NoAction)
      /\ packPost' \in {NoAction} \cup Actions /\ packPost'.phase # "reading"
  <2>1. CASE PackPostAccepted
    <3>1. packPost # NoAction /\ packPost' # NoAction
      BY <1>1, <1>4, <2>1 DEF NoAction
    <3>2. panel.busy = TRUE
      BY <1>0, <3>1 DEF PackBusyInv
    <3>3. QED
      BY <1>0, <1>4, <2>1, <3>1, <3>2 DEF PackStateOK
  <2>2. CASE PackPostFails
    <3>1. packPost' = NoAction /\ panel' = [panel EXCEPT !.busy = FALSE]
      BY <1>4, <2>2
    <3>2. packPost'.phase # "reading"
      BY <3>1 DEF NoAction
    <3>3. /\ panel' = [sample |-> panel'.sample, shown |-> panel'.shown,
                      control |-> panel'.control, busy |-> panel'.busy]
          /\ panel'.sample = panel.sample /\ panel'.shown = panel.shown /\ panel'.busy = FALSE
      BY <1>0, <3>1 DEF PackStateOK
    <3>4. QED
      BY <3>1, <3>2, <3>3
  <2>3. QED
    BY <2>1, <2>2
<1>7. packEvents' \in Nat
  BY <1>0, <1>1
<1>8. PackStateOK'
  BY <1>0, <1>1, <1>4, <1>6, <1>7 DEF PackStateOK
<1>9. PackBusyInv'
  BY <1>0, <1>1, <1>2, <1>6 DEF PackBusyInv
<1>10. PanelInv'
  <2>1. \A r : PastReport(r) => PastReport(r)'
    BY <1>0, <1>4, PackGrows
  <2>2. PastReport(panel.shown[1]) => PastReport(panel.shown[1])'
    BY <1>6, <2>1 DEF PastReport
  <2>3. QED
    BY <1>0, <1>1, <1>2, <1>6, <2>2 DEF PanelInv, NotBefore
<1>11. PackWriteInv'
  <2>1. PackPostFails => packPost'.phase = "none"
    BY <1>4 DEF NoAction
  <2>2. QED
    BY <1>4, <1>6, <2>1 DEF PackWriteInv
<1>12. QED
  BY <1>4, <1>5, <1>8, <1>9, <1>10, <1>11 DEF PackInv

\* A read is sent, by the timer or after an accepted action.
LEMMA SendReadSteps ==
  ASSUME PackInv, NEW i \in PackSlots, PackPoll(i) \/ PackDone(i)
  PROVE  PackInv' /\ PackGrown
<1>0. /\ PackStateOK /\ pack \in Packs /\ packEvents \in Nat /\ PackReadInv
      /\ PackBusyInv /\ PanelInv /\ PackWriteInv /\ packPost \in {NoAction} \cup Actions
      /\ packReads \in [PackSlots -> PackReads]
  BY DEF PackInv, PackStateOK
<1> DEFINE q(awaited) == [Idle EXCEPT !.phase = "sent", !.awaited = awaited]
<1>1. PICK aw \in BOOLEAN :
        /\ SendPackRead(i, aw)
        /\ \/ aw = FALSE /\ packPost' = packPost /\ ~panel.sample
           \/ /\ aw = TRUE /\ packPost.phase = "done"
              /\ packPost' = [packPost EXCEPT !.phase = "reading"]
  BY DEF PackPoll, PackDone
<1>4. UNCHANGED <<pack, panel, packEvents>>
  BY DEF PackPoll, PackDone
<1>5. /\ packReads[i].phase = "free" /\ packReads' = [packReads EXCEPT ![i] = q(aw)]
      /\ packLatest' = i /\ i # 0
  <2>1. i # 0
    BY DEF PackSlots
  <2>2. QED
    BY <1>1, <2>1 DEF SendPackRead
<1>6. q(aw).phase = "sent" /\ q(aw).awaited = aw /\ q(aw) \in PackReads
  BY IdleIs DEF PackReads
<1> HIDE DEF q
<1>7. /\ packReads'[i] = q(aw) /\ \A j \in PackSlots : j # i => packReads'[j] = packReads[j]
      /\ packReads' \in [PackSlots -> PackReads]
  BY <1>0, <1>5, <1>6
<1>8. ~panel.sample
  BY <1>0, <1>1 DEF PanelInv, NoAction
<1>9. pack' \in Packs /\ PackGrown
  BY <1>0, <1>4, PackStays
<1>10. \/ packPost' = packPost /\ aw = FALSE
       \/ /\ packPost.phase = "done" /\ packPost'.phase = "reading" /\ aw = TRUE
          /\ packPost \in Actions /\ packPost' \in Actions
          /\ packPost'.action = packPost.action
          /\ packPost.action = "rate" =>
               packPost'.before = packPost.before /\ packPost'.rating = packPost.rating
  <2>1. packPost.phase = "done" => packPost \in Actions
    BY <1>0 DEF NoAction
  <2>2. QED
    BY <1>1, <2>1 DEF Actions
<1>11. packPost' \in {NoAction} \cup Actions
  BY <1>0, <1>10
<1>12. PackStateOK'
  BY <1>0, <1>4, <1>5, <1>6, <1>7, <1>9, <1>11 DEF PackStateOK
<1>13. PackReadInv'
  <2>1. \A j \in PackSlots : packReads[j].phase = "answered" => PastReport(packReads[j].report[1])
    BY <1>0 DEF PackReadInv
  <2>2. \A j \in PackSlots : packReads'[j].phase = "answered" =>
          j # i /\ packReads'[j] = packReads[j]
    BY <1>6, <1>7
  <2>3. \A j \in PackSlots : packReads'[j].phase = "free" => ~packReads'[j].awaited
    BY <1>0, <1>6, <1>7 DEF PackReadInv
  <2>4. QED
    BY <1>4, <2>1, <2>2, <2>3 DEF PackReadInv, PastReport, Packed, Begun
<1>14. PackBusyInv'
  <2>1. ~packReads[i].awaited
    BY <1>0, <1>5 DEF PackReadInv
  <2>2. \A j \in PackSlots : packReads'[j].awaited = IF j = i THEN aw ELSE packReads[j].awaited
    BY <1>6, <1>7
  <2>3. packLatest' # 0 => packReads'[packLatest'].phase # "free"
    BY <1>5, <1>6, <1>7
  <2>4. CASE packPost' = packPost /\ aw = FALSE
    <3>1. \A j \in PackSlots : packReads'[j].awaited <=> packReads[j].awaited
      BY <2>1, <2>2, <2>4
    <3>2. QED
      BY <1>0, <1>4, <2>3, <2>4, <3>1 DEF PackBusyInv
  <2>5. CASE packPost.phase = "done" /\ packPost'.phase = "reading" /\ aw = TRUE
    <3>1. \A j \in PackSlots : packReads'[j].awaited <=> j = i
      BY <1>0, <2>2, <2>5 DEF PackBusyInv
    <3>2. packPost # NoAction /\ packPost' # NoAction
      BY <2>5 DEF NoAction
    <3>3. QED
      BY <1>0, <1>4, <2>3, <2>5, <3>1, <3>2 DEF PackBusyInv
  <2>6. QED
    BY <1>10, <2>4, <2>5
<1>15. PanelInv'
  <2>1. packReads'[packLatest'].phase # "answered"
    BY <1>5, <1>6, <1>7
  <2>2. PastReport(panel.shown[1]) => PastReport(panel.shown[1])'
    BY <1>4 DEF PastReport, Packed, Begun
  <2>3. QED
    BY <1>0, <1>4, <1>8, <2>1, <2>2 DEF PanelInv
<1>16. PackWriteInv'
  <2>1. packReads'[packLatest'].phase # "answered" /\ packLatest' # 0
    BY <1>5, <1>6, <1>7
  <2>2. packEvents' = 0 /\ packPost'.phase \in {"done", "reading"} => DoneTo(pack)'
    <3>1. CASE packPost' = packPost
      BY <1>0, <1>4, <3>1 DEF PackWriteInv, DoneTo
    <3>2. CASE /\ packPost.phase = "done" /\ packPost \in Actions
               /\ packPost'.action = packPost.action
               /\ packPost.action = "rate" =>
                    packPost'.before = packPost.before /\ packPost'.rating = packPost.rating
      <4>1. packPost.action \in {"stop", "rate"}
        BY <3>2 DEF Actions
      <4>2. packEvents' = 0 => DoneTo(pack)
        BY <1>0, <1>4, <3>2 DEF PackWriteInv
      <4>3. QED
        BY <1>4, <3>2, <4>1, <4>2 DEF DoneTo
    <3>3. QED
      BY <1>10, <3>1, <3>2
  <2>3. QED
    BY <2>1, <2>2 DEF PackWriteInv
<1>17. QED
  BY <1>9, <1>12, <1>13, <1>14, <1>15, <1>16 DEF PackInv

\* An answer has the trial of the moment.
LEMMA AnswerStep ==
  ASSUME PackInv, NEW i \in PackSlots, PackAnswered(i)
  PROVE  PackInv' /\ PackGrown
<1>0. /\ PackStateOK /\ pack \in Packs /\ packEvents \in Nat /\ PackReadInv
      /\ PackBusyInv /\ PanelInv /\ PackWriteInv /\ packLatest \in {0} \cup PackSlots
      /\ packReads \in [PackSlots -> PackReads]
  BY DEF PackInv, PackStateOK
<1> DEFINE now == ReadReport(pack)
           q == [packReads[i] EXCEPT !.phase = "answered", !.report = <<now>>]
<1>1. packReads[i].phase = "sent" /\ UNCHANGED <<pack, panel, packLatest, packPost, packEvents>>
  BY DEF PackAnswered
<1>2. packReads' = [packReads EXCEPT ![i] = q]
  BY <1>0 DEF PackAnswered
<1>3. /\ q.phase = "answered" /\ q.awaited = packReads[i].awaited /\ q.report[1] = now
      /\ q \in PackReads
  <2>1. <<now>> \in Answers /\ packReads[i] \in PackReads
    BY <1>0 DEF Answers
  <2> HIDE DEF now
  <2>2. q.phase = "answered" /\ q.awaited = packReads[i].awaited /\ q.report = <<now>>
        /\ q \in PackReads
    BY <2>1 DEF PackReads
  <2>3. QED
    BY <2>2
<1>4. /\ now.status = "Stopped" <=> pack.halted
      /\ now.packed = Packed /\ PastReport(now)
      /\ now.before = pack.before /\ now.after = pack.after
  BY <1>0, ReportIs
<1> HIDE DEF q, now
<1>5. /\ packReads'[i] = q /\ \A j \in PackSlots : j # i => packReads'[j] = packReads[j]
      /\ packReads' \in [PackSlots -> PackReads]
  BY <1>0, <1>2, <1>3
<1>6. pack' \in Packs /\ PackGrown
  BY <1>0, <1>1, PackStays
<1>7. PackStateOK'
  BY <1>0, <1>1, <1>3, <1>5 DEF PackStateOK
<1>8. PackReadInv'
  <2>1. SUFFICES ASSUME NEW j \in PackSlots
                 PROVE  /\ packReads'[j].phase = "free" => ~packReads'[j].awaited
                        /\ packReads'[j].phase = "answered" => PastReport(packReads[j].report[1])'
    BY DEF PackReadInv
  <2>2. CASE j = i
    BY <1>1, <1>3, <1>4, <1>5, <2>2 DEF PastReport, Packed, Begun
  <2>3. CASE j # i
    BY <1>0, <1>1, <1>5, <2>3 DEF PackReadInv, PastReport, Packed, Begun
  <2>4. QED
    BY <2>2, <2>3
<1>9. PackBusyInv'
  <2>1. \A j \in PackSlots : packReads'[j].awaited = packReads[j].awaited
    BY <1>3, <1>5
  <2>2. QED
    BY <1>0, <1>1, <1>3, <1>5, <2>1 DEF PackBusyInv
<1>10. PanelInv'
  <2>1. ~panel.sample
    BY <1>0, <1>1 DEF PanelInv
  <2>2. SUFFICES ASSUME Some(panel.shown)
                 PROVE  /\ PastReport(panel.shown[1])'
                        /\ packLatest # 0 /\ packReads'[packLatest].phase = "answered" =>
                             NotBefore(panel.shown[1], packReads'[packLatest].report[1])
    BY <1>1, <2>1 DEF PanelInv
  <2>3. PastReport(panel.shown[1])
    BY <1>0, <2>1, <2>2 DEF PanelInv
  <2>4. NotBefore(panel.shown[1], now)
    BY <1>4, <2>3 DEF PastReport, NotBefore
  <2>5. PastReport(panel.shown[1])'
    BY <1>1, <2>3 DEF PastReport, Packed, Begun
  <2>6. QED
    BY <1>0, <1>3, <1>5, <2>1, <2>2, <2>4, <2>5 DEF PanelInv
<1>11. PackWriteInv'
  <2>1. packEvents = 0 /\ packPost.phase = "reading" => SeenIn(now)
    BY <1>0, <1>4 DEF PackWriteInv, DoneTo, SeenIn
  <2>2. packEvents = 0 /\ packPost.phase \in {"done", "reading"} => DoneTo(pack)'
    BY <1>0, <1>1 DEF PackWriteInv, DoneTo
  <2>3. SUFFICES ASSUME packEvents = 0, packPost.phase = "reading"
                 PROVE  /\ packLatest = 0 => SeenIn(panel.shown[1])'
                        /\ packLatest # 0 /\ packReads'[packLatest].phase = "answered" =>
                             SeenIn(packReads[packLatest].report[1])'
    BY <1>1, <2>2 DEF PackWriteInv
  <2>4. packLatest = 0 => SeenIn(panel.shown[1])'
    BY <1>0, <1>1, <2>3 DEF PackWriteInv, SeenIn
  <2>5. CASE packLatest = i
    <3>1. SeenIn(packReads[packLatest].report[1])'
      BY <1>1, <1>3, <1>5, <2>1, <2>3, <2>5 DEF SeenIn
    <3>2. QED
      BY <2>4, <3>1
  <2>6. CASE packLatest # i /\ packLatest # 0
    <3>1. packReads'[packLatest] = packReads[packLatest]
      BY <1>0, <1>5, <2>6
    <3>2. QED
      BY <1>0, <1>1, <2>3, <2>6, <3>1 DEF PackWriteInv, SeenIn
  <2>7. QED
    BY <2>4, <2>5, <2>6
<1>12. QED
  BY <1>6, <1>7, <1>8, <1>9, <1>10, <1>11 DEF PackInv

\* An answer is shown, dropped or lost; what waited for it is over.
LEMMA PanelAfter ==
  ASSUME PackInv, NEW i \in PackSlots, PackReadFails(i) \/ PackShown(i)
  PROVE  /\ panel' = [sample |-> panel'.sample, shown |-> panel'.shown,
                      control |-> panel'.control, busy |-> panel'.busy]
         /\ panel'.sample = panel.sample /\ panel'.busy \in BOOLEAN
         /\ (panel'.busy <=> panel.busy /\ ~packReads[i].awaited)
         /\ PackShown(i) /\ packLatest = i => panel'.shown = <<packReads[i].report[1]>>
         /\ ~(PackShown(i) /\ packLatest = i) => panel'.shown = panel.shown
<1>0. /\ panel = [sample |-> panel.sample, shown |-> panel.shown, control |-> panel.control,
                  busy |-> panel.busy]
      /\ panel.busy \in BOOLEAN /\ packReads[i] \in PackReads
  BY DEF PackInv, PackStateOK
<1>1. packReads[i].awaited \in BOOLEAN
  BY <1>0 DEF PackReads
<1> DEFINE r == packReads[i].report[1]
           c == Control(panel, r)
           b == panel.busy /\ ~packReads[i].awaited
<1>2. b \in BOOLEAN
  BY <1>0, <1>1
<1>3. CASE PackShown(i) /\ packLatest = i
  <2> DEFINE next == [panel EXCEPT !.shown = <<r>>, !.control = c]
  <2>1. panel' = [next EXCEPT !.busy = @ /\ ~packReads[i].awaited]
    BY <1>3 DEF PackShown, PackCurrent, Panel
  <2>2. next.sample = panel.sample /\ next.shown = <<r>> /\ next.busy = panel.busy
    BY <1>0
  <2>3. panel' = [next EXCEPT !.busy = b]
    BY <2>1, <2>2
  <2>4. next = [sample |-> panel.sample, shown |-> <<r>>, control |-> c, busy |-> panel.busy]
    <3> DEFINE shown == [panel EXCEPT !.shown = <<r>>]
    <3>1. next = [shown EXCEPT !.control = c]
      OBVIOUS
    <3>2. shown = [sample |-> panel.sample, shown |-> <<r>>, control |-> panel.control,
                   busy |-> panel.busy]
      BY <1>0
    <3> HIDE DEF shown, next, c
    <3>3. QED
      BY <3>1, <3>2
  <2> HIDE DEF r, b, c, next
  <2>5. QED
    BY <1>2, <1>3, <2>2, <2>3, <2>4 DEF b, r
<1>4. CASE PackReadFails(i) \/ packLatest # i
  <2>1. panel' = [panel EXCEPT !.busy = b]
    BY <1>4 DEF PackShown, PackCurrent, PackReadFails
  <2>2. ~(PackShown(i) /\ packLatest = i)
    <3>1. PackReadFails(i) => ~PackShown(i)
      <4>1. PackReadFails(i) => packEvents' = packEvents + 1
        BY DEF PackReadFails, PackEvent
      <4>2. PackShown(i) => packEvents' = packEvents
        BY DEF PackShown
      <4>3. packEvents \in Nat
        BY DEF PackInv, PackStateOK
      <4>4. QED
        BY <4>1, <4>2, <4>3
    <3>2. QED
      BY <1>4, <3>1
  <2> HIDE DEF b
  <2>3. QED
    BY <1>0, <1>2, <2>1, <2>2 DEF b
<1>5. QED
  BY <1>3, <1>4

LEMMA ReadEnds ==
  ASSUME PackInv, NEW i \in PackSlots, PackReadFails(i) \/ PackShown(i)
  PROVE  PackInv' /\ PackGrown
<1>0. /\ PackStateOK /\ pack \in Packs /\ packEvents \in Nat /\ PackReadInv
      /\ PackBusyInv /\ PanelInv /\ PackWriteInv /\ packLatest \in {0} \cup PackSlots
      /\ packPost \in {NoAction} \cup Actions /\ panel.busy \in BOOLEAN
      /\ panel.sample \in BOOLEAN /\ packReads \in [PackSlots -> PackReads]
  BY DEF PackInv, PackStateOK
<1> DEFINE show == PackShown(i) /\ packLatest = i
<1>1. /\ packPost' = IF packReads[i].awaited THEN NoAction ELSE packPost
      /\ packLatest' = IF packLatest = i THEN 0 ELSE packLatest
      /\ packReads' = [packReads EXCEPT ![i] = Idle]
      /\ packReads[i].phase # "free" /\ pack' = pack
      /\ packEvents' = packEvents \/ packEvents' = packEvents + 1
      /\ PackShown(i) \/ packEvents' = packEvents + 1
      /\ PackShown(i) => packReads[i].phase = "answered"
  BY DEF PackReadFails, PackShown, PackReadEnds, PackEvent
<1>2. /\ panel' = [sample |-> panel'.sample, shown |-> panel'.shown,
                   control |-> panel'.control, busy |-> panel'.busy]
      /\ panel'.sample = panel.sample /\ panel'.busy \in BOOLEAN
      /\ (panel'.busy <=> panel.busy /\ ~packReads[i].awaited)
      /\ show => panel'.shown = <<packReads[i].report[1]>>
      /\ ~show => panel'.shown = panel.shown
  BY PanelAfter
<1>3. i # 0 /\ (packLatest # 0 => packLatest \in PackSlots)
  BY <1>0 DEF PackSlots
<1>4. show <=> PackShown(i) /\ packLatest = i
  OBVIOUS
<1> HIDE DEF show
<1>5. /\ packReads'[i] = Idle /\ \A j \in PackSlots : j # i => packReads'[j] = packReads[j]
      /\ packReads' \in [PackSlots -> PackReads]
  BY <1>0, <1>1, IdleIs
<1>6. ~panel.sample
  BY <1>0, <1>1 DEF PanelInv
<1>7. pack' \in Packs /\ PackGrown
  BY <1>0, <1>1, PackStays
<1>8. /\ packPost' \in {NoAction} \cup Actions /\ packEvents' \in Nat
      /\ packLatest' \in {0} \cup PackSlots
      /\ packLatest' # 0 => packLatest' = packLatest /\ packReads'[packLatest'] = packReads[packLatest]
  BY <1>0, <1>1, <1>5
<1>9. PackStateOK'
  BY <1>0, <1>2, <1>5, <1>6, <1>7, <1>8 DEF PackStateOK
<1>10. PackReadInv'
  <2>1. SUFFICES ASSUME NEW j \in PackSlots
                 PROVE  /\ packReads'[j].phase = "free" => ~packReads'[j].awaited
                        /\ packReads'[j].phase = "answered" => PastReport(packReads[j].report[1])'
    BY DEF PackReadInv
  <2>2. CASE j = i
    BY <1>5, <2>2, IdleIs
  <2>3. CASE j # i
    BY <1>0, <1>1, <1>5, <2>3 DEF PackReadInv, PastReport, Packed, Begun
  <2>4. QED
    BY <2>2, <2>3
<1>11. \A j \in PackSlots : packReads'[j].awaited <=> j # i /\ packReads[j].awaited
  BY <1>5, IdleIs
<1>12. PackBusyInv'
  <2>1. packLatest' # 0 => packReads'[packLatest'].phase # "free"
    BY <1>0, <1>8 DEF PackBusyInv
  <2>2. CASE packReads[i].awaited
    <3>1. packPost' = NoAction /\ panel'.busy = FALSE
      BY <1>1, <1>2, <2>2
    <3>2. packPost'.phase = "none"
      BY <3>1 DEF NoAction
    <3>3. \A j \in PackSlots : ~packReads'[j].awaited
      BY <1>0, <1>11, <2>2 DEF PackBusyInv
    <3>4. QED
      BY <2>1, <3>1, <3>2, <3>3 DEF PackBusyInv
  <2>3. CASE ~packReads[i].awaited
    <3>1. packPost' = packPost /\ panel'.busy = panel.busy
      BY <1>0, <1>1, <1>2, <2>3
    <3>2. \A j \in PackSlots : packReads'[j].awaited <=> packReads[j].awaited
      BY <1>11, <2>3
    <3>3. QED
      BY <1>0, <2>1, <3>1, <3>2 DEF PackBusyInv
  <2>4. QED
    BY <2>2, <2>3
<1>13. PanelInv'
  <2>1. SUFFICES ASSUME Some(panel'.shown)
                 PROVE  /\ PastReport(panel.shown[1])'
                        /\ packLatest' # 0 /\ packReads'[packLatest'].phase = "answered" =>
                             NotBefore(panel'.shown[1], packReads'[packLatest'].report[1])
    BY <1>2, <1>6 DEF PanelInv
  <2>2. CASE show
    <3>1. panel'.shown[1] = packReads[i].report[1] /\ packLatest' = 0
      BY <1>1, <1>2, <1>4, <2>2
    <3>2. PastReport(packReads[i].report[1])
      BY <1>0, <1>1, <1>4, <2>2 DEF PackReadInv
    <3>3. QED
      BY <1>1, <3>1, <3>2 DEF PastReport, Packed, Begun
  <2>3. CASE ~show
    <3>1. panel'.shown = panel.shown
      BY <1>2, <2>3
    <3>2. PastReport(panel.shown[1])
      BY <1>0, <1>6, <2>1, <3>1 DEF PanelInv
    <3>3. PastReport(panel.shown[1])'
      BY <1>1, <3>1, <3>2 DEF PastReport, Packed, Begun
    <3>4. QED
      BY <1>0, <1>6, <1>8, <2>1, <3>1, <3>3 DEF PanelInv
  <2>4. QED
    BY <2>2, <2>3
<1>14. PackWriteInv'
  <2>1. SUFFICES ASSUME packEvents' = 0, packPost'.phase \in {"done", "reading"}
                 PROVE  /\ DoneTo(pack)'
                        /\ packPost'.phase = "reading" =>
                             /\ packLatest' = 0 => SeenIn(panel.shown[1])'
                             /\ packLatest' # 0 /\ packReads'[packLatest'].phase = "answered" =>
                                  SeenIn(packReads[packLatest].report[1])'
    BY DEF PackWriteInv
  <2>2. packEvents = 0 /\ PackShown(i) /\ packPost' = packPost
    BY <1>0, <1>1, <2>1 DEF NoAction
  <2>3. DoneTo(pack)'
    BY <1>0, <1>1, <2>1, <2>2 DEF PackWriteInv, DoneTo
  <2>4. ASSUME packPost.phase = "reading", packLatest' = 0 PROVE SeenIn(panel.shown[1])'
    <3>1. CASE packLatest = i
      <4>1. panel'.shown[1] = packReads[i].report[1] /\ packReads[i].phase = "answered"
        BY <1>1, <1>2, <1>4, <2>2, <3>1
      <4>2. SeenIn(packReads[i].report[1])
        BY <1>0, <1>3, <2>2, <2>4, <3>1, <4>1 DEF PackWriteInv
      <4>3. QED
        BY <2>2, <4>1, <4>2 DEF SeenIn
    <3>2. CASE packLatest # i
      <4>1. packLatest = 0 /\ panel'.shown = panel.shown
        BY <1>1, <1>2, <1>4, <2>4, <3>2
      <4>2. QED
        BY <1>0, <2>2, <2>4, <4>1 DEF PackWriteInv, SeenIn
    <3>3. QED
      BY <3>1, <3>2
  <2>5. ASSUME packPost.phase = "reading", packLatest' # 0, packReads'[packLatest'].phase = "answered"
        PROVE  SeenIn(packReads[packLatest].report[1])'
    BY <1>0, <1>8, <2>2, <2>5 DEF PackWriteInv, SeenIn
  <2>6. QED
    BY <2>2, <2>3, <2>4, <2>5
<1>15. QED
  BY <1>7, <1>9, <1>10, <1>12, <1>13, <1>14 DEF PackInv

-----------------------------------------------------------------------------
(* The panel by itself: what UsagePageProofs builds on.                      *)

LEMMA PackStarts == ASSUME NEW sample \in BOOLEAN, PackInit(sample) PROVE PackInv
<1>1. /\ pack = [hour |-> 0, receipts |-> <<>>, halted |-> FALSE, packing |-> FALSE,
              before |-> 0, after |-> 0]
      /\ packReads = [i \in PackSlots |-> Idle] /\ packLatest = 0 /\ packPost = NoAction
      /\ packEvents = 0
  BY DEF PackInit
<1>2. /\ panel = [sample |-> panel.sample, shown |-> panel.shown, control |-> panel.control,
                  busy |-> panel.busy]
      /\ panel.sample = sample /\ panel.busy = FALSE
      /\ panel.shown = IF sample THEN <<SamplePack>> ELSE <<>>
  BY DEF PackInit
<1>3. pack \in Packs
  <2>1. <<>> \in Seq(PackReceipts)
    OBVIOUS
  <2>2. QED
    BY <1>1, <2>1 DEF Packs
<1>4. PackStateOK
  BY <1>1, <1>2, <1>3, IdleIs DEF PackStateOK
<1>5. PackReadInv
  BY <1>1, IdleIs DEF PackReadInv
<1>6. NoAction.phase = "none"
  BY DEF NoAction
<1>7. PackBusyInv
  BY <1>1, <1>2, <1>6, IdleIs DEF PackBusyInv
<1>8. PanelInv
  <2>1. SamplePack = [SamplePack EXCEPT !.after = 0]
    BY DEF SamplePack
  <2>2. QED
    BY <1>1, <1>2, <2>1, IdleIs DEF PanelInv, Some
<1>9. PackWriteInv
  BY <1>1, <1>6 DEF PackWriteInv
<1>10. QED
  BY <1>4, <1>5, <1>7, <1>8, <1>9 DEF PackInv

LEMMA PackSteps == ASSUME PackInv, PackNext \/ UNCHANGED packVars PROVE PackInv' /\ PackGrown
<1>1. CASE PackNext
  BY <1>1, TrialSteps, PanelSteps, ActionSteps, SendReadSteps, AnswerStep, ReadEnds DEF PackNext
<1>2. CASE UNCHANGED packVars
  <2>1. /\ pack' = pack /\ panel' = panel /\ packReads' = packReads /\ packLatest' = packLatest
        /\ packPost' = packPost /\ packEvents' = packEvents
    BY <1>2 DEF packVars
  <2>2. PackStateOK /\ PackReadInv /\ PackBusyInv /\ PanelInv /\ PackWriteInv /\ pack \in Packs
    BY DEF PackInv, PackStateOK
  <2>3. pack' \in Packs /\ PackGrown
    BY <2>1, <2>2, PackStays
  <2>4. PackStateOK'
    BY <2>1, <2>2 DEF PackStateOK
  <2>5. PackReadInv'
    BY <2>1, <2>3, PackReadsStay
  <2>6. PackBusyInv'
    BY <2>1, <2>2 DEF PackBusyInv
  <2>7. PanelInv'
    BY <2>1, <2>2 DEF PanelInv, PastReport, Packed, Begun, NotBefore
  <2>8. PackWriteInv'
    BY <2>1, <2>2 DEF PackWriteInv, DoneTo, SeenIn
  <2>9. QED
    BY <2>3, <2>4, <2>5, <2>6, <2>7, <2>8 DEF PackInv
<1>3. QED
  BY <1>1, <1>2

\* Only an answer to the latest read changes what the panel shows, or the
\* rating of a sample; and only the end of an action, or of the read after it,
\* makes a busy panel usable.
LEMMA PanelShows ==
  ASSUME PackInv, PackNext \/ UNCHANGED packVars
  PROVE  \/ panel'.shown = panel.shown /\ (panel.busy => panel'.busy)
         \/ panel'.shown = panel.shown /\ PackPostFails
         \/ panel.sample /\ packPost = NoAction
         \/ \E i \in PackSlots :
              \/ PackShown(i) /\ packLatest = i /\ panel'.shown = <<packReads[i].report[1]>>
              \/ /\ PackReadFails(i) \/ (PackShown(i) /\ packLatest # i)
                 /\ panel'.shown = panel.shown /\ (panel'.busy <=> panel.busy /\ ~packReads[i].awaited)
<1>0. /\ panel = [sample |-> panel.sample, shown |-> panel.shown, control |-> panel.control,
                  busy |-> panel.busy]
      /\ PanelInv /\ packEvents \in Nat
  BY DEF PackInv, PackStateOK
<1>1. CASE \/ ProxyArchives \/ ProxyPacks \/ ProxyGivesUp \/ ProxyRecalls \/ HourPasses
           \/ PackOtherPage \/ PackPostAccepted
           \/ UNCHANGED packVars
           \/ \E i \in PackSlots : PackPoll(i) \/ PackAnswered(i) \/ PackDone(i)
  <2>1. panel' = panel
    BY <1>1
    DEF ProxyArchives, ProxyPacks, ProxyGivesUp, ProxyRecalls, HourPasses, PackOtherPage,
        PackPostAccepted, PackPoll, PackAnswered, PackDone, packVars
  <2>2. QED
    BY <2>1
<1>2. CASE PickPackRating \/ ClickPack
  <2>1. (\E rating \in PackRatings : panel' = [panel EXCEPT !.control = rating])
        \/ panel' = [panel EXCEPT !.busy = TRUE]
    BY <1>2 DEF PickPackRating, ClickPack
  <2>2. QED
    BY <1>0, <2>1
<1>3. CASE RateSample
  BY <1>0, <1>3 DEF RateSample, PanelInv
<1>4. CASE PackPostFails
  <2>1. panel' = [panel EXCEPT !.busy = FALSE]
    BY <1>4 DEF PackPostFails
  <2>2. QED
    BY <1>0, <1>4, <2>1
<1>5. ASSUME NEW i \in PackSlots, PackReadFails(i) \/ PackShown(i)
      PROVE  \/ PackShown(i) /\ packLatest = i /\ panel'.shown = <<packReads[i].report[1]>>
             \/ /\ PackReadFails(i) \/ (PackShown(i) /\ packLatest # i)
                /\ panel'.shown = panel.shown /\ (panel'.busy <=> panel.busy /\ ~packReads[i].awaited)
  BY <1>5, PanelAfter
<1>6. QED
  BY <1>1, <1>2, <1>3, <1>4, <1>5 DEF PackNext

LEMMA PanelStaysStopped ==
  ASSUME PackInv, PackNext \/ UNCHANGED packVars, Some(panel.shown),
         panel.shown[1].status = "Stopped"
  PROVE  /\ panel'.shown[1].status = "Stopped"
         /\ panel'.shown[1].packed >= panel.shown[1].packed
         /\ Count(pack'.receipts, "packed") <= panel.shown[1].packed + 1
         /\ pack'.halted
<1>1. PanelInv /\ PackReadInv /\ PackGrown /\ PackInv' /\ pack \in Packs
  BY PackSteps DEF PackInv, PackStateOK
<1>2. ~panel.sample
  <2> SUFFICES ASSUME panel.sample PROVE FALSE
    OBVIOUS
  <2>1. PICK rating \in {0} \cup PackRatings :
          panel.shown = <<[SamplePack EXCEPT !.after = rating]>>
    BY <1>1 DEF PanelInv
  <2>2. [SamplePack EXCEPT !.after = rating].status = "Expired"
    BY DEF SamplePack
  <2>3. panel.shown[1] = [SamplePack EXCEPT !.after = rating]
    BY <2>1
  <2>4. QED
    BY <2>2, <2>3
<1>3. PastReport(panel.shown[1])
  BY <1>1, <1>2 DEF PanelInv
<1>4. /\ pack'.halted /\ panel.shown[1].packed \in Nat
      /\ Count(pack'.receipts, "packed") <= panel.shown[1].packed + 1
  <2>1. (pack \in Packs => Packed \in Nat /\ Begun \in {Packed, Packed + 1})'
    BY CountIs, PTL
  <2>2. pack' \in Packs
    BY <1>1 DEF PackInv, PackStateOK
  <2>3. Packed' \in Nat /\ Begun' \in {Packed', Packed' + 1}
    BY <2>1, <2>2
  <2>4. Packed' <= Begun' /\ Begun' <= Begun /\ Begun <= panel.shown[1].packed + 1
    BY <1>1, <1>3, <2>3 DEF PastReport, PackGrown
  <2>5. Packed' = Count(pack'.receipts, "packed")
    BY DEF Packed
  <2>6. Begun \in Nat
    BY <1>1, CountIs
  <2>7. QED
    BY <1>1, <1>3, <2>3, <2>4, <2>5, <2>6 DEF PastReport, PackGrown
<1>5. ASSUME NEW i \in PackSlots, PackShown(i), packLatest = i,
             panel'.shown = <<packReads[i].report[1]>>
      PROVE  /\ panel'.shown[1].status = "Stopped"
             /\ panel'.shown[1].packed >= panel.shown[1].packed
  <2>1. packReads[i].phase = "answered" /\ i # 0
    BY <1>5 DEF PackShown, PackSlots
  <2>2. /\ NotBefore(panel.shown[1], packReads[i].report[1])
        /\ packReads[i].report[1].packed \in Nat
    BY <1>1, <1>2, <1>5, <2>1 DEF PanelInv, PackReadInv, PastReport
  <2>3. QED
    BY <1>4, <1>5, <2>2 DEF NotBefore
<1>6. CASE panel'.shown = panel.shown
  BY <1>4, <1>6
<1>7. QED
  BY <1>2, <1>4, <1>5, <1>6, PanelShows

LEMMA ActionsAreSeen ==
  ASSUME PackInv, PackNext \/ UNCHANGED packVars, packPost.phase \in {"done", "reading"},
         ~panel'.busy, packEvents' = 0, packLatest' = 0
  PROVE  IF packPost.action = "stop" THEN panel'.shown[1].status = "Stopped"
         ELSE IF packPost.before THEN panel'.shown[1].before = packPost.rating
         ELSE panel'.shown[1].after = packPost.rating
<1>1. /\ PackBusyInv /\ PackWriteInv /\ packEvents \in Nat /\ panel.busy \in BOOLEAN
      /\ PackReadInv
  BY DEF PackInv, PackStateOK
<1>2. packPost # NoAction
  BY DEF NoAction
<1>3. panel.busy = TRUE
  BY <1>1, <1>2 DEF PackBusyInv
<1>4. ~PackPostFails
  <2>1. PackPostFails => packPost.phase = "sent" \/ packEvents' = packEvents + 1
    BY DEF PackPostFails, PackEvent
  <2>2. QED
    BY <1>1, <2>1
<1>5. SUFFICES ASSUME NEW i \in PackSlots,
                      PackReadFails(i) \/ PackShown(i),
                      \/ PackShown(i) /\ packLatest = i /\ panel'.shown = <<packReads[i].report[1]>>
                      \/ packLatest # i /\ panel'.shown = panel.shown
               PROVE  SeenIn(panel'.shown[1])
  <2>1. ASSUME NEW i \in PackSlots PROVE ~PackReadFails(i)
    BY <1>1 DEF PackReadFails, PackEvent
  <2>2. QED
    BY <1>2, <1>3, <1>4, <2>1, PanelShows DEF SeenIn
<1>6. PackShown(i) /\ packEvents = 0
  <2>1. ~PackReadFails(i)
    BY <1>1 DEF PackReadFails, PackEvent
  <2>2. QED
    BY <1>5, <2>1 DEF PackShown
<1>7. packReads[i].awaited /\ packPost.phase = "reading" /\ i # 0
  <2>1. packReads[i].awaited
    BY <1>3, <1>6, PanelAfter
  <2>2. QED
    BY <1>1, <2>1 DEF PackBusyInv, PackSlots
<1>8. CASE packLatest = i /\ panel'.shown = <<packReads[i].report[1]>>
  <2>1. packReads[i].phase = "answered"
    BY <1>6 DEF PackShown
  <2>2. QED
    BY <1>1, <1>6, <1>7, <1>8, <2>1 DEF PackWriteInv
<1>9. CASE packLatest # i /\ panel'.shown = panel.shown
  <2>1. packLatest = 0
    BY <1>6, <1>9 DEF PackShown, PackReadEnds
  <2>2. QED
    BY <1>1, <1>6, <1>7, <1>9, <2>1 DEF PackWriteInv
<1>10. QED
  BY <1>5, <1>8, <1>9

-----------------------------------------------------------------------------
(* What is invariant.                                                        *)

Trial == [status : {"saved", "restored"}, before : Ratings, after : {0} \cup Ratings]
Reports == [source : Sources, days : Days \cup {0}, usage : Nat, trials : Seq(Trial)]
Dialogs == {NoDialog, [kind |-> "try"]} \cup [kind : {"restore"}, id : Ids]

Pages ==
  [source : Sources, days : Days, loaded : BOOLEAN, shown : Reports,
   ratings : [Ids -> {0} \cup Ratings], busy : BOOLEAN, dialog : Dialogs]

Reads ==
  [phase : {"free", "sent", "answered", "failed"}, source : Sources, days : Days \cup {0},
   report : Reports, awaited : BOOLEAN]

Phases == {"sent", "done", "failed", "reading"}
Posts ==
  [action : {"try"}, source : Sources, rating : Ratings, phase : Phases]
    \cup [action : {"restore"}, source : Sources, id : Ids, phase : Phases]
    \cup [action : {"rate"}, source : Sources, id : Ids, rating : Ratings, phase : Phases]

ServerOK == usage \in [Claude -> Nat] /\ trials \in [Claude -> Seq(Trial)]

StateOK ==
  /\ page \in Pages /\ reads \in [Slots -> Reads] /\ latest \in 0 .. MaxReads
  /\ post \in {NoPost} \cup Posts
  /\ clicks \in Nat /\ events \in Nat

\* A report is of an earlier state of the logs and trials, or of this one.
Past(r) == NotOlder(r, Report(r.source, r.days))

\* An answer is what was asked for; a read fails only by a failure.
ReadInv ==
  \A i \in Slots :
    /\ reads[i].phase = "free" => ~reads[i].awaited
    /\ reads[i].phase = "answered" =>
         /\ reads[i].report.source = reads[i].source /\ reads[i].report.days = reads[i].days
         /\ Past(reads[i].report)
    /\ reads[i].phase = "failed" => events > 0

\* A busy page waits for its change, and then for one read.
BusyInv ==
  /\ page.busy = (post # NoPost)
  /\ post.phase = "reading" <=> \E i \in Slots : reads[i].awaited
  /\ \A i, j \in Slots : reads[i].awaited /\ reads[j].awaited => i = j
  /\ post # NoPost => post.source = page.source
  /\ post.phase \in {"done", "reading"} => post.source \in Claude

\* The latest read is for what is chosen.
LatestInv ==
  latest # 0 =>
    /\ reads[latest].phase # "free"
    /\ reads[latest].source = page.source /\ reads[latest].days = page.days

\* What the page shows is of what is chosen, and of an earlier state than the
\* answer that will replace it: that was asked for after it was shown.
ShownInv ==
  page.loaded =>
    /\ page.shown.source = page.source /\ Past(page.shown)
    /\ latest = 0 /\ events = 0 => page.shown.days = page.days
    /\ latest # 0 /\ reads[latest].phase = "answered" => NotOlder(page.shown, reads[latest].report)

\* A change that was accepted is in the latest answer, or on the page.
WriteInv ==
  post.phase = "reading" /\ events = 0 =>
    /\ latest = 0 => page.loaded /\ page.shown.trials = trials[post.source]
    /\ latest # 0 /\ reads[latest].phase = "answered" =>
         reads[latest].report.trials = trials[post.source]

IInv == ServerOK /\ StateOK /\ ReadInv /\ BusyInv /\ LatestInv /\ ShownInv /\ WriteInv

-----------------------------------------------------------------------------
(* Reports of the server, now and later.                                     *)

\* The trials of a source are never fewer, and a restored one stays restored.
Continues(old, new) ==
  /\ Len(new) >= Len(old)
  /\ \A i \in DOMAIN old : old[i].status = "restored" => new[i].status = "restored"

Grown == \A s \in Claude : usage'[s] >= usage[s] /\ Continues(trials[s], trials'[s])

LEMMA LocalSources ==
  /\ All \notin Claude /\ IsFiniteSet(Claude) /\ Sources = Claude \cup {All}
  /\ Slots = 1 .. MaxReads /\ 1 \in Slots /\ MaxReads \in Nat
BY SourcesAssumption, ReadsAssumption DEF SourcesAssumption, ReadsAssumption, Sources, Slots

LEMMA ReportTyped ==
  ASSUME ServerOK, NEW s \in Sources, NEW d \in Days \cup {0}
  PROVE  /\ Report(s, d) \in Reports /\ Report(s, d).source = s /\ Report(s, d).days = d
         /\ Report(s, d).usage = IF s = All THEN TotalOf(usage) ELSE usage[s]
         /\ Report(s, d).trials = IF s = All THEN <<>> ELSE trials[s]
         /\ Past(Report(s, d))
<1> DEFINE r == Report(s, d)
<1>1. r = [source |-> s, days |-> d, usage |-> IF s = All THEN TotalOf(usage) ELSE usage[s],
           trials |-> IF s = All THEN <<>> ELSE trials[s]]
  BY DEF Report
<1>2. r.usage \in Nat
  <2>1. TotalOf(usage) \in Nat
    BY LocalSources, SumNat DEF ServerOK
  <2>2. s # All => usage[s] \in Nat
    BY LocalSources DEF ServerOK
  <2>3. QED
    BY <1>1, <2>1, <2>2
<1>3. r.trials \in Seq(Trial)
  <2>1. <<>> \in Seq(Trial)
    OBVIOUS
  <2>2. QED
    BY <1>1, <2>1, LocalSources DEF ServerOK
<1>4. /\ r.source = s /\ r.days = d
      /\ r.usage = IF s = All THEN TotalOf(usage) ELSE usage[s]
      /\ r.trials = IF s = All THEN <<>> ELSE trials[s]
      /\ r = [source |-> r.source, days |-> r.days, usage |-> r.usage, trials |-> r.trials]
  BY <1>1
<1>5. Past(r) <=> NotOlder(r, r)
  BY <1>4 DEF Past
<1> HIDE DEF r
<1>6. r \in Reports
  BY <1>2, <1>3, <1>4 DEF Reports
<1>7. NotOlder(r, r)
  BY <1>2, <1>3 DEF NotOlder
<1>8. QED
  BY <1>4, <1>5, <1>6, <1>7 DEF r

LEMMA NotOlderTransitive ==
  ASSUME NEW a \in Reports, NEW b \in Reports, NEW c \in Reports,
         a.source = b.source, NotOlder(a, b), NotOlder(b, c)
  PROVE  NotOlder(a, c)
<1>1. SUFFICES ASSUME a.source = c.source
               PROVE  /\ c.usage >= a.usage /\ Len(c.trials) >= Len(a.trials)
                      /\ \A i \in DOMAIN a.trials :
                           a.trials[i].status = "restored" => c.trials[i].status = "restored"
  BY DEF NotOlder
<1>2. /\ a.usage \in Nat /\ b.usage \in Nat /\ c.usage \in Nat
      /\ Len(a.trials) \in Nat /\ Len(b.trials) \in Nat /\ Len(c.trials) \in Nat
      /\ DOMAIN a.trials = 1 .. Len(a.trials) /\ DOMAIN b.trials = 1 .. Len(b.trials)
  BY DEF Reports
<1>3. /\ b.usage >= a.usage /\ Len(b.trials) >= Len(a.trials)
      /\ \A i \in DOMAIN a.trials : a.trials[i].status = "restored" => b.trials[i].status = "restored"
  BY DEF NotOlder
<1>4. /\ c.usage >= b.usage /\ Len(c.trials) >= Len(b.trials)
      /\ \A i \in DOMAIN b.trials : b.trials[i].status = "restored" => c.trials[i].status = "restored"
  BY <1>1 DEF NotOlder
<1>5. DOMAIN a.trials \subseteq DOMAIN b.trials
  BY <1>2, <1>3
<1>6. QED
  BY <1>2, <1>3, <1>4, <1>5

LEMMA ReportsTypedNext == (\A s \in Sources : \A d \in Days \cup {0} : ServerOK =>
         /\ Report(s, d) \in Reports /\ Report(s, d).source = s /\ Report(s, d).days = d
         /\ Report(s, d).usage = IF s = All THEN TotalOf(usage) ELSE usage[s]
         /\ Report(s, d).trials = IF s = All THEN <<>> ELSE trials[s])'
<1>1. \A s \in Sources : \A d \in Days \cup {0} : ServerOK =>
         /\ Report(s, d) \in Reports /\ Report(s, d).source = s /\ Report(s, d).days = d
         /\ Report(s, d).usage = IF s = All THEN TotalOf(usage) ELSE usage[s]
         /\ Report(s, d).trials = IF s = All THEN <<>> ELSE trials[s]
  BY ReportTyped
<1>2. QED
  BY <1>1, PTL

\* What is past stays past while logs and trials only grow.
LEMMA PastKept ==
  ASSUME ServerOK, ServerOK', Grown, NEW r \in Reports, Past(r)
  PROVE  NotOlder(r, Report(r.source, r.days)')
<1> DEFINE now == Report(r.source, r.days)
           next == Report(r.source, r.days)'
           s == r.source
<1>1. s \in Sources /\ r.days \in Days \cup {0}
  BY DEF Reports
<1>2. /\ now \in Reports /\ now.source = s
      /\ now.usage = IF s = All THEN TotalOf(usage) ELSE usage[s]
      /\ now.trials = IF s = All THEN <<>> ELSE trials[s]
  BY <1>1, ReportTyped
<1>3. /\ next \in Reports /\ next.source = s
      /\ next.usage = IF s = All THEN TotalOf(usage') ELSE usage'[s]
      /\ next.trials = IF s = All THEN <<>> ELSE trials'[s]
  BY <1>1, ReportsTypedNext
<1>4. NotOlder(r, now)
  BY DEF Past
<1> HIDE DEF now, next
<1>5. NotOlder(now, next)
  <2>1. CASE s = All
    <3>1. usage \in [Claude -> Int] /\ usage' \in [Claude -> Int]
          /\ \A x \in Claude : usage[x] <= usage'[x]
      BY DEF ServerOK, Grown
    <3>2. TotalOf(usage) <= TotalOf(usage') /\ TotalOf(usage) \in Int /\ TotalOf(usage') \in Int
      BY <3>1, LocalSources, SumMonotone, SumInt
    <3>3. Len(<<>>) >= Len(<<>>) /\ DOMAIN <<>> = {}
      OBVIOUS
    <3>4. QED
      BY <1>2, <1>3, <2>1, <3>2, <3>3 DEF NotOlder
  <2>2. CASE s # All
    <3>1. s \in Claude
      BY <1>1, <2>2, LocalSources
    <3>2. QED
      BY <1>2, <1>3, <2>2, <3>1 DEF NotOlder, Grown, Continues
  <2>3. QED
    BY <2>1, <2>2
<1>6. NotOlder(r, next)
  BY <1>2, <1>3, <1>4, <1>5, NotOlderTransitive
<1>7. QED
  BY <1>6 DEF next

\* A source's trials after a change that it accepts.
Requested(request) ==
  /\ request.source \in Sources
  /\ \/ request.action = "try" /\ request.rating \in Ratings
     \/ request.action = "rate" /\ request.id \in Ids /\ request.rating \in Ratings
     \/ request.action = "restore" /\ request.id \in Ids

LEMMA ChangeKeeps ==
  ASSUME ServerOK, NEW request, Requested(request), Accepts(request),
         usage' = usage, trials' = [trials EXCEPT ![request.source] = Changed(request)]
  PROVE  ServerOK' /\ Grown
<1> DEFINE s == request.source
           old == trials[s]
           new == Changed(request)
<1>1. s \in Claude /\ old \in Seq(Trial)
  BY DEF Accepts, ServerOK
<1>2. Len(old) \in Nat /\ DOMAIN old = 1 .. Len(old) /\ \A i \in DOMAIN old : old[i] \in Trial
  BY <1>1
<1>3. new \in Seq(Trial) /\ Continues(old, new)
  <2>1. CASE request.action = "try"
    <3> DEFINE t == [status |-> "saved", before |-> request.rating, after |-> 0]
    <3>1. t \in Trial
      BY <2>1 DEF Requested, Trial
    <3>2. new = Append(old, t)
      BY <2>1 DEF Changed
    <3> HIDE DEF t, new, old
    <3>3. new \in Seq(Trial) /\ Len(new) = Len(old) + 1 /\ \A i \in 1 .. Len(old) : new[i] = old[i]
      BY <1>1, <3>1, <3>2, AppendProperties
    <3>4. QED
      BY <1>2, <3>3 DEF Continues
  <2>2. CASE request.action = "rate"
    <3> DEFINE n == request.id[2]
               t == [old[n] EXCEPT !.after = request.rating]
    <3>1. n \in DOMAIN old /\ request.rating \in {0} \cup Ratings
      BY <2>2 DEF Accepts, Requested
    <3>2. t \in Trial /\ t.status = old[n].status
      BY <1>2, <3>1 DEF Trial
    <3>3. new = [old EXCEPT ![n] = t]
      BY <2>2 DEF Changed
    <3> HIDE DEF t, new, old, n
    <3>4. new \in Seq(Trial) /\ Len(new) = Len(old)
          /\ \A i \in 1 .. Len(old) : new[i] = IF i = n THEN t ELSE old[i]
      BY <1>1, <1>2, <3>1, <3>2, <3>3, ExceptSeq
    <3>5. QED
      BY <1>2, <3>2, <3>4 DEF Continues
  <2>3. CASE request.action = "restore"
    <3> DEFINE n == request.id[2]
               t == [old[n] EXCEPT !.status = "restored"]
    <3>1. n \in DOMAIN old
      BY <2>3 DEF Accepts
    <3>2. t \in Trial /\ t.status = "restored"
      BY <1>2, <3>1 DEF Trial
    <3>3. new = [old EXCEPT ![n] = t]
      BY <2>3 DEF Changed
    <3> HIDE DEF t, new, old, n
    <3>4. new \in Seq(Trial) /\ Len(new) = Len(old)
          /\ \A i \in 1 .. Len(old) : new[i] = IF i = n THEN t ELSE old[i]
      BY <1>1, <1>2, <3>1, <3>2, <3>3, ExceptSeq
    <3>5. QED
      BY <1>2, <3>2, <3>4 DEF Continues
  <2>4. QED
    BY <2>1, <2>2, <2>3 DEF Requested
<1> HIDE DEF new
<1>4. trials' = [trials EXCEPT ![s] = new]
  BY DEF new
<1>5. trials' \in [Claude -> Seq(Trial)] /\ trials'[s] = new
      /\ \A x \in Claude : x # s => trials'[x] = trials[x]
  BY <1>1, <1>3, <1>4 DEF ServerOK
<1>6. \A x \in Claude : usage[x] \in Nat /\ Len(trials[x]) \in Nat
  BY DEF ServerOK
<1>7. Grown
  BY <1>3, <1>5, <1>6 DEF Grown, Continues
<1>8. QED
  BY <1>5, <1>7 DEF ServerOK

-----------------------------------------------------------------------------
(* Steps of the local page.                                                  *)

LEMMA NotGrown == ASSUME ServerOK, UNCHANGED server PROVE ServerOK' /\ Grown
<1>1. usage' = usage /\ trials' = trials
  BY DEF server
<1>2. \A s \in Claude : usage[s] \in Nat /\ Len(trials[s]) \in Nat
  BY DEF ServerOK
<1>3. QED
  BY <1>1, <1>2 DEF ServerOK, Grown, Continues

LEMMA StateTyped ==
  ASSUME IInv
  PROVE  /\ page.source \in Sources /\ page.days \in Days /\ page.loaded \in BOOLEAN
         /\ page.shown \in Reports /\ page.ratings \in [Ids -> {0} \cup Ratings]
         /\ page.busy \in BOOLEAN /\ page.dialog \in Dialogs
         /\ \A i \in Slots : /\ reads[i] \in Reads /\ reads[i].report \in Reports
                             /\ reads[i].source \in Sources /\ reads[i].days \in Days \cup {0}
                             /\ reads[i].awaited \in BOOLEAN
         /\ DOMAIN reads = Slots
         /\ latest \in Nat /\ (latest # 0 => latest \in Slots)
         /\ clicks \in Nat /\ events \in Nat
<1>1. page \in Pages /\ reads \in [Slots -> Reads] /\ latest \in 0 .. MaxReads
      /\ clicks \in Nat /\ events \in Nat
  BY DEF IInv, StateOK
<1>2. /\ page.source \in Sources /\ page.days \in Days /\ page.loaded \in BOOLEAN
      /\ page.shown \in Reports /\ page.ratings \in [Ids -> {0} \cup Ratings]
      /\ page.busy \in BOOLEAN /\ page.dialog \in Dialogs
  BY <1>1 DEF Pages
<1>3. \A i \in Slots : reads[i] \in Reads
  BY <1>1
<1>4. \A i \in Slots : /\ reads[i].report \in Reports
                       /\ reads[i].source \in Sources /\ reads[i].days \in Days \cup {0}
                       /\ reads[i].awaited \in BOOLEAN
  BY <1>3 DEF Reads
<1>5. latest \in Nat /\ (latest # 0 => latest \in Slots)
  BY <1>1, LocalSources
<1>6. QED
  BY <1>1, <1>2, <1>3, <1>4, <1>5

\* A step that leaves the reads, and what the page shows and has chosen.
LEMMA Moves ==
  ASSUME IInv, ServerOK', Grown, UNCHANGED <<reads, latest>>,
         page'.source = page.source, page'.days = page.days,
         page'.loaded = page.loaded, page'.shown = page.shown,
         events' \in Nat, events' >= events,
         post'.phase = "reading" /\ events' = 0 => post' = post /\ trials' = trials
  PROVE  ReadInv' /\ LatestInv' /\ ShownInv' /\ WriteInv'
<1>1. reads' = reads /\ latest' = latest
  OBVIOUS
<1>2. ServerOK /\ ReadInv /\ LatestInv /\ ShownInv /\ WriteInv /\ events \in Nat
  BY DEF IInv, StateOK
<1>3. \A r \in Reports : Past(r) => NotOlder(r, Report(r.source, r.days)')
  BY <1>2, PastKept
<1>4. ASSUME NEW i \in Slots
      PROVE  /\ reads'[i].phase = "free" => ~reads'[i].awaited
             /\ reads'[i].phase = "answered" =>
                  /\ reads'[i].report.source = reads'[i].source
                  /\ reads'[i].report.days = reads'[i].days /\ Past(reads[i].report)'
             /\ reads'[i].phase = "failed" => events' > 0
  <2>1. reads[i].report \in Reports
    BY StateTyped
  <2>2. reads[i].phase = "answered" => Past(reads[i].report)'
    BY <1>1, <1>2, <1>3, <2>1 DEF ReadInv, Past
  <2>3. events > 0 => events' > 0
    BY <1>2
  <2>4. QED
    BY <1>1, <1>2, <2>2, <2>3 DEF ReadInv
<1>5. ReadInv'
  BY <1>1, <1>4 DEF ReadInv
<1>6. LatestInv'
  BY <1>1, <1>2 DEF LatestInv
<1>7. ShownInv'
  <2>1. page.shown \in Reports
    BY StateTyped
  <2>2. Past(page.shown) => NotOlder(page.shown, Report(page.shown.source, page.shown.days)')
    BY <1>3, <2>1
  <2>3. events' = 0 => events = 0
    BY <1>2
  <2>4. Past(page.shown) => Past(page.shown)'
    BY <2>2 DEF Past
  <2>5. QED
    BY <1>1, <1>2, <2>3, <2>4 DEF ShownInv
<1>8. WriteInv'
  BY <1>1, <1>2 DEF WriteInv
<1>9. QED
  BY <1>5, <1>6, <1>7, <1>8

LEMMA FreeRead ==
  /\ NoReport \in Reports /\ NoRead \in Reads
  /\ NoRead.phase = "free" /\ NoRead.awaited = FALSE
<1>1. <<>> \in Seq(Trial)
  OBVIOUS
<1>2. NoReport \in Reports
  BY <1>1, LocalSources DEF NoReport, Reports
<1>3. QED
  BY <1>2, LocalSources DEF NoRead, Reads

\* A step that sends a read for what is chosen after it.
LEMMA Sent ==
  ASSUME IInv, NEW i \in Slots, NEW aw \in BOOLEAN, UNCHANGED server, events' = events,
         page'.source \in Sources, page'.days \in Days,
         Send(i, page'.source, page'.days, aw),
         page'.loaded => page.loaded /\ page'.shown = page.shown /\ page'.source = page.source
  PROVE  /\ ServerOK' /\ reads' \in [Slots -> Reads] /\ latest' \in 0 .. MaxReads
         /\ ReadInv' /\ LatestInv' /\ ShownInv' /\ WriteInv'
         /\ \A j \in Slots : reads'[j].awaited = IF j = i THEN aw ELSE reads[j].awaited
         /\ ~reads[i].awaited
<1> DEFINE q == [NoRead EXCEPT !.phase = "sent", !.source = page'.source, !.days = page'.days,
                               !.awaited = aw]
<1>1. reads' = [reads EXCEPT ![i] = q] /\ latest' = i /\ reads[i].phase = "free"
  BY DEF Send
<1>2. ServerOK' /\ ServerOK /\ Grown
  BY NotGrown DEF IInv
<1>3. ReadInv /\ ShownInv /\ events \in Nat
  BY DEF IInv, StateOK
<1>4. reads'[i] = q /\ \A j \in Slots : j # i => reads'[j] = reads[j]
  BY <1>1, StateTyped
<1>5. NoRead \in Reads
  BY FreeRead
<1>6. q \in Reads
  BY <1>5 DEF Reads
<1>7. q.phase = "sent" /\ q.source = page'.source /\ q.days = page'.days /\ q.awaited = aw
  BY <1>5 DEF Reads
<1> HIDE DEF q
<1>8. reads' \in [Slots -> Reads] /\ latest' \in 0 .. MaxReads
  <2>1. reads \in [Slots -> Reads]
    BY DEF IInv, StateOK
  <2>2. QED
    BY <1>1, <1>6, <2>1, LocalSources
<1>9. ~reads[i].awaited
  BY <1>1, <1>3 DEF ReadInv
<1>10. \A r \in Reports : Past(r) => Past(r)'
  BY <1>2, PastKept DEF Past
<1>11. ReadInv'
  <2>1. SUFFICES ASSUME NEW j \in Slots
                 PROVE  /\ reads'[j].phase = "free" => ~reads'[j].awaited
                        /\ reads'[j].phase = "answered" =>
                             /\ reads'[j].report.source = reads'[j].source
                             /\ reads'[j].report.days = reads'[j].days
                             /\ Past(reads[j].report)'
                        /\ reads'[j].phase = "failed" => events > 0
    BY DEF ReadInv
  <2>2. CASE j = i
    BY <1>4, <1>7, <2>2
  <2>3. CASE j # i
    <3>1. reads'[j] = reads[j] /\ reads[j].report \in Reports
      BY <1>4, <2>3, StateTyped
    <3>2. QED
      BY <1>3, <1>10, <3>1 DEF ReadInv
  <2>4. QED
    BY <2>2, <2>3
<1>12. LatestInv'
  BY <1>1, <1>4, <1>7 DEF LatestInv
<1>13. ShownInv'
  <2>1. page.shown \in Reports /\ i # 0
    BY StateTyped, LocalSources
  <2>2. ASSUME page'.loaded
        PROVE  page'.shown = page.shown /\ page'.shown.source = page'.source /\ Past(page.shown)'
    BY <1>3, <1>10, <2>1, <2>2 DEF ShownInv
  <2>3. reads'[latest'].phase = "sent" /\ latest' # 0
    BY <1>1, <1>4, <1>7, <2>1
  <2>4. QED
    BY <2>2, <2>3 DEF ShownInv
<1>14. WriteInv'
  <2>1. reads'[latest'].phase = "sent" /\ latest' # 0
    BY <1>1, <1>4, <1>7, LocalSources
  <2>2. QED
    BY <2>1 DEF WriteInv
<1>15. \A j \in Slots : reads'[j].awaited = IF j = i THEN aw ELSE reads[j].awaited
  BY <1>4, <1>7
<1>16. QED
  BY <1>2, <1>8, <1>9, <1>11, <1>12, <1>13, <1>14, <1>15

LEMMA SendSteps ==
  ASSUME IInv, NEW i \in Slots, Poll(i) \/ ChooseSource(i) \/ ChooseDays(i) \/ PostDone(i)
  PROVE  IInv'
<1>0. /\ page \in Pages /\ post \in {NoPost} \cup Posts /\ clicks \in Nat /\ events \in Nat
      /\ BusyInv
  BY DEF IInv, StateOK
<1>1. UNCHANGED server /\ events' = events
  BY DEF Poll, ChooseSource, ChooseDays, PostDone, bounds
<1>2. page.source \in Sources /\ page.days \in Days
  BY StateTyped
<1>3. CASE Poll(i) \/ ChooseSource(i) \/ ChooseDays(i)
  <2>1. /\ page' \in Pages /\ page'.busy = page.busy
        /\ page'.source \in Sources /\ page'.days \in Days
        /\ Send(i, page'.source, page'.days, FALSE)
        /\ page'.loaded => page.loaded /\ page'.shown = page.shown /\ page'.source = page.source
        /\ page'.source # page.source => ~page.busy
    <3>1. CASE Poll(i)
      BY <1>0, <1>2, <3>1 DEF Poll
    <3>2. CASE ChooseSource(i)
      <4>1. PICK s \in Sources : page' = [page EXCEPT !.source = s, !.loaded = FALSE]
                                 /\ Send(i, s, page.days, FALSE) /\ ~page.busy
        BY <3>2 DEF ChooseSource
      <4>2. /\ page' \in Pages /\ page'.source = s /\ page'.days = page.days
            /\ page'.busy = page.busy /\ page'.loaded = FALSE
        BY <1>0, <4>1 DEF Pages
      <4>3. QED
        BY <1>2, <4>1, <4>2
    <3>3. CASE ChooseDays(i)
      <4>1. PICK d \in Days : page' = [page EXCEPT !.days = d] /\ Send(i, page.source, d, FALSE)
        BY <3>3 DEF ChooseDays
      <4>2. /\ page' \in Pages /\ page'.source = page.source /\ page'.days = d
            /\ page'.busy = page.busy /\ page'.loaded = page.loaded /\ page'.shown = page.shown
        BY <1>0, <4>1 DEF Pages
      <4>3. QED
        BY <1>2, <4>1, <4>2
    <3>4. QED
      BY <1>3, <3>1, <3>2, <3>3
  <2>2. post' = post
    BY <1>3 DEF Poll, ChooseSource, ChooseDays
  <2>3. clicks' \in Nat
    <3>1. clicks' = clicks \/ clicks' = clicks + 1
      BY <1>3 DEF Poll, ChooseSource, ChooseDays, UserActs, bounds
    <3>2. QED
      BY <1>0, <3>1
  <2>4. /\ ServerOK' /\ reads' \in [Slots -> Reads] /\ latest' \in 0 .. MaxReads
        /\ ReadInv' /\ LatestInv' /\ ShownInv' /\ WriteInv'
        /\ \A j \in Slots : reads'[j].awaited = IF j = i THEN FALSE ELSE reads[j].awaited
        /\ ~reads[i].awaited
    BY <1>1, <2>1, Sent
  <2>5. BusyInv'
    <3>1. \A j \in Slots : reads'[j].awaited <=> reads[j].awaited
      BY <2>4
    <3>2. page'.busy = (post' # NoPost) /\ (post' # NoPost => post'.source = page'.source)
      BY <1>0, <2>1, <2>2 DEF BusyInv
    <3>3. QED
      BY <1>0, <2>2, <3>1, <3>2 DEF BusyInv
  <2>6. QED
    BY <1>0, <1>1, <2>1, <2>2, <2>3, <2>4, <2>5 DEF IInv, StateOK
<1>4. CASE PostDone(i)
  <2>1. page' = page /\ clicks' = clicks /\ Send(i, page'.source, page'.days, TRUE)
        /\ post.phase = "done" /\ post' = [post EXCEPT !.phase = "reading"]
    BY <1>4 DEF PostDone, bounds
  <2>2. /\ ServerOK' /\ reads' \in [Slots -> Reads] /\ latest' \in 0 .. MaxReads
        /\ ReadInv' /\ LatestInv' /\ ShownInv' /\ WriteInv'
        /\ \A j \in Slots : reads'[j].awaited = IF j = i THEN TRUE ELSE reads[j].awaited
        /\ ~reads[i].awaited
    BY <1>1, <1>2, <2>1, Sent
  <2>3. post \in Posts
    BY <1>0, <2>1 DEF NoPost
  <2>4. post' \in Posts /\ post'.phase = "reading" /\ post'.source = post.source
    BY <2>1, <2>3 DEF Posts, Phases
  <2>5. post' # NoPost /\ post # NoPost
    BY <2>1, <2>4 DEF NoPost
  <2>6. \A j \in Slots : reads'[j].awaited <=> j = i
    BY <1>0, <2>1, <2>2 DEF BusyInv
  <2>7. BusyInv'
    BY <1>0, <2>1, <2>4, <2>5, <2>6 DEF BusyInv
  <2>8. QED
    BY <1>0, <1>1, <2>1, <2>2, <2>4, <2>7 DEF IInv, StateOK
<1>5. QED
  BY <1>3, <1>4

\* A step that changes one read, other than by sending it.
LEMMA ReadChanged ==
  ASSUME IInv, NEW i \in Slots, NEW q \in Reads, reads' = [reads EXCEPT ![i] = q],
         UNCHANGED server, events' \in Nat, events' >= events,
         q.phase = "free" => ~q.awaited,
         q.phase = "answered" => /\ q.report.source = q.source /\ q.report.days = q.days
                                 /\ Past(q.report),
         q.phase = "failed" => events' > 0
  PROVE  /\ ServerOK' /\ reads' \in [Slots -> Reads] /\ ReadInv'
         /\ \A r \in Reports : Past(r) => Past(r)'
<1>1. reads'[i] = q /\ (\A j \in Slots : j # i => reads'[j] = reads[j])
  BY StateTyped
<1>2. reads' \in [Slots -> Reads]
  BY DEF IInv, StateOK
<1>3. ServerOK' /\ Grown
  BY NotGrown DEF IInv
<1>4. \A r \in Reports : Past(r) => Past(r)'
  BY <1>3, PastKept DEF IInv, Past
<1>5. ReadInv /\ events \in Nat
  BY DEF IInv, StateOK
<1>6. ReadInv'
  <2>1. SUFFICES ASSUME NEW j \in Slots
                 PROVE  /\ reads'[j].phase = "free" => ~reads'[j].awaited
                        /\ reads'[j].phase = "answered" =>
                             /\ reads'[j].report.source = reads'[j].source
                             /\ reads'[j].report.days = reads'[j].days
                             /\ Past(reads[j].report)'
                        /\ reads'[j].phase = "failed" => events' > 0
    BY DEF ReadInv
  <2>2. CASE j = i
    <3>1. q.report \in Reports
      BY DEF Reads
    <3>2. Past(q.report) => NotOlder(q.report, Report(q.report.source, q.report.days)')
      BY <1>3, <3>1, PastKept DEF IInv
    <3>3. Past(q.report) => Past(reads[j].report)'
      BY <1>1, <2>2, <3>2 DEF Past
    <3>4. QED
      BY <1>1, <2>2, <3>3
  <2>3. CASE j # i
    <3>1. reads'[j] = reads[j] /\ reads[j].report \in Reports
      BY <1>1, <2>3, StateTyped
    <3>2. Past(reads[j].report) => Past(reads[j].report)'
      BY <1>3, <3>1, PastKept DEF IInv, Past
    <3>3. QED
      BY <1>5, <3>1, <3>2 DEF ReadInv
  <2>4. QED
    BY <2>2, <2>3
<1>7. QED
  BY <1>2, <1>3, <1>4, <1>6

LEMMA AnswerSteps ==
  ASSUME IInv, NEW i \in Slots, ReadAnswered(i) \/ ReadFails(i)
  PROVE  IInv'
<1>0. /\ BusyInv /\ LatestInv /\ ShownInv /\ WriteInv /\ ServerOK /\ ReadInv
      /\ page \in Pages /\ post \in {NoPost} \cup Posts
      /\ clicks \in Nat /\ events \in Nat /\ latest \in 0 .. MaxReads
  BY DEF IInv, StateOK
<1>1. UNCHANGED <<server, page, latest, post>> /\ clicks' = clicks
      /\ (events' = events \/ events' = events + 1)
  BY DEF ReadAnswered, ReadFails, bounds
<1>2. events' \in Nat /\ events' >= events
  BY <1>0, <1>1
<1>3. reads[i].phase = "sent" /\ reads[i] \in Reads
  BY StateTyped DEF ReadAnswered, ReadFails
<1> DEFINE now == Report(reads[i].source, reads[i].days)
           q == [reads[i] EXCEPT !.phase = "answered", !.report = now]
           x == [reads[i] EXCEPT !.phase = "failed"]
<1>4. /\ now \in Reports /\ now.source = reads[i].source /\ now.days = reads[i].days /\ Past(now)
      /\ now.trials = IF reads[i].source = All THEN <<>> ELSE trials[reads[i].source]
  BY <1>0, StateTyped, ReportTyped
<1>5. CASE ReadAnswered(i)
  <2>1. reads' = [reads EXCEPT ![i] = q]
    BY <1>5, StateTyped DEF ReadAnswered
  <2>2. /\ q \in Reads /\ q.phase = "answered" /\ q.report = now /\ q.awaited = reads[i].awaited
        /\ q.source = reads[i].source /\ q.days = reads[i].days
    BY <1>3, <1>4 DEF Reads
  <2> HIDE DEF q, now
  <2>3. /\ ServerOK' /\ reads' \in [Slots -> Reads] /\ ReadInv'
        /\ \A r \in Reports : Past(r) => Past(r)'
    BY <1>1, <1>2, <1>4, <2>1, <2>2, ReadChanged
  <2>4. reads'[i] = q /\ \A j \in Slots : j # i => reads'[j] = reads[j]
    BY <2>1, StateTyped
  <2>5. \A j \in Slots : reads'[j].awaited = reads[j].awaited
    BY <2>2, <2>4
  <2>6. BusyInv'
    BY <1>0, <1>1, <2>5 DEF BusyInv
  <2>7. latest # 0 => latest \in Slots
    BY StateTyped
  <2>8. LatestInv'
    BY <1>0, <1>1, <2>2, <2>4, <2>7 DEF LatestInv
  <2>9. events' = events
    BY <1>5 DEF ReadAnswered, bounds
  <2>10. ShownInv'
    <3>1. page.shown \in Reports
      BY StateTyped
    <3>2. SUFFICES ASSUME page.loaded
                   PROVE  /\ page.shown.source = page.source /\ Past(page.shown)'
                          /\ latest = 0 /\ events = 0 => page.shown.days = page.days
                          /\ latest # 0 /\ reads'[latest].phase = "answered"
                               => NotOlder(page.shown, reads'[latest].report)
      BY <1>1, <2>9 DEF ShownInv
    <3>3. Past(page.shown)'
      BY <1>0, <1>1, <2>3, <3>1, <3>2 DEF ShownInv
    <3>4. ASSUME latest = i PROVE NotOlder(page.shown, reads'[latest].report)
      <4>1. page.shown.source = reads[i].source /\ Past(page.shown)
        BY <1>0, <2>7, <3>2, <3>4, LocalSources DEF ShownInv, LatestInv
      <4>2. \A d : NotOlder(page.shown, Report(page.shown.source, d))
              <=> NotOlder(page.shown, Report(page.shown.source, page.shown.days))
        BY DEF NotOlder, Report
      <4>3. NotOlder(page.shown, now)
        BY <4>1, <4>2 DEF Past, now
      <4>4. QED
        BY <2>2, <2>4, <3>4, <4>3
    <3>5. QED
      BY <1>0, <2>4, <2>7, <3>2, <3>3, <3>4 DEF ShownInv
  <2>11. WriteInv'
    <3>1. SUFFICES ASSUME post.phase = "reading", events = 0
                   PROVE  /\ latest = 0 => page.loaded /\ page.shown.trials = trials[post.source]
                          /\ latest # 0 /\ reads'[latest].phase = "answered" =>
                               reads'[latest].report.trials = trials[post.source]
      BY <1>1, <2>9 DEF WriteInv, server
    <3>2. post.source = page.source /\ post.source \in Claude
      BY <1>0, <3>1 DEF BusyInv, NoPost
    <3>3. ASSUME latest = i PROVE reads'[latest].report.trials = trials[post.source]
      <4>1. reads[i].source = post.source
        BY <1>0, <2>7, <3>2, <3>3, LocalSources DEF LatestInv
      <4>2. QED
        BY <1>4, <2>2, <2>4, <3>2, <3>3, <4>1, LocalSources
    <3>4. QED
      BY <1>0, <2>4, <2>7, <3>1, <3>3 DEF WriteInv
  <2>12. QED
    BY <1>0, <1>1, <1>2, <2>3, <2>6, <2>8, <2>10, <2>11 DEF IInv, StateOK
<1>6. CASE ReadFails(i)
  <2>1. reads' = [reads EXCEPT ![i] = x]
    BY <1>6, StateTyped DEF ReadFails
  <2>2. /\ x \in Reads /\ x.phase = "failed" /\ x.awaited = reads[i].awaited
        /\ x.source = reads[i].source /\ x.days = reads[i].days
    BY <1>3 DEF Reads
  <2>3. events' > 0
    BY <1>0, <1>6 DEF ReadFails
  <2> HIDE DEF x
  <2>4. /\ ServerOK' /\ reads' \in [Slots -> Reads] /\ ReadInv'
        /\ \A r \in Reports : Past(r) => Past(r)'
    BY <1>1, <1>2, <2>1, <2>2, <2>3, ReadChanged
  <2>5. reads'[i] = x /\ \A j \in Slots : j # i => reads'[j] = reads[j]
    BY <2>1, StateTyped
  <2>6. \A j \in Slots : reads'[j].awaited = reads[j].awaited
    BY <2>2, <2>5
  <2>7. BusyInv'
    BY <1>0, <1>1, <2>6 DEF BusyInv
  <2>8. latest # 0 => latest \in Slots
    BY StateTyped
  <2>9. LatestInv'
    BY <1>0, <1>1, <2>2, <2>5, <2>8 DEF LatestInv
  <2>10. ShownInv'
    <3>1. page.shown \in Reports
      BY StateTyped
    <3>2. Past(page.shown) => Past(page.shown)'
      BY <1>1, <2>4, <3>1
    <3>3. QED
      BY <1>0, <1>1, <2>2, <2>3, <2>5, <2>8, <3>2 DEF ShownInv
  <2>11. WriteInv'
    BY <2>3 DEF WriteInv
  <2>12. QED
    BY <1>0, <1>1, <1>2, <2>4, <2>7, <2>9, <2>10, <2>11 DEF IInv, StateOK
<1>7. QED
  BY <1>5, <1>6

LEMMA RatingsTyped ==
  ASSUME IInv, NEW r \in Reports
  PROVE  RatingsAfter(r) \in [Ids -> {0} \cup Ratings]
<1>1. SUFFICES ASSUME NEW id \in Ids PROVE RatingsAfter(r)[id] \in {0} \cup Ratings
  BY DEF RatingsAfter
<1>2. page.ratings[id] \in {0} \cup Ratings
  BY StateTyped
<1>3. ASSUME id \in ShownIds(r) PROVE Rated(r, id) \in {0} \cup Ratings
  <2>1. r.trials \in Seq(Trial) /\ id[2] \in DOMAIN r.trials
    BY <1>3 DEF ShownIds, Reports
  <2>2. r.trials[id[2]] \in Trial
    BY <2>1
  <2>3. QED
    BY <2>2 DEF Rated, Trial
<1>4. RatingsAfter(r)[id] \in {0, page.ratings[id]} \/ (id \in ShownIds(r) /\ RatingsAfter(r)[id] = Rated(r, id))
  BY <1>1 DEF RatingsAfter
<1>5. QED
  BY <1>2, <1>3, <1>4

\* An answer is shown, or leaves the figures and the rating controls.
LEMMA Shows ==
  ASSUME IInv, NEW i \in Slots, ReadShown(i)
  PROVE  /\ page' \in Pages /\ page'.source = page.source /\ page'.days = page.days
         /\ (page'.busy <=> page.busy /\ ~reads[i].awaited)
         /\ reads[i].phase = "answered" /\ latest = i =>
              /\ page'.loaded /\ page'.shown = reads[i].report
              /\ page'.ratings = RatingsAfter(reads[i].report)
         /\ ~(reads[i].phase = "answered" /\ latest = i) =>
              /\ page'.loaded = page.loaded /\ page'.shown = page.shown
              /\ page'.ratings = page.ratings
<1> DEFINE show == reads[i].phase = "answered" /\ latest = i
           new == IF show THEN reads[i].report ELSE page.shown
           marks == IF show THEN RatingsAfter(reads[i].report) ELSE page.ratings
<1>1. page' = [page EXCEPT !.loaded = @ \/ show, !.shown = new, !.ratings = marks,
                           !.busy = @ /\ ~reads[i].awaited]
  BY DEF ReadShown, IsCurrent
<1>2. /\ reads[i].report \in Reports /\ reads[i].awaited \in BOOLEAN
      /\ page.shown \in Reports /\ page.ratings \in [Ids -> {0} \cup Ratings]
      /\ page.loaded \in BOOLEAN /\ page.busy \in BOOLEAN /\ page \in Pages
  BY StateTyped DEF IInv, StateOK
<1>3. new \in Reports /\ marks \in [Ids -> {0} \cup Ratings]
      /\ (page.loaded \/ show) \in BOOLEAN /\ (page.busy /\ ~reads[i].awaited) \in BOOLEAN
  BY <1>2, RatingsTyped
<1>4. /\ show => new = reads[i].report /\ marks = RatingsAfter(reads[i].report)
      /\ ~show => new = page.shown /\ marks = page.ratings
      /\ show <=> reads[i].phase = "answered" /\ latest = i
  OBVIOUS
<1> HIDE DEF show, new, marks
<1>5. /\ page' \in Pages /\ page'.source = page.source /\ page'.days = page.days
      /\ (page'.loaded <=> page.loaded \/ show) /\ page'.loaded \in BOOLEAN
      /\ page'.shown = new /\ page'.ratings = marks
      /\ (page'.busy <=> page.busy /\ ~reads[i].awaited)
  BY <1>1, <1>2, <1>3 DEF Pages
<1>6. QED
  BY <1>2, <1>4, <1>5

LEMMA ReadShownStep == ASSUME IInv, NEW i \in Slots, ReadShown(i) PROVE IInv'
<1>0. /\ BusyInv /\ LatestInv /\ ShownInv /\ WriteInv /\ ServerOK /\ ReadInv
      /\ page \in Pages /\ post \in {NoPost} \cup Posts
      /\ clicks \in Nat /\ events \in Nat /\ latest \in 0 .. MaxReads
  BY DEF IInv, StateOK
<1> DEFINE show == reads[i].phase = "answered" /\ latest = i
<1>1. /\ UNCHANGED server /\ clicks' = clicks /\ events' = events
      /\ reads' = [reads EXCEPT ![i] = NoRead]
      /\ latest' = IF latest = i THEN 0 ELSE latest
      /\ post' = IF reads[i].awaited THEN NoPost ELSE post
      /\ reads[i].phase \in {"answered", "failed"}
  BY DEF ReadShown, bounds
<1>2. /\ reads[i].report \in Reports /\ reads[i].awaited \in BOOLEAN
      /\ page.shown \in Reports /\ page.busy \in BOOLEAN
      /\ page.source \in Sources /\ page.days \in Days
  BY StateTyped
<1>3. /\ page' \in Pages /\ page'.source = page.source /\ page'.days = page.days
      /\ (page'.busy <=> page.busy /\ ~reads[i].awaited)
      /\ show => page'.loaded /\ page'.shown = reads[i].report
      /\ ~show => page'.loaded = page.loaded /\ page'.shown = page.shown
  BY Shows
<1>4. show <=> reads[i].phase = "answered" /\ latest = i
  OBVIOUS
<1>5. page'.busy \in BOOLEAN
  BY <1>3 DEF Pages
<1> HIDE DEF show
<1>6. reads'[i] = NoRead /\ \A j \in Slots : j # i => reads'[j] = reads[j]
  BY <1>1, StateTyped
<1>7. /\ ServerOK' /\ reads' \in [Slots -> Reads] /\ ReadInv'
      /\ \A r \in Reports : Past(r) => Past(r)'
  <2>1. events' >= events /\ events' \in Nat
    BY <1>0, <1>1
  <2>2. NoRead \in Reads /\ NoRead.phase = "free" /\ NoRead.awaited = FALSE
    BY FreeRead
  <2>3. QED
    BY <1>1, <2>1, <2>2, ReadChanged
<1>8. ASSUME NEW r \in Reports, Past(r), page'.shown = r PROVE Past(page.shown)'
  <2>1. ServerOK' /\ Grown
    BY <1>0, <1>1, NotGrown
  <2>2. NotOlder(r, Report(r.source, r.days)')
    BY <1>0, <1>8, <2>1, PastKept
  <2>3. QED
    BY <1>8, <2>2 DEF Past, Report
<1>9. \A j \in Slots : reads'[j].awaited <=> j # i /\ reads[j].awaited
  BY <1>6, FreeRead
<1>10. BusyInv'
  <2>1. CASE reads[i].awaited
    <3>1. post' = NoPost /\ page'.busy = FALSE /\ post'.phase = "none"
      BY <1>1, <1>3, <2>1 DEF NoPost
    <3>2. \A j \in Slots : ~reads'[j].awaited
      BY <1>0, <1>9, <2>1 DEF BusyInv
    <3>3. QED
      BY <3>1, <3>2 DEF BusyInv
  <2>2. CASE ~reads[i].awaited
    <3>1. post' = post /\ page'.busy = page.busy
      BY <1>1, <1>2, <1>3, <1>5, <2>2
    <3>2. \A j \in Slots : reads'[j].awaited <=> reads[j].awaited
      BY <1>9, <2>2
    <3>3. QED
      BY <1>0, <1>3, <3>1, <3>2 DEF BusyInv
  <2>3. QED
    BY <2>1, <2>2
<1>11. latest # 0 => latest \in Slots
  BY StateTyped
<1>12. i # 0 /\ latest' \in 0 .. MaxReads
  BY <1>0, <1>1, LocalSources
<1>13. LatestInv'
  <2>1. latest' # 0 => latest' = latest /\ latest # i
    BY <1>1
  <2>2. QED
    BY <1>0, <1>3, <1>6, <1>11, <2>1 DEF LatestInv
<1>14. reads[i].phase = "failed" => events > 0
  BY <1>0 DEF ReadInv
<1>15. ShownInv'
  <2>1. CASE show
    <3>1. latest = i /\ latest' = 0 /\ page'.shown = reads[i].report
      BY <1>1, <1>3, <1>4, <2>1
    <3>2. /\ reads[i].report.source = page.source /\ reads[i].report.days = page.days
          /\ Past(reads[i].report)
      BY <1>0, <1>4, <1>12, <2>1 DEF ReadInv, LatestInv
    <3>3. Past(page.shown)'
      BY <1>2, <1>8, <3>1, <3>2
    <3>4. QED
      BY <1>3, <3>1, <3>2, <3>3 DEF ShownInv
  <2>2. CASE ~show
    <3>1. page'.shown = page.shown /\ page'.loaded = page.loaded
      BY <1>0, <1>3, <2>2
    <3>2. SUFFICES ASSUME page.loaded
                   PROVE  /\ page.shown.source = page.source /\ Past(page.shown)'
                          /\ latest' = 0 /\ events = 0 => page.shown.days = page.days
                          /\ latest' # 0 /\ reads'[latest'].phase = "answered"
                               => NotOlder(page.shown, reads'[latest'].report)
      BY <1>1, <1>3, <3>1 DEF ShownInv
    <3>3. Past(page.shown)'
      BY <1>0, <1>2, <1>8, <3>1, <3>2 DEF ShownInv
    <3>4. latest' = 0 /\ events = 0 => latest = 0
      BY <1>1, <1>4, <1>14, <2>2
    <3>5. latest' # 0 => latest' = latest /\ reads'[latest'] = reads[latest]
      BY <1>1, <1>6, <1>11
    <3>6. QED
      BY <1>0, <3>2, <3>3, <3>4, <3>5 DEF ShownInv
  <2>3. QED
    BY <2>1, <2>2
<1>16. WriteInv'
  <2>1. SUFFICES ASSUME post'.phase = "reading", events = 0
                 PROVE  /\ latest' = 0 => page'.loaded /\ page'.shown.trials = trials[post.source]
                        /\ latest' # 0 /\ reads'[latest'].phase = "answered" =>
                             reads'[latest'].report.trials = trials[post.source]
    <3>1. post'.phase = "reading" => post' = post
      BY <1>1 DEF NoPost
    <3>2. QED
      BY <1>1, <3>1 DEF WriteInv, server
  <2>2. post.phase = "reading"
    BY <1>1, <2>1 DEF NoPost
  <2>3. CASE show
    BY <1>0, <1>1, <1>3, <1>4, <1>12, <2>1, <2>2, <2>3 DEF WriteInv
  <2>4. CASE ~show
    <3>1. latest' = 0 => latest = 0
      BY <1>1, <1>4, <1>14, <2>1, <2>4
    <3>2. latest' # 0 => latest' = latest /\ reads'[latest'] = reads[latest]
      BY <1>1, <1>6, <1>11
    <3>3. page'.shown = page.shown /\ (page.loaded => page'.loaded)
      BY <1>3, <2>4
    <3>4. QED
      BY <1>0, <2>1, <2>2, <3>1, <3>2, <3>3 DEF WriteInv
  <2>5. QED
    BY <2>3, <2>4
<1>17. post' \in {NoPost} \cup Posts
  BY <1>0, <1>1
<1>18. QED
  BY <1>0, <1>1, <1>3, <1>7, <1>10, <1>12, <1>13, <1>15, <1>16, <1>17 DEF IInv, StateOK

\* A step of the controls: the page's choices and what it shows stay.
LEMMA ControlSteps ==
  ASSUME IInv, OpenTry \/ OpenRestore \/ CloseDialog \/ PickRating \/ Confirm \/ SaveRating
  PROVE  IInv'
<1>0. /\ BusyInv /\ ServerOK /\ page \in Pages /\ post \in {NoPost} \cup Posts
      /\ reads \in [Slots -> Reads] /\ latest \in 0 .. MaxReads
      /\ clicks \in Nat /\ events \in Nat
  BY DEF IInv, StateOK
<1>1. /\ UNCHANGED <<server, reads, latest>> /\ events' = events
      /\ (clicks' = clicks \/ clicks' = clicks + 1)
  BY DEF OpenTry, OpenRestore, CloseDialog, PickRating, Confirm, SaveRating, UserActs, bounds
<1>2. /\ page' \in Pages /\ page'.source = page.source /\ page'.days = page.days
      /\ page'.loaded = page.loaded /\ page'.shown = page.shown
      /\ \/ page'.busy = page.busy /\ post' = post
         \/ page'.busy = TRUE /\ post' \in Posts /\ post'.phase = "sent" /\ ~page.busy
            /\ post'.source = page.source
  <2>1. CASE OpenTry
    <3> DEFINE d == [kind |-> "try"]
    <3>1. page' = [page EXCEPT !.dialog = d] /\ post' = post /\ d \in Dialogs
      BY <2>1 DEF OpenTry, Dialogs
    <3> HIDE DEF d
    <3>2. QED
      BY <1>0, <3>1 DEF Pages
  <2>2. CASE OpenRestore
    <3>1. PICK id \in ShownIds(page.shown) :
            page' = [page EXCEPT !.dialog = [kind |-> "restore", id |-> id]]
      BY <2>2 DEF OpenRestore
    <3> DEFINE d == [kind |-> "restore", id |-> id]
    <3>2. d \in Dialogs
      BY DEF Dialogs, ShownIds
    <3>3. page' = [page EXCEPT !.dialog = d] /\ post' = post
      BY <2>2, <3>1 DEF OpenRestore
    <3> HIDE DEF d
    <3>4. QED
      BY <1>0, <3>2, <3>3 DEF Pages
  <2>3. CASE CloseDialog
    <3>1. page' = [page EXCEPT !.dialog = NoDialog] /\ post' = post /\ NoDialog \in Dialogs
      BY <2>3 DEF CloseDialog, Dialogs
    <3>2. QED
      BY <1>0, <3>1 DEF Pages
  <2>4. CASE PickRating
    <3>1. PICK id \in ShownIds(page.shown), rating \in Ratings :
            page' = [page EXCEPT !.ratings[id] = rating]
      BY <2>4 DEF PickRating
    <3>2. post' = post /\ id \in Ids /\ page.ratings \in [Ids -> {0} \cup Ratings]
      BY <2>4, StateTyped DEF PickRating, ShownIds
    <3> DEFINE marks == [page.ratings EXCEPT ![id] = rating]
    <3>3. marks \in [Ids -> {0} \cup Ratings] /\ page' = [page EXCEPT !.ratings = marks]
      BY <3>1, <3>2
    <3> HIDE DEF marks
    <3>4. QED
      BY <1>0, <3>2, <3>3 DEF Pages
  <2>5. ASSUME NEW request \in Posts, Start(request), request.phase = "sent",
               request.source = page.source
        PROVE  /\ page' \in Pages /\ page'.source = page.source /\ page'.days = page.days
               /\ page'.loaded = page.loaded /\ page'.shown = page.shown
               /\ page'.busy = TRUE /\ post' \in Posts /\ post'.phase = "sent" /\ ~page.busy
               /\ post'.source = page.source
    <3>1. /\ page' = [page EXCEPT !.busy = TRUE, !.dialog = NoDialog] /\ post' = request
          /\ ~page.busy /\ NoDialog \in Dialogs
      BY <2>5 DEF Start, Dialogs
    <3>2. QED
      BY <1>0, <2>5, <3>1 DEF Pages
  <2>6. page.source \in Sources /\ page.dialog \in Dialogs /\ "sent" \in Phases
    BY StateTyped DEF Phases
  <2>7. CASE Confirm
    <3>1. CASE \E rating \in Ratings :
                 Start([action |-> "try", source |-> page.source, rating |-> rating,
                        phase |-> "sent"])
      <4>1. PICK rating \in Ratings :
              Start([action |-> "try", source |-> page.source, rating |-> rating,
                     phase |-> "sent"])
        BY <3>1
      <4> DEFINE q == [action |-> "try", source |-> page.source, rating |-> rating,
                       phase |-> "sent"]
      <4>2. q \in Posts /\ q.phase = "sent" /\ q.source = page.source /\ Start(q)
        BY <2>6, <4>1 DEF Posts
      <4> HIDE DEF q
      <4>3. QED
        BY <2>5, <4>2
    <3>2. CASE page.dialog.kind = "restore" /\
                 Start([action |-> "restore", source |-> page.source, id |-> page.dialog.id,
                        phase |-> "sent"])
      <4> DEFINE q == [action |-> "restore", source |-> page.source, id |-> page.dialog.id,
                       phase |-> "sent"]
      <4>1. page.dialog.id \in Ids
        BY <2>6, <3>2 DEF Dialogs, NoDialog
      <4>2. q \in Posts /\ q.phase = "sent" /\ q.source = page.source /\ Start(q)
        BY <2>6, <3>2, <4>1 DEF Posts
      <4> HIDE DEF q
      <4>3. QED
        BY <2>5, <4>2
    <3>3. QED
      BY <2>7, <3>1, <3>2 DEF Confirm
  <2>8. CASE SaveRating
    <3>1. PICK id \in ShownIds(page.shown) :
            /\ page.ratings[id] \in Ratings
            /\ Start([action |-> "rate", source |-> page.source, id |-> id,
                      rating |-> page.ratings[id], phase |-> "sent"])
      BY <2>8 DEF SaveRating
    <3> DEFINE q == [action |-> "rate", source |-> page.source, id |-> id,
                     rating |-> page.ratings[id], phase |-> "sent"]
    <3>2. q \in Posts /\ q.phase = "sent" /\ q.source = page.source /\ Start(q)
      BY <2>6, <3>1 DEF Posts, ShownIds
    <3> HIDE DEF q
    <3>3. QED
      BY <2>5, <3>2
  <2>9. QED
    BY <2>1, <2>2, <2>3, <2>4, <2>7, <2>8
<1>3. /\ post' \in {NoPost} \cup Posts /\ clicks' \in Nat
      /\ (post'.phase = "reading" => post' = post)
  BY <1>0, <1>1, <1>2
<1>4. ServerOK' /\ Grown
  BY <1>0, <1>1, NotGrown
<1>5. ReadInv' /\ LatestInv' /\ ShownInv' /\ WriteInv'
  BY <1>0, <1>1, <1>2, <1>3, <1>4, Moves DEF server
<1>6. BusyInv'
  <2>1. CASE page'.busy = page.busy /\ post' = post
    BY <1>0, <1>1, <1>2, <2>1 DEF BusyInv
  <2>2. CASE /\ page'.busy = TRUE /\ post' \in Posts /\ post'.phase = "sent" /\ ~page.busy
             /\ post'.source = page.source
    <3>1. post = NoPost /\ post' # NoPost
      <4>1. post = NoPost
        BY <1>0, <2>2 DEF BusyInv
      <4>2. NoPost.phase = "none"
        BY DEF NoPost
      <4>3. QED
        BY <2>2, <4>1, <4>2
    <3>2. \A i \in Slots : ~reads'[i].awaited
      BY <1>0, <1>1, <3>1 DEF BusyInv, NoPost
    <3>3. QED
      BY <1>2, <2>2, <3>1, <3>2 DEF BusyInv
  <2>3. QED
    BY <1>2, <2>1, <2>2
<1>7. QED
  BY <1>0, <1>1, <1>2, <1>3, <1>4, <1>5, <1>6 DEF IInv, StateOK

LEMMA PostSteps ==
  ASSUME IInv, PostAccepted \/ PostRefused \/ PostLost \/ PostFailed
  PROVE  IInv'
<1>0. /\ BusyInv /\ ServerOK /\ page \in Pages /\ post \in {NoPost} \cup Posts
      /\ reads \in [Slots -> Reads] /\ latest \in 0 .. MaxReads
      /\ clicks \in Nat /\ events \in Nat
  BY DEF IInv, StateOK
<1>1. /\ UNCHANGED <<reads, latest>> /\ clicks' = clicks
      /\ (events' = events \/ events' = events + 1)
      /\ post.phase \in {"sent", "done", "failed"}
  BY DEF PostAccepted, PostRefused, PostLost, PostFailed, bounds
<1>2. post \in Posts /\ events' \in Nat /\ events' >= events
  BY <1>0, <1>1 DEF NoPost
<1>3. \A i \in Slots : ~reads'[i].awaited
  BY <1>0, <1>1 DEF BusyInv
<1>4. ServerOK' /\ Grown
  <2>1. CASE PostAccepted
    <3>1. Requested(post)
      BY <1>2 DEF Posts, Requested
    <3>2. Accepts(post) /\ usage' = usage
          /\ trials' = [trials EXCEPT ![post.source] = Changed(post)]
      BY <2>1 DEF PostAccepted
    <3>3. QED
      BY <1>0, <3>1, <3>2, ChangeKeeps
  <2>2. CASE PostRefused \/ PostLost \/ PostFailed
    BY <1>0, <2>2, NotGrown DEF PostRefused, PostLost, PostFailed
  <2>3. QED
    BY <2>1, <2>2
<1>5. /\ page' \in Pages /\ page'.source = page.source /\ page'.days = page.days
      /\ page'.loaded = page.loaded /\ page'.shown = page.shown
      /\ \/ /\ post' \in Posts /\ post'.phase \in {"done", "failed"} /\ page'.busy = page.busy
            /\ post'.source = post.source
            /\ post'.phase = "done" => post.source \in Claude
         \/ post' = NoPost /\ page'.busy = FALSE
  <2>1. CASE PostAccepted
    <3>1. page' = page /\ post' = [post EXCEPT !.phase = "done"] /\ post.source \in Claude
      BY <2>1 DEF PostAccepted, Accepts
    <3>2. QED
      BY <1>0, <1>2, <3>1 DEF Posts, Phases
  <2>2. CASE PostRefused \/ PostLost
    <3>1. page' = page /\ post' = [post EXCEPT !.phase = "failed"]
      BY <2>2 DEF PostRefused, PostLost
    <3>2. QED
      BY <1>0, <1>2, <3>1 DEF Posts, Phases
  <2>3. CASE PostFailed
    <3>1. page' = [page EXCEPT !.busy = FALSE] /\ post' = NoPost
      BY <2>3 DEF PostFailed, BusyAfter
    <3>2. QED
      BY <1>0, <3>1 DEF Pages
  <2>4. QED
    BY <2>1, <2>2, <2>3
<1>6. post'.phase # "reading" /\ post' \in {NoPost} \cup Posts
  BY <1>5 DEF NoPost
<1>7. ReadInv' /\ LatestInv' /\ ShownInv' /\ WriteInv'
  BY <1>1, <1>2, <1>4, <1>5, <1>6, Moves
<1>8. BusyInv'
  <2>1. post # NoPost
    BY <1>2 DEF NoPost, Posts, Phases
  <2>2. CASE post' \in Posts
    <3>1. post' # NoPost
      BY <2>2 DEF NoPost, Posts, Phases
    <3>2. QED
      BY <1>0, <1>3, <1>5, <1>6, <2>1, <3>1 DEF BusyInv
  <2>3. CASE post' = NoPost /\ page'.busy = FALSE
    BY <1>3, <2>3 DEF BusyInv, NoPost
  <2>4. QED
    BY <1>5, <2>2, <2>3
<1>9. QED
  BY <1>0, <1>1, <1>2, <1>4, <1>5, <1>6, <1>7, <1>8 DEF IInv, StateOK

LEMMA OutsideSteps == ASSUME IInv, Usage \/ OtherTab PROVE IInv'
<1>0. /\ BusyInv /\ ServerOK /\ page \in Pages /\ post \in {NoPost} \cup Posts
      /\ reads \in [Slots -> Reads] /\ latest \in 0 .. MaxReads
      /\ clicks \in Nat /\ events \in Nat
  BY DEF IInv, StateOK
<1>1. UNCHANGED <<page, reads, latest, post, clicks>> /\ events' = events + 1
  BY DEF Usage, OtherTab
<1>2. ServerOK' /\ Grown
  <2>1. CASE Usage
    <3>1. PICK s \in Claude : usage' = [usage EXCEPT ![s] = usage[s] + 1] /\ trials' = trials
      BY <2>1 DEF Usage
    <3>2. \A x \in Claude : usage[x] \in Nat /\ Len(trials[x]) \in Nat
      BY <1>0 DEF ServerOK
    <3>3. QED
      BY <1>0, <3>1, <3>2 DEF ServerOK, Grown, Continues
  <2>2. CASE OtherTab
    <3>1. PICK id \in Ids, action \in {"try", "rate", "restore"}, rating \in Ratings :
            LET request == [action |-> action, source |-> id[1], id |-> id, rating |-> rating]
            IN Accepts(request) /\ trials' = [trials EXCEPT ![id[1]] = Changed(request)]
      BY <2>2 DEF OtherTab
    <3> DEFINE q == [action |-> action, source |-> id[1], id |-> id, rating |-> rating]
    <3>2. id[1] \in Sources
      BY LocalSources DEF Ids
    <3>3. Requested(q) /\ q.source = id[1]
      BY <3>2 DEF Requested
    <3>4. Accepts(q) /\ trials' = [trials EXCEPT ![q.source] = Changed(q)] /\ usage' = usage
      BY <2>2, <3>1 DEF OtherTab
    <3> HIDE DEF q
    <3>5. QED
      BY <1>0, <3>3, <3>4, ChangeKeeps
  <2>3. QED
    BY <2>1, <2>2
<1>3. events' \in Nat /\ events' >= events /\ events' # 0
  BY <1>0, <1>1
<1>4. ReadInv' /\ LatestInv' /\ ShownInv' /\ WriteInv'
  BY <1>1, <1>2, <1>3, Moves
<1>5. BusyInv'
  BY <1>0, <1>1 DEF BusyInv
<1>6. QED
  BY <1>0, <1>1, <1>2, <1>3, <1>4, <1>5 DEF IInv, StateOK

LEMMA LocalSteps == ASSUME IInv, LocalNext PROVE IInv'
BY SendSteps, AnswerSteps, ReadShownStep, ControlSteps, PostSteps, OutsideSteps DEF LocalNext

LEMMA Stutters == ASSUME IInv, UNCHANGED localVars PROVE IInv'
<1>1. /\ UNCHANGED server
      /\ page' = page /\ reads' = reads /\ latest' = latest /\ post' = post
      /\ clicks' = clicks /\ events' = events
  BY DEF localVars, bounds
<1>2. BusyInv /\ ServerOK /\ StateOK /\ events \in Nat
  BY DEF IInv, StateOK
<1>3. ServerOK' /\ Grown
  BY <1>1, <1>2, NotGrown
<1>4. ReadInv' /\ LatestInv' /\ ShownInv' /\ WriteInv'
  BY <1>1, <1>2, <1>3, Moves DEF server
<1>5. BusyInv'
  BY <1>1, <1>2 DEF BusyInv
<1>6. StateOK'
  BY <1>1, <1>2 DEF StateOK
<1>7. QED
  BY <1>3, <1>4, <1>5, <1>6 DEF IInv

LEMMA Starts == Init => IInv
<1> SUFFICES ASSUME LocalInit PROVE IInv
  BY DEF Init
<1> DEFINE q == [NoRead EXCEPT !.phase = "sent", !.days = 7]
<1>1. /\ usage = [s \in Claude |-> 0] /\ trials = [s \in Claude |-> <<>>]
      /\ page = [source |-> All, days |-> 7, loaded |-> FALSE, shown |-> NoReport,
                 ratings |-> [id \in Ids |-> 0], busy |-> FALSE, dialog |-> NoDialog]
      /\ reads = [i \in Slots |-> IF i = 1 THEN q ELSE NoRead]
      /\ latest = 1 /\ post = NoPost /\ clicks = 0 /\ events = 0
  BY DEF LocalInit
<1>2. 7 \in Days /\ All \in Sources
  BY RangeAssumption, LocalSources DEF RangeAssumption
<1>3. q \in Reads /\ q.phase = "sent" /\ q.days = 7 /\ q.source = All /\ q.awaited = FALSE
  <2>1. NoRead.source = All
    BY DEF NoRead
  <2>2. QED
    BY <1>2, <2>1, FreeRead DEF Reads
<1> HIDE DEF q
<1>4. /\ page.source = All /\ page.days = 7 /\ page.loaded = FALSE /\ page.busy = FALSE
      /\ page \in Pages
  BY <1>1, <1>2, FreeRead DEF Pages, Dialogs
<1>5. reads \in [Slots -> Reads] /\ latest \in 0 .. MaxReads
  BY <1>1, <1>3, FreeRead, LocalSources
<1>6. /\ \A i \in Slots : reads[i].phase \in {"free", "sent"} /\ reads[i].awaited = FALSE
      /\ reads[1] = q
  BY <1>1, <1>3, FreeRead, LocalSources
<1>7. ServerOK
  <2>1. <<>> \in Seq(Trial)
    OBVIOUS
  <2>2. QED
    BY <1>1, <2>1 DEF ServerOK
<1>8. StateOK
  BY <1>1, <1>4, <1>5 DEF StateOK
<1>9. ReadInv
  BY <1>6 DEF ReadInv
<1>10. BusyInv
  BY <1>1, <1>4, <1>6 DEF BusyInv, NoPost
<1>11. LatestInv
  BY <1>1, <1>3, <1>4, <1>6 DEF LatestInv
<1>12. ShownInv /\ WriteInv
  BY <1>1, <1>4 DEF ShownInv, WriteInv, NoPost
<1>13. QED
  BY <1>7, <1>8, <1>9, <1>10, <1>11, <1>12 DEF IInv

\* Whatever the order of requests and answers, what the page shows and what is
\* in flight is of an earlier state of the logs and trials, read for what was
\* chosen; a change that was accepted is not lost from sight.
THEOREM Invariance == Spec => []IInv
<1>1. IInv /\ [Next]_pageVars => IInv'
  <2>1. ASSUME IInv, UNCHANGED localVars PROVE IInv'
    BY <2>1, Stutters
  <2>2. ASSUME IInv, LocalNext PROVE IInv'
    BY <2>2, LocalSteps
  <2>3. QED
    BY <2>1, <2>2 DEF Next, pageVars
<1>2. QED
  BY <1>1, Starts, PTL DEF Spec

-----------------------------------------------------------------------------
(* What the page promises.                                                   *)

LEMMA Consistent == IInv => LocalConsistent
<1> SUFFICES ASSUME IInv PROVE LocalTypeOK /\ ShownSource
  BY DEF LocalConsistent
<1>1. BusyInv /\ LatestInv /\ ShownInv
  BY DEF IInv
<1>2. /\ page.source \in Sources /\ page.days \in Days
      /\ page.ratings \in [Ids -> {0} \cup Ratings]
  BY StateTyped
<1>3. LocalTypeOK
  BY <1>1, <1>2 DEF LocalTypeOK, BusyInv, LatestInv
<1>4. ShownSource
  BY <1>1 DEF ShownSource, ShownInv
<1>5. QED
  BY <1>3, <1>4

\* A busy page has one change in flight and one read awaited at most, and the
\* figures on the page are those of the source and range that are chosen.
THEOREM ShownAsChosen == Spec => []LocalConsistent
BY Invariance, Consistent, PTL

\* Only an answer that is shown changes what the page shows.
LEMMA ShownStays ==
  ASSUME IInv, Next \/ UNCHANGED pageVars
  PROVE  \/ page'.shown = page.shown
         \/ \E i \in Slots : ReadShown(i) /\ reads[i].phase = "answered" /\ latest = i
                            /\ page'.shown = reads[i].report
<1>0. page \in Pages
  BY DEF IInv, StateOK
<1>1. ASSUME NEW i \in Slots, ReadShown(i)
      PROVE  \/ page'.shown = page.shown
             \/ /\ reads[i].phase = "answered" /\ latest = i
                /\ page'.shown = reads[i].report
  BY <1>1, Shows
<1>2. ASSUME \E i \in Slots : ChooseSource(i) \/ ChooseDays(i) PROVE page'.shown = page.shown
  BY <1>0, <1>2 DEF ChooseSource, ChooseDays, Pages
<1>3. ASSUME \/ OpenTry \/ OpenRestore \/ CloseDialog \/ PickRating \/ Confirm \/ SaveRating
             \/ PostFailed
      PROVE  page'.shown = page.shown
  BY <1>0, <1>3
  DEF OpenTry, OpenRestore, CloseDialog, PickRating, Confirm, SaveRating, Start, PostFailed, Pages
<1>4. ASSUME \/ \E i \in Slots : Poll(i) \/ ReadAnswered(i) \/ ReadFails(i) \/ PostDone(i)
             \/ PostAccepted \/ PostRefused \/ PostLost \/ Usage \/ OtherTab
             \/ UNCHANGED localVars
      PROVE  page' = page
  BY <1>4
  DEF Poll, ReadAnswered, ReadFails, PostDone, PostAccepted, PostRefused, PostLost, Usage,
      OtherTab, localVars
<1>5. CASE UNCHANGED localVars
  BY <1>4, <1>5
<1>6. CASE LocalNext
  BY <1>1, <1>2, <1>3, <1>4, <1>6 DEF LocalNext
<1>7. QED
  BY <1>5, <1>6 DEF Next, pageVars

\* Answers may be late, lost or out of order: the figures of a source never go
\* back to an earlier state of its logs and trials.
THEOREM FiguresNeverGoBack == Spec => NeverOlder
<1>1. IInv /\ [Next]_pageVars =>
        [page.loaded /\ page'.loaded => NotOlder(page.shown, page'.shown)]_localVars
  <2> SUFFICES ASSUME IInv, Next \/ UNCHANGED pageVars, page.loaded, page'.loaded
               PROVE  NotOlder(page.shown, page'.shown)
    OBVIOUS
  <2>1. CASE page'.shown = page.shown
    <3>1. page.shown \in Reports
      BY StateTyped
    <3>2. NotOlder(page.shown, page.shown)
      BY <3>1 DEF NotOlder, Reports
    <3>3. QED
      BY <2>1, <3>2
  <2>2. ASSUME NEW i \in Slots, reads[i].phase = "answered", latest = i,
               page'.shown = reads[i].report
        PROVE  NotOlder(page.shown, page'.shown)
    BY <2>2, LocalSources DEF IInv, ShownInv
  <2>3. QED
    BY <2>1, <2>2, ShownStays
<1>2. QED
  BY <1>1, Invariance, PTL DEF Spec, NeverOlder

\* "Polling must not erase an unsaved rating": whatever reports arrive, a rating
\* that is picked and not saved stays in its control while its trial is shown.
THEOREM DraftsStay == Spec => DraftKept
<1>1. IInv /\ [Next]_pageVars =>
        [\A id \in ShownIds(page.shown) \cap ShownIds(page'.shown) :
           LET picked == page.ratings[id] # Rated(page.shown, id)
           IN picked /\ clicks' = clicks => page'.ratings[id] = page.ratings[id]]_localVars
  <2> SUFFICES ASSUME IInv, Next \/ UNCHANGED pageVars,
                      NEW id \in ShownIds(page.shown) \cap ShownIds(page'.shown),
                      page.ratings[id] # Rated(page.shown, id), clicks' = clicks
               PROVE  page'.ratings[id] = page.ratings[id]
    OBVIOUS
  <2>1. page \in Pages /\ clicks \in Nat
    BY DEF IInv, StateOK
  <2>2. ASSUME NEW i \in Slots, ReadShown(i) PROVE page'.ratings[id] = page.ratings[id]
    <3>1. CASE reads[i].phase = "answered" /\ latest = i
      <4>1. page'.ratings = RatingsAfter(reads[i].report) /\ page'.shown = reads[i].report
        BY <2>2, <3>1, Shows
      <4>2. id \in Ids /\ id \in ShownIds(reads[i].report)
        BY <4>1 DEF ShownIds
      <4>3. QED
        BY <4>1, <4>2 DEF RatingsAfter
    <3>2. CASE ~(reads[i].phase = "answered" /\ latest = i)
      BY <2>2, <3>2, Shows
    <3>3. QED
      BY <3>1, <3>2
  <2>3. CASE \/ \E i \in Slots : ChooseSource(i) \/ ChooseDays(i)
             \/ OpenTry \/ OpenRestore \/ PickRating \/ SaveRating
    <3>1. clicks' = clicks + 1
      BY <2>3
      DEF ChooseSource, ChooseDays, OpenTry, OpenRestore, PickRating, SaveRating, UserActs
    <3>2. QED
      BY <2>1, <3>1
  <2>4. CASE CloseDialog \/ Confirm \/ PostFailed
    BY <2>1, <2>4 DEF CloseDialog, Confirm, Start, PostFailed, Pages
  <2>5. CASE \/ \E i \in Slots : Poll(i) \/ ReadAnswered(i) \/ ReadFails(i) \/ PostDone(i)
             \/ PostAccepted \/ PostRefused \/ PostLost \/ Usage \/ OtherTab
             \/ UNCHANGED localVars
    BY <2>5
    DEF Poll, ReadAnswered, ReadFails, PostDone, PostAccepted, PostRefused, PostLost, Usage,
        OtherTab, localVars
  <2>6. QED
    BY <2>2, <2>3, <2>4, <2>5 DEF Next, LocalNext, pageVars
<1>2. QED
  BY <1>1, Invariance, PTL DEF Spec, DraftKept

\* A change that was accepted is shown when the page can be used again.
LEMMA ChangesAreSeen == Spec => ReadYourWrites
<1>1. IInv /\ [Next]_pageVars =>
        [post.phase \in {"done", "reading"} /\ ~page'.busy /\ events' = 0 =>
           \/ page'.loaded /\ page'.shown.trials = trials[post.source]
           \/ latest' # 0]_localVars
  <2> SUFFICES ASSUME IInv, Next \/ UNCHANGED pageVars, post.phase \in {"done", "reading"},
                      ~page'.busy, events' = 0, latest' = 0
               PROVE  page'.loaded /\ page'.shown.trials = trials[post.source]
    OBVIOUS
  <2>1. page \in Pages /\ BusyInv /\ WriteInv /\ ReadInv /\ events \in Nat
    BY DEF IInv, StateOK
  <2>2. page.busy = TRUE
    <3>1. post # NoPost
      BY DEF NoPost
    <3>2. QED
      BY <2>1, <3>1 DEF BusyInv
  <2>3. ASSUME NEW i \in Slots, ReadShown(i)
        PROVE  page'.loaded /\ page'.shown.trials = trials[post.source]
    <3>1. events = 0 /\ post.phase = "reading"
      <4>1. events' = events /\ reads[i].awaited
        BY <2>2, <2>3, Shows DEF ReadShown, bounds
      <4>2. QED
        BY <2>1, <4>1 DEF BusyInv
    <3>2. CASE latest = i
      <4>1. reads[i].phase = "answered" /\ i # 0
        BY <2>1, <2>3, <3>1, LocalSources DEF ReadShown, ReadInv
      <4>2. QED
        BY <2>1, <2>3, <3>1, <3>2, <4>1, Shows DEF WriteInv
    <3>3. CASE latest # i
      <4>1. latest = 0
        BY <2>3, <3>3 DEF ReadShown
      <4>2. QED
        BY <2>1, <2>3, <3>1, <3>3, <4>1, Shows DEF WriteInv
    <3>4. QED
      BY <3>2, <3>3
  <2>4. CASE \/ \E i \in Slots : ChooseSource(i) \/ ChooseDays(i)
             \/ OpenTry \/ OpenRestore \/ PickRating \/ SaveRating \/ CloseDialog \/ Confirm
    <3>1. page'.busy = TRUE
      BY <2>1, <2>2, <2>4
      DEF ChooseSource, ChooseDays, OpenTry, OpenRestore, PickRating, SaveRating, CloseDialog,
          Confirm, Start, Pages
    <3>2. QED
      BY <3>1
  <2>5. CASE \/ \E i \in Slots : Poll(i) \/ ReadAnswered(i) \/ ReadFails(i) \/ PostDone(i)
             \/ PostAccepted \/ PostRefused \/ PostLost \/ Usage \/ OtherTab
             \/ UNCHANGED localVars
    <3>1. page' = page
      BY <2>5
      DEF Poll, ReadAnswered, ReadFails, PostDone, PostAccepted, PostRefused, PostLost, Usage,
          OtherTab, localVars
    <3>2. QED
      BY <2>2, <3>1
  <2>6. CASE PostFailed
    BY <2>6 DEF PostFailed
  <2>7. QED
    BY <2>3, <2>4, <2>5, <2>6 DEF Next, LocalNext, pageVars
<1>2. QED
  BY <1>1, Invariance, PTL DEF Spec, ReadYourWrites

-----------------------------------------------------------------------------
(* The panel of the packing trial, on the page.                              *)

LEMMA PanelNext == Next \/ UNCHANGED pageVars => PackNext \/ UNCHANGED packVars
BY DEF Next, pageVars

\* Whatever the order of requests, answers and of the proxy's results: what the
\* panel shows and what is in flight is of an earlier state of the trial.
THEOREM PanelInvariance == Spec => []PackInv
<1>1. Init => PackInv
  BY PackStarts DEF Init
<1>2. PackInv /\ [Next]_pageVars => PackInv'
  BY PanelNext, PackSteps
<1>3. QED
  BY <1>1, <1>2, PTL DEF Spec

\* "Packing stopped. Future results pass through": once the panel has said so, no
\* answer takes it back, and at most the result that was begun is still packed.
LEMMA StoppedStays == Spec => StopSticks
<1>1. PackInv /\ [Next]_pageVars =>
        [Some(panel.shown) /\ panel.shown[1].status = "Stopped" =>
           /\ panel'.shown[1].status = "Stopped"
           /\ panel'.shown[1].packed >= panel.shown[1].packed
           /\ Count(pack'.receipts, "packed") <= panel.shown[1].packed + 1
           /\ pack'.halted]_packVars
  BY PanelNext, PanelStaysStopped
<1>2. QED
  BY <1>1, PanelInvariance, PTL DEF Spec, StopSticks

\* An action that was accepted is shown when the panel can be used again.
LEMMA PackActionsAreSeen == Spec => PackWritesShown
<1>1. PackInv /\ [Next]_pageVars =>
        [packPost.phase \in {"done", "reading"} /\ ~panel'.busy /\ packEvents' = 0 =>
           \/ packLatest' # 0
           \/ IF packPost.action = "stop" THEN panel'.shown[1].status = "Stopped"
              ELSE IF packPost.before THEN panel'.shown[1].before = packPost.rating
              ELSE panel'.shown[1].after = packPost.rating]_packVars
  BY PanelNext, ActionsAreSeen
<1>2. QED
  BY <1>1, PanelInvariance, PTL DEF Spec, PackWritesShown

\* While nothing has failed: when a change of a rule, or an action of the packing
\* panel, has been accepted and the page can be used again, it shows what was
\* done, or waits for a read that will; and a stopped trial stays stopped.
THEOREM WritesAreSeen == Spec => WritesShown
BY ChangesAreSeen, PackActionsAreSeen, StoppedStays DEF WritesShown
-----------------------------------------------------------------------------
(* The trials of the samples.                                                 *)

AllStores == ToSet(Stores) \cup {""}

\* Every report a sample page can show, and the trials that follow from one.
Baselines == {ReportOf(r[1], r[2], r[3]).summary :
                r \in {"local", "claude-demo", "native-demo", "packing", "packing-sample"}
                        \X (SampleDays \cup {7}) \X AllStores}
SimulatedHours == {SampleHour(b) : b \in Baselines}
Sums == {Added(Hours(hour)) : hour \in SimulatedHours}
Simulated ==
  [status : {"saved", "restored"}, baseline : Baselines, hour : SimulatedHours, sum : Sums,
   before : SampleRatings, after : {0} \cup SampleRatings]

\* The page shows a report that is offered, and the trials of the chosen store.
SampleInv ==
  /\ mode \in {"local", "claude-demo", "native-demo", "packing", "packing-sample"}
  /\ days \in SampleDays \cup {7} /\ chosen \in AllStores
  /\ report.summary \in Baselines
  /\ state \in Seq(Simulated) /\ demoTrials \in [AllStores -> Seq(Simulated)]
  /\ mode = "native-demo" => state = demoTrials[chosen]

\* Trials that were not lost, nor changed in what they were.
KeepsTrials(old, new) ==
  /\ Len(new) >= Len(old)
  /\ \A i \in DOMAIN old :
       /\ new[i].baseline = old[i].baseline
       /\ old[i].status = "restored" => new[i] = [old[i] EXCEPT !.after = new[i].after]

TrialsContinue ==
  \A s \in DOMAIN demoTrials :
    LET old == IF mode = "native-demo" THEN demoTrials[s] ELSE state
        new == IF mode = "native-demo" THEN demoTrials'[s] ELSE state'
    IN /\ Len(new) >= Len(old)
       /\ \A i \in DOMAIN old : /\ new[i].baseline = old[i].baseline
                                /\ old[i].status = "restored" => new[i] =
                                     [old[i] EXCEPT !.after = new[i].after]
       /\ mode = "native-demo" => state' = demoTrials'[chosen']

LEMMA BaselineOf ==
  ASSUME NEW kind \in {"local", "claude-demo", "native-demo", "packing", "packing-sample"},
         NEW d \in SampleDays \cup {7}, NEW s \in AllStores
  PROVE  ReportOf(kind, d, s).summary \in Baselines
<1> DEFINE r == <<kind, d, s>>
<1>1. r[1] = kind /\ r[2] = d /\ r[3] = s
  OBVIOUS
<1>2. r \in {"local", "claude-demo", "native-demo", "packing", "packing-sample"}
              \X (SampleDays \cup {7}) \X AllStores
  OBVIOUS
<1> HIDE DEF r
<1> QED
  BY <1>1, <1>2 DEF Baselines

LEMMA SameTrials == ASSUME NEW s \in Seq(Simulated) PROVE KeepsTrials(s, s)
<1>1. \A c \in Simulated : c = [c EXCEPT !.after = c.after]
  BY DEF Simulated
<1>2. \A i \in DOMAIN s : s[i] \in Simulated
  OBVIOUS
<1> QED
  BY <1>1, <1>2 DEF KeepsTrials

\* KeepsTrials, for the store that is shown, is what has to hold of every store.
LEMMA ContinuesIs ==
  ASSUME SampleInv, mode' = mode,
         \A s \in AllStores : KeepsTrials(demoTrials[s], demoTrials'[s]),
         mode # "native-demo" => KeepsTrials(state, state'),
         mode = "native-demo" => state' = demoTrials'[chosen']
  PROVE  TrialsContinue
<1>1. DOMAIN demoTrials = AllStores
  BY DEF SampleInv
<1> QED
  BY <1>1 DEF TrialsContinue, KeepsTrials

\* The user chooses another store or range, or looks at a session.
LEMMA LookingSteps ==
  ASSUME SampleInv, ChooseStore \/ ChooseRange \/ Select
  PROVE  SampleInv' /\ TrialsContinue
<1>1. mode' = mode /\ demoTrials' = demoTrials
      /\ chosen' \in AllStores /\ days' \in SampleDays \cup {7}
      /\ (mode = "native-demo" => state' = demoTrials[chosen'])
      /\ (mode # "native-demo" => state' = state)
      /\ (report' = report \/ report' = ReportOf(mode', days', chosen'))
  <2>1. CASE ChooseStore
    BY <2>1 DEF ChooseStore, SampleInv, TrialsAt, AllStores
  <2>2. CASE ChooseRange
    BY <2>2 DEF ChooseRange, SampleInv, TrialsAt
  <2>3. CASE Select
    BY <2>3 DEF Select, SampleInv
  <2> QED
    BY <2>1, <2>2, <2>3
<1>2. report'.summary \in Baselines
  BY <1>1, BaselineOf DEF SampleInv
<1>3. SampleInv'
  BY <1>1, <1>2 DEF SampleInv
<1>4. \A s \in AllStores : KeepsTrials(demoTrials[s], demoTrials'[s])
  BY <1>1, SameTrials DEF SampleInv
<1>5. mode # "native-demo" => KeepsTrials(state, state')
  BY <1>1, SameTrials DEF SampleInv
<1> QED
  BY <1>1, <1>3, <1>4, <1>5, ContinuesIs

\* The trials of the page are changed, and kept for their store.
LEMMA KeptStep ==
  ASSUME SampleInv, NEW changes \in Seq(Simulated), KeepsTrials(state, changes), Kept(changes)
  PROVE  SampleInv' /\ TrialsContinue
<1>1. state' = changes /\ UNCHANGED <<mode, chosen, days, report>>
  BY DEF Kept
<1>2. demoTrials' = IF mode = "native-demo" THEN [demoTrials EXCEPT ![chosen] = changes]
                    ELSE demoTrials
  BY DEF Kept
<1>3. demoTrials' \in [AllStores -> Seq(Simulated)]
  BY <1>2 DEF SampleInv
<1>4. mode = "native-demo" => state' = demoTrials'[chosen']
  BY <1>1, <1>2 DEF SampleInv
<1>5. SampleInv'
  BY <1>1, <1>3, <1>4 DEF SampleInv
<1>6. ASSUME NEW s \in AllStores PROVE KeepsTrials(demoTrials[s], demoTrials'[s])
  <2>1. CASE mode = "native-demo" /\ s = chosen
    BY <1>2, <2>1 DEF SampleInv
  <2>2. CASE ~(mode = "native-demo" /\ s = chosen)
    <3>1. demoTrials'[s] = demoTrials[s] /\ demoTrials[s] \in Seq(Simulated)
      BY <1>2, <2>2 DEF SampleInv
    <3> QED
      BY <3>1, SameTrials
  <2> QED
    BY <2>1, <2>2
<1> QED
  BY <1>1, <1>4, <1>5, <1>6, ContinuesIs

LEMMA TryStep == ASSUME SampleInv, Try PROVE SampleInv' /\ TrialsContinue
<1> DEFINE hour == SampleHour(report.summary)
           Simulation(rating) == [status |-> "saved", baseline |-> report.summary, hour |-> hour,
                             sum |-> Added(Hours(hour)), before |-> rating, after |-> 0]
<1>1. PICK rating \in SampleRatings : Kept(Append(state, Simulation(rating)))
  BY DEF Try
<1>2. hour \in SimulatedHours /\ Added(Hours(hour)) \in Sums
  BY DEF SampleInv, SimulatedHours, Sums
<1>3. Simulation(rating) \in Simulated
  <2>1. report.summary \in Baselines
    BY DEF SampleInv
  <2> HIDE DEF hour
  <2> QED
    BY <1>2, <2>1 DEF Simulated
<1> DEFINE trial == Simulation(rating)
           changes == Append(state, trial)
<1> HIDE DEF trial
<1>4. trial \in Simulated
  BY <1>3 DEF trial
<1>5. state \in Seq(Simulated)
  BY DEF SampleInv
<1>6. changes \in Seq(Simulated) /\ Len(changes) = Len(state) + 1 /\ Len(state) \in Nat
      /\ \A i \in DOMAIN state : changes[i] = state[i]
  BY <1>4, <1>5
<1> HIDE DEF changes
<1>7. KeepsTrials(state, changes)
  BY <1>5, <1>6, SameTrials DEF KeepsTrials
<1> QED
  BY <1>1, <1>6, <1>7, KeptStep DEF trial, changes

LEMMA RateStep == ASSUME SampleInv, Rate PROVE SampleInv' /\ TrialsContinue
<1>1. PICK i \in DOMAIN state, rating \in SampleRatings : Kept([state EXCEPT ![i].after = rating])
  BY DEF Rate
<1> DEFINE changes == [state EXCEPT ![i].after = rating]
<1>2. state \in Seq(Simulated) /\ state[i] \in Simulated
  BY DEF SampleInv
<1>3. [state[i] EXCEPT !.after = rating] \in Simulated
      /\ [state[i] EXCEPT !.after = rating].after = rating
      /\ [state[i] EXCEPT !.after = rating].baseline = state[i].baseline
  BY <1>2 DEF Simulated
<1>4. changes \in Seq(Simulated) /\ Len(changes) = Len(state) /\ Len(state) \in Nat
      /\ changes[i] = [state[i] EXCEPT !.after = rating]
      /\ \A j \in DOMAIN state : j # i => changes[j] = state[j]
  BY <1>2, <1>3
<1> HIDE DEF changes
<1>5. KeepsTrials(state, changes)
  BY <1>2, <1>3, <1>4, SameTrials DEF KeepsTrials
<1> QED
  BY <1>1, <1>4, <1>5, KeptStep DEF changes

LEMMA RestoreStep == ASSUME SampleInv, Restore PROVE SampleInv' /\ TrialsContinue
<1>1. PICK i \in DOMAIN state :
        state[i].status = "saved" /\ Kept([state EXCEPT ![i].status = "restored"])
  BY DEF Restore
<1> DEFINE changes == [state EXCEPT ![i].status = "restored"]
<1>2. state \in Seq(Simulated) /\ state[i] \in Simulated
  BY DEF SampleInv
<1>3. [state[i] EXCEPT !.status = "restored"] \in Simulated
      /\ [state[i] EXCEPT !.status = "restored"].baseline = state[i].baseline
  BY <1>2 DEF Simulated
<1>4. changes \in Seq(Simulated) /\ Len(changes) = Len(state) /\ Len(state) \in Nat
      /\ changes[i] = [state[i] EXCEPT !.status = "restored"]
      /\ \A j \in DOMAIN state : j # i => changes[j] = state[j]
  BY <1>2, <1>3
<1> HIDE DEF changes
<1>5. KeepsTrials(state, changes)
  BY <1>1, <1>2, <1>3, <1>4, SameTrials, ZenonT(40) DEF KeepsTrials
<1> QED
  BY <1>1, <1>4, <1>5, KeptStep DEF changes

LEMMA SampleSteps == ASSUME SampleInv, SampleNext PROVE SampleInv' /\ TrialsContinue
BY LookingSteps, TryStep, RateStep, RestoreStep DEF SampleNext

LEMMA SampleStarts == Init => SampleInv
<1> SUFFICES ASSUME Init PROVE SampleInv
  OBVIOUS
<1>1. PICK kind \in {"local", "claude-demo", "native-demo", "packing", "packing-sample"} :
        SampleInit(kind)
  BY DEF Init
<1>2. "" \in AllStores /\ 7 \in SampleDays \cup {7}
  BY DEF AllStores
<1>3. report.summary \in Baselines
  <2>1. report = ReportOf(kind, 7, "")
    BY <1>1 DEF SampleInit
  <2> QED
    BY <1>2, <2>1, BaselineOf
<1>4. demoTrials = [s \in AllStores |-> <<>>] /\ state = <<>>
  BY <1>1 DEF SampleInit, AllStores
<1>5. demoTrials \in [AllStores -> Seq(Simulated)] /\ state \in Seq(Simulated)
      /\ demoTrials[""] = <<>>
  <2>1. <<>> \in Seq(Simulated)
    OBVIOUS
  <2>2. demoTrials \in [AllStores -> Seq(Simulated)]
    BY <1>4, <2>1
  <2>3. demoTrials[""] = <<>>
    BY <1>2, <1>4
  <2> QED
    BY <1>4, <2>1, <2>2, <2>3
<1> QED
  BY <1>1, <1>2, <1>3, <1>4, <1>5 DEF SampleInit, SampleInv

\* What is on a sample page belongs to the store that is chosen on it.
THEOREM SampleInvariance == Spec => []SampleInv
<1>1. ASSUME SampleInv, UNCHANGED sampleVars PROVE SampleInv'
  BY <1>1 DEF SampleInv, sampleVars
<1>2. SampleInv /\ [Next]_pageVars => SampleInv'
  BY <1>1, SampleSteps DEF Next, pageVars
<1> QED
  BY <1>2, SampleStarts, PTL DEF Spec

\* SampleKept: whatever store or range is looked at meanwhile, a simulated trial
\* keeps its place and its figures in the store it was made for, and once
\* restored changes nothing but its rating.
THEOREM SimulatedTrialsStay == Spec => SampleKept
<1>1. SampleInv /\ [Next]_pageVars =>
        [\A s \in DOMAIN demoTrials :
           LET old == IF mode = "native-demo" THEN demoTrials[s] ELSE state
               new == IF mode = "native-demo" THEN demoTrials'[s] ELSE state'
           IN /\ Len(new) >= Len(old)
              /\ \A i \in DOMAIN old : /\ new[i].baseline = old[i].baseline
                                       /\ old[i].status = "restored" => new[i] =
                                            [old[i] EXCEPT !.after = new[i].after]
              /\ mode = "native-demo" => state' = demoTrials'[chosen']]_sampleVars
  BY SampleSteps DEF Next, pageVars, TrialsContinue
<1> QED
  BY <1>1, SampleInvariance, PTL DEF Spec, SampleKept
=============================================================================
