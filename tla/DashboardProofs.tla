-------------------------- MODULE DashboardProofs --------------------------
(* Proofs about Dashboard, for any profiles, costs, tasks, files and bounds:  *)
(* what the user undoes is what he was shown, what he opened stays, a trace   *)
(* can be read whenever no line of it is being written, the demo's figures    *)
(* are the server's, and the figures on the page agree.                       *)
EXTENDS Dashboard, TotalsProofs, SequenceTheorems

-----------------------------------------------------------------------------
(* What is invariant.                                                        *)

Values == Profiles \cup {None}
Entries ==
  [id : Nat, action : {"experiment", "rollback", "resume"}, status : statusTitle,
   applied : BOOLEAN, before : Values, after : Values,
   baseline : Nat \cup {None}, candidate : Nat \cup {None}]

\* An experiment has the profiles it is about, and a running one applied nothing.
EntryOK(e) ==
  /\ e \in Entries
  /\ IsExperiment(e) => e.before \in Profiles /\ e.after \in Profiles
  /\ e.status = "running" => IsExperiment(e) /\ ~e.applied

ServerOK ==
  /\ server = [active |-> server.active, entries |-> server.entries, paused |-> server.paused]
  /\ server.active \in Profiles /\ server.paused \in BOOLEAN
  /\ server.entries \in Seq(Entries)
  /\ \A i \in DOMAIN server.entries :
       EntryOK(server.entries[i]) /\ server.entries[i].id = Len(server.entries) + 1 - i

\* The server has an experiment of this ID that made these settings active once.
Undoable(id, hash) ==
  /\ id \in 1 .. Len(server.entries)
  /\ IsExperiment(EntryOf(id)) /\ EntryOf(id).applied /\ EntryOf(id).after = hash

IsState(s) == s = [f \in DOMAIN Blank |-> s[f]]

\* Whatever state the page holds: an undo it offers is the server's, or the demo's.
StateOK(s) ==
  /\ IsState(s)
  /\ s.demo \in BOOLEAN
  /\ s.demo => mode = "demo" /\ ~s.report.some
  /\ ~s.demo /\ s.rollback_id # None => Undoable(s.rollback_id, s.active_hash)

PageOK ==
  /\ page = [state |-> page.state, loaded |-> page.loaded, busy |-> page.busy,
             imported |-> page.imported]
  /\ page.busy \in BOOLEAN /\ page.imported \in BOOLEAN
  /\ StateOK(page.state)
  /\ page.busy = (op # NoOp)
  /\ page.imported => page.loaded /\ page.state.report.some /\ ~page.state.demo
  /\ dialog # NoDialog => ~page.busy

PollsOK ==
  /\ DOMAIN polls = Polls
  /\ \A i \in Polls :
       /\ polls[i] = [phase |-> polls[i].phase, state |-> polls[i].state]
       /\ StateOK(polls[i].state) /\ ~polls[i].state.demo

\* A rollback that is under way is of settings the page has shown.
OpOK ==
  \/ op = NoOp
  \/ op.action = "try" /\ op.phase = "waiting"
  \/ /\ op.action \in {"rollback", "resume"} /\ op.phase = "answered"
     /\ StateOK(op.state) /\ ~op.state.demo
  \/ /\ op = [action |-> op.action, phase |-> op.phase, id |-> op.id, shown |-> op.shown,
            reviewed |-> op.reviewed]
     /\ op.action \in {"rollback", "resume"}
     /\ op.phase \in {"sent", "done", "reading", "failed"}
     /\ op.phase = "sent" /\ mode # "demo" /\ op.action = "rollback" /\ op.id # None =>
          Undoable(op.id, op.shown)

BoundsOK == mode \in Modes /\ clicks \in 0 .. AllClicks /\ events \in 0 .. MaxEvents

IInv == ServerOK /\ PageOK /\ PollsOK /\ OpOK /\ BoundsOK

-----------------------------------------------------------------------------
(* Searching a sequence, and putting something at its head.                  *)

LEMMA MinIs ==
  ASSUME NEW S, S \subseteq Int, IsFiniteSet(S), S # {}
  PROVE  Min(S) \in S /\ \A y \in S : Min(S) <= y
<1> DEFINE Below(x) == {y \in S : y <= x}
           Segments == {Below(x) : x \in S}
<1>1. PICK s \in Segments : \A u \in Segments : <<u, s>> \notin StrictSubsetOrdering(S)
  <2>1. Segments \subseteq SUBSET S /\ Segments # {}
    OBVIOUS
  <2>2. IsWellFoundedOn(StrictSubsetOrdering(S), SUBSET S)
    BY FS_StrictSubsetOrderingWellFounded, FS_FiniteSubsetsOfFinite
  <2> HIDE DEF Segments
  <2>3. QED
    BY <2>1, <2>2, WFMin
<1>2. PICK x \in S : s = Below(x)
  OBVIOUS
<1>3. \A y \in S : x <= y
  <2>1. SUFFICES ASSUME NEW y \in S, y < x PROVE FALSE
    OBVIOUS
  <2>2. Below(y) \in Segments /\ Below(y) \subseteq Below(x) /\ x \in Below(x) /\ x \notin Below(y)
    <3>1. x \in Int /\ y \in Int /\ \A z \in S : z \in Int
      OBVIOUS
    <3>2. x \in Below(x) /\ x \notin Below(y)
      BY <2>1, <3>1
    <3>3. \A z \in S : z <= y => z <= x
      BY <2>1, <3>1
    <3>4. QED
      BY <3>2, <3>3
  <2>3. Below(y) \subseteq S /\ Below(x) \subseteq S
    OBVIOUS
  <2> HIDE DEF Below, Segments
  <2>4. <<Below(y), Below(x)>> \in StrictSubsetOrdering(S)
    BY <2>2, <2>3 DEF StrictSubsetOrdering
  <2>5. QED
    BY <1>1, <1>2, <2>2, <2>4
<1>4. QED
  BY <1>3 DEF Min

LEMMA Prepend ==
  ASSUME NEW D, NEW s \in Seq(D), NEW e \in D
  PROVE  LET t == <<e>> \o s IN
         /\ t \in Seq(D) /\ Len(t) = Len(s) + 1
         /\ t[1] = e /\ \A i \in 1 .. Len(s) : t[i + 1] = s[i]
OBVIOUS

\* The undo that is offered is of an entry that applied the active settings.
LEMMA RollbackIDIs ==
  ASSUME NEW entries \in Seq(Entries), NEW active, RollbackID(entries, active) # None
  PROVE  \E i \in 1 .. Len(entries) :
           /\ entries[i].id = RollbackID(entries, active)
           /\ IsExperiment(entries[i]) /\ entries[i].applied /\ entries[i].after = active
<1> DEFINE I == {i \in 1 .. Len(entries) :
                   IsExperiment(entries[i]) /\ entries[i].applied /\ entries[i].after = active}
<1>1. RollbackID(entries, active) =
        LET k == IF I # {} THEN Min(I) ELSE 0 IN IF k = 0 THEN None ELSE entries[k].id
  BY DEF RollbackID, SelectInSeq
<1>2. I # {}
  BY <1>1
<1>3. Min(I) \in I
  <2>1. IsFiniteSet(I) /\ I \subseteq Int
    BY FS_Interval, FS_Subset
  <2>2. QED
    BY <1>2, <2>1, MinIs
<1>4. QED
  BY <1>1, <1>2, <1>3

-----------------------------------------------------------------------------
(* What the server reports, and how it changes.                              *)

\* What the invariant says of a report of the history.
ReportsHistory(s, entries, active) ==
  /\ IsState(s) /\ s.demo = FALSE
  /\ s.active_hash = active /\ s.rollback_id = RollbackID(entries, active)

LEMMA SnapshotIs ==
  ASSUME NEW entries, NEW active, NEW paused
  PROVE  ReportsHistory(Snapshot(entries, active, paused), entries, active)
<1> DEFINE spend == SumOver(entries, LAMBDA e : Cost(e.baseline) + Cost(e.candidate))
           cost == CurrentReport(entries, active)
           id == RollbackID(entries, active)
<1>1. Snapshot(entries, active, paused) =
        [Blank EXCEPT !.entries = entries, !.active_hash = active, !.paused = paused,
                      !.spend = spend, !.current_report = cost, !.rollback_id = id]
  BY DEF Snapshot
<1> HIDE DEF spend, cost, id
<1>2. QED
  BY <1>1 DEF ReportsHistory, IsState, Blank, id

LEMMA BlankIs ==
  ASSUME NEW r
  PROVE  LET s == [Blank EXCEPT !.report = r] IN
         /\ IsState(s)
         /\ s.demo = FALSE /\ s.report = r /\ s.rollback_id = None
         /\ IsState(Blank) /\ Blank.demo = FALSE /\ Blank.rollback_id = None
BY DEF IsState, Blank

LEMMA BlankOK == StateOK(Blank) /\ ~Blank.demo
BY BlankIs DEF StateOK

LEMMA ReportOK == ASSUME ServerOK PROVE StateOK(Report) /\ ~Report.demo
<1>1. CASE mode = "usage"
  <2>1. Report = [Blank EXCEPT !.report = Opened(TraceReport)]
    BY <1>1 DEF Report
  <2>2. QED
    BY <2>1, BlankIs DEF StateOK
<1>2. CASE mode # "usage"
  <2>1. Report = Snapshot(server.entries, server.active, server.paused)
    BY <1>2 DEF Report
  <2>2. ASSUME RollbackID(server.entries, server.active) # None
        PROVE  Undoable(RollbackID(server.entries, server.active), server.active)
    <3>1. PICK i \in 1 .. Len(server.entries) :
            /\ server.entries[i].id = RollbackID(server.entries, server.active)
            /\ IsExperiment(server.entries[i]) /\ server.entries[i].applied
            /\ server.entries[i].after = server.active
      BY <2>2, RollbackIDIs DEF ServerOK
    <3>2. /\ Len(server.entries) \in Nat /\ i \in DOMAIN server.entries
          /\ server.entries[i].id = Len(server.entries) + 1 - i
      BY DEF ServerOK
    <3>3. EntryOf(server.entries[i].id) = server.entries[i]
      BY <3>2 DEF EntryOf
    <3>4. QED
      BY <3>1, <3>2, <3>3 DEF Undoable
  <2>3. ReportsHistory(Report, server.entries, server.active)
    BY <2>1, SnapshotIs
  <2>4. QED
    BY <2>2, <2>3 DEF StateOK, ReportsHistory
<1>3. QED
  BY <1>1, <1>2

\* Records are never lost, and one that applied its settings is not changed.
Grown ==
  /\ Len(server'.entries) >= Len(server.entries)
  /\ \A id \in 1 .. Len(server.entries) :
       EntryOf(id).applied => EntryOf(id)' = EntryOf(id)

LEMMA UndoableKept ==
  ASSUME ServerOK, ServerOK', Grown, NEW CONSTANT id, NEW CONSTANT hash, Undoable(id, hash)
  PROVE  Undoable(id, hash)'
<1>1. Len(server.entries) \in Nat /\ Len(server'.entries) \in Nat
  BY DEF ServerOK
<1>2. EntryOf(id)' = EntryOf(id)
  BY DEF Grown, Undoable
<1>3. QED
  BY <1>1, <1>2 DEF Undoable, Grown, IsExperiment

LEMMA StateKept ==
  ASSUME ServerOK, ServerOK', Grown, mode' = mode, NEW CONSTANT s, StateOK(s)
  PROVE  StateOK(s)'
BY UndoableKept DEF StateOK

LEMMA EntryIs ==
  ASSUME NEW id \in Nat, NEW action \in {"experiment", "rollback", "resume"},
         NEW status \in statusTitle
  PROVE  Entry(id, action, status) \in Entries
BY DEF Entry, Entries, Values, statusTitle

\* A new record at the head of the history.
LEMMA NewEntry ==
  ASSUME ServerOK, NEW e, EntryOK(e), e.id = NewID,
         server'.entries = <<e>> \o server.entries
  PROVE  /\ server'.entries \in Seq(Entries)
         /\ \A i \in DOMAIN server'.entries :
              EntryOK(server'.entries[i]) /\ server'.entries[i].id = Len(server'.entries) + 1 - i
         /\ Grown
<1> DEFINE old == server.entries
           new == server'.entries
<1>1. /\ old \in Seq(Entries) /\ Len(old) \in Nat /\ DOMAIN old = 1 .. Len(old)
      /\ \A i \in DOMAIN old : EntryOK(old[i]) /\ old[i].id = Len(old) + 1 - i
  BY DEF ServerOK
<1>2. e \in Entries
  BY DEF EntryOK
<1>3. /\ new \in Seq(Entries) /\ Len(new) = Len(old) + 1 /\ DOMAIN new = 1 .. Len(old) + 1
      /\ new[1] = e /\ \A i \in 1 .. Len(old) : new[i + 1] = old[i]
  BY <1>1, <1>2, Prepend
<1>4. ASSUME NEW i \in DOMAIN new
      PROVE  EntryOK(new[i]) /\ new[i].id = Len(new) + 1 - i
  <2>1. CASE i = 1
    BY <2>1, <1>1, <1>3 DEF NewID
  <2>2. CASE i # 1
    <3>1. i - 1 \in 1 .. Len(old) /\ (i - 1) + 1 = i
      BY <2>2, <1>1, <1>3
    <3>2. new[i] = old[i - 1]
      BY <3>1, <1>3
    <3>3. QED
      BY <3>1, <3>2, <1>1, <1>3
  <2>3. QED
    BY <2>1, <2>2
<1>5. ASSUME NEW id \in 1 .. Len(old) PROVE EntryOf(id)' = EntryOf(id)
  <2>1. Len(old) + 1 - id \in 1 .. Len(old) /\ (Len(old) + 1 - id) + 1 = Len(new) + 1 - id
    BY <1>1, <1>3
  <2>2. QED
    BY <2>1, <1>3 DEF EntryOf
<1>6. QED
  BY <1>1, <1>3, <1>4, <1>5 DEF Grown

LEMMA ServerStarts == ASSUME IInv, Start PROVE ServerOK' /\ Grown
<1>1. PICK after \in Profiles \ {server.active} :
        server' = [server EXCEPT !.entries =
           <<[Entry(NewID, "experiment", "running") EXCEPT !.before = server.active, !.after = after]>>
           \o @]
  BY DEF Start
<1> DEFINE e == [Entry(NewID, "experiment", "running") EXCEPT !.before = server.active, !.after = after]
<1>2. ServerOK /\ server.active \in Profiles /\ NewID \in Nat
  BY DEF IInv, ServerOK, NewID
<1>3. /\ server' = [active |-> server.active, entries |-> <<e>> \o server.entries,
                    paused |-> server.paused]
  BY <1>1 DEF IInv, ServerOK
<1>4. EntryOK(e) /\ e.id = NewID
  BY <1>2 DEF Entry, EntryOK, Entries, Values, statusTitle, IsExperiment
<1> HIDE DEF e
<1>5. QED
  BY <1>2, <1>3, <1>4, NewEntry DEF ServerOK

LEMMA ServerRollsBack ==
  ASSUME IInv, NEW id, Rollback(id) PROVE ServerOK' /\ Grown
<1> DEFINE e == [Entry(NewID, "rollback", "rolled_back") EXCEPT
                   !.applied = TRUE, !.before = server.active, !.after = EntryOf(id).before]
<1>1. server' = [active |-> EntryOf(id).before, paused |-> TRUE, entries |-> <<e>> \o server.entries]
  BY DEF Rollback
<1>2. ServerOK /\ server.active \in Profiles /\ NewID \in Nat
  BY DEF IInv, ServerOK, NewID
<1>3. EntryOf(id).before \in Profiles
  <2>1. id \in 1 .. Len(server.entries) /\ IsExperiment(EntryOf(id)) /\ Len(server.entries) \in Nat
    BY <1>2 DEF Rollback, RollbackAllowed, ServerOK
  <2>2. Len(server.entries) + 1 - id \in DOMAIN server.entries
    BY <2>1, <1>2 DEF ServerOK
  <2>3. QED
    BY <2>1, <2>2, <1>2 DEF ServerOK, EntryOf, EntryOK
<1>4. EntryOK(e) /\ e.id = NewID
  <2>1. e \in Entries /\ e.id = NewID /\ e.action = "rollback" /\ e.status = "rolled_back"
    BY <1>2, <1>3 DEF Entry, Entries, Values, statusTitle
  <2>2. QED
    BY <2>1 DEF EntryOK, IsExperiment
<1> HIDE DEF e
<1>5. QED
  BY <1>1, <1>2, <1>3, <1>4, NewEntry DEF ServerOK

LEMMA ServerResumes == ASSUME IInv, Resume PROVE ServerOK' /\ Grown
<1> DEFINE e == Entry(NewID, "resume", "resumed")
<1>1. server' = [server EXCEPT !.paused = FALSE, !.entries = <<e>> \o @]
  BY DEF Resume
<1>2. ServerOK /\ server.active \in Profiles /\ NewID \in Nat
  BY DEF IInv, ServerOK, NewID
<1>3. EntryOK(e) /\ e.id = NewID
  <2>1. e \in Entries /\ e.id = NewID /\ e.action = "resume" /\ e.status = "resumed"
    BY <1>2 DEF Entry, Entries, Values, statusTitle
  <2>2. QED
    BY <2>1 DEF EntryOK, IsExperiment
<1> HIDE DEF e
<1>4. server' = [active |-> server.active, entries |-> <<e>> \o server.entries, paused |-> FALSE]
  BY <1>1, <1>2 DEF ServerOK
<1>5. QED
  BY <1>2, <1>3, <1>4, NewEntry DEF ServerOK

\* An experiment ends: its record is the head of the history, and had applied nothing.
LEMMA ServerEnds ==
  ASSUME IInv, Running, NEW e, NEW active \in Profiles, EntryOK(e), e.id = server.entries[1].id,
         server' = [server EXCEPT !.entries[1] = e, !.active = active]
  PROVE  ServerOK' /\ Grown
<1> DEFINE old == server.entries
           new == server'.entries
<1>1. /\ ServerOK /\ old \in Seq(Entries) /\ Len(old) \in Nat /\ DOMAIN old = 1 .. Len(old)
      /\ \A i \in DOMAIN old : EntryOK(old[i]) /\ old[i].id = Len(old) + 1 - i
  BY DEF IInv, ServerOK
<1>2. Len(old) >= 1 /\ old[1].status = "running" /\ ~old[1].applied
  BY <1>1 DEF Running, EntryOK
<1>3. server' = [active |-> active, entries |-> [old EXCEPT ![1] = e], paused |-> server.paused]
  BY <1>1 DEF ServerOK
<1>4. e \in Entries
  BY DEF EntryOK
<1>5. /\ new \in Seq(Entries) /\ Len(new) = Len(old) /\ DOMAIN new = DOMAIN old
      /\ new[1] = e /\ \A i \in DOMAIN old \ {1} : new[i] = old[i]
  BY <1>1, <1>2, <1>3, <1>4
<1>6. \A i \in DOMAIN new : EntryOK(new[i]) /\ new[i].id = Len(new) + 1 - i
  BY <1>1, <1>2, <1>5
<1>7. ASSUME NEW id \in 1 .. Len(old), EntryOf(id).applied PROVE EntryOf(id)' = EntryOf(id)
  <2> DEFINE i == Len(old) + 1 - id
  <2>1. i \in DOMAIN old /\ EntryOf(id) = old[i]
    BY <1>1 DEF EntryOf
  <2>2. i # 1
    BY <2>1, <1>2, <1>7
  <2>3. EntryOf(id)' = new[i]
    BY <1>5 DEF EntryOf
  <2>4. QED
    BY <2>1, <2>2, <2>3, <1>5
<1>8. Grown
  BY <1>1, <1>5, <1>7 DEF Grown
<1>9. server.paused \in BOOLEAN
  BY <1>1 DEF ServerOK
<1>10. QED
  BY <1>3, <1>5, <1>6, <1>8, <1>9 DEF ServerOK

LEMMA ServerFinishes == ASSUME IInv, Finish PROVE ServerOK' /\ Grown
<1> DEFINE e == server.entries[1]
           Ends(entry, active) == server' = [server EXCEPT !.entries[1] = entry, !.active = active]
           With(status, cost) == [e EXCEPT !.status = status, !.baseline = cost[1], !.candidate = cost[2]]
<1>1. Running /\ EntryOK(e) /\ IsExperiment(e) /\ server.active \in Profiles
  <2>1. Running /\ ServerOK
    BY DEF IInv, Finish
  <2>2. 1 \in DOMAIN server.entries
    BY <2>1 DEF Running, ServerOK
  <2>3. QED
    BY <2>1, <2>2 DEF ServerOK, Running, EntryOK
<1>2. ASSUME NEW f, NEW active \in Profiles, EntryOK(f), f.id = e.id, Ends(f, active)
      PROVE  ServerOK' /\ Grown
  BY <1>1, <1>2, ServerEnds
<1>3. /\ e \in Entries /\ e.before \in Profiles /\ e.after \in Profiles
  BY <1>1 DEF EntryOK
<1>4. LET f == [e EXCEPT !.status = "error"] IN EntryOK(f) /\ f.id = e.id
  BY <1>1, <1>3 DEF EntryOK, Entries, statusTitle, IsExperiment
<1>5. ASSUME NEW cost \in Costs
      PROVE  /\ LET f == [e EXCEPT !.status = "error", !.baseline = cost[1]]
                IN EntryOK(f) /\ f.id = e.id
             /\ LET f == [With("applied", cost) EXCEPT !.applied = TRUE]
                IN EntryOK(f) /\ f.id = e.id
             /\ \A status \in {"error", "rejected", "recommended", "applying"} :
                  EntryOK(With(status, cost)) /\ With(status, cost).id = e.id
  <2>1. cost[1] \in Nat /\ cost[2] \in Nat
    BY CostsAssumption
  <2>2. LET f == [e EXCEPT !.status = "error", !.baseline = cost[1]] IN EntryOK(f) /\ f.id = e.id
    BY <1>1, <1>3, <2>1 DEF EntryOK, Entries, statusTitle, IsExperiment
  <2>3. LET f == [With("applied", cost) EXCEPT !.applied = TRUE] IN EntryOK(f) /\ f.id = e.id
    BY <1>1, <1>3, <2>1 DEF EntryOK, Entries, statusTitle, IsExperiment
  <2>4. ASSUME NEW status \in {"error", "rejected", "recommended", "applying"}
        PROVE  EntryOK(With(status, cost)) /\ With(status, cost).id = e.id
    BY <1>1, <1>3, <2>1 DEF EntryOK, Entries, statusTitle, IsExperiment
  <2> QED
    BY <2>2, <2>3, <2>4
<1>8. \/ Ends([e EXCEPT !.status = "error"], server.active)
      \/ \E cost \in Costs :
           \/ Ends([e EXCEPT !.status = "error", !.baseline = cost[1]], server.active)
           \/ \E status \in {"error", "rejected", "recommended"} :
                Ends(With(status, cost), server.active)
           \/ Ends([With("applied", cost) EXCEPT !.applied = TRUE], e.after)
           \/ \E active \in {e.before, e.after} : Ends(With("applying", cost), active)
  BY DEF Finish
<1> HIDE DEF e, Ends, With
<1>9. QED
  BY <1>1, <1>2, <1>3, <1>4, <1>5, <1>8

-----------------------------------------------------------------------------
(* The demo's states.                                                        *)

DemoState(s) == IsState(s) /\ s.demo = TRUE /\ s.report.some = FALSE

LEMMA DemoUpdates ==
  ASSUME NEW s, DemoState(s), NEW a, NEW b, NEW c, NEW d, NEW e, NEW f
  PROVE  /\ DemoState([s EXCEPT !.entries = a, !.spend = b, !.active_hash = c,
                                !.rollback_id = d, !.current_report = e])
         /\ DemoState([s EXCEPT !.entries = a, !.active_hash = c, !.current_report = e,
                                !.paused = f, !.rollback_id = d])
         /\ DemoState([s EXCEPT !.paused = f, !.entries = a])
BY DEF DemoState, IsState, Blank

LEMMA TrialOfDemo == ASSUME NEW s, DemoState(s) PROVE DemoState(demoTrial(s))
<1> DEFINE before == s.active_hash
           after == Max({64, before \div 2})
           a == demoReport(before)
           b == demoReport(after)
           applied == b.successful_tasks = 2 /\ after < before
           e == [Entry(NextID(s), "experiment", IF applied THEN "applied" ELSE "rejected") EXCEPT
                   !.applied = applied, !.before = before, !.after = after,
                   !.baseline = a.cost, !.candidate = b.cost]
           entries == <<e>> \o s.entries
           spend == s.spend + a.cost + b.cost
           active == IF applied THEN after ELSE s.active_hash
           undo == IF applied THEN e.id ELSE s.rollback_id
           cost == demoReport(IF applied THEN after ELSE before).cost
           t == [s EXCEPT !.entries = entries, !.spend = spend, !.active_hash = active,
                          !.rollback_id = undo, !.current_report = cost]
<1>1. demoTrial(s) = t
  BY DEF demoTrial
<1> HIDE DEF before, after, a, b, applied, e, entries, spend, active, undo, cost
<1>2. DemoState(t)
  BY DemoUpdates
<1>3. QED
  BY <1>1, <1>2

LEMMA RollbackOfDemo == ASSUME NEW s, DemoState(s) PROVE DemoState(demoRollback(s))
<1> DEFINE i == SelectInSeq(s.entries, LAMBDA e : e.id = s.rollback_id)
           source == s.entries[i]
           entry == [Entry(NextID(s), "rollback", "rolled_back") EXCEPT
                       !.applied = TRUE, !.before = s.active_hash, !.after = source.before]
           entries == <<entry>> \o s.entries
           active == source.before
           cost == demoReport(source.before).cost
           undo == NextUndo(<<entry>> \o s.entries, source.before, s.rollback_id)
           t == [s EXCEPT !.entries = entries, !.active_hash = active, !.current_report = cost,
                          !.paused = TRUE, !.rollback_id = undo]
<1>1. demoRollback(s) = IF i = 0 THEN s ELSE IF s.active_hash # source.after THEN s ELSE t
  BY DEF demoRollback
<1> HIDE DEF i, source, entry, entries, active, cost, undo
<1>2. DemoState(t)
  BY DemoUpdates
<1>3. QED
  BY <1>1, <1>2

LEMMA ResumeOfDemo == ASSUME NEW s, DemoState(s) PROVE DemoState(demoResume(s))
BY DemoUpdates DEF demoResume

LEMMA ResetDemoIs == DemoState(resetDemo)
<1> DEFINE s == [Blank EXCEPT !.demo = TRUE, !.active_hash = 1024]
<1>1. DemoState(s)
  <2>1. s.demo = TRUE /\ s.report = NoReport
    BY DEF Blank
  <2>2. ASSUME NEW c PROVE IsState([Blank EXCEPT !.demo = TRUE, !.active_hash = c])
    BY DEF IsState, Blank
  <2>3. NoReport.some = FALSE
    BY DEF NoReport
  <2>4. IsState(s)
    BY <2>2, ZenonT(40)
  <2> HIDE DEF s
  <2>5. QED
    BY <2>1, <2>3, <2>4 DEF DemoState
<1> HIDE DEF s
<1>2. QED
  BY <1>1, TrialOfDemo DEF resetDemo, s

LEMMA StrayIs ==
  ASSUME NEW s, IsState(s)
  PROVE  LET t == StrayTrial(s) IN
         /\ IsState(t) /\ t.demo = s.demo /\ t.report = s.report
         /\ t.active_hash = s.active_hash /\ t.rollback_id = s.rollback_id
BY DEF StrayTrial, IsState, Blank

LEMMA DemoOK == ASSUME NEW s, DemoState(s), mode = "demo" PROVE StateOK(s)
BY DEF DemoState, StateOK

LEMMA DemoIs == ASSUME NEW s, StateOK(s), s.demo PROVE DemoState(s) /\ mode = "demo"
BY DEF DemoState, StateOK

-----------------------------------------------------------------------------
(* The steps of the server and of others leave the page alone.               *)

LEMMA HeldKept ==
  ASSUME IInv, ServerOK', Grown, mode' = mode
  PROVE  /\ \A s : StateOK(s) => (StateOK(s))'
         /\ op' = op => OpOK'
         /\ polls' = polls => PollsOK'
         /\ page' = page /\ op' = op /\ dialog' = dialog => PageOK'
<1>1. ServerOK /\ PageOK /\ PollsOK /\ OpOK
  BY DEF IInv
<1>2. ASSUME NEW s, StateOK(s) PROVE (StateOK(s))'
  BY <1>1, <1>2, StateKept
<1>3. ASSUME op' = op PROVE OpOK'
  <2>1. ASSUME Undoable(op.id, op.shown) PROVE Undoable(op.id, op.shown)'
    <3>1. PICK id, hash : id = op.id /\ hash = op.shown
      OBVIOUS
    <3>2. (Undoable(id, hash))'
      BY <1>1, <2>1, <3>1, UndoableKept
    <3>3. id = op'.id /\ hash = op'.shown
      BY <1>3, <3>1
    <3>4. QED
      BY <3>2, <3>3 DEF Undoable
  <2>2. ASSUME StateOK(op.state) PROVE StateOK(op.state)'
    <3>1. PICK s : s = op.state
      OBVIOUS
    <3>2. (StateOK(s))'
      BY <1>2, <2>2, <3>1
    <3>3. s = op'.state
      BY <1>3, <3>1
    <3>4. QED
      BY <3>2, <3>3 DEF StateOK
  <2>3. QED
    BY <1>1, <1>3, <2>1, <2>2 DEF OpOK
<1>4. ASSUME polls' = polls PROVE PollsOK'
  <2>1. ASSUME NEW i \in Polls PROVE StateOK(polls[i].state)'
    <3>1. PICK s : s = polls[i].state
      OBVIOUS
    <3>2. (StateOK(s))'
      BY <1>1, <1>2, <3>1 DEF PollsOK
    <3>3. s = polls'[i].state
      BY <1>4, <3>1
    <3>4. QED
      BY <3>2, <3>3 DEF StateOK
  <2>2. QED
    BY <1>1, <1>4, <2>1 DEF PollsOK
<1>5. ASSUME page' = page, op' = op, dialog' = dialog PROVE PageOK'
  <2>1. PICK s : s = page.state
    OBVIOUS
  <2>2. (StateOK(s))'
    BY <1>1, <1>2, <2>1 DEF PageOK
  <2>3. s = page'.state
    BY <1>5, <2>1
  <2>4. StateOK(page.state)'
    BY <2>2, <2>3 DEF StateOK
  <2>5. QED
    BY <1>1, <1>5, <2>4 DEF PageOK
<1>6. QED
  BY <1>2, <1>3, <1>4, <1>5

LEMMA ServerMoves ==
  ASSUME IInv, Start \/ Finish \/ OtherPage \/ Edit \/ TraceGrows
  PROVE  ServerOK' /\ Grown
<1>1. CASE Start
  BY <1>1, ServerStarts
<1>2. CASE Finish
  BY <1>2, ServerFinishes
<1>3. CASE OtherPage
  BY <1>3, ServerResumes, ServerRollsBack DEF OtherPage
<1>4. CASE Edit
  <2>1. PICK profile \in Profiles : server' = [server EXCEPT !.active = profile]
    BY <1>4 DEF Edit
  <2>2. ServerOK
    BY DEF IInv
  <2>3. server' = [active |-> profile, entries |-> server.entries, paused |-> server.paused]
    BY <2>1, <2>2 DEF ServerOK
  <2>4. QED
    BY <2>2, <2>3 DEF ServerOK, Grown, EntryOf
<1>5. CASE TraceGrows
  <2>1. server' = server /\ ServerOK
    BY <1>5 DEF TraceGrows, Recording, IInv
  <2>2. QED
    BY <2>1 DEF ServerOK, Grown, EntryOf
<1>6. QED
  BY <1>1, <1>2, <1>3, <1>4, <1>5

LEMMA ServerSteps ==
  ASSUME IInv, Start \/ Finish \/ OtherPage \/ Edit \/ TraceGrows
  PROVE  IInv'
<1>1. UNCHANGED <<mode, page, dialog, op, polls, clicks>>
  BY DEF Start, Finish, OtherPage, Edit, Event, TraceGrows, Recording
<1>2. events' \in 0 .. MaxEvents
  <2>1. events' = events \/ (events < MaxEvents /\ events' = events + 1)
    BY DEF Start, Finish, OtherPage, Edit, Event, TraceGrows, Recording
  <2>2. QED
    BY <2>1, BoundsAssumption DEF IInv, BoundsOK
<1>3. ServerOK' /\ Grown
  BY ServerMoves
<1>4. BoundsOK'
  BY <1>1, <1>2 DEF IInv, BoundsOK, AllClicks
<1>5. QED
  BY <1>1, <1>3, <1>4, HeldKept DEF IInv

\* A step of the page's browser: the server is what it was.
LEMMA ServerIdle == ASSUME IInv, UNCHANGED server PROVE ServerOK' /\ Grown
BY DEF IInv, ServerOK, Grown, EntryOf

LEMMA StateStays ==
  ASSUME IInv, UNCHANGED <<mode, server>>, NEW s, StateOK(s)
  PROVE  (StateOK(s))'
BY ServerIdle, HeldKept

-----------------------------------------------------------------------------
(* The steps of the browser.                                                 *)

LEMMA PageIs ==
  ASSUME IInv
  PROVE  /\ page = [state |-> page.state, loaded |-> page.loaded, busy |-> page.busy,
                    imported |-> page.imported]
         /\ StateOK(page.state) /\ page.busy = (op # NoOp)
         /\ page.imported => page.loaded /\ page.state.report.some /\ ~page.state.demo
BY DEF IInv, PageOK

\* The page keeps a sound state, which is still that of a file if it was one.
LEMMA PageKept ==
  ASSUME IInv, UNCHANGED <<mode, server>>,
         NEW s, StateOK(s), NEW loaded, NEW busy \in BOOLEAN,
         page' = [state |-> s, loaded |-> loaded, busy |-> busy, imported |-> page.imported],
         page.imported => loaded /\ s.report.some /\ ~s.demo,
         busy = (op' # NoOp), dialog' # NoDialog => ~busy
  PROVE  PageOK'
<1>1. (StateOK(s))'
  BY StateStays
<1>2. page'.state = s /\ page'.busy = busy /\ page'.loaded = loaded
      /\ page'.imported = page.imported /\ page.imported \in BOOLEAN
  BY DEF IInv, PageOK
<1>3. StateOK(page.state)'
  BY <1>1, <1>2 DEF StateOK
<1>4. QED
  BY <1>2, <1>3 DEF PageOK

LEMMA PollKept ==
  ASSUME IInv, UNCHANGED <<mode, server>>, NEW i \in Polls, NEW phase, NEW s,
         StateOK(s), ~s.demo, polls' = [polls EXCEPT ![i] = [phase |-> phase, state |-> s]]
  PROVE  PollsOK'
<1>1. ASSUME NEW j \in Polls PROVE StateOK(polls[j].state)'
  <2>1. PICK t : t = polls'[j].state /\ StateOK(t)
    BY DEF IInv, PollsOK
  <2>2. (StateOK(t))'
    BY <2>1, StateStays
  <2>3. QED
    BY <2>1, <2>2 DEF StateOK
<1>2. PollsOK
  BY DEF IInv
<1>3. QED
  BY <1>1, <1>2 DEF PollsOK

LEMMA ClickBounds ==
  ASSUME IInv, mode' = mode,
         clicks' = clicks \/ (clicks < AllClicks /\ clicks' = clicks + 1),
         events' = events \/ (events < MaxEvents /\ events' = events + 1)
  PROVE  BoundsOK'
<1>1. AllClicks \in Nat /\ AllClicks' = AllClicks
  BY BoundsAssumption DEF AllClicks
<1>2. mode \in Modes /\ clicks \in 0 .. AllClicks /\ events \in 0 .. MaxEvents
  BY DEF IInv, BoundsOK
<1>3. QED
  BY <1>1, <1>2, BoundsAssumption DEF BoundsOK

LEMMA PollSteps ==
  ASSUME IInv, NEW i \in Polls,
         Poll(i) \/ PollAnswered(i) \/ PollRefused(i) \/ PollFailed(i) \/ PollShown(i)
  PROVE  IInv'
<1>1. UNCHANGED <<mode, server, dialog, op, clicks>>
  BY DEF Poll, PollAnswered, PollRefused, PollFailed, Unavailable, PollShown
<1>2. ServerOK' /\ Grown
  BY <1>1, ServerIdle
<1>3. BoundsOK'
  <2>1. events' = events \/ (events < MaxEvents /\ events' = events + 1)
    BY DEF Poll, PollAnswered, PollRefused, PollFailed, Unavailable, PollShown
  <2>2. QED
    BY <1>1, <2>1, ClickBounds
<1>4. OpOK'
  BY <1>1, <1>2, HeldKept
<1>5. /\ polls[i] = [phase |-> polls[i].phase, state |-> polls[i].state]
      /\ DOMAIN polls = Polls /\ StateOK(polls[i].state) /\ ~polls[i].state.demo
  BY DEF IInv, PollsOK
<1>6. PollsOK'
  <2>1. CASE Poll(i)
    <3>1. polls' = [polls EXCEPT ![i] = [phase |-> "sent", state |-> polls[i].state]]
      <4>1. polls' = [polls EXCEPT ![i].phase = "sent"]
        BY <2>1 DEF Poll
      <4>2. [polls[i] EXCEPT !.phase = "sent"] = [phase |-> "sent", state |-> polls[i].state]
        BY <1>5
      <4>3. QED
        BY <4>1, <4>2
    <3>2. QED
      BY <3>1, <1>1, <1>5, PollKept
  <2>2. CASE PollAnswered(i)
    <3>1. polls' = [polls EXCEPT ![i] = [phase |-> "answered", state |-> Report]]
      BY <2>2 DEF PollAnswered
    <3>2. StateOK(Report) /\ ~Report.demo
      BY ReportOK DEF IInv
    <3>3. QED
      BY <3>1, <3>2, <1>1, PollKept
  <2>3. CASE PollRefused(i) \/ PollFailed(i)
    <3>1. polls' = [polls EXCEPT ![i] = [phase |-> "free", state |-> polls[i].state]]
      BY <2>3, <1>5 DEF PollRefused, PollFailed, Unavailable
    <3>2. QED
      BY <3>1, <1>1, <1>5, PollKept
  <2>4. CASE PollShown(i)
    <3>1. polls' = [polls EXCEPT ![i] = [phase |-> "free", state |-> Blank]]
      BY <2>4 DEF PollShown
    <3>2. QED
      BY <3>1, <1>1, BlankOK, PollKept
  <2>5. QED
    BY <2>1, <2>2, <2>3, <2>4
<1>7. PageOK'
  <2>1. CASE page' = page
    BY <2>1, <1>1, <1>2, HeldKept
  <2> DEFINE Draws(s) == page' = [state |-> s, loaded |-> TRUE, busy |-> page.busy,
                                  imported |-> page.imported]
  <2>2. ASSUME NEW s, Draws(s), StateOK(s), page.imported => s.report.some /\ ~s.demo
        PROVE  PageOK'
    <3>1. page.busy \in BOOLEAN /\ page.busy = (op' # NoOp) /\ (dialog' # NoDialog => ~page.busy)
      BY <1>1 DEF IInv, PageOK
    <3>2. QED
      BY <2>2, <3>1, <1>1, PageKept
  <2>3. CASE PollRefused(i) \/ PollFailed(i)
    <3>1. Draws(page.state)
      BY <2>3, PageIs DEF PollRefused, PollFailed, Unavailable
    <3>2. QED
      BY <3>1, <2>2, PageIs
  <2>4. CASE PollShown(i)
    <3>1. Draws(Shown(polls[i].state))
      BY <2>4, PageIs DEF PollShown
    <3>2. QED
      BY <3>1, <2>2, <1>5, PageIs DEF Shown
  <2>5. QED
    BY <2>1, <2>3, <2>4 DEF Poll, PollAnswered
<1>8. QED
  BY <1>2, <1>3, <1>4, <1>6, <1>7 DEF IInv

\* The page becomes busy with an action on what it shows.
LEMMA Begins ==
  ASSUME IInv, UNCHANGED <<mode, server, polls, events>>, dialog' = NoDialog, BoundsOK', ~page.busy,
         NEW action, NEW phase, Begin(action, phase),
         \/ action = "try" /\ phase = "waiting"
         \/ action \in {"rollback", "resume"} /\ phase = "sent" /\ ~page.state.demo
  PROVE  IInv'
<1>1. ServerOK' /\ Grown
  BY ServerIdle
<1>2. op' = [action |-> action, phase |-> phase, id |-> page.state.rollback_id,
             shown |-> page.state.active_hash, reviewed |-> dialog]
  BY DEF Begin
<1>3. OpOK'
  <2>1. ASSUME ~page.state.demo, page.state.rollback_id # None
        PROVE  Undoable(op.id, op.shown)'
    <3>1. PICK id, hash : id = page.state.rollback_id /\ hash = page.state.active_hash
      OBVIOUS
    <3>2. Undoable(id, hash)
      BY <2>1, <3>1, PageIs DEF StateOK
    <3>3. (Undoable(id, hash))'
      BY <3>2, <1>1, UndoableKept DEF IInv
    <3>4. QED
      BY <3>1, <3>3, <1>2 DEF Undoable
  <2>2. op'.id = page.state.rollback_id /\ op'.action = action /\ op'.phase = phase
    BY <1>2
  <2>3. op' = [action |-> op'.action, phase |-> op'.phase, id |-> op'.id, shown |-> op'.shown,
               reviewed |-> op'.reviewed]
    BY <1>2
  <2>4. QED
    BY <2>1, <2>2, <2>3 DEF OpOK
<1>4. PageOK'
  <2>1. page' = [state |-> page.state, loaded |-> page.loaded, busy |-> TRUE, imported |-> page.imported]
    BY PageIs DEF Begin
  <2>2. op' # NoOp
    BY <1>2 DEF NoOp
  <2>3. CASE dialog' = NoDialog
    BY <2>1, <2>2, PageIs, PageKept, <2>3
  <2>4. QED
    BY <2>3
<1>5. PollsOK'
  BY <1>1, HeldKept
<1>6. QED
  BY <1>1, <1>3, <1>4, <1>5 DEF IInv

LEMMA ClickSteps ==
  ASSUME IInv, OpenUndo \/ CancelUndo \/ ConfirmUndo \/ ClickResume \/ ClickTry
  PROVE  IInv'
<1>1. UNCHANGED <<mode, server, polls, events>>
  BY DEF OpenUndo, CancelUndo, ConfirmUndo, ClickResume, ClickTry
<1>2. ServerOK' /\ Grown
  BY <1>1, ServerIdle
<1>3. BoundsOK'
  <2>1. clicks' = clicks \/ (clicks < AllClicks /\ clicks' = clicks + 1)
    BY DEF OpenUndo, CancelUndo, ConfirmUndo, ClickResume, ClickTry, Click
  <2>2. QED
    BY <1>1, <2>1, ClickBounds
<1>4. PollsOK'
  BY <1>1, <1>2, HeldKept
<1>5. ASSUME op' = op, NEW s, StateOK(s), s.demo, ~page.imported,
             page' = [page EXCEPT !.state = s], dialog' = NoDialog
      PROVE  IInv'
  <2>1. page' = [state |-> s, loaded |-> page.loaded, busy |-> page.busy,
                 imported |-> page.imported]
    BY <1>5, PageIs
  <2>2. page.busy \in BOOLEAN
    BY DEF IInv, PageOK
  <2>3. PageOK'
    BY <1>1, <1>5, <2>1, <2>2, PageIs, PageKept
  <2>4. OpOK'
    BY <1>2, <1>1, <1>5, HeldKept
  <2>5. QED
    BY <1>2, <1>3, <1>4, <2>3, <2>4 DEF IInv
<1>6. CASE page' = page /\ op' = op
  <2>1. dialog' # NoDialog => ~page.busy
    BY <1>6 DEF OpenUndo, CancelUndo, ConfirmUndo, ClickResume, ClickTry, Click, IInv, PageOK
  <2>2. page.busy \in BOOLEAN
    BY DEF IInv, PageOK
  <2>3. page' = [state |-> page.state, loaded |-> page.loaded, busy |-> page.busy,
                 imported |-> page.imported]
    BY <1>6, PageIs
  <2>4. PageOK'
    BY <1>1, <1>6, <2>1, <2>2, <2>3, PageIs, PageKept
  <2>5. OpOK'
    BY <1>2, <1>1, <1>6, HeldKept
  <2>6. QED
    BY <1>2, <1>3, <1>4, <2>4, <2>5 DEF IInv
<1>7. CASE ConfirmUndo
  <2>1. dialog' = NoDialog /\ ~page.busy
    BY <1>7 DEF ConfirmUndo, IInv, PageOK
  <2>2. CASE page.state.demo
    <3>1. DemoState(page.state) /\ mode = "demo" /\ ~page.imported
      BY <2>2, PageIs, DemoIs
    <3>2. StateOK(demoRollback(page.state)) /\ demoRollback(page.state).demo
      BY <3>1, RollbackOfDemo, DemoOK DEF DemoState
    <3>3. page' = [page EXCEPT !.state = demoRollback(page.state)] /\ op' = op
      BY <1>7, <2>2 DEF ConfirmUndo
    <3>4. QED
      BY <1>5, <2>1, <3>1, <3>2, <3>3
  <2>3. CASE ~page.state.demo
    <3>1. Begin("rollback", "sent")
      BY <1>7, <2>3 DEF ConfirmUndo
    <3>2. QED
      BY <1>1, <1>3, <2>1, <2>3, <3>1, Begins
  <2>4. QED
    BY <2>2, <2>3
<1>8. CASE ClickResume
  <2>1. dialog' = NoDialog /\ ~page.busy
    BY <1>8 DEF ClickResume, Click
  <2>2. CASE page.state.demo
    <3>1. DemoState(page.state) /\ mode = "demo" /\ ~page.imported
      BY <2>2, PageIs, DemoIs
    <3>2. StateOK(demoResume(page.state)) /\ demoResume(page.state).demo
      BY <3>1, ResumeOfDemo, DemoOK DEF DemoState
    <3>3. page' = [page EXCEPT !.state = demoResume(page.state)] /\ op' = op
      BY <1>8, <2>2 DEF ClickResume
    <3>4. QED
      BY <1>5, <2>1, <3>1, <3>2, <3>3
  <2>3. CASE ~page.state.demo
    <3>1. Begin("resume", "sent")
      BY <1>8, <2>3 DEF ClickResume
    <3>2. QED
      BY <1>1, <1>3, <2>1, <2>3, <3>1, Begins
  <2>4. QED
    BY <2>2, <2>3
<1>9. CASE ClickTry
  <2>1. dialog' = NoDialog /\ ~page.busy /\ Begin("try", "waiting")
    BY <1>9 DEF ClickTry, Click
  <2>2. QED
    BY <1>1, <1>3, <2>1, Begins
<1>10. QED
  BY <1>6, <1>7, <1>8, <1>9 DEF OpenUndo, CancelUndo

\* The action of the page changes, and is not yet over.
LEMMA OpChanges ==
  ASSUME IInv, ServerOK', Grown, UNCHANGED <<mode, page, dialog, polls>>, BoundsOK',
         op # NoOp, OpOK', op' # NoOp
  PROVE  IInv'
<1>1. PollsOK'
  BY HeldKept
<1>2. PageOK'
  <2>1. PICK s : s = page.state
    OBVIOUS
  <2>2. (StateOK(s))'
    BY <2>1, PageIs, HeldKept
  <2>3. StateOK(page.state)'
    BY <2>1, <2>2 DEF StateOK
  <2>4. QED
    BY <2>3 DEF IInv, PageOK
<1>3. QED
  BY <1>1, <1>2 DEF IInv

\* An action that was sent has its record.
LEMMA OpIs ==
  ASSUME IInv, op.phase \in {"sent", "done", "reading", "failed"}
  PROVE  /\ op = [action |-> op.action, phase |-> op.phase, id |-> op.id, shown |-> op.shown,
            reviewed |-> op.reviewed]
         /\ op.action \in {"rollback", "resume"} /\ op # NoOp
BY DEF IInv, OpOK, NoOp

LEMMA PostSteps ==
  ASSUME IInv, PostAccepted \/ PostRefused \/ PostLost \/ ReadAgain \/ ReadAnswered
  PROVE  IInv'
<1>1. op.phase \in {"sent", "done", "reading"} /\ UNCHANGED <<mode, page, dialog, polls, clicks>>
  BY DEF PostAccepted, PostRefused, PostLost, ReadAgain, ReadAnswered
<1>2. /\ op = [action |-> op.action, phase |-> op.phase, id |-> op.id, shown |-> op.shown,
            reviewed |-> op.reviewed]
      /\ op.action \in {"rollback", "resume"} /\ op # NoOp
  BY <1>1, OpIs
<1>3. ServerOK' /\ Grown
  BY ServerIdle, ServerRollsBack, ServerResumes
     DEF PostAccepted, PostRefused, PostLost, ReadAgain, ReadAnswered
<1>4. BoundsOK'
  <2>1. events' = events \/ (events < MaxEvents /\ events' = events + 1)
    BY DEF PostAccepted, PostRefused, PostLost, ReadAgain, ReadAnswered
  <2>2. QED
    BY <1>1, <2>1, ClickBounds
<1>5. CASE ReadAnswered
  <2>1. op' = [action |-> op.action, phase |-> "answered", state |-> Report]
    BY <1>5 DEF ReadAnswered
  <2>2. StateOK(Report) /\ ~Report.demo
    BY ReportOK DEF IInv
  <2>3. PICK s : s = Report
    OBVIOUS
  <2>4. (StateOK(s))' /\ op'.state = s
    BY <1>1, <1>3, <2>1, <2>2, <2>3, HeldKept
  <2>5. StateOK(op.state)' /\ ~op'.state.demo
    BY <2>2, <2>3, <2>4 DEF StateOK
  <2>6. OpOK' /\ op' # NoOp
    BY <1>2, <2>1, <2>5 DEF OpOK, NoOp
  <2>7. QED
    BY <1>1, <1>2, <1>3, <1>4, <2>6, OpChanges
<1>6. CASE PostAccepted \/ PostRefused \/ PostLost \/ ReadAgain
  <2>1. PICK phase \in {"done", "reading", "failed"} : op' = [op EXCEPT !.phase = phase]
    BY <1>6 DEF PostAccepted, PostRefused, PostLost, ReadAgain
  <2>2. op' = [action |-> op.action, phase |-> phase, id |-> op.id, shown |-> op.shown,
               reviewed |-> op.reviewed]
    BY <1>2, <2>1
  <2>3. OpOK' /\ op' # NoOp
    BY <1>2, <2>2 DEF OpOK, NoOp
  <2>4. QED
    BY <1>1, <1>2, <1>3, <1>4, <2>3, OpChanges
<1>7. QED
  BY <1>5, <1>6

\* An action is over, and the page shows what it has found.
LEMMA EndSteps == ASSUME IInv, TryEnds \/ ActEnds PROVE IInv'
<1>1. op' = NoOp /\ UNCHANGED <<mode, server, dialog, polls, clicks, events>>
  BY DEF TryEnds, ActEnds
<1>2. ServerOK' /\ Grown /\ BoundsOK' /\ PollsOK' /\ OpOK'
  BY <1>1, ServerIdle, HeldKept, ClickBounds DEF OpOK
<1>3. op # NoOp
  BY DEF TryEnds, ActEnds, NoOp
<1>4. page.busy /\ dialog' = NoDialog
  BY <1>1, <1>3 DEF IInv, PageOK
<1>5. ASSUME NEW s, StateOK(s), page.imported => s.report.some /\ ~s.demo,
             page' = [page EXCEPT !.busy = FALSE, !.state = s]
      PROVE  PageOK'
  <2>1. page' = [state |-> s, loaded |-> page.loaded, busy |-> FALSE, imported |-> page.imported]
    BY <1>5, PageIs
  <2>2. QED
    BY <1>1, <1>4, <1>5, <2>1, PageIs, PageKept
<1>6. PageOK'
  <2>1. CASE TryEnds
    <3>1. page' = [page EXCEPT !.busy = FALSE,
                               !.state = IF page.state.demo THEN demoTrial(page.state)
                                         ELSE StrayTrial(page.state)]
      BY <2>1 DEF TryEnds, BusyAfter
    <3>2. CASE page.state.demo
      <4>1. DemoState(page.state) /\ mode = "demo" /\ ~page.imported
        BY <3>2, PageIs, DemoIs
      <4>2. StateOK(demoTrial(page.state))
        BY <4>1, TrialOfDemo, DemoOK
      <4>3. QED
        BY <3>1, <3>2, <4>1, <4>2, <1>5
    <3>3. CASE ~page.state.demo
      <4> DEFINE t == StrayTrial(page.state)
      <4>1. /\ IsState(t) /\ t.demo = page.state.demo /\ t.report = page.state.report
            /\ t.active_hash = page.state.active_hash /\ t.rollback_id = page.state.rollback_id
        BY StrayIs, PageIs DEF StateOK
      <4> HIDE DEF t
      <4>2. StateOK(t)
        BY <3>3, <4>1, PageIs DEF StateOK
      <4>3. QED
        BY <3>1, <3>3, <4>1, <4>2, <1>5, PageIs DEF t
    <3>4. QED
      BY <3>2, <3>3
  <2>2. CASE ActEnds
    <3>1. page' = [page EXCEPT !.busy = FALSE,
                               !.state = IF op.phase = "answered" THEN Shown(op.state)
                                         ELSE page.state]
      BY <2>2 DEF ActEnds, BusyAfter
    <3>2. op.phase = "answered" => StateOK(op.state) /\ ~op.state.demo
      BY DEF IInv, OpOK, NoOp
    <3>3. QED
      BY <3>1, <3>2, <1>5, PageIs DEF Shown
  <2>3. QED
    BY <2>1, <2>2
<1>7. QED
  BY <1>2, <1>6 DEF IInv

\* Another demo, or a file, takes the place of what the page has.
LEMMA OtherSteps == ASSUME IInv, Reset \/ OpenFile PROVE IInv'
<1>1. UNCHANGED <<mode, server, dialog, op, polls, events>> /\ clicks < AllClicks /\ clicks' = clicks + 1
  BY DEF Reset, OpenFile
<1>2. ServerOK' /\ Grown /\ BoundsOK' /\ PollsOK' /\ OpOK'
  BY <1>1, ServerIdle, HeldKept, ClickBounds
<1>3. ASSUME NEW s, NEW imported \in BOOLEAN, NEW loaded,
             StateOK(s), imported => loaded /\ s.report.some /\ ~s.demo,
             page' = [state |-> s, loaded |-> loaded, busy |-> page.busy, imported |-> imported]
      PROVE  IInv'
  <2>1. (StateOK(s))' /\ page'.state = s /\ page'.busy = page.busy
        /\ page'.imported = imported /\ page'.loaded = loaded
    BY <1>1, <1>3, StateStays
  <2>2. StateOK(page.state)'
    BY <2>1 DEF StateOK
  <2>3. PageOK'
    BY <1>1, <1>3, <2>1, <2>2 DEF IInv, PageOK
  <2>4. QED
    BY <1>2, <2>3 DEF IInv
<1>4. CASE Reset
  <2>1. page' = [page EXCEPT !.state = resetDemo, !.imported = FALSE] /\ page.state.demo
    BY <1>4 DEF Reset
  <2>2. StateOK(resetDemo)
    BY <2>1, ResetDemoIs, DemoOK, PageIs, DemoIs
  <2>3. page' = [state |-> resetDemo, loaded |-> page.loaded, busy |-> page.busy,
                 imported |-> FALSE]
    BY <2>1, PageIs
  <2>4. QED
    BY <1>3, <2>2, <2>3
<1>5. CASE OpenFile
  <2>1. PICK file \in Files :
          page' = [page EXCEPT !.imported = TRUE, !.loaded = TRUE,
                               !.state = [Blank EXCEPT !.report = Opened(file)]]
    BY <1>5 DEF OpenFile, Consistent
  <2>2. Opened(file).some = TRUE
    BY DEF Opened
  <2> DEFINE s == [Blank EXCEPT !.report = Opened(file)]
  <2>3. IsState(s) /\ s.demo = FALSE /\ s.report = Opened(file) /\ s.rollback_id = None
    BY BlankIs
  <2> HIDE DEF s
  <2>4. page' = [state |-> s, loaded |-> TRUE, busy |-> page.busy, imported |-> TRUE]
    BY <2>1, PageIs DEF s
  <2>5. StateOK(s)
    BY <2>3 DEF StateOK
  <2>6. QED
    BY <1>3, <2>2, <2>3, <2>4, <2>5
<1>6. QED
  BY <1>4, <1>5

-----------------------------------------------------------------------------
(* The invariant.                                                            *)

LEMMA InitInv == ASSUME Init PROVE IInv
<1>1. ServerOK
  <2>1. server = [active |-> Baseline, entries |-> <<>>, paused |-> FALSE]
    BY DEF Init
  <2>2. <<>> \in Seq(Entries) /\ DOMAIN <<>> = {}
    OBVIOUS
  <2>3. QED
    BY <2>1, <2>2, BaselineAssumption DEF ServerOK
<1>2. PageOK
  <2>1. page = [state |-> IF mode = "demo" THEN resetDemo ELSE Blank, loaded |-> mode = "demo",
                busy |-> FALSE, imported |-> FALSE] /\ op = NoOp
    BY DEF Init
  <2>2. StateOK(IF mode = "demo" THEN resetDemo ELSE Blank)
    BY BlankOK, ResetDemoIs, DemoOK
  <2>3. QED
    BY <2>1, <2>2 DEF PageOK
<1>3. PollsOK
  BY BlankOK DEF Init, PollsOK
<1>4. OpOK
  BY DEF Init, OpOK
<1>5. BoundsOK
  BY BoundsAssumption DEF Init, BoundsOK, AllClicks
<1>6. QED
  BY <1>1, <1>2, <1>3, <1>4, <1>5 DEF IInv

LEMMA NextInv == ASSUME IInv, [Next]_vars PROVE IInv'
<1>1. CASE UNCHANGED vars
  <2>1. UNCHANGED <<mode, server, page, dialog, op, polls, clicks, events>>
    BY <1>1 DEF vars
  <2>2. ServerOK' /\ Grown /\ BoundsOK'
    BY <2>1, ServerIdle, ClickBounds
  <2>3. QED
    BY <2>1, <2>2, HeldKept DEF IInv
<1>2. CASE Start \/ Finish \/ OtherPage \/ Edit \/ TraceGrows
  BY <1>2, ServerSteps
<1>3. ASSUME NEW i \in Polls,
             Poll(i) \/ PollAnswered(i) \/ PollRefused(i) \/ PollFailed(i) \/ PollShown(i)
      PROVE  IInv'
  BY <1>3, PollSteps
<1>4. CASE OpenUndo \/ CancelUndo \/ ConfirmUndo \/ ClickResume \/ ClickTry
  BY <1>4, ClickSteps
<1>5. CASE PostAccepted \/ PostRefused \/ PostLost \/ ReadAgain \/ ReadAnswered
  BY <1>5, PostSteps
<1>6. CASE TryEnds \/ ActEnds
  BY <1>6, EndSteps
<1>7. CASE Reset \/ OpenFile
  BY <1>7, OtherSteps
<1>8. QED
  BY <1>1, <1>2, <1>3, <1>4, <1>5, <1>6, <1>7 DEF Next

\* The invariant holds throughout, in every mode of the page.
THEOREM Invariance == Spec => []IInv
<1>1. Init => IInv
  BY InitInv
<1>2. IInv /\ [Next]_vars => IInv'
  BY NextInv
<1>3. QED
  BY <1>1, <1>2, PTL DEF Spec

-----------------------------------------------------------------------------
(* What the page promises.                                                   *)

\* Type correctness, the numbering of the records, and that the page is busy
\* exactly while an action of its own runs, and shows the file it has opened.
THEOREM TypeCorrect == Spec => []TypeOK
<1>1. IInv => TypeOK
  BY DEF IInv, ServerOK, PageOK, BoundsOK, TypeOK
<1>2. QED
  BY <1>1, Invariance, PTL

\* A file that was opened stays, whatever reads and actions end after it.
LEMMA ImportStep ==
  ASSUME IInv, [Next]_vars, page.imported, ~OpenFile
  PROVE  page'.state.report = page.state.report
<1>1. page.imported /\ ~page.state.demo /\ StateOK(page.state)
  BY PageIs
<1>2. CASE page' = page
  BY <1>2
<1>3. CASE page' # page
  <2>1. CASE TryEnds
    <3>1. page'.state = StrayTrial(page.state)
      BY <2>1, <1>1, PageIs DEF TryEnds
    <3>2. QED
      BY <3>1, <1>1, StrayIs DEF StateOK
  <2>2. CASE ActEnds
    BY <2>2, <1>1, PageIs DEF ActEnds, Shown
  <2>3. ASSUME NEW i \in Polls, PollShown(i) \/ Unavailable(i)
        PROVE  page'.state = page.state
    BY <2>3, <1>1, PageIs DEF PollShown, Unavailable, Shown
  <2>4. CASE ConfirmUndo \/ ClickResume \/ ClickTry
    <3>1. \E action, phase : Begin(action, phase)
      BY <2>4, <1>1, <1>3 DEF ConfirmUndo, ClickResume, ClickTry
    <3>2. QED
      BY <3>1, PageIs DEF Begin
  <2>5. ~Reset
    BY <1>1 DEF Reset
  <2>6. QED
    BY <1>3, <2>1, <2>2, <2>3, <2>4, <2>5
       DEF Next, vars, Start, Finish, Poll, PollAnswered, PollRefused, PollFailed, OpenUndo,
           CancelUndo, PostAccepted, PostRefused, PostLost, ReadAgain, ReadAnswered, OtherPage,
           Edit, Event, TraceGrows, Recording
<1>4. QED
  BY <1>2, <1>3

THEOREM ImportedStays == Spec => ImportKept
<1>1. IInv /\ [Next]_vars =>
        [page.imported /\ ~OpenFile => page'.state.report = page.state.report]_vars
  BY ImportStep
<1>2. QED
  BY <1>1, Invariance, PTL DEF Spec, ImportKept
-----------------------------------------------------------------------------
(* The recorder.                                                              *)

Recorded == {"recorded", "true", "false", "rated"}

Lines ==
  {Request(t, Response) : t \in Tasks}
    \cup {Result(r[1], r[2]) : r \in Tasks \X {"true", "false"}}
Parts == {"start", "end"} \X Lines

\* The events of a trace: a response of each task that has recorded one, and an
\* outcome of each task that is rated.
EventsOK(found, of) ==
  /\ \A k \in DOMAIN found : found[k] \in Lines
  /\ \A j, k \in DOMAIN found :
       found[j].type = found[k].type /\ found[j].task_id = found[k].task_id => j = k
  /\ \A t \in Tasks :
       /\ of[t] \in Recorded <=>
            \E k \in DOMAIN found : found[k].type = "request" /\ found[k].task_id = t
       /\ of[t] = "rated" <=>
            \E k \in DOMAIN found : found[k].type = "task_result" /\ found[k].task_id = t

\* The trace ends with a line, or with the half of one.
RecorderOK ==
  /\ calls \in [Tasks -> {"new", "raised", "normalized"} \cup Recorded]
  /\ \E lines \in Seq(Parts) :
       /\ Whole(lines) /\ EventsOK(Events(lines), calls)
       /\ \/ writing = {} /\ trace = lines
          \/ \E t \in Tasks :
               /\ writing = {t} /\ calls[t] \in {"normalized", "true", "false"}
               /\ trace = Append(lines, <<"start", NextLine(t)>>)

LEMMA LinesAre ==
  ASSUME NEW t \in Tasks
  PROVE  /\ Request(t, Response) \in Lines
         /\ Request(t, Response).type = "request" /\ Request(t, Response).task_id = t
         /\ \A s \in {"true", "false"} :
              /\ Result(t, s) \in Lines
              /\ Result(t, s).type = "task_result" /\ Result(t, s).task_id = t
<1>1. Request(t, Response) \in Lines
  BY DEF Lines
<1>2. ASSUME NEW s \in {"true", "false"} PROVE Result(t, s) \in Lines
  <2>1. <<t, s>> \in Tasks \X {"true", "false"} /\ <<t, s>>[1] = t /\ <<t, s>>[2] = s
    OBVIOUS
  <2> QED
    BY <2>1 DEF Lines
<1>3. Request(t, Response).type = "request" /\ Request(t, Response).task_id = t
  BY DEF Request
<1>4. \A s : Result(t, s).type = "task_result" /\ Result(t, s).task_id = t
  BY DEF Result
<1> QED
  BY <1>1, <1>2, <1>3, <1>4

LEMMA RequestIs ==
  ASSUME NEW e \in Lines, e.type = "request"
  PROVE  e.tokens = Response /\ e.request_id = e.task_id
<1>1. \A r \in Tasks \X {"true", "false"} : Result(r[1], r[2]).type = "task_result"
  BY DEF Result
<1>2. PICK t \in Tasks : e = Request(t, Response)
  BY <1>1 DEF Lines
<1> QED
  BY <1>2 DEF Request

LEMMA LineIs ==
  ASSUME NEW e \in Lines
  PROVE  /\ e.task_id \in Tasks
         /\ \/ e.type = "request"
            \/ e.type = "task_result" /\ e.success \in {"true", "false"}
<1>1. CASE \E t \in Tasks : e = Request(t, Response)
  <2>1. PICK t \in Tasks : e = Request(t, Response)
    BY <1>1
  <2>2. Request(t, Response).type = "request" /\ Request(t, Response).task_id = t
    BY LinesAre
  <2> QED
    BY <2>1, <2>2
<1>2. CASE \E r \in Tasks \X {"true", "false"} : e = Result(r[1], r[2])
  <2>1. PICK r \in Tasks \X {"true", "false"} : e = Result(r[1], r[2])
    BY <1>2
  <2>2. r[1] \in Tasks /\ r[2] \in {"true", "false"}
    OBVIOUS
  <2> QED
    BY <2>1, <2>2 DEF Result
<1> QED
  BY <1>1, <1>2 DEF Lines

\* A line that is completed is the trace's next event.
LEMMA LineAdded ==
  ASSUME NEW lines \in Seq(Parts), Whole(lines), NEW e \in Lines
  PROVE  LET new == Append(Append(lines, <<"start", e>>), <<"end", e>>)
             old == Events(lines)
             m == Len(lines) \div 2
         IN /\ new \in Seq(Parts) /\ Whole(new)
            /\ m \in Nat /\ DOMAIN old = 1 .. m
            /\ DOMAIN Events(new) = 1 .. m + 1 /\ Events(new)[m + 1] = e
            /\ \A k \in 1 .. m : Events(new)[k] = old[k]
<1> DEFINE n == Len(lines)
           m == n \div 2
           half == Append(lines, <<"start", e>>)
           new == Append(half, <<"end", e>>)
<1>1. <<"start", e>> \in Parts /\ <<"end", e>> \in Parts
  BY DEF Parts
<1>2. n \in Nat /\ n % 2 = 0 /\ n = 2 * m /\ m \in Nat
  BY DEF Whole
<1>3. half \in Seq(Parts) /\ Len(half) = n + 1 /\ half[n + 1] = <<"start", e>>
      /\ \A i \in 1 .. n : half[i] = lines[i]
  BY <1>1
<1> HIDE DEF half
<1>4. new \in Seq(Parts) /\ Len(new) = n + 2 /\ new[n + 2] = <<"end", e>>
      /\ \A i \in 1 .. n + 1 : new[i] = half[i]
  BY <1>1, <1>2, <1>3
<1> HIDE DEF new
<1>5. new[n + 1] = <<"start", e>> /\ \A i \in 1 .. n : new[i] = lines[i]
  <2>1. \A i \in 1 .. n : i \in 1 .. n + 1
    BY <1>2
  <2>2. n + 1 \in 1 .. n + 1
    BY <1>2
  <2> QED
    BY <1>3, <1>4, <2>1, <2>2
<1>6. Whole(new)
  <2>1. (n + 2) % 2 = 0
    BY <1>2
  <2>2. ASSUME NEW i \in 1 .. n + 2, i % 2 = 1
        PROVE  new[i][1] = "start" /\ new[i + 1] = <<"end", new[i][2]>>
    <3>1. CASE i \in 1 .. n
      <4>1. i + 1 \in 1 .. n
        BY <1>2, <2>2, <3>1
      <4>2. lines[i][1] = "start" /\ lines[i + 1] = <<"end", lines[i][2]>>
        <5>1. i \in DOMAIN lines
          BY <3>1
        <5> QED
          BY <2>2, <5>1 DEF Whole
      <4> QED
        BY <1>5, <3>1, <4>1, <4>2
    <3>2. CASE i \notin 1 .. n
      <4>1. i = n + 1
        BY <1>2, <2>2, <3>2
      <4>2. (n + 1) + 1 = n + 2
        BY <1>2
      <4> QED
        BY <1>4, <1>5, <4>1, <4>2
    <3> QED
      BY <3>1, <3>2
  <2>3. DOMAIN new = 1 .. n + 2
    BY <1>4
  <2> QED
    BY <1>4, <2>1, <2>2, <2>3 DEF Whole
<1>7. DOMAIN Events(lines) = 1 .. m /\ \A k \in 1 .. m : Events(lines)[k] = lines[2 * k][2]
  BY DEF Events
<1>8. DOMAIN Events(new) = 1 .. m + 1 /\ \A k \in 1 .. m + 1 : Events(new)[k] = new[2 * k][2]
  <2>1. (n + 2) \div 2 = m + 1
    BY <1>2
  <2> QED
    BY <1>4, <2>1 DEF Events
<1>9. Events(new)[m + 1] = e
  <2>1. m + 1 \in 1 .. m + 1 /\ 2 * (m + 1) = n + 2
    BY <1>2
  <2> QED
    BY <1>4, <1>8, <2>1
<1>10. \A k \in 1 .. m : Events(new)[k] = Events(lines)[k]
  <2>1. \A k \in 1 .. m : k \in 1 .. m + 1 /\ 2 * k \in 1 .. n
    BY <1>2
  <2> QED
    BY <1>5, <1>7, <1>8, <2>1
<1> QED
  BY <1>2, <1>4, <1>6, <1>7, <1>8, <1>9, <1>10 DEF new, half

\* A completed line takes its thread from one state to the next.
Completes(e, from, next) ==
  \/ e.type = "request" /\ from = "normalized" /\ next = "recorded"
  \/ e.type = "task_result" /\ from \in {"true", "false"} /\ next = "rated"

Extends(later, found, e, m) ==
  /\ DOMAIN found = 1 .. m /\ DOMAIN later = 1 .. m + 1 /\ later[m + 1] = e
  /\ \A k \in 1 .. m : later[k] = found[k]

LEMMA EventAdded ==
  ASSUME NEW found, NEW of, EventsOK(found, of),
         of \in [Tasks -> {"new", "raised", "normalized"} \cup Recorded],
         NEW m \in Nat, NEW t \in Tasks, NEW e \in Lines, e.task_id = t, NEW next,
         Completes(e, of[t], next),
         NEW new, Extends(new, found, e, m)
  PROVE  EventsOK(new, [of EXCEPT ![t] = next])
<1>0. /\ DOMAIN found = 1 .. m /\ DOMAIN new = 1 .. m + 1 /\ new[m + 1] = e
      /\ \A k \in 1 .. m : new[k] = found[k]
  BY DEF Extends
<1>10. \/ e.type = "request" /\ of[t] = "normalized" /\ next = "recorded"
       \/ e.type = "task_result" /\ of[t] \in {"true", "false"} /\ next = "rated"
  BY DEF Completes
<1> DEFINE after == [of EXCEPT ![t] = next]
           Has(s, type, u) == \E k \in DOMAIN s : s[k].type = type /\ s[k].task_id = u
<1>1. \A k \in 1 .. m + 1 : k \in 1 .. m \/ k = m + 1
  OBVIOUS
<1>2. \A k \in DOMAIN new : new[k] \in Lines
  BY <1>0, <1>1 DEF EventsOK
<1>3. ~Has(found, e.type, t)
  BY <1>10 DEF EventsOK, Recorded
<1>4. \A j, k \in DOMAIN new : new[j].type = new[k].type /\ new[j].task_id = new[k].task_id => j = k
  <2>1. ASSUME NEW j \in 1 .. m, new[j].type = e.type /\ new[j].task_id = e.task_id PROVE FALSE
    BY <1>0, <1>3, <2>1
  <2> QED
    BY <1>0, <1>1, <2>1 DEF EventsOK
<1>5. \A type, u : Has(new, type, u) <=> Has(found, type, u) \/ (e.type = type /\ u = t)
  <2>1. m + 1 \in DOMAIN new /\ \A k \in DOMAIN found : k \in DOMAIN new
    BY <1>0
  <2> QED
    BY <1>0, <1>1, <2>1
<1>6. after[t] = next /\ \A u \in Tasks : u # t => after[u] = of[u]
  OBVIOUS
<1>7. \A u \in Tasks : (of[u] \in Recorded <=> Has(found, "request", u))
                       /\ (of[u] = "rated" <=> Has(found, "task_result", u))
  BY DEF EventsOK
<1> HIDE DEF Has, after
<1>8. \A u \in Tasks : after[u] \in Recorded <=> Has(new, "request", u)
  BY <1>10, <1>5, <1>6, <1>7 DEF Recorded
<1>9. \A u \in Tasks : after[u] = "rated" <=> Has(new, "task_result", u)
  BY <1>10, <1>5, <1>6, <1>7 DEF Recorded
<1> QED
  BY <1>2, <1>4, <1>8, <1>9 DEF EventsOK, Has, after

LEMMA RecorderStarts == RecorderInit => RecorderOK
<1> SUFFICES ASSUME RecorderInit PROVE RecorderOK
  OBVIOUS
<1>1. trace \in Seq(Parts) /\ Len(trace) = 0 /\ writing = {}
  BY DEF RecorderInit
<1>2. Whole(trace)
  BY <1>1 DEF Whole
<1>3. DOMAIN Events(trace) = {}
  BY <1>1 DEF Events
<1>4. EventsOK(Events(trace), calls)
  BY <1>3 DEF EventsOK, RecorderInit, Recorded
<1> QED
  BY <1>1, <1>2, <1>4 DEF RecorderOK, RecorderInit

LEMMA RecorderSteps == RecorderOK /\ RecorderNext => RecorderOK'
<1> SUFFICES ASSUME RecorderOK, RecorderNext PROVE RecorderOK'
  OBVIOUS
<1> DEFINE States == {"new", "raised", "normalized"} \cup Recorded
<1>1. PICK lines \in Seq(Parts) :
        /\ Whole(lines) /\ EventsOK(Events(lines), calls)
        /\ \/ writing = {} /\ trace = lines
           \/ \E t \in Tasks :
                /\ writing = {t} /\ calls[t] \in {"normalized", "true", "false"}
                /\ trace = Append(lines, <<"start", NextLine(t)>>)
  BY DEF RecorderOK
<1>2. calls \in [Tasks -> States]
  BY DEF RecorderOK
<1>3. PICK t \in Tasks : record_response(t) \/ record_outcome(t) \/ Open(t) \/ Close(t)
  BY DEF RecorderNext
<1>4. ASSUME NEW step \in States, calls' = [calls EXCEPT ![t] = step], UNCHANGED <<trace, writing>>,
             calls[t] \notin {"normalized", "true", "false"},
             calls[t] \in Recorded <=> step \in Recorded, calls[t] # "rated" /\ step # "rated"
      PROVE  RecorderOK'
  <2>1. calls' \in [Tasks -> States] /\ calls'[t] = step
        /\ \A u \in Tasks : u # t => calls'[u] = calls[u]
    BY <1>2, <1>4
  <2>2. EventsOK(Events(lines), calls')
    BY <1>1, <1>4, <2>1 DEF EventsOK
  <2>3. ASSUME NEW u \in Tasks, u # t PROVE NextLine(u)' = NextLine(u)
    BY <2>1, <2>3 DEF NextLine
  <2>4. \/ writing' = {} /\ trace' = lines
        \/ \E u \in Tasks :
             /\ writing' = {u} /\ calls'[u] \in {"normalized", "true", "false"}
             /\ trace' = Append(lines, <<"start", NextLine(u)'>>)
    BY <1>1, <1>4, <2>1, <2>3
  <2> QED
    BY <1>1, <2>1, <2>2, <2>4 DEF RecorderOK
<1>5. CASE record_response(t)
  <2>1. PICK step \in {"normalized", "raised"} : calls' = [calls EXCEPT ![t] = step]
    BY <1>5 DEF record_response
  <2>2. calls[t] = "new" /\ UNCHANGED <<trace, writing>>
    BY <1>5 DEF record_response
  <2> QED
    BY <1>4, <2>1, <2>2 DEF Recorded
<1>6. CASE record_outcome(t)
  <2>1. PICK step \in {"true", "false"} : calls' = [calls EXCEPT ![t] = step]
    BY <1>6 DEF record_outcome
  <2>2. calls[t] = "recorded" /\ UNCHANGED <<trace, writing>>
    BY <1>6 DEF record_outcome
  <2> QED
    BY <1>4, <2>1, <2>2 DEF Recorded
<1>7. CASE Open(t)
  <2>1. trace = lines /\ writing' = {t} /\ UNCHANGED calls
        /\ calls[t] \in {"normalized", "true", "false"}
        /\ trace' = Append(lines, <<"start", NextLine(t)>>)
    BY <1>1, <1>7 DEF Open
  <2>2. NextLine(t)' = NextLine(t)
    BY <2>1 DEF NextLine
  <2> QED
    BY <1>1, <1>2, <2>1, <2>2 DEF RecorderOK
<1>8. CASE Close(t)
  <2> DEFINE e == NextLine(t)
             next == IF calls[t] = "normalized" THEN "recorded" ELSE "rated"
             new == Append(Append(lines, <<"start", e>>), <<"end", e>>)
             after == [calls EXCEPT ![t] = next]
  <2>1. /\ writing = {t} /\ calls[t] \in {"normalized", "true", "false"}
        /\ trace = Append(lines, <<"start", e>>)
    BY <1>1, <1>8 DEF Close
  <2>2. trace' = new /\ calls' = after /\ writing' = {}
    BY <1>8, <2>1 DEF Close
  <2>3. e \in Lines /\ e.task_id = t
        /\ Completes(e, calls[t], next)
    BY <2>1, LinesAre DEF NextLine, Completes
  <2> HIDE DEF e, next
  <2>4. new \in Seq(Parts) /\ Whole(new)
    BY <1>1, <2>3, LineAdded
  <2>5. EventsOK(Events(new), after)
    <3> DEFINE m == Len(lines) \div 2
    <3>1. /\ m \in Nat /\ DOMAIN Events(lines) = 1 .. m
          /\ DOMAIN Events(new) = 1 .. m + 1 /\ Events(new)[m + 1] = e
          /\ \A k \in 1 .. m : Events(new)[k] = Events(lines)[k]
      BY <1>1, <2>3, LineAdded
    <3> DEFINE found == Events(lines)
               later == Events(new)
    <3>2. EventsOK(found, calls)
      BY <1>1
    <3>3. Extends(later, found, e, m) /\ m \in Nat
      BY <3>1 DEF Extends
    <3> HIDE DEF m, new, found, later
    <3>4. EventsOK(later, [calls EXCEPT ![t] = next])
      BY <1>2, <2>3, <3>2, <3>3, EventAdded
    <3> QED
      BY <3>4 DEF later, new
  <2>6. after \in [Tasks -> States]
    BY <1>2, <2>3 DEF Recorded, Completes
  <2> HIDE DEF new, after
  <2> QED
    BY <2>2, <2>4, <2>5, <2>6 DEF RecorderOK
<1> QED
  BY <1>3, <1>5, <1>6, <1>7, <1>8

LEMMA SameCount ==
  ASSUME NEW S, IsFiniteSet(S), NEW T, NEW f \in [S -> T],
         \A x, y \in S : f[x] = f[y] => x = y, \A z \in T : \E x \in S : f[x] = z
  PROVE  IsFiniteSet(T) /\ Cardinality(T) = Cardinality(S)
<1>1. f \in Bijection(S, T)
  BY DEF Bijection, Injection, Surjection, IsInjective
<1>2. ExistsBijection(S, T)
  BY <1>1 DEF ExistsBijection
<1> QED
  BY <1>2, FS_Bijection

\* The tasks are listed once each.
LEMMA ListIs ==
  ASSUME NEW S, IsFiniteSet(S)
  PROVE  LET ids == SetToSeq(S) IN
         /\ DOMAIN ids = 1 .. Cardinality(S) /\ Cardinality(S) \in Nat
         /\ \A i \in DOMAIN ids : ids[i] \in S
         /\ \A i, j \in DOMAIN ids : ids[i] = ids[j] => i = j
         /\ \A t \in S : \E i \in DOMAIN ids : ids[i] = t
<1> DEFINE n == Cardinality(S)
           ids == SetToSeq(S)
<1>1. n \in Nat /\ ExistsBijection(1 .. n, S)
  BY FS_CardinalityType
<1>2. \E f \in [1 .. n -> S] : IsInjective(f)
  <2>1. PICK f : f \in Bijection(1 .. n, S)
    BY <1>1 DEF ExistsBijection
  <2>2. f \in [1 .. n -> S] /\ IsInjective(f)
    BY <2>1 DEF Bijection, Injection, IsInjective
  <2> QED
    BY <2>2
<1>3. ids \in [1 .. n -> S] /\ IsInjective(ids)
  BY <1>2 DEF SetToSeq
<1> HIDE DEF ids
<1>4. \A i, j \in 1 .. n : ids[i] = ids[j] => i = j
  BY <1>3 DEF IsInjective
<1>5. \A t \in S : \E i \in 1 .. n : ids[i] = t
  <2>1. ids \in Injection(1 .. n, S)
    BY <1>3, <1>4 DEF Injection, IsInjective
  <2>2. IsFiniteSet(1 .. n) /\ Cardinality(1 .. n) = n
    BY <1>1, FS_Interval
  <2>3. ids \in Surjection(1 .. n, S)
    BY <2>1, <2>2, FS_Injection
  <2> QED
    BY <2>3 DEF Surjection
<1> QED
  BY <1>1, <1>3, <1>4, <1>5 DEF ids

Done == {t \in Tasks : calls[t] \in Recorded}

\* What is in a trace that has no half lines.
LEMMA EventsAre ==
  ASSUME RecorderOK, writing = {}, NEW found, found = Events(trace)
  PROVE  /\ Whole(trace) /\ EventsOK(found, calls)
         /\ \E m \in Nat : DOMAIN found = 1 .. m
         /\ found = <<>> <=> DOMAIN found = {}
<1>1. trace \in Seq(Parts) /\ Whole(trace) /\ EventsOK(found, calls)
  BY DEF RecorderOK
<1>2. Len(trace) \in Nat /\ Len(trace) \div 2 \in Nat
  BY <1>1
<1>3. DOMAIN found = 1 .. Len(trace) \div 2
  BY DEF Events
<1>4. ASSUME DOMAIN found = {} PROVE found = <<>>
  <2>1. found = [k \in DOMAIN found |-> found[k]]
    BY DEF Events
  <2>2. found = [k \in {} |-> found[k]]
    BY <1>4, <2>1
  <2> QED
    BY <2>2
<1> QED
  BY <1>1, <1>2, <1>3, <1>4

\* The events of a trace name the tasks that have recorded a response.
LEMMA TraceNames == ASSUME RecorderOK, writing = {} PROVE Named(Events(trace)) = Done
<1> DEFINE found == Events(trace)
           D == DOMAIN found
<1>1. EventsOK(found, calls)
  BY EventsAre
<1> HIDE DEF found
<1>2. \A k \in D : found[k] \in Lines
  BY <1>1 DEF EventsOK
<1>3. \A t \in Tasks : calls[t] \in Recorded <=> Of(found, "request", t) # {}
  BY <1>1 DEF EventsOK, Of, OfType
<1>4. \A t \in Tasks : calls[t] = "rated" <=> Of(found, "task_result", t) # {}
  BY <1>1 DEF EventsOK, Of, OfType
<1>5. Named(found) = Done
  <2>1. ASSUME NEW k \in D PROVE found[k].task_id \in Done
    <3> DEFINE t == found[k].task_id
    <3>1. t \in Tasks /\ (found[k].type = "request" \/ found[k].type = "task_result")
      BY <1>2, LineIs
    <3>2. Of(found, "request", t) # {} \/ Of(found, "task_result", t) # {}
      BY <3>1 DEF Of, OfType
    <3> QED
      BY <1>3, <1>4, <3>1, <3>2 DEF Done, Recorded
  <2>2. ASSUME NEW t \in Done PROVE t \in Named(found)
    BY <1>3, <2>2 DEF Done, Of, OfType, Named
  <2> QED
    BY <2>1, <2>2 DEF Named
<1> QED
  BY <1>5 DEF found

LEMMA TraceIsReadable == RecorderOK => TraceReadable
<1> SUFFICES ASSUME RecorderOK, writing = {} PROVE TraceReadable
  BY DEF TraceReadable
<1> DEFINE found == Events(trace)
           D == DOMAIN found
           report == TraceReport
           ids == SetToSeq(Done)
<1>1. Whole(trace) /\ EventsOK(found, calls) /\ (found = <<>> <=> D = {})
      /\ \E m \in Nat : D = 1 .. m
  BY EventsAre
<1> HIDE DEF found
<1>2. IsFiniteSet(D)
  BY <1>1, FS_Interval
<1>3. \A k \in D : found[k] \in Lines
  BY <1>1 DEF EventsOK
<1>4. \A j, k \in D : found[j].type = found[k].type /\ found[j].task_id = found[k].task_id => j = k
  BY <1>1 DEF EventsOK
<1>5. \A t \in Tasks : calls[t] \in Recorded <=> Of(found, "request", t) # {}
  BY <1>1 DEF EventsOK, Of, OfType
<1>6. \A t \in Tasks : calls[t] = "rated" <=> Of(found, "task_result", t) # {}
  BY <1>1 DEF EventsOK, Of, OfType
<1>7. Named(found) = Done
  BY TraceNames DEF found
<1>8. IsFiniteSet(Done)
  BY TasksAssumption, FS_Subset DEF Done
<1>9. \A type, t : Of(found, type, t) # {} => \E k : Of(found, type, t) = {k}
  BY <1>4 DEF Of, OfType
<1>10. Readable <=> Done # {}
  <2>1. found = <<>> <=> Done = {}
    BY <1>1, <1>7 DEF Named
  <2>2. ASSUME NEW t \in Named(found)
        PROVE  Of(found, "request", t) # {} /\ Cardinality(Of(found, "task_result", t)) <= 1
    <3>1. Of(found, "request", t) # {}
      BY <1>5, <1>7 DEF Done
    <3>2. Of(found, "task_result", t) = {} \/ \E k : Of(found, "task_result", t) = {k}
      BY <1>9
    <3>3. Cardinality({}) = 0 /\ \A k : Cardinality({k}) = 1
      BY FS_EmptySet, FS_Singleton
    <3>4. \/ Cardinality(Of(found, "task_result", t)) = 0
          \/ Cardinality(Of(found, "task_result", t)) = 1
      BY <3>2, <3>3
    <3> QED
      BY <3>1, <3>4
  <2>3. ASSUME NEW j \in OfType(found, "request"), NEW k \in OfType(found, "request"),
               found[j].request_id = found[k].request_id
        PROVE  j = k
    <3>1. /\ j \in D /\ k \in D /\ found[j] \in Lines /\ found[k] \in Lines
          /\ found[j].type = "request" /\ found[k].type = "request"
      BY <1>3 DEF OfType
    <3>2. found[j].request_id = found[j].task_id /\ found[k].request_id = found[k].task_id
      BY <3>1, RequestIs
    <3> QED
      BY <1>4, <2>3, <3>1, <3>2
  <2>4. Readable <=> Valid(found)
    BY <1>1 DEF Readable, found
  <2> QED
    BY <2>1, <2>2, <2>3, <2>4 DEF Valid
<1>11. report.requests = Cardinality(OfType(found, "request"))
       /\ report.tasks = [i \in DOMAIN ids |-> TaskReport(found, ids[i])]
       /\ report.tasks_without_result =
            Cardinality({i \in DOMAIN ids : Success(found, ids[i]) = "null"})
  <2>1. report = Analyze(found, ids)
    BY <1>7 DEF TraceReport, found
  <2> HIDE DEF ids
  <2> QED
    BY <2>1 DEF Analyze
<1> HIDE DEF report
<1>12. /\ \A i \in DOMAIN ids : ids[i] \in Done
       /\ \A i, j \in DOMAIN ids : ids[i] = ids[j] => i = j
       /\ \A t \in Done : \E i \in DOMAIN ids : ids[i] = t
       /\ IsFiniteSet(DOMAIN ids)
  <2>1. /\ DOMAIN ids = 1 .. Cardinality(Done) /\ Cardinality(Done) \in Nat
        /\ \A i \in DOMAIN ids : ids[i] \in Done
        /\ \A i, j \in DOMAIN ids : ids[i] = ids[j] => i = j
        /\ \A t \in Done : \E i \in DOMAIN ids : ids[i] = t
    BY <1>8, ListIs
  <2> HIDE DEF ids
  <2>2. IsFiniteSet(1 .. Cardinality(Done))
    BY <2>1, FS_Interval
  <2> QED
    BY <2>1, <2>2
<1> HIDE DEF ids
<1>13. {report.tasks[i].task_id : i \in DOMAIN report.tasks} = Done
  <2>1. \A i \in DOMAIN ids : TaskReport(found, ids[i]).task_id = ids[i]
    BY DEF TaskReport
  <2>2. DOMAIN report.tasks = DOMAIN ids /\ \A i \in DOMAIN ids : report.tasks[i].task_id = ids[i]
    BY <1>11, <2>1
  <2> QED
    BY <1>12, <2>2
<1>14. report.requests = Cardinality(Done)
  <2> DEFINE S == OfType(found, "request")
             f == [k \in S |-> found[k].task_id]
  <2>1. IsFiniteSet(S)
    BY <1>2, FS_Subset DEF OfType
  <2>2. \A k \in S : k \in D /\ found[k].type = "request" /\ found[k].task_id \in Done
    BY <1>7 DEF OfType, Named
  <2>3. f \in [S -> Done] /\ \A j, k \in S : f[j] = f[k] => j = k
    BY <1>4, <2>2
  <2>4. \A t \in Done : \E k \in S : f[k] = t
    BY <1>5 DEF Done, Of
  <2> HIDE DEF f, S
  <2>5. Cardinality(Done) = Cardinality(S)
    BY <2>1, <2>3, <2>4, SameCount
  <2> QED
    BY <1>11, <2>5 DEF S
<1>15. report.tasks_without_result = Cardinality({t \in Done : calls[t] # "rated"})
  <2> DEFINE S == {i \in DOMAIN ids : Success(found, ids[i]) = "null"}
             T == {t \in Done : calls[t] # "rated"}
             f == [i \in S |-> ids[i]]
  <2>1. ASSUME NEW t \in Done PROVE Success(found, t) = "null" <=> calls[t] # "rated"
    <3> DEFINE results == Of(found, "task_result", t)
    <3>1. CASE results = {}
      BY <1>6, <3>1 DEF Success, Done
    <3>2. CASE results # {}
      <4>1. (CHOOSE k \in results : TRUE) \in results
        BY <3>2
      <4>2. PICK k \in results : The(found, results) = found[k]
        BY <4>1 DEF The
      <4>3. found[k] \in Lines /\ found[k].type = "task_result"
        BY <1>3 DEF Of, OfType
      <4>4. found[k].success \in {"true", "false"}
        BY <4>3, LineIs
      <4>5. Success(found, t) = found[k].success
        BY <3>2, <4>2 DEF Success
      <4> QED
        BY <1>6, <3>2, <4>4, <4>5 DEF Done
    <3> QED
      BY <3>1, <3>2
  <2>2. IsFiniteSet(S)
    BY <1>12, FS_Subset
  <2>3. f \in [S -> T] /\ \A i, j \in S : f[i] = f[j] => i = j
    BY <1>12, <2>1
  <2>4. \A t \in T : \E i \in S : f[i] = t
    BY <1>12, <2>1
  <2> HIDE DEF f, S, T
  <2>5. Cardinality(T) = Cardinality(S)
    BY <2>2, <2>3, <2>4, SameCount
  <2> QED
    BY <1>11, <2>5 DEF S, T
<1> DEFINE done == {t \in Tasks : calls[t] \in {"recorded", "rated", "true", "false"}}
<1>16. done = Done
  BY DEF Done, Recorded
<1> HIDE DEF done
<1>17. /\ Whole(trace)
       /\ Readable = (done # {})
       /\ Readable =>
            /\ {report.tasks[i].task_id : i \in DOMAIN report.tasks} = done
            /\ report.requests = Cardinality(done)
            /\ report.tasks_without_result = Cardinality({t \in done : calls[t] # "rated"})
  <2>1. Readable \in BOOLEAN
    BY DEF Readable, Whole
  <2> QED
    BY <1>1, <1>10, <1>13, <1>14, <1>15, <1>16, <2>1
<1> QED
  BY <1>17 DEF TraceReadable, report, done

\* The other steps of the page leave the trace alone.
LEMMA RecorderAlone == Next => RecorderNext \/ UNCHANGED recorder
<1> SUFFICES ASSUME Next PROVE RecorderNext \/ UNCHANGED recorder
  OBVIOUS
<1>1. CASE Start \/ Finish
  BY <1>1 DEF Start, Finish
<1>2. CASE \E i \in Polls : Poll(i) \/ PollAnswered(i) \/ PollRefused(i) \/ PollFailed(i)
                            \/ PollShown(i)
  BY <1>2 DEF Poll, PollAnswered, PollRefused, PollFailed, PollShown, Unavailable
<1>3. CASE OpenUndo \/ CancelUndo \/ ConfirmUndo \/ ClickResume \/ ClickTry \/ TryEnds
  BY <1>3 DEF OpenUndo, CancelUndo, ConfirmUndo, ClickResume, ClickTry, TryEnds
<1>4. CASE PostAccepted \/ PostRefused \/ PostLost \/ ReadAgain \/ ReadAnswered \/ ActEnds
  BY <1>4 DEF PostAccepted, PostRefused, PostLost, ReadAgain, ReadAnswered, ActEnds
<1>5. CASE Reset \/ OpenFile \/ OtherPage \/ Edit
  BY <1>5 DEF Reset, OpenFile, OtherPage, Edit
<1>6. CASE TraceGrows
  BY <1>6 DEF TraceGrows, Recording
<1> QED
  BY <1>1, <1>2, <1>3, <1>4, <1>5, <1>6 DEF Next

LEMMA RecorderStays == RecorderOK /\ [Next]_vars => RecorderOK'
<1>1. RecorderOK /\ UNCHANGED recorder => RecorderOK'
  BY DEF recorder, RecorderOK, NextLine
<1> QED
  BY <1>1, RecorderSteps, RecorderAlone DEF vars

\* TraceReadable: whatever the threads do at the same time, the file can be
\* read whenever no line is being written, and its report counts every response
\* and every outcome that was recorded, once.
THEOREM TraceStaysReadable == Spec => []TraceReadable
<1>1. Init => RecorderOK
  BY RecorderStarts DEF Init
<1> QED
  BY <1>1, RecorderStays, TraceIsReadable, PTL DEF Spec

-----------------------------------------------------------------------------
(* What a history holds, whoever wrote it: the server or the demo.            *)

Amounts == Nat \cup {None}
Hashes == Values \cup Nat
Records ==
  [id : Nat, action : {"experiment", "rollback", "resume"}, status : statusTitle,
   applied : BOOLEAN, before : Hashes, after : Hashes, baseline : Amounts, candidate : Amounts]

JudgedStatus == {"error", "rejected", "recommended", "applying", "applied"}

\* A candidate is measured after its baseline and before it is judged; settings
\* that are compared with themselves cost the same.
RecordOK(e) ==
  /\ IsExperiment(e) =>
       /\ e.status # "rolled_back"
       /\ finite(e.candidate) => finite(e.baseline) /\ e.status \in JudgedStatus
       /\ e.applied = (e.status = "applied")
       /\ e.applied => finite(e.candidate)
       /\ finite(e.candidate) /\ e.before = e.after => e.candidate = e.baseline
  /\ ~IsExperiment(e) => e.baseline = None /\ e.candidate = None
  /\ e.action = "rollback" => e.status = "rolled_back" /\ e.applied
  /\ e.action = "resume" => e.status = "resumed" /\ ~e.applied

\* What is undone had been applied.
Undone(e, entries) ==
  \E j \in DOMAIN entries :
    IsExperiment(entries[j]) /\ entries[j].applied /\ entries[j].before = e.after

HistoryOK(entries) ==
  /\ entries \in Seq(Records)
  /\ \A i \in DOMAIN entries : RecordOK(entries[i])
  /\ \A i \in DOMAIN entries : entries[i].action = "rollback" =>
       \E j \in DOMAIN entries : /\ j > i /\ IsExperiment(entries[j]) /\ entries[j].applied
                                 /\ entries[j].before = entries[i].after

Spent(e) == Cost(e.baseline) + Cost(e.candidate)
SpentOn(entries) == TotalOf([i \in DOMAIN entries |-> Spent(entries[i])])

\* A state whose figures are those of its history.
FromHistory(s) ==
  /\ IsState(s) /\ s.report = NoReport /\ HistoryOK(s.entries)
  /\ s.spend = SpentOn(s.entries)
  /\ s.current_report = CurrentReport(s.entries, s.active_hash)
  /\ s.rollback_id = RollbackID(s.entries, s.active_hash)

LEMMA SameState ==
  ASSUME NEW s, NEW t, IsState(s), IsState(t), s.demo = t.demo, s.report = t.report,
         s.entries = t.entries, s.active_hash = t.active_hash, s.paused = t.paused,
         s.spend = t.spend, s.current_report = t.current_report, s.rollback_id = t.rollback_id
  PROVE  s = t
<1>1. DOMAIN Blank = {"demo", "report", "entries", "active_hash", "paused", "spend",
                      "current_report", "rollback_id"}
  BY DEF Blank
<1>2. \A f \in DOMAIN Blank : s[f] = t[f]
  BY <1>1
<1> QED
  BY <1>2, Zenon DEF IsState

IsSnapshot(s, entries, active, paused) ==
  /\ IsState(s) /\ s.demo = FALSE /\ s.report = NoReport /\ s.entries = entries
  /\ s.active_hash = active /\ s.paused = paused /\ s.spend = SpentOn(entries)
  /\ s.current_report = CurrentReport(entries, active)
  /\ s.rollback_id = RollbackID(entries, active)

LEMMA SnapshotFields ==
  ASSUME NEW entries, NEW active, NEW paused
  PROVE  IsSnapshot(Snapshot(entries, active, paused), entries, active, paused)
<1> DEFINE spend == SumOver(entries, LAMBDA e : Cost(e.baseline) + Cost(e.candidate))
           cost == CurrentReport(entries, active)
           id == RollbackID(entries, active)
<1>1. Snapshot(entries, active, paused) =
        [Blank EXCEPT !.entries = entries, !.active_hash = active, !.paused = paused,
                      !.spend = spend, !.current_report = cost, !.rollback_id = id]
  BY DEF Snapshot
<1>2. spend = SpentOn(entries)
  BY DEF SpentOn, Spent, SumOver
<1> HIDE DEF spend, cost, id
<1>3. QED
  BY <1>1, <1>2 DEF IsState, Blank, cost, id, IsSnapshot

LEMMA FromHistoryIs ==
  ASSUME NEW s, FromHistory(s)
  PROVE  s = [Snapshot(s.entries, s.active_hash, s.paused) EXCEPT !.demo = s.demo]
<1> DEFINE t == Snapshot(s.entries, s.active_hash, s.paused)
           u == [t EXCEPT !.demo = s.demo]
<1>1. /\ IsState(t) /\ t.report = NoReport /\ t.entries = s.entries
      /\ t.active_hash = s.active_hash /\ t.paused = s.paused /\ t.spend = SpentOn(s.entries)
      /\ t.current_report = CurrentReport(s.entries, s.active_hash)
      /\ t.rollback_id = RollbackID(s.entries, s.active_hash)
  <2>1. IsSnapshot(t, s.entries, s.active_hash, s.paused)
    BY SnapshotFields
  <2> HIDE DEF t
  <2> QED
    BY <2>1 DEF IsSnapshot
<1> HIDE DEF t
<1>2. /\ IsState(u) /\ u.demo = s.demo /\ u.report = t.report /\ u.entries = t.entries
      /\ u.active_hash = t.active_hash /\ u.paused = t.paused /\ u.spend = t.spend
      /\ u.current_report = t.current_report /\ u.rollback_id = t.rollback_id
  BY <1>1 DEF IsState, Blank
<1> HIDE DEF u
<1>3. s = u
  BY <1>1, <1>2, SameState DEF FromHistory
<1> QED
  BY <1>3 DEF u, t

-----------------------------------------------------------------------------
(* A history grows at its head.                                              *)

LEMMA SpentIs == ASSUME NEW e \in Records PROVE Spent(e) \in Nat
BY DEF Records, Amounts, Spent, Cost, finite, None

LEMMA SpentGrows ==
  ASSUME NEW entries \in Seq(Records), NEW e \in Records
  PROVE  SpentOn(<<e>> \o entries) = SpentOn(entries) + Spent(e)
<1> DEFINE new == <<e>> \o entries
           n == Len(entries)
           f == [i \in 1 .. n |-> Spent(entries[i])]
           g == [i \in 1 .. n + 1 |-> Spent(new[i])]
<1>1. /\ new \in Seq(Records) /\ Len(new) = n + 1 /\ n \in Nat
      /\ new[1] = e /\ \A i \in 1 .. n : new[i + 1] = entries[i]
  BY Prepend
<1>2. DOMAIN entries = 1 .. n /\ DOMAIN new = 1 .. n + 1
  BY <1>1
<1>3. SpentOn(entries) = TotalOf(f) /\ SpentOn(new) = TotalOf(g)
  BY <1>2 DEF SpentOn
<1>4. f \in [1 .. n -> Int] /\ g \in [1 .. n + 1 -> Int]
  <2>1. \A i \in 1 .. n : entries[i] \in Records
    OBVIOUS
  <2>2. \A i \in 1 .. n + 1 : new[i] \in Records
    BY <1>1, <1>2
  <2> HIDE DEF new
  <2> QED
    BY <2>1, <2>2, SpentIs
<1>5. (\A i \in 1 .. n : g[i + 1] = f[i]) /\ g[1] = Spent(e)
  BY <1>1
<1> HIDE DEF f, g, new, n
<1>6. TotalOf(f) \in Int /\ TotalOf(g) = g[1] + TotalOf(f)
  BY <1>1, <1>4, <1>5, SumAtHead
<1>7. Spent(e) \in Int
  BY SpentIs
<1> QED
  BY <1>3, <1>5, <1>6, <1>7 DEF new

LEMMA SpentNat == ASSUME NEW entries \in Seq(Records) PROVE SpentOn(entries) \in Nat
<1> DEFINE n == Len(entries)
           f == [i \in 1 .. n |-> Spent(entries[i])]
<1>1. n \in Nat /\ DOMAIN entries = 1 .. n /\ IsFiniteSet(1 .. n)
  BY FS_Interval
<1>2. \A i \in 1 .. n : Spent(entries[i]) \in Nat
  BY <1>1, SpentIs
<1>3. f \in [1 .. n -> Nat]
  BY <1>2
<1> HIDE DEF f
<1>4. TotalOf(f) \in Nat
  BY <1>1, <1>3, SumNat
<1> QED
  BY <1>1, <1>4 DEF SpentOn, f

LEMMA SpentNothing == SpentOn(<<>>) = 0
BY SumEmpty DEF SpentOn

LEMMA HistoryGrows ==
  ASSUME NEW entries, HistoryOK(entries), NEW e \in Records, RecordOK(e),
         e.action = "rollback" => Undone(e, entries)
  PROVE  HistoryOK(<<e>> \o entries)
<1> DEFINE new == <<e>> \o entries
           n == Len(entries)
<1>1. /\ new \in Seq(Records) /\ Len(new) = n + 1 /\ n \in Nat
      /\ new[1] = e /\ \A i \in 1 .. n : new[i + 1] = entries[i]
  BY Prepend DEF HistoryOK
<1>2. DOMAIN entries = 1 .. n /\ DOMAIN new = 1 .. n + 1
  BY <1>1 DEF HistoryOK
<1> HIDE DEF new
<1>3. ASSUME NEW i \in 1 .. n + 1 PROVE i = 1 \/ (i - 1 \in 1 .. n /\ new[i] = entries[i - 1])
  <2>1. CASE i # 1
    <3>1. i - 1 \in 1 .. n /\ (i - 1) + 1 = i
      BY <1>1, <2>1
    <3> QED
      BY <1>1, <3>1
  <2> QED
    BY <2>1
<1>4. \A i \in DOMAIN new : RecordOK(new[i])
  BY <1>1, <1>2, <1>3 DEF HistoryOK
<1>5. ASSUME NEW i \in DOMAIN new, new[i].action = "rollback"
      PROVE  \E j \in DOMAIN new : /\ j > i /\ IsExperiment(new[j]) /\ new[j].applied
                                   /\ new[j].before = new[i].after
  <2>1. CASE i = 1
    <3>1. PICK j \in 1 .. n :
            IsExperiment(entries[j]) /\ entries[j].applied /\ entries[j].before = e.after
      BY <1>1, <1>2, <1>5, <2>1 DEF Undone
    <3>2. j + 1 \in DOMAIN new /\ j + 1 > i /\ new[j + 1] = entries[j]
      BY <1>1, <1>2, <2>1
    <3> QED
      BY <1>1, <2>1, <3>1, <3>2
  <2>2. CASE i # 1
    <3>1. i - 1 \in 1 .. n /\ new[i] = entries[i - 1]
      BY <1>2, <1>3, <2>2
    <3>2. PICK j \in 1 .. n : /\ j > i - 1 /\ IsExperiment(entries[j]) /\ entries[j].applied
                              /\ entries[j].before = entries[i - 1].after
      BY <1>2, <1>5, <3>1 DEF HistoryOK
    <3>3. j + 1 \in DOMAIN new /\ j + 1 > i /\ new[j + 1] = entries[j]
      BY <1>1, <1>2, <3>2
    <3> QED
      BY <3>1, <3>2, <3>3
  <2> QED
    BY <2>1, <2>2
<1> QED
  BY <1>1, <1>4, <1>5 DEF HistoryOK, new

-----------------------------------------------------------------------------
(* Searching a history.                                                      *)

First(S) == IF S # {} THEN Min(S) ELSE 0

LEMMA FirstIs ==
  ASSUME NEW n \in Nat, NEW S \in SUBSET (1 .. n)
  PROVE  /\ First(S) = 0 <=> S = {}
         /\ S # {} => First(S) \in S /\ \A j \in S : First(S) <= j
<1>1. CASE S # {}
  <2>1. IsFiniteSet(1 .. n) /\ S \subseteq 1 .. n
    BY FS_Interval
  <2>4. IsFiniteSet(S)
    BY <2>1, FS_Subset
  <2>5. S \subseteq Int
    BY <2>1
  <2>2. Min(S) \in S /\ \A j \in S : Min(S) <= j
    BY <1>1, <2>4, <2>5, MinIs
  <2>3. Min(S) # 0
    BY <2>1, <2>2
  <2> QED
    BY <1>1, <2>2, <2>3 DEF First
<1>2. CASE S = {}
  BY <1>2 DEF First
<1> QED
  BY <1>1, <1>2

Applied(e, active) == IsExperiment(e) /\ e.applied /\ e.after = active

\* An experiment that measured the active settings.
Evaluated(e, active) ==
  /\ IsExperiment(e)
  /\ \/ e.before = active /\ finite(e.baseline)
     \/ e.after = active /\ finite(e.candidate)

LEMMA RollbackIDFirst ==
  ASSUME NEW entries, NEW active
  PROVE  LET i == First({k \in 1 .. Len(entries) : Applied(entries[k], active)})
         IN RollbackID(entries, active) = IF i = 0 THEN None ELSE entries[i].id
BY DEF RollbackID, SelectInSeq, First, Applied

LEMMA CurrentReportFirst ==
  ASSUME NEW entries, NEW active
  PROVE  LET i == First({k \in 1 .. Len(entries) : Evaluated(entries[k], active)})
         IN CurrentReport(entries, active) =
              IF i = 0 THEN None
              ELSE IF entries[i].before = active /\ finite(entries[i].baseline)
              THEN entries[i].baseline ELSE entries[i].candidate
BY DEF CurrentReport, SelectInSeq, First, Evaluated

LEMMA RollbackIDGrows ==
  ASSUME NEW entries \in Seq(Records), NEW e \in Records, NEW active
  PROVE  RollbackID(<<e>> \o entries, active) =
           IF Applied(e, active) THEN e.id ELSE RollbackID(entries, active)
<1> DEFINE new == <<e>> \o entries
           n == Len(entries)
           I == {k \in 1 .. n : Applied(entries[k], active)}
           J == {k \in 1 .. n + 1 : Applied(new[k], active)}
<1>1. /\ new \in Seq(Records) /\ Len(new) = n + 1 /\ n \in Nat
      /\ new[1] = e /\ \A i \in 1 .. n : new[i + 1] = entries[i]
  BY Prepend
<1> HIDE DEF new
<1>2. RollbackID(entries, active) = IF First(I) = 0 THEN None ELSE entries[First(I)].id
  BY RollbackIDFirst
<1>3. RollbackID(new, active) = IF First(J) = 0 THEN None ELSE new[First(J)].id
  BY <1>1, RollbackIDFirst
<1>4. /\ First(I) = 0 <=> I = {}
      /\ I # {} => First(I) \in I /\ \A j \in I : First(I) <= j
  BY <1>1, FirstIs
<1>5. /\ First(J) = 0 <=> J = {}
      /\ J # {} => First(J) \in J /\ \A j \in J : First(J) <= j
  <2>1. n + 1 \in Nat /\ J \in SUBSET (1 .. n + 1)
    BY <1>1
  <2> HIDE DEF J, n
  <2> QED
    BY <2>1, FirstIs
<1>6. CASE Applied(e, active)
  <2>1. 1 \in J
    BY <1>1, <1>6
  <2>2. First(J) = 1
    BY <1>1, <1>5, <2>1
  <2>3. RollbackID(new, active) = e.id
    BY <1>1, <1>3, <2>2
  <2> QED
    BY <1>6, <2>3 DEF new
<1>7. CASE ~Applied(e, active)
  <2>1. \A k \in 1 .. n : k + 1 \in J <=> k \in I
    BY <1>1
  <2>2. \A k \in J : k - 1 \in I /\ (k - 1) + 1 = k
    <3>1. SUFFICES ASSUME NEW k \in J PROVE k - 1 \in I /\ (k - 1) + 1 = k
      OBVIOUS
    <3>2. k \in 1 .. n + 1 /\ k # 1
      BY <1>1, <1>7
    <3>3. k - 1 \in 1 .. n /\ (k - 1) + 1 = k
      BY <1>1, <3>2
    <3> QED
      BY <2>1, <3>3
  <2>3. CASE I = {}
    <3>1. J = {}
      BY <2>2, <2>3
    <3> QED
      BY <1>2, <1>3, <1>4, <1>5, <1>7, <2>3, <3>1 DEF new
  <2>4. CASE I # {}
    <3>1. First(I) \in 1 .. n /\ First(I) + 1 \in J
      BY <1>4, <2>1, <2>4
    <3>2. First(J) - 1 \in I /\ First(J) \in 1 .. n + 1 /\ First(J) <= First(I) + 1
      BY <1>5, <2>2, <3>1
    <3>3. First(I) <= First(J) - 1
      BY <1>4, <3>2
    <3>4. First(J) = First(I) + 1
      BY <1>1, <3>1, <3>2, <3>3
    <3>5. new[First(J)] = entries[First(I)]
      BY <1>1, <3>1, <3>4
    <3> QED
      BY <1>2, <1>3, <1>4, <1>5, <1>7, <2>4, <3>1, <3>5 DEF new
  <2> QED
    BY <2>3, <2>4
<1> QED
  BY <1>6, <1>7

-----------------------------------------------------------------------------
(* The demo keeps what the server would work out.                            *)

Numbered(entries) == \A i \in DOMAIN entries : entries[i].id = Len(entries) + 1 - i

\* The experiments of the demo cost what its reports say.
DemoCosts(entries) ==
  \A i \in DOMAIN entries : IsExperiment(entries[i]) =>
    /\ entries[i].before \in Nat /\ entries[i].after \in Nat
    /\ entries[i].baseline = demoReport(entries[i].before).cost
    /\ entries[i].candidate = demoReport(entries[i].after).cost

\* One of them was about these settings.
Tried(entries, active) ==
  \E i \in DOMAIN entries :
    IsExperiment(entries[i]) /\ (entries[i].before = active \/ entries[i].after = active)

DemoHistory(s) ==
  /\ IsState(s) /\ s.demo = TRUE /\ s.report = NoReport /\ s.active_hash \in Nat
  /\ HistoryOK(s.entries) /\ Numbered(s.entries) /\ DemoCosts(s.entries)
  /\ s.spend = SpentOn(s.entries)
  /\ s.rollback_id = RollbackID(s.entries, s.active_hash)

DemoOf(s) ==
  /\ DemoHistory(s) /\ Tried(s.entries, s.active_hash)
  /\ s.current_report = demoReport(s.active_hash).cost

LEMMA DemoReportCost ==
  ASSUME NEW cap \in Nat
  PROVE  /\ demoReport(cap).cost = 2 * (3500 + cap * 15)
         /\ demoReport(cap).cost \in Nat
         /\ demoReport(cap).successful_tasks = IF cap >= 256 THEN 2 ELSE 0
BY DEF demoReport

LEMMA DemoCurrent ==
  ASSUME NEW entries, NEW active \in Nat, HistoryOK(entries), DemoCosts(entries),
         Tried(entries, active)
  PROVE  CurrentReport(entries, active) = demoReport(active).cost
<1> DEFINE S == {k \in 1 .. Len(entries) : Evaluated(entries[k], active)}
           i == First(S)
<1>1. Len(entries) \in Nat /\ DOMAIN entries = 1 .. Len(entries)
  BY DEF HistoryOK
<1>2. ASSUME NEW k \in DOMAIN entries, IsExperiment(entries[k])
      PROVE  /\ finite(entries[k].baseline) /\ finite(entries[k].candidate)
             /\ entries[k].baseline = demoReport(entries[k].before).cost
             /\ entries[k].candidate = demoReport(entries[k].after).cost
  <2>1. /\ entries[k].before \in Nat /\ entries[k].after \in Nat
        /\ entries[k].baseline = demoReport(entries[k].before).cost
        /\ entries[k].candidate = demoReport(entries[k].after).cost
    BY <1>2 DEF DemoCosts
  <2> QED
    BY <2>1, DemoReportCost DEF finite
<1>3. S # {}
  BY <1>1, <1>2 DEF Tried, Evaluated
<1>4. S \in SUBSET (1 .. Len(entries))
  OBVIOUS
<1>5. i \in S /\ i # 0
  <2> HIDE DEF S
  <2> QED
    BY <1>1, <1>3, <1>4, FirstIs
<1>6. CurrentReport(entries, active) =
        IF i = 0 THEN None
        ELSE IF entries[i].before = active /\ finite(entries[i].baseline)
        THEN entries[i].baseline ELSE entries[i].candidate
  BY CurrentReportFirst
<1> HIDE DEF i
<1>7. i \in DOMAIN entries /\ Evaluated(entries[i], active)
  BY <1>1, <1>5
<1> HIDE DEF S
<1> QED
  BY <1>2, <1>5, <1>6, <1>7 DEF Evaluated

LEMMA DemoFromHistory == ASSUME NEW s, DemoOf(s) PROVE FromHistory(s)
BY DemoCurrent DEF DemoOf, DemoHistory, FromHistory

LEMMA NumberedGrows ==
  ASSUME NEW entries \in Seq(Records), NEW e \in Records, Numbered(entries), e.id = Len(entries) + 1
  PROVE  Numbered(<<e>> \o entries)
<1> DEFINE new == <<e>> \o entries
           n == Len(entries)
<1>1. /\ new \in Seq(Records) /\ Len(new) = n + 1 /\ n \in Nat
      /\ new[1] = e /\ \A i \in 1 .. n : new[i + 1] = entries[i]
  BY Prepend
<1> HIDE DEF new
<1>2. ASSUME NEW i \in 1 .. n + 1 PROVE new[i].id = Len(new) + 1 - i
  <2>1. CASE i = 1
    BY <1>1, <2>1
  <2>2. CASE i # 1
    <3>1. i - 1 \in 1 .. n /\ (i - 1) + 1 = i
      BY <1>1, <2>2
    <3>2. entries[i - 1].id = n + 1 - (i - 1)
      BY <3>1 DEF Numbered
    <3> QED
      BY <1>1, <3>1, <3>2
  <2> QED
    BY <2>1, <2>2
<1> QED
  BY <1>1, <1>2 DEF Numbered, new

LEMMA CostsGrow ==
  ASSUME NEW entries \in Seq(Records), NEW e \in Records, DemoCosts(entries),
         IsExperiment(e) =>
           /\ e.before \in Nat /\ e.after \in Nat
           /\ e.baseline = demoReport(e.before).cost
           /\ e.candidate = demoReport(e.after).cost
  PROVE  /\ DemoCosts(<<e>> \o entries)
         /\ \A active :
              \/ IsExperiment(e) /\ (e.before = active \/ e.after = active)
              \/ Tried(entries, active)
              => Tried(<<e>> \o entries, active)
<1> DEFINE new == <<e>> \o entries
           n == Len(entries)
<1>1. /\ new \in Seq(Records) /\ Len(new) = n + 1 /\ n \in Nat
      /\ new[1] = e /\ \A i \in 1 .. n : new[i + 1] = entries[i]
  BY Prepend
<1>2. DOMAIN entries = 1 .. n /\ DOMAIN new = 1 .. n + 1
  BY <1>1
<1> HIDE DEF new
<1>3. ASSUME NEW i \in 1 .. n + 1
      PROVE  i = 1 \/ \E j \in DOMAIN entries : new[i] = entries[j]
  <2>1. CASE i # 1
    <3>1. i - 1 \in 1 .. n /\ (i - 1) + 1 = i
      BY <1>1, <2>1
    <3> QED
      BY <1>1, <1>2, <3>1
  <2> QED
    BY <2>1
<1>4. DemoCosts(new)
  BY <1>1, <1>2, <1>3 DEF DemoCosts
<1>5. \A i \in DOMAIN entries : i + 1 \in DOMAIN new /\ new[i + 1] = entries[i]
  BY <1>1, <1>2
<1>6. 1 \in DOMAIN new
  BY <1>1, <1>2
<1> QED
  BY <1>1, <1>4, <1>5, <1>6 DEF Tried, new

LEMMA MaxOfTwo == ASSUME NEW a \in Int, NEW b \in Int PROVE Max({a, b}) = IF a >= b THEN a ELSE b
<1>1. \E x \in {a, b} : \A y \in {a, b} : x >= y
  BY DEF Max
<1> QED
  BY <1>1 DEF Max

\* A state of the demo after some changes.
Becomes(t, s, entries, spend, active, undo, cost) ==
  /\ IsState(t) /\ t.demo = s.demo /\ t.report = s.report /\ t.entries = entries
  /\ t.spend = spend /\ t.active_hash = active /\ t.rollback_id = undo
  /\ t.current_report = cost

LEMMA DemoChanges ==
  ASSUME NEW s, IsState(s), NEW a, NEW b, NEW c, NEW d, NEW e, NEW f
  PROVE  /\ Becomes([s EXCEPT !.entries = a, !.spend = b, !.active_hash = c,
                              !.rollback_id = d, !.current_report = e], s, a, b, c, d, e)
         /\ Becomes([s EXCEPT !.entries = a, !.active_hash = c, !.current_report = e,
                              !.paused = f, !.rollback_id = d], s, a, s.spend, c, d, e)
         /\ Becomes([s EXCEPT !.paused = f, !.entries = a], s,
                    a, s.spend, s.active_hash, s.rollback_id, s.current_report)
BY DEF Becomes, IsState, Blank

LEMMA NextIDIs == ASSUME NEW s, DemoHistory(s) PROVE NextID(s) = Len(s.entries) + 1 /\ NextID(s) \in Nat
BY DEF DemoHistory, HistoryOK, NextID

\* A trial that compares two output caps.
TrialOf(e, id, before, after, applied) ==
  /\ e \in Records /\ RecordOK(e) /\ IsExperiment(e) /\ e.id = id
  /\ e.before = before /\ e.after = after /\ e.applied = applied
  /\ e.baseline = demoReport(before).cost /\ e.candidate = demoReport(after).cost
  /\ Spent(e) = demoReport(before).cost + demoReport(after).cost

LEMMA TrialEntry ==
  ASSUME NEW id \in Nat, NEW before \in Nat, NEW after \in Nat, NEW applied \in BOOLEAN
  PROVE  TrialOf([Entry(id, "experiment", IF applied THEN "applied" ELSE "rejected") EXCEPT
                     !.applied = applied, !.before = before, !.after = after,
                     !.baseline = demoReport(before).cost, !.candidate = demoReport(after).cost],
                 id, before, after, applied)
<1> DEFINE a == demoReport(before).cost
           b == demoReport(after).cost
           e == [Entry(id, "experiment", IF applied THEN "applied" ELSE "rejected") EXCEPT
                     !.applied = applied, !.before = before, !.after = after,
                     !.baseline = a, !.candidate = b]
<1>1. a \in Nat /\ b \in Nat /\ (before = after => a = b)
  BY DemoReportCost
<1> HIDE DEF a, b
<1>2. /\ e.id = id /\ e.action = "experiment" /\ e.before = before /\ e.after = after
      /\ e.applied = applied /\ e.baseline = a /\ e.candidate = b
      /\ e.status = IF applied THEN "applied" ELSE "rejected"
      /\ DOMAIN e = {"id", "action", "status", "applied", "before", "after", "baseline", "candidate"}
  BY DEF Entry
<1>3. e \in Records
  BY <1>1, <1>2 DEF Records, Entry, Hashes, Amounts, statusTitle
<1> HIDE DEF e
<1>4. RecordOK(e) /\ IsExperiment(e)
  BY <1>1, <1>2 DEF RecordOK, JudgedStatus, IsExperiment, finite
<1>5. Spent(e) = a + b
  BY <1>1, <1>2 DEF Spent, Cost, finite
<1> QED
  BY <1>2, <1>3, <1>4, <1>5 DEF e, a, b, TrialOf

LEMMA DemoTrialKept == ASSUME NEW s, DemoHistory(s) PROVE DemoOf(demoTrial(s))
<1> DEFINE before == s.active_hash
           after == Max({64, before \div 2})
           applied == demoReport(after).successful_tasks = 2 /\ after < before
           a == demoReport(before).cost
           b == demoReport(after).cost
           e == [Entry(NextID(s), "experiment", IF applied THEN "applied" ELSE "rejected") EXCEPT
                   !.applied = applied, !.before = before, !.after = after,
                   !.baseline = a, !.candidate = b]
           entries == <<e>> \o s.entries
           spend == s.spend + a + b
           active == IF applied THEN after ELSE s.active_hash
           undo == IF applied THEN e.id ELSE s.rollback_id
           cost == demoReport(IF applied THEN after ELSE before).cost
           t == [s EXCEPT !.entries = entries, !.spend = spend, !.active_hash = active,
                          !.rollback_id = undo, !.current_report = cost]
<1>1. demoTrial(s) = t
  BY DEF demoTrial
<1>2. before \in Nat /\ NextID(s) \in Nat /\ NextID(s) = Len(s.entries) + 1
  BY NextIDIs DEF DemoHistory
<1>3. after \in Nat
  <2>1. before \div 2 \in Nat
    BY <1>2
  <2>2. Max({64, before \div 2}) = IF 64 >= before \div 2 THEN 64 ELSE before \div 2
    BY <2>1, MaxOfTwo
  <2> QED
    BY <2>1, <2>2
<1>4. applied \in BOOLEAN
  OBVIOUS
<1>5. a \in Nat /\ b \in Nat
  <2> HIDE DEF before, after
  <2>1. \A cap \in Nat : demoReport(cap).cost \in Nat
    BY DemoReportCost
  <2> QED
    BY <1>2, <1>3, <2>1
<1>6. /\ e \in Records /\ RecordOK(e) /\ IsExperiment(e) /\ e.id = NextID(s)
      /\ e.before = before /\ e.after = after /\ e.applied = applied
      /\ e.baseline = a /\ e.candidate = b /\ Spent(e) = a + b
  <2> HIDE DEF before, after, applied
  <2>1. TrialOf(e, NextID(s), before, after, applied)
    BY <1>2, <1>3, <1>4, TrialEntry
  <2> HIDE DEF e
  <2> QED
    BY <2>1 DEF TrialOf
<1> HIDE DEF before, after, applied, a, b, e
<1>7. /\ s.entries \in Seq(Records) /\ HistoryOK(s.entries) /\ Numbered(s.entries)
      /\ DemoCosts(s.entries) /\ s.spend = SpentOn(s.entries) /\ IsState(s)
      /\ s.rollback_id = RollbackID(s.entries, before) /\ s.active_hash = before
  BY DEF DemoHistory, HistoryOK, before
<1>8. e.action # "rollback"
  BY <1>6 DEF IsExperiment
<1>9. HistoryOK(entries) /\ Numbered(entries)
  BY <1>2, <1>6, <1>7, <1>8, HistoryGrows, NumberedGrows
<1>10. DemoCosts(entries) /\ Tried(entries, active)
  <2>1. IsExperiment(e) /\ (e.before = active \/ e.after = active)
    BY <1>6, <1>7
  <2>2. /\ e.before \in Nat /\ e.after \in Nat /\ e.baseline = demoReport(e.before).cost
        /\ e.candidate = demoReport(e.after).cost
    BY <1>2, <1>3, <1>6 DEF a, b
  <2> HIDE DEF active
  <2> QED
    BY <1>6, <1>7, <2>1, <2>2, CostsGrow
<1>11. spend = SpentOn(entries)
  <2>1. SpentOn(entries) = SpentOn(s.entries) + Spent(e)
    BY <1>6, <1>7, SpentGrows
  <2>2. SpentOn(s.entries) \in Int
    BY <1>7, SpentNat
  <2> QED
    BY <1>5, <1>6, <1>7, <2>1, <2>2
<1>12. undo = RollbackID(entries, active)
  <2>1. RollbackID(entries, active) =
          IF Applied(e, active) THEN e.id ELSE RollbackID(s.entries, active)
    BY <1>6, <1>7, RollbackIDGrows
  <2>2. CASE applied
    BY <1>6, <2>1, <2>2 DEF Applied
  <2>3. CASE ~applied
    BY <1>6, <1>7, <2>1, <2>3 DEF Applied
  <2> QED
    BY <2>2, <2>3
<1>13. active \in Nat /\ cost = demoReport(active).cost
  BY <1>2, <1>3, <1>7
<1> HIDE DEF entries, spend, active, undo, cost
<1>14. /\ IsState(t) /\ t.demo = s.demo /\ t.report = s.report /\ t.entries = entries
       /\ t.spend = spend /\ t.active_hash = active /\ t.rollback_id = undo
       /\ t.current_report = cost
  <2>1. Becomes(t, s, entries, spend, active, undo, cost)
    BY <1>7, DemoChanges
  <2> HIDE DEF t
  <2> QED
    BY <2>1 DEF Becomes
<1>15. t.demo = TRUE /\ t.report = NoReport
  BY <1>14 DEF DemoHistory
<1> HIDE DEF t
<1>16. DemoOf(t)
  BY <1>9, <1>10, <1>11, <1>12, <1>13, <1>14, <1>15 DEF DemoOf, DemoHistory
<1> QED
  BY <1>1, <1>16

\* A record of something that is not an experiment.
OtherRecord(e, action, id, before, after) ==
  /\ e \in Records /\ RecordOK(e) /\ ~IsExperiment(e) /\ e.action = action /\ e.id = id
  /\ e.before = before /\ e.after = after /\ Spent(e) = 0

LEMMA RollbackRecord ==
  ASSUME NEW id \in Nat, NEW before \in Hashes, NEW after \in Hashes
  PROVE  OtherRecord([Entry(id, "rollback", "rolled_back") EXCEPT
                        !.applied = TRUE, !.before = before, !.after = after],
                     "rollback", id, before, after)
<1> DEFINE e == [Entry(id, "rollback", "rolled_back") EXCEPT
                   !.applied = TRUE, !.before = before, !.after = after]
<1>1. /\ e.id = id /\ e.action = "rollback" /\ e.status = "rolled_back" /\ e.applied = TRUE
      /\ e.before = before /\ e.after = after /\ e.baseline = None /\ e.candidate = None
  BY DEF Entry
<1>2. e \in Records
  BY DEF Entry, Records, Amounts, statusTitle
<1> HIDE DEF e
<1>3. RecordOK(e) /\ ~IsExperiment(e) /\ Spent(e) = 0
  BY <1>1 DEF RecordOK, IsExperiment, Spent, Cost, finite, None
<1>4. OtherRecord(e, "rollback", id, before, after)
  BY <1>1, <1>2, <1>3 DEF OtherRecord
<1> QED
  BY <1>4 DEF e

LEMMA ResumeRecord ==
  ASSUME NEW id \in Nat
  PROVE  OtherRecord(Entry(id, "resume", "resumed"), "resume", id, None, None)
BY DEF OtherRecord, Entry, Records, Amounts, Hashes, Values, statusTitle, RecordOK, IsExperiment,
       Spent, Cost, finite, None

\* What such a record adds to the demo's history.
LEMMA OtherGrows ==
  ASSUME NEW entries, NEW e, NEW action, NEW before, NEW after,
         HistoryOK(entries), Numbered(entries), DemoCosts(entries),
         OtherRecord(e, action, Len(entries) + 1, before, after),
         action = "rollback" => Undone(e, entries)
  PROVE  /\ HistoryOK(<<e>> \o entries) /\ Numbered(<<e>> \o entries)
         /\ DemoCosts(<<e>> \o entries) /\ SpentOn(<<e>> \o entries) = SpentOn(entries)
         /\ \A active :
              /\ Tried(entries, active) => Tried(<<e>> \o entries, active)
              /\ RollbackID(<<e>> \o entries, active) = RollbackID(entries, active)
<1>1. entries \in Seq(Records) /\ e \in Records /\ RecordOK(e) /\ ~IsExperiment(e)
      /\ e.action = action /\ e.id = Len(entries) + 1 /\ Spent(e) = 0
  BY DEF HistoryOK, OtherRecord
<1>2. HistoryOK(<<e>> \o entries)
  BY <1>1, HistoryGrows
<1>3. Numbered(<<e>> \o entries)
  BY <1>1, NumberedGrows
<1>4. DemoCosts(<<e>> \o entries) /\ \A active : Tried(entries, active) => Tried(<<e>> \o entries, active)
  BY <1>1, CostsGrow
<1>5. SpentOn(<<e>> \o entries) = SpentOn(entries)
  <2>1. SpentOn(<<e>> \o entries) = SpentOn(entries) + Spent(e) /\ SpentOn(entries) \in Nat
    BY <1>1, SpentGrows, SpentNat
  <2> QED
    BY <1>1, <2>1
<1>6. ASSUME NEW active PROVE RollbackID(<<e>> \o entries, active) = RollbackID(entries, active)
  <2>1. RollbackID(<<e>> \o entries, active) =
          IF Applied(e, active) THEN e.id ELSE RollbackID(entries, active)
    BY <1>1, RollbackIDGrows
  <2>2. ~Applied(e, active)
    BY <1>1 DEF Applied
  <2> QED
    BY <2>1, <2>2
<1> QED
  BY <1>2, <1>3, <1>4, <1>5, <1>6

LEMMA DemoResumeKept == ASSUME NEW s, DemoOf(s) PROVE DemoOf(demoResume(s))
<1> DEFINE e == Entry(NextID(s), "resume", "resumed")
           entries == <<e>> \o s.entries
           t == [s EXCEPT !.paused = FALSE, !.entries = entries]
<1>1. demoResume(s) = t
  BY DEF demoResume
<1>2. DemoHistory(s) /\ NextID(s) = Len(s.entries) + 1 /\ NextID(s) \in Nat
  BY NextIDIs DEF DemoOf
<1>3. OtherRecord(e, "resume", Len(s.entries) + 1, None, None)
  BY <1>2, ResumeRecord
<1>4. HistoryOK(s.entries) /\ Numbered(s.entries) /\ DemoCosts(s.entries) /\ IsState(s)
  BY <1>2 DEF DemoHistory
<1> HIDE DEF e
<1>5. /\ HistoryOK(entries) /\ Numbered(entries) /\ DemoCosts(entries)
      /\ SpentOn(entries) = SpentOn(s.entries)
      /\ \A active : /\ Tried(s.entries, active) => Tried(entries, active)
                     /\ RollbackID(entries, active) = RollbackID(s.entries, active)
  <2>1. "resume" # "rollback"
    OBVIOUS
  <2> QED
    BY <1>3, <1>4, <2>1, OtherGrows
<1> HIDE DEF entries
<1>6. Becomes(t, s, entries, s.spend, s.active_hash, s.rollback_id, s.current_report)
  BY <1>4, DemoChanges
<1> HIDE DEF t
<1>7. DemoOf(t)
  BY <1>5, <1>6 DEF Becomes, DemoOf, DemoHistory
<1> QED
  BY <1>1, <1>7

LEMMA DemoRollbackKept == ASSUME NEW s, DemoOf(s) PROVE DemoOf(demoRollback(s))
<1> DEFINE I == {k \in 1 .. Len(s.entries) : s.entries[k].id = s.rollback_id}
           i == First(I)
           source == s.entries[i]
           e == [Entry(NextID(s), "rollback", "rolled_back") EXCEPT
                   !.applied = TRUE, !.before = s.active_hash, !.after = source.before]
           entries == <<e>> \o s.entries
           active == source.before
           cost == demoReport(source.before).cost
           undo == RollbackID(entries, active)
           t == [s EXCEPT !.entries = entries, !.active_hash = active, !.current_report = cost,
                          !.paused = TRUE, !.rollback_id = undo]
<1>1. demoRollback(s) = IF i = 0 THEN s ELSE IF s.active_hash # source.after THEN s ELSE t
  BY DEF demoRollback, NextUndo, SelectInSeq, First
<1>2. DemoHistory(s) /\ NextID(s) = Len(s.entries) + 1 /\ NextID(s) \in Nat
  BY NextIDIs DEF DemoOf
<1>3. /\ HistoryOK(s.entries) /\ Numbered(s.entries) /\ DemoCosts(s.entries) /\ IsState(s)
      /\ s.active_hash \in Nat /\ s.rollback_id = RollbackID(s.entries, s.active_hash)
      /\ s.spend = SpentOn(s.entries)
  BY <1>2 DEF DemoHistory
<1>4. s.entries \in Seq(Records) /\ Len(s.entries) \in Nat /\ DOMAIN s.entries = 1 .. Len(s.entries)
  BY <1>3 DEF HistoryOK
<1> SUFFICES ASSUME i # 0, s.active_hash = source.after PROVE DemoOf(t)
  BY <1>1
<1>5. i \in I
  <2>1. I \in SUBSET (1 .. Len(s.entries))
    OBVIOUS
  <2> HIDE DEF I
  <2> QED
    BY <1>4, <2>1, FirstIs
<1>6. i \in DOMAIN s.entries /\ source.id = s.rollback_id /\ source \in Records
  <2>1. i \in 1 .. Len(s.entries) /\ source.id = s.rollback_id
    BY <1>5
  <2> HIDE DEF i
  <2> QED
    BY <1>4, <2>1
<1> HIDE DEF i, I
<1>7. IsExperiment(source) /\ source.applied
  <2> DEFINE A == {k \in 1 .. Len(s.entries) : Applied(s.entries[k], s.active_hash)}
             j == First(A)
  <2>1. s.rollback_id = IF j = 0 THEN None ELSE s.entries[j].id
    BY <1>3, RollbackIDFirst
  <2>2. s.rollback_id # None
    BY <1>6 DEF Records, None
  <2>3. A \in SUBSET (1 .. Len(s.entries))
    OBVIOUS
  <2>4. j \in A
    <3> HIDE DEF A
    <3> QED
      BY <1>4, <2>1, <2>2, <2>3, FirstIs
  <2>5. j \in DOMAIN s.entries /\ Applied(s.entries[j], s.active_hash)
    BY <1>4, <2>4
  <2> HIDE DEF j
  <2>6. s.entries[j].id = s.entries[i].id
    BY <1>6, <2>1, <2>2
  <2>7. i = j
    BY <1>4, <1>3, <1>6, <2>5, <2>6 DEF Numbered
  <2> QED
    BY <2>5, <2>7 DEF Applied
<1>8. source.before \in Nat
  BY <1>3, <1>6, <1>7 DEF DemoCosts
<1>9. OtherRecord(e, "rollback", Len(s.entries) + 1, s.active_hash, source.before)
  <2>1. s.active_hash \in Hashes /\ source.before \in Hashes
    BY <1>3, <1>8 DEF Hashes
  <2> HIDE DEF source
  <2> QED
    BY <1>2, <2>1, RollbackRecord
<1> HIDE DEF e
<1>10. Undone(e, s.entries)
  BY <1>6, <1>7, <1>9 DEF Undone, OtherRecord
<1>11. /\ HistoryOK(entries) /\ Numbered(entries) /\ DemoCosts(entries)
       /\ SpentOn(entries) = SpentOn(s.entries)
       /\ \A hash : Tried(s.entries, hash) => Tried(entries, hash)
  BY <1>3, <1>9, <1>10, OtherGrows
<1>12. Tried(entries, active)
  BY <1>6, <1>7, <1>11 DEF Tried
<1> HIDE DEF entries, source, active, cost, undo
<1>13. Becomes(t, s, entries, s.spend, active, undo, cost)
  BY <1>3, DemoChanges
<1> HIDE DEF t
<1>14. undo = RollbackID(entries, active) /\ cost = demoReport(active).cost /\ active \in Nat
  BY <1>8 DEF undo, cost, active
<1> QED
  BY <1>2, <1>3, <1>11, <1>12, <1>13, <1>14 DEF Becomes, DemoOf, DemoHistory

LEMMA NothingToUndo ==
  ASSUME NEW entries, NEW active, Len(entries) = 0
  PROVE  RollbackID(entries, active) = None
<1> DEFINE S == {k \in 1 .. Len(entries) : Applied(entries[k], active)}
<1>1. RollbackID(entries, active) = IF First(S) = 0 THEN None ELSE entries[First(S)].id
  BY RollbackIDFirst
<1>2. S = {}
  OBVIOUS
<1> HIDE DEF S
<1>3. First(S) = 0
  BY <1>2 DEF First
<1> QED
  BY <1>1, <1>3

LEMMA ResetDemoKept == DemoOf(resetDemo)
<1> DEFINE s == [Blank EXCEPT !.demo = TRUE, !.active_hash = 1024]
<1>1. /\ s.demo = TRUE /\ s.report = NoReport /\ s.active_hash = 1024 /\ s.entries = <<>>
      /\ s.spend = 0 /\ s.rollback_id = None
  BY DEF Blank
<1>2. IsState(s)
  <2>1. ASSUME NEW c PROVE IsState([Blank EXCEPT !.demo = TRUE, !.active_hash = c])
    BY DEF IsState, Blank
  <2> QED
    BY <2>1, ZenonT(40)
<1> HIDE DEF s
<1>3. <<>> \in Seq(Records) /\ DOMAIN <<>> = {} /\ Len(<<>>) = 0
  OBVIOUS
<1>4. RollbackID(<<>>, 1024) = None
  BY <1>3, NothingToUndo
<1>5. HistoryOK(<<>>) /\ Numbered(<<>>) /\ DemoCosts(<<>>)
  BY <1>3 DEF HistoryOK, Numbered, DemoCosts
<1>6. DemoHistory(s)
  BY <1>1, <1>2, <1>4, <1>5, SpentNothing DEF DemoHistory
<1> QED
  BY <1>6, DemoTrialKept DEF resetDemo, s

-----------------------------------------------------------------------------
(* The demo's reports are those of the traces that its evaluator writes.      *)

LEMMA SumOfTwo ==
  ASSUME NEW a, NEW b, a # b, NEW f \in [{a, b} -> Int]
  PROVE  TotalOf(f) = f[a] + f[b]
<1>1. IsFiniteSet({a, b})
  <2>1. IsFiniteSet({a})
    BY FS_Singleton
  <2>2. IsFiniteSet({a} \cup {b})
    BY <2>1, FS_AddElement
  <2>3. {a, b} = {a} \cup {b}
    OBVIOUS
  <2> QED
    BY <2>2, <2>3
<1>2. TotalOf(f) = f[a] + TotalOf(Only(f, {b}))
  <2>1. {a, b} \ {a} = {b}
    OBVIOUS
  <2>2. TotalOf(f) = f[a] + TotalOf(Only(f, {a, b} \ {a}))
    BY <1>1, SumInt
  <2> QED
    BY <2>1, <2>2
<1>3. TotalOf(Only(f, {b})) = f[b] + TotalOf(Only(f, {}))
  <2>1. DOMAIN f = {a, b} /\ \A x \in DOMAIN f : f[x] \in Int
    OBVIOUS
  <2>2. {b} \in SUBSET DOMAIN f /\ b \in {b} /\ {b} \ {b} = {}
    BY <2>1
  <2>3. TotalOf(Only(f, {b})) = f[b] + TotalOf(Only(f, {b} \ {b}))
    BY <1>1, <2>1, <2>2, SumRemove
  <2> QED
    BY <2>2, <2>3
<1>4. TotalOf(Only(f, {})) = 0
  BY SumEmpty DEF Only
<1> QED
  BY <1>2, <1>3, <1>4

LEMMA SumOfFive ==
  ASSUME NEW f \in [1 .. 5 -> Int]
  PROVE  TotalOf(f) = f[1] + f[2] + f[3] + f[4] + f[5]
<1> DEFINE g(n) == [i \in 1 .. n |-> f[i]]
<1>1. \A n \in 0 .. 4 : TotalOf(g(n)) \in Int /\ TotalOf(g(n + 1)) = TotalOf(g(n)) + f[n + 1]
  <2> SUFFICES ASSUME NEW n \in 0 .. 4
               PROVE  TotalOf(g(n)) \in Int /\ TotalOf(g(n + 1)) = TotalOf(g(n)) + f[n + 1]
    OBVIOUS
  <2>1. n \in Nat /\ g(n) \in [1 .. n -> Int] /\ g(n + 1) \in [1 .. n + 1 -> Int]
    OBVIOUS
  <2>2. (\A i \in 1 .. n : g(n + 1)[i] = g(n)[i]) /\ g(n + 1)[n + 1] = f[n + 1]
    OBVIOUS
  <2> HIDE DEF g
  <2> QED
    BY <2>1, <2>2, SumAtEnd
<1>2. TotalOf(g(0)) = 0
  BY SumEmpty
<1>3. g(5) = f
  OBVIOUS
<1> HIDE DEF g
<1>4. /\ 0 + 1 = 1 /\ 1 + 1 = 2 /\ 2 + 1 = 3 /\ 3 + 1 = 4 /\ 4 + 1 = 5
  OBVIOUS
<1>5. /\ TotalOf(g(1)) = TotalOf(g(0)) + f[1] /\ TotalOf(g(2)) = TotalOf(g(1)) + f[2]
      /\ TotalOf(g(3)) = TotalOf(g(2)) + f[3] /\ TotalOf(g(4)) = TotalOf(g(3)) + f[4]
      /\ TotalOf(g(5)) = TotalOf(g(4)) + f[5]
  BY <1>1, <1>4
<1> QED
  BY <1>2, <1>3, <1>5

DemoTokens(cap) == <<500, 2000, 0, 0, cap>>
DemoResult(cap) == IF cap >= 256 THEN "true" ELSE "false"

LEMMA DemoPrice == ASSUME NEW cap \in Nat PROVE price(DemoTokens(cap)) = 3500 + cap * 15
<1> DEFINE f == [i \in 1 .. 5 |-> DemoTokens(cap)[i] * PriceBook[i]]
<1>1. /\ f \in [1 .. 5 -> Int] /\ f[1] = 5000 /\ f[2] = 2000 /\ f[3] = 0 /\ f[4] = 0
      /\ f[5] = cap * 30
  BY DEF DemoTokens, PriceBook
<1> HIDE DEF f
<1>2. TotalOf(f) = 7000 + cap * 30
  BY <1>1, SumOfFive
<1>3. (7000 + cap * 30) \div 2 = 3500 + cap * 15
  OBVIOUS
<1> QED
  BY <1>2, <1>3 DEF price, f

LEMMA DemoEvents ==
  ASSUME NEW cap \in Nat
  PROVE  evaluate(cap) = <<Request("explain-error", DemoTokens(cap)),
                           Result("explain-error", DemoResult(cap)),
                           Request("extract-fields", DemoTokens(cap)),
                           Result("extract-fields", DemoResult(cap))>>
<1>1. ASSUME NEW a, NEW b, NEW c, NEW d PROVE <<a, b>> \o <<c, d>> = <<a, b, c, d>>
  <2> DEFINE S == {a, b, c, d}
             s == <<a, b>>
             t == <<c, d>>
             u == <<a, b, c, d>>
  <2>1. s \in Seq(S) /\ t \in Seq(S) /\ u \in Seq(S) /\ s \o t \in Seq(S)
    OBVIOUS
  <2>2. Len(s) = 2 /\ Len(t) = 2 /\ Len(u) = 4 /\ Len(s \o t) = 4
    OBVIOUS
  <2>3. (s \o t)[1] = a /\ (s \o t)[2] = b /\ (s \o t)[3] = c /\ (s \o t)[4] = d
    OBVIOUS
  <2>4. \A i \in 1 .. 4 : (s \o t)[i] = u[i]
    BY <2>3
  <2> DEFINE v == s \o t
  <2> HIDE DEF s, t, u, v, S
  <2>5. v = u
    BY <2>1, <2>2, <2>4, SeqEqual DEF v
  <2> QED
    BY <2>5 DEF s, t, u, v
<1> QED
  BY <1>1 DEF evaluate, DemoTasks, DemoTokens, DemoResult

LEMMA DemoPlaces ==
  ASSUME NEW cap \in Nat, NEW found, found = evaluate(cap)
  PROVE  /\ found[1] = Request("explain-error", DemoTokens(cap))
         /\ found[2] = Result("explain-error", DemoResult(cap))
         /\ found[3] = Request("extract-fields", DemoTokens(cap))
         /\ found[4] = Result("extract-fields", DemoResult(cap))
         /\ OfType(found, "request") = {1, 3}
         /\ Of(found, "request", "explain-error") = {1}
         /\ Of(found, "request", "extract-fields") = {3}
         /\ Of(found, "task_result", "explain-error") = {2}
         /\ Of(found, "task_result", "extract-fields") = {4}
<1>1. /\ found[1] = Request("explain-error", DemoTokens(cap))
      /\ found[2] = Result("explain-error", DemoResult(cap))
      /\ found[3] = Request("extract-fields", DemoTokens(cap))
      /\ found[4] = Result("extract-fields", DemoResult(cap))
      /\ DOMAIN found = 1 .. 4
  BY DemoEvents
<1>2. /\ \A t, x : Request(t, x).type = "request" /\ Request(t, x).task_id = t
      /\ \A t, x : Result(t, x).type = "task_result" /\ Result(t, x).task_id = t
  BY DEF Request, Result
<1>3. /\ found[1].type = "request" /\ found[1].task_id = "explain-error"
      /\ found[2].type = "task_result" /\ found[2].task_id = "explain-error"
      /\ found[3].type = "request" /\ found[3].task_id = "extract-fields"
      /\ found[4].type = "task_result" /\ found[4].task_id = "extract-fields"
  BY <1>1, <1>2
<1>4. \A k : k \in DOMAIN found <=> k = 1 \/ k = 2 \/ k = 3 \/ k = 4
  BY <1>1
<1>5. OfType(found, "request") = {1, 3} /\ OfType(found, "task_result") = {2, 4}
  BY <1>3, <1>4 DEF OfType
<1>6. /\ Of(found, "request", "explain-error") = {1}
      /\ Of(found, "request", "extract-fields") = {3}
      /\ Of(found, "task_result", "explain-error") = {2}
      /\ Of(found, "task_result", "extract-fields") = {4}
  BY <1>3, <1>5 DEF Of
<1> QED
  BY <1>1, <1>5, <1>6

LEMMA SumOfOne == ASSUME NEW k, NEW c \in Nat PROVE TotalOf([j \in {k} |-> c]) = c
<1> DEFINE f == [j \in {k} |-> c]
<1>1. IsFiniteSet({k}) /\ f \in [{k} -> Int] /\ f[k] = c
  BY FS_Singleton
<1> HIDE DEF f
<1>2. TotalOf(f) = f[k] + TotalOf(Only(f, {k} \ {k}))
  BY <1>1, SumInt
<1>3. TotalOf(Only(f, {k} \ {k})) = 0
  BY SumEmpty DEF Only
<1> QED
  BY <1>1, <1>2, <1>3 DEF f

\* What the analysis says of a task, from its response and its result.
LEMMA DemoTask ==
  ASSUME NEW cap \in Nat, NEW found, NEW t, NEW j, NEW k,
         Of(found, "request", t) = {j}, Of(found, "task_result", t) = {k},
         found[j] = Request(t, DemoTokens(cap)), found[k] = Result(t, DemoResult(cap))
  PROVE  /\ Success(found, t) = DemoResult(cap)
         /\ TaskReport(found, t) = [task_id |-> t, requests |-> 1, cost |-> 3500 + cap * 15,
                                    success |-> DemoResult(cap)]
<1>1. \A x : (CHOOSE y \in {x} : TRUE) = x
  OBVIOUS
<1>2. The(found, {j}) = found[j] /\ The(found, {k}) = found[k]
  BY <1>1 DEF The
<1>3. Request(t, DemoTokens(cap)).tokens = DemoTokens(cap)
      /\ Result(t, DemoResult(cap)).success = DemoResult(cap)
  BY DEF Request, Result
<1>4. Success(found, t) = DemoResult(cap)
  BY <1>2, <1>3 DEF Success
<1>5. Cardinality({j}) = 1
  BY FS_Singleton
<1>6. TotalOf([i \in {j} |-> price(found[i].tokens)]) = 3500 + cap * 15
  <2> DEFINE c == 3500 + cap * 15
  <2>1. c \in Nat /\ price(found[j].tokens) = c
    BY <1>3, DemoPrice
  <2> HIDE DEF c
  <2>2. [i \in {j} |-> price(found[i].tokens)] = [i \in {j} |-> c]
    BY <2>1
  <2>3. TotalOf([i \in {j} |-> c]) = c
    BY <2>1, SumOfOne
  <2> QED
    BY <2>2, <2>3 DEF c
<1>7. TaskReport(found, t) =
        [task_id |-> t, requests |-> Cardinality({j}),
         cost |-> TotalOf([i \in {j} |-> price(found[i].tokens)]), success |-> Success(found, t)]
  BY DEF TaskReport
<1> QED
  BY <1>4, <1>5, <1>6, <1>7

\* The analysis of what the demo's evaluator writes.
DemoAnalyzed(cap) ==
  LET passed == DemoResult(cap) = "true"
      cost == 3500 + cap * 15
      task(t) == [task_id |-> t, requests |-> 1, cost |-> cost, success |-> DemoResult(cap)]
  IN [requests |-> 2, cost |-> 2 * cost,
      tasks |-> <<task("explain-error"), task("extract-fields")>>,
      tokens |-> <<1000, 4000, 0, 0, 2 * cap>>,
      successful_tasks |-> IF passed THEN 2 ELSE 0,
      failed_tasks |-> IF passed THEN 0 ELSE 2,
      tasks_without_result |-> 0,
      per_success |-> IF passed THEN <<2 * cost, 2>> ELSE <<>>]

\* Sets of two numbers, such as the requests of a task of the demo.
LEMMA PairSize == ASSUME NEW x, NEW y, x # y PROVE Cardinality({x, y}) = 2
<1>1. IsFiniteSet({x}) /\ Cardinality({x}) = 1
  BY FS_Singleton
<1>2. Cardinality({x} \cup {y}) = 2
  BY <1>1, FS_AddElement
<1>3. {x, y} = {x} \cup {y}
  OBVIOUS
<1> QED
  BY <1>2, <1>3

LEMMA DemoPairs ==
  Cardinality({1, 3}) = 2 /\ Cardinality({1, 2}) = 2 /\ Cardinality({}) = 0
<1>1. 1 # 3 /\ 1 # 2
  OBVIOUS
<1>2. Cardinality({1, 3}) = 2
  BY <1>1, PairSize
<1>3. Cardinality({1, 2}) = 2
  BY <1>1, PairSize
<1> QED
  BY <1>2, <1>3, FS_EmptySet

LEMMA DemoAnalysis ==
  ASSUME NEW cap \in Nat
  PROVE  Analyze(evaluate(cap), DemoTasks) = DemoAnalyzed(cap)
<1> DEFINE found == evaluate(cap)
           a == "explain-error"
           b == "extract-fields"
           result == DemoResult(cap)
           passed == result = "true"
           cost == 3500 + cap * 15
           task(t) == [task_id |-> t, requests |-> 1, cost |-> cost, success |-> result]
           tasks == [i \in DOMAIN DemoTasks |-> TaskReport(found, DemoTasks[i])]
           of(success) == Cardinality({i \in DOMAIN DemoTasks : Success(found, DemoTasks[i]) = success})
<1>1. DOMAIN DemoTasks = 1 .. 2 /\ DemoTasks[1] = a /\ DemoTasks[2] = b
  BY DEF DemoTasks
<1>2. result \in {"true", "false"}
  BY DEF DemoResult
<1>3. /\ found[1] = Request(a, DemoTokens(cap)) /\ found[2] = Result(a, result)
      /\ found[3] = Request(b, DemoTokens(cap)) /\ found[4] = Result(b, result)
      /\ OfType(found, "request") = {1, 3}
      /\ Of(found, "request", a) = {1} /\ Of(found, "request", b) = {3}
      /\ Of(found, "task_result", a) = {2} /\ Of(found, "task_result", b) = {4}
  BY DemoPlaces
<1>4. /\ Success(found, a) = result /\ TaskReport(found, a) = task(a)
      /\ Success(found, b) = result /\ TaskReport(found, b) = task(b)
  <2> HIDE DEF found, a, b
  <2> QED
    BY <1>3, DemoTask
<1> HIDE DEF found
<1>5. tasks = <<task(a), task(b)>>
  <2>1. tasks = [i \in 1 .. 2 |-> TaskReport(found, DemoTasks[i])]
    BY <1>1
  <2> DEFINE x == task(a)
             y == task(b)
  <2>2. tasks[1] = x /\ tasks[2] = y
    BY <1>1, <1>4
  <2>3. tasks \in Seq({x, y}) /\ Len(tasks) = 2
    <3>1. \A i \in 1 .. 2 : tasks[i] \in {x, y}
      BY <2>2
    <3> HIDE DEF x, y
    <3> QED
      BY <2>1, <3>1
  <2> HIDE DEF tasks, x, y
  <2>4. <<x, y>> \in Seq({x, y}) /\ Len(<<x, y>>) = 2 /\ \A i \in 1 .. 2 : <<x, y>>[i] = tasks[i]
    BY <2>2
  <2>5. tasks = <<x, y>>
    BY <2>3, <2>4, SeqEqual
  <2> QED
    BY <2>5 DEF x, y
<1>6. cost \in Nat
  OBVIOUS
<1>7. TotalCost(tasks) = 2 * cost
  <2> DEFINE f == [i \in DOMAIN tasks |-> tasks[i].cost]
  <2>1. DOMAIN tasks = {1, 2}
    BY <1>1
  <2>2. tasks[1].cost = cost /\ tasks[2].cost = cost
    BY <1>1, <1>4
  <2> HIDE DEF tasks, cost
  <2>3. f \in [{1, 2} -> Int] /\ f[1] = cost /\ f[2] = cost
    BY <1>6, <2>1, <2>2
  <2> HIDE DEF f
  <2>5. 1 # 2
    OBVIOUS
  <2>4. TotalOf(f) = f[1] + f[2]
    BY <2>3, <2>5, SumOfTwo
  <2> QED
    BY <1>6, <2>3, <2>4 DEF TotalCost, f
<1>8. ASSUME NEW i \in 1 .. 5 PROVE TotalTokens(found, i) = 2 * DemoTokens(cap)[i]
  <2> DEFINE f == [k \in {1, 3} |-> found[k].tokens[i]]
             x == DemoTokens(cap)[i]
  <2>1. x \in Int
    BY DEF DemoTokens
  <2>2. found[1].tokens = DemoTokens(cap) /\ found[3].tokens = DemoTokens(cap)
    BY <1>3 DEF Request
  <2> HIDE DEF x
  <2>3. f \in [{1, 3} -> Int] /\ f[1] = x /\ f[3] = x
    BY <2>1, <2>2 DEF x
  <2> HIDE DEF f
  <2>4. TotalOf(f) = x + x
    BY <2>3, SumOfTwo
  <2> QED
    BY <1>3, <2>1, <2>4 DEF TotalTokens, f, x
<1>9. [i \in 1 .. 5 |-> TotalTokens(found, i)] = <<1000, 4000, 0, 0, 2 * cap>>
  <2> DEFINE g == [i \in 1 .. 5 |-> 2 * DemoTokens(cap)[i]]
             h == <<1000, 4000, 0, 0, 2 * cap>>
  <2>1. \A i \in 1 .. 5 : g[i] = h[i]
    BY DEF DemoTokens
  <2>2. g \in Seq(Nat) /\ Len(g) = 5
    <3>1. \A i \in 1 .. 5 : g[i] \in Nat
      BY DEF DemoTokens
    <3> QED
      BY <3>1
  <2>3. h \in Seq(Nat) /\ Len(h) = 5
    OBVIOUS
  <2>4. [i \in 1 .. 5 |-> TotalTokens(found, i)] = g
    BY <1>8
  <2> HIDE DEF g, h
  <2>5. g = h
    BY <2>1, <2>2, <2>3, SeqEqual
  <2> QED
    BY <2>4, <2>5 DEF h
<1>10. Cardinality({1, 3}) = 2 /\ Cardinality({1, 2}) = 2 /\ Cardinality({}) = 0
  BY DemoPairs
<1>11. ASSUME NEW success
       PROVE  of(success) = IF result = success THEN 2 ELSE 0
  <2>1. \A i : i \in DOMAIN DemoTasks <=> i = 1 \/ i = 2
    BY <1>1
  <2>2. \A i \in DOMAIN DemoTasks : Success(found, DemoTasks[i]) = result
    BY <1>1, <1>4, <2>1
  <2>3. {i \in DOMAIN DemoTasks : Success(found, DemoTasks[i]) = success} =
          IF result = success THEN {1, 2} ELSE {}
    BY <2>1, <2>2
  <2> QED
    BY <1>10, <2>3
<1>12. of("true") = (IF passed THEN 2 ELSE 0) /\ of("false") = (IF passed THEN 0 ELSE 2)
       /\ of("null") = 0
  BY <1>2, <1>11
<1>13. Analyze(found, DemoTasks) =
         [requests |-> Cardinality(OfType(found, "request")), cost |-> TotalCost(tasks),
          tasks |-> tasks, tokens |-> [i \in 1 .. 5 |-> TotalTokens(found, i)],
          successful_tasks |-> of("true"), failed_tasks |-> of("false"),
          tasks_without_result |-> of("null"),
          per_success |-> IF of("true") > 0 /\ of("null") = 0
                          THEN <<TotalCost(tasks), of("true")>> ELSE <<>>]
  BY DEF Analyze
<1>14. (IF of("true") > 0 /\ of("null") = 0 THEN <<TotalCost(tasks), of("true")>> ELSE <<>>) =
         IF passed THEN <<2 * cost, 2>> ELSE <<>>
  BY <1>7, <1>12
<1>15. Cardinality(OfType(found, "request")) = 2
  BY <1>3, <1>10
<1> DEFINE final == IF passed THEN <<2 * cost, 2>> ELSE <<>>
           both == <<task(a), task(b)>>
           tokens == <<1000, 4000, 0, 0, 2 * cap>>
<1>16. DemoAnalyzed(cap) =
         [requests |-> 2, cost |-> 2 * cost, tasks |-> both, tokens |-> tokens,
          successful_tasks |-> IF passed THEN 2 ELSE 0,
          failed_tasks |-> IF passed THEN 0 ELSE 2,
          tasks_without_result |-> 0, per_success |-> final]
  BY DEF DemoAnalyzed
<1>17. tasks = both
  BY <1>5
<1>18. [i \in 1 .. 5 |-> TotalTokens(found, i)] = tokens
  BY <1>9
<1> DEFINE per == IF of("true") > 0 /\ of("null") = 0 THEN <<TotalCost(tasks), of("true")>> ELSE <<>>
<1>19. per = final
  BY <1>14
<1>20. Analyze(found, DemoTasks) =
         [requests |-> 2, cost |-> TotalCost(tasks), tasks |-> tasks, tokens |-> tokens,
          successful_tasks |-> of("true"), failed_tasks |-> of("false"),
          tasks_without_result |-> of("null"), per_success |-> per]
  BY <1>13, <1>15, <1>18
<1> HIDE DEF tasks, of, passed, cost, final, both, tokens, per
<1>21. Analyze(found, DemoTasks) = DemoAnalyzed(cap)
  BY <1>7, <1>12, <1>16, <1>17, <1>19, <1>20
<1> QED
  BY <1>21 DEF found

\* What DemoMatchesSnapshot says of the demo's reports.
ReportMatches(cap) ==
  LET shown == demoReport(cap)
      analyzed == Analyze(evaluate(cap), DemoTasks)
  IN /\ [shown EXCEPT !.per_success = <<>>] = [analyzed EXCEPT !.per_success = <<>>]
     /\ PerSuccessMatches([shown EXCEPT !.per_success = analyzed.per_success])

LEMMA DemoReportMatches == ASSUME NEW cap \in Nat PROVE ReportMatches(cap)
<1> DEFINE cost == 3500 + cap * 15
           passed == DemoResult(cap) = "true"
           task(t) == [task_id |-> t, requests |-> 1, cost |-> cost, success |-> DemoResult(cap)]
           tasks == <<task("explain-error"), task("extract-fields")>>
           tokens == <<1000, 4000, 0, 0, 2 * cap>>
           right == IF passed THEN 2 ELSE 0
           wrong == IF passed THEN 0 ELSE 2
           per == IF passed THEN <<2 * cost, 2>> ELSE <<>>
           perShown == IF passed THEN <<cost, 1>> ELSE <<>>
           shown == demoReport(cap)
           analyzed == DemoAnalyzed(cap)
           r == [shown EXCEPT !.per_success = analyzed.per_success]
<1>1. analyzed = [requests |-> 2, cost |-> 2 * cost, tasks |-> tasks, tokens |-> tokens,
                  successful_tasks |-> right, failed_tasks |-> wrong,
                  tasks_without_result |-> 0, per_success |-> per]
  BY DEF DemoAnalyzed
<1>2. 500 * 5 + 1000 + cap * 15 = cost /\ (passed <=> cap >= 256) /\ cost \in Nat
  BY DEF DemoResult
<1>3. shown = [requests |-> 2, cost |-> 2 * cost, tasks |-> tasks, tokens |-> tokens,
               successful_tasks |-> right, failed_tasks |-> wrong,
               tasks_without_result |-> 0, per_success |-> perShown]
  <2> DEFINE success == cap >= 256
             c == 500 * 5 + 1000 + cap * 15
             own(id) == [task_id |-> id, requests |-> 1, cost |-> c,
                         success |-> IF success THEN "true" ELSE "false"]
  <2>1. shown = [requests |-> 2, cost |-> 2 * c, tokens |-> tokens,
                 tasks |-> <<own("explain-error"), own("extract-fields")>>,
                 successful_tasks |-> IF success THEN 2 ELSE 0,
                 failed_tasks |-> IF success THEN 0 ELSE 2,
                 tasks_without_result |-> 0,
                 per_success |-> IF success THEN <<c, 1>> ELSE <<>>]
    BY DEF demoReport
  <2>2. c = cost /\ (success <=> passed)
    BY <1>2
  <2>3. ASSUME NEW id PROVE own(id) = task(id)
    BY <2>2 DEF DemoResult
  <2>4. <<own("explain-error"), own("extract-fields")>> = tasks
    BY <2>3
  <2> HIDE DEF own, c, task, success, cost, tokens, passed
  <2> QED
    BY <2>1, <2>2, <2>4
<1>4. [shown EXCEPT !.per_success = <<>>] = [analyzed EXCEPT !.per_success = <<>>]
  <2> HIDE DEF shown, analyzed, cost, tasks, tokens, right, wrong, per, perShown
  <2> QED
    BY <1>1, <1>3
<1>5. /\ r.tasks = tasks /\ r.successful_tasks = right /\ r.tasks_without_result = 0
      /\ r.per_success = per
  <2> HIDE DEF shown, analyzed, cost, tasks, tokens, right, wrong, per, perShown
  <2> QED
    BY <1>1, <1>3
<1>6. SumOver(tasks, LAMBDA t : t.cost) = 2 * cost
  <2> DEFINE f == [i \in DOMAIN tasks |-> tasks[i].cost]
  <2>1. DOMAIN tasks = {1, 2} /\ tasks[1].cost = cost /\ tasks[2].cost = cost
    OBVIOUS
  <2> HIDE DEF tasks, cost
  <2>2. f \in [{1, 2} -> Int] /\ f[1] = cost /\ f[2] = cost
    BY <1>2, <2>1
  <2>3. 1 # 2
    OBVIOUS
  <2> HIDE DEF f
  <2>4. TotalOf(f) = f[1] + f[2]
    BY <2>2, <2>3, SumOfTwo
  <2>5. SumOver(tasks, LAMBDA t : t.cost) = TotalOf(f)
    BY DEF SumOver, f
  <2> QED
    BY <1>2, <2>2, <2>4, <2>5
<1>7. PerSuccess(2 * cost, right, 0) = per
  BY DEF PerSuccess
<1> HIDE DEF r, tasks, right, per, cost
<1>8. PerSuccessMatches(r)
  <2> DEFINE own == PerSuccess(SumOver(r.tasks, LAMBDA t : t.cost), r.successful_tasks,
                               r.tasks_without_result)
  <2>1. own = per /\ r.per_success = per
    BY <1>5, <1>6, <1>7
  <2>2. PerSuccessMatches(r) <=> /\ (own = <<>>) = (r.per_success = <<>>)
                                 /\ own # <<>> => own[1] * r.per_success[2] = r.per_success[1] * own[2]
    BY DEF PerSuccessMatches
  <2> HIDE DEF own
  <2> QED
    BY <2>1, <2>2
<1>9. Analyze(evaluate(cap), DemoTasks) = analyzed
  BY DemoAnalysis
<1> QED
  BY <1>4, <1>8, <1>9 DEF ReportMatches, r

\* What the invariant gives of the demo.
LEMMA DemoMatches == ASSUME page.state.demo => DemoOf(page.state) PROVE DemoMatchesSnapshot
<1> DEFINE s == page.state
<1> SUFFICES ASSUME s.demo
             PROVE  /\ s = [Snapshot(s.entries, s.active_hash, s.paused) EXCEPT !.demo = TRUE]
                    /\ ReportMatches(s.active_hash)
  BY DEF DemoMatchesSnapshot, ReportMatches
<1>1. DemoOf(s) /\ s.demo = TRUE /\ s.active_hash \in Nat
  BY DEF DemoOf, DemoHistory
<1>2. FromHistory(s)
  BY <1>1, DemoFromHistory
<1>3. s = [Snapshot(s.entries, s.active_hash, s.paused) EXCEPT !.demo = s.demo]
  BY <1>2, FromHistoryIs
<1> QED
  BY <1>1, <1>3, DemoReportMatches

-----------------------------------------------------------------------------
(* The points of the chart, one record after the other.                       *)

Points ==
  [label : {"Start", "before", "after", "Restored"}, cost : Nat, status : statusTitle \cup {"baseline"}]
Drawings == [trial : Nat, points : Seq(Points)]

Trialled(e) == IsExperiment(e) /\ finite(e.baseline)

LEMMA AmountIs ==
  ASSUME NEW a \in Amounts
  PROVE  a \in Int /\ (finite(a) <=> a \in Nat) /\ (finite(a) <=> a # None)
BY DEF Amounts, finite, None

LEMMA PointIs ==
  ASSUME NEW label \in {"Start", "before", "after", "Restored"}, NEW cost \in Nat,
         NEW status \in statusTitle \cup {"baseline"}
  PROVE  /\ Point(label, cost, status) \in Points
         /\ Point(label, cost, status).label = label /\ Point(label, cost, status).cost = cost
         /\ Point(label, cost, status).status = status
BY DEF Point, Points

LEMMA EvaluatedIs ==
  ASSUME NEW e \in Records, RecordOK(e), NEW active
  PROVE  Measured(e, active) <=> Evaluated(e, active)
<1>1. ~IsExperiment(e) => ~finite(e.baseline) /\ ~finite(e.candidate)
  BY DEF RecordOK, finite, None
<1> QED
  BY <1>1 DEF Measured, Evaluated

LEMMA CostOfFirst ==
  ASSUME NEW entries, NEW hash
  PROVE  LET e == entries[First({k \in 1 .. Len(entries) : Measured(entries[k], hash)})]
         IN CostOf(entries, hash) = IF e.after = hash /\ finite(e.candidate) THEN e.candidate ELSE e.baseline
BY DEF CostOf, SelectInSeq, First

\* The chart and the first card take the cost of some settings from one record.
LEMMA CostOfIs ==
  ASSUME NEW entries, HistoryOK(entries), NEW hash, HasCost(entries, hash)
  PROVE  CostOf(entries, hash) = CurrentReport(entries, hash) /\ CostOf(entries, hash) \in Nat
<1> DEFINE n == Len(entries)
           M == {k \in 1 .. n : Measured(entries[k], hash)}
           E == {k \in 1 .. n : Evaluated(entries[k], hash)}
           i == First(M)
           e == entries[i]
<1>1. n \in Nat /\ DOMAIN entries = 1 .. n /\ \A k \in 1 .. n : entries[k] \in Records /\ RecordOK(entries[k])
  BY DEF HistoryOK
<1>2. M = E
  BY <1>1, EvaluatedIs
<1>3. M # {} /\ M \in SUBSET (1 .. n)
  BY <1>1 DEF HasCost
<1>4. i \in M /\ i # 0
  <2> HIDE DEF M
  <2> QED
    BY <1>1, <1>3, FirstIs
<1>5. CostOf(entries, hash) = IF e.after = hash /\ finite(e.candidate) THEN e.candidate ELSE e.baseline
  BY CostOfFirst
<1>6. CurrentReport(entries, hash) =
        IF e.before = hash /\ finite(e.baseline) THEN e.baseline ELSE e.candidate
  <2>1. First(E) = i
    BY <1>2
  <2>2. CurrentReport(entries, hash) =
          IF First(E) = 0 THEN None
          ELSE IF entries[First(E)].before = hash /\ finite(entries[First(E)].baseline)
          THEN entries[First(E)].baseline ELSE entries[First(E)].candidate
    BY CurrentReportFirst
  <2> HIDE DEF E, i
  <2> QED
    BY <1>4, <2>1, <2>2
<1>7. e \in Records /\ RecordOK(e) /\ Measured(e, hash) /\ Evaluated(e, hash)
  <2> HIDE DEF i
  <2> QED
    BY <1>1, <1>2, <1>4
<1> HIDE DEF e, i, M, E
<1>8. e.baseline \in Amounts /\ e.candidate \in Amounts
  BY <1>7 DEF Records
<1>9. IsExperiment(e)
  BY <1>7 DEF Evaluated
<1> QED
  BY <1>5, <1>6, <1>7, <1>8, <1>9, AmountIs DEF Measured, RecordOK

LEMMA NoPoints ==
  ASSUME NEW p \in Seq(Points), NEW x \in Points
  PROVE  p \o <<>> = p /\ p \o <<x>> = Append(p, x) /\ Append(p, x) \in Seq(Points)
BY ConcatEmptySeq, AppendIsConcat

Then(points, more, x) == IF more THEN Append(points, x) ELSE points
Maybe(more, x) == IF more THEN <<x>> ELSE <<>>

Associates(q, r, w) == (q \o r) \o w = q \o (r \o w)

LEMMA ConcatIs ==
  ASSUME NEW D, NEW q \in Seq(D), NEW r \in Seq(D), NEW w \in Seq(D)
  PROVE  Associates(q, r, w)
BY ConcatAssociative DEF Associates

Adds(p, x, y, z, a, b, c) ==
  /\ p \o (Maybe(a, x) \o Maybe(b, y) \o Maybe(c, z)) = Then(Then(Then(p, a, x), b, y), c, z)
  /\ Then(Then(Then(p, a, x), b, y), c, z) \in Seq(Points)

LEMMA ThreeMore ==
  ASSUME NEW p \in Seq(Points), NEW x \in Points, NEW y \in Points, NEW z \in Points,
         NEW a \in BOOLEAN, NEW b \in BOOLEAN, NEW c \in BOOLEAN
  PROVE  Adds(p, x, y, z, a, b, c)
<1> DEFINE s == Maybe(a, x)
           t == Maybe(b, y)
           u == Maybe(c, z)
<1>1. s \in Seq(Points) /\ t \in Seq(Points) /\ u \in Seq(Points)
  BY DEF Maybe
<1>2. \A q \in Seq(Points) : /\ q \o s = Then(q, a, x) /\ q \o t = Then(q, b, y) /\ q \o u = Then(q, c, z)
                             /\ q \o s \in Seq(Points) /\ q \o t \in Seq(Points) /\ q \o u \in Seq(Points)
  BY NoPoints DEF Maybe, Then
<1> HIDE DEF s, t, u
<1>3. p \o ((s \o t) \o u) = ((p \o s) \o t) \o u
  <2>1. s \o t \in Seq(Points) /\ p \o s \in Seq(Points)
    BY <1>1
  <2>2. Associates(p, s \o t, u) /\ Associates(p, s, t)
    BY <1>1, <2>1, ConcatIs
  <2> QED
    BY <2>2 DEF Associates
<1>4. p \o s \in Seq(Points) /\ (p \o s) \o t \in Seq(Points) /\ ((p \o s) \o t) \o u \in Seq(Points)
  BY <1>2
<1> QED
  BY <1>2, <1>3, <1>4 DEF s, t, u, Adds

StartOf(e) == Point("Start", e.baseline, "baseline")
BeforeOf(e) == Point("before", e.baseline, "baseline")
AfterOf(e) == Point("after", e.candidate, e.status)
RestoredOf(e, entries) == Point("Restored", CostOf(entries, e.after), "rolled_back")
RestoresCost(e, entries) == e.status = "rolled_back" /\ HasCost(entries, e.after)

\* The drawing after a trial, after a rollback, and after another record.
LEMMA ExtendedIs ==
  ASSUME NEW d \in Drawings, NEW e \in Records, RecordOK(e), NEW entries, HistoryOK(entries)
  PROVE  /\ Trialled(e) =>
              Extended(d, e, entries) =
                [trial |-> d.trial + 1,
                 points |-> Then(Then(Then(d.points, d.points = <<>>, StartOf(e)),
                                      d.trial > 0, BeforeOf(e)),
                                 finite(e.candidate), AfterOf(e))]
         /\ ~Trialled(e) /\ RestoresCost(e, entries) =>
              Extended(d, e, entries) =
                [trial |-> d.trial, points |-> Append(d.points, RestoredOf(e, entries))]
         /\ ~Trialled(e) /\ ~RestoresCost(e, entries) => Extended(d, e, entries) = d
         /\ Extended(d, e, entries) \in Drawings
<1>1. d.trial \in Nat /\ d.points \in Seq(Points)
  BY DEF Drawings
<1>2. e.baseline \in Amounts /\ e.candidate \in Amounts /\ e.status \in statusTitle
  BY DEF Records
<1>3. CASE Trialled(e)
  <2> DEFINE points == Then(Then(Then(d.points, d.points = <<>>, StartOf(e)), d.trial > 0, BeforeOf(e)),
                            finite(e.candidate), AfterOf(e))
             x == IF finite(e.candidate) THEN AfterOf(e) ELSE StartOf(e)
  <2>1. StartOf(e) \in Points /\ BeforeOf(e) \in Points /\ x \in Points
    BY <1>2, <1>3, PointIs, AmountIs DEF Trialled, StartOf, BeforeOf, AfterOf
  <2>2. TrialPoints(e, d.trial + 1, d.points = <<>>) =
          Maybe(d.points = <<>>, StartOf(e)) \o Maybe(d.trial + 1 > 1, BeforeOf(e))
            \o Maybe(finite(e.candidate), AfterOf(e))
    BY DEF TrialPoints, Maybe, StartOf, BeforeOf, AfterOf
  <2>3. Maybe(finite(e.candidate), AfterOf(e)) = Maybe(finite(e.candidate), x)
        /\ \A p : Then(p, finite(e.candidate), AfterOf(e)) = Then(p, finite(e.candidate), x)
    BY DEF Maybe, Then
  <2>4. d.trial + 1 > 1 <=> d.trial > 0
    BY <1>1
  <2>5. Maybe(d.trial + 1 > 1, BeforeOf(e)) = Maybe(d.trial > 0, BeforeOf(e))
    BY <2>4 DEF Maybe
  <2> DEFINE a == d.points = <<>>
             b == d.trial > 0
             c == finite(e.candidate)
  <2>6. a \in BOOLEAN /\ b \in BOOLEAN /\ c \in BOOLEAN
    BY DEF finite
  <2> HIDE DEF x
  <2>12. Adds(d.points, StartOf(e), BeforeOf(e), x, a, b, c)
    <3> HIDE DEF a, b, c
    <3> QED
      BY <1>1, <2>1, <2>6, ThreeMore
  <2>7. /\ d.points \o (Maybe(a, StartOf(e)) \o Maybe(b, BeforeOf(e)) \o Maybe(c, x)) =
             Then(Then(Then(d.points, a, StartOf(e)), b, BeforeOf(e)), c, x)
        /\ Then(Then(Then(d.points, a, StartOf(e)), b, BeforeOf(e)), c, x) \in Seq(Points)
    BY <2>12 DEF Adds
  <2>8. points \in Seq(Points) /\ d.points \o TrialPoints(e, d.trial + 1, d.points = <<>>) = points
    BY <2>2, <2>3, <2>5, <2>7
  <2>9. Extended(d, e, entries) =
          [trial |-> d.trial + 1, points |-> d.points \o TrialPoints(e, d.trial + 1, d.points = <<>>)]
    BY <1>3 DEF Extended, Trialled, IsExperiment
  <2> HIDE DEF points
  <2>10. Extended(d, e, entries) = [trial |-> d.trial + 1, points |-> points]
    BY <2>8, <2>9
  <2>11. Extended(d, e, entries) \in Drawings
    BY <1>1, <2>8, <2>10 DEF Drawings
  <2> QED
    BY <1>3, <2>10, <2>11 DEF points
<1>4. CASE ~Trialled(e) /\ RestoresCost(e, entries)
  <2>1. Extended(d, e, entries) = [trial |-> d.trial, points |-> Append(d.points, RestoredOf(e, entries))]
    BY <1>4 DEF Extended, Trialled, IsExperiment, RestoresCost, RestoredOf
  <2>2. RestoredOf(e, entries) \in Points
    BY <1>4, CostOfIs, PointIs DEF RestoresCost, RestoredOf, statusTitle
  <2>3. Append(d.points, RestoredOf(e, entries)) \in Seq(Points)
    BY <1>1, <2>2
  <2>4. Extended(d, e, entries) \in Drawings
    BY <1>1, <2>1, <2>3 DEF Drawings
  <2> QED
    BY <1>4, <2>1, <2>4
<1>5. CASE ~Trialled(e) /\ ~RestoresCost(e, entries)
  BY <1>5 DEF Extended, Trialled, IsExperiment, RestoresCost
<1> QED
  BY <1>3, <1>4, <1>5

\* The drawings, in the order of time.
LEMMA DrawnIs ==
  ASSUME NEW entries, HistoryOK(entries)
  PROVE  /\ Drawn(entries)[0] = [trial |-> 0, points |-> <<>>]
         /\ \A i \in 0 .. Len(entries) : Drawn(entries)[i] \in Drawings
         /\ \A i \in 1 .. Len(entries) :
              Drawn(entries)[i] =
                Extended(Drawn(entries)[i - 1], entries[Len(entries) + 1 - i], entries)
<1> DEFINE n == Len(entries)
           start == [trial |-> 0, points |-> <<>>]
           e(i) == entries[n + 1 - i]
           step == [i \in 1 .. n |-> [d \in Drawings |-> Extended(d, e(i), entries)]]
           Is(f) == f = [i \in 0 .. n |-> IF i = 0 THEN start ELSE Extended(f[i - 1], e(i), entries)]
<1>1. Drawn(entries) = CHOOSE f : Is(f)
  BY DEF Drawn
<1>2. n \in Nat /\ DOMAIN entries = 1 .. n
  BY DEF HistoryOK
<1>3. \A i \in 1 .. n : n + 1 - i \in 1 .. n
  BY <1>2
<1>4. \A i \in 1 .. n : e(i) \in Records /\ RecordOK(e(i))
  BY <1>2, <1>3 DEF HistoryOK
<1>5. start \in Drawings
  BY DEF Drawings
<1> HIDE DEF e, start, n
<1>6. \A i \in 1 .. n : \A d \in Drawings : Extended(d, e(i), entries) \in Drawings
  BY <1>4, ExtendedIs
<1>7. PICK f : Iterates(f, n, Drawings, start, step)
  <2>1. step \in StepFunctions(n, Drawings)
    BY <1>6 DEF StepFunctions
  <2> HIDE DEF step
  <2> QED
    BY <1>2, <1>5, <2>1, Recursion
<1>8. f \in [0 .. n -> Drawings] /\ f[0] = start /\ \A i \in 1 .. n : f[i] = step[i][f[i - 1]]
  BY <1>7 DEF Iterates
<1>9. \A i \in 1 .. n : f[i - 1] \in Drawings /\ i \in 0 .. n /\ i # 0
  BY <1>2, <1>8
<1>10. \A i \in 1 .. n : f[i] = Extended(f[i - 1], e(i), entries)
  BY <1>8, <1>9
<1>11. Is(f)
  <2> HIDE DEF step
  <2>1. \A i \in 0 .. n : f[i] = IF i = 0 THEN start ELSE Extended(f[i - 1], e(i), entries)
    BY <1>2, <1>8, <1>10
  <2> QED
    BY <1>8, <2>1
<1>12. Is(Drawn(entries))
  BY <1>1, <1>11
<1> DEFINE g == Drawn(entries)
<1>13. \A i \in 0 .. n : g[i] = IF i = 0 THEN start ELSE Extended(g[i - 1], e(i), entries)
  BY <1>12
<1> HIDE DEF g
<1>14. g[0] = start /\ \A i \in 1 .. n : g[i] = Extended(g[i - 1], e(i), entries)
  BY <1>2, <1>13
<1>15. \A i \in 0 .. n : g[i] \in Drawings
  <2> DEFINE Good == {i \in 0 .. n : g[i] \in Drawings}
  <2>1. 0 \in Good
    BY <1>2, <1>5, <1>14
  <2>2. ASSUME NEW i \in 1 .. n, i - 1 \in Good PROVE i \in Good
    BY <1>2, <1>6, <1>14, <2>2
  <2> HIDE DEF Good
  <2>3. 0 .. n \subseteq Good
    BY <1>2, <2>1, <2>2, UpToInduction
  <2> QED
    BY <2>3 DEF Good
<1> QED
  BY <1>14, <1>15 DEF g, e, n, start

-----------------------------------------------------------------------------
(* Choosing from a sequence.                                                  *)

\* The elements chosen from the first i, one more each time.
Selections(f, seq, places, S) ==
  /\ f[0] = <<>> /\ \A i \in 0 .. Len(seq) : f[i] \in Seq(S)
  /\ \A i \in 1 .. Len(seq) : f[i] = IF i \in places THEN Append(f[i - 1], seq[i]) ELSE f[i - 1]

LEMMA ChosenIs ==
  ASSUME NEW S, NEW seq \in Seq(S), NEW places
  PROVE  \E f : Selections(f, seq, places, S) /\ Chosen(seq, places) = f[Len(seq)]
<1> DEFINE n == Len(seq)
           V == Seq(S)
           more(i, c) == IF i \in places THEN Append(c, seq[i]) ELSE c
           step == [i \in 1 .. n |-> [c \in V |-> more(i, c)]]
           Is(f) == f = [i \in 0 .. n |-> IF i = 0 THEN <<>> ELSE more(i, f[i - 1])]
           g == CHOOSE f : Is(f)
<1>1. Chosen(seq, places) = g[n]
  BY DEF Chosen
<1>2. n \in Nat /\ <<>> \in V /\ \A i \in 1 .. n : seq[i] \in S
  OBVIOUS
<1>3. \A i \in 1 .. n : \A c \in V : more(i, c) \in V
  BY <1>2
<1> HIDE DEF more, V, n
<1>4. PICK f : Iterates(f, n, V, <<>>, step)
  <2>1. step \in StepFunctions(n, V)
    BY <1>3 DEF StepFunctions
  <2> HIDE DEF step
  <2> QED
    BY <1>2, <2>1, Recursion
<1>5. f \in [0 .. n -> V] /\ f[0] = <<>> /\ \A i \in 1 .. n : f[i] = step[i][f[i - 1]]
  BY <1>4 DEF Iterates
<1>6. \A i \in 1 .. n : f[i - 1] \in V /\ i \in 0 .. n /\ i # 0
  BY <1>2, <1>5
<1>7. \A i \in 1 .. n : f[i] = more(i, f[i - 1])
  BY <1>5, <1>6
<1>8. Is(f)
  <2> HIDE DEF step
  <2>1. \A i \in 0 .. n : f[i] = IF i = 0 THEN <<>> ELSE more(i, f[i - 1])
    BY <1>2, <1>5, <1>7
  <2> QED
    BY <1>5, <2>1
<1>9. Is(g)
  BY <1>8
<1> HIDE DEF g
<1>10. \A i \in 0 .. n : g[i] = IF i = 0 THEN <<>> ELSE more(i, g[i - 1])
  BY <1>9
<1>11. g[0] = <<>> /\ \A i \in 1 .. n : g[i] = more(i, g[i - 1])
  BY <1>2, <1>10
<1>12. \A i \in 0 .. n : g[i] \in V
  <2> DEFINE Good == {i \in 0 .. n : g[i] \in V}
  <2>1. 0 \in Good
    BY <1>2, <1>11
  <2>2. ASSUME NEW i \in 1 .. n, i - 1 \in Good PROVE i \in Good
    BY <1>2, <1>3, <1>11, <2>2
  <2> HIDE DEF Good
  <2>3. 0 .. n \subseteq Good
    BY <1>2, <2>1, <2>2, UpToInduction
  <2> QED
    BY <2>3 DEF Good
<1>13. Selections(g, seq, places, S)
  BY <1>11, <1>12 DEF Selections, more, n, V
<1> QED
  BY <1>1, <1>13 DEF n

\* One element more.
LEMMA ChosenGrows ==
  ASSUME NEW S, NEW seq \in Seq(S), NEW longer \in Seq(S), NEW places, NEW more,
         Len(longer) = Len(seq) + 1,
         \A i \in 1 .. Len(seq) : longer[i] = seq[i] /\ (i \in more <=> i \in places)
  PROVE  /\ Chosen(seq, places) \in Seq(S)
         /\ Chosen(longer, more) =
              IF Len(longer) \in more THEN Append(Chosen(seq, places), longer[Len(longer)])
              ELSE Chosen(seq, places)
<1> DEFINE n == Len(seq)
<1>1. PICK f : Selections(f, seq, places, S) /\ Chosen(seq, places) = f[n]
  BY ChosenIs
<1>2. PICK g : Selections(g, longer, more, S) /\ Chosen(longer, more) = g[n + 1]
  <2>1. \E g : Selections(g, longer, more, S) /\ Chosen(longer, more) = g[Len(longer)]
    BY ChosenIs
  <2> QED
    BY <2>1
<1>3. n \in Nat /\ n \in 0 .. n /\ n + 1 \in 1 .. n + 1 /\ (n + 1) - 1 = n
  OBVIOUS
<1> HIDE DEF n
<1>4. /\ f[0] = <<>> /\ f[n] \in Seq(S)
      /\ \A i \in 1 .. n : f[i] = IF i \in places THEN Append(f[i - 1], seq[i]) ELSE f[i - 1]
  BY <1>1, <1>3 DEF Selections, n
<1>5. /\ g[0] = <<>>
      /\ \A i \in 1 .. n + 1 : g[i] = IF i \in more THEN Append(g[i - 1], longer[i]) ELSE g[i - 1]
  BY <1>2 DEF Selections, n
<1>6. g[n] = f[n]
  <2> DEFINE Good == {i \in 0 .. n : g[i] = f[i]}
  <2>1. 0 \in Good
    BY <1>3, <1>4, <1>5
  <2>2. ASSUME NEW i \in 1 .. n, i - 1 \in Good PROVE i \in Good
    <3>1. i \in 1 .. n + 1 /\ i \in 0 .. n /\ longer[i] = seq[i] /\ (i \in more <=> i \in places)
      BY <1>3 DEF n
    <3>2. g[i - 1] = f[i - 1]
      BY <2>2
    <3>3. g[i] = f[i]
      BY <1>4, <1>5, <3>1, <3>2
    <3> QED
      BY <3>1, <3>3
  <2> HIDE DEF Good
  <2>3. 0 .. n \subseteq Good
    BY <1>3, <2>1, <2>2, UpToInduction
  <2> QED
    BY <1>3, <2>3 DEF Good
<1>7. g[n + 1] = IF n + 1 \in more THEN Append(g[n], longer[n + 1]) ELSE g[n]
  BY <1>3, <1>5
<1> QED
  BY <1>1, <1>2, <1>4, <1>6, <1>7 DEF n

LEMMA ChosenNothing == ASSUME NEW seq, Len(seq) = 0, NEW places PROVE Chosen(seq, places) = <<>>
<1> DEFINE Is(f) == f = [i \in 0 .. Len(seq) |->
                           IF i = 0 THEN <<>>
                           ELSE IF i \in places THEN Append(f[i - 1], seq[i]) ELSE f[i - 1]]
           g == CHOOSE f : Is(f)
           f0 == [i \in 0 .. 0 |-> <<>>]
<1>1. Chosen(seq, places) = g[Len(seq)]
  BY DEF Chosen
<1>2. Is(f0)
  <2>1. \A i \in 0 .. 0 : i = 0
    OBVIOUS
  <2> QED
    BY <2>1
<1>3. Is(g)
  BY <1>2
<1> HIDE DEF g
<1>4. g[0] = <<>>
  BY <1>3
<1> QED
  BY <1>1, <1>4

-----------------------------------------------------------------------------
(* What the points cost, and which of them are of candidates.                *)

CostOn(p) == IF p.label = "Restored" THEN 0 ELSE p.cost
PointCost(points) == TotalOf([k \in DOMAIN points |-> CostOn(points[k])])

Afters(points) ==
  Chosen([k \in DOMAIN points |-> <<points[k].cost>>], {k \in DOMAIN points : points[k].label = "after"})

LEMMA PointCostThen ==
  ASSUME NEW p \in Seq(Points), NEW x \in Points
  PROVE  PointCost(p) \in Int /\ PointCost(Append(p, x)) = PointCost(p) + CostOn(x)
<1> DEFINE q == Append(p, x)
           n == Len(p)
           f == [k \in 1 .. n |-> CostOn(p[k])]
           g == [k \in 1 .. n + 1 |-> CostOn(q[k])]
<1>1. /\ n \in Nat /\ q \in Seq(Points) /\ Len(q) = n + 1 /\ q[n + 1] = x
      /\ \A k \in 1 .. n : q[k] = p[k]
  OBVIOUS
<1>2. DOMAIN p = 1 .. n /\ DOMAIN q = 1 .. n + 1
  BY <1>1
<1>3. (\A k \in 1 .. n : p[k] \in Points) /\ \A k \in 1 .. n + 1 : q[k] \in Points
  BY <1>1, <1>2
<1> HIDE DEF q
<1>4. \A y \in Points : CostOn(y) \in Int
  BY DEF Points, CostOn
<1>5. f \in [1 .. n -> Int] /\ g \in [1 .. n + 1 -> Int] /\ \A k \in 1 .. n : g[k] = f[k]
  BY <1>1, <1>3, <1>4
<1>6. g[n + 1] = CostOn(x)
  BY <1>1
<1> HIDE DEF f, g, n
<1>7. TotalOf(f) \in Int /\ TotalOf(g) = TotalOf(f) + g[n + 1]
  BY <1>1, <1>5, SumAtEnd
<1>8. PointCost(p) = TotalOf(f) /\ PointCost(q) = TotalOf(g)
  BY <1>2 DEF PointCost, f, g
<1> QED
  BY <1>6, <1>7, <1>8 DEF q

LEMMA AftersThen ==
  ASSUME NEW p \in Seq(Points), NEW x \in Points
  PROVE  Afters(Append(p, x)) = IF x.label = "after" THEN Append(Afters(p), <<x.cost>>) ELSE Afters(p)
<1> DEFINE q == Append(p, x)
           n == Len(p)
           S == {<<c>> : c \in Nat}
           f == [k \in 1 .. n |-> <<p[k].cost>>]
           g == [k \in 1 .. n + 1 |-> <<q[k].cost>>]
           I == {k \in 1 .. n : p[k].label = "after"}
           J == {k \in 1 .. n + 1 : q[k].label = "after"}
<1>1. /\ n \in Nat /\ q \in Seq(Points) /\ Len(q) = n + 1 /\ q[n + 1] = x
      /\ \A k \in 1 .. n : q[k] = p[k]
  OBVIOUS
<1>2. DOMAIN p = 1 .. n /\ DOMAIN q = 1 .. n + 1
  BY <1>1
<1>3. (\A k \in 1 .. n : p[k] \in Points) /\ \A k \in 1 .. n + 1 : q[k] \in Points
  BY <1>1, <1>2
<1> HIDE DEF q, n
<1>4. \A y \in Points : <<y.cost>> \in S
  BY DEF Points
<1>5. (\A k \in 1 .. n : f[k] \in S) /\ \A k \in 1 .. n + 1 : g[k] \in S
  BY <1>3, <1>4
<1>6. f \in Seq(S) /\ g \in Seq(S) /\ Len(f) = n /\ Len(g) = n + 1
  <2> HIDE DEF S
  <2> QED
    BY <1>1, <1>5
<1>7. \A k \in 1 .. n : g[k] = f[k] /\ (k \in J <=> k \in I)
  BY <1>1
<1>8. g[n + 1] = <<x.cost>> /\ (n + 1 \in J <=> x.label = "after")
  BY <1>1
<1>9. Afters(p) = Chosen(f, I) /\ Afters(q) = Chosen(g, J)
  BY <1>2 DEF Afters
<1> HIDE DEF f, g, I, J, S
<1>10. Chosen(g, J) = IF Len(g) \in J THEN Append(Chosen(f, I), g[Len(g)]) ELSE Chosen(f, I)
  BY <1>6, <1>7, ChosenGrows
<1> QED
  BY <1>6, <1>8, <1>9, <1>10 DEF q

LEMMA PointsAtFirst == PointCost(<<>>) = 0 /\ Afters(<<>>) = <<>>
<1>1. DOMAIN <<>> = {}
  OBVIOUS
<1>2. PointCost(<<>>) = 0
  BY <1>1, SumEmpty DEF PointCost
<1> DEFINE f == [k \in DOMAIN <<>> |-> <<(<<>>)[k].cost>>]
           I == {k \in DOMAIN <<>> : (<<>>)[k].label = "after"}
<1>3. Len(f) = 0
  OBVIOUS
<1> HIDE DEF f, I
<1>4. Chosen(f, I) = <<>>
  BY <1>3, ChosenNothing
<1> QED
  BY <1>2, <1>4 DEF Afters, f, I

\* What one point more does, or none.
OneMore(p, more, x, q) ==
  /\ q \in Seq(Points) /\ PointCost(p) \in Int
  /\ PointCost(q) = PointCost(p) + (IF more THEN CostOn(x) ELSE 0)
  /\ Afters(q) = IF more /\ x.label = "after" THEN Append(Afters(p), <<x.cost>>) ELSE Afters(p)
  /\ more => q # <<>>
  /\ ~more => q = p

LEMMA ThenCosts ==
  ASSUME NEW p \in Seq(Points), NEW more, NEW x, more => x \in Points
  PROVE  OneMore(p, more, x, Then(p, more, x))
<1>1. <<>> \in Seq(Points) /\ Point("Start", 0, "baseline") \in Points
  BY PointIs
<1>2. PointCost(p) \in Int
  BY <1>1, PointCostThen
<1>3. CASE more
  <2>1. Then(p, more, x) = Append(p, x) /\ x \in Points
    BY <1>3 DEF Then
  <2>2. Append(p, x) \in Seq(Points) /\ Append(p, x) # <<>>
    BY <2>1
  <2>3. PointCost(Append(p, x)) = PointCost(p) + CostOn(x)
    BY <2>1, PointCostThen
  <2>4. Afters(Append(p, x)) = IF x.label = "after" THEN Append(Afters(p), <<x.cost>>) ELSE Afters(p)
    BY <2>1, AftersThen
  <2> QED
    BY <1>2, <1>3, <2>1, <2>2, <2>3, <2>4 DEF OneMore
<1>4. CASE ~more
  BY <1>2, <1>4 DEF Then, OneMore
<1> QED
  BY <1>3, <1>4

\* What a trial adds to the chart is what it cost.
LEMMA TrialAdds ==
  ASSUME NEW d \in Drawings, NEW e \in Records, RecordOK(e), Trialled(e),
         NEW entries, HistoryOK(entries), d.trial = 0 <=> d.points = <<>>
  PROVE  LET next == Extended(d, e, entries) IN
         /\ next.trial > 0 /\ next.points # <<>>
         /\ PointCost(next.points) = PointCost(d.points) + Spent(e)
         /\ Afters(next.points) =
              IF finite(e.candidate) THEN Append(Afters(d.points), <<e.candidate>>)
              ELSE Afters(d.points)
<1>1. d.trial \in Nat /\ d.points \in Seq(Points)
  BY DEF Drawings
<1>2. e.baseline \in Amounts /\ e.candidate \in Amounts /\ e.status \in statusTitle /\ finite(e.baseline)
  BY DEF Records, Trialled
<1>3. e.baseline \in Nat /\ (finite(e.candidate) => e.candidate \in Nat)
  BY <1>2, AmountIs
<1> DEFINE p == d.points
           q == Then(p, p = <<>>, StartOf(e))
           r == Then(q, d.trial > 0, BeforeOf(e))
           u == Then(r, finite(e.candidate), AfterOf(e))
<1>4. /\ StartOf(e) \in Points /\ CostOn(StartOf(e)) = e.baseline /\ StartOf(e).label = "Start"
      /\ BeforeOf(e) \in Points /\ CostOn(BeforeOf(e)) = e.baseline /\ BeforeOf(e).label = "before"
      /\ finite(e.candidate) =>
           /\ AfterOf(e) \in Points /\ CostOn(AfterOf(e)) = e.candidate
           /\ AfterOf(e).label = "after" /\ AfterOf(e).cost = e.candidate
  BY <1>2, <1>3, PointIs DEF StartOf, BeforeOf, AfterOf, CostOn
<1>5. /\ q \in Seq(Points) /\ PointCost(p) \in Int
      /\ PointCost(q) = PointCost(p) + (IF p = <<>> THEN e.baseline ELSE 0)
      /\ Afters(q) = Afters(p) /\ (p = <<>> => q # <<>>) /\ (p # <<>> => q = p)
  <2> DEFINE more == p = <<>>
  <2>1. OneMore(p, more, StartOf(e), q)
    BY <1>1, <1>4, ThenCosts
  <2> HIDE DEF q
  <2> QED
    BY <1>4, <2>1 DEF OneMore
<1> HIDE DEF q
<1>6. /\ r \in Seq(Points) /\ PointCost(q) \in Int
      /\ PointCost(r) = PointCost(q) + (IF d.trial > 0 THEN e.baseline ELSE 0)
      /\ Afters(r) = Afters(q) /\ (d.trial > 0 => r # <<>>) /\ (~(d.trial > 0) => r = q)
  <2> DEFINE more == d.trial > 0
  <2>1. OneMore(q, more, BeforeOf(e), r)
    BY <1>4, <1>5, ThenCosts
  <2> HIDE DEF r
  <2> QED
    BY <1>4, <2>1 DEF OneMore
<1> HIDE DEF r
<1>7. /\ PointCost(r) \in Int
      /\ PointCost(u) = PointCost(r) + (IF finite(e.candidate) THEN e.candidate ELSE 0)
      /\ Afters(u) = IF finite(e.candidate) THEN Append(Afters(r), <<e.candidate>>) ELSE Afters(r)
      /\ (finite(e.candidate) => u # <<>>) /\ (~finite(e.candidate) => u = r)
  <2> DEFINE more == finite(e.candidate)
  <2>1. OneMore(r, more, AfterOf(e), u)
    BY <1>4, <1>6, ThenCosts
  <2> HIDE DEF u
  <2> QED
    BY <1>4, <2>1 DEF OneMore
<1> HIDE DEF u
<1>8. Extended(d, e, entries) = [trial |-> d.trial + 1, points |-> u]
  BY ExtendedIs DEF u, r, q
<1>9. d.trial > 0 <=> p # <<>>
  BY <1>1
<1>10. PointCost(u) = PointCost(p) + Spent(e)
  <2>1. Spent(e) = e.baseline + (IF finite(e.candidate) THEN e.candidate ELSE 0)
    BY <1>2 DEF Spent, Cost
  <2>2. PointCost(r) = PointCost(p) + e.baseline
    BY <1>3, <1>5, <1>6, <1>9
  <2> QED
    BY <1>3, <1>5, <1>7, <2>1, <2>2
<1>11. u # <<>>
  BY <1>5, <1>6, <1>7, <1>9
<1>12. d.trial + 1 > 0
  BY <1>1
<1> QED
  BY <1>5, <1>6, <1>7, <1>8, <1>10, <1>11, <1>12

\* The records in the order of time, and what the first k of them come to.
Nth(entries, j) == entries[Len(entries) + 1 - j]
SpentBy(entries, k) == TotalOf([j \in 1 .. k |-> Spent(Nth(entries, j))])
RowCosts(entries, k) == [j \in 1 .. k |-> eventRow(Nth(entries, j)).cost]
RowsBy(entries, k) == Chosen(RowCosts(entries, k), {j \in 1 .. k : RowCosts(entries, k)[j] # <<>>})

\* The chart agrees with them.
ChartAgrees(entries, k) ==
  LET d == Drawn(entries)[k] IN
  /\ d.trial = 0 <=> d.points = <<>>
  /\ \A j \in 1 .. k : Trialled(Nth(entries, j)) => d.trial > 0
  /\ PointCost(d.points) = SpentBy(entries, k)
  /\ Afters(d.points) = RowsBy(entries, k)

LEMMA NthIs ==
  ASSUME NEW entries, HistoryOK(entries)
  PROVE  /\ Len(entries) \in Nat /\ DOMAIN entries = 1 .. Len(entries)
         /\ \A j \in 1 .. Len(entries) :
              /\ Len(entries) + 1 - j \in 1 .. Len(entries)
              /\ Nth(entries, j) \in Records /\ RecordOK(Nth(entries, j))
         /\ \A i \in 1 .. Len(entries) :
              Len(entries) + 1 - i \in 1 .. Len(entries) /\ Nth(entries, Len(entries) + 1 - i) = entries[i]
<1>1. Len(entries) \in Nat /\ DOMAIN entries = 1 .. Len(entries)
      /\ \A j \in 1 .. Len(entries) : entries[j] \in Records /\ RecordOK(entries[j])
  BY DEF HistoryOK
<1>2. \A j \in 1 .. Len(entries) : Len(entries) + 1 - j \in 1 .. Len(entries)
                                   /\ Len(entries) + 1 - (Len(entries) + 1 - j) = j
  BY <1>1
<1> QED
  BY <1>1, <1>2 DEF Nth

\* One record more.
LEMMA SpentByGrows ==
  ASSUME NEW entries, HistoryOK(entries), NEW k \in 1 .. Len(entries)
  PROVE  SpentBy(entries, k) = SpentBy(entries, k - 1) + Spent(Nth(entries, k))
         /\ SpentBy(entries, k - 1) \in Int
<1> DEFINE m == k - 1
           f == [j \in 1 .. m |-> Spent(Nth(entries, j))]
           g == [j \in 1 .. m + 1 |-> Spent(Nth(entries, j))]
<1>1. m \in Nat /\ m + 1 = k /\ Len(entries) \in Nat
  BY DEF HistoryOK
<1>2. \A j \in 1 .. k : Spent(Nth(entries, j)) \in Int
  <2>1. \A j \in 1 .. Len(entries) : Nth(entries, j) \in Records
    BY NthIs
  <2>2. \A j \in 1 .. k : j \in 1 .. Len(entries)
    BY <1>1
  <2>3. \A e \in Records : Spent(e) \in Int
    BY SpentIs
  <2> QED
    BY <2>1, <2>2, <2>3
<1> HIDE DEF m
<1>3. f \in [1 .. m -> Int] /\ g \in [1 .. m + 1 -> Int] /\ \A j \in 1 .. m : g[j] = f[j]
  BY <1>1, <1>2
<1>4. g[m + 1] = Spent(Nth(entries, k))
  BY <1>1
<1> HIDE DEF f, g
<1>5. TotalOf(f) \in Int /\ TotalOf(g) = TotalOf(f) + g[m + 1]
  BY <1>1, <1>3, SumAtEnd
<1>6. SpentBy(entries, m) = TotalOf(f) /\ SpentBy(entries, k) = TotalOf(g)
  BY <1>1 DEF SpentBy, f, g
<1> QED
  BY <1>4, <1>5, <1>6 DEF m

LEMMA RowsByGrows ==
  ASSUME NEW entries, HistoryOK(entries), NEW k \in 1 .. Len(entries)
  PROVE  RowsBy(entries, k) =
           IF finite(Nth(entries, k).candidate)
           THEN Append(RowsBy(entries, k - 1), <<Nth(entries, k).candidate>>)
           ELSE RowsBy(entries, k - 1)
<1> DEFINE m == k - 1
           S == {<<a>> : a \in Amounts} \cup {<<>>}
           f == RowCosts(entries, m)
           g == RowCosts(entries, k)
           I == {j \in 1 .. m : f[j] # <<>>}
           J == {j \in 1 .. k : g[j] # <<>>}
           e == Nth(entries, k)
<1>1. m \in Nat /\ m + 1 = k /\ Len(entries) \in Nat /\ k \in Nat
  BY DEF HistoryOK
<1>2. \A j \in 1 .. k : Nth(entries, j) \in Records
  <2>1. \A j \in 1 .. Len(entries) : Nth(entries, j) \in Records
    BY NthIs
  <2> QED
    BY <1>1, <2>1
<1>3. \A x \in Records : eventRow(x).cost \in S
  BY DEF eventRow, Records
<1>4. \A j \in 1 .. k : eventRow(Nth(entries, j)).cost \in S
  BY <1>2, <1>3
<1> HIDE DEF m
<1>5. f \in Seq(S) /\ g \in Seq(S) /\ Len(f) = m /\ Len(g) = m + 1
  <2> HIDE DEF S
  <2>1. \A j \in 1 .. m : eventRow(Nth(entries, j)).cost \in S
    BY <1>1, <1>4
  <2> QED
    BY <1>1, <1>4, <2>1 DEF RowCosts
<1>6. \A j \in 1 .. m : g[j] = f[j] /\ (j \in J <=> j \in I)
  BY <1>1 DEF RowCosts
<1>7. g[k] = IF finite(e.candidate) THEN <<e.candidate>> ELSE <<>>
  <2>1. g[k] = eventRow(e).cost
    BY <1>1 DEF RowCosts
  <2> HIDE DEF g, e
  <2> QED
    BY <2>1 DEF eventRow
<1>8. k \in J <=> finite(e.candidate)
  <2>1. k \in J <=> g[k] # <<>>
    BY <1>1
  <2>2. <<e.candidate>> # <<>>
    OBVIOUS
  <2> HIDE DEF g, J, e
  <2> QED
    BY <1>7, <2>1, <2>2
<1>9. RowsBy(entries, m) = Chosen(f, I) /\ RowsBy(entries, k) = Chosen(g, J)
  BY DEF RowsBy
<1> HIDE DEF f, g, I, J, S, e
<1>10. Chosen(g, J) = IF Len(g) \in J THEN Append(Chosen(f, I), g[Len(g)]) ELSE Chosen(f, I)
  BY <1>5, <1>6, ChosenGrows
<1>11. Chosen(g, J) = IF finite(e.candidate) THEN Append(Chosen(f, I), <<e.candidate>>) ELSE Chosen(f, I)
  BY <1>1, <1>5, <1>7, <1>8, <1>10
<1> QED
  BY <1>9, <1>11 DEF e, m

\* What a record that is not a trial leaves as it was.
LEMMA NoTrialAdds ==
  ASSUME NEW d \in Drawings, NEW e \in Records, RecordOK(e), ~Trialled(e),
         NEW entries, HistoryOK(entries)
  PROVE  LET next == Extended(d, e, entries) IN
         /\ next.trial = d.trial
         /\ PointCost(next.points) = PointCost(d.points)
         /\ Afters(next.points) = Afters(d.points)
         /\ next.points # d.points => RestoresCost(e, entries) /\ next.points # <<>>
         /\ Spent(e) = 0 /\ ~finite(e.candidate)
<1>1. d.trial \in Nat /\ d.points \in Seq(Points)
  BY DEF Drawings
<1>2. ~finite(e.baseline) /\ ~finite(e.candidate)
  BY DEF RecordOK, Trialled, finite, None
<1>3. Spent(e) = 0
  BY <1>2 DEF Spent, Cost
<1>4. CASE RestoresCost(e, entries)
  <2> DEFINE x == RestoredOf(e, entries)
  <2>1. Extended(d, e, entries) = [trial |-> d.trial, points |-> Append(d.points, x)]
    BY <1>4, ExtendedIs
  <2>2. x \in Points /\ CostOn(x) = 0 /\ x.label # "after"
    BY <1>4, CostOfIs, PointIs DEF RestoresCost, RestoredOf, statusTitle, CostOn
  <2> HIDE DEF x
  <2>3. Append(d.points, x) # <<>>
    BY <1>1
  <2>4. PointCost(d.points) \in Int /\ PointCost(Append(d.points, x)) = PointCost(d.points) + CostOn(x)
    BY <1>1, <2>2, PointCostThen
  <2>5. Afters(Append(d.points, x)) = Afters(d.points)
    BY <1>1, <2>2, AftersThen
  <2> QED
    BY <1>2, <1>3, <1>4, <2>1, <2>2, <2>3, <2>4, <2>5
<1>5. CASE ~RestoresCost(e, entries)
  BY <1>2, <1>3, <1>5, ExtendedIs
<1> QED
  BY <1>4, <1>5

\* What is undone had been tried before.
LEMMA RestoredWasTried ==
  ASSUME NEW entries, HistoryOK(entries), NEW k \in 1 .. Len(entries),
         Nth(entries, k).status = "rolled_back"
  PROVE  \E j \in 1 .. k - 1 :
           /\ Trialled(Nth(entries, j)) /\ Nth(entries, j).applied
           /\ Nth(entries, j).before = Nth(entries, k).after
<1> DEFINE n == Len(entries)
           i == n + 1 - k
           e == entries[i]
<1>1. n \in Nat /\ DOMAIN entries = 1 .. n /\ i \in 1 .. n /\ e = Nth(entries, k)
      /\ e \in Records /\ RecordOK(e)
  BY NthIs DEF Nth
<1>2. e.action = "rollback"
  BY <1>1 DEF RecordOK, IsExperiment, Records
<1>3. PICK j \in DOMAIN entries : /\ j > i /\ IsExperiment(entries[j]) /\ entries[j].applied
                                  /\ entries[j].before = e.after
  BY <1>1, <1>2 DEF HistoryOK
<1>4. RecordOK(entries[j]) /\ Nth(entries, n + 1 - j) = entries[j]
  BY <1>1, NthIs DEF HistoryOK
<1>5. Trialled(entries[j])
  BY <1>3, <1>4 DEF RecordOK, Trialled
<1>6. n + 1 - j \in 1 .. k - 1
  BY <1>1, <1>3
<1> QED
  BY <1>1, <1>3, <1>4, <1>5, <1>6

LEMMA ChartGrows ==
  ASSUME NEW entries, HistoryOK(entries), NEW k \in 1 .. Len(entries), ChartAgrees(entries, k - 1)
  PROVE  ChartAgrees(entries, k)
<1> DEFINE d == Drawn(entries)[k - 1]
           next == Drawn(entries)[k]
           e == Nth(entries, k)
<1>1. k - 1 \in 0 .. Len(entries) /\ k \in Nat /\ Len(entries) \in Nat
  BY DEF HistoryOK
<1>2. d \in Drawings /\ next = Extended(d, e, entries)
  BY <1>1, DrawnIs DEF Nth
<1>3. e \in Records /\ RecordOK(e)
  BY NthIs
<1>4. /\ d.trial = 0 <=> d.points = <<>>
      /\ \A j \in 1 .. k - 1 : Trialled(Nth(entries, j)) => d.trial > 0
      /\ PointCost(d.points) = SpentBy(entries, k - 1)
      /\ Afters(d.points) = RowsBy(entries, k - 1)
  BY DEF ChartAgrees
<1>5. /\ SpentBy(entries, k) = SpentBy(entries, k - 1) + Spent(e) /\ SpentBy(entries, k - 1) \in Int
      /\ RowsBy(entries, k) = IF finite(e.candidate)
                              THEN Append(RowsBy(entries, k - 1), <<e.candidate>>)
                              ELSE RowsBy(entries, k - 1)
  BY SpentByGrows, RowsByGrows
<1>6. \A j \in 1 .. k : j = k \/ j \in 1 .. k - 1
  BY <1>1
<1>7. d.trial \in Nat
  BY <1>2 DEF Drawings
<1>8. CASE Trialled(e)
  <2>1. /\ next.trial > 0 /\ next.points # <<>>
        /\ PointCost(next.points) = PointCost(d.points) + Spent(e)
        /\ Afters(next.points) =
             IF finite(e.candidate) THEN Append(Afters(d.points), <<e.candidate>>) ELSE Afters(d.points)
    <3> HIDE DEF d, next, e
    <3> QED
      BY <1>2, <1>3, <1>4, <1>8, TrialAdds
  <2> HIDE DEF d, e
  <2> QED
    BY <1>4, <1>5, <2>1 DEF ChartAgrees
<1>9. CASE ~Trialled(e)
  <2>1. /\ next.trial = d.trial /\ PointCost(next.points) = PointCost(d.points)
        /\ Afters(next.points) = Afters(d.points)
        /\ next.points # d.points => RestoresCost(e, entries) /\ next.points # <<>>
        /\ Spent(e) = 0 /\ ~finite(e.candidate)
    <3> HIDE DEF d, next, e
    <3> QED
      BY <1>2, <1>3, <1>9, NoTrialAdds
  <2>2. next.points # d.points => d.trial > 0
    BY <1>4, <2>1, RestoredWasTried DEF RestoresCost
  <2>3. \A j \in 1 .. k : Trialled(Nth(entries, j)) => next.trial > 0
    BY <1>4, <1>6, <1>9, <2>1
  <2>4. next.trial = 0 <=> next.points = <<>>
    <3> HIDE DEF d, next, e
    <3> QED
      BY <1>4, <1>7, <2>1, <2>2
  <2> HIDE DEF d, e
  <2> QED
    BY <1>4, <1>5, <2>1, <2>3, <2>4 DEF ChartAgrees
<1> QED
  BY <1>8, <1>9

LEMMA ChartStarts == ASSUME NEW entries, HistoryOK(entries) PROVE ChartAgrees(entries, 0)
<1>1. Drawn(entries)[0] = [trial |-> 0, points |-> <<>>]
  BY DrawnIs
<1>2. \A j \in 1 .. 0 : FALSE
  OBVIOUS
<1>3. SpentBy(entries, 0) = 0
  BY SumEmpty DEF SpentBy
<1>4. RowsBy(entries, 0) = <<>>
  <2>1. Len(RowCosts(entries, 0)) = 0
    BY DEF RowCosts
  <2> QED
    BY <2>1, ChosenNothing DEF RowsBy
<1> QED
  BY <1>1, <1>2, <1>3, <1>4, PointsAtFirst DEF ChartAgrees

LEMMA ChartIs ==
  ASSUME NEW entries, HistoryOK(entries)
  PROVE  \A k \in 0 .. Len(entries) : ChartAgrees(entries, k)
<1> DEFINE n == Len(entries)
           Good == {k \in 0 .. n : ChartAgrees(entries, k)}
<1>1. n \in Nat
  BY DEF HistoryOK
<1>2. 0 \in Good
  BY <1>1, ChartStarts
<1>3. ASSUME NEW k \in 1 .. n, k - 1 \in Good PROVE k \in Good
  BY <1>1, <1>3, ChartGrows
<1> HIDE DEF Good, n
<1>4. 0 .. n \subseteq Good
  BY <1>1, <1>2, <1>3, UpToInduction
<1> QED
  BY <1>4 DEF Good, n

\* The three parts of CardsAgree, of a state that comes from a history.
SpendIs(spend, points) ==
  spend = TotalOf([k \in DOMAIN points \ {j \in DOMAIN points : points[j].label = "Restored"}
                     |-> points[k].cost])

RowsAre(rows, points) ==
  Chosen([i \in DOMAIN rows |-> rows[i].cost], {i \in DOMAIN rows : rows[i].cost # <<>>}) =
    Chosen([k \in DOMAIN points |-> <<points[k].cost>>],
           {k \in DOMAIN points : points[k].label = "after"})

LEMMA SpentIsPlotted ==
  ASSUME NEW s, FromHistory(s), NEW points, points = historyPoints(s.entries)
  PROVE  /\ points \in Seq(Points)
         /\ SpendIs(s.spend, points)
<1> DEFINE entries == s.entries
           n == Len(entries)
           d == Drawn(entries)[n]
           f == [k \in DOMAIN points |-> CostOn(points[k])]
           R == {j \in DOMAIN points : points[j].label = "Restored"}
           S == DOMAIN points \ R
           g == [k \in S |-> points[k].cost]
<1>1. HistoryOK(entries) /\ n \in Nat /\ n \in 0 .. n /\ s.spend = SpentOn(entries)
  BY DEF FromHistory, HistoryOK
<1>2. d \in Drawings /\ d.points = points
  BY <1>1, DrawnIs DEF historyPoints
<1>3. points \in Seq(Points)
  BY <1>2 DEF Drawings
<1>4. PointCost(points) = SpentBy(entries, n)
  <2>1. ChartAgrees(entries, n)
    BY <1>1, ChartIs
  <2> HIDE DEF entries, n
  <2> QED
    BY <1>2, <2>1 DEF ChartAgrees
<1>5. SpentBy(entries, n) = SpentOn(entries)
  <2> DEFINE x == [j \in 1 .. n |-> Spent(Nth(entries, j))]
             y == [i \in 1 .. n |-> Spent(entries[i])]
             m == [j \in 1 .. n |-> n + 1 - j]
  <2>1. \A j \in 1 .. n : n + 1 - j \in 1 .. n /\ n + 1 - (n + 1 - j) = j
    BY <1>1
  <2>2. \A j \in 1 .. n : entries[j] \in Records
    BY <1>1 DEF HistoryOK
  <2>3. \A j \in 1 .. n : Spent(entries[j]) \in Int
    BY <2>2, SpentIs
  <2>4. x \in [1 .. n -> Int] /\ y \in [1 .. n -> Int] /\ \A j \in 1 .. n : y[m[j]] = x[j]
    BY <2>1, <2>3 DEF Nth
  <2>5. Renumbers(m, 1 .. n, x, 1 .. n, y)
    BY <2>1, <2>4 DEF Renumbers, Bijection, Injection, Surjection, IsInjective
  <2>6. IsFiniteSet(1 .. n)
    BY <1>1, FS_Interval
  <2> HIDE DEF x, y, m
  <2>7. TotalOf(y) = TotalOf(x)
    BY <2>5, <2>6, SumRenumbered
  <2>8. DOMAIN entries = 1 .. n
    BY <1>1 DEF HistoryOK
  <2> QED
    BY <2>7, <2>8 DEF SpentBy, SpentOn, x, y
<1>6. IsFiniteSet(DOMAIN points) /\ f \in [DOMAIN points -> Int]
  <2>1. DOMAIN points = 1 .. Len(points) /\ Len(points) \in Nat
    BY <1>3
  <2>2. \A k \in DOMAIN points : points[k] \in Points
    BY <1>3
  <2>3. \A y \in Points : CostOn(y) \in Int
    BY DEF Points, CostOn
  <2>4. IsFiniteSet(DOMAIN points)
    BY <2>1, FS_Interval
  <2> QED
    BY <2>2, <2>3, <2>4
<1>7. S \in SUBSET DOMAIN points /\ \A k \in DOMAIN points \ S : f[k] = 0
  BY DEF CostOn
<1>8. Only(f, S) = g
  BY DEF Only, CostOn
<1> HIDE DEF S, f, g
<1>9. TotalOf(f) = TotalOf(Only(f, S))
  BY <1>6, <1>7, SumZeros
<1>10. PointCost(points) = TotalOf(f)
  BY DEF PointCost, f
<1> QED
  BY <1>1, <1>3, <1>4, <1>5, <1>8, <1>9, <1>10 DEF g, S, SpendIs

LEMMA RowsArePlotted ==
  ASSUME NEW s, FromHistory(s), NEW points, points = historyPoints(s.entries),
         NEW rows, rows = Reverse(History(s))
  PROVE  RowsAre(rows, points)
<1> DEFINE entries == s.entries
           n == Len(entries)
           d == Drawn(entries)[n]
<1>1. HistoryOK(entries) /\ n \in Nat /\ n \in 0 .. n /\ DOMAIN entries = 1 .. n
  BY DEF FromHistory, HistoryOK
<1>2. d.points = points
  BY DEF historyPoints
<1>3. Afters(points) = RowsBy(entries, n)
  <2>1. ChartAgrees(entries, n)
    BY <1>1, ChartIs
  <2> HIDE DEF entries, n
  <2> QED
    BY <1>2, <2>1 DEF ChartAgrees
<1>4. History(s) = [i \in 1 .. n |-> eventRow(entries[i])]
  BY <1>1 DEF History
<1>5. Len(History(s)) = n
  BY <1>1, <1>4
<1>6. rows = [i \in 1 .. n |-> eventRow(entries[n - i + 1])]
  <2>1. rows = [i \in 1 .. n |-> History(s)[n - i + 1]]
    BY <1>5 DEF Reverse
  <2>2. \A i \in 1 .. n : n - i + 1 \in 1 .. n
    BY <1>1
  <2>3. \A i \in 1 .. n : History(s)[n - i + 1] = eventRow(entries[n - i + 1])
    BY <1>4, <2>2
  <2> QED
    BY <2>1, <2>3
<1>7. \A i \in 1 .. n : n - i + 1 = n + 1 - i
  BY <1>1
<1>8. DOMAIN rows = 1 .. n /\ \A i \in 1 .. n : rows[i].cost = eventRow(Nth(entries, i)).cost
  BY <1>6, <1>7 DEF Nth
<1> HIDE DEF entries, n, d
<1> DEFINE f == [i \in DOMAIN rows |-> rows[i].cost]
<1>9. f = RowCosts(entries, n)
  BY <1>8 DEF RowCosts
<1>10. {i \in DOMAIN rows : rows[i].cost # <<>>} = {j \in 1 .. n : RowCosts(entries, n)[j] # <<>>}
  BY <1>8 DEF RowCosts
<1> QED
  BY <1>3, <1>9, <1>10 DEF Afters, RowsBy, RowsAre

LEMMA ImprovementIsUndone ==
  ASSUME NEW s, FromHistory(s)
  PROVE  Current(s) = s.rollback_id /\ \A i \in DOMAIN History(s) : History(s)[i].titled
<1> DEFINE entries == s.entries
           I == {k \in 1 .. Len(entries) : /\ entries[k].applied /\ entries[k].action = "experiment"
                                           /\ entries[k].after = s.active_hash}
           J == {k \in 1 .. Len(entries) : Applied(entries[k], s.active_hash)}
<1>1. I = J
  BY DEF Applied, IsExperiment
<1>2. Current(s) = IF First(I) = 0 THEN None ELSE entries[First(I)].id
  BY DEF Current, SelectInSeq, First
<1>3. RollbackID(entries, s.active_hash) = IF First(J) = 0 THEN None ELSE entries[First(J)].id
  BY RollbackIDFirst
<1>4. Current(s) = s.rollback_id
  BY <1>1, <1>2, <1>3 DEF FromHistory
<1>5. ASSUME NEW i \in DOMAIN History(s) PROVE History(s)[i].titled
  <2>1. i \in DOMAIN entries /\ History(s)[i] = eventRow(entries[i])
    BY DEF History
  <2>2. entries[i] \in Records
    BY <2>1 DEF FromHistory, HistoryOK
  <2>3. eventRow(entries[i]).titled = (entries[i].status \in statusTitle)
    BY DEF eventRow
  <2> QED
    BY <2>1, <2>2, <2>3 DEF Records
<1> QED
  BY <1>4, <1>5

LEMMA CardsOfHistory ==
  ASSUME page.state.report.some \/ FromHistory(page.state)
  PROVE  CardsAgree
<1> DEFINE s == page.state
           points == Trend(s)
           rows == Reverse(History(s))
<1> SUFFICES ASSUME ~s.report.some, FromHistory(s)
             PROVE  /\ SpendIs(HistoryCards(s).spend, points) /\ RowsAre(rows, points)
                    /\ HistoryCards(s).improvement = s.rollback_id
                    /\ \A i \in DOMAIN History(s) : History(s)[i].titled
  BY DEF CardsAgree, SpendIs, RowsAre
<1>1. points = historyPoints(s.entries)
  BY DEF Trend
<1>2. HistoryCards(s).spend = s.spend /\ HistoryCards(s).improvement = Current(s)
  BY DEF HistoryCards
<1> HIDE DEF points, rows
<1> QED
  BY <1>1, <1>2, SpentIsPlotted, RowsArePlotted, ImprovementIsUndone DEF rows

-----------------------------------------------------------------------------
(* The line of the chart ends at the settings in use.                         *)

\* The last accepted point is the last, or the one before, and has this cost.
EndsAt(points, cost) ==
  /\ points \in Seq(Points)
  /\ \E m \in DOMAIN points :
       /\ m + 1 >= Len(points) /\ accepted(points[m]) /\ points[m].cost = cost
       /\ \A j \in DOMAIN points : j > m => ~accepted(points[j])

LEMMA MaxIs ==
  ASSUME NEW S, S \subseteq Int, NEW x \in S, \A y \in S : x >= y
  PROVE  Max(S) = x
<1>1. Max(S) \in S /\ \A y \in S : Max(S) >= y
  BY DEF Max
<1>2. Max(S) \in Int /\ x \in Int /\ Max(S) >= x /\ x >= Max(S)
  BY <1>1
<1> HIDE DEF Max
<1> QED
  BY <1>2

LEMMA LineEnds ==
  ASSUME NEW s, NEW cost, EndsAt(Trend(s), cost)
  PROVE  Line(s) # {} /\ Plotted(s)[Max(Line(s))].cost = cost
<1> DEFINE all == Trend(s)
           L == Len(all)
           b == Max({1, L - 7})
           plotted == Plotted(s)
<1>1. all \in Seq(Points) /\ L \in Nat /\ DOMAIN all = 1 .. L
  BY DEF EndsAt
<1>2. PICK m \in 1 .. L :
        /\ m + 1 >= L /\ accepted(all[m]) /\ all[m].cost = cost
        /\ \A j \in 1 .. L : j > m => ~accepted(all[j])
  BY <1>1 DEF EndsAt
<1>3. plotted = SubSeq(all, b, L)
  BY DEF Plotted
<1>4. b = IF 1 >= L - 7 THEN 1 ELSE L - 7
  BY <1>1, MaxOfTwo
<1> HIDE DEF all, L, b, plotted
<1>5. b \in 1 .. L /\ b <= m
  BY <1>1, <1>2, <1>4
<1>6. /\ Len(plotted) = L - b + 1 /\ DOMAIN plotted = 1 .. L - b + 1
      /\ \A j \in 1 .. L - b + 1 : plotted[j] = all[b + j - 1]
  <2>1. b \in 1 .. L + 1 /\ L \in b - 1 .. L
    BY <1>1, <1>5
  <2> QED
    BY <1>1, <1>3, <1>5, <2>1 DEF L
<1> DEFINE k == m - b + 1
<1>7. k \in 1 .. L - b + 1 /\ b + k - 1 = m
  BY <1>1, <1>2, <1>5
<1>8. k \in Line(s)
  BY <1>2, <1>6, <1>7 DEF Line, plotted
<1>9. ASSUME NEW j \in Line(s) PROVE k >= j
  <2>1. j \in 1 .. L - b + 1 /\ accepted(all[b + j - 1])
    BY <1>6 DEF Line, plotted
  <2>2. b + j - 1 \in 1 .. L
    BY <1>1, <1>5, <2>1
  <2>3. ~(b + j - 1 > m)
    BY <1>2, <2>1, <2>2
  <2> QED
    BY <1>1, <1>2, <1>5, <2>1, <2>3
<1>10. Line(s) \subseteq Int
  BY <1>1, <1>5, <1>6 DEF Line, plotted
<1> HIDE DEF k
<1>11. Max(Line(s)) = k
  BY <1>8, <1>9, <1>10, MaxIs
<1> QED
  BY <1>2, <1>6, <1>7, <1>8, <1>11 DEF plotted

\* A record that the line may end at.
Marks(e) == Trialled(e) \/ e.action = "rollback"

\* Records that are no marks leave the chart as it was.
LEMMA NoMark ==
  ASSUME NEW entries, HistoryOK(entries), NEW k \in 1 .. Len(entries), ~Marks(Nth(entries, k))
  PROVE  /\ Drawn(entries)[k] = Drawn(entries)[k - 1]
         /\ \A active : ~Evaluated(Nth(entries, k), active)
<1> DEFINE e == Nth(entries, k)
           d == Drawn(entries)[k - 1]
<1>1. e \in Records /\ RecordOK(e)
  BY NthIs
<1>2. d \in Drawings /\ Drawn(entries)[k] = Extended(d, e, entries)
  <2>1. k - 1 \in 0 .. Len(entries)
    BY DEF HistoryOK
  <2> QED
    BY <2>1, DrawnIs DEF Nth
<1>3. ~Trialled(e) /\ e.action # "rollback"
  BY DEF Marks
<1> HIDE DEF e, d
<1>4. e.status # "rolled_back"
  BY <1>1, <1>3 DEF RecordOK, Records, IsExperiment
<1>5. Extended(d, e, entries) = d
  BY <1>1, <1>2, <1>3, <1>4, ExtendedIs DEF RestoresCost
<1>6. \A active : ~Evaluated(e, active)
  BY <1>1, <1>3 DEF RecordOK, Evaluated, Trialled
<1> QED
  BY <1>2, <1>5, <1>6 DEF e, d

LEMMA QuietSince ==
  ASSUME NEW entries, HistoryOK(entries), NEW k \in 1 .. Len(entries),
         \A j \in k + 1 .. Len(entries) : ~Marks(Nth(entries, j))
  PROVE  Drawn(entries)[Len(entries)] = Drawn(entries)[k]
<1> DEFINE n == Len(entries)
           Good == {j \in 0 .. n : j >= k => Drawn(entries)[j] = Drawn(entries)[k]}
<1>1. n \in Nat /\ k \in 1 .. n
  BY DEF HistoryOK
<1>2. 0 \in Good
  BY <1>1
<1>3. ASSUME NEW j \in 1 .. n, j - 1 \in Good PROVE j \in Good
  <2>1. CASE j <= k
    BY <1>1, <2>1
  <2>2. CASE j > k
    <3>1. j \in k + 1 .. n /\ j - 1 >= k
      BY <1>1, <2>2
    <3>2. Drawn(entries)[j] = Drawn(entries)[j - 1]
      BY <3>1, NoMark
    <3>3. Drawn(entries)[j - 1] = Drawn(entries)[k]
      BY <1>3, <3>1
    <3> QED
      BY <1>1, <3>2, <3>3
  <2> QED
    BY <1>1, <2>1, <2>2
<1> HIDE DEF Good
<1>4. 0 .. n \subseteq Good
  BY <1>1, <1>2, <1>3, UpToInduction
<1>5. n \in Good /\ n >= k
  BY <1>1, <1>4
<1> QED
  BY <1>5 DEF Good

\* The newest evaluation of some settings is that of the newest mark.
LEMMA CurrentOfMark ==
  ASSUME NEW entries, HistoryOK(entries), NEW i \in 1 .. Len(entries), NEW active,
         Evaluated(entries[i], active),
         \A j \in 1 .. Len(entries) : j < i => ~Marks(entries[j])
  PROVE  CurrentReport(entries, active) =
           IF entries[i].before = active /\ finite(entries[i].baseline)
           THEN entries[i].baseline ELSE entries[i].candidate
<1> DEFINE n == Len(entries)
           S == {k \in 1 .. n : Evaluated(entries[k], active)}
<1>1. n \in Nat /\ i \in 1 .. n /\ i \in S /\ S \in SUBSET (1 .. n) /\ i # 0
  BY DEF HistoryOK
<1>2. ASSUME NEW j \in S PROVE ~(j < i)
  <2>1. SUFFICES ASSUME j < i PROVE FALSE
    OBVIOUS
  <2>2. ~Marks(entries[j]) /\ Nth(entries, n + 1 - j) = entries[j] /\ n + 1 - j \in 1 .. n
    BY <2>1, NthIs
  <2> QED
    BY <2>2, NoMark
<1>3. CurrentReport(entries, active) =
        IF First(S) = 0 THEN None
        ELSE IF entries[First(S)].before = active /\ finite(entries[First(S)].baseline)
        THEN entries[First(S)].baseline ELSE entries[First(S)].candidate
  BY CurrentReportFirst
<1> HIDE DEF S, n
<1>4. First(S) \in S /\ First(S) <= i
  BY <1>1, FirstIs
<1>5. First(S) = i
  <2>1. ~(First(S) < i)
    BY <1>2, <1>4
  <2>2. First(S) \in 1 .. n
    BY <1>1, <1>4
  <2> HIDE DEF First
  <2> QED
    BY <1>1, <1>4, <2>1, <2>2
<1> QED
  BY <1>1, <1>3, <1>5

LEMMA EndsAtLast ==
  ASSUME NEW p \in Seq(Points), NEW x \in Points, accepted(x)
  PROVE  EndsAt(Append(p, x), x.cost)
<1> DEFINE q == Append(p, x)
<1>1. q \in Seq(Points) /\ Len(q) = Len(p) + 1 /\ q[Len(q)] = x /\ Len(p) \in Nat
  OBVIOUS
<1> HIDE DEF q
<1>2. Len(q) \in DOMAIN q /\ Len(q) + 1 >= Len(q) /\ \A j \in DOMAIN q : ~(j > Len(q))
  BY <1>1
<1> QED
  BY <1>1, <1>2 DEF EndsAt, q

LEMMA EndsBefore ==
  ASSUME NEW p \in Seq(Points), NEW x \in Points, accepted(x), NEW y \in Points, ~accepted(y)
  PROVE  EndsAt(Append(Append(p, x), y), x.cost)
<1> DEFINE q == Append(p, x)
           r == Append(q, y)
           m == Len(q)
<1>1. q \in Seq(Points) /\ Len(q) = Len(p) + 1 /\ q[m] = x /\ Len(p) \in Nat /\ m \in Nat
  OBVIOUS
<1>0. m = Len(p) + 1
  BY <1>1
<1> HIDE DEF q, m
<1>2. r \in Seq(Points) /\ Len(r) = m + 1 /\ r[m + 1] = y /\ r[m] = x
  BY <1>1 DEF m
<1> HIDE DEF r
<1>3. m \in DOMAIN r /\ m + 1 >= Len(r)
  <2>1. DOMAIN r = 1 .. m + 1
    BY <1>1, <1>2
  <2>2. m \in 1 .. m + 1
    BY <1>0, <1>1
  <2> QED
    BY <1>1, <1>2, <2>1, <2>2
<1>4. \A j \in DOMAIN r : j > m => j = m + 1
  BY <1>1, <1>2
<1>5. EndsAt(r, x.cost)
  BY <1>2, <1>3, <1>4 DEF EndsAt
<1> QED
  BY <1>5 DEF q, r

\* After a trial, the line ends at what is in use then.
LEMMA TrialEnds ==
  ASSUME NEW d \in Drawings, NEW e \in Records, RecordOK(e), Trialled(e),
         NEW entries, HistoryOK(entries), d.trial = 0 <=> d.points = <<>>
  PROVE  EndsAt(Extended(d, e, entries).points, IF e.applied THEN e.candidate ELSE e.baseline)
<1>1. d.trial \in Nat /\ d.points \in Seq(Points)
  BY DEF Drawings
<1>2. e.baseline \in Amounts /\ e.candidate \in Amounts /\ e.status \in statusTitle /\ finite(e.baseline)
  BY DEF Records, Trialled
<1>3. e.baseline \in Nat /\ (finite(e.candidate) => e.candidate \in Nat)
  BY <1>2, AmountIs
<1>4. /\ StartOf(e) \in Points /\ StartOf(e).cost = e.baseline /\ accepted(StartOf(e))
      /\ BeforeOf(e) \in Points /\ BeforeOf(e).cost = e.baseline /\ accepted(BeforeOf(e))
      /\ finite(e.candidate) =>
           /\ AfterOf(e) \in Points /\ AfterOf(e).cost = e.candidate
           /\ accepted(AfterOf(e)) <=> e.applied
  <2>1. /\ StartOf(e) \in Points /\ StartOf(e).cost = e.baseline /\ StartOf(e).status = "baseline"
        /\ BeforeOf(e) \in Points /\ BeforeOf(e).cost = e.baseline /\ BeforeOf(e).status = "baseline"
        /\ finite(e.candidate) => /\ AfterOf(e) \in Points /\ AfterOf(e).cost = e.candidate
                                  /\ AfterOf(e).status = e.status
    BY <1>2, <1>3, PointIs DEF StartOf, BeforeOf, AfterOf
  <2>2. finite(e.candidate) => (e.status \in {"baseline", "applied", "rolled_back"} <=> e.applied)
    BY DEF RecordOK, JudgedStatus, Trialled
  <2> QED
    BY <2>1, <2>2 DEF accepted
<1> DEFINE p == d.points
           q == Then(p, p = <<>>, StartOf(e))
           r == Then(q, d.trial > 0, BeforeOf(e))
           u == Then(r, finite(e.candidate), AfterOf(e))
<1>5. PICK o \in Seq(Points), x \in Points : r = Append(o, x) /\ accepted(x) /\ x.cost = e.baseline
  <2>1. CASE p = <<>>
    <3>1. q = Append(p, StartOf(e)) /\ r = q
      BY <1>1, <2>1 DEF Then
    <3> QED
      BY <1>1, <1>4, <3>1
  <2>2. CASE p # <<>>
    <3>1. q = p /\ r = Append(p, BeforeOf(e))
      BY <1>1, <2>2 DEF Then
    <3> QED
      BY <1>1, <1>4, <3>1
  <2> QED
    BY <2>1, <2>2
<1>6. Extended(d, e, entries).points = u
  BY ExtendedIs
<1> HIDE DEF r
<1>7. r \in Seq(Points)
  BY <1>5
<1>8. CASE finite(e.candidate) /\ e.applied
  <2>1. u = Append(r, AfterOf(e))
    BY <1>8 DEF Then
  <2> QED
    BY <1>4, <1>6, <1>7, <1>8, <2>1, EndsAtLast
<1>9. CASE finite(e.candidate) /\ ~e.applied
  <2>1. u = Append(Append(o, x), AfterOf(e))
    BY <1>5, <1>9 DEF Then
  <2> QED
    BY <1>4, <1>5, <1>6, <1>9, <2>1, EndsBefore
<1>10. CASE ~finite(e.candidate)
  <2>1. u = Append(o, x) /\ ~e.applied
    BY <1>5, <1>10 DEF Then, RecordOK, Trialled
  <2> QED
    BY <1>5, <1>6, <2>1, EndsAtLast
<1> QED
  BY <1>8, <1>9, <1>10

\* LineEndsAtActive, of a state that comes from a history.
LEMMA LineOfHistory ==
  ASSUME page.state.report.some \/ FromHistory(page.state)
  PROVE  LineEndsAtActive
<1> DEFINE s == page.state
           entries == s.entries
           n == Len(entries)
           active == s.active_hash
           I == {k \in 1 .. n : Marks(entries[k])}
           i == First(I)
           e == entries[i]
<1>1. SelectInSeq(entries, LAMBDA v : \/ IsExperiment(v) /\ finite(v.baseline)
                                     \/ v.action = "rollback") = i
  BY DEF SelectInSeq, First, Marks, Trialled
<1>2. SUFFICES ASSUME ~s.report.some, FromHistory(s), i # 0, Leaves(e) = active
               PROVE  Line(s) # {} /\ Plotted(s)[Max(Line(s))].cost = s.current_report
  BY <1>1 DEF LineEndsAtActive
<1>3. HistoryOK(entries) /\ n \in Nat /\ s.current_report = CurrentReport(entries, active)
  <2>1. HistoryOK(entries) /\ s.current_report = CurrentReport(entries, active)
    BY <1>2 DEF FromHistory
  <2> QED
    BY <2>1 DEF HistoryOK
<1>4. i \in 1 .. n /\ Marks(e) /\ \A j \in 1 .. n : j < i => ~Marks(entries[j])
  <2>1. I \in SUBSET (1 .. n)
    OBVIOUS
  <2>2. i \in I /\ \A j \in I : i <= j
    <3> HIDE DEF I, n
    <3> QED
      BY <1>2, <1>3, <2>1, FirstIs
  <2>3. i \in 1 .. n /\ \A j \in 1 .. n : Marks(entries[j]) => i <= j
    BY <2>2
  <2> HIDE DEF i, I
  <2>4. \A j \in 1 .. n : j < i => ~(i <= j)
    BY <1>3, <2>3
  <2> QED
    BY <2>2, <2>3, <2>4 DEF I
<1> HIDE DEF i, I
<1> DEFINE k == n + 1 - i
           d == Drawn(entries)[k - 1]
<1>5. k \in 1 .. n /\ Nth(entries, k) = e /\ e \in Records /\ RecordOK(e) /\ k - 1 \in 0 .. n
  BY <1>3, <1>4, NthIs
<1>6. ASSUME NEW j \in k + 1 .. n PROVE ~Marks(Nth(entries, j))
  <2>1. n + 1 - j \in 1 .. n /\ n + 1 - j < i
    BY <1>3, <1>4
  <2> QED
    BY <1>4, <2>1 DEF Nth
<1>7. Trend(s) = Extended(d, e, entries).points
  <2>1. Trend(s) = Drawn(entries)[n].points
    BY <1>2 DEF Trend, historyPoints
  <2>2. Drawn(entries)[n] = Drawn(entries)[k]
    <3> HIDE DEF entries, k
    <3> QED
      BY <1>3, <1>5, <1>6, QuietSince
  <2>3. Drawn(entries)[k] = Extended(d, e, entries)
    <3>1. Drawn(entries)[k] = Extended(d, entries[n + 1 - k], entries)
      BY <1>3, <1>5, DrawnIs
    <3> QED
      BY <1>5, <3>1 DEF Nth
  <2> QED
    BY <2>1, <2>2, <2>3
<1>8. d \in Drawings /\ (d.trial = 0 <=> d.points = <<>>)
  <2>1. ChartAgrees(entries, k - 1)
    BY <1>3, <1>5, ChartIs
  <2>2. d \in Drawings
    BY <1>3, <1>5, DrawnIs
  <2> QED
    BY <2>1, <2>2 DEF ChartAgrees
<1>9. Leaves(e) = IF e.applied THEN e.after ELSE e.before
  BY DEF Leaves
<1>10. CASE Trialled(e)
  <2>1. EndsAt(Trend(s), IF e.applied THEN e.candidate ELSE e.baseline)
    <3> HIDE DEF d, e, entries
    <3> QED
      BY <1>3, <1>5, <1>7, <1>8, <1>10, TrialEnds
  <2>2. Evaluated(e, active)
    BY <1>2, <1>5, <1>9, <1>10 DEF Evaluated, Trialled, RecordOK
  <2>3. CurrentReport(entries, active) =
          IF e.before = active /\ finite(e.baseline) THEN e.baseline ELSE e.candidate
    <3> HIDE DEF n, entries, active
    <3> QED
      BY <1>3, <1>4, <2>2, CurrentOfMark DEF n
  <2>4. CurrentReport(entries, active) = IF e.applied THEN e.candidate ELSE e.baseline
    BY <1>2, <1>5, <1>9, <1>10, <2>3 DEF Trialled, RecordOK
  <2> QED
    BY <1>3, <2>1, <2>4, LineEnds
<1>11. CASE ~Trialled(e)
  <2>1. e.action = "rollback" /\ e.status = "rolled_back" /\ e.applied /\ e.after = active
    BY <1>2, <1>4, <1>5, <1>9, <1>11 DEF Marks, RecordOK
  <2>2. HasCost(entries, active)
    <3>1. PICK j \in 1 .. k - 1 : Trialled(Nth(entries, j)) /\ Nth(entries, j).before = active
      BY <1>3, <1>5, <2>1, RestoredWasTried
    <3>2. n + 1 - j \in 1 .. n /\ DOMAIN entries = 1 .. n
      BY <1>3, <1>5 DEF HistoryOK
    <3> QED
      BY <3>1, <3>2 DEF HasCost, Measured, Trialled, Nth
  <2> DEFINE x == RestoredOf(e, entries)
  <2>3. Extended(d, e, entries).points = Append(d.points, x)
    <3>1. RestoresCost(e, entries)
      BY <2>1, <2>2 DEF RestoresCost
    <3> HIDE DEF d, e, entries
    <3> QED
      BY <1>3, <1>5, <1>8, <1>11, <3>1, ExtendedIs
  <2>4. CostOf(entries, active) = CurrentReport(entries, active) /\ CostOf(entries, active) \in Nat
    BY <1>3, <2>2, CostOfIs
  <2>5. x \in Points /\ accepted(x) /\ x.cost = CurrentReport(entries, active)
    BY <2>1, <2>4, PointIs DEF RestoredOf, statusTitle, accepted
  <2>6. d.points \in Seq(Points)
    BY <1>8 DEF Drawings
  <2> HIDE DEF x, d
  <2>7. EndsAt(Trend(s), CurrentReport(entries, active))
    BY <1>7, <2>3, <2>5, <2>6, EndsAtLast
  <2> QED
    BY <1>3, <2>7, LineEnds
<1> QED
  BY <1>10, <1>11

-----------------------------------------------------------------------------
(* The figures of a report.                                                  *)

\* A report that the page's own check accepts.
GoodReport(r) ==
  /\ \E n \in Nat : DOMAIN r.tasks = 1 .. n
  /\ \A i \in DOMAIN r.tasks : /\ r.tasks[i].cost \in Nat
                               /\ r.tasks[i].success \in {"true", "false", "null"}
  /\ r.tokens \in [1 .. 5 -> Nat]
  /\ validateReport(r)

LEMMA PlacesAre == ASSUME NEW n \in Nat PROVE IsFiniteSet(1 .. n) /\ Cardinality(1 .. n) = n
BY FS_Interval

\* The ring of the tokens closes, and its rows are about all of them.
LEMMA RingCloses ==
  ASSUME NEW r, r.tokens \in [1 .. 5 -> Nat]
  PROVE  LET ring == tokenChart(r) IN
         /\ \A i \in 1 .. 4 : ring.arcs[i].offset + ring.arcs[i].length = ring.arcs[i + 1].offset
         /\ ring.arcs[5].offset + ring.arcs[5].length = ring.total
         /\ TotalOf(ring.rows) = ring.total
         /\ ReportCards(r).cached # <<>> => ReportCards(r).cached[1][2] = ring.total - ring.rows[5]
<1> DEFINE t == r.tokens
           offset(i) == TotalOf([k \in 1 .. i - 1 |-> t[k]])
           S == {k \in 1 .. 5 : t[k] > 0 \/ k \in {1, 2, 5}}
           total == TotalOf(t)
           input == TotalOf([k \in 1 .. 4 |-> t[k]])
           ring == tokenChart(r)
<1>1. \A i \in 1 .. 5 : offset(i) \in Int /\ offset(i + 1) = offset(i) + t[i]
  <2>1. SUFFICES ASSUME NEW i \in 1 .. 5 PROVE offset(i) \in Int /\ offset(i + 1) = offset(i) + t[i]
    OBVIOUS
  <2> DEFINE m == i - 1
             f == [k \in 1 .. m |-> t[k]]
             g == [k \in 1 .. m + 1 |-> t[k]]
  <2>2. /\ m \in Nat /\ m + 1 = i /\ (i + 1) - 1 = m + 1
        /\ 1 .. m \subseteq 1 .. 5 /\ 1 .. m + 1 \subseteq 1 .. 5
    OBVIOUS
  <2>3. f \in [1 .. m -> Int] /\ g \in [1 .. m + 1 -> Int] /\ \A k \in 1 .. m : g[k] = f[k]
    BY <2>2, SMTT(30)
  <2>4. g[m + 1] = t[i]
    BY <2>2
  <2> HIDE DEF f, g
  <2>5. TotalOf(f) \in Int /\ TotalOf(g) = TotalOf(f) + g[m + 1]
    BY <2>2, <2>3, SumAtEnd
  <2>6. offset(i) = TotalOf(f)
    BY DEF f
  <2>7. offset(i + 1) = TotalOf(g)
    BY <2>2 DEF g
  <2> QED
    BY <2>4, <2>5, <2>6, <2>7
<1>2. offset(6) = total
  <2>1. [k \in 1 .. 6 - 1 |-> t[k]] = t
    OBVIOUS
  <2> QED
    BY <2>1
<1>3. offset(5) = input
  <2>1. [k \in 1 .. 5 - 1 |-> t[k]] = [k \in 1 .. 4 |-> t[k]]
    OBVIOUS
  <2> QED
    BY <2>1
<1>4. TotalOf(Only(t, S)) = total /\ Only(t, S)[5] = t[5]
  <2>0. IsFiniteSet(1 .. 5)
    BY PlacesAre
  <2>1. t \in [1 .. 5 -> Int] /\ S \in SUBSET (1 .. 5)
    OBVIOUS
  <2>2. \A x \in (1 .. 5) \ S : t[x] = 0
    OBVIOUS
  <2>3. 5 \in S
    OBVIOUS
  <2>4. Only(t, S)[5] = t[5]
    BY <2>3 DEF Only
  <2> HIDE DEF S
  <2>5. TotalOf(t) = TotalOf(Only(t, S))
    BY <2>0, <2>1, <2>2, SumZeros
  <2> QED
    BY <2>4, <2>5
<1>5. /\ ring.total = total /\ ring.rows = Only(t, S)
      /\ \A i \in 1 .. 5 : ring.arcs[i].offset = offset(i) /\ ring.arcs[i].length = t[i]
  BY DEF tokenChart, Only
<1>6. ReportCards(r).cached # <<>> => ReportCards(r).cached[1][2] = input
  BY DEF ReportCards, InputTokens
<1> HIDE DEF ring, offset, total, S, input
<1>7. \A i \in 1 .. 4 : ring.arcs[i].offset + ring.arcs[i].length = ring.arcs[i + 1].offset
  BY <1>1, <1>5
<1>8. ring.arcs[5].offset + ring.arcs[5].length = ring.total
  BY <1>1, <1>2, <1>5
<1>9. input = ring.total - ring.rows[5]
  BY <1>1, <1>2, <1>3, <1>4, <1>5
<1> QED
  BY <1>4, <1>5, <1>6, <1>7, <1>8, <1>9 DEF ring

\* Each task has one of the three outcomes.
LEMMA OutcomesAreAll ==
  ASSUME NEW tasks, NEW n \in Nat, DOMAIN tasks = 1 .. n,
         \A i \in 1 .. n : tasks[i].success \in {"true", "false", "null"}
  PROVE  n = CountOf(tasks, "true") + CountOf(tasks, "false") + CountOf(tasks, "null")
<1>1. IsFiniteSet(1 .. n) /\ Cardinality(1 .. n) = n
  BY PlacesAre
<1> DEFINE P == {i \in 1 .. n : tasks[i].success = "true"}
           F == {i \in 1 .. n : tasks[i].success = "false"}
           N == {i \in 1 .. n : tasks[i].success = "null"}
<1>2. P \subseteq 1 .. n /\ F \subseteq 1 .. n /\ N \subseteq 1 .. n
  OBVIOUS
<1>3. (P \cup F) \cup N = 1 .. n /\ P \cap F = {} /\ (P \cup F) \cap N = {}
  OBVIOUS
<1>4. /\ CountOf(tasks, "true") = Cardinality(P)
      /\ CountOf(tasks, "false") = Cardinality(F)
      /\ CountOf(tasks, "null") = Cardinality(N)
  BY DEF CountOf
<1> HIDE DEF P, F, N
<1>5. IsFiniteSet(P) /\ IsFiniteSet(F) /\ IsFiniteSet(N)
  BY <1>1, <1>2, FS_Subset
<1>6. Cardinality(P) \in Nat /\ Cardinality(F) \in Nat /\ Cardinality(N) \in Nat
      /\ Cardinality({}) = 0
  BY <1>5, FS_CardinalityType, FS_EmptySet
<1>7. IsFiniteSet(P \cup F)
      /\ Cardinality(P \cup F) = Cardinality(P) + Cardinality(F) - Cardinality(P \cap F)
  BY <1>5, FS_Union
<1>8. Cardinality((P \cup F) \cup N) =
        Cardinality(P \cup F) + Cardinality(N) - Cardinality((P \cup F) \cap N)
  BY <1>5, <1>7, FS_Union
<1>9. Cardinality(P \cap F) = 0 /\ Cardinality((P \cup F) \cap N) = 0
      /\ Cardinality((P \cup F) \cup N) = n
  BY <1>1, <1>3, <1>6
<1> QED
  BY <1>4, <1>6, <1>7, <1>8, <1>9

\* A report's table and line have a point for each task, in the order of the tasks.
LEMMA TaskPointsAre ==
  ASSUME NEW r, NEW n \in Nat, DOMAIN r.tasks = 1 .. n
  PROVE  /\ TaskPoints(r) \in Seq(Range(TaskPoints(r))) /\ Len(TaskPoints(r)) = n
         /\ DOMAIN TaskPoints(r) = 1 .. n
         /\ \A i \in 1 .. n : /\ TaskPoints(r)[i].cost = r.tasks[i].cost
                              /\ TaskPoints(r)[i].label = r.tasks[i].task_id
<1> DEFINE q == TaskPoints(r)
<1>1. DOMAIN q = 1 .. n /\ q = [i \in 1 .. n |-> q[i]]
  BY DEF TaskPoints
<1>2. ASSUME NEW i \in 1 .. n
      PROVE  q[i].cost = r.tasks[i].cost /\ q[i].label = r.tasks[i].task_id
  <2>1. q[i] = Point(r.tasks[i].task_id, r.tasks[i].cost, "baseline")
    BY DEF TaskPoints
  <2> QED
    BY <2>1 DEF Point
<1> HIDE DEF q
<1>3. Range(q) = {q[i] : i \in 1 .. n}
  BY <1>1 DEF Range
<1>4. q \in Seq({q[i] : i \in 1 .. n}) /\ Len(q) = n
  BY <1>1
<1> QED
  BY <1>1, <1>2, <1>3, <1>4 DEF q

LEMMA ReportOfPage ==
  ASSUME page.state.report.some => GoodReport(page.state.report)
  PROVE  ReportAddsUp
<1> DEFINE s == page.state
           r == s.report
           points == TaskPoints(r)
<1>1. SUFFICES ASSUME r.some
               PROVE  /\ validateReport(r)
                      /\ SumOver(points, LAMBDA p : p.cost) = r.cost
                      /\ Cardinality({p.label : p \in ToSet(points)}) = Len(points)
                      /\ SumOver(r.tasks, LAMBDA t : t.requests) = r.requests
                      /\ Len(points) = ReportCards(r).quality[2]
  <2>1. r.some => Trend(s) = points
    BY DEF Trend
  <2>2. r.some => r.tokens \in [1 .. 5 -> Nat]
    BY DEF GoodReport
  <2> QED
    BY <2>1, <2>2, RingCloses DEF ReportAddsUp
<1>2. GoodReport(r)
  BY <1>1
<1>3. PICK n \in Nat : DOMAIN r.tasks = 1 .. n
  BY <1>2 DEF GoodReport
<1>4. validateReport(r) /\ TotalsMatch(r) /\ UniqueTasks(r)
  BY <1>2 DEF GoodReport, validateReport
<1>5. /\ points \in Seq(Range(points)) /\ Len(points) = n /\ DOMAIN points = 1 .. n
      /\ \A i \in 1 .. n : points[i].cost = r.tasks[i].cost /\ points[i].label = r.tasks[i].task_id
  BY <1>3, TaskPointsAre
<1> HIDE DEF points
<1>6. SumOver(points, LAMBDA p : p.cost) = SumOver(r.tasks, LAMBDA t : t.cost)
  <2>1. [i \in DOMAIN points |-> points[i].cost] = [i \in DOMAIN r.tasks |-> r.tasks[i].cost]
    BY <1>3, <1>5
  <2> QED
    BY <2>1 DEF SumOver
<1>7. Cardinality({p.label : p \in ToSet(points)}) = n
  <2> DEFINE T == {p.label : p \in ToSet(points)}
             f == [i \in 1 .. n |-> r.tasks[i].task_id]
  <2>1. IsFiniteSet(1 .. n) /\ Cardinality(1 .. n) = n
    BY FS_Interval
  <2>2. T = {r.tasks[i].task_id : i \in 1 .. n}
    BY <1>5 DEF ToSet
  <2>3. f \in [1 .. n -> T] /\ \A z \in T : \E i \in 1 .. n : f[i] = z
    BY <2>2
  <2>4. \A i, j \in 1 .. n : f[i] = f[j] => i = j
    BY <1>3, <1>4 DEF UniqueTasks
  <2> HIDE DEF T, f
  <2>5. Cardinality(T) = Cardinality(1 .. n)
    BY <2>1, <2>3, <2>4, SameCount
  <2> QED
    BY <2>1, <2>5 DEF T
<1>8. n = ReportCards(r).quality[2]
  <2>1. ReportCards(r).quality[2] = r.successful_tasks + r.failed_tasks + r.tasks_without_result
    BY DEF ReportCards
  <2>2. n = CountOf(r.tasks, "true") + CountOf(r.tasks, "false") + CountOf(r.tasks, "null")
    BY <1>2, <1>3, OutcomesAreAll DEF GoodReport
  <2> QED
    BY <1>4, <2>1, <2>2 DEF TotalsMatch
<1> QED
  BY <1>4, <1>5, <1>6, <1>7, <1>8 DEF TotalsMatch

-----------------------------------------------------------------------------
(* The reports that the page may show.                                       *)

Fields == {"tasks", "requests", "cost", "tokens", "successful_tasks", "failed_tasks",
           "tasks_without_result", "per_success"}

LEMMA OpenedIs ==
  ASSUME NEW r, Fields \subseteq DOMAIN r, GoodReport(r)
  PROVE  GoodReport(Opened(r)) /\ Opened(r).some = TRUE
<1> DEFINE q == Opened(r)
<1>1. \A f \in Fields : q[f] = r[f]
  BY DEF Opened, Fields
<1>2. /\ q.tasks = r.tasks /\ q.requests = r.requests /\ q.cost = r.cost /\ q.tokens = r.tokens
      /\ q.successful_tasks = r.successful_tasks /\ q.failed_tasks = r.failed_tasks
      /\ q.tasks_without_result = r.tasks_without_result /\ q.per_success = r.per_success
  BY <1>1 DEF Fields
<1>3. q.some = TRUE
  BY DEF Opened
<1> HIDE DEF q
<1>4. validateReport(r)
  BY DEF GoodReport
<1>5. UniqueTasks(q) /\ TotalsMatch(q) /\ PerSuccessMatches(q)
  BY <1>2, <1>4 DEF validateReport, UniqueTasks, TotalsMatch, PerSuccessMatches
<1>6. GoodReport(q)
  BY <1>2, <1>5 DEF GoodReport, validateReport
<1> QED
  BY <1>3, <1>6 DEF q

LEMMA FileIsGood ==
  ASSUME NEW file \in Consistent
  PROVE  GoodReport(Opened(file)) /\ Opened(file).some = TRUE
<1>1. IsReport(file) /\ validateReport(file)
  BY FilesAssumption DEF Consistent
<1>2. Fields \subseteq DOMAIN file
  BY <1>1 DEF IsReport, Fields
<1>3. file.tasks \in Seq([task_id : STRING, requests : Nat, cost : Nat,
                          success : {"true", "false", "null"}])
      /\ file.tokens \in [1 .. 5 -> Nat]
  BY <1>1 DEF IsReport
<1>4. Len(file.tasks) \in Nat /\ DOMAIN file.tasks = 1 .. Len(file.tasks)
  BY <1>3
<1>5. \A i \in DOMAIN file.tasks : /\ file.tasks[i].cost \in Nat
                                   /\ file.tasks[i].success \in {"true", "false", "null"}
  <2> DEFINE Task == [task_id : STRING, requests : Nat, cost : Nat,
                      success : {"true", "false", "null"}]
  <2>1. \A t \in Task : t.cost \in Nat /\ t.success \in {"true", "false", "null"}
    OBVIOUS
  <2>2. file.tasks \in Seq(Task)
    BY <1>3
  <2> HIDE DEF Task
  <2>3. \A i \in DOMAIN file.tasks : file.tasks[i] \in Task
    BY <2>2
  <2> QED
    BY <2>1, <2>3
<1>6. GoodReport(file)
  BY <1>1, <1>3, <1>4, <1>5 DEF GoodReport
<1> QED
  BY <1>2, <1>6, OpenedIs

\* A trace that can be read is not being written.
LEMMA ReadableIsIdle == ASSUME RecorderOK, Readable PROVE writing = {}
<1> SUFFICES ASSUME writing # {} PROVE FALSE
  OBVIOUS
<1>1. PICK lines \in Seq(Parts), t \in Tasks :
        Whole(lines) /\ trace = Append(lines, <<"start", NextLine(t)>>)
  BY DEF RecorderOK
<1>2. Len(trace) = Len(lines) + 1 /\ Len(lines) \in Nat
  BY <1>1
<1>3. Len(lines) % 2 = 0 /\ Len(trace) % 2 = 0
  BY <1>1 DEF Whole, Readable
<1> HIDE DEF Whole
<1> QED
  BY <1>2, <1>3

LEMMA PriceIs == price(Response) \in Nat
<1> DEFINE f == [i \in 1 .. 5 |-> Response[i] * PriceBook[i]]
<1>1. \A i \in 1 .. 5 : PriceBook[i] \in Nat
  BY DEF PriceBook
<1>2. f \in [1 .. 5 -> Nat]
  <2>1. \A i \in 1 .. 5 : Response[i] \in Nat
    BY ResponseAssumption
  <2>2. \A a, b \in Nat : a * b \in Nat
    OBVIOUS
  <2> QED
    BY <1>1, <2>1, <2>2
<1>3. IsFiniteSet(1 .. 5)
  BY PlacesAre
<1> HIDE DEF f
<1>4. TotalOf(f) \in Nat
  BY <1>2, <1>3, SumNat
<1>5. price(Response) = TotalOf(f) \div 2
  BY DEF price, f
<1> QED
  BY <1>4, <1>5

LEMMA TraceIsGood ==
  ASSUME RecorderOK, Readable
  PROVE  GoodReport(Opened(TraceReport)) /\ Opened(TraceReport).some = TRUE
<1> DEFINE found == Events(trace)
           D == DOMAIN found
           r == TraceReport
           ids == SetToSeq(Done)
           n == Cardinality(Done)
           of(success) == Cardinality({i \in DOMAIN ids : Success(found, ids[i]) = success})
<1>1. writing = {}
  BY ReadableIsIdle
<1>2. Whole(trace) /\ EventsOK(found, calls) /\ \E m \in Nat : D = 1 .. m
  BY <1>1, EventsAre
<1>3. Named(found) = Done /\ r.requests = n
  <2>1. r.requests = Cardinality({t \in Tasks : calls[t] \in {"recorded", "rated", "true", "false"}})
    BY <1>1, TraceIsReadable DEF TraceReadable
  <2>2. Done = {t \in Tasks : calls[t] \in {"recorded", "rated", "true", "false"}}
    BY DEF Done, Recorded
  <2>3. Named(found) = Done
    BY <1>1, TraceNames
  <2> QED
    BY <2>1, <2>2, <2>3
<1> HIDE DEF found
<1>4. \A k \in D : found[k] \in Lines
  BY <1>2 DEF EventsOK
<1>5. IsFiniteSet(Done)
  BY TasksAssumption, FS_Subset DEF Done
<1>6. /\ DOMAIN ids = 1 .. n /\ n \in Nat
      /\ \A i \in DOMAIN ids : ids[i] \in Done
      /\ \A i, j \in DOMAIN ids : ids[i] = ids[j] => i = j
  BY <1>5, ListIs
<1>7. r = Analyze(found, ids)
  BY <1>3 DEF TraceReport, found
<1> HIDE DEF ids, n
<1>8. \A t \in Done : \E k \in D : Of(found, "request", t) = {k} /\ found[k].type = "request"
  BY <1>2 DEF EventsOK, Done, Of, OfType
<1>9. ASSUME NEW t \in Done
      PROVE  /\ TaskReport(found, t).requests = 1 /\ TaskReport(found, t).task_id = t
             /\ TaskReport(found, t).cost = price(Response)
             /\ TaskReport(found, t).success = Success(found, t)
  <2>1. PICK k \in D : Of(found, "request", t) = {k} /\ found[k].type = "request"
    BY <1>8
  <2>2. found[k].tokens = Response
    BY <1>4, <2>1, RequestIs
  <2>3. TotalOf([j \in {k} |-> price(found[j].tokens)]) = price(Response)
    <3>1. [j \in {k} |-> price(found[j].tokens)] = [j \in {k} |-> price(Response)]
      BY <2>2
    <3> QED
      BY <3>1, PriceIs, SumOfOne
  <2>4. Cardinality({k}) = 1
    BY FS_Singleton
  <2> QED
    BY <2>1, <2>3, <2>4 DEF TaskReport
<1>10. ASSUME NEW t \in Done PROVE Success(found, t) \in {"true", "false", "null"}
  <2> DEFINE results == Of(found, "task_result", t)
  <2>1. CASE results = {}
    BY <2>1 DEF Success
  <2>2. CASE results # {}
    <3>1. (CHOOSE k \in results : TRUE) \in results
      BY <2>2
    <3>2. PICK k \in results : The(found, results) = found[k]
      BY <3>1 DEF The
    <3>3. found[k] \in Lines /\ found[k].type = "task_result"
      BY <1>4 DEF Of, OfType
    <3> QED
      BY <2>2, <3>2, <3>3, LineIs DEF Success
  <2> QED
    BY <2>1, <2>2
<1>11. /\ r.tasks = [i \in 1 .. n |-> TaskReport(found, ids[i])]
       /\ r.tokens = [i \in 1 .. 5 |-> TotalTokens(found, i)]
       /\ r.cost = TotalCost(r.tasks)
       /\ r.successful_tasks = of("true") /\ r.failed_tasks = of("false")
       /\ r.tasks_without_result = of("null")
       /\ r.per_success = IF of("true") > 0 /\ of("null") = 0 THEN <<r.cost, of("true")>> ELSE <<>>
       /\ Fields \subseteq DOMAIN r
  BY <1>6, <1>7 DEF Analyze, Fields
<1> HIDE DEF r
<1>12. /\ DOMAIN r.tasks = 1 .. n
       /\ \A i \in 1 .. n : /\ r.tasks[i].requests = 1 /\ r.tasks[i].task_id = ids[i]
                            /\ r.tasks[i].cost \in Nat
                            /\ r.tasks[i].success = Success(found, ids[i])
                            /\ r.tasks[i].success \in {"true", "false", "null"}
  BY <1>6, <1>9, <1>10, <1>11, PriceIs
<1>13. UniqueTasks(r)
  BY <1>6, <1>12 DEF UniqueTasks
<1>14. SumOver(r.tasks, LAMBDA t : t.cost) = r.cost
  BY <1>11 DEF SumOver, TotalCost
<1>15. SumOver(r.tasks, LAMBDA t : t.requests) = r.requests
  <2> DEFINE f == [i \in 1 .. n |-> r.tasks[i].requests]
  <2>1. f \in [1 .. n -> Int] /\ \A i \in 1 .. n : f[i] = 1
    BY <1>12
  <2>2. IsFiniteSet(1 .. n) /\ Cardinality(1 .. n) = n
    BY <1>6, PlacesAre
  <2>3. SumOver(r.tasks, LAMBDA t : t.requests) = TotalOf(f)
    BY <1>12 DEF SumOver
  <2> HIDE DEF f
  <2>4. TotalOf(f) = Cardinality(1 .. n)
    BY <2>1, <2>2, SumOnes
  <2> QED
    BY <1>3, <2>2, <2>3, <2>4
<1>16. \A success : CountOf(r.tasks, success) = of(success)
  <2>1. ASSUME NEW success
        PROVE  {i \in DOMAIN r.tasks : r.tasks[i].success = success}
                 = {i \in DOMAIN ids : Success(found, ids[i]) = success}
    BY <1>6, <1>12
  <2> QED
    BY <2>1 DEF CountOf
<1> HIDE DEF of
<1>17. TotalsMatch(r)
  BY <1>11, <1>14, <1>15, <1>16 DEF TotalsMatch
<1>18. PerSuccessMatches(r)
  <2>1. PerSuccess(SumOver(r.tasks, LAMBDA t : t.cost), r.successful_tasks, r.tasks_without_result)
          = r.per_success
    BY <1>11, <1>14 DEF PerSuccess
  <2> QED
    BY <2>1 DEF PerSuccessMatches
<1>19. r.tokens \in [1 .. 5 -> Nat]
  <2>1. ASSUME NEW i \in 1 .. 5 PROVE TotalTokens(found, i) \in Nat
    <3> DEFINE S == OfType(found, "request")
               f == [k \in S |-> found[k].tokens[i]]
    <3>1. \A k \in S : found[k].tokens = Response
      BY <1>4, RequestIs DEF OfType
    <3>2. f \in [S -> Nat]
      BY <3>1, ResponseAssumption
    <3>3. IsFiniteSet(D)
      BY <1>2, PlacesAre
    <3>4. IsFiniteSet(S)
      BY <3>3, FS_Subset DEF OfType
    <3>5. TotalTokens(found, i) = TotalOf(f)
      BY DEF TotalTokens
    <3> HIDE DEF f, S
    <3> QED
      BY <3>2, <3>4, <3>5, SumNat
  <2> QED
    BY <1>11, <2>1
<1>20. GoodReport(r)
  BY <1>6, <1>12, <1>13, <1>17, <1>18, <1>19 DEF GoodReport, validateReport
<1> QED
  BY <1>11, <1>20, OpenedIs DEF r

-----------------------------------------------------------------------------
(* The figures of whatever the page may hold.                                *)

\* A good report, or figures that are those of a history.
Held(s) ==
  \/ s.report.some = TRUE /\ GoodReport(s.report)
  \/ FromHistory(s) /\ (s.demo => DemoOf(s))

\* The server compares settings with others.
ServerHistory ==
  /\ HistoryOK(server.entries)
  /\ \A i \in DOMAIN server.entries :
       IsExperiment(server.entries[i]) => server.entries[i].before # server.entries[i].after

AllHeld ==
  /\ Held(page.state)
  /\ \A i \in Polls : Held(polls[i].state)
  /\ op.phase = "answered" => Held(op.state)

\* The demo asks no server, and a server of usage has no history.
ModesOK ==
  /\ op.phase = "waiting" => mode = "demo"
  /\ mode = "demo" =>
       /\ page.state.demo = TRUE \/ page.state.report.some = TRUE
       /\ \A i \in Polls : polls[i].phase = "free"
       /\ op.phase \notin {"done", "reading", "answered"}
  /\ mode = "usage" =>
       /\ server.entries = <<>> /\ ~server.paused
       /\ op.phase \notin {"done", "reading", "answered"}

FInv == ServerHistory /\ AllHeld /\ ModesOK

LEMMA EntriesAreRecords == Entries \subseteq Records
<1>1. Nat \cup {None} \subseteq Amounts
  BY DEF Amounts
<1>2. Values \subseteq Hashes
  BY DEF Hashes
<1> QED
  BY <1>1, <1>2 DEF Entries, Records

-----------------------------------------------------------------------------
(* The server's history.                                                     *)

LEMMA HistoryGetsOne ==
  ASSUME ServerHistory, NEW e, EntryOK(e), RecordOK(e), server'.entries = <<e>> \o server.entries,
         IsExperiment(e) => e.before # e.after,
         e.action = "rollback" => Undone(e, server.entries)
  PROVE  ServerHistory'
<1> DEFINE old == server.entries
           new == server'.entries
<1>1. e \in Records /\ HistoryOK(old)
  BY EntriesAreRecords DEF EntryOK, ServerHistory
<1>2. HistoryOK(new)
  BY <1>1, HistoryGrows
<1>3. /\ new \in Seq(Records) /\ Len(new) = Len(old) + 1 /\ Len(old) \in Nat
      /\ new[1] = e /\ \A i \in 1 .. Len(old) : new[i + 1] = old[i]
  BY <1>1, Prepend DEF HistoryOK
<1>4. ASSUME NEW i \in DOMAIN new, IsExperiment(new[i]) PROVE new[i].before # new[i].after
  <2>1. CASE i = 1
    BY <1>3, <1>4, <2>1
  <2>2. CASE i # 1
    <3>1. i - 1 \in 1 .. Len(old) /\ (i - 1) + 1 = i
      BY <1>3, <2>2
    <3>2. new[i] = old[i - 1] /\ i - 1 \in DOMAIN old
      BY <1>1, <1>3, <3>1 DEF HistoryOK
    <3> QED
      BY <1>4, <3>2 DEF ServerHistory
  <2> QED
    BY <2>1, <2>2
<1> QED
  BY <1>2, <1>4 DEF ServerHistory

LEMMA HistoryStarts == ASSUME IInv, ServerHistory, Start PROVE ServerHistory'
<1>1. PICK after \in Profiles \ {server.active} :
        server' = [server EXCEPT !.entries =
           <<[Entry(NewID, "experiment", "running") EXCEPT !.before = server.active, !.after = after]>>
           \o @]
  BY DEF Start
<1> DEFINE e == [Entry(NewID, "experiment", "running") EXCEPT !.before = server.active, !.after = after]
<1>2. server.active \in Profiles /\ NewID \in Nat
  BY DEF IInv, ServerOK, NewID
<1>3. server'.entries = <<e>> \o server.entries
  BY <1>1 DEF IInv, ServerOK
<1>4. EntryOK(e)
  BY <1>2 DEF Entry, EntryOK, Entries, Values, statusTitle, IsExperiment
<1>5. /\ e.before # e.after /\ e.action = "experiment" /\ e.status = "running"
      /\ e.applied = FALSE /\ e.baseline = None /\ e.candidate = None
  BY <1>1 DEF Entry
<1> HIDE DEF e
<1>6. RecordOK(e)
  <2>1. ~finite(e.candidate)
    BY <1>5 DEF finite, None
  <2>2. (e.status = "applied") = FALSE /\ e.status # "rolled_back"
    BY <1>5
  <2> QED
    BY <1>5, <2>1, <2>2 DEF RecordOK, IsExperiment
<1> QED
  BY <1>3, <1>4, <1>5, <1>6, HistoryGetsOne

LEMMA HistoryRollsBack == ASSUME IInv, ServerHistory, NEW id, Rollback(id) PROVE ServerHistory'
<1> DEFINE e == [Entry(NewID, "rollback", "rolled_back") EXCEPT
                   !.applied = TRUE, !.before = server.active, !.after = EntryOf(id).before]
           j == Len(server.entries) + 1 - id
<1>1. server'.entries = <<e>> \o server.entries
  BY DEF Rollback
<1>2. ServerOK /\ server.active \in Profiles /\ NewID \in Nat /\ Len(server.entries) \in Nat
  BY DEF IInv, ServerOK, NewID
<1>3. /\ id \in 1 .. Len(server.entries) /\ IsExperiment(EntryOf(id)) /\ EntryOf(id).applied
      /\ EntryOf(id) = server.entries[j]
  BY DEF Rollback, RollbackAllowed, EntryOf
<1>4. j \in DOMAIN server.entries
  BY <1>2, <1>3 DEF ServerOK
<1>5. EntryOf(id).before \in Profiles
  BY <1>2, <1>3, <1>4 DEF ServerOK, EntryOK
<1>6. EntryOK(e) /\ e.action = "rollback"
  <2>1. e \in Entries /\ e.action = "rollback" /\ e.status = "rolled_back"
    BY <1>2, <1>5 DEF Entry, Entries, Values, statusTitle
  <2> QED
    BY <2>1 DEF EntryOK, IsExperiment
<1>7. RecordOK(e) /\ e.after = EntryOf(id).before
  BY DEF Entry, RecordOK, IsExperiment, finite, None
<1>8. Undone(e, server.entries)
  BY <1>3, <1>4, <1>7 DEF Undone
<1> HIDE DEF e
<1> QED
  BY <1>1, <1>6, <1>7, <1>8, HistoryGetsOne DEF IsExperiment

LEMMA HistoryResumes == ASSUME IInv, ServerHistory, Resume PROVE ServerHistory'
<1> DEFINE e == Entry(NewID, "resume", "resumed")
<1>1. ServerOK /\ NewID \in Nat
  BY DEF IInv, ServerOK, NewID
<1>2. server'.entries = <<e>> \o server.entries
  BY <1>1 DEF Resume, ServerOK
<1>3. EntryOK(e) /\ e.action = "resume"
  <2>1. e \in Entries /\ e.action = "resume" /\ e.status = "resumed"
    BY <1>1 DEF Entry, Entries, Values, statusTitle
  <2> QED
    BY <2>1 DEF EntryOK, IsExperiment
<1>4. RecordOK(e)
  BY DEF Entry, RecordOK, IsExperiment, finite, None
<1> HIDE DEF e
<1> QED
  BY <1>2, <1>3, <1>4, HistoryGetsOne DEF IsExperiment

\* The record of an experiment that ends is not one that was undone before.
LEMMA HistoryEnds ==
  ASSUME IInv, ServerHistory, Running, NEW e, NEW active,
         EntryOK(e), RecordOK(e), IsExperiment(e), e.before # e.after,
         server' = [server EXCEPT !.entries[1] = e, !.active = active]
  PROVE  ServerHistory'
<1> DEFINE old == server.entries
           new == server'.entries
<1>1. /\ HistoryOK(old) /\ old \in Seq(Records) /\ Len(old) \in Nat /\ DOMAIN old = 1 .. Len(old)
      /\ e \in Records
  BY EntriesAreRecords DEF ServerHistory, HistoryOK, EntryOK
<1>2. Len(old) >= 1
  BY <1>1 DEF Running
<1>3. new = [old EXCEPT ![1] = e]
  BY DEF IInv, ServerOK
<1>4. /\ new \in Seq(Records) /\ DOMAIN new = DOMAIN old
      /\ new[1] = e /\ \A i \in DOMAIN old \ {1} : new[i] = old[i]
  BY <1>1, <1>2, <1>3
<1>5. \A i \in DOMAIN new : RecordOK(new[i]) /\ (IsExperiment(new[i]) => new[i].before # new[i].after)
  BY <1>1, <1>4 DEF HistoryOK, ServerHistory
<1>6. ASSUME NEW i \in DOMAIN new, new[i].action = "rollback"
      PROVE  \E j \in DOMAIN new : /\ j > i /\ IsExperiment(new[j]) /\ new[j].applied
                                   /\ new[j].before = new[i].after
  <2>1. i # 1
    BY <1>4, <1>6 DEF IsExperiment
  <2>2. i \in DOMAIN old \ {1} /\ new[i] = old[i]
    BY <1>4, <2>1
  <2>3. PICK j \in DOMAIN old : /\ j > i /\ IsExperiment(old[j]) /\ old[j].applied
                                /\ old[j].before = old[i].after
    BY <1>1, <1>6, <2>2 DEF HistoryOK
  <2>4. j \in DOMAIN new /\ new[j] = old[j]
    <3>1. j # 1
      BY <1>1, <2>2, <2>3
    <3> QED
      BY <1>4, <3>1
  <2> QED
    BY <2>2, <2>3, <2>4
<1> QED
  BY <1>4, <1>5, <1>6 DEF ServerHistory, HistoryOK

LEMMA HistoryFinishes == ASSUME IInv, ServerHistory, Finish PROVE ServerHistory'
<1> DEFINE e == server.entries[1]
           Ends(entry, active) == server' = [server EXCEPT !.entries[1] = entry, !.active = active]
           Ended(f) == EntryOK(f) /\ RecordOK(f) /\ IsExperiment(f) /\ f.before # f.after
           With(status, cost) == [e EXCEPT !.status = status, !.baseline = cost[1], !.candidate = cost[2]]
<1>1. /\ Running /\ EntryOK(e) /\ IsExperiment(e) /\ RecordOK(e)
      /\ e.status = "running" /\ e.before # e.after
  <2>1. Running /\ ServerOK
    BY DEF IInv, Finish
  <2>2. 1 \in DOMAIN server.entries
    BY <2>1 DEF Running, ServerOK
  <2> QED
    BY <2>1, <2>2 DEF ServerOK, Running, EntryOK, ServerHistory, HistoryOK
<1>2. ASSUME NEW f, NEW active, Ended(f), Ends(f, active) PROVE ServerHistory'
  BY <1>1, <1>2, HistoryEnds
<1>3. /\ e \in Entries /\ e.before \in Profiles /\ e.after \in Profiles /\ ~e.applied
      /\ ~finite(e.candidate)
  BY <1>1 DEF EntryOK, RecordOK, JudgedStatus
<1>4. Ended([e EXCEPT !.status = "error"])
  BY <1>1, <1>3 DEF EntryOK, Entries, statusTitle, IsExperiment, RecordOK
<1>5. ASSUME NEW cost \in Costs
      PROVE  Ended([e EXCEPT !.status = "error", !.baseline = cost[1]])
  <2>1. cost[1] \in Nat
    BY CostsAssumption
  <2> QED
    BY <1>1, <1>3, <2>1 DEF EntryOK, Entries, statusTitle, IsExperiment, RecordOK
<1>6. ASSUME NEW cost \in Costs, NEW status \in {"error", "rejected", "recommended", "applying"}
      PROVE  Ended(With(status, cost))
  <2> DEFINE f == With(status, cost)
  <2>1. cost[1] \in Nat /\ cost[2] \in Nat
    BY CostsAssumption
  <2>2. EntryOK(f)
    BY <1>1, <1>3, <2>1 DEF EntryOK, Entries, statusTitle, IsExperiment
  <2>3. /\ f.action = "experiment" /\ f.status = status /\ f.applied = e.applied
        /\ f.baseline = cost[1] /\ f.before = e.before /\ f.after = e.after
    BY <1>1, <1>3 DEF Entries, IsExperiment
  <2>4. e.applied = FALSE
    BY <1>3 DEF Entries
  <2> HIDE DEF f
  <2>5. RecordOK(f) /\ IsExperiment(f) /\ f.before # f.after
    BY <1>1, <2>1, <2>3, <2>4 DEF RecordOK, JudgedStatus, IsExperiment, finite
  <2> QED
    BY <2>2, <2>5 DEF f
<1>7. ASSUME NEW cost \in Costs
      PROVE  Ended([With("applied", cost) EXCEPT !.applied = TRUE])
  <2> DEFINE f == [With("applied", cost) EXCEPT !.applied = TRUE]
  <2>1. cost[1] \in Nat /\ cost[2] \in Nat
    BY CostsAssumption
  <2>2. EntryOK(f)
    BY <1>1, <1>3, <2>1 DEF EntryOK, Entries, statusTitle, IsExperiment
  <2>3. /\ f.action = "experiment" /\ f.status = "applied" /\ f.applied = TRUE
        /\ f.baseline = cost[1] /\ f.candidate = cost[2] /\ f.before = e.before /\ f.after = e.after
    BY <1>1, <1>3 DEF Entries, IsExperiment
  <2> HIDE DEF f
  <2>4. finite(f.baseline) /\ finite(f.candidate) /\ f.before # f.after
    BY <1>1, <2>1, <2>3 DEF finite
  <2>5. f.applied = (f.status = "applied") /\ f.status \in JudgedStatus /\ f.status # "rolled_back"
    BY <2>3 DEF JudgedStatus
  <2>6. RecordOK(f) /\ IsExperiment(f)
    BY <2>3, <2>4, <2>5 DEF RecordOK, IsExperiment
  <2> QED
    BY <2>2, <2>4, <2>6 DEF f
<1>8. \/ Ends([e EXCEPT !.status = "error"], server.active)
      \/ \E cost \in Costs :
           \/ Ends([e EXCEPT !.status = "error", !.baseline = cost[1]], server.active)
           \/ \E status \in {"error", "rejected", "recommended"} :
                Ends(With(status, cost), server.active)
           \/ Ends([With("applied", cost) EXCEPT !.applied = TRUE], e.after)
           \/ \E active \in {e.before, e.after} : Ends(With("applying", cost), active)
  BY DEF Finish
<1> HIDE DEF e, Ends, Ended, With
<1> QED
  BY <1>2, <1>4, <1>5, <1>6, <1>7, <1>8

LEMMA HistoryStays == ASSUME IInv, ServerHistory, [Next]_vars PROVE ServerHistory'
<1>1. CASE server'.entries = server.entries
  BY <1>1 DEF ServerHistory
<1>2. CASE Start
  BY <1>2, HistoryStarts
<1>3. CASE Finish
  BY <1>3, HistoryFinishes
<1>4. CASE OtherPage
  BY <1>4, HistoryResumes, HistoryRollsBack DEF OtherPage
<1>5. CASE PostAccepted
  BY <1>5, HistoryResumes, HistoryRollsBack DEF PostAccepted
<1>6. CASE Edit
  <2>1. server'.entries = server.entries
    BY <1>6 DEF Edit, IInv, ServerOK
  <2> QED
    BY <1>1, <2>1
<1>7. CASE \E i \in Polls : Poll(i) \/ PollAnswered(i) \/ PollRefused(i) \/ PollFailed(i) \/ PollShown(i)
  BY <1>1, <1>7 DEF Poll, PollAnswered, PollRefused, PollFailed, PollShown, Unavailable
<1>8. CASE OpenUndo \/ CancelUndo \/ ConfirmUndo \/ ClickResume \/ ClickTry \/ TryEnds
  BY <1>1, <1>8 DEF OpenUndo, CancelUndo, ConfirmUndo, ClickResume, ClickTry, TryEnds
<1>9. CASE PostRefused \/ PostLost \/ ReadAgain \/ ReadAnswered \/ ActEnds \/ Reset
             \/ OpenFile \/ TraceGrows
  BY <1>1, <1>9 DEF PostRefused, PostLost, ReadAgain, ReadAnswered, ActEnds, Reset,
                       OpenFile, TraceGrows, Recording
<1>10. CASE UNCHANGED vars
  BY <1>1, <1>10 DEF vars
<1> QED
  BY <1>2, <1>3, <1>4, <1>5, <1>6, <1>7, <1>8, <1>9, <1>10 DEF Next

-----------------------------------------------------------------------------
(* What the page, a read and an action hold.                                 *)

LEMMA BlankIsHeld == Held(Blank) /\ Blank.report.some = FALSE
<1>1. /\ IsState(Blank) /\ Blank.demo = FALSE /\ Blank.report = NoReport /\ Blank.entries = <<>>
      /\ Blank.spend = 0 /\ Blank.current_report = None /\ Blank.rollback_id = None
      /\ Blank.active_hash = None
  BY DEF Blank, IsState
<1>2. HistoryOK(<<>>) /\ Len(<<>>) = 0
  BY DEF HistoryOK
<1>3. RollbackID(<<>>, None) = None
  BY <1>2, NothingToUndo
<1>4. CurrentReport(<<>>, None) = None
  <2>1. {k \in 1 .. Len(<<>>) : Evaluated(<<>>[k], None)} = {}
    BY <1>2
  <2>2. First({}) = 0
    BY DEF First
  <2> QED
    BY <2>1, <2>2, CurrentReportFirst
<1>5. FromHistory(Blank)
  BY <1>1, <1>2, <1>3, <1>4, SpentNothing DEF FromHistory
<1> QED
  BY <1>1, <1>5 DEF Held, NoReport

LEMMA GoodIsHeld ==
  ASSUME NEW r, GoodReport(r), r.some = TRUE
  PROVE  Held([Blank EXCEPT !.report = r]) /\ [Blank EXCEPT !.report = r].report.some = TRUE
<1>1. [Blank EXCEPT !.report = r].report = r
  BY DEF Blank
<1> QED
  BY <1>1 DEF Held

\* Whatever the server answers.
LEMMA ReportIsHeld ==
  ASSUME IInv, RecorderOK, ServerHistory, mode = "usage" => Readable
  PROVE  Held(Report)
<1>1. CASE mode = "usage"
  <2>1. Report = [Blank EXCEPT !.report = Opened(TraceReport)]
    BY <1>1 DEF Report
  <2> QED
    BY <1>1, <2>1, TraceIsGood, GoodIsHeld
<1>2. CASE mode # "usage"
  <2>1. IsSnapshot(Report, server.entries, server.active, server.paused)
    BY <1>2, SnapshotFields DEF Report
  <2>2. FromHistory(Report) /\ Report.demo = FALSE
    BY <2>1 DEF IsSnapshot, FromHistory, ServerHistory
  <2> QED
    BY <2>2 DEF Held
<1> QED
  BY <1>1, <1>2

\* The page of the demo, before and after what the user does there.
LEMMA DemoIsHeld ==
  ASSUME IInv, AllHeld, page.state.demo
  PROVE  /\ mode = "demo" /\ DemoOf(page.state)
         /\ \A s \in {demoTrial(page.state), demoRollback(page.state), demoResume(page.state)} :
              Held(s) /\ s.demo = TRUE
<1> DEFINE s == page.state
<1>1. mode = "demo" /\ ~s.report.some
  BY PageIs DEF StateOK
<1>2. DemoOf(s)
  BY <1>1 DEF AllHeld, Held
<1>3. \A t : DemoOf(t) => Held(t) /\ t.demo = TRUE
  BY DemoFromHistory DEF Held, DemoOf, DemoHistory
<1>4. DemoOf(demoTrial(s)) /\ DemoOf(demoRollback(s)) /\ DemoOf(demoResume(s))
  BY <1>2, DemoTrialKept, DemoRollbackKept, DemoResumeKept DEF DemoOf
<1> QED
  BY <1>1, <1>2, <1>3, <1>4

\* A server of usage has nothing to change.
LEMMA UsageStays ==
  ASSUME ModesOK, mode = "usage", Next
  PROVE  server' = server /\ ~PostAccepted
<1>1. server.entries = <<>> /\ ~server.paused
  BY DEF ModesOK
<1>2. ~Running /\ ~ResumeAllowed /\ \A id : ~RollbackAllowed(id)
  BY <1>1 DEF Running, ResumeAllowed, RollbackAllowed
<1>3. ~Start /\ ~Finish /\ ~PostAccepted /\ ~OtherPage /\ ~Edit
  BY <1>2 DEF Start, Finish, PostAccepted, OtherPage, Edit, Rollback, Resume
<1>4. CASE \E i \in Polls : Poll(i) \/ PollAnswered(i) \/ PollRefused(i) \/ PollFailed(i) \/ PollShown(i)
  BY <1>3, <1>4 DEF Poll, PollAnswered, PollRefused, PollFailed, PollShown, Unavailable
<1>5. CASE OpenUndo \/ CancelUndo \/ ConfirmUndo \/ ClickResume \/ ClickTry \/ TryEnds
  BY <1>3, <1>5 DEF OpenUndo, CancelUndo, ConfirmUndo, ClickResume, ClickTry, TryEnds
<1>6. CASE PostRefused \/ PostLost \/ ReadAgain \/ ReadAnswered \/ ActEnds \/ Reset
             \/ OpenFile \/ TraceGrows
  BY <1>3, <1>6 DEF PostRefused, PostLost, ReadAgain, ReadAnswered, ActEnds, Reset,
                       OpenFile, TraceGrows, Recording
<1> QED
  BY <1>3, <1>4, <1>5, <1>6 DEF Next

LEMMA UsageKept == ASSUME ModesOK, Next, mode' = mode
                   PROVE  mode = "usage" => server'.entries = <<>> /\ ~server'.paused
BY UsageStays DEF ModesOK

LEMMA HeldByServer ==
  ASSUME IInv, AllHeld, ModesOK, Start \/ Finish \/ OtherPage \/ Edit \/ TraceGrows
  PROVE  AllHeld' /\ ModesOK'
<1>1. UNCHANGED <<mode, page, dialog, op, polls>> /\ Next
  BY DEF Start, Finish, OtherPage, Edit, Event, TraceGrows, Recording, Next
<1>2. AllHeld'
  BY <1>1 DEF AllHeld
<1> QED
  BY <1>1, <1>2, UsageKept DEF ModesOK

LEMMA HeldByPolls ==
  ASSUME IInv, RecorderOK, FInv, NEW i \in Polls,
         Poll(i) \/ PollAnswered(i) \/ PollRefused(i) \/ PollFailed(i) \/ PollShown(i)
  PROVE  AllHeld' /\ ModesOK'
<1>1. UNCHANGED <<mode, server, dialog, op>> /\ AllHeld /\ ModesOK
  BY DEF Poll, PollAnswered, PollRefused, PollFailed, Unavailable, PollShown, FInv
<1>2. /\ polls[i] = [phase |-> polls[i].phase, state |-> polls[i].state]
      /\ DOMAIN polls = Polls /\ Held(polls[i].state) /\ Held(page.state)
  BY <1>1 DEF IInv, PollsOK, AllHeld
<1>3. mode # "demo"
  BY <1>1 DEF ModesOK, Poll, PollAnswered, PollRefused, PollFailed, PollShown
<1>4. PICK phase, s : Held(s) /\ polls' = [polls EXCEPT ![i] = [phase |-> phase, state |-> s]]
  <2>1. CASE Poll(i) \/ PollRefused(i) \/ PollFailed(i)
    <3>1. PICK phase \in {"sent", "free"} : polls' = [polls EXCEPT ![i].phase = phase]
      BY <2>1 DEF Poll, PollRefused, PollFailed, Unavailable
    <3>2. [polls[i] EXCEPT !.phase = phase] = [phase |-> phase, state |-> polls[i].state]
      BY <1>2
    <3>3. polls' = [polls EXCEPT ![i] = [phase |-> phase, state |-> polls[i].state]]
      BY <3>1, <3>2
    <3> QED
      BY <1>2, <3>3
  <2>2. CASE PollAnswered(i)
    <3>1. Held(Report)
      BY <2>2, ReportIsHeld DEF PollAnswered, FInv
    <3>2. polls' = [polls EXCEPT ![i] = [phase |-> "answered", state |-> Report]]
      BY <2>2 DEF PollAnswered
    <3> QED
      BY <3>1, <3>2
  <2>3. CASE PollShown(i)
    <3>1. polls' = [polls EXCEPT ![i] = [phase |-> "free", state |-> Blank]]
      BY <2>3 DEF PollShown
    <3> QED
      BY <3>1, BlankIsHeld
  <2> QED
    BY <2>1, <2>2, <2>3
<1>5. \A j \in Polls : Held(polls'[j].state)
  BY <1>1, <1>2, <1>4 DEF AllHeld
<1>6. Held(page'.state)
  <2>1. page'.state = page.state \/ page'.state = polls[i].state
    BY PageIs DEF Poll, PollAnswered, PollRefused, PollFailed, Unavailable, PollShown, Shown
  <2> QED
    BY <1>2, <2>1
<1>7. AllHeld'
  BY <1>1, <1>5, <1>6 DEF AllHeld
<1> QED
  BY <1>1, <1>3, <1>7 DEF ModesOK

LEMMA HeldByClicks ==
  ASSUME IInv, AllHeld, ModesOK, OpenUndo \/ CancelUndo \/ ConfirmUndo \/ ClickResume \/ ClickTry
  PROVE  AllHeld' /\ ModesOK'
<1>1. UNCHANGED <<mode, server, polls>>
  BY DEF OpenUndo, CancelUndo, ConfirmUndo, ClickResume, ClickTry
<1>2. CASE page'.state = page.state /\ op' = op
  BY <1>1, <1>2 DEF AllHeld, ModesOK
<1>3. CASE page.state.demo /\ page'.state \in {demoRollback(page.state), demoResume(page.state)} /\ op' = op
  <2>1. Held(page'.state) /\ page'.state.demo = TRUE
    BY <1>3, DemoIsHeld
  <2> QED
    BY <1>1, <1>3, <2>1 DEF AllHeld, ModesOK
<1>4. CASE /\ page'.state = page.state
           /\ op'.phase = "sent" \/ (op'.phase = "waiting" /\ page.state.demo)
  <2>1. page.state.demo => mode = "demo"
    BY DemoIsHeld
  <2> QED
    BY <1>1, <1>4, <2>1 DEF AllHeld, ModesOK
<1>5. ASSUME NEW action, NEW phase, Begin(action, phase)
      PROVE  page'.state = page.state /\ op'.phase = phase
  BY <1>5, PageIs DEF Begin
<1>6. CASE OpenUndo \/ CancelUndo
  BY <1>2, <1>6 DEF OpenUndo, CancelUndo
<1>7. CASE ConfirmUndo
  <2>1. CASE page.state.demo
    <3>1. page'.state = demoRollback(page.state) /\ op' = op
      BY <1>7, <2>1, PageIs DEF ConfirmUndo
    <3> QED
      BY <1>3, <2>1, <3>1
  <2>2. CASE ~page.state.demo
    <3>1. Begin("rollback", "sent")
      BY <1>7, <2>2 DEF ConfirmUndo
    <3>2. page'.state = page.state /\ op'.phase = "sent"
      BY <1>5, <3>1
    <3> QED
      BY <1>4, <3>2
  <2> QED
    BY <2>1, <2>2
<1>8. CASE ClickResume
  <2>1. CASE page.state.demo
    <3>1. page'.state = demoResume(page.state) /\ op' = op
      BY <1>8, <2>1, PageIs DEF ClickResume
    <3> QED
      BY <1>3, <2>1, <3>1
  <2>2. CASE ~page.state.demo
    <3>1. Begin("resume", "sent")
      BY <1>8, <2>2 DEF ClickResume
    <3>2. page'.state = page.state /\ op'.phase = "sent"
      BY <1>5, <3>1
    <3> QED
      BY <1>4, <3>2
  <2> QED
    BY <2>1, <2>2
<1>9. CASE ClickTry
  <2>1. Begin("try", "waiting") /\ "try" \in Buttons(page.state)
    BY <1>9 DEF ClickTry, Click
  <2>2. page.state.demo
    BY <2>1 DEF Buttons, Undo
  <2> QED
    BY <1>4, <1>5, <2>1, <2>2
<1> QED
  BY <1>6, <1>7, <1>8, <1>9

LEMMA HeldByPosts ==
  ASSUME IInv, RecorderOK, FInv,
         PostAccepted \/ PostRefused \/ PostLost \/ ReadAgain \/ ReadAnswered
  PROVE  AllHeld' /\ ModesOK'
<1>1. /\ op.phase \in {"sent", "done", "reading"} /\ UNCHANGED <<mode, page, dialog, polls>>
      /\ AllHeld /\ ModesOK /\ ServerHistory /\ Next
  BY DEF PostAccepted, PostRefused, PostLost, ReadAgain, ReadAnswered, FInv, Next
<1>2. op = [action |-> op.action, phase |-> op.phase, id |-> op.id, shown |-> op.shown,
            reviewed |-> op.reviewed]
  BY <1>1, OpIs
<1>3. CASE ReadAnswered
  <2>1. op' = [action |-> op.action, phase |-> "answered", state |-> Report]
    BY <1>3 DEF ReadAnswered
  <2>2. mode # "usage" /\ mode # "demo"
    BY <1>1, <1>3 DEF ModesOK, ReadAnswered
  <2>3. Held(Report)
    BY <1>1, <2>2, ReportIsHeld
  <2>4. op'.phase = "answered" /\ op'.state = Report
    BY <2>1
  <2>5. AllHeld'
    BY <1>1, <2>3, <2>4 DEF AllHeld
  <2> QED
    BY <1>1, <2>2, <2>4, <2>5 DEF ModesOK
<1>4. CASE PostAccepted \/ PostRefused \/ PostLost \/ ReadAgain
  <2>1. PICK phase \in {"done", "reading", "failed"} :
          op' = [op EXCEPT !.phase = phase] /\ (phase # "failed" => PostAccepted \/ ReadAgain)
    BY <1>4 DEF PostAccepted, PostRefused, PostLost, ReadAgain
  <2>2. op'.phase = phase
    BY <1>2, <2>1
  <2>3. AllHeld'
    BY <1>1, <2>2 DEF AllHeld
  <2>4. PostAccepted \/ ReadAgain => mode # "demo" /\ mode # "usage"
    BY <1>1, UsageStays DEF ModesOK, PostAccepted, ReadAgain
  <2> QED
    BY <1>1, <2>1, <2>2, <2>3, <2>4, UsageKept DEF ModesOK
<1> QED
  BY <1>3, <1>4

LEMMA HeldByEnds ==
  ASSUME IInv, AllHeld, ModesOK, TryEnds \/ ActEnds
  PROVE  AllHeld' /\ ModesOK'
<1>1. op'.phase = "none" /\ UNCHANGED <<mode, server, dialog, polls>>
  BY DEF TryEnds, ActEnds, NoOp
<1>2. ASSUME Held(page'.state), mode = "demo" => page'.state.demo = TRUE \/ page'.state.report.some = TRUE
      PROVE  AllHeld' /\ ModesOK'
  BY <1>1, <1>2 DEF AllHeld, ModesOK
<1>3. CASE TryEnds
  <2>1. mode = "demo"
    BY <1>3 DEF TryEnds, ModesOK
  <2>2. CASE page.state.demo
    <3>1. page'.state = demoTrial(page.state)
      BY <1>3, <2>2, PageIs DEF TryEnds
    <3> QED
      BY <1>2, <2>2, <3>1, DemoIsHeld
  <2>3. CASE ~page.state.demo
    <3>1. page'.state = StrayTrial(page.state)
      BY <1>3, <2>3, PageIs DEF TryEnds
    <3>2. page.state.report.some = TRUE /\ IsState(page.state) /\ ~FromHistory(page.state)
      BY <2>1, <2>3, PageIs DEF ModesOK, StateOK, FromHistory, NoReport
    <3>3. GoodReport(page.state.report)
      BY <3>2 DEF AllHeld, Held
    <3>4. page'.state.report = page.state.report
      BY <3>1, <3>2, StrayIs
    <3> QED
      BY <1>2, <3>2, <3>3, <3>4 DEF Held
  <2> QED
    BY <2>2, <2>3
<1>4. CASE ActEnds
  <2>1. page'.state = IF op.phase = "answered" THEN Shown(op.state) ELSE page.state
    BY <1>4, PageIs DEF ActEnds
  <2>2. Held(page'.state)
    BY <2>1 DEF Shown, AllHeld
  <2>3. mode = "demo" => page'.state = page.state
    BY <2>1 DEF ModesOK
  <2> QED
    BY <1>2, <2>2, <2>3 DEF ModesOK
<1> QED
  BY <1>3, <1>4

LEMMA HeldByOthers ==
  ASSUME IInv, AllHeld, ModesOK, Reset \/ OpenFile
  PROVE  AllHeld' /\ ModesOK'
<1>1. UNCHANGED <<mode, server, dialog, op, polls>>
  BY DEF Reset, OpenFile
<1>2. Held(page'.state) /\ (page'.state.demo = TRUE \/ page'.state.report.some = TRUE)
  <2>1. CASE Reset
    <3>1. page'.state = resetDemo
      BY <2>1, PageIs DEF Reset
    <3>2. DemoOf(resetDemo)
      BY ResetDemoKept
    <3> QED
      BY <3>1, <3>2, DemoFromHistory DEF Held, DemoOf, DemoHistory
  <2>2. CASE OpenFile
    <3>1. PICK file \in Consistent : page'.state = [Blank EXCEPT !.report = Opened(file)]
      BY <2>2, PageIs DEF OpenFile
    <3> QED
      BY <3>1, FileIsGood, GoodIsHeld
  <2> QED
    BY <2>1, <2>2
<1> QED
  BY <1>1, <1>2 DEF AllHeld, ModesOK

LEMMA FiguresStart == ASSUME Init PROVE FInv
<1>1. /\ server.entries = <<>> /\ ~server.paused /\ op.phase = "none"
      /\ \A i \in Polls : polls[i].phase = "free" /\ polls[i].state = Blank
      /\ page.state = IF mode = "demo" THEN resetDemo ELSE Blank
  BY DEF Init, NoOp
<1>2. ServerHistory
  BY <1>1 DEF ServerHistory, HistoryOK
<1>3. Held(resetDemo) /\ resetDemo.demo = TRUE
  BY ResetDemoKept, DemoFromHistory DEF Held, DemoOf, DemoHistory
<1> QED
  BY <1>1, <1>2, <1>3, BlankIsHeld DEF FInv, AllHeld, ModesOK

LEMMA FiguresStay == ASSUME IInv, RecorderOK, FInv, [Next]_vars PROVE FInv'
<1>1. ServerHistory' /\ AllHeld /\ ModesOK
  BY HistoryStays DEF FInv
<1>2. AllHeld' /\ ModesOK'
  <2>1. CASE UNCHANGED vars
    BY <1>1, <2>1 DEF vars, AllHeld, ModesOK
  <2>2. CASE Next
    BY <1>1, <2>2, HeldByServer, HeldByPolls, HeldByClicks, HeldByPosts, HeldByEnds, HeldByOthers
       DEF Next
  <2> QED
    BY <2>1, <2>2
<1> QED
  BY <1>1, <1>2 DEF FInv

LEMMA FiguresAreKept == Spec => [](IInv /\ FInv)
<1>1. Init => RecorderOK /\ FInv
  BY RecorderStarts, FiguresStart DEF Init
<1>2. RecorderOK /\ [Next]_vars => RecorderOK'
  BY RecorderStays
<1>3. IInv /\ RecorderOK /\ FInv /\ [Next]_vars => FInv'
  BY FiguresStay
<1> QED
  BY <1>1, <1>2, <1>3, Invariance, PTL DEF Spec

\* DemoMatchesSnapshot: the total, the report and the next undo that the demo
\* keeps by hand are what the server would work out from the demo's history.
THEOREM DemoIsTheServers == Spec => []DemoMatchesSnapshot
<1>1. IInv /\ FInv => DemoMatchesSnapshot
  <2> SUFFICES ASSUME IInv, FInv PROVE DemoMatchesSnapshot
    OBVIOUS
  <2>1. page.state.demo => DemoOf(page.state)
    BY DemoIsHeld DEF FInv
  <2> QED
    BY <2>1, DemoMatches
<1> QED
  BY <1>1, FiguresAreKept, PTL

\* FiguresAgree: the cards, the chart's line, the history, the ring and the table
\* agree, for any profiles and costs, whatever was opened, read, tried or undone.
THEOREM FiguresAlwaysAgree == Spec => []FiguresAgree
<1>1. IInv /\ FInv => FiguresAgree
  <2> SUFFICES ASSUME IInv, FInv PROVE FiguresAgree
    OBVIOUS
  <2>1. TypeOK
    BY DEF IInv, ServerOK, PageOK, BoundsOK, TypeOK
  <2>2. Held(page.state)
    BY DEF FInv, AllHeld
  <2>3. page.state.report.some \/ FromHistory(page.state)
    BY <2>2 DEF Held
  <2>4. page.state.report.some => GoodReport(page.state.report)
    BY <2>2 DEF Held, FromHistory, NoReport
  <2> QED
    BY <2>1, <2>3, <2>4, LineOfHistory, CardsOfHistory, ReportOfPage DEF FiguresAgree
<1> QED
  BY <1>1, FiguresAreKept, PTL
-----------------------------------------------------------------------------
(* What the dialog of an undo says, from its opening to the server's answer.  *)

\* The change is that of a record of the server, which applied it.
Describes(d) ==
  /\ d.id \in 1 .. Len(server.entries) /\ EntryOf(d.id).applied
  /\ EntryOf(d.id).after = d.from /\ EntryOf(d.id).before = d.to

ChangeOf(e) == [id |-> e.id, from |-> e.after, to |-> e.before]

\* The dialog that would be opened on this state tells what the server has.
Faithful(s) ==
  s.rollback_id # None =>
    \A i \in DOMAIN s.entries : s.entries[i].id = s.rollback_id => Describes(ChangeOf(s.entries[i]))

\* The states that may come on the page, and the changes that may be undone.
States ==
  {page.state} \cup {polls[i].state : i \in Polls}
  \cup (IF op.phase = "answered" THEN {op.state} ELSE {})
Changes ==
  (IF dialog # NoDialog THEN {dialog} ELSE {})
  \cup (IF op.phase = "sent" /\ op.action = "rollback" THEN {op.reviewed} ELSE {})

RInv == mode # "demo" => (\A s \in States : Faithful(s)) /\ (\A d \in Changes : Describes(d))

LEMMA DescribesKept ==
  ASSUME ServerOK, ServerOK', Grown, NEW CONSTANT d, Describes(d)
  PROVE  Describes(d)'
<1>1. Len(server.entries) \in Nat /\ Len(server'.entries) \in Nat
  BY DEF ServerOK
<1>2. EntryOf(d.id)' = EntryOf(d.id)
  BY DEF Grown, Describes
<1> QED
  BY <1>1, <1>2 DEF Describes, Grown

LEMMA FaithfulKept ==
  ASSUME ServerOK, ServerOK', Grown, NEW CONSTANT s, Faithful(s)
  PROVE  Faithful(s)'
BY DescribesKept DEF Faithful

LEMMA ReportIsFaithful == ASSUME IInv PROVE Faithful(Report)
<1>1. CASE mode = "usage"
  <2>1. Report = [Blank EXCEPT !.report = Opened(TraceReport)]
    BY <1>1 DEF Report
  <2> QED
    BY <2>1, BlankIs DEF Faithful
<1>2. CASE mode # "usage"
  <2> DEFINE entries == server.entries
             id == RollbackID(entries, server.active)
  <2>1. IsSnapshot(Report, entries, server.active, server.paused)
    BY <1>2, SnapshotFields DEF Report
  <2>2. Report.entries = entries /\ Report.rollback_id = id
    BY <2>1 DEF IsSnapshot
  <2>3. /\ Len(entries) \in Nat /\ DOMAIN entries = 1 .. Len(entries) /\ entries \in Seq(Entries)
        /\ \A k \in DOMAIN entries : entries[k].id = Len(entries) + 1 - k
    BY DEF IInv, ServerOK
  <2>4. ASSUME id # None, NEW i \in DOMAIN entries, entries[i].id = id
        PROVE  Describes(ChangeOf(entries[i]))
    <3>1. PICK j \in 1 .. Len(entries) : entries[j].id = id /\ entries[j].applied
      BY <2>3, <2>4, RollbackIDIs
    <3>2. i = j
      <4>1. i \in 1 .. Len(entries) /\ entries[i].id = Len(entries) + 1 - i
        BY <2>3
      <4>2. entries[j].id = Len(entries) + 1 - j
        BY <2>3
      <4>3. entries[i].id = entries[j].id
        BY <2>4, <3>1
      <4> HIDE DEF entries, id
      <4> QED
        BY <2>3, <4>1, <4>2, <4>3
    <3>3. EntryOf(entries[i].id) = entries[i] /\ entries[i].id \in 1 .. Len(entries)
      BY <2>3 DEF EntryOf
    <3> QED
      BY <3>1, <3>2, <3>3 DEF Describes, ChangeOf
  <2> QED
    BY <2>2, <2>4 DEF Faithful
<1> QED
  BY <1>1, <1>2

LEMMA NothingOffered == ASSUME NEW r PROVE Faithful(Blank) /\ Faithful([Blank EXCEPT !.report = r])
BY BlankIs DEF Faithful

\* The dialog that is opened describes the experiment that is offered.
LEMMA DialogIs ==
  ASSUME IInv, FInv, OpenUndo
  PROVE  \E i \in DOMAIN page.state.entries :
           /\ page.state.entries[i].id = page.state.rollback_id
           /\ dialog' = ChangeOf(page.state.entries[i])
           /\ page.state.rollback_id # None
<1> DEFINE entries == page.state.entries
           I == {k \in 1 .. Len(entries) : entries[k].id = page.state.rollback_id}
           i == IF I # {} THEN Min(I) ELSE 0
<1>1. "undo" \in Buttons(page.state)
  BY DEF OpenUndo, Click
<1>2. page.state.report.some # TRUE /\ page.state.rollback_id # None
  BY <1>1 DEF Buttons, Undo
<1>3. entries \in Seq(Records)
  BY <1>2 DEF FInv, AllHeld, Held, FromHistory, HistoryOK
<1>4. i # 0 /\ dialog' = ChangeOf(entries[i])
  BY DEF OpenUndo, SelectInSeq, ChangeOf
<1>5. I # {} /\ Min(I) \in I
  <2>1. IsFiniteSet(I) /\ I \subseteq Int
    BY <1>3, FS_Interval, FS_Subset
  <2> QED
    BY <1>4, <2>1, MinIs
<1>6. Min(I) \in DOMAIN entries /\ entries[Min(I)].id = page.state.rollback_id /\ i = Min(I)
  BY <1>3, <1>5
<1> HIDE DEF I, i
<1> QED
  BY <1>2, <1>4, <1>6

\* Whatever the step, nothing comes on the page that the server has not reported.
LEMMA ReviewedByServer ==
  ASSUME IInv, Start \/ Finish \/ OtherPage \/ Edit \/ TraceGrows
  PROVE  ServerOK' /\ Grown /\ mode' = mode /\ States' = States /\ Changes' = Changes
<1>1. UNCHANGED <<mode, page, dialog, op, polls>>
  BY DEF Start, Finish, OtherPage, Edit, Event, TraceGrows, Recording
<1> QED
  BY <1>1, ServerMoves DEF States, Changes

LEMMA ReviewedByPolls ==
  ASSUME IInv, RInv, mode # "demo", NEW i \in Polls,
         Poll(i) \/ PollAnswered(i) \/ PollRefused(i) \/ PollFailed(i) \/ PollShown(i)
  PROVE  /\ ServerOK' /\ Grown /\ mode' = mode
         /\ \A s \in States' : Faithful(s)
         /\ Changes' = Changes
<1>1. UNCHANGED <<mode, server, dialog, op>>
  BY DEF Poll, PollAnswered, PollRefused, PollFailed, Unavailable, PollShown
<1>2. /\ polls[i] = [phase |-> polls[i].phase, state |-> polls[i].state]
      /\ DOMAIN polls = Polls /\ \A j \in Polls : polls[j].state \in States
      /\ page.state \in States
  BY DEF IInv, PollsOK, States
<1>3. PICK phase, state : Faithful(state) /\ polls' = [polls EXCEPT ![i] = [phase |-> phase, state |-> state]]
  <2>1. CASE Poll(i) \/ PollRefused(i) \/ PollFailed(i)
    <3>1. PICK phase \in {"sent", "free"} : polls' = [polls EXCEPT ![i].phase = phase]
      BY <2>1 DEF Poll, PollRefused, PollFailed, Unavailable
    <3>2. [polls[i] EXCEPT !.phase = phase] = [phase |-> phase, state |-> polls[i].state]
      BY <1>2
    <3>3. polls' = [polls EXCEPT ![i] = [phase |-> phase, state |-> polls[i].state]]
      BY <3>1, <3>2
    <3> QED
      BY <1>2, <3>3 DEF RInv
  <2>2. CASE PollAnswered(i)
    <3>1. polls' = [polls EXCEPT ![i] = [phase |-> "answered", state |-> Report]]
      BY <2>2 DEF PollAnswered
    <3> QED
      BY <3>1, ReportIsFaithful
  <2>3. CASE PollShown(i)
    <3>1. polls' = [polls EXCEPT ![i] = [phase |-> "free", state |-> Blank]]
      BY <2>3 DEF PollShown
    <3> QED
      BY <3>1, NothingOffered
  <2> QED
    BY <2>1, <2>2, <2>3
<1>4. \A j \in Polls : Faithful(polls'[j].state)
  BY <1>2, <1>3 DEF RInv
<1>5. Faithful(page'.state)
  <2>1. page'.state = page.state \/ page'.state = polls[i].state
    BY PageIs DEF Poll, PollAnswered, PollRefused, PollFailed, Unavailable, PollShown, Shown
  <2> QED
    BY <1>2, <2>1 DEF RInv
<1>6. op'.phase = "answered" => Faithful(op'.state)
  <2>1. op.phase = "answered" => op.state \in States
    BY DEF States
  <2> QED
    BY <1>1, <2>1 DEF RInv
<1>7. \A s \in States' : Faithful(s)
  BY <1>4, <1>5, <1>6 DEF States
<1> QED
  BY <1>1, <1>7, ServerIdle DEF Changes

LEMMA ReviewedByClicks ==
  ASSUME IInv, FInv, RInv, mode # "demo",
         OpenUndo \/ CancelUndo \/ ConfirmUndo \/ ClickResume \/ ClickTry
  PROVE  /\ ServerOK' /\ Grown /\ mode' = mode
         /\ \A s \in States' : s \in States
         /\ \A d \in Changes' : Describes(d)
<1>1. UNCHANGED <<mode, server, polls>> /\ ~page.state.demo
  BY PageIs DEF OpenUndo, CancelUndo, ConfirmUndo, ClickResume, ClickTry, StateOK
<1>2. CASE OpenUndo
  <2>1. PICK k \in DOMAIN page.state.entries :
          /\ page.state.entries[k].id = page.state.rollback_id
          /\ dialog' = ChangeOf(page.state.entries[k])
          /\ page.state.rollback_id # None
    BY <1>2, DialogIs
  <2>2. Faithful(page.state)
    BY DEF RInv, States
  <2>3. Describes(dialog)'
    <3>1. PICK d : d = ChangeOf(page.state.entries[k])
      OBVIOUS
    <3>2. Describes(d)
      BY <2>1, <2>2, <3>1 DEF Faithful
    <3>3. (Describes(d))'
      BY <1>1, <3>2, ServerIdle, DescribesKept DEF IInv
    <3> QED
      BY <2>1, <3>1, <3>3 DEF Describes
  <2>4. UNCHANGED <<page, op>>
    BY <1>2 DEF OpenUndo
  <2>5. Describes(dialog')
    BY <1>1, <2>3 DEF Describes, EntryOf
  <2> QED
    BY <1>1, <2>4, <2>5, ServerIdle DEF States, Changes, RInv
<1>3. CASE CancelUndo
  <2>1. UNCHANGED <<page, op>> /\ dialog' = NoDialog
    BY <1>3 DEF CancelUndo
  <2> QED
    BY <1>1, <2>1, ServerIdle DEF States, Changes, RInv
<1>4. ASSUME NEW action, NEW phase, phase # "answered", Begin(action, phase), dialog' = NoDialog,
             action = "rollback" => dialog # NoDialog
      PROVE  /\ \A s \in States' : s \in States
             /\ \A d \in Changes' : Describes(d)
  <2>1. page'.state = page.state
    BY <1>4, PageIs DEF Begin
  <2>2. op'.phase = phase /\ op'.action = action /\ op'.reviewed = dialog
    BY <1>4 DEF Begin
  <2>3. dialog # NoDialog => Describes(dialog)
    BY DEF RInv, Changes
  <2> QED
    BY <1>1, <1>4, <2>1, <2>2, <2>3 DEF States, Changes
<1>5. CASE ConfirmUndo
  <2>1. Begin("rollback", "sent") /\ dialog # NoDialog /\ dialog' = NoDialog
    BY <1>1, <1>5 DEF ConfirmUndo
  <2> QED
    BY <1>1, <1>4, <2>1, ServerIdle
<1>6. CASE ClickResume
  <2>1. Begin("resume", "sent") /\ dialog' = NoDialog
    BY <1>1, <1>6 DEF ClickResume, Click
  <2> QED
    BY <1>1, <1>4, <2>1, ServerIdle
<1>7. CASE ClickTry
  <2>1. Begin("try", "waiting") /\ dialog' = NoDialog
    BY <1>7 DEF ClickTry, Click
  <2> QED
    BY <1>1, <1>4, <2>1, ServerIdle
<1> QED
  BY <1>2, <1>3, <1>5, <1>6, <1>7

LEMMA ReviewedByActions ==
  ASSUME IInv, FInv, RInv, mode # "demo",
         \/ PostAccepted \/ PostRefused \/ PostLost \/ ReadAgain \/ ReadAnswered
         \/ TryEnds \/ ActEnds
  PROVE  /\ ServerOK' /\ Grown /\ mode' = mode
         /\ \A s \in States' : s \in States \/ s = Report
         /\ Changes' \subseteq Changes
<1>1. UNCHANGED <<mode, dialog, polls>> /\ ~TryEnds
  BY DEF PostAccepted, PostRefused, PostLost, ReadAgain, ReadAnswered, TryEnds, ActEnds, FInv, ModesOK
<1>2. ServerOK' /\ Grown
  BY ServerIdle, ServerRollsBack, ServerResumes
     DEF PostAccepted, PostRefused, PostLost, ReadAgain, ReadAnswered, TryEnds, ActEnds
<1>3. CASE PostAccepted \/ PostRefused \/ PostLost \/ ReadAgain
  <2>1. PICK phase \in {"done", "reading", "failed"} : op' = [op EXCEPT !.phase = phase]
    BY <1>3 DEF PostAccepted, PostRefused, PostLost, ReadAgain
  <2>2. op'.phase = phase
    BY <1>3, <2>1, OpIs DEF PostAccepted, PostRefused, PostLost, ReadAgain
  <2>3. page' = page
    BY <1>3 DEF PostAccepted, PostRefused, PostLost, ReadAgain
  <2> QED
    BY <1>1, <1>2, <2>2, <2>3 DEF States, Changes
<1>4. CASE ReadAnswered
  <2>1. op'.phase = "answered" /\ op'.state = Report /\ page' = page
    BY <1>4 DEF ReadAnswered
  <2> QED
    BY <1>1, <1>2, <2>1 DEF States, Changes
<1>5. CASE ActEnds
  <2>1. op'.phase = "none"
    BY <1>5 DEF ActEnds, NoOp
  <2>2. page'.state = IF op.phase = "answered" THEN Shown(op.state) ELSE page.state
    BY <1>5, PageIs DEF ActEnds
  <2>3. page'.state \in States
    BY <2>2 DEF Shown, States
  <2> QED
    BY <1>1, <1>2, <2>1, <2>3 DEF States, Changes
<1> QED
  BY <1>1, <1>3, <1>4, <1>5

LEMMA ReviewedByOthers ==
  ASSUME IInv, RInv, mode # "demo", Reset \/ OpenFile
  PROVE  /\ ServerOK' /\ Grown /\ mode' = mode
         /\ \A s \in States' : s \in States \/ Faithful(s)
         /\ Changes' = Changes
<1>1. UNCHANGED <<mode, server, dialog, op, polls>>
  BY DEF Reset, OpenFile
<1>2. ~Reset
  BY PageIs DEF Reset, StateOK
<1>3. PICK file \in Consistent : page'.state = [Blank EXCEPT !.report = Opened(file)]
  BY <1>2, PageIs DEF OpenFile
<1>4. Faithful(page'.state)
  BY <1>3, NothingOffered
<1> QED
  BY <1>1, <1>4, ServerIdle DEF States, Changes

LEMMA ReviewStays == ASSUME IInv, FInv, RInv, [Next]_vars PROVE RInv'
<1>1. mode' = mode /\ ServerOK
  <2>1. CASE UNCHANGED vars
    BY <2>1 DEF vars, IInv
  <2>2. CASE Next
    BY <2>2 DEF Next, Start, Finish, OtherPage, Edit, Event, TraceGrows, Recording, Poll, PollAnswered,
                PollRefused, PollFailed, Unavailable, PollShown, OpenUndo, CancelUndo, ConfirmUndo,
                ClickResume, ClickTry, TryEnds, PostAccepted, PostRefused, PostLost, ReadAgain,
                ReadAnswered, ActEnds, Reset, OpenFile, IInv
  <2> QED
    BY <2>1, <2>2
<1>2. SUFFICES ASSUME mode # "demo"
               PROVE  (\A s \in States' : Faithful(s)') /\ (\A d \in Changes' : Describes(d)')
  BY <1>1 DEF RInv
<1>3. /\ ServerOK' /\ Grown
      /\ \A s \in States' : s \in States \/ Faithful(s)
      /\ \A d \in Changes' : d \in Changes \/ Describes(d)
  <2>1. CASE UNCHANGED vars
    BY <2>1, ServerIdle DEF vars, States, Changes
  <2>2. CASE Start \/ Finish \/ OtherPage \/ Edit \/ TraceGrows
    BY <2>2, ReviewedByServer
  <2>3. CASE \E i \in Polls : Poll(i) \/ PollAnswered(i) \/ PollRefused(i) \/ PollFailed(i) \/ PollShown(i)
    BY <1>2, <2>3, ReviewedByPolls
  <2>4. CASE OpenUndo \/ CancelUndo \/ ConfirmUndo \/ ClickResume \/ ClickTry
    BY <1>2, <2>4, ReviewedByClicks
  <2>5. CASE \/ PostAccepted \/ PostRefused \/ PostLost \/ ReadAgain \/ ReadAnswered
             \/ TryEnds \/ ActEnds
    BY <1>2, <2>5, ReviewedByActions, ReportIsFaithful
  <2>6. CASE Reset \/ OpenFile
    BY <1>2, <2>6, ReviewedByOthers
  <2> QED
    BY <2>1, <2>2, <2>3, <2>4, <2>5, <2>6 DEF Next
<1>4. ASSUME NEW s \in States' PROVE Faithful(s)'
  <2>1. Faithful(s)
    BY <1>2, <1>3 DEF RInv
  <2> QED
    BY <1>1, <1>3, <2>1, FaithfulKept
<1>5. ASSUME NEW d \in Changes' PROVE Describes(d)'
  <2>1. Describes(d)
    BY <1>2, <1>3 DEF RInv
  <2> QED
    BY <1>1, <1>3, <2>1, DescribesKept
<1> QED
  BY <1>4, <1>5

LEMMA ReviewStarts == ASSUME Init PROVE RInv
<1>1. /\ dialog = NoDialog /\ op.phase = "none" /\ \A i \in Polls : polls[i].state = Blank
      /\ mode # "demo" => page.state = Blank
  BY DEF Init, NoOp
<1> QED
  BY <1>1, NothingOffered DEF RInv, States, Changes

\* UndoOfShown: however late the reads are, and whoever else edits, undoes and
\* experiments, a rollback that the server accepts replaces the settings the
\* page showed when the user confirmed; and, unless a read has replaced the
\* experiment under review, it is the change that the dialog described.
THEOREM UndoesWhatWasShown == Spec => UndoOfShown
<1>1. Init => RInv
  BY ReviewStarts
<1>2. IInv /\ FInv /\ RInv /\ [Next]_vars => RInv'
  BY ReviewStays
<1>3. IInv /\ RInv /\ [Next]_vars =>
        [PostAccepted /\ op.action = "rollback" =>
           /\ server.active = op.shown
           /\ op.id = op.reviewed.id =>
                server.active = op.reviewed.from /\ server'.active = op.reviewed.to]_vars
  <2> SUFFICES ASSUME IInv, RInv, PostAccepted, op.action = "rollback"
               PROVE  /\ server.active = op.shown
                      /\ op.id = op.reviewed.id =>
                           server.active = op.reviewed.from /\ server'.active = op.reviewed.to
    OBVIOUS
  <2>1. mode # "demo" /\ op.phase = "sent" /\ RollbackAllowed(op.id) /\ Rollback(op.id)
    BY DEF PostAccepted, Rollback
  <2>2. op.id \in 1 .. Len(server.entries) /\ server.active = EntryOf(op.id).after
    BY <2>1 DEF RollbackAllowed
  <2>3. op.id # None
    BY <2>2 DEF None
  <2>4. Undoable(op.id, op.shown)
    BY <2>1, <2>3 DEF IInv, OpOK, NoOp
  <2>5. server'.active = EntryOf(op.id).before
    BY <2>1 DEF Rollback
  <2>6. Describes(op.reviewed)
    BY <2>1 DEF RInv, Changes
  <2> QED
    BY <2>2, <2>4, <2>5, <2>6 DEF Undoable, Describes
<1> QED
  BY <1>1, <1>2, <1>3, FiguresAreKept, PTL DEF Spec, UndoOfShown

=============================================================================
