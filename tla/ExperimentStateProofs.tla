----------------------- MODULE ExperimentStateProofs -----------------------
(* Proofs about ExperimentState, for any number of processes, operations,    *)
(* profiles, edits, modified snapshots, crashes and failed reads and writes. *)
EXTENDS ExperimentState, TLAPS

-----------------------------------------------------------------------------
(* The inductive invariant.                                                  *)

\* The labels at which a process has a record of its own under runs/, and
\* those at which it undoes an experiment.
Undoing == {"b_open", "b_hashes", "b_save", "b_pause", "b_write", "b_final"}
Recording == {"x_open", "x_final", "u_open", "u_remove", "u_final"} \cup Journaled \cup Undoing

\* One process at a time works, under the lock.
Exclusive ==
  /\ \A p \in Procs : ~At(p, "idle") => lock
  /\ \A p, q \in Procs : ~At(p, "idle") /\ ~At(q, "idle") => p = q

\* An experiment was planned with these two profiles.
Planned(e) == e.before # NoProfile /\ e.after # NoProfile

\* The record of a running operation is its own, and what the operation will save
\* is what may follow there.
Own(p) ==
  LET id == mem[p].id
      e == mem[p].entry
  IN
  /\ id \in Ids /\ ~event[id].applied /\ id \notin undone
  /\ e.action # "none" /\ event[id].action = e.action /\ WellFormed(e)
  /\ pc[p] \in {"u_open", "u_remove", "u_final"} => e.action = "resume" /\ ~e.applied

Experimenting(p) ==
  LET id == mem[p].id
      e == mem[p].entry
  IN
  /\ e.action = "experiment" /\ (e.applied => e.status = "applied")
  /\ pc[p] # "x_final" => ~e.applied /\ id \notin promoted
  /\ pc[p] \in {"x_before", "x_after", "x_save", "x_eval", "x_check", "x_applying", "x_promote"} =>
       Planned(e)
  /\ pc[p] = "x_candidate" => mem[p].profile # NoProfile
  /\ pc[p] \in {"x_applying", "x_promote"} => e.status = "applying"
  /\ pc[p] = "x_promote" => event[id] = e
  /\ pc[p] = "x_final" => (e.applied <=> id \in promoted)

\* A rollback undoes an experiment that is journaled as applied, by the text its
\* snapshot had.
Undoes(p) ==
  LET id == mem[p].id
      e == mem[p].entry
      source == mem[p].source
  IN
  /\ e.action = "rollback"
  /\ source \in Experiments /\ event[source].applied
  /\ mem[p].profile = event[source].before
  /\ pc[p] \in {"b_open", "b_hashes"} => e = Opened("rollback")
  /\ pc[p] # "b_open" => event[id].status = "running"
  /\ pc[p] \in {"b_open", "b_hashes", "b_save"} => event[id].before = NoProfile
  /\ pc[p] \in {"b_save", "b_pause", "b_write", "b_final"} =>
       /\ e.before = event[source].after /\ e.after = event[source].before
       /\ e.status = IF pc[p] = "b_final" THEN "rolled_back" ELSE "running"
       /\ pc[p] # "b_final" => ~e.applied
  /\ pc[p] \in {"b_pause", "b_write", "b_final"} =>
       event[id].before = event[source].after /\ event[id].after = event[source].before
  /\ pc[p] = "b_write" => paused

Working(p) ==
  /\ pc[p] \in Recording => Own(p)
  /\ pc[p] \in Journaled \cup {"x_open", "x_final"} => Experimenting(p)
  /\ At(p, "b_read") => mem[p].source \in Ids
  /\ pc[p] \in Undoing => Undoes(p)

\* Only experiments wrote the profile as a promotion, and only those journaled as
\* applied have been undone.
Accounted ==
  /\ promoted \subseteq Experiments
  /\ \A id \in undone : id \in Experiments /\ event[id].applied

LockInv ==
  /\ TypeOK
  /\ Exclusive
  /\ \A p \in Procs : Working(p)
  /\ Accounted
  /\ JournalHonest
  /\ PauseHolds

\* A snapshot is there once the experiment is past it.
Snapped(p) ==
  LET id == mem[p].id
      e == mem[p].entry
  IN
  /\ pc[p] \in {"x_open", "x_active", "x_init", "x_candidate", "x_before", "x_after"} =>
       snap[id].candidate = NoProfile
  /\ pc[p] \in {"x_open", "x_active", "x_init", "x_candidate", "x_before"} =>
       snap[id].before = NoProfile \/ tampers > 0
  /\ pc[p] \in {"x_applying", "x_promote"} => snap[id].before = e.before \/ tampers > 0
  /\ pc[p] \in {"x_applying", "x_promote"} \/ (At(p, "x_final") /\ e.applied) =>
       snap[id].candidate = e.after

Snapshotted ==
  \A id \in Ids :
    /\ event[id] = NoEntry => snap[id] = NoSnap
    /\ id \in Experiments /\ event[id].applied => snap[id].candidate = event[id].after

\* What a process found in active.json is still there when it writes the file.
Checked(p) ==
  /\ At(p, "x_init") => active = NoProfile
  /\ pc[p] \in {"x_applying", "x_promote"} => active = mem[p].entry.before
  /\ pc[p] \in Undoing \ {"b_final"} => active = event[mem[p].source].after

ContentInv ==
  /\ \A p \in Procs : Snapped(p) /\ Checked(p)
  /\ Snapshotted
  /\ EditKept

IInv == LockInv /\ ContentInv

-----------------------------------------------------------------------------
(* Type correctness.                                                         *)

\* A process's memory after a step.
Becomes(p, id, source, profile, entry) ==
  /\ mem' \in [Procs -> Memory]
  /\ mem'[p].id = id /\ mem'[p].source = source
  /\ mem'[p].profile = profile /\ mem'[p].entry = entry

\* The values records and memories start from have their types.
LEMMA InitialValues ==
  /\ NoEntry \in Entry /\ WellFormed(NoEntry) /\ NoSnap \in Snapshots /\ IdleMem \in Memory
  /\ \A action \in {"experiment", "rollback", "resume"} :
       /\ Opened(action) \in Entry /\ WellFormed(Opened(action))
       /\ Directory(action) \in Entry /\ WellFormed(Directory(action))
       /\ Opened(action).action = action /\ Opened(action).status = "running"
       /\ Opened(action).before = NoProfile /\ Opened(action).after = NoProfile
       /\ ~Opened(action).applied
       /\ Directory(action).action = action /\ Directory(action).status = "missing"
       /\ ~Directory(action).applied
<1>1. NoEntry \in Entry /\ WellFormed(NoEntry)
  BY DEF NoEntry, Entry, Text, Unrecorded, WellFormed
<1>2. \A action \in {"experiment", "rollback", "resume"} :
        /\ Opened(action) \in Entry /\ WellFormed(Opened(action))
        /\ Opened(action).action = action /\ Opened(action).status = "running"
        /\ Opened(action).before = NoProfile /\ Opened(action).after = NoProfile
        /\ ~Opened(action).applied
  BY DEF NoEntry, Entry, Text, Unrecorded, WellFormed, Opened
<1>3. \A action \in {"experiment", "rollback", "resume"} :
        /\ Directory(action) \in Entry /\ WellFormed(Directory(action))
        /\ Directory(action).action = action /\ Directory(action).status = "missing"
        /\ ~Directory(action).applied
  BY DEF NoEntry, Entry, Text, Unrecorded, WellFormed, Directory
<1>4. NoSnap \in Snapshots /\ IdleMem \in Memory
  BY <1>1 DEF NoSnap, Snapshots, IdleMem, Memory, Text
<1>5. QED
  BY <1>1, <1>2, <1>3, <1>4

\* A step replaces some fields of the memory of its process.
LEMMA MemorySteps ==
  ASSUME mem \in [Procs -> Memory], NEW p \in Procs
  PROVE  /\ \A r \in Memory : mem' = [mem EXCEPT ![p] = r] =>
              Becomes(p, r.id, r.source, r.profile, r.entry)
         /\ \A source \in Ids \cup {0} : mem' = [mem EXCEPT ![p].source = source] =>
              Becomes(p, mem[p].id, source, mem[p].profile, mem[p].entry)
         /\ \A text \in Text : mem' = [mem EXCEPT ![p].profile = text] =>
              Becomes(p, mem[p].id, mem[p].source, text, mem[p].entry)
         /\ \A e \in Entry : mem' = [mem EXCEPT ![p].entry = e] =>
              Becomes(p, mem[p].id, mem[p].source, mem[p].profile, e)
         /\ \A id \in Ids, e \in Entry : mem' = [mem EXCEPT ![p].id = id, ![p].entry = e] =>
              Becomes(p, id, mem[p].source, mem[p].profile, e)
<1> USE DEF Becomes
<1>1. mem[p] \in Memory
  OBVIOUS
<1>2. ASSUME NEW r \in Memory, mem' = [mem EXCEPT ![p] = r]
      PROVE  Becomes(p, r.id, r.source, r.profile, r.entry)
  BY <1>2
<1>3. ASSUME NEW source \in Ids \cup {0}, mem' = [mem EXCEPT ![p].source = source]
      PROVE  Becomes(p, mem[p].id, source, mem[p].profile, mem[p].entry)
  BY <1>1, <1>3 DEF Memory
<1>4. ASSUME NEW text \in Text, mem' = [mem EXCEPT ![p].profile = text]
      PROVE  Becomes(p, mem[p].id, mem[p].source, text, mem[p].entry)
  BY <1>1, <1>4 DEF Memory
<1>5. ASSUME NEW e \in Entry, mem' = [mem EXCEPT ![p].entry = e]
      PROVE  Becomes(p, mem[p].id, mem[p].source, mem[p].profile, e)
  BY <1>1, <1>5 DEF Memory
<1>6. ASSUME NEW id \in Ids, NEW e \in Entry, mem' = [mem EXCEPT ![p].id = id, ![p].entry = e]
      PROVE  Becomes(p, id, mem[p].source, mem[p].profile, e)
  BY <1>1, <1>6 DEF Memory
<1>7. QED
  BY <1>2, <1>3, <1>4, <1>5, <1>6

\* So does an error, or an outcome, those of the entry.
LEMMA EntrySteps ==
  ASSUME mem \in [Procs -> Memory], NEW p \in Procs
  PROVE  LET e == mem[p].entry
             Now(entry) == Becomes(p, mem[p].id, mem[p].source, mem[p].profile, entry)
         IN
         /\ e \in Entry
         /\ \A status \in {"error", "applying", "rejected", "recommended", "resumed"} :
              mem' = [mem EXCEPT ![p].entry.status = status] =>
                Now([action |-> e.action, status |-> status, before |-> e.before,
                     after |-> e.after, applied |-> e.applied])
         /\ \A status \in {"applied", "rolled_back"} :
              mem' = [mem EXCEPT ![p].entry.applied = TRUE, ![p].entry.status = status] =>
                Now([action |-> e.action, status |-> status, before |-> e.before,
                     after |-> e.after, applied |-> TRUE])
         /\ \A before, after \in Text :
              mem' = [mem EXCEPT ![p].entry.before = before, ![p].entry.after = after] =>
                Now([action |-> e.action, status |-> e.status, before |-> before,
                     after |-> after, applied |-> e.applied])
<1> DEFINE e == mem[p].entry
           Now(entry) == Becomes(p, mem[p].id, mem[p].source, mem[p].profile, entry)
<1>1. mem[p] \in Memory /\ e \in Entry
  BY DEF Memory
<1>2. ASSUME NEW status \in {"error", "applying", "rejected", "recommended", "resumed"},
             mem' = [mem EXCEPT ![p].entry.status = status]
      PROVE  Now([action |-> e.action, status |-> status, before |-> e.before,
                  after |-> e.after, applied |-> e.applied])
  BY <1>1, <1>2 DEF Becomes, Memory, Entry
<1>3. ASSUME NEW status \in {"applied", "rolled_back"},
             mem' = [mem EXCEPT ![p].entry.applied = TRUE, ![p].entry.status = status]
      PROVE  Now([action |-> e.action, status |-> status, before |-> e.before,
                  after |-> e.after, applied |-> TRUE])
  BY <1>1, <1>3 DEF Becomes, Memory, Entry
<1>4. ASSUME NEW before \in Text, NEW after \in Text,
             mem' = [mem EXCEPT ![p].entry.before = before, ![p].entry.after = after]
      PROVE  Now([action |-> e.action, status |-> e.status, before |-> before,
                  after |-> after, applied |-> e.applied])
  BY <1>1, <1>4 DEF Becomes, Memory, Entry
<1>5. QED
  BY <1>1, <1>2, <1>3, <1>4

-----------------------------------------------------------------------------
(* One process works at a time, and its own record is the only one to change. *)

Alone(p) == \A q \in Procs : q # p => At(q, "idle")

LEMMA AtLabels ==
  ASSUME pc \in [Procs -> Labels], NEW p \in Procs, NEW l \in Labels, Goto(p, l), Alone(p)
  PROVE  pc' \in [Procs -> Labels] /\ pc'[p] = l /\ Alone(p)'
BY DEF Goto, Alone, At

\* A process that works is alone, and so is one that finds the lock free.
LEMMA WorksAlone ==
  ASSUME Exclusive, NEW p \in Procs, ~At(p, "idle") \/ ~lock
  PROVE  Alone(p)
BY DEF Exclusive, Alone

\* What holds of an idle process does so for any state of the files.
LEMMA SoloStep ==
  ASSUME LockInv, NEW p \in Procs, NEW l \in Labels, Goto(p, l), Alone(p),
         l = "idle" \/ lock', TypeOK', Working(p)', Accounted', JournalHonest',
         halted' => paused' /\ l \notin Journaled \cup {"x_open", "x_final"}
  PROVE  LockInv'
<1>1. pc \in [Procs -> Labels]
  BY DEF LockInv, TypeOK
<1>2. pc'[p] = l /\ Alone(p)'
  BY <1>1, AtLabels
<1>3. Exclusive'
  BY <1>2 DEF Exclusive, Alone, At
<1>4. ASSUME NEW q \in Procs
      PROVE  Working(q)'
  <2>1. CASE q = p
    BY <2>1
  <2>2. CASE q # p
    <3>1. pc'[q] = "idle"
      BY <2>2, <1>2 DEF Alone, At
    <3>2. QED
      BY <3>1 DEF Working, Recording, Undoing, Journaled, At
  <2>3. QED
    BY <2>1, <2>2
<1>5. PauseHolds'
  <2>1. SUFFICES ASSUME halted', NEW q \in Procs
        PROVE  paused' /\ pc'[q] \notin Journaled \cup {"x_open", "x_final"}
    BY DEF PauseHolds
  <2>2. CASE q = p
    BY <2>1, <2>2, <1>2
  <2>3. CASE q # p
    <3>1. pc'[q] = "idle"
      BY <2>3, <1>2 DEF Alone, At
    <3>2. QED
      BY <2>1, <3>1 DEF Journaled
  <2>4. QED
    BY <2>2, <2>3
<1>6. QED
  BY <1>3, <1>4, <1>5 DEF LockInv

\* Replacing the record of an operation leaves the others as they are.
LEMMA RecordReplaced ==
  ASSUME TypeOK, NEW id \in Ids, NEW e \in Entry, WellFormed(e), event' = [event EXCEPT ![id] = e]
  PROVE  /\ event' \in [Ids -> Entry] /\ event'[id] = e
         /\ \A i \in Ids \ {id} : event'[i] = event[i]
         /\ \A i \in Ids : WellFormed(event[i])'
<1>1. event \in [Ids -> Entry] /\ \A i \in Ids : WellFormed(event[i])
  BY DEF TypeOK
<1>2. /\ event' \in [Ids -> Entry] /\ event'[id] = e
      /\ \A i \in Ids \ {id} : event'[i] = event[i]
  BY <1>1
<1>3. ASSUME NEW i \in Ids
      PROVE  WellFormed(event[i])'
  <2>1. CASE i = id
    BY <2>1, <1>2 DEF WellFormed
  <2>2. CASE i # id
    <3>1. event'[i] = event[i] /\ WellFormed(event[i])
      BY <2>2, <1>1, <1>2
    <3>2. QED
      BY <3>1 DEF WellFormed
  <2>3. QED
    BY <2>1, <2>2
<1>4. QED
  BY <1>2, <1>3

\* What the journal says about promotions and rollbacks, apart from who is asking.
Honest == Accounted /\ JournalHonest

LEMMA HonestFrame ==
  ASSUME Honest, UNCHANGED <<event, promoted, undone>>
  PROVE  Honest'
BY DEF Honest, Accounted, JournalHonest, Experiments, RecordsRollbackOf

\* A record may take the place of an unapplied one of the same action, unless it
\* contradicts what the experiment or the rollback did.
LEMMA HonestReplaced ==
  ASSUME TypeOK, Honest, NEW id \in Ids, NEW e \in Entry, WellFormed(e),
         event' = [event EXCEPT ![id] = e], UNCHANGED <<promoted, undone>>,
         ~event[id].applied,
         event[id].action \in {"none", e.action},
         id \in promoted => e.status \in {"applying", "applied"},
         e.action = "experiment" /\ e.applied => id \in promoted,
         e.action # "rollback" \/ event[id].before = NoProfile
           \/ (/\ e.status \in {"running", "rolled_back"}
               /\ e.before = event[id].before /\ e.after = event[id].after)
  PROVE  Honest'
<1>1. event'[id] = e /\ \A i \in Ids \ {id} : event'[i] = event[i]
  BY RecordReplaced
<1>2. undone \subseteq Ids /\ promoted \subseteq Ids
  BY DEF TypeOK
<1>3. \A s \in undone : event[s].action = "experiment" /\ event[s].applied /\ s # id
  BY DEF Honest, Accounted, Experiments
<1>4. Accounted'
  <2>1. \A i \in promoted : i \in Ids /\ event[i].action = "experiment"
    BY DEF Honest, Accounted, Experiments
  <2>2. QED
    BY <2>1, <1>1, <1>2, <1>3 DEF Accounted, Experiments
<1>5. ASSUME NEW i \in promoted
      PROVE  event'[i].status \in {"applying", "applied"}
  BY <1>1, <1>2, <1>5 DEF Honest, JournalHonest
<1>6. ASSUME NEW i \in Ids, event'[i].action = "experiment", event'[i].applied
      PROVE  i \in promoted
  BY <1>1, <1>6 DEF Honest, JournalHonest, Experiments
<1>7. ASSUME NEW s \in undone
      PROVE  \E r \in Ids : RecordsRollbackOf(r, s)'
  <2>1. PICK r \in Ids : RecordsRollbackOf(r, s)
    BY DEF Honest, JournalHonest
  <2>2. s \in Ids /\ event'[s] = event[s] /\ WellFormed(event[s]) /\ event[s].applied
    BY <1>1, <1>2, <1>3, <1>7 DEF TypeOK
  <2>3. CASE r # id
    BY <2>1, <2>2, <2>3, <1>1 DEF RecordsRollbackOf
  <2>4. CASE r = id
    <3>1. event[id].before # NoProfile /\ e.action = "rollback"
      BY <2>1, <2>2, <2>4 DEF RecordsRollbackOf, WellFormed
    <3>2. QED
      BY <3>1, <2>1, <2>2, <2>4, <1>1 DEF RecordsRollbackOf
  <2>5. QED
    BY <2>3, <2>4
<1>8. JournalHonest'
  BY <1>5, <1>6, <1>7 DEF JournalHonest, Experiments
<1>9. QED
  BY <1>4, <1>8 DEF Honest

\* A new directory is nobody's record yet.
LEMMA FreshRecord ==
  ASSUME ConstantsAssumption, TypeOK, Honest, NEW id \in Ids, Fresh(id),
         NEW action \in {"experiment", "rollback", "resume"},
         event' = [event EXCEPT ![id] = Directory(action)], UNCHANGED <<promoted, undone>>
  PROVE  /\ event[id].action = "none" /\ ~event[id].applied /\ event[id].before = NoProfile
         /\ id \notin promoted /\ id \notin undone
         /\ event'[id].action = action /\ ~event'[id].applied
         /\ event'[id].before = NoProfile
         /\ Honest'
<1>1. /\ event[id].action = "none" /\ ~event[id].applied
      /\ event[id].before = NoProfile /\ event[id].status = "absent"
  BY DEF Fresh, NoEntry
<1>2. id \notin promoted /\ id \notin undone
  BY <1>1 DEF Honest, JournalHonest, Accounted
<1>3. /\ Directory(action) \in Entry /\ WellFormed(Directory(action))
      /\ Directory(action).action = action /\ ~Directory(action).applied
  BY InitialValues
<1>4. Directory(action).before = NoProfile
  BY DEF Directory, NoEntry
<1>5. event'[id] = Directory(action)
  BY <1>3, RecordReplaced
<1>6. Honest'
  BY <1>1, <1>2, <1>3, HonestReplaced
<1>7. QED
  BY <1>1, <1>2, <1>3, <1>4, <1>5, <1>6

\* A step that leaves the records alone.
LEMMA QuietStep ==
  ASSUME LockInv, NEW p \in Procs, NEW l \in Labels, Goto(p, l), Alone(p), l = "idle" \/ lock',
         TypeOK', Working(p)', UNCHANGED <<event, promoted, undone>>,
         halted' => paused' /\ l \notin Journaled \cup {"x_open", "x_final"}
  PROVE  LockInv'
<1>1. Honest'
  BY HonestFrame DEF LockInv, Honest
<1>2. QED
  BY <1>1, SoloStep DEF Honest

\* The types of what a step does not touch stay.
LEMMA TypeFrame ==
  ASSUME TypeOK, UNCHANGED <<active, paused, lock, snap, ghost, bounds>>,
         event' \in [Ids -> Entry], \A i \in Ids : WellFormed(event[i])',
         mem' \in [Procs -> Memory], pc' \in [Procs -> Labels]
  PROVE  TypeOK'
BY DEF TypeOK, ghost, bounds

\* Run and Resume open their record, unless the marker tells them not to.
LEMMA OpenRecord ==
  ASSUME ConstantsAssumption, LockInv, NEW p \in Procs, ~At(p, "idle"),
         NEW action \in {"experiment", "resume"},
         NEW l \in {"x_open", "u_open"}, l = IF action = "experiment" THEN "x_open" ELSE "u_open",
         action = "experiment" => ~paused, MakeDir(p, action, l),
         UNCHANGED <<active, paused, lock, snap, ghost, bounds>>
  PROVE  LockInv'
<1>1. PICK id \in Ids :
        /\ Fresh(id)
        /\ event' = [event EXCEPT ![id] = Directory(action)]
        /\ mem' = [mem EXCEPT ![p].id = id, ![p].entry = Opened(action)]
        /\ Goto(p, l)
  BY DEF MakeDir
<1>2. TypeOK /\ Honest /\ mem \in [Procs -> Memory] /\ pc \in [Procs -> Labels] /\ l \in Labels
  BY DEF LockInv, Honest, TypeOK, Labels
<1>3. /\ Opened(action) \in Entry /\ WellFormed(Opened(action))
      /\ Opened(action).action = action /\ ~Opened(action).applied
      /\ Directory(action) \in Entry /\ WellFormed(Directory(action))
  BY InitialValues
<1>4. UNCHANGED <<promoted, undone, halted, paused, lock>>
  BY DEF ghost
<1>5. /\ id \notin promoted /\ id \notin undone
      /\ event'[id].action = action /\ ~event'[id].applied
      /\ Honest'
  BY <1>1, <1>2, <1>4, FreshRecord
<1>6. Becomes(p, id, mem[p].source, mem[p].profile, Opened(action))
  BY <1>1, <1>2, <1>3, MemorySteps
<1>7. Alone(p) /\ pc' \in [Procs -> Labels] /\ pc'[p] = l /\ lock'
  BY <1>1, <1>2, <1>4, WorksAlone, AtLabels DEF LockInv, Exclusive
<1>8. TypeOK'
  <2>1. event' \in [Ids -> Entry] /\ \A i \in Ids : WellFormed(event[i])'
    BY <1>1, <1>2, <1>3, RecordReplaced
  <2>2. QED
    BY <2>1, <1>2, <1>6, <1>7, TypeFrame DEF Becomes
<1>9. Working(p)'
  <2>1. Own(p)'
    BY <1>3, <1>4, <1>5, <1>6, <1>7 DEF Own, Becomes, WellFormed
  <2>2. l = "x_open" => Experimenting(p)'
    BY <1>3, <1>4, <1>5, <1>6, <1>7 DEF Experimenting, Becomes
  <2>3. QED
    BY <2>1, <2>2, <1>7 DEF Working, Recording, Undoing, Journaled, At
<1>10. halted' => paused' /\ l \notin Journaled \cup {"x_open", "x_final"}
  <2>1. halted => paused
    BY DEF LockInv, PauseHolds
  <2>2. QED
    BY <2>1, <1>4 DEF Journaled
<1>11. QED
  BY <1>1, <1>2, <1>5, <1>7, <1>8, <1>9, <1>10, SoloStep DEF Honest

\* A process that has nothing to do any more has no obligations.
LEMMA LeavingStep ==
  ASSUME LockInv, NEW p \in Procs, ~At(p, "idle"), NEW l \in {"idle", "unlock"}, Goto(p, l),
         mem' \in [Procs -> Memory], l = "idle" \/ lock',
         UNCHANGED <<active, paused, event, snap, ghost, edits, tampers>>,
         lock' \in BOOLEAN, crashes' \in 0 .. MaxCrashes, faults' \in 0 .. MaxFaults
  PROVE  LockInv'
<1>1. Alone(p) /\ pc' \in [Procs -> Labels] /\ pc'[p] = l /\ l \in Labels
  <2>1. l \in Labels /\ pc \in [Procs -> Labels]
    BY DEF Labels, LockInv, TypeOK
  <2>2. QED
    BY <2>1, WorksAlone, AtLabels DEF LockInv
<1>2. Working(p)'
  BY <1>1 DEF Working, Recording, Undoing, Journaled, At
<1>3. TypeOK'
  BY <1>1 DEF LockInv, TypeOK, ghost
<1>4. UNCHANGED <<promoted, undone, halted, paused>>
  BY DEF ghost
<1>5. halted' => paused' /\ l \notin Journaled \cup {"x_open", "x_final"}
  <2>1. halted => paused
    BY DEF LockInv, PauseHolds
  <2>2. QED
    BY <2>1, <1>4 DEF Journaled
<1>6. QED
  BY <1>1, <1>2, <1>3, <1>4, <1>5, QuietStep

-----------------------------------------------------------------------------
(* Every step keeps LockInv.                                                 *)

\* The places where save() is called, and where it leads.
Saves(from, to) ==
  \/ from = "x_open" /\ to = "x_active"
  \/ from = "x_save" /\ to = "x_eval"
  \/ from = "x_applying" /\ to = "x_promote"
  \/ from = "x_final" /\ to = "unlock"
  \/ from = "b_open" /\ to = "b_hashes"
  \/ from = "b_save" /\ to = "b_pause"
  \/ from = "b_final" /\ to = "unlock"
  \/ from = "u_open" /\ to = "u_remove"
  \/ from = "u_final" /\ to = "unlock"

\* What is saved may follow what the journal says.
LEMMA SavedHonest ==
  ASSUME ConstantsAssumption, LockInv, NEW p \in Procs, NEW from, NEW to,
         Saves(from, to), Save(p, from, to)
  PROVE  /\ Own(p)
         /\ event' \in [Ids -> Entry] /\ \A i \in Ids : WellFormed(event[i])'
         /\ event'[mem[p].id] = mem[p].entry
         /\ \A i \in Ids \ {mem[p].id} : event'[i] = event[i]
         /\ Honest'
<1> DEFINE id == mem[p].id
           e == mem[p].entry
<1>1. pc[p] = from /\ event' = [event EXCEPT ![id] = e] /\ UNCHANGED <<promoted, undone>>
  BY DEF Save, At, ghost
<1>2. Working(p) /\ Honest /\ TypeOK
  BY DEF LockInv, Honest
<1>3. Own(p)
  BY <1>1, <1>2 DEF Working, Saves, Recording, Undoing, Journaled
<1>4. id \in Ids /\ e \in Entry /\ WellFormed(e)
  <2>1. mem[p] \in Memory
    BY <1>2 DEF TypeOK
  <2>2. QED
    BY <2>1, <1>3 DEF Own, Memory
<1>5. ~event[id].applied /\ event[id].action = e.action
  BY <1>3 DEF Own
<1>6. id \in promoted => e.action = "experiment"
  BY <1>2, <1>5 DEF Honest, Accounted, Experiments
<1>7. /\ id \in promoted => e.status \in {"applying", "applied"}
      /\ e.action = "experiment" /\ e.applied => id \in promoted
  <2>1. CASE from \in {"x_open", "x_save", "x_applying", "x_final"}
    <3>1. Experimenting(p)
      BY <2>1, <1>1, <1>2 DEF Working, Journaled
    <3>2. QED
      BY <3>1, <2>1, <1>1 DEF Experimenting
  <2>2. CASE from \in {"b_open", "b_save", "b_final"}
    <3>1. Undoes(p)
      BY <2>2, <1>1, <1>2 DEF Working, Undoing
    <3>2. QED
      BY <3>1, <1>6 DEF Undoes
  <2>3. CASE from \in {"u_open", "u_final"}
    <3>1. e.action = "resume"
      BY <2>3, <1>1, <1>3 DEF Own
    <3>2. QED
      BY <3>1, <1>6
  <2>4. QED
    BY <2>1, <2>2, <2>3 DEF Saves
<1>8. \/ e.action # "rollback" \/ event[id].before = NoProfile
      \/ (/\ e.status \in {"running", "rolled_back"}
          /\ e.before = event[id].before /\ e.after = event[id].after)
  <2>1. CASE from \in {"x_open", "x_save", "x_applying", "x_final"}
    <3>1. Experimenting(p)
      BY <2>1, <1>1, <1>2 DEF Working, Journaled
    <3>2. QED
      BY <3>1 DEF Experimenting
  <2>2. CASE from \in {"b_open", "b_save", "b_final"}
    <3>1. Undoes(p)
      BY <2>2, <1>1, <1>2 DEF Working, Undoing
    <3>2. QED
      BY <3>1, <2>2, <1>1 DEF Undoes
  <2>3. CASE from \in {"u_open", "u_final"}
    BY <2>3, <1>1, <1>3 DEF Own
  <2>4. QED
    BY <2>1, <2>2, <2>3 DEF Saves
<1>9. Honest'
  BY <1>1, <1>2, <1>4, <1>5, <1>7, <1>8, HonestReplaced
<1>10. QED
  BY <1>1, <1>2, <1>3, <1>4, <1>9, RecordReplaced

LEMMA SaveKeepsLockInv ==
  ASSUME ConstantsAssumption, LockInv, NEW p \in Procs, NEW from, NEW to,
         Saves(from, to), Save(p, from, to)
  PROVE  LockInv'
<1> DEFINE id == mem[p].id
           e == mem[p].entry
<1>1. /\ Own(p) /\ event' \in [Ids -> Entry] /\ \A i \in Ids : WellFormed(event[i])'
      /\ event'[id] = e /\ \A i \in Ids \ {id} : event'[i] = event[i]
      /\ Honest'
  BY SavedHonest
<1>2. pc[p] = from /\ Goto(p, to) /\ ~At(p, "idle") /\ to \in Labels /\ from # "idle"
  BY DEF Save, At, Saves, Labels, Journaled
<1>3. UNCHANGED <<active, paused, lock, snap, mem, promoted, undone, halted, ghost, bounds>>
  BY DEF Save, ghost
<1>4. TypeOK /\ mem' \in [Procs -> Memory] /\ pc \in [Procs -> Labels] /\ mem'[p] = mem[p]
  BY <1>3 DEF LockInv, TypeOK
<1>5. Alone(p) /\ pc' \in [Procs -> Labels] /\ pc'[p] = to /\ lock'
  BY <1>2, <1>3, <1>4, WorksAlone, AtLabels DEF LockInv, Exclusive
<1>6. TypeOK'
  BY <1>1, <1>3, <1>4, <1>5, TypeFrame
<1>7. Working(p)
  BY DEF LockInv
<1>8. Working(p)'
  <2>1. CASE to = "unlock"
    BY <2>1, <1>5 DEF Working, Recording, Undoing, Journaled, At
  <2>2. CASE from \in {"x_open", "x_save", "x_applying"}
    <3>1. Experimenting(p) /\ ~e.applied /\ to \in Journaled
      BY <2>2, <1>2, <1>7 DEF Working, Journaled, Experimenting, Saves
    <3>2. Experimenting(p)'
      BY <3>1, <2>2, <1>1, <1>2, <1>3, <1>4, <1>5 DEF Experimenting, Saves, Own
    <3>3. Own(p)'
      BY <3>1, <1>1, <1>3, <1>4, <1>5 DEF Own, Journaled
    <3>4. QED
      BY <3>1, <3>2, <3>3, <1>5 DEF Working, Recording, Undoing, Journaled, At
  <2>3. CASE from \in {"b_open", "b_save"}
    <3>1. Undoes(p) /\ to \in {"b_hashes", "b_pause"}
      BY <2>3, <1>2, <1>7 DEF Working, Undoing, Saves
    <3>2. mem[p].source \in Ids \ {id} /\ ~e.applied
      BY <3>1, <2>3, <1>1, <1>2, InitialValues DEF Undoes, Own, Experiments
    <3>3. event'[mem[p].source] = event[mem[p].source]
      BY <3>2, <1>1
    <3>4. Undoes(p)'
      <4>1. CASE from = "b_open"
        <5>1. e = Opened("rollback") /\ to = "b_hashes"
          BY <4>1, <3>1, <1>2 DEF Undoes, Saves
        <5>2. e.status = "running" /\ e.before = NoProfile
          BY <5>1, InitialValues
        <5>3. QED
          BY <5>1, <5>2, <3>1, <3>2, <3>3, <1>1, <1>4, <1>5 DEF Undoes, Experiments
      <4>2. CASE from = "b_save"
        <5>1. to = "b_pause"
          BY <4>2 DEF Saves
        <5>2. QED
          BY <5>1, <4>2, <3>1, <3>2, <3>3, <1>1, <1>2, <1>4, <1>5 DEF Undoes, Experiments
      <4>3. QED
        BY <4>1, <4>2, <2>3
    <3>5. Own(p)'
      BY <3>1, <3>2, <1>1, <1>3, <1>4, <1>5 DEF Own
    <3>6. QED
      BY <3>1, <3>4, <3>5, <1>5 DEF Working, Recording, Undoing, Journaled, At
  <2>4. CASE from = "u_open"
    <3>1. to = "u_remove" /\ ~e.applied
      BY <2>4, <1>1, <1>2 DEF Saves, Own
    <3>2. Own(p)'
      BY <3>1, <2>4, <1>1, <1>2, <1>3, <1>4, <1>5 DEF Own
    <3>3. QED
      BY <3>1, <3>2, <1>5 DEF Working, Recording, Undoing, Journaled, At
  <2>5. QED
    BY <2>1, <2>2, <2>3, <2>4 DEF Saves
<1>9. halted' => paused' /\ to \notin Journaled \cup {"x_open", "x_final"}
  <2>1. halted => paused /\ from \notin Journaled \cup {"x_open", "x_final"}
    BY <1>2 DEF LockInv, PauseHolds
  <2>2. QED
    BY <2>1, <1>3 DEF Saves, Journaled
<1>10. QED
  BY <1>1, <1>2, <1>5, <1>6, <1>8, <1>9, SoloStep DEF Honest

\* An experiment goes on, with its record still open and nothing promoted yet.
LEMMA RunGoesOn ==
  ASSUME LockInv, NEW p \in Procs, pc[p] \in Journaled, NEW l, Goto(p, l),
         l \in (Journaled \ {"x_promote"}) \cup {"x_final"},
         NEW text \in Text, NEW e2 \in Entry,
         Becomes(p, mem[p].id, mem[p].source, text, e2),
         e2.action = "experiment", ~e2.applied,
         l \in {"x_before", "x_after", "x_save", "x_eval", "x_check", "x_applying"} => Planned(e2),
         l = "x_candidate" => text # NoProfile,
         l = "x_applying" => e2.status = "applying",
         active' \in Text, snap' \in [Ids -> Snapshots],
         UNCHANGED <<paused, lock, event, ghost, edits, tampers, crashes>>,
         faults' \in 0 .. MaxFaults
  PROVE  LockInv'
<1>1. /\ Own(p) /\ Experimenting(p) /\ ~At(p, "idle") /\ l \in Labels
      /\ pc \in [Procs -> Labels]
  <2>1. Working(p) /\ pc \in [Procs -> Labels]
    BY DEF LockInv, TypeOK
  <2>2. QED
    BY <2>1 DEF Working, Recording, Journaled, At, Labels
<1>2. Alone(p) /\ pc' \in [Procs -> Labels] /\ pc'[p] = l /\ lock'
  BY <1>1, WorksAlone, AtLabels DEF LockInv, Exclusive
<1>3. UNCHANGED <<promoted, undone, halted, paused, lock, edit>>
  BY DEF ghost
<1>4. TypeOK'
  BY <1>2, <1>3 DEF LockInv, TypeOK, Becomes, WellFormed
<1>5. Working(p)'
  <2>1. mem'[p].id = mem[p].id /\ mem'[p].profile = text /\ mem'[p].entry = e2
    BY DEF Becomes
  <2>2. Own(p)'
    BY <2>1, <1>1, <1>2, <1>3 DEF Own, Experimenting, WellFormed, Journaled
  <2>3. mem[p].id \notin promoted
    BY <1>1 DEF Experimenting, Journaled
  <2>4. Experimenting(p)'
    BY <2>1, <2>3, <1>2, <1>3 DEF Experimenting, Planned
  <2>5. QED
    BY <2>2, <2>4, <1>2 DEF Working, Recording, Undoing, Journaled, At
<1>6. ~halted'
  BY <1>3 DEF LockInv, PauseHolds
<1>7. QED
  BY <1>1, <1>2, <1>3, <1>4, <1>5, <1>6, QuietStep

\* What an experiment knows of its own record, wherever it is.
LEMMA RunKnows ==
  ASSUME LockInv, NEW p \in Procs, pc[p] \in Journaled
  PROVE  /\ Own(p) /\ Experimenting(p) /\ mem[p].id \in Ids /\ mem[p] \in Memory
         /\ mem[p].entry \in Entry /\ mem[p].profile \in Text
         /\ mem[p].entry.action = "experiment" /\ ~mem[p].entry.applied
         /\ ~halted /\ lock
<1>1. Working(p) /\ mem[p] \in Memory
  BY DEF LockInv, TypeOK
<1>2. Own(p) /\ Experimenting(p)
  BY <1>1 DEF Working, Recording
<1>3. ~halted /\ lock
  BY DEF LockInv, PauseHolds, Exclusive, At, Journaled
<1>4. QED
  BY <1>1, <1>2, <1>3 DEF Own, Experimenting, Memory, Journaled

\* An error ends an experiment that has its journal.
LEMMA FailKeepsLockInv ==
  ASSUME LockInv, NEW p \in Procs, pc[p] \in Journaled, Fail(p),
         UNCHANGED <<disk, ghost, edits, tampers, crashes>>, faults' \in 0 .. MaxFaults
  PROVE  LockInv'
<1> DEFINE e == mem[p].entry
           e2 == [action |-> e.action, status |-> "error", before |-> e.before,
                  after |-> e.after, applied |-> e.applied]
<1>1. /\ mem[p] \in Memory /\ e \in Entry /\ mem[p].profile \in Text
      /\ e.action = "experiment" /\ ~e.applied
  BY RunKnows
<1>2. mem \in [Procs -> Memory] /\ active \in Text /\ snap \in [Ids -> Snapshots]
  BY DEF LockInv, TypeOK
<1>3. Becomes(p, mem[p].id, mem[p].source, mem[p].profile, e2)
  BY <1>2, EntrySteps DEF Fail
<1>4. e2 \in Entry
  BY <1>1 DEF Entry
<1>5. e2.action = "experiment" /\ ~e2.applied
  BY <1>1
<1>6. /\ active' \in Text /\ snap' \in [Ids -> Snapshots]
      /\ UNCHANGED <<paused, lock, event, ghost, edits, tampers, crashes>>
  BY <1>2 DEF disk
<1> HIDE DEF e2
<1>7. QED
  BY <1>1, <1>3, <1>4, <1>5, <1>6, RunGoesOn DEF Fail

LEMMA RunPausedKeepsLockInv ==
  ASSUME ConstantsAssumption, LockInv, NEW p \in Procs, RunPaused(p)
  PROVE  LockInv'
<1>1. ~At(p, "idle") /\ UNCHANGED <<active, paused, lock, snap, ghost, bounds>>
  BY DEF RunPaused, At
<1>2. CASE paused
  <2>1. mem' \in [Procs -> Memory] /\ lock' /\ lock' \in BOOLEAN /\ Goto(p, "unlock")
    BY <1>1, <1>2 DEF RunPaused, Refuse, LockInv, TypeOK, Exclusive
  <2>2. /\ crashes' \in 0 .. MaxCrashes /\ faults' \in 0 .. MaxFaults
        /\ UNCHANGED <<active, paused, event, snap, ghost, edits, tampers>>
    BY <1>1, <1>2 DEF RunPaused, Refuse, LockInv, TypeOK, bounds
  <2>3. QED
    BY <1>1, <2>1, <2>2, LeavingStep
<1>3. CASE ~paused
  <2>1. MakeDir(p, "experiment", "x_open")
    BY <1>3 DEF RunPaused
  <2>2. QED
    BY <1>1, <1>3, <2>1, OpenRecord
<1>4. QED
  BY <1>2, <1>3

LEMMA ResumeReadKeepsLockInv ==
  ASSUME ConstantsAssumption, LockInv, NEW p \in Procs, ResumeRead(p)
  PROVE  LockInv'
<1>1. ~At(p, "idle") /\ UNCHANGED <<active, paused, lock, snap, ghost, bounds>>
  BY DEF ResumeRead, At
<1>2. CASE ~paused
  <2>1. mem' \in [Procs -> Memory] /\ lock' /\ lock' \in BOOLEAN /\ Goto(p, "unlock")
    BY <1>1, <1>2 DEF ResumeRead, Refuse, LockInv, TypeOK, Exclusive
  <2>2. /\ crashes' \in 0 .. MaxCrashes /\ faults' \in 0 .. MaxFaults
        /\ UNCHANGED <<active, paused, event, snap, ghost, edits, tampers>>
    BY <1>1, <1>2 DEF ResumeRead, Refuse, LockInv, TypeOK, bounds
  <2>3. QED
    BY <1>1, <2>1, <2>2, LeavingStep
<1>3. CASE paused
  <2>1. MakeDir(p, "resume", "u_open")
    BY <1>3 DEF ResumeRead
  <2>2. QED
    BY <1>1, <2>1, OpenRecord
<1>4. QED
  BY <1>2, <1>3

LEMMA RunActiveKeepsLockInv ==
  ASSUME ConstantsAssumption, LockInv, NEW p \in Procs, RunActive(p)
  PROVE  LockInv'
<1> DEFINE e == mem[p].entry
<1>1. pc[p] = "x_active" /\ pc[p] \in Journaled /\ UNCHANGED <<disk, ghost, bounds>>
  BY DEF RunActive, At, Journaled
<1>2. /\ mem[p] \in Memory /\ e \in Entry /\ mem[p].profile \in Text
      /\ e.action = "experiment" /\ ~e.applied
  BY <1>1, RunKnows
<1>3. /\ mem \in [Procs -> Memory] /\ active \in Text /\ snap \in [Ids -> Snapshots]
      /\ faults \in 0 .. MaxFaults
  BY DEF LockInv, TypeOK
<1>4. /\ active' \in Text /\ snap' \in [Ids -> Snapshots] /\ faults' \in 0 .. MaxFaults
      /\ UNCHANGED <<disk, paused, lock, event, ghost, edits, tampers, crashes>>
  BY <1>1, <1>3 DEF disk, bounds
<1>5. CASE active = NoProfile
  <2>1. Goto(p, "x_init") /\ UNCHANGED mem
    BY <1>5 DEF RunActive
  <2>2. Becomes(p, mem[p].id, mem[p].source, mem[p].profile, e)
    BY <2>1, <1>3 DEF Becomes
  <2>3. QED
    BY <1>1, <1>2, <1>4, <2>1, <2>2, RunGoesOn DEF Journaled
<1>6. CASE active = Broken
  <2>1. Fail(p)
    BY <1>6 DEF RunActive, ConstantsAssumption
  <2>2. QED
    BY <1>1, <1>4, <2>1, FailKeepsLockInv
<1>7. CASE active # NoProfile /\ active # Broken
  <2>1. Goto(p, "x_candidate") /\ mem' = [mem EXCEPT ![p].profile = active]
    BY <1>7 DEF RunActive
  <2>2. Becomes(p, mem[p].id, mem[p].source, active, e)
    BY <2>1, <1>3, MemorySteps
  <2>3. QED
    BY <1>1, <1>2, <1>3, <1>4, <1>7, <2>1, <2>2, RunGoesOn DEF Journaled
<1>8. QED
  BY <1>5, <1>6, <1>7

\* The same for the steps that only touch the files or the label.
LEMMA RunFilesKeepLockInv ==
  ASSUME ConstantsAssumption, LockInv, NEW p \in Procs,
         RunInit(p) \/ RunSnapshot(p) \/ RunEvaluate(p)
  PROVE  LockInv'
<1> DEFINE e == mem[p].entry
<1>1. pc[p] \in Journaled
  BY DEF RunInit, RunSnapshot, RunEvaluate, At, Journaled
<1>2. /\ mem[p] \in Memory /\ e \in Entry /\ mem[p].profile \in Text /\ mem[p].id \in Ids
      /\ e.action = "experiment" /\ ~e.applied /\ Experimenting(p)
  BY <1>1, RunKnows
<1>3. /\ mem \in [Procs -> Memory] /\ active \in Text /\ snap \in [Ids -> Snapshots]
      /\ faults \in 0 .. MaxFaults
  BY DEF LockInv, TypeOK
<1>4. /\ UNCHANGED <<paused, lock, event, ghost, edits, tampers, crashes>>
      /\ faults' \in 0 .. MaxFaults
  BY <1>3 DEF RunInit, RunSnapshot, RunEvaluate, disk, bounds
<1>5. CASE RunInit(p)
  <2>1. /\ active' = Baseline /\ mem' = [mem EXCEPT ![p].profile = Baseline]
        /\ Goto(p, "x_candidate") /\ snap' \in [Ids -> Snapshots]
    BY <1>3, <1>5 DEF RunInit
  <2>2. Baseline \in Text /\ Baseline # NoProfile
    BY DEF ConstantsAssumption, Text
  <2>3. Becomes(p, mem[p].id, mem[p].source, Baseline, e)
    BY <2>1, <2>2, <1>3, MemorySteps
  <2>4. QED
    BY <1>1, <1>2, <1>4, <2>1, <2>2, <2>3, RunGoesOn DEF Journaled
<1>6. CASE RunSnapshot(p)
  <2>1. UNCHANGED <<active, mem>> /\ active' \in Text
    BY <1>3, <1>6 DEF RunSnapshot
  <2>2. Becomes(p, mem[p].id, mem[p].source, mem[p].profile, e)
    BY <2>1, <1>3 DEF Becomes
  <2>3. e.before \in Text /\ e.after \in Text
    BY <1>2 DEF Entry
  <2>4. snap' \in [Ids -> Snapshots]
    BY <2>3, <1>2, <1>3, <1>6 DEF RunSnapshot, Snapshots
  <2>5. PICK l \in {"x_after", "x_save"} : Goto(p, l)
    BY <1>6 DEF RunSnapshot
  <2>6. Planned(e)
    BY <1>2, <1>6 DEF RunSnapshot, At, Experimenting
  <2>7. l \in Journaled \ {"x_promote"} /\ l # "x_candidate" /\ l # "x_applying"
    BY DEF Journaled
  <2>8. QED
    BY <1>1, <1>2, <1>4, <2>1, <2>2, <2>4, <2>5, <2>6, <2>7, RunGoesOn
<1>7. CASE RunEvaluate(p)
  <2>1. /\ UNCHANGED <<active, mem, snap>> /\ active' \in Text /\ snap' \in [Ids -> Snapshots]
        /\ Goto(p, "x_check")
    BY <1>3, <1>7 DEF RunEvaluate, disk
  <2>2. Becomes(p, mem[p].id, mem[p].source, mem[p].profile, e)
    BY <2>1, <1>3 DEF Becomes
  <2>3. Planned(e)
    BY <1>2, <1>7 DEF RunEvaluate, At, Experimenting
  <2>4. QED
    BY <1>1, <1>2, <1>4, <2>1, <2>2, <2>3, RunGoesOn DEF Journaled
<1>8. QED
  BY <1>5, <1>6, <1>7

LEMMA RunCandidateKeepsLockInv ==
  ASSUME ConstantsAssumption, LockInv, NEW p \in Procs, RunCandidate(p)
  PROVE  LockInv'
<1> DEFINE e == mem[p].entry
           before == mem[p].profile
<1>1. pc[p] = "x_candidate" /\ pc[p] \in Journaled /\ UNCHANGED <<disk, ghost, bounds>>
  BY DEF RunCandidate, At, Journaled
<1>2. /\ mem[p] \in Memory /\ e \in Entry /\ before \in Text
      /\ e.action = "experiment" /\ ~e.applied /\ Experimenting(p)
  BY <1>1, RunKnows
<1>3. /\ mem \in [Procs -> Memory] /\ active \in Text /\ snap \in [Ids -> Snapshots]
      /\ faults \in 0 .. MaxFaults
  BY DEF LockInv, TypeOK
<1>4. /\ active' \in Text /\ snap' \in [Ids -> Snapshots] /\ faults' \in 0 .. MaxFaults
      /\ UNCHANGED <<paused, lock, event, ghost, edits, tampers, crashes>>
  BY <1>1, <1>3 DEF disk, bounds
<1>5. before # NoProfile
  BY <1>1, <1>2 DEF Experimenting
<1>6. PICK after \in Profiles \ {Broken} :
        IF after = before
        THEN /\ mem' = [mem EXCEPT ![p].entry =
                          [[e EXCEPT !.before = before, !.after = after] EXCEPT !.status = "unchanged"]]
             /\ Goto(p, "x_final")
        ELSE /\ mem' = [mem EXCEPT ![p].entry = [e EXCEPT !.before = before, !.after = after]]
             /\ Goto(p, "x_before")
  BY DEF RunCandidate
<1>7. after \in Text /\ after # NoProfile
  BY DEF ConstantsAssumption, Text
<1>8. CASE after = before
  <2> DEFINE e2 == [[e EXCEPT !.before = before, !.after = after] EXCEPT !.status = "unchanged"]
  <2>1. e2 \in Entry /\ e2.action = "experiment" /\ ~e2.applied
    BY <1>2, <1>7 DEF Entry
  <2>2. mem' = [mem EXCEPT ![p].entry = e2] /\ Goto(p, "x_final")
    BY <1>6, <1>8
  <2> HIDE DEF e2
  <2>3. Becomes(p, mem[p].id, mem[p].source, before, e2)
    BY <2>1, <2>2, <1>3, MemorySteps
  <2>4. QED
    BY <1>1, <1>2, <1>4, <2>1, <2>2, <2>3, RunGoesOn DEF Journaled
<1>9. CASE after # before
  <2> DEFINE e2 == [e EXCEPT !.before = before, !.after = after]
  <2>1. e2 \in Entry /\ e2.action = "experiment" /\ ~e2.applied
    BY <1>2, <1>7 DEF Entry
  <2>2. mem' = [mem EXCEPT ![p].entry = e2] /\ Goto(p, "x_before")
    BY <1>6, <1>9
  <2>3. Planned(e2)
    BY <1>2, <1>5, <1>7 DEF Planned, Entry
  <2> HIDE DEF e2
  <2>4. Becomes(p, mem[p].id, mem[p].source, before, e2)
    BY <2>1, <2>2, <1>3, MemorySteps
  <2>5. QED
    BY <1>1, <1>2, <1>4, <2>1, <2>2, <2>3, <2>4, RunGoesOn DEF Journaled
<1>10. QED
  BY <1>8, <1>9

LEMMA RunDecideKeepsLockInv ==
  ASSUME ConstantsAssumption, LockInv, NEW p \in Procs, RunDecide(p)
  PROVE  LockInv'
<1> DEFINE e == mem[p].entry
           With(status) == [action |-> e.action, status |-> status, before |-> e.before,
                            after |-> e.after, applied |-> e.applied]
<1>1. pc[p] = "x_check" /\ pc[p] \in Journaled /\ UNCHANGED <<disk, ghost, bounds>>
  BY DEF RunDecide, At, Journaled
<1>2. /\ mem[p] \in Memory /\ e \in Entry /\ mem[p].profile \in Text
      /\ e.action = "experiment" /\ ~e.applied /\ Experimenting(p)
  BY <1>1, RunKnows
<1>3. /\ mem \in [Procs -> Memory] /\ active \in Text /\ snap \in [Ids -> Snapshots]
      /\ faults \in 0 .. MaxFaults
  BY DEF LockInv, TypeOK
<1>4. /\ active' \in Text /\ snap' \in [Ids -> Snapshots] /\ faults' \in 0 .. MaxFaults
      /\ UNCHANGED <<disk, paused, lock, event, ghost, edits, tampers, crashes>>
  BY <1>1, <1>3 DEF disk, bounds
<1>5. Planned(e)
  BY <1>1, <1>2 DEF Experimenting
<1>6. CASE Fail(p)
  BY <1>1, <1>4, <1>6, FailKeepsLockInv
<1>7. ASSUME NEW status \in {"rejected", "recommended", "applying"},
             mem' = [mem EXCEPT ![p].entry.status = status],
             Goto(p, IF status = "applying" THEN "x_applying" ELSE "x_final")
      PROVE  LockInv'
  <2> DEFINE e2 == With(status)
  <2>1. e2 \in Entry /\ e2.action = "experiment" /\ ~e2.applied /\ e2.status = status
    BY <1>2 DEF Entry
  <2>2. Planned(e2)
    BY <1>5 DEF Planned
  <2>3. Becomes(p, mem[p].id, mem[p].source, mem[p].profile, e2)
    BY <1>3, <1>7, EntrySteps
  <2> HIDE DEF e2
  <2>4. CASE status = "applying"
    <3>1. Goto(p, "x_applying")
      BY <1>7, <2>4
    <3>2. QED
      BY <1>1, <1>2, <1>4, <2>1, <2>2, <2>3, <2>4, <3>1, RunGoesOn DEF Journaled
  <2>5. CASE status # "applying"
    <3>1. Goto(p, "x_final")
      BY <1>7, <2>5
    <3>2. QED
      BY <1>1, <1>2, <1>4, <2>1, <2>2, <2>3, <3>1, RunGoesOn DEF Journaled
  <2>6. QED
    BY <2>4, <2>5
<1>8. CASE ~Fail(p)
  <2>1. \E status \in {"rejected", "recommended", "applying"} :
          /\ mem' = [mem EXCEPT ![p].entry.status = status]
          /\ Goto(p, IF status = "applying" THEN "x_applying" ELSE "x_final")
    BY <1>8 DEF RunDecide
  <2>2. QED
    BY <2>1, <1>7
<1>9. QED
  BY <1>6, <1>8

\* The promotion: the journal said "applying" with the same two profiles before.
LEMMA RunPromoteKeepsLockInv ==
  ASSUME ConstantsAssumption, LockInv, NEW p \in Procs, RunPromote(p)
  PROVE  LockInv'
<1> DEFINE e == mem[p].entry
           id == mem[p].id
           e2 == [action |-> e.action, status |-> "applied", before |-> e.before,
                  after |-> e.after, applied |-> TRUE]
<1>1. /\ pc[p] = "x_promote" /\ pc[p] \in Journaled /\ Goto(p, "x_final") /\ ~At(p, "idle")
      /\ promoted' = promoted \cup {id} /\ active' = e.after
      /\ UNCHANGED <<paused, lock, event, snap, edit, undone, halted, bounds>>
  BY DEF RunPromote, At, Journaled
<1>2. /\ mem[p] \in Memory /\ e \in Entry /\ mem[p].profile \in Text /\ id \in Ids
      /\ e.action = "experiment" /\ ~e.applied /\ Experimenting(p) /\ Own(p) /\ ~halted /\ lock
  BY <1>1, RunKnows
<1>3. /\ mem \in [Procs -> Memory] /\ pc \in [Procs -> Labels] /\ TypeOK /\ Honest
  BY DEF LockInv, TypeOK, Honest
<1>4. Planned(e) /\ event[id] = e /\ e.status = "applying"
  BY <1>1, <1>2 DEF Experimenting
<1>5. e2 \in Entry /\ e2.action = "experiment" /\ e2.applied /\ e2.status = "applied"
      /\ WellFormed(e2)
  BY <1>2, <1>4 DEF Entry, Planned, WellFormed
<1>6. Becomes(p, id, mem[p].source, mem[p].profile, e2)
  BY <1>3, EntrySteps DEF RunPromote
<1> HIDE DEF e2
<1>7. Alone(p) /\ pc' \in [Procs -> Labels] /\ pc'[p] = "x_final" /\ lock' /\ "x_final" \in Labels
  <2>1. "x_final" \in Labels
    BY DEF Labels
  <2>2. QED
    BY <2>1, <1>1, <1>2, <1>3, WorksAlone, AtLabels DEF LockInv
<1>8. TypeOK'
  <2>1. e.after \in Text
    BY <1>2 DEF Entry
  <2>2. QED
    BY <2>1, <1>1, <1>2, <1>6, <1>7 DEF LockInv, TypeOK, Becomes, bounds, WellFormed
<1>9. Working(p)'
  <2>1. mem'[p].id = id /\ mem'[p].entry = e2 /\ id \in promoted'
    BY <1>1, <1>6 DEF Becomes
  <2>2. Own(p)'
    BY <2>1, <1>1, <1>2, <1>5, <1>7 DEF Own, WellFormed
  <2>3. Experimenting(p)'
    BY <2>1, <1>5, <1>7 DEF Experimenting
  <2>4. QED
    BY <2>2, <2>3, <1>7 DEF Working, Recording, Undoing, Journaled, At
<1>10. Accounted' /\ JournalHonest'
  <2>1. Accounted'
    BY <1>1, <1>2, <1>3, <1>4 DEF Honest, Accounted, Experiments
  <2>2. JournalHonest'
    BY <1>1, <1>3, <1>4 DEF Honest, JournalHonest, Experiments, RecordsRollbackOf
  <2>3. QED
    BY <2>1, <2>2
<1>11. ~halted'
  BY <1>1, <1>2
<1>12. QED
  BY <1>1, <1>7, <1>8, <1>9, <1>10, <1>11, SoloStep

\* What a rollback knows of its own record and of the experiment it undoes.
LEMMA RollbackKnows ==
  ASSUME LockInv, NEW p \in Procs, pc[p] \in Undoing
  PROVE  /\ Own(p) /\ Undoes(p) /\ mem[p].id \in Ids /\ mem[p] \in Memory /\ mem[p].entry \in Entry
         /\ mem[p].profile \in Text /\ mem[p].source \in Ids \ {mem[p].id}
         /\ event[mem[p].source] \in Entry
         /\ Planned(event[mem[p].source]) /\ event[mem[p].source].action = "experiment"
         /\ lock /\ Alone(p) /\ ~At(p, "idle")
<1>1. Working(p) /\ mem[p] \in Memory /\ \A i \in Ids : event[i] \in Entry /\ WellFormed(event[i])
  BY DEF LockInv, TypeOK
<1>2. Own(p) /\ Undoes(p)
  BY <1>1 DEF Working, Recording
<1>3. ~At(p, "idle")
  BY DEF At, Undoing
<1>4. lock /\ Alone(p)
  BY <1>3, WorksAlone DEF LockInv, Exclusive
<1>5. /\ mem[p].source \in Ids /\ event[mem[p].source].applied
      /\ event[mem[p].source].action = "experiment" /\ ~event[mem[p].id].applied
      /\ mem[p].id \in Ids
  BY <1>2 DEF Undoes, Own, Experiments
<1>6. QED
  BY <1>1, <1>2, <1>3, <1>4, <1>5 DEF Memory, WellFormed, Planned

LEMMA RollbackReadKeepsLockInv ==
  ASSUME ConstantsAssumption, LockInv, NEW p \in Procs, RollbackRead(p)
  PROVE  LockInv'
<1> DEFINE source == mem[p].source
           text == snap[source].before
<1>1. pc[p] = "b_read" /\ ~At(p, "idle") /\ UNCHANGED <<active, paused, lock, snap, ghost, bounds>>
  BY DEF RollbackRead, At
<1>2. TypeOK /\ Honest /\ mem \in [Procs -> Memory] /\ pc \in [Procs -> Labels]
  BY DEF LockInv, Honest, TypeOK
<1>3. CASE ~Restorable(source)
  <2>1. mem' \in [Procs -> Memory] /\ lock' /\ lock' \in BOOLEAN /\ Goto(p, "unlock")
    BY <1>1, <1>3 DEF RollbackRead, Refuse, LockInv, TypeOK, Exclusive
  <2>2. /\ crashes' \in 0 .. MaxCrashes /\ faults' \in 0 .. MaxFaults
        /\ UNCHANGED <<active, paused, event, snap, ghost, edits, tampers>>
    BY <1>1, <1>3 DEF RollbackRead, Refuse, LockInv, TypeOK, bounds
  <2>3. QED
    BY <1>1, <2>1, <2>2, LeavingStep
<1>4. CASE Restorable(source)
  <2>1. PICK id \in Ids :
          /\ Fresh(id)
          /\ event' = [event EXCEPT ![id] = Directory("rollback")]
          /\ mem' = [mem EXCEPT ![p] =
               [@ EXCEPT !.id = id, !.entry = Opened("rollback"), !.profile = text]]
          /\ Goto(p, "b_open")
    BY <1>4 DEF RollbackRead
  <2>2. /\ Opened("rollback") \in Entry /\ WellFormed(Opened("rollback"))
        /\ Opened("rollback").action = "rollback" /\ ~Opened("rollback").applied
        /\ Directory("rollback") \in Entry /\ WellFormed(Directory("rollback"))
    BY InitialValues
  <2>3. UNCHANGED <<promoted, undone, halted, paused, lock>>
    BY <1>1 DEF ghost
  <2>4. /\ event[id].action = "none" /\ id \notin promoted /\ id \notin undone
        /\ event'[id].action = "rollback" /\ ~event'[id].applied
        /\ event'[id].before = NoProfile /\ Honest'
    BY <2>1, <2>3, <1>2, FreshRecord
  <2>5. /\ source \in Ids /\ event[source].applied /\ event[source].action = "experiment"
        /\ text = event[source].before /\ source # id
    <3>1. source \in Ids
      BY <1>1 DEF LockInv, Working, At
    <3>2. QED
      BY <3>1, <2>4, <1>4 DEF Restorable
  <2>6. text \in Text /\ mem[p] \in Memory
    BY <2>5, <1>2 DEF TypeOK, Snapshots
  <2> DEFINE r == [mem[p] EXCEPT !.id = id, !.entry = Opened("rollback"), !.profile = text]
  <2>7. /\ r \in Memory /\ r.id = id /\ r.source = source /\ r.profile = text
        /\ r.entry = Opened("rollback")
    BY <2>2, <2>6 DEF Memory
  <2>8. Becomes(p, id, source, text, Opened("rollback"))
    <3>1. mem' = [mem EXCEPT ![p] = r]
      BY <2>1, <1>2
    <3> HIDE DEF r
    <3>2. Becomes(p, r.id, r.source, r.profile, r.entry)
      BY <3>1, <2>7, <1>2, MemorySteps
    <3>3. QED
      BY <3>2, <2>7
  <2>9. Alone(p) /\ pc' \in [Procs -> Labels] /\ pc'[p] = "b_open" /\ lock' /\ "b_open" \in Labels
    <3>1. "b_open" \in Labels
      BY DEF Labels
    <3>2. QED
      BY <3>1, <1>1, <1>2, <2>1, <2>3, WorksAlone, AtLabels DEF LockInv, Exclusive
  <2>10. /\ event' \in [Ids -> Entry] /\ (\A i \in Ids : WellFormed(event[i])')
         /\ event'[source] = event[source]
    BY <2>1, <2>2, <2>5, <1>2, RecordReplaced
  <2>11. TypeOK'
    BY <2>8, <2>9, <2>10, <1>1, <1>2, TypeFrame DEF Becomes
  <2>12. Working(p)'
    <3>1. Own(p)'
      BY <2>2, <2>3, <2>4, <2>8, <2>9 DEF Own, Becomes, WellFormed
    <3>2. Undoes(p)'
      BY <2>2, <2>4, <2>5, <2>8, <2>9, <2>10 DEF Undoes, Becomes, Experiments
    <3>3. QED
      BY <3>1, <3>2, <2>9 DEF Working, Recording, Undoing, Journaled, At
  <2>13. halted' => paused' /\ "b_open" \notin Journaled \cup {"x_open", "x_final"}
    <3>1. halted => paused
      BY DEF LockInv, PauseHolds
    <3>2. QED
      BY <3>1, <2>3 DEF Journaled
  <2>14. QED
    BY <2>1, <2>4, <2>9, <2>11, <2>12, <2>13, SoloStep DEF Honest
<1>5. QED
  BY <1>3, <1>4

\* A rollback goes on, without saving.
LEMMA RollbackGoesOn ==
  ASSUME LockInv, NEW p \in Procs, pc[p] \in Undoing, NEW l \in Undoing, Goto(p, l),
         NEW e2 \in Entry, Becomes(p, mem[p].id, mem[p].source, mem[p].profile, e2),
         WellFormed(e2), Undoes(p)', e2.action = mem[p].entry.action,
         active' \in Text, paused' \in BOOLEAN, halted' \in BOOLEAN, halted' => paused',
         undone' = undone \/ (undone' = undone \cup {mem[p].source} /\ l = "b_final"
            /\ RecordsRollbackOf(mem[p].id, mem[p].source)),
         UNCHANGED <<lock, event, snap, edit, promoted, bounds>>
  PROVE  LockInv'
<1> DEFINE id == mem[p].id
           source == mem[p].source
<1>1. /\ Own(p) /\ id \in Ids /\ source \in Ids \ {id} /\ lock /\ Alone(p)
      /\ source \in Experiments /\ event[source].applied
  BY RollbackKnows DEF Undoes
<1>2. /\ pc \in [Procs -> Labels] /\ l \in Labels /\ undone \subseteq Ids
      /\ Accounted /\ JournalHonest /\ TypeOK
  BY DEF LockInv, TypeOK, Undoing, Labels
<1>3. pc' \in [Procs -> Labels] /\ pc'[p] = l /\ lock'
  BY <1>1, <1>2, AtLabels
<1>4. TypeOK'
  BY <1>1, <1>2, <1>3 DEF TypeOK, Becomes, bounds, WellFormed
<1>5. Working(p)'
  <2>1. mem'[p].id = id /\ mem'[p].entry = e2 /\ id \notin undone'
    BY <1>1 DEF Becomes, Own
  <2>2. Own(p)'
    BY <2>1, <1>1, <1>3 DEF Own, WellFormed, Undoing
  <2>3. QED
    BY <2>2, <1>3 DEF Working, Recording, Undoing, Journaled, At
<1>6. Accounted'
  BY <1>1, <1>2 DEF Accounted, Experiments
<1>7. JournalHonest'
  <2>1. ASSUME NEW s \in undone'
        PROVE  \E r \in Ids : RecordsRollbackOf(r, s)
    BY <1>1, <1>2 DEF JournalHonest
  <2>2. QED
    BY <2>1, <1>2 DEF JournalHonest, Experiments, RecordsRollbackOf
<1>8. halted' => paused' /\ l \notin Journaled \cup {"x_open", "x_final"}
  BY DEF Undoing, Journaled
<1>9. QED
  BY <1>1, <1>2, <1>3, <1>4, <1>5, <1>6, <1>7, <1>8, SoloStep

LEMMA RollbackHashesKeepsLockInv ==
  ASSUME ConstantsAssumption, LockInv, NEW p \in Procs, RollbackHashes(p)
  PROVE  LockInv'
<1> DEFINE e == mem[p].entry
           source == mem[p].source
           e2 == [action |-> e.action, status |-> e.status, before |-> event[source].after,
                  after |-> mem[p].profile, applied |-> e.applied]
<1>1. /\ pc[p] = "b_hashes" /\ pc[p] \in Undoing /\ Goto(p, "b_save") /\ "b_save" \in Undoing
      /\ UNCHANGED <<disk, ghost, bounds>>
  BY DEF RollbackHashes, At, Undoing
<1>2. /\ Own(p) /\ Undoes(p) /\ mem[p].id \in Ids /\ e \in Entry /\ mem[p].profile \in Text
      /\ source \in Ids /\ event[source] \in Entry
  BY <1>1, RollbackKnows
<1>3. e = Opened("rollback") /\ e.action = "rollback" /\ e.status = "running" /\ ~e.applied
  BY <1>1, <1>2, InitialValues DEF Undoes
<1>4. /\ mem \in [Procs -> Memory] /\ active \in Text /\ paused \in BOOLEAN
      /\ halted \in BOOLEAN /\ pc \in [Procs -> Labels]
  BY DEF LockInv, TypeOK
<1>5. event[source].after \in Text
  BY <1>2 DEF Entry
<1>6. e2 \in Entry
  BY <1>2, <1>5 DEF Entry
<1>7. /\ e2.action = "rollback" /\ e2.status = "running" /\ ~e2.applied
      /\ e2.before = event[source].after /\ e2.after = mem[p].profile /\ WellFormed(e2)
  BY <1>3 DEF WellFormed
<1>8. Becomes(p, mem[p].id, source, mem[p].profile, e2)
  BY <1>2, <1>4, <1>5, EntrySteps DEF RollbackHashes
<1> HIDE DEF e2
<1>9. UNCHANGED <<active, paused, halted, undone, lock, event, snap, edit, promoted, bounds>>
  BY <1>1 DEF disk, ghost
<1>10. Undoes(p)'
  <2>1. pc'[p] = "b_save"
    BY <1>1, <1>4 DEF Goto
  <2>2. QED
    BY <2>1, <1>1, <1>2, <1>7, <1>8, <1>9 DEF Undoes, Becomes, Experiments
<1>11. halted' => paused'
  BY <1>9 DEF LockInv, PauseHolds
<1>12. e2.action = e.action
  BY <1>3, <1>7
<1>13. active' \in Text /\ paused' \in BOOLEAN /\ halted' \in BOOLEAN /\ undone' = undone
  BY <1>4, <1>9
<1>14. QED
  BY <1>1, <1>6, <1>7, <1>8, <1>9, <1>10, <1>11, <1>12, <1>13, RollbackGoesOn

LEMMA RollbackPauseKeepsLockInv ==
  ASSUME ConstantsAssumption, LockInv, NEW p \in Procs, RollbackPause(p)
  PROVE  LockInv'
<1> DEFINE e == mem[p].entry
<1>1. /\ pc[p] = "b_pause" /\ pc[p] \in Undoing /\ Goto(p, "b_write") /\ "b_write" \in Undoing
      /\ paused' = TRUE /\ UNCHANGED <<active, lock, event, snap, mem, ghost, bounds>>
  BY DEF RollbackPause, At, Undoing
<1>2. Own(p) /\ Undoes(p) /\ e \in Entry /\ WellFormed(e)
  BY <1>1, RollbackKnows DEF Own
<1>3. /\ mem \in [Procs -> Memory] /\ active \in Text
      /\ halted \in BOOLEAN /\ pc \in [Procs -> Labels]
  BY DEF LockInv, TypeOK
<1>4. Becomes(p, mem[p].id, mem[p].source, mem[p].profile, e)
  BY <1>1, <1>3 DEF Becomes
<1>5. UNCHANGED <<active, halted, undone, lock, event, snap, edit, promoted, bounds>>
  BY <1>1 DEF ghost
<1>6. Undoes(p)'
  <2>1. pc'[p] = "b_write" /\ mem'[p] = mem[p]
    BY <1>1, <1>3 DEF Goto
  <2>2. QED
    BY <2>1, <1>1, <1>2, <1>5 DEF Undoes, Experiments
<1>7. active' \in Text /\ paused' \in BOOLEAN /\ halted' \in BOOLEAN /\ undone' = undone /\ paused'
  BY <1>1, <1>3, <1>5
<1>8. QED
  BY <1>1, <1>2, <1>4, <1>5, <1>6, <1>7, RollbackGoesOn

\* The write: the record that stays in the journal names both profiles.
LEMMA RollbackWriteKeepsLockInv ==
  ASSUME ConstantsAssumption, LockInv, NEW p \in Procs, RollbackWrite(p)
  PROVE  LockInv'
<1> DEFINE e == mem[p].entry
           source == mem[p].source
           e2 == [action |-> e.action, status |-> "rolled_back", before |-> e.before,
                  after |-> e.after, applied |-> TRUE]
<1>1. /\ pc[p] = "b_write" /\ pc[p] \in Undoing /\ Goto(p, "b_final") /\ "b_final" \in Undoing
      /\ active' = mem[p].profile /\ undone' = undone \cup {source} /\ halted' = TRUE
      /\ UNCHANGED <<paused, lock, event, snap, edit, promoted, bounds>>
  BY DEF RollbackWrite, At, Undoing
<1>2. /\ Own(p) /\ Undoes(p) /\ mem[p].id \in Ids /\ e \in Entry /\ mem[p].profile \in Text
      /\ source \in Ids /\ Planned(event[source])
  BY <1>1, RollbackKnows
<1>3. mem \in [Procs -> Memory] /\ pc \in [Procs -> Labels]
  BY DEF LockInv, TypeOK
<1>4. /\ paused /\ e.action = "rollback" /\ event[mem[p].id].action = "rollback"
      /\ e.before = event[source].after /\ e.after = event[source].before
      /\ RecordsRollbackOf(mem[p].id, source)
  BY <1>1, <1>2 DEF Undoes, Own, RecordsRollbackOf
<1>5. e2 \in Entry
  BY <1>2 DEF Entry
<1>6. /\ e2.action = "rollback" /\ e2.status = "rolled_back" /\ e2.applied
      /\ e2.before = event[source].after /\ e2.after = event[source].before /\ WellFormed(e2)
  BY <1>2, <1>4 DEF WellFormed, Planned
<1>7. Becomes(p, mem[p].id, source, mem[p].profile, e2)
  BY <1>3, EntrySteps DEF RollbackWrite
<1> HIDE DEF e2
<1>8. Undoes(p)'
  <2>1. pc'[p] = "b_final"
    BY <1>1, <1>3 DEF Goto
  <2>2. QED
    BY <2>1, <1>1, <1>2, <1>6, <1>7 DEF Undoes, Becomes, Experiments
<1>9. active' \in Text /\ paused' \in BOOLEAN /\ halted' \in BOOLEAN /\ paused'
  BY <1>1, <1>2, <1>4
<1>10. e2.action = e.action
  BY <1>4, <1>6
<1>11. QED
  BY <1>1, <1>4, <1>5, <1>6, <1>7, <1>8, <1>9, <1>10, RollbackGoesOn

LEMMA ResumeRemoveKeepsLockInv ==
  ASSUME ConstantsAssumption, LockInv, NEW p \in Procs, ResumeRemove(p)
  PROVE  LockInv'
<1> DEFINE e == mem[p].entry
           e2 == [action |-> e.action, status |-> "resumed", before |-> e.before,
                  after |-> e.after, applied |-> e.applied]
<1>1. /\ pc[p] = "u_remove" /\ Goto(p, "u_final") /\ ~At(p, "idle") /\ ~paused' /\ ~halted'
      /\ paused' \in BOOLEAN /\ halted' \in BOOLEAN
      /\ UNCHANGED <<active, lock, event, snap, edit, promoted, undone, bounds>>
  BY DEF ResumeRemove, At
<1>2. Working(p) /\ mem \in [Procs -> Memory] /\ pc \in [Procs -> Labels] /\ mem[p] \in Memory
  BY DEF LockInv, TypeOK
<1>3. Own(p) /\ e \in Entry
  BY <1>1, <1>2 DEF Working, Recording, Memory
<1>4. e.action = "resume" /\ ~e.applied
  BY <1>1, <1>3 DEF Own
<1>5. e2 \in Entry
  BY <1>3 DEF Entry
<1>6. e2.action = "resume" /\ ~e2.applied /\ WellFormed(e2)
  BY <1>4 DEF WellFormed
<1>7. Becomes(p, mem[p].id, mem[p].source, mem[p].profile, e2)
  BY <1>2, EntrySteps DEF ResumeRemove
<1> HIDE DEF e2
<1>8. Alone(p) /\ pc' \in [Procs -> Labels] /\ pc'[p] = "u_final" /\ lock' /\ "u_final" \in Labels
  <2>1. "u_final" \in Labels
    BY DEF Labels
  <2>2. QED
    BY <2>1, <1>1, <1>2, WorksAlone, AtLabels DEF LockInv, Exclusive
<1>9. TypeOK'
  BY <1>1, <1>7, <1>8 DEF LockInv, TypeOK, Becomes, bounds, WellFormed
<1>10. Working(p)'
  <2>1. Own(p)'
    BY <1>1, <1>3, <1>4, <1>6, <1>7 DEF Own, Becomes, WellFormed
  <2>2. QED
    BY <2>1, <1>8 DEF Working, Recording, Undoing, Journaled, At
<1>11. QED
  BY <1>1, <1>8, <1>9, <1>10, QuietStep

\* A command starts under the lock.
LEMMA StartKeepsLockInv ==
  ASSUME ConstantsAssumption, LockInv, NEW p \in Procs,
         StartRun(p) \/ StartResume(p) \/ \E id \in Ids : StartRollback(p, id)
  PROVE  LockInv'
<1>1. PICK l \in {"x_paused", "b_read", "u_read"}, source \in Ids \cup {0} :
        Acquire(p, l, source) /\ (l = "b_read" => source \in Ids)
  BY DEF StartRun, StartResume, StartRollback
<1>2. /\ ~lock /\ lock' = TRUE /\ Goto(p, l) /\ mem' = [mem EXCEPT ![p].source = source]
      /\ UNCHANGED <<active, paused, event, snap, ghost, bounds>>
  BY <1>1 DEF Acquire
<1>3. /\ mem \in [Procs -> Memory] /\ pc \in [Procs -> Labels]
  BY DEF LockInv, TypeOK
<1>4. Becomes(p, mem[p].id, source, mem[p].profile, mem[p].entry)
  BY <1>2, <1>3, MemorySteps
<1>5. Alone(p) /\ pc' \in [Procs -> Labels] /\ pc'[p] = l /\ lock' /\ l \in Labels
  <2>1. l \in Labels
    BY DEF Labels, Journaled
  <2>2. QED
    BY <2>1, <1>2, <1>3, WorksAlone, AtLabels DEF LockInv
<1>6. TypeOK'
  BY <1>2, <1>4, <1>5 DEF LockInv, TypeOK, Becomes, bounds, ghost, WellFormed
<1>7. Working(p)'
  <2>1. mem'[p].source = source
    BY <1>4 DEF Becomes
  <2>2. QED
    BY <2>1, <1>1, <1>5 DEF Working, Recording, Undoing, Journaled, At
<1>8. UNCHANGED <<event, promoted, undone, halted, paused>>
  BY <1>2 DEF ghost
<1>9. halted' => paused' /\ l \notin Journaled \cup {"x_open", "x_final"}
  <2>1. halted => paused
    BY DEF LockInv, PauseHolds
  <2>2. QED
    BY <2>1, <1>8 DEF Journaled
<1>10. QED
  BY <1>2, <1>5, <1>6, <1>7, <1>8, <1>9, QuietStep

\* A process may stop, a read or a write may fail, anywhere.
LEMMA EndKeepsLockInv ==
  ASSUME ConstantsAssumption, LockInv, NEW p \in Procs, Unlock(p) \/ Crash(p) \/ Fault(p)
  PROVE  LockInv'
<1>1. /\ mem \in [Procs -> Memory] /\ pc \in [Procs -> Labels] /\ lock \in BOOLEAN
      /\ crashes \in 0 .. MaxCrashes /\ faults \in 0 .. MaxFaults
      /\ MaxCrashes \in Nat /\ MaxFaults \in Nat
  BY DEF LockInv, TypeOK, ConstantsAssumption
<1>2. ~At(p, "idle")
  BY DEF Unlock, Crash, Fault, At
<1>3. lock
  BY <1>2 DEF LockInv, Exclusive
<1>4. ASSUME mem' = [mem EXCEPT ![p] = IdleMem]
      PROVE  mem' \in [Procs -> Memory]
  BY <1>1, <1>4, InitialValues
<1>5. CASE Unlock(p)
  <2>1. /\ mem' \in [Procs -> Memory] /\ Goto(p, "idle") /\ lock' \in BOOLEAN
        /\ UNCHANGED <<active, paused, event, snap, ghost, edits, tampers, crashes, faults>>
    BY <1>4, <1>5 DEF Unlock, bounds
  <2>2. QED
    BY <2>1, <1>1, <1>2, LeavingStep
<1>6. CASE Crash(p)
  <2>1. /\ mem' \in [Procs -> Memory] /\ Goto(p, "idle")
        /\ UNCHANGED <<active, paused, lock, event, snap, ghost, edits, tampers, faults>>
    BY <1>4, <1>6 DEF Crash, disk
  <2>2. crashes' \in 0 .. MaxCrashes
    BY <1>1, <1>6 DEF Crash
  <2>3. lock' \in BOOLEAN /\ faults' \in 0 .. MaxFaults
    BY <2>1, <1>1
  <2>4. QED
    BY <2>1, <2>2, <2>3, <1>2, LeavingStep
<1>7. CASE Fault(p)
  <2>1. faults' \in 0 .. MaxFaults
    BY <1>1, <1>7 DEF Fault
  <2>2. /\ UNCHANGED <<disk, ghost, edits, tampers, crashes>>
        /\ UNCHANGED <<active, paused, lock, event, snap>>
    BY <1>7 DEF Fault, disk
  <2>3. lock' \in BOOLEAN /\ lock' /\ crashes' \in 0 .. MaxCrashes
    BY <2>2, <1>1, <1>3
  <2>4. CASE pc[p] \in Journaled
    <3>1. Fail(p)
      BY <1>7, <2>4 DEF Fault, Journaled, At
    <3>2. QED
      BY <3>1, <2>1, <2>2, <2>4, FailKeepsLockInv
  <2>5. CASE At(p, "unlock")
    <3>1. mem' = [mem EXCEPT ![p] = IdleMem] /\ Goto(p, "idle")
      BY <1>7, <2>5 DEF Fault, Journaled, At
    <3>2. QED
      BY <3>1, <2>1, <2>2, <2>3, <1>2, <1>4, LeavingStep
  <2>6. CASE pc[p] \notin Journaled /\ ~At(p, "unlock")
    <3>1. Goto(p, "unlock") /\ mem' \in [Procs -> Memory]
      BY <1>1, <1>7, <2>6 DEF Fault
    <3>2. QED
      BY <3>1, <2>1, <2>2, <2>3, <1>2, LeavingStep
  <2>7. QED
    BY <2>4, <2>5, <2>6
<1>8. QED
  BY <1>5, <1>6, <1>7

\* Neither the user nor the evaluator touches the records.
LEMMA OutsideKeepsLockInv ==
  ASSUME ConstantsAssumption, LockInv,
         \/ UserEdit
         \/ RemoveStaleLock
         \/ \E id \in Ids : TamperSnapshot(id)
  PROVE  LockInv'
<1>1. UNCHANGED <<paused, event, pc, mem, promoted, undone, halted>>
  BY DEF UserEdit, RemoveStaleLock, TamperSnapshot, ghost
<1>2. TypeOK'
  <2>1. /\ edits \in 0 .. MaxEdits /\ tampers \in 0 .. MaxTampers
        /\ MaxEdits \in Nat /\ MaxTampers \in Nat /\ TypeOK
    BY DEF LockInv, TypeOK, ConstantsAssumption
  <2>2. CASE UserEdit
    <3>1. edits' \in 0 .. MaxEdits /\ active' \in Text /\ edit' \in Text
      BY <2>1, <2>2 DEF UserEdit
    <3>2. QED
      BY <3>1, <2>1, <2>2 DEF UserEdit, TypeOK, WellFormed
  <2>3. CASE RemoveStaleLock
    BY <2>1, <2>3 DEF RemoveStaleLock, TypeOK, ghost, bounds, WellFormed
  <2>4. ASSUME NEW id \in Ids, TamperSnapshot(id)
        PROVE  TypeOK'
    <3>1. tampers' \in 0 .. MaxTampers
      BY <2>1, <2>4 DEF TamperSnapshot
    <3>2. PICK text \in Text : snap' = [snap EXCEPT ![id].before = text]
      BY <2>4 DEF TamperSnapshot
    <3>3. snap' \in [Ids -> Snapshots]
      BY <2>1, <3>2 DEF TypeOK, Snapshots
    <3>4. QED
      BY <3>1, <3>3, <2>1, <2>4 DEF TamperSnapshot, TypeOK, ghost, WellFormed
  <2>5. QED
    BY <2>2, <2>3, <2>4
<1>3. Exclusive'
  <2>1. lock' = lock \/ \A p \in Procs : At(p, "idle")
    BY DEF UserEdit, RemoveStaleLock, TamperSnapshot
  <2>2. QED
    BY <2>1, <1>1 DEF LockInv, Exclusive, At
<1>4. \A p \in Procs : Working(p)'
  BY <1>1 DEF LockInv, Working, Own, Experimenting, Undoes, Planned, WellFormed, Experiments, At
<1>5. Accounted' /\ JournalHonest'
  BY <1>1, HonestFrame DEF LockInv, Honest
<1>6. PauseHolds'
  BY <1>1 DEF LockInv, PauseHolds
<1>7. QED
  BY <1>2, <1>3, <1>4, <1>5, <1>6 DEF LockInv

LEMMA InitLockInv == ConstantsAssumption /\ Init => LockInv
<1> SUFFICES ASSUME ConstantsAssumption, Init PROVE LockInv
  OBVIOUS
<1>1. TypeOK
  <2>1. /\ NoEntry \in Entry /\ WellFormed(NoEntry) /\ NoSnap \in Snapshots /\ IdleMem \in Memory
    BY InitialValues
  <2>2. /\ active \in Text /\ edit \in Text /\ paused \in BOOLEAN /\ lock \in BOOLEAN
        /\ halted \in BOOLEAN /\ promoted \subseteq Ids /\ undone \subseteq Ids
    BY DEF Init, Text, ConstantsAssumption
  <2>3. /\ edits \in 0 .. MaxEdits /\ tampers \in 0 .. MaxTampers
        /\ crashes \in 0 .. MaxCrashes /\ faults \in 0 .. MaxFaults
    BY DEF Init, ConstantsAssumption
  <2>4. event \in [Ids -> Entry] /\ \A id \in Ids : WellFormed(event[id])
    BY <2>1 DEF Init
  <2>5. snap \in [Ids -> Snapshots] /\ mem \in [Procs -> Memory]
    BY <2>1 DEF Init
  <2>6. pc \in [Procs -> Labels]
    BY DEF Init, Labels
  <2>7. QED
    BY <2>2, <2>3, <2>4, <2>5, <2>6 DEF TypeOK
<1>2. Exclusive
  BY DEF Init, Exclusive, At
<1>3. ASSUME NEW p \in Procs
      PROVE  Working(p)
  <2>1. pc[p] = "idle"
    BY DEF Init
  <2>2. QED
    BY <2>1 DEF Working, Recording, Undoing, Journaled, At
<1>4. Accounted /\ JournalHonest
  <2>1. \A id \in Ids : ~event[id].applied
    BY DEF Init, NoEntry
  <2>2. QED
    BY <2>1 DEF Init, Accounted, JournalHonest, Experiments
<1>5. PauseHolds
  BY DEF Init, PauseHolds
<1>6. QED
  BY <1>1, <1>2, <1>3, <1>4, <1>5 DEF LockInv

LEMMA NextLockInv == ConstantsAssumption /\ LockInv /\ [Next]_vars => LockInv'
<1> SUFFICES ASSUME ConstantsAssumption, LockInv, [Next]_vars PROVE LockInv'
  OBVIOUS
<1>1. ASSUME NEW p \in Procs, RunStep(p)
      PROVE  LockInv'
  <2>1. CASE RunPaused(p) BY <2>1, RunPausedKeepsLockInv
  <2>2. CASE RunActive(p) BY <2>2, RunActiveKeepsLockInv
  <2>3. CASE RunInit(p) \/ RunSnapshot(p) \/ RunEvaluate(p) BY <2>3, RunFilesKeepLockInv
  <2>4. CASE RunCandidate(p) BY <2>4, RunCandidateKeepsLockInv
  <2>5. CASE RunDecide(p) BY <2>5, RunDecideKeepsLockInv
  <2>6. CASE RunPromote(p) BY <2>6, RunPromoteKeepsLockInv
  <2>7. ASSUME NEW from, NEW to, Saves(from, to), Save(p, from, to)
        PROVE  LockInv'
    BY <2>7, SaveKeepsLockInv
  <2>8. QED
    BY <1>1, <2>1, <2>2, <2>3, <2>4, <2>5, <2>6, <2>7 DEF RunStep, RunIntent, Saves
<1>2. ASSUME NEW p \in Procs, RollbackStep(p)
      PROVE  LockInv'
  <2>1. CASE RollbackRead(p) BY <2>1, RollbackReadKeepsLockInv
  <2>2. CASE RollbackHashes(p) BY <2>2, RollbackHashesKeepsLockInv
  <2>3. CASE RollbackPause(p) BY <2>3, RollbackPauseKeepsLockInv
  <2>4. CASE RollbackWrite(p) BY <2>4, RollbackWriteKeepsLockInv
  <2>5. ASSUME NEW from, NEW to, Saves(from, to), Save(p, from, to)
        PROVE  LockInv'
    BY <2>5, SaveKeepsLockInv
  <2>6. QED
    BY <1>2, <2>1, <2>2, <2>3, <2>4, <2>5 DEF RollbackStep, RollbackIntent, Saves
<1>3. ASSUME NEW p \in Procs, ResumeStep(p)
      PROVE  LockInv'
  <2>1. CASE ResumeRead(p) BY <2>1, ResumeReadKeepsLockInv
  <2>2. CASE ResumeRemove(p) BY <2>2, ResumeRemoveKeepsLockInv
  <2>3. ASSUME NEW from, NEW to, Saves(from, to), Save(p, from, to)
        PROVE  LockInv'
    BY <2>3, SaveKeepsLockInv
  <2>4. QED
    BY <1>3, <2>1, <2>2, <2>3 DEF ResumeStep, Saves
<1>4. CASE UNCHANGED vars
  BY <1>4 DEF vars, disk, ghost, bounds, LockInv, TypeOK, Exclusive, Working, Own, Experimenting,
              Undoes, Planned, WellFormed, Experiments, At, Accounted, JournalHonest,
              RecordsRollbackOf, PauseHolds
<1>5. QED
  BY <1>1, <1>2, <1>3, <1>4, StartKeepsLockInv, EndKeepsLockInv, OutsideKeepsLockInv DEF Next, Step

-----------------------------------------------------------------------------
(* Every step keeps ContentInv, when the user does not edit within a window. *)

\* The labels at which something is known of the profile or the snapshots.
Knowing == {"x_open", "x_active", "x_init", "x_candidate", "x_before", "x_after",
            "x_applying", "x_promote", "x_final"} \cup Undoing

LEMMA SoloKnows ==
  ASSUME LockInv, NEW p \in Procs, NEW l \in Labels, Goto(p, l), Alone(p),
         Snapped(p)' /\ Checked(p)'
  PROVE  \A q \in Procs : Snapped(q)' /\ Checked(q)'
<1>1. Alone(p)'
  BY AtLabels DEF LockInv, TypeOK
<1>2. ASSUME NEW q \in Procs, q # p
      PROVE  Snapped(q)' /\ Checked(q)'
  <2>1. pc'[q] = "idle"
    BY <1>1, <1>2 DEF Alone, At
  <2>2. QED
    BY <2>1 DEF Snapped, Checked, At, Undoing
<1>3. QED
  BY <1>2

\* A step that touches neither the profile nor the records nor the snapshots.
LEMMA ContentFrame ==
  ASSUME LockInv, ContentInv, NEW p \in Procs, NEW l \in Labels, Goto(p, l), Alone(p),
         Snapped(p)' /\ Checked(p)', UNCHANGED <<active, edit, event, snap, tampers>>
  PROVE  ContentInv'
<1>1. \A q \in Procs : Snapped(q)' /\ Checked(q)'
  BY SoloKnows
<1>2. Snapshotted' /\ EditKept'
  BY DEF ContentInv, Snapshotted, EditKept, Experiments
<1>3. QED
  BY <1>1, <1>2 DEF ContentInv

\* The same, at a label where nothing is known.
LEMMA ForgetfulStep ==
  ASSUME LockInv, ContentInv, NEW p \in Procs, NEW l \in Labels \ Knowing, Goto(p, l), Alone(p),
         UNCHANGED <<active, edit, event, snap, tampers>>
  PROVE  ContentInv'
<1>1. pc'[p] = l
  BY AtLabels DEF LockInv, TypeOK
<1>2. Snapped(p)' /\ Checked(p)'
  BY <1>1 DEF Snapped, Checked, Knowing, Undoing, At
<1>3. QED
  BY <1>2, ContentFrame

\* Only an experiment's own record and snapshots change, before it is applied.
LEMMA SnapshottedReplaced ==
  ASSUME LockInv, ContentInv, NEW id \in Ids, event'[id] # NoEntry,
         \A i \in Ids \ {id} : event'[i] = event[i] /\ snap'[i] = snap[i],
         event'[id].action = "experiment" /\ event'[id].applied =>
           snap'[id].candidate = event'[id].after
  PROVE  Snapshotted'
BY DEF ContentInv, Snapshotted, Experiments

LEMMA OpenedContent ==
  ASSUME ConstantsAssumption, LockInv, ContentInv, NEW p \in Procs, Alone(p),
         NEW action \in {"experiment", "rollback", "resume"},
         NEW id \in Ids, Fresh(id), event' = [event EXCEPT ![id] = Directory(action)],
         UNCHANGED <<active, edit, snap, tampers>>
  PROVE  Snapshotted' /\ EditKept' /\ snap'[id] = NoSnap
<1>1. event[id] = NoEntry /\ snap[id] = NoSnap /\ event \in [Ids -> Entry]
  BY DEF Fresh, ContentInv, Snapshotted, LockInv, TypeOK
<1>2. event'[id] = Directory(action) /\ \A i \in Ids \ {id} : event'[i] = event[i]
  BY <1>1
<1>3. Directory(action).action = action /\ ~Directory(action).applied
  BY InitialValues
<1>4. Directory(action) # NoEntry
  BY <1>3 DEF NoEntry
<1>5. Snapshotted'
  BY <1>2, <1>3, <1>4, SnapshottedReplaced
<1>6. EditKept'
  BY DEF ContentInv, EditKept
<1>7. QED
  BY <1>1, <1>5, <1>6

LEMMA OpenRecordContent ==
  ASSUME ConstantsAssumption, LockInv, ContentInv, NEW p \in Procs, ~At(p, "idle"),
         NEW action \in {"experiment", "resume"},
         NEW l \in {"x_open", "u_open"}, MakeDir(p, action, l),
         UNCHANGED <<active, paused, lock, snap, ghost, bounds>>
  PROVE  ContentInv'
<1>1. PICK id \in Ids :
        /\ Fresh(id)
        /\ event' = [event EXCEPT ![id] = Directory(action)]
        /\ mem' = [mem EXCEPT ![p].id = id, ![p].entry = Opened(action)]
        /\ Goto(p, l)
  BY DEF MakeDir
<1>2. /\ Alone(p) /\ l \in Labels /\ mem \in [Procs -> Memory]
      /\ pc \in [Procs -> Labels] /\ UNCHANGED <<edit, tampers>>
  BY WorksAlone DEF LockInv, TypeOK, Labels, ghost, bounds
<1>3. Snapshotted' /\ EditKept' /\ snap'[id] = NoSnap
  BY <1>1, <1>2, OpenedContent
<1>4. pc'[p] = l
  BY <1>1, <1>2, AtLabels
<1>5. mem'[p].id = id
  <2>1. Opened(action) \in Entry
    BY InitialValues
  <2>2. QED
    BY <2>1, <1>1, <1>2, MemorySteps DEF Becomes
<1>6. Snapped(p)' /\ Checked(p)'
  BY <1>3, <1>4, <1>5 DEF Snapped, Checked, NoSnap, At, Undoing
<1>7. QED
  BY <1>1, <1>2, <1>3, <1>6, SoloKnows DEF ContentInv

LEMMA SaveKeepsContentInv ==
  ASSUME ConstantsAssumption, LockInv, ContentInv, NEW p \in Procs, NEW from, NEW to,
         Saves(from, to), Save(p, from, to)
  PROVE  ContentInv'
<1> DEFINE id == mem[p].id
           e == mem[p].entry
<1>1. /\ Own(p) /\ event'[id] = e /\ \A i \in Ids \ {id} : event'[i] = event[i]
  BY SavedHonest
<1>2. /\ pc[p] = from /\ Goto(p, to) /\ ~At(p, "idle") /\ to \in Labels
      /\ UNCHANGED <<active, snap, mem, edit, tampers>>
  BY DEF Save, At, Saves, Labels, Journaled, ghost, bounds
<1>3. /\ Working(p) /\ Snapped(p) /\ Checked(p) /\ Alone(p) /\ pc'[p] = to
  BY <1>2, WorksAlone, AtLabels DEF LockInv, ContentInv, TypeOK
<1>4. Snapshotted'
  <2>1. e # NoEntry /\ id \in Ids
    BY <1>1 DEF Own, NoEntry
  <2>2. e.action = "experiment" /\ e.applied => snap[id].candidate = e.after
    <3>1. SUFFICES ASSUME e.action = "experiment", e.applied
          PROVE  snap[id].candidate = e.after
      OBVIOUS
    <3>2. CASE from \in {"x_open", "x_save", "x_applying", "x_final"}
      <4>1. Experimenting(p)
        BY <3>2, <1>2, <1>3 DEF Working, Journaled
      <4>2. At(p, "x_final")
        BY <4>1, <3>1, <1>2 DEF Experimenting, At
      <4>3. QED
        BY <4>2, <3>1, <1>3 DEF Snapped
    <3>3. CASE from \in {"b_open", "b_save", "b_final"}
      <4>1. Undoes(p)
        BY <3>3, <1>2, <1>3 DEF Working, Undoing
      <4>2. QED
        BY <4>1, <3>1 DEF Undoes
    <3>4. CASE from \in {"u_open", "u_final"}
      BY <3>1, <3>4, <1>1, <1>2 DEF Own
    <3>5. QED
      BY <3>2, <3>3, <3>4 DEF Saves
  <2>3. QED
    BY <2>1, <2>2, <1>1, <1>2, SnapshottedReplaced
<1>5. EditKept'
  BY <1>2 DEF ContentInv, EditKept
<1>6. Snapped(p)'
  BY <1>2, <1>3 DEF Snapped, Saves, At
<1>7. Checked(p)'
  <2>1. CASE from \in {"b_open", "b_save"}
    <3>1. Undoes(p) /\ from \in Undoing \ {"b_final"}
      BY <2>1, <1>2, <1>3 DEF Working, Undoing
    <3>2. event'[mem[p].source] = event[mem[p].source]
      <4>1. mem[p].source \in Ids \ {id}
        BY <3>1, <1>2, RollbackKnows
      <4>2. QED
        BY <4>1, <1>1
    <3>3. QED
      BY <2>1, <3>1, <3>2, <1>2, <1>3 DEF Checked, Saves, At
  <2>2. CASE from \notin {"b_open", "b_save"}
    <3>1. pc'[p] \notin Undoing
      BY <2>2, <1>3 DEF Saves, Undoing
    <3>2. QED
      BY <3>1, <1>2, <1>3 DEF Checked, Saves, At
  <2>3. QED
    BY <2>1, <2>2
<1>8. QED
  BY <1>2, <1>3, <1>4, <1>5, <1>6, <1>7, SoloKnows DEF ContentInv

\* The steps of Run that only read: what they read is what is there.
LEMMA FailKeepsContentInv ==
  ASSUME LockInv, ContentInv, NEW p \in Procs, pc[p] \in Journaled, Fail(p),
         UNCHANGED <<active, edit, event, snap, tampers>>
  PROVE  ContentInv'
<1>1. ~mem[p].entry.applied
  BY RunKnows
<1>2. /\ Goto(p, "x_final") /\ "x_final" \in Labels /\ Alone(p) /\ pc'[p] = "x_final"
  <2>1. "x_final" \in Labels /\ ~At(p, "idle") /\ Goto(p, "x_final")
    BY DEF Labels, At, Journaled, Fail
  <2>2. QED
    BY <2>1, WorksAlone, AtLabels DEF LockInv, TypeOK
<1>3. ~mem'[p].entry.applied
  <2> DEFINE e == mem[p].entry
             e2 == [action |-> e.action, status |-> "error", before |-> e.before,
                    after |-> e.after, applied |-> e.applied]
  <2>1. mem \in [Procs -> Memory] /\ mem' = [mem EXCEPT ![p].entry.status = "error"]
    BY DEF Fail, LockInv, TypeOK
  <2>2. Becomes(p, mem[p].id, mem[p].source, mem[p].profile, e2)
    BY <2>1, EntrySteps
  <2>3. QED
    BY <2>2, <1>1 DEF Becomes
<1>4. Snapped(p)' /\ Checked(p)'
  BY <1>2, <1>3 DEF Snapped, Checked, At, Undoing
<1>5. QED
  BY <1>2, <1>4, ContentFrame

LEMMA RunReadsKeepContentInv ==
  ASSUME ConstantsAssumption, LockInv, ContentInv, NEW p \in Procs,
         RunActive(p) \/ RunCandidate(p) \/ RunEvaluate(p) \/ RunDecide(p)
  PROVE  ContentInv'
<1> DEFINE e == mem[p].entry
           id == mem[p].id
<1>1. /\ pc[p] \in Journaled /\ ~At(p, "idle")
      /\ UNCHANGED <<active, edit, event, snap, tampers>>
  BY DEF RunActive, RunCandidate, RunEvaluate, RunDecide, disk, ghost, bounds, At, Journaled
<1>2. /\ id \in Ids /\ e \in Entry /\ e.action = "experiment" /\ ~e.applied
      /\ mem[p].profile \in Text
  BY <1>1, RunKnows
<1>3. mem \in [Procs -> Memory] /\ pc \in [Procs -> Labels] /\ active \in Text /\ Alone(p)
  BY <1>1, WorksAlone DEF LockInv, TypeOK
<1>4. Snapped(p) /\ Checked(p)
  BY DEF ContentInv
<1>5. CASE Fail(p)
  BY <1>1, <1>5, FailKeepsContentInv
<1>6. CASE RunActive(p) /\ ~Fail(p)
  <2>1. /\ pc[p] = "x_active"
        /\ \/ active = NoProfile /\ Goto(p, "x_init") /\ UNCHANGED mem
           \/ Goto(p, "x_candidate") /\ mem' = [mem EXCEPT ![p].profile = active]
    BY <1>6 DEF RunActive, At
  <2>2. mem'[p].id = id
    BY <2>1, <1>3, MemorySteps DEF Becomes
  <2>3. PICK l \in {"x_init", "x_candidate"} :
          Goto(p, l) /\ (l = "x_init" => active = NoProfile)
    BY <2>1
  <2>4. l \in Labels /\ pc'[p] = l
    BY <2>3, <1>3, AtLabels DEF Labels, Journaled
  <2>5. Snapped(p)' /\ Checked(p)'
    BY <2>1, <2>2, <2>3, <2>4, <1>1, <1>4 DEF Snapped, Checked, At, Undoing
  <2>6. QED
    BY <2>3, <2>4, <2>5, <1>1, <1>3, ContentFrame
<1>7. CASE RunCandidate(p)
  <2>1. /\ pc[p] = "x_candidate"
        /\ \E e2 \in Entry :
             /\ ~e2.applied
             /\ mem' = [mem EXCEPT ![p].entry = e2] /\ (Goto(p, "x_final") \/ Goto(p, "x_before"))
    <3>1. PICK after \in Profiles \ {Broken} :
            \/ /\ mem' = [mem EXCEPT ![p].entry =
                   [[e EXCEPT !.before = mem[p].profile, !.after = after] EXCEPT !.status = "unchanged"]]
               /\ Goto(p, "x_final")
            \/ /\ mem' = [mem EXCEPT ![p].entry =
                            [e EXCEPT !.before = mem[p].profile, !.after = after]]
               /\ Goto(p, "x_before")
      BY <1>7 DEF RunCandidate
    <3>2. after \in Text
      BY DEF Text
    <3>3. [e EXCEPT !.before = mem[p].profile, !.after = after] \in Entry
      BY <3>2, <1>2 DEF Entry
    <3>4. [[e EXCEPT !.before = mem[p].profile, !.after = after] EXCEPT !.status = "unchanged"] \in Entry
      BY <3>3 DEF Entry
    <3>5. /\ ~[e EXCEPT !.before = mem[p].profile, !.after = after].applied
          /\ ~[[e EXCEPT !.before = mem[p].profile, !.after = after]
                 EXCEPT !.status = "unchanged"].applied
      BY <1>2 DEF Entry
    <3>6. pc[p] = "x_candidate"
      BY <1>7 DEF RunCandidate, At
    <3>7. QED
      BY <3>1, <3>3, <3>4, <3>5, <3>6
  <2>2. PICK e2 \in Entry :
          /\ ~e2.applied
          /\ mem' = [mem EXCEPT ![p].entry = e2] /\ (Goto(p, "x_final") \/ Goto(p, "x_before"))
    BY <2>1
  <2>3. mem'[p].id = id /\ mem'[p].entry = e2
    BY <2>2, <1>3, MemorySteps DEF Becomes
  <2>4. PICK l \in {"x_final", "x_before"} : Goto(p, l)
    BY <2>2
  <2>5. l \in Labels /\ pc'[p] = l
    BY <2>4, <1>3, AtLabels DEF Labels, Journaled
  <2>6. Snapped(p)' /\ Checked(p)'
    BY <2>1, <2>2, <2>3, <2>5, <1>1, <1>4 DEF Snapped, Checked, At, Undoing
  <2>7. QED
    BY <2>4, <2>5, <2>6, <1>1, <1>3, ContentFrame
<1>8. CASE RunEvaluate(p)
  <2>1. Goto(p, "x_check") /\ "x_check" \in Labels \ Knowing
    BY <1>8 DEF RunEvaluate, Labels, Journaled, Knowing, Undoing
  <2>2. QED
    BY <2>1, <1>1, <1>3, ForgetfulStep
<1>9. CASE RunDecide(p) /\ ~Fail(p)
  <2>1. /\ snap[id].before = e.before /\ snap[id].candidate = e.after
        /\ \/ \E verdict \in {"rejected", "recommended"} :
                /\ mem' = [mem EXCEPT ![p].entry.status = verdict]
                /\ Goto(p, "x_final")
           \/ /\ active = e.before
              /\ mem' = [mem EXCEPT ![p].entry.status = "applying"]
              /\ Goto(p, "x_applying")
    BY <1>9 DEF RunDecide, Attributable, ActiveUnchanged
  <2>2. /\ mem'[p].id = id /\ mem'[p].entry.before = e.before /\ mem'[p].entry.after = e.after
        /\ ~mem'[p].entry.applied
    <3>1. PICK status \in {"applying", "rejected", "recommended"} :
            mem' = [mem EXCEPT ![p].entry.status = status]
      BY <2>1
    <3> DEFINE e2 == [action |-> e.action, status |-> status, before |-> e.before,
                      after |-> e.after, applied |-> e.applied]
    <3>2. Becomes(p, id, mem[p].source, mem[p].profile, e2)
      BY <3>1, <1>3, EntrySteps
    <3>3. QED
      BY <3>2, <1>2 DEF Becomes
  <2>3. PICK l \in {"x_final", "x_applying"} :
          Goto(p, l) /\ (l = "x_applying" => active = e.before)
    BY <2>1
  <2>4. l \in Labels /\ pc'[p] = l
    BY <2>3, <1>3, AtLabels DEF Labels, Journaled
  <2>5. Snapped(p)' /\ Checked(p)'
    BY <2>1, <2>2, <2>3, <2>4, <1>1 DEF Snapped, Checked, At, Undoing
  <2>6. QED
    BY <2>3, <2>4, <2>5, <1>1, <1>3, ContentFrame
<1>10. QED
  BY <1>5, <1>6, <1>7, <1>8, <1>9

\* The first run replaces nothing.
LEMMA RunInitKeepsContentInv ==
  ASSUME ConstantsAssumption, LockInv, ContentInv, NEW p \in Procs, RunInit(p)
  PROVE  ContentInv'
<1>1. /\ pc[p] = "x_init" /\ Goto(p, "x_candidate") /\ ~At(p, "idle")
      /\ mem' = [mem EXCEPT ![p].profile = Baseline]
      /\ UNCHANGED <<edit, event, snap, tampers>>
  BY DEF RunInit, At, ghost, bounds
<1>2. Snapped(p) /\ Checked(p) /\ Alone(p) /\ pc'[p] = "x_candidate" /\ "x_candidate" \in Labels
  <2>1. "x_candidate" \in Labels
    BY DEF Labels, Journaled
  <2>2. QED
    BY <2>1, <1>1, WorksAlone, AtLabels DEF LockInv, TypeOK, ContentInv
<1>3. active = NoProfile
  BY <1>1, <1>2 DEF Checked, At
<1>4. mem'[p].id = mem[p].id
  BY <1>1, MemorySteps DEF Becomes, LockInv, TypeOK, ConstantsAssumption, Text
<1>5. Snapped(p)' /\ Checked(p)'
  BY <1>1, <1>2, <1>4 DEF Snapped, Checked, At, Undoing
<1>6. EditKept'
  BY <1>1, <1>3 DEF ContentInv, EditKept
<1>7. Snapshotted'
  BY <1>1 DEF ContentInv, Snapshotted, Experiments
<1>8. QED
  BY <1>1, <1>2, <1>5, <1>6, <1>7, SoloKnows DEF ContentInv

\* The snapshots are written once, and before the record says "applied".
LEMMA RunSnapshotKeepsContentInv ==
  ASSUME ConstantsAssumption, LockInv, ContentInv, NEW p \in Procs, RunSnapshot(p)
  PROVE  ContentInv'
<1> DEFINE id == mem[p].id
           e == mem[p].entry
<1>1. /\ pc[p] \in {"x_before", "x_after"} /\ pc[p] \in Journaled /\ ~At(p, "idle")
      /\ UNCHANGED <<active, mem, edit, event, tampers>>
  BY DEF RunSnapshot, At, Journaled, ghost, bounds
<1>2. /\ Own(p) /\ id \in Ids /\ Snapped(p) /\ Alone(p) /\ snap \in [Ids -> Snapshots]
      /\ pc \in [Procs -> Labels]
  BY <1>1, RunKnows, WorksAlone DEF LockInv, TypeOK, ContentInv
<1>3. event[id] # NoEntry /\ ~event[id].applied
  BY <1>2 DEF Own, NoEntry
<1>4. /\ \A i \in Ids \ {id} : snap'[i] = snap[i]
      /\ snap'[id].before # snap[id].before => snap[id].before = NoProfile \/ tampers > 0
      /\ snap'[id].candidate # snap[id].candidate => snap[id].candidate = NoProfile
      /\ At(p, "x_before") => snap'[id].candidate = snap[id].candidate
  BY <1>1, <1>2 DEF RunSnapshot, Snapped, At, Snapshots
<1>5. Snapshotted'
  BY <1>1, <1>2, <1>3, <1>4, SnapshottedReplaced
<1>6. EditKept'
  <2>1. CASE tampers > 0 \/ edit \in {NoProfile, active}
    BY <2>1, <1>1 DEF EditKept
  <2>2. CASE ~(tampers > 0) /\ edit # NoProfile /\ edit # active
    <3>1. PICK i \in Ids : edit \in {snap[i].before, snap[i].candidate}
      BY <2>2 DEF ContentInv, EditKept
    <3>2. edit \in {snap'[i].before, snap'[i].candidate}
      BY <3>1, <2>2, <1>2, <1>4
    <3>3. QED
      BY <3>2, <1>1 DEF EditKept
  <2>3. QED
    BY <2>1, <2>2
<1>7. PICK l \in {"x_after", "x_save"} :
        Goto(p, l) /\ (l = "x_after" => At(p, "x_before"))
  BY DEF RunSnapshot
<1>8. l \in Labels /\ pc'[p] = l
  BY <1>2, <1>7, AtLabels DEF Labels, Journaled
<1>9. Snapped(p)' /\ Checked(p)'
  BY <1>1, <1>2, <1>4, <1>7, <1>8 DEF Snapped, Checked, At, Undoing
<1>10. QED
  BY <1>2, <1>5, <1>6, <1>7, <1>8, <1>9, SoloKnows DEF ContentInv

\* A promotion replaces what its snapshot keeps.
LEMMA RunPromoteKeepsContentInv ==
  ASSUME ConstantsAssumption, LockInv, ContentInv, NEW p \in Procs, RunPromote(p)
  PROVE  ContentInv'
<1> DEFINE id == mem[p].id
           e == mem[p].entry
<1>1. /\ pc[p] = "x_promote" /\ pc[p] \in Journaled /\ ~At(p, "idle") /\ Goto(p, "x_final")
      /\ UNCHANGED <<edit, event, snap, tampers>> /\ "x_final" \in Labels
  BY DEF RunPromote, At, Journaled, Labels, bounds
<1>2. id \in Ids /\ Snapped(p) /\ Checked(p) /\ Alone(p) /\ pc'[p] = "x_final"
  BY <1>1, RunKnows, WorksAlone, AtLabels DEF LockInv, TypeOK, ContentInv
<1>3. active = e.before /\ (snap[id].before = e.before \/ tampers > 0) /\ snap[id].candidate = e.after
  BY <1>1, <1>2 DEF Snapped, Checked
<1>4. EditKept'
  BY <1>1, <1>2, <1>3 DEF ContentInv, EditKept
<1>5. Snapshotted'
  BY <1>1 DEF ContentInv, Snapshotted, Experiments
<1>6. mem'[p].id = id /\ mem'[p].entry.after = e.after
  <2> DEFINE e2 == [action |-> e.action, status |-> "applied", before |-> e.before,
                    after |-> e.after, applied |-> TRUE]
  <2>1. /\ mem \in [Procs -> Memory]
        /\ mem' = [mem EXCEPT ![p].entry.applied = TRUE, ![p].entry.status = "applied"]
    BY DEF RunPromote, LockInv, TypeOK
  <2>2. Becomes(p, id, mem[p].source, mem[p].profile, e2)
    BY <2>1, EntrySteps
  <2>3. QED
    BY <2>2 DEF Becomes
<1>7. Snapped(p)' /\ Checked(p)'
  BY <1>1, <1>2, <1>3, <1>6 DEF Snapped, Checked, At, Undoing
<1>8. QED
  BY <1>1, <1>2, <1>4, <1>5, <1>7, SoloKnows DEF ContentInv

\* A rollback writes while the candidate of the experiment is active, and its
\* snapshot keeps that candidate.
LEMMA RollbackKeepsContentInv ==
  ASSUME ConstantsAssumption, LockInv, ContentInv, NEW p \in Procs,
         RollbackHashes(p) \/ RollbackPause(p) \/ RollbackWrite(p)
  PROVE  ContentInv'
<1> DEFINE source == mem[p].source
<1>1. /\ pc[p] \in Undoing \ {"b_final"} /\ ~At(p, "idle")
      /\ UNCHANGED <<edit, event, snap, tampers>>
  BY DEF RollbackHashes, RollbackPause, RollbackWrite, At, Undoing, disk, ghost, bounds
<1>2. /\ source \in Ids /\ event[source].applied /\ event[source].action = "experiment"
      /\ Alone(p) /\ mem \in [Procs -> Memory] /\ pc \in [Procs -> Labels]
      /\ event[source] \in Entry /\ mem[p].profile \in Text
  BY <1>1, RollbackKnows DEF Undoes, Experiments, LockInv, TypeOK
<1>3. active = event[source].after /\ snap[source].candidate = event[source].after
  BY <1>1, <1>2 DEF ContentInv, Checked, Snapshotted, Experiments
<1>4. CASE RollbackHashes(p) \/ RollbackPause(p)
  <2>1. PICK l \in {"b_save", "b_write"} : Goto(p, l)
    BY <1>4 DEF RollbackHashes, RollbackPause
  <2>2. l \in Labels /\ pc'[p] = l
    BY <2>1, <1>2, AtLabels DEF Labels
  <2>3. UNCHANGED active
    BY <1>4 DEF RollbackHashes, RollbackPause, disk
  <2>4. mem'[p].source = source
    <3>1. CASE RollbackHashes(p)
      <4>1. mem' = [mem EXCEPT ![p].entry.before = event[source].after,
                               ![p].entry.after = mem[p].profile]
        BY <3>1 DEF RollbackHashes
      <4>2. event[source].after \in Text
        BY <1>2 DEF Entry
      <4>3. QED
        BY <4>1, <4>2, <1>2, EntrySteps DEF Becomes
    <3>2. CASE RollbackPause(p)
      BY <3>2 DEF RollbackPause
    <3>3. QED
      BY <3>1, <3>2, <1>4
  <2>5. Snapped(p)' /\ Checked(p)'
    BY <2>2, <2>3, <2>4, <1>1, <1>3 DEF Snapped, Checked, At
  <2>6. QED
    BY <2>1, <2>2, <2>3, <2>5, <1>1, <1>2, ContentFrame
<1>5. CASE RollbackWrite(p)
  <2>1. Goto(p, "b_final") /\ "b_final" \in Labels /\ pc'[p] = "b_final"
    <3>1. Goto(p, "b_final") /\ "b_final" \in Labels
      BY <1>5 DEF RollbackWrite, Labels
    <3>2. QED
      BY <3>1, <1>2, AtLabels
  <2>2. Snapped(p)' /\ Checked(p)'
    BY <2>1 DEF Snapped, Checked, At, Undoing
  <2>3. EditKept'
    BY <1>1, <1>2, <1>3 DEF ContentInv, EditKept
  <2>4. Snapshotted'
    BY <1>1 DEF ContentInv, Snapshotted, Experiments
  <2>5. QED
    BY <2>1, <2>2, <2>3, <2>4, <1>2, SoloKnows DEF ContentInv
<1>6. QED
  BY <1>4, <1>5

LEMMA RollbackReadKeepsContentInv ==
  ASSUME ConstantsAssumption, LockInv, ContentInv, NEW p \in Procs, RollbackRead(p)
  PROVE  ContentInv'
<1> DEFINE source == mem[p].source
<1>1. /\ pc[p] = "b_read" /\ ~At(p, "idle") /\ UNCHANGED <<active, snap, edit, tampers>>
  BY DEF RollbackRead, At, ghost, bounds
<1>2. Alone(p) /\ mem \in [Procs -> Memory] /\ pc \in [Procs -> Labels] /\ source \in Ids
  BY <1>1, WorksAlone DEF LockInv, TypeOK, Working, At
<1>3. CASE ~Restorable(source)
  <2>1. Goto(p, "unlock") /\ UNCHANGED event
    BY <1>3 DEF RollbackRead, Refuse
  <2>2. "unlock" \in Labels \ Knowing
    BY DEF Labels, Knowing, Undoing
  <2>3. QED
    BY <2>1, <2>2, <1>1, <1>2, ForgetfulStep
<1>4. CASE Restorable(source)
  <2>1. PICK id \in Ids :
          /\ Fresh(id)
          /\ event' = [event EXCEPT ![id] = Directory("rollback")]
          /\ mem' = [mem EXCEPT ![p] =
               [@ EXCEPT !.id = id, !.entry = Opened("rollback"), !.profile = snap[source].before]]
          /\ Goto(p, "b_open")
    BY <1>4 DEF RollbackRead
  <2>2. Snapshotted' /\ EditKept'
    BY <2>1, <1>1, <1>2, OpenedContent
  <2>3. source # id /\ event'[source] = event[source] /\ active = event[source].after
    <3>1. event[source].action = "experiment" /\ active = event[source].after
      BY <1>4 DEF Restorable
    <3>2. source # id
      BY <3>1, <2>1 DEF Fresh, NoEntry
    <3>3. QED
      BY <3>1, <3>2, <2>1, <1>2 DEF LockInv, TypeOK
  <2>4. mem'[p].source = source
    BY <2>1, <1>2 DEF Memory
  <2>5. pc'[p] = "b_open" /\ "b_open" \in Labels
    <3>1. "b_open" \in Labels
      BY DEF Labels
    <3>2. QED
      BY <3>1, <2>1, <1>2, AtLabels
  <2>6. Snapped(p)' /\ Checked(p)'
    BY <2>3, <2>4, <2>5, <1>1 DEF Snapped, Checked, At
  <2>7. QED
    BY <2>1, <2>2, <2>5, <2>6, <1>2, SoloKnows DEF ContentInv
<1>5. QED
  BY <1>3, <1>4

\* The commands that neither write the profile nor rely on it.
LEMMA OthersKeepContentInv ==
  ASSUME ConstantsAssumption, LockInv, ContentInv, NEW p \in Procs,
         \/ RunPaused(p) \/ ResumeRead(p) \/ ResumeRemove(p)
         \/ StartRun(p) \/ StartResume(p) \/ (\E id \in Ids : StartRollback(p, id))
         \/ Unlock(p) \/ Crash(p) \/ Fault(p)
  PROVE  ContentInv'
<1>1. CASE RunPaused(p)
  <2>1. ~At(p, "idle") /\ UNCHANGED <<active, paused, lock, snap, ghost, bounds>>
    BY <1>1 DEF RunPaused, At
  <2>2. CASE MakeDir(p, "experiment", "x_open")
    BY <2>1, <2>2, OpenRecordContent
  <2>3. CASE Refuse(p)
    <3>1. Goto(p, "unlock") /\ UNCHANGED <<event, edit, tampers>> /\ "unlock" \in Labels \ Knowing
      BY <2>1, <2>3 DEF Refuse, Labels, Knowing, Undoing, ghost, bounds
    <3>2. QED
      BY <3>1, <2>1, WorksAlone, ForgetfulStep DEF LockInv
  <2>4. QED
    BY <1>1, <2>2, <2>3 DEF RunPaused
<1>2. CASE ResumeRead(p)
  <2>1. ~At(p, "idle") /\ UNCHANGED <<active, paused, lock, snap, ghost, bounds>>
    BY <1>2 DEF ResumeRead, At
  <2>2. CASE MakeDir(p, "resume", "u_open")
    BY <2>1, <2>2, OpenRecordContent
  <2>3. CASE Refuse(p)
    <3>1. Goto(p, "unlock") /\ UNCHANGED <<event, edit, tampers>> /\ "unlock" \in Labels \ Knowing
      BY <2>1, <2>3 DEF Refuse, Labels, Knowing, Undoing, ghost, bounds
    <3>2. QED
      BY <3>1, <2>1, WorksAlone, ForgetfulStep DEF LockInv
  <2>4. QED
    BY <1>2, <2>2, <2>3 DEF ResumeRead
<1>3. CASE ResumeRemove(p) \/ Unlock(p) \/ Crash(p)
  <2>1. ~At(p, "idle") /\ UNCHANGED <<active, edit, event, snap, tampers>>
    BY <1>3 DEF ResumeRemove, Unlock, Crash, At, disk, ghost, bounds
  <2>2. PICK l \in {"u_final", "idle"} : Goto(p, l)
    BY <1>3 DEF ResumeRemove, Unlock, Crash
  <2>3. l \in Labels \ Knowing
    BY DEF Labels, Knowing, Undoing
  <2>4. QED
    BY <2>1, <2>2, <2>3, WorksAlone, ForgetfulStep DEF LockInv
<1>4. CASE StartRun(p) \/ StartResume(p) \/ \E id \in Ids : StartRollback(p, id)
  <2>1. PICK l \in {"x_paused", "b_read", "u_read"}, source \in Ids \cup {0} : Acquire(p, l, source)
    BY <1>4 DEF StartRun, StartResume, StartRollback
  <2>2. ~lock /\ Goto(p, l) /\ UNCHANGED <<active, edit, event, snap, tampers>>
    BY <2>1 DEF Acquire, ghost, bounds
  <2>3. l \in Labels \ Knowing
    BY DEF Labels, Journaled, Knowing, Undoing
  <2>4. QED
    BY <2>2, <2>3, WorksAlone, ForgetfulStep DEF LockInv
<1>5. CASE Fault(p)
  <2>1. ~At(p, "idle") /\ UNCHANGED <<active, edit, event, snap, tampers>>
    BY <1>5 DEF Fault, At, disk, ghost
  <2>2. CASE pc[p] \in Journaled
    <3>1. Fail(p)
      BY <1>5, <2>2 DEF Fault, Journaled, At
    <3>2. QED
      BY <3>1, <2>1, <2>2, FailKeepsContentInv
  <2>3. CASE pc[p] \notin Journaled
    <3>1. PICK l \in {"idle", "unlock"} : Goto(p, l)
      BY <1>5, <2>3 DEF Fault
    <3>2. l \in Labels \ Knowing
      BY DEF Labels, Knowing, Undoing
    <3>3. QED
      BY <3>1, <3>2, <2>1, WorksAlone, ForgetfulStep DEF LockInv
  <2>4. QED
    BY <2>2, <2>3
<1>6. QED
  BY <1>1, <1>2, <1>3, <1>4, <1>5

\* The user stays out of the windows; a modified snapshot is not counted on.
LEMMA OutsideKeepsContentInv ==
  ASSUME ConstantsAssumption, ~EditsInWindow, LockInv, ContentInv,
         \/ UserEdit
         \/ RemoveStaleLock
         \/ \E id \in Ids : TamperSnapshot(id)
  PROVE  ContentInv'
<1>1. UNCHANGED <<event, pc, mem>>
  BY DEF UserEdit, RemoveStaleLock, TamperSnapshot
<1>2. CASE UserEdit
  <2>1. UNCHANGED <<snap, tampers>> /\ edit' = active' /\ \A p \in Procs : ~InWindow(p)
    BY <1>2 DEF UserEdit
  <2>2. \A p \in Procs : Snapped(p)'
    BY <2>1, <1>1 DEF ContentInv, Snapped, At
  <2>3. \A p \in Procs : Checked(p)'
    BY <2>1, <1>1 DEF InWindow, Checked, At, Undoing
  <2>4. Snapshotted' /\ EditKept'
    BY <2>1, <1>1 DEF ContentInv, Snapshotted, EditKept, Experiments
  <2>5. QED
    BY <2>2, <2>3, <2>4 DEF ContentInv
<1>3. CASE RemoveStaleLock
  <2>1. UNCHANGED <<active, edit, snap, tampers>>
    BY <1>3 DEF RemoveStaleLock, ghost, bounds
  <2>2. QED
    BY <2>1, <1>1 DEF ContentInv, Snapped, Checked, Snapshotted, EditKept, Experiments, At
<1>4. ASSUME NEW id \in Ids, TamperSnapshot(id)
      PROVE  ContentInv'
  <2>1. /\ UNCHANGED <<active, edit>> /\ tampers' > 0 /\ event[id].action = "experiment"
        /\ snap \in [Ids -> Snapshots]
    BY <1>4 DEF TamperSnapshot, ghost, LockInv, TypeOK, ConstantsAssumption
  <2>2. PICK text \in Text : snap' = [snap EXCEPT ![id].before = text]
    BY <1>4 DEF TamperSnapshot
  <2>3. /\ \A i \in Ids : snap'[i].candidate = snap[i].candidate
        /\ \A i \in Ids \ {id} : snap'[i] = snap[i]
    BY <2>1, <2>2 DEF Snapshots
  <2>4. ASSUME NEW p \in Procs
        PROVE  Snapped(p)'
    <3>1. pc[p] \in Recording => mem[p].id \in Ids
      BY DEF LockInv, Working, Own
    <3>2. Snapped(p)
      BY DEF ContentInv
    <3>3. QED
      BY <3>1, <3>2, <2>1, <2>3, <1>1 DEF Snapped, Recording, Journaled, At
  <2>5. \A p \in Procs : Checked(p)'
    BY <2>1, <1>1 DEF ContentInv, Checked, At
  <2>6. Snapshotted'
    <3>1. event[id] # NoEntry
      BY <2>1 DEF NoEntry
    <3>2. QED
      BY <3>1, <2>3, <1>1 DEF ContentInv, Snapshotted, Experiments
  <2>7. EditKept'
    BY <2>1 DEF EditKept
  <2>8. QED
    BY <2>4, <2>5, <2>6, <2>7 DEF ContentInv
<1>5. QED
  BY <1>2, <1>3, <1>4

LEMMA InitContentInv == ConstantsAssumption /\ Init => ContentInv
BY DEF Init, ContentInv, Snapped, Checked, Snapshotted, EditKept, Experiments, NoEntry, At, Undoing

LEMMA NextContentInv ==
  ConstantsAssumption /\ ~EditsInWindow /\ LockInv /\ ContentInv /\ [Next]_vars => ContentInv'
<1> SUFFICES ASSUME ConstantsAssumption, ~EditsInWindow, LockInv, ContentInv, [Next]_vars
             PROVE  ContentInv'
  OBVIOUS
<1>1. ASSUME NEW p \in Procs, NEW from, NEW to, Saves(from, to), Save(p, from, to)
      PROVE  ContentInv'
  BY <1>1, SaveKeepsContentInv
<1>2. ASSUME NEW p \in Procs, RunStep(p)
      PROVE  ContentInv'
  <2>1. CASE RunPaused(p) BY <2>1, OthersKeepContentInv
  <2>2. CASE RunActive(p) \/ RunCandidate(p) \/ RunEvaluate(p) \/ RunDecide(p)
    BY <2>2, RunReadsKeepContentInv
  <2>3. CASE RunInit(p) BY <2>3, RunInitKeepsContentInv
  <2>4. CASE RunSnapshot(p) BY <2>4, RunSnapshotKeepsContentInv
  <2>5. CASE RunPromote(p) BY <2>5, RunPromoteKeepsContentInv
  <2>6. QED
    BY <1>1, <1>2, <2>1, <2>2, <2>3, <2>4, <2>5 DEF RunStep, RunIntent, Saves
<1>3. ASSUME NEW p \in Procs, RollbackStep(p)
      PROVE  ContentInv'
  <2>1. CASE RollbackRead(p) BY <2>1, RollbackReadKeepsContentInv
  <2>2. CASE RollbackHashes(p) \/ RollbackPause(p) \/ RollbackWrite(p)
    BY <2>2, RollbackKeepsContentInv
  <2>3. QED
    BY <1>1, <1>3, <2>1, <2>2 DEF RollbackStep, RollbackIntent, Saves
<1>4. ASSUME NEW p \in Procs, ResumeStep(p)
      PROVE  ContentInv'
  BY <1>1, <1>4, OthersKeepContentInv DEF ResumeStep, Saves
<1>5. CASE UNCHANGED vars
  BY <1>5 DEF vars, disk, ghost, bounds, ContentInv, Snapped, Checked, Snapshotted, EditKept,
              Experiments, At
<1>6. QED
  BY <1>2, <1>3, <1>4, <1>5, OthersKeepContentInv, OutsideKeepsContentInv DEF Next, Step

-----------------------------------------------------------------------------
(* The theorems.                                                             *)

\* The lock, the records and the marker agree with what the processes do, however
\* they interleave, stop and fail, and whatever the user edits meanwhile.
THEOREM LockInvariance == Spec => []LockInv
<1>1. Init => LockInv
  BY InitLockInv, ConstantsAssumption
<1>2. LockInv /\ [Next]_vars => LockInv'
  BY NextLockInv, ConstantsAssumption
<1>3. QED
  BY <1>1, <1>2, PTL DEF Spec

\* Every variable has its type, and a record that says "applied" names an outcome
\* and both profiles.
THEOREM TypeCorrect == Spec => []TypeOK
<1>1. LockInv => TypeOK
  BY DEF LockInv
<1>2. QED
  BY <1>1, LockInvariance, PTL

\* After any crash the journal tells which experiments wrote the profile, and
\* every rollback that wrote it left a record with both hashes.
THEOREM JournalIsHonest == Spec => []JournalHonest
<1>1. LockInv => JournalHonest
  BY DEF LockInv
<1>2. QED
  BY <1>1, LockInvariance, PTL

\* From a rollback to a resume the marker is there, and no experiment is under way.
THEOREM PauseIsKept == Spec => []PauseHolds
<1>1. LockInv => PauseHolds
  BY DEF LockInv
<1>2. QED
  BY <1>1, LockInvariance, PTL

\* Without edits between a comparison and the write it guards, the snapshots and
\* the profile are what every step relies on.
THEOREM ContentInvariance == ~EditsInWindow => (Spec => []IInv)
<1> SUFFICES ASSUME ~EditsInWindow PROVE Spec => []IInv
  OBVIOUS
<1>1. Init => IInv
  BY InitLockInv, InitContentInv, ConstantsAssumption DEF IInv
<1>2. IInv /\ [Next]_vars => IInv'
  BY NextLockInv, NextContentInv, ConstantsAssumption DEF IInv
<1>3. QED
  BY <1>1, <1>2, PTL DEF Spec

\* What the user last wrote is in active.json or in the snapshots, unless someone
\* modified those.
THEOREM EditIsKept == ~EditsInWindow => (Spec => []EditKept)
<1> SUFFICES ASSUME ~EditsInWindow PROVE Spec => []EditKept
  OBVIOUS
<1>1. IInv => EditKept
  BY DEF IInv, ContentInv
<1>2. QED
  BY <1>1, ContentInvariance, PTL

\* A step writes what the promotion replaced, and over what it activated, when
\* it undoes an experiment.
LEMMA RollbackStepExact ==
  ASSUME IInv, [Next]_vars
  PROVE  [\A id \in undone' \ undone : active = event[id].after /\ active' = event[id].before]_vars
<1>1. ASSUME NEW p \in Procs, RollbackWrite(p)
      PROVE  \A id \in undone' \ undone : active = event[id].after /\ active' = event[id].before
  <2>1. /\ pc[p] = "b_write" /\ pc[p] \in Undoing \ {"b_final"} /\ active' = mem[p].profile
        /\ undone' = undone \cup {mem[p].source}
    BY <1>1 DEF RollbackWrite, At, Undoing
  <2>2. mem[p].profile = event[mem[p].source].before
    BY <2>1, RollbackKnows DEF Undoes, IInv
  <2>3. active = event[mem[p].source].after
    BY <2>1 DEF IInv, ContentInv, Checked
  <2>4. QED
    BY <2>1, <2>2, <2>3
<1>2. CASE \A p \in Procs : ~RollbackWrite(p)
  <2>1. undone' = undone
    <3>1. ASSUME NEW p \in Procs, RunStep(p)
          PROVE  undone' = undone
      BY <3>1 DEF RunStep, RunPaused, RunActive, RunInit, RunCandidate, RunSnapshot, RunEvaluate,
                  RunDecide, RunIntent, RunPromote, Save, ghost
    <3>2. ASSUME NEW p \in Procs, RollbackStep(p)
          PROVE  undone' = undone
      BY <1>2, <3>2 DEF RollbackStep, RollbackRead, RollbackHashes, RollbackIntent, RollbackPause,
                        Save, ghost
    <3>3. ASSUME NEW p \in Procs,
                 \/ ResumeStep(p) \/ Unlock(p) \/ Crash(p) \/ Fault(p)
                 \/ StartRun(p) \/ StartResume(p) \/ (\E id \in Ids : StartRollback(p, id))
          PROVE  undone' = undone
      BY <3>3 DEF ResumeStep, ResumeRead, ResumeRemove, Save, Unlock, Crash, Fault, StartRun,
                  StartResume, StartRollback, Acquire, ghost
    <3>4. CASE UserEdit \/ RemoveStaleLock \/ \E id \in Ids : TamperSnapshot(id)
      BY <3>4 DEF UserEdit, RemoveStaleLock, TamperSnapshot, ghost
    <3>5. CASE UNCHANGED vars
      BY <3>5 DEF vars, ghost
    <3>6. QED
      BY <3>1, <3>2, <3>3, <3>4, <3>5 DEF Next, Step
  <2>2. QED
    BY <2>1
<1>3. QED
  BY <1>1, <1>2

\* A rollback replaces exactly what the experiment activated by exactly what it
\* replaced, although snapshots may have been modified.
THEOREM RollbackIsExact == ~EditsInWindow => (Spec => RollbackExact)
<1> SUFFICES ASSUME ~EditsInWindow PROVE Spec => RollbackExact
  OBVIOUS
<1>1. IInv /\ [Next]_vars =>
        [\A id \in undone' \ undone : active = event[id].after /\ active' = event[id].before]_vars
  BY RollbackStepExact
<1>2. QED
  BY <1>1, ContentInvariance, PTL DEF RollbackExact, Spec
=============================================================================
