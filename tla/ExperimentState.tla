-------------------------- MODULE ExperimentState --------------------------
(***************************************************************************)
(* The managed profile of `tracefrugal experiment`: Run, Rollback and      *)
(* Resume of internal/experiment/experiment.go over one state directory.   *)
(*                                                                         *)
(* The directory holds active.json, a "paused" marker, a lock file and one *)
(* directory per operation with its journal (event.json) and, for an       *)
(* experiment, the snapshots before.json and candidate.json.  The user may *)
(* edit active.json, snapshots may be tampered with (by the evaluator the  *)
(* experiment runs, or by hand), and a process may stop, or a read or a    *)
(* write fail, between any two steps.                                      *)
(*                                                                         *)
(* Profiles are opaque; SHA-256 equality is equality.  Costs, reports and  *)
(* messages are left out: what an evaluation decides is a choice.          *)
(***************************************************************************)
EXTENDS Naturals, FiniteSets

CONSTANTS
    Procs,          \* commands and dashboard requests in flight
    MaxRuns,        \* bound on the operations recorded under runs/
    Profiles,       \* profile texts
    Baseline,       \* the configured baseline profile
    Broken,         \* a text that is not a JSON object
    NoProfile,      \* no such file
    EditsInWindow,  \* may the user edit between a check and the write it guards?
    MaxExperiments,                               \* bound on the experiments started
    MaxEdits, MaxTampers, MaxCrashes, MaxFaults   \* bounds on the environment

ASSUME ConstantsAssumption ==
    /\ MaxRuns \in Nat /\ MaxExperiments \in Nat
    /\ Baseline \in Profiles /\ Broken \in Profiles /\ Baseline # Broken
    /\ NoProfile \notin Profiles
    /\ EditsInWindow \in BOOLEAN
    /\ MaxEdits \in Nat /\ MaxTampers \in Nat
    /\ MaxCrashes \in Nat /\ MaxFaults \in Nat

\* Operations are numbered in the order of their timestamps.
Ids == 1 .. MaxRuns

VARIABLES
    active,     \* active.json
    paused,     \* does the marker of a rollback exist?
    lock,       \* does .lock exist?
    event,      \* runs/<id>/event.json
    snap,       \* runs/<id>/before.json and candidate.json
    pc, mem,    \* each process's progress and what it holds in memory
    edit,       \* history variable: what the user last wrote to active.json
    promoted,   \* history variable: experiments that wrote active.json
    undone,     \* history variable: experiments whose rollback wrote active.json
    halted,     \* history variable: rolled back, and not resumed since
    edits, tampers, crashes, faults

disk == <<active, paused, lock, event, snap>>
ghost == <<edit, promoted, undone, halted>>
bounds == <<edits, tampers, crashes, faults>>
vars == <<disk, pc, mem, ghost, bounds>>
-----------------------------------------------------------------------------
Text == Profiles \cup {NoProfile}

\* An operation without a directory, or with a directory but no event.json yet.
Unrecorded == {"absent", "missing"}

Entry == [action : {"none", "experiment", "rollback", "resume"},
          status : Unrecorded \cup
                   {"running", "unchanged", "rejected", "recommended", "applying",
                    "applied", "error", "rolled_back", "resumed"},
          before : Text, after : Text, applied : BOOLEAN]

\* "applied" is recorded with the outcome, and with the profiles it is about.
WellFormed(e) ==
    e.applied => /\ e.status \in {"applied", "rolled_back"}
                 /\ e.before # NoProfile /\ e.after # NoProfile

NoEntry == [action |-> "none", status |-> "absent", before |-> NoProfile,
            after |-> NoProfile, applied |-> FALSE]

Opened(action) == [NoEntry EXCEPT !.action = action, !.status = "running"]

NoSnap == [before |-> NoProfile, candidate |-> NoProfile]

\* id: the operation's own record; source: the experiment a rollback undoes;
\* profile: what Run read as before, what Rollback read from the snapshot.
IdleMem == [id |-> 0, source |-> 0, profile |-> NoProfile, entry |-> NoEntry]

Init ==
    /\ active \in {NoProfile, Baseline}
    /\ paused = FALSE
    /\ lock = FALSE
    /\ event = [i \in Ids |-> NoEntry]
    /\ snap = [i \in Ids |-> NoSnap]
    /\ pc = [p \in Procs |-> "idle"]
    /\ mem = [p \in Procs |-> IdleMem]
    /\ edit = NoProfile
    /\ promoted = {} /\ undone = {} /\ halted = FALSE
    /\ edits = 0 /\ tampers = 0 /\ crashes = 0 /\ faults = 0
-----------------------------------------------------------------------------
At(p, label) == pc[p] = label
Goto(p, label) == pc' = [pc EXCEPT ![p] = label]
Fresh(id) == event[id] = NoEntry /\ \A j \in Ids : j < id => event[j] # NoEntry

\* lock(): O_EXCL creation of the lock file, or the operation is refused.
Acquire(p, label, source) ==
    /\ At(p, "idle")
    /\ ~lock
    /\ lock' = TRUE
    /\ mem' = [mem EXCEPT ![p].source = source]
    /\ Goto(p, label)
    /\ UNCHANGED <<active, paused, event, snap, ghost, bounds>>

Unlock(p) ==
    /\ At(p, "unlock")
    /\ lock' = FALSE
    /\ mem' = [mem EXCEPT ![p] = IdleMem]
    /\ Goto(p, "idle")
    /\ UNCHANGED <<active, paused, event, snap, ghost, bounds>>

Directory(action) == [NoEntry EXCEPT !.action = action, !.status = "missing"]

\* start(): a new directory, and then its journal.
MakeDir(p, action, label) ==
    \E id \in Ids :
        /\ Fresh(id)
        /\ event' = [event EXCEPT ![id] = Directory(action)]
        /\ mem' = [mem EXCEPT ![p].id = id, ![p].entry = Opened(action)]
        /\ Goto(p, label)

Refuse(p) == Goto(p, "unlock") /\ UNCHANGED <<event, mem>>

\* save(): the entry in memory becomes the journal.
Save(p, from, to) ==
    /\ At(p, from)
    /\ event' = [event EXCEPT ![mem[p].id] = mem[p].entry]
    /\ Goto(p, to)
    /\ UNCHANGED <<active, paused, lock, snap, mem, ghost, bounds>>

\* Later errors of Run are journaled by its deferred function.
Fail(p) ==
    /\ mem' = [mem EXCEPT ![p].entry.status = "error"]
    /\ Goto(p, "x_final")
-----------------------------------------------------------------------------
(* Run *)

\* Mutant: the marker of a rollback is not looked at.
RunPausedUnchecked(p) ==
    /\ At(p, "x_paused")
    /\ MakeDir(p, "experiment", "x_open")
    /\ UNCHANGED <<active, paused, lock, snap, ghost, bounds>>

RunPaused(p) ==
    /\ At(p, "x_paused")
    /\ IF paused THEN Refuse(p) ELSE MakeDir(p, "experiment", "x_open")
    /\ UNCHANGED <<active, paused, lock, snap, ghost, bounds>>

\* The first run initialises active.json from the baseline.
RunActive(p) ==
    /\ At(p, "x_active")
    /\ CASE active = NoProfile -> Goto(p, "x_init") /\ UNCHANGED mem
         [] active = Broken -> Fail(p)
         [] OTHER -> /\ mem' = [mem EXCEPT ![p].profile = active]
                     /\ Goto(p, "x_candidate")
    /\ UNCHANGED <<disk, ghost, bounds>>

RunInit(p) ==
    /\ At(p, "x_init")
    /\ active' = Baseline
    /\ mem' = [mem EXCEPT ![p].profile = Baseline]
    /\ Goto(p, "x_candidate")
    /\ UNCHANGED <<paused, lock, event, snap, ghost, bounds>>

RunCandidate(p) ==
    /\ At(p, "x_candidate")
    /\ \E after \in Profiles \ {Broken} :
         LET before == mem[p].profile
             entry == [mem[p].entry EXCEPT !.before = before, !.after = after]
         IN  IF after = before
             THEN /\ mem' = [mem EXCEPT ![p].entry = [entry EXCEPT !.status = "unchanged"]]
                  /\ Goto(p, "x_final")
             ELSE /\ mem' = [mem EXCEPT ![p].entry = entry]
                  /\ Goto(p, "x_before")
    /\ UNCHANGED <<disk, ghost, bounds>>

RunSnapshot(p) ==
    /\ \/ /\ At(p, "x_before")
          /\ snap' = [snap EXCEPT ![mem[p].id].before = mem[p].entry.before]
          /\ Goto(p, "x_after")
       \/ /\ At(p, "x_after")
          /\ snap' = [snap EXCEPT ![mem[p].id].candidate = mem[p].entry.after]
          /\ Goto(p, "x_save")
    /\ UNCHANGED <<active, paused, lock, event, mem, ghost, bounds>>

\* Both evaluations; the costs saved in between are left out.
RunEvaluate(p) ==
    /\ At(p, "x_eval")
    /\ Goto(p, "x_check") /\ UNCHANGED mem
    /\ UNCHANGED <<disk, ghost, bounds>>

Attributable(p) ==
    /\ snap[mem[p].id].before = mem[p].entry.before
    /\ snap[mem[p].id].candidate = mem[p].entry.after

\* Mutant: a promotion does not look at the active profile again.
UnchangedAssumed(p) == TRUE

ActiveUnchanged(p) == active = mem[p].entry.before

\* A verified improvement is promoted when auto_apply is configured.
RunDecide(p) ==
    /\ At(p, "x_check")
    /\ IF ~Attributable(p) THEN Fail(p)
       ELSE \/ \E verdict \in {"rejected", "recommended"} :
                 /\ mem' = [mem EXCEPT ![p].entry.status = verdict]
                 /\ Goto(p, "x_final")
            \/ IF ActiveUnchanged(p)
               THEN /\ mem' = [mem EXCEPT ![p].entry.status = "applying"]
                    /\ Goto(p, "x_applying")
               ELSE Fail(p)
    /\ UNCHANGED <<disk, ghost, bounds>>

\* Mutant: the intent is not journaled before the promotion.
RunIntentSkipped(p) ==
    /\ At(p, "x_applying")
    /\ Goto(p, "x_promote")
    /\ UNCHANGED <<disk, mem, ghost, bounds>>

RunIntent(p) == Save(p, "x_applying", "x_promote")

RunPromote(p) ==
    /\ At(p, "x_promote")
    /\ active' = mem[p].entry.after
    /\ mem' = [mem EXCEPT ![p].entry.applied = TRUE, ![p].entry.status = "applied"]
    /\ promoted' = promoted \cup {mem[p].id}
    /\ Goto(p, "x_final")
    /\ UNCHANGED <<paused, lock, event, snap, edit, undone, halted, bounds>>

RunStep(p) ==
    \/ RunPaused(p) \/ RunActive(p) \/ RunInit(p) \/ RunCandidate(p)
    \/ RunSnapshot(p) \/ RunEvaluate(p) \/ RunDecide(p) \/ RunIntent(p) \/ RunPromote(p)
    \/ Save(p, "x_open", "x_active")
    \/ Save(p, "x_save", "x_eval")
    \/ Save(p, "x_final", "unlock")
-----------------------------------------------------------------------------
(* Rollback *)

\* Mutant: the snapshot is restored as it is found.
RestorableUnverified(id) ==
    /\ event[id].applied /\ event[id].action = "experiment"
    /\ active = event[id].after
    /\ snap[id].before \in Profiles \ {Broken}

\* Mutant: a paused state refuses rollbacks too.
RestorableUnpaused(id) ==
    /\ ~paused
    /\ event[id].applied /\ event[id].action = "experiment"
    /\ active \notin {NoProfile, Broken} /\ active = event[id].after
    /\ snap[id].before = event[id].before

\* The experiment was applied, its candidate is active, its snapshot is intact.
Restorable(id) ==
    /\ event[id].applied /\ event[id].action = "experiment"
    /\ active \notin {NoProfile, Broken} /\ active = event[id].after
    /\ snap[id].before = event[id].before

\* The text read here is the one written at the end.
RollbackRead(p) ==
    LET source == mem[p].source
    IN  /\ At(p, "b_read")
        /\ IF Restorable(source)
           THEN \E id \in Ids :
                  /\ Fresh(id)
                  /\ event' = [event EXCEPT ![id] = Directory("rollback")]
                  /\ mem' = [mem EXCEPT ![p] =
                       [@ EXCEPT !.id = id, !.entry = Opened("rollback"),
                                 !.profile = snap[source].before]]
                  /\ Goto(p, "b_open")
           ELSE Refuse(p)
        /\ UNCHANGED <<active, paused, lock, snap, ghost, bounds>>

\* start() has saved the entry; it is completed with the hashes and saved again.
RollbackHashes(p) ==
    /\ At(p, "b_hashes")
    /\ mem' = [mem EXCEPT ![p].entry.before = event[mem[p].source].after,
                          ![p].entry.after = mem[p].profile]
    /\ Goto(p, "b_save")
    /\ UNCHANGED <<disk, ghost, bounds>>

RollbackIntent(p) == Save(p, "b_save", "b_pause")

RollbackPause(p) ==
    /\ At(p, "b_pause")
    /\ paused' = TRUE
    /\ Goto(p, "b_write")
    /\ UNCHANGED <<active, lock, event, snap, mem, ghost, bounds>>

\* Mutant: the status is not set with "applied".
RollbackWriteUnmarked(p) ==
    /\ At(p, "b_write")
    /\ active' = mem[p].profile
    /\ undone' = undone \cup {mem[p].source}
    /\ halted' = TRUE
    /\ mem' = [mem EXCEPT ![p].entry.applied = TRUE]
    /\ Goto(p, "b_final")
    /\ UNCHANGED <<paused, lock, event, snap, edit, promoted, bounds>>

RollbackWrite(p) ==
    /\ At(p, "b_write")
    /\ active' = mem[p].profile
    /\ undone' = undone \cup {mem[p].source}
    /\ halted' = TRUE
    /\ mem' = [mem EXCEPT ![p].entry.applied = TRUE,
                          ![p].entry.status = "rolled_back"]
    /\ Goto(p, "b_final")
    /\ UNCHANGED <<paused, lock, event, snap, edit, promoted, bounds>>

RollbackStep(p) ==
    \/ RollbackRead(p) \/ RollbackHashes(p) \/ RollbackIntent(p)
    \/ RollbackPause(p) \/ RollbackWrite(p)
    \/ Save(p, "b_open", "b_hashes")
    \/ Save(p, "b_final", "unlock")
-----------------------------------------------------------------------------
(* Resume *)

ResumeRead(p) ==
    /\ At(p, "u_read")
    /\ IF paused THEN MakeDir(p, "resume", "u_open") ELSE Refuse(p)
    /\ UNCHANGED <<active, paused, lock, snap, ghost, bounds>>

ResumeRemove(p) ==
    /\ At(p, "u_remove")
    /\ paused' = FALSE
    /\ halted' = FALSE
    /\ mem' = [mem EXCEPT ![p].entry.status = "resumed"]
    /\ Goto(p, "u_final")
    /\ UNCHANGED <<active, lock, event, snap, edit, promoted, undone, bounds>>

ResumeStep(p) ==
    \/ ResumeRead(p) \/ ResumeRemove(p)
    \/ Save(p, "u_open", "u_remove")
    \/ Save(p, "u_final", "unlock")
-----------------------------------------------------------------------------
(* Requests of the command line and of the dashboard *)

Room == \E id \in Ids : Fresh(id)
Experiments == {id \in Ids : event[id].action = "experiment"}

StartRun(p) == Cardinality(Experiments) < MaxExperiments /\ Room /\ Acquire(p, "x_paused", 0)
StartRollback(p, id) == Room /\ Acquire(p, "b_read", id)
StartResume(p) == Room /\ Acquire(p, "u_read", 0)
-----------------------------------------------------------------------------
(* The environment *)

\* Between the check of active.json and the write it guards.
InWindow(p) ==
    pc[p] \in {"x_init", "x_applying", "x_promote",
               "b_open", "b_hashes", "b_save", "b_pause", "b_write"}

UserEdit ==
    /\ edits < MaxEdits
    /\ EditsInWindow \/ \A p \in Procs : ~InWindow(p)
    /\ \E text \in Text \ {active} : active' = text /\ edit' = text
    /\ edits' = edits + 1
    /\ UNCHANGED <<paused, lock, event, snap, pc, mem, promoted, undone, halted,
                   tampers, crashes, faults>>

\* The evaluator runs with the user's permissions and is given the snapshots' paths.
TamperSnapshot(id) ==
    /\ tampers < MaxTampers
    /\ event[id].action = "experiment"
    /\ \E text \in Text : snap' = [snap EXCEPT ![id].before = text]
    /\ tampers' = tampers + 1
    /\ UNCHANGED <<active, paused, lock, event, pc, mem, ghost, edits, crashes, faults>>

Crash(p) ==
    /\ crashes < MaxCrashes
    /\ ~At(p, "idle")
    /\ crashes' = crashes + 1
    /\ mem' = [mem EXCEPT ![p] = IdleMem]
    /\ Goto(p, "idle")
    /\ UNCHANGED <<disk, ghost, edits, tampers, faults>>

\* Run journals an error once it has its journal; everything else just returns.
Journaled == {"x_active", "x_init", "x_candidate", "x_before", "x_after", "x_save",
              "x_eval", "x_check", "x_applying", "x_promote"}

Fault(p) ==
    /\ faults < MaxFaults
    /\ ~At(p, "idle")
    /\ faults' = faults + 1
    /\ CASE pc[p] \in Journaled -> Fail(p)
         [] At(p, "unlock") -> mem' = [mem EXCEPT ![p] = IdleMem] /\ Goto(p, "idle")
         [] OTHER -> Goto(p, "unlock") /\ UNCHANGED mem
    /\ UNCHANGED <<disk, ghost, edits, tampers, crashes>>

\* docs/experiments.md: only after the runner has stopped.
RemoveStaleLock ==
    /\ lock /\ \A p \in Procs : At(p, "idle")
    /\ lock' = FALSE
    /\ UNCHANGED <<active, paused, event, snap, pc, mem, ghost, bounds>>
-----------------------------------------------------------------------------
Step(p) == RunStep(p) \/ RollbackStep(p) \/ ResumeStep(p) \/ Unlock(p)

Next ==
    \/ \E p \in Procs :
          \/ Step(p) \/ StartRun(p) \/ StartResume(p) \/ Crash(p) \/ Fault(p)
          \/ \E id \in Ids : StartRollback(p, id)
    \/ UserEdit \/ RemoveStaleLock
    \/ \E id \in Ids : TamperSnapshot(id)

Spec == Init /\ [][Next]_vars

\* A command that started goes on, a stale lock is removed in the end, and the
\* user asks for the rollback again while it is refused.
Fairness ==
    /\ \A p \in Procs : WF_vars(Step(p))
    /\ WF_vars(RemoveStaleLock)
    /\ \A id \in Ids : SF_vars(\E p \in Procs : StartRollback(p, id))

FairSpec == Spec /\ Fairness
-----------------------------------------------------------------------------
Labels == {"idle", "unlock", "x_paused", "x_open", "x_final", "b_read", "b_open",
           "b_hashes", "b_save", "b_pause", "b_write", "b_final",
           "u_read", "u_open", "u_remove", "u_final"} \cup Journaled

Memory == [id : Ids \cup {0}, source : Ids \cup {0}, profile : Text, entry : Entry]
Snapshots == [before : Text, candidate : Text]

\* Every variable has its type, and a journal that says "applied" names both
\* profiles and an outcome (the dashboard reads these three together).
TypeOK ==
    /\ active \in Text /\ edit \in Text
    /\ paused \in BOOLEAN /\ lock \in BOOLEAN /\ halted \in BOOLEAN
    /\ event \in [Ids -> Entry] /\ \A id \in Ids : WellFormed(event[id])
    /\ snap \in [Ids -> Snapshots]
    /\ pc \in [Procs -> Labels]
    /\ mem \in [Procs -> Memory]
    /\ promoted \subseteq Ids /\ undone \subseteq Ids
    /\ edits \in 0 .. MaxEdits /\ tampers \in 0 .. MaxTampers
    /\ crashes \in 0 .. MaxCrashes /\ faults \in 0 .. MaxFaults

\* What the user wrote to active.json is still there or in a snapshot of the
\* experiment that replaced it: "refusing promotion" (experiment.go:336) and the
\* hash guard of Rollback (experiment.go:387), across crashes and failed writes.
\* Nobody keeps the snapshots from being modified; a modified one is not counted on.
EditKept ==
    \/ tampers > 0
    \/ edit \in {NoProfile, active}
    \/ \E id \in Ids : edit \in {snap[id].before, snap[id].candidate}

RecordsRollbackOf(r, id) ==
    /\ event[r].action = "rollback" /\ event[r].status \in {"running", "rolled_back"}
    /\ event[r].before = event[id].after /\ event[r].after = event[id].before

\* Wherever the process stopped, an experiment that wrote active.json is
\* journaled as applying or applied, one journaled as applied did write it, and
\* every rollback that wrote it left a record with both hashes, so the journal
\* can be inspected after a crash as docs/experiments.md tells the user to.
JournalHonest ==
    /\ \A id \in promoted : event[id].status \in {"applying", "applied"}
    /\ \A id \in Experiments : event[id].applied => id \in promoted
    /\ \A id \in undone : \E r \in Ids : RecordsRollbackOf(r, id)

\* From the moment a rollback writes active.json until a resume, the marker is
\* there and no experiment is past its look at it, so none can promote.
PauseHolds ==
    halted => /\ paused
              /\ \A p \in Procs : pc[p] \notin Journaled \cup {"x_open", "x_final"}

\* A rollback replaces exactly the profile the experiment activated by exactly
\* the profile it replaced, although snapshots may have been modified.
RollbackExact ==
    [][\A id \in undone' \ undone :
         active = event[id].after /\ active' = event[id].before]_vars

Undoable(id) ==
    id \in Experiments /\ event[id].applied /\ active = event[id].after

\* An applied experiment whose candidate is active can be undone in the end,
\* also after a rollback of it stopped halfway.
UndoWorks == \A id \in Ids : Undoable(id) ~> ~Undoable(id)

\* docs/experiments.md:49: a rollback refuses to overwrite newer changes.
NewestFirst ==
    [][\A p \in Procs : RollbackWrite(p) =>
         \A id \in promoted : id > mem[p].source => id \in undone]_vars
=============================================================================
