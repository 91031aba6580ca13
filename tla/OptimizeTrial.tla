--------------------------- MODULE OptimizeTrial ---------------------------
(***************************************************************************)
(* The reversible settings trial of `tracefrugal optimize`                 *)
(* (internal/optimize/state.go, and the diagnosis it is guarded by in      *)
(* internal/optimize/doctor.go and cmd/tracefrugal/optimize.go).           *)
(*                                                                         *)
(* Several TraceFrugal processes (optimizer servers, SessionStart hooks)   *)
(* share one state directory, which holds a lock directory, the journal    *)
(* history.json, one backup per trial and the activation receipts.  They   *)
(* change one file they do not own, <project>/.claude/settings.local.json, *)
(* which the user may edit at any moment.  Every durable write is a step   *)
(* of its own, a process may stop between two steps, and every write may   *)
(* fail.                                                                   *)
(*                                                                         *)
(* SHA-256 equality of file contents is modelled as equality.              *)
(***************************************************************************)
EXTENDS Naturals, FiniteSets

CONSTANTS
    Servers,        \* `tracefrugal optimize` processes: they hold a diagnosis
    Hooks,          \* SessionStart hooks: `tracefrugal optimizer-receipt`
    Ids,            \* trial IDs, drawn fresh by Apply
    Bases,          \* user-written settings texts, the hook entry left aside
    EmptyObject,    \* the text "{}\n", which readSettings reports for no file
    Broken,         \* a text that is not a JSON object
    NoId,           \* "no trial"
    EditsInWindow,  \* may the user edit between a check and the write it guards?
    MaxEdits, MaxCrashes, MaxFaults      \* bounds on the environment

ASSUME ConstantsAssumption ==
    /\ Servers \cap Hooks = {}
    /\ EmptyObject \in Bases
    /\ Broken \in Bases
    /\ EmptyObject # Broken
    /\ NoId \notin Ids
    /\ EditsInWindow \in BOOLEAN
    /\ MaxEdits \in Nat /\ MaxCrashes \in Nat /\ MaxFaults \in Nat

Procs == Servers \cup Hooks

VARIABLES
    file,       \* settings.local.json as it is on disk
    journal,    \* history.json: the trial recorded for each ID
    backup,     \* <state>/<id>/before.json
    receipts,   \* IDs with a SessionStart receipt
    lock,       \* does <state>/.lock exist?
    doctor,     \* each server's last diagnosis (memory)
    pc, mem,    \* each process's progress and what it has read
    own,        \* history variable: the settings as the user last left them
    touched,    \* history variable: edited since the latest trial was drawn?
    edits, crashes, faults

disk == <<file, journal, backup, receipts, lock>>
ghost == <<own, touched>>
bounds == <<edits, crashes, faults>>
vars == <<disk, doctor, pc, mem, ghost, bounds>>
-----------------------------------------------------------------------------
Content == [base : Bases, hook : Ids \cup {NoId}]

\* "private" is the 0600 of a freshly created temporary file.
Modes == {"private", "shared"}

File == [exists : BOOLEAN, bytes : Content, mode : Modes]

\* What readSettings returns when there is no file.
Absent == [exists |-> FALSE,
           bytes |-> [base |-> EmptyObject, hook |-> NoId],
           mode |-> "private"]

Parses(b) == b.base # Broken

\* The proposed settings: the same text with the limit and the trial's hook.
AfterSettings(b, id) == [b EXCEPT !.hook = id]

Trial == [status : {"none", "prepared", "active", "restoring", "restored"},
          before : Content, existed : BOOLEAN, mode : Modes,
          outcome : {"unknown", "good"}]   \* "regression" is one more verdict

NoTrial == [status |-> "none", before |-> Absent.bytes, existed |-> FALSE,
            mode |-> "private", outcome |-> "unknown"]

NoBackup == [base |-> Broken, hook |-> NoId]

\* The trials Apply refuses to start next to.
Live(j, id) == j[id].status \notin {"none", "restored"}

HasContent(f, exists, bytes) == f.exists = exists /\ f.bytes = bytes

IsBefore(f, t) == HasContent(f, t.existed, t.before)
IsAfter(f, t, id) == HasContent(f, TRUE, AfterSettings(t.before, id))

\* The diagnosis of the current file; a text that already carries the hook
\* has the proposed limit, so nothing is proposed for it.
Diagnosis == [ready |-> Parses(file.bytes) /\ file.bytes.hook = NoId,
              exists |-> file.exists, bytes |-> file.bytes]

Diagnoses == [ready : BOOLEAN, exists : BOOLEAN, bytes : Content]

NoDiagnosis == [ready |-> FALSE, exists |-> FALSE, bytes |-> Absent.bytes]

Memory == [id : Ids \cup {NoId}, journal : [Ids -> Trial], same : BOOLEAN,
           outcome : {"unknown", "good", "keep"}]

IdleMem == [id |-> NoId, journal |-> [i \in Ids |-> NoTrial],
            same |-> FALSE, outcome |-> "unknown"]

Init ==
    /\ file \in {f \in File : /\ f.bytes.hook = NoId
                              /\ ~f.exists => f = Absent}
    /\ journal = [i \in Ids |-> NoTrial]
    /\ backup = [i \in Ids |-> NoBackup]
    /\ receipts = {}
    /\ lock = FALSE
    /\ doctor = [s \in Servers |-> NoDiagnosis]
    /\ pc = [p \in Procs |-> "idle"]
    /\ mem = [p \in Procs |-> IdleMem]
    /\ own = file
    /\ touched = FALSE
    /\ edits = 0 /\ crashes = 0 /\ faults = 0
-----------------------------------------------------------------------------
(***************************************************************************)
(* locked(): mkdir of the lock directory either succeeds or the operation  *)
(* is refused at once, so an operation starts only when there is no lock.  *)
(***************************************************************************)
Label == {"idle", "diagnose", "unlock", "r_unlock", "a_check", "a_backup",
          "a_journal", "a_recheck", "a_write", "a_commit", "r_check",
          "r_journal", "r_write", "r_chmod", "r_commit", "t_check", "t_save",
          "h_check", "h_write"}

At(p, label) == pc[p] = label
Goto(p, label) == pc' = [pc EXCEPT ![p] = label]

Acquire(p, label) ==
    /\ At(p, "idle")
    /\ ~lock
    /\ lock' = TRUE
    /\ Goto(p, label)

Release(p, label) ==
    /\ lock' = FALSE
    /\ Goto(p, label)
    /\ mem' = [mem EXCEPT ![p] = IdleMem]
    /\ UNCHANGED <<file, journal, backup, receipts, doctor, ghost, bounds>>

Unlock(p) == At(p, "unlock") /\ Release(p, "idle")

\* A successful restore is followed by a new diagnosis, outside the lock.
UnlockRestored(p) == At(p, "r_unlock") /\ Release(p, "diagnose")

\* POST /api/diagnose, and the diagnosis a server makes when it starts.
Diagnose(p) ==
    /\ pc[p] \in {"idle", "diagnose"}
    /\ doctor' = [doctor EXCEPT ![p] = Diagnosis]
    /\ Goto(p, "idle")
    /\ UNCHANGED <<disk, mem, ghost, bounds>>
-----------------------------------------------------------------------------
(* Apply *)

StartApply(p) ==
    /\ Acquire(p, "a_check")
    /\ UNCHANGED <<file, journal, backup, receipts, doctor, mem, ghost, bounds>>

\* Mutant: an unfinished trial does not stop the next one.
ApplyAllowedAlways(p) ==
    /\ doctor[p].ready
    /\ Parses(file.bytes)
    /\ HasContent(file, doctor[p].exists, doctor[p].bytes)

ApplyAllowed(p) ==
    /\ doctor[p].ready
    /\ \A i \in Ids : ~Live(journal, i)
    /\ Parses(file.bytes)
    /\ HasContent(file, doctor[p].exists, doctor[p].bytes)

ApplyCheck(p) ==
    /\ At(p, "a_check")
    /\ ApplyAllowed(p)
    /\ \E id \in Ids :
         /\ journal[id].status = "none"
         /\ backup[id] = NoBackup
         /\ LET t == [status |-> "prepared", before |-> file.bytes,
                      existed |-> file.exists, mode |-> file.mode,
                      outcome |-> "unknown"]
            IN mem' = [mem EXCEPT ![p].id = id,
                                  ![p].journal = [journal EXCEPT ![id] = t]]
    /\ touched' = FALSE
    /\ own' = [own EXCEPT !.mode = file.mode]
    /\ Goto(p, "a_backup")
    /\ UNCHANGED <<disk, doctor, bounds>>

ApplyRefused(p) ==
    /\ At(p, "a_check")
    /\ ~ApplyAllowed(p)
    /\ Goto(p, "unlock")
    /\ UNCHANGED <<disk, doctor, mem, ghost, bounds>>

\* before.json; after.json and baseline.json, written here too, are never
\* read back by an operation that changes the settings.
ApplyBackup(p) ==
    /\ At(p, "a_backup")
    /\ LET id == mem[p].id
       IN backup' = [backup EXCEPT ![id] = mem[p].journal[id].before]
    /\ Goto(p, "a_journal")
    /\ UNCHANGED <<file, journal, receipts, lock, doctor, mem, ghost, bounds>>

ApplyJournal(p) ==
    /\ At(p, "a_journal")
    /\ journal' = mem[p].journal
    /\ Goto(p, "a_recheck")
    /\ UNCHANGED <<file, backup, receipts, lock, doctor, mem, ghost, bounds>>

\* Mutant: the second look at the settings is dropped.
UnchangedAssumed(p) == TRUE

\* The settings are read again after the intent is durable.
Unchanged(p) ==
    LET t == mem[p].journal[mem[p].id] IN Parses(file.bytes) /\ IsBefore(file, t)

ApplyRecheck(p) ==
    /\ At(p, "a_recheck")
    /\ Goto(p, IF Unchanged(p) THEN "a_write" ELSE "unlock")
    /\ UNCHANGED <<disk, doctor, mem, ghost, bounds>>

ApplyWrite(p) ==
    /\ At(p, "a_write")
    /\ LET id == mem[p].id
           t == mem[p].journal[id]
       IN file' = [exists |-> TRUE, bytes |-> AfterSettings(t.before, id),
                   mode |-> "private"]
    /\ Goto(p, "a_commit")
    /\ UNCHANGED <<journal, backup, receipts, lock, doctor, mem, ghost, bounds>>

ApplyCommit(p) ==
    /\ At(p, "a_commit")
    /\ journal' = [mem[p].journal EXCEPT ![mem[p].id].status = "active"]
    /\ Goto(p, "unlock")
    /\ UNCHANGED <<file, backup, receipts, lock, doctor, mem, ghost, bounds>>
-----------------------------------------------------------------------------
(* Restore *)

StartRestore(p, id) ==
    /\ Acquire(p, "r_check")
    /\ mem' = [mem EXCEPT ![p].id = id]
    /\ UNCHANGED <<file, journal, backup, receipts, doctor, ghost, bounds>>

\* Restore acts only on the text it applied or on the text it would restore.
Restorable(f, t, id) == IsBefore(f, t) \/ IsAfter(f, t, id)

\* Mutant: only a committed trial can be restored.
RestoreAllowedActive(id) ==
    /\ journal[id].status = "active"
    /\ Parses(file.bytes)
    /\ Restorable(file, journal[id], id)
    /\ backup[id] = journal[id].before

RestoreAllowed(id) ==
    /\ Live(journal, id)
    /\ Parses(file.bytes)
    /\ Restorable(file, journal[id], id)
    /\ backup[id] = journal[id].before

\* Mutant: the outcome is recorded before the settings are written.
RestoreCheckFinal(p) ==
    /\ At(p, "r_check")
    /\ RestoreAllowed(mem[p].id)
    /\ mem' = [mem EXCEPT
         ![p].journal = [journal EXCEPT ![mem[p].id].status = "restored"],
         ![p].same = IsBefore(file, journal[mem[p].id])]
    /\ Goto(p, "r_journal")
    /\ UNCHANGED <<disk, doctor, ghost, bounds>>

RestoreCheck(p) ==
    /\ At(p, "r_check")
    /\ RestoreAllowed(mem[p].id)
    /\ mem' = [mem EXCEPT
         ![p].journal = [journal EXCEPT ![mem[p].id].status = "restoring"],
         ![p].same = IsBefore(file, journal[mem[p].id])]
    /\ Goto(p, "r_journal")
    /\ UNCHANGED <<disk, doctor, ghost, bounds>>

\* Restoring twice is a success that changes nothing.
RestoreRefused(p) ==
    /\ At(p, "r_check")
    /\ ~RestoreAllowed(mem[p].id)
    /\ Goto(p, IF journal[mem[p].id].status = "restored"
               THEN "r_unlock" ELSE "unlock")
    /\ UNCHANGED <<disk, doctor, mem, ghost, bounds>>

RestoreJournal(p) ==
    /\ At(p, "r_journal")
    /\ journal' = mem[p].journal
    /\ Goto(p, IF mem[p].same THEN "r_commit" ELSE "r_write")
    /\ UNCHANGED <<file, backup, receipts, lock, doctor, mem, ghost, bounds>>

\* The original bytes come back in a new file with the mode of a temporary one.
RestoreWrite(p) ==
    /\ At(p, "r_write")
    /\ LET t == mem[p].journal[mem[p].id] IN
         /\ t.existed
         /\ file' = [exists |-> TRUE, bytes |-> t.before, mode |-> "private"]
    /\ Goto(p, "r_chmod")
    /\ UNCHANGED <<journal, backup, receipts, lock, doctor, mem, ghost, bounds>>

RestoreRemove(p) ==
    /\ At(p, "r_write")
    /\ ~mem[p].journal[mem[p].id].existed
    /\ file' = Absent
    /\ Goto(p, IF file.exists THEN "r_commit" ELSE "unlock")
    /\ UNCHANGED <<journal, backup, receipts, lock, doctor, mem, ghost, bounds>>

RestoreChmod(p) ==
    /\ At(p, "r_chmod")
    /\ IF file.exists
       THEN /\ file' = [file EXCEPT !.mode = mem[p].journal[mem[p].id].mode]
            /\ Goto(p, "r_commit")
       ELSE /\ UNCHANGED file
            /\ Goto(p, "unlock")
    /\ UNCHANGED <<journal, backup, receipts, lock, doctor, mem, ghost, bounds>>

RestoreCommit(p) ==
    /\ At(p, "r_commit")
    /\ journal' = [mem[p].journal EXCEPT ![mem[p].id].status = "restored"]
    /\ Goto(p, "r_unlock")
    /\ UNCHANGED <<file, backup, receipts, lock, doctor, mem, ghost, bounds>>
-----------------------------------------------------------------------------
(* Rate, and Record: the SessionStart hook of the applied settings *)

StartRate(p, id, outcome) ==
    /\ Acquire(p, "t_check")
    /\ mem' = [mem EXCEPT ![p].id = id, ![p].outcome = outcome]
    /\ UNCHANGED <<file, journal, backup, receipts, doctor, ghost, bounds>>

\* Mutant: "keep" is stored as it was sent.
VerdictAsSent(outcome) == outcome

Verdict(outcome) == IF outcome = "keep" THEN "good" ELSE outcome

\* "keep" confirms an active setting as good; other ratings only need a trial.
RateCheck(p) ==
    /\ At(p, "t_check")
    /\ LET id == mem[p].id
           keep == mem[p].outcome = "keep"
           allowed == IF keep THEN journal[id].status = "active"
                              ELSE journal[id].status # "none"
       IN IF allowed
          THEN /\ mem' = [mem EXCEPT ![p].journal =
                                    [journal EXCEPT ![id].outcome = Verdict(mem[p].outcome)]]
               /\ Goto(p, "t_save")
          ELSE /\ UNCHANGED mem
               /\ Goto(p, "unlock")
    /\ UNCHANGED <<disk, doctor, ghost, bounds>>

RateSave(p) ==
    /\ At(p, "t_save")
    /\ journal' = mem[p].journal
    /\ Goto(p, "unlock")
    /\ UNCHANGED <<file, backup, receipts, lock, doctor, mem, ghost, bounds>>

\* Mutant: the hook does not take the lock.
StartRecordUnlocked(p, id) ==
    /\ backup[id] # NoBackup
    /\ At(p, "idle")
    /\ Goto(p, "h_check")
    /\ mem' = [mem EXCEPT ![p].id = id]
    /\ UNCHANGED <<disk, doctor, ghost, bounds>>

\* A session runs the hook its settings name when it starts; a session started
\* earlier may still deliver it after the settings have changed.
StartRecord(p, id) ==
    /\ backup[id] # NoBackup
    /\ Acquire(p, "h_check")
    /\ mem' = [mem EXCEPT ![p].id = id]
    /\ UNCHANGED <<file, journal, backup, receipts, doctor, ghost, bounds>>

RecordCheck(p) ==
    /\ At(p, "h_check")
    /\ Goto(p, IF journal[mem[p].id].status = "active" THEN "h_write" ELSE "unlock")
    /\ UNCHANGED <<disk, doctor, mem, ghost, bounds>>

RecordWrite(p) ==
    /\ At(p, "h_write")
    /\ receipts' = receipts \cup {mem[p].id}
    /\ Goto(p, "unlock")
    /\ UNCHANGED <<file, journal, backup, lock, doctor, mem, ghost, bounds>>
-----------------------------------------------------------------------------
(* The environment *)

\* Between the last look at the file and the write that look was for.
InWindow(p) ==
    \/ At(p, "a_write")
    \/ pc[p] \in {"r_journal", "r_write"} /\ ~mem[p].same

\* What the user would expect to find again once every trial is undone: the
\* text just written, unless it is exactly the text a live trial applied.
UserOwns(f) ==
    LET undone == {id \in Ids : Live(journal, id) /\ IsAfter(f, journal[id], id)}
    IN IF undone = {} THEN {f}
       ELSE {[exists |-> journal[id].existed, bytes |-> journal[id].before,
              mode |-> f.mode] : id \in undone}

\* The user, or another program, writes, deletes or chmods the settings.  The
\* trial's hook entry is machine-written: an edit keeps it or removes it.
UserEdit ==
    /\ edits < MaxEdits
    /\ EditsInWindow \/ \A p \in Procs : ~InWindow(p)
    /\ \E f \in {g \in File : /\ g.bytes.hook \in {NoId, file.bytes.hook}
                              /\ ~g.exists => g = Absent} :
         /\ f # file
         /\ file' = f
         /\ own' \in UserOwns(f)
    /\ touched' = TRUE
    /\ edits' = edits + 1
    /\ UNCHANGED <<journal, backup, receipts, lock, doctor, pc, mem, crashes, faults>>

\* A process stops; what it had locked stays locked.
Crash(p) ==
    /\ crashes < MaxCrashes
    /\ pc' = [pc EXCEPT ![p] = "idle"]
    /\ mem' = [mem EXCEPT ![p] = IdleMem]
    /\ doctor' = [s \in Servers |-> IF s = p THEN NoDiagnosis ELSE doctor[s]]
    /\ crashes' = crashes + 1
    /\ UNCHANGED <<disk, ghost, edits, faults>>

Holding(p) == pc[p] \notin {"idle", "diagnose"}

\* A read or a write fails: the operation returns its error.  The removal of
\* the lock may fail too, and its error is ignored.
Fault(p) ==
    /\ faults < MaxFaults
    /\ Holding(p)
    /\ IF pc[p] \in {"unlock", "r_unlock"}
       THEN /\ Goto(p, IF At(p, "unlock") THEN "idle" ELSE "diagnose")
            /\ mem' = [mem EXCEPT ![p] = IdleMem]
       ELSE /\ Goto(p, "unlock")
            /\ UNCHANGED mem
    /\ faults' = faults + 1
    /\ UNCHANGED <<disk, doctor, ghost, edits, crashes>>

\* The user follows the message of a refused operation, and removes the lock
\* once no process is using it.
RemoveStaleLock ==
    /\ lock
    /\ \A p \in Procs : ~Holding(p)
    /\ lock' = FALSE
    /\ UNCHANGED <<file, journal, backup, receipts, doctor, pc, mem, ghost, bounds>>
-----------------------------------------------------------------------------
Step(p) ==
    \/ Unlock(p) \/ UnlockRestored(p)
    \/ ApplyCheck(p) \/ ApplyRefused(p) \/ ApplyBackup(p) \/ ApplyJournal(p)
    \/ ApplyRecheck(p) \/ ApplyWrite(p) \/ ApplyCommit(p)
    \/ RestoreCheck(p) \/ RestoreRefused(p) \/ RestoreJournal(p)
    \/ RestoreWrite(p) \/ RestoreRemove(p) \/ RestoreChmod(p) \/ RestoreCommit(p)
    \/ RateCheck(p) \/ RateSave(p)
    \/ RecordCheck(p) \/ RecordWrite(p)

Request(s) ==
    \/ StartApply(s)
    \/ \E id \in Ids : StartRestore(s, id)
    \/ \E id \in Ids, outcome \in {"unknown", "good", "keep"} :
          StartRate(s, id, outcome)
    \/ Diagnose(s)

Environment ==
    \/ UserEdit
    \/ \E p \in Procs : Crash(p) \/ Fault(p)
    \/ RemoveStaleLock

Next ==
    \/ \E p \in Procs : Step(p)
    \/ \E s \in Servers : Request(s)
    \/ \E h \in Hooks, id \in Ids : StartRecord(h, id)
    \/ Environment

Spec == Init /\ [][Next]_vars

\* A running operation goes on, a stale lock is removed, and the user keeps
\* asking for the restore of a trial, from some process that finds the lock
\* free again and again.
Fairness ==
    /\ \A p \in Procs : WF_vars(Step(p))
    /\ \A s \in Servers : WF_vars(At(s, "diagnose") /\ Diagnose(s))
    /\ WF_vars(RemoveStaleLock)
    /\ \A id \in Ids : SF_vars(\E s \in Servers : StartRestore(s, id))

FairSpec == Spec /\ Fairness
-----------------------------------------------------------------------------
TypeOK ==
    /\ file \in File
    /\ journal \in [Ids -> Trial]
    /\ backup \in [Ids -> Content]
    /\ receipts \subseteq Ids
    /\ lock \in BOOLEAN
    /\ doctor \in [Servers -> Diagnoses]
    /\ pc \in [Procs -> Label]
    /\ mem \in [Procs -> Memory]
    /\ own \in File
    /\ touched \in BOOLEAN
    /\ edits \in 0 .. MaxEdits
    /\ crashes \in 0 .. MaxCrashes
    /\ faults \in 0 .. MaxFaults

\* At any time at most one trial is waiting to be restored, whatever crashed
\* or failed in between (Apply: "restore or recover the existing trial first").
OneLiveTrial ==
    \A i, j \in Ids : Live(journal, i) /\ Live(journal, j) => i = j

SameContent(f, g) == f.exists = g.exists /\ f.bytes = g.bytes

\* The text on disk is the text the trial applied, and the journal and the
\* backup let Restore bring back what the user had.
Recorded(id) ==
    /\ Live(journal, id)
    /\ IsAfter(file, journal[id], id)
    /\ journal[id].existed = own.exists
    /\ journal[id].before = own.bytes
    /\ backup[id] = own.bytes

\* What the user last left in the settings is never lost: it is on disk, or it
\* is one Restore away, at every instant of every operation and after any
\* crash or I/O error (Apply: "Snapshots and intent are durable before the
\* settings file changes. Interrupted commits are recoverable").
UserContentKept ==
    \/ SameContent(file, own)
    \/ \E id \in Ids : Recorded(id)

\* The journal never claims what the file does not show: without later edits,
\* an active trial's settings are on disk and a restored history leaves the
\* user's text there.
JournalHonest ==
    ~touched =>
        /\ \A id \in Ids :
             journal[id].status = "active" => IsAfter(file, journal[id], id)
        /\ (\A id \in Ids : ~Live(journal, id)) => SameContent(file, own)

\* After a trial that nothing but TraceFrugal touched, the settings have the
\* permissions they had (docs/local-optimizer.md: "Restore recreates the exact
\* original bytes and permissions").
PermissionsKept ==
    /\ ~touched
    /\ \A id \in Ids : ~Live(journal, id)
    /\ \A p \in Procs : ~Holding(p)
    => file.mode = own.mode

Rank == [none |-> 0, prepared |-> 1, active |-> 2, restoring |-> 3, restored |-> 4]

\* The history only moves forward and no operation overwrites what another one
\* recorded: a save changes one trial, either its status, towards "restored",
\* or its verdict, and never what Restore needs.
HistoryKept ==
    [][/\ Cardinality({id \in Ids : journal'[id] # journal[id]}) <= 1
       /\ \A id \in Ids :
            LET t == journal[id]
                u == journal'[id]
            IN /\ Rank[u.status] >= Rank[t.status]
               /\ t.status # "none" =>
                    u \in {[t EXCEPT !.status = u.status],
                           [t EXCEPT !.outcome = u.outcome]}]_vars

\* A session is counted for a trial only while that trial is active.
ReceiptOnlyWhenActive ==
    [][\A id \in receipts' \ receipts : journal[id].status = "active"]_vars

\* The other half of Apply's promise: a trial that is not restored gets
\* restored on request, or the settings were edited and Restore keeps away.
Recoverable ==
    \A id \in Ids :
        Live(journal, id) ~> (~Live(journal, id) \/ ~Restorable(file, journal[id], id))
-----------------------------------------------------------------------------
\* ReversibleChange sees the content of the settings and whether a trial still
\* needs a restore.
Seen(f) == [exists |-> f.exists, bytes |-> f.bytes]

SeenTrial(id) ==
    [status |-> IF Live(journal, id) THEN "open"
                ELSE IF journal[id].status = "none" THEN "none" ELSE "closed",
     before |-> [exists |-> journal[id].existed, bytes |-> journal[id].before]]

R == INSTANCE ReversibleChange WITH
       Contents <- [exists : BOOLEAN, bytes : Content],
       Changed <- LAMBDA seen, id : [exists |-> TRUE, bytes |-> AfterSettings(seen.bytes, id)],
       settings <- Seen(file), trials <- [id \in Ids |-> SeenTrial(id)], edits <- edits

\* Write by write, with crashes, failed writes, several processes and edits
\* outside the window, the trial is the atomic one: TraceFrugal moves the
\* settings from the text a trial recorded to that text with the change, or
\* back, and nowhere else.
Reversible == R!Spec

\* The trials' records are kept as well as the settings they stand for.
TrialsKept == Reversible /\ HistoryKept
=============================================================================
