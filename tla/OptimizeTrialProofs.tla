------------------------ MODULE OptimizeTrialProofs ------------------------
(* Proofs about OptimizeTrial, for any number of processes, trials, texts,   *)
(* edits, crashes and failed writes.                                         *)
EXTENDS OptimizeTrial, FiniteSetTheorems, TLAPS

-----------------------------------------------------------------------------
(* The inductive invariant.                                                  *)

\* One process at a time works under the lock, and on a trial it has chosen.
Exclusive ==
  /\ \A p \in Procs : Holding(p) => lock
  /\ \A p, q \in Procs : Holding(p) /\ Holding(q) => p = q
  /\ \A p \in Procs :
       pc[p] \notin {"idle", "diagnose", "unlock", "r_unlock", "a_check"}
         => mem[p].id \in Ids
  /\ \A p \in Procs : At(p, "a_check") => p \in Servers

\* A journal that differs from another one in the verdict on one trial only.
OnlyVerdict(j, k) ==
  \A i \in Ids : /\ k[i].status = j[i].status /\ k[i].before = j[i].before
                 /\ k[i].existed = j[i].existed

\* What a process holds in memory is what the journal holds, up to the change
\* the process is about to save.
Loaded(p) ==
  LET id == mem[p].id
      t == mem[p].journal[id]
  IN
  /\ pc[p] \in {"a_backup", "a_journal"} =>
       /\ journal[id].status = "none"
       /\ \A i \in Ids : ~Live(journal, i)
       /\ \A i \in Ids \ {id} : mem[p].journal[i] = journal[i]
       /\ t.status = "prepared" /\ t.before.hook = NoId
       /\ ~t.existed => t.before = Absent.bytes
       /\ At(p, "a_journal") => backup[id] = t.before
  /\ pc[p] \in {"a_recheck", "a_write", "a_commit"} =>
       mem[p].journal = journal /\ t.status = "prepared"
  /\ At(p, "r_journal") =>
       /\ Live(journal, id)
       /\ t = [journal[id] EXCEPT !.status = "restoring"]
       /\ \A i \in Ids \ {id} : mem[p].journal[i] = journal[i]
  /\ pc[p] \in {"r_write", "r_chmod", "r_commit"} =>
       mem[p].journal = journal /\ t.status = "restoring"
  /\ At(p, "t_save") => OnlyVerdict(journal, mem[p].journal)

\* A live trial can always be undone: its backup is the text it replaced, a
\* text without a trial's hook.
BackedUp ==
  \A id \in Ids : Live(journal, id) =>
    /\ backup[id] = journal[id].before
    /\ journal[id].before.hook = NoId
    /\ ~journal[id].existed => journal[id].before = Absent.bytes

\* The settings carry no hook but that of a trial the journal knows, and a
\* diagnosis proposes the change only for a text without one.
Hooked ==
  /\ file.bytes.hook = NoId \/ journal[file.bytes.hook].status # "none"
  /\ ~file.exists => file.bytes = Absent.bytes
  /\ \A s \in Servers : doctor[s].ready => doctor[s].bytes.hook = NoId

\* What a process found in the settings still holds when it writes them.
Checked(p) ==
  LET t == journal[mem[p].id] IN
  /\ At(p, "a_write") => IsBefore(file, t)
  /\ (At(p, "r_journal") /\ ~mem[p].same) => IsAfter(file, t, mem[p].id)
  /\ At(p, "r_write") => ~mem[p].same /\ IsAfter(file, t, mem[p].id)
  /\ (At(p, "r_journal") /\ mem[p].same) => file.bytes.hook = NoId
  /\ pc[p] \in {"r_chmod", "r_commit"} => file.bytes.hook = NoId

\* The applied text on disk stands for what the user had.
AppliedStandsForOwn ==
  \A id \in Ids : Live(journal, id) /\ IsAfter(file, journal[id], id) => Recorded(id)

\* Everything but the users' content, which depends on the edit window.
LockInv ==
  /\ TypeOK
  /\ Exclusive
  /\ \A p \in Procs : Loaded(p)
  /\ OneLiveTrial
  /\ BackedUp
  /\ Hooked

ContentInv ==
  /\ \A p \in Procs : Checked(p)
  /\ AppliedStandsForOwn
  /\ UserContentKept

IInv == LockInv /\ ContentInv

-----------------------------------------------------------------------------
(* Type correctness.                                                         *)

\* The values a process or the state directory starts from have their types.
LEMMA InitialValues ==
  /\ Absent \in File /\ NoTrial \in Trial /\ NoBackup \in Content
  /\ NoDiagnosis \in Diagnoses /\ IdleMem \in Memory
<1>1. Absent \in File /\ Absent.bytes \in Content
  BY ConstantsAssumption DEF Absent, File, Content, Modes
<1>2. NoTrial \in Trial /\ NoBackup \in Content /\ NoDiagnosis \in Diagnoses
  BY <1>1, ConstantsAssumption DEF NoTrial, Trial, NoBackup, Content, Modes,
     NoDiagnosis, Diagnoses
<1>3. [i \in Ids |-> NoTrial] \in [Ids -> Trial]
  BY <1>2
<1>4. IdleMem \in Memory
  BY <1>3 DEF IdleMem, Memory
<1>5. QED
  BY <1>1, <1>2, <1>4

\* The applied text, and the text a restore writes, are settings texts.
LEMMA ContentTypes ==
  /\ \A b \in Content, id \in Ids \cup {NoId} : AfterSettings(b, id) \in Content
  /\ \A f \in File : f.exists \in BOOLEAN /\ f.bytes \in Content /\ f.mode \in Modes
  /\ \A t \in Trial : t.before \in Content /\ t.existed \in BOOLEAN /\ t.mode \in Modes
<1>1. \A b \in Content, id \in Ids \cup {NoId} : AfterSettings(b, id) \in Content
  BY DEF AfterSettings, Content
<1>2. QED
  BY <1>1 DEF File, Trial

\* A journal stays a journal when one trial's status or outcome is replaced.
LEMMA JournalTypes ==
  ASSUME NEW j \in [Ids -> Trial], NEW id \in Ids \cup {NoId}
  PROVE  /\ \A s \in {"none", "prepared", "active", "restoring", "restored"} :
              [j EXCEPT ![id].status = s] \in [Ids -> Trial]
         /\ \A o \in {"unknown", "good"} :
              [j EXCEPT ![id].outcome = o] \in [Ids -> Trial]
         /\ \A t \in Trial : [j EXCEPT ![id] = t] \in [Ids -> Trial]
<1>1. \A s \in {"none", "prepared", "active", "restoring", "restored"} :
        \A t \in Trial : [t EXCEPT !.status = s] \in Trial
  BY DEF Trial
<1>2. \A o \in {"unknown", "good"} : \A t \in Trial : [t EXCEPT !.outcome = o] \in Trial
  BY DEF Trial
<1>3. \A i \in Ids : j[i] \in Trial
  OBVIOUS
<1>4. ASSUME NEW s \in {"none", "prepared", "active", "restoring", "restored"}
      PROVE  [j EXCEPT ![id].status = s] \in [Ids -> Trial]
  BY <1>1, <1>3
<1>5. ASSUME NEW o \in {"unknown", "good"}
      PROVE  [j EXCEPT ![id].outcome = o] \in [Ids -> Trial]
  BY <1>2, <1>3
<1>6. QED
  BY <1>4, <1>5

\* So does a process's memory when what it has read is replaced.
LEMMA MemoryTypes ==
  ASSUME mem \in [Procs -> Memory], NEW p \in Procs,
         NEW id \in Ids \cup {NoId}, NEW j \in [Ids -> Trial],
         NEW b \in BOOLEAN, NEW o \in {"unknown", "good", "keep"}
  PROVE  /\ [mem EXCEPT ![p].id = id] \in [Procs -> Memory]
         /\ [mem EXCEPT ![p].journal = j] \in [Procs -> Memory]
         /\ [mem EXCEPT ![p].id = id, ![p].journal = j] \in [Procs -> Memory]
         /\ [mem EXCEPT ![p].journal = j, ![p].same = b] \in [Procs -> Memory]
         /\ [mem EXCEPT ![p].id = id, ![p].outcome = o] \in [Procs -> Memory]
<1>1. \A r \in Memory :
        /\ [r EXCEPT !.id = id] \in Memory
        /\ [r EXCEPT !.journal = j] \in Memory
        /\ [r EXCEPT !.id = id, !.journal = j] \in Memory
        /\ [r EXCEPT !.journal = j, !.same = b] \in Memory
        /\ [r EXCEPT !.id = id, !.outcome = o] \in Memory
  BY DEF Memory
<1>2. mem[p] \in Memory
  OBVIOUS
<1>3. /\ [mem EXCEPT ![p].id = id] \in [Procs -> Memory]
      /\ [mem EXCEPT ![p].journal = j] \in [Procs -> Memory]
  BY <1>1, <1>2
<1>4. [mem EXCEPT ![p].id = id, ![p].journal = j] \in [Procs -> Memory]
  BY <1>1, <1>2
<1>5. [mem EXCEPT ![p].journal = j, ![p].same = b] \in [Procs -> Memory]
  BY <1>1, <1>2
<1>6. [mem EXCEPT ![p].id = id, ![p].outcome = o] \in [Procs -> Memory]
  BY <1>1, <1>2
<1>7. QED
  BY <1>3, <1>4, <1>5, <1>6

LEMMA InitTypeOK == ASSUME Init PROVE TypeOK
<1>1. file \in File /\ own \in File
  BY DEF Init
<1>2. /\ journal \in [Ids -> Trial] /\ backup \in [Ids -> Content]
      /\ doctor \in [Servers -> Diagnoses] /\ mem \in [Procs -> Memory]
  BY InitialValues DEF Init
<1>3. /\ receipts \subseteq Ids /\ lock \in BOOLEAN /\ touched \in BOOLEAN
      /\ pc \in [Procs -> Label]
  BY DEF Init, Label
<1>4. edits \in 0 .. MaxEdits /\ crashes \in 0 .. MaxCrashes /\ faults \in 0 .. MaxFaults
  BY ConstantsAssumption DEF Init
<1>5. QED
  BY <1>1, <1>2, <1>3, <1>4 DEF TypeOK

LEMMA StepTypeOK ==
  ASSUME TypeOK, Exclusive, NEW p \in Procs, Step(p)
  PROVE  TypeOK'
<1> USE DEF TypeOK, At, Goto, disk, ghost, bounds, Label
<1>0. /\ pc[p] \in Label /\ mem[p] \in Memory /\ mem[p].id \in Ids \cup {NoId}
      /\ mem[p].journal \in [Ids -> Trial]
      /\ mem[p].outcome \in {"unknown", "good", "keep"}
  BY DEF Memory
<1>1. CASE Unlock(p) \/ UnlockRestored(p)
  BY <1>1, InitialValues DEF Unlock, UnlockRestored, Release
<1>2. CASE ApplyCheck(p)
  <2>1. PICK id \in Ids :
          LET t == [status |-> "prepared", before |-> file.bytes,
                    existed |-> file.exists, mode |-> file.mode,
                    outcome |-> "unknown"]
          IN mem' = [mem EXCEPT ![p].id = id,
                                ![p].journal = [journal EXCEPT ![id] = t]]
    BY <1>2 DEF ApplyCheck
  <2> DEFINE t == [status |-> "prepared", before |-> file.bytes,
                   existed |-> file.exists, mode |-> file.mode,
                   outcome |-> "unknown"]
  <2>2. t \in Trial
    BY ContentTypes DEF Trial
  <2>3. [journal EXCEPT ![id] = t] \in [Ids -> Trial]
    BY <2>2
  <2>4. mem' \in [Procs -> Memory]
    BY <2>1, <2>3, MemoryTypes
  <2>5. own' \in File
    BY <1>2, ContentTypes DEF ApplyCheck, File
  <2>6. QED
    BY <1>2, <2>4, <2>5 DEF ApplyCheck
<1>3. CASE ApplyRefused(p) \/ RestoreRefused(p) \/ ApplyRecheck(p) \/ RecordCheck(p)
  BY <1>3 DEF ApplyRefused, RestoreRefused, ApplyRecheck, RecordCheck
<1>4. CASE ApplyBackup(p)
  <2>1. mem[p].journal[mem[p].id].before \in Content \/ mem[p].id \notin Ids
    BY <1>0, ContentTypes
  <2>2. backup' \in [Ids -> Content]
    BY <1>4, <2>1 DEF ApplyBackup
  <2>3. QED
    BY <1>4, <2>2 DEF ApplyBackup
<1>5. CASE ApplyJournal(p) \/ RestoreJournal(p) \/ RateSave(p)
  BY <1>0, <1>5 DEF ApplyJournal, RestoreJournal, RateSave
<1>6. CASE ApplyCommit(p) \/ RestoreCommit(p)
  <2>1. [mem[p].journal EXCEPT ![mem[p].id].status = "active"] \in [Ids -> Trial]
    BY <1>0, JournalTypes
  <2>2. [mem[p].journal EXCEPT ![mem[p].id].status = "restored"] \in [Ids -> Trial]
    BY <1>0, JournalTypes
  <2>3. journal' \in [Ids -> Trial]
    BY <1>6, <2>1, <2>2 DEF ApplyCommit, RestoreCommit
  <2>4. QED
    BY <1>6, <2>3 DEF ApplyCommit, RestoreCommit
<1>7. CASE RestoreCheck(p)
  <2>1. IsBefore(file, journal[mem[p].id]) \in BOOLEAN
    BY DEF IsBefore, HasContent
  <2>2. [journal EXCEPT ![mem[p].id].status = "restoring"] \in [Ids -> Trial]
    BY <1>0, JournalTypes
  <2>3. mem' \in [Procs -> Memory]
    BY <1>0, <1>7, <2>1, <2>2, MemoryTypes DEF RestoreCheck
  <2>4. QED
    BY <1>7, <2>3 DEF RestoreCheck
<1>8. CASE RateCheck(p)
  <2>1. Verdict(mem[p].outcome) \in {"unknown", "good"}
    BY <1>0 DEF Verdict
  <2>2. [journal EXCEPT ![mem[p].id].outcome = Verdict(mem[p].outcome)] \in [Ids -> Trial]
    BY <1>0, <2>1, JournalTypes
  <2>3. \/ UNCHANGED mem
        \/ mem' = [mem EXCEPT ![p].journal =
             [journal EXCEPT ![mem[p].id].outcome = Verdict(mem[p].outcome)]]
    BY <1>8 DEF RateCheck
  <2>4. mem' \in [Procs -> Memory]
    <3>1. [mem EXCEPT ![p].journal =
             [journal EXCEPT ![mem[p].id].outcome = Verdict(mem[p].outcome)]]
            \in [Procs -> Memory]
      BY <1>0, <2>2, MemoryTypes
    <3>2. QED
      BY <2>3, <3>1
  <2>5. pc' \in [Procs -> Label]
    BY <1>8 DEF RateCheck
  <2>6. QED
    BY <1>8, <2>4, <2>5 DEF RateCheck
<1>9. CASE RecordWrite(p)
  BY <1>9 DEF RecordWrite, Exclusive
<1>10. CASE ApplyWrite(p) \/ RestoreWrite(p)
  <2>1. mem[p].id \in Ids
    BY <1>10 DEF ApplyWrite, RestoreWrite, Exclusive
  <2>2. mem[p].journal[mem[p].id].before \in Content
    BY <1>0, <2>1, ContentTypes
  <2>3. file' \in File
    BY <1>10, <2>1, <2>2, ContentTypes DEF ApplyWrite, RestoreWrite, File, Modes
  <2>4. QED
    BY <1>10, <2>3 DEF ApplyWrite, RestoreWrite
<1>11. CASE RestoreRemove(p)
  BY <1>11, InitialValues DEF RestoreRemove
<1>12. CASE RestoreChmod(p)
  <2>1. mem[p].journal[mem[p].id].mode \in Modes
    BY <1>0, <1>12, ContentTypes DEF RestoreChmod, Exclusive
  <2>2. file' \in File
    BY <1>12, <2>1 DEF RestoreChmod, File
  <2>3. QED
    BY <1>12, <2>2 DEF RestoreChmod
<1>13. QED
  BY <1>1, <1>2, <1>3, <1>4, <1>5, <1>6, <1>7, <1>8, <1>9, <1>10, <1>11,
     <1>12 DEF Step

LEMMA RequestTypeOK ==
  ASSUME TypeOK,
         \/ \E s \in Servers : Request(s)
         \/ \E h \in Hooks, id \in Ids : StartRecord(h, id)
  PROVE  TypeOK'
<1> USE DEF TypeOK, Goto, At, disk, ghost, bounds, Label
<1>1. CASE \E p \in Procs : StartApply(p)
  BY <1>1 DEF StartApply, Acquire
<1>2. CASE \E p \in Procs, id \in Ids : StartRestore(p, id) \/ StartRecord(p, id)
  <2>1. PICK p \in Procs, id \in Ids : StartRestore(p, id) \/ StartRecord(p, id)
    BY <1>2
  <2>2. [mem EXCEPT ![p].id = id] \in [Procs -> Memory]
    BY MemoryTypes, InitialValues DEF Memory
  <2>3. QED
    BY <2>1, <2>2 DEF StartRestore, StartRecord, Acquire
<1>3. CASE \E p \in Procs, id \in Ids, outcome \in {"unknown", "good", "keep"} :
             StartRate(p, id, outcome)
  <2>1. PICK p \in Procs, id \in Ids, outcome \in {"unknown", "good", "keep"} :
           StartRate(p, id, outcome)
    BY <1>3
  <2>2. [mem EXCEPT ![p].id = id, ![p].outcome = outcome] \in [Procs -> Memory]
    BY MemoryTypes, InitialValues DEF Memory
  <2>3. QED
    BY <2>1, <2>2 DEF StartRate, Acquire
<1>4. CASE \E s \in Servers : Diagnose(s)
  <2>1. Diagnosis \in Diagnoses
    BY ContentTypes DEF Diagnosis, Diagnoses, Parses
  <2>2. QED
    BY <1>4, <2>1 DEF Diagnose, Procs
<1>5. QED
  BY <1>1, <1>2, <1>3, <1>4 DEF Request, Procs

LEMMA UserEditTypeOK == ASSUME TypeOK, UserEdit PROVE TypeOK'
<1>1. PICK f \in File : file' = f /\ own' \in UserOwns(f)
  BY DEF UserEdit
<1>2. own' \in File
  <2>1. CASE own' \in {f}
    BY <2>1
  <2>2. CASE \E id \in Ids : own' = [exists |-> journal[id].existed,
                                  bytes |-> journal[id].before, mode |-> f.mode]
    BY <2>2, ContentTypes DEF TypeOK, File
  <2>3. QED
    BY <1>1, <2>1, <2>2 DEF UserOwns
<1>3. edits' \in 0 .. MaxEdits
  BY ConstantsAssumption DEF UserEdit, TypeOK
<1>4. QED
  BY <1>1, <1>2, <1>3 DEF UserEdit, TypeOK

LEMMA EnvironmentTypeOK == ASSUME TypeOK, Environment PROVE TypeOK'
<1> USE DEF TypeOK, Goto, At, disk, ghost, bounds, Label
<1>1. ASSUME NEW p \in Procs, Crash(p) PROVE TypeOK'
  <2>1. crashes' \in 0 .. MaxCrashes
    BY <1>1, ConstantsAssumption DEF Crash
  <2>2. doctor' \in [Servers -> Diagnoses] /\ mem' \in [Procs -> Memory]
    BY <1>1, InitialValues DEF Crash
  <2>3. QED
    BY <1>1, <2>1, <2>2 DEF Crash
<1>2. ASSUME NEW p \in Procs, Fault(p) PROVE TypeOK'
  <2>1. faults' \in 0 .. MaxFaults
    BY <1>2, ConstantsAssumption DEF Fault
  <2>2. mem' \in [Procs -> Memory] /\ pc' \in [Procs -> Label]
    BY <1>2, InitialValues DEF Fault
  <2>3. QED
    BY <1>2, <2>1, <2>2 DEF Fault
<1>3. CASE RemoveStaleLock
  BY <1>3 DEF RemoveStaleLock
<1>4. QED
  BY <1>1, <1>2, <1>3, UserEditTypeOK DEF Environment

LEMMA NextTypeOK == ASSUME TypeOK, Exclusive, [Next]_vars PROVE TypeOK'
<1>1. CASE UNCHANGED vars
  BY <1>1 DEF vars, disk, ghost, bounds, TypeOK
<1>2. QED
  BY <1>1, StepTypeOK, RequestTypeOK, EnvironmentTypeOK DEF Next
-----------------------------------------------------------------------------
(* The lock.                                                                 *)

\* A step is taken by a process that works under the lock, and changes no
\* other process; the process either goes on, with the lock, or lets it go.
LEMMA StepFrame ==
  ASSUME TypeOK, Exclusive, NEW p \in Procs, Step(p)
  PROVE  /\ Holding(p)
         /\ \A q \in Procs \ {p} : pc'[q] = pc[q] /\ mem'[q] = mem[q]
         /\ \/ lock' = lock
            \/ pc'[p] \in {"idle", "diagnose"}
         /\ pc'[p] \notin {"idle", "diagnose", "unlock", "r_unlock", "a_check"}
              => mem'[p].id \in Ids
         /\ pc'[p] # "a_check"
<1> USE DEF TypeOK, At, Goto, disk, Holding
<1>1. CASE Unlock(p) \/ UnlockRestored(p)
  BY <1>1 DEF Unlock, UnlockRestored, Release
<1>2. CASE ApplyCheck(p)
  BY <1>2 DEF ApplyCheck, Memory
<1>3. CASE ApplyRefused(p) \/ RestoreRefused(p)
  BY <1>3 DEF ApplyRefused, RestoreRefused
<1>4. CASE ApplyBackup(p) \/ ApplyJournal(p) \/ ApplyRecheck(p) \/ ApplyWrite(p)
           \/ ApplyCommit(p) \/ RestoreJournal(p) \/ RestoreWrite(p)
           \/ RestoreRemove(p) \/ RestoreChmod(p) \/ RestoreCommit(p)
           \/ RateSave(p) \/ RecordCheck(p) \/ RecordWrite(p)
  BY <1>4 DEF ApplyBackup, ApplyJournal, ApplyRecheck, ApplyWrite, ApplyCommit,
     RestoreJournal, RestoreWrite, RestoreRemove, RestoreChmod, RestoreCommit,
     RateSave, RecordCheck, RecordWrite, Exclusive
<1>5. CASE RestoreCheck(p) \/ RateCheck(p)
  <2>1. mem[p].id \in Ids
    BY <1>5 DEF RestoreCheck, RateCheck, Exclusive
  <2>2. mem'[p].id = mem[p].id
    BY <1>5 DEF RestoreCheck, RateCheck, Memory
  <2>3. QED
    BY <1>5, <2>1, <2>2 DEF RestoreCheck, RateCheck
<1>6. QED
  BY <1>1, <1>2, <1>3, <1>4, <1>5 DEF Step

\* A request finds the lock free; it is taken by the requested process.
LEMMA RequestFrame ==
  ASSUME TypeOK,
         \/ \E s \in Servers : Request(s)
         \/ \E h \in Hooks, id \in Ids : StartRecord(h, id)
  PROVE  /\ UNCHANGED <<file, journal, backup, receipts, own, touched>>
         /\ \/ /\ lock' = lock
               /\ \A q \in Procs : Holding(q)' = Holding(q)
               /\ \A q \in Procs : Holding(q) => pc'[q] = pc[q]
               /\ mem' = mem
            \/ /\ ~lock /\ lock'
               /\ doctor' = doctor
               /\ \E p \in Procs :
                    /\ pc' = [pc EXCEPT ![p] = pc'[p]]
                    /\ pc'[p] \in {"a_check", "r_check", "t_check", "h_check"}
                    /\ \A q \in Procs \ {p} : mem'[q] = mem[q]
                    /\ At(p, "a_check")' \/ mem'[p].id \in Ids
                    /\ At(p, "a_check")' => p \in Servers
<1> USE DEF TypeOK, At, Goto, disk, ghost, Holding, Procs, Memory
<1> DEFINE Taken(p) == /\ pc' = [pc EXCEPT ![p] = pc'[p]]
                       /\ pc'[p] \in {"a_check", "r_check", "t_check", "h_check"}
                       /\ \A q \in Procs \ {p} : mem'[q] = mem[q]
                       /\ At(p, "a_check")' \/ mem'[p].id \in Ids
                       /\ At(p, "a_check")' => p \in Servers
<1>1. CASE \E p \in Servers : StartApply(p)
  <2>1. PICK p \in Servers : StartApply(p)
    BY <1>1
  <2>2. Taken(p)
    BY <2>1 DEF StartApply, Acquire
  <2>3. QED
    BY <2>1, <2>2 DEF StartApply, Acquire
<1>2. CASE \E p \in Procs, id \in Ids : StartRestore(p, id) \/ StartRecord(p, id)
  <2>1. PICK p \in Procs, id \in Ids : StartRestore(p, id) \/ StartRecord(p, id)
    BY <1>2
  <2>2. Taken(p)
    BY <2>1 DEF StartRestore, StartRecord, Acquire
  <2>3. QED
    BY <2>1, <2>2 DEF StartRestore, StartRecord, Acquire
<1>3. CASE \E p \in Procs, id \in Ids, outcome \in {"unknown", "good", "keep"} :
             StartRate(p, id, outcome)
  <2>1. PICK p \in Procs, id \in Ids, outcome \in {"unknown", "good", "keep"} :
           StartRate(p, id, outcome)
    BY <1>3
  <2>2. Taken(p)
    BY <2>1, ZenonT(40) DEF StartRate, Acquire
  <2>3. QED
    BY <2>1, <2>2 DEF StartRate, Acquire
<1>4. CASE \E s \in Servers : Diagnose(s)
  BY <1>4 DEF Diagnose
<1>5. QED
  BY <1>1, <1>2, <1>3, <1>4 DEF Request

LEMMA NextExclusive == ASSUME TypeOK, Exclusive, [Next]_vars PROVE Exclusive'
<1>1. ASSUME NEW p \in Procs, Step(p) PROVE Exclusive'
  BY <1>1, StepFrame DEF Exclusive, Holding, At
<1>2. ASSUME \/ \E s \in Servers : Request(s)
             \/ \E h \in Hooks, id \in Ids : StartRecord(h, id)
      PROVE  Exclusive'
  BY <1>2, RequestFrame DEF Exclusive, Holding, TypeOK, At
<1>3. CASE UserEdit \/ RemoveStaleLock
  BY <1>3 DEF UserEdit, RemoveStaleLock, Exclusive, Holding, At
<1>4. ASSUME NEW p \in Procs, Crash(p) \/ Fault(p) PROVE Exclusive'
  BY <1>4 DEF Crash, Fault, Exclusive, Holding, TypeOK, disk, At, Goto
<1>5. CASE UNCHANGED vars
  BY <1>5 DEF vars, disk, Exclusive, Holding, At
<1>6. QED
  BY <1>1, <1>2, <1>3, <1>4, <1>5 DEF Next, Environment
-----------------------------------------------------------------------------
(* The journal, the backups and the hooks.                                   *)

\* What the steps of LockInv are about, and that types and the lock leave.
JournalInv ==
  /\ \A p \in Procs : Loaded(p)
  /\ OneLiveTrial
  /\ BackedUp
  /\ Hooked

\* A process without the lock has nothing loaded that could be out of date.
LEMMA LoadedIdle == \A p \in Procs : ~Holding(p) => Loaded(p)
  BY DEF Holding, Loaded, At

\* Steps that change none of the files and load nothing.
LEMMA LookingSteps ==
  ASSUME LockInv, NEW p \in Procs,
         Unlock(p) \/ UnlockRestored(p) \/ ApplyRefused(p) \/ RestoreRefused(p)
         \/ ApplyRecheck(p) \/ RecordCheck(p) \/ RecordWrite(p)
  PROVE  Loaded(p)' /\ OneLiveTrial' /\ BackedUp' /\ Hooked'
<1> USE DEF LockInv, At, Goto, disk
<1>1. UNCHANGED <<file, journal, backup, doctor>>
  BY DEF Unlock, UnlockRestored, Release, ApplyRefused, RestoreRefused,
     ApplyRecheck, RecordCheck, RecordWrite
<1>2. OneLiveTrial' /\ BackedUp' /\ Hooked'
  BY <1>1 DEF OneLiveTrial, Live, BackedUp, Hooked
<1>3. CASE ApplyRecheck(p)
  <2>1. pc[p] = "a_recheck" /\ pc'[p] \in {"a_write", "unlock"} /\ mem' = mem
    BY <1>3 DEF ApplyRecheck, TypeOK
  <2>2. Loaded(p)
    OBVIOUS
  <2>3. Loaded(p)'
    BY ONLY <1>1, <2>1, <2>2 DEF Loaded, At, Live, OnlyVerdict
  <2>4. QED
    BY <1>2, <2>3
<1>4. CASE ~ApplyRecheck(p)
  <2>1. pc'[p] \in {"idle", "diagnose", "unlock", "r_unlock", "h_write"}
    BY <1>4 DEF Unlock, UnlockRestored, Release, ApplyRefused, RestoreRefused,
       RecordCheck, RecordWrite, TypeOK
  <2>2. Loaded(p)'
    BY ONLY <2>1 DEF Loaded, At
  <2>3. QED
    BY <1>2, <2>2
<1>5. QED
  BY <1>2, <1>3, <1>4

\* Restore has in memory the journal on disk, but for its own trial.
LEMMA LoadedToRestore ==
  ASSUME NEW p \in Procs, journal' \in [Ids -> Trial], mem[p].id \in Ids, pc'[p] = "r_journal",
         mem'[p].id = mem[p].id, journal' = journal,
         mem'[p].journal = [journal EXCEPT ![mem[p].id].status = "restoring"],
         Live(journal', mem[p].id)
  PROVE  Loaded(p)'
<1>1. /\ mem'[p].journal[mem[p].id] = [journal[mem[p].id] EXCEPT !.status = "restoring"]
      /\ \A i \in Ids \ {mem[p].id} : mem'[p].journal[i] = journal[i]
  OBVIOUS
<1>2. QED
  BY <1>1 DEF Loaded, At

LEMMA ApplySteps ==
  ASSUME LockInv, NEW p \in Procs,
         ApplyCheck(p) \/ ApplyBackup(p) \/ ApplyJournal(p) \/ ApplyWrite(p)
         \/ ApplyCommit(p)
  PROVE  Loaded(p)' /\ OneLiveTrial' /\ BackedUp' /\ Hooked'
<1> USE DEF LockInv, At, Goto, disk
<1>0. /\ mem[p] \in Memory /\ mem[p].journal \in [Ids -> Trial]
      /\ journal \in [Ids -> Trial] /\ \A i \in Ids : journal[i] \in Trial
  BY DEF TypeOK, Memory
<1>1. CASE ApplyCheck(p)
  <2>1. OneLiveTrial' /\ BackedUp' /\ Hooked'
    BY <1>1 DEF ApplyCheck, OneLiveTrial, Live, BackedUp, Hooked
  <2>2. file.bytes.hook = NoId
    BY <1>1 DEF Exclusive, ApplyCheck, ApplyAllowed, HasContent, Hooked
  <2>3. PICK id \in Ids :
          LET t == [status |-> "prepared", before |-> file.bytes,
                    existed |-> file.exists, mode |-> file.mode,
                    outcome |-> "unknown"]
          IN /\ journal[id].status = "none"
             /\ mem' = [mem EXCEPT ![p].id = id,
                                ![p].journal = [journal EXCEPT ![id] = t]]
    BY <1>1 DEF ApplyCheck
  <2> DEFINE t == [status |-> "prepared", before |-> file.bytes,
                   existed |-> file.exists, mode |-> file.mode,
                   outcome |-> "unknown"]
  <2>4. mem'[p].id = id /\ mem'[p].journal = [journal EXCEPT ![id] = t]
    BY <1>0, <2>3 DEF TypeOK, Memory
  <2>5. pc'[p] = "a_backup" /\ journal' = journal
    BY <1>1 DEF ApplyCheck, TypeOK
  <2>6. \A i \in Ids : ~Live(journal', i)
    BY <1>1 DEF ApplyCheck, ApplyAllowed, Live
  <2>7. ~file.exists => file.bytes = Absent.bytes
    BY DEF Hooked
  <2>8. mem'[p].journal[id] = t /\ \A i \in Ids \ {id} : mem'[p].journal[i] = journal[i]
    BY <1>0, <2>4
  <2>9. /\ mem'[p].journal[id].status = "prepared"
        /\ mem'[p].journal[id].before.hook = NoId
        /\ ~mem'[p].journal[id].existed => mem'[p].journal[id].before = Absent.bytes
    BY <2>2, <2>7, <2>8, ContentTypes DEF TypeOK
  <2>10. journal'[id].status = "none"
    BY <2>3, <2>5
  <2>11. Loaded(p)'
    BY <2>4, <2>5, <2>6, <2>8, <2>9, <2>10 DEF Loaded
  <2>12. QED
    BY <2>1, <2>11
<1>2. CASE ApplyBackup(p)
  <2>1. mem[p].id \in Ids
    BY <1>2 DEF ApplyBackup, Exclusive
  <2>2. OneLiveTrial' /\ Hooked'
    BY <1>2 DEF ApplyBackup, OneLiveTrial, Live, Hooked
  <2>3. BackedUp'
    BY <1>2 DEF ApplyBackup, BackedUp, Loaded, Live
  <2>4. Loaded(p)'
    BY <1>2, <2>1 DEF ApplyBackup, Loaded, TypeOK, Live
  <2>5. QED
    BY <2>2, <2>3, <2>4
<1>3. CASE ApplyJournal(p)
  <2>1. mem[p].id \in Ids
    BY <1>3 DEF ApplyJournal, Exclusive
  <2>2. \A i \in Ids : Live(journal', i) => i = mem[p].id
    BY <1>3, <2>1 DEF ApplyJournal, Loaded, Live
  <2>3. OneLiveTrial'
    BY <2>2 DEF OneLiveTrial
  <2>4. BackedUp'
    BY <1>3, <2>1, <2>2, ZenonT(40) DEF ApplyJournal, BackedUp, Loaded
  <2>5. Hooked'
    BY <1>3, <2>1 DEF ApplyJournal, Hooked, Loaded, TypeOK, File, Content
  <2>6. Loaded(p)'
    BY <1>3 DEF ApplyJournal, Loaded, TypeOK
  <2>7. QED
    BY <2>3, <2>4, <2>5, <2>6
<1>4. CASE ApplyWrite(p)
  <2>1. mem[p].id \in Ids
    BY <1>4 DEF ApplyWrite, Exclusive
  <2>2. OneLiveTrial' /\ BackedUp'
    BY <1>4 DEF ApplyWrite, OneLiveTrial, Live, BackedUp
  <2>3. file'.bytes.hook = mem[p].id /\ file'.exists
    BY <1>0, <1>4, <2>1, ContentTypes DEF ApplyWrite, AfterSettings, Content, Trial
  <2>4. Hooked'
    BY <1>4, <2>1, <2>3 DEF ApplyWrite, Hooked, Loaded
  <2>5. Loaded(p)'
    BY <1>4 DEF ApplyWrite, Loaded, TypeOK
  <2>6. QED
    BY <2>2, <2>4, <2>5
<1>5. CASE ApplyCommit(p)
  <2>1. mem[p].id \in Ids /\ mem[p].journal = journal
        /\ journal[mem[p].id].status = "prepared"
    BY <1>5, ZenonT(40) DEF ApplyCommit, Exclusive, Loaded
  <2>2. \A i \in Ids : /\ Live(journal', i) = Live(journal, i)
                       /\ journal'[i].status = "none" <=> journal[i].status = "none"
                       /\ journal'[i].before = journal[i].before
                       /\ journal'[i].existed = journal[i].existed
    BY <1>0, <1>5, <2>1 DEF ApplyCommit, Live, Trial
  <2>3. OneLiveTrial' /\ BackedUp'
    BY <1>5, <2>2 DEF ApplyCommit, OneLiveTrial, BackedUp
  <2>4. Hooked'
    BY <1>5, <2>2 DEF ApplyCommit, Hooked, TypeOK, File, Content
  <2>5. Loaded(p)'
    BY <1>5 DEF ApplyCommit, Loaded, TypeOK
  <2>6. QED
    BY <2>3, <2>4, <2>5
<1>6. QED
  BY <1>1, <1>2, <1>3, <1>4, <1>5

LEMMA RestoreSteps ==
  ASSUME LockInv, NEW p \in Procs,
         RestoreCheck(p) \/ RestoreJournal(p) \/ RestoreWrite(p)
         \/ RestoreRemove(p) \/ RestoreChmod(p) \/ RestoreCommit(p)
  PROVE  Loaded(p)' /\ OneLiveTrial' /\ BackedUp' /\ Hooked'
<1> USE DEF LockInv, At, Goto, disk
<1>0. /\ mem[p] \in Memory /\ mem[p].journal \in [Ids -> Trial]
      /\ journal \in [Ids -> Trial] /\ \A i \in Ids : journal[i] \in Trial
      /\ mem[p].id \in Ids
  BY DEF TypeOK, Memory, Exclusive, RestoreCheck, RestoreJournal, RestoreWrite,
     RestoreRemove, RestoreChmod, RestoreCommit
<1>1. CASE RestoreCheck(p)
  <2>1. OneLiveTrial' /\ BackedUp' /\ Hooked'
    BY <1>1 DEF RestoreCheck, OneLiveTrial, Live, BackedUp, Hooked
  <2>2. /\ mem'[p].id = mem[p].id
        /\ mem'[p].journal = [journal EXCEPT ![mem[p].id].status = "restoring"]
    BY <1>0, <1>1 DEF RestoreCheck, TypeOK, Memory
  <2>3. pc'[p] = "r_journal" /\ journal' = journal /\ Live(journal', mem[p].id)
    BY <1>1 DEF RestoreCheck, RestoreAllowed, TypeOK, Live
  <2>4. Loaded(p)'
    <3>1. journal' \in [Ids -> Trial] /\ journal' = journal
      BY <1>0, <2>3
    <3>2. QED
      BY <1>0, <2>2, <2>3, <3>1, LoadedToRestore
  <2>5. QED
    BY <2>1, <2>4
<1>2. CASE RestoreJournal(p)
  <2>1. \A i \in Ids : /\ Live(journal', i) <=> Live(journal, i)
                       /\ journal'[i].status = "none" <=> journal[i].status = "none"
                       /\ journal'[i].before = journal[i].before
                       /\ journal'[i].existed = journal[i].existed
    <3>1. /\ Live(journal, mem[p].id)
          /\ journal'[mem[p].id] = [journal[mem[p].id] EXCEPT !.status = "restoring"]
          /\ \A i \in Ids \ {mem[p].id} : journal'[i] = journal[i]
      BY <1>2 DEF RestoreJournal, Loaded
    <3>2. QED
      BY <1>0, <3>1 DEF Live, Trial
  <2>2. OneLiveTrial' /\ BackedUp'
    BY <1>2, <2>1 DEF RestoreJournal, OneLiveTrial, BackedUp
  <2>3. Hooked'
    BY <1>2, <2>1 DEF RestoreJournal, Hooked, TypeOK, File, Content
  <2>4. journal'[mem[p].id].status = "restoring"
    BY <1>0, <1>2, ZenonT(40) DEF RestoreJournal, Loaded, Trial
  <2>5. Loaded(p)'
    BY <1>2, <2>4 DEF RestoreJournal, Loaded, TypeOK
  <2>6. QED
    BY <2>2, <2>3, <2>5
<1>3. CASE RestoreWrite(p) \/ RestoreRemove(p) \/ RestoreChmod(p)
  <2>1. OneLiveTrial' /\ BackedUp'
    BY <1>3 DEF RestoreWrite, RestoreRemove, RestoreChmod, OneLiveTrial, Live, BackedUp
  <2>2. CASE RestoreWrite(p)
    <3>1. journal[mem[p].id].before.hook = NoId
      BY <1>0, <2>2 DEF RestoreWrite, Loaded, BackedUp, Live
    <3>2. Hooked'
      BY <2>2, <3>1 DEF RestoreWrite, Hooked, Loaded
    <3>3. Loaded(p)'
      BY <2>2, ZenonT(40) DEF RestoreWrite, Loaded, TypeOK
    <3>4. QED
      BY <2>1, <3>2, <3>3
  <2>3. CASE RestoreRemove(p)
    <3>1. Hooked'
      BY <2>3 DEF RestoreRemove, Hooked, Absent
    <3>2. Loaded(p)'
      BY <2>3 DEF RestoreRemove, Loaded, TypeOK
    <3>3. QED
      BY <2>1, <3>1, <3>2
  <2>4. CASE RestoreChmod(p)
    <3>1. file'.bytes = file.bytes /\ file'.exists = file.exists
      BY <2>4 DEF RestoreChmod, TypeOK, File
    <3>2. Hooked'
      BY <2>4, <3>1 DEF RestoreChmod, Hooked
    <3>3. Loaded(p)'
      BY <2>4, SMTT(30) DEF RestoreChmod, Loaded, TypeOK
    <3>4. QED
      BY <2>1, <3>2, <3>3
  <2>5. QED
    BY <1>3, <2>2, <2>3, <2>4
<1>4. CASE RestoreCommit(p)
  <2>1. /\ journal[mem[p].id].status = "restoring"
        /\ journal' = [journal EXCEPT ![mem[p].id].status = "restored"]
    BY <1>4 DEF RestoreCommit, Loaded
  <2>2. \A i \in Ids : /\ Live(journal', i) => Live(journal, i)
                       /\ journal'[i].status = "none" <=> journal[i].status = "none"
                       /\ journal'[i].before = journal[i].before
                       /\ journal'[i].existed = journal[i].existed
    BY <1>0, <2>1 DEF Live, Trial
  <2>3. OneLiveTrial' /\ BackedUp'
    BY <1>4, <2>2 DEF RestoreCommit, OneLiveTrial, BackedUp
  <2>4. Hooked'
    BY <1>4, <2>2 DEF RestoreCommit, Hooked, TypeOK, File, Content
  <2>5. Loaded(p)'
    BY <1>4 DEF RestoreCommit, Loaded, TypeOK
  <2>6. QED
    BY <2>3, <2>4, <2>5
<1>5. QED
  BY <1>1, <1>2, <1>3, <1>4

LEMMA RateSteps ==
  ASSUME LockInv, NEW p \in Procs, RateCheck(p) \/ RateSave(p)
  PROVE  Loaded(p)' /\ OneLiveTrial' /\ BackedUp' /\ Hooked'
<1> USE DEF LockInv, At, Goto, disk
<1>0. /\ mem[p] \in Memory /\ mem[p].journal \in [Ids -> Trial]
      /\ journal \in [Ids -> Trial] /\ \A i \in Ids : journal[i] \in Trial
  BY DEF TypeOK, Memory
<1>1. CASE RateCheck(p)
  <2>1. OneLiveTrial' /\ BackedUp' /\ Hooked'
    BY <1>1 DEF RateCheck, OneLiveTrial, Live, BackedUp, Hooked
  <2>2. CASE pc'[p] = "t_save"
    <3>1. mem' = [mem EXCEPT ![p].journal =
            [journal EXCEPT ![mem[p].id].outcome = Verdict(mem[p].outcome)]]
      BY <1>1, <2>2 DEF RateCheck, TypeOK
    <3>2. OnlyVerdict(journal', mem'[p].journal)
      BY <1>0, <1>1, <3>1 DEF RateCheck, OnlyVerdict, Trial, TypeOK, Memory
    <3>3. Loaded(p)'
      BY <2>2, <3>2 DEF Loaded
    <3>4. QED
      BY <2>1, <3>3
  <2>3. CASE pc'[p] = "unlock"
    <3>1. Loaded(p)'
      BY <2>3 DEF Loaded
    <3>2. QED
      BY <2>1, <3>1
  <2>4. QED
    BY <1>1, <2>2, <2>3 DEF RateCheck, TypeOK
<1>2. CASE RateSave(p)
  <2>1. \A i \in Ids : /\ Live(journal', i) = Live(journal, i)
                       /\ journal'[i].status = "none" <=> journal[i].status = "none"
                       /\ journal'[i].before = journal[i].before
                       /\ journal'[i].existed = journal[i].existed
    BY <1>2 DEF RateSave, Loaded, OnlyVerdict, Live
  <2>2. OneLiveTrial' /\ BackedUp'
    BY <1>2, <2>1 DEF RateSave, OneLiveTrial, BackedUp
  <2>3. Hooked'
    BY <1>2, <2>1 DEF RateSave, Hooked, TypeOK, File, Content
  <2>4. Loaded(p)'
    BY <1>2 DEF RateSave, Loaded, TypeOK
  <2>5. QED
    BY <2>2, <2>3, <2>4
<1>3. QED
  BY <1>1, <1>2

LEMMA RequestLockInv ==
  ASSUME LockInv,
         \/ \E s \in Servers : Request(s)
         \/ \E h \in Hooks, id \in Ids : StartRecord(h, id)
  PROVE  JournalInv'
<1> USE DEF LockInv
<1>1. UNCHANGED <<file, journal, backup, receipts, own, touched>>
  BY RequestFrame
<1>2. OneLiveTrial' /\ BackedUp'
  BY <1>1 DEF OneLiveTrial, BackedUp, Live
<1>3. Hooked'
  <2>1. doctor' = doctor \/ \E s \in Servers : doctor' = [doctor EXCEPT ![s] = Diagnosis]
    BY RequestFrame DEF Request, StartApply, StartRestore, StartRate, StartRecord,
       Diagnose
  <2>2. \A s \in Servers : doctor'[s].ready => doctor'[s].bytes.hook = NoId
    <3>1. Diagnosis.ready => Diagnosis.bytes.hook = NoId
      BY DEF Diagnosis
    <3>2. \A s \in Servers : doctor'[s] = doctor[s] \/ doctor'[s] = Diagnosis
      BY <2>1 DEF TypeOK
    <3>3. QED
      BY <3>1, <3>2 DEF Hooked
  <2>3. QED
    BY <1>1, <2>2 DEF Hooked
<1>4. ASSUME NEW q \in Procs PROVE Loaded(q)'
  <2>1. CASE Holding(q) /\ ~lock
    BY <2>1 DEF Exclusive
  <2>2. CASE pc'[q] = pc[q] /\ mem'[q] = mem[q]
    <3>1. Loaded(q)
      OBVIOUS
    <3>2. QED
      BY ONLY <1>1, <2>2, <3>1 DEF Loaded, At, Live, OnlyVerdict
  <2>3. CASE pc'[q] \in {"idle", "diagnose", "a_check", "r_check", "t_check", "h_check"}
    BY <2>3 DEF Loaded, At
  <2>4. \/ Holding(q) /\ ~lock
        \/ pc'[q] = pc[q] /\ mem'[q] = mem[q]
        \/ pc'[q] \in {"idle", "diagnose", "a_check", "r_check", "t_check", "h_check"}
    <3>1. CASE mem' = mem /\ Holding(q)' = Holding(q) /\ (Holding(q) => pc'[q] = pc[q])
      BY <3>1 DEF Holding
    <3>2. CASE \E p \in Procs :
                 /\ pc' = [pc EXCEPT ![p] = pc'[p]]
                 /\ pc'[p] \in {"a_check", "r_check", "t_check", "h_check"}
                 /\ \A r \in Procs \ {p} : mem'[r] = mem[r]
      BY <3>2 DEF TypeOK
    <3>3. QED
      BY <3>1, <3>2, RequestFrame
  <2>5. QED
    BY <2>1, <2>2, <2>3, <2>4
<1>5. QED
  BY <1>2, <1>3, <1>4 DEF JournalInv

LEMMA EnvironmentLockInv ==
  ASSUME LockInv, Environment
  PROVE  JournalInv'
<1> USE DEF LockInv
<1>1. UNCHANGED <<journal, backup>>
  BY DEF Environment, UserEdit, Crash, Fault, RemoveStaleLock, disk
<1>2. OneLiveTrial' /\ BackedUp'
  BY <1>1 DEF OneLiveTrial, BackedUp, Live
<1>3. Hooked'
  <2>1. CASE UserEdit
    <3>1. PICK f \in File : /\ file' = f /\ f.bytes.hook \in {NoId, file.bytes.hook}
                            /\ ~f.exists => f = Absent
      BY <2>1 DEF UserEdit
    <3>2. QED
      BY <1>1, <2>1, <3>1 DEF UserEdit, Hooked
  <2>2. ASSUME NEW p \in Procs, Crash(p) PROVE Hooked'
    BY <2>2 DEF Crash, Hooked, NoDiagnosis, disk
  <2>3. CASE RemoveStaleLock \/ \E p \in Procs : Fault(p)
    BY <2>3 DEF RemoveStaleLock, Fault, Hooked, disk
  <2>4. QED
    BY <2>1, <2>2, <2>3 DEF Environment
<1>4. ASSUME NEW q \in Procs PROVE Loaded(q)'
  <2>1. CASE pc'[q] = pc[q] /\ mem'[q] = mem[q]
    <3>1. Loaded(q)
      OBVIOUS
    <3>2. QED
      BY ONLY <1>1, <2>1, <3>1 DEF Loaded, At, Live, OnlyVerdict
  <2>2. CASE pc'[q] \in {"idle", "diagnose", "unlock"}
    BY <2>2 DEF Loaded, At
  <2>3. QED
    BY <2>1, <2>2 DEF Environment, UserEdit, Crash, Fault, RemoveStaleLock, Goto, TypeOK
<1>5. QED
  BY <1>2, <1>3, <1>4 DEF JournalInv

LEMMA NextLockInv == ASSUME LockInv, [Next]_vars PROVE LockInv'
<1>1. TypeOK' /\ Exclusive'
  BY NextTypeOK, NextExclusive DEF LockInv
<1>2. ASSUME NEW p \in Procs, Step(p) PROVE JournalInv'
  <2>1. Loaded(p)' /\ OneLiveTrial' /\ BackedUp' /\ Hooked'
    BY <1>2, LookingSteps, ApplySteps, RestoreSteps, RateSteps DEF Step
  <2>2. ASSUME NEW q \in Procs \ {p} PROVE Loaded(q)'
    <3>1. pc'[q] \in {"idle", "diagnose"}
      BY <1>2, StepFrame DEF LockInv, Exclusive, Holding
    <3>2. QED
      BY <3>1 DEF Loaded, At
  <2>3. QED
    BY <2>1, <2>2 DEF JournalInv
<1>3. ASSUME UNCHANGED vars PROVE JournalInv'
  <2>1. OneLiveTrial' /\ BackedUp' /\ Hooked'
    BY <1>3 DEF LockInv, OneLiveTrial, Live, BackedUp, Hooked, vars, disk
  <2>2. (\A p \in Procs : Loaded(p)) /\ UNCHANGED <<journal, backup, pc, mem>>
    BY <1>3 DEF LockInv, vars, disk
  <2>3. \A p \in Procs : Loaded(p)'
    BY ONLY <2>2 DEF Loaded, At, Live, OnlyVerdict
  <2>4. QED
    BY <2>1, <2>3 DEF JournalInv
<1>4. ASSUME \/ \E s \in Servers : Request(s)
             \/ \E h \in Hooks, id \in Ids : StartRecord(h, id)
      PROVE  JournalInv'
  BY <1>4, RequestLockInv
<1>5. ASSUME Environment PROVE JournalInv'
  BY <1>5, EnvironmentLockInv
<1>6. JournalInv'
  BY <1>2, <1>3, <1>4, <1>5 DEF Next
<1>7. QED
  BY <1>1, <1>6 DEF LockInv, JournalInv

LEMMA InitLockInv == ASSUME Init PROVE LockInv
<1>1. TypeOK
  BY InitTypeOK
<1>2. \A p \in Procs : pc[p] = "idle"
  BY DEF Init
<1>3. Exclusive /\ (\A p \in Procs : Loaded(p))
  BY <1>2, LoadedIdle DEF Exclusive, Holding, At
<1>4. \A i \in Ids : ~Live(journal, i)
  BY DEF Init, Live, NoTrial
<1>5. OneLiveTrial /\ BackedUp
  BY <1>4 DEF OneLiveTrial, BackedUp
<1>6. Hooked
  BY DEF Init, Hooked, NoDiagnosis
<1>7. QED
  BY <1>1, <1>3, <1>5, <1>6 DEF LockInv

\* The lock, the journal, the backups and what each process has read agree, in
\* every reachable state.
THEOREM LockInvariance == Spec => []LockInv
BY InitLockInv, NextLockInv, PTL DEF Spec

\* Type correctness: every reachable state of the optimizer is a state the
\* types of state.go describe, whatever the number of processes and trials.
THEOREM TypeCorrect == Spec => []TypeOK
<1>1. LockInv => TypeOK
  BY DEF LockInv
<1>2. QED
  BY <1>1, LockInvariance, PTL

\* At most one trial is waiting to be restored: Apply never starts a second
\* trial, with any number of servers, edits at any moment, crashes and failed
\* writes.
THEOREM AtMostOneLiveTrial == Spec => []OneLiveTrial
<1>1. LockInv => OneLiveTrial
  BY DEF LockInv
<1>2. QED
  BY <1>1, LockInvariance, PTL
-----------------------------------------------------------------------------
(* The user's settings.                                                      *)

\* A text without a hook is not one that a trial applied, so it is the user's.
LEMMA UnhookedIsOwn ==
  ASSUME TypeOK, file.bytes.hook = NoId
  PROVE  /\ \A id \in Ids : ~IsAfter(file, journal[id], id)
         /\ UserContentKept => SameContent(file, own)
<1>1. ASSUME NEW id \in Ids, IsAfter(file, journal[id], id) PROVE FALSE
  <2>1. journal[id].before \in Content
    BY ContentTypes DEF TypeOK
  <2>2. file.bytes.hook = id
    BY <1>1, <2>1 DEF IsAfter, HasContent, AfterSettings, Content
  <2>3. QED
    BY <2>2, ConstantsAssumption
<1>2. QED
  BY <1>1 DEF UserContentKept, Recorded

\* Steps that leave the text of the settings, and what Restore needs of the
\* live trials, as they are.
LEMMA ContentFrame ==
  ASSUME AppliedStandsForOwn, UserContentKept,
         file'.exists = file.exists, file'.bytes = file.bytes,
         own'.exists = own.exists, own'.bytes = own.bytes,
         \A i \in Ids : Live(journal', i) <=> Live(journal, i),
         \A i \in Ids : Live(journal, i) =>
            /\ journal'[i].before = journal[i].before
            /\ journal'[i].existed = journal[i].existed
            /\ backup'[i] = backup[i]
  PROVE  AppliedStandsForOwn' /\ UserContentKept'
<1>1. ASSUME NEW i \in Ids, Live(journal, i)
      PROVE  IsAfter(file', journal'[i], i) <=> IsAfter(file, journal[i], i)
  BY <1>1 DEF IsAfter, HasContent
<1>2. \A i \in Ids : Recorded(i)' <=> Recorded(i)
  BY <1>1 DEF Recorded
<1>3. AppliedStandsForOwn'
  BY <1>1, <1>2 DEF AppliedStandsForOwn
<1>4. UserContentKept'
  BY <1>2 DEF UserContentKept, SameContent
<1>5. QED
  BY <1>3, <1>4

\* The journal that Apply saves differs from the one there is only in its new
\* trial.
LEMMA OnlyPlanned ==
  ASSUME NEW p \in Procs, Loaded(p), ApplyJournal(p)
  PROVE  /\ journal[mem[p].id].status = "none"
         /\ \A i \in Ids : Live(journal', i) => Live(journal, i) \/ i = mem[p].id
<1>1. At(p, "a_journal") /\ journal' = mem[p].journal
  BY DEF ApplyJournal
<1>2. /\ journal[mem[p].id].status = "none"
      /\ \A i \in Ids \ {mem[p].id} : mem[p].journal[i] = journal[i]
  BY <1>1 DEF Loaded, At
<1>3. QED
  BY <1>1, <1>2 DEF Live

LEMMA ApplyContent ==
  ASSUME LockInv, LockInv', ContentInv, NEW p \in Procs,
         ApplyBackup(p) \/ ApplyJournal(p) \/ ApplyWrite(p) \/ ApplyCommit(p)
  PROVE  AppliedStandsForOwn' /\ UserContentKept'
<1> USE DEF LockInv, ContentInv, At
<1>0. mem[p].id \in Ids
  BY DEF Exclusive, ApplyBackup, ApplyJournal, ApplyWrite, ApplyCommit
<1>a. Loaded(p) /\ Checked(p)
  OBVIOUS
<1>1. CASE ApplyBackup(p)
  <2>1. UNCHANGED <<file, journal, own>> /\ \A i \in Ids : ~Live(journal, i)
    BY <1>1 DEF ApplyBackup, Loaded, ghost
  <2>2. QED
    BY <2>1, ContentFrame
<1>2. CASE ApplyJournal(p)
  <2>1. UNCHANGED <<file, own>> /\ \A i \in Ids : ~Live(journal, i)
    BY <1>2 DEF ApplyJournal, Loaded, ghost
  <2>2. SameContent(file, own)
    BY <2>1 DEF UserContentKept, Recorded
  <2>3. UserContentKept'
    BY <2>1, <2>2 DEF UserContentKept, SameContent
  <2>4. ASSUME NEW i \in Ids, Live(journal', i), IsAfter(file', journal'[i], i)
        PROVE  FALSE
    <3>1. i = mem[p].id /\ journal[i].status = "none"
      <4>1. Live(journal', i) /\ ~Live(journal, i)
        BY <2>1, <2>4
      <4>2. QED
        BY <1>2, <1>a, <4>1, OnlyPlanned
    <3>2. journal'[i].before \in Content
      BY ContentTypes DEF TypeOK
    <3>3. file.bytes.hook = i
      BY <2>1, <2>4, <3>2 DEF IsAfter, HasContent, AfterSettings, Content
    <3>4. QED
      BY <3>1, <3>3, ConstantsAssumption DEF Hooked
  <2>5. QED
    BY <2>3, <2>4 DEF AppliedStandsForOwn
<1>3. CASE ApplyWrite(p)
  <2>0. PICK id \in Ids : id = mem[p].id
    BY <1>0
  <2>1. /\ UNCHANGED <<journal, backup, own>>
        /\ Live(journal, id) /\ mem[p].journal = journal
        /\ IsBefore(file, journal[id])
    BY <1>3, <1>a, <2>0 DEF ApplyWrite, Loaded, Checked, Live, ghost
  <2>2. journal[id].before.hook = NoId /\ backup[id] = journal[id].before
    BY <2>1 DEF BackedUp
  <2>3. SameContent(file, own)
    BY <2>1, <2>2, UnhookedIsOwn DEF IsBefore, HasContent
  <2>4. file'.exists /\ file'.bytes = AfterSettings(journal[id].before, id)
    BY <1>3, <2>0, <2>1 DEF ApplyWrite
  <2>5. file'.exists = TRUE
    BY <2>4 DEF TypeOK, File
  <2>6. Recorded(id)'
    <3>1. Live(journal', id) /\ IsAfter(file', journal'[id], id)
      BY <2>1, <2>4, <2>5 DEF IsAfter, HasContent
    <3>2. journal'[id].existed = own'.exists /\ journal'[id].before = own'.bytes
      BY <2>1, <2>3 DEF IsBefore, HasContent, SameContent
    <3>3. QED
      BY <2>1, <2>2, <3>1, <3>2 DEF Recorded
  <2>7. \A i \in Ids : Live(journal', i) => i = id
    BY <2>1 DEF OneLiveTrial
  <2>8. QED
    BY <2>6, <2>7 DEF AppliedStandsForOwn, UserContentKept
<1>4. CASE ApplyCommit(p)
  <2>1. /\ UNCHANGED <<file, backup, own>>
        /\ journal[mem[p].id].status = "prepared"
        /\ journal' = [journal EXCEPT ![mem[p].id].status = "active"]
    BY <1>4, <1>a DEF ApplyCommit, Loaded, ghost
  <2>2. \A i \in Ids : /\ Live(journal', i) <=> Live(journal, i)
                       /\ journal'[i].before = journal[i].before
                       /\ journal'[i].existed = journal[i].existed
    BY <1>0, <2>1 DEF Live, TypeOK, Trial
  <2>3. QED
    BY <2>1, <2>2, ContentFrame
<1>5. QED
  BY <1>1, <1>2, <1>3, <1>4

LEMMA RestoreContent ==
  ASSUME LockInv, LockInv', ContentInv, NEW p \in Procs,
         RestoreJournal(p) \/ RestoreWrite(p) \/ RestoreRemove(p)
         \/ RestoreChmod(p) \/ RestoreCommit(p)
  PROVE  AppliedStandsForOwn' /\ UserContentKept'
<1> USE DEF LockInv, ContentInv, At
<1>0. PICK id \in Ids : id = mem[p].id
  BY DEF Exclusive, RestoreJournal, RestoreWrite, RestoreRemove, RestoreChmod,
     RestoreCommit
<1>a. Loaded(p) /\ Checked(p)
  OBVIOUS
<1>1. CASE RestoreJournal(p)
  <2>1. /\ UNCHANGED <<file, backup, own>> /\ Live(journal, id)
        /\ journal'[id] = [journal[id] EXCEPT !.status = "restoring"]
        /\ \A i \in Ids \ {id} : journal'[i] = journal[i]
    BY <1>0, <1>1, <1>a DEF RestoreJournal, Loaded, ghost
  <2>2. \A i \in Ids : /\ Live(journal', i) <=> Live(journal, i)
                       /\ journal'[i].before = journal[i].before
                       /\ journal'[i].existed = journal[i].existed
    BY <2>1 DEF Live, TypeOK, Trial
  <2>3. QED
    BY <2>1, <2>2, ContentFrame
<1>2. CASE RestoreWrite(p) \/ RestoreRemove(p)
  <2>1. /\ UNCHANGED <<journal, backup, own>> /\ Live(journal, id)
        /\ mem[p].journal = journal /\ IsAfter(file, journal[id], id)
    BY <1>0, <1>2, <1>a DEF RestoreWrite, RestoreRemove, Loaded, Checked, Live, ghost
  <2>2. Recorded(id) /\ journal[id].before.hook = NoId
        /\ (~journal[id].existed => journal[id].before = Absent.bytes)
    BY <2>1 DEF AppliedStandsForOwn, BackedUp
  <2>3. file'.exists = own.exists /\ file'.bytes = own.bytes
    <3>1. CASE RestoreWrite(p)
      BY <1>0, <2>1, <2>2, <3>1 DEF RestoreWrite, Recorded, TypeOK, Trial
    <3>2. CASE RestoreRemove(p)
      <4>1. file' = Absent /\ ~journal[id].existed
        BY <1>0, <2>1, <3>2 DEF RestoreRemove
      <4>2. journal[id].existed = FALSE
        BY <4>1 DEF TypeOK, Trial
      <4>3. QED
        BY <2>2, <4>1, <4>2 DEF Recorded, Absent
    <3>3. QED
      BY <1>2, <3>1, <3>2
  <2>4. file'.bytes.hook = NoId
    BY <2>2, <2>3 DEF Recorded
  <2>5. UserContentKept'
    BY <2>1, <2>3 DEF UserContentKept, SameContent
  <2>6. \A i \in Ids : ~IsAfter(file', journal'[i], i)
    <3>1. ASSUME NEW i \in Ids, IsAfter(file', journal'[i], i) PROVE FALSE
      <4>1. journal'[i].before \in Content
        BY ContentTypes DEF TypeOK
      <4>2. file'.bytes.hook = i
        BY <3>1, <4>1 DEF IsAfter, HasContent, AfterSettings, Content
      <4>3. QED
        BY <2>4, <4>2, ConstantsAssumption
    <3>2. QED
      BY <3>1
  <2>7. QED
    BY <2>5, <2>6 DEF AppliedStandsForOwn
<1>3. CASE RestoreChmod(p)
  <2>1. /\ UNCHANGED <<journal, backup, own>>
        /\ file'.exists = file.exists /\ file'.bytes = file.bytes
    BY <1>3 DEF RestoreChmod, TypeOK, File, ghost
  <2>2. QED
    BY <2>1, ContentFrame
<1>4. CASE RestoreCommit(p)
  <2>1. /\ UNCHANGED <<file, own>> /\ file.bytes.hook = NoId
        /\ journal' = [journal EXCEPT ![id].status = "restored"]
    BY <1>0, <1>4, <1>a DEF RestoreCommit, Loaded, Checked, ghost
  <2>2. SameContent(file, own) /\ \A i \in Ids : ~IsAfter(file, journal[i], i)
    BY <2>1, UnhookedIsOwn
  <2>3. UserContentKept'
    BY <2>1, <2>2 DEF UserContentKept, SameContent
  <2>4. \A i \in Ids : journal'[i].before = journal[i].before
    BY <2>1 DEF TypeOK, Trial
  <2>5. AppliedStandsForOwn'
    BY <2>1, <2>2, <2>4 DEF AppliedStandsForOwn, IsAfter, HasContent
  <2>6. QED
    BY <2>3, <2>5
<1>5. QED
  BY <1>1, <1>2, <1>3, <1>4

LEMMA UserEditContent ==
  ASSUME LockInv, LockInv', UserEdit
  PROVE  AppliedStandsForOwn' /\ UserContentKept'
<1> USE DEF LockInv
<1>1. PICK f \in File : file' = f /\ own' \in UserOwns(f)
  BY DEF UserEdit
<1>2. UNCHANGED <<journal, backup>>
  BY DEF UserEdit
<1>3. CASE \A id \in Ids : ~(Live(journal, id) /\ IsAfter(f, journal[id], id))
  <2>1. own' = f
    BY <1>1, <1>3 DEF UserOwns
  <2>2. UserContentKept'
    BY <1>1, <2>1 DEF UserContentKept, SameContent
  <2>3. QED
    BY <1>1, <1>2, <1>3, <2>2 DEF AppliedStandsForOwn, Live
<1>4. CASE \E id \in Ids : Live(journal, id) /\ IsAfter(f, journal[id], id)
  <2>1. PICK id \in Ids : /\ Live(journal, id) /\ IsAfter(f, journal[id], id)
                          /\ own' = [exists |-> journal[id].existed,
                                     bytes |-> journal[id].before, mode |-> f.mode]
    BY <1>1, <1>4 DEF UserOwns
  <2>2. \A i \in Ids : Live(journal', i) => i = id
    BY <1>2, <2>1 DEF OneLiveTrial, Live
  <2>3. own'.exists = journal[id].existed /\ own'.bytes = journal[id].before
    BY <2>1
  <2>4. backup[id] = journal[id].before
    BY <2>1 DEF BackedUp
  <2>5. Recorded(id)'
    BY <1>1, <1>2, <2>1, <2>3, <2>4 DEF Recorded, Live
  <2>6. QED
    BY <2>2, <2>5 DEF AppliedStandsForOwn, UserContentKept
<1>5. QED
  BY <1>3, <1>4

\* A step that finds something in the settings leaves it there for the write.
LEMMA StepChecked ==
  ASSUME LockInv, ContentInv, NEW p \in Procs, Step(p)
  PROVE  Checked(p)'
<1> USE DEF LockInv, ContentInv, At, Goto, disk, ghost
<1>a. Loaded(p) /\ Checked(p) /\ mem[p] \in Memory
  BY DEF TypeOK
<1>1. CASE ApplyRecheck(p)
  <2>1. /\ UNCHANGED <<file, journal, mem>> /\ mem[p].journal = journal
        /\ pc'[p] = "unlock" \/ (pc'[p] = "a_write" /\ Unchanged(p))
    BY <1>1, <1>a DEF ApplyRecheck, Loaded, TypeOK
  <2>2. QED
    BY <2>1 DEF Checked, Unchanged
<1>2. CASE RestoreCheck(p)
  <2>1. PICK id \in Ids : id = mem[p].id
    BY <1>2 DEF RestoreCheck, Exclusive
  <2>2. /\ UNCHANGED <<file, journal>> /\ pc'[p] = "r_journal"
        /\ Live(journal, id) /\ Restorable(file, journal[id], id)
    BY <1>2, <2>1 DEF RestoreCheck, RestoreAllowed, TypeOK
  <2>3. mem'[p].id = id /\ (mem'[p].same <=> IsBefore(file, journal[id]))
    BY <1>2, <1>a, <2>1 DEF RestoreCheck, TypeOK, Memory
  <2>4. IsBefore(file, journal[id]) => file.bytes.hook = NoId
    BY <2>2 DEF BackedUp, IsBefore, HasContent
  <2>5. QED
    BY <2>2, <2>3, <2>4 DEF Checked, Restorable
<1>3. CASE RestoreJournal(p)
  <2>1. PICK id \in Ids : id = mem[p].id
    BY <1>3 DEF RestoreJournal, Exclusive
  <2>2. /\ UNCHANGED <<file, mem>>
        /\ journal'[id] = [journal[id] EXCEPT !.status = "restoring"]
        /\ pc'[p] = IF mem[p].same THEN "r_commit" ELSE "r_write"
    BY <1>3, <1>a, <2>1 DEF RestoreJournal, Loaded, TypeOK
  <2>3. journal'[id].before = journal[id].before
    BY <2>2 DEF TypeOK, Trial
  <2>4. CASE mem[p].same
    BY <1>3, <1>a, <2>2, <2>4 DEF Checked, RestoreJournal
  <2>5. CASE ~mem[p].same
    <3>1. IsAfter(file, journal[id], id)
      BY <1>3, <1>a, <2>1, <2>5 DEF Checked, RestoreJournal
    <3>2. IsAfter(file', journal'[id], id)
      BY <2>2, <2>3, <3>1 DEF IsAfter, HasContent
    <3>3. QED
      BY <2>1, <2>2, <2>5, <3>2 DEF Checked
  <2>6. QED
    BY <2>4, <2>5
<1>4. CASE RestoreWrite(p)
  <2>1. PICK id \in Ids : id = mem[p].id
    BY <1>4 DEF RestoreWrite, Exclusive
  <2>2. Live(journal, id) /\ mem[p].journal = journal
    BY <1>4, <1>a, <2>1 DEF RestoreWrite, Loaded, Live
  <2>3. file'.bytes.hook = NoId /\ pc'[p] = "r_chmod"
    BY <1>4, <2>1, <2>2 DEF RestoreWrite, BackedUp, TypeOK
  <2>4. QED
    BY <2>3 DEF Checked
<1>5. CASE RestoreRemove(p)
  <2>1. file'.bytes.hook = NoId /\ pc'[p] \in {"r_commit", "unlock"}
    BY <1>5 DEF RestoreRemove, Absent, TypeOK
  <2>2. QED
    BY <2>1 DEF Checked
<1>6. CASE RestoreChmod(p)
  <2>1. file'.bytes.hook = NoId /\ pc'[p] \in {"r_commit", "unlock"}
    BY <1>6, <1>a DEF RestoreChmod, Checked, TypeOK, File
  <2>2. QED
    BY <2>1 DEF Checked
<1>7. CASE pc'[p] \notin {"a_write", "r_journal", "r_write", "r_chmod", "r_commit"}
  BY <1>7 DEF Checked
<1>8. QED
  <2>1. CASE Unlock(p) \/ UnlockRestored(p) \/ ApplyCheck(p) \/ ApplyRefused(p)
             \/ ApplyBackup(p) \/ ApplyJournal(p) \/ ApplyWrite(p) \/ ApplyCommit(p)
    BY <2>1, <1>7 DEF Unlock, UnlockRestored, Release, ApplyCheck, ApplyRefused,
       ApplyBackup, ApplyJournal, ApplyWrite, ApplyCommit, TypeOK
  <2>2. CASE RestoreRefused(p) \/ RestoreCommit(p) \/ RateCheck(p) \/ RateSave(p)
             \/ RecordCheck(p) \/ RecordWrite(p)
    BY <2>2, <1>7 DEF RestoreRefused, RestoreCommit, RateCheck, RateSave,
       RecordCheck, RecordWrite, TypeOK
  <2>3. QED
    BY <1>1, <1>2, <1>3, <1>4, <1>5, <1>6, <2>1, <2>2 DEF Step

LEMMA NextChecked ==
  ASSUME LockInv, ContentInv, EditsInWindow = FALSE, [Next]_vars,
         NEW q \in Procs
  PROVE  Checked(q)'
<1> USE DEF LockInv, ContentInv
<1>1. CASE pc'[q] \notin {"a_write", "r_journal", "r_write", "r_chmod", "r_commit"}
  BY <1>1 DEF Checked, At
<1>2. CASE UNCHANGED <<file, journal>> /\ pc'[q] = pc[q] /\ mem'[q] = mem[q]
  <2>1. Checked(q)
    OBVIOUS
  <2>2. QED
    BY ONLY <1>2, <2>1 DEF Checked, At, IsBefore, IsAfter, HasContent
<1>3. ASSUME NEW p \in Procs, Step(p) PROVE Checked(q)'
  <2>1. CASE p = q
    BY <1>3, <2>1, StepChecked
  <2>2. CASE p # q
    BY <1>1, <1>3, <2>2, StepFrame DEF Exclusive, Holding
  <2>3. QED
    BY <2>1, <2>2
<1>4. ASSUME \/ \E s \in Servers : Request(s)
             \/ \E h \in Hooks, id \in Ids : StartRecord(h, id)
      PROVE  Checked(q)'
  <2>1. CASE UNCHANGED mem /\ (Holding(q) => pc'[q] = pc[q]) /\ (Holding(q)' = Holding(q))
    BY <1>1, <1>2, <1>4, <2>1, RequestFrame DEF Holding
  <2>2. CASE ~lock
    BY <1>1, <1>2, <1>4, <2>2, RequestFrame DEF Holding, Exclusive, TypeOK
  <2>3. QED
    BY <1>4, <2>1, <2>2, RequestFrame
<1>5. CASE UserEdit
  <2>1. ~InWindow(q) /\ UNCHANGED <<journal, pc, mem>>
    BY <1>5 DEF UserEdit
  <2>2. file.bytes.hook = NoId => file'.bytes.hook = NoId
    BY <1>5 DEF UserEdit
  <2>3. Checked(q)
    OBVIOUS
  <2>4. QED
    BY ONLY <2>1, <2>2, <2>3 DEF Checked, At, InWindow
<1>6. CASE RemoveStaleLock \/ UNCHANGED vars
  BY <1>2, <1>6 DEF RemoveStaleLock, vars, disk
<1>7. ASSUME NEW p \in Procs, Crash(p) \/ Fault(p) PROVE Checked(q)'
  BY <1>1, <1>2, <1>7 DEF Crash, Fault, disk, Goto, At, TypeOK
<1>8. QED
  BY <1>3, <1>4, <1>5, <1>6, <1>7 DEF Next, Environment

LEMMA NextContentInv ==
  ASSUME LockInv, LockInv', ContentInv, EditsInWindow = FALSE, [Next]_vars
  PROVE  ContentInv'
<1> USE DEF ContentInv
<1>1. \A q \in Procs : Checked(q)'
  BY NextChecked
<1>2. AppliedStandsForOwn' /\ UserContentKept'
  <2>1. CASE /\ file'.exists = file.exists /\ file'.bytes = file.bytes
             /\ own'.exists = own.exists /\ own'.bytes = own.bytes
             /\ \A i \in Ids : /\ Live(journal', i) <=> Live(journal, i)
                              /\ journal'[i].before = journal[i].before
                              /\ journal'[i].existed = journal[i].existed
                              /\ backup'[i] = backup[i]
    BY <2>1, ContentFrame
  <2>2. ASSUME NEW p \in Procs, Step(p)
        PROVE  AppliedStandsForOwn' /\ UserContentKept'
    <3>1. CASE ApplyBackup(p) \/ ApplyJournal(p) \/ ApplyWrite(p) \/ ApplyCommit(p)
      BY <3>1, ApplyContent
    <3>2. CASE RestoreJournal(p) \/ RestoreWrite(p) \/ RestoreRemove(p)
               \/ RestoreChmod(p) \/ RestoreCommit(p)
      BY <3>2, RestoreContent
    <3>3. CASE ApplyCheck(p)
      <4>1. /\ UNCHANGED <<file, journal, backup>>
            /\ own'.exists = own.exists /\ own'.bytes = own.bytes
        BY <3>3 DEF ApplyCheck, disk, LockInv, TypeOK, File
      <4>2. QED
        BY <2>1, <4>1 DEF Live
    <3>4. CASE RateSave(p)
      <4>1. /\ UNCHANGED <<file, backup, own>>
            /\ OnlyVerdict(journal, journal')
        BY <3>4 DEF RateSave, LockInv, Loaded, At, ghost
      <4>2. QED
        BY <2>1, <4>1 DEF Live, OnlyVerdict
    <3>5. CASE Unlock(p) \/ UnlockRestored(p) \/ ApplyRefused(p) \/ ApplyRecheck(p)
               \/ RestoreCheck(p) \/ RestoreRefused(p) \/ RateCheck(p)
               \/ RecordCheck(p) \/ RecordWrite(p)
      <4>1. UNCHANGED <<file, journal, backup, own>>
        BY <3>5 DEF Unlock, UnlockRestored, Release, ApplyRefused, ApplyRecheck,
           RestoreCheck, RestoreRefused, RateCheck, RecordCheck, RecordWrite,
           disk, ghost
      <4>2. QED
        BY <2>1, <4>1 DEF Live
    <3>6. QED
      BY <2>2, <3>1, <3>2, <3>3, <3>4, <3>5 DEF Step
  <2>3. CASE UserEdit
    BY <2>3, UserEditContent
  <2>4. CASE UNCHANGED <<file, journal, backup, own>>
    BY <2>1, <2>4 DEF Live
  <2>5. ASSUME \/ \E s \in Servers : Request(s)
               \/ \E h \in Hooks, id \in Ids : StartRecord(h, id)
        PROVE  UNCHANGED <<file, journal, backup, own>>
    BY <2>5, RequestFrame DEF LockInv
  <2>6. ASSUME \/ RemoveStaleLock \/ UNCHANGED vars
               \/ \E p \in Procs : Crash(p) \/ Fault(p)
        PROVE  UNCHANGED <<file, journal, backup, own>>
    BY <2>6 DEF RemoveStaleLock, Crash, Fault, vars, disk, ghost
  <2>7. QED
    BY <2>2, <2>3, <2>4, <2>5, <2>6 DEF Next, Environment
<1>3. QED
  BY <1>1, <1>2

\* What a process found in the settings is there when it writes them, and the
\* applied text stands for what the user had, as long as no edit falls between.
THEOREM ContentInvariance ==
  ASSUME EditsInWindow = FALSE
  PROVE  Spec => []IInv
<1>1. Init => IInv
  <2> SUFFICES ASSUME Init PROVE ContentInv
    BY InitLockInv DEF IInv
  <2>2. \A p \in Procs : Checked(p)
    <3>1. \A p \in Procs : pc[p] = "idle"
      BY DEF Init
    <3>2. QED
      BY ONLY <3>1 DEF Checked, At
  <2>3. AppliedStandsForOwn /\ UserContentKept
    <3>1. own = file /\ \A i \in Ids : ~Live(journal, i)
      BY DEF Init, Live, NoTrial
    <3>2. QED
      BY ONLY <3>1 DEF AppliedStandsForOwn, UserContentKept, SameContent
  <2>4. QED
    BY <2>2, <2>3 DEF ContentInv
<1>2. IInv /\ [Next]_vars => IInv'
  BY NextLockInv, NextContentInv DEF IInv
<1>3. QED
  BY <1>1, <1>2, PTL DEF Spec

\* What the user last left in the settings is on disk or one Restore away, in
\* every state, as long as no edit falls between the last look at the settings
\* and the write that look is for.
THEOREM UserContentAlwaysKept ==
  ASSUME EditsInWindow = FALSE
  PROVE  Spec => []UserContentKept
<1>1. IInv => UserContentKept
  BY DEF IInv, ContentInv
<1>2. QED
  BY <1>1, ContentInvariance, PTL
-----------------------------------------------------------------------------
(* What is invariant besides IInv: what the journal says and how it changes,  *)
(* and that the trial is the atomic one of ReversibleChange.                  *)

\* The verdict about to be saved is the only change to the journal.
Rated(p) ==
  At(p, "t_save") =>
    \E o \in {"unknown", "good"} : mem[p].journal = [journal EXCEPT ![mem[p].id].outcome = o]

\* A receipt about to be written is for an active trial.
Delivering(p) == At(p, "h_write") => journal[mem[p].id].status = "active"

\* What the journal says of an active trial, or is about to say, the file shows.
Shown ==
  ~touched =>
    /\ \A id \in Ids : journal[id].status = "active" => IsAfter(file, journal[id], id)
    /\ \A p \in Procs : At(p, "a_commit") => IsAfter(file, journal[mem[p].id], mem[p].id)

RecordInv == LockInv /\ (\A p \in Procs : Rated(p) /\ Delivering(p)) /\ Shown

\* Before the user's first edit, a restore has written back what it found.
WrittenBack(p) ==
  edits = 0 /\ ((At(p, "r_journal") /\ mem[p].same) \/ pc[p] \in {"r_chmod", "r_commit"}) =>
    IsBefore(file, journal[mem[p].id])

RefinementInv == IInv /\ RecordInv /\ \A p \in Procs : WrittenBack(p)

-----------------------------------------------------------------------------
(* A step saves one trial, and what it saves follows what was there.         *)

Replaced(id, u) == journal'[id] = u /\ \A i \in Ids \ {id} : journal'[i] = journal[i]

Follows(p, t, u) ==
  \/ At(p, "a_journal") /\ t.status = "none" /\ u.status = "prepared"
  \/ At(p, "a_commit") /\ t.status = "prepared" /\ u = [t EXCEPT !.status = "active"]
  \/ /\ At(p, "r_journal") /\ t.status \in {"prepared", "active", "restoring"}
     /\ u = [t EXCEPT !.status = "restoring"]
  \/ At(p, "r_commit") /\ t.status = "restoring" /\ u = [t EXCEPT !.status = "restored"]
  \/ At(p, "t_save") /\ \E o \in {"unknown", "good"} : u = [t EXCEPT !.outcome = o]

LEMMA StepSaves ==
  ASSUME RecordInv, NEW p \in Procs, Step(p)
  PROVE  \/ UNCHANGED journal
         \/ /\ mem[p].id \in Ids
            /\ \E u \in Trial : /\ Replaced(mem[p].id, u)
                                /\ Follows(p, journal[mem[p].id], u)
<1> USE DEF RecordInv, LockInv, At
<1>1. CASE ~(ApplyJournal(p) \/ ApplyCommit(p) \/ RestoreJournal(p) \/ RestoreCommit(p) \/ RateSave(p))
  <2>1. UNCHANGED journal
    BY <1>1 DEF Step, Unlock, UnlockRestored, Release, ApplyCheck, ApplyRefused, ApplyBackup,
       ApplyRecheck, ApplyWrite, RestoreCheck, RestoreRefused, RestoreWrite, RestoreRemove,
       RestoreChmod, RateCheck, RecordCheck, RecordWrite, disk
  <2>2. QED
    BY <2>1
<1>2. ASSUME ApplyJournal(p) \/ ApplyCommit(p) \/ RestoreJournal(p) \/ RestoreCommit(p) \/ RateSave(p)
      PROVE  /\ mem[p].id \in Ids
             /\ \E u \in Trial : /\ Replaced(mem[p].id, u)
                                 /\ Follows(p, journal[mem[p].id], u)
  <2>1. PICK id \in Ids : id = mem[p].id
    BY <1>2 DEF ApplyJournal, ApplyCommit, RestoreJournal, RestoreCommit, RateSave, Exclusive
  <2>2. /\ journal \in [Ids -> Trial] /\ mem[p].journal \in [Ids -> Trial]
        /\ journal[id] \in Trial /\ mem[p].journal[id] \in Trial /\ Loaded(p) /\ Rated(p)
    BY DEF TypeOK, Memory
  <2>3. CASE ApplyJournal(p)
    <3>1. /\ Replaced(id, mem[p].journal[id]) /\ At(p, "a_journal")
          /\ journal[id].status = "none" /\ mem[p].journal[id].status = "prepared"
      BY <2>1, <2>2, <2>3 DEF ApplyJournal, Loaded, Replaced
    <3>2. QED
      BY <3>1, <2>1, <2>2 DEF Follows
  <2>4. CASE ApplyCommit(p)
    <3>1. /\ At(p, "a_commit") /\ journal[id].status = "prepared"
          /\ journal' = [journal EXCEPT ![id].status = "active"]
      BY <2>1, <2>2, <2>4 DEF ApplyCommit, Loaded
    <3>2. [journal[id] EXCEPT !.status = "active"] \in Trial
      BY <2>2 DEF Trial
    <3>3. Replaced(id, [journal[id] EXCEPT !.status = "active"])
      BY <3>1, <2>2 DEF Replaced
    <3>4. QED
      BY <3>1, <3>2, <3>3, <2>1 DEF Follows
  <2>5. CASE RestoreJournal(p)
    <3>1. /\ At(p, "r_journal") /\ Live(journal, id)
          /\ journal'[id] = [journal[id] EXCEPT !.status = "restoring"]
          /\ \A i \in Ids \ {id} : journal'[i] = journal[i]
      BY <2>1, <2>2, <2>5 DEF RestoreJournal, Loaded
    <3>2. [journal[id] EXCEPT !.status = "restoring"] \in Trial
      BY <2>2 DEF Trial
    <3>3. journal[id].status \in {"prepared", "active", "restoring"}
      BY <3>1, <2>2 DEF Live, Trial
    <3>4. QED
      BY <3>1, <3>2, <3>3, <2>1 DEF Follows, Replaced
  <2>6. CASE RestoreCommit(p)
    <3>1. /\ At(p, "r_commit") /\ journal[id].status = "restoring"
          /\ journal' = [journal EXCEPT ![id].status = "restored"]
      BY <2>1, <2>2, <2>6 DEF RestoreCommit, Loaded
    <3>2. [journal[id] EXCEPT !.status = "restored"] \in Trial
      BY <2>2 DEF Trial
    <3>3. Replaced(id, [journal[id] EXCEPT !.status = "restored"])
      BY <3>1, <2>2 DEF Replaced
    <3>4. QED
      BY <3>1, <3>2, <3>3, <2>1 DEF Follows
  <2>7. CASE RateSave(p)
    <3>1. PICK o \in {"unknown", "good"} :
            At(p, "t_save") /\ journal' = [journal EXCEPT ![id].outcome = o]
      BY <2>1, <2>2, <2>7 DEF RateSave, Rated
    <3>2. [journal[id] EXCEPT !.outcome = o] \in Trial
      BY <2>2 DEF Trial
    <3>3. Replaced(id, [journal[id] EXCEPT !.outcome = o])
      BY <3>1, <2>2 DEF Replaced
    <3>4. QED
      BY <3>1, <3>2, <3>3, <2>1 DEF Follows
  <2>8. QED
    BY <1>2, <2>3, <2>4, <2>5, <2>6, <2>7
<1>3. QED
  BY <1>1, <1>2

\* Everything else leaves the journal and the receipts alone.
LEMMA OthersSaveNothing ==
  ASSUME TypeOK,
         \/ \E s \in Servers : Request(s)
         \/ \E h \in Hooks, id \in Ids : StartRecord(h, id)
         \/ Environment
         \/ UNCHANGED vars
  PROVE  UNCHANGED <<journal, receipts>>
<1>1. CASE \/ \E s \in Servers : Request(s)
           \/ \E h \in Hooks, id \in Ids : StartRecord(h, id)
  BY <1>1, RequestFrame
<1>2. CASE Environment \/ UNCHANGED vars
  BY <1>2 DEF Environment, UserEdit, Crash, Fault, RemoveStaleLock, vars, disk
<1>3. QED
  BY <1>1, <1>2

-----------------------------------------------------------------------------
(* What a process is about to save, and what the file shows.                 *)

LEMMA StepRated ==
  ASSUME RecordInv, NEW p \in Procs, Step(p)
  PROVE  Rated(p)' /\ Delivering(p)'
<1> USE DEF RecordInv, LockInv, At, Goto
<1>1. CASE RateCheck(p) /\ pc'[p] = "t_save"
  <2>1. PICK id \in Ids : id = mem[p].id
    BY <1>1 DEF RateCheck, Exclusive
  <2>2. PICK o \in {"unknown", "good"} :
          mem' = [mem EXCEPT ![p].journal = [journal EXCEPT ![id].outcome = o]]
    <3>1. mem[p].outcome \in {"unknown", "good", "keep"} /\ pc[p] = "t_check"
      BY <1>1 DEF TypeOK, Memory, RateCheck
    <3>2. Verdict(mem[p].outcome) \in {"unknown", "good"}
      BY <3>1 DEF Verdict
    <3>3. mem' = [mem EXCEPT ![p].journal = [journal EXCEPT ![id].outcome = Verdict(mem[p].outcome)]]
      BY <1>1, <2>1 DEF RateCheck, TypeOK
    <3>4. QED
      BY <3>2, <3>3
  <2>3. mem \in [Procs -> Memory] /\ mem[p] \in Memory /\ UNCHANGED journal
    BY <1>1 DEF TypeOK, RateCheck, disk
  <2>4. mem'[p].id = id /\ mem'[p].journal = [journal EXCEPT ![id].outcome = o]
    BY <2>1, <2>2, <2>3 DEF Memory
  <2>5. QED
    BY <1>1, <2>3, <2>4 DEF Rated, Delivering
<1>2. CASE RecordCheck(p) /\ pc'[p] = "h_write"
  <2>1. UNCHANGED <<journal, mem>> /\ journal[mem[p].id].status = "active"
    BY <1>2 DEF RecordCheck, disk, TypeOK
  <2>2. QED
    BY <1>2, <2>1 DEF Rated, Delivering
<1>3. CASE pc'[p] \notin {"t_save", "h_write"}
  BY <1>3 DEF Rated, Delivering
<1>4. pc'[p] \in {"t_save", "h_write"} =>
        (RateCheck(p) /\ pc'[p] = "t_save") \/ (RecordCheck(p) /\ pc'[p] = "h_write")
  <2>1. CASE Unlock(p) \/ UnlockRestored(p) \/ ApplyCheck(p) \/ ApplyRefused(p)
             \/ ApplyBackup(p) \/ ApplyJournal(p) \/ ApplyRecheck(p) \/ ApplyWrite(p)
             \/ ApplyCommit(p)
    BY <2>1 DEF Unlock, UnlockRestored, Release, ApplyCheck, ApplyRefused, ApplyBackup,
       ApplyJournal, ApplyRecheck, ApplyWrite, ApplyCommit, TypeOK
  <2>2. CASE RestoreCheck(p) \/ RestoreRefused(p) \/ RestoreJournal(p) \/ RestoreWrite(p)
             \/ RestoreRemove(p) \/ RestoreChmod(p) \/ RestoreCommit(p) \/ RateSave(p)
             \/ RecordWrite(p)
    BY <2>2 DEF RestoreCheck, RestoreRefused, RestoreJournal, RestoreWrite, RestoreRemove,
       RestoreChmod, RestoreCommit, RateSave, RecordWrite, TypeOK
  <2>3. CASE RateCheck(p)
    BY <2>3 DEF RateCheck, TypeOK
  <2>4. CASE RecordCheck(p)
    BY <2>4 DEF RecordCheck, TypeOK
  <2>5. QED
    BY <2>1, <2>2, <2>3, <2>4 DEF Step
<1>5. QED
  BY <1>1, <1>2, <1>3, <1>4

\* A process that does not step keeps what it holds, or holds nothing.
LEMMA WaitingKeeps ==
  ASSUME TypeOK, Exclusive, [Next]_vars, NEW q \in Procs, ~Step(q)
  PROVE  \/ ~Holding(q)'
         \/ pc'[q] \in {"unlock", "a_check", "r_check", "t_check", "h_check"}
         \/ UNCHANGED <<journal, pc[q], mem[q]>>
<1>1. ASSUME NEW p \in Procs, Step(p)
      PROVE  ~Holding(q)'
  BY <1>1, StepFrame DEF Exclusive, Holding
<1>2. ASSUME \/ \E s \in Servers : Request(s)
             \/ \E h \in Hooks, id \in Ids : StartRecord(h, id)
      PROVE  \/ ~Holding(q)'
             \/ pc'[q] \in {"unlock", "a_check", "r_check", "t_check", "h_check"}
             \/ UNCHANGED <<journal, pc[q], mem[q]>>
  BY <1>2, RequestFrame DEF Exclusive, Holding, TypeOK
<1>3. ASSUME NEW p \in Procs, Crash(p) \/ Fault(p)
      PROVE  \/ ~Holding(q)'
             \/ pc'[q] \in {"unlock", "a_check", "r_check", "t_check", "h_check"}
             \/ UNCHANGED <<journal, pc[q], mem[q]>>
  BY <1>3 DEF Crash, Fault, Holding, TypeOK, disk, At, Goto
<1>4. CASE UserEdit \/ RemoveStaleLock \/ UNCHANGED vars
  BY <1>4 DEF UserEdit, RemoveStaleLock, vars, disk
<1>5. QED
  BY <1>1, <1>2, <1>3, <1>4 DEF Next, Environment

LEMMA NextRated ==
  ASSUME RecordInv, [Next]_vars, NEW q \in Procs
  PROVE  Rated(q)' /\ Delivering(q)'
<1>1. CASE Step(q)
  BY <1>1, StepRated
<1>2. CASE ~Step(q)
  <2>1. \/ pc'[q] \notin {"t_save", "h_write"}
        \/ UNCHANGED <<journal, pc[q], mem[q]>>
    BY <1>2, WaitingKeeps DEF RecordInv, LockInv, Holding
  <2>2. Rated(q) /\ Delivering(q)
    BY DEF RecordInv
  <2>3. QED
    BY <2>1, <2>2 DEF Rated, Delivering, At
<1>3. QED
  BY <1>1, <1>2

\* A trial's applied text is the same for every status and verdict.
LEMMA AppliedText ==
  ASSUME NEW t, NEW u, NEW f, NEW id, u.before = t.before, u.existed = t.existed
  PROVE  /\ IsAfter(f, u, id) <=> IsAfter(f, t, id)
         /\ IsBefore(f, u) <=> IsBefore(f, t)
BY DEF IsAfter, IsBefore, HasContent

\* Steps under the lock keep an active trial's text, unless they restore it.
LEMMA StepShown ==
  ASSUME RecordInv, NEW p \in Procs, Step(p)
  PROVE  Shown'
<1> USE DEF RecordInv, LockInv, At, Goto
<1>1. journal \in [Ids -> Trial] /\ (\A i \in Ids : journal[i] \in Trial) /\ mem[p] \in Memory
      /\ Loaded(p)
  BY DEF TypeOK
<1>2. ASSUME NEW q \in Procs, pc'[q] = "a_commit"
      PROVE  q = p /\ ApplyWrite(p)
  <2>1. q = p
    BY <1>2, StepFrame DEF Exclusive, Holding
  <2>2. QED
    <3>1. CASE Unlock(p) \/ UnlockRestored(p) \/ ApplyCheck(p) \/ ApplyRefused(p)
               \/ ApplyBackup(p) \/ ApplyJournal(p) \/ ApplyRecheck(p) \/ ApplyCommit(p)
      BY <1>2, <2>1, <3>1 DEF Unlock, UnlockRestored, Release, ApplyCheck, ApplyRefused, ApplyBackup,
         ApplyJournal, ApplyRecheck, ApplyCommit, TypeOK
    <3>2. CASE RestoreCheck(p) \/ RestoreRefused(p) \/ RestoreJournal(p) \/ RestoreWrite(p)
               \/ RestoreRemove(p) \/ RestoreChmod(p) \/ RestoreCommit(p) \/ RateSave(p)
               \/ RecordWrite(p) \/ RateCheck(p) \/ RecordCheck(p)
      BY <1>2, <2>1, <3>2 DEF RestoreCheck, RestoreRefused, RestoreJournal, RestoreWrite,
         RestoreRemove, RestoreChmod, RestoreCommit, RateSave, RecordWrite, RateCheck, RecordCheck,
         TypeOK
    <3>3. QED
      BY <2>1, <3>1, <3>2 DEF Step
<1>3. CASE ApplyCheck(p)
  <2>1. UNCHANGED <<file, journal>> /\ \A i \in Ids : ~Live(journal, i)
    BY <1>3 DEF ApplyCheck, ApplyAllowed, disk
  <2>2. ~ApplyWrite(p)
    BY <1>3 DEF ApplyCheck, ApplyWrite
  <2>3. QED
    BY <2>1, <2>2, <1>2 DEF Shown, Live
<1>4. CASE ApplyWrite(p) \/ RestoreWrite(p) \/ RestoreRemove(p) \/ RestoreChmod(p)
  <2>1. PICK id \in Ids : id = mem[p].id
    BY <1>4 DEF ApplyWrite, RestoreWrite, RestoreRemove, RestoreChmod, Exclusive
  <2>2. /\ UNCHANGED <<journal, mem, touched>> /\ Live(journal, id)
        /\ journal[id].status # "active" /\ mem[p].journal = journal
    BY <1>1, <1>4, <2>1 DEF ApplyWrite, RestoreWrite, RestoreRemove, RestoreChmod, Loaded, Live, ghost
  <2>3. \A i \in Ids : journal[i].status # "active"
    BY <2>2 DEF OneLiveTrial, Live
  <2>4. ASSUME ApplyWrite(p)
        PROVE  IsAfter(file', journal'[id], id)
    BY <2>1, <2>2, <2>4 DEF ApplyWrite, IsAfter, HasContent
  <2>5. ASSUME NEW q \in Procs, pc'[q] = "a_commit"
        PROVE  IsAfter(file', journal'[mem'[q].id], mem'[q].id)
    BY <1>2, <2>1, <2>2, <2>4, <2>5
  <2>6. QED
    BY <2>2, <2>3, <2>5 DEF Shown
<1>5. CASE ~(ApplyCheck(p) \/ ApplyWrite(p) \/ RestoreWrite(p) \/ RestoreRemove(p) \/ RestoreChmod(p))
  <2>1. UNCHANGED <<file, touched>>
    BY <1>5 DEF Step, Unlock, UnlockRestored, Release, ApplyRefused, ApplyBackup, ApplyJournal,
       ApplyRecheck, ApplyCommit, RestoreCheck, RestoreRefused, RestoreJournal, RestoreCommit,
       RateCheck, RateSave, RecordCheck, RecordWrite, disk, ghost
  <2>2. ASSUME ~touched, NEW i \in Ids, journal'[i].status = "active"
        PROVE  IsAfter(file, journal'[i], i)
    <3>1. CASE journal'[i] = journal[i]
      BY <2>2, <3>1 DEF Shown
    <3>2. CASE journal'[i] # journal[i]
      <4>1. PICK u \in Trial : /\ i = mem[p].id /\ journal'[i] = u
                               /\ Follows(p, journal[i], u)
        BY <3>2, StepSaves DEF Replaced
      <4>2. u.before = journal[i].before /\ u.existed = journal[i].existed
            /\ (journal[i].status = "active" \/ pc[p] = "a_commit")
        BY <4>1, <2>2, <1>1 DEF Follows, Trial
      <4>3. IsAfter(file, journal[i], i)
        BY <4>1, <4>2, <2>2 DEF Shown
      <4>4. QED
        BY <4>1, <4>2, <4>3, AppliedText
    <3>3. QED
      BY <3>1, <3>2
  <2>3. QED
    BY <1>2, <1>5, <2>1, <2>2 DEF Shown
<1>6. QED
  BY <1>3, <1>4, <1>5

LEMMA NextShown ==
  ASSUME RecordInv, [Next]_vars
  PROVE  Shown'
<1>1. ASSUME NEW p \in Procs, Step(p)
      PROVE  Shown'
  BY <1>1, StepShown
<1>2. CASE \A p \in Procs : ~Step(p)
  <2>1. CASE UserEdit
    BY <2>1 DEF UserEdit, Shown
  <2>2. CASE ~UserEdit
    <3>1. UNCHANGED <<file, journal, touched>>
      <4>1. CASE \/ \E s \in Servers : Request(s)
                 \/ \E h \in Hooks, id \in Ids : StartRecord(h, id)
        BY <4>1, RequestFrame DEF RecordInv, LockInv
      <4>2. QED
        BY <1>2, <2>2, <4>1 DEF Next, Environment, Crash, Fault, RemoveStaleLock, vars, disk, ghost
    <3>2. ASSUME NEW q \in Procs, pc'[q] = "a_commit"
          PROVE  pc[q] = "a_commit" /\ mem'[q] = mem[q]
      BY <1>2, <3>2, WaitingKeeps DEF RecordInv, LockInv, Holding
    <3>3. QED
      BY <3>1, <3>2 DEF RecordInv, Shown, At
  <2>3. QED
    BY <2>1, <2>2
<1>3. QED
  BY <1>1, <1>2

LEMMA InitRecordInv == ASSUME Init PROVE RecordInv
<1>1. LockInv
  BY InitLockInv
<1>2. (\A p \in Procs : pc[p] = "idle") /\ \A i \in Ids : journal[i].status = "none"
  BY DEF Init, NoTrial
<1>3. QED
  BY <1>1, <1>2 DEF RecordInv, Rated, Delivering, Shown, At

\* Every save is one a reader of the journal can rely on, whatever else happens.
THEOREM RecordInvariance == Spec => []RecordInv
<1>1. RecordInv /\ [Next]_vars => RecordInv'
  BY NextLockInv, NextRated, NextShown DEF RecordInv
<1>2. QED
  BY <1>1, InitRecordInv, PTL DEF Spec

-----------------------------------------------------------------------------
(* What every save, and every receipt, is.                                   *)

LEMMA SavesOrNot ==
  ASSUME RecordInv, [Next]_vars
  PROVE  \/ UNCHANGED journal
         \/ \E p \in Procs : /\ mem[p].id \in Ids
                             /\ \E u \in Trial : /\ Replaced(mem[p].id, u)
                                                 /\ Follows(p, journal[mem[p].id], u)
<1>1. ASSUME NEW p \in Procs, Step(p)
      PROVE  \/ UNCHANGED journal
             \/ /\ mem[p].id \in Ids
                /\ \E u \in Trial : /\ Replaced(mem[p].id, u)
                                    /\ Follows(p, journal[mem[p].id], u)
  BY <1>1, StepSaves
<1>2. ASSUME \A p \in Procs : ~Step(p)
      PROVE  UNCHANGED journal
  BY <1>2, OthersSaveNothing DEF RecordInv, LockInv, Next
<1>3. QED
  BY <1>1, <1>2

\* What follows a trial's record is no earlier in its life, and the same trial.
LEMMA FollowsForward ==
  ASSUME NEW p, NEW t \in Trial, NEW u \in Trial, Follows(p, t, u)
  PROVE  /\ Rank[u.status] >= Rank[t.status]
         /\ t.status # "none" =>
              u \in {[t EXCEPT !.status = u.status], [t EXCEPT !.outcome = u.outcome]}
<1>1. \A s \in {"none", "prepared", "active", "restoring", "restored"} : Rank[s] \in Nat /\ Rank[s] >= Rank[s]
  BY DEF Rank
<1>2. CASE t.status = "none" /\ u.status = "prepared"
  BY <1>2 DEF Rank
<1>3. ASSUME NEW s \in {"active", "restoring", "restored"}, u = [t EXCEPT !.status = s],
             t.status \in {"prepared", "active", "restoring"}, Rank[s] >= Rank[t.status]
      PROVE  /\ Rank[u.status] >= Rank[t.status]
             /\ u = [t EXCEPT !.status = u.status]
  <2>1. u.status = s
    BY <1>3 DEF Trial
  <2>2. QED
    BY <2>1, <1>3
<1>4. ASSUME NEW o \in {"unknown", "good"}, u = [t EXCEPT !.outcome = o]
      PROVE  /\ Rank[u.status] >= Rank[t.status]
             /\ u = [t EXCEPT !.outcome = u.outcome]
  <2>1. u.outcome = o /\ u.status = t.status
    BY <1>4 DEF Trial
  <2>2. t.status \in {"none", "prepared", "active", "restoring", "restored"}
    BY DEF Trial
  <2>3. QED
    BY <2>1, <2>2, <1>1, <1>4
<1>5. Rank["active"] >= Rank["prepared"] /\ Rank["restored"] >= Rank["restoring"]
      /\ \A s \in {"prepared", "active", "restoring"} : Rank["restoring"] >= Rank[s]
  BY DEF Rank
<1>6. QED
  BY <1>2, <1>3, <1>4, <1>5 DEF Follows

LEMMA HistoryStep ==
  ASSUME RecordInv, [Next]_vars
  PROVE  /\ Cardinality({id \in Ids : journal'[id] # journal[id]}) <= 1
         /\ \A id \in Ids :
              LET t == journal[id]
                  u == journal'[id]
              IN /\ Rank[u.status] >= Rank[t.status]
                 /\ t.status # "none" =>
                      u \in {[t EXCEPT !.status = u.status],
                             [t EXCEPT !.outcome = u.outcome]}
<1>1. journal \in [Ids -> Trial]
  BY DEF RecordInv, LockInv, TypeOK
<1>2. PICK i :
        /\ \A id \in Ids : id # i => journal'[id] = journal[id]
        /\ i \in Ids => journal'[i] = journal[i] \/ \E p : Follows(p, journal[i], journal'[i])
        /\ i \in Ids => journal'[i] \in Trial
  <2>1. CASE UNCHANGED journal
    BY <2>1, <1>1
  <2>2. CASE \E p \in Procs : /\ mem[p].id \in Ids
                              /\ \E u \in Trial : /\ Replaced(mem[p].id, u)
                                                  /\ Follows(p, journal[mem[p].id], u)
    BY <2>2 DEF Replaced
  <2>3. QED
    BY <2>1, <2>2, SavesOrNot
<1>3. Cardinality({id \in Ids : journal'[id] # journal[id]}) <= 1
  <2>1. {id \in Ids : journal'[id] # journal[id]} \subseteq {i}
    BY <1>2
  <2>2. IsFiniteSet({i}) /\ Cardinality({i}) = 1
    BY FS_Singleton
  <2>3. Cardinality({id \in Ids : journal'[id] # journal[id]}) <= Cardinality({i})
    BY <2>1, <2>2, FS_Subset
  <2>4. QED
    BY <2>2, <2>3
<1>4. ASSUME NEW id \in Ids
      PROVE  /\ Rank[journal'[id].status] >= Rank[journal[id].status]
             /\ journal[id].status # "none" =>
                  journal'[id] \in {[journal[id] EXCEPT !.status = journal'[id].status],
                                    [journal[id] EXCEPT !.outcome = journal'[id].outcome]}
  <2>1. CASE journal'[id] = journal[id]
    <3>1. journal[id] \in Trial
      BY <1>1
    <3>2. journal[id].status \in {"none", "prepared", "active", "restoring", "restored"}
      BY <3>1 DEF Trial
    <3>3. Rank[journal[id].status] >= Rank[journal[id].status]
      BY <3>2 DEF Rank
    <3>4. journal[id] = [journal[id] EXCEPT !.status = journal[id].status]
      BY <3>1 DEF Trial
    <3>5. QED
      BY <2>1, <3>3, <3>4
  <2>2. CASE journal'[id] # journal[id]
    <3>1. PICK p : Follows(p, journal[id], journal'[id])
      BY <2>2, <1>2
    <3>2. journal[id] \in Trial /\ journal'[id] \in Trial
      BY <2>2, <1>1, <1>2
    <3>3. PICK t \in Trial, u \in Trial : t = journal[id] /\ u = journal'[id]
      BY <3>2
    <3>4. QED
      BY <3>1, <3>3, FollowsForward
  <2>3. QED
    BY <2>1, <2>2
<1>5. QED
  BY <1>3, <1>4

\* The history only moves forward, one trial at a time, and what Restore needs is
\* never overwritten.
THEOREM HistoryIsKept == Spec => HistoryKept
<1>1. RecordInv /\ [Next]_vars =>
        [/\ Cardinality({id \in Ids : journal'[id] # journal[id]}) <= 1
         /\ \A id \in Ids :
              LET t == journal[id]
                  u == journal'[id]
              IN /\ Rank[u.status] >= Rank[t.status]
                 /\ t.status # "none" =>
                      u \in {[t EXCEPT !.status = u.status],
                             [t EXCEPT !.outcome = u.outcome]}]_vars
  BY HistoryStep
<1>2. QED
  BY <1>1, RecordInvariance, PTL DEF Spec, HistoryKept

LEMMA ReceiptStep ==
  ASSUME RecordInv, [Next]_vars
  PROVE  \A id \in receipts' \ receipts : journal[id].status = "active"
<1>1. ASSUME NEW p \in Procs, RecordWrite(p)
      PROVE  \A id \in receipts' \ receipts : journal[id].status = "active"
  BY <1>1 DEF RecordInv, Delivering, RecordWrite, At
<1>2. CASE \A p \in Procs : ~RecordWrite(p)
  <2>1. UNCHANGED receipts
    <3>1. ASSUME NEW p \in Procs, Step(p)
          PROVE  UNCHANGED receipts
      BY <1>2, <3>1 DEF Step, Unlock, UnlockRestored, Release, ApplyCheck, ApplyRefused, ApplyBackup,
         ApplyJournal, ApplyRecheck, ApplyWrite, ApplyCommit, RestoreCheck, RestoreRefused,
         RestoreJournal, RestoreWrite, RestoreRemove, RestoreChmod, RestoreCommit,
         RateCheck, RateSave, RecordCheck, disk
    <3>2. QED
      BY <3>1, OthersSaveNothing DEF RecordInv, LockInv, Next
  <2>2. QED
    BY <2>1
<1>3. QED
  BY <1>1, <1>2

\* A session is counted for a trial only while that trial is active.
THEOREM ReceiptsOnlyWhenActive == Spec => ReceiptOnlyWhenActive
<1>1. RecordInv /\ [Next]_vars =>
        [\A id \in receipts' \ receipts : journal[id].status = "active"]_vars
  BY ReceiptStep
<1>2. QED
  BY <1>1, RecordInvariance, PTL DEF Spec, ReceiptOnlyWhenActive

\* Without edits since the latest trial was drawn, an active trial's settings are
\* on disk, and a restored history leaves the user's text there; the second needs
\* that no edit ever fell between a look at the settings and the write it was for.
THEOREM JournalIsHonest ==
  ASSUME EditsInWindow = FALSE
  PROVE  Spec => []JournalHonest
<1>1. IInv /\ RecordInv => JournalHonest
  <2> SUFFICES ASSUME IInv, RecordInv, ~touched PROVE
        /\ \A id \in Ids : journal[id].status = "active" => IsAfter(file, journal[id], id)
        /\ (\A id \in Ids : ~Live(journal, id)) => SameContent(file, own)
    BY DEF JournalHonest
  <2>1. \A id \in Ids : journal[id].status = "active" => IsAfter(file, journal[id], id)
    BY DEF RecordInv, Shown
  <2>2. (\A id \in Ids : ~Live(journal, id)) => SameContent(file, own)
    BY DEF IInv, ContentInv, UserContentKept, Recorded
  <2>3. QED
    BY <2>1, <2>2
<1>2. QED
  BY <1>1, RecordInvariance, ContentInvariance, PTL

-----------------------------------------------------------------------------
(* The refinement: the trial, write by write, is the one of ReversibleChange. *)

\* Neither a request nor the environment, the user's edit aside, touches the file.
LEMMA OthersKeepFile ==
  ASSUME RecordInv, [Next]_vars, ~UserEdit, \A p \in Procs : ~Step(p)
  PROVE  UNCHANGED <<file, journal, edits>>
<1>1. CASE \/ \E s \in Servers : Request(s)
           \/ \E h \in Hooks, id \in Ids : StartRecord(h, id)
  <2>1. UNCHANGED <<file, journal>>
    BY <1>1, RequestFrame DEF RecordInv, LockInv
  <2>2. UNCHANGED edits
    BY <1>1 DEF Request, StartApply, StartRestore, StartRate, Diagnose, StartRecord, bounds
  <2>3. QED
    BY <2>1, <2>2
<1>2. CASE Environment \/ UNCHANGED vars
  BY <1>2 DEF Environment, Crash, Fault, RemoveStaleLock, vars, disk, bounds
<1>3. QED
  BY <1>1, <1>2 DEF Next

LEMMA StepKeepsEdits == ASSUME NEW p, Step(p) PROVE UNCHANGED edits
BY DEF Step, Unlock, UnlockRestored, Release, ApplyCheck, ApplyRefused, ApplyBackup, ApplyJournal,
   ApplyRecheck, ApplyWrite, ApplyCommit, RestoreCheck, RestoreRefused, RestoreJournal, RestoreWrite,
   RestoreRemove, RestoreChmod, RestoreCommit, RateCheck, RateSave, RecordCheck, RecordWrite, bounds

\* A restore writes the text it found recorded, and removes a file that was not there.
LEMMA RestoreWritesBack ==
  ASSUME IInv, NEW p \in Procs, RestoreWrite(p) \/ RestoreRemove(p)
  PROVE  /\ mem[p].id \in Ids /\ Live(journal, mem[p].id) /\ UNCHANGED journal
         /\ IsAfter(file, journal[mem[p].id], mem[p].id)
         /\ IsBefore(file', journal[mem[p].id])
<1> USE DEF IInv, LockInv, ContentInv, At
<1>1. PICK id \in Ids : id = mem[p].id
  BY DEF RestoreWrite, RestoreRemove, Exclusive
<1>2. /\ mem[p].journal = journal /\ Live(journal, id) /\ UNCHANGED journal
      /\ IsAfter(file, journal[id], id)
  BY <1>1 DEF RestoreWrite, RestoreRemove, Loaded, Checked, Live
<1>3. /\ journal[id] \in Trial /\ journal[id].existed \in BOOLEAN
      /\ ~journal[id].existed => journal[id].before = Absent.bytes
  BY <1>2 DEF TypeOK, BackedUp, Trial
<1>4. CASE RestoreWrite(p)
  BY <1>1, <1>2, <1>3, <1>4 DEF RestoreWrite, IsBefore, HasContent
<1>5. CASE RestoreRemove(p)
  <2>1. file' = Absent /\ journal[id].existed = FALSE
    BY <1>1, <1>2, <1>3, <1>5 DEF RestoreRemove
  <2>2. QED
    BY <2>1, <1>1, <1>2, <1>3 DEF IsBefore, HasContent, Absent
<1>6. QED
  BY <1>4, <1>5

LEMMA StepWrittenBack ==
  ASSUME IInv, RecordInv, NEW p \in Procs, WrittenBack(p), Step(p)
  PROVE  WrittenBack(p)'
<1> USE DEF At, Goto
<1>1. pc \in [Procs -> Label] /\ mem \in [Procs -> Memory] /\ mem[p] \in Memory
      /\ journal \in [Ids -> Trial] /\ UNCHANGED edits
  BY StepKeepsEdits DEF RecordInv, LockInv, TypeOK
<1>2. CASE RestoreCheck(p)
  <2>1. mem[p].id \in Ids
    BY <1>2 DEF RestoreCheck, RecordInv, LockInv, Exclusive
  <2>2. /\ UNCHANGED <<file, journal>> /\ pc'[p] = "r_journal" /\ mem'[p].id = mem[p].id
        /\ mem'[p].same <=> IsBefore(file, journal[mem[p].id])
    BY <2>1, <1>1, <1>2 DEF RestoreCheck, disk, Memory
  <2>3. QED
    BY <2>2 DEF WrittenBack
<1>3. CASE RestoreJournal(p)
  <2>1. /\ pc[p] = "r_journal" /\ UNCHANGED <<file, mem>>
        /\ pc'[p] = IF mem[p].same THEN "r_commit" ELSE "r_write"
    BY <1>1, <1>3 DEF RestoreJournal
  <2>2. PICK id \in Ids : id = mem[p].id
    BY <2>1 DEF RecordInv, LockInv, Exclusive
  <2>3. journal'[id] = [journal[id] EXCEPT !.status = "restoring"] /\ journal[id] \in Trial
    BY <1>1, <1>3, <2>1, <2>2 DEF RestoreJournal, RecordInv, LockInv, Loaded
  <2>4. journal'[id].before = journal[id].before /\ journal'[id].existed = journal[id].existed
    BY <2>3 DEF Trial
  <2>5. IsBefore(file, journal'[id]) <=> IsBefore(file, journal[id])
    BY <2>4, AppliedText
  <2>6. QED
    BY <2>1, <2>2, <2>5, <1>1 DEF WrittenBack
<1>4. CASE RestoreWrite(p) \/ RestoreRemove(p)
  <2>1. mem' = mem
    BY <1>4 DEF RestoreWrite, RestoreRemove
  <2>2. QED
    BY <2>1, <1>4, RestoreWritesBack DEF WrittenBack
<1>5. CASE RestoreChmod(p)
  <2>1. /\ pc[p] = "r_chmod" /\ UNCHANGED <<journal, mem>>
        /\ file'.exists = file.exists /\ file'.bytes = file.bytes
    BY <1>5 DEF RestoreChmod, IInv, LockInv, TypeOK, File
  <2>2. QED
    BY <2>1, <1>1 DEF WrittenBack, IsBefore, HasContent
<1>6. CASE pc'[p] \notin {"r_journal", "r_chmod", "r_commit"}
  BY <1>6 DEF WrittenBack
<1>7. QED
  <2>1. CASE Unlock(p) \/ UnlockRestored(p) \/ ApplyCheck(p) \/ ApplyRefused(p)
             \/ ApplyBackup(p) \/ ApplyJournal(p) \/ ApplyRecheck(p) \/ ApplyWrite(p)
             \/ ApplyCommit(p)
    BY <2>1, <1>1, <1>6 DEF Unlock, UnlockRestored, Release, ApplyCheck, ApplyRefused, ApplyBackup,
       ApplyJournal, ApplyRecheck, ApplyWrite, ApplyCommit
  <2>2. CASE RestoreRefused(p) \/ RestoreCommit(p) \/ RateCheck(p) \/ RateSave(p)
             \/ RecordCheck(p) \/ RecordWrite(p)
    BY <2>2, <1>1, <1>6 DEF RestoreRefused, RestoreCommit, RateCheck, RateSave, RecordCheck, RecordWrite
  <2>3. QED
    BY <1>2, <1>3, <1>4, <1>5, <2>1, <2>2 DEF Step

LEMMA NextWrittenBack ==
  ASSUME IInv, RecordInv, [Next]_vars, NEW q \in Procs, WrittenBack(q)
  PROVE  WrittenBack(q)'
<1>1. CASE Step(q)
  BY <1>1, StepWrittenBack
<1>2. CASE ~Step(q)
  <2>1. \/ pc'[q] \notin {"r_journal", "r_chmod", "r_commit"}
        \/ UNCHANGED <<journal, pc[q], mem[q]>>
    BY <1>2, WaitingKeeps DEF RecordInv, LockInv, Holding
  <2>2. CASE pc'[q] \notin {"r_journal", "r_chmod", "r_commit"}
    BY <2>2 DEF WrittenBack, At
  <2>3. CASE UserEdit
    <3>1. edits' # 0
      BY <2>3, ConstantsAssumption DEF UserEdit, RecordInv, LockInv, TypeOK
    <3>2. QED
      BY <3>1 DEF WrittenBack
  <2>4. CASE pc'[q] \in {"r_journal", "r_chmod", "r_commit"} /\ ~UserEdit
    <3>1. \A p \in Procs : ~Step(p)
      <4>1. ASSUME NEW p \in Procs, Step(p)
            PROVE  FALSE
        BY <4>1, <1>2, <2>1, <2>4, StepFrame DEF RecordInv, LockInv, Exclusive, Holding
      <4>2. QED
        BY <4>1
    <3>2. UNCHANGED <<file, journal, edits, pc[q], mem[q]>>
      BY <3>1, <2>1, <2>4, OthersKeepFile
    <3>3. QED
      BY <3>2 DEF WrittenBack, At
  <2>5. QED
    BY <2>2, <2>3, <2>4
<1>3. QED
  BY <1>1, <1>2

THEOREM RefinementInvariance ==
  ASSUME EditsInWindow = FALSE
  PROVE  Spec => []RefinementInv
<1>1. Init => \A p \in Procs : WrittenBack(p)
  BY DEF Init, WrittenBack, At
<1>2. IInv /\ RecordInv /\ (\A p \in Procs : WrittenBack(p)) /\ [Next]_vars =>
        (\A p \in Procs : WrittenBack(p))'
  BY NextWrittenBack
<1>3. Spec => [](\A p \in Procs : WrittenBack(p))
  BY <1>1, <1>2, ContentInvariance, RecordInvariance, PTL DEF Spec
<1>4. IInv /\ RecordInv /\ (\A p \in Procs : WrittenBack(p)) => RefinementInv
  BY DEF RefinementInv
<1>5. QED
  BY <1>3, <1>4, ContentInvariance, RecordInvariance, PTL

-----------------------------------------------------------------------------
(* The refinement, step by step.                                             *)

SeenTrials == [id \in Ids |-> SeenTrial(id)]

\* One trial's record is what ReversibleChange sees of the journal's change.
LEMMA SeenChange ==
  ASSUME NEW id \in Ids, NEW u, Replaced(id, u)
  PROVE  SeenTrials' = [SeenTrials EXCEPT ![id] = SeenTrial(id)']
<1>1. \A i \in Ids \ {id} : SeenTrial(i)' = SeenTrial(i)
  BY DEF Replaced, SeenTrial, Live
<1>2. SeenTrials' = [i \in Ids |-> SeenTrial(i)']
  BY DEF SeenTrials
<1>3. SeenTrials = [i \in Ids |-> SeenTrial(i)]
  BY DEF SeenTrials
<1>4. QED
  BY <1>1, <1>2, <1>3

LEMMA SeenKept ==
  ASSUME NEW id \in Ids, NEW u, Replaced(id, u), SeenTrial(id)' = SeenTrial(id)
  PROVE  SeenTrials' = SeenTrials
<1>1. SeenTrials = [i \in Ids |-> SeenTrial(i)]
  BY DEF SeenTrials
<1>2. QED
  BY <1>1, SeenChange

\* ReversibleChange sees a trial drawn when its record is saved for the first
\* time, and closed when it is restored; other saves it does not see.
LEMMA FollowsSeen ==
  ASSUME NEW p \in Procs, NEW id \in Ids, NEW u \in Trial, TypeOK,
         Replaced(id, u), Follows(p, journal[id], u)
  PROVE  \/ /\ At(p, "a_journal") /\ SeenTrial(id).status = "none"
            /\ SeenTrial(id)' = [status |-> "open",
                                 before |-> [exists |-> u.existed, bytes |-> u.before]]
         \/ /\ At(p, "r_commit") /\ SeenTrial(id).status = "open"
            /\ SeenTrial(id)' = [SeenTrial(id) EXCEPT !.status = "closed"]
         \/ SeenTrial(id)' = SeenTrial(id)
<1>1. PICK t \in Trial : t = journal[id] /\ journal'[id] = u
  BY DEF TypeOK, Replaced
<1>2. SeenTrial(id)' = [status |-> IF u.status \notin {"none", "restored"} THEN "open"
                                   ELSE IF u.status = "none" THEN "none" ELSE "closed",
                        before |-> [exists |-> u.existed, bytes |-> u.before]]
  BY <1>1 DEF SeenTrial, Live
<1>3. SeenTrial(id) = [status |-> IF t.status \notin {"none", "restored"} THEN "open"
                                  ELSE IF t.status = "none" THEN "none" ELSE "closed",
                       before |-> [exists |-> t.existed, bytes |-> t.before]]
  BY <1>1 DEF SeenTrial, Live
<1>4. CASE At(p, "a_journal") /\ t.status = "none" /\ u.status = "prepared"
  BY <1>2, <1>3, <1>4
<1>5. CASE At(p, "a_commit") /\ t.status = "prepared" /\ u = [t EXCEPT !.status = "active"]
  <2>1. u.status = "active" /\ u.existed = t.existed /\ u.before = t.before
    BY <1>5 DEF Trial
  <2>2. QED
    BY <1>2, <1>3, <1>5, <2>1
<1>6. CASE /\ At(p, "r_journal") /\ t.status \in {"prepared", "active", "restoring"}
           /\ u = [t EXCEPT !.status = "restoring"]
  <2>1. u.status = "restoring" /\ u.existed = t.existed /\ u.before = t.before
    BY <1>6 DEF Trial
  <2>2. QED
    BY <1>2, <1>3, <1>6, <2>1
<1>7. CASE At(p, "r_commit") /\ t.status = "restoring" /\ u = [t EXCEPT !.status = "restored"]
  <2>1. u.status = "restored" /\ u.existed = t.existed /\ u.before = t.before
    BY <1>7 DEF Trial
  <2>2. QED
    BY <1>2, <1>3, <1>7, <2>1
<1>8. CASE At(p, "t_save") /\ \E o \in {"unknown", "good"} : u = [t EXCEPT !.outcome = o]
  <2>1. u.status = t.status /\ u.existed = t.existed /\ u.before = t.before
    BY <1>8 DEF Trial
  <2>2. QED
    BY <1>2, <1>3, <2>1
<1>9. QED
  BY <1>1, <1>4, <1>5, <1>6, <1>7, <1>8 DEF Follows

\* Where the file stands relative to a trial, as ReversibleChange sees it.
LEMMA SeenFile ==
  ASSUME NEW id \in Ids
  PROVE  /\ IsBefore(file, journal[id]) <=> Seen(file) = SeenTrials[id].before
         /\ IsAfter(file, journal[id], id) <=>
              Seen(file) = [exists |-> TRUE, bytes |-> AfterSettings(SeenTrials[id].before.bytes, id)]
         /\ Live(journal, id) <=> SeenTrials[id].status = "open"
         /\ SeenTrials[id] = SeenTrial(id)
         /\ SeenTrials[id].before = [exists |-> journal[id].existed, bytes |-> journal[id].before]
<1>1. SeenTrials[id] = SeenTrial(id)
  BY DEF SeenTrials
<1>2. SeenTrial(id).before = [exists |-> journal[id].existed, bytes |-> journal[id].before]
  BY DEF SeenTrial
<1>3. Live(journal, id) <=> SeenTrial(id).status = "open"
  BY DEF SeenTrial
<1>4. \A exists, bytes : Seen(file) = [exists |-> exists, bytes |-> bytes]
                          <=> HasContent(file, exists, bytes)
  <2>1. ASSUME NEW exists, NEW bytes, Seen(file) = [exists |-> exists, bytes |-> bytes]
        PROVE  HasContent(file, exists, bytes)
    <3>1. Seen(file).exists = exists /\ Seen(file).bytes = bytes
      BY <2>1
    <3>2. QED
      BY <3>1 DEF Seen, HasContent
  <2>2. QED
    BY <2>1 DEF Seen, HasContent
<1>5. SeenTrials[id].before.bytes = journal[id].before
  BY <1>1, <1>2
<1>6. IsBefore(file, journal[id]) <=> Seen(file) = SeenTrials[id].before
  BY <1>1, <1>2, <1>4 DEF IsBefore
<1>7. IsAfter(file, journal[id], id) <=>
        Seen(file) = [exists |-> TRUE, bytes |-> AfterSettings(SeenTrials[id].before.bytes, id)]
  BY <1>4, <1>5 DEF IsAfter
<1>8. QED
  BY <1>1, <1>2, <1>3, <1>6, <1>7

\* A step that saves leaves the settings alone, and is one of ReversibleChange's.
LEMMA SavingSteps ==
  ASSUME RefinementInv, NEW p \in Procs, Step(p), UNCHANGED Seen(file), ~UNCHANGED journal
  PROVE  (\E id \in Ids : R!Open(id) \/ R!Close(id)) \/ UNCHANGED R!vars
<1> USE DEF RefinementInv
<1>1. PICK id \in Ids, u \in Trial : /\ id = mem[p].id /\ Replaced(id, u)
                                     /\ Follows(p, journal[id], u)
  BY StepSaves
<1>2. UNCHANGED edits
  BY StepKeepsEdits
<1>3. SeenTrials' = [SeenTrials EXCEPT ![id] = SeenTrial(id)']
  BY <1>1, SeenChange
<1>4. DOMAIN SeenTrials = Ids
  BY DEF SeenTrials
<1>5. CASE /\ At(p, "a_journal") /\ SeenTrial(id).status = "none"
           /\ SeenTrial(id)' = [status |-> "open",
                                before |-> [exists |-> u.existed, bytes |-> u.before]]
  <2>1. \A other \in Ids : SeenTrials[other].status # "open"
    BY <1>5, SeenFile DEF RecordInv, LockInv, Loaded, At
  <2>2. SeenTrials[id].status = "none"
    BY <1>5, SeenFile
  <2>3. SeenTrials'[id] = SeenTrial(id)' /\ SeenTrials'[id].before = SeenTrial(id)'.before
    BY <1>3, <1>4
  <2>4. SeenTrial(id)'.before \in [exists : BOOLEAN, bytes : Content]
    BY <1>5 DEF Trial
  <2>5. SeenTrials' = [SeenTrials EXCEPT
          ![id] = [status |-> "open", before |-> SeenTrials'[id].before]]
    <3>1. SeenTrials'[id].before = [exists |-> u.existed, bytes |-> u.before]
      BY <1>5, <2>3
    <3>2. SeenTrial(id)' = [status |-> "open", before |-> SeenTrials'[id].before]
      BY <1>5, <3>1
    <3>3. QED
      BY <1>3, <3>2
  <2>6. R!Open(id)
    BY <1>2, <2>1, <2>2, <2>3, <2>4, <2>5 DEF R!Open, R!IsOpen, SeenTrials
  <2>7. QED
    BY <2>6
<1>6. CASE /\ At(p, "r_commit") /\ SeenTrial(id).status = "open"
           /\ SeenTrial(id)' = [SeenTrial(id) EXCEPT !.status = "closed"]
  <2>1. SeenTrials[id] = SeenTrial(id) /\ SeenTrials[id].status = "open"
    BY <1>6, SeenFile
  <2>2. edits = 0 => Seen(file) = SeenTrials[id].before
    BY <1>1, <1>6, SeenFile DEF WrittenBack, At
  <2>3. SeenTrials' = [SeenTrials EXCEPT ![id].status = "closed"]
    BY <1>3, <1>6, <2>1
  <2>4. R!Close(id)
    BY <1>2, <2>1, <2>2, <2>3 DEF R!Close, R!IsOpen, SeenTrials
  <2>5. QED
    BY <2>4
<1>7. CASE SeenTrial(id)' = SeenTrial(id)
  <2>1. SeenTrials' = SeenTrials
    BY <1>1, <1>7, SeenKept
  <2>2. QED
    BY <1>2, <2>1 DEF R!vars, SeenTrials
<1>8. QED
  BY <1>1, <1>5, <1>6, <1>7, FollowsSeen DEF RecordInv, LockInv

\* The settings move only from the text a live trial recorded to that text with
\* the change, or back.
LEMMA WritingSteps ==
  ASSUME RefinementInv, NEW p \in Procs, ApplyWrite(p) \/ RestoreWrite(p) \/ RestoreRemove(p)
  PROVE  \E id \in Ids : R!Switch(id) \/ R!Undo(id)
<1> USE DEF RefinementInv
<1>1. Step(p) /\ UNCHANGED <<edits, journal>>
  BY StepKeepsEdits DEF Step, ApplyWrite, RestoreWrite, RestoreRemove
<1>2. SeenTrials' = SeenTrials
  BY <1>1 DEF SeenTrials, SeenTrial, Live
<1>3. PICK id \in Ids : id = mem[p].id
  BY DEF ApplyWrite, RestoreWrite, RestoreRemove, RecordInv, LockInv, Exclusive, At
<1>4. CASE ApplyWrite(p)
  <2>1. /\ mem[p].journal = journal /\ Live(journal, id) /\ IsBefore(file, journal[id])
        /\ file' = [exists |-> TRUE, bytes |-> AfterSettings(journal[id].before, id),
                    mode |-> "private"]
    BY <1>3, <1>4 DEF ApplyWrite, At, IInv, LockInv, ContentInv, Loaded, Checked, Live
  <2>2. Seen(file)' = [exists |-> TRUE, bytes |-> AfterSettings(journal[id].before, id)]
    BY <2>1 DEF Seen
  <2>3. SeenTrials[id].status = "open" /\ Seen(file) = SeenTrials[id].before
    BY <2>1, SeenFile
  <2>4. Seen(file)' = [exists |-> TRUE, bytes |-> AfterSettings(SeenTrials[id].before.bytes, id)]
    <3>1. SeenTrials[id].before = [exists |-> journal[id].existed, bytes |-> journal[id].before]
      BY SeenFile
    <3>2. SeenTrials[id].before.bytes = journal[id].before
      BY <3>1
    <3>3. QED
      BY <2>2, <3>2
  <2>5. R!Switch(id)
    BY <1>1, <1>2, <2>3, <2>4 DEF R!Switch, R!IsOpen, SeenTrials
  <2>6. QED
    BY <2>5
<1>5. CASE RestoreWrite(p) \/ RestoreRemove(p)
  <2>1. /\ Live(journal, id) /\ IsAfter(file, journal[id], id)
        /\ IsBefore(file', journal[id])
    BY <1>3, <1>5, RestoreWritesBack
  <2>2. /\ SeenTrials[id].status = "open"
        /\ Seen(file) = [exists |-> TRUE, bytes |-> AfterSettings(SeenTrials[id].before.bytes, id)]
    BY <2>1, SeenFile
  <2>3. Seen(file)' = SeenTrials[id].before
    BY <2>1, SeenFile DEF Seen, IsBefore, HasContent
  <2>4. R!Undo(id)
    BY <1>1, <1>2, <2>2, <2>3 DEF R!Undo, R!IsOpen, SeenTrials
  <2>5. QED
    BY <2>4
<1>6. QED
  BY <1>4, <1>5

\* The rest of the operations does not move what ReversibleChange sees of the file.
LEMMA QuietSteps ==
  ASSUME RefinementInv, NEW p \in Procs, Step(p),
         ~(ApplyWrite(p) \/ RestoreWrite(p) \/ RestoreRemove(p))
  PROVE  UNCHANGED Seen(file)
<1>1. CASE RestoreChmod(p)
  BY <1>1 DEF RestoreChmod, Seen, RefinementInv, RecordInv, LockInv, TypeOK, File
<1>2. CASE ~RestoreChmod(p)
  <2>1. UNCHANGED file
    BY <1>2 DEF Step, Unlock, UnlockRestored, Release, ApplyCheck, ApplyRefused, ApplyBackup,
       ApplyJournal, ApplyRecheck, ApplyCommit, RestoreCheck, RestoreRefused, RestoreJournal,
       RestoreCommit, RateCheck, RateSave, RecordCheck, RecordWrite, disk
  <2>2. QED
    BY <2>1 DEF Seen
<1>3. QED
  BY <1>1, <1>2

LEMMA UserEditSeen == ASSUME RefinementInv, UserEdit PROVE R!UserEdit
<1>1. UNCHANGED journal /\ edits' = edits + 1 /\ file' \in File
  BY DEF UserEdit
<1>2. Seen(file)' \in [exists : BOOLEAN, bytes : Content]
  BY <1>1 DEF Seen, File
<1>3. SeenTrials' = SeenTrials
  BY <1>1 DEF SeenTrials, SeenTrial, Live
<1>4. QED
  BY <1>1, <1>2, <1>3 DEF R!UserEdit, SeenTrials

LEMMA RefinementInit == ASSUME Init PROVE R!Init
<1>1. Seen(file) \in [exists : BOOLEAN, bytes : Content]
  BY DEF Init, Seen, File
<1>2. SeenTrials = [id \in Ids |-> [status |-> "none",
                                    before |-> [exists |-> FALSE, bytes |-> Absent.bytes]]]
  BY DEF Init, SeenTrials, SeenTrial, Live, NoTrial
<1>3. [exists |-> FALSE, bytes |-> Absent.bytes] \in [exists : BOOLEAN, bytes : Content]
  BY InitialValues DEF File
<1>4. QED
  BY <1>1, <1>2, <1>3 DEF R!Init, SeenTrials, Init

LEMMA RefinementStep ==
  ASSUME RefinementInv, [Next]_vars
  PROVE  R!Next \/ UNCHANGED R!vars
<1>1. ASSUME NEW p \in Procs, Step(p)
      PROVE  R!Next \/ UNCHANGED R!vars
  <2>1. CASE ApplyWrite(p) \/ RestoreWrite(p) \/ RestoreRemove(p)
    BY <2>1, WritingSteps DEF R!Next
  <2>2. CASE ~(ApplyWrite(p) \/ RestoreWrite(p) \/ RestoreRemove(p))
    <3>1. UNCHANGED Seen(file)
      BY <1>1, <2>2, QuietSteps
    <3>2. CASE UNCHANGED journal
      <4>1. SeenTrials' = SeenTrials
        BY <3>2 DEF SeenTrials, SeenTrial, Live
      <4>2. UNCHANGED edits
        BY <1>1, StepKeepsEdits
      <4>3. QED
        BY <3>1, <4>1, <4>2 DEF R!vars, SeenTrials
    <3>3. CASE ~UNCHANGED journal
      BY <1>1, <3>1, <3>3, SavingSteps DEF R!Next
    <3>4. QED
      BY <3>2, <3>3
  <2>3. QED
    BY <2>1, <2>2
<1>2. CASE UserEdit
  BY <1>2, UserEditSeen DEF R!Next
<1>3. CASE ~UserEdit /\ \A p \in Procs : ~Step(p)
  <2>1. UNCHANGED <<file, journal, edits>>
    BY <1>3, OthersKeepFile DEF RefinementInv
  <2>2. SeenTrials' = SeenTrials /\ UNCHANGED Seen(file)
    BY <2>1 DEF SeenTrials, SeenTrial, Live, Seen
  <2>3. QED
    BY <2>1, <2>2 DEF R!vars, SeenTrials
<1>4. QED
  BY <1>1, <1>2, <1>3

\* Write by write, with any number of processes, crashes and failed writes, the
\* trial implements the atomic one; the hypothesis is that no edit falls between
\* the last look at the settings and the write it was for.
THEOREM TrialIsReversible ==
  ASSUME EditsInWindow = FALSE
  PROVE  Spec => Reversible
<1>1. Init => R!Init
  BY RefinementInit
<1>2. RefinementInv /\ [Next]_vars => [R!Next]_(R!vars)
  BY RefinementStep
<1>3. QED
  BY <1>1, <1>2, RefinementInvariance, PTL DEF Spec, Reversible, R!Spec

\* The trial is the atomic one, and its records are kept as well.
THEOREM TrialsAreKept ==
  ASSUME EditsInWindow = FALSE
  PROVE  Spec => TrialsKept
BY TrialIsReversible, HistoryIsKept, PTL DEF TrialsKept
=============================================================================
