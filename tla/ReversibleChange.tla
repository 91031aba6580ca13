-------------------------- MODULE ReversibleChange --------------------------
(* What a trial promises, without journal, lock, backup or processes: one     *)
(* trial at a time is open; only an open trial moves the settings, from       *)
(* exactly the text it recorded to that text with its change, or back; and    *)
(* the user may write anything at any time.  OptimizeTrial implements this.   *)
EXTENDS Naturals

CONSTANTS
    Ids,            \* trial IDs
    Contents,       \* what the settings may be
    Changed(_, _)   \* a content with the change of a trial

VARIABLES
    settings,       \* the settings as they are
    trials,         \* for each ID: whether it was opened or closed, and on which text
    edits           \* writes of the user so far

vars == <<settings, trials, edits>>

IsOpen(id) == trials[id].status = "open"

Init ==
    /\ settings \in Contents
    /\ \E before \in Contents :
         trials = [id \in Ids |-> [status |-> "none", before |-> before]]
    /\ edits = 0

\* A trial records the text that some look at the settings found.
Open(id) ==
    /\ trials[id].status = "none" /\ \A other \in Ids : ~IsOpen(other)
    /\ trials'[id].before \in Contents
    /\ trials' = [trials EXCEPT ![id] = [status |-> "open", before |-> trials'[id].before]]
    /\ UNCHANGED <<settings, edits>>

Switch(id) ==
    /\ IsOpen(id) /\ settings = trials[id].before
    /\ settings' = Changed(trials[id].before, id)
    /\ UNCHANGED <<trials, edits>>

Undo(id) ==
    /\ IsOpen(id) /\ settings = Changed(trials[id].before, id)
    /\ settings' = trials[id].before
    /\ UNCHANGED <<trials, edits>>

\* Unless the user wrote in between, a trial is closed on the text it found.
Close(id) ==
    /\ IsOpen(id) /\ (edits = 0 => settings = trials[id].before)
    /\ trials' = [trials EXCEPT ![id].status = "closed"]
    /\ UNCHANGED <<settings, edits>>

UserEdit ==
    /\ settings' \in Contents
    /\ edits' = edits + 1
    /\ UNCHANGED trials

Next == (\E id \in Ids : Open(id) \/ Switch(id) \/ Undo(id) \/ Close(id)) \/ UserEdit

Spec == Init /\ [][Next]_vars
=============================================================================
