------------------------------ MODULE AutoSave ------------------------------
(***************************************************************************)
(* The auto-save memory plugin (runner/autosave.go): after every run, the  *)
(* events the session has gained since the last save are filtered by the   *)
(* policy and written to long-term memory.                                 *)
(*                                                                         *)
(* The module follows one session key.  A run gets its own copy of the     *)
(* session when it starts and appends its events to the stored session and *)
(* to its copy (the session services are not part of the repository); the  *)
(* plugin counts the events of the copy.  Every request of the simple app  *)
(* runs in one and the same session, so runs may overlap.                  *)
(***************************************************************************)
EXTENDS MemoryPolicy

CONSTANTS
    Runs,        \* the runs of the session, each used once
    MaxEvents,   \* how many events one run appends at most (a bound)
    Contents,    \* what an event may hold: records author, role, parts, error, content
    Policies     \* the policies a save may be configured with

ASSUME MaxEventsAssumption == MaxEvents \in Nat
ASSUME RunsAssumption == IsFiniteSet(Runs)

VARIABLES
    setup,       \* the backend and the policy the application was started with
    log,         \* the events of the stored session, each [run, seq, content]
    view,        \* the events of a run's copy of the session
    stage,       \* where a run is
    batch,       \* the part of its copy a run is saving: from < event <= upto
    saved,       \* savedEventCounts of the session key
    copies,      \* how often an event is in long-term memory
    acked,       \* history: the events SaveMemory has reported as saved
    faults       \* history: what went out of the ordinary, see below

autoVars == <<setup, log, view, stage, batch, saved, copies, acked, faults>>

(* Faults.  overlap: two runs of the session were under way at once;       *)
(* failed: a save returned an error; recreated: the session was deleted    *)
(* and made again; explicit: the whole session was saved by hand; refused: *)
(* a save that returned no error had not stored everything.                *)

Event == [run : Runs, seq : 1..MaxEvents]

Id(e) == [run |-> e.run, seq |-> e.seq]

Policy == ResolveMemoryAutoSavePolicy(setup.policy)
Remembered(e) == IsRemembered(e.content, Policy)

Active(r) == stage[r] \in {"running", "saving", "recording"}

AutoInit ==
    /\ setup \in [backend : Backends, policy : Policies]
    /\ log = <<>>
    /\ view = [r \in Runs |-> <<>>]
    /\ stage = [r \in Runs |-> "idle"]
    /\ batch = [r \in Runs |-> [from |-> 0, upto |-> 0]]
    /\ saved = 0
    /\ copies = [e \in Event |-> 0]
    /\ acked = {}
    /\ faults = {}

(***************************************************************************)
(* A run                                                                   *)
(***************************************************************************)

(* The runner gets the session: the run's own copy of the stored events.   *)
StartRun(r) ==
    /\ stage[r] = "idle"
    /\ stage' = [stage EXCEPT ![r] = "running"]
    /\ view' = [view EXCEPT ![r] = log]
    /\ faults' = faults \cup (IF \E o \in Runs : Active(o) THEN {"overlap"} ELSE {})
    /\ UNCHANGED <<setup, log, batch, saved, copies, acked>>

(* The number of events a run has appended so far.                         *)
Appended(r) == Cardinality({i \in DOMAIN log : log[i].run = r})

(* The run appends an event, to the stored session and to its own copy.    *)
AppendEvent(r, content) ==
    LET event == [run |-> r, seq |-> Appended(r) + 1, content |-> content]
    IN  /\ stage[r] = "running"
        /\ Appended(r) < MaxEvents
        /\ log' = Append(log, event)
        /\ view' = [view EXCEPT ![r] = Append(@, event)]
        /\ UNCHANGED <<setup, stage, batch, saved, copies, acked, faults>>

(***************************************************************************)
(* AfterRunCallback                                                        *)
(***************************************************************************)

\* Mutant of FirstUnsaved: the saved count is never looked at.
FirstUnsavedNone(current) == 0

(* Where a save starts: a count that is ahead of the session starts again. *)
FirstUnsaved(current) == IF saved > current THEN 0 ELSE saved

(* Under the lock: read the count, compare it with the session, unlock.    *)
AfterRunRead(r) ==
    LET current == Len(view[r])
        start   == FirstUnsaved(current)
    IN  /\ stage[r] = "running"
        /\ batch' = [batch EXCEPT ![r] = [from |-> start, upto |-> current]]
        /\ stage' = [stage EXCEPT ![r] = IF start = current THEN "saved" ELSE "saving"]
        /\ UNCHANGED <<setup, log, view, saved, copies, acked, faults>>

(* The positions of a session's events that SaveMemory is given.           *)
Kept(events, from, upto) == {i \in (from + 1)..upto : Remembered(events[i])}

Ids(events, positions) == {Id(events[i]) : i \in positions}

AddCopies(ids) == copies' = [e \in Event |-> copies[e] + (IF e \in ids THEN 1 ELSE 0)]

\* Mutant of AfterRunSave: the count moves on after a save that has failed.
AfterRunSaveCounted(r) ==
    LET kept == Kept(view[r], batch[r].from, batch[r].upto)
    IN  /\ stage[r] = "saving"
        /\ \E outcome \in SaveOutcomes(setup.backend, kept) :
              /\ AddCopies(Ids(view[r], outcome.stored))
              /\ acked' = acked \cup (IF outcome.ok THEN Ids(view[r], kept) ELSE {})
              /\ stage' = [stage EXCEPT ![r] = "recording"]
        /\ UNCHANGED <<setup, log, view, batch, saved, faults>>

(* Without the lock: addSessionToMemory.  An error leaves the count alone. *)
AfterRunSave(r) ==
    LET kept == Kept(view[r], batch[r].from, batch[r].upto)
    IN  /\ stage[r] = "saving"
        /\ \E outcome \in SaveOutcomes(setup.backend, kept) :
              /\ AddCopies(Ids(view[r], outcome.stored))
              /\ acked' = acked \cup (IF outcome.ok THEN Ids(view[r], kept) ELSE {})
              /\ faults' = faults
                    \cup (IF outcome.ok THEN {} ELSE {"failed"})
                    \cup (IF outcome.ok /\ outcome.stored # kept THEN {"refused"} ELSE {})
              /\ stage' = [stage EXCEPT ![r] = IF outcome.ok THEN "recording" ELSE "saved"]
        /\ UNCHANGED <<setup, log, view, batch, saved>>

(* Under the lock again: the count only ever moves forward.                *)
AfterRunRecord(r) ==
    /\ stage[r] = "recording"
    /\ saved' = IF saved < batch[r].upto THEN batch[r].upto ELSE saved
    /\ stage' = [stage EXCEPT ![r] = "saved"]
    /\ UNCHANGED <<setup, log, view, batch, copies, acked, faults>>

(***************************************************************************)
(* Others                                                                  *)
(***************************************************************************)

(* SaveSessionToLongTermMemory: all of the stored session, by hand, once   *)
(* (a bound).  The plugin's count is not told.                             *)
SaveSessionToLongTermMemory ==
    /\ "explicit" \notin faults
    /\ log # <<>>
    /\ \E outcome \in SaveOutcomes(setup.backend, Kept(log, 0, Len(log))) :
          AddCopies(Ids(log, outcome.stored))
    /\ faults' = faults \cup {"explicit"}
    /\ UNCHANGED <<setup, log, view, stage, batch, saved, acked>>

(* A client deletes the session and a session with the same key is made,   *)
(* while no run of it is appending, once (a bound).                        *)
RecreateSession ==
    /\ "recreated" \notin faults
    /\ log # <<>>
    /\ \A r \in Runs : stage[r] # "running"
    /\ log' = <<>>
    /\ faults' = faults \cup {"recreated"}
    /\ UNCHANGED <<setup, view, stage, batch, saved, copies, acked>>

AutoNext ==
    \/ \E r \in Runs :
          \/ StartRun(r)
          \/ \E content \in Contents : AppendEvent(r, content)
          \/ AfterRunRead(r)
          \/ AfterRunSave(r)
          \/ AfterRunRecord(r)
    \/ SaveSessionToLongTermMemory
    \/ RecreateSession

AutoSpec == AutoInit /\ [][AutoNext]_autoVars

(***************************************************************************)
(* Properties                                                              *)
(***************************************************************************)

Sequential == faults \cap {"overlap", "recreated"} = {}

(* An event is in memory twice only if something went wrong before: a run  *)
(* overlapped another, a save failed, the session was made anew or saved   *)
(* by hand.                                                                *)
NothingTwice == faults \subseteq {"refused"} => \A e \in Event : copies[e] <= 1

=============================================================================
