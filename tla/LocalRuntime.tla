---------------------------- MODULE LocalRuntime ----------------------------
(***************************************************************************)
(* The local skill runtime: tool/skilltool/local_runtime.go.               *)
(*                                                                         *)
(* Goroutines (Procs) call the runtime's tools on ADK sessions.  Every     *)
(* session has a workspace directory on disk and a *sessionState object in *)
(* memory with a mutex; LocalRuntime.mu protects the map from session IDs  *)
(* to objects.  Files are edited under the object's mutex; commands run    *)
(* with the mutex released, counted in the object's active set.  Three     *)
(* things remove a workspace: CleanupSession, Close and the sweep of       *)
(* expired workspaces, which any tool call may start.                      *)
(*                                                                         *)
(* A label in pc is the next critical section or file-system call of the   *)
(* goroutine; what the code does in one critical section is one action.    *)
(***************************************************************************)
EXTENDS Naturals, FiniteSets

CONSTANTS
    Procs,             \* goroutines that call the runtime
    Sessions,          \* ADK session IDs
    NoProc,            \* owner of a free mutex
    NoSession,         \* session argument of an idle goroutine
    Ops,               \* the calls the host makes, a subset of AllOps
    MaxCalls,          \* bound on the calls made in one behaviour
    TTLEnabled,        \* workspaceTTL >= 0 and cleanupInterval >= 0
    KeepOnClose,       \* KeepWorkspacesOnClose
    SerializedCleanup  \* the host never overlaps two CleanupSession of a session

AllOps == {"file", "bash", "cleanup", "expire", "close"}

ASSUME ConstantsAssumption ==
    /\ NoProc \notin Procs
    /\ NoSession \notin Sessions
    /\ Ops \subseteq AllOps
    /\ MaxCalls \in Nat
    /\ TTLEnabled \in BOOLEAN
    /\ KeepOnClose \in BOOLEAN
    /\ SerializedCleanup \in BOOLEAN

\* Heap addresses of *sessionState objects.  A call creates one object at most,
\* which is named after the call's number.
States  == 1..MaxCalls
NoState == 0

VARIABLES
    (* LocalRuntime *)
    rmu,          \* goroutine that holds r.mu across a step
    closed,       \* r.closed
    cleanupDue,   \* lastCleanup is zero or cleanupInterval has passed since
    sessions,     \* r.sessions: session ID -> object or NoState
    (* the heap of *sessionState, and the processes *)
    mu,           \* object -> goroutine that holds its mutex across a step
    owned,        \* object -> owned
    closing,      \* object -> closing
    active,       \* object -> goroutines whose command is in its active set
    killed,       \* goroutines whose command was sent SIGKILL
    (* the disk *)
    workspaces,   \* sessions whose workspace directory exists
    fresh,        \* those whose marker is younger than WorkspaceTTL
    file,         \* session -> the changes found in its file
    acked,        \* history: changes reported as done and not overwritten
    (* Close: one goroutine at most gets past its first lines *)
    snapshot,     \* its copy of the map
    pending,      \* sessions its current loop has left
    closeFailed,  \* errs is not empty
    closeResult,  \* "none", then what that Close returned
    (* the goroutines *)
    calls,        \* calls begun so far
    call          \* goroutine -> its call and the call's locals

runtimeVars == <<rmu, closed, cleanupDue, sessions>>
heapVars    == <<mu, owned, closing, active, killed>>
diskVars    == <<workspaces, fresh, file, acked>>
closeVars   == <<snapshot, pending, closeFailed, closeResult>>
vars == <<runtimeVars, heapVars, diskVars, closeVars, calls, call>>

\* pc values at which a goroutine holds its session's mutex.
LockedLabels == {"file", "edit", "bash"}

Labels == LockedLabels \cup
          {"idle", "session", "gate", "readdir", "sweep", "hash", "hashLock",
           "remove", "lock", "running", "finish", "mark", "poll", "purge",
           "forget", "close", "closeMark", "closeWait", "closeRemove"}

Call == [pc   : Labels,                    \* next step
         op   : AllOps \cup {"none"},      \* which call it is
         id   : 0..MaxCalls,               \* its number
         s    : Sessions \cup {NoSession}, \* its session argument
         st   : States \cup {NoState},     \* the object session() returned
         todo : SUBSET Sessions,           \* sweep: entries left
         at   : Sessions \cup {NoSession}, \* workspace being looked at
         seen : SUBSET (0..MaxCalls),      \* history: commands at ReadDir
         copy : SUBSET (1..MaxCalls)]      \* editFile: what it read

NoCall == [pc |-> "idle", op |-> "none", id |-> 0, s |-> NoSession,
           st |-> NoState, todo |-> {}, at |-> NoSession, seen |-> {},
           copy |-> {}]

At(p, label) == call[p].pc = label

Init ==
    /\ rmu = NoProc
    /\ closed = FALSE
    /\ cleanupDue = TRUE
    /\ sessions = [s \in Sessions |-> NoState]
    /\ mu = [o \in States |-> NoProc]
    /\ owned = [o \in States |-> FALSE]
    /\ closing = [o \in States |-> FALSE]
    /\ active = [o \in States |-> {}]
    /\ killed = {}
    \* An earlier process may have left workspaces, expired or not.
    /\ workspaces \in SUBSET Sessions
    /\ fresh \in SUBSET workspaces
    /\ file = [s \in Sessions |-> {}]
    /\ acked = [s \in Sessions |-> {}]
    /\ snapshot = [s \in Sessions |-> NoState]
    /\ pending = {}
    /\ closeFailed = FALSE
    /\ closeResult = "none"
    /\ calls = 0
    /\ call = [p \in Procs |-> NoCall]

----------------------------------------------------------------------------
(* Steps shared by the calls *)

\* The goroutine's record becomes c.
Becomes(p, c) == call' = [call EXCEPT ![p] = c]

Goto(p, label) == Becomes(p, [call[p] EXCEPT !.pc = label])

Return(p) == Becomes(p, NoCall)

\* Mutant of Free: nothing waits for a session's mutex.
FreeUnlocked(o) == TRUE

Free(o) == mu[o] = NoProc

Unlock(p) == mu' = [mu EXCEPT ![call[p].st] = NoProc]

\* os.RemoveAll of a session's workspace.
RemoveAll(s) ==
    /\ workspaces' = workspaces \ {s}
    /\ fresh' = fresh \ {s}
    /\ file' = [file EXCEPT ![s] = {}]
    /\ acked' = [acked EXCEPT ![s] = {}]

\* It fails half-way: the directory stays, the file may be gone.
RemoveAllFails(s) ==
    /\ \/ UNCHANGED <<file, acked>>
       \/ /\ file' = [file EXCEPT ![s] = {}]
          /\ acked' = [acked EXCEPT ![s] = {}]
    /\ UNCHANGED <<workspaces, fresh>>

\* touchWorkspace: it cannot open the root of a workspace that is gone.
Touch(s) == fresh' = IF s \in workspaces THEN fresh \cup {s} ELSE fresh

\* A CleanupSession of s is under way.
BeingCleaned(s) ==
    \E q \in Procs : call[q].op = "cleanup" /\ call[q].s = s

\* The host calls the runtime.  CleanupExpired does nothing without a TTL.
Begin(p) ==
    /\ At(p, "idle")
    /\ calls < MaxCalls
    /\ calls' = calls + 1
    /\ \E o \in Ops, s \in Sessions :
          /\ o = "expire" => TTLEnabled
          /\ (o = "cleanup" /\ SerializedCleanup) => ~BeingCleaned(s)
          /\ Becomes(p, [call[p] EXCEPT
                !.op = o, !.id = calls + 1, !.s = s,
                !.pc = CASE o = "expire" -> "readdir"
                         [] o = "close"  -> "close"
                         [] OTHER        -> "session"])
    /\ UNCHANGED <<runtimeVars, heapVars, diskVars, closeVars>>

\* session(): under r.mu, refuse when closed, else find or create the object.
Session(p) ==
    /\ At(p, "session")
    /\ rmu = NoProc
    /\ IF closed
          THEN Return(p) /\ UNCHANGED sessions
          ELSE LET s == call[p].s
                   o == IF sessions[s] = NoState THEN call[p].id
                                                 ELSE sessions[s]
               IN  /\ sessions' = [sessions EXCEPT ![s] = o]
                   /\ Becomes(p, [call[p] EXCEPT
                         !.st = o,
                         !.pc = IF call[p].op = "cleanup" THEN "mark"
                                                          ELSE "gate"])
    /\ UNCHANGED <<rmu, closed, cleanupDue, mu, owned, closing, active, killed,
                   diskVars, closeVars, calls>>

----------------------------------------------------------------------------
(* The sweep of expired workspaces *)

\* maybeCleanupExpired: sweep at most once in a cleanup interval.
Gate(p) ==
    /\ At(p, "gate")
    /\ TTLEnabled => rmu = NoProc
    /\ IF TTLEnabled /\ cleanupDue
          THEN cleanupDue' = FALSE /\ Goto(p, "readdir")
          ELSE UNCHANGED cleanupDue /\ Goto(p, "lock")
    /\ UNCHANGED <<rmu, closed, sessions, heapVars, diskVars, closeVars, calls>>

\* cleanupExpired lists the workspace root.
ReadDir(p) ==
    /\ At(p, "readdir")
    /\ Becomes(p, [call[p] EXCEPT
          !.todo = workspaces,
          !.seen = {call[q].id : q \in {r \in Procs : At(r, "running")}},
          !.pc = "sweep"])
    /\ UNCHANGED <<runtimeVars, heapVars, diskVars, closeVars, calls>>

\* Stat an entry's marker.  One that is gone or young is skipped.
SweepEntry(p) ==
    /\ At(p, "sweep")
    /\ \E s \in call[p].todo :
          IF s \in workspaces \ fresh
             THEN Becomes(p, [call[p] EXCEPT !.at = s, !.pc = "hash"])
             ELSE Becomes(p, [call[p] EXCEPT !.todo = @ \ {s}])
    /\ UNCHANGED <<runtimeVars, heapVars, diskVars, closeVars, calls>>

SweepDone(p) ==
    /\ At(p, "sweep")
    /\ call[p].todo = {}
    /\ IF call[p].op = "expire" THEN Return(p) ELSE Goto(p, "lock")
    /\ UNCHANGED <<runtimeVars, heapVars, diskVars, closeVars, calls>>

\* sessionHashActive takes r.mu; a workspace without an object is inactive.
HashLookup(p) ==
    /\ At(p, "hash")
    /\ rmu = NoProc
    /\ IF sessions[call[p].at] = NoState
          THEN Goto(p, "remove") /\ UNCHANGED rmu
          ELSE Goto(p, "hashLock") /\ rmu' = p
    /\ UNCHANGED <<closed, cleanupDue, sessions, heapVars, diskVars, closeVars,
                   calls>>

\* Mutant of HashActive: the active set is not looked at.
HashUnchecked(p) ==
    /\ At(p, "hashLock")
    /\ Free(sessions[call[p].at])
    /\ rmu' = NoProc
    /\ Goto(p, "remove")
    /\ UNCHANGED <<closed, cleanupDue, sessions, heapVars, diskVars, closeVars,
                   calls>>

\* Still holding r.mu, it waits for the object's mutex and looks at active.
HashActive(p) ==
    /\ At(p, "hashLock")
    /\ Free(sessions[call[p].at])
    /\ rmu' = NoProc
    /\ IF active[sessions[call[p].at]] = {}
          THEN Goto(p, "remove")
          ELSE Becomes(p, [call[p] EXCEPT !.todo = @ \ {call[p].at},
                                     !.pc = "sweep"])
    /\ UNCHANGED <<closed, cleanupDue, sessions, heapVars, diskVars, closeVars,
                   calls>>

\* The expired workspace is removed with no lock held.
SweepRemove(p) ==
    /\ At(p, "remove")
    /\ RemoveAll(call[p].at)
    /\ Becomes(p, [call[p] EXCEPT !.todo = @ \ {call[p].at}, !.pc = "sweep"])
    /\ UNCHANGED <<runtimeVars, heapVars, closeVars, calls>>

----------------------------------------------------------------------------
(* Calls on a locked session: file tools and commands *)

\* Mutant of Lock: ensureWorkspaceLocked does not look at closing.
LockClosing(p) ==
    /\ At(p, "lock")
    /\ Free(call[p].st)
    /\ mu' = [mu EXCEPT ![call[p].st] = p]
    /\ owned' = [owned EXCEPT ![call[p].st] = TRUE]
    /\ workspaces' = workspaces \cup {call[p].s}
    /\ fresh' = fresh \cup {call[p].s}
    /\ Goto(p, call[p].op)
    /\ UNCHANGED <<runtimeVars, closing, active, killed, file, acked,
                   closeVars, calls>>

\* lockSession locks the object; ensureWorkspaceLocked refuses a closing one,
\* or makes the directory, claims it and touches the marker.
Lock(p) ==
    /\ At(p, "lock")
    /\ Free(call[p].st)
    /\ IF closing[call[p].st]
          THEN Return(p) /\ UNCHANGED <<mu, owned, workspaces, fresh>>
          ELSE /\ mu' = [mu EXCEPT ![call[p].st] = p]
               /\ owned' = [owned EXCEPT ![call[p].st] = TRUE]
               /\ workspaces' = workspaces \cup {call[p].s}
               /\ fresh' = fresh \cup {call[p].s}
               /\ Goto(p, call[p].op)
    /\ UNCHANGED <<runtimeVars, closing, active, killed, file, acked,
                   closeVars, calls>>

\* A file call is one of readFile, ReadOutput and WorkspacePath, which change
\* nothing more, ...
Read(p) ==
    /\ At(p, "file")
    /\ Unlock(p)
    /\ Return(p)
    /\ UNCHANGED <<runtimeVars, owned, closing, active, killed,
                   diskVars, closeVars, calls>>

\* atomicWrite makes content the file of s and leaves done as the changes its
\* callers were told of; or it fails and changes nothing, because of the quota,
\* the file's type or a workspace that is gone.
AtomicWrite(s, content, done) ==
    /\ \/ /\ s \in workspaces
          /\ file' = [file EXCEPT ![s] = content]
          /\ acked' = [acked EXCEPT ![s] = done]
       \/ UNCHANGED <<file, acked>>
    /\ UNCHANGED <<workspaces, fresh>>

\* ... of writeFile and WriteUpload, which replace the file, ...
Write(p) ==
    /\ At(p, "file")
    /\ AtomicWrite(call[p].s, {call[p].id}, {call[p].id})
    /\ Unlock(p)
    /\ Return(p)
    /\ UNCHANGED <<runtimeVars, owned, closing, active, killed,
                   closeVars, calls>>

\* ... or of editFile.  It reads the file first (a file that is gone or does
\* not hold the text ends the call as Read does), ...
EditRead(p) ==
    /\ At(p, "file")
    /\ call[p].s \in workspaces
    /\ Becomes(p, [call[p] EXCEPT !.copy = file[call[p].s], !.pc = "edit"])
    /\ UNCHANGED <<runtimeVars, heapVars, diskVars, closeVars, calls>>

\* ... then writes back what it read with its replacement.
EditWrite(p) ==
    /\ At(p, "edit")
    /\ AtomicWrite(call[p].s, call[p].copy \cup {call[p].id},
                   acked[call[p].s] \cup {call[p].id})
    /\ Unlock(p)
    /\ Return(p)
    /\ UNCHANGED <<runtimeVars, owned, closing, active, killed,
                   closeVars, calls>>

\* runCommand starts the process and registers it; a start may fail.
Start(p) ==
    /\ At(p, "bash")
    /\ \/ /\ call[p].s \in workspaces
          /\ active' = [active EXCEPT ![call[p].st] = @ \cup {p}]
          /\ Goto(p, "running")
       \/ UNCHANGED active /\ Goto(p, "finish")
    /\ Unlock(p)
    /\ UNCHANGED <<runtimeVars, owned, closing, killed, diskVars,
                   closeVars, calls>>

\* waitCommand: the process exits by itself, or is killed by its timeout, its
\* context, the workspace quota, CleanupSession or Close.
CommandExit(p) ==
    /\ At(p, "running")
    /\ Goto(p, "finish")
    /\ UNCHANGED <<runtimeVars, heapVars, diskVars, closeVars, calls>>

\* runCommand unregisters the process and touches the marker.
Finish(p) ==
    /\ At(p, "finish")
    /\ Free(call[p].st)
    /\ active' = [active EXCEPT ![call[p].st] = @ \ {p}]
    /\ killed' = killed \ {p}
    /\ Touch(call[p].s)
    /\ Return(p)
    /\ UNCHANGED <<runtimeVars, mu, owned, closing, workspaces, file,
                   acked, closeVars, calls>>

----------------------------------------------------------------------------
(* CleanupSession *)

\* Mutant of Shut: new work is refused, the commands are left alone.
ShutNoKill(o) ==
    /\ Free(o)
    /\ closing' = [closing EXCEPT ![o] = TRUE]
    /\ UNCHANGED <<mu, owned, active, killed>>

\* Refuse new work on an object and kill its commands.
Shut(o) ==
    /\ Free(o)
    /\ closing' = [closing EXCEPT ![o] = TRUE]
    /\ killed' = killed \cup active[o]
    /\ UNCHANGED <<mu, owned, active>>

Mark(p) ==
    /\ At(p, "mark")
    /\ Shut(call[p].st)
    /\ Goto(p, "poll")
    /\ UNCHANGED <<runtimeVars, diskVars, closeVars, calls>>

\* Mutant of PollQuiet: it does not wait for the commands.
PollOnce(p) ==
    /\ At(p, "poll")
    /\ Free(call[p].st)
    /\ Goto(p, "purge")
    /\ UNCHANGED <<runtimeVars, heapVars, diskVars, closeVars, calls>>

\* Poll until no command is left ...
PollQuiet(p) ==
    /\ At(p, "poll")
    /\ Free(call[p].st)
    /\ active[call[p].st] = {}
    /\ Goto(p, "purge")
    /\ UNCHANGED <<runtimeVars, heapVars, diskVars, closeVars, calls>>

\* ... or the caller's context ends, which leaves closing set.
PollCancelled(p) ==
    /\ At(p, "poll")
    /\ Return(p)
    /\ UNCHANGED <<runtimeVars, heapVars, diskVars, closeVars, calls>>

\* Remove an owned workspace under the object's mutex.
Purge(p) ==
    /\ At(p, "purge")
    /\ Free(call[p].st)
    /\ IF owned[call[p].st]
          THEN RemoveAll(call[p].s)
          ELSE UNCHANGED diskVars
    /\ owned' = [owned EXCEPT ![call[p].st] = FALSE]
    /\ Goto(p, "forget")
    /\ UNCHANGED <<runtimeVars, mu, closing, active, killed,
                   closeVars, calls>>

\* Delete the session's entry, whichever object it holds by now.
Forget(p) ==
    /\ At(p, "forget")
    /\ rmu = NoProc
    /\ sessions' = [sessions EXCEPT ![call[p].s] = NoState]
    /\ Return(p)
    /\ UNCHANGED <<rmu, closed, cleanupDue, heapVars, diskVars, closeVars,
                   calls>>

----------------------------------------------------------------------------
(* Close *)

\* The first Close copies the map; a later one returns nil at once.
CloseBegin(p) ==
    /\ At(p, "close")
    /\ rmu = NoProc
    /\ IF closed
          THEN Return(p) /\ UNCHANGED <<closed, snapshot, pending>>
          ELSE /\ closed' = TRUE
               /\ snapshot' = sessions
               /\ pending' = {s \in Sessions : sessions[s] # NoState}
               /\ Goto(p, "closeMark")
    /\ UNCHANGED <<rmu, cleanupDue, sessions, heapVars, diskVars, closeFailed,
                   closeResult, calls>>

\* First loop: refuse new work on every object and kill its commands.
CloseMark(p) ==
    /\ At(p, "closeMark")
    /\ \E s \in pending :
          /\ Shut(snapshot[s])
          /\ pending' = pending \ {s}
    /\ UNCHANGED <<runtimeVars, diskVars, snapshot, closeFailed, closeResult,
                   calls, call>>

\* Mutant of CloseMarked: it waits for sessions that it has not marked.
CloseMarkedEarly(p) ==
    /\ At(p, "closeMark")
    /\ pending' = {s \in Sessions : snapshot[s] # NoState}
    /\ Goto(p, "closeWait")
    /\ UNCHANGED <<runtimeVars, heapVars, diskVars, snapshot, closeFailed,
                   closeResult, calls>>

CloseMarked(p) ==
    /\ At(p, "closeMark")
    /\ pending = {}
    /\ pending' = {s \in Sessions : snapshot[s] # NoState}
    /\ Goto(p, "closeWait")
    /\ UNCHANGED <<runtimeVars, heapVars, diskVars, snapshot, closeFailed,
                   closeResult, calls>>

\* Second loop: once a session is seen quiet, an owned workspace is due for
\* removal; the object's mutex is released before that.
CloseQuiet(p) ==
    /\ At(p, "closeWait")
    /\ \E s \in pending :
          /\ Free(snapshot[s])
          /\ active[snapshot[s]] = {}
          /\ IF owned[snapshot[s]] /\ ~KeepOnClose
                THEN /\ Becomes(p, [call[p] EXCEPT !.at = s,
                                               !.pc = "closeRemove"])
                     /\ UNCHANGED pending
                ELSE pending' = pending \ {s} /\ UNCHANGED call
    /\ UNCHANGED <<runtimeVars, heapVars, diskVars, snapshot, closeFailed,
                   closeResult, calls>>

CloseRemove(p) ==
    /\ At(p, "closeRemove")
    /\ RemoveAll(call[p].at)
    /\ pending' = pending \ {call[p].at}
    /\ Goto(p, "closeWait")
    /\ UNCHANGED <<runtimeVars, heapVars, snapshot, closeFailed, closeResult,
                   calls>>

\* Two seconds have passed and a command has not stopped.
CloseGiveUp(p) ==
    /\ At(p, "closeWait")
    /\ \E s \in pending :
          /\ Free(snapshot[s])
          /\ active[snapshot[s]] # {}
          /\ pending' = pending \ {s}
    /\ closeFailed' = TRUE
    /\ UNCHANGED <<runtimeVars, heapVars, diskVars, snapshot, closeResult,
                   calls, call>>

CloseDone(p) ==
    /\ At(p, "closeWait")
    /\ pending = {}
    /\ closeResult' = IF closeFailed THEN "error" ELSE "nil"
    /\ Return(p)
    /\ UNCHANGED <<runtimeVars, heapVars, diskVars, snapshot, pending,
                   closeFailed, calls>>

----------------------------------------------------------------------------
(* Errors of the file system *)

\* The sweep cannot list the root or remove a workspace: the call that made it
\* ends with the error.
SweepFails(p) ==
    /\ \/ At(p, "readdir") /\ UNCHANGED diskVars
       \/ At(p, "remove") /\ RemoveAllFails(call[p].at)
    /\ Return(p)
    /\ UNCHANGED <<runtimeVars, heapVars, closeVars, calls>>

\* ensureWorkspaceLocked cannot prepare the workspace: it may have made the
\* directory by then, and may have claimed it.
LockFails(p) ==
    /\ At(p, "lock")
    /\ Free(call[p].st)
    /\ ~closing[call[p].st]
    /\ \/ UNCHANGED <<owned, workspaces, fresh>>
       \/ /\ owned' \in {owned, [owned EXCEPT ![call[p].st] = TRUE]}
          /\ workspaces' = workspaces \cup {call[p].s}
          /\ fresh' = fresh \cup ({call[p].s} \ workspaces)
    /\ Return(p)
    /\ UNCHANGED <<runtimeVars, mu, closing, active, killed, file, acked,
                   closeVars, calls>>

\* CleanupSession cannot remove the workspace: the object stays closing.
PurgeFails(p) ==
    /\ At(p, "purge")
    /\ Free(call[p].st)
    /\ owned[call[p].st]
    /\ RemoveAllFails(call[p].s)
    /\ Return(p)
    /\ UNCHANGED <<runtimeVars, heapVars, closeVars, calls>>

\* Close cannot: it goes on with the other sessions and reports the error.
CloseRemoveFails(p) ==
    /\ At(p, "closeRemove")
    /\ RemoveAllFails(call[p].at)
    /\ pending' = pending \ {call[p].at}
    /\ closeFailed' = TRUE
    /\ Goto(p, "closeWait")
    /\ UNCHANGED <<runtimeVars, heapVars, snapshot, closeResult, calls>>

----------------------------------------------------------------------------
(* Time *)

\* A workspace gets older than WorkspaceTTL.  A file call is shorter than it.
Expire(s) ==
    /\ s \in fresh
    /\ \A p \in Procs : ~(call[p].pc \in LockedLabels /\ call[p].s = s)
    /\ fresh' = fresh \ {s}
    /\ UNCHANGED <<runtimeVars, heapVars, workspaces, file, acked, closeVars,
                   calls, call>>

\* cleanupInterval passes after a sweep began.
IntervalPasses ==
    /\ ~cleanupDue
    /\ cleanupDue' = TRUE
    /\ UNCHANGED <<rmu, closed, sessions, heapVars, diskVars, closeVars,
                   calls, call>>

\* The host has made all its calls and they have returned.
Finished ==
    /\ calls = MaxCalls
    /\ \A p \in Procs : At(p, "idle")
    /\ UNCHANGED vars

\* What a goroutine does by itself once it has made a call.
Step(p) ==
    \/ Session(p) \/ Gate(p) \/ ReadDir(p) \/ SweepEntry(p) \/ SweepDone(p)
    \/ HashLookup(p) \/ HashActive(p) \/ SweepRemove(p) \/ Lock(p)
    \/ Read(p) \/ Write(p) \/ EditRead(p) \/ EditWrite(p) \/ Start(p)
    \/ Finish(p) \/ Mark(p) \/ PollQuiet(p) \/ Purge(p) \/ Forget(p)
    \/ CloseBegin(p) \/ CloseMark(p) \/ CloseMarked(p) \/ CloseQuiet(p)
    \/ CloseRemove(p) \/ CloseDone(p)

\* What goes wrong with a call, or is decided outside the runtime.
Event(p) ==
    \/ CommandExit(p) \/ PollCancelled(p) \/ CloseGiveUp(p)
    \/ SweepFails(p) \/ LockFails(p) \/ PurgeFails(p) \/ CloseRemoveFails(p)

Next ==
    \/ \E p \in Procs : Begin(p) \/ Step(p) \/ Event(p)
    \/ \E s \in Sessions : Expire(s)
    \/ IntervalPasses
    \/ Finished

Spec == Init /\ [][Next]_vars

(***************************************************************************)
(* A goroutine that can run runs, a process that was sent SIGKILL dies.    *)
(* Nothing is assumed of commands that are left alone, of cancellation, of *)
(* Close's deadline or of errors.                                          *)
(***************************************************************************)
Fairness ==
    \A p \in Procs : /\ WF_vars(Step(p))
                     /\ WF_vars(p \in killed /\ CommandExit(p))

FairSpec == Spec /\ Fairness

----------------------------------------------------------------------------
(* Properties *)

\* Every variable stays within the values the code can give it.
TypeOK ==
    /\ rmu \in Procs \cup {NoProc}
    /\ closed \in BOOLEAN
    /\ cleanupDue \in BOOLEAN
    /\ sessions \in [Sessions -> States \cup {NoState}]
    /\ mu \in [States -> Procs \cup {NoProc}]
    /\ owned \in [States -> BOOLEAN]
    /\ closing \in [States -> BOOLEAN]
    /\ active \in [States -> SUBSET Procs]
    /\ killed \in SUBSET Procs
    /\ workspaces \in SUBSET Sessions
    /\ fresh \in SUBSET workspaces
    /\ file \in [Sessions -> SUBSET (1..MaxCalls)]
    /\ acked \in [Sessions -> SUBSET (1..MaxCalls)]
    /\ snapshot \in [Sessions -> States \cup {NoState}]
    /\ pending \in SUBSET Sessions
    /\ closeFailed \in BOOLEAN
    /\ closeResult \in {"none", "nil", "error"}
    /\ calls \in 0..MaxCalls
    /\ call \in [Procs -> Call]

\* p works in the workspace of s: it holds it locked or runs a command there.
Uses(p, s) == call[p].s = s /\ call[p].pc \in LockedLabels \cup {"running"}

\* p removes the workspace of s at this step of CleanupSession or Close.
RemovesExplicitly(p, s) ==
    /\ s \in workspaces \ workspaces'
    /\ \/ At(p, "purge") /\ call'[p].pc = "forget" /\ call[p].s = s
       \/ At(p, "closeRemove") /\ call'[p].pc = "closeWait" /\ call[p].at = s

\* LOCAL_RUNTIME_SECURITY.md: "Per-session locking prevents concurrent edits
\* from losing updates".  A change that a file tool reported as done is in the
\* file until the file is replaced or the workspace removed.
NoLostEdit == \A s \in Sessions : acked[s] \subseteq file[s]

\* CleanupSession and Close remove a workspace only when nobody works in it,
\* although Close gives the mutex back before it removes anything.
ExplicitRemovalIsQuiet ==
    [][\A p, q \in Procs, s \in Sessions :
          RemovesExplicitly(p, s) => ~Uses(q, s)]_vars

\* "Close stops all commands and closes the runtime": once the Close that did
\* the work has returned nil, no command runs and no goroutine is in a
\* workspace, and none of the workspaces that calls have claimed is left.
CloseStopsAll ==
    closeResult = "nil" =>
        \A p \in Procs, s \in Sessions :
            /\ ~Uses(p, s)
            /\ (snapshot[s] # NoState /\ owned[snapshot[s]] /\ ~KeepOnClose)
                  => s \notin workspaces

\* After that no call that was under way makes a workspace again.
NothingRevives ==
    [][closeResult = "nil" => workspaces' \subseteq workspaces]_vars

\* The sweep spares what was at work before it began: it never removes a
\* workspace under a command that ran when it listed the root and still runs,
\* however long that command has gone without touching the marker.
SweepSparesRunning ==
    [][\A p, q \in Procs :
          (/\ At(p, "remove") /\ call'[p].pc = "sweep"
           /\ At(q, "running") /\ call[q].s = call[p].at)
              => call[q].id \notin call[p].seen]_vars

\* Every call returns, except a command that nobody kills: no order of the
\* runtime's lock, the sessions' locks and the polling loops makes
\* CleanupSession, Close, a sweep or a file tool wait for ever.
CallsReturn ==
    \A p \in Procs :
        (~At(p, "idle") /\ (At(p, "running") => p \in killed)) ~>
            (At(p, "idle") \/ (At(p, "running") /\ p \notin killed))

\* "CleanupExpired removes inactive workspaces older than WorkspaceTTL": the
\* workspace it removes is expired and nobody works in it at that moment.
ExpiryIsInactive ==
    [][\A p \in Procs :
          (At(p, "remove") /\ call[p].at \in workspaces \ workspaces') =>
              /\ call[p].at \notin fresh
              /\ \A q \in Procs : ~Uses(q, call[p].at)]_vars

=============================================================================
