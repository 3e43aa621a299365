------------------------- MODULE LocalRuntimeProofs -------------------------
(***************************************************************************)
(* Theorems about LocalRuntime, for any goroutines, sessions and number of *)
(* calls: its types, and that edits are never lost while the host does not *)
(* overlap two CleanupSession calls of one session.                        *)
(***************************************************************************)
EXTENDS LocalRuntime, TLAPS

SessionOps    == {"file", "bash", "cleanup"}
CleanupLabels == {"mark", "poll", "purge", "forget"}

\* What the locals c of a call hold at each of its steps.
CallOK(c) ==
    /\ c.pc = "idle" => c = NoCall
    /\ c.op = "none" <=> c.pc = "idle"
    /\ c.pc # "idle" => c.s \in Sessions /\ c.id # 0
    /\ (c.pc # "session" /\ c.op \in SessionOps) => c.st \in States
    /\ c.pc \in LockedLabels \cup {"gate", "lock", "running", "finish"}
          => c.op \in {"file", "bash"}
    /\ c.pc \in {"readdir", "sweep", "hash", "hashLock", "remove"}
          => c.op \in {"file", "bash", "expire"}
    /\ c.pc \in CleanupLabels => c.op = "cleanup"
    /\ c.op = "cleanup" => c.pc \in CleanupLabels \cup {"session"}
    /\ c.pc = "session" => c.op \in SessionOps /\ c.st = NoState
    /\ c.pc \in {"hash", "hashLock", "remove", "closeRemove"}
          => c.at \in Sessions

CallInv == \A p \in Procs : CallOK(call[p])

\* Close has yet to look only at sessions that have an object.
PendingInv == \A s \in pending : snapshot[s] # NoState

TypeInv == TypeOK /\ CallInv /\ PendingInv

\* A goroutine inside a session holds its object's mutex, and nobody can have
\* marked that object as closing.
MutexInv ==
    \A p \in Procs : call[p].pc \in LockedLabels =>
        mu[call[p].st] = p /\ ~closing[call[p].st]

\* An object that is not closing is still the one in the map: only the one
\* CleanupSession of the session deletes the entry, after it has marked it.
MapInv ==
    /\ \A p \in Procs :
          (call[p].st # NoState /\ ~closing[call[p].st]) =>
              sessions[call[p].s] = call[p].st
    /\ \A p \in Procs :
          call[p].pc \in CleanupLabels => sessions[call[p].s] = call[p].st
    /\ \A p \in Procs :
          call[p].pc \in CleanupLabels \ {"mark"} => closing[call[p].st]
    /\ \A p, q \in Procs :
          (call[p].op = "cleanup" /\ call[q].op = "cleanup"
           /\ call[p].s = call[q].s) => p = q

\* An editFile between its read and its write knows every change reported.
CopyInv ==
    \A p \in Procs : At(p, "edit") => acked[call[p].s] \subseteq call[p].copy

\* At most one goroutine is inside a session.
SessionExclusive ==
    \A p, q \in Procs :
        (/\ call[p].pc \in LockedLabels /\ call[q].pc \in LockedLabels
         /\ call[p].s = call[q].s) => p = q

EditInv == MutexInv /\ MapInv /\ CopyInv /\ NoLostEdit

----------------------------------------------------------------------------
(* Types: one lemma for each action *)

\* The initial states have the types, and idle goroutines no call.
LEMMA InitTypes == Init => TypeInv
<1>. SUFFICES ASSUME Init PROVE TypeInv
  OBVIOUS
<1>1. NoCall \in Call
  BY ConstantsAssumption
     DEF Call, NoCall, Labels, AllOps, NoState, States
<1>2. TypeOK
  <2>1. call \in [Procs -> Call]
    BY <1>1 DEF Init
  <2>2. calls \in 0..MaxCalls
    BY ConstantsAssumption DEF Init
  <2>3. /\ sessions \in [Sessions -> States \cup {NoState}]
        /\ snapshot \in [Sessions -> States \cup {NoState}]
        /\ mu \in [States -> Procs \cup {NoProc}]
        /\ owned \in [States -> BOOLEAN]
        /\ closing \in [States -> BOOLEAN]
        /\ active \in [States -> SUBSET Procs]
    BY DEF Init
  <2>4. /\ file \in [Sessions -> SUBSET (1..MaxCalls)]
        /\ acked \in [Sessions -> SUBSET (1..MaxCalls)]
    BY DEF Init
  <2>. QED
    BY <2>1, <2>2, <2>3, <2>4 DEF Init, TypeOK
<1>3. CallInv
  BY DEF Init, CallInv, CallOK, NoCall, LockedLabels, CleanupLabels,
         SessionOps,
         NoState
<1>. QED
  BY <1>2, <1>3 DEF Init, TypeInv, PendingInv

\* Recording a new record c for a goroutine keeps the types of calls, ...
LEMMA BecomesTypes ==
    ASSUME TypeInv, NEW p \in Procs, NEW c \in Call, CallOK(c),
           Becomes(p, c)
    PROVE  call' \in [Procs -> Call] /\ CallInv'
BY DEF TypeInv, TypeOK, CallInv, Becomes

\* ... and so does going to another label, ...
LEMMA GotoTypes ==
    ASSUME TypeInv, NEW p \in Procs, NEW label \in Labels,
           CallOK([call[p] EXCEPT !.pc = label]), Goto(p, label)
    PROVE  call' \in [Procs -> Call] /\ CallInv'
<1>1. [call[p] EXCEPT !.pc = label] \in Call
  BY DEF TypeInv, TypeOK, Call
<1>. QED
  BY <1>1, BecomesTypes DEF Goto

\* ... and the end of a call.
LEMMA ReturnTypes ==
    ASSUME TypeInv, NEW p \in Procs, Return(p)
    PROVE  call' \in [Procs -> Call] /\ CallInv'
<1>1. NoCall \in Call
  BY ConstantsAssumption
     DEF Call, NoCall, Labels, AllOps, NoState, States
<1>2. CallOK(NoCall)
  BY DEF CallOK, NoCall, LockedLabels, CleanupLabels, SessionOps, NoState
<1>. QED
  BY <1>1, <1>2, BecomesTypes DEF Return

\* maybeCleanupExpired.
LEMMA GateTypes ==
    ASSUME TypeInv, NEW p \in Procs, Gate(p)
    PROVE  TypeInv'
<1>1. /\ CallOK([call[p] EXCEPT !.pc = "readdir"])
      /\ CallOK([call[p] EXCEPT !.pc = "lock"])
  BY DEF TypeInv, TypeOK, CallInv, Gate, CallOK, Call, Labels, LockedLabels,
         SessionOps,
         CleanupLabels, At
<1>2. call' \in [Procs -> Call] /\ CallInv'
  BY <1>1, GotoTypes DEF Gate, Labels, LockedLabels
<1>. QED
  BY <1>2 DEF Gate, TypeInv, TypeOK, PendingInv, runtimeVars, heapVars,
              diskVars, closeVars

\* The end of a sweep.
LEMMA SweepDoneTypes ==
    ASSUME TypeInv, NEW p \in Procs, SweepDone(p)
    PROVE  TypeInv'
<1>1. call[p].op # "expire" => CallOK([call[p] EXCEPT !.pc = "lock"])
  BY DEF TypeInv, TypeOK, CallInv, SweepDone, CallOK, Call, Labels,
         LockedLabels, SessionOps, CleanupLabels, At
<1>2. call' \in [Procs -> Call] /\ CallInv'
  BY <1>1, GotoTypes, ReturnTypes DEF SweepDone, Labels, LockedLabels
<1>. QED
  BY <1>2 DEF SweepDone, TypeInv, TypeOK, PendingInv, runtimeVars, heapVars,
              diskVars, closeVars

\* The map lookup of sessionHashActive.
LEMMA HashLookupTypes ==
    ASSUME TypeInv, NEW p \in Procs, HashLookup(p)
    PROVE  TypeInv'
<1>1. /\ CallOK([call[p] EXCEPT !.pc = "remove"])
      /\ CallOK([call[p] EXCEPT !.pc = "hashLock"])
  BY DEF TypeInv, TypeOK, CallInv, HashLookup, CallOK, Call, Labels,
         LockedLabels, SessionOps,
         CleanupLabels, At
<1>2. call' \in [Procs -> Call] /\ CallInv'
  BY <1>1, GotoTypes DEF HashLookup, Labels, LockedLabels
<1>. QED
  BY <1>2 DEF HashLookup, TypeInv, TypeOK, PendingInv, runtimeVars, heapVars,
              diskVars, closeVars

\* A file tool that changes nothing.
LEMMA ReadTypes ==
    ASSUME TypeInv, NEW p \in Procs, Read(p)
    PROVE  TypeInv'
<1>1. call' \in [Procs -> Call] /\ CallInv'
  BY ReturnTypes DEF Read
<1>. QED
  BY <1>1 DEF Read, TypeInv, TypeOK, PendingInv, runtimeVars, heapVars,
              diskVars, closeVars, Unlock

\* The start of runCommand, ...
LEMMA StartTypes ==
    ASSUME TypeInv, NEW p \in Procs, Start(p)
    PROVE  TypeInv'
<1>1. /\ CallOK([call[p] EXCEPT !.pc = "running"])
      /\ CallOK([call[p] EXCEPT !.pc = "finish"])
  BY DEF TypeInv, TypeOK, CallInv, Start, CallOK, Call, Labels, LockedLabels,
         SessionOps,
         CleanupLabels, At
<1>2. call' \in [Procs -> Call] /\ CallInv'
  BY <1>1, GotoTypes DEF Start, Labels, LockedLabels
<1>3. call[p].st \in States
  BY DEF TypeInv, TypeOK, CallInv, Start, CallOK, At, Call, LockedLabels,
         SessionOps, CleanupLabels
<1>. QED
  BY <1>2, <1>3 DEF Start, TypeInv, TypeOK, PendingInv, runtimeVars, heapVars,
                    diskVars, closeVars, Unlock

\* ... the exit of its process ...
LEMMA CommandExitTypes ==
    ASSUME TypeInv, NEW p \in Procs, CommandExit(p)
    PROVE  TypeInv'
<1>1. CallOK([call[p] EXCEPT !.pc = "finish"])
  BY DEF TypeInv, TypeOK, CallInv, CommandExit, CallOK, Call, Labels,
         LockedLabels, SessionOps,
         CleanupLabels, At
<1>2. call' \in [Procs -> Call] /\ CallInv'
  BY <1>1, GotoTypes DEF CommandExit, Labels, LockedLabels
<1>. QED
  BY <1>2 DEF CommandExit, TypeInv, TypeOK, PendingInv, runtimeVars, heapVars,
              diskVars, closeVars

\* ... and its end.
LEMMA FinishTypes ==
    ASSUME TypeInv, NEW p \in Procs, Finish(p)
    PROVE  TypeInv'
<1>1. call' \in [Procs -> Call] /\ CallInv'
  BY ReturnTypes DEF Finish
<1>. QED
  BY <1>1 DEF Finish, TypeInv, TypeOK, PendingInv, runtimeVars, heapVars,
              diskVars, closeVars, Touch

\* The first step of CleanupSession, ...
LEMMA MarkTypes ==
    ASSUME TypeInv, NEW p \in Procs, Mark(p)
    PROVE  TypeInv'
<1>1. CallOK([call[p] EXCEPT !.pc = "poll"])
  BY DEF TypeInv, TypeOK, CallInv, Mark, CallOK, Call, Labels, LockedLabels,
         SessionOps,
         CleanupLabels, At
<1>2. call' \in [Procs -> Call] /\ CallInv'
  BY <1>1, GotoTypes DEF Mark, Labels, LockedLabels
<1>3. call[p].st \in States
  BY DEF TypeInv, TypeOK, CallInv, Mark, CallOK, At, Call, LockedLabels,
         SessionOps, CleanupLabels
<1>. QED
  BY <1>2, <1>3 DEF Mark, TypeInv, TypeOK, PendingInv, runtimeVars, heapVars,
                    diskVars, closeVars, Shut

\* ... the end of its polling, ...
LEMMA PollQuietTypes ==
    ASSUME TypeInv, NEW p \in Procs, PollQuiet(p)
    PROVE  TypeInv'
<1>1. CallOK([call[p] EXCEPT !.pc = "purge"])
  BY DEF TypeInv, TypeOK, CallInv, PollQuiet, CallOK, Call, Labels,
         LockedLabels, SessionOps,
         CleanupLabels, At
<1>2. call' \in [Procs -> Call] /\ CallInv'
  BY <1>1, GotoTypes DEF PollQuiet, Labels, LockedLabels
<1>. QED
  BY <1>2 DEF PollQuiet, TypeInv, TypeOK, PendingInv, runtimeVars, heapVars,
              diskVars, closeVars

\* ... which may be cancelled, ...
LEMMA PollCancelledTypes ==
    ASSUME TypeInv, NEW p \in Procs, PollCancelled(p)
    PROVE  TypeInv'
<1>1. call' \in [Procs -> Call] /\ CallInv'
  BY ReturnTypes DEF PollCancelled
<1>. QED
  BY <1>1 DEF PollCancelled, TypeInv, TypeOK, PendingInv, runtimeVars,
              heapVars, diskVars, closeVars

\* ... the removal of an owned workspace ...
LEMMA PurgeTypes ==
    ASSUME TypeInv, NEW p \in Procs, Purge(p)
    PROVE  TypeInv'
<1>1. CallOK([call[p] EXCEPT !.pc = "forget"])
  BY DEF TypeInv, TypeOK, CallInv, Purge, CallOK, Call, Labels, LockedLabels,
         SessionOps,
         CleanupLabels, At
<1>2. call' \in [Procs -> Call] /\ CallInv'
  BY <1>1, GotoTypes DEF Purge, Labels, LockedLabels
<1>. QED
  BY <1>2 DEF Purge, TypeInv, TypeOK, PendingInv, runtimeVars, heapVars,
              diskVars, closeVars, RemoveAll

\* ... and the removal of the map entry.
LEMMA ForgetTypes ==
    ASSUME TypeInv, NEW p \in Procs, Forget(p)
    PROVE  TypeInv'
<1>1. call' \in [Procs -> Call] /\ CallInv'
  BY ReturnTypes DEF Forget
<1>. QED
  BY <1>1 DEF Forget, TypeInv, TypeOK, PendingInv, runtimeVars, heapVars,
              diskVars, closeVars, NoState

\* The first lines of Close, ...
LEMMA CloseBeginTypes ==
    ASSUME TypeInv, NEW p \in Procs, CloseBegin(p)
    PROVE  TypeInv'
<1>1. CallOK([call[p] EXCEPT !.pc = "closeMark"])
  BY DEF TypeInv, TypeOK, CallInv, CloseBegin, CallOK, Call, Labels,
         LockedLabels, SessionOps,
         CleanupLabels, At
<1>2. call' \in [Procs -> Call] /\ CallInv'
  BY <1>1, GotoTypes, ReturnTypes DEF CloseBegin, Labels, LockedLabels
<1>. QED
  BY <1>2 DEF CloseBegin, TypeInv, TypeOK, PendingInv, runtimeVars, heapVars,
              diskVars, closeVars

\* ... its first loop, ...
LEMMA CloseMarkTypes ==
    ASSUME TypeInv, NEW p \in Procs, CloseMark(p)
    PROVE  TypeInv'
<1>1. call' \in [Procs -> Call] /\ CallInv'
  BY DEF CloseMark, TypeInv, TypeOK, CallInv
<1>. QED
  BY <1>1 DEF CloseMark, TypeInv, TypeOK, PendingInv, runtimeVars, heapVars,
              diskVars, closeVars, Shut

\* ... the end of that loop, ...
LEMMA CloseMarkedTypes ==
    ASSUME TypeInv, NEW p \in Procs, CloseMarked(p)
    PROVE  TypeInv'
<1>1. CallOK([call[p] EXCEPT !.pc = "closeWait"])
  BY DEF TypeInv, TypeOK, CallInv, CloseMarked, CallOK, Call, Labels,
         LockedLabels, SessionOps,
         CleanupLabels, At
<1>2. call' \in [Procs -> Call] /\ CallInv'
  BY <1>1, GotoTypes DEF CloseMarked, Labels, LockedLabels
<1>. QED
  BY <1>2 DEF CloseMarked, TypeInv, TypeOK, PendingInv, runtimeVars, heapVars,
              diskVars, closeVars

\* ... a removal in its second loop, ...
LEMMA CloseRemoveTypes ==
    ASSUME TypeInv, NEW p \in Procs, CloseRemove(p)
    PROVE  TypeInv'
<1>1. CallOK([call[p] EXCEPT !.pc = "closeWait"])
  BY DEF TypeInv, TypeOK, CallInv, CloseRemove, CallOK, Call, Labels,
         LockedLabels, SessionOps,
         CleanupLabels, At
<1>2. call' \in [Procs -> Call] /\ CallInv'
  BY <1>1, GotoTypes DEF CloseRemove, Labels, LockedLabels
<1>. QED
  BY <1>2 DEF CloseRemove, TypeInv, TypeOK, PendingInv, runtimeVars, heapVars,
              diskVars, closeVars, RemoveAll

\* ... a session given up, ...
LEMMA CloseGiveUpTypes ==
    ASSUME TypeInv, NEW p \in Procs, CloseGiveUp(p)
    PROVE  TypeInv'
<1>1. call' \in [Procs -> Call] /\ CallInv'
  BY DEF CloseGiveUp, TypeInv, TypeOK, CallInv
<1>. QED
  BY <1>1 DEF CloseGiveUp, TypeInv, TypeOK, PendingInv, runtimeVars, heapVars,
              diskVars, closeVars

\* ... and its end.
LEMMA CloseDoneTypes ==
    ASSUME TypeInv, NEW p \in Procs, CloseDone(p)
    PROVE  TypeInv'
<1>1. call' \in [Procs -> Call] /\ CallInv'
  BY ReturnTypes DEF CloseDone
<1>. QED
  BY <1>1 DEF CloseDone, TypeInv, TypeOK, PendingInv, runtimeVars, heapVars,
              diskVars, closeVars

\* The listing of the workspace root.
LEMMA ReadDirTypes ==
    ASSUME TypeInv, NEW p \in Procs, ReadDir(p)
    PROVE  TypeInv'
<1>. DEFINE c == [call[p] EXCEPT
          !.todo = workspaces,
          !.seen = {call[q].id : q \in {r \in Procs : At(r, "running")}},
          !.pc = "sweep"]
<1>1. call[p] \in Call /\ CallOK(call[p]) /\ call[p].pc = "readdir"
  BY DEF TypeInv, TypeOK, CallInv, ReadDir, At
<1>2. c \in Call
  <2>1. {call[q].id : q \in {r \in Procs : At(r, "running")}}
           \in SUBSET (0..MaxCalls)
    BY DEF TypeInv, TypeOK, Call
  <2>. QED
    BY <1>1, <2>1 DEF TypeInv, TypeOK, Call, Labels
<1>3. CallOK(c)
  BY <1>1 DEF CallOK, Call, LockedLabels, SessionOps, CleanupLabels
<1>4. call' \in [Procs -> Call] /\ CallInv'
  BY <1>2, <1>3, BecomesTypes DEF ReadDir
<1>. QED
  BY <1>4 DEF ReadDir, TypeInv, TypeOK, PendingInv, runtimeVars, heapVars,
              diskVars, closeVars

\* The removal of an expired workspace.
LEMMA SweepRemoveTypes ==
    ASSUME TypeInv, NEW p \in Procs, SweepRemove(p)
    PROVE  TypeInv'
<1>. DEFINE c == [call[p] EXCEPT
          !.todo = @ \ {call[p].at}, !.pc = "sweep"]
<1>1. call[p] \in Call /\ CallOK(call[p]) /\ call[p].pc = "remove"
  BY DEF TypeInv, TypeOK, CallInv, SweepRemove, At
<1>2. c \in Call
  BY <1>1 DEF TypeInv, TypeOK, Call, Labels
<1>3. CallOK(c)
  BY <1>1 DEF CallOK, Call, LockedLabels, SessionOps, CleanupLabels
<1>4. call' \in [Procs -> Call] /\ CallInv'
  BY <1>2, <1>3, BecomesTypes DEF SweepRemove
<1>. QED
  BY <1>4 DEF SweepRemove, TypeInv, TypeOK, PendingInv, runtimeVars, heapVars,
              diskVars, closeVars, RemoveAll

\* The first half of editFile, ...
LEMMA EditReadTypes ==
    ASSUME TypeInv, NEW p \in Procs, EditRead(p)
    PROVE  TypeInv'
<1>. DEFINE c == [call[p] EXCEPT
          !.copy = file[call[p].s], !.pc = "edit"]
<1>1. call[p] \in Call /\ CallOK(call[p]) /\ call[p].pc = "file"
  BY DEF TypeInv, TypeOK, CallInv, EditRead, At
<1>2. c \in Call
  <2>1. file[call[p].s] \in SUBSET (1..MaxCalls)
    BY <1>1 DEF TypeInv, TypeOK, CallOK
  <2>2. ASSUME NEW x \in SUBSET (1..MaxCalls)
        PROVE  [call[p] EXCEPT !.copy = x, !.pc = "edit"] \in Call
    BY <1>1 DEF Call, Labels, LockedLabels
  <2>. QED
    BY <2>1, <2>2
<1>3. CallOK(c)
  BY <1>1 DEF CallOK, Call, LockedLabels, SessionOps, CleanupLabels
<1>4. call' \in [Procs -> Call] /\ CallInv'
  BY <1>2, <1>3, BecomesTypes DEF EditRead
<1>. QED
  BY <1>4 DEF EditRead, TypeInv, TypeOK, PendingInv, runtimeVars, heapVars,
              diskVars, closeVars

\* A call begins.
LEMMA BeginTypes ==
    ASSUME TypeInv, NEW p \in Procs, Begin(p)
    PROVE  TypeInv'
<1>. DEFINE c(o, s) == [call[p] EXCEPT
                !.op = o, !.id = calls + 1, !.s = s,
                !.pc = CASE o = "expire" -> "readdir"
                         [] o = "close"  -> "close"
                         [] OTHER        -> "session"]
<1>1. calls \in Nat /\ calls + 1 \in 1..MaxCalls
  BY ConstantsAssumption DEF TypeInv, TypeOK, Begin
<1>2. ASSUME NEW o \in Ops, NEW s \in Sessions
      PROVE  c(o, s) \in Call /\ CallOK(c(o, s))
  <2>1. call[p] \in Call /\ call[p] = NoCall /\ o \in AllOps
    BY ConstantsAssumption
       DEF TypeInv, TypeOK, CallInv, CallOK, Begin, At
  <2>2. c(o, s).pc \in {"readdir", "close", "session"}
    BY <2>1 DEF Call
  <2>3. c(o, s) \in Call
    <3>1. calls + 1 \in 0..MaxCalls
      BY <1>1
    <3>. QED
      BY <2>1, <2>2, <3>1 DEF Call, Labels
  <2>4. CallOK(c(o, s))
    BY <1>1, <2>1 DEF CallOK, Call, NoCall, AllOps, LockedLabels, SessionOps,
                      CleanupLabels
  <2>. QED
    BY <2>3, <2>4
<1>3. call' \in [Procs -> Call] /\ CallInv'
  <2>1. PICK o \in Ops, s \in Sessions : Becomes(p, c(o, s))
    BY DEF Begin
  <2>. QED
    BY <1>2, <2>1, BecomesTypes
<1>. QED
  BY <1>1, <1>3 DEF Begin, TypeInv, TypeOK, PendingInv, runtimeVars, heapVars,
                    diskVars, closeVars

\* session() returns an object, which may be new.
LEMMA SessionTypes ==
    ASSUME TypeInv, NEW p \in Procs, Session(p)
    PROVE  TypeInv'
<1>. DEFINE o == IF sessions[call[p].s] = NoState THEN call[p].id
                                                  ELSE sessions[call[p].s]
            c == [call[p] EXCEPT
                    !.st = o,
                    !.pc = IF call[p].op = "cleanup" THEN "mark" ELSE "gate"]
<1>1. call[p].s \in Sessions /\ o \in States
  BY ConstantsAssumption
     DEF TypeInv, TypeOK, CallInv, CallOK, Call, Session, At, States, NoState
<1>2. c \in Call /\ CallOK(c)
  <2>1. call[p] \in Call /\ CallOK(call[p]) /\ call[p].pc = "session"
    BY DEF TypeInv, TypeOK, CallInv, Session, At
  <2>. HIDE DEF o
  <2>2. c \in Call
    BY <1>1, <2>1 DEF Call, Labels
  <2>3. CallOK(c)
    BY <1>1, <2>1 DEF CallOK, Call, LockedLabels, SessionOps, CleanupLabels
  <2>. QED
    BY <2>2, <2>3
<1>3. call' \in [Procs -> Call] /\ CallInv'
  <2>1. Return(p) \/ Becomes(p, c)
    BY DEF Session
  <2>. QED
    BY <1>2, <2>1, BecomesTypes, ReturnTypes
<1>4. sessions' \in [Sessions -> States \cup {NoState}]
  <2>1. \/ UNCHANGED sessions
        \/ sessions' = [sessions EXCEPT ![call[p].s] = o]
    BY DEF Session
  <2>. HIDE DEF o
  <2>. QED
    BY <1>1, <2>1 DEF TypeInv, TypeOK
<1>. QED
  BY <1>3, <1>4 DEF Session, TypeInv, TypeOK, PendingInv, diskVars, closeVars

\* The sweep looks at an entry.
LEMMA SweepEntryTypes ==
    ASSUME TypeInv, NEW p \in Procs, SweepEntry(p)
    PROVE  TypeInv'
<1>. DEFINE c(s) == [call[p] EXCEPT !.at = s, !.pc = "hash"]
            d(s) == [call[p] EXCEPT !.todo = @ \ {s}]
<1>1. ASSUME NEW s \in Sessions
      PROVE  /\ c(s) \in Call /\ CallOK(c(s))
             /\ d(s) \in Call /\ CallOK(d(s))
  <2>1. call[p] \in Call /\ CallOK(call[p]) /\ call[p].pc = "sweep"
    BY DEF TypeInv, TypeOK, CallInv, SweepEntry, At
  <2>2. c(s) \in Call /\ d(s) \in Call
    BY <2>1 DEF Call, Labels
  <2>3. CallOK(c(s)) /\ CallOK(d(s))
    BY <2>1 DEF CallOK, Call, LockedLabels, SessionOps, CleanupLabels
  <2>. QED
    BY <2>2, <2>3
<1>2. PICK s \in call[p].todo : Becomes(p, c(s)) \/ Becomes(p, d(s))
  BY DEF SweepEntry
<1>3. s \in Sessions
  BY DEF TypeInv, TypeOK, Call
<1>4. call' \in [Procs -> Call] /\ CallInv'
  BY <1>1, <1>2, <1>3, BecomesTypes
<1>. QED
  BY <1>4 DEF SweepEntry, TypeInv, TypeOK, PendingInv, runtimeVars, heapVars,
              diskVars, closeVars

\* sessionHashActive answers.
LEMMA HashActiveTypes ==
    ASSUME TypeInv, NEW p \in Procs, HashActive(p)
    PROVE  TypeInv'
<1>. DEFINE c == [call[p] EXCEPT !.todo = @ \ {call[p].at}, !.pc = "sweep"]
<1>1. /\ CallOK([call[p] EXCEPT !.pc = "remove"])
      /\ c \in Call /\ CallOK(c)
  <2>1. call[p] \in Call /\ CallOK(call[p]) /\ call[p].pc = "hashLock"
    BY DEF TypeInv, TypeOK, CallInv, HashActive, At
  <2>2. c \in Call
    BY <2>1 DEF Call, Labels
  <2>3. CallOK([call[p] EXCEPT !.pc = "remove"]) /\ CallOK(c)
    BY <2>1 DEF CallOK, Call, LockedLabels, SessionOps, CleanupLabels
  <2>. QED
    BY <2>2, <2>3
<1>2. call' \in [Procs -> Call] /\ CallInv'
  <2>1. Goto(p, "remove") \/ Becomes(p, c)
    BY DEF HashActive
  <2>. QED
    BY <1>1, <2>1, GotoTypes, BecomesTypes DEF Labels
<1>. QED
  BY <1>2 DEF HashActive, TypeInv, TypeOK, PendingInv, heapVars, diskVars,
              closeVars

\* A call locks its session.
LEMMA LockTypes ==
    ASSUME TypeInv, NEW p \in Procs, Lock(p)
    PROVE  TypeInv'
<1>1. /\ call[p].op \in Labels
      /\ CallOK([call[p] EXCEPT !.pc = call[p].op])
      /\ call[p].s \in Sessions
      /\ call[p].st \in States
  BY DEF TypeInv, TypeOK, CallInv, Lock, CallOK, Call, Labels, LockedLabels,
         SessionOps, CleanupLabels, At
<1>2. call' \in [Procs -> Call] /\ CallInv'
  BY <1>1, GotoTypes, ReturnTypes DEF Lock
<1>3. /\ mu' \in [States -> Procs \cup {NoProc}]
      /\ owned' \in [States -> BOOLEAN]
      /\ workspaces' \in SUBSET Sessions
      /\ fresh' \in SUBSET workspaces'
  BY <1>1 DEF Lock, TypeInv, TypeOK
<1>. QED
  BY <1>2, <1>3 DEF Lock, TypeInv, TypeOK, PendingInv, runtimeVars, closeVars

\* What atomicWrite leaves behind has its type.
LEMMA AtomicWriteTypes ==
    ASSUME TypeOK, NEW s \in Sessions, NEW content \in SUBSET (1..MaxCalls),
           NEW done \in SUBSET (1..MaxCalls), AtomicWrite(s, content, done)
    PROVE  /\ file' \in [Sessions -> SUBSET (1..MaxCalls)]
           /\ acked' \in [Sessions -> SUBSET (1..MaxCalls)]
BY DEF TypeOK, AtomicWrite

\* ... and the second, ...
LEMMA EditWriteTypes ==
    ASSUME TypeInv, NEW p \in Procs, EditWrite(p)
    PROVE  TypeInv'
<1>1. call[p].s \in Sessions /\ call[p].id \in 1..MaxCalls
  BY ConstantsAssumption
     DEF TypeInv, TypeOK, CallInv, CallOK, Call, EditWrite, At
<1>2. /\ call[p].copy \cup {call[p].id} \in SUBSET (1..MaxCalls)
      /\ acked[call[p].s] \cup {call[p].id} \in SUBSET (1..MaxCalls)
  BY <1>1 DEF TypeInv, TypeOK, Call
<1>3. /\ file' \in [Sessions -> SUBSET (1..MaxCalls)]
      /\ acked' \in [Sessions -> SUBSET (1..MaxCalls)]
  BY <1>1, <1>2, AtomicWriteTypes DEF EditWrite, TypeInv
<1>4. call' \in [Procs -> Call] /\ CallInv'
  BY ReturnTypes DEF EditWrite
<1>. QED
  BY <1>3, <1>4 DEF EditWrite, AtomicWrite, Unlock, TypeInv, TypeOK,
                    PendingInv, runtimeVars, closeVars

\* ... and writeFile.
LEMMA WriteTypes ==
    ASSUME TypeInv, NEW p \in Procs, Write(p)
    PROVE  TypeInv'
<1>1. call[p].s \in Sessions /\ call[p].id \in 1..MaxCalls
  BY ConstantsAssumption
     DEF TypeInv, TypeOK, CallInv, CallOK, Call, Write, At
<1>2. /\ file' \in [Sessions -> SUBSET (1..MaxCalls)]
      /\ acked' \in [Sessions -> SUBSET (1..MaxCalls)]
  BY <1>1, AtomicWriteTypes DEF Write, TypeInv
<1>3. call' \in [Procs -> Call] /\ CallInv'
  BY ReturnTypes DEF Write
<1>. QED
  BY <1>2, <1>3 DEF Write, AtomicWrite, Unlock, TypeInv, TypeOK, PendingInv,
                    runtimeVars, closeVars

\* Close finds a session quiet.
LEMMA CloseQuietTypes ==
    ASSUME TypeInv, NEW p \in Procs, CloseQuiet(p)
    PROVE  TypeInv'
<1>. DEFINE c(s) == [call[p] EXCEPT !.at = s, !.pc = "closeRemove"]
<1>1. ASSUME NEW s \in Sessions
      PROVE  c(s) \in Call /\ CallOK(c(s))
  <2>1. call[p] \in Call /\ CallOK(call[p]) /\ call[p].pc = "closeWait"
    BY DEF TypeInv, TypeOK, CallInv, CloseQuiet, At
  <2>2. c(s) \in Call
    BY <2>1 DEF Call, Labels
  <2>3. CallOK(c(s))
    BY <2>1 DEF CallOK, Call, LockedLabels, SessionOps, CleanupLabels
  <2>. QED
    BY <2>2, <2>3
<1>2. PICK s \in pending : Becomes(p, c(s)) \/ UNCHANGED call
  BY DEF CloseQuiet
<1>3. call' \in [Procs -> Call] /\ CallInv'
  BY <1>1, <1>2, BecomesTypes DEF TypeInv, TypeOK, CallInv
<1>. QED
  BY <1>3 DEF CloseQuiet, TypeInv, TypeOK, PendingInv, runtimeVars, heapVars,
              diskVars

\* The sweep fails, ...
LEMMA SweepFailsTypes ==
    ASSUME TypeInv, NEW p \in Procs, SweepFails(p)
    PROVE  TypeInv'
<1>1. call' \in [Procs -> Call] /\ CallInv'
  BY ReturnTypes DEF SweepFails
<1>. QED
  BY <1>1 DEF SweepFails, RemoveAllFails, TypeInv, TypeOK, PendingInv,
              runtimeVars, heapVars, diskVars, closeVars

\* ... or ensureWorkspaceLocked, ...
LEMMA LockFailsTypes ==
    ASSUME TypeInv, NEW p \in Procs, LockFails(p)
    PROVE  TypeInv'
<1>1. call' \in [Procs -> Call] /\ CallInv'
  BY ReturnTypes DEF LockFails
<1>2. call[p].s \in Sessions
  BY DEF LockFails, TypeInv, CallInv, CallOK, At
<1>3. /\ owned' \in [States -> BOOLEAN]
      /\ workspaces' \in SUBSET Sessions
      /\ fresh' \in SUBSET workspaces'
  BY <1>2 DEF LockFails, TypeInv, TypeOK
<1>. QED
  BY <1>1, <1>3 DEF LockFails, TypeInv, TypeOK, PendingInv, runtimeVars,
                    closeVars

\* ... or CleanupSession's removal, ...
LEMMA PurgeFailsTypes ==
    ASSUME TypeInv, NEW p \in Procs, PurgeFails(p)
    PROVE  TypeInv'
<1>1. call' \in [Procs -> Call] /\ CallInv'
  BY ReturnTypes DEF PurgeFails
<1>. QED
  BY <1>1 DEF PurgeFails, RemoveAllFails, TypeInv, TypeOK, PendingInv,
              runtimeVars, heapVars, closeVars

\* ... or one of Close's.
LEMMA CloseRemoveFailsTypes ==
    ASSUME TypeInv, NEW p \in Procs, CloseRemoveFails(p)
    PROVE  TypeInv'
<1>1. CallOK([call[p] EXCEPT !.pc = "closeWait"])
  BY DEF TypeInv, TypeOK, CallInv, CloseRemoveFails, CallOK, Call, Labels,
         LockedLabels, SessionOps, CleanupLabels, At
<1>2. call' \in [Procs -> Call] /\ CallInv'
  BY <1>1, GotoTypes DEF CloseRemoveFails, Labels, LockedLabels
<1>. QED
  BY <1>2 DEF CloseRemoveFails, RemoveAllFails, TypeInv, TypeOK, PendingInv,
              runtimeVars, heapVars, closeVars

\* Every step keeps the types.
LEMMA NextTypes == TypeInv /\ [Next]_vars => TypeInv'
<1>. SUFFICES ASSUME TypeInv, [Next]_vars PROVE TypeInv'
  OBVIOUS
<1>1. ASSUME NEW p \in Procs, Step(p) PROVE TypeInv'
  BY <1>1, SessionTypes, GateTypes, ReadDirTypes, SweepEntryTypes,
     SweepDoneTypes, HashLookupTypes, HashActiveTypes, SweepRemoveTypes,
     LockTypes, ReadTypes, WriteTypes, EditReadTypes, EditWriteTypes,
     StartTypes, FinishTypes, MarkTypes, PollQuietTypes, PurgeTypes,
     ForgetTypes, CloseBeginTypes, CloseMarkTypes, CloseMarkedTypes,
     CloseQuietTypes, CloseRemoveTypes, CloseDoneTypes
     DEF Step
<1>2. ASSUME NEW s \in Sessions, Expire(s) PROVE TypeInv'
  BY <1>2 DEF Expire, TypeInv, TypeOK, CallInv, PendingInv, runtimeVars,
              heapVars, closeVars
<1>3. CASE IntervalPasses
  BY <1>3 DEF IntervalPasses, TypeInv, TypeOK, CallInv, PendingInv, heapVars,
              diskVars, closeVars
<1>4. CASE UNCHANGED vars
  BY <1>4 DEF vars, TypeInv, TypeOK, CallInv, PendingInv, runtimeVars,
              heapVars, diskVars, closeVars
<1>. QED
  BY <1>1, <1>2, <1>3, <1>4, BeginTypes, CommandExitTypes, PollCancelledTypes,
     CloseGiveUpTypes, SweepFailsTypes, LockFailsTypes, PurgeFailsTypes,
     CloseRemoveFailsTypes
     DEF Next, Event, Finished

\* The types, and what the locals of a call hold at each of its steps, are
\* invariants: no interleaving of calls leaves a goroutine with an object, a
\* session or a label that its operation cannot have.
THEOREM TypeCorrect == Spec => []TypeInv
<1>1. TypeInv /\ UNCHANGED vars => TypeInv'
  BY NextTypes
<1>. QED
  BY InitTypes, NextTypes, PTL DEF Spec

\* In particular the type invariant that TLC checks on the small instance.
THEOREM TypesHold == Spec => []TypeOK
<1>1. TypeInv => TypeOK
  BY DEF TypeInv
<1>. QED
  BY <1>1, TypeCorrect, PTL

----------------------------------------------------------------------------
(* Edits: again one lemma for each action *)

IInv == TypeInv /\ EditInv

\* The files of a step that writes none: kept or removed.
FilesKept ==
    \A s \in Sessions :
        (file'[s] = file[s] /\ acked'[s] = acked[s]) \/ acked'[s] = {}

\* Two goroutines inside one session hold one mutex: they are the same.
LEMMA Exclusive == IInv => SessionExclusive
<1>. SUFFICES ASSUME IInv, NEW p \in Procs, NEW q \in Procs,
                     call[p].pc \in LockedLabels, call[q].pc \in LockedLabels,
                     call[p].s = call[q].s
              PROVE  p = q
  BY DEF SessionExclusive
<1>1. call[p].st # NoState /\ call[q].st # NoState
  BY DEF IInv, TypeInv, CallInv, CallOK, LockedLabels, SessionOps, States,
         NoState
<1>2. call[p].st = call[q].st
  BY <1>1 DEF IInv, EditInv, MutexInv, MapInv
<1>. QED
  BY <1>2 DEF IInv, EditInv, MutexInv

\* The initial states.
LEMMA InitEdits == Init => EditInv
BY DEF Init, EditInv, MutexInv, MapInv, CopyInv, NoLostEdit, NoCall, At,
       LockedLabels, CleanupLabels, NoState

\* A step of p that leaves no session locked by it, no entry of the map and no
\* closing flag changed, and writes no file, keeps the invariant.
LEMMA FrameEdits ==
    ASSUME IInv, NEW p \in Procs, NEW c \in Call, Becomes(p, c),
           c.pc \notin LockedLabels,
           \/ c = NoCall
           \/ /\ c.op = call[p].op /\ c.s = call[p].s /\ c.st = call[p].st
              /\ c.pc \in CleanupLabels =>
                    call[p].pc \in CleanupLabels \ {"mark"},
           \A o \in States : mu'[o] = mu[o] \/ mu[o] = p,
           UNCHANGED <<closing, sessions>>,
           FilesKept
    PROVE  EditInv'
<1>1. /\ call \in [Procs -> Call] /\ CallInv
      /\ call' = [call EXCEPT ![p] = c]
  BY DEF IInv, TypeInv, TypeOK, Becomes
<1>2. \A q \in Procs : call'[q] = IF q = p THEN c ELSE call[q]
  BY <1>1
<1>3. \A q \in Procs : call[q].pc \in LockedLabels => call[q].st \in States
  BY <1>1 DEF CallInv, CallOK, LockedLabels, SessionOps
<1>4. MutexInv'
  BY <1>2, <1>3 DEF IInv, EditInv, MutexInv
<1>5. MapInv'
  BY <1>2 DEF IInv, EditInv, MapInv, NoCall, CleanupLabels
<1>6. CopyInv'
  <2>1. \A q \in Procs : At(q, "edit") => call[q].s \in Sessions
    BY <1>1 DEF CallInv, CallOK, At
  <2>. QED
    BY <1>2, <2>1 DEF IInv, EditInv, CopyInv, At, FilesKept, LockedLabels
<1>7. NoLostEdit'
  BY DEF IInv, EditInv, NoLostEdit, FilesKept
<1>. QED
  BY <1>4, <1>5, <1>6, <1>7 DEF EditInv

\* In particular a step that goes to another label, ...
LEMMA GotoEdits ==
    ASSUME IInv, NEW p \in Procs, NEW label \in Labels \ LockedLabels,
           label \in CleanupLabels => call[p].pc \in CleanupLabels \ {"mark"},
           Goto(p, label),
           \A o \in States : mu'[o] = mu[o] \/ mu[o] = p,
           UNCHANGED <<closing, sessions>>,
           FilesKept
    PROVE  EditInv'
<1>. DEFINE c == [call[p] EXCEPT !.pc = label]
<1>1. call[p] \in Call
  BY DEF IInv, TypeInv, TypeOK
<1>2. c \in Call /\ c.pc = label /\ c.op = call[p].op /\ c.s = call[p].s
                 /\ c.st = call[p].st
  BY <1>1 DEF Call
<1>3. Becomes(p, c)
  BY DEF Goto
<1>. HIDE DEF c
<1>. QED
  BY <1>2, <1>3, FrameEdits

\* ... or ends the call.
LEMMA ReturnEdits ==
    ASSUME IInv, NEW p \in Procs, Return(p),
           \A o \in States : mu'[o] = mu[o] \/ mu[o] = p,
           UNCHANGED <<closing, sessions>>,
           FilesKept
    PROVE  EditInv'
<1>1. NoCall \in Call
  BY ConstantsAssumption
     DEF Call, NoCall, Labels, AllOps, NoState, States
<1>2. NoCall.pc \notin LockedLabels
  BY DEF NoCall, LockedLabels
<1>. QED
  BY <1>1, <1>2, FrameEdits DEF Return

\* os.RemoveAll keeps or removes every file.
LEMMA RemoveAllKeeps ==
    ASSUME TypeOK, NEW s, RemoveAll(s)
    PROVE  FilesKept
BY DEF TypeOK, RemoveAll, FilesKept

\* ... even when it fails.
LEMMA RemoveAllFailsKeeps ==
    ASSUME TypeOK, NEW s, RemoveAllFails(s)
    PROVE  FilesKept
BY DEF TypeOK, RemoveAllFails, FilesKept

\* maybeCleanupExpired writes no file, ...
LEMMA GateEdits ==
    ASSUME IInv, NEW p \in Procs, Gate(p)
    PROVE  EditInv'
<1>1. FilesKept /\ UNCHANGED <<closing, sessions>>
  BY RemoveAllKeeps DEF Gate, FilesKept, IInv, TypeInv, runtimeVars, heapVars,
       diskVars, closeVars
<1>2. \A o \in States : mu'[o] = mu[o] \/ mu[o] = p
  BY DEF Gate, runtimeVars, heapVars, diskVars, closeVars
<1>. QED
  BY <1>1, <1>2, GotoEdits DEF Gate, Labels, LockedLabels, CleanupLabels, At

\* ... nor does the end of a sweep, ...
LEMMA SweepDoneEdits ==
    ASSUME IInv, NEW p \in Procs, SweepDone(p)
    PROVE  EditInv'
<1>1. FilesKept /\ UNCHANGED <<closing, sessions>>
  BY RemoveAllKeeps DEF SweepDone, FilesKept, IInv, TypeInv, runtimeVars,
       heapVars, diskVars, closeVars
<1>2. \A o \in States : mu'[o] = mu[o] \/ mu[o] = p
  BY DEF SweepDone, runtimeVars, heapVars, diskVars, closeVars
<1>. QED
  BY <1>1, <1>2, GotoEdits, ReturnEdits DEF SweepDone, Labels, LockedLabels,
       CleanupLabels, At

\* ... nor the look at the map, ...
LEMMA HashLookupEdits ==
    ASSUME IInv, NEW p \in Procs, HashLookup(p)
    PROVE  EditInv'
<1>1. FilesKept /\ UNCHANGED <<closing, sessions>>
  BY RemoveAllKeeps DEF HashLookup, FilesKept, IInv, TypeInv, runtimeVars,
       heapVars, diskVars, closeVars
<1>2. \A o \in States : mu'[o] = mu[o] \/ mu[o] = p
  BY DEF HashLookup, runtimeVars, heapVars, diskVars, closeVars
<1>. QED
  BY <1>1, <1>2, GotoEdits DEF HashLookup, Labels, LockedLabels, CleanupLabels,
       At

\* ... nor the exit of a process, ...
LEMMA CommandExitEdits ==
    ASSUME IInv, NEW p \in Procs, CommandExit(p)
    PROVE  EditInv'
<1>1. FilesKept /\ UNCHANGED <<closing, sessions>>
  BY RemoveAllKeeps DEF CommandExit, FilesKept, IInv, TypeInv, runtimeVars,
       heapVars, diskVars, closeVars
<1>2. \A o \in States : mu'[o] = mu[o] \/ mu[o] = p
  BY DEF CommandExit, runtimeVars, heapVars, diskVars, closeVars
<1>. QED
  BY <1>1, <1>2, GotoEdits DEF CommandExit, Labels, LockedLabels,
       CleanupLabels, At

\* ... nor the end of runCommand, ...
LEMMA FinishEdits ==
    ASSUME IInv, NEW p \in Procs, Finish(p)
    PROVE  EditInv'
<1>1. FilesKept /\ UNCHANGED <<closing, sessions>>
  BY RemoveAllKeeps DEF Finish, FilesKept, IInv, TypeInv, runtimeVars,
       heapVars, diskVars, closeVars, Touch
<1>2. \A o \in States : mu'[o] = mu[o] \/ mu[o] = p
  BY DEF Finish, runtimeVars, heapVars, diskVars, closeVars, Touch
<1>. QED
  BY <1>1, <1>2, ReturnEdits DEF Finish, Labels, LockedLabels, CleanupLabels,
       At

\* ... nor the polling of CleanupSession, ...
LEMMA PollQuietEdits ==
    ASSUME IInv, NEW p \in Procs, PollQuiet(p)
    PROVE  EditInv'
<1>1. FilesKept /\ UNCHANGED <<closing, sessions>>
  BY RemoveAllKeeps DEF PollQuiet, FilesKept, IInv, TypeInv, runtimeVars,
       heapVars, diskVars, closeVars
<1>2. \A o \in States : mu'[o] = mu[o] \/ mu[o] = p
  BY DEF PollQuiet, runtimeVars, heapVars, diskVars, closeVars
<1>. QED
  BY <1>1, <1>2, GotoEdits DEF PollQuiet, Labels, LockedLabels, CleanupLabels,
       At

\* ... nor its cancellation, ...
LEMMA PollCancelledEdits ==
    ASSUME IInv, NEW p \in Procs, PollCancelled(p)
    PROVE  EditInv'
<1>1. FilesKept /\ UNCHANGED <<closing, sessions>>
  BY RemoveAllKeeps DEF PollCancelled, FilesKept, IInv, TypeInv, runtimeVars,
       heapVars, diskVars, closeVars
<1>2. \A o \in States : mu'[o] = mu[o] \/ mu[o] = p
  BY DEF PollCancelled, runtimeVars, heapVars, diskVars, closeVars
<1>. QED
  BY <1>1, <1>2, ReturnEdits DEF PollCancelled, Labels, LockedLabels,
       CleanupLabels, At

\* ... which removes the files later, ...
LEMMA PurgeEdits ==
    ASSUME IInv, NEW p \in Procs, Purge(p)
    PROVE  EditInv'
<1>1. FilesKept /\ UNCHANGED <<closing, sessions>>
  BY RemoveAllKeeps DEF Purge, FilesKept, IInv, TypeInv, runtimeVars, heapVars,
       diskVars, closeVars
<1>2. \A o \in States : mu'[o] = mu[o] \/ mu[o] = p
  BY DEF Purge, runtimeVars, heapVars, diskVars, closeVars
<1>. QED
  BY <1>1, <1>2, GotoEdits DEF Purge, Labels, LockedLabels, CleanupLabels, At

\* ... nor the first lines of Close, ...
LEMMA CloseBeginEdits ==
    ASSUME IInv, NEW p \in Procs, CloseBegin(p)
    PROVE  EditInv'
<1>1. FilesKept /\ UNCHANGED <<closing, sessions>>
  BY RemoveAllKeeps DEF CloseBegin, FilesKept, IInv, TypeInv, runtimeVars,
       heapVars, diskVars, closeVars
<1>2. \A o \in States : mu'[o] = mu[o] \/ mu[o] = p
  BY DEF CloseBegin, runtimeVars, heapVars, diskVars, closeVars
<1>. QED
  BY <1>1, <1>2, GotoEdits, ReturnEdits DEF CloseBegin, Labels, LockedLabels,
       CleanupLabels, At

\* ... nor the end of its first loop, ...
LEMMA CloseMarkedEdits ==
    ASSUME IInv, NEW p \in Procs, CloseMarked(p)
    PROVE  EditInv'
<1>1. FilesKept /\ UNCHANGED <<closing, sessions>>
  BY RemoveAllKeeps DEF CloseMarked, FilesKept, IInv, TypeInv, runtimeVars,
       heapVars, diskVars, closeVars
<1>2. \A o \in States : mu'[o] = mu[o] \/ mu[o] = p
  BY DEF CloseMarked, runtimeVars, heapVars, diskVars, closeVars
<1>. QED
  BY <1>1, <1>2, GotoEdits DEF CloseMarked, Labels, LockedLabels,
       CleanupLabels, At

\* ... nor the second, which removes files.
LEMMA CloseRemoveEdits ==
    ASSUME IInv, NEW p \in Procs, CloseRemove(p)
    PROVE  EditInv'
<1>1. FilesKept /\ UNCHANGED <<closing, sessions>>
  BY RemoveAllKeeps DEF CloseRemove, FilesKept, IInv, TypeInv, runtimeVars,
       heapVars, diskVars, closeVars
<1>2. \A o \in States : mu'[o] = mu[o] \/ mu[o] = p
  BY DEF CloseRemove, runtimeVars, heapVars, diskVars, closeVars
<1>. QED
  BY <1>1, <1>2, GotoEdits DEF CloseRemove, Labels, LockedLabels,
       CleanupLabels, At

\* Close returns.
LEMMA CloseDoneEdits ==
    ASSUME IInv, NEW p \in Procs, CloseDone(p)
    PROVE  EditInv'
<1>1. FilesKept /\ UNCHANGED <<closing, sessions>>
  BY RemoveAllKeeps DEF CloseDone, FilesKept, IInv, TypeInv, runtimeVars,
       heapVars, diskVars, closeVars
<1>2. \A o \in States : mu'[o] = mu[o] \/ mu[o] = p
  BY DEF CloseDone, runtimeVars, heapVars, diskVars, closeVars
<1>. QED
  BY <1>1, <1>2, ReturnEdits DEF CloseDone, Labels, LockedLabels,
       CleanupLabels, At

\* A goroutine inside a session gives back its own mutex.
LEMMA UnlockReleases ==
    ASSUME IInv, NEW p \in Procs, call[p].pc \in LockedLabels, Unlock(p)
    PROVE  \A o \in States : mu'[o] = mu[o] \/ mu[o] = p
<1>1. call[p].st \in States
  BY DEF IInv, TypeInv, CallInv, CallOK, LockedLabels, SessionOps
<1>. QED
  BY <1>1 DEF IInv, EditInv, MutexInv, TypeInv, TypeOK, Unlock

\* A file tool that changes nothing gives its mutex back, ...
LEMMA ReadEdits ==
    ASSUME IInv, NEW p \in Procs, Read(p)
    PROVE  EditInv'
<1>1. FilesKept /\ UNCHANGED <<closing, sessions>>
  BY DEF Read, FilesKept, runtimeVars, diskVars
<1>2. \A o \in States : mu'[o] = mu[o] \/ mu[o] = p
  BY UnlockReleases DEF Read, At, LockedLabels
<1>. QED
  BY <1>1, <1>2, ReturnEdits DEF Read, Labels, LockedLabels, CleanupLabels, At

\* ... as a command does once it is started, or was not.
LEMMA StartEdits ==
    ASSUME IInv, NEW p \in Procs, Start(p)
    PROVE  EditInv'
<1>1. FilesKept /\ UNCHANGED <<closing, sessions>>
  BY DEF Start, FilesKept, runtimeVars, diskVars
<1>2. \A o \in States : mu'[o] = mu[o] \/ mu[o] = p
  BY UnlockReleases DEF Start, At, LockedLabels
<1>. QED
  BY <1>1, <1>2, GotoEdits DEF Start, Labels, LockedLabels, CleanupLabels, At

\* The sweep lists the root, ...
LEMMA ReadDirEdits ==
    ASSUME IInv, NEW p \in Procs, ReadDir(p)
    PROVE  EditInv'
<1>. DEFINE c == [call[p] EXCEPT
          !.todo = workspaces,
          !.seen = {call[q].id : q \in {r \in Procs : At(r, "running")}},
          !.pc = "sweep"]
<1>1. call[p] \in Call /\ CallOK(call[p]) /\ call' \in [Procs -> Call]
  BY ReadDirTypes DEF IInv, TypeInv, TypeOK, CallInv
<1>2. Becomes(p, c)
  BY DEF ReadDir
<1>3. c \in Call
  BY <1>1, <1>2 DEF Becomes
<1>4. /\ c.op = call[p].op /\ c.s = call[p].s /\ c.st = call[p].st
      /\ c.pc = "sweep"
  BY <1>1 DEF Call
<1>5. /\ FilesKept /\ UNCHANGED <<closing, sessions>>
      /\ \A o \in States : mu'[o] = mu[o]
  BY RemoveAllKeeps DEF ReadDir, FilesKept, IInv, TypeInv, runtimeVars,
       heapVars, diskVars, closeVars
<1>. HIDE DEF c
<1>. QED
  BY <1>2, <1>3, <1>4, <1>5, FrameEdits DEF LockedLabels, CleanupLabels

\* ... removes files and leaves none of them half written, ...
LEMMA SweepRemoveEdits ==
    ASSUME IInv, NEW p \in Procs, SweepRemove(p)
    PROVE  EditInv'
<1>. DEFINE c == [call[p] EXCEPT
          !.todo = @ \ {call[p].at}, !.pc = "sweep"]
<1>1. call[p] \in Call /\ CallOK(call[p]) /\ call' \in [Procs -> Call]
  BY SweepRemoveTypes DEF IInv, TypeInv, TypeOK, CallInv
<1>2. Becomes(p, c)
  BY DEF SweepRemove
<1>3. c \in Call
  BY <1>1, <1>2 DEF Becomes
<1>4. /\ c.op = call[p].op /\ c.s = call[p].s /\ c.st = call[p].st
      /\ c.pc = "sweep"
  BY <1>1 DEF Call
<1>5. /\ FilesKept /\ UNCHANGED <<closing, sessions>>
      /\ \A o \in States : mu'[o] = mu[o]
  BY RemoveAllKeeps DEF SweepRemove, FilesKept, IInv, TypeInv, runtimeVars,
       heapVars, diskVars, closeVars
<1>. HIDE DEF c
<1>. QED
  BY <1>2, <1>3, <1>4, <1>5, FrameEdits DEF LockedLabels, CleanupLabels

\* ... looks at an entry ...
LEMMA SweepEntryEdits ==
    ASSUME IInv, NEW p \in Procs, SweepEntry(p)
    PROVE  EditInv'
<1>. DEFINE c(s) == [call[p] EXCEPT !.at = s, !.pc = "hash"]
            d(s) == [call[p] EXCEPT !.todo = @ \ {s}]
<1>1. /\ call[p] \in Call /\ call[p].pc = "sweep"
      /\ call[p].todo \subseteq Sessions
  BY DEF IInv, TypeInv, TypeOK, Call, SweepEntry, At
<1>2. ASSUME NEW s \in Sessions
      PROVE  /\ c(s) \in Call /\ d(s) \in Call
             /\ c(s).op = call[p].op /\ c(s).s = call[p].s
             /\ c(s).st = call[p].st /\ c(s).pc = "hash"
             /\ d(s).op = call[p].op /\ d(s).s = call[p].s
             /\ d(s).st = call[p].st /\ d(s).pc = "sweep"
  BY <1>1 DEF Call, Labels
<1>3. PICK s \in Sessions : Becomes(p, c(s)) \/ Becomes(p, d(s))
  BY <1>1 DEF SweepEntry
<1>4. /\ FilesKept /\ UNCHANGED <<closing, sessions>>
      /\ \A o \in States : mu'[o] = mu[o]
  BY DEF SweepEntry, FilesKept, runtimeVars, heapVars, diskVars
<1>. HIDE DEF c, d
<1>. QED
  BY <1>2, <1>3, <1>4, FrameEdits DEF LockedLabels, CleanupLabels

\* ... and gives up a workspace that is in use.
LEMMA HashActiveEdits ==
    ASSUME IInv, NEW p \in Procs, HashActive(p)
    PROVE  EditInv'
<1>. DEFINE c == [call[p] EXCEPT !.todo = @ \ {call[p].at}, !.pc = "sweep"]
<1>1. call[p] \in Call
  BY DEF IInv, TypeInv, TypeOK
<1>2. /\ c \in Call /\ c.op = call[p].op /\ c.s = call[p].s
      /\ c.st = call[p].st /\ c.pc = "sweep"
  BY <1>1 DEF Call, Labels
<1>3. /\ FilesKept /\ UNCHANGED <<closing, sessions>>
      /\ \A o \in States : mu'[o] = mu[o]
  BY DEF HashActive, FilesKept, heapVars, diskVars
<1>4. Goto(p, "remove") \/ Becomes(p, c)
  BY DEF HashActive
<1>. HIDE DEF c
<1>. QED
  BY <1>2, <1>3, <1>4, FrameEdits, GotoEdits
     DEF Labels, LockedLabels, CleanupLabels

\* Close finds a session quiet.
LEMMA CloseQuietEdits ==
    ASSUME IInv, NEW p \in Procs, CloseQuiet(p)
    PROVE  EditInv'
<1>. DEFINE c(s) == [call[p] EXCEPT !.at = s, !.pc = "closeRemove"]
<1>1. /\ call[p] \in Call /\ pending \subseteq Sessions
  BY DEF IInv, TypeInv, TypeOK
<1>2. ASSUME NEW s \in Sessions
      PROVE  /\ c(s) \in Call
             /\ c(s).op = call[p].op /\ c(s).s = call[p].s
             /\ c(s).st = call[p].st /\ c(s).pc = "closeRemove"
  BY <1>1 DEF Call, Labels
<1>3. PICK s \in Sessions : Becomes(p, c(s)) \/ UNCHANGED call
  BY <1>1 DEF CloseQuiet
<1>4. /\ FilesKept /\ UNCHANGED <<closing, sessions, mu, file, acked>>
      /\ \A o \in States : mu'[o] = mu[o]
  BY DEF CloseQuiet, FilesKept, runtimeVars, heapVars, diskVars
<1>. HIDE DEF c
<1>5. CASE Becomes(p, c(s))
  BY <1>2, <1>4, <1>5, FrameEdits DEF LockedLabels, CleanupLabels
<1>6. CASE UNCHANGED call
  BY <1>4, <1>6 DEF IInv, EditInv, MutexInv, MapInv, CopyInv, NoLostEdit, At
<1>. QED
  BY <1>3, <1>5, <1>6

\* editFile reads the file: it knows the changes reported by then.
LEMMA EditReadEdits ==
    ASSUME IInv, NEW p \in Procs, EditRead(p)
    PROVE  EditInv'
<1>. DEFINE c == [call[p] EXCEPT !.copy = file[call[p].s], !.pc = "edit"]
<1>1. /\ call \in [Procs -> Call] /\ call[p].pc = "file"
      /\ call' = [call EXCEPT ![p] = c]
      /\ UNCHANGED <<mu, closing, sessions, file, acked>>
  BY DEF IInv, TypeInv, TypeOK, EditRead, Becomes, At, runtimeVars, heapVars,
         diskVars
<1>2. /\ c.op = call[p].op /\ c.s = call[p].s /\ c.st = call[p].st
      /\ c.pc = "edit" /\ c.copy = file[call[p].s]
  BY <1>1 DEF Call
<1>. HIDE DEF c
<1>3. \A q \in Procs : call'[q] = IF q = p THEN c ELSE call[q]
  BY <1>1
<1>4. call[p].s \in Sessions
  BY <1>1 DEF IInv, TypeInv, CallInv, CallOK
<1>5. MutexInv'
  BY <1>1, <1>2, <1>3 DEF IInv, EditInv, MutexInv, LockedLabels
<1>6. MapInv'
  BY <1>1, <1>2, <1>3 DEF IInv, EditInv, MapInv, CleanupLabels
<1>7. CopyInv'
  BY <1>1, <1>2, <1>3, <1>4 DEF IInv, EditInv, CopyInv, NoLostEdit, At
<1>8. NoLostEdit'
  BY <1>1 DEF IInv, EditInv, NoLostEdit
<1>. QED
  BY <1>5, <1>6, <1>7, <1>8 DEF EditInv

\* atomicWrite inside a session: the file holds what is reported of it, and no
\* other goroutine is between its read and its write in that session.
LEMMA WriteBackEdits ==
    ASSUME IInv, NEW p \in Procs, call[p].pc \in LockedLabels,
           NEW content \in SUBSET (1..MaxCalls),
           NEW done \in SUBSET (1..MaxCalls), done \subseteq content,
           AtomicWrite(call[p].s, content, done), Unlock(p), Return(p),
           UNCHANGED <<closing, sessions>>
    PROVE  EditInv'
<1>1. /\ call \in [Procs -> Call]
      /\ call' = [call EXCEPT ![p] = NoCall]
      /\ call[p].s \in Sessions /\ call[p].st \in States
  BY DEF IInv, TypeInv, TypeOK, CallInv, CallOK, Return, Becomes,
         LockedLabels, SessionOps
<1>2. \A q \in Procs : call'[q] = IF q = p THEN NoCall ELSE call[q]
  BY <1>1
<1>3. \A q \in Procs :
         (q # p /\ call[q].pc \in LockedLabels) =>
             /\ call[q].st \in States /\ call[q].s \in Sessions
             /\ call[q].s # call[p].s
  <2>1. SessionExclusive
    BY Exclusive
  <2>. QED
    BY <2>1 DEF SessionExclusive, IInv, TypeInv, CallInv, CallOK,
                LockedLabels, SessionOps
<1>4. MutexInv'
  <2>1. \A q \in Procs :
           (q # p /\ call[q].pc \in LockedLabels) => mu'[call[q].st] = q
    BY <1>1, <1>3 DEF IInv, EditInv, MutexInv, TypeInv, TypeOK, Unlock
  <2>. QED
    BY <1>2, <2>1 DEF IInv, EditInv, MutexInv, NoCall, LockedLabels
<1>5. MapInv'
  BY <1>2 DEF IInv, EditInv, MapInv, NoCall, CleanupLabels
<1>6. CopyInv'
  <2>1. \A q \in Procs :
           (q # p /\ At(q, "edit")) => acked'[call[q].s] = acked[call[q].s]
    BY <1>1, <1>3 DEF AtomicWrite, IInv, TypeInv, TypeOK, At, LockedLabels
  <2>. QED
    BY <1>2, <2>1 DEF IInv, EditInv, CopyInv, NoCall, At
<1>7. NoLostEdit'
  <2>1. CASE UNCHANGED <<file, acked>>
    BY <2>1 DEF IInv, EditInv, NoLostEdit
  <2>2. CASE /\ file' = [file EXCEPT ![call[p].s] = content]
             /\ acked' = [acked EXCEPT ![call[p].s] = done]
    BY <1>1, <2>2 DEF IInv, EditInv, TypeInv, TypeOK, NoLostEdit
  <2>. QED
    BY <2>1, <2>2 DEF AtomicWrite
<1>. QED
  BY <1>4, <1>5, <1>6, <1>7 DEF EditInv

\* writeFile replaces the file, ...
LEMMA WriteEdits ==
    ASSUME IInv, NEW p \in Procs, Write(p)
    PROVE  EditInv'
<1>1. call[p].id \in 1..MaxCalls /\ call[p].pc \in LockedLabels
  BY ConstantsAssumption
     DEF IInv, TypeInv, TypeOK, CallInv, CallOK, Call, Write, At, LockedLabels
<1>2. {call[p].id} \in SUBSET (1..MaxCalls)
  BY <1>1
<1>. QED
  BY <1>1, <1>2, WriteBackEdits DEF Write, runtimeVars

\* ... and editFile writes back a file that still has all that is reported.
LEMMA EditWriteEdits ==
    ASSUME IInv, NEW p \in Procs, EditWrite(p)
    PROVE  EditInv'
<1>. DEFINE content == call[p].copy \cup {call[p].id}
            done    == acked[call[p].s] \cup {call[p].id}
<1>1. /\ call[p].id \in 1..MaxCalls /\ call[p].s \in Sessions
      /\ call[p] \in Call /\ call[p].pc \in LockedLabels
  BY ConstantsAssumption
     DEF IInv, TypeInv, TypeOK, CallInv, CallOK, Call, EditWrite, At,
         LockedLabels
<1>2. /\ content \in SUBSET (1..MaxCalls) /\ done \in SUBSET (1..MaxCalls)
  BY <1>1 DEF IInv, TypeInv, TypeOK, Call
<1>3. done \subseteq content
  BY DEF IInv, EditInv, CopyInv, EditWrite
<1>. QED
  BY <1>1, <1>2, <1>3, WriteBackEdits DEF EditWrite, runtimeVars

\* Shut takes the mutex of an object: nobody is inside the session.
LEMMA ShutEdits ==
    ASSUME IInv, NEW o \in States, Shut(o)
    PROVE  /\ \A q \in Procs : call[q].pc \in LockedLabels =>
                 mu'[call[q].st] = q /\ ~closing'[call[q].st]
           /\ \A i \in States : closing[i] => closing'[i]
           /\ closing'[o]
<1>1. \A q \in Procs : call[q].pc \in LockedLabels => call[q].st # o
  BY ConstantsAssumption DEF IInv, EditInv, MutexInv, Shut, Free
<1>2. \A q \in Procs : call[q].pc \in LockedLabels => call[q].st \in States
  BY DEF IInv, TypeInv, CallInv, CallOK, LockedLabels, SessionOps
<1>. QED
  BY <1>1, <1>2 DEF IInv, EditInv, MutexInv, TypeInv, TypeOK, Shut

\* CleanupSession marks the object, ...
LEMMA MarkEdits ==
    ASSUME IInv, NEW p \in Procs, Mark(p)
    PROVE  EditInv'
<1>. DEFINE c == [call[p] EXCEPT !.pc = "poll"]
<1>1. /\ call \in [Procs -> Call] /\ call[p].pc = "mark"
      /\ call' = [call EXCEPT ![p] = c] /\ Shut(call[p].st)
      /\ UNCHANGED <<sessions, file, acked>>
  BY DEF IInv, TypeInv, TypeOK, Mark, Goto, Becomes, At, runtimeVars,
         diskVars
<1>2. /\ c.op = call[p].op /\ c.s = call[p].s /\ c.st = call[p].st
      /\ c.pc = "poll"
  BY <1>1 DEF Call
<1>. HIDE DEF c
<1>3. \A q \in Procs : call'[q] = IF q = p THEN c ELSE call[q]
  BY <1>1
<1>4. call[p].st \in States
  BY <1>1 DEF IInv, TypeInv, CallInv, CallOK, SessionOps, CleanupLabels
<1>5. /\ \A q \in Procs : call[q].pc \in LockedLabels =>
            mu'[call[q].st] = q /\ ~closing'[call[q].st]
      /\ \A i \in States : closing[i] => closing'[i]
      /\ closing'[call[p].st]
  BY <1>1, <1>4, ShutEdits
<1>6. \A q \in Procs : call[q].st # NoState => call[q].st \in States
  BY <1>1 DEF Call
<1>7. MutexInv'
  BY <1>2, <1>3, <1>5 DEF MutexInv, LockedLabels
<1>8. MapInv'
  <2>1. \A q \in Procs :
           call'[q].pc \in CleanupLabels \ {"mark"} => closing'[call'[q].st]
    <3>1. \A q \in Procs :
             call[q].pc \in CleanupLabels => call[q].st \in States
      BY DEF IInv, TypeInv, CallInv, CallOK, SessionOps, CleanupLabels
    <3>. QED
      BY <1>2, <1>3, <1>5, <3>1 DEF IInv, EditInv, MapInv
  <2>. QED
    BY <1>1, <1>2, <1>3, <1>5, <1>6, <2>1
       DEF IInv, EditInv, MapInv, CleanupLabels
<1>9. CopyInv' /\ NoLostEdit'
  BY <1>1, <1>2, <1>3 DEF IInv, EditInv, CopyInv, NoLostEdit, At
<1>. QED
  BY <1>7, <1>8, <1>9 DEF EditInv

\* ... as Close does with every object of its copy of the map.
LEMMA CloseMarkEdits ==
    ASSUME IInv, NEW p \in Procs, CloseMark(p)
    PROVE  EditInv'
<1>1. PICK o \in States : Shut(o)
  BY DEF CloseMark, IInv, TypeInv, TypeOK, PendingInv
<1>2. UNCHANGED <<sessions, file, acked, call>>
  BY DEF CloseMark, runtimeVars, diskVars
<1>3. MutexInv'
  BY <1>1, <1>2, ShutEdits DEF MutexInv
<1>4. MapInv'
  <2>1. /\ \A q \in Procs : call[q].st # NoState => call[q].st \in States
        /\ \A q \in Procs :
              call[q].pc \in CleanupLabels => call[q].st \in States
    BY DEF IInv, TypeInv, TypeOK, Call, CallInv, CallOK, SessionOps,
           CleanupLabels
  <2>. QED
    BY <1>1, <1>2, <2>1, ShutEdits DEF IInv, EditInv, MapInv
<1>5. CopyInv' /\ NoLostEdit'
  BY <1>2 DEF IInv, EditInv, CopyInv, NoLostEdit, At
<1>. QED
  BY <1>3, <1>4, <1>5 DEF EditInv

\* Lock gives p a mutex that nobody holds, of an object that is not closing.
LEMMA LockEdits ==
    ASSUME IInv, NEW p \in Procs, Lock(p)
    PROVE  EditInv'
<1>1. /\ UNCHANGED <<closing, sessions, file, acked>> /\ FilesKept
      /\ call[p].op \in {"file", "bash"} /\ call[p].st \in States
  BY DEF Lock, FilesKept, runtimeVars, IInv, TypeInv, CallInv, CallOK, At,
         LockedLabels, SessionOps
<1>2. CASE closing[call[p].st]
  BY <1>1, <1>2, ReturnEdits DEF Lock
<1>3. CASE ~closing[call[p].st]
  <2>. DEFINE c == [call[p] EXCEPT !.pc = call[p].op]
  <2>1. /\ call \in [Procs -> Call]
        /\ call' = [call EXCEPT ![p] = c]
        /\ mu' = [mu EXCEPT ![call[p].st] = p]
        /\ mu[call[p].st] = NoProc
    BY <1>3 DEF Lock, Free, Goto, Becomes, IInv, TypeInv, TypeOK
  <2>2. /\ c.op = call[p].op /\ c.s = call[p].s /\ c.st = call[p].st
        /\ c.pc \in {"file", "bash"}
    BY <1>1, <2>1 DEF Call
  <2>. HIDE DEF c
  <2>3. \A q \in Procs : call'[q] = IF q = p THEN c ELSE call[q]
    BY <2>1
  <2>4. \A q \in Procs : call[q].pc \in LockedLabels =>
           call[q].st \in States /\ call[q].st # call[p].st
    BY <2>1, ConstantsAssumption
       DEF IInv, EditInv, MutexInv, TypeInv, CallInv, CallOK, LockedLabels,
           SessionOps
  <2>5. MutexInv'
    BY <1>1, <1>3, <2>1, <2>2, <2>3, <2>4
       DEF IInv, EditInv, MutexInv, TypeInv, TypeOK
  <2>6. MapInv'
    BY <1>1, <2>2, <2>3 DEF IInv, EditInv, MapInv, CleanupLabels
  <2>7. CopyInv' /\ NoLostEdit'
    BY <1>1, <2>2, <2>3 DEF IInv, EditInv, CopyInv, NoLostEdit, At
  <2>. QED
    BY <2>5, <2>6, <2>7 DEF EditInv
<1>. QED
  BY <1>2, <1>3

\* session() gives p the object of the map, and replaces no entry.
LEMMA SessionEdits ==
    ASSUME IInv, NEW p \in Procs, Session(p)
    PROVE  EditInv'
<1>1. CASE closed
  BY <1>1, ReturnEdits DEF Session, FilesKept, diskVars
<1>2. CASE ~closed
  <2>. DEFINE o == IF sessions[call[p].s] = NoState
                      THEN call[p].id ELSE sessions[call[p].s]
              c == [call[p] EXCEPT
                      !.st = o,
                      !.pc = IF call[p].op = "cleanup" THEN "mark"
                                                       ELSE "gate"]
  <2>1. /\ call \in [Procs -> Call] /\ call[p].s \in Sessions
        /\ call' = [call EXCEPT ![p] = c]
        /\ sessions' = [sessions EXCEPT ![call[p].s] = o]
        /\ sessions[call[p].s] = NoState \/ o = sessions[call[p].s]
        /\ UNCHANGED <<mu, closing, file, acked>>
    BY <1>2 DEF Session, Becomes, IInv, TypeInv, TypeOK, CallInv, CallOK, At,
                diskVars
  <2>. HIDE DEF o
  <2>2. /\ c.op = call[p].op /\ c.s = call[p].s /\ c.st = o
        /\ c.pc = "mark" \/ c.pc = "gate"
    BY <2>1 DEF Call
  <2>. HIDE DEF c
  <2>3. \A q \in Procs : call'[q] = IF q = p THEN c ELSE call[q]
    BY <2>1
  <2>4. \A s \in Sessions :
           sessions'[s] = IF s = call[p].s THEN o ELSE sessions[s]
    BY <2>1 DEF IInv, TypeInv, TypeOK
  <2>5. \A q \in Procs : /\ call[q].st # NoState => call[q].s \in Sessions
                         /\ call[q].pc \in CleanupLabels =>
                               call[q].st \in States /\ call[q].s \in Sessions
    BY DEF IInv, TypeInv, CallInv, CallOK, NoCall, SessionOps, CleanupLabels
  <2>6. MutexInv'
    BY <2>1, <2>2, <2>3 DEF IInv, EditInv, MutexInv, LockedLabels
  <2>7. MapInv'
    <3>1. \A q \in Procs :
             (call'[q].st # NoState /\ ~closing'[call'[q].st]) =>
                 sessions'[call'[q].s] = call'[q].st
      BY <2>1, <2>2, <2>3, <2>4, <2>5 DEF IInv, EditInv, MapInv
    <3>2. \A q \in Procs : call'[q].pc \in CleanupLabels =>
             sessions'[call'[q].s] = call'[q].st
      BY <2>1, <2>2, <2>3, <2>4, <2>5
         DEF IInv, EditInv, MapInv, States, NoState
    <3>. QED
      BY <2>1, <2>2, <2>3, <3>1, <3>2
         DEF IInv, EditInv, MapInv, CleanupLabels
  <2>8. CopyInv' /\ NoLostEdit'
    BY <2>1, <2>2, <2>3 DEF IInv, EditInv, CopyInv, NoLostEdit, At
  <2>. QED
    BY <2>6, <2>7, <2>8 DEF EditInv
<1>. QED
  BY <1>1, <1>2

\* CleanupSession deletes the entry of an object it has marked: no other call
\* of the session works on an object that is not closing.
LEMMA ForgetEdits ==
    ASSUME IInv, NEW p \in Procs, Forget(p)
    PROVE  EditInv'
<1>1. /\ call \in [Procs -> Call] /\ call[p].pc = "forget"
      /\ call[p].op = "cleanup" /\ call[p].s \in Sessions
      /\ call' = [call EXCEPT ![p] = NoCall]
      /\ sessions' = [sessions EXCEPT ![call[p].s] = NoState]
      /\ UNCHANGED <<mu, closing, file, acked>>
  BY DEF IInv, TypeInv, TypeOK, CallInv, CallOK, Forget, Return, Becomes, At,
         CleanupLabels, heapVars, diskVars
<1>2. \A q \in Procs : call'[q] = IF q = p THEN NoCall ELSE call[q]
  BY <1>1
<1>3. \A q \in Procs :
         /\ call[q].st # NoState => call[q].s \in Sessions
         /\ call[q].pc \in CleanupLabels =>
               call[q].op = "cleanup" /\ call[q].s \in Sessions
  BY DEF IInv, TypeInv, CallInv, CallOK, NoCall
<1>4. closing[call[p].st] /\ sessions[call[p].s] = call[p].st
  BY <1>1 DEF IInv, EditInv, MapInv, CleanupLabels
<1>5. MutexInv'
  BY <1>1, <1>2 DEF IInv, EditInv, MutexInv, NoCall, LockedLabels
<1>6. MapInv'
  <2>1. \A q \in Procs :
           (call'[q].st # NoState /\ ~closing'[call'[q].st]) =>
               sessions'[call'[q].s] = call'[q].st
    BY <1>1, <1>2, <1>3, <1>4 DEF IInv, EditInv, MapInv, NoCall, TypeInv,
                                  TypeOK
  <2>2. \A q \in Procs : call'[q].pc \in CleanupLabels =>
           sessions'[call'[q].s] = call'[q].st
    BY <1>1, <1>2, <1>3 DEF IInv, EditInv, MapInv, NoCall, CleanupLabels,
                            TypeInv, TypeOK
  <2>. QED
    BY <1>1, <1>2, <2>1, <2>2
       DEF IInv, EditInv, MapInv, NoCall, CleanupLabels
<1>7. CopyInv' /\ NoLostEdit'
  BY <1>1, <1>2 DEF IInv, EditInv, CopyInv, NoLostEdit, NoCall, At
<1>. QED
  BY <1>5, <1>6, <1>7 DEF EditInv

\* A call begins, and a CleanupSession only if there is none of its session.
LEMMA BeginEdits ==
    ASSUME SerializedCleanup, IInv, NEW p \in Procs, Begin(p)
    PROVE  EditInv'
<1>. DEFINE c(o, s) == [call[p] EXCEPT
                !.op = o, !.id = calls + 1, !.s = s,
                !.pc = CASE o = "expire" -> "readdir"
                         [] o = "close"  -> "close"
                         [] OTHER        -> "session"]
<1>1. /\ call \in [Procs -> Call] /\ call[p] = NoCall
      /\ UNCHANGED <<mu, closing, sessions, file, acked>>
  BY DEF IInv, TypeInv, TypeOK, CallInv, CallOK, Begin, At, runtimeVars,
         heapVars, diskVars
<1>2. PICK o \in Ops, s \in Sessions :
         /\ o = "cleanup" => ~BeingCleaned(s)
         /\ call' = [call EXCEPT ![p] = c(o, s)]
  BY DEF Begin, Becomes
<1>3. /\ c(o, s).op = o /\ c(o, s).s = s /\ c(o, s).st = NoState
      /\ c(o, s).pc \in {"readdir", "close", "session"}
  BY <1>1 DEF NoCall
<1>. HIDE DEF c
<1>4. \A q \in Procs : call'[q] = IF q = p THEN c(o, s) ELSE call[q]
  BY <1>1, <1>2
<1>5. MutexInv'
  BY <1>1, <1>3, <1>4 DEF IInv, EditInv, MutexInv, LockedLabels
<1>6. MapInv'
  BY <1>1, <1>2, <1>3, <1>4
     DEF IInv, EditInv, MapInv, CleanupLabels, BeingCleaned
<1>7. CopyInv' /\ NoLostEdit'
  BY <1>1, <1>3, <1>4 DEF IInv, EditInv, CopyInv, NoLostEdit, At
<1>. QED
  BY <1>5, <1>6, <1>7 DEF EditInv

\* A sweep that fails loses no more than the files it removes, ...
LEMMA SweepFailsEdits ==
    ASSUME IInv, NEW p \in Procs, SweepFails(p)
    PROVE  EditInv'
<1>1. /\ FilesKept /\ UNCHANGED <<closing, sessions>>
      /\ \A o \in States : mu'[o] = mu[o]
  BY RemoveAllFailsKeeps DEF SweepFails, FilesKept, IInv, TypeInv, runtimeVars, heapVars,
         diskVars
<1>. QED
  BY <1>1, ReturnEdits DEF SweepFails, Labels, LockedLabels, CleanupLabels

\* ... a workspace that cannot be prepared loses none, ...
LEMMA LockFailsEdits ==
    ASSUME IInv, NEW p \in Procs, LockFails(p)
    PROVE  EditInv'
<1>1. /\ FilesKept /\ UNCHANGED <<closing, sessions>>
      /\ \A o \in States : mu'[o] = mu[o]
  BY DEF LockFails, FilesKept, IInv, TypeInv, runtimeVars, heapVars,
         diskVars
<1>. QED
  BY <1>1, ReturnEdits DEF LockFails, Labels, LockedLabels, CleanupLabels

\* ... and failed removals of CleanupSession ...
LEMMA PurgeFailsEdits ==
    ASSUME IInv, NEW p \in Procs, PurgeFails(p)
    PROVE  EditInv'
<1>1. /\ FilesKept /\ UNCHANGED <<closing, sessions>>
      /\ \A o \in States : mu'[o] = mu[o]
  BY RemoveAllFailsKeeps DEF PurgeFails, FilesKept, IInv, TypeInv, runtimeVars, heapVars,
         diskVars
<1>. QED
  BY <1>1, ReturnEdits DEF PurgeFails, Labels, LockedLabels, CleanupLabels

\* ... or Close at most their own.
LEMMA CloseRemoveFailsEdits ==
    ASSUME IInv, NEW p \in Procs, CloseRemoveFails(p)
    PROVE  EditInv'
<1>1. /\ FilesKept /\ UNCHANGED <<closing, sessions>>
      /\ \A o \in States : mu'[o] = mu[o]
  BY RemoveAllFailsKeeps DEF CloseRemoveFails, FilesKept, IInv, TypeInv, runtimeVars, heapVars,
         diskVars
<1>. QED
  BY <1>1, GotoEdits DEF CloseRemoveFails, Labels, LockedLabels, CleanupLabels

\* A step that changes none of the variables it mentions keeps the invariant.
LEMMA StutterEdits ==
    ASSUME IInv, UNCHANGED <<mu, closing, sessions, file, acked, call>>
    PROVE  EditInv'
BY DEF IInv, EditInv, MutexInv, MapInv, CopyInv, NoLostEdit, At

\* Every step keeps it.
LEMMA NextEdits ==
    ASSUME SerializedCleanup PROVE IInv /\ [Next]_vars => IInv'
<1>. SUFFICES ASSUME IInv, [Next]_vars PROVE EditInv'
  BY NextTypes DEF IInv
<1>1. ASSUME NEW p \in Procs, Step(p) PROVE EditInv'
  BY <1>1, SessionEdits, GateEdits, ReadDirEdits, SweepEntryEdits,
     SweepDoneEdits, HashLookupEdits, HashActiveEdits, SweepRemoveEdits,
     LockEdits, ReadEdits, WriteEdits, EditReadEdits, EditWriteEdits,
     StartEdits, FinishEdits, MarkEdits, PollQuietEdits, PurgeEdits,
     ForgetEdits, CloseBeginEdits, CloseMarkEdits, CloseMarkedEdits,
     CloseQuietEdits, CloseRemoveEdits, CloseDoneEdits
     DEF Step
<1>2. ASSUME NEW p \in Procs, CloseGiveUp(p) PROVE EditInv'
  BY <1>2, StutterEdits DEF CloseGiveUp, runtimeVars, heapVars, diskVars
<1>3. ASSUME NEW s \in Sessions, Expire(s) PROVE EditInv'
  BY <1>3, StutterEdits DEF Expire, runtimeVars, heapVars
<1>4. CASE IntervalPasses
  BY <1>4, StutterEdits DEF IntervalPasses, heapVars, diskVars
<1>5. CASE UNCHANGED vars
  BY <1>5, StutterEdits DEF vars, runtimeVars, heapVars, diskVars
<1>. QED
  BY <1>1, <1>2, <1>3, <1>4, <1>5, SerializedCleanup, BeginEdits,
     CommandExitEdits, PollCancelledEdits, SweepFailsEdits, LockFailsEdits,
     PurgeFailsEdits, CloseRemoveFailsEdits
     DEF Next, Event, Finished

\* The invariant of the file tools while CleanupSession calls of one session
\* do not overlap.
LEMMA EditsInvariant == SerializedCleanup => (Spec => []IInv)
<1>. SUFFICES ASSUME SerializedCleanup PROVE Spec => []IInv
  OBVIOUS
<1>1. Init => IInv
  BY InitTypes, InitEdits DEF IInv
<1>2. IInv /\ [Next]_vars => IInv'
  BY NextEdits
<1>. QED
  BY <1>1, <1>2, PTL DEF Spec

\* Per-session locking keeps concurrent edits from losing updates, whatever
\* commands, sweeps and Close do meanwhile, on that assumption on the host.
THEOREM EditsKept == SerializedCleanup => (Spec => []NoLostEdit)
<1>1. IInv => NoLostEdit
  BY DEF IInv, EditInv
<1>. QED
  BY <1>1, EditsInvariant, PTL

\* Two goroutines are never inside one session: in spite of the map entries
\* that CleanupSession deletes, all that work on a session share its mutex.
THEOREM SessionsExclusive == SerializedCleanup => (Spec => []SessionExclusive)
BY Exclusive, EditsInvariant, PTL

----------------------------------------------------------------------------
(* Who removes a workspace, and what is at work in it *)

CloseLabels == {"closeMark", "closeWait", "closeRemove"}

\* A command is in the active set of its object, which is the one in the map:
\* CleanupSession forgets an object only when its active set is empty.
WorkInv ==
    /\ \A p \in Procs : At(p, "running") =>
          p \in active[call[p].st] /\ sessions[call[p].s] = call[p].st
    /\ \A p \in Procs :
          call[p].pc \in {"purge", "forget"} => active[call[p].st] = {}

\* Calls have different numbers.
IdInv ==
    /\ \A p \in Procs :
          call[p].id <= calls /\ \A i \in call[p].seen : i \in 1..calls
    /\ \A p, q \in Procs : (call[p].id = call[q].id /\ ~At(p, "idle")) => p = q

\* What a sweep has seen running has not begun anything else since, and has
\* ended if its workspace is due for removal.
SweepInv ==
    /\ \A p, q \in Procs :
          call[q].id \in call[p].seen => call[q].pc \in {"running", "finish"}
    /\ \A p, q \in Procs :
          (At(p, "remove") /\ At(q, "running") /\ call[q].s = call[p].at) =>
              call[q].id \notin call[p].seen

\* What Close wants of a session of its copy, ...
Stopped(s) ==
    /\ active[snapshot[s]] = {}
    /\ (owned[snapshot[s]] /\ ~KeepOnClose) => s \notin workspaces

\* ... and has reached once both of its loops are done or have failed.
AllMarked == \A s \in Sessions : snapshot[s] # NoState => closing[snapshot[s]]

CloseInv ==
    /\ \A p \in Procs :
          call[p].pc \in CloseLabels => closed /\ closeResult = "none"
    /\ \A p, q \in Procs :
          (call[p].pc \in CloseLabels /\ call[q].pc \in CloseLabels) => p = q
    /\ closeResult # "none" => closed /\ AllMarked
    /\ closed => \A s \in Sessions : sessions[s] \in {snapshot[s], NoState}
    /\ \A p \in Procs : At(p, "closeMark") =>
          \A s \in Sessions \ pending :
              snapshot[s] # NoState => closing[snapshot[s]]
    /\ \A p \in Procs : call[p].pc \in {"closeWait", "closeRemove"} =>
          /\ AllMarked
          /\ closeFailed \/ \A s \in Sessions \ pending :
                               snapshot[s] # NoState => Stopped(s)
    /\ \A p \in Procs : At(p, "closeRemove") =>
          call[p].at \in pending /\ active[snapshot[call[p].at]] = {}
    /\ closeResult = "nil" =>
          \A s \in Sessions : snapshot[s] # NoState => Stopped(s)

WInv == IInv /\ WorkInv
RInv == WInv /\ IdInv /\ SweepInv /\ CloseInv

\* What a step makes of the locals b of its goroutine: c.
Local(b, c) ==
    \/ c = b
    \/ c = NoCall
    \/ /\ b = NoCall
       /\ c.st = NoState /\ c.seen = {} /\ c.at = NoSession
       /\ c.id = calls + 1 /\ calls' = calls + 1
       /\ c.pc \in {"readdir", "close", "session"}
    \/ /\ c.id = b.id /\ c.s = b.s
       /\ b.pc # "session" => c.st = b.st
       /\ b.pc # "readdir" => c.seen = b.seen
       /\ c.pc = "running" => b.pc = "bash"
       /\ c.pc = "finish" => b.pc \in {"bash", "running"}
       /\ b.pc = "running" => c.pc = "finish"
       /\ b.pc \notin {"idle", "finish"}
       /\ c.pc = "purge" => b.pc = "poll"
       /\ c.pc = "forget" => b.pc = "purge"
       /\ c.pc = "remove" => b.pc \in {"hash", "hashLock"} /\ c.at = b.at
       /\ c.pc = "closeMark" => b.pc = "close"
       /\ c.pc = "closeRemove" => b.pc = "closeWait"
       /\ c.pc = "closeWait" => b.pc \in {"closeMark", "closeRemove"}

\* A goroutine changes its own locals only, ...
LEMMA StepLocal ==
    ASSUME TypeInv, NEW p \in Procs, Begin(p) \/ Step(p) \/ Event(p)
    PROVE  /\ call' = [call EXCEPT ![p] = call'[p]]
           /\ Local(call[p], call'[p])
           /\ calls' = calls \/ calls' = calls + 1
<1>1. /\ call \in [Procs -> Call] /\ call[p] \in Call
      /\ CallOK(call[p])
  BY DEF TypeInv, TypeOK, CallInv
<1>2. CASE Begin(p)
  <2>. DEFINE c(o, s) == [call[p] EXCEPT
                  !.op = o, !.id = calls + 1, !.s = s,
                  !.pc = CASE o = "expire" -> "readdir"
                           [] o = "close"  -> "close"
                           [] OTHER        -> "session"]
  <2>1. call[p] = NoCall /\ At(p, "idle") /\ calls' = calls + 1
    BY <1>1, <1>2 DEF Begin, At, CallOK
  <2>2. PICK o \in Ops, s \in Sessions : call' = [call EXCEPT ![p] = c(o, s)]
    BY <1>2 DEF Begin, Becomes
  <2>3. /\ c(o, s).st = NoState /\ c(o, s).seen = {}
        /\ c(o, s).at = NoSession /\ c(o, s).id = calls + 1
        /\ c(o, s).pc \in {"readdir", "close", "session"}
    BY <2>1 DEF NoCall
  <2>. HIDE DEF c
  <2>. QED
    BY <1>1, <2>1, <2>2, <2>3 DEF Local
<1>3. CASE \/ Gate(p) \/ SweepDone(p) \/ HashLookup(p) \/ Start(p)
           \/ CommandExit(p) \/ Mark(p) \/ PollQuiet(p) \/ Purge(p)
           \/ CloseBegin(p) \/ CloseMarked(p) \/ CloseRemove(p)
           \/ CloseRemoveFails(p)
  BY <1>1, <1>3
     DEF Gate, SweepDone, HashLookup, Start, CommandExit, Mark, PollQuiet,
         Purge, CloseBegin, CloseMarked, CloseRemove, CloseRemoveFails, Goto,
         Return, Becomes, Local, At, Call
<1>4. CASE \/ Read(p) \/ Write(p) \/ EditWrite(p) \/ Finish(p) \/ Forget(p)
           \/ CloseDone(p) \/ PollCancelled(p) \/ SweepFails(p)
           \/ LockFails(p) \/ PurgeFails(p)
  BY <1>1, <1>4
     DEF Read, Write, EditWrite, Finish, Forget, CloseDone, PollCancelled,
         SweepFails, LockFails, PurgeFails, Return, Becomes, Local
<1>5. CASE CloseMark(p) \/ CloseGiveUp(p)
  BY <1>1, <1>5 DEF CloseMark, CloseGiveUp, Local
<1>6. CASE EditRead(p)
  BY <1>1, <1>6 DEF EditRead, Becomes, Local, At, Call
<1>12. CASE Session(p)
  <2>. DEFINE o == IF sessions[call[p].s] = NoState
                      THEN call[p].id ELSE sessions[call[p].s]
              c == [call[p] EXCEPT
                      !.st = o,
                      !.pc = IF call[p].op = "cleanup" THEN "mark"
                                                       ELSE "gate"]
  <2>1. /\ call[p].pc = "session" /\ UNCHANGED calls
        /\ Return(p) \/ call' = [call EXCEPT ![p] = c]
    BY <1>12 DEF Session, At, Becomes
  <2>. HIDE DEF o
  <2>2. Local(call[p], c)
    BY <1>1, <2>1 DEF Local, Call
  <2>. HIDE DEF c
  <2>. QED
    BY <1>1, <2>1, <2>2 DEF Return, Becomes, Local
<1>10. CASE ReadDir(p)
  <2>. DEFINE seen == {call[q].id : q \in {r \in Procs : At(r, "running")}}
  <2>1. /\ call[p].pc = "readdir" /\ UNCHANGED calls
        /\ call' = [call EXCEPT ![p] = [call[p] EXCEPT
                       !.todo = workspaces, !.seen = seen, !.pc = "sweep"]]
    BY <1>10 DEF ReadDir, At, Becomes
  <2>. HIDE DEF seen
  <2>. QED
    BY <1>1, <2>1 DEF Local, Call
<1>11. CASE HashActive(p) \/ SweepRemove(p)
  <2>. DEFINE c == [call[p] EXCEPT !.todo = @ \ {call[p].at}, !.pc = "sweep"]
  <2>1. /\ call[p].pc \in {"hashLock", "remove"} /\ UNCHANGED calls
        /\ \/ Becomes(p, c)
           \/ Goto(p, "remove") /\ call[p].pc = "hashLock"
    BY <1>11 DEF HashActive, SweepRemove, At
  <2>2. Local(call[p], c)
    BY <1>1, <2>1 DEF Local, Call
  <2>. HIDE DEF c
  <2>. QED
    BY <1>1, <2>1, <2>2 DEF Goto, Becomes, Local, Call
<1>8. CASE SweepEntry(p)
  <2>. DEFINE c(s) == [call[p] EXCEPT !.at = s, !.pc = "hash"]
              d(s) == [call[p] EXCEPT !.todo = @ \ {s}]
  <2>1. /\ call[p].pc = "sweep" /\ UNCHANGED calls
        /\ \E s \in call[p].todo : Becomes(p, c(s)) \/ Becomes(p, d(s))
    BY <1>8 DEF SweepEntry, At
  <2>2. PICK s \in call[p].todo : Becomes(p, c(s)) \/ Becomes(p, d(s))
    BY <2>1
  <2>3. Local(call[p], c(s)) /\ Local(call[p], d(s))
    BY <1>1, <2>1 DEF Local, Call
  <2>. HIDE DEF c, d
  <2>. QED
    BY <1>1, <2>1, <2>2, <2>3 DEF Becomes
<1>9. CASE CloseQuiet(p)
  <2>. DEFINE c(s) == [call[p] EXCEPT !.at = s, !.pc = "closeRemove"]
  <2>1. /\ call[p].pc = "closeWait" /\ UNCHANGED calls
        /\ UNCHANGED call \/ \E s \in pending : Becomes(p, c(s))
    BY <1>9 DEF CloseQuiet, At
  <2>2. ASSUME NEW s \in pending PROVE Local(call[p], c(s))
    BY <1>1, <2>1 DEF Local, Call
  <2>. HIDE DEF c
  <2>3. Local(call[p], call[p])
    BY DEF Local
  <2>. QED
    BY <1>1, <2>1, <2>2, <2>3 DEF Becomes
<1>7. CASE Lock(p)
  <2>1. call[p].op \in {"file", "bash"}
    BY <1>1, <1>7 DEF CallOK, Lock, At
  <2>. QED
    BY <1>1, <1>7, <2>1 DEF Lock, Goto, Return, Becomes, Local, At, Call
<1>. QED
  BY <1>2, <1>3, <1>4, <1>5, <1>6, <1>7, <1>8, <1>9, <1>10,
     <1>11, <1>12
     DEF Step, Event

\* The goroutine's record and those of the others after its step.
LEMMA StepRecords ==
    ASSUME TypeInv, NEW p \in Procs, Begin(p) \/ Step(p) \/ Event(p)
    PROVE  \A q \in Procs : call'[q] = IF q = p THEN call'[p] ELSE call[q]
BY StepLocal DEF TypeInv, TypeOK

\* The actions on the map, the active sets and the label after polling.
LEMMA WorkUntouched ==
    ASSUME NEW p \in Procs, TypeInv,
           Begin(p) \/ Step(p) \/ Event(p),
           ~Start(p), ~Finish(p), ~PollQuiet(p), ~Forget(p), ~Session(p)
    PROVE  /\ UNCHANGED <<active, sessions>>
           /\ ~At(p, "bash")
           /\ At(p, "poll") => call'[p] = NoCall
<1>1. call \in [Procs -> Call]
  BY DEF TypeInv, TypeOK
<1>2. CASE \/ Begin(p) \/ Gate(p) \/ ReadDir(p) \/ SweepEntry(p)
           \/ SweepDone(p) \/ HashLookup(p) \/ HashActive(p) \/ SweepRemove(p)
           \/ Read(p) \/ EditRead(p) \/ CommandExit(p) \/ PollCancelled(p)
  BY <1>1, <1>2
     DEF Begin, Gate, ReadDir, SweepEntry, SweepDone, HashLookup, HashActive,
         SweepRemove, Read, EditRead, CommandExit, PollCancelled, Return,
         Becomes, At, runtimeVars, heapVars
<1>3. CASE \/ Lock(p) \/ Write(p) \/ EditWrite(p) \/ Mark(p) \/ Purge(p)
           \/ CloseBegin(p) \/ CloseMark(p) \/ CloseMarked(p)
           \/ CloseQuiet(p) \/ CloseRemove(p) \/ CloseDone(p)
  BY <1>3 DEF Lock, Write, EditWrite, Mark, Shut, Purge, CloseBegin,
              CloseMark, CloseMarked, CloseQuiet, CloseRemove, CloseDone, At,
              runtimeVars, heapVars
<1>4. CASE \/ CloseGiveUp(p) \/ SweepFails(p) \/ LockFails(p)
           \/ PurgeFails(p) \/ CloseRemoveFails(p)
  BY <1>4 DEF CloseGiveUp, SweepFails, LockFails, PurgeFails,
              CloseRemoveFails, At, runtimeVars, heapVars
<1>. QED
  BY <1>2, <1>3, <1>4 DEF Step, Event

\* Commands stay in the active set of the object in the map: only a call with
\* the mutex of an object that is not closing adds one, and an object that is
\* forgotten has none.
LEMMA WorkStep ==
    ASSUME WInv, NEW p \in Procs, Begin(p) \/ Step(p) \/ Event(p)
    PROVE  WorkInv'
<1>. DEFINE b == call[p]
            c == call'[p]
<1>1. /\ \A q \in Procs : call'[q] = IF q = p THEN c ELSE call[q]
      /\ Local(b, c)
  BY StepRecords, StepLocal DEF WInv, IInv
<1>2. \A q \in Procs :
         call[q].pc \in {"bash", "running", "finish", "poll", "purge", "forget"}
            => call[q].st \in States /\ call[q].s \in Sessions
  BY DEF WInv, IInv, TypeInv, CallInv, CallOK, LockedLabels, SessionOps,
         CleanupLabels
<1>3. /\ active \in [States -> SUBSET Procs]
      /\ sessions \in [Sessions -> States \cup {NoState}]
  BY DEF WInv, IInv, TypeInv, TypeOK
<1>. HIDE DEF b, c
<1>4. CASE Start(p)
  <2>1. /\ b.pc = "bash" /\ UNCHANGED sessions
        /\ \/ active' = [active EXCEPT ![b.st] = @ \cup {p}]
           \/ UNCHANGED active /\ c.pc = "finish"
    BY <1>4 DEF Start, Goto, Becomes, At, runtimeVars, WInv, IInv, TypeInv,
                TypeOK, Call, b, c
  <2>2. ~closing[b.st] /\ sessions[b.s] = b.st
    BY <1>2, <2>1 DEF WInv, IInv, EditInv, MutexInv, MapInv, LockedLabels,
                      States, NoState, b
  <2>3. c.s = b.s /\ c.st = b.st /\ c.pc \notin {"purge", "forget"}
    BY <1>1, <1>4, <2>1
       DEF Start, Goto, Becomes, WInv, IInv, TypeInv, TypeOK, Call, b, c
  <2>4. \A q \in Procs : call[q].pc \in {"purge", "forget"} =>
           call[q].st # b.st
    BY <2>2 DEF WInv, IInv, EditInv, MapInv, CleanupLabels
  <2>. QED
    BY <1>1, <1>2, <1>3, <2>1, <2>2, <2>3, <2>4 DEF WInv, WorkInv, At, b
<1>5. CASE Finish(p)
  <2>1. /\ b.pc = "finish" /\ UNCHANGED sessions /\ c = NoCall
        /\ active' = [active EXCEPT ![b.st] = @ \ {p}]
    BY <1>5 DEF Finish, Return, Becomes, At, runtimeVars, WInv, IInv, TypeInv,
                TypeOK, b, c
  <2>. QED
    BY <1>1, <1>2, <1>3, <2>1 DEF WInv, WorkInv, At, NoCall, b
<1>6. CASE PollQuiet(p)
  <2>1. /\ b.pc = "poll" /\ UNCHANGED <<sessions, active>>
        /\ active[b.st] = {} /\ c.st = b.st /\ c.pc = "purge"
    BY <1>6 DEF PollQuiet, Goto, Becomes, At, runtimeVars, heapVars, WInv,
                IInv, TypeInv, TypeOK, Call, b, c
  <2>. QED
    BY <1>1, <2>1 DEF WInv, WorkInv, At
<1>7. CASE Forget(p)
  <2>1. /\ b.pc = "forget" /\ UNCHANGED active /\ c = NoCall
        /\ sessions' = [sessions EXCEPT ![b.s] = NoState]
    BY <1>7 DEF Forget, Return, Becomes, At, heapVars, WInv, IInv, TypeInv,
                TypeOK, b, c
  <2>2. sessions[b.s] = b.st /\ active[b.st] = {}
    BY <2>1 DEF WInv, WorkInv, IInv, EditInv, MapInv, CleanupLabels, b
  <2>. QED
    BY <1>1, <1>2, <1>3, <2>1, <2>2 DEF WInv, WorkInv, At, NoCall, b
<1>8. CASE Session(p)
  <2>1. /\ b.pc = "session" /\ UNCHANGED active
        /\ c.pc \notin {"running", "purge", "forget"}
    BY <1>1, <1>8 DEF Session, At, Local, NoCall, b
  <2>2. \A s \in Sessions : sessions[s] # NoState => sessions'[s] = sessions[s]
    BY <1>3, <1>8 DEF Session
  <2>3. \A q \in Procs : At(q, "running") => sessions[call[q].s] # NoState
    BY <1>2 DEF WInv, WorkInv, At, States, NoState
  <2>. QED
    BY <1>1, <1>2, <2>1, <2>2, <2>3 DEF WInv, WorkInv, At
<1>9. CASE ~(Start(p) \/ Finish(p) \/ PollQuiet(p) \/ Forget(p) \/ Session(p))
  <2>1. /\ UNCHANGED <<active, sessions>> /\ b.pc # "bash"
        /\ b.pc = "poll" => c = NoCall
    BY <1>9, WorkUntouched DEF WInv, IInv, At, b, c
  <2>. QED
    BY <1>1, <2>1 DEF WInv, WorkInv, At, Local, NoCall, b
<1>. QED
  BY <1>4, <1>5, <1>6, <1>7, <1>8, <1>9

\* Which actions there are at the labels of a sweep.
LEMMA SweepLabels ==
    ASSUME NEW p \in Procs, Begin(p) \/ Step(p) \/ Event(p)
    PROVE  /\ At(p, "hash") => HashLookup(p)
           /\ At(p, "hashLock") => HashActive(p)
           /\ At(p, "readdir") => ReadDir(p) \/ Return(p)
<1>1. CASE Step(p)
  <2>1. At(p, "hash") => HashLookup(p)
    BY <1>1
       DEF Step, At, Session, Gate, ReadDir, SweepEntry, SweepDone,
           HashActive, SweepRemove, Lock, Read, Write, EditRead, EditWrite,
           Start, Finish, Mark, PollQuiet, Purge, Forget, CloseBegin,
           CloseMark, CloseMarked, CloseQuiet, CloseRemove, CloseDone
  <2>2. At(p, "hashLock") => HashActive(p)
    BY <1>1
       DEF Step, At, Session, Gate, ReadDir, SweepEntry, SweepDone,
           HashLookup, SweepRemove, Lock, Read, Write, EditRead, EditWrite,
           Start, Finish, Mark, PollQuiet, Purge, Forget, CloseBegin,
           CloseMark, CloseMarked, CloseQuiet, CloseRemove, CloseDone
  <2>3. At(p, "readdir") => ReadDir(p)
    BY <1>1
       DEF Step, At, Session, Gate, SweepEntry, SweepDone, HashLookup,
           HashActive, SweepRemove, Lock, Read, Write, EditRead, EditWrite,
           Start, Finish, Mark, PollQuiet, Purge, Forget, CloseBegin,
           CloseMark, CloseMarked, CloseQuiet, CloseRemove, CloseDone
  <2>. QED
    BY <2>1, <2>2, <2>3
<1>2. CASE Begin(p) \/ Event(p)
  BY <1>2 DEF Begin, Event, At, CommandExit, PollCancelled, CloseGiveUp,
              SweepFails, LockFails, PurgeFails, CloseRemoveFails
<1>. QED
  BY <1>1, <1>2

\* What a sweep has seen changes when it lists the root.
LEMMA SeenStep ==
    ASSUME TypeInv, NEW p \in Procs, Begin(p) \/ Step(p) \/ Event(p)
    PROVE  \/ call'[p].seen = call[p].seen
           \/ call'[p].seen = {}
           \/ /\ call'[p].seen =
                    {call[q].id : q \in {r \in Procs : At(r, "running")}}
              /\ call'[p].id = call[p].id /\ At(p, "readdir")
<1>. DEFINE running == {call[q].id : q \in {r \in Procs : At(r, "running")}}
            d == [call[p] EXCEPT !.todo = workspaces, !.seen = running,
                                 !.pc = "sweep"]
<1>1. call \in [Procs -> Call] /\ call[p] \in Call
  BY DEF TypeInv, TypeOK
<1>2. NoCall.seen = {}
  BY DEF NoCall
<1>3. CASE At(p, "readdir")
  <2>1. Return(p) \/ Becomes(p, d)
    BY <1>3, SweepLabels DEF ReadDir
  <2>. HIDE DEF running
  <2>2. d.seen = running /\ d.id = call[p].id
    BY <1>1 DEF Call
  <2>. HIDE DEF d
  <2>3. call'[p] = NoCall \/ call'[p] = d
    BY <1>1, <2>1 DEF Return, Becomes
  <2>. QED
    BY <1>2, <1>3, <2>2, <2>3 DEF running
<1>4. CASE ~At(p, "readdir")
  BY <1>2, <1>4, StepLocal DEF Local, At, NoCall
<1>. QED
  BY <1>3, <1>4

\* Calls keep their numbers, and a new one is larger than those of all others.
LEMMA IdStep ==
    ASSUME TypeInv, IdInv, NEW p \in Procs, Begin(p) \/ Step(p) \/ Event(p)
    PROVE  IdInv'
<1>. DEFINE b == call[p]
            c == call'[p]
<1>1. /\ \A q \in Procs : call'[q] = IF q = p THEN c ELSE call[q]
      /\ Local(b, c)
      /\ calls' = calls \/ calls' = calls + 1
  BY StepRecords, StepLocal
<1>2. /\ calls \in Nat
      /\ \A q \in Procs : call[q].id \in Nat
      /\ \A q \in Procs : ~At(q, "idle") => call[q].id # 0
  BY ConstantsAssumption DEF TypeInv, TypeOK, Call, CallInv, CallOK, At
<1>3. /\ c = NoCall => c.id = 0 /\ c.seen = {} /\ c.pc = "idle"
      /\ b = NoCall => b.pc = "idle"
  BY DEF NoCall
<1>4. \/ c.seen = b.seen \/ c.seen = {}
      \/ c.seen = {call[q].id : q \in {r \in Procs : At(r, "running")}}
  BY SeenStep
<1>. HIDE DEF b, c
<1>5. \A q \in Procs : call'[q].id <= calls'
  BY <1>1, <1>2, <1>3 DEF IdInv, Local, b
<1>6. \A q \in Procs : \A i \in call'[q].seen : i \in 1..calls'
  <2>1. \A i \in c.seen : i \in 1..calls
    BY <1>2, <1>4 DEF IdInv, b, At
  <2>. QED
    BY <1>1, <1>2, <2>1 DEF IdInv
<1>7. \A q, r \in Procs :
         (call'[q].id = call'[r].id /\ call'[q].pc # "idle") => q = r
  <2>1. \A r \in Procs : (r # p /\ c.pc # "idle") => call[r].id # c.id
    BY <1>1, <1>2, <1>3 DEF IdInv, Local, b, At
  <2>2. \A r \in Procs :
           (r # p /\ call[r].pc # "idle") => call[r].id # c.id
    BY <1>1, <1>2, <1>3 DEF IdInv, Local, b, At
  <2>. QED
    BY <1>1, <2>1, <2>2 DEF IdInv, At
<1>. QED
  BY <1>5, <1>6, <1>7 DEF IdInv, At

\* A sweep keeps to what it saw: a command that it saw running stays the one
\* with its number, and none of them runs where it is about to remove.
LEMMA SweepStep ==
    ASSUME WInv, IdInv, SweepInv,
           NEW p \in Procs, Begin(p) \/ Step(p) \/ Event(p)
    PROVE  SweepInv'
<1>. DEFINE b == call[p]
            c == call'[p]
            running == {call[q].id : q \in {r \in Procs : At(r, "running")}}
<1>1. /\ \A q \in Procs : call'[q] = IF q = p THEN c ELSE call[q]
      /\ Local(b, c)
  BY StepRecords, StepLocal DEF WInv, IInv
<1>2. /\ calls \in Nat
      /\ \A q \in Procs : call[q].id \in Nat
      /\ \A q \in Procs : At(q, "running") =>
            call[q].st \in States /\ call[q].s \in Sessions
  BY ConstantsAssumption
     DEF WInv, IInv, TypeInv, TypeOK, Call, CallInv, CallOK, At, SessionOps
<1>3. /\ c = NoCall => c.id = 0 /\ c.seen = {} /\ c.pc = "idle"
      /\ b = NoCall => b.pc = "idle"
  BY DEF NoCall
<1>4. \/ c.seen = b.seen \/ c.seen = {}
      \/ c.seen = running /\ b.pc = "readdir" /\ c.id = b.id
  BY SeenStep DEF WInv, IInv, At
<1>5. (c.pc = "remove" /\ b.pc # "remove") =>
         \A q \in Procs : ~(At(q, "running") /\ call[q].s = c.at)
  <2>. SUFFICES ASSUME c.pc = "remove", b.pc # "remove"
                PROVE  \A q \in Procs :
                          ~(At(q, "running") /\ call[q].s = c.at)
    OBVIOUS
  <2>1. b.pc \in {"hash", "hashLock"} /\ c.at = b.at /\ c # NoCall
    BY <1>1, <1>3 DEF Local
  <2>2. \/ HashLookup(p) /\ b.pc = "hash"
        \/ HashActive(p) /\ b.pc = "hashLock"
    BY <2>1, SweepLabels DEF At
  <2>3. \/ sessions[b.at] = NoState
        \/ active[sessions[b.at]] = {}
    <3>1. CASE HashLookup(p)
      <4>1. (sessions[b.at] # NoState) => c.pc = "hashLock"
        BY <3>1 DEF HashLookup, Goto, Becomes, WInv, IInv, TypeInv, TypeOK,
                    Call
      <4>. QED
        BY <4>1
    <3>2. CASE HashActive(p)
      <4>. DEFINE d == [call[p] EXCEPT !.todo = @ \ {call[p].at},
                                       !.pc = "sweep"]
      <4>1. active[sessions[b.at]] # {} => Becomes(p, d)
        BY <3>2 DEF HashActive
      <4>2. d.pc = "sweep"
        BY DEF WInv, IInv, TypeInv, TypeOK, Call
      <4>. HIDE DEF d
      <4>. QED
        BY <4>1, <4>2 DEF Becomes, WInv, IInv, TypeInv, TypeOK
    <3>. QED
      BY <2>2, <3>1, <3>2
  <2>. QED
    BY <1>2, <2>1, <2>3 DEF WInv, WorkInv, At, States, NoState
<1>. HIDE DEF b, c
<1>6. \A q, r \in Procs :
         call'[r].id \in call'[q].seen => call'[r].pc \in {"running", "finish"}
  <2>1. \A r \in Procs : call'[r].id \in running =>
           call'[r].pc \in {"running", "finish"} \/ b.pc # "readdir"
           \/ c.id # b.id
    BY <1>1 DEF IdInv, At, b
  <2>2. \A q, r \in Procs : call'[r].id \in call[q].seen =>
           call'[r].pc \in {"running", "finish"}
    BY <1>1, <1>2, <1>3 DEF IdInv, SweepInv, Local, b, At
  <2>. QED
    BY <1>1, <1>4, <2>1, <2>2 DEF b
<1>7. \A q, r \in Procs :
         (/\ call'[q].pc = "remove" /\ call'[r].pc = "running"
          /\ call'[r].s = call'[q].at) => call'[r].id \notin call'[q].seen
  <2>. SUFFICES ASSUME NEW q \in Procs, NEW r \in Procs,
                       call'[q].pc = "remove", call'[r].pc = "running",
                       call'[r].s = call'[q].at
                PROVE  call'[r].id \notin call'[q].seen
    OBVIOUS
  <2>1. CASE r = p /\ b.pc # "running"
    <3>1. b.pc = "bash" /\ c.id = b.id /\ q # p
      BY <1>1, <1>3, <2>1 DEF Local
    <3>. QED
      BY <1>1, <2>1, <3>1 DEF SweepInv, b
  <2>2. CASE q = p /\ b.pc # "remove"
    BY <1>1, <1>5, <2>2 DEF At
  <2>3. CASE ~(r = p /\ b.pc # "running") /\ ~(q = p /\ b.pc # "remove")
    BY <1>1, <1>3, <2>3 DEF SweepInv, Local, At, b
  <2>. QED
    BY <2>1, <2>2, <2>3
<1>. QED
  BY <1>6, <1>7 DEF SweepInv, At

\* What a step that is not one of Close's loops does to what Close waits for:
\* nothing comes to an object that is closing, nor to the map once it is
\* closed, and a workspace is made only for an object that is not closing.
CloseKept(p) ==
    /\ UNCHANGED <<closed, snapshot, pending, closeFailed, closeResult>>
    /\ call[p].pc \notin CloseLabels \cup {"close"}
    /\ \A o \in States : closing[o] =>
          closing'[o] /\ active'[o] \subseteq active[o] /\ (owned'[o] => owned[o])
    /\ \A s \in workspaces' \ workspaces :
          sessions[s] \in States /\ ~closing[sessions[s]]
    /\ closed => \A s \in Sessions : sessions'[s] \in {sessions[s], NoState}

CloseStepOf(p) ==
    \/ CloseBegin(p) \/ CloseMark(p) \/ CloseMarked(p) \/ CloseQuiet(p)
    \/ CloseRemove(p) \/ CloseDone(p) \/ CloseGiveUp(p) \/ CloseRemoveFails(p)

\* Each step that is not one of Close's is such a step.
LEMMA OthersKeep ==
    ASSUME WInv, NEW p \in Procs, Begin(p) \/ Step(p) \/ Event(p),
           ~CloseStepOf(p)
    PROVE  CloseKept(p)
<1>1. /\ \A o \in States : active[o] \subseteq Procs
      /\ active \in [States -> SUBSET Procs]
      /\ owned \in [States -> BOOLEAN] /\ closing \in [States -> BOOLEAN]
      /\ sessions \in [Sessions -> States \cup {NoState}]
      /\ call[p] \in Call /\ CallOK(call[p])
  BY DEF WInv, IInv, TypeInv, TypeOK, CallInv
<1>2. CASE \/ Begin(p) \/ Gate(p) \/ ReadDir(p) \/ SweepEntry(p)
           \/ SweepDone(p) \/ HashLookup(p) \/ HashActive(p)
  BY <1>2 DEF Begin, Gate, ReadDir, SweepEntry, SweepDone, HashLookup,
              HashActive, CloseKept, CloseLabels, At, runtimeVars, heapVars,
              diskVars, closeVars
<1>3. CASE \/ EditRead(p) \/ CommandExit(p) \/ PollQuiet(p)
           \/ PollCancelled(p)
  BY <1>3 DEF EditRead, CommandExit, PollQuiet, PollCancelled, CloseKept,
              CloseLabels, At, runtimeVars, heapVars, diskVars, closeVars
<1>4. CASE SweepFails(p) \/ PurgeFails(p) \/ SweepRemove(p)
  BY <1>4 DEF SweepFails, PurgeFails, SweepRemove, RemoveAll, RemoveAllFails,
              CloseKept, CloseLabels, At, runtimeVars, heapVars, diskVars,
              closeVars
<1>5. CASE Session(p)
  <2>1. /\ call[p].pc = "session"
        /\ closed => UNCHANGED sessions
        /\ UNCHANGED <<closed, closing, active, owned, workspaces, snapshot,
                       pending, closeFailed, closeResult>>
    BY <1>5 DEF Session, At, diskVars, closeVars
  <2>. QED
    BY <2>1 DEF CloseKept, CloseLabels
<1>6. CASE Forget(p)
  BY <1>1, <1>6 DEF Forget, CloseKept, CloseLabels, At, heapVars, diskVars,
                    closeVars
<1>7. CASE Read(p) \/ Write(p) \/ EditWrite(p)
  BY <1>7 DEF Read, Write, EditWrite, AtomicWrite, CloseKept, CloseLabels, At,
              runtimeVars, diskVars, closeVars
<1>8. CASE Start(p)
  <2>1. /\ call[p].pc = "bash" /\ call[p].st \in States
        /\ UNCHANGED <<runtimeVars, owned, closing, diskVars, closeVars>>
        /\ \/ active' = [active EXCEPT ![call[p].st] = @ \cup {p}]
           \/ UNCHANGED active
    BY <1>1, <1>8 DEF Start, At, CallOK, SessionOps, LockedLabels
  <2>2. ~closing[call[p].st]
    BY <2>1 DEF WInv, IInv, EditInv, MutexInv, LockedLabels
  <2>. QED
    BY <1>1, <2>1, <2>2 DEF CloseKept, CloseLabels, runtimeVars, diskVars,
                            closeVars
<1>9. CASE Finish(p)
  BY <1>1, <1>9 DEF Finish, Touch, CloseKept, CloseLabels, At, runtimeVars,
                    closeVars
<1>10. CASE Mark(p)
  BY <1>1, <1>10 DEF Mark, Shut, CloseKept, CloseLabels, At, runtimeVars,
                     diskVars, closeVars
<1>11. CASE Purge(p)
  BY <1>1, <1>11 DEF Purge, RemoveAll, CloseKept, CloseLabels, At,
                     runtimeVars, diskVars, closeVars
<1>12. CASE Lock(p) \/ LockFails(p)
  <2>1. /\ call[p].pc = "lock" /\ call[p].st \in States
        /\ call[p].st # NoState
        /\ UNCHANGED <<runtimeVars, active, closing, closeVars>>
    <3>1. /\ call[p].pc = "lock"
          /\ UNCHANGED <<runtimeVars, active, closing, closeVars>>
      BY <1>12 DEF Lock, LockFails, At
    <3>2. call[p].st \in States
      BY <1>1, <3>1 DEF CallOK, SessionOps, LockedLabels
    <3>. QED
      BY <3>1, <3>2 DEF States, NoState
  <2>2. CASE closing[call[p].st]
    BY <1>12, <2>1, <2>2 DEF Lock, LockFails, CloseKept, CloseLabels,
                             runtimeVars, closeVars
  <2>3. CASE ~closing[call[p].st]
    <3>1. /\ workspaces' \subseteq workspaces \cup {call[p].s}
          /\ \/ owned' = owned
             \/ owned' = [owned EXCEPT ![call[p].st] = TRUE]
      BY <1>12, <2>3 DEF Lock, LockFails
    <3>2. sessions[call[p].s] = call[p].st
      BY <2>1, <2>3 DEF WInv, IInv, EditInv, MapInv
    <3>. QED
      BY <1>1, <2>1, <2>3, <3>1, <3>2 DEF CloseKept, CloseLabels,
                                          runtimeVars, closeVars
  <2>. QED
    BY <2>2, <2>3
<1>. QED
  BY <1>2, <1>3, <1>4, <1>5, <1>6, <1>7, <1>8, <1>9, <1>10, <1>11, <1>12
     DEF Step, Event, CloseStepOf

\* Hence what Close has reached with a session stays so, ...
LEMMA OthersCloseInv ==
    ASSUME WInv, CloseInv, NEW p \in Procs, Begin(p) \/ Step(p) \/ Event(p),
           ~CloseStepOf(p)
    PROVE  CloseInv'
<1>. DEFINE c == call'[p]
<1>1. CloseKept(p)
  BY OthersKeep
<1>2. /\ \A q \in Procs : call'[q] = IF q = p THEN c ELSE call[q]
      /\ Local(call[p], c)
  BY StepRecords, StepLocal DEF WInv, IInv
<1>3. /\ snapshot \in [Sessions -> States \cup {NoState}]
      /\ sessions \in [Sessions -> States \cup {NoState}]
      /\ workspaces' \subseteq Sessions
  BY NextTypes DEF WInv, IInv, TypeInv, TypeOK, Next
<1>. HIDE DEF c
<1>4. c.pc \notin CloseLabels
  BY <1>1, <1>2 DEF CloseKept, Local, CloseLabels, NoCall
<1>5. AllMarked => AllMarked'
  BY <1>1, <1>3 DEF AllMarked, CloseKept
<1>6. \A s \in Sessions :
         (closed /\ AllMarked /\ snapshot[s] # NoState /\ Stopped(s))
            => Stopped(s)'
  <2>. SUFFICES ASSUME NEW s \in Sessions, closed, AllMarked,
                       snapshot[s] # NoState, Stopped(s)
                PROVE  Stopped(s)'
    OBVIOUS
  <2>1. snapshot[s] \in States /\ closing[snapshot[s]]
    BY <1>3 DEF AllMarked
  <2>2. s \notin workspaces' \ workspaces
    <3>1. sessions[s] \in {snapshot[s], NoState}
      BY DEF CloseInv
    <3>. QED
      BY <1>1, <2>1, <3>1 DEF CloseKept, States, NoState
  <2>. QED
    BY <1>1, <2>1, <2>2 DEF Stopped, CloseKept
<1>7. closed' => \A s \in Sessions : sessions'[s] \in {snapshot'[s], NoState}
  BY <1>1 DEF CloseInv, CloseKept
<1>8. \A q \in Procs : At(q, "closeMark")' =>
         \A s \in Sessions \ pending' :
             snapshot'[s] # NoState => closing'[snapshot'[s]]
  BY <1>1, <1>2, <1>3, <1>4 DEF CloseInv, CloseKept, At, CloseLabels
<1>9. \A q \in Procs : call'[q].pc \in {"closeWait", "closeRemove"} =>
         /\ AllMarked'
         /\ closeFailed' \/ \A s \in Sessions \ pending' :
                               snapshot'[s] # NoState => Stopped(s)'
  BY <1>1, <1>2, <1>4, <1>5, <1>6 DEF CloseInv, CloseKept, CloseLabels
<1>10. \A q \in Procs : At(q, "closeRemove")' =>
          call'[q].at \in pending' /\ active'[snapshot'[call'[q].at]] = {}
  <2>. SUFFICES ASSUME NEW q \in Procs, At(q, "closeRemove")'
                PROVE  /\ call'[q].at \in pending'
                       /\ active'[snapshot'[call'[q].at]] = {}
    OBVIOUS
  <2>1. /\ At(q, "closeRemove") /\ call'[q] = call[q] /\ AllMarked
        /\ call[q].at \in pending /\ active[snapshot[call[q].at]] = {}
    BY <1>2, <1>4 DEF At, CloseLabels, CloseInv
  <2>2. /\ call[q].at \in Sessions
        /\ snapshot[call[q].at] # NoState
    BY <2>1 DEF WInv, IInv, TypeInv, TypeOK, PendingInv
  <2>. QED
    BY <1>1, <1>3, <2>1, <2>2 DEF AllMarked, CloseKept
<1>11. closeResult' = "nil" =>
          \A s \in Sessions : snapshot'[s] # NoState => Stopped(s)'
  BY <1>1, <1>6 DEF CloseInv, CloseKept
<1>12. closeResult' # "none" => closed' /\ AllMarked'
  BY <1>1, <1>5 DEF CloseInv, CloseKept
<1>13. /\ \A q \in Procs : call'[q].pc \in CloseLabels =>
             closed' /\ closeResult' = "none"
       /\ \A q, r \in Procs : (call'[q].pc \in CloseLabels
             /\ call'[r].pc \in CloseLabels) => q = r
  BY <1>1, <1>2, <1>4 DEF CloseInv, CloseKept
<1>. QED
  BY <1>7, <1>8, <1>9, <1>10, <1>11, <1>12, <1>13 DEF CloseInv

\* ... and each of its own steps brings it nearer to what it wants.
LEMMA OwnCloseInv ==
    ASSUME WInv, CloseInv, NEW p \in Procs, CloseStepOf(p)
    PROVE  CloseInv'
<1>. DEFINE b == call[p]
            c == call'[p]
<1>1. /\ \A q \in Procs : call'[q] = IF q = p THEN c ELSE call[q]
      /\ call \in [Procs -> Call] /\ b \in Call
  BY StepRecords DEF CloseStepOf, Step, Event, WInv, IInv, TypeInv, TypeOK
<1>2. /\ snapshot \in [Sessions -> States \cup {NoState}]
      /\ sessions \in [Sessions -> States \cup {NoState}]
      /\ closing \in [States -> BOOLEAN]
      /\ pending \subseteq Sessions
      /\ \A s \in pending : snapshot[s] # NoState
  BY DEF WInv, IInv, TypeInv, TypeOK, PendingInv
<1>3. b.pc \in CloseLabels =>
         /\ closed /\ closeResult = "none"
         /\ \A q \in Procs : q # p => call[q].pc \notin CloseLabels
  BY DEF CloseInv
<1>. HIDE DEF c
<1>4. CASE CloseBegin(p)
  <2>1. CASE closed
    <3>1. /\ c = NoCall
          /\ UNCHANGED <<closed, snapshot, pending, sessions, closing, active,
                         owned, workspaces, closeFailed, closeResult>>
      BY <1>1, <1>4, <2>1 DEF CloseBegin, Return, Becomes, heapVars, diskVars,
                              c
    <3>. QED
      BY <1>1, <3>1 DEF CloseInv, AllMarked, Stopped, At, NoCall, CloseLabels
  <2>2. CASE ~closed
    <3>1. /\ c.pc = "closeMark" /\ closed' /\ snapshot' = sessions
          /\ pending' = {s \in Sessions : sessions[s] # NoState}
          /\ UNCHANGED <<sessions, closeFailed, closeResult>>
      BY <1>1, <1>4, <2>2 DEF CloseBegin, Goto, Becomes, Call, c
    <3>2. /\ closeResult = "none"
          /\ \A q \in Procs : call[q].pc \notin CloseLabels
      BY <2>2 DEF CloseInv
    <3>. QED
      BY <1>1, <3>1, <3>2 DEF CloseInv, At, CloseLabels
  <2>. QED
    BY <2>1, <2>2
<1>5. CASE CloseMark(p)
  <2>1. PICK s \in pending : Shut(snapshot[s]) /\ pending' = pending \ {s}
    BY <1>5 DEF CloseMark
  <2>2. /\ b.pc = "closeMark" /\ c = b
        /\ UNCHANGED <<closed, sessions, snapshot, closeFailed, closeResult>>
    BY <1>5 DEF CloseMark, At, runtimeVars, c
  <2>3. \A o \in States : closing'[o] <=> (closing[o] \/ o = snapshot[s])
    BY <1>2, <2>1 DEF Shut
  <2>4. \A t \in Sessions \ pending' :
           snapshot'[t] # NoState => closing'[snapshot'[t]]
    BY <1>2, <2>1, <2>2, <2>3 DEF CloseInv, At
  <2>. QED
    BY <1>1, <1>3, <2>2, <2>4 DEF CloseInv, At, CloseLabels
<1>6. CASE CloseMarked(p)
  <2>1. /\ b.pc = "closeMark" /\ c.pc = "closeWait" /\ pending = {}
        /\ pending' = {s \in Sessions : snapshot[s] # NoState}
        /\ UNCHANGED <<closed, sessions, snapshot, closing, closeFailed,
                       closeResult>>
    BY <1>1, <1>6 DEF CloseMarked, Goto, Becomes, At, Call, runtimeVars,
                      heapVars, c
  <2>2. AllMarked'
    BY <2>1 DEF CloseInv, AllMarked, At
  <2>. QED
    BY <1>1, <1>3, <2>1, <2>2 DEF CloseInv, At, CloseLabels
<1>7. CASE CloseQuiet(p)
  <2>. DEFINE d(s) == [call[p] EXCEPT !.at = s, !.pc = "closeRemove"]
  <2>1. PICK s \in pending :
           /\ active[snapshot[s]] = {}
           /\ \/ Becomes(p, d(s)) /\ UNCHANGED pending
              \/ /\ ~(owned[snapshot[s]] /\ ~KeepOnClose)
                 /\ pending' = pending \ {s} /\ UNCHANGED call
    BY <1>7 DEF CloseQuiet
  <2>2. /\ b.pc = "closeWait"
        /\ UNCHANGED <<closed, sessions, snapshot, closing, active, owned,
                       workspaces, closeFailed, closeResult>>
    BY <1>7 DEF CloseQuiet, At, runtimeVars, heapVars, diskVars
  <2>3. d(s).at = s /\ d(s).pc = "closeRemove"
    BY <1>1, <1>2 DEF Call
  <2>. HIDE DEF d
  <2>4. \/ c.at = s /\ c.pc = "closeRemove" /\ UNCHANGED pending
        \/ /\ c = b /\ pending' = pending \ {s} /\ Stopped(s)
    BY <1>1, <2>1, <2>3 DEF Becomes, Stopped, c
  <2>5. /\ AllMarked'
        /\ \A t \in Sessions : Stopped(t)' = Stopped(t)
    BY <1>3, <2>2 DEF CloseInv, AllMarked, Stopped
  <2>6. closeFailed' \/ \A t \in Sessions \ pending' :
                           snapshot'[t] # NoState => Stopped(t)'
    BY <2>2, <2>4, <2>5 DEF CloseInv
  <2>. QED
    BY <1>1, <1>3, <2>1, <2>2, <2>4, <2>5, <2>6 DEF CloseInv, At, CloseLabels
<1>8. CASE CloseRemove(p)
  <2>1. /\ b.pc = "closeRemove" /\ c.pc = "closeWait"
        /\ workspaces' = workspaces \ {b.at}
        /\ pending' = pending \ {b.at}
        /\ UNCHANGED <<closed, sessions, snapshot, closing, active, owned,
                       closeFailed, closeResult>>
    BY <1>1, <1>8 DEF CloseRemove, RemoveAll, Goto, Becomes, At, Call,
                      runtimeVars, heapVars, c
  <2>2. AllMarked /\ active[snapshot[b.at]] = {}
    BY <2>1 DEF CloseInv, At
  <2>3. AllMarked' /\ \A t \in Sessions : Stopped(t) => Stopped(t)'
    BY <2>1, <2>2 DEF AllMarked, Stopped
  <2>4. \A t \in Sessions : t = b.at => Stopped(t)'
    BY <2>1, <2>2 DEF Stopped
  <2>5. closeFailed' \/ \A t \in Sessions \ pending' :
                           snapshot'[t] # NoState => Stopped(t)'
    <3>1. closeFailed \/ \A t \in Sessions \ pending :
                            snapshot[t] # NoState => Stopped(t)
      BY <2>1 DEF CloseInv
    <3>. QED
      BY <2>1, <2>3, <2>4, <3>1
  <2>. QED
    BY <1>1, <1>3, <2>1, <2>3, <2>5 DEF CloseInv, At, CloseLabels
<1>9. CASE CloseRemoveFails(p) \/ CloseGiveUp(p)
  <2>1. /\ b.pc \in {"closeRemove", "closeWait"} /\ c.pc = "closeWait"
        /\ closeFailed'
        /\ UNCHANGED <<closed, sessions, snapshot, closing, closeResult>>
    BY <1>1, <1>9 DEF CloseRemoveFails, CloseGiveUp, Goto, Becomes, At, Call,
                      runtimeVars, heapVars, c
  <2>2. AllMarked'
    BY <2>1 DEF CloseInv, AllMarked
  <2>. QED
    BY <1>1, <1>3, <2>1, <2>2 DEF CloseInv, At, CloseLabels
<1>10. CASE CloseDone(p)
  <2>1. /\ b.pc = "closeWait" /\ c = NoCall /\ pending = {}
        /\ closeResult' = IF closeFailed THEN "error" ELSE "nil"
        /\ UNCHANGED <<closed, sessions, snapshot, closing, active, owned,
                       workspaces, pending, closeFailed>>
    BY <1>1, <1>10 DEF CloseDone, Return, Becomes, At, runtimeVars, heapVars,
                       diskVars, c
  <2>2. /\ AllMarked'
        /\ \A t \in Sessions : Stopped(t)' = Stopped(t)
    BY <2>1 DEF CloseInv, AllMarked, Stopped
  <2>3. closeResult' = "nil" =>
           \A t \in Sessions : snapshot'[t] # NoState => Stopped(t)'
    BY <2>1, <2>2 DEF CloseInv
  <2>. QED
    BY <1>1, <1>3, <2>1, <2>2, <2>3 DEF CloseInv, At, CloseLabels, NoCall
<1>. QED
  BY <1>4, <1>5, <1>6, <1>7, <1>8, <1>9, <1>10 DEF CloseStepOf

\* Together: each step keeps CloseInv.
LEMMA CloseStep ==
    ASSUME WInv, CloseInv, NEW p \in Procs, Begin(p) \/ Step(p) \/ Event(p)
    PROVE  CloseInv'
BY OthersCloseInv, OwnCloseInv

\* At first nobody works, and nothing is closed.
LEMMA InitRemovals == Init => WorkInv /\ IdInv /\ SweepInv /\ CloseInv
<1>. SUFFICES ASSUME Init PROVE WorkInv /\ IdInv /\ SweepInv /\ CloseInv
  OBVIOUS
<1>1. /\ \A p \in Procs : call[p].pc = "idle" /\ call[p].id = 0
                          /\ call[p].seen = {}
      /\ calls = 0 /\ closed = FALSE /\ closeResult = "none"
  BY DEF Init, NoCall
<1>. QED
  BY <1>1 DEF WorkInv, IdInv, SweepInv, CloseInv, CloseLabels, At

\* The four parts read no other variable.
LEMMA StutterRemovals ==
    ASSUME RInv,
           UNCHANGED <<calls, call, active, sessions, closed, closing, owned>>,
           UNCHANGED <<workspaces, snapshot, pending, closeFailed, closeResult>>
    PROVE  WorkInv' /\ IdInv' /\ SweepInv' /\ CloseInv'
<1>1. WorkInv' /\ IdInv' /\ SweepInv'
  BY DEF RInv, WInv, WorkInv, IdInv, SweepInv, At
<1>2. AllMarked' = AllMarked /\ \A s \in Sessions : Stopped(s)' = Stopped(s)
  BY DEF AllMarked, Stopped
<1>3. CloseInv'
  BY <1>2 DEF RInv, CloseInv, At
<1>. QED
  BY <1>1, <1>3

\* RInv is inductive.
LEMMA NextRemovals ==
    ASSUME SerializedCleanup PROVE RInv /\ [Next]_vars => RInv'
<1>. SUFFICES ASSUME RInv, [Next]_vars
              PROVE  WorkInv' /\ IdInv' /\ SweepInv' /\ CloseInv'
  BY NextEdits, SerializedCleanup DEF RInv, WInv
<1>1. ASSUME NEW p \in Procs, Begin(p) \/ Step(p) \/ Event(p)
      PROVE  WorkInv' /\ IdInv' /\ SweepInv' /\ CloseInv'
  BY <1>1, WorkStep, IdStep, SweepStep, CloseStep DEF RInv, WInv, IInv
<1>2. ASSUME NEW s \in Sessions, Expire(s)
      PROVE  WorkInv' /\ IdInv' /\ SweepInv' /\ CloseInv'
  BY <1>2, StutterRemovals DEF Expire, runtimeVars, heapVars, closeVars
<1>3. CASE IntervalPasses
  BY <1>3, StutterRemovals DEF IntervalPasses, heapVars, diskVars, closeVars
<1>4. CASE UNCHANGED vars
  BY <1>4, StutterRemovals DEF vars, runtimeVars, heapVars, diskVars, closeVars
<1>. QED
  BY <1>1, <1>2, <1>3, <1>4 DEF Next, Finished

\* Hence it holds always.
LEMMA RemovalsInvariant == SerializedCleanup => (Spec => []RInv)
<1>. SUFFICES ASSUME SerializedCleanup PROVE Spec => []RInv
  OBVIOUS
<1>1. Init => RInv
  BY InitTypes, InitEdits, InitRemovals DEF RInv, WInv, IInv
<1>2. RInv /\ [Next]_vars => RInv'
  BY NextRemovals
<1>. QED
  BY <1>1, <1>2, PTL DEF Spec

\* A session whose entry in the map is closing has nobody inside; one whose
\* object has an empty active set besides has nobody at work at all.
LEMMA ClosingIsQuiet ==
    ASSUME RInv, NEW q \in Procs, NEW s \in Sessions,
           sessions[s] # NoState => closing[sessions[s]],
           sessions[s] # NoState => active[sessions[s]] = {}
    PROVE  ~Uses(q, s)
<1>. SUFFICES ASSUME Uses(q, s) PROVE FALSE
  OBVIOUS
<1>1. call[q].st \in States /\ call[q].st # NoState /\ call[q].s = s
  <2>1. call[q].st \in States /\ call[q].s = s
    BY DEF Uses, LockedLabels, RInv, WInv, IInv, TypeInv, CallInv, CallOK,
           SessionOps
  <2>. QED
    BY <2>1 DEF States, NoState
<1>2. CASE At(q, "running")
  BY <1>1, <1>2 DEF RInv, WInv, WorkInv
<1>3. CASE call[q].pc \in LockedLabels
  BY <1>1, <1>3 DEF RInv, WInv, IInv, EditInv, MutexInv, MapInv
<1>. QED
  BY <1>2, <1>3 DEF Uses, At

\* CleanupSession and Close remove a workspace only when nobody works in it:
\* between the last look at the active set and the removal, which Close makes
\* without the mutex, no call can come back to a closing object.
THEOREM RemovalsAreQuiet ==
    SerializedCleanup => (Spec => ExplicitRemovalIsQuiet)
<1>. SUFFICES ASSUME SerializedCleanup PROVE Spec => ExplicitRemovalIsQuiet
  OBVIOUS
<1>1. ASSUME RInv, NEW p \in Procs, NEW q \in Procs, NEW s \in Sessions,
             RemovesExplicitly(p, s)
      PROVE  ~Uses(q, s)
  <2>1. CASE At(p, "purge") /\ call[p].s = s
    <3>1. /\ sessions[s] = call[p].st /\ closing[call[p].st]
          /\ active[call[p].st] = {}
      BY <1>1, <2>1 DEF RInv, WInv, WorkInv, IInv, EditInv, MapInv,
                        CleanupLabels, At
    <3>. QED
      BY <1>1, <3>1, ClosingIsQuiet
  <2>2. CASE At(p, "closeRemove") /\ call[p].at = s
    <3>1. /\ closed /\ AllMarked /\ s \in pending /\ active[snapshot[s]] = {}
          /\ sessions[s] \in {snapshot[s], NoState}
      BY <1>1, <2>2 DEF RInv, CloseInv, CloseLabels, At
    <3>. QED
      BY <1>1, <3>1, ClosingIsQuiet DEF AllMarked
  <2>. QED
    BY <1>1, <2>1, <2>2 DEF RemovesExplicitly
<1>2. RInv /\ [Next]_vars =>
         [\A p, q \in Procs, s \in Sessions :
             RemovesExplicitly(p, s) => ~Uses(q, s)]_vars
  BY <1>1
<1>. QED
  BY <1>2, RemovalsInvariant, PTL DEF Spec, ExplicitRemovalIsQuiet

\* Once the Close that did the work has returned nil, nothing runs, nobody is
\* in a workspace, and no workspace that a call had claimed is left.
THEOREM CloseStopped == SerializedCleanup => (Spec => []CloseStopsAll)
<1>. SUFFICES ASSUME SerializedCleanup PROVE Spec => []CloseStopsAll
  OBVIOUS
<1>1. ASSUME RInv, closeResult = "nil", NEW p \in Procs, NEW s \in Sessions
      PROVE  /\ ~Uses(p, s)
             /\ (snapshot[s] # NoState /\ owned[snapshot[s]] /\ ~KeepOnClose)
                   => s \notin workspaces
  <2>1. /\ closed /\ AllMarked /\ sessions[s] \in {snapshot[s], NoState}
        /\ snapshot[s] # NoState => Stopped(s)
    BY <1>1 DEF RInv, CloseInv
  <2>. QED
    BY <1>1, <2>1, ClosingIsQuiet DEF AllMarked, Stopped
<1>2. RInv => CloseStopsAll
  BY <1>1 DEF CloseStopsAll
<1>. QED
  BY <1>2, RemovalsInvariant, PTL

\* After that no call that was under way makes a workspace again.
THEOREM ClosedStaysClosed == SerializedCleanup => (Spec => NothingRevives)
<1>. SUFFICES ASSUME SerializedCleanup PROVE Spec => NothingRevives
  OBVIOUS
<1>1. ASSUME RInv, Next, closeResult = "nil"
      PROVE  workspaces' \subseteq workspaces
  <2>1. ASSUME NEW p \in Procs, Begin(p) \/ Step(p) \/ Event(p),
               ~CloseStepOf(p)
        PROVE  workspaces' \subseteq workspaces
    <3>1. /\ workspaces' \subseteq Sessions
          /\ sessions \in [Sessions -> States \cup {NoState}]
      BY <1>1, NextTypes DEF RInv, WInv, IInv, TypeInv, TypeOK
    <3>2. CloseKept(p)
      BY <1>1, <2>1, OthersKeep DEF RInv
    <3>3. \A s \in Sessions : sessions[s] \in States =>
             closing[sessions[s]]
      BY <1>1 DEF RInv, CloseInv, AllMarked, States, NoState
    <3>. QED
      BY <3>1, <3>2, <3>3 DEF CloseKept
  <2>2. ASSUME NEW p \in Procs, CloseStepOf(p)
        PROVE  workspaces' \subseteq workspaces
    BY <2>2 DEF CloseStepOf, CloseBegin, CloseMark, CloseMarked, CloseQuiet,
                CloseRemove, CloseDone, CloseGiveUp, CloseRemoveFails,
                RemoveAll, RemoveAllFails, diskVars
  <2>3. ASSUME NEW s \in Sessions, Expire(s)
        PROVE  workspaces' \subseteq workspaces
    BY <2>3 DEF Expire
  <2>4. CASE IntervalPasses \/ Finished
    BY <2>4 DEF IntervalPasses, Finished, vars, diskVars
  <2>. QED
    BY <1>1, <2>1, <2>2, <2>3, <2>4 DEF Next
<1>2. RInv /\ [Next]_vars =>
         [closeResult = "nil" => workspaces' \subseteq workspaces]_vars
  BY <1>1
<1>. QED
  BY <1>2, RemovalsInvariant, PTL DEF Spec, NothingRevives

\* A sweep never removes the workspace of a command that ran when it listed
\* the root and still runs, whatever has happened to markers and the map.
THEOREM RunningIsSpared == SerializedCleanup => (Spec => SweepSparesRunning)
<1>. SUFFICES ASSUME SerializedCleanup PROVE Spec => SweepSparesRunning
  OBVIOUS
<1>1. RInv /\ [Next]_vars =>
         [\A p, q \in Procs :
             (/\ At(p, "remove") /\ call'[p].pc = "sweep"
              /\ At(q, "running") /\ call[q].s = call[p].at)
                 => call[q].id \notin call[p].seen]_vars
  BY DEF RInv, SweepInv
<1>. QED
  BY <1>1, RemovalsInvariant, PTL DEF Spec, SweepSparesRunning
=============================================================================
