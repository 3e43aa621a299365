--------------------------- MODULE AgentHostProofs ---------------------------
(***************************************************************************)
(* Theorems about AgentHost, for any runs, events, configurations and      *)
(* traces: what auto-save delivers to long-term memory, how spans are      *)
(* linked and what stays in the registry's maps, and what a server that    *)
(* returns without an error has seen to its end.                           *)
(*                                                                         *)
(* The proofs go from the inside out.  The plugin's actions come first,    *)
(* with no regard to the server around them; HostStep says that the server *)
(* does nothing else to the session and to memory, HostTrace says the same *)
(* of the registry and its traces.                                         *)
(***************************************************************************)
EXTENDS AgentHost, Integers, FiniteSetTheorems, SequenceTheorems, TLAPS

(***************************************************************************)
(* Types                                                                   *)
(***************************************************************************)

\* An event of a session.
Logged == [run : Runs, seq : 1..MaxEvents, content : Contents]

Stages == {"idle", "running", "saving", "recording", "saved"}

TypeInv ==
    /\ setup.backend \in Backends
    /\ log \in Seq(Logged)
    /\ view \in [Runs -> Seq(Logged)]
    /\ stage \in [Runs -> Stages]
    /\ batch \in [Runs -> [from : Nat, upto : Nat]]
    /\ saved \in Nat
    /\ copies \in [Event -> Nat]

\* What a step of the server does to the session and to memory.
SkipSave(r) ==
    /\ ~ Installed(AutoSavePlugin)
    /\ stage[r] = "running"
    /\ stage' = [stage EXCEPT ![r] = "saved"]
    /\ UNCHANGED <<setup, log, view, batch, saved, copies, acked, faults>>

RunStepOf(r) ==
    \/ StartRun(r)
    \/ \E content \in Contents : AppendEvent(r, content)
    \/ AfterRunRead(r)
    \/ AfterRunSave(r)
    \/ AfterRunRecord(r)

AutoStep ==
    \/ \E r \in Runs : RunStepOf(r) \/ SkipSave(r)
    \/ SaveSessionToLongTermMemory
    \/ RecreateSession
    \/ UNCHANGED autoVars

\* The events a run has appended are counted.
Own(r) == {i \in DOMAIN log : log[i].run = r}

\* What a run has appended so far is a number, and as many events are its own.
LEMMA AppendedTyped ==
    ASSUME TypeInv, NEW r \in Runs
    PROVE  IsFiniteSet(Own(r)) /\ Appended(r) = Cardinality(Own(r)) /\ Appended(r) \in Nat
<1>1. DOMAIN log = 1..Len(log) /\ Len(log) \in Nat
  BY DEF TypeInv
<1>2. IsFiniteSet(Own(r))
  <2>1. IsFiniteSet(1..Len(log)) /\ Own(r) \subseteq 1..Len(log)
    BY <1>1, FS_Interval DEF Own
  <2> QED
    BY <2>1, FS_Subset
<1> QED
  BY <1>2, FS_CardinalityType DEF Appended, Own

\* What a save may store is a part of what it was given.
LEMMA StoresAPart ==
    ASSUME NEW backend \in Backends, NEW events, NEW result \in SaveOutcomes(backend, events)
    PROVE  result.stored \subseteq events
<1>1. \/ result \in RedisSave(events)
      \/ result \in OpenSearchSave(events)
      \/ result \in Mem0Save(events)
      \/ result \in VikingSave(events)
  BY DEF SaveOutcomes, Backends
<1>2. ASSUME result = Complete(events) PROVE result.stored \subseteq events
  BY <1>2 DEF Complete
<1>3. ASSUME result \in RedisSave(events) PROVE result.stored \subseteq events
  BY <1>2, <1>3 DEF RedisSave
<1>4. ASSUME result \in OpenSearchSave(events) PROVE result.stored \subseteq events
  BY <1>2, <1>4 DEF OpenSearchSave
<1>5. ASSUME result \in Mem0Save(events) PROVE result.stored \subseteq events
  <2>1. {{}} \cup {{p \in events : p <= k} : k \in events} \subseteq SUBSET events
    OBVIOUS
  <2>2. ASSUME NEW parts \in SUBSET SUBSET events, NEW oks,
               result \in [stored : parts, ok : oks]
        PROVE  result.stored \subseteq events
    BY <2>2
  <2> QED
    BY <1>2, <1>5, <2>1, <2>2, Zenon DEF Mem0Save
<1>6. ASSUME result \in VikingSave(events) PROVE result.stored \subseteq events
  BY <1>2, <1>6 DEF VikingSave
<1> QED
  BY <1>1, <1>3, <1>4, <1>5, <1>6

\* A run's event comes last in the session and in the run's copy.
LEMMA Appends ==
    ASSUME TypeInv, NEW r \in Runs, NEW content \in Contents, AppendEvent(r, content)
    PROVE  /\ [run |-> r, seq |-> Appended(r) + 1, content |-> content] \in Logged
           /\ log' \in Seq(Logged) /\ Len(log') = Len(log) + 1
           /\ \A i \in 1..Len(log) : log'[i] = log[i]
           /\ log'[Len(log) + 1] = [run |-> r, seq |-> Appended(r) + 1, content |-> content]
           /\ view' \in [Runs -> Seq(Logged)]
           /\ view[r] = log => view'[r] = log'
           /\ \A q \in Runs : q # r => view'[q] = view[q]
<1> DEFINE event == [run |-> r, seq |-> Appended(r) + 1, content |-> content]
<1>1. event \in Logged
  BY AppendedTyped, MaxEventsAssumption DEF AppendEvent, Logged
<1>2. log' = Append(log, event) /\ view' = [view EXCEPT ![r] = Append(view[r], event)]
  BY DEF AppendEvent
<1>3. log \in Seq(Logged) /\ view \in [Runs -> Seq(Logged)]
  BY DEF TypeInv
<1> HIDE DEF event
<1>4. /\ log' \in Seq(Logged) /\ Len(log') = Len(log) + 1
      /\ \A i \in 1..Len(log) : log'[i] = log[i]
      /\ log'[Len(log) + 1] = event
  BY <1>1, <1>2, <1>3, AppendProperties
<1>5. Append(view[r], event) \in Seq(Logged)
  BY <1>1, <1>3, AppendProperties
<1>6. /\ view' \in [Runs -> Seq(Logged)]
      /\ view[r] = log => view'[r] = log'
      /\ \A q \in Runs : q # r => view'[q] = view[q]
  BY <1>2, <1>3, <1>5
<1> QED
  BY <1>1, <1>4, <1>6 DEF event

\* What is stored is counted once more, and nothing else is.
LEMMA CopiesTyped ==
    ASSUME TypeInv, NEW ids, AddCopies(ids)
    PROVE  copies' \in [Event -> Nat]
BY DEF TypeInv, AddCopies

\* The plugin keeps its types.
LEMMA TypeStep ==
    ASSUME TypeInv, AutoStep
    PROVE  TypeInv'
<1>1. ASSUME NEW r \in Runs, StartRun(r) PROVE TypeInv'
  BY <1>1 DEF StartRun, TypeInv, Stages
<1>2. ASSUME NEW r \in Runs, NEW content \in Contents, AppendEvent(r, content) PROVE TypeInv'
  BY <1>2, Appends DEF TypeInv, AppendEvent
<1>3. ASSUME NEW r \in Runs, AfterRunRead(r) PROVE TypeInv'
  <2>1. Len(view[r]) \in Nat /\ FirstUnsaved(Len(view[r])) \in Nat
    BY DEF TypeInv, FirstUnsaved
  <2>2. batch' \in [Runs -> [from : Nat, upto : Nat]]
    BY <1>3, <2>1 DEF AfterRunRead, TypeInv
  <2>3. stage' \in [Runs -> Stages]
    BY <1>3 DEF AfterRunRead, TypeInv, Stages
  <2> QED
    BY <1>3, <2>2, <2>3 DEF AfterRunRead, TypeInv
<1>4. ASSUME NEW r \in Runs, AfterRunSave(r) PROVE TypeInv'
  <2>1. PICK result : /\ AddCopies(Ids(view[r], result.stored))
                       /\ stage' = [stage EXCEPT ![r] = IF result.ok THEN "recording"
                                                                     ELSE "saved"]
    BY <1>4 DEF AfterRunSave
  <2>2. copies' \in [Event -> Nat] /\ stage' \in [Runs -> Stages]
    BY <2>1, CopiesTyped DEF TypeInv, Stages
  <2> QED
    BY <1>4, <2>2 DEF AfterRunSave, TypeInv
<1>5. ASSUME NEW r \in Runs, AfterRunRecord(r) PROVE TypeInv'
  BY <1>5 DEF AfterRunRecord, TypeInv, Stages
<1>6. ASSUME NEW r \in Runs, SkipSave(r) PROVE TypeInv'
  BY <1>6 DEF SkipSave, TypeInv, Stages
<1>7. ASSUME SaveSessionToLongTermMemory PROVE TypeInv'
  BY <1>7, CopiesTyped DEF SaveSessionToLongTermMemory, TypeInv
<1>8. ASSUME RecreateSession PROVE TypeInv'
  BY <1>8 DEF RecreateSession, TypeInv
<1>9. ASSUME UNCHANGED autoVars PROVE TypeInv'
  BY <1>9 DEF autoVars, TypeInv
<1> QED
  BY <1>1, <1>2, <1>3, <1>4, <1>5, <1>6, <1>7, <1>8, <1>9 DEF AutoStep, RunStepOf

(***************************************************************************)
(* No two events of a session have the same ID                             *)
(***************************************************************************)

IdInv ==
    \A r \in Runs :
        /\ \A i \in Own(r) : log[i].seq <= Appended(r)
        /\ \A i, j \in Own(r) : log[i].seq = log[j].seq => i = j

\* ... and it stays so: an event gets the number after those of its run.
LEMMA IdStep ==
    ASSUME TypeInv, IdInv, AutoStep
    PROVE  IdInv'
<1>1. ASSUME NEW r \in Runs, NEW content \in Contents, AppendEvent(r, content) PROVE IdInv'
  <2> DEFINE n == Len(log)
  <2>1. /\ n \in Nat /\ DOMAIN log = 1..n /\ DOMAIN log' = 1..(n + 1)
        /\ \A i \in 1..n : log'[i] = log[i] /\ log[i] \in Logged
        /\ log'[n + 1].run = r /\ log'[n + 1].seq = Appended(r) + 1
    <3> DEFINE event == [run |-> r, seq |-> Appended(r) + 1, content |-> content]
    <3>1. event.run = r /\ event.seq = Appended(r) + 1
      OBVIOUS
    <3>2. /\ log' \in Seq(Logged) /\ Len(log') = Len(log) + 1
          /\ \A i \in 1..Len(log) : log'[i] = log[i]
          /\ log'[Len(log) + 1] = event
      BY <1>1, Appends
    <3> HIDE DEF event
    <3> QED
      BY <3>1, <3>2 DEF TypeInv
  <2>2. Own(r)' = Own(r) \cup {n + 1} /\ n + 1 \notin Own(r)
    BY <2>1 DEF Own
  <2>3. \A q \in Runs : q # r => Own(q)' = Own(q)
    BY <2>1 DEF Own
  <2>4. /\ \A q \in Runs : Appended(q) = Cardinality(Own(q)) /\ Appended(q) \in Nat
        /\ \A q \in Runs : Appended(q)' = Cardinality(Own(q)')
    BY AppendedTyped DEF Appended, Own
  <2>5. Appended(r)' = Appended(r) + 1
    BY <2>2, <2>4, AppendedTyped, FS_AddElement
  <2>6. \A q \in Runs : q # r => Appended(q)' = Appended(q)
    BY <2>3, <2>4
  <2>7. \A q \in Runs : \A i \in Own(q) : log'[i] = log[i] /\ log[i].seq \in Nat
    BY <2>1 DEF Own, Logged
  <2> HIDE DEF n
  <2>8. ASSUME NEW q \in Runs
        PROVE  /\ \A i \in Own(q)' : log'[i].seq <= Appended(q)'
               /\ \A i, j \in Own(q)' : log'[i].seq = log'[j].seq => i = j
    <3>1. CASE q = r
      BY <2>1, <2>2, <2>4, <2>5, <2>7, <3>1 DEF IdInv
    <3>2. CASE q # r
      BY <2>3, <2>6, <2>7, <3>2 DEF IdInv
    <3> QED
      BY <3>1, <3>2
  <2> QED
    BY <2>8 DEF IdInv
<1>2. ASSUME UNCHANGED log \/ log' = <<>> PROVE IdInv'
  BY <1>2 DEF IdInv, Appended, Own
<1>3. ASSUME NEW r \in Runs, SkipSave(r) \/ StartRun(r) \/ AfterRunRead(r) \/ AfterRunSave(r)
                             \/ AfterRunRecord(r)
      PROVE  UNCHANGED log
  BY <1>3 DEF SkipSave, StartRun, AfterRunRead, AfterRunSave, AfterRunRecord
<1>4. ASSUME SaveSessionToLongTermMemory \/ RecreateSession \/ UNCHANGED autoVars
      PROVE  UNCHANGED log \/ log' = <<>>
  BY <1>4 DEF SaveSessionToLongTermMemory, RecreateSession, autoVars
<1> QED
  BY <1>1, <1>2, <1>3, <1>4 DEF AutoStep, RunStepOf

(***************************************************************************)
(* Runs of a session that follow one another                               *)
(***************************************************************************)

\* How far the plugin has come, or will have come when the run that has saved
\* has recorded it.
Reach == IF \E r \in Runs : stage[r] = "recording" THEN Len(log) ELSE saved

\* The IDs of what the policy keeps of the first n events.
Covered(n) == {Id(log[i]) : i \in {j \in 1..n : Remembered(log[j])}}

\* One run at a time is under way, it has the session as it is, and it saves
\* what the session has gained since the last save.
OneRun ==
    /\ \A p, q \in Runs : Active(p) /\ Active(q) => p = q
    /\ \A p \in Runs : Active(p) => view[p] = log
    /\ saved <= Len(log)
    /\ \A p \in Runs : stage[p] \in {"saving", "recording"} =>
          batch[p].from = saved /\ batch[p].upto = Len(log)

SeqInv == Sequential => OneRun /\ acked = Covered(Reach)

\* Faults stay.
LEMMA FaultsGrow ==
    ASSUME AutoStep
    PROVE  faults \subseteq faults'
<1>1. ASSUME NEW r \in Runs, RunStepOf(r) \/ SkipSave(r) PROVE faults \subseteq faults'
  BY <1>1 DEF RunStepOf, SkipSave, StartRun, AppendEvent, AfterRunRead, AfterRunSave,
              AfterRunRecord
<1> QED
  BY <1>1 DEF AutoStep, SaveSessionToLongTermMemory, RecreateSession, autoVars

\* Nobody has saved without recording it when the one run at work has not.
LEMMA ReachSaved ==
    ASSUME OneRun, NEW r \in Runs, stage[r] \in {"running", "saving"}
    PROVE  Reach = saved
BY DEF OneRun, Active, Reach

\* A run that starts while another is at work is noted as an overlap.
LEMMA OneRunStep ==
    ASSUME TypeInv, Sequential, OneRun, Sequential', AutoStep
    PROVE  OneRun'
<1> USE DEF Active
<1>0. /\ Len(log) \in Nat /\ saved \in Nat /\ saved <= Len(log)
      /\ stage \in [Runs -> Stages]
  BY DEF TypeInv, OneRun
<1>1. ASSUME NEW r \in Runs, StartRun(r) PROVE OneRun'
  <2>1. /\ \A q \in Runs : ~ Active(q)
        /\ stage' = [stage EXCEPT ![r] = "running"]
        /\ view' = [view EXCEPT ![r] = log]
        /\ UNCHANGED <<log, batch, saved>>
    BY <1>1, Zenon DEF StartRun, Sequential
  <2> QED
    BY <1>0, <2>1 DEF OneRun, TypeInv
<1>2. ASSUME NEW r \in Runs, NEW content \in Contents, AppendEvent(r, content) PROVE OneRun'
  <2>1. /\ Len(log') = Len(log) + 1
        /\ view[r] = log => view'[r] = log'
    BY <1>2, Appends
  <2>2. stage[r] = "running" /\ UNCHANGED <<stage, batch, saved>>
    BY <1>2 DEF AppendEvent
  <2> QED
    BY <1>0, <2>1, <2>2 DEF OneRun
<1>3. ASSUME NEW r \in Runs, AfterRunRead(r) PROVE OneRun'
  <2>1. /\ stage[r] = "running" /\ view[r] = log
        /\ FirstUnsaved(Len(view[r])) = saved
    BY <1>0, <1>3 DEF AfterRunRead, OneRun, FirstUnsaved
  <2>2. /\ batch' = [batch EXCEPT ![r] = [from |-> saved, upto |-> Len(log)]]
        /\ stage' = [stage EXCEPT ![r] = IF saved = Len(log) THEN "saved" ELSE "saving"]
        /\ UNCHANGED <<log, view, saved>>
    BY <1>3, <2>1 DEF AfterRunRead
  <2> QED
    BY <1>0, <2>1, <2>2 DEF OneRun, TypeInv
<1>4. ASSUME NEW r \in Runs, AfterRunSave(r) PROVE OneRun'
  <2>1. /\ stage[r] = "saving"
        /\ \E next \in {"recording", "saved"} : stage' = [stage EXCEPT ![r] = next]
        /\ UNCHANGED <<log, view, batch, saved>>
    BY <1>4 DEF AfterRunSave
  <2> QED
    BY <1>0, <2>1 DEF OneRun
<1>5. ASSUME NEW r \in Runs, AfterRunRecord(r) PROVE OneRun'
  <2>1. stage[r] = "recording" /\ batch[r].upto = Len(log)
    BY <1>5 DEF AfterRunRecord, OneRun
  <2>2. /\ saved' = Len(log) /\ stage' = [stage EXCEPT ![r] = "saved"]
        /\ UNCHANGED <<log, view, batch>>
    BY <1>0, <1>5, <2>1 DEF AfterRunRecord
  <2> QED
    BY <1>0, <2>1, <2>2 DEF OneRun
<1>6. ASSUME NEW r \in Runs, SkipSave(r) PROVE OneRun'
  BY <1>0, <1>6 DEF SkipSave, OneRun
<1>7. ASSUME SaveSessionToLongTermMemory \/ UNCHANGED autoVars PROVE OneRun'
  BY <1>7 DEF SaveSessionToLongTermMemory, autoVars, OneRun
<1>8. ASSUME RecreateSession PROVE FALSE
  BY <1>8 DEF RecreateSession, Sequential
<1> QED
  BY <1>1, <1>2, <1>3, <1>4, <1>5, <1>6, <1>7, <1>8 DEF AutoStep, RunStepOf

\* What was acknowledged, on the way from one step to the next: a save that
\* returns no error adds all up to the end of the session, nothing else counts.
LEMMA AckedStep ==
    ASSUME TypeInv, Sequential, OneRun, acked = Covered(Reach), Sequential', AutoStep
    PROVE  /\ acked' = Covered(Reach)'
           /\ \/ UNCHANGED acked
              \/ UNCHANGED log /\ acked \subseteq acked' /\ acked' = Covered(Len(log))
<1> USE DEF Active
<1>0. /\ Len(log) \in Nat /\ saved \in Nat /\ saved <= Len(log)
      /\ stage \in [Runs -> Stages] /\ OneRun'
  BY OneRunStep DEF TypeInv, OneRun
<1> DEFINE Same == UNCHANGED acked /\ acked' = Covered(Reach)'
<1>1. ASSUME NEW r \in Runs, StartRun(r) PROVE Same
  <2>1. /\ \A q \in Runs : ~ Active(q)
        /\ stage' = [stage EXCEPT ![r] = "running"]
        /\ UNCHANGED <<setup, log, saved, acked>>
    BY <1>1, Zenon DEF StartRun, Sequential
  <2>2. Reach' = Reach
    BY <1>0, <2>1 DEF Reach
  <2> QED
    BY <2>1, <2>2 DEF Covered, Remembered, Policy
<1>2. ASSUME NEW r \in Runs, NEW content \in Contents, AppendEvent(r, content) PROVE Same
  <2>1. \A i \in 1..Len(log) : log'[i] = log[i]
    BY <1>2, Appends
  <2>2. stage[r] = "running" /\ UNCHANGED <<setup, stage, saved, acked>>
    BY <1>2 DEF AppendEvent
  <2>3. Reach = saved /\ Reach' = saved
    BY <2>2, ReachSaved DEF Reach, OneRun
  <2>4. \A i \in 1..saved : log'[i] = log[i]
    BY <1>0, <2>1
  <2>5. Covered(saved)' = Covered(saved)
    BY <2>2, <2>4 DEF Covered, Remembered, Policy
  <2> QED
    BY <2>2, <2>3, <2>5
<1>3. ASSUME NEW r \in Runs, AfterRunRead(r) PROVE Same
  <2>1. /\ stage[r] = "running" /\ UNCHANGED <<setup, log, saved, acked>>
        /\ \E next \in {"saved", "saving"} : stage' = [stage EXCEPT ![r] = next]
    BY <1>3 DEF AfterRunRead
  <2>2. Reach' = Reach
    BY <1>0, <2>1 DEF Reach
  <2> QED
    BY <2>1, <2>2 DEF Covered, Remembered, Policy
<1>4. ASSUME NEW r \in Runs, AfterRunSave(r)
      PROVE  \/ Same
             \/ /\ acked' = Covered(Reach)' /\ acked \subseteq acked'
                /\ UNCHANGED log /\ acked' = Covered(Len(log))
  <2> DEFINE kept == Kept(view[r], batch[r].from, batch[r].upto)
  <2>1. PICK result \in SaveOutcomes(setup.backend, kept) :
           /\ acked' = acked \cup (IF result.ok THEN Ids(view[r], kept) ELSE {})
           /\ stage' = [stage EXCEPT ![r] = IF result.ok THEN "recording" ELSE "saved"]
    BY <1>4, Zenon DEF AfterRunSave
  <2>2. stage[r] = "saving" /\ UNCHANGED <<setup, log, view, saved>>
    BY <1>4 DEF AfterRunSave
  <2>3. view[r] = log /\ batch[r].from = saved /\ batch[r].upto = Len(log)
    BY <2>2 DEF OneRun
  <2>4. acked = Covered(saved)
    BY <2>2, ReachSaved
  <2>5. CASE ~ result.ok
    <3>1. Reach' = Reach /\ UNCHANGED acked
      BY <1>0, <2>1, <2>2, <2>5 DEF Reach
    <3> QED
      BY <2>2, <3>1 DEF Covered, Remembered, Policy
  <2>6. CASE result.ok
    <3>1. Reach' = Len(log)
      BY <1>0, <2>1, <2>2, <2>6 DEF Reach
    <3>2. kept = {i \in (saved + 1)..Len(log) : Remembered(log[i])}
      BY <2>3 DEF Kept
    <3>3. {i \in 1..Len(log) : Remembered(log[i])}
             = {i \in 1..saved : Remembered(log[i])} \cup kept
      <4>1. 1..Len(log) = 1..saved \cup (saved + 1)..Len(log)
        BY <1>0
      <4> HIDE DEF kept
      <4> QED
        BY <3>2, <4>1
    <3>4. Covered(Len(log)) = Covered(saved) \cup Ids(log, kept)
      BY <3>3 DEF Covered, Ids
    <3>5. acked' = Covered(Len(log)) /\ acked \subseteq acked'
      BY <2>1, <2>3, <2>4, <2>6, <3>4
    <3>6. acked' = Covered(Reach)'
      BY <2>2, <3>1, <3>5 DEF Covered, Remembered, Policy
    <3> QED
      BY <2>2, <3>5, <3>6
  <2> QED
    BY <2>5, <2>6
<1>5. ASSUME NEW r \in Runs, AfterRunRecord(r) PROVE Same
  <2>1. stage[r] = "recording" /\ batch[r].upto = Len(log)
    BY <1>5 DEF AfterRunRecord, OneRun
  <2>2. /\ saved' = Len(log) /\ stage' = [stage EXCEPT ![r] = "saved"]
        /\ UNCHANGED <<setup, log, acked>>
    BY <1>0, <1>5, <2>1 DEF AfterRunRecord
  <2>3. Reach' = Reach
    BY <2>1, <2>2 DEF Reach
  <2> QED
    BY <2>2, <2>3 DEF Covered, Remembered, Policy
<1>6. ASSUME NEW r \in Runs, SkipSave(r) PROVE Same
  <2>1. /\ stage[r] = "running" /\ stage' = [stage EXCEPT ![r] = "saved"]
        /\ UNCHANGED <<setup, log, saved, acked>>
    BY <1>6 DEF SkipSave
  <2>2. Reach' = Reach
    BY <1>0, <2>1 DEF Reach
  <2> QED
    BY <2>1, <2>2 DEF Covered, Remembered, Policy
<1>7. ASSUME SaveSessionToLongTermMemory \/ UNCHANGED autoVars PROVE Same
  <2>1. UNCHANGED <<setup, log, stage, saved, acked>>
    BY <1>7 DEF SaveSessionToLongTermMemory, autoVars
  <2> QED
    BY <2>1 DEF Reach, Covered, Remembered, Policy
<1>8. ASSUME RecreateSession PROVE FALSE
  BY <1>8 DEF RecreateSession, Sequential
<1> QED
  BY <1>1, <1>2, <1>3, <1>4, <1>5, <1>6, <1>7, <1>8 DEF AutoStep, RunStepOf

\* In a session whose runs follow one another, what is acknowledged stays all that
\* the policy keeps, up to what the plugin has reached.
LEMMA SeqStep ==
    ASSUME TypeInv, SeqInv, AutoStep
    PROVE  SeqInv'
<1>1. Sequential' => Sequential
  BY FaultsGrow DEF Sequential
<1> QED
  BY <1>1, OneRunStep, AckedStep DEF SeqInv

(***************************************************************************)
(* Nothing is stored twice                                                 *)
(***************************************************************************)

\* If nothing went wrong, an event is in memory at most once, and only if the
\* plugin has come to it.
Regular == faults \subseteq {"refused"}

\* The plugin has come to this event.
Stored(e) == \E i \in 1..Reach : log[i].run = e.run /\ log[i].seq = e.seq

CopyInv ==
    Regular => \A e \in Event : copies[e] <= 1 /\ (copies[e] = 1 => Stored(e))

\* A step that stores nothing and that the plugin does not fall behind with.
LEMMA KeepsCopies ==
    ASSUME TypeInv, CopyInv, Regular, UNCHANGED copies, Reach \in Nat, Reach' \in Nat,
           Reach <= Reach', \A i \in 1..Reach : log'[i] = log[i]
    PROVE  CopyInv'
<1>1. \A e \in Event : Stored(e) => Stored(e)'
  BY DEF Stored
<1> QED
  BY <1>1 DEF CopyInv

\* A save writes what is new since the last one: no event gets a second copy.
LEMMA CopyStep ==
    ASSUME TypeInv, IdInv, SeqInv, CopyInv, AutoStep
    PROVE  CopyInv'
<1> SUFFICES ASSUME Regular' PROVE CopyInv'
  BY DEF CopyInv
<1> USE DEF Active
<1>0. /\ Regular /\ Sequential /\ Sequential' /\ OneRun /\ OneRun'
      /\ Len(log) \in Nat /\ saved \in Nat /\ saved <= Len(log)
      /\ stage \in [Runs -> Stages]
  <2>1. Regular /\ Sequential /\ Sequential'
    BY FaultsGrow DEF Regular, Sequential
  <2> QED
    BY <2>1, OneRunStep DEF SeqInv, OneRun, TypeInv
<1>a. Reach \in Nat /\ Reach <= Len(log)
  BY <1>0 DEF Reach
<1>1. ASSUME NEW r \in Runs, StartRun(r) PROVE CopyInv'
  <2>1. /\ \A q \in Runs : ~ Active(q)
        /\ stage' = [stage EXCEPT ![r] = "running"]
        /\ UNCHANGED <<log, saved, copies>>
    BY <1>0, <1>1, Zenon DEF StartRun, Sequential
  <2>2. Reach' = Reach
    BY <1>0, <2>1 DEF Reach
  <2> QED
    BY <1>0, <1>a, <2>1, <2>2, KeepsCopies
<1>2. ASSUME NEW r \in Runs, NEW content \in Contents, AppendEvent(r, content) PROVE CopyInv'
  <2>1. \A i \in 1..Len(log) : log'[i] = log[i]
    BY <1>2, Appends
  <2>2. stage[r] = "running" /\ UNCHANGED <<stage, saved, copies>>
    BY <1>2 DEF AppendEvent
  <2>3. Reach = saved /\ Reach' = saved
    BY <1>0, <2>2, ReachSaved DEF Reach, OneRun
  <2> QED
    BY <1>0, <1>a, <2>1, <2>2, <2>3, KeepsCopies
<1>3. ASSUME NEW r \in Runs, AfterRunRead(r) \/ SkipSave(r) PROVE CopyInv'
  <2>1. /\ stage[r] = "running" /\ UNCHANGED <<log, saved, copies>>
        /\ \E next \in {"saved", "saving"} : stage' = [stage EXCEPT ![r] = next]
    BY <1>3 DEF AfterRunRead, SkipSave
  <2>2. Reach' = Reach
    BY <1>0, <2>1 DEF Reach
  <2> QED
    BY <1>0, <1>a, <2>1, <2>2, KeepsCopies
<1>4. ASSUME NEW r \in Runs, AfterRunSave(r) PROVE CopyInv'
  <2> DEFINE kept == Kept(view[r], batch[r].from, batch[r].upto)
  <2>1. PICK result \in SaveOutcomes(setup.backend, kept) :
           /\ AddCopies(Ids(view[r], result.stored))
           /\ faults' = faults
                \cup (IF result.ok THEN {} ELSE {"failed"})
                \cup (IF result.ok /\ result.stored # kept THEN {"refused"} ELSE {})
           /\ stage' = [stage EXCEPT ![r] = IF result.ok THEN "recording" ELSE "saved"]
    BY <1>4, Zenon DEF AfterRunSave
  <2>2. stage[r] = "saving" /\ UNCHANGED <<log, saved>>
    BY <1>4 DEF AfterRunSave
  <2>3. view[r] = log /\ batch[r].from = saved /\ batch[r].upto = Len(log)
    BY <1>0, <2>2 DEF OneRun
  <2>4. result.ok
    BY <2>1 DEF Regular
  <2>5. Reach = saved /\ Reach' = Len(log)
    BY <1>0, <2>1, <2>2, <2>4, ReachSaved DEF Reach
  <2>6. result.stored \subseteq (saved + 1)..Len(log)
    <3>1. kept \subseteq (saved + 1)..Len(log)
      BY <2>3 DEF Kept
    <3> HIDE DEF kept
    <3> QED
      BY <2>1, <3>1, StoresAPart DEF TypeInv
  <2>7. ASSUME NEW e \in Event
        PROVE  copies'[e] <= 1 /\ (copies'[e] = 1 => Stored(e)')
    <3>1. copies[e] \in Nat /\ copies[e] <= 1 /\ (copies[e] = 1 => Stored(e))
      BY <1>0 DEF CopyInv, TypeInv
    <3>2. CASE e \notin Ids(log, result.stored)
      <4>1. copies'[e] = copies[e]
        BY <2>1, <2>3, <3>1, <3>2 DEF AddCopies
      <4>2. Stored(e) => Stored(e)'
        BY <1>0, <2>2, <2>5 DEF Stored
      <4> QED
        BY <3>1, <4>1, <4>2
    <3>3. CASE e \in Ids(log, result.stored)
      <4>1. PICK i \in result.stored : e = Id(log[i])
        BY <3>3 DEF Ids
      <4>2. i \in 1..Len(log) /\ i > saved /\ log[i].run = e.run /\ log[i].seq = e.seq
        BY <1>0, <2>6, <4>1 DEF Id
      <4>3. ~ Stored(e)
        <5> SUFFICES ASSUME NEW j \in 1..saved, log[j].run = e.run, log[j].seq = e.seq
                     PROVE  FALSE
          BY <2>5 DEF Stored
        <5>1. DOMAIN log = 1..Len(log) /\ e.run \in Runs
          BY <4>2 DEF TypeInv, Event
        <5>2. i \in Own(e.run) /\ j \in Own(e.run)
          BY <1>0, <4>2, <5>1 DEF Own
        <5> QED
          BY <1>0, <4>2, <5>1, <5>2 DEF IdInv
      <4>4. copies[e] = 0
        BY <3>1, <4>3
      <4>5. copies'[e] = 1
        BY <2>1, <2>3, <3>3, <4>4 DEF AddCopies
      <4>6. Stored(e)'
        BY <2>2, <2>5, <4>2 DEF Stored
      <4> QED
        BY <4>5, <4>6
    <3> QED
      BY <3>2, <3>3
  <2> QED
    BY <2>7 DEF CopyInv
<1>5. ASSUME NEW r \in Runs, AfterRunRecord(r) PROVE CopyInv'
  <2>1. stage[r] = "recording" /\ batch[r].upto = Len(log)
    BY <1>0, <1>5 DEF AfterRunRecord, OneRun
  <2>2. /\ saved' = Len(log) /\ stage' = [stage EXCEPT ![r] = "saved"]
        /\ UNCHANGED <<log, copies>>
    BY <1>0, <1>5, <2>1 DEF AfterRunRecord
  <2>3. Reach' = Reach
    BY <2>1, <2>2 DEF Reach
  <2> QED
    BY <1>0, <1>a, <2>2, <2>3, KeepsCopies
<1>6. ASSUME SaveSessionToLongTermMemory \/ RecreateSession PROVE FALSE
  BY <1>6 DEF SaveSessionToLongTermMemory, RecreateSession, Regular
<1>7. ASSUME UNCHANGED autoVars PROVE CopyInv'
  <2>1. UNCHANGED <<log, stage, saved, copies>>
    BY <1>7 DEF autoVars
  <2>2. Reach' = Reach
    BY <2>1 DEF Reach
  <2> QED
    BY <1>0, <1>a, <2>1, <2>2, KeepsCopies
<1> QED
  BY <1>1, <1>2, <1>3, <1>4, <1>5, <1>6, <1>7 DEF AutoStep, RunStepOf

(***************************************************************************)
(* What is acknowledged is what Delivery promises                          *)
(***************************************************************************)

\* All that is wanted is covered once the plugin has come to the end.
LEMMA DeliversAll ==
    ASSUME TypeInv
    PROVE  Covered(Len(log)) = {w.id : w \in WantedEvents}
<1>1. DOMAIN log = 1..Len(log) /\ Len(log) \in Nat
  BY DEF TypeInv
<1>2. ASSUME NEW id \in Covered(Len(log)) PROVE id \in {w.id : w \in WantedEvents}
  <2>1. PICK i \in DOMAIN log : Remembered(log[i]) /\ id = Id(log[i])
    BY <1>1, <1>2 DEF Covered
  <2>2. [at |-> i, id |-> Id(log[i])] \in WantedEvents
    BY <2>1 DEF WantedEvents
  <2> QED
    BY <2>1, <2>2
<1>3. ASSUME NEW w \in WantedEvents PROVE w.id \in Covered(Len(log))
  <2>1. PICK i \in DOMAIN log : Remembered(log[i]) /\ w = [at |-> i, id |-> Id(log[i])]
    BY <1>3 DEF WantedEvents
  <2> QED
    BY <1>1, <2>1 DEF Covered
<1> QED
  BY <1>2, <1>3

\* An event that is appended is wanted if the policy keeps it.
LEMMA WantsStep ==
    ASSUME TypeInv, NEW r \in Runs, NEW content \in Contents, AppendEvent(r, content)
    PROVE  \/ UNCHANGED WantedEvents
           \/ \E e \in WantedEvents' :
                 /\ WantedEvents' = WantedEvents \cup {e}
                 /\ \A w \in WantedEvents : w.at < e.at
<1>0. PICK n \in Nat : n = Len(log)
  BY DEF TypeInv
<1> DEFINE Item(i) == [at |-> i, id |-> Id(log[i])]
           e == [at |-> n + 1, id |-> Id(log'[n + 1])]
           Place(i) == Remembered(log[i])
<1>1. /\ n \in Nat /\ DOMAIN log = 1..n /\ DOMAIN log' = 1..(n + 1)
      /\ \A i \in 1..n : log'[i] = log[i]
      /\ UNCHANGED setup
  BY <1>0, Appends DEF TypeInv, AppendEvent
<1>2. \A w \in WantedEvents : w.at < n + 1
  BY <1>1 DEF WantedEvents
<1>3. \A i \in 1..n : Place(i)' <=> Place(i)
  BY <1>1 DEF Remembered, Policy
<1>4. WantedEvents = {Item(i) : i \in {j \in 1..n : Place(j)}}
  BY <1>1 DEF WantedEvents
<1>5. WantedEvents' = {[at |-> i, id |-> Id(log'[i])] : i \in {j \in 1..(n + 1) : Place(j)'}}
  BY <1>1 DEF WantedEvents
<1>6. CASE Place(n + 1)'
  <2>1. {j \in 1..(n + 1) : Place(j)'} = {j \in 1..n : Place(j)} \cup {n + 1}
    BY <1>1, <1>3, <1>6
  <2>2. WantedEvents' = WantedEvents \cup {e}
    BY <1>1, <1>4, <1>5, <2>1
  <2> QED
    BY <1>2, <2>2
<1>7. CASE ~ Place(n + 1)'
  <2>1. {j \in 1..(n + 1) : Place(j)'} = {j \in 1..n : Place(j)}
    BY <1>1, <1>3, <1>7
  <2> QED
    BY <1>1, <1>4, <1>5, <2>1
<1> QED
  BY <1>6, <1>7

\* Every step is one that Delivery allows.
LEMMA DeliveryStep ==
    ASSUME TypeInv, SeqInv, AutoStep
    PROVE  [Promised!DeliveryNext]_(Promised!deliveryVars)
<1>1. CASE ~ Sequential'
  BY <1>1 DEF Promised!DeliveryNext, Promised!Disturb
<1>2. CASE Sequential'
  <2>1. Sequential /\ OneRun /\ acked = Covered(Reach)
    BY <1>2, FaultsGrow DEF Sequential, SeqInv
  <2>2. (~ Sequential)' = (~ Sequential)
    BY <1>2, <2>1
  <2>3. /\ acked' = Covered(Reach)'
        /\ \/ UNCHANGED acked
           \/ UNCHANGED log /\ acked \subseteq acked' /\ acked' = Covered(Len(log))
    BY <1>2, <2>1, AckedStep
  <2>4. ASSUME NEW r \in Runs, NEW content \in Contents, AppendEvent(r, content)
        PROVE  UNCHANGED WantedEvents \/ Promised!Want
    <3>1. UNCHANGED acked
      BY <2>4 DEF AppendEvent
    <3> QED
      BY <2>2, <2>4, <3>1, WantsStep DEF Promised!Want
  <2>5. CASE \E r \in Runs, content \in Contents : AppendEvent(r, content)
    <3>1. UNCHANGED acked
      BY <2>5 DEF AppendEvent
    <3> QED
      BY <2>2, <2>4, <2>5, <3>1 DEF Promised!DeliveryNext, Promised!deliveryVars
  <2>6. CASE ~ \E r \in Runs, content \in Contents : AppendEvent(r, content)
    <3>1. UNCHANGED <<setup, log>>
      <4>1. ASSUME NEW r \in Runs, SkipSave(r) \/ StartRun(r) \/ AfterRunRead(r)
                                   \/ AfterRunSave(r) \/ AfterRunRecord(r)
            PROVE  UNCHANGED <<setup, log>>
        BY <4>1 DEF SkipSave, StartRun, AfterRunRead, AfterRunSave, AfterRunRecord
      <4>2. ASSUME SaveSessionToLongTermMemory \/ UNCHANGED autoVars
            PROVE  UNCHANGED <<setup, log>>
        BY <4>2 DEF SaveSessionToLongTermMemory, autoVars
      <4>3. ASSUME RecreateSession PROVE FALSE
        BY <1>2, <4>3 DEF RecreateSession, Sequential
      <4> QED
        BY <2>6, <4>1, <4>2, <4>3 DEF AutoStep, RunStepOf
    <3>2. UNCHANGED WantedEvents
      BY <3>1 DEF WantedEvents, Remembered, Policy
    <3>3. CASE UNCHANGED acked
      BY <2>2, <3>2, <3>3 DEF Promised!deliveryVars
    <3>4. CASE acked \subseteq acked' /\ acked' = Covered(Len(log))
      <4>1. /\ WantedEvents \in SUBSET WantedEvents
            /\ \A e, w \in WantedEvents : w.at < e.at => w \in WantedEvents
            /\ acked' = {e.id : e \in WantedEvents}
        BY <3>4, DeliversAll
      <4>2. \E part \in SUBSET WantedEvents :
               /\ \A e \in part, w \in WantedEvents : w.at < e.at => w \in part
               /\ acked' = {e.id : e \in part}
        BY <4>1, Zenon
      <4>3. Promised!Deliver
        BY <2>2, <3>2, <3>4, <4>2, Zenon DEF Promised!Deliver
      <4> QED
        BY <4>3 DEF Promised!DeliveryNext
    <3> QED
      BY <2>3, <3>3, <3>4
  <2> QED
    BY <2>5, <2>6
<1> QED
  BY <1>1, <1>2

(***************************************************************************)
(* The server around the plugin                                            *)
(***************************************************************************)

\* A configuration, whatever its plugins are.
RunConfig(c) ==
    c \in [autoSave : BOOLEAN, memory : BOOLEAN, observability : BOOLEAN,
          plugins : {c.plugins}, backend : Backends, policy : Policies,
          requests : SUBSET Runs, contexts : SUBSET Contexts, contents : SUBSET Contents,
          calls : SUBSET CallIDs, kinds : SUBSET Kinds, detach : BOOLEAN]

ConfigInv == RunConfig(config)

\* Whatever the server does is one of those steps for the session and memory.
LEMMA HostStep ==
    ASSUME ConfigInv, [HostNext]_vars
    PROVE  AutoStep
<1> USE DEF AutoStep
<1>1. ASSUME SetupFails \/ SetupDone \/ RoutersFail \/ ServeFails \/ Signal \/ ShutdownServer
             \/ ShutdownTimeout \/ FlushBegin \/ FlushEnd \/ NothingToFlush \/ Background
      PROVE  UNCHANGED autoVars
  BY <1>1, Zenon DEF SetupFails, SetupDone, RoutersFail, ServeFails, Signal, ShutdownServer,
     ShutdownTimeout, FlushBegin, FlushEnd, NothingToFlush, Background, Stop
<1>2. ASSUME NEW r \in Runs, HandleRequest(r) \/ RunCallbacks(r) \/ AfterRunObservability(r)
                             \/ Answer(r)
      PROVE  UNCHANGED autoVars
  BY <1>2, Zenon DEF HandleRequest, RunCallbacks, AfterRunObservability, Answer
<1>3. ASSUME NEW r \in Runs, RunAgent(r) PROVE StartRun(r)
  BY <1>3 DEF RunAgent
<1>4. ASSUME NEW r \in Runs, RunEvent(r) PROVE \E content \in Contents : AppendEvent(r, content)
  <2>1. config.contents \subseteq Contents
    BY DEF ConfigInv, RunConfig
  <2> QED
    BY <1>4, <2>1 DEF RunEvent
<1>5. ASSUME NEW r \in Runs, AfterRunAutoSave(r) PROVE RunStepOf(r)
  BY <1>5 DEF AfterRunAutoSave, RunStepOf
<1>6. ASSUME NEW r \in Runs, AfterRunNoAutoSave(r) PROVE SkipSave(r)
  BY <1>6 DEF AfterRunNoAutoSave, SkipSave
<1>7. ASSUME SessionRequest PROVE SaveSessionToLongTermMemory \/ RecreateSession
  BY <1>7 DEF SessionRequest
<1>8. ASSUME UNCHANGED vars PROVE UNCHANGED autoVars
  BY <1>8 DEF vars
<1> QED
  BY <1>1, <1>2, <1>3, <1>4, <1>5, <1>6, <1>7, <1>8 DEF HostNext, RunStepOf

\* Only the setup completes the configuration.
LEMMA SetupConfig ==
    ASSUME ConfigInv
    PROVE  RunConfig(AppendObservability(NormalizeMemory(config)))
<1>1. ASSUME NEW c, RunConfig(c), NEW plugins PROVE RunConfig([c EXCEPT !.plugins = plugins])
  BY <1>1 DEF RunConfig
<1>2. ASSUME NEW c, RunConfig(c) PROVE RunConfig(NormalizeMemory(c))
  BY <1>1, <1>2 DEF NormalizeMemory
<1>3. ASSUME NEW c, RunConfig(c) PROVE RunConfig(AppendObservability(c))
  BY <1>1, <1>3 DEF AppendObservability
<1> QED
  BY <1>2, <1>3 DEF ConfigInv

\* The configuration is one that Run may get,
LEMMA FirstConfig == HostInit => ConfigInv
<1>1. ASSUME NEW c \in Configs PROVE RunConfig(c)
  BY HostAssumption DEF RunConfig
<1> QED
  BY <1>1 DEF HostInit, ConfigInv

\* ... and nothing else touches it.
LEMMA ConfigKept ==
    ASSUME [HostNext]_vars
    PROVE  \/ /\ server = "setup" /\ server' \in {"serving", "flushing"}
              /\ config' = AppendObservability(NormalizeMemory(config))
              /\ UNCHANGED <<autoVars, tracingVars, conn, flushed>>
              /\ outcome' \in {outcome, "error"}
           \/ UNCHANGED config /\ (server # "setup" => server' # "setup")
<1>1. ASSUME SetupDone \/ RoutersFail
      PROVE  /\ server = "setup" /\ server' \in {"serving", "flushing"}
             /\ config' = AppendObservability(NormalizeMemory(config))
             /\ UNCHANGED <<autoVars, tracingVars, conn, flushed>>
             /\ outcome' \in {outcome, "error"}
  BY <1>1 DEF SetupDone, RoutersFail
<1>2. ASSUME SetupFails \/ ServeFails \/ Signal \/ ShutdownServer \/ ShutdownTimeout \/ FlushEnd
             \/ NothingToFlush
      PROVE  UNCHANGED config /\ server' # "setup"
  BY <1>2 DEF SetupFails, ServeFails, Signal, ShutdownServer, ShutdownTimeout, FlushEnd,
              NothingToFlush, Stop
<1>3. ASSUME FlushBegin \/ Background \/ SessionRequest \/ UNCHANGED vars
      PROVE  UNCHANGED hostVars
  BY <1>3, Zenon DEF FlushBegin, Background, SessionRequest, vars
<1>4. ASSUME NEW r \in Runs, RunAgent(r) \/ RunEvent(r) \/ RunCallbacks(r) \/ AfterRunAutoSave(r)
                             \/ AfterRunNoAutoSave(r) \/ AfterRunObservability(r)
      PROVE  UNCHANGED hostVars
  BY <1>4, Zenon DEF RunAgent, RunEvent, RunCallbacks, AfterRunAutoSave, AfterRunNoAutoSave,
     AfterRunObservability
<1>5. ASSUME NEW r \in Runs, HandleRequest(r) \/ Answer(r)
      PROVE  UNCHANGED <<config, server>>
  BY <1>5 DEF HandleRequest, Answer
<1> QED
  BY <1>1, <1>2, <1>3, <1>4, <1>5 DEF HostNext, hostVars

\* ... and the setup leaves it one.
LEMMA ConfigStep ==
    ASSUME ConfigInv, [HostNext]_vars
    PROVE  ConfigInv'
<1>1. RunConfig(config')
  BY ConfigKept, SetupConfig DEF ConfigInv
<1> QED
  BY <1>1 DEF ConfigInv, RunConfig

\* A server that has returned does nothing.
LEMMA ReturnedStays ==
    ASSUME server = "returned", [HostNext]_vars
    PROVE  UNCHANGED vars
BY DEF HostNext, Alive, SetupFails, SetupDone, RoutersFail, HandleRequest, RunAgent, RunEvent,
       RunCallbacks, AfterRunAutoSave, AfterRunNoAutoSave, AfterRunObservability, Answer,
       SessionRequest, Background, ServeFails, Signal, ShutdownServer, ShutdownTimeout,
       FlushBegin, FlushEnd, NothingToFlush

\* The registry of traces does what it does by itself.
TraceStep == Tracing!TraceNext \/ UNCHANGED tracingVars

\* Whatever the server does is a step of the registry or leaves it alone.
LEMMA HostTrace ==
    ASSUME ConfigInv, [HostNext]_vars
    PROVE  TraceStep
<1> USE DEF TraceStep
<1>0. config.calls \subseteq CallIDs /\ config.kinds \subseteq Kinds
  BY DEF ConfigInv, RunConfig
<1>1. ASSUME SetupFails \/ SetupDone \/ RoutersFail \/ ServeFails \/ Signal \/ ShutdownServer
             \/ ShutdownTimeout \/ FlushEnd \/ NothingToFlush \/ SessionRequest
      PROVE  UNCHANGED tracingVars
  BY <1>1, Zenon DEF SetupFails, SetupDone, RoutersFail, ServeFails, Signal, ShutdownServer,
     ShutdownTimeout, FlushEnd, NothingToFlush, SessionRequest, Stop
<1>2. ASSUME NEW r \in Runs, HandleRequest(r) \/ RunEvent(r) \/ AfterRunAutoSave(r)
                             \/ AfterRunNoAutoSave(r) \/ Answer(r)
      PROVE  UNCHANGED tracingVars
  BY <1>2, Zenon DEF HandleRequest, RunEvent, AfterRunAutoSave, AfterRunNoAutoSave, Answer
<1>3. ASSUME FlushBegin PROVE Tracing!Shutdown
  BY <1>3 DEF FlushBegin
<1>4. ASSUME Background PROVE Tracing!CleanupStep \/ Tracing!SpanStep
  BY <1>4 DEF Background, Tracing!SpanStep
<1>5. ASSUME NEW r \in Runs, RunAgent(r) \/ AfterRunObservability(r)
      PROVE  Tracing!RunStep(r) \/ UNCHANGED tracingVars
  BY <1>5 DEF RunAgent, AfterRunObservability, Tracing!RunStep
<1>6. ASSUME NEW r \in Runs, RunCallbacks(r) PROVE Tracing!RunStep(r) \/ Tracing!SpanStep
  <2>1. \A kind \in Kinds : <<r, kind>> \in Tracing!ADKSpans
    BY DEF Tracing!ADKSpans
  <2> QED
    BY <1>0, <1>6, <2>1, Zenon DEF RunCallbacks, Tracing!RunStep, Tracing!SpanStep
<1>7. ASSUME UNCHANGED vars PROVE UNCHANGED tracingVars
  BY <1>7 DEF vars
<1> QED
  BY <1>1, <1>2, <1>3, <1>4, <1>5, <1>6, <1>7 DEF HostNext, Tracing!TraceNext

\* A run that is not yet or no longer at work has no span that is recording.
PhaseInv ==
    /\ phase \in [Runs -> {"new", "open", "agent", "over"}]
    /\ \A r \in Runs : phase[r] \in {"new", "over"} => r \notin recording

\* AfterRun ends the span, and a run that is over stays over.
LEMMA PhaseStep ==
    ASSUME PhaseInv, TraceStep
    PROVE  PhaseInv' /\ \A r \in Runs : phase[r] = "over" => phase'[r] = "over"
<1>1. ASSUME NEW r \in Runs, Tracing!BeforeRun(r)
      PROVE  PhaseInv' /\ \A q \in Runs : phase[q] = "over" => phase'[q] = "over"
  <2>1. /\ phase[r] = "new" /\ phase' = [phase EXCEPT ![r] = "open"]
        /\ recording' \subseteq recording \cup {r}
    BY <1>1 DEF Tracing!BeforeRun
  <2> QED
    BY <2>1 DEF PhaseInv
<1>2. ASSUME NEW r \in Runs, Tracing!TryBridgeTraceMapping(r)
      PROVE  PhaseInv' /\ \A q \in Runs : phase[q] = "over" => phase'[q] = "over"
  <2>1. /\ phase[r] \in {"open", "agent"} /\ phase' = [phase EXCEPT ![r] = "agent"]
        /\ UNCHANGED recording
    BY <1>2 DEF Tracing!TryBridgeTraceMapping
  <2> QED
    BY <2>1 DEF PhaseInv
<1>3. ASSUME NEW r \in Runs, Tracing!AfterRun(r)
      PROVE  PhaseInv' /\ \A q \in Runs : phase[q] = "over" => phase'[q] = "over"
  <2>1. /\ phase' = [phase EXCEPT ![r] = "over"] /\ recording' = recording \ {r}
    BY <1>3 DEF Tracing!AfterRun
  <2> QED
    BY <2>1 DEF PhaseInv
<1>4. ASSUME UNCHANGED phase, recording' \subseteq recording
      PROVE  PhaseInv' /\ \A q \in Runs : phase[q] = "over" => phase'[q] = "over"
  BY <1>4 DEF PhaseInv
<1>5. ASSUME NEW r \in Runs,
             Tracing!Write(r) \/ \E id \in CallIDs : Tracing!RegisterToolCallMapping(r, id)
      PROVE  UNCHANGED <<phase, recording>>
  BY <1>5, Zenon DEF Tracing!Write, Tracing!RegisterToolCallMapping
<1>6. ASSUME Tracing!SpanStep \/ Tracing!CleanupStep PROVE UNCHANGED <<phase, recording>>
  BY <1>6, Zenon DEF Tracing!SpanStep, Tracing!CleanupStep, Tracing!EndSpan, Tracing!ExportSpan,
     Tracing!ExportLookup, Tracing!ExportMapping, Tracing!ExportContext, Tracing!ExportParent,
     Tracing!ExportUnchanged, Tracing!CleanupReceive, Tracing!CleanupByTraceID
<1>7. ASSUME Tracing!Shutdown PROVE UNCHANGED phase /\ recording' \subseteq recording
  BY <1>7 DEF Tracing!Shutdown
<1>8. ASSUME UNCHANGED tracingVars PROVE UNCHANGED <<phase, recording>>
  BY <1>8 DEF tracingVars
<1> QED
  BY <1>1, <1>2, <1>3, <1>4, <1>5, <1>6, <1>7, <1>8
     DEF TraceStep, Tracing!TraceNext, Tracing!RunStep

(***************************************************************************)
(* All that a session has gained is saved when no run is at work           *)
(***************************************************************************)

\* Runs follow one another, no save fails, and the plugin is there.
Keeping == Sequential /\ "failed" \notin faults /\ Installed(AutoSavePlugin)

KeptInv == Keeping /\ (\A r \in Runs : ~ Active(r)) => saved = Len(log)

\* A run that ends has saved what it read, and with no other run at work that is
\* the whole log.
LEMMA KeptStep ==
    ASSUME TypeInv, SeqInv, KeptInv, AutoStep, UNCHANGED config
    PROVE  KeptInv'
<1> SUFFICES ASSUME Keeping', \A r \in Runs : ~ Active(r)'
             PROVE  saved' = Len(log)'
  BY DEF KeptInv
<1>0. /\ Keeping /\ OneRun /\ stage \in [Runs -> Stages]
      /\ Len(log) \in Nat /\ saved \in Nat /\ saved <= Len(log)
  <2>1. Sequential /\ "failed" \notin faults
    BY FaultsGrow DEF Keeping, Sequential
  <2>2. Installed(AutoSavePlugin)
    BY DEF Keeping, Installed
  <2> QED
    BY <2>1, <2>2 DEF Keeping, SeqInv, OneRun, TypeInv
<1>1. ASSUME NEW r \in Runs, StartRun(r) PROVE FALSE
  BY <1>0, <1>1 DEF StartRun, Active
<1>2. ASSUME NEW r \in Runs, NEW content \in Contents, AppendEvent(r, content) PROVE FALSE
  BY <1>2 DEF AppendEvent, Active
<1>3. ASSUME NEW r \in Runs, AfterRunRead(r) PROVE saved' = Len(log)'
  <2>1. stage[r] = "running" /\ view[r] = log
    BY <1>0, <1>3 DEF AfterRunRead, OneRun, Active
  <2>2. FirstUnsaved(Len(view[r])) = saved
    BY <1>0, <2>1 DEF FirstUnsaved
  <2>3. /\ stage' = [stage EXCEPT ![r] = IF saved = Len(log) THEN "saved" ELSE "saving"]
        /\ UNCHANGED <<log, saved>>
    BY <1>3, <2>1, <2>2 DEF AfterRunRead
  <2> QED
    BY <1>0, <2>3 DEF Active
<1>4. ASSUME NEW r \in Runs, AfterRunSave(r) PROVE FALSE
  <2> DEFINE kept == Kept(view[r], batch[r].from, batch[r].upto)
  <2>1. PICK result \in SaveOutcomes(setup.backend, kept) :
           /\ faults' = faults
                    \cup (IF result.ok THEN {} ELSE {"failed"})
                    \cup (IF result.ok /\ result.stored # kept THEN {"refused"} ELSE {})
           /\ stage' = [stage EXCEPT ![r] = IF result.ok THEN "recording" ELSE "saved"]
    BY <1>4, Zenon DEF AfterRunSave
  <2> HIDE DEF kept
  <2>2. CASE result.ok
    BY <1>0, <2>1, <2>2 DEF Active
  <2>3. CASE ~ result.ok
    BY <2>1, <2>3 DEF Keeping
  <2> QED
    BY <2>2, <2>3
<1>5. ASSUME NEW r \in Runs, AfterRunRecord(r) PROVE saved' = Len(log)'
  <2>1. batch[r].upto = Len(log) /\ stage[r] = "recording"
    BY <1>0, <1>5 DEF AfterRunRecord, OneRun
  <2> QED
    BY <1>0, <1>5, <2>1 DEF AfterRunRecord
<1>6. ASSUME NEW r \in Runs, SkipSave(r) PROVE FALSE
  BY <1>0, <1>6 DEF SkipSave, Keeping
<1>7. ASSUME SaveSessionToLongTermMemory \/ UNCHANGED autoVars PROVE saved' = Len(log)'
  <2>1. UNCHANGED <<log, saved, stage>>
    BY <1>7 DEF SaveSessionToLongTermMemory, autoVars
  <2> QED
    BY <1>0, <2>1 DEF KeptInv, Active
<1>8. ASSUME RecreateSession PROVE FALSE
  BY <1>8 DEF RecreateSession, Keeping, Sequential
<1> QED
  BY <1>1, <1>2, <1>3, <1>4, <1>5, <1>6, <1>7, <1>8 DEF AutoStep, RunStepOf

(***************************************************************************)
(* The server, its requests and their runs                                 *)
(***************************************************************************)

\* Until the setup is over there are no requests and no events.
SetupInv ==
    server = "setup" =>
        /\ log = <<>> /\ saved = 0
        /\ \A r \in Runs : stage[r] = "idle" /\ conn[r] = "none"

\* A run is over before it is answered in the foreground, and stays over.
ConnInv ==
    /\ conn \in [Runs -> {"none", "handling", "background", "answered", "detached"}]
    /\ \A r \in Runs : stage[r] # "idle" => conn[r] # "none"
    /\ \A r \in Runs : conn[r] = "answered" => RunOver(r)

\* Run returns no error only after its handlers have returned, and takes
\* requests no longer.
EndInv ==
    outcome = "ok" => server \in {"flushing", "returned"} /\ \A r \in Runs : ~ Handling(r)

\* After a flush in time no span waits for its export.
FlushInv ==
    flushed = "ok" =>
        /\ server = "returned" /\ Installed(ObservabilityPlugin)
        /\ \A s \in Tracing!ADKSpans : spans[s] # "ended"

\* A step that leaves the server and its requests alone.
Inside == UNCHANGED hostVars

\* The steps by who takes them.
LEMMA HostCases ==
    ASSUME [HostNext]_vars
    PROVE  \/ SetupFails \/ SetupDone \/ RoutersFail
           \/ \E r \in Runs : HandleRequest(r) \/ Answer(r)
           \/ ServeFails \/ Signal \/ ShutdownServer \/ ShutdownTimeout
           \/ FlushEnd \/ NothingToFlush
           \/ Inside
<1>1. ASSUME FlushBegin \/ Background \/ SessionRequest \/ UNCHANGED vars
      PROVE  Inside
  BY <1>1, Zenon DEF FlushBegin, Background, SessionRequest, vars, Inside
<1>2. ASSUME NEW r \in Runs, RunAgent(r) \/ RunEvent(r) \/ RunCallbacks(r) \/ AfterRunAutoSave(r)
                             \/ AfterRunNoAutoSave(r) \/ AfterRunObservability(r)
      PROVE  Inside
  BY <1>2, Zenon DEF RunAgent, RunEvent, RunCallbacks, AfterRunAutoSave, AfterRunNoAutoSave,
     AfterRunObservability, Inside
<1> QED
  BY <1>1, <1>2, Zenon DEF HostNext

\* What a step does to the stages of runs.
LEMMA StageStep ==
    ASSUME TypeInv, AutoStep, NEW r \in Runs
    PROVE  /\ stage[r] = "saved" => stage'[r] = "saved"
           /\ stage'[r] = "idle" => stage[r] = "idle"
<1>1. ASSUME NEW q \in Runs, NEW next \in Stages \ {"idle"}, stage[q] # "saved",
             stage' = [stage EXCEPT ![q] = next]
      PROVE  /\ stage[r] = "saved" => stage'[r] = "saved"
             /\ stage'[r] = "idle" => stage[r] = "idle"
  BY <1>1 DEF TypeInv
<1>2. ASSUME NEW q \in Runs, SkipSave(q) \/ StartRun(q) \/ AfterRunRead(q) \/ AfterRunSave(q)
                             \/ AfterRunRecord(q)
      PROVE  /\ stage[q] # "saved"
             /\ \E next \in Stages \ {"idle"} : stage' = [stage EXCEPT ![q] = next]
  <2>1. CASE SkipSave(q)
    BY <2>1 DEF SkipSave, Stages
  <2>2. CASE StartRun(q)
    BY <2>2 DEF StartRun, Stages
  <2>3. CASE AfterRunRead(q)
    BY <2>3 DEF AfterRunRead, Stages
  <2>4. CASE AfterRunSave(q)
    BY <2>4 DEF AfterRunSave, Stages
  <2>5. CASE AfterRunRecord(q)
    BY <2>5 DEF AfterRunRecord, Stages
  <2> QED
    BY <1>2, <2>1, <2>2, <2>3, <2>4, <2>5
<1>3. ASSUME NEW q \in Runs, NEW content \in Contents, AppendEvent(q, content)
      PROVE  UNCHANGED stage
  BY <1>3 DEF AppendEvent
<1>4. ASSUME SaveSessionToLongTermMemory \/ RecreateSession \/ UNCHANGED autoVars
      PROVE  UNCHANGED stage
  BY <1>4 DEF SaveSessionToLongTermMemory, RecreateSession, autoVars
<1> QED
  BY <1>1, <1>2, <1>3, <1>4 DEF AutoStep, RunStepOf

\* Only an agent's run, for a request, makes a run begin.
LEMMA RunsBegin ==
    ASSUME ConfigInv, TypeInv, [HostNext]_vars,
           NEW r \in Runs, stage[r] = "idle", stage'[r] # "idle"
    PROVE  conn[r] # "none" /\ UNCHANGED hostVars
<1>1. ASSUME NEW q \in Runs, RunAgent(q) PROVE conn[r] # "none" /\ UNCHANGED hostVars
  <2>1. stage' = [stage EXCEPT ![q] = "running"]
    BY <1>1 DEF RunAgent, StartRun
  <2>2. q = r
    BY <2>1 DEF TypeInv
  <2> QED
    BY <1>1, <2>2 DEF RunAgent
<1>2. CASE \A q \in Runs : ~ RunAgent(q)
  <2>1. ASSUME NEW q \in Runs, NEW next, stage[q] # "idle", stage' = [stage EXCEPT ![q] = next]
        PROVE  FALSE
    BY <2>1 DEF TypeInv
  <2>2. ASSUME NEW q \in Runs,
               AfterRunRead(q) \/ AfterRunSave(q) \/ AfterRunRecord(q) \/ SkipSave(q)
        PROVE  FALSE
    <3>1. stage[q] # "idle" /\ \E next : stage' = [stage EXCEPT ![q] = next]
      <4>1. CASE AfterRunRead(q)
        BY <4>1, Zenon DEF AfterRunRead
      <4>2. CASE AfterRunSave(q)
        BY <4>2, Zenon DEF AfterRunSave
      <4>3. CASE AfterRunRecord(q)
        BY <4>3, Zenon DEF AfterRunRecord
      <4>4. CASE SkipSave(q)
        BY <4>4, Zenon DEF SkipSave
      <4> QED
        BY <2>2, <4>1, <4>2, <4>3, <4>4
    <3> QED
      BY <2>1, <3>1
  <2>3. ASSUME NEW q \in Runs, RunEvent(q) PROVE UNCHANGED stage
    BY <2>3 DEF RunEvent, AppendEvent
  <2>4. ASSUME NEW q \in Runs, AfterRunAutoSave(q) \/ AfterRunNoAutoSave(q) PROVE FALSE
    BY <2>2, <2>4 DEF AfterRunAutoSave, AfterRunNoAutoSave, SkipSave
  <2>5. ASSUME SessionRequest PROVE UNCHANGED stage
    BY <2>5 DEF SessionRequest, SaveSessionToLongTermMemory, RecreateSession
  <2>6. ASSUME SetupFails \/ SetupDone \/ RoutersFail \/ ServeFails \/ Signal \/ ShutdownServer
               \/ ShutdownTimeout \/ FlushBegin \/ FlushEnd \/ NothingToFlush \/ Background
               \/ UNCHANGED vars
        PROVE  UNCHANGED autoVars
    BY <2>6, Zenon DEF SetupFails, SetupDone, RoutersFail, ServeFails, Signal, ShutdownServer,
       ShutdownTimeout, FlushBegin, FlushEnd, NothingToFlush, Background, Stop, vars
  <2>7. ASSUME NEW q \in Runs, HandleRequest(q) \/ RunCallbacks(q) \/ AfterRunObservability(q)
                               \/ Answer(q)
        PROVE  UNCHANGED autoVars
    BY <2>7, Zenon DEF HandleRequest, RunCallbacks, AfterRunObservability, Answer
  <2> QED
    BY <1>2, <2>3, <2>4, <2>5, <2>6, <2>7 DEF HostNext, autoVars
<1> QED
  BY <1>1, <1>2

\* A run that is over, with the plugins that it has, stays over.
LEMMA OverStays ==
    ASSUME TypeInv, AutoStep, PhaseInv, TraceStep, UNCHANGED config, NEW r \in Runs, RunOver(r)
    PROVE  RunOver(r)'
<1>1. stage'[r] = "saved"
  BY StageStep DEF RunOver
<1>2. phase[r] = "over" => phase'[r] = "over"
  BY PhaseStep
<1>3. Installed(ObservabilityPlugin)' => Installed(ObservabilityPlugin)
  BY DEF Installed, ObservabilityPlugin
<1> QED
  BY <1>1, <1>2, <1>3 DEF RunOver

\* No run begins before the setup is done.
LEMMA SetupStep ==
    ASSUME ConfigInv, TypeInv, SetupInv, [HostNext]_vars
    PROVE  SetupInv'
<1> SUFFICES ASSUME server' = "setup" PROVE UNCHANGED <<log, saved, stage, conn>>
  <2>1. server' = "setup" => server = "setup"
    BY ConfigKept
  <2> QED
    BY <2>1 DEF SetupInv
<1>1. server = "setup" /\ \A r \in Runs : stage[r] = "idle" /\ conn[r] = "none"
  BY ConfigKept DEF SetupInv
<1>2. ASSUME NEW r \in Runs, RunStepOf(r) \/ SkipSave(r) PROVE StartRun(r)
  BY <1>1, <1>2 DEF RunStepOf, SkipSave, AppendEvent, AfterRunRead, AfterRunSave, AfterRunRecord
<1>3. ASSUME NEW r \in Runs,
             RunAgent(r) \/ RunEvent(r) \/ AfterRunAutoSave(r) \/ AfterRunNoAutoSave(r)
      PROVE  FALSE
  BY <1>1, <1>3 DEF RunAgent, RunEvent, AppendEvent, AfterRunAutoSave, AfterRunRead,
     AfterRunSave, AfterRunRecord, AfterRunNoAutoSave
<1>4. ASSUME NEW r \in Runs, HandleRequest(r) \/ Answer(r) PROVE FALSE
  BY <1>1, <1>4 DEF HandleRequest, Answer
<1>5. ASSUME NEW r \in Runs, RunCallbacks(r) \/ AfterRunObservability(r)
      PROVE  UNCHANGED <<autoVars, hostVars>>
  BY <1>5, Zenon DEF RunCallbacks, AfterRunObservability
<1>6. ASSUME Background \/ FlushBegin \/ UNCHANGED vars PROVE UNCHANGED <<autoVars, hostVars>>
  BY <1>6, Zenon DEF Background, FlushBegin, vars
<1>7. ASSUME SetupFails \/ SetupDone \/ RoutersFail \/ ServeFails \/ Signal \/ ShutdownServer
             \/ ShutdownTimeout \/ FlushEnd \/ NothingToFlush \/ SessionRequest
      PROVE  FALSE
  BY <1>1, <1>7 DEF SetupFails, SetupDone, RoutersFail, ServeFails, Signal, ShutdownServer,
     ShutdownTimeout, FlushEnd, NothingToFlush, SessionRequest, Stop
<1> QED
  BY <1>3, <1>4, <1>5, <1>6, <1>7, Zenon DEF HostNext, autoVars, hostVars

\* A request that waits is answered after its run and the callbacks.
LEMMA ConnStep ==
    ASSUME ConfigInv, TypeInv, PhaseInv, SetupInv, ConnInv, [HostNext]_vars
    PROVE  ConnInv'
<1> DEFINE Conns == {"none", "handling", "background", "answered", "detached"}
<1>0. conn \in [Runs -> Conns] /\ AutoStep /\ TraceStep
  BY HostStep, HostTrace DEF ConnInv
<1>1. ASSUME NEW r \in Runs, HandleRequest(r) \/ Answer(r)
      PROVE  /\ UNCHANGED <<autoVars, tracingVars, config>>
             /\ \E how \in Conns \ {"none"} :
                   /\ conn' = [conn EXCEPT ![r] = how]
                   /\ how = "answered" => RunOver(r)
  BY <1>1 DEF HandleRequest, Answer
<1>2. \/ UNCHANGED conn
      \/ \E r \in Runs : HandleRequest(r) \/ Answer(r)
  <2>1. ASSUME SetupFails \/ SetupDone \/ RoutersFail \/ ServeFails \/ Signal \/ ShutdownServer
               \/ ShutdownTimeout \/ FlushEnd \/ NothingToFlush \/ Inside
        PROVE  UNCHANGED conn
    BY <2>1, Zenon DEF SetupFails, SetupDone, RoutersFail, ServeFails, Signal, ShutdownServer,
       ShutdownTimeout, FlushEnd, NothingToFlush, Inside, hostVars, Stop
  <2> QED
    BY <2>1, HostCases
<1>3. conn' \in [Runs -> Conns] /\ \A r \in Runs : conn[r] # "none" => conn'[r] # "none"
  BY <1>0, <1>1, <1>2
<1>4. ASSUME NEW r \in Runs, stage'[r] # "idle" PROVE conn'[r] # "none"
  <2>1. CASE stage[r] = "idle"
    BY <1>4, <2>1, RunsBegin DEF hostVars
  <2>2. CASE stage[r] # "idle"
    BY <1>3, <2>2 DEF ConnInv
  <2> QED
    BY <2>1, <2>2
<1>5. ASSUME NEW r \in Runs, conn'[r] = "answered" PROVE RunOver(r)'
  <2>1. CASE conn[r] = "answered"
    <3>1. server # "setup"
      BY <2>1 DEF SetupInv
    <3>2. UNCHANGED config
      BY <3>1, ConfigKept
    <3> QED
      BY <1>0, <2>1, <3>2, OverStays DEF ConnInv
  <2>2. CASE conn[r] # "answered"
    <3>1. RunOver(r) /\ UNCHANGED <<autoVars, tracingVars, config>>
      BY <1>0, <1>1, <1>2, <1>5, <2>2
    <3> QED
      BY <1>0, <3>1, OverStays
  <2> QED
    BY <2>1, <2>2
<1> QED
  BY <1>3, <1>4, <1>5 DEF ConnInv

\* Run returns no error only from a shutdown that found no request being handled.
LEMMA EndStep ==
    ASSUME ConnInv, EndInv, [HostNext]_vars
    PROVE  EndInv'
<1> USE DEF EndInv, Handling
<1>1. ASSUME SetupFails \/ SetupDone \/ RoutersFail \/ ServeFails \/ Signal \/ ShutdownTimeout
      PROVE  outcome' # "ok"
  BY <1>1 DEF SetupFails, SetupDone, RoutersFail, ServeFails, Signal, ShutdownTimeout, Stop
<1>2. ASSUME NEW r \in Runs, HandleRequest(r) \/ Answer(r) PROVE outcome' # "ok"
  BY <1>2 DEF HandleRequest, Answer
<1>3. CASE ShutdownServer
  BY <1>3 DEF ShutdownServer, Stop
<1>4. CASE FlushEnd \/ NothingToFlush
  BY <1>4 DEF FlushEnd, NothingToFlush
<1>5. CASE Inside
  BY <1>5 DEF Inside, hostVars
<1> QED
  BY <1>1, <1>2, <1>3, <1>4, <1>5, HostCases

\* A flush in time has found every span that ended exported, and nothing runs after it.
LEMMA FlushStep ==
    ASSUME FlushInv, [HostNext]_vars
    PROVE  FlushInv'
<1>1. CASE flushed = "ok"
  <2>1. UNCHANGED vars
    BY <1>1, ReturnedStays DEF FlushInv
  <2>2. UNCHANGED <<flushed, server, config, spans>>
    BY <2>1 DEF vars, tracingVars, hostVars
  <2> QED
    BY <1>1, <2>2 DEF FlushInv, Installed, ObservabilityPlugin
<1>2. CASE flushed # "ok" /\ flushed' = "ok"
  <2>1. ASSUME SetupFails \/ SetupDone \/ RoutersFail \/ ServeFails \/ Signal \/ ShutdownServer
               \/ ShutdownTimeout \/ NothingToFlush \/ Inside
        PROVE  UNCHANGED flushed
    BY <2>1, Zenon DEF SetupFails, SetupDone, RoutersFail, ServeFails, Signal, ShutdownServer,
       ShutdownTimeout, NothingToFlush, Inside, hostVars, Stop
  <2>2. ASSUME NEW r \in Runs, HandleRequest(r) \/ Answer(r) PROVE UNCHANGED flushed
    BY <2>2 DEF HandleRequest, Answer
  <2>3. FlushEnd
    BY <1>2, <2>1, <2>2, HostCases
  <2>4. /\ server' = "returned" /\ Installed(ObservabilityPlugin) /\ AllExported
        /\ UNCHANGED <<config, spans>>
    BY <1>2, <2>3 DEF FlushEnd, tracingVars
  <2> QED
    BY <2>4 DEF FlushInv, Installed, ObservabilityPlugin, AllExported
<1> QED
  BY <1>1, <1>2 DEF FlushInv

(***************************************************************************)
(* The registry of traces                                                  *)
(***************************************************************************)

Trace(r) == Tracing!AdkTrace(r)
OwnTrace(r) == Tracing!VeadkTrace(r)
Known == Tracing!Known

TraceIDs == Traces \cup {NoTrace, Tracing!Untraced}
            \cup {<<"adk", r>> : r \in Runs} \cup {<<"veadk", r>> : r \in Runs}
CallOrNone == CallIDs \cup {Tracing!NoCallID}
RunOrNone == Runs \cup {NoRun}
Infos == [veadk : TraceIDs, invocation : RunOrNone, calls : SUBSET CallOrNone]
Writes == [kind : {"nothing", "context", "mapping", "call"}, live : BOOLEAN]
Exports == [at : {"idle", "found", "held", "context", "parent"},
            span : Tracing!ADKSpans \cup {<<>>},
            parent : RunOrNone, live : BOOLEAN, trace : TraceIDs]
Cleanups == [trace : TraceIDs, run : Runs]

Histories == [dropped : SUBSET Runs, cleaned : SUBSET TraceIDs, revived : SUBSET TraceIDs,
              orphaned : SUBSET CallOrNone, reused : SUBSET CallIDs]

ExporterTyped ==
    /\ exporter \in Exports
    /\ exporter.at # "idle" => exporter.span \in Tracing!ADKSpans
    /\ exporter.at \in {"found", "held"} => exporter.parent \in Runs

TraceTypes ==
    /\ request \in [Runs -> [trace : Traces \cup {NoTrace}, sampled : BOOLEAN]]
    /\ phase \in [Runs -> {"new", "open", "agent", "over"}]
    /\ infos \in [Known -> Infos]
    /\ toolCalls \in [DOMAIN toolCalls -> Runs] /\ DOMAIN toolCalls \subseteq CallIDs
    /\ callOf \in [Runs -> CallOrNone]
    /\ writing \in [Runs -> Writes]
    /\ queue \in Seq(Cleanups) /\ pending \in Seq(Cleanups)
    /\ spans \in [Tracing!ADKSpans -> {"none", "ended", "exported"}]
    /\ ExporterTyped
    /\ link \in [Tracing!ADKSpans -> [trace : TraceIDs, parent : RunOrNone]]
    /\ history \in Histories

\* The traces of a run are traces, and runs with the same ADK trace have the same
\* invocation trace.
LEMMA TracesOf ==
    ASSUME TraceTypes, NEW r \in Runs
    PROVE  /\ Trace(r) \in TraceIDs /\ OwnTrace(r) \in TraceIDs \ {Tracing!Untraced}
           /\ request[r].trace \in TraceIDs
           /\ Tracing!Untraced \in TraceIDs
           /\ \A o \in Runs : Trace(o) = Trace(r) => OwnTrace(o) = OwnTrace(r)
<1>1. <<"veadk", r>> # <<"untraced">>
  OBVIOUS
<1>2. /\ Trace(r) \in TraceIDs /\ OwnTrace(r) \in TraceIDs \ {Tracing!Untraced}
      /\ request[r].trace \in TraceIDs
      /\ Tracing!Untraced \in TraceIDs
  BY <1>1, HostAssumption DEF Tracing!TraceAssumption, TraceTypes, TraceIDs, Trace, OwnTrace,
     Tracing!AdkTrace, Tracing!VeadkTrace, Tracing!Untraced
<1>3. ASSUME NEW o \in Runs, Trace(o) = Trace(r) PROVE OwnTrace(o) = OwnTrace(r)
  <2>1. \A q \in Runs : \/ request[q].trace = NoTrace /\ Trace(q) = <<"adk", q>>
                        \/ request[q].trace \in Traces /\ Trace(q) = request[q].trace
    BY DEF TraceTypes, Trace, Tracing!AdkTrace
  <2>2. \A q \in Runs : <<"adk", q>> \notin Traces
    BY HostAssumption DEF Tracing!TraceAssumption
  <2>3. CASE request[r].trace = NoTrace
    <3>1. request[o].trace = NoTrace /\ <<"adk", o>> = <<"adk", r>>
      BY <1>3, <2>1, <2>2, <2>3, HostAssumption DEF Tracing!TraceAssumption
    <3>2. o = r
      BY <3>1
    <3> QED
      BY <3>2
  <2>4. CASE request[r].trace # NoTrace
    <3>1. request[o].trace = request[r].trace
      BY <1>3, <2>1, <2>2, <2>4
    <3> QED
      BY <2>4, <3>1 DEF OwnTrace, Tracing!VeadkTrace
  <2> QED
    BY <2>3, <2>4
<1> QED
  BY <1>2, <1>3

\* The infos of a trace that is looked up.
LEMMA InfosOf ==
    ASSUME TraceTypes, NEW t \in TraceIDs, Tracing!GetOrCreateTraceInfos(t)
    PROVE  /\ Known' = Known \cup {t}
           /\ infos' \in [Known' -> Infos]
           /\ \A u \in Known : infos'[u] = infos[u]
           /\ t \notin Known => infos'[t] = Tracing!EmptyInfos
<1>1. Tracing!EmptyInfos \in Infos
  BY DEF Tracing!EmptyInfos, Infos, TraceIDs, RunOrNone
<1> QED
  BY <1>1 DEF Tracing!GetOrCreateTraceInfos, TraceTypes, Known, Tracing!Known

\* Who finds a call's run: a run or nobody.
LEMMA ParentTyped ==
    ASSUME TraceTypes, NEW s \in Tracing!ADKSpans
    PROVE  /\ Tracing!ParentByToolCallID(s) \in RunOrNone
           /\ s[1] \in Runs /\ s[2] \in Kinds
BY DEF TraceTypes, Tracing!ParentByToolCallID, RunOrNone, Tracing!ADKSpans

\* A cleanup request is added, or dropped and noted.
LEMMA CleanupTyped ==
    ASSUME TraceTypes, NEW r \in Runs, Tracing!ScheduleCleanup(r)
    PROVE  /\ queue' \in Seq(Cleanups)
           /\ history' \in Histories
<1>1. [trace |-> request[r].trace, run |-> r] \in Cleanups
  BY TracesOf DEF Cleanups
<1>2. \/ queue' = Append(queue, [trace |-> request[r].trace, run |-> r]) /\ UNCHANGED history
      \/ history' = [history EXCEPT !.dropped = history.dropped \cup {r}] /\ UNCHANGED queue
  BY Zenon DEF Tracing!ScheduleCleanup
<1>3. queue \in Seq(Cleanups) /\ history \in Histories
  BY DEF TraceTypes
<1>4. [history EXCEPT !.dropped = history.dropped \cup {r}] \in Histories
  BY <1>3 DEF Histories
<1>5. Append(queue, [trace |-> request[r].trace, run |-> r]) \in Seq(Cleanups)
  BY <1>1, <1>3, AppendProperties
<1> QED
  BY <1>2, <1>3, <1>4, <1>5

\* What a lookup leaves has the types of the maps.
LEMMA LookupTyped ==
    ASSUME TraceTypes, NEW r \in Runs, NEW kind \in {"context", "mapping"}, Tracing!Lookup(r, kind)
    PROVE  /\ infos' \in [Known' -> Infos] /\ writing' \in [Runs -> Writes]
           /\ history' \in Histories
<1>1. infos' \in [Known' -> Infos]
  BY TracesOf, InfosOf DEF Tracing!Lookup, Trace
<1>2. writing' \in [Runs -> Writes]
  BY DEF Tracing!Lookup, TraceTypes, Writes
<1>3. Tracing!Revived(Tracing!AdkTrace(r)) \subseteq TraceIDs
  BY TracesOf DEF Tracing!Revived, Trace
<1>4. history' \in Histories
  BY <1>3 DEF Tracing!Lookup, TraceTypes, Histories
<1> QED
  BY <1>1, <1>2, <1>4

\* The registry keeps its types.
LEMMA TraceTypesStep ==
    ASSUME TraceTypes, TraceStep
    PROVE  TraceTypes'
<1> USE DEF Histories
<1>1. ASSUME NEW r \in Runs, Tracing!BeforeRun(r) PROVE TraceTypes'
  <2>1. infos' \in [Known' -> Infos] /\ writing' \in [Runs -> Writes] /\ history' \in Histories
    <3>1. CASE request[r].trace # NoTrace
      BY <1>1, <3>1, LookupTyped DEF Tracing!BeforeRun
    <3>2. CASE request[r].trace = NoTrace
      BY <1>1, <3>2 DEF Tracing!BeforeRun, TraceTypes, Known, Tracing!Known
    <3> QED
      BY <3>1, <3>2
  <2>2. phase' \in [Runs -> {"new", "open", "agent", "over"}]
    BY <1>1 DEF Tracing!BeforeRun, TraceTypes
  <2>3. UNCHANGED <<request, toolCalls, callOf, queue, pending, spans, exporter, link>>
    BY <1>1 DEF Tracing!BeforeRun
  <2> QED
    BY <2>1, <2>2, <2>3 DEF TraceTypes, ExporterTyped
<1>2. ASSUME NEW r \in Runs, Tracing!Write(r) PROVE TraceTypes'
  <2>1. writing' \in [Runs -> Writes]
    BY <1>2 DEF Tracing!Write, TraceTypes, Writes, Tracing!NotWriting
  <2>2. history' \in Histories
    <3>1. \/ UNCHANGED history
          \/ history' = [history EXCEPT !.orphaned = history.orphaned \cup {callOf[r]}]
      BY <1>2, Zenon DEF Tracing!Write
    <3>2. callOf[r] \in CallOrNone /\ history \in Histories
      BY DEF TraceTypes
    <3> QED
      BY <3>1, <3>2
  <2>3. infos' \in [Known' -> Infos]
    <3>1. ASSUME NEW old \in Infos PROVE Tracing!Written(r, old) \in Infos
      <4>1. OwnTrace(r) \in TraceIDs /\ callOf[r] \in CallOrNone
        BY TracesOf DEF TraceTypes
      <4> QED
        BY <3>1, <4>1 DEF Tracing!Written, Infos, RunOrNone, OwnTrace
    <3>2. CASE writing[r].live /\ Trace(r) \in Known
      <4>1. infos' = [infos EXCEPT ![Trace(r)] = Tracing!Written(r, infos[Trace(r)])]
        BY <1>2, <3>2 DEF Tracing!Write, Trace
      <4>2. infos \in [Known -> Infos]
        BY DEF TraceTypes
      <4>3. Tracing!Written(r, infos[Trace(r)]) \in Infos
        BY <3>1, <3>2, <4>2
      <4> QED
        BY <4>1, <4>2, <4>3 DEF Known, Tracing!Known
    <3>3. CASE ~ (writing[r].live /\ Trace(r) \in Known)
      <4>1. infos' = infos
        <5>1. infos \in [Known -> Infos]
          BY DEF TraceTypes
        <5>2. \/ infos' = infos
              \/ infos' = [infos EXCEPT ![Trace(r)] = Tracing!Written(r, infos[Trace(r)])]
                 /\ Trace(r) \notin Known
          BY <1>2, <3>3 DEF Tracing!Write, Trace
        <5> QED
          BY <5>1, <5>2
      <4> QED
        BY <4>1 DEF TraceTypes, Known, Tracing!Known
    <3> QED
      BY <3>2, <3>3
  <2>4. UNCHANGED <<request, phase, toolCalls, callOf, queue, pending, spans, exporter, link>>
    BY <1>2 DEF Tracing!Write
  <2> QED
    BY <2>1, <2>2, <2>3, <2>4 DEF TraceTypes, ExporterTyped
<1>3. ASSUME NEW r \in Runs, Tracing!TryBridgeTraceMapping(r) PROVE TraceTypes'
  <2>1. infos' \in [Known' -> Infos] /\ writing' \in [Runs -> Writes] /\ history' \in Histories
    BY <1>3, LookupTyped DEF Tracing!TryBridgeTraceMapping
  <2>2. phase' \in [Runs -> {"new", "open", "agent", "over"}]
    BY <1>3 DEF Tracing!TryBridgeTraceMapping, TraceTypes
  <2>3. UNCHANGED <<request, toolCalls, callOf, queue, pending, spans, exporter, link>>
    BY <1>3 DEF Tracing!TryBridgeTraceMapping
  <2> QED
    BY <2>1, <2>2, <2>3 DEF TraceTypes, ExporterTyped
<1>4. ASSUME NEW r \in Runs, NEW id \in CallIDs, Tracing!RegisterToolCallMapping(r, id)
      PROVE  TraceTypes'
  <2>1. infos' \in [Known' -> Infos]
    BY <1>4, TracesOf, InfosOf DEF Tracing!RegisterToolCallMapping, Trace
  <2>2. /\ callOf' \in [Runs -> CallOrNone] /\ writing' \in [Runs -> Writes]
    BY <1>4 DEF Tracing!RegisterToolCallMapping, TraceTypes, Writes, CallOrNone
  <2>3. toolCalls' \in [DOMAIN toolCalls' -> Runs] /\ DOMAIN toolCalls' \subseteq CallIDs
    BY <1>4 DEF Tracing!RegisterToolCallMapping, TraceTypes
  <2>4. history' \in Histories
    <3>1. Tracing!Revived(Tracing!AdkTrace(r)) \subseteq TraceIDs
      BY TracesOf DEF Tracing!Revived, Trace
    <3>2. {c \in {id} : \E o \in Runs : callOf[o] = c} \subseteq CallIDs
      OBVIOUS
    <3>3. PICK more \in SUBSET TraceIDs, again \in SUBSET CallIDs :
             history' = [history EXCEPT !.revived = history.revived \cup more,
                                        !.reused = history.reused \cup again]
      BY <1>4, <3>1, <3>2 DEF Tracing!RegisterToolCallMapping
    <3> QED
      BY <3>3 DEF TraceTypes
  <2>5. UNCHANGED <<request, phase, queue, pending, spans, exporter, link>>
    BY <1>4 DEF Tracing!RegisterToolCallMapping
  <2> QED
    BY <2>1, <2>2, <2>3, <2>4, <2>5 DEF TraceTypes, ExporterTyped
<1>5. ASSUME NEW r \in Runs, Tracing!AfterRun(r) PROVE TraceTypes'
  <2>1. queue' \in Seq(Cleanups) /\ history' \in Histories
    BY <1>5, CleanupTyped DEF Tracing!AfterRun, TraceTypes
  <2>2. phase' \in [Runs -> {"new", "open", "agent", "over"}]
    BY <1>5 DEF Tracing!AfterRun, TraceTypes
  <2>3. UNCHANGED <<request, infos, toolCalls, callOf, writing, pending, spans, exporter, link>>
    BY <1>5 DEF Tracing!AfterRun
  <2> QED
    BY <2>1, <2>2, <2>3 DEF TraceTypes, ExporterTyped, Known, Tracing!Known
<1>6. ASSUME Tracing!CleanupReceive PROVE TraceTypes'
  <2>1. queue' \in Seq(Cleanups) /\ pending' \in Seq(Cleanups)
    BY <1>6, HeadTailProperties, AppendProperties DEF Tracing!CleanupReceive, TraceTypes
  <2>2. UNCHANGED <<request, phase, infos, toolCalls, callOf, writing, spans, exporter, link,
                    history>>
    BY <1>6 DEF Tracing!CleanupReceive
  <2> QED
    BY <2>1, <2>2 DEF TraceTypes, ExporterTyped, Known, Tracing!Known
<1>7. ASSUME Tracing!CleanupByTraceID PROVE TraceTypes'
  <2> DEFINE trace == Head(pending).trace
  <2>1. Head(pending) \in Cleanups /\ pending' \in Seq(Cleanups)
    BY <1>7, HeadTailProperties DEF Tracing!CleanupByTraceID, TraceTypes
  <2>2. trace \in TraceIDs
    BY <2>1 DEF Cleanups
  <2> HIDE DEF trace
  <2>3. /\ \/ /\ infos' = [t \in Tracing!Known \ {trace} |-> infos[t]]
              /\ \E gone : toolCalls' = [c \in DOMAIN toolCalls \ gone |-> toolCalls[c]]
           \/ UNCHANGED <<infos, toolCalls>>
        /\ writing' = [r \in Runs |-> IF Tracing!AdkTrace(r) = trace
                                      THEN [writing[r] EXCEPT !.live = FALSE] ELSE writing[r]]
        /\ exporter' \in {exporter, [exporter EXCEPT !.live = FALSE]}
        /\ history' = [history EXCEPT !.cleaned = history.cleaned \cup {trace},
                                      !.revived = history.revived \ {trace}]
        /\ UNCHANGED <<request, phase, callOf, queue, spans, link>>
    BY <1>7, Zenon DEF Tracing!CleanupByTraceID, trace
  <2>4. /\ infos' \in [Known' -> Infos]
        /\ toolCalls' \in [DOMAIN toolCalls' -> Runs] /\ DOMAIN toolCalls' \subseteq CallIDs
    BY <2>3 DEF TraceTypes, Known, Tracing!Known
  <2>5. writing' \in [Runs -> Writes] /\ history' \in Histories
    BY <2>2, <2>3 DEF TraceTypes, Writes
  <2>6. ExporterTyped'
    <3>1. ASSUME exporter' = [exporter EXCEPT !.live = FALSE] PROVE ExporterTyped'
      BY <3>1 DEF TraceTypes, ExporterTyped, Exports
    <3>2. ASSUME exporter' = exporter PROVE ExporterTyped'
      BY <3>2 DEF TraceTypes, ExporterTyped
    <3> QED
      BY <2>3, <3>1, <3>2
  <2> QED
    BY <2>1, <2>3, <2>4, <2>5, <2>6 DEF TraceTypes
<1>8. ASSUME NEW s \in Tracing!ADKSpans, Tracing!EndSpan(s) PROVE TraceTypes'
  BY <1>8 DEF Tracing!EndSpan, TraceTypes, ExporterTyped, Known, Tracing!Known
<1>9. ASSUME UNCHANGED <<infos, spans, link, history>>, Tracing!ExportUnchanged, ExporterTyped'
      PROVE  TraceTypes'
  BY <1>9 DEF Tracing!ExportUnchanged, TraceTypes, Known, Tracing!Known
<1>10. ASSUME NEW s \in Tracing!ADKSpans, Tracing!ExportSpan(s) PROVE TraceTypes'
  <2>1. exporter' = IF Tracing!ParentByToolCallID(s) # NoRun
                    THEN Tracing!Exporter(s, "found", Tracing!ParentByToolCallID(s))
                    ELSE Tracing!Exporter(s, "context", NoRun)
    BY <1>10 DEF Tracing!ExportSpan
  <2>2. ASSUME NEW at \in {"found", "context"}, NEW parent \in RunOrNone
        PROVE  /\ Tracing!Exporter(s, at, parent) \in Exports
               /\ Tracing!Exporter(s, at, parent).at = at
               /\ Tracing!Exporter(s, at, parent).span = s
               /\ Tracing!Exporter(s, at, parent).parent = parent
    BY DEF Tracing!Exporter, Tracing!Idle, Exports, TraceIDs
  <2>3. Tracing!ParentByToolCallID(s) \in RunOrNone /\ NoRun \in RunOrNone
    BY ParentTyped DEF RunOrNone
  <2>4. ExporterTyped'
    BY <2>1, <2>2, <2>3 DEF ExporterTyped, RunOrNone
  <2> QED
    BY <1>9, <1>10, <2>4 DEF Tracing!ExportSpan
<1>11. ASSUME Tracing!ExportLookup PROVE TraceTypes'
  <2>0. exporter.span[1] \in Runs
    BY <1>11, ParentTyped DEF Tracing!ExportLookup, Tracing!Exporting, TraceTypes, ExporterTyped
  <2>1. infos' \in [Known' -> Infos]
    BY <1>11, <2>0, TracesOf, InfosOf DEF Tracing!ExportLookup, Trace
  <2>2. ExporterTyped'
    BY <1>11 DEF Tracing!ExportLookup, Tracing!Exporting, TraceTypes, ExporterTyped, Exports
  <2>3. history' \in Histories
    <3>1. Tracing!Revived(Tracing!AdkTrace(exporter.span[1])) \subseteq TraceIDs
      BY <2>0, TracesOf DEF Tracing!Revived, Trace
    <3> QED
      BY <1>11, <3>1 DEF Tracing!ExportLookup, TraceTypes
  <2>4. UNCHANGED <<request, phase, toolCalls, callOf, writing, queue, pending, spans, link>>
    BY <1>11 DEF Tracing!ExportLookup, Tracing!ExportUnchanged
  <2> QED
    BY <2>1, <2>2, <2>3, <2>4 DEF TraceTypes
<1>12. ASSUME Tracing!ExportMapping PROVE TraceTypes'
  <2>1. infos' \in [Known' -> Infos]
    <3>1. OwnTrace(exporter.parent) \in TraceIDs
      BY <1>12, TracesOf DEF Tracing!ExportMapping, Tracing!Exporting, TraceTypes, ExporterTyped
    <3>2. \/ infos' = infos
          \/ infos' = [infos EXCEPT ![Tracing!AdkTrace(exporter.span[1])].veadk =
                         OwnTrace(exporter.parent)]
      BY <1>12 DEF Tracing!ExportMapping, OwnTrace
    <3>3. ASSUME NEW t \in Known
          PROVE  [infos[t] EXCEPT !.veadk = OwnTrace(exporter.parent)] \in Infos
      <4>1. infos[t] \in Infos
        BY DEF TraceTypes
      <4> QED
        BY <3>1, <4>1 DEF Infos
    <3>4. infos \in [Known -> Infos]
      BY DEF TraceTypes
    <3>5. ASSUME NEW t, infos' = [infos EXCEPT ![t].veadk = OwnTrace(exporter.parent)]
          PROVE  infos' \in [Known -> Infos]
      <4>1. CASE t \in Known
        BY <3>3, <3>4, <3>5, <4>1
      <4>2. CASE t \notin Known
        BY <3>4, <3>5, <4>2
      <4> QED
        BY <4>1, <4>2
    <3> QED
      BY <3>2, <3>4, <3>5 DEF Known, Tracing!Known
  <2>2. ExporterTyped'
    BY <1>12 DEF Tracing!ExportMapping, Tracing!Exporting, TraceTypes, ExporterTyped, Exports
  <2>3. UNCHANGED <<request, phase, toolCalls, callOf, writing, queue, pending, spans, link,
                    history>>
    BY <1>12 DEF Tracing!ExportMapping, Tracing!ExportUnchanged
  <2> QED
    BY <2>1, <2>2, <2>3 DEF TraceTypes
<1>13. ASSUME Tracing!ExportContext PROVE TraceTypes'
  <2> DEFINE s == exporter.span
             trace == IF Tracing!ParentByToolCallID(s) # NoRun
                      THEN Tracing!VeadkTrace(Tracing!ParentByToolCallID(s))
                      ELSE Tracing!MappedTrace(Tracing!AdkTrace(s[1]))
  <2>1. exporter' = [exporter EXCEPT !.at = "parent", !.trace = trace] /\ exporter.at = "context"
    BY <1>13 DEF Tracing!ExportContext, Tracing!Exporting
  <2>2. s \in Tracing!ADKSpans /\ s[1] \in Runs
    BY <2>1, ParentTyped DEF TraceTypes, ExporterTyped
  <2>3. trace \in TraceIDs
    <3>1. CASE Tracing!ParentByToolCallID(s) # NoRun
      BY <2>2, <3>1, ParentTyped, TracesOf DEF RunOrNone, OwnTrace
    <3>2. CASE Tracing!ParentByToolCallID(s) = NoRun
      <4>1. Tracing!AdkTrace(s[1]) \in TraceIDs
        BY <2>2, TracesOf DEF Trace
      <4> QED
        BY <3>2, <4>1 DEF Tracing!MappedTrace, TraceTypes, Infos, Known, Tracing!Known
    <3> QED
      BY <3>1, <3>2
  <2> HIDE DEF trace
  <2>4. ExporterTyped'
    BY <2>1, <2>2, <2>3 DEF TraceTypes, ExporterTyped, Exports
  <2> QED
    BY <1>9, <1>13, <2>4 DEF Tracing!ExportContext
<1>14. ASSUME Tracing!ExportParent PROVE TraceTypes'
  <2> DEFINE s == exporter.span
  <2>1. s \in Tracing!ADKSpans /\ exporter.trace \in TraceIDs
    BY <1>14 DEF Tracing!ExportParent, Tracing!Exporting, TraceTypes, ExporterTyped, Exports
  <2>2. PICK parent : /\ link' = [link EXCEPT ![s] = [trace |-> exporter.trace, parent |-> parent]]
                      /\ \/ parent = Tracing!ParentByToolCallID(s)
                         \/ \E t \in Known : parent = infos[t].invocation
    BY <1>14 DEF Tracing!ExportParent, Known
  <2>3. parent \in RunOrNone
    BY <2>1, <2>2, ParentTyped DEF TraceTypes, Infos
  <2>4. link' \in [Tracing!ADKSpans -> [trace : TraceIDs, parent : RunOrNone]]
    BY <2>1, <2>2, <2>3 DEF TraceTypes
  <2>5. spans' \in [Tracing!ADKSpans -> {"none", "ended", "exported"}]
    BY <1>14 DEF Tracing!ExportParent, TraceTypes
  <2>6. ExporterTyped'
    <3>1. exporter' = Tracing!Idle
      BY <1>14 DEF Tracing!ExportParent
    <3>2. Tracing!Idle \in Exports /\ Tracing!Idle.at = "idle"
      BY DEF Tracing!Idle, Exports, RunOrNone, TraceIDs
    <3> QED
      BY <3>1, <3>2 DEF ExporterTyped
  <2>7. UNCHANGED <<request, phase, infos, toolCalls, callOf, writing, queue, pending, history>>
    BY <1>14 DEF Tracing!ExportParent, Tracing!ExportUnchanged
  <2> QED
    BY <2>4, <2>5, <2>6, <2>7 DEF TraceTypes, Known, Tracing!Known
<1>15. ASSUME Tracing!Shutdown \/ UNCHANGED tracingVars PROVE TraceTypes'
  <2>1. UNCHANGED <<request, phase, infos, toolCalls, callOf, writing, queue, pending, spans,
                    exporter, link, history>>
    BY <1>15 DEF Tracing!Shutdown, tracingVars
  <2> QED
    BY <2>1 DEF TraceTypes, ExporterTyped, Known, Tracing!Known
<1> QED
  BY <1>1, <1>2, <1>3, <1>4, <1>5, <1>6, <1>7, <1>8, <1>10, <1>11, <1>12, <1>13, <1>14, <1>15
     DEF TraceStep, Tracing!TraceNext, Tracing!RunStep, Tracing!SpanStep, Tracing!CleanupStep

\* What never changes, and what only grows.
LEMMA TraceGrows ==
    ASSUME TraceTypes, TraceStep
    PROVE  /\ UNCHANGED request
           /\ history.cleaned \subseteq history'.cleaned
           /\ history.reused \subseteq history'.reused
           /\ history.orphaned \subseteq history'.orphaned
           /\ history.dropped \subseteq history'.dropped
           /\ \A r \in Runs : callOf[r] # Tracing!NoCallID => callOf'[r] = callOf[r]
<1> DEFINE Grows == /\ history.cleaned \subseteq history'.cleaned
                    /\ history.reused \subseteq history'.reused
                    /\ history.orphaned \subseteq history'.orphaned
                    /\ history.dropped \subseteq history'.dropped
<1>0. history \in Histories /\ callOf \in [Runs -> CallOrNone]
  BY DEF TraceTypes
<1>1. ASSUME NEW more, history' = [history EXCEPT !.revived = history.revived \cup more]
      PROVE  Grows
  BY <1>0, <1>1 DEF Histories
<1>2. ASSUME NEW r \in Runs, NEW kind, Tracing!Lookup(r, kind) PROVE Grows
  BY <1>1, <1>2 DEF Tracing!Lookup
<1>3. ASSUME NEW r \in Runs, Tracing!BeforeRun(r) \/ Tracing!TryBridgeTraceMapping(r)
      PROVE  Grows /\ UNCHANGED <<request, callOf>>
  BY <1>2, <1>3 DEF Tracing!BeforeRun, Tracing!TryBridgeTraceMapping
<1>4. ASSUME NEW r \in Runs, Tracing!Write(r)
      PROVE  Grows /\ UNCHANGED <<request, callOf>>
  <2>1. /\ \/ UNCHANGED history
           \/ history' = [history EXCEPT !.orphaned = history.orphaned \cup {callOf[r]}]
        /\ UNCHANGED <<request, callOf>>
    BY <1>4, Zenon DEF Tracing!Write
  <2> QED
    BY <1>0, <2>1 DEF Histories
<1>5. ASSUME NEW r \in Runs, NEW id \in CallIDs, Tracing!RegisterToolCallMapping(r, id)
      PROVE  /\ Grows /\ UNCHANGED request
             /\ callOf[r] = Tracing!NoCallID /\ callOf' = [callOf EXCEPT ![r] = id]
  <2>1. PICK more, again : history' = [history EXCEPT !.revived = history.revived \cup more,
                                                      !.reused = history.reused \cup again]
    BY <1>5, Zenon DEF Tracing!RegisterToolCallMapping
  <2>2. Grows
    BY <1>0, <2>1 DEF Histories
  <2> QED
    BY <1>5, <2>2 DEF Tracing!RegisterToolCallMapping
<1>6. ASSUME NEW r \in Runs, Tracing!AfterRun(r)
      PROVE  Grows /\ UNCHANGED <<request, callOf>>
  <2>1. /\ \/ UNCHANGED history
           \/ history' = [history EXCEPT !.dropped = history.dropped \cup {r}]
        /\ UNCHANGED <<request, callOf>>
    BY <1>6, Zenon DEF Tracing!AfterRun, Tracing!ScheduleCleanup
  <2> QED
    BY <1>0, <2>1 DEF Histories
<1>7. ASSUME Tracing!CleanupByTraceID PROVE Grows /\ UNCHANGED <<request, callOf>>
  <2>1. PICK t : history' = [history EXCEPT !.cleaned = history.cleaned \cup {t},
                                            !.revived = history.revived \ {t}]
    BY <1>7, Zenon DEF Tracing!CleanupByTraceID
  <2>2. UNCHANGED <<request, callOf>>
    BY <1>7, Zenon DEF Tracing!CleanupByTraceID
  <2> QED
    BY <1>0, <2>1, <2>2 DEF Histories
<1>8. ASSUME Tracing!ExportLookup PROVE Grows /\ UNCHANGED <<request, callOf>>
  <2>1. PICK more : history' = [history EXCEPT !.revived = history.revived \cup more]
    BY <1>8, Zenon DEF Tracing!ExportLookup
  <2> QED
    BY <1>1, <1>8, <2>1 DEF Tracing!ExportLookup, Tracing!ExportUnchanged
<1>9. ASSUME \/ Tracing!CleanupReceive
             \/ \E s \in Tracing!ADKSpans : Tracing!EndSpan(s) \/ Tracing!ExportSpan(s)
             \/ Tracing!ExportMapping \/ Tracing!ExportContext \/ Tracing!ExportParent
             \/ Tracing!Shutdown \/ UNCHANGED tracingVars
      PROVE  UNCHANGED <<request, callOf, history>>
  BY <1>9, Zenon DEF Tracing!CleanupReceive, Tracing!EndSpan, Tracing!ExportSpan,
     Tracing!ExportMapping, Tracing!ExportContext, Tracing!ExportParent, Tracing!ExportUnchanged,
     Tracing!Shutdown, tracingVars
<1> HIDE DEF Grows
<1>10. Grows /\ UNCHANGED request
       /\ \A r \in Runs : callOf[r] # Tracing!NoCallID => callOf'[r] = callOf[r]
  <2>1. CASE UNCHANGED history
    BY <1>3, <1>4, <1>5, <1>6, <1>7, <1>8, <1>9, <1>0, <2>1
       DEF TraceStep, Tracing!TraceNext, Tracing!RunStep, Tracing!SpanStep, Tracing!CleanupStep,
           Grows
  <2>2. CASE ~ UNCHANGED history
    BY <1>3, <1>4, <1>5, <1>6, <1>7, <1>8, <1>9, <1>0, <2>2
       DEF TraceStep, Tracing!TraceNext, Tracing!RunStep, Tracing!SpanStep, Tracing!CleanupStep
  <2> QED
    BY <2>1, <2>2
<1> QED
  BY <1>10 DEF Grows

\* A run that nothing has disturbed: its trace was not cleaned up, and no call of
\* a run with that trace has the ID of another run's call.
Calm(r) ==
    /\ Trace(r) \notin history.cleaned
    /\ \A o \in Runs : Trace(o) = Trace(r) => callOf[o] \notin history.reused

\* A run's traces never change.
LEMMA TracesStay ==
    ASSUME TraceTypes, TraceStep, NEW r \in Runs
    PROVE  Trace(r)' = Trace(r) /\ OwnTrace(r)' = OwnTrace(r)
BY TraceGrows DEF Trace, OwnTrace, Tracing!AdkTrace, Tracing!VeadkTrace

\* A run that is calm has been calm from the start.
LEMMA CalmBefore ==
    ASSUME TraceTypes, TraceStep, NEW r \in Runs, Calm(r)'
    PROVE  Calm(r)
<1>1. Trace(r) \notin history.cleaned
  BY TraceGrows, TracesStay DEF Calm
<1>2. ASSUME NEW o \in Runs, Trace(o) = Trace(r), callOf[o] \in history.reused PROVE FALSE
  <2>1. callOf[o] # Tracing!NoCallID
    BY <1>2, HostAssumption DEF TraceTypes, Histories, Tracing!TraceAssumption
  <2>2. callOf'[o] = callOf[o] /\ callOf'[o] \in history'.reused
    BY <1>2, <2>1, TraceGrows
  <2>3. Trace(o)' = Trace(r)'
    BY <1>2, TracesStay
  <2> QED
    BY <2>2, <2>3 DEF Calm
<1> QED
  BY <1>1, <1>2 DEF Calm

\* Calm runs of one trace are calm together.
LEMMA CalmTogether ==
    ASSUME NEW r \in Runs, Calm(r), NEW o \in Runs, Trace(o) = Trace(r)
    PROVE  Calm(o)
BY DEF Calm

(***************************************************************************)
(* What runs have looked up and the calls that are noted                   *)
(***************************************************************************)

\* A pointer to infos is alive while the map has them, and dies with a cleanup.
WriteInv ==
    \A r \in Runs :
        /\ writing[r].kind = "nothing" => ~ writing[r].live
        /\ writing[r].live => Trace(r) \in Known
        /\ writing[r].kind # "nothing" /\ Trace(r) \notin history.cleaned => writing[r].live
        /\ writing[r].kind = "context" => request[r].trace # NoTrace /\ phase[r] = "open"
        /\ writing[r].kind \in {"mapping", "call"} => phase[r] = "agent"
        /\ writing[r].kind = "call" => callOf[r] # Tracing!NoCallID

\* What a lookup does.
LEMMA LookupEffect ==
    ASSUME TraceTypes, NEW r \in Runs, NEW kind, Tracing!Lookup(r, kind)
    PROVE  /\ Known' = Known \cup {Trace(r)}
           /\ \A t \in Known : infos'[t] = infos[t]
           /\ Trace(r) \notin Known => infos'[Trace(r)] = Tracing!EmptyInfos
           /\ writing' = [writing EXCEPT ![r] = [kind |-> kind, live |-> TRUE]]
           /\ history'.cleaned = history.cleaned /\ history'.reused = history.reused
           /\ history'.orphaned = history.orphaned
<1>1. history \in Histories
  BY DEF TraceTypes
<1> QED
  BY <1>1, TracesOf, InfosOf DEF Tracing!Lookup, Trace, Histories

\* What registering a tool call does.
LEMMA RegisterEffect ==
    ASSUME TraceTypes, NEW r \in Runs, NEW id \in CallIDs, Tracing!RegisterToolCallMapping(r, id)
    PROVE  /\ Known' = Known \cup {Trace(r)}
           /\ \A t \in Known : infos'[t] = infos[t]
           /\ Trace(r) \notin Known => infos'[Trace(r)] = Tracing!EmptyInfos
           /\ writing' = [writing EXCEPT ![r] = [kind |-> "call", live |-> TRUE]]
           /\ history'.cleaned = history.cleaned
           /\ history'.reused = history.reused \cup {c \in {id} : \E o \in Runs : callOf[o] = c}
           /\ history'.orphaned = history.orphaned
<1>1. history \in Histories
  BY DEF TraceTypes
<1>2. /\ history'.cleaned = history.cleaned
      /\ history'.reused = history.reused \cup {c \in {id} : \E o \in Runs : callOf[o] = c}
      /\ history'.orphaned = history.orphaned
  BY <1>1 DEF Tracing!RegisterToolCallMapping, Histories
<1> QED
  BY <1>2, TracesOf, InfosOf DEF Tracing!RegisterToolCallMapping, Trace

\* What a write does to the infos.
LEMMA WriteEffect ==
    ASSUME TraceTypes, NEW r \in Runs, Tracing!Write(r)
    PROVE  /\ Known' = Known
           /\ \A t \in Known : infos'[t] = IF writing[r].live /\ t = Trace(r)
                                           THEN Tracing!Written(r, infos[t]) ELSE infos[t]
           /\ writing' = [writing EXCEPT ![r] = Tracing!NotWriting]
           /\ history'.cleaned = history.cleaned /\ history'.reused = history.reused
<1>1. infos \in [Known -> Infos] /\ history \in Histories
  BY DEF TraceTypes
<1>2. infos' = IF writing[r].live
               THEN [infos EXCEPT ![Trace(r)] = Tracing!Written(r, infos[Trace(r)])] ELSE infos
  BY DEF Tracing!Write, Trace
<1>3. DOMAIN infos' = DOMAIN infos
  BY <1>1, <1>2
<1>4. \/ UNCHANGED history
      \/ history' = [history EXCEPT !.orphaned = history.orphaned \cup {callOf[r]}]
  BY Zenon DEF Tracing!Write
<1>5. history'.cleaned = history.cleaned /\ history'.reused = history.reused
  BY <1>1, <1>4 DEF Histories
<1>6. writing' = [writing EXCEPT ![r] = Tracing!NotWriting]
  BY DEF Tracing!Write
<1> QED
  BY <1>1, <1>2, <1>3, <1>5, <1>6 DEF Known, Tracing!Known

\* What a cleanup does.
LEMMA CleanupEffect ==
    ASSUME TraceTypes, Tracing!CleanupByTraceID
    PROVE  \E trace \in TraceIDs :
              /\ trace = Head(pending).trace /\ pending # <<>> /\ pending' = Tail(pending)
              /\ Known' = Known \ {trace}
              /\ \A t \in Known' : infos'[t] = infos[t]
              /\ \A r \in Runs : /\ writing'[r].kind = writing[r].kind
                                 /\ writing'[r].live <=> writing[r].live /\ Trace(r) # trace
              /\ history'.cleaned = history.cleaned \cup {trace}
              /\ history'.revived = history.revived \ {trace}
              /\ history'.reused = history.reused /\ history'.orphaned = history.orphaned
              /\ history'.dropped = history.dropped
              /\ DOMAIN toolCalls' = IF trace \in Known
                                     THEN DOMAIN toolCalls \ infos[trace].calls
                                     ELSE DOMAIN toolCalls
              /\ \A c \in DOMAIN toolCalls' : toolCalls'[c] = toolCalls[c]
              /\ active' = active \ {Head(pending).run} /\ looping
              /\ UNCHANGED <<request, phase, recording, callOf, queue, looping, spans, link>>
<1> DEFINE trace == Head(pending).trace
<1>1. Head(pending) \in Cleanups
  BY HeadTailProperties DEF Tracing!CleanupByTraceID, TraceTypes
<1>2. trace \in TraceIDs
  BY <1>1 DEF Cleanups
<1>3. /\ pending # <<>> /\ pending' = Tail(pending) /\ looping
      /\ active' = active \ {Head(pending).run}
      /\ UNCHANGED <<request, phase, recording, callOf, queue, looping, spans, link>>
      /\ IF trace \in Tracing!Known
         THEN /\ infos' = [t \in Tracing!Known \ {trace} |-> infos[t]]
              /\ toolCalls' = [c \in DOMAIN toolCalls \ infos[trace].calls |-> toolCalls[c]]
         ELSE UNCHANGED <<infos, toolCalls>>
      /\ writing' = [r \in Runs |-> IF Trace(r) = trace
                                    THEN [writing[r] EXCEPT !.live = FALSE] ELSE writing[r]]
      /\ history' = [history EXCEPT !.cleaned = history.cleaned \cup {trace},
                                    !.revived = history.revived \ {trace}]
  BY Zenon DEF Tracing!CleanupByTraceID, Trace
<1>4. history \in Histories /\ writing \in [Runs -> Writes] /\ infos \in [Known -> Infos]
  BY DEF TraceTypes
<1> HIDE DEF trace
<1>5. /\ history'.cleaned = history.cleaned \cup {trace}
      /\ history'.revived = history.revived \ {trace}
      /\ history'.reused = history.reused /\ history'.orphaned = history.orphaned
      /\ history'.dropped = history.dropped
  BY <1>3, <1>4 DEF Histories
<1>6. \A r \in Runs : /\ writing'[r].kind = writing[r].kind
                      /\ writing'[r].live <=> writing[r].live /\ Trace(r) # trace
  <2>1. ASSUME NEW w \in Writes
        PROVE  [w EXCEPT !.live = FALSE].kind = w.kind /\ [w EXCEPT !.live = FALSE].live = FALSE
    BY <2>1 DEF Writes
  <2>2. ASSUME NEW r \in Runs PROVE writing[r] \in Writes /\ writing[r].live \in BOOLEAN
    BY <1>4, <2>2 DEF Writes
  <2> QED
    BY <1>3, <2>1, <2>2
<1>7. /\ Known' = Known \ {trace}
      /\ \A t \in Known' : infos'[t] = infos[t]
  BY <1>3, <1>4 DEF Known, Tracing!Known
<1>8. /\ DOMAIN toolCalls' = IF trace \in Known
                             THEN DOMAIN toolCalls \ infos[trace].calls ELSE DOMAIN toolCalls
      /\ \A c \in DOMAIN toolCalls' : toolCalls'[c] = toolCalls[c]
  BY <1>3 DEF Known
<1> QED
  BY <1>2, <1>3, <1>5, <1>6, <1>7, <1>8 DEF trace

\* Steps that leave the map and what is looked up alone.
Elsewhere ==
    \/ \E r \in Runs : Tracing!AfterRun(r)
    \/ Tracing!CleanupReceive
    \/ \E s \in Tracing!ADKSpans : Tracing!EndSpan(s) \/ Tracing!ExportSpan(s)
    \/ Tracing!ExportContext \/ Tracing!ExportParent
    \/ Tracing!Shutdown \/ UNCHANGED tracingVars

\* Only the note of a dropped cleanup changes there.
LEMMA ElsewhereEffect ==
    ASSUME TraceTypes, Elsewhere
    PROVE  /\ UNCHANGED <<infos, writing, toolCalls, callOf>>
           /\ history'.cleaned = history.cleaned /\ history'.reused = history.reused
           /\ history'.orphaned = history.orphaned /\ history'.revived = history.revived
<1>1. ASSUME NEW r \in Runs, Tracing!AfterRun(r)
      PROVE  /\ UNCHANGED <<infos, writing, toolCalls, callOf>>
             /\ \/ UNCHANGED history
                \/ history' = [history EXCEPT !.dropped = history.dropped \cup {r}]
  BY <1>1, Zenon DEF Tracing!AfterRun, Tracing!ScheduleCleanup
<1>2. CASE \A r \in Runs : ~ Tracing!AfterRun(r)
  <2>1. UNCHANGED <<infos, writing, toolCalls, callOf, history>>
    BY <1>2, Zenon DEF Elsewhere, Tracing!CleanupReceive, Tracing!EndSpan, Tracing!ExportSpan,
       Tracing!ExportContext, Tracing!ExportParent, Tracing!ExportUnchanged, Tracing!Shutdown,
       tracingVars
  <2> QED
    BY <2>1
<1>3. history \in Histories
  BY DEF TraceTypes
<1> QED
  BY <1>1, <1>2, <1>3 DEF Histories

\* The exporter's part.
LEMMA LookedUpEffect ==
    ASSUME TraceTypes, Tracing!ExportLookup
    PROVE  /\ exporter.span \in Tracing!ADKSpans /\ exporter.span[1] \in Runs
           /\ Known' = Known \cup {Trace(exporter.span[1])}
           /\ \A t \in Known : infos'[t] = infos[t]
           /\ Trace(exporter.span[1]) \notin Known =>
                 infos'[Trace(exporter.span[1])] = Tracing!EmptyInfos
           /\ UNCHANGED <<phase, writing, toolCalls, callOf>>
           /\ history'.cleaned = history.cleaned /\ history'.reused = history.reused
           /\ history'.orphaned = history.orphaned
<1>1. exporter.span \in Tracing!ADKSpans /\ exporter.span[1] \in Runs
  BY ParentTyped DEF Tracing!ExportLookup, Tracing!Exporting, TraceTypes, ExporterTyped
<1>2. history \in Histories
  BY DEF TraceTypes
<1>3. PICK more : history' = [history EXCEPT !.revived = history.revived \cup more]
  BY Zenon DEF Tracing!ExportLookup
<1>4. /\ history'.cleaned = history.cleaned /\ history'.reused = history.reused
      /\ history'.orphaned = history.orphaned
  BY <1>2, <1>3 DEF Histories
<1>5. Tracing!GetOrCreateTraceInfos(Trace(exporter.span[1]))
  BY DEF Tracing!ExportLookup, Trace
<1> QED
  BY <1>1, <1>4, <1>5, TracesOf, InfosOf DEF Tracing!ExportLookup, Tracing!ExportUnchanged

\* The exporter writes through a pointer that is alive.
LEMMA MappingEffect ==
    ASSUME TraceTypes, Tracing!ExportMapping
    PROVE  /\ exporter.span \in Tracing!ADKSpans /\ exporter.span[1] \in Runs
           /\ exporter.parent \in Runs
           /\ Known' = Known
           /\ \A t \in Known :
                 infos'[t] = IF exporter.live /\ t = Trace(exporter.span[1])
                             THEN [infos[t] EXCEPT !.veadk = OwnTrace(exporter.parent)]
                             ELSE infos[t]
           /\ UNCHANGED <<phase, writing, toolCalls, callOf, history>>
<1>1. /\ exporter.span \in Tracing!ADKSpans /\ exporter.span[1] \in Runs
      /\ exporter.parent \in Runs
  BY ParentTyped DEF Tracing!ExportMapping, Tracing!Exporting, TraceTypes, ExporterTyped
<1>2. infos \in [Known -> Infos]
  BY DEF TraceTypes
<1>3. infos' = IF exporter.live
               THEN [infos EXCEPT ![Trace(exporter.span[1])].veadk = OwnTrace(exporter.parent)]
               ELSE infos
  BY DEF Tracing!ExportMapping, Trace, OwnTrace
<1>4. DOMAIN infos' = DOMAIN infos
  BY <1>2, <1>3
<1> QED
  BY <1>1, <1>2, <1>3, <1>4 DEF Tracing!ExportMapping, Tracing!ExportUnchanged, Known, Tracing!Known

\* All steps of the registry.
LEMMA TraceCases ==
    ASSUME TraceStep
    PROVE  \/ \E r \in Runs : \/ Tracing!BeforeRun(r)
                              \/ Tracing!Write(r)
                              \/ Tracing!TryBridgeTraceMapping(r)
                              \/ \E id \in CallIDs : Tracing!RegisterToolCallMapping(r, id)
           \/ Tracing!CleanupByTraceID \/ Tracing!ExportLookup \/ Tracing!ExportMapping
           \/ Elsewhere
BY DEF TraceStep, Tracing!TraceNext, Tracing!RunStep, Tracing!SpanStep, Tracing!CleanupStep,
       Elsewhere

\* Only AfterRun among those steps has to do with a run's phase.
LEMMA ElsewherePhase ==
    ASSUME TraceTypes, Elsewhere, NEW q \in Runs
    PROVE  \/ phase'[q] = phase[q]
           \/ /\ writing[q] = Tracing!NotWriting
              /\ phase[q] \in {"open", "agent"} /\ phase'[q] = "over"
<1>1. ASSUME NEW r \in Runs, Tracing!AfterRun(r)
      PROVE  /\ phase' = [phase EXCEPT ![r] = "over"] /\ phase[r] \in {"open", "agent"}
             /\ writing[r] = Tracing!NotWriting
  BY <1>1 DEF Tracing!AfterRun
<1>2. CASE \A r \in Runs : ~ Tracing!AfterRun(r)
  <2>1. UNCHANGED phase
    BY <1>2, Zenon DEF Elsewhere, Tracing!CleanupReceive, Tracing!EndSpan, Tracing!ExportSpan,
       Tracing!ExportContext, Tracing!ExportParent, Tracing!ExportUnchanged, Tracing!Shutdown,
       tracingVars
  <2> QED
    BY <2>1
<1>3. phase \in [Runs -> {"new", "open", "agent", "over"}]
  BY DEF TraceTypes
<1> QED
  BY <1>1, <1>2, <1>3

\* A lookup makes a live pointer, and only a cleanup of the trace kills it.
LEMMA WriteStep ==
    ASSUME TraceTypes, WriteInv, TraceStep
    PROVE  WriteInv'
<1>0. /\ phase \in [Runs -> {"new", "open", "agent", "over"}] /\ writing \in [Runs -> Writes]
      /\ UNCHANGED request
      /\ \A q \in Runs : Trace(q)' = Trace(q)
  BY TraceGrows, TracesStay DEF TraceTypes
<1>1. ASSUME NEW r \in Runs, Tracing!BeforeRun(r) PROVE WriteInv'
  <2>1. /\ phase[r] = "new" /\ phase' = [phase EXCEPT ![r] = "open"]
        /\ UNCHANGED callOf
    BY <1>1 DEF Tracing!BeforeRun
  <2>2. writing[r].kind = "nothing"
    BY <1>0, <2>1 DEF WriteInv, Writes
  <2>3. CASE request[r].trace # NoTrace
    <3>1. Tracing!Lookup(r, "context")
      BY <1>1, <2>3 DEF Tracing!BeforeRun
    <3> QED
      BY <1>0, <2>1, <2>3, <3>1, LookupEffect DEF WriteInv
  <2>4. CASE request[r].trace = NoTrace
    <3>1. UNCHANGED <<infos, writing, history>>
      BY <1>1, <2>4 DEF Tracing!BeforeRun
    <3> QED
      BY <1>0, <2>1, <2>2, <3>1 DEF WriteInv, Known, Tracing!Known
  <2> QED
    BY <2>3, <2>4
<1>2. ASSUME NEW r \in Runs, Tracing!Write(r) PROVE WriteInv'
  <2>1. UNCHANGED <<phase, callOf>>
    BY <1>2 DEF Tracing!Write
  <2> QED
    BY <1>0, <1>2, <2>1, WriteEffect DEF WriteInv, Tracing!NotWriting
<1>3. ASSUME NEW r \in Runs, Tracing!TryBridgeTraceMapping(r) PROVE WriteInv'
  <2>1. /\ phase' = [phase EXCEPT ![r] = "agent"] /\ UNCHANGED callOf
        /\ writing[r] = Tracing!NotWriting /\ Tracing!Lookup(r, "mapping")
    BY <1>3 DEF Tracing!TryBridgeTraceMapping
  <2> QED
    BY <1>0, <2>1, LookupEffect DEF WriteInv, Tracing!NotWriting
<1>4. ASSUME NEW r \in Runs, NEW id \in CallIDs, Tracing!RegisterToolCallMapping(r, id)
      PROVE  WriteInv'
  <2>1. /\ phase[r] = "agent" /\ UNCHANGED phase
        /\ callOf' = [callOf EXCEPT ![r] = id] /\ id # Tracing!NoCallID
        /\ callOf \in [Runs -> CallOrNone]
    BY <1>4, HostAssumption DEF Tracing!RegisterToolCallMapping, Tracing!TraceAssumption, TraceTypes
  <2> QED
    BY <1>0, <1>4, <2>1, RegisterEffect DEF WriteInv
<1>5. ASSUME Tracing!CleanupByTraceID PROVE WriteInv'
  <2>1. PICK trace \in TraceIDs :
           /\ Known' = Known \ {trace}
           /\ \A r \in Runs : /\ writing'[r].kind = writing[r].kind
                              /\ writing'[r].live <=> writing[r].live /\ Trace(r) # trace
           /\ history'.cleaned = history.cleaned \cup {trace}
           /\ UNCHANGED <<phase, callOf>>
    BY <1>5, CleanupEffect
  <2> QED
    BY <1>0, <2>1 DEF WriteInv
<1>6. ASSUME Tracing!ExportLookup \/ Tracing!ExportMapping PROVE WriteInv'
  BY <1>0, <1>6, LookedUpEffect, MappingEffect DEF WriteInv
<1>7. ASSUME Elsewhere PROVE WriteInv'
  BY <1>0, <1>7, ElsewhereEffect, ElsewherePhase DEF WriteInv, Known, Tracing!Known,
     Tracing!NotWriting
<1> QED
  BY <1>1, <1>2, <1>3, <1>4, <1>5, <1>6, <1>7, TraceCases

\* Two runs with the same call, and the calls that are noted in infos: a run's
\* whose trace it is.
CallsInv ==
    /\ \A o, q \in Runs :
          o # q /\ callOf[o] = callOf[q] /\ callOf[o] # Tracing!NoCallID =>
             callOf[o] \in history.reused
    /\ \A t \in Known : \A c \in infos[t].calls :
          c # Tracing!NoCallID /\ \E o \in Runs : Trace(o) = t /\ callOf[o] = c

\* A call is noted for the run that made it, and one that two runs have is reused.
LEMMA CallsStep ==
    ASSUME TraceTypes, WriteInv, CallsInv, TraceStep
    PROVE  CallsInv'
<1>0. /\ infos \in [Known -> Infos] /\ callOf \in [Runs -> CallOrNone]
      /\ \A q \in Runs : Trace(q)' = Trace(q)
      /\ history.reused \subseteq history'.reused
      /\ \A r \in Runs : callOf[r] # Tracing!NoCallID => callOf'[r] = callOf[r]
      /\ Tracing!EmptyInfos.calls = {}
  BY TraceGrows, TracesStay DEF TraceTypes, Tracing!EmptyInfos
<1>1. ASSUME UNCHANGED callOf,
             \A t \in Known' : \/ t \in Known /\ infos'[t].calls \subseteq infos[t].calls
                               \/ infos'[t].calls = {}
      PROVE  CallsInv'
  BY <1>0, <1>1 DEF CallsInv
<1>2. ASSUME NEW r \in Runs, NEW kind, Tracing!Lookup(r, kind), UNCHANGED callOf PROVE CallsInv'
  BY <1>0, <1>1, <1>2, LookupEffect
<1>3. ASSUME NEW r \in Runs, Tracing!BeforeRun(r) PROVE CallsInv'
  <2>1. UNCHANGED callOf /\ ((\E kind : Tracing!Lookup(r, kind)) \/ UNCHANGED infos)
    BY <1>3 DEF Tracing!BeforeRun
  <2> QED
    BY <1>1, <1>2, <2>1 DEF Known, Tracing!Known
<1>4. ASSUME NEW r \in Runs, Tracing!Write(r) PROVE CallsInv'
  <2>1. UNCHANGED callOf
    BY <1>4 DEF Tracing!Write
  <2>2. ASSUME NEW old \in Infos
        PROVE  Tracing!Written(r, old).calls \subseteq
                  IF writing[r].kind = "call" THEN old.calls \cup {callOf[r]}
                  ELSE IF writing[r].kind \in {"context", "mapping"} THEN old.calls
                  ELSE old.calls \cup {callOf[r]}
    BY DEF Tracing!Written, Infos
  <2>3. writing[r].kind # "nothing"
    <3>1. writing[r] # Tracing!NotWriting /\ writing[r] \in Writes
      BY <1>4 DEF Tracing!Write, TraceTypes
    <3> QED
      BY <3>1 DEF WriteInv, Writes, Tracing!NotWriting
  <2>4. writing[r].kind \in {"context", "mapping", "call"}
    BY <2>3 DEF TraceTypes, Writes
  <2>5. writing[r].kind = "call" => callOf[r] # Tracing!NoCallID
    BY DEF WriteInv
  <2>6. ASSUME NEW t \in Known, NEW c \in infos'[t].calls
        PROVE  c \in infos[t].calls \/ (c = callOf[r] /\ t = Trace(r) /\ c # Tracing!NoCallID)
    BY <1>0, <1>4, <2>2, <2>4, <2>5, <2>6, WriteEffect
  <2> QED
    BY <1>0, <1>4, <2>1, <2>6, WriteEffect DEF CallsInv
<1>5. ASSUME NEW r \in Runs, Tracing!TryBridgeTraceMapping(r) PROVE CallsInv'
  BY <1>2, <1>5 DEF Tracing!TryBridgeTraceMapping
<1>6. ASSUME NEW r \in Runs, NEW id \in CallIDs, Tracing!RegisterToolCallMapping(r, id)
      PROVE  CallsInv'
  <2>1. callOf[r] = Tracing!NoCallID /\ callOf' = [callOf EXCEPT ![r] = id]
    BY <1>6 DEF Tracing!RegisterToolCallMapping
  <2>2. ASSUME NEW t \in Known', NEW c \in infos'[t].calls
        PROVE  c # Tracing!NoCallID /\ \E o \in Runs : Trace(o)' = t /\ callOf'[o] = c
    <3>1. t \in Known /\ c \in infos[t].calls
      BY <1>0, <1>6, <2>2, RegisterEffect
    <3> QED
      BY <1>0, <3>1 DEF CallsInv
  <2>3. ASSUME NEW o \in Runs, NEW q \in Runs, o # q, callOf'[o] = callOf'[q],
               callOf'[o] # Tracing!NoCallID
        PROVE  callOf'[o] \in history'.reused
    BY <1>0, <1>6, <2>1, <2>3, RegisterEffect DEF CallsInv
  <2> QED
    BY <2>2, <2>3 DEF CallsInv
<1>7. ASSUME Tracing!CleanupByTraceID PROVE CallsInv'
  BY <1>1, <1>7, CleanupEffect
<1>8. ASSUME Tracing!ExportLookup PROVE CallsInv'
  BY <1>0, <1>1, <1>8, LookedUpEffect
<1>9. ASSUME Tracing!ExportMapping PROVE CallsInv'
  <2>1. ASSUME NEW t \in Known PROVE infos'[t].calls = infos[t].calls
    <3>1. infos[t] \in Infos
      BY <1>0
    <3>2. [infos[t] EXCEPT !.veadk = OwnTrace(exporter.parent)].calls = infos[t].calls
      BY <3>1 DEF Infos
    <3> QED
      BY <1>9, <3>2, MappingEffect
  <2> QED
    BY <1>1, <1>9, <2>1, MappingEffect
<1>10. ASSUME Elsewhere PROVE CallsInv'
  BY <1>1, <1>10, ElsewhereEffect DEF Known, Tracing!Known
<1> QED
  BY <1>3, <1>4, <1>5, <1>6, <1>7, <1>8, <1>9, <1>10, TraceCases

(***************************************************************************)
(* The spans and their exporter                                            *)
(***************************************************************************)

SpanInv ==
    /\ \A s \in Tracing!ADKSpans :
          spans[s] # "none" =>
             /\ phase[s[1]] \in {"agent", "over"}
             /\ s[2] = "tool" => callOf[s[1]] # Tracing!NoCallID
    /\ exporter.at # "idle" => spans[exporter.span] = "ended"

\* A run's agent comes once, and then the run is over.
LEMMA PhaseOnward ==
    ASSUME TraceTypes, TraceStep, NEW q \in Runs
    PROVE  /\ phase[q] \in {"agent", "over"} => phase'[q] \in {"agent", "over"}
           /\ phase[q] # "new" => phase'[q] # "new"
           /\ phase[q] = "over" => phase'[q] = "over"
<1>0. phase \in [Runs -> {"new", "open", "agent", "over"}]
  BY DEF TraceTypes
<1>1. ASSUME NEW r \in Runs, Tracing!BeforeRun(r)
      PROVE  phase[r] = "new" /\ phase' = [phase EXCEPT ![r] = "open"]
  BY <1>1 DEF Tracing!BeforeRun
<1>2. ASSUME NEW r \in Runs, Tracing!TryBridgeTraceMapping(r)
      PROVE  phase[r] \in {"open", "agent"} /\ phase' = [phase EXCEPT ![r] = "agent"]
  BY <1>2 DEF Tracing!TryBridgeTraceMapping
<1>3. ASSUME NEW r \in Runs,
             Tracing!Write(r) \/ \E id \in CallIDs : Tracing!RegisterToolCallMapping(r, id)
      PROVE  UNCHANGED phase
  BY <1>3, Zenon DEF Tracing!Write, Tracing!RegisterToolCallMapping
<1>4. ASSUME Tracing!CleanupByTraceID \/ Tracing!ExportLookup \/ Tracing!ExportMapping
      PROVE  UNCHANGED phase
  BY <1>4, CleanupEffect, LookedUpEffect, MappingEffect
<1> QED
  BY <1>0, <1>1, <1>2, <1>3, <1>4, ElsewherePhase, TraceCases

\* Steps that are not the exporter's leave its span, its parent and its trace.
LEMMA ExporterCases ==
    ASSUME TraceTypes, TraceStep
    PROVE  \/ /\ exporter'.at = exporter.at /\ exporter'.span = exporter.span
              /\ exporter'.parent = exporter.parent /\ exporter'.trace = exporter.trace
              /\ UNCHANGED <<spans, link>> \/ \E s \in Tracing!ADKSpans : Tracing!EndSpan(s)
           \/ \E s \in Tracing!ADKSpans : Tracing!ExportSpan(s)
           \/ Tracing!ExportLookup \/ Tracing!ExportMapping
           \/ Tracing!ExportContext \/ Tracing!ExportParent
<1>1. ASSUME NEW r \in Runs, Tracing!BeforeRun(r) \/ Tracing!Write(r)
                             \/ Tracing!TryBridgeTraceMapping(r) \/ Tracing!AfterRun(r)
                             \/ \E id \in CallIDs : Tracing!RegisterToolCallMapping(r, id)
      PROVE  UNCHANGED <<exporter, spans, link>>
  BY <1>1, Zenon DEF Tracing!BeforeRun, Tracing!Write, Tracing!TryBridgeTraceMapping,
     Tracing!AfterRun, Tracing!RegisterToolCallMapping
<1>2. ASSUME NEW s \in Tracing!ADKSpans, Tracing!EndSpan(s)
      PROVE  UNCHANGED exporter
  BY <1>2 DEF Tracing!EndSpan
<1>3. ASSUME Tracing!CleanupReceive \/ Tracing!Shutdown \/ UNCHANGED tracingVars
      PROVE  UNCHANGED <<exporter, spans, link>>
  BY <1>3, Zenon DEF Tracing!CleanupReceive, Tracing!Shutdown, tracingVars
<1>4. ASSUME Tracing!CleanupByTraceID
      PROVE  /\ exporter'.at = exporter.at /\ exporter'.span = exporter.span
             /\ exporter'.parent = exporter.parent /\ exporter'.trace = exporter.trace
             /\ UNCHANGED <<spans, link>>
  <2>1. exporter' \in {exporter, [exporter EXCEPT !.live = FALSE]} /\ UNCHANGED <<spans, link>>
    BY <1>4, Zenon DEF Tracing!CleanupByTraceID
  <2> QED
    BY <2>1 DEF TraceTypes, ExporterTyped, Exports
<1> QED
  BY <1>1, <1>2, <1>3, <1>4
     DEF TraceStep, Tracing!TraceNext, Tracing!RunStep, Tracing!SpanStep, Tracing!CleanupStep

\* What the exporter's steps do to it.
LEMMA ExportEffects ==
    ASSUME TraceTypes
    PROVE  /\ \A s \in Tracing!ADKSpans : Tracing!ExportSpan(s) =>
                 /\ spans[s] = "ended" /\ exporter'.span = s
                 /\ exporter'.parent = Tracing!ParentByToolCallID(s)
                 /\ exporter'.at = IF Tracing!ParentByToolCallID(s) # NoRun
                                   THEN "found" ELSE "context"
                 /\ UNCHANGED <<spans, link>>
           /\ Tracing!ExportLookup =>
                 /\ exporter.at = "found" /\ exporter'.at = "held"
                 /\ exporter'.span = exporter.span /\ exporter'.parent = exporter.parent
                 /\ UNCHANGED <<spans, link>>
           /\ Tracing!ExportMapping =>
                 /\ exporter.at = "held" /\ exporter'.at = "context"
                 /\ exporter'.span = exporter.span /\ UNCHANGED <<spans, link>>
           /\ Tracing!ExportContext =>
                 /\ exporter.at = "context" /\ exporter'.at = "parent"
                 /\ exporter'.span = exporter.span
                 /\ exporter'.trace =
                       IF Tracing!ParentByToolCallID(exporter.span) # NoRun
                       THEN OwnTrace(Tracing!ParentByToolCallID(exporter.span))
                       ELSE Tracing!MappedTrace(Trace(exporter.span[1]))
                 /\ UNCHANGED <<spans, link>>
           /\ Tracing!ExportParent =>
                 /\ exporter.at = "parent" /\ exporter'.at = "idle"
                 /\ spans' = [spans EXCEPT ![exporter.span] = "exported"]
<1>0. exporter \in Exports
  BY DEF TraceTypes, ExporterTyped
<1>1. ASSUME NEW s \in Tracing!ADKSpans, Tracing!ExportSpan(s)
      PROVE  /\ spans[s] = "ended" /\ exporter'.span = s
             /\ exporter'.parent = Tracing!ParentByToolCallID(s)
             /\ exporter'.at = IF Tracing!ParentByToolCallID(s) # NoRun
                               THEN "found" ELSE "context"
             /\ UNCHANGED <<spans, link>>
  <2>1. ASSUME NEW at, NEW parent
        PROVE  /\ Tracing!Exporter(s, at, parent).at = at
               /\ Tracing!Exporter(s, at, parent).span = s
               /\ Tracing!Exporter(s, at, parent).parent = parent
    BY DEF Tracing!Exporter, Tracing!Idle
  <2> QED
    BY <1>1, <2>1 DEF Tracing!ExportSpan
<1>2. ASSUME Tracing!ExportLookup
      PROVE  /\ exporter.at = "found" /\ exporter'.at = "held"
             /\ exporter'.span = exporter.span /\ exporter'.parent = exporter.parent
             /\ UNCHANGED <<spans, link>>
  BY <1>0, <1>2 DEF Tracing!ExportLookup, Tracing!Exporting, Exports
<1>3. ASSUME Tracing!ExportMapping
      PROVE  /\ exporter.at = "held" /\ exporter'.at = "context"
             /\ exporter'.span = exporter.span /\ UNCHANGED <<spans, link>>
  BY <1>0, <1>3 DEF Tracing!ExportMapping, Tracing!Exporting, Exports
<1>4. ASSUME Tracing!ExportContext
      PROVE  /\ exporter.at = "context" /\ exporter'.at = "parent"
             /\ exporter'.span = exporter.span
             /\ exporter'.trace = IF Tracing!ParentByToolCallID(exporter.span) # NoRun
                                  THEN OwnTrace(Tracing!ParentByToolCallID(exporter.span))
                                  ELSE Tracing!MappedTrace(Trace(exporter.span[1]))
             /\ UNCHANGED <<spans, link>>
  <2> DEFINE trace == IF Tracing!ParentByToolCallID(exporter.span) # NoRun
                      THEN OwnTrace(Tracing!ParentByToolCallID(exporter.span))
                      ELSE Tracing!MappedTrace(Trace(exporter.span[1]))
  <2>1. /\ exporter.at = "context" /\ UNCHANGED <<spans, link>>
        /\ exporter' = [exporter EXCEPT !.at = "parent", !.trace = trace]
    BY <1>4 DEF Tracing!ExportContext, Tracing!Exporting, Trace, OwnTrace
  <2> HIDE DEF trace
  <2>2. exporter'.at = "parent" /\ exporter'.span = exporter.span /\ exporter'.trace = trace
    BY <1>0, <2>1 DEF Exports
  <2> QED
    BY <2>1, <2>2 DEF trace
<1>5. ASSUME Tracing!ExportParent
      PROVE  /\ exporter.at = "parent" /\ exporter'.at = "idle"
             /\ spans' = [spans EXCEPT ![exporter.span] = "exported"]
  BY <1>5 DEF Tracing!ExportParent, Tracing!Exporting, Tracing!Idle
<1> QED
  BY <1>1, <1>2, <1>3, <1>4, <1>5

\* Spans end in the agent of a run, which the run never goes back from.
LEMMA SpanStep ==
    ASSUME TraceTypes, SpanInv, TraceStep
    PROVE  SpanInv'
<1>0. /\ spans \in [Tracing!ADKSpans -> {"none", "ended", "exported"}]
      /\ \A s \in Tracing!ADKSpans : s[1] \in Runs
      /\ exporter.at # "idle" => exporter.span \in Tracing!ADKSpans
  BY ParentTyped DEF TraceTypes, ExporterTyped
<1>1. ASSUME NEW s \in Tracing!ADKSpans, spans[s] # "none"
      PROVE  /\ phase'[s[1]] \in {"agent", "over"}
             /\ s[2] = "tool" => callOf'[s[1]] # Tracing!NoCallID
  BY <1>0, <1>1, PhaseOnward, TraceGrows DEF SpanInv
<1>2. ASSUME NEW s \in Tracing!ADKSpans, Tracing!EndSpan(s) PROVE SpanInv'
  <2>1. /\ spans' = [spans EXCEPT ![s] = "ended"] /\ UNCHANGED <<phase, callOf, exporter>>
        /\ spans[s] = "none" /\ phase[s[1]] = "agent"
        /\ s[2] = "tool" => callOf[s[1]] # Tracing!NoCallID
    BY <1>2 DEF Tracing!EndSpan
  <2> QED
    BY <1>0, <2>1 DEF SpanInv
<1>3. CASE UNCHANGED spans
  <2>1. \A s \in Tracing!ADKSpans :
          spans'[s] # "none" => /\ phase'[s[1]] \in {"agent", "over"}
                                /\ s[2] = "tool" => callOf'[s[1]] # Tracing!NoCallID
    BY <1>1, <1>3
  <2>2. exporter'.at # "idle" => spans'[exporter'.span] = "ended"
    BY <1>2, <1>3, ExporterCases, ExportEffects DEF SpanInv
  <2> QED
    BY <2>1, <2>2 DEF SpanInv
<1>4. CASE Tracing!ExportParent
  <2>1. /\ exporter.at = "parent" /\ exporter'.at = "idle"
        /\ spans' = [spans EXCEPT ![exporter.span] = "exported"]
    BY <1>4, ExportEffects
  <2>2. spans[exporter.span] = "ended" /\ exporter.span \in Tracing!ADKSpans
    BY <1>0, <2>1 DEF SpanInv
  <2>3. \A s \in Tracing!ADKSpans : spans'[s] # "none" => spans[s] # "none"
    BY <1>0, <2>1, <2>2
  <2> QED
    BY <1>1, <2>1, <2>3 DEF SpanInv
<1> QED
  BY <1>2, <1>3, <1>4, ExporterCases, ExportEffects

(***************************************************************************)
(* The mappings of a calm run                                              *)
(***************************************************************************)

\* Its ADK trace is mapped to the trace of its invocation.
Mapped(r) == Trace(r) \in Known /\ infos[Trace(r)].veadk = OwnTrace(r)

\* ... from the end of its first bridge on, and for as long as a span needs it.
MappedInv ==
    \A r \in Runs :
        /\ Calm(r)
        /\ \/ phase[r] = "agent" /\ writing[r].kind # "mapping"
           \/ \E kind \in Kinds : spans[<<r, kind>>] # "none"
        => Mapped(r)

\* Its call leads to it.
CalledInv ==
    \A r \in Runs :
        Calm(r) /\ callOf[r] # Tracing!NoCallID =>
            callOf[r] \in DOMAIN toolCalls /\ toolCalls[callOf[r]] = r

\* What the exporter has found of a calm run is right.
ExportInv ==
    \A r \in Runs :
        exporter.at # "idle" /\ exporter.span[1] = r /\ Calm(r) =>
            /\ exporter.at \in {"found", "held"} => exporter.parent = r
            /\ exporter.at = "parent" => exporter.trace = OwnTrace(r)

\* With a trace of its own, a run is the invocation of that trace, if it came
\* with one.
Bound(r) ==
    /\ request[r].trace # NoTrace /\ phase[r] # "new" /\ writing[r].kind # "context" =>
          Trace(r) \in Known /\ infos[Trace(r)].invocation = r
    /\ request[r].trace = NoTrace /\ Trace(r) \in Known => infos[Trace(r)].invocation = NoRun

BoundInv == \A r \in Runs : Calm(r) /\ ~ Tracing!Shared(r) => Bound(r)

\* What a write does to the infos' parts.
LEMMA WrittenParts ==
    ASSUME TraceTypes, NEW r \in Runs, NEW old \in Infos, writing[r].kind # "nothing"
    PROVE  /\ Tracing!Written(r, old).veadk =
                 IF writing[r].kind = "mapping" THEN OwnTrace(r) ELSE old.veadk
           /\ Tracing!Written(r, old).invocation =
                 IF writing[r].kind = "context" THEN r ELSE old.invocation
           /\ Tracing!Written(r, old).calls =
                 IF writing[r].kind = "call" THEN old.calls \cup {callOf[r]} ELSE old.calls
<1>1. writing[r].kind \in {"context", "mapping", "call"}
  BY DEF TraceTypes, Writes
<1>2. CASE writing[r].kind = "context"
  BY <1>2 DEF Tracing!Written, Infos
<1>3. CASE writing[r].kind = "mapping"
  BY <1>3 DEF Tracing!Written, Infos, OwnTrace
<1>4. CASE writing[r].kind = "call"
  BY <1>4 DEF Tracing!Written, Infos
<1> QED
  BY <1>1, <1>2, <1>3, <1>4

\* A run that writes has looked something up; if it is calm, the infos are there.
LEMMA Writing ==
    ASSUME TraceTypes, WriteInv, NEW r \in Runs, Tracing!Write(r)
    PROVE  /\ writing[r].kind # "nothing" /\ writing'[r].kind = "nothing"
           /\ Calm(r) => writing[r].live /\ Trace(r) \in Known
<1>1. writing[r] # Tracing!NotWriting /\ writing[r] \in Writes
  BY DEF Tracing!Write, TraceTypes
<1>2. writing[r].kind # "nothing"
  BY <1>1 DEF WriteInv, Writes, Tracing!NotWriting
<1>3. writing'[r].kind = "nothing"
  BY WriteEffect DEF TraceTypes, Tracing!NotWriting
<1> QED
  BY <1>2, <1>3 DEF WriteInv, Calm

\* What is mapped stays mapped while the run is calm.
LEMMA MappedStays ==
    ASSUME TraceTypes, WriteInv, ExportInv, TraceStep, NEW r \in Runs, Calm(r)', Mapped(r)
    PROVE  Mapped(r)'
<1>0. /\ Trace(r)' = Trace(r) /\ OwnTrace(r)' = OwnTrace(r) /\ Calm(r)
      /\ infos \in [Known -> Infos]
  BY TracesStay, CalmBefore DEF TraceTypes
<1> SUFFICES ASSUME TRUE PROVE Trace(r) \in Known' /\ infos'[Trace(r)].veadk = OwnTrace(r)
  BY <1>0 DEF Mapped
<1>1. Trace(r) \in Known /\ infos[Trace(r)].veadk = OwnTrace(r) /\ infos[Trace(r)] \in Infos
  BY <1>0 DEF Mapped
<1>2. ASSUME NEW q \in Runs, Tracing!BeforeRun(q) \/ Tracing!TryBridgeTraceMapping(q)
      PROVE  Trace(r) \in Known' /\ infos'[Trace(r)].veadk = OwnTrace(r)
  <2>1. (\E kind : Tracing!Lookup(q, kind)) \/ UNCHANGED infos
    BY <1>2 DEF Tracing!BeforeRun, Tracing!TryBridgeTraceMapping
  <2> QED
    BY <1>1, <2>1, LookupEffect DEF Known, Tracing!Known
<1>3. ASSUME NEW q \in Runs, Tracing!Write(q)
      PROVE  Trace(r) \in Known' /\ infos'[Trace(r)].veadk = OwnTrace(r)
  <2>1. Tracing!Written(q, infos[Trace(r)]).veadk \in {OwnTrace(q), infos[Trace(r)].veadk}
    BY <1>1, <1>3, Writing, WrittenParts
  <2>2. Trace(r) = Trace(q) => OwnTrace(q) = OwnTrace(r)
    BY TracesOf
  <2> QED
    BY <1>1, <1>3, <2>1, <2>2, WriteEffect
<1>4. ASSUME NEW q \in Runs, NEW id \in CallIDs, Tracing!RegisterToolCallMapping(q, id)
      PROVE  Trace(r) \in Known' /\ infos'[Trace(r)].veadk = OwnTrace(r)
  BY <1>1, <1>4, RegisterEffect
<1>5. ASSUME Tracing!CleanupByTraceID
      PROVE  Trace(r) \in Known' /\ infos'[Trace(r)].veadk = OwnTrace(r)
  <2>1. Trace(r) \notin history'.cleaned
    BY <1>0 DEF Calm
  <2> QED
    BY <1>1, <1>5, <2>1, CleanupEffect
<1>6. ASSUME Tracing!ExportLookup
      PROVE  Trace(r) \in Known' /\ infos'[Trace(r)].veadk = OwnTrace(r)
  BY <1>1, <1>6, LookedUpEffect
<1>7. ASSUME Tracing!ExportMapping
      PROVE  Trace(r) \in Known' /\ infos'[Trace(r)].veadk = OwnTrace(r)
  <2> DEFINE q == exporter.span[1]
  <2>1. q \in Runs /\ exporter.at = "held"
    BY <1>7, MappingEffect, ExportEffects
  <2>2. CASE Trace(r) = Trace(q)
    <3>1. Calm(q)
      BY <1>0, <2>1, <2>2, CalmTogether
    <3>2. exporter.parent = q
      BY <2>1, <3>1 DEF ExportInv
    <3>3. OwnTrace(q) = OwnTrace(r)
      BY <2>1, <2>2, TracesOf
    <3>4. [infos[Trace(r)] EXCEPT !.veadk = OwnTrace(r)].veadk = OwnTrace(r)
      BY <1>1 DEF Infos
    <3> HIDE DEF q
    <3> QED
      BY <1>1, <1>7, <3>2, <3>3, <3>4, MappingEffect DEF q
  <2>3. CASE Trace(r) # Trace(q)
    BY <1>1, <1>7, <2>3, MappingEffect
  <2> QED
    BY <2>2, <2>3
<1>8. ASSUME Elsewhere
      PROVE  Trace(r) \in Known' /\ infos'[Trace(r)].veadk = OwnTrace(r)
  BY <1>1, <1>8, ElsewhereEffect DEF Known, Tracing!Known
<1> QED
  BY <1>2, <1>3, <1>4, <1>5, <1>6, <1>7, <1>8, TraceCases

\* A calm run is mapped before its first span ends, and stays so.
LEMMA MappedStep ==
    ASSUME TraceTypes, WriteInv, SpanInv, ExportInv, MappedInv, TraceStep
    PROVE  MappedInv'
<1> SUFFICES ASSUME NEW r \in Runs, Calm(r)',
                    \/ phase'[r] = "agent" /\ writing'[r].kind # "mapping"
                    \/ \E kind \in Kinds : spans'[<<r, kind>>] # "none"
             PROVE  Mapped(r)'
  BY DEF MappedInv
<1>0. Calm(r) /\ writing \in [Runs -> Writes]
      /\ phase \in [Runs -> {"new", "open", "agent", "over"}]
      /\ spans \in [Tracing!ADKSpans -> {"none", "ended", "exported"}]
  BY CalmBefore DEF TraceTypes
<1> DEFINE Ready == \/ phase[r] = "agent" /\ writing[r].kind # "mapping"
                    \/ \E kind \in Kinds : spans[<<r, kind>>] # "none"
<1>1. CASE Ready
  BY <1>0, <1>1, MappedStays DEF MappedInv
<1>2. CASE ~ Ready
  <2>1. ASSUME Tracing!Write(r), writing[r].kind = "mapping" PROVE Mapped(r)'
    <3>1. writing[r].live /\ Trace(r) \in Known
      BY <1>0, <2>1, Writing
    <3>2. infos[Trace(r)] \in Infos
      BY <3>1 DEF TraceTypes
    <3>3. Tracing!Written(r, infos[Trace(r)]).veadk = OwnTrace(r)
      BY <2>1, <3>2, WrittenParts
    <3> QED
      BY <2>1, <3>1, <3>3, WriteEffect, TracesStay DEF Mapped
  <2>2. ASSUME NEW q \in Runs, Tracing!BeforeRun(q)
        PROVE  FALSE
    <3>1. /\ phase' = [phase EXCEPT ![q] = "open"] /\ UNCHANGED spans
          /\ UNCHANGED writing \/ Tracing!Lookup(q, "context")
      BY <2>2 DEF Tracing!BeforeRun
    <3> QED
      BY <1>0, <1>2, <2>2, <3>1, LookupEffect
  <2>3. ASSUME NEW q \in Runs, Tracing!TryBridgeTraceMapping(q)
        PROVE  FALSE
    <3>1. /\ phase' = [phase EXCEPT ![q] = "agent"] /\ UNCHANGED spans
          /\ Tracing!Lookup(q, "mapping")
      BY <2>3 DEF Tracing!TryBridgeTraceMapping
    <3> QED
      BY <1>0, <1>2, <2>3, <3>1, LookupEffect
  <2>4. ASSUME NEW q \in Runs, NEW id \in CallIDs, Tracing!RegisterToolCallMapping(q, id)
        PROVE  FALSE
    <3>1. UNCHANGED <<phase, spans>> /\ writing[q] = Tracing!NotWriting
      BY <2>4 DEF Tracing!RegisterToolCallMapping
    <3> QED
      BY <1>0, <1>2, <2>4, <3>1, RegisterEffect DEF Tracing!NotWriting
  <2>5. ASSUME NEW q \in Runs, Tracing!Write(q), q # r \/ writing[r].kind # "mapping"
        PROVE  FALSE
    <3>1. UNCHANGED <<phase, spans>>
      BY <2>5 DEF Tracing!Write
    <3> QED
      BY <1>0, <1>2, <2>5, <3>1, WriteEffect
  <2>6. ASSUME NEW s \in Tracing!ADKSpans, Tracing!EndSpan(s) PROVE FALSE
    <3>1. /\ UNCHANGED <<phase, writing>> /\ phase[s[1]] = "agent"
          /\ writing[s[1]] = Tracing!NotWriting /\ spans' = [spans EXCEPT ![s] = "ended"]
      BY <2>6 DEF Tracing!EndSpan
    <3>2. CASE s[1] = r
      BY <1>2, <3>1, <3>2 DEF Tracing!NotWriting
    <3>3. CASE s[1] # r
      BY <1>0, <1>2, <3>1, <3>3 DEF Tracing!ADKSpans
    <3> QED
      BY <3>2, <3>3
  <2>7. ASSUME Tracing!ExportParent PROVE FALSE
    <3>1. /\ UNCHANGED <<phase, writing>>
          /\ spans' = [spans EXCEPT ![exporter.span] = "exported"]
      BY <2>7 DEF Tracing!ExportParent, Tracing!ExportUnchanged
    <3>2. spans[exporter.span] # "none" /\ exporter.span \in Tracing!ADKSpans
      BY <2>7, ExportEffects DEF SpanInv, TraceTypes, ExporterTyped
    <3>3. \A kind \in Kinds : <<r, kind>> \in Tracing!ADKSpans
      BY DEF Tracing!ADKSpans
    <3> QED
      BY <1>0, <1>2, <3>1, <3>2, <3>3
  <2>8. ASSUME Tracing!CleanupByTraceID \/ Tracing!ExportLookup \/ Tracing!ExportMapping
        PROVE  FALSE
    <3>1. UNCHANGED <<phase, spans>> /\ writing'[r].kind = writing[r].kind
      BY <2>8, CleanupEffect, LookedUpEffect, MappingEffect, ExportEffects
    <3> QED
      BY <1>2, <3>1
  <2>9. ASSUME Elsewhere, UNCHANGED spans PROVE FALSE
    BY <1>0, <1>2, <2>9, ElsewhereEffect, ElsewherePhase
  <2> QED
    BY <2>1, <2>2, <2>3, <2>4, <2>5, <2>6, <2>7, <2>8, <2>9, TraceCases, ExporterCases,
       ExportEffects DEF Elsewhere
<1> QED
  BY <1>1, <1>2

\* A calm run's call is overwritten by no other run and is never removed.
LEMMA CalledStep ==
    ASSUME TraceTypes, CallsInv, CalledInv, TraceStep
    PROVE  CalledInv'
<1> SUFFICES ASSUME NEW r \in Runs, Calm(r)', callOf'[r] # Tracing!NoCallID
             PROVE  callOf'[r] \in DOMAIN toolCalls' /\ toolCalls'[callOf'[r]] = r
  BY DEF CalledInv
<1>0. /\ Calm(r) /\ callOf \in [Runs -> CallOrNone] /\ Trace(r)' = Trace(r)
      /\ callOf[r] # Tracing!NoCallID =>
            /\ callOf[r] \in DOMAIN toolCalls /\ toolCalls[callOf[r]] = r
            /\ callOf'[r] = callOf[r]
      /\ callOf'[r] \notin history'.reused
  BY CalmBefore, TracesStay, TraceGrows DEF TraceTypes, CalledInv, Calm
<1>1. ASSUME NEW q \in Runs, NEW id \in CallIDs, Tracing!RegisterToolCallMapping(q, id)
      PROVE  callOf'[r] \in DOMAIN toolCalls' /\ toolCalls'[callOf'[r]] = r
  <2>1. /\ callOf[q] = Tracing!NoCallID /\ callOf' = [callOf EXCEPT ![q] = id]
        /\ toolCalls' = [c \in DOMAIN toolCalls \cup {id} |-> IF c = id THEN q ELSE toolCalls[c]]
    BY <1>1 DEF Tracing!RegisterToolCallMapping
  <2>2. {c \in {id} : \E o \in Runs : callOf[o] = c} \subseteq history'.reused
    BY <1>1, RegisterEffect
  <2>3. CASE q = r
    BY <1>0, <2>1, <2>3
  <2>4. CASE q # r
    <3>1. callOf[r] # Tracing!NoCallID /\ callOf[r] # id
      BY <1>0, <2>1, <2>2, <2>4
    <3> QED
      BY <1>0, <2>1, <2>4, <3>1
  <2> QED
    BY <2>3, <2>4
<1>2. ASSUME Tracing!CleanupByTraceID
      PROVE  callOf'[r] \in DOMAIN toolCalls' /\ toolCalls'[callOf'[r]] = r
  <2>1. PICK trace \in TraceIDs :
           /\ history'.cleaned = history.cleaned \cup {trace}
           /\ DOMAIN toolCalls' = IF trace \in Known
                                  THEN DOMAIN toolCalls \ infos[trace].calls ELSE DOMAIN toolCalls
           /\ \A c \in DOMAIN toolCalls' : toolCalls'[c] = toolCalls[c]
           /\ UNCHANGED callOf /\ history'.reused = history.reused
    BY <1>2, CleanupEffect
  <2>2. Trace(r) # trace
    BY <1>0, <2>1 DEF Calm
  <2>3. ASSUME trace \in Known, callOf[r] \in infos[trace].calls PROVE FALSE
    BY <1>0, <2>1, <2>2, <2>3 DEF CallsInv
  <2> QED
    BY <1>0, <2>1, <2>3
<1>3. ASSUME NEW q \in Runs, Tracing!BeforeRun(q) \/ Tracing!Write(q)
                             \/ Tracing!TryBridgeTraceMapping(q)
      PROVE  UNCHANGED <<callOf, toolCalls>>
  BY <1>3, Zenon DEF Tracing!BeforeRun, Tracing!Write, Tracing!TryBridgeTraceMapping
<1>4. ASSUME Tracing!ExportLookup \/ Tracing!ExportMapping \/ Elsewhere
      PROVE  UNCHANGED <<callOf, toolCalls>>
  BY <1>4, LookedUpEffect, MappingEffect, ElsewhereEffect
<1> QED
  BY <1>0, <1>1, <1>2, <1>3, <1>4, TraceCases

\* Which run a calm run's span finds by its call.
LEMMA Parent ==
    ASSUME TraceTypes, SpanInv, CalledInv, NEW s \in Tracing!ADKSpans, Calm(s[1])
    PROVE  /\ Tracing!ParentByToolCallID(s) \in {s[1], NoRun}
           /\ s[2] # "tool" => Tracing!ParentByToolCallID(s) = NoRun
           /\ s[2] = "tool" /\ spans[s] # "none" => Tracing!ParentByToolCallID(s) = s[1]
<1>1. s[1] \in Runs
  BY ParentTyped
<1>2. CASE s[2] = "tool" /\ callOf[s[1]] \in DOMAIN toolCalls
  <2>1. Tracing!ParentByToolCallID(s) = toolCalls[callOf[s[1]]]
    BY <1>2 DEF Tracing!ParentByToolCallID
  <2>2. callOf[s[1]] # Tracing!NoCallID
    BY <1>2, HostAssumption DEF TraceTypes, Tracing!TraceAssumption
  <2> QED
    BY <1>1, <1>2, <2>1, <2>2 DEF CalledInv
<1>3. CASE ~ (s[2] = "tool" /\ callOf[s[1]] \in DOMAIN toolCalls)
  <2>1. Tracing!ParentByToolCallID(s) = NoRun
    BY <1>3 DEF Tracing!ParentByToolCallID
  <2> QED
    BY <1>1, <1>3, <2>1 DEF CalledInv, SpanInv
<1> QED
  BY <1>2, <1>3

\* What the exporter finds for a calm run is that run, and the trace it is mapped to.
LEMMA ExportStep ==
    ASSUME TraceTypes, SpanInv, MappedInv, CalledInv, ExportInv, TraceStep
    PROVE  ExportInv'
<1> SUFFICES ASSUME NEW r \in Runs, exporter'.at # "idle", exporter'.span[1] = r, Calm(r)'
             PROVE  /\ exporter'.at \in {"found", "held"} => exporter'.parent = r
                    /\ exporter'.at = "parent" => exporter'.trace = OwnTrace(r)'
  BY DEF ExportInv
<1>0. Calm(r) /\ OwnTrace(r)' = OwnTrace(r)
  BY CalmBefore, TracesStay
<1>1. CASE exporter'.at = exporter.at /\ exporter'.span = exporter.span
           /\ exporter'.parent = exporter.parent /\ exporter'.trace = exporter.trace
  BY <1>0, <1>1 DEF ExportInv
<1>2. ASSUME NEW s \in Tracing!ADKSpans, Tracing!ExportSpan(s)
      PROVE  /\ exporter'.at \in {"found", "context"}
             /\ exporter'.at = "found" => exporter'.parent = r
  <2>1. s[1] = r
    BY <1>2, ExportEffects
  <2> QED
    BY <1>0, <1>2, <2>1, Parent, ExportEffects
<1>3. ASSUME Tracing!ExportLookup PROVE exporter'.at = "held" /\ exporter'.parent = r
  BY <1>0, <1>3, ExportEffects DEF ExportInv
<1>4. ASSUME Tracing!ExportMapping \/ Tracing!ExportParent
      PROVE  exporter'.at \in {"context", "idle"}
  BY <1>4, ExportEffects
<1>5. ASSUME Tracing!ExportContext
      PROVE  exporter'.at = "parent" /\ exporter'.trace = OwnTrace(r)
  <2> DEFINE s == exporter.span
  <2>1. /\ exporter.at = "context" /\ exporter'.at = "parent" /\ s[1] = r
        /\ exporter'.trace = IF Tracing!ParentByToolCallID(s) # NoRun
                             THEN OwnTrace(Tracing!ParentByToolCallID(s))
                             ELSE Tracing!MappedTrace(Trace(r))
    BY <1>5, ExportEffects
  <2>2. s \in Tracing!ADKSpans /\ spans[s] = "ended"
    BY <2>1 DEF TraceTypes, ExporterTyped, SpanInv
  <2>3. Tracing!ParentByToolCallID(s) \in {r, NoRun}
    BY <1>0, <2>1, <2>2, Parent
  <2>4. Tracing!MappedTrace(Trace(r)) = OwnTrace(r)
    <3>1. s[2] \in Kinds /\ s = <<r, s[2]>>
      BY <2>1, <2>2 DEF Tracing!ADKSpans
    <3>2. Mapped(r)
      BY <1>0, <2>2, <3>1 DEF MappedInv
    <3> QED
      BY <3>2, TracesOf DEF Mapped, Tracing!MappedTrace, Known
  <2> QED
    BY <2>1, <2>3, <2>4
<1> QED
  BY <1>0, <1>1, <1>2, <1>3, <1>4, <1>5, ExporterCases

\* In a trace of its own, only the run itself writes the invocation.
LEMMA BoundStep ==
    ASSUME TraceTypes, WriteInv, BoundInv, TraceStep
    PROVE  BoundInv'
<1> SUFFICES ASSUME NEW r \in Runs, Calm(r)', ~ Tracing!Shared(r)'
             PROVE  Bound(r)'
  BY DEF BoundInv
<1>0. /\ Calm(r) /\ Trace(r)' = Trace(r) /\ UNCHANGED request
      /\ \A q \in Runs : q # r => Trace(q) # Trace(r)
      /\ infos \in [Known -> Infos] /\ writing \in [Runs -> Writes]
      /\ phase \in [Runs -> {"new", "open", "agent", "over"}]
      /\ Tracing!EmptyInfos.invocation = NoRun
  BY CalmBefore, TracesStay, TraceGrows DEF TraceTypes, Tracing!Shared, Trace, Tracing!EmptyInfos
<1>1. Bound(r)
  BY <1>0 DEF BoundInv, Tracing!Shared, Trace
<1> DEFINE t == Trace(r)
           Same == /\ t \in Known => t \in Known' /\ infos'[t].invocation = infos[t].invocation
                   /\ t \in Known' /\ t \notin Known => infos'[t].invocation = NoRun
<1>2. ASSUME Same, phase'[r] = "new" \/ writing'[r].kind = "context"
                   \/ (phase[r] # "new" /\ writing[r].kind # "context")
      PROVE  Bound(r)'
  BY <1>0, <1>1, <1>2 DEF Bound
<1>3. ASSUME NEW q \in Runs, NEW kind, Tracing!Lookup(q, kind) PROVE Same
  BY <1>0, <1>3, LookupEffect
<1>4. ASSUME NEW q \in Runs, Tracing!BeforeRun(q) PROVE Bound(r)'
  <2>1. /\ phase' = [phase EXCEPT ![q] = "open"]
        /\ IF request[q].trace # NoTrace
           THEN Tracing!Lookup(q, "context") ELSE UNCHANGED <<infos, writing, history>>
    BY <1>4 DEF Tracing!BeforeRun
  <2>2. Same
    BY <1>3, <2>1 DEF Known, Tracing!Known
  <2>3. CASE q # r
    <3>1. writing'[r] = writing[r] /\ phase'[r] = phase[r]
      BY <1>0, <2>1, <2>3, LookupEffect
    <3> QED
      BY <1>2, <2>2, <3>1
  <2>4. CASE q = r /\ request[r].trace # NoTrace
    BY <1>0, <1>2, <2>1, <2>2, <2>4, LookupEffect
  <2>5. CASE q = r /\ request[r].trace = NoTrace
    BY <1>0, <1>1, <2>2, <2>5 DEF Bound
  <2> QED
    BY <2>3, <2>4, <2>5
<1>5. ASSUME NEW q \in Runs, Tracing!TryBridgeTraceMapping(q) PROVE Bound(r)'
  <2>1. /\ Tracing!Lookup(q, "mapping") /\ phase[q] # "new"
        /\ phase' = [phase EXCEPT ![q] = "agent"]
        /\ writing[q] = Tracing!NotWriting
    BY <1>5 DEF Tracing!TryBridgeTraceMapping
  <2>2. /\ phase[r] = "new" => phase'[r] = "new"
        /\ writing[r].kind = "context" => writing'[r].kind = "context"
    BY <1>0, <2>1, LookupEffect DEF Tracing!NotWriting
  <2> QED
    BY <1>2, <1>3, <2>1, <2>2
<1>6. ASSUME NEW q \in Runs, NEW id \in CallIDs, Tracing!RegisterToolCallMapping(q, id)
      PROVE  Bound(r)'
  <2>1. UNCHANGED phase /\ writing[q] = Tracing!NotWriting
    BY <1>6 DEF Tracing!RegisterToolCallMapping
  <2>2. writing[r].kind = "context" => writing'[r].kind = "context"
    BY <1>0, <1>6, <2>1, RegisterEffect DEF Tracing!NotWriting
  <2>3. Same
    BY <1>0, <1>6, RegisterEffect
  <2> QED
    BY <1>2, <2>1, <2>2, <2>3
<1>7. ASSUME NEW q \in Runs, Tracing!Write(q), q # r PROVE Bound(r)'
  <2>1. UNCHANGED phase /\ writing'[r] = writing[r] /\ Same
    BY <1>0, <1>7, WriteEffect DEF Tracing!Write
  <2> QED
    BY <1>2, <2>1
<1>8. ASSUME Tracing!Write(r) PROVE Bound(r)'
  <2>1. /\ UNCHANGED phase /\ writing[r].kind # "nothing" /\ writing[r].live /\ t \in Known
        /\ Known' = Known /\ infos'[t] = Tracing!Written(r, infos[t])
    BY <1>0, <1>8, Writing, WriteEffect DEF Tracing!Write
  <2>2. infos'[t].invocation = IF writing[r].kind = "context" THEN r ELSE infos[t].invocation
    <3>1. infos[t] \in Infos
      BY <1>0, <2>1
    <3>2. Tracing!Written(r, infos[t]).invocation =
             IF writing[r].kind = "context" THEN r ELSE infos[t].invocation
      BY <2>1, <3>1, WrittenParts
    <3> QED
      BY <2>1, <3>2
  <2>3. writing[r].kind = "context" => request[r].trace # NoTrace
    BY DEF WriteInv
  <2> QED
    BY <1>0, <1>1, <2>1, <2>2, <2>3 DEF Bound
<1>9. ASSUME Tracing!CleanupByTraceID PROVE Bound(r)'
  <2>1. t \notin history'.cleaned
    BY <1>0 DEF Calm
  <2>2. PICK trace \in TraceIDs :
           /\ Known' = Known \ {trace} /\ UNCHANGED phase
           /\ \A u \in Known' : infos'[u] = infos[u]
           /\ writing'[r].kind = writing[r].kind
           /\ trace \in history'.cleaned
    BY <1>9, CleanupEffect
  <2> QED
    BY <1>2, <2>1, <2>2
<1>10. ASSUME Tracing!ExportLookup PROVE Bound(r)'
  BY <1>0, <1>2, <1>10, LookedUpEffect
<1>11. ASSUME Tracing!ExportMapping PROVE Bound(r)'
  <2>1. ASSUME t \in Known PROVE infos'[t].invocation = infos[t].invocation
    <3>1. infos[t] \in Infos
      BY <1>0, <2>1
    <3>2. [infos[t] EXCEPT !.veadk = OwnTrace(exporter.parent)].invocation = infos[t].invocation
      BY <3>1 DEF Infos
    <3> QED
      BY <1>11, <2>1, <3>2, MappingEffect
  <2> QED
    BY <1>2, <1>11, <2>1, MappingEffect
<1>12. ASSUME Elsewhere PROVE Bound(r)'
  <2>1. phase[r] = "new" => phase'[r] = "new"
    BY <1>12, ElsewherePhase
  <2> QED
    BY <1>2, <1>12, <2>1, ElsewhereEffect DEF Known, Tracing!Known
<1> QED
  BY <1>4, <1>5, <1>6, <1>7, <1>8, <1>9, <1>10, <1>11, <1>12, TraceCases

\* A span that is exported while its run is calm is linked as it has to be.
LEMMA LinkStep ==
    ASSUME TraceTypes, SpanInv, CalledInv, ExportInv, BoundInv, WriteInv,
           Tracing!SpanLinked, TraceStep
    PROVE  Tracing!SpanLinked'
<1> SUFFICES ASSUME NEW s \in Tracing!ADKSpans, spans'[s] = "exported", Calm(s[1])',
                    ~ (s[2] = "agent" /\ Tracing!Shared(s[1])')
             PROVE  link'[s] = Tracing!Expected(s)'
  BY DEF Tracing!SpanLinked, Calm, Trace
<1>0. PICK r \in Runs : r = s[1]
  BY ParentTyped
<1>1. /\ Calm(r) /\ UNCHANGED request /\ OwnTrace(r)' = OwnTrace(r)
      /\ s[2] = "agent" => ~ Tracing!Shared(r)
  <2>1. Calm(r)'
    BY <1>0
  <2>2. UNCHANGED request
    BY TraceGrows
  <2>3. Tracing!Shared(r)' = Tracing!Shared(r)
    BY <2>2 DEF Tracing!Shared, Tracing!AdkTrace
  <2>4. s[2] = "agent" => ~ Tracing!Shared(r)'
    BY <1>0
  <2> QED
    BY <2>1, <2>2, <2>3, <2>4, CalmBefore, TracesStay
<1>2. Tracing!Expected(s)' = Tracing!Expected(s)
  BY <1>1 DEF Tracing!Expected, Tracing!VeadkTrace
<1>3. /\ spans \in [Tracing!ADKSpans -> {"none", "ended", "exported"}]
      /\ link \in [Tracing!ADKSpans -> [trace : TraceIDs, parent : RunOrNone]]
  BY DEF TraceTypes
<1>4. ASSUME Tracing!ExportParent
      PROVE  /\ exporter.at = "parent" /\ spans[exporter.span] = "ended"
             /\ exporter.span \in Tracing!ADKSpans
             /\ spans' = [spans EXCEPT ![exporter.span] = "exported"]
             /\ \E parent : link' = [link EXCEPT ![exporter.span] =
                                        [trace |-> exporter.trace, parent |-> parent]]
  <2>1. \E parent : link' = [link EXCEPT ![exporter.span] =
                               [trace |-> exporter.trace, parent |-> parent]]
    BY <1>4, Zenon DEF Tracing!ExportParent
  <2> QED
    BY <1>4, <2>1, ExportEffects DEF TraceTypes, ExporterTyped, SpanInv
<1>5. ASSUME NEW e \in Tracing!ADKSpans, Tracing!EndSpan(e)
      PROVE  UNCHANGED link /\ spans' = [spans EXCEPT ![e] = "ended"]
  BY <1>5 DEF Tracing!EndSpan
<1>6. CASE spans[s] = "exported"
  <2>1. link'[s] = link[s]
    BY <1>3, <1>4, <1>5, <1>6, ExporterCases, ExportEffects
  <2>2. link[s] = Tracing!Expected(s)
    BY <1>0, <1>1, <1>6 DEF Tracing!SpanLinked, Calm, Trace
  <2> QED
    BY <1>2, <2>1, <2>2
<1>7. CASE spans[s] # "exported"
  <2>1. Tracing!ExportParent /\ exporter.span = s
    <3>1. ASSUME UNCHANGED spans PROVE FALSE
      BY <1>7, <3>1
    <3>2. ASSUME NEW e \in Tracing!ADKSpans, Tracing!EndSpan(e) PROVE FALSE
      BY <1>3, <1>5, <1>7, <3>2
    <3>3. Tracing!ExportParent
      BY <3>1, <3>2, ExporterCases, ExportEffects
    <3> QED
      BY <1>3, <1>4, <1>7, <3>3
  <2> DEFINE agent == /\ s[2] = "agent" /\ Trace(r) \in Known
                      /\ infos[Trace(r)].invocation # NoRun
             parent == IF agent THEN infos[Trace(r)].invocation ELSE Tracing!ParentByToolCallID(s)
  <2>2. link' = [link EXCEPT ![s] = [trace |-> exporter.trace, parent |-> parent]]
    BY <1>0, <2>1 DEF Tracing!ExportParent, Trace, Known
  <2> HIDE DEF parent
  <2>3. link'[s] = [trace |-> exporter.trace, parent |-> parent]
    BY <1>3, <2>2
  <2>4. exporter.trace = OwnTrace(r)
    BY <1>0, <1>1, <1>4, <2>1 DEF ExportInv
  <2>5. spans[s] = "ended" /\ phase[r] \in {"agent", "over"} /\ writing[r].kind # "context"
    BY <1>0, <1>4, <2>1 DEF SpanInv, WriteInv
  <2>6. /\ Tracing!ParentByToolCallID(s) \in {r, NoRun}
        /\ s[2] # "tool" => Tracing!ParentByToolCallID(s) = NoRun
        /\ s[2] = "tool" => Tracing!ParentByToolCallID(s) = r
    BY <1>0, <1>1, <2>5, Parent
  <2>7. CASE s[2] = "agent"
    <3>1. Bound(r)
      BY <1>1, <2>7 DEF BoundInv
    <3>2. CASE request[r].trace # NoTrace
      <4>1. parent = r
        BY <2>5, <2>7, <3>1, <3>2, HostAssumption DEF Bound, parent, Tracing!TraceAssumption
      <4> QED
        BY <1>0, <1>2, <2>3, <2>4, <2>7, <3>2, <4>1 DEF Tracing!Expected, OwnTrace
    <3>3. CASE request[r].trace = NoTrace
      <4>1. parent = NoRun
        BY <2>6, <2>7, <3>1, <3>3 DEF Bound, parent
      <4> QED
        BY <1>0, <1>2, <2>3, <2>4, <2>7, <3>3, <4>1 DEF Tracing!Expected, OwnTrace
    <3> QED
      BY <3>2, <3>3
  <2>8. CASE s[2] # "agent"
    <3>1. parent = IF s[2] = "tool" THEN r ELSE NoRun
      BY <2>6, <2>8 DEF parent
    <3> QED
      BY <1>0, <1>2, <2>3, <2>4, <2>8, <3>1 DEF Tracing!Expected, OwnTrace
  <2> QED
    BY <2>7, <2>8
<1> QED
  BY <1>6, <1>7

(***************************************************************************)
(* What is left to clean up                                                *)
(***************************************************************************)

\* A cleanup that was asked for is that of the trace its run came with.
QueueInv ==
    /\ \A i \in DOMAIN queue : queue[i].trace = Trace(queue[i].run)
    /\ \A i \in DOMAIN pending : pending[i].trace = Trace(pending[i].run)

Awaiting(r) ==
    \/ \E i \in DOMAIN queue : queue[i].run = r
    \/ \E i \in DOMAIN pending : pending[i].run = r

Under(r) == phase[r] \in {"open", "agent"}

\* A run that is still to be cleaned up after, or never will be.
Pending(r) == Under(r) \/ Awaiting(r) \/ Tracing!Uncleaned(r)

\* What is in the maps has a run that is pending, or a cause that history names.
LeakInv ==
    /\ active \subseteq Runs
    /\ looping =>
          /\ \A r \in Runs : Under(r) /\ request[r].sampled => r \in recording
          /\ \A r \in active : Pending(r)
          /\ \A r \in Runs : phase[r] = "over" => Pending(r) \/ Trace(r) \in history.cleaned
          /\ \A t \in Known :
                t \in history.revived \/ \E r \in Runs : Trace(r) = t /\ Pending(r)
          /\ \A c \in DOMAIN toolCalls :
                \/ c \in history.orphaned
                \/ \E r \in Runs :
                      /\ callOf[r] = c
                      /\ \/ writing[r].kind = "call"
                         \/ Pending(r) /\ Trace(r) \in Known /\ c \in infos[Trace(r)].calls

\* The steps that touch the requests for cleanups.
LEMMA QueueCases ==
    ASSUME TraceTypes, TraceStep
    PROVE  \/ UNCHANGED <<queue, pending>>
           \/ \E r \in Runs : /\ Tracing!AfterRun(r) /\ UNCHANGED pending
                              /\ request[r].trace # NoTrace
                              /\ queue' = Append(queue, [trace |-> request[r].trace, run |-> r])
           \/ /\ queue # <<>> /\ queue' = Tail(queue)
              /\ pending' = Append(pending, Head(queue))
           \/ /\ Tracing!CleanupByTraceID /\ UNCHANGED queue
              /\ pending # <<>> /\ pending' = Tail(pending)
<1>1. ASSUME NEW r \in Runs, Tracing!AfterRun(r)
      PROVE  /\ UNCHANGED pending
             /\ \/ UNCHANGED queue
                \/ /\ request[r].trace # NoTrace
                   /\ queue' = Append(queue, [trace |-> request[r].trace, run |-> r])
  BY <1>1, Zenon DEF Tracing!AfterRun, Tracing!ScheduleCleanup
<1>2. ASSUME NEW r \in Runs, Tracing!BeforeRun(r) \/ Tracing!Write(r)
                             \/ Tracing!TryBridgeTraceMapping(r)
                             \/ \E id \in CallIDs : Tracing!RegisterToolCallMapping(r, id)
      PROVE  UNCHANGED <<queue, pending>>
  BY <1>2, Zenon DEF Tracing!BeforeRun, Tracing!Write, Tracing!TryBridgeTraceMapping,
     Tracing!RegisterToolCallMapping
<1>3. ASSUME Tracing!SpanStep \/ Tracing!Shutdown \/ UNCHANGED tracingVars
      PROVE  UNCHANGED <<queue, pending>>
  BY <1>3, Zenon DEF Tracing!SpanStep, Tracing!EndSpan, Tracing!ExportSpan, Tracing!ExportLookup,
     Tracing!ExportMapping, Tracing!ExportContext, Tracing!ExportParent, Tracing!ExportUnchanged,
     Tracing!Shutdown, tracingVars
<1>4. ASSUME Tracing!CleanupReceive
      PROVE  /\ queue # <<>> /\ queue' = Tail(queue)
             /\ pending' = Append(pending, Head(queue))
  BY <1>4 DEF Tracing!CleanupReceive
<1>5. ASSUME Tracing!CleanupByTraceID
      PROVE  UNCHANGED queue /\ pending # <<>> /\ pending' = Tail(pending)
  BY <1>5, CleanupEffect
<1> QED
  BY <1>1, <1>2, <1>3, <1>4, <1>5
     DEF TraceStep, Tracing!TraceNext, Tracing!RunStep, Tracing!CleanupStep

\* The elements of a sequence that loses its first or gets a last one.
LEMMA Tails ==
    ASSUME NEW S, NEW s \in Seq(S), s # <<>>
    PROVE  /\ Head(s) = s[1] /\ 1 \in DOMAIN s
           /\ \A i \in DOMAIN Tail(s) : i + 1 \in DOMAIN s /\ Tail(s)[i] = s[i + 1]
           /\ \A i \in DOMAIN s : i = 1 \/ (i - 1 \in DOMAIN Tail(s) /\ Tail(s)[i - 1] = s[i])
BY HeadTailProperties

\* ... and of one that gets a last element.
LEMMA Appendages ==
    ASSUME NEW S, NEW s \in Seq(S), NEW e \in S
    PROVE  /\ \A i \in DOMAIN s : i \in DOMAIN Append(s, e) /\ Append(s, e)[i] = s[i]
           /\ Len(s) + 1 \in DOMAIN Append(s, e) /\ Append(s, e)[Len(s) + 1] = e
           /\ \A i \in DOMAIN Append(s, e) : i \in DOMAIN s \/ i = Len(s) + 1
BY AppendProperties

\* A request enters the queue with the trace of its run, and keeps it.
LEMMA QueueStep ==
    ASSUME TraceTypes, QueueInv, TraceStep
    PROVE  QueueInv'
<1>0. /\ queue \in Seq(Cleanups) /\ pending \in Seq(Cleanups)
      /\ \A r \in Runs : Trace(r)' = Trace(r)
      /\ \A i \in DOMAIN queue : queue[i].run \in Runs
      /\ \A i \in DOMAIN pending : pending[i].run \in Runs
  <2>1. queue \in Seq(Cleanups) /\ pending \in Seq(Cleanups)
    BY DEF TraceTypes
  <2>2. ASSUME NEW s \in Seq(Cleanups), NEW i \in DOMAIN s PROVE s[i].run \in Runs
    <3>1. s[i] \in Cleanups
      BY <2>2
    <3> QED
      BY <3>1 DEF Cleanups
  <2> QED
    BY <2>1, <2>2, TracesStay
<1> DEFINE Fits(q) == q.trace = Trace(q.run)
<1>1. ASSUME \A i \in DOMAIN queue' : queue'[i].run \in Runs /\ Fits(queue'[i]),
             \A i \in DOMAIN pending' : pending'[i].run \in Runs /\ Fits(pending'[i])
      PROVE  QueueInv'
  <2>1. UNCHANGED request
    BY TraceGrows
  <2>2. ASSUME NEW i \in DOMAIN queue' PROVE (queue[i].trace)' = Trace(queue[i].run)'
    <3>1. queue'[i].trace = Trace(queue'[i].run)
      BY <1>1, <2>2
    <3> QED
      BY <2>1, <3>1 DEF Trace, Tracing!AdkTrace
  <2>3. ASSUME NEW i \in DOMAIN pending' PROVE (pending[i].trace)' = Trace(pending[i].run)'
    <3>1. pending'[i].trace = Trace(pending'[i].run)
      BY <1>1, <2>3
    <3> QED
      BY <2>1, <3>1 DEF Trace, Tracing!AdkTrace
  <2> QED
    BY <2>2, <2>3 DEF QueueInv
<1>2. /\ \A i \in DOMAIN queue : queue[i].run \in Runs /\ Fits(queue[i])
      /\ \A i \in DOMAIN pending : pending[i].run \in Runs /\ Fits(pending[i])
  BY <1>0 DEF QueueInv
<1>3. CASE UNCHANGED <<queue, pending>>
  BY <1>1, <1>2, <1>3
<1>4. ASSUME NEW r \in Runs, request[r].trace # NoTrace, UNCHANGED pending,
             queue' = Append(queue, [trace |-> request[r].trace, run |-> r])
      PROVE  QueueInv'
  <2> DEFINE item == [trace |-> request[r].trace, run |-> r]
  <2>1. item \in Cleanups
    BY TracesOf DEF Cleanups
  <2>2. item.run \in Runs /\ Fits(item)
    BY <1>4 DEF Trace, Tracing!AdkTrace
  <2> HIDE DEF item, Fits
  <2>3. queue' = Append(queue, item)
    BY <1>4 DEF item
  <2> QED
    BY <1>0, <1>1, <1>2, <1>4, <2>1, <2>2, <2>3, Appendages
<1>5. CASE queue # <<>> /\ queue' = Tail(queue) /\ pending' = Append(pending, Head(queue))
  <2> HIDE DEF Fits
  <2>1. Head(queue) \in Cleanups /\ Head(queue).run \in Runs /\ Fits(Head(queue))
    BY <1>0, <1>2, <1>5, Tails
  <2>2. \A i \in DOMAIN queue' : queue'[i].run \in Runs /\ Fits(queue'[i])
    BY <1>0, <1>2, <1>5, Tails
  <2>3. \A i \in DOMAIN pending' : pending'[i].run \in Runs /\ Fits(pending'[i])
    BY <1>0, <1>2, <1>5, <2>1, Appendages
  <2> QED
    BY <1>1, <2>2, <2>3
<1>6. CASE UNCHANGED queue /\ pending # <<>> /\ pending' = Tail(pending)
  <2> HIDE DEF Fits
  <2>1. \A i \in DOMAIN pending' : pending'[i].run \in Runs /\ Fits(pending'[i])
    BY <1>0, <1>2, <1>6, Tails
  <2> QED
    BY <1>1, <1>2, <1>6, <2>1
<1> QED
  BY <1>3, <1>4, <1>5, <1>6, QueueCases

\* A run waits for its cleanup until its turn has come.
LEMMA AwaitingStep ==
    ASSUME TraceTypes, TraceStep, NEW r, Awaiting(r)
    PROVE  Awaiting(r)' \/ (Tracing!CleanupByTraceID /\ Head(pending).run = r)
<1>0. queue \in Seq(Cleanups) /\ pending \in Seq(Cleanups)
  BY DEF TraceTypes
<1>1. CASE UNCHANGED <<queue, pending>>
  BY <1>1 DEF Awaiting
<1>2. ASSUME NEW q \in Runs, UNCHANGED pending,
             queue' = Append(queue, [trace |-> request[q].trace, run |-> q])
      PROVE  Awaiting(r)'
  <2>1. [trace |-> request[q].trace, run |-> q] \in Cleanups
    BY TracesOf DEF Cleanups
  <2>2. \A i \in DOMAIN queue : i \in DOMAIN queue' /\ queue'[i] = queue[i]
    BY <1>0, <1>2, <2>1, Appendages
  <2> QED
    BY <1>2, <2>2 DEF Awaiting
<1>3. CASE queue # <<>> /\ queue' = Tail(queue) /\ pending' = Append(pending, Head(queue))
  <2>0. Head(queue) \in Cleanups
    BY <1>0, <1>3, Tails
  <2>1. ASSUME NEW i \in DOMAIN pending, pending[i].run = r PROVE Awaiting(r)'
    BY <1>0, <1>3, <2>0, <2>1, Appendages DEF Awaiting
  <2>2. ASSUME Head(queue).run = r PROVE Awaiting(r)'
    BY <1>0, <1>3, <2>0, <2>2, Appendages DEF Awaiting
  <2>3. ASSUME NEW i \in DOMAIN queue, queue[i].run = r, i # 1 PROVE Awaiting(r)'
    BY <1>0, <1>3, <2>3, Tails DEF Awaiting
  <2> QED
    BY <1>0, <1>3, <2>1, <2>2, <2>3, Tails DEF Awaiting
<1>4. CASE Tracing!CleanupByTraceID /\ UNCHANGED queue /\ pending # <<>> /\ pending' = Tail(pending)
  <2>1. ASSUME NEW i \in DOMAIN pending, pending[i].run = r, i # 1 PROVE Awaiting(r)'
    BY <1>0, <1>4, <2>1, Tails DEF Awaiting
  <2>2. ASSUME NEW i \in DOMAIN queue, queue[i].run = r PROVE Awaiting(r)'
    BY <1>4, <2>2 DEF Awaiting
  <2> QED
    BY <1>0, <1>4, <2>1, <2>2, Tails DEF Awaiting
<1> QED
  BY <1>1, <1>2, <1>3, <1>4, QueueCases

\* A run stays pending until its turn in the cleanup loop.  One that ends has
\* asked for its cleanup, was dropped by a full queue, or nobody will ask.
LEMMA PendingStep ==
    ASSUME TraceTypes, QueueInv, LeakInv, looping, looping', TraceStep, NEW r \in Runs, Pending(r)
    PROVE  \/ Pending(r)'
           \/ /\ Tracing!CleanupByTraceID
              /\ Head(pending).run = r /\ Head(pending).trace = Trace(r)
<1>0. /\ phase \in [Runs -> {"new", "open", "agent", "over"}] /\ UNCHANGED request
      /\ history.dropped \subseteq history'.dropped
      /\ queue \in Seq(Cleanups) /\ pending \in Seq(Cleanups)
  BY TraceGrows DEF TraceTypes
<1>1. CASE Tracing!Uncleaned(r)
  BY <1>0, <1>1, PhaseOnward DEF Pending, Tracing!Uncleaned
<1>2. CASE Awaiting(r)
  <2>1. ASSUME Tracing!CleanupByTraceID, Head(pending).run = r PROVE Head(pending).trace = Trace(r)
    <3>1. pending # <<>>
      BY <2>1, CleanupEffect
    <3> QED
      BY <1>0, <2>1, <3>1, Tails DEF QueueInv
  <2> QED
    BY <1>2, <2>1, AwaitingStep DEF Pending
<1>3. CASE Under(r)
  <2>1. CASE phase'[r] = "over"
    <3>1. Tracing!AfterRun(r)
      <4>1. ASSUME NEW q \in Runs, Tracing!AfterRun(q) PROVE phase' = [phase EXCEPT ![q] = "over"]
        BY <4>1 DEF Tracing!AfterRun
      <4>2. ASSUME NEW q \in Runs, Tracing!BeforeRun(q) \/ Tracing!TryBridgeTraceMapping(q)
            PROVE  \E next \in {"open", "agent"} : phase' = [phase EXCEPT ![q] = next]
        BY <4>2 DEF Tracing!BeforeRun, Tracing!TryBridgeTraceMapping
      <4>3. ASSUME NEW q \in Runs,
                   Tracing!Write(q) \/ \E id \in CallIDs : Tracing!RegisterToolCallMapping(q, id)
            PROVE  UNCHANGED phase
        BY <4>3, Zenon DEF Tracing!Write, Tracing!RegisterToolCallMapping
      <4>4. ASSUME Tracing!CleanupByTraceID \/ Tracing!ExportLookup \/ Tracing!ExportMapping
            PROVE  UNCHANGED phase
        BY <4>4, CleanupEffect, LookedUpEffect, MappingEffect
      <4>5. ASSUME Elsewhere, \A q \in Runs : ~ Tracing!AfterRun(q) PROVE UNCHANGED phase
        BY <4>5, Zenon DEF Elsewhere, Tracing!CleanupReceive, Tracing!EndSpan, Tracing!ExportSpan,
           Tracing!ExportContext, Tracing!ExportParent, Tracing!ExportUnchanged, Tracing!Shutdown,
           tracingVars
      <4> QED
        BY <1>0, <1>3, <2>1, <4>1, <4>2, <4>3, <4>4, <4>5, TraceCases DEF Under
    <3>2. CASE request[r].trace = NoTrace \/ ~ request[r].sampled
      BY <1>0, <2>1, <3>2 DEF Pending, Tracing!Uncleaned
    <3>3. CASE request[r].trace # NoTrace /\ request[r].sampled
      <4>1. r \in recording
        BY <1>3, <3>3 DEF LeakInv
      <4>2. Tracing!ScheduleCleanup(r)
        BY <3>1, <3>3, <4>1 DEF Tracing!AfterRun
      <4>3. CASE history' = [history EXCEPT !.dropped = history.dropped \cup {r}]
        <5>1. history \in Histories
          BY DEF TraceTypes
        <5>2. r \in history'.dropped
          BY <4>3, <5>1 DEF Histories
        <5> QED
          BY <2>1, <5>2 DEF Pending, Tracing!Uncleaned
      <4>4. CASE queue' = Append(queue, [trace |-> request[r].trace, run |-> r])
        <5>1. [trace |-> request[r].trace, run |-> r] \in Cleanups
          BY TracesOf DEF Cleanups
        <5> QED
          BY <1>0, <4>4, <5>1, Appendages DEF Pending, Awaiting
      <4> QED
        BY <4>2, <4>3, <4>4 DEF Tracing!ScheduleCleanup
    <3> QED
      BY <3>2, <3>3
  <2>2. CASE phase'[r] # "over"
    <3>1. phase'[r] # "new" /\ phase'[r] \in {"new", "open", "agent", "over"}
      BY <1>0, <1>3, PhaseOnward, TraceTypesStep DEF Under, TraceTypes
    <3> QED
      BY <2>2, <3>1 DEF Pending, Under
  <2> QED
    BY <2>1, <2>2
<1> QED
  BY <1>1, <1>2, <1>3 DEF Pending

\* What comes into the map, and what a run's looking it up leaves there.
LEMMA KnownStep ==
    ASSUME TraceTypes, SpanInv, TraceStep
    PROVE  /\ \A t \in Known' :
                 \/ t \in Known
                 \/ \E r \in Runs : Trace(r) = t /\ Under(r)'
                 \/ \E r \in Runs : /\ Trace(r) = t /\ phase'[r] = phase[r]
                                    /\ phase[r] \in {"agent", "over"}
                                    /\ t \in history.cleaned => t \in history'.revived
           /\ \A t \in Known \cap Known' : infos[t].calls \subseteq infos'[t].calls
           /\ \A t \in Known' : t \in history.revived => t \in history'.revived
<1>0. /\ infos \in [Known -> Infos] /\ history \in Histories
      /\ phase \in [Runs -> {"new", "open", "agent", "over"}]
      /\ writing \in [Runs -> Writes]
  BY DEF TraceTypes
<1>1. ASSUME NEW r \in Runs, NEW kind, Tracing!Lookup(r, kind)
      PROVE  history.revived \subseteq history'.revived
  BY <1>0, <1>1 DEF Tracing!Lookup, Histories
<1>2. ASSUME NEW r \in Runs, Tracing!BeforeRun(r) \/ Tracing!TryBridgeTraceMapping(r)
      PROVE  /\ (\E kind : Tracing!Lookup(r, kind)) \/ UNCHANGED <<infos, history>>
             /\ \E next \in {"open", "agent"} : phase' = [phase EXCEPT ![r] = next]
  BY <1>2 DEF Tracing!BeforeRun, Tracing!TryBridgeTraceMapping
<1>3. CASE \E r \in Runs : Tracing!BeforeRun(r) \/ Tracing!TryBridgeTraceMapping(r)
  <2>1. PICK r \in Runs : Tracing!BeforeRun(r) \/ Tracing!TryBridgeTraceMapping(r)
    BY <1>3
  <2>2. phase'[r] \in {"open", "agent"}
    BY <1>0, <1>2, <2>1
  <2>3. CASE UNCHANGED <<infos, history>>
    BY <2>3 DEF Known, Tracing!Known
  <2>4. ASSUME NEW kind, Tracing!Lookup(r, kind)
        PROVE  /\ Known' = Known \cup {Trace(r)}
               /\ \A t \in Known : infos'[t] = infos[t]
               /\ history.revived \subseteq history'.revived
    BY <1>1, <2>4, LookupEffect
  <2>5. CASE \E kind : Tracing!Lookup(r, kind)
    BY <2>2, <2>4, <2>5 DEF Under
  <2> QED
    BY <1>2, <2>1, <2>3, <2>5
<1>4. ASSUME NEW r \in Runs, NEW id \in CallIDs, Tracing!RegisterToolCallMapping(r, id)
      PROVE  phase'[r] = "agent" /\ history.revived \subseteq history'.revived
  <2>1. PICK more, again : history' = [history EXCEPT !.revived = history.revived \cup more,
                                                      !.reused = history.reused \cup again]
    BY <1>4, Zenon DEF Tracing!RegisterToolCallMapping
  <2>2. history.revived \subseteq history'.revived
    BY <1>0, <2>1 DEF Histories
  <2> QED
    BY <1>4, <2>2 DEF Tracing!RegisterToolCallMapping
<1>5. CASE \E r \in Runs, id \in CallIDs : Tracing!RegisterToolCallMapping(r, id)
  BY <1>4, <1>5, RegisterEffect DEF Under
<1>6. ASSUME NEW r \in Runs, Tracing!Write(r)
      PROVE  /\ history'.revived = history.revived
             /\ \A old \in Infos : old.calls \subseteq Tracing!Written(r, old).calls
  <2>1. \/ UNCHANGED history
        \/ history' = [history EXCEPT !.orphaned = history.orphaned \cup {callOf[r]}]
    BY <1>6, Zenon DEF Tracing!Write
  <2>2. history'.revived = history.revived
    BY <1>0, <2>1 DEF Histories
  <2>3. ASSUME NEW old \in Infos PROVE old.calls \subseteq Tracing!Written(r, old).calls
    BY <2>3 DEF Tracing!Written, Infos
  <2> QED
    BY <2>2, <2>3
<1>7. CASE \E r \in Runs : Tracing!Write(r)
  BY <1>0, <1>6, <1>7, WriteEffect
<1>8. CASE Tracing!CleanupByTraceID
  BY <1>8, CleanupEffect
<1>9. CASE Tracing!ExportLookup
  <2> DEFINE t == Trace(exporter.span[1])
  <2>1. exporter.at = "found" /\ UNCHANGED phase /\ exporter.span[1] \in Runs
    BY <1>9, LookedUpEffect, ExportEffects
  <2>2. phase[exporter.span[1]] \in {"agent", "over"}
    BY <1>9, <2>1, LookedUpEffect DEF SpanInv
  <2>3. history' = [history EXCEPT !.revived = history.revived \cup Tracing!Revived(t)]
    BY <1>9 DEF Tracing!ExportLookup, Trace
  <2>4. history'.revived = history.revived \cup Tracing!Revived(t)
    BY <1>0, <2>3 DEF Histories
  <2>5. t \notin Known /\ t \in history.cleaned => t \in history'.revived
    BY <2>4 DEF Tracing!Revived, Known
  <2> QED
    BY <1>9, <2>1, <2>2, <2>4, <2>5, LookedUpEffect
<1>10. CASE Tracing!ExportMapping
  <2>1. ASSUME NEW t \in Known PROVE infos'[t].calls = infos[t].calls
    <3>1. infos[t] \in Infos
      BY <1>0
    <3>2. [infos[t] EXCEPT !.veadk = OwnTrace(exporter.parent)].calls = infos[t].calls
      BY <3>1 DEF Infos
    <3> QED
      BY <1>10, <3>2, MappingEffect
  <2> QED
    BY <1>10, <2>1, MappingEffect
<1>11. CASE Elsewhere
  BY <1>11, ElsewhereEffect DEF Known, Tracing!Known
<1> QED
  BY <1>3, <1>5, <1>7, <1>8, <1>9, <1>10, <1>11, TraceCases

\* Only a cleanup takes a trace out of the map, or a call.
LEMMA KnownKept ==
    ASSUME TraceTypes, TraceStep, ~ Tracing!CleanupByTraceID
    PROVE  /\ Known \subseteq Known'
           /\ DOMAIN toolCalls \subseteq DOMAIN toolCalls'
<1>1. ASSUME NEW r \in Runs, Tracing!BeforeRun(r) \/ Tracing!TryBridgeTraceMapping(r)
      PROVE  UNCHANGED toolCalls /\ ((\E kind : Tracing!Lookup(r, kind)) \/ UNCHANGED infos)
  BY <1>1 DEF Tracing!BeforeRun, Tracing!TryBridgeTraceMapping
<1>2. ASSUME NEW r \in Runs, NEW id \in CallIDs, Tracing!RegisterToolCallMapping(r, id)
      PROVE  DOMAIN toolCalls' = DOMAIN toolCalls \cup {id}
  BY <1>2 DEF Tracing!RegisterToolCallMapping
<1>3. ASSUME NEW r \in Runs, Tracing!Write(r) PROVE UNCHANGED toolCalls
  BY <1>3 DEF Tracing!Write
<1> QED
  BY <1>1, <1>2, <1>3, TraceCases, LookupEffect, RegisterEffect, WriteEffect, LookedUpEffect,
     MappingEffect, ElsewhereEffect DEF Known, Tracing!Known

\* The steps that have to do with the invocation spans.
LEMMA ActiveCases ==
    ASSUME TraceTypes, TraceStep
    PROVE  /\ looping' => looping
           /\ \/ \E r \in Runs :
                    /\ phase' = [phase EXCEPT ![r] = "open"] /\ active' = active \cup {r}
                    /\ recording' = IF request[r].sampled THEN recording \cup {r} ELSE recording
              \/ \E r \in Runs :
                    /\ phase[r] \in {"open", "agent"} /\ phase' = [phase EXCEPT ![r] = "over"]
                    /\ UNCHANGED active /\ recording' = recording \ {r}
              \/ \E r \in Runs :
                    /\ phase[r] \in {"open", "agent"} /\ phase' = [phase EXCEPT ![r] = "agent"]
                    /\ UNCHANGED <<active, recording>>
              \/ /\ Tracing!CleanupByTraceID
                 /\ active' = active \ {Head(pending).run} /\ UNCHANGED <<phase, recording>>
              \/ active' = {} /\ ~ looping'
              \/ UNCHANGED <<active, recording, phase>>
<1>1. ASSUME NEW r \in Runs, Tracing!BeforeRun(r)
      PROVE  /\ UNCHANGED looping
             /\ phase' = [phase EXCEPT ![r] = "open"] /\ active' = active \cup {r}
             /\ recording' = IF request[r].sampled THEN recording \cup {r} ELSE recording
  BY <1>1 DEF Tracing!BeforeRun
<1>2. ASSUME NEW r \in Runs, Tracing!AfterRun(r)
      PROVE  /\ UNCHANGED looping
             /\ phase[r] \in {"open", "agent"} /\ phase' = [phase EXCEPT ![r] = "over"]
             /\ UNCHANGED active /\ recording' = recording \ {r}
  BY <1>2 DEF Tracing!AfterRun
<1>3. ASSUME NEW r \in Runs, Tracing!TryBridgeTraceMapping(r)
      PROVE  /\ UNCHANGED looping
             /\ phase[r] \in {"open", "agent"} /\ phase' = [phase EXCEPT ![r] = "agent"]
             /\ UNCHANGED <<active, recording>>
  BY <1>3 DEF Tracing!TryBridgeTraceMapping
<1>4. ASSUME Tracing!CleanupByTraceID
      PROVE  /\ UNCHANGED looping
             /\ active' = active \ {Head(pending).run} /\ UNCHANGED <<phase, recording>>
  BY <1>4, CleanupEffect
<1>5. ASSUME Tracing!Shutdown PROVE active' = {} /\ ~ looping' /\ looping
  BY <1>5 DEF Tracing!Shutdown
<1>6. ASSUME NEW r \in Runs,
             Tracing!Write(r) \/ \E id \in CallIDs : Tracing!RegisterToolCallMapping(r, id)
      PROVE  UNCHANGED <<active, recording, phase, looping>>
  BY <1>6, Zenon DEF Tracing!Write, Tracing!RegisterToolCallMapping
<1>7. ASSUME Tracing!SpanStep \/ Tracing!CleanupReceive \/ UNCHANGED tracingVars
      PROVE  UNCHANGED <<active, recording, phase, looping>>
  BY <1>7, Zenon DEF Tracing!SpanStep, Tracing!EndSpan, Tracing!ExportSpan, Tracing!ExportLookup,
     Tracing!ExportMapping, Tracing!ExportContext, Tracing!ExportParent, Tracing!ExportUnchanged,
     Tracing!CleanupReceive, tracingVars
<1> QED
  BY <1>1, <1>2, <1>3, <1>4, <1>5, <1>6, <1>7
     DEF TraceStep, Tracing!TraceNext, Tracing!RunStep, Tracing!CleanupStep

\* A run that writes down its call goes on to, unless this is that step.
LEMMA CallWriting ==
    ASSUME TraceTypes, WriteInv, TraceStep, NEW r \in Runs, writing[r].kind = "call"
    PROVE  writing'[r].kind = "call" \/ Tracing!Write(r)
<1>0. /\ writing \in [Runs -> Writes] /\ phase[r] = "agent"
      /\ Tracing!NotWriting.kind = "nothing"
  BY DEF TraceTypes, WriteInv, Tracing!NotWriting
<1>1. ASSUME NEW q \in Runs, Tracing!BeforeRun(q) \/ Tracing!TryBridgeTraceMapping(q)
      PROVE  /\ (\E kind : Tracing!Lookup(q, kind)) \/ UNCHANGED writing
             /\ phase[q] = "new" \/ writing[q] = Tracing!NotWriting
  BY <1>1 DEF Tracing!BeforeRun, Tracing!TryBridgeTraceMapping
<1>2. ASSUME NEW q \in Runs, Tracing!BeforeRun(q) \/ Tracing!TryBridgeTraceMapping(q)
      PROVE  writing'[r] = writing[r]
  <2>1. q # r
    BY <1>0, <1>1, <1>2
  <2>2. ASSUME NEW kind, Tracing!Lookup(q, kind) PROVE writing'[r] = writing[r]
    BY <1>0, <2>1, <2>2, LookupEffect
  <2> QED
    BY <1>1, <1>2, <2>2
<1>3. ASSUME NEW q \in Runs, NEW id \in CallIDs, Tracing!RegisterToolCallMapping(q, id)
      PROVE  writing'[r] = writing[r]
  <2>1. writing[q] = Tracing!NotWriting
    BY <1>3 DEF Tracing!RegisterToolCallMapping
  <2> QED
    BY <1>0, <1>3, <2>1, RegisterEffect
<1>4. ASSUME NEW q \in Runs, Tracing!Write(q), q # r PROVE writing'[r] = writing[r]
  BY <1>0, <1>4, WriteEffect
<1>5. ASSUME Tracing!CleanupByTraceID PROVE writing'[r].kind = "call"
  BY <1>5, CleanupEffect
<1> QED
  BY <1>2, <1>3, <1>4, <1>5, TraceCases, LookedUpEffect, MappingEffect, ElsewhereEffect

\* A run's call is on its way into the infos of its trace, or stands in them and
\* the run is pending.
Noted(r, c) ==
    \/ writing[r].kind = "call"
    \/ Pending(r) /\ Trace(r) \in Known /\ c \in infos[Trace(r)].calls

\* It is so until the call is removed, unless the infos were gone when it was
\* written.
LEMMA NotedStep ==
    ASSUME TraceTypes, WriteInv, SpanInv, QueueInv, LeakInv, looping, looping', TraceStep,
           NEW r \in Runs, NEW c \in CallIDs, callOf[r] = c, Noted(r, c), c \in DOMAIN toolCalls'
    PROVE  Noted(r, c)' \/ c \in history'.orphaned
<1>0. /\ infos \in [Known -> Infos] /\ Trace(r)' = Trace(r)
      /\ history \in Histories /\ writing \in [Runs -> Writes]
      /\ phase \in [Runs -> {"new", "open", "agent", "over"}]
  BY TracesStay DEF TraceTypes
<1>1. CASE writing[r].kind = "call" /\ Tracing!Write(r)
  <2>1. phase[r] = "agent" /\ UNCHANGED phase
    BY <1>1 DEF WriteInv, Tracing!Write
  <2>2. CASE writing[r].live
    <3>1. Trace(r) \in Known /\ infos[Trace(r)] \in Infos
      BY <1>0, <2>2 DEF WriteInv
    <3>2. Known' = Known /\ infos'[Trace(r)] = Tracing!Written(r, infos[Trace(r)])
      BY <1>1, <2>2, <3>1, WriteEffect
    <3>3. c \in infos'[Trace(r)].calls
      BY <1>1, <3>1, <3>2, WrittenParts
    <3> QED
      BY <1>0, <2>1, <3>1, <3>2, <3>3 DEF Noted, Pending, Under
  <2>3. CASE ~ writing[r].live
    <3>1. writing[r] = [kind |-> "call", live |-> FALSE]
      BY <1>0, <1>1, <2>3, Zenon DEF Writes
    <3>2. history' = [history EXCEPT !.orphaned = history.orphaned \cup {callOf[r]}]
      BY <1>1, <3>1 DEF Tracing!Write
    <3> QED
      BY <1>0, <3>2 DEF Histories
  <2> QED
    BY <2>2, <2>3
<1>2. CASE writing[r].kind = "call" /\ ~ Tracing!Write(r)
  BY <1>2, CallWriting DEF Noted
<1>3. CASE Pending(r) /\ Trace(r) \in Known /\ c \in infos[Trace(r)].calls
  <2>1. CASE Tracing!CleanupByTraceID /\ Head(pending).trace = Trace(r)
    BY <1>3, <2>1, CleanupEffect
  <2>2. CASE ~ (Tracing!CleanupByTraceID /\ Head(pending).trace = Trace(r))
    <3>1. Pending(r)'
      BY <1>3, <2>2, PendingStep
    <3>2. Trace(r) \in Known'
      BY <1>3, <2>2, KnownKept, CleanupEffect
    <3>3. c \in infos'[Trace(r)].calls
      BY <1>3, <3>2, KnownStep
    <3> QED
      BY <1>0, <3>1, <3>2, <3>3 DEF Noted
  <2> QED
    BY <2>1, <2>2
<1> QED
  BY <1>1, <1>2, <1>3 DEF Noted

\* The calls that a step brings.
LEMMA CallsCome ==
    ASSUME TraceTypes, TraceStep, NEW c \in DOMAIN toolCalls'
    PROVE  c \in DOMAIN toolCalls \/ \E r \in Runs : callOf'[r] = c /\ Noted(r, c)'
<1>1. ASSUME NEW r \in Runs, NEW id \in CallIDs, Tracing!RegisterToolCallMapping(r, id)
      PROVE  /\ DOMAIN toolCalls' = DOMAIN toolCalls \cup {id}
             /\ callOf'[r] = id /\ writing'[r].kind = "call"
  <2>1. callOf \in [Runs -> CallOrNone] /\ writing \in [Runs -> Writes]
    BY DEF TraceTypes
  <2> QED
    BY <1>1, <2>1 DEF Tracing!RegisterToolCallMapping
<1>2. ASSUME NEW r \in Runs,
             Tracing!BeforeRun(r) \/ Tracing!TryBridgeTraceMapping(r) \/ Tracing!Write(r)
      PROVE  UNCHANGED toolCalls
  BY <1>2, Zenon DEF Tracing!BeforeRun, Tracing!TryBridgeTraceMapping, Tracing!Write
<1>3. CASE Tracing!CleanupByTraceID
  BY <1>3, CleanupEffect
<1> QED
  BY <1>1, <1>2, <1>3, TraceCases, LookedUpEffect, MappingEffect, ElsewhereEffect DEF Noted

\* What a step leaves in the maps has a run that is pending, or one of the causes.
LEMMA LeakStep ==
    ASSUME TraceTypes, WriteInv, SpanInv, QueueInv, LeakInv, TraceStep
    PROVE  LeakInv'
<1>0. /\ phase \in [Runs -> {"new", "open", "agent", "over"}]
      /\ phase' \in [Runs -> {"new", "open", "agent", "over"}]
      /\ UNCHANGED request /\ history.cleaned \subseteq history'.cleaned
      /\ history.orphaned \subseteq history'.orphaned
      /\ \A r \in Runs : Trace(r)' = Trace(r)
      /\ looping' => looping
  BY TraceTypesStep, TraceGrows, TracesStay, ActiveCases DEF TraceTypes
<1>1. (active \subseteq Runs)'
  BY ActiveCases DEF LeakInv
<1>2. ASSUME looping' PROVE \A r \in Runs : (Under(r) /\ request[r].sampled => r \in recording)'
  BY <1>0, <1>2, ActiveCases DEF LeakInv, Under
<1>3. ASSUME looping', NEW r \in active' PROVE Pending(r)'
  <2>1. CASE r \in active
    <3>1. r \in Runs /\ Pending(r)
      BY <1>0, <1>3, <2>1 DEF LeakInv
    <3>2. ~ (Tracing!CleanupByTraceID /\ Head(pending).run = r)
      BY <1>3, CleanupEffect
    <3> QED
      BY <1>0, <1>3, <3>1, <3>2, PendingStep
  <2>2. CASE r \notin active
    <3>1. phase' = [phase EXCEPT ![r] = "open"] /\ r \in Runs
      BY <1>1, <1>3, <2>2, ActiveCases DEF LeakInv
    <3>2. Under(r)'
      BY <1>0, <3>1 DEF Under
    <3> QED
      BY <3>2 DEF Pending
  <2> QED
    BY <2>1, <2>2
<1>4. ASSUME looping', NEW r \in Runs, phase'[r] = "over"
      PROVE  (Pending(r) \/ Trace(r) \in history.cleaned)'
  <2>1. Pending(r) \/ Trace(r) \in history.cleaned
    <3>1. phase[r] = "over" \/ Under(r)
      BY <1>0, <1>4, ActiveCases DEF Under
    <3> QED
      BY <1>0, <1>4, <3>1 DEF LeakInv, Pending
  <2>2. CASE Trace(r) \in history.cleaned
    BY <1>0, <2>2
  <2>3. CASE Pending(r)
    <3>1. ASSUME Tracing!CleanupByTraceID, Head(pending).trace = Trace(r)
          PROVE  Trace(r) \in history'.cleaned
      BY <3>1, CleanupEffect
    <3> QED
      BY <1>0, <1>4, <2>3, <3>1, PendingStep
  <2> QED
    BY <2>1, <2>2, <2>3
<1>5. ASSUME looping', NEW t \in Known'
      PROVE  t \in history'.revived \/ \E r \in Runs : Trace(r)' = t /\ Pending(r)'
  <2>1. ASSUME NEW r \in Runs, Trace(r) = t, Pending(r) PROVE Trace(r)' = t /\ Pending(r)'
    BY <1>0, <1>5, <2>1, PendingStep, CleanupEffect
  <2>2. CASE t \in Known
    <3>1. t \in history.revived \/ \E r \in Runs : Trace(r) = t /\ Pending(r)
      BY <1>0, <1>5, <2>2 DEF LeakInv
    <3> QED
      BY <1>5, <2>1, <3>1, KnownStep
  <2>3. ASSUME NEW r \in Runs, Trace(r) = t, Under(r)' PROVE Trace(r)' = t /\ Pending(r)'
    BY <1>0, <2>3 DEF Pending
  <2>4. ASSUME NEW r \in Runs, Trace(r) = t, phase'[r] = phase[r], phase[r] \in {"agent", "over"},
               t \in history.cleaned => t \in history'.revived
        PROVE  t \in history'.revived \/ (Trace(r)' = t /\ Pending(r)')
    <3>1. CASE phase[r] = "agent"
      BY <1>0, <2>4, <3>1 DEF Pending, Under
    <3>2. CASE phase[r] = "over"
      <4>1. Pending(r) \/ t \in history.cleaned
        BY <1>0, <1>5, <2>4, <3>2 DEF LeakInv
      <4>2. Pending(r) => Trace(r)' = t /\ Pending(r)'
        BY <2>1, <2>4
      <4> QED
        BY <2>4, <4>1, <4>2
    <3> QED
      BY <2>4, <3>1, <3>2
  <2> QED
    BY <1>5, <2>2, <2>3, <2>4, KnownStep
<1>6. ASSUME looping', NEW c \in DOMAIN toolCalls'
      PROVE  c \in history'.orphaned \/ \E r \in Runs : callOf'[r] = c /\ Noted(r, c)'
  <2>1. CASE c \in DOMAIN toolCalls
    <3>1. c \in CallIDs /\ c # Tracing!NoCallID
      BY <2>1, HostAssumption DEF TraceTypes, Tracing!TraceAssumption
    <3>2. c \in history.orphaned \/ \E r \in Runs : callOf[r] = c /\ Noted(r, c)
      BY <1>0, <1>6, <2>1 DEF LeakInv, Noted
    <3>3. ASSUME NEW r \in Runs, callOf[r] = c, Noted(r, c)
          PROVE  callOf'[r] = c /\ (Noted(r, c)' \/ c \in history'.orphaned)
      BY <1>0, <1>6, <3>1, <3>3, NotedStep, TraceGrows
    <3> QED
      BY <1>0, <3>2, <3>3
  <2> QED
    BY <1>6, <2>1, CallsCome
<1> QED
  BY <1>1, <1>2, <1>3, <1>4, <1>5, <1>6 DEF LeakInv, Noted

(***************************************************************************)
(* All of the registry                                                     *)
(***************************************************************************)

\* The registry: what holds of the trace maps throughout.
TraceInv ==
    /\ TraceTypes /\ WriteInv /\ CallsInv /\ SpanInv /\ MappedInv /\ CalledInv
    /\ ExportInv /\ BoundInv /\ QueueInv /\ LeakInv /\ Tracing!SpanLinked

\* The maps start empty, and no run has begun.
LEMMA TraceInitially == Tracing!TraceInit => TraceInv
<1> SUFFICES ASSUME Tracing!TraceInit PROVE TraceInv
  OBVIOUS
<1>1. /\ request \in [Runs -> Contexts] /\ phase = [r \in Runs |-> "new"]
      /\ recording = {} /\ active = {} /\ infos = <<>> /\ toolCalls = <<>>
      /\ callOf = [r \in Runs |-> Tracing!NoCallID]
      /\ writing = [r \in Runs |-> Tracing!NotWriting]
      /\ queue = <<>> /\ pending = <<>> /\ looping
      /\ spans = [s \in Tracing!ADKSpans |-> "none"] /\ exporter = Tracing!Idle
      /\ link = [s \in Tracing!ADKSpans |-> Tracing!Unlinked]
      /\ history = Tracing!NoHistory
  BY DEF Tracing!TraceInit
<1>2. /\ Tracing!NotWriting \in Writes /\ Tracing!NotWriting.kind = "nothing"
      /\ ~ Tracing!NotWriting.live
  BY DEF Tracing!NotWriting, Writes
<1>3. /\ Tracing!Idle \in Exports /\ Tracing!Idle.at = "idle"
  BY DEF Tracing!Idle, Exports, RunOrNone, TraceIDs
<1>4. /\ Tracing!NoHistory \in Histories
      /\ Tracing!NoHistory.cleaned = {} /\ Tracing!NoHistory.reused = {}
  BY DEF Tracing!NoHistory, Histories
<1>5. Known = {}
  BY <1>1 DEF Known, Tracing!Known
<1>6. TraceTypes
  <2>1. request \in [Runs -> [trace : Traces \cup {NoTrace}, sampled : BOOLEAN]]
    BY <1>1, HostAssumption DEF Tracing!TraceAssumption
  <2>2. phase \in [Runs -> {"new", "open", "agent", "over"}]
    BY <1>1
  <2>3. infos \in [Known -> Infos]
    BY <1>1 DEF Known, Tracing!Known
  <2>4. toolCalls \in [DOMAIN toolCalls -> Runs] /\ DOMAIN toolCalls \subseteq CallIDs
    BY <1>1
  <2>5. callOf \in [Runs -> CallOrNone] /\ writing \in [Runs -> Writes]
    BY <1>1, <1>2 DEF CallOrNone
  <2>6. queue \in Seq(Cleanups) /\ pending \in Seq(Cleanups)
    BY <1>1
  <2>7. spans \in [Tracing!ADKSpans -> {"none", "ended", "exported"}]
    BY <1>1
  <2>8. ExporterTyped
    BY <1>1, <1>3 DEF ExporterTyped
  <2>9. Tracing!Unlinked \in [trace : TraceIDs, parent : RunOrNone]
    BY DEF Tracing!Unlinked, TraceIDs, RunOrNone
  <2> QED
    BY <1>1, <1>4, <2>1, <2>2, <2>3, <2>4, <2>5, <2>6, <2>7, <2>8, <2>9 DEF TraceTypes
<1>7. WriteInv
  BY <1>1, <1>2 DEF WriteInv
<1>8. CallsInv
  BY <1>1, <1>5 DEF CallsInv
<1>9. SpanInv /\ ExportInv
  BY <1>1, <1>3 DEF SpanInv, ExportInv
<1>10. MappedInv
  <2>1. \A r \in Runs, kind \in Kinds : spans[<<r, kind>>] = "none"
    BY <1>1 DEF Tracing!ADKSpans
  <2> QED
    BY <1>1, <2>1 DEF MappedInv
<1>11. CalledInv /\ BoundInv
  BY <1>1, <1>5 DEF CalledInv, BoundInv, Bound
<1>12. QueueInv
  BY <1>1 DEF QueueInv
<1>13. LeakInv
  BY <1>1, <1>5 DEF LeakInv, Under
<1>14. Tracing!SpanLinked
  BY <1>1 DEF Tracing!SpanLinked
<1> QED
  BY <1>6, <1>7, <1>8, <1>9, <1>10, <1>11, <1>12, <1>13, <1>14 DEF TraceInv

\* All of it is inductive.
LEMMA TraceInvStep ==
    ASSUME TraceInv, TraceStep
    PROVE  TraceInv'
<1>1. TraceTypes' /\ WriteInv' /\ CallsInv' /\ SpanInv'
  BY TraceTypesStep, WriteStep, CallsStep, SpanStep DEF TraceInv
<1>2. MappedInv' /\ CalledInv' /\ ExportInv' /\ BoundInv'
  BY MappedStep, CalledStep, ExportStep, BoundStep DEF TraceInv
<1>3. QueueInv' /\ LeakInv' /\ Tracing!SpanLinked'
  BY QueueStep, LeakStep, LinkStep DEF TraceInv
<1> QED
  BY <1>1, <1>2, <1>3 DEF TraceInv

\* Once nothing is left to do, the runs that are still pending are those that
\* nobody will ever clean up after.
LEMMA QuietLeaks ==
    ASSUME TraceInv, Tracing!Quiet
    PROVE  Tracing!LeakHasCause
<1>1. ASSUME NEW r \in Runs, Pending(r) PROVE Tracing!Uncleaned(r)
  BY <1>1 DEF Pending, Under, Awaiting, Tracing!Quiet
<1>2. ASSUME NEW r \in Runs PROVE writing[r].kind # "call"
  BY <1>2 DEF TraceInv, WriteInv, Tracing!Quiet
<1>3. active \subseteq {r \in Runs : Tracing!Uncleaned(r)}
  BY <1>1 DEF TraceInv, LeakInv, Tracing!Quiet
<1>4. Known \subseteq {Trace(r) : r \in {q \in Runs : Tracing!Uncleaned(q)}} \cup history.revived
  BY <1>1 DEF TraceInv, LeakInv, Tracing!Quiet
<1>5. DOMAIN toolCalls \subseteq
         {callOf[r] : r \in {q \in Runs : Tracing!Uncleaned(q)}} \cup history.orphaned
  BY <1>1, <1>2 DEF TraceInv, LeakInv, Tracing!Quiet
<1> QED
  BY <1>3, <1>4, <1>5 DEF Tracing!LeakHasCause, Known, Trace

(***************************************************************************)
(* The theorems                                                            *)
(***************************************************************************)

\* The server with its sessions: the inductive invariant.
HInv ==
    /\ ConfigInv /\ TypeInv /\ IdInv /\ SeqInv /\ CopyInv /\ KeptInv
    /\ PhaseInv /\ SetupInv /\ ConnInv /\ EndInv /\ FlushInv

\* It holds at the start,
LEMMA HostInitially == HostInit => HInv
<1> SUFFICES ASSUME HostInit PROVE HInv
  OBVIOUS
<1>1. ConfigInv
  BY FirstConfig
<1>2. /\ setup.backend = config.backend
      /\ log = <<>> /\ view = [r \in Runs |-> <<>>]
      /\ stage = [r \in Runs |-> "idle"]
      /\ batch = [r \in Runs |-> [from |-> 0, upto |-> 0]]
      /\ saved = 0 /\ copies = [e \in Event |-> 0] /\ acked = {} /\ faults = {}
  BY DEF HostInit, AutoInit
<1>3. phase = [r \in Runs |-> "new"] /\ recording = {}
  BY DEF HostInit, Tracing!TraceInit
<1>4. /\ server = "setup" /\ conn = [r \in Runs |-> "none"]
      /\ outcome = "none" /\ flushed = "none"
  BY DEF HostInit
<1>5. TypeInv
  <2>1. config.backend \in Backends
    BY <1>1 DEF ConfigInv, RunConfig
  <2> QED
    BY <1>2, <2>1 DEF TypeInv, Stages
<1>6. IdInv
  BY <1>2 DEF IdInv, Own
<1>7. SeqInv
  <2>1. Reach = 0
    BY <1>2 DEF Reach
  <2>2. Covered(0) = {}
    BY DEF Covered
  <2> QED
    BY <1>2, <2>1, <2>2 DEF SeqInv, OneRun, Active
<1>8. CopyInv
  BY <1>2 DEF CopyInv
<1>9. KeptInv
  BY <1>2 DEF KeptInv
<1>10. PhaseInv
  BY <1>3 DEF PhaseInv
<1>11. SetupInv /\ ConnInv
  BY <1>2, <1>4 DEF SetupInv, ConnInv
<1>12. EndInv /\ FlushInv
  BY <1>4 DEF EndInv, FlushInv
<1> QED
  BY <1>1, <1>5, <1>6, <1>7, <1>8, <1>9, <1>10, <1>11, <1>12 DEF HInv

\* ... no step of the server disturbs what was saved,
LEMMA KeptHostStep ==
    ASSUME ConfigInv, TypeInv, SeqInv, KeptInv, SetupInv, [HostNext]_vars
    PROVE  KeptInv'
<1>1. CASE UNCHANGED config
  BY <1>1, HostStep, KeptStep
<1>2. CASE server = "setup" /\ UNCHANGED autoVars
  BY <1>2 DEF SetupInv, KeptInv, autoVars
<1> QED
  BY <1>1, <1>2, ConfigKept

\* ... and so it holds throughout.
LEMMA HostInvariant == HostSpec => []HInv
<1>1. ASSUME HInv, [HostNext]_vars PROVE HInv'
  <2>1. AutoStep /\ TraceStep
    BY <1>1, HostStep, HostTrace DEF HInv
  <2>2. ConfigInv' /\ TypeInv' /\ IdInv'
    BY <1>1, <2>1, ConfigStep, TypeStep, IdStep DEF HInv
  <2>3. SeqInv' /\ CopyInv' /\ KeptInv'
    BY <1>1, <2>1, SeqStep, CopyStep, KeptHostStep DEF HInv
  <2>4. PhaseInv' /\ SetupInv' /\ ConnInv'
    BY <1>1, <2>1, PhaseStep, SetupStep, ConnStep DEF HInv
  <2>5. EndInv' /\ FlushInv'
    BY <1>1, EndStep, FlushStep DEF HInv
  <2> QED
    BY <2>2, <2>3, <2>4, <2>5 DEF HInv
<1> QED
  BY <1>1, HostInitially, PTL DEF HostSpec

\* A session's event is written to long-term memory once, if nothing out of the
\* ordinary has happened: the plugin's count and its copy of the session agree on
\* what is new in every run.
THEOREM MemoryHasNoCopies == HostSpec => []NothingTwice
<1>1. HInv => NothingTwice
  BY DEF HInv, CopyInv, Regular, NothingTwice
<1> QED
  BY <1>1, HostInvariant, PTL

\* The plugin delivers: what is acknowledged grows in the order of the session and
\* without gaps, as Delivery has it, until runs overlap or the session is made anew.
THEOREM AutoSaveDelivers == HostSpec => ImplementsDelivery
<1>1. HostInit => Promised!DeliveryInit
  <2>1. ASSUME HostInit PROVE log = <<>> /\ acked = {} /\ faults = {}
    BY <2>1 DEF HostInit, AutoInit
  <2>2. ASSUME log = <<>> PROVE WantedEvents = {}
    BY <2>2 DEF WantedEvents
  <2> QED
    BY <2>1, <2>2 DEF Promised!DeliveryInit, Sequential
<1>2. HInv /\ [HostNext]_vars => [Promised!DeliveryNext]_(Promised!deliveryVars)
  BY HostStep, DeliveryStep DEF HInv
<1> QED
  BY <1>1, <1>2, HostInvariant, PTL DEF HostSpec, ImplementsDelivery, Promised!DeliverySpec

\* A Run that returns no error has lost nothing: every request it answered in the
\* foreground is over, its spans have ended and were exported if the flush was in
\* time, and what the policy keeps of the session is acknowledged.
THEOREM GracefulShutdown == HostSpec => []GracefulLosesNothing
<1>1. ASSUME HInv, outcome = "ok", NEW r \in Runs, conn[r] = "answered"
      PROVE  /\ RunOver(r)
             /\ flushed = "ok" => /\ r \notin recording
                                  /\ \A kind \in Kinds : spans[<<r, kind>>] # "ended"
  <2>1. RunOver(r)
    BY <1>1 DEF HInv, ConnInv
  <2>2. ASSUME flushed = "ok" PROVE r \notin recording
    BY <1>1, <2>1, <2>2 DEF HInv, FlushInv, RunOver, PhaseInv
  <2>3. ASSUME flushed = "ok", NEW kind \in Kinds PROVE spans[<<r, kind>>] # "ended"
    BY <1>1, <2>3 DEF HInv, FlushInv, Tracing!ADKSpans
  <2> QED
    BY <2>1, <2>2, <2>3
<1>2. ASSUME HInv, outcome = "ok", Installed(AutoSavePlugin), Sequential, "failed" \notin faults,
             \A r \in Runs : conn[r] # "detached",
             NEW i \in DOMAIN log, Remembered(log[i])
      PROVE  Id(log[i]) \in acked
  <2>1. \A r \in Runs : conn[r] \in {"none", "answered"}
    BY <1>2 DEF HInv, EndInv, ConnInv, Handling
  <2>2. \A r \in Runs : stage[r] \in {"idle", "saved"}
    BY <1>2, <2>1 DEF HInv, ConnInv, RunOver
  <2>3. saved = Len(log) /\ Reach = saved
    BY <1>2, <2>2 DEF HInv, KeptInv, Keeping, Active, Reach
  <2>4. acked = Covered(Len(log))
    BY <1>2, <2>3 DEF HInv, SeqInv
  <2>5. DOMAIN log = 1..Len(log)
    BY <1>2 DEF HInv, TypeInv
  <2> QED
    BY <1>2, <2>4, <2>5 DEF Covered
<1>3. HInv => GracefulLosesNothing
  BY <1>1, <1>2 DEF GracefulLosesNothing
<1> QED
  BY <1>3, HostInvariant, PTL

\* The server does to the registry's maps what the registry does by itself.
LEMMA RegistryInvariant == HostSpec => [](ConfigInv /\ TraceInv)
<1>1. HostInit => ConfigInv /\ TraceInv
  BY FirstConfig, TraceInitially DEF HostInit
<1>2. ConfigInv /\ TraceInv /\ [HostNext]_vars => (ConfigInv /\ TraceInv)'
  BY ConfigStep, HostTrace, TraceInvStep
<1> QED
  BY <1>1, <1>2, PTL DEF HostSpec

\* The spans of a request become one tree, however runs, the exporter and the
\* cleanup loop interleave: one that is exported elsewhere has a cause that
\* SpanLinked names.
THEOREM SpansAreLinked == HostSpec => []SpanLinked
<1>1. TraceInv => SpanLinked
  BY DEF TraceInv, SpanLinked
<1> QED
  BY <1>1, RegistryInvariant, PTL

\* What a quiet server still has in its maps belongs to a run that nobody asked to
\* clean up after, came back after its cleanup, or was noted where the cleanup
\* could not see it.
THEOREM LeaksHaveCauses == HostSpec => []LeakHasCause
<1>1. TraceInv => LeakHasCause
  BY QuietLeaks DEF LeakHasCause, Tracing!LeakHasCause
<1> QED
  BY <1>1, RegistryInvariant, PTL
=============================================================================
