--------------------------- MODULE TraceRegistry ----------------------------
(***************************************************************************)
(* The observability plugin and its trace registry:                        *)
(*                                                                         *)
(*   observability/plugin.go          the callbacks of a run               *)
(*   observability/registry.go        the maps and the cleanup loop        *)
(*   observability/translator.go      the exporter that reads them         *)
(*   observability/initialize.go      Shutdown                             *)
(*                                                                         *)
(* ADK makes its own spans, under the span of the request's context or, if *)
(* there is none, in a trace of their own.  The plugin makes an invocation *)
(* span per run.  So that the two appear as one tree, the registry maps an *)
(* ADK trace to the invocation's trace and to its span, and a tool call to *)
(* the span it belongs to; the exporter rewrites the spans by these maps.  *)
(* A run that ends asks the cleanup loop to forget its mappings later.     *)
(***************************************************************************)
EXTENDS Naturals, Sequences, FiniteSets

CONSTANTS
    Runs,        \* the runs of the agent
    Traces,      \* the traces that requests arrive with
    NoTrace,     \* a context without a span
    Contexts,    \* the contexts of runs: the span's trace and if it is sampled
    CallIDs,     \* the IDs that models give to tool calls
    NoRun,       \* no invocation span
    Kinds,       \* the kinds of ADK spans, of "agent", "llm" and "tool"
    QueueSize    \* traceCleanupQueueSize

VARIABLES
    request,     \* the context of a run
    phase,       \* "new", "open" (after BeforeRun), "agent" (after BeforeAgent)
                 \* or "over" (after AfterRun)
    recording,   \* the runs whose invocation span is recording
    active,      \* activeInvocationSpans: runs
    infos,       \* adkTraceToVeadkTraceMap
    toolCalls,   \* toolCallMap: tool call ID -> run whose span is its parent
    callOf,      \* the tool call a run's model has asked for
    writing,     \* what a run has looked up and not written yet
    queue,       \* cleanupQueue: requests [trace, run]
    pending,     \* pendingRequests of the cleanup loop, oldest first
    looping,     \* the cleanup loop has not been shut down
    spans,       \* ADK span -> "none", "ended" or "exported"
    exporter,    \* the exporter: the span it works on, and how far it is
    link,        \* ADK span -> the trace and the parent it was exported with
    history      \* what a mapping that is missing or left over comes from

traceVars == <<request, phase, recording, active, infos, toolCalls, callOf, writing,
               queue, pending, looping, spans, exporter, link, history>>

NoCallID == <<>>
Untraced == <<"untraced">>

\* The trace of ADK's spans of a run, and that of its invocation span.
AdkTrace(r) == IF request[r].trace = NoTrace THEN <<"adk", r>> ELSE request[r].trace
VeadkTrace(r) == IF request[r].trace = NoTrace THEN <<"veadk", r>> ELSE request[r].trace

\* A traceInfos: veadkTraceID, invocationSC and toolCallIDs.
EmptyInfos == [veadk |-> Untraced, invocation |-> NoRun, calls |-> {}]
Known == DOMAIN infos
NotWriting == [kind |-> "nothing", live |-> FALSE]
Idle == [at |-> "idle", span |-> <<>>, parent |-> NoRun, live |-> FALSE, trace |-> Untraced]
Unlinked == [trace |-> Untraced, parent |-> NoRun]

ADKSpans == Runs \X Kinds

\* Assumed where the registry is used (AgentHost).  A trace of ADK's own has a
\* random ID, which no request arrives with.
TraceAssumption ==
    /\ NoTrace \notin Traces /\ NoRun \notin Runs
    /\ Contexts \subseteq [trace : Traces \cup {NoTrace}, sampled : BOOLEAN]
    /\ Kinds \subseteq {"agent", "llm", "tool"}
    /\ QueueSize \in Nat
    /\ NoCallID \notin CallIDs /\ Untraced \notin Traces
    /\ \A r \in Runs : <<"adk", r>> \notin Traces

\* dropped: the runs whose cleanup found the queue full; cleaned: the traces
\* that were cleaned up; revived: those of them that have infos again; orphaned:
\* the calls noted in infos that were cleaned up already; reused: the IDs that
\* two runs' models gave to a call.
NoHistory == [dropped |-> {}, cleaned |-> {}, revived |-> {}, orphaned |-> {}, reused |-> {}]

TraceInit ==
    /\ request \in [Runs -> Contexts]
    /\ phase = [r \in Runs |-> "new"]
    /\ recording = {}
    /\ active = {}
    /\ infos = <<>>
    /\ toolCalls = <<>>
    /\ callOf = [r \in Runs |-> NoCallID]
    /\ writing = [r \in Runs |-> NotWriting]
    /\ queue = <<>>
    /\ pending = <<>>
    /\ looping = TRUE
    /\ spans = [s \in ADKSpans |-> "none"]
    /\ exporter = Idle
    /\ link = [s \in ADKSpans |-> Unlinked]
    /\ history = NoHistory

(***************************************************************************)
(* Registering: getOrCreateTraceInfos gives a pointer to the trace's       *)
(* infos, and the pointer is written through after the lock was taken      *)
(* again.  A cleanup in between leaves a pointer to infos that the map no  *)
(* longer has.                                                             *)
(***************************************************************************)

GetOrCreateTraceInfos(trace) ==
    infos' = [t \in Known \cup {trace} |-> IF t \in Known THEN infos[t] ELSE EmptyInfos]

Revived(trace) == {t \in {trace} \ Known : t \in history.cleaned}

Lookup(r, kind) ==
    /\ GetOrCreateTraceInfos(AdkTrace(r))
    /\ writing' = [writing EXCEPT ![r] = [kind |-> kind, live |-> TRUE]]
    /\ history' = [history EXCEPT !.revived = @ \cup Revived(AdkTrace(r))]

\* Mutant of Written: a mapping is written into new infos.
WrittenOver(r, old) ==
    CASE writing[r].kind = "context" -> [old EXCEPT !.invocation = r]
      [] writing[r].kind = "mapping" -> [EmptyInfos EXCEPT !.veadk = VeadkTrace(r)]
      [] OTHER -> [old EXCEPT !.calls = @ \cup {callOf[r]}]

\* Mutant of Written: a call is not noted in the infos.
WrittenUnlisted(r, old) ==
    CASE writing[r].kind = "context" -> [old EXCEPT !.invocation = r]
      [] writing[r].kind = "mapping" -> [old EXCEPT !.veadk = VeadkTrace(r)]
      [] OTHER -> old

\* What a run writes into the infos of its trace.
Written(r, old) ==
    CASE writing[r].kind = "context" -> [old EXCEPT !.invocation = r]
      [] writing[r].kind = "mapping" -> [old EXCEPT !.veadk = VeadkTrace(r)]
      [] OTHER -> [old EXCEPT !.calls = @ \cup {callOf[r]}]

\* The second half of RegisterInvocationSpanContext, RegisterTraceMapping and
\* RegisterToolCallMapping.
Write(r) ==
    /\ writing[r] # NotWriting
    /\ infos' = IF writing[r].live
                THEN [infos EXCEPT ![AdkTrace(r)] = Written(r, @)] ELSE infos
    /\ writing' = [writing EXCEPT ![r] = NotWriting]
    /\ history' = IF writing[r] = [kind |-> "call", live |-> FALSE]
                  THEN [history EXCEPT !.orphaned = @ \cup {callOf[r]}] ELSE history
    /\ UNCHANGED <<request, phase, recording, active, toolCalls, callOf, queue, pending,
                   looping, spans, exporter, link>>

(***************************************************************************)
(* The plugin's callbacks                                                  *)
(***************************************************************************)

\* The invocation span starts, is tracked and, if the context has a span,
\* linked to its trace.
BeforeRun(r) ==
    /\ phase[r] = "new"
    /\ phase' = [phase EXCEPT ![r] = "open"]
    /\ recording' = IF request[r].sampled THEN recording \cup {r} ELSE recording
    /\ active' = active \cup {r}
    /\ IF request[r].trace # NoTrace
       THEN Lookup(r, "context") ELSE UNCHANGED <<infos, writing, history>>
    /\ UNCHANGED <<request, toolCalls, callOf, queue, pending, looping, spans, exporter, link>>

\* BeforeAgent and BeforeModel: the ADK trace is mapped to the invocation's.
TryBridgeTraceMapping(r) ==
    /\ phase[r] \in {"open", "agent"} /\ writing[r] = NotWriting
    /\ phase' = [phase EXCEPT ![r] = "agent"]
    /\ Lookup(r, "mapping")
    /\ UNCHANGED <<request, recording, active, toolCalls, callOf, queue, pending, looping,
                   spans, exporter, link>>

\* AfterModel, a response with a function call, once a run (a bound).  The call
\* enters toolCallMap and the infos are looked up in one step: until they are
\* written no cleanup can know the call.
RegisterToolCallMapping(r, id) ==
    /\ phase[r] = "agent" /\ writing[r] = NotWriting
    /\ callOf[r] = NoCallID
    /\ callOf' = [callOf EXCEPT ![r] = id]
    /\ toolCalls' = [c \in DOMAIN toolCalls \cup {id} |-> IF c = id THEN r ELSE toolCalls[c]]
    /\ GetOrCreateTraceInfos(AdkTrace(r))
    /\ writing' = [writing EXCEPT ![r] = [kind |-> "call", live |-> TRUE]]
    /\ history' = [history EXCEPT
          !.revived = @ \cup Revived(AdkTrace(r)),
          !.reused = @ \cup {c \in {id} : \E o \in Runs : callOf[o] = c}]
    /\ UNCHANGED <<request, phase, recording, active, queue, pending, looping, spans,
                   exporter, link>>

\* ScheduleCleanup never waits: a full queue drops the request.
ScheduleCleanup(r) ==
    IF Len(queue) < QueueSize
    THEN /\ queue' = Append(queue, [trace |-> request[r].trace, run |-> r])
         /\ UNCHANGED history
    ELSE /\ history' = [history EXCEPT !.dropped = @ \cup {r}]
         /\ UNCHANGED queue

\* AfterRun does nothing for a span that is not recording (any more), and
\* schedules no cleanup without a span in the context of the run.
AfterRun(r) ==
    /\ phase[r] \in {"open", "agent"} /\ writing[r] = NotWriting
    /\ phase' = [phase EXCEPT ![r] = "over"]
    /\ recording' = recording \ {r}
    /\ IF r \in recording /\ request[r].trace # NoTrace
       THEN ScheduleCleanup(r) ELSE UNCHANGED <<queue, history>>
    /\ UNCHANGED <<request, active, infos, toolCalls, callOf, writing, pending, looping,
                   spans, exporter, link>>

(***************************************************************************)
(* The cleanup loop                                                        *)
(***************************************************************************)

CleanupReceive ==
    /\ looping
    /\ queue # <<>>
    /\ pending' = Append(pending, Head(queue))
    /\ queue' = Tail(queue)
    /\ UNCHANGED <<request, phase, recording, active, infos, toolCalls, callOf, writing,
                   looping, spans, exporter, link, history>>

\* A tick finds the oldest request past its deadline: cleanupByTraceID.  The
\* pointers that others have to the trace's infos are dead from now on.
CleanupByTraceID ==
    LET trace == Head(pending).trace
    IN  /\ looping
        /\ pending # <<>>
        /\ pending' = Tail(pending)
        /\ active' = active \ {Head(pending).run}
        /\ IF trace \in Known
           THEN /\ infos' = [t \in Known \ {trace} |-> infos[t]]
                /\ toolCalls' = [c \in DOMAIN toolCalls \ infos[trace].calls |-> toolCalls[c]]
           ELSE UNCHANGED <<infos, toolCalls>>
        /\ writing' = [r \in Runs |-> IF AdkTrace(r) = trace
                                      THEN [writing[r] EXCEPT !.live = FALSE] ELSE writing[r]]
        /\ exporter' = IF exporter.at = "held" /\ AdkTrace(exporter.span[1]) = trace
                       THEN [exporter EXCEPT !.live = FALSE] ELSE exporter
        /\ history' = [history EXCEPT !.cleaned = @ \cup {trace}, !.revived = @ \ {trace}]
        /\ UNCHANGED <<request, phase, recording, callOf, queue, looping, spans, link>>

(***************************************************************************)
(* ADK's spans and their export, one at a time                             *)
(***************************************************************************)

\* A span of a run ends, in the run's agent; a tool span belongs to a call.
EndSpan(s) ==
    /\ spans[s] = "none"
    /\ phase[s[1]] = "agent" /\ writing[s[1]] = NotWriting
    /\ s[2] = "tool" => callOf[s[1]] # NoCallID
    /\ spans' = [spans EXCEPT ![s] = "ended"]
    /\ UNCHANGED <<request, phase, recording, active, infos, toolCalls, callOf, writing,
                   queue, pending, looping, exporter, link, history>>

\* GetVeadkParentContextByToolCallID for the call of a span, if it has one.
ParentByToolCallID(s) ==
    IF s[2] = "tool" /\ callOf[s[1]] \in DOMAIN toolCalls
    THEN toolCalls[callOf[s[1]]] ELSE NoRun

Exporting(at) == exporter.at = at
Exporter(s, at, parent) == [Idle EXCEPT !.at = at, !.span = s, !.parent = parent]

ExportUnchanged ==
    UNCHANGED <<request, phase, recording, active, toolCalls, callOf, writing, queue,
                pending, looping>>

\* ExportSpans: a tool span whose call is known maps its ADK trace to the
\* trace of the call's parent.
ExportSpan(s) ==
    /\ Exporting("idle")
    /\ spans[s] = "ended"
    /\ exporter' = IF ParentByToolCallID(s) # NoRun
                   THEN Exporter(s, "found", ParentByToolCallID(s))
                   ELSE Exporter(s, "context", NoRun)
    /\ UNCHANGED <<infos, spans, link, history>> /\ ExportUnchanged

ExportLookup ==
    /\ Exporting("found")
    /\ GetOrCreateTraceInfos(AdkTrace(exporter.span[1]))
    /\ exporter' = [exporter EXCEPT !.at = "held", !.live = TRUE]
    /\ history' = [history EXCEPT !.revived = @ \cup Revived(AdkTrace(exporter.span[1]))]
    /\ UNCHANGED <<spans, link>> /\ ExportUnchanged

ExportMapping ==
    /\ Exporting("held")
    /\ infos' = IF exporter.live
                THEN [infos EXCEPT ![AdkTrace(exporter.span[1])].veadk =
                         VeadkTrace(exporter.parent)]
                ELSE infos
    /\ exporter' = [exporter EXCEPT !.at = "context"]
    /\ UNCHANGED <<spans, link, history>> /\ ExportUnchanged

\* The trace an ADK trace is mapped to, or itself.
MappedTrace(trace) ==
    IF trace \in Known /\ infos[trace].veadk # Untraced THEN infos[trace].veadk ELSE trace

\* SpanContext: by the tool call, else by the trace.
ExportContext ==
    LET s == exporter.span
    IN  /\ Exporting("context")
        /\ exporter' = [exporter EXCEPT
              !.at = "parent",
              !.trace = IF ParentByToolCallID(s) # NoRun
                        THEN VeadkTrace(ParentByToolCallID(s))
                        ELSE MappedTrace(AdkTrace(s[1]))]
        /\ UNCHANGED <<infos, spans, link, history>> /\ ExportUnchanged

\* Parent: an agent span goes to the invocation of its trace, a tool span to
\* the parent of its call; NoRun is the parent that ADK gave the span.
ExportParent ==
    LET s     == exporter.span
        trace == AdkTrace(s[1])
        agent == s[2] = "agent" /\ trace \in Known /\ infos[trace].invocation # NoRun
    IN  /\ Exporting("parent")
        /\ link' = [link EXCEPT ![s] =
              [trace |-> exporter.trace,
               parent |-> IF agent THEN infos[trace].invocation ELSE ParentByToolCallID(s)]]
        /\ spans' = [spans EXCEPT ![s] = "exported"]
        /\ exporter' = Idle
        /\ UNCHANGED <<infos, history>> /\ ExportUnchanged

(***************************************************************************)
(* Shutdown: EndAllInvocationSpans, then the loop is stopped               *)
(***************************************************************************)

Shutdown ==
    /\ looping
    /\ recording' = recording \ active
    /\ active' = {}
    /\ looping' = FALSE
    /\ UNCHANGED <<request, phase, infos, toolCalls, callOf, writing, queue, pending, spans,
                   exporter, link, history>>

RunStep(r) ==
    \/ BeforeRun(r)
    \/ Write(r)
    \/ TryBridgeTraceMapping(r)
    \/ \E id \in CallIDs : RegisterToolCallMapping(r, id)
    \/ AfterRun(r)

SpanStep ==
    \/ \E s \in ADKSpans : EndSpan(s) \/ ExportSpan(s)
    \/ ExportLookup \/ ExportMapping \/ ExportContext \/ ExportParent

CleanupStep == CleanupReceive \/ CleanupByTraceID

TraceNext == (\E r \in Runs : RunStep(r)) \/ SpanStep \/ CleanupStep \/ Shutdown

TraceSpec == TraceInit /\ [][TraceNext]_traceVars

(***************************************************************************)
(* Properties                                                              *)
(***************************************************************************)

Shared(r) == \E o \in Runs \ {r} : AdkTrace(o) = AdkTrace(r)

\* How a span of an undisturbed run has to be exported: in the trace of the
\* invocation; a tool span under the invocation's span, and so an agent span
\* if the request came with a span.
Expected(s) ==
    [trace |-> VeadkTrace(s[1]),
     parent |-> IF \/ s[2] = "tool"
                   \/ s[2] = "agent" /\ request[s[1]].trace # NoTrace
                THEN s[1] ELSE NoRun]

\* Spans become one tree: a span is exported with another trace or parent than
\* the one of its invocation only after its trace was cleaned up, or if its
\* call has an ID that another run's call has too, or, for an agent span, if
\* another run has the same trace.
SpanLinked ==
    \A s \in ADKSpans :
        spans[s] = "exported" =>
            \/ link[s] = Expected(s)
            \/ AdkTrace(s[1]) \in history.cleaned
            \/ \E o \in Runs : AdkTrace(o) = AdkTrace(s[1]) /\ callOf[o] \in history.reused
            \/ s[2] = "agent" /\ Shared(s[1])

\* Nothing is left to do for any run that has begun, and the loop is alive.
Quiet ==
    /\ looping /\ queue = <<>> /\ pending = <<>> /\ exporter = Idle
    /\ \A r \in Runs : phase[r] \in {"new", "over"}
    /\ \A s \in ADKSpans : spans[s] # "ended"

\* Nobody will ever ask for the cleanup of such a run.
Uncleaned(r) ==
    /\ phase[r] = "over"
    /\ request[r].trace = NoTrace \/ ~ request[r].sampled \/ r \in history.dropped

\* Mappings do not pile up: once everything is quiet, what is left over belongs
\* to a run that nobody asked to clean up after, or has come back after its
\* cleanup, or was noted where the cleanup could not see it.
LeakHasCause ==
    Quiet =>
        /\ active \subseteq {r \in Runs : Uncleaned(r)}
        /\ Known \subseteq {AdkTrace(r) : r \in {q \in Runs : Uncleaned(q)}} \cup history.revived
        /\ DOMAIN toolCalls \subseteq
              {callOf[r] : r \in {q \in Runs : Uncleaned(q)}} \cup history.orphaned

=============================================================================
