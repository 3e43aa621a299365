----------------------------- MODULE AgentHost ------------------------------
(***************************************************************************)
(* An agent served over HTTP, from start to exit: apps.Run with the        *)
(* auto-save plugin and the observability plugin installed as the          *)
(* configuration asks.                                                     *)
(*                                                                         *)
(* A request is one run of the agent.  The plugins' callbacks after a run  *)
(* are called in the order in which Run installs them: auto-save, then     *)
(* observability.  A foreground request is answered when its run and the   *)
(* callbacks are over; an A2A request may ask not to wait, and its run     *)
(* goes on by itself (a2asrv, not part of the repository).                 *)
(***************************************************************************)
EXTENDS AutoSave

CONSTANTS
    Traces, NoTrace, Contexts, CallIDs, NoRun, Kinds, QueueSize,   \* see TraceRegistry
    Configs      \* the RunConfigs, each with the clients that it is checked with

VARIABLES
    request, phase, recording, active, infos, toolCalls, callOf, writing, queue, pending,
    looping, spans, exporter, link, history,                       \* see TraceRegistry
    config,      \* the RunConfig: autoSave, memory, observability, the plugins, which
                 \* Run completes, backend, policy; and what happens to it: requests,
                 \* their contexts, the contents of events, tool calls, kinds of spans;
                 \* detach: an A2A request may ask not to wait
    server,      \* "setup", "serving", "draining", "flushing" or "returned"
    conn,        \* run -> "none", "handling", "background", "answered" or "detached"
    outcome,     \* what Run returns: "none" so far, "ok" or "error"
    flushed      \* observability.Shutdown: "none" so far, "ok" or "late"

Tracing == INSTANCE TraceRegistry

ASSUME HostAssumption ==
    /\ Tracing!TraceAssumption
    /\ Configs \subseteq
          [autoSave : BOOLEAN, memory : BOOLEAN, observability : BOOLEAN,
           plugins : Seq(STRING), backend : Backends, policy : Policies,
           requests : SUBSET Runs, contexts : SUBSET Contexts, contents : SUBSET Contents,
           calls : SUBSET CallIDs, kinds : SUBSET Kinds, detach : BOOLEAN]

tracingVars == <<request, phase, recording, active, infos, toolCalls, callOf, writing,
                 queue, pending, looping, spans, exporter, link, history>>
hostVars == <<config, server, conn, outcome, flushed>>
vars == <<autoVars, tracingVars, hostVars>>

AutoSavePlugin == "veadk-auto-save-memory"
ObservabilityPlugin == "veadk-observability"

Installed(plugin) == \E i \in DOMAIN config.plugins : config.plugins[i] = plugin
AppendMissing(plugins, plugin) ==
    IF \E i \in DOMAIN plugins : plugins[i] = plugin THEN plugins ELSE Append(plugins, plugin)

HostInit ==
    /\ AutoInit
    /\ Tracing!TraceInit
    /\ config \in Configs
    /\ setup = [backend |-> config.backend, policy |-> config.policy]
    /\ \A r \in Runs : request[r] \in config.contexts
    /\ server = "setup"
    /\ conn = [r \in Runs |-> "none"]
    /\ outcome = "none"
    /\ flushed = "none"

(***************************************************************************)
(* Run, up to Serve                                                        *)
(***************************************************************************)

\* memory: there is a MemoryService, a LongTermMemory or the root agent's own.
NormalizeMemory(c) ==
    IF c.autoSave THEN [c EXCEPT !.plugins = AppendMissing(@, AutoSavePlugin)] ELSE c

AppendObservability(c) ==
    IF c.observability THEN [c EXCEPT !.plugins = AppendMissing(@, ObservabilityPlugin)] ELSE c

\* A nil or cancelled context, an invalid configuration, an address in use,
\* auto-save without a memory: Run returns before anything is installed.
SetupFails ==
    /\ server = "setup"
    /\ server' = "returned"
    /\ outcome' = "error"
    /\ UNCHANGED <<autoVars, tracingVars, config, conn, flushed>>

SetupDone ==
    /\ server = "setup"
    /\ config.autoSave => config.memory
    /\ config' = AppendObservability(NormalizeMemory(config))
    /\ server' = "serving"
    /\ UNCHANGED <<autoVars, tracingVars, conn, outcome, flushed>>

\* SetupRouters fails: the shutdown of observability is deferred already.
RoutersFail ==
    /\ server = "setup"
    /\ config.autoSave => config.memory
    /\ config' = AppendObservability(NormalizeMemory(config))
    /\ server' = "flushing"
    /\ outcome' = "error"
    /\ UNCHANGED <<autoVars, tracingVars, conn, flushed>>

(***************************************************************************)
(* Requests                                                                *)
(***************************************************************************)

Alive == server # "returned"

\* A request reaches its handler, which runs the agent: BeforeRun.
HandleRequest(r) ==
    /\ server = "serving"
    /\ r \in config.requests
    /\ conn[r] = "none"
    /\ \/ conn' = [conn EXCEPT ![r] = "handling"]
       \/ config.detach /\ conn' = [conn EXCEPT ![r] = "background"]
    /\ UNCHANGED <<autoVars, tracingVars, config, server, outcome, flushed>>

RunAgent(r) ==
    /\ Alive
    /\ conn[r] # "none"
    /\ StartRun(r)
    /\ IF Installed(ObservabilityPlugin)
       THEN Tracing!BeforeRun(r) ELSE UNCHANGED tracingVars
    /\ UNCHANGED hostVars

\* The agent and its model at work: events, spans and tool calls.
RunEvent(r) ==
    /\ Alive
    /\ Tracing!NotWriting = writing[r]
    /\ \E content \in config.contents : AppendEvent(r, content)
    /\ UNCHANGED <<tracingVars, hostVars>>

RunCallbacks(r) ==
    /\ Alive
    /\ stage[r] = "running"
    /\ \/ Tracing!Write(r)
       \/ Tracing!TryBridgeTraceMapping(r)
       \/ \E id \in config.calls : Tracing!RegisterToolCallMapping(r, id)
       \/ \E kind \in config.kinds : Tracing!EndSpan(<<r, kind>>)
    /\ UNCHANGED <<autoVars, hostVars>>

\* The run is over: the plugins' callbacks, auto-save first.
AfterRunAutoSave(r) ==
    /\ Alive
    /\ Installed(AutoSavePlugin)
    /\ Tracing!NotWriting = writing[r]
    /\ AfterRunRead(r) \/ AfterRunSave(r) \/ AfterRunRecord(r)
    /\ UNCHANGED <<tracingVars, hostVars>>

AfterRunNoAutoSave(r) ==
    /\ Alive
    /\ ~ Installed(AutoSavePlugin)
    /\ Tracing!NotWriting = writing[r]
    /\ stage[r] = "running"
    /\ stage' = [stage EXCEPT ![r] = "saved"]
    /\ UNCHANGED <<setup, log, view, batch, saved, copies, acked, faults>>
    /\ UNCHANGED <<tracingVars, hostVars>>

AfterRunObservability(r) ==
    /\ Alive
    /\ stage[r] = "saved"
    /\ Tracing!AfterRun(r)
    /\ UNCHANGED <<autoVars, hostVars>>

RunOver(r) ==
    /\ stage[r] = "saved"
    /\ Installed(ObservabilityPlugin) => phase[r] = "over"

\* A background request is answered before its run is over.
Answer(r) ==
    /\ Alive
    /\ \/ /\ conn[r] = "handling" /\ RunOver(r)
          /\ conn' = [conn EXCEPT ![r] = "answered"]
       \/ /\ conn[r] = "background"
          /\ conn' = [conn EXCEPT ![r] = "detached"]
    /\ UNCHANGED <<autoVars, tracingVars, config, server, outcome, flushed>>

\* Other requests of clients, about the session itself.
SessionRequest ==
    /\ server = "serving"
    /\ SaveSessionToLongTermMemory \/ RecreateSession
    /\ UNCHANGED <<tracingVars, hostVars>>

(***************************************************************************)
(* The end                                                                 *)
(***************************************************************************)

Stop(how) ==
    /\ outcome' = how
    /\ server' = "flushing"
    /\ UNCHANGED <<autoVars, tracingVars, config, conn, flushed>>

\* Serve returns an error while requests are being handled.
ServeFails == server = "serving" /\ Stop("error")

\* A signal, or the caller's context ends: no new requests.
Signal ==
    /\ server = "serving"
    /\ server' = "draining"
    /\ UNCHANGED <<autoVars, tracingVars, config, conn, outcome, flushed>>

\* Mutant of Handling: the shutdown does not wait for a handler that waits for its run.
HandlingDetached(r) == conn[r] = "background"

Handling(r) == conn[r] \in {"handling", "background"}

\* server.Shutdown waits for the handlers, not for what they have detached;
\* waitForServer then gives the serving goroutine two seconds to return.
ShutdownServer ==
    /\ server = "draining"
    /\ \A r \in Runs : ~ Handling(r)
    /\ \E how \in {"ok", "error"} : Stop(how)

\* The timeout: server.Close cuts the connections, the handlers go on.
ShutdownTimeout ==
    /\ server = "draining"
    /\ \E r \in Runs : Handling(r)
    /\ Stop("error")

\* The deferred shutdownObservability: end the invocation spans, stop the
\* cleanup loop, then flush the spans that have ended, for five seconds.
FlushBegin ==
    /\ server = "flushing"
    /\ Installed(ObservabilityPlugin)
    /\ Tracing!Shutdown
    /\ UNCHANGED <<autoVars, hostVars>>

AllExported == exporter = Tracing!Idle /\ \A s \in Tracing!ADKSpans : spans[s] # "ended"

FlushEnd ==
    /\ server = "flushing"
    /\ Installed(ObservabilityPlugin) /\ ~ looping
    /\ flushed' = IF AllExported THEN "ok" ELSE "late"
    /\ server' = "returned"
    /\ UNCHANGED <<autoVars, tracingVars, config, conn, outcome>>

NothingToFlush ==
    /\ server = "flushing"
    /\ ~ Installed(ObservabilityPlugin)
    /\ server' = "returned"
    /\ UNCHANGED <<autoVars, tracingVars, config, conn, outcome, flushed>>

Background ==
    /\ Alive
    /\ \/ Tracing!CleanupStep
       \/ \E s \in Tracing!ADKSpans : Tracing!ExportSpan(s)
       \/ Tracing!ExportLookup \/ Tracing!ExportMapping
       \/ Tracing!ExportContext \/ Tracing!ExportParent
    /\ UNCHANGED <<autoVars, hostVars>>

HostNext ==
    \/ SetupFails \/ SetupDone \/ RoutersFail
    \/ \E r \in Runs :
          \/ HandleRequest(r) \/ RunAgent(r) \/ RunEvent(r) \/ RunCallbacks(r)
          \/ AfterRunAutoSave(r) \/ AfterRunNoAutoSave(r) \/ AfterRunObservability(r)
          \/ Answer(r)
    \/ SessionRequest \/ Background
    \/ ServeFails \/ Signal \/ ShutdownServer \/ ShutdownTimeout
    \/ FlushBegin \/ FlushEnd \/ NothingToFlush

HostSpec == HostInit /\ [][HostNext]_vars

(***************************************************************************)
(* Properties                                                              *)
(***************************************************************************)

SpanLinked == Tracing!SpanLinked
LeakHasCause == server = "serving" => Tracing!LeakHasCause

WantedEvents ==
    {[at |-> i, id |-> Id(log[i])] : i \in {j \in DOMAIN log : Remembered(log[j])}}

\* Memory gets the events in order and without gaps: what auto-save has
\* acknowledged is a prefix of what the policy keeps of the session.
Promised == INSTANCE Delivery WITH wanted <- WantedEvents, delivered <- acked,
                                   disturbed <- ~ Sequential
ImplementsDelivery == Promised!DeliverySpec

\* A Run that returns no error has lost nothing of the requests it took.  It has
\* seen every one to its end: of a session whose runs followed one another, all
\* that the policy keeps is acknowledged, unless a save failed or a request did
\* not want to wait.  And if the flush was in time, then their invocation spans
\* have ended and ADK's spans were exported.
GracefulLosesNothing ==
    outcome = "ok" =>
        /\ \A r \in Runs : conn[r] = "answered" =>
              /\ RunOver(r)
              /\ flushed = "ok" => /\ r \notin recording
                                   /\ \A kind \in Kinds : spans[<<r, kind>>] # "ended"
        /\ (/\ Installed(AutoSavePlugin) /\ Sequential /\ "failed" \notin faults
            /\ \A r \in Runs : conn[r] # "detached")
              => \A i \in DOMAIN log : Remembered(log[i]) => Id(log[i]) \in acked

=============================================================================
