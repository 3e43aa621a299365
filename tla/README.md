# A formal model of veadk-go

TLA+ modules, TLC configurations and TLAPS proofs for veadk-go: the parts that
keep state which several goroutines share, and the parts that must stay right
while remote services fail, time passes and calls overlap. Paths below are
relative to `src/`.

To repeat the checks: `tlc -config X.cfg MCModule` for the runs of
[Runs](#runs), `tlapm XProofs.tla` for the proofs of [Proofs](#proofs).

1. [Inventory](#inventory) 2. [Plan](#plan) 3. [Modules](#modules)
4. [Runs](#runs) 5. [Proofs](#proofs) 6. [Not modelled](#not)

## 1. Inventory
<a name="inventory"></a>

veadk-go wraps the Agent Development Kit (ADK) for Go: it serves agents, gives
them tools, skills, memory and knowledge, and talks to models and cloud services.

| part | state | operations | interacts with | hard about it | correct when |
|---|---|---|---|---|---|
| Local skill runtime, `tool/skilltool/local_runtime.go` | map of sessions, a mutex, `closing` and an active set per session, workspaces and markers on disk | `read_file`, `write_file`, `edit_file`, `bash`, skill scripts, `CleanupSession`, `CleanupExpired`, `Close` | ADK calls the tools from many goroutines; processes | two levels of locks, given up while commands run; three removers of a workspace; polling; I/O errors | no edit is lost, no explicit removal under work, `Close` stops all, everything returns |
| Remote skill cache, `skills/remote_cache.go` | gate, pins, one directory for a revision, staging directories | `Materialize`, `Prune`, `pin`, `unpin` | registry and snapshots pin; sources download | one measurement bounds four later writes; error returns; crashes; damage | disk bounded, pinned revisions live, gate given back |
| Skill registry, `skills/registry.go` | current generation, last listings, snapshots | `Refresh`, `Snapshot`, `SkillSnapshot.Get`, both `Close` | cache (pins), sources | pins change one at a time while `Prune` runs; failing sources | pins exact, generations whole, live data kept |
| Remote skill source, `skills/remote_source.go`, `integrations/ve_sign` | none between calls | `Discover`, `Download` | cache, registry, credentials | attempts, credentials replaced under way, answers cut short | retries signed anew, answers whole |
| Skill files, `skills/discovery.go`, `skills/resource.go`, `tool/skilltool/*_toolset.go` | directories on disk | discovery, the five skill tools | editors of the directories | a file changes between check, open and read | what is read was the file at one moment |
| ARK token provider, `auth/veauth/ark_token_provider.go` | cached key, generation, shared exchanges | `APIKey`, `Invalidate` | model clients | exchanges that end after an `Invalidate`; waiters that loop | key fresh, one key a generation, requests end |
| Model clients, `model/openai.go`, `model/ark.go`, `model/convert.go` | ARK client of a key; buffers of a stream | `GenerateContent` | token provider, plugin, `runner.RunText` | deltas in any split and order; identifiers left out; parallel branches | streamed and whole answers agree; tokens count once |
| Auto-save, `runner/autosave.go`, `memory/long_term_memory_backends/auto_save_policy.go` | saved event counts | after-run callback | memory service | saves with the mutex released; sessions that come back | every event saved once and in order |
| Observability, `observability/` | four maps, cleanup queue and loop | callbacks, exporter, shutdown | OpenTelemetry, ADK | full queue, cleanup of a shared trace, stale pointers | spans make one tree; maps empty in the end |
| Servers, `apps/` | HTTP server, plugins | start, serve, shutdown | OS signals, auto-save, observability | shutdown against a deadline | what was answered is saved and exported |
| Generation tools, `tool/builtin_tools/{image_generate,image_edit,video_generate}.go` | wait group, channel, result | one tool call | workers, closer, collector | order of `Done` and send, panics, polling without limit | all results accounted for, no send of a result on a closed channel |
| AgentKit skills, `tool/builtin_tools/agentkit_skills.go` | sandboxes at the service, deadlines | execute, invoke, poll | A2A servers | list and create without a lock; retries | one sandbox, answer in time |
| Knowledge bases, `knowledgebase/` | entries, remote indexes, object store | add texts, files, directories; search | embedding, `ve_tos` | writes that fail in part, keys that collide | what was acknowledged is kept and found |
| web_fetch, `tool/builtin_tools/web_fetch.go` | cache | one tool call | web pages | lookup, request and store without a lock; circles | results fresh, calls end |
| Tools of one service, `tool/builtin_tools/*.go` | none | one tool call | services, credentials | joined searches, streams without an end | an answer says what the service did |
| LLM Shield, `tool/builtin_tools/llm_shield*.go` | none between callbacks | four callbacks | moderation service | failure policy against cancellation | nothing unjudged passes by mistake |

`PROJECT.json` lists these and the parts that keep no state, and under
`hazards` the places where they are hard to test, those that matter most. A race that
the code really has is one that no property can exclude: it has an entry without properties,
or the note of an entry says that its properties do not cover it, and names the exception that
they make of it. Seen, and left out there: a second `Close` of the local
runtime returns before the first is done; the kill of a command group may meet a
reaped process; the quota of a workspace is measured before a write;
`savedEventCounts` is never pruned; web_fetch does not say that it cut a page at 2 MB
(`web_fetch.go:324`); a speech stream may end without its end marker
(`tts.go:301`); a chunk of a model's stream whose JSON does not parse is passed over
without notice (`openai.go:486`); a JSON `null` makes a search goroutine panic that has no recover
(`web_search.go:154`; `ServiceTools` has it as the end of the process, `down`);
searches have no time limit (`web_search.go:145`); a session token of the
environment may join the keys of a tool context (`integrations/agentkit/client.go:144`).

## 2. Plan
<a name="plan"></a>

What shares most state was modelled first: `LocalRuntime`; `SkillStore`,
`SkillCache`, `SkillRegistry`; `ArkTokenProvider`. Then what composes
(`AutoSave` and `TraceRegistry` under `AgentHost`), then the tools with
goroutines of their own (`FanOut`, `AgentkitSkills`), then the remote services
(`ModelCall`, `RemoteSource`, `Knowledge`, `WebFetch`, `ServiceTools`, `Shield`) and
skills on disk (`SkillFiles`). Abstract specifications: `SkillStore`, which
`SkillCache` implements, and `Delivery`, which auto-save inside a server
implements.

Left for later: the liveness of the registry; the memory backends' searches.

## 3. Modules
<a name="modules"></a>

### LocalRuntime

Models `tool/skilltool/local_runtime.go` and the process group helpers.

* A goroutine of `Procs` has one call at a time, `call[p]`, whose `pc` names the
  next critical section or file-system call. What the code does while it holds a
  mutex without a file-system call in between is one action; where a mutex is
  held over several file-system calls (`edit_file`: read, then atomic write) there
  are several actions with `mu[o]` or `rmu` set, so that others can be seen to
  wait.
* `sessions` is `r.sessions`. `*sessionState` objects are heap addresses named by
  the number of the call that made them, so that two objects of one session are
  different; `mu`, `owned`, `closing`, `active` are their fields. A command is the
  goroutine that waits for it; `killed` is the SIGKILL that cleanup sends.
* `workspaces` are directories on disk, `fresh` those whose marker is younger
  than `WorkspaceTTL`. Initially any may exist, as an earlier process may have
  left them. A `file` is the set of changes it contains: an edit reads the set and
  writes it back with its own number added, a write replaces it. `acked`
  is the history of what was reported as done, and is what `NoLostEdit` compares.
* `Session`, `Gate`, `Lock` are `session`, `maybeCleanupExpired` and
  `lockSession` with `ensureWorkspaceLocked`; `ReadDir` ... `SweepRemove` are `cleanupExpired` with its
  entry-by-entry loop and `sessionHashActive`, which holds `r.mu` while it waits
  for a session; `Mark`, `PollQuiet`, `Purge`, `Forget` are `cleanupSession`;
  the `Close...` actions are the two loops of `Close` over its copy of the map.
* `SweepFails`, `LockFails`, `PurgeFails`, `CloseRemoveFails` are the error
  returns, `PollCancelled` and `CloseGiveUp` the contexts.

Constants: `Ops` are the calls that the host makes in a run; `SerializedCleanup`
says that the host never overlaps two `CleanupSession` of one session.

### SkillStore, SkillCache, SkillRegistry

`SkillStore` is the abstract cache: pins, and revisions that are absent, good
or damaged. A revision that has pins goes only when it is of no use
(`Unusable`). `Flaky` says whether a whole revision may fail to be read.

`SkillCache` is `skills/remote_cache.go`: the gate, `Materialize` step by step
(`Lock`, `LoadHit`/`LoadMiss`, `Discard`, `Stage`, `Download`, `Extract`,
`Manifest`, `Publish`, and `Fail` at each of them), `Prune` whole or stopped
half-way, `Crash`, and `Damage` by somebody else. Sizes are small numbers:
`size`, `strays` and what a job has staged add up to `Usage`, what `diskUsage`
walks over. The syntax of archives, paths and manifests is a step that may fail.

`SkillRegistry` EXTENDS `SkillStore` and is `skills/registry.go`: `Refresh`
source by source (`Discover`), the commit that pins the next generation and
unpins the old one, a revision at a time (`PinNext`, `UnpinOld`), `Snapshot` and
its pins, `Get` and the four ways in which `Materialize` may go on, the snapshot's
`Close` and the registry's. `Prune` may happen between any two pins, so `LiveKept`
speaks also of the steps within these loops (`Held`): unpinning the old generation before
the new one is pinned would break it. The RWMutex
`r.mu` is `writer` and the goroutines at `pinCopy`; the snapshot's RWMutex is its state
`closing` and the goroutines at `fetch`.

### ArkTokenProvider

`auth/veauth/ark_token_provider.go` and the request with one refresh of its key
in `model/openai.go` (`sendRequest`) and `model/ark.go` (`generate`,
`generateStream`). A key is named by the generation in which its fetch began,
so "older than the last Invalidate" is a comparison of numbers. `exchange[g]` is
the function that singleflight runs under the key of generation `g`; `Resolve`
gives its result to everybody who waits for it. `ark.go` keeps a client for each
key besides; it follows the key and is left out.

### MemoryPolicy, AutoSave, Delivery

`MemoryPolicy` has the pure part: presets and overrides of a policy, the types of
an event's parts, which events a policy keeps, and what each backend does with
a batch. `AutoSave` follows one session key through `runner/autosave.go`: a run
copies the session, appends events to it and to its copy, and its after-run
callback reads the count (`AfterRunRead`), saves with the mutex released
(`AfterRunSave`, with every outcome of the backend) and writes the count
(`AfterRunRecord`). Runs may overlap, the session may be made anew
(`RecreateSession`) or saved by hand. `Delivery` is the promise without counts,
batches and backends: what is acknowledged is all that is to be remembered up to
some place of the session, with no gap before it and in order, until the
session is disturbed.

### TraceRegistry, AgentHost

`TraceRegistry` has the plugin's callbacks, the registry's maps, its bounded cleanup
queue and loop, the exporter that rewrites ADK's spans by the maps, and
`Shutdown`. Where the code looks an entry up under one lock and writes under
another, `writing` holds what was looked up.

`AgentHost` is `apps.Run`: it EXTENDS `AutoSave` and INSTANCEs `TraceRegistry`, installs
the plugins that the configuration asks for, takes requests, calls the plugins
in their order after each run, and stops: a signal, `server.Shutdown` against its
timeout, the deferred shutdown of observability and its flush. A2A requests may
detach their run.

### FanOut

One call of `image_generate`, `image_edit` or `video_generate`: a worker per
item (`phase`), the `WaitGroup` (`wg`), the closer (`CloserCloses`), the unbuffered
channel as a rendezvous (`Receive`), `uploaderOnce`, and the deferred function
that calls `Done` before it offers the entry of a panic (`Recover`), so that this one
send may meet a closed channel (`SendOnClosed`: the process goes down). The poll loop of
a video ends by `PollVideo` when the service has settled the task or the context is over; a
poll that itself fails ends it too, but that is `PollFails`, which need never happen.

### AgentkitSkills

`execute_skills`, `invoke_skill` and `poll_skill`: list the sandboxes of a session,
reuse the newest or create one, wait until it is ready, send, poll. A deadline is a
flag, and a gateway error, after which the same request is posted again, is a stutter.

### ModelCall

Both model clients in the parallel branches of a run. A text is the number of its
pieces; the arguments of a tool call are two pieces. `ServiceStep`s send
deltas in any split and order and may cut the stream; `StreamResponse` is the
accumulation of `generateStream`, compared with the response of the same answer
as one document. `BeforeModel`/`AfterModel` are the plugin's token counts in the
shared session state, and `collected` is `CollectFinalText`. A chunk that does not
parse is passed over by the code and is no step.

### RemoteSource, SkillFiles

`RemoteSource` is one `Discover` or `Download`: the accepted configurations, the
chain of credentials, which change under way (`Rotate`), requests with their
attempts, listings of a space that changes (`Update`), temporary URLs, and the copy of the
archive in units against its limit. A context may end at any time.

`SkillFiles` has discovery as operators, the tools that a toolset offers and how
each answers, and the read of a resource (`StatPath`, `OpenPath`, `StatOpened`,
`ReadChunk`, `StatRead`, and an I/O error at each of them, `ReadFails`) against edits that
write in place, replace the file by another, or remove it. Time is the clock of the file system, and two edits of
one tick leave one modification time.

### Knowledge

The knowledge base over its local, OpenSearch, Redis and Viking backends, with
`ve_tos`. A document stands for a text or a file, a query is the score that it
gives to each document. Adds write one document after the other and may fail
between any two; a remote index may refuse an item behind a good status; object keys
are made from a clock in milliseconds or from a file's name.

### WebFetch, ServiceTools, Shield

`WebFetch`: goroutines look up, request, follow redirects and refreshes, and store,
with no lock in between. What is read is named by the page and the time it was
served. `ServiceTools`: each tool's credentials and its judgement of an answer
(`Judges...`), and the join of parallel searches, one goroutine per query. The scraper and
VeSearch return the first result of a list as it is, with an empty text when it
holds nothing (`FirstResult`). `Shield`: the four callbacks, the two failure policies,
and a caller who cancels; an error of a tool's callback may end the run or be told to
the model, which ADK decides (`Abort`).

### Proof modules and MC modules

`LocalRuntimeProofs`, `ArkTokenProviderProofs`, `SkillCacheProofs`,
`SkillRegistryProofs`, `AgentHostProofs`, `WebFetchProofs`, `ServicesProofs` (of
`Shield`, `RemoteSource`, `ModelCall` and `ServiceTools`), `ToolCallsProofs` (of `FanOut`,
`AgentkitSkills`, `SkillFiles` and `Knowledge`): see [Proofs](#proofs). `MC...` modules
instantiate. `MCToolCalls`, `MCServices` and
`MCShared` each put several components that share no state into one run: a behaviour starts in the
initial states of one of them, with the others at rest, so that state spaces are
added and not multiplied.

## 4. Runs
<a name="runs"></a>

| run | cfg | asks | bounds |
|---|---|---|---|
| `runtime_safety` | `LocalRuntimeSafety.cfg` | `NoLostEdit`, `ExplicitRemovalIsQuiet`, `SweepSparesRunning` | 3 goroutines, 1 session, 3 calls of any kind |
| `runtime_two_sessions` | `LocalRuntimeTwoSessions.cfg` | `CloseStopsAll`, `NothingRevives` with Close's loops over two sessions | 2 goroutines, 2 sessions, 3 calls |
| `runtime_liveness` | `LocalRuntimeLive.cfg` | `CallsReturn` under `FairSpec` | 2 goroutines, 1 session, 3 calls |
| `runtime_lost_edit` | `LocalRuntimeLostEdit.cfg` | violation of `NoLostEdit` when cleanups overlap | 2 goroutines, 4 calls |
| `runtime_expiry` | `LocalRuntimeExpiry.cfg` | violation of `ExpiryIsInactive` | 2 goroutines, 3 calls |
| `skill_cache` | `SkillCache.cfg` | `DiskBounded`, `ImplementsStore`, `JobsEnd` | 2 goroutines, 2 revisions, 4 calls, 1 crash, 1 damage, 1 pin |
| `skill_registry` | `SkillRegistry.cfg` | `PinsExact`, `GenerationWhole`, `LiveKept`, `ListingRetained` | 2 goroutines, 2 names, one also local, a strict and an optional source, 3 revisions, one there and one damaged at first, 4 calls |
| `skill_kept_while_open` | `SkillRegistryKept.cfg` | violation of `KeptWhileOpen` | 1 name, 1 source, 4 calls |
| `shared` | `Shared.cfg` | `KeyIsFresh`, `RetryHasNewKey`, `OneKeyAGeneration`, `RequestsEnd`; `FetchFresh`, `FetchEnds` | 2 goroutines, 3 requests, 2 attempts; 2 goroutines, 3 fetches, 2 addresses in 4 webs, 1 redirect, a cache of 2, clock 0..2 |
| `agent_host` | `AgentHost.cfg` | `NothingTwice`, `ImplementsDelivery`, `SpanLinked`, `LeakHasCause`, `GracefulLosesNothing` | 2 runs of 1 event; every backend; 1 trace, 2 call IDs, a queue of 1; `SomeConfigs` |
| `tool_calls` | `ToolCalls.cfg` | `AllAccounted`, `ClosedAfterSends`, `CallsEnd`; `SandboxHasCause`, `SkillCallsEnd`; `KnowledgeKept`, `SearchComplete`; `ResourceAnswers` | 2 items, 2 images; 2 callers, 3 calls; 2 users, 3 documents, 2 uses, 1 tick; 2 chunks, 2 edits, 1 tick, 1 call |
| `services` | `Services.cfg` | `StreamAgrees`, `ToolIdsMatch`, `TextNotLost`, `UsageCounted`; `RetryIsFresh`, `AnswersWhole`; `ResultsAreTrue`; `PassesOnlyPermitted` | 2 branches, 2 turns, 2 tool calls, 4 deltas; 1 rotation, 1 update, sizes 1 and 2 with a limit of 1; 2 askers, 2 asks, 2 lines; 1 hook |

Why these bounds: in the runtime, the cache and the registry every conflict is
between one holder of a resource and one intruder, with at most a third who
started it all (a sweep that began before, a cleanup that has been forgotten).
Three goroutines on one session show every pair with a bystander; Close's loops
need a second session, a lost edit needs two cleanups and two edits. Two
revisions, a size that fits twice but not three times, an archive that is too
large and one that expands too much, exhaust the comparisons of the cache. Two
names in two sources, one of them local, exhaust the collisions of a generation;
four calls suffice for refresh, snapshot, refresh, close. The registry starts
with a cache that an earlier process has left (`Disk`), so that Prune and Get
meet good and damaged revisions within these calls. Two goroutines with a retry
each put two Invalidates around an exchange.

In `agent_host` two runs overlap or follow one another, share a trace or not,
and use one call ID or two; a queue of one is full with the second request.
Auto-save is checked over every backend, observability for agent and for tool
spans, both together with one request: they meet only in the order of the
callbacks and in the shutdown. In `tool_calls` two workers are the last and one
before it, two images are the last and one before it; three sandbox calls are an
overlap and a later call; two uses of a knowledge base are two adds, or an add
and a search. In `services` four deltas are two tool calls of two pieces each in any order. In
`shared`, a `CacheTTL` of 0 with a clock of 0..2 is the smallest in which an
entry is both used and expired, and `CacheMaxEntries` of 2 is reached by three wishes.

Symmetry (over goroutines, runs, call IDs, branches) is used only in runs
without liveness. `CHECK_DEADLOCK FALSE` is set where the bounded calls of a
behaviour may all be used up and the system then rests.

What the violations show:

* `runtime_lost_edit`: `cleanupSession` deletes the map entry of its session
  without a look at which object is there. Two overlapping `CleanupSession`
  calls leave calls with different mutexes for one workspace, and an update that was
  reported as done is lost; `LOCAL_RUNTIME_SECURITY.md:15` says that locking
  prevents this. With `SerializedCleanup` the property holds, and is proved.
* `runtime_expiry`: the sweep checks, gives up its locks, and removes; a call that
  starts in between loses its workspace. What does hold is `SweepSparesRunning`:
  commands that ran when the sweep listed the root are spared.
* `skill_kept_while_open`: a read error on a pinned, whole revision is taken for
  damage and the revision is removed before there is another one.

Some properties that hold name what they do not promise, and so say how the code
falls short: `LeakHasCause` (mappings stay for ever when a run had no trace or was not
sampled, the queue was full, or a callback wrote after the cleanup), `NothingTwice` and
`Delivery` (overlapping runs and sessions that are made anew), `SandboxHasCause` (a second sandbox
after a failed or an overlapping listing), `KnowledgeKept` (texts of one
millisecond, files of one name, refused bulk items), `UsageCounted` (parallel
branches), `CallsEnd` (the loop of a cancelled video task polls for ever, and holds up the
end of its own call), `ResultsAreTrue` (a first result that holds nothing, and a page
without links, are answered with an empty text and no error), `ToolIdsMatch` (services
without identifiers), `SpanLinked` (traces that are shared or were cleaned up),
`ClosedAfterSends` (the entry of a panic may still meet a closed channel),
`ResourceAnswers` (writes within one clock tick).

### Fairness

Weak fairness suffices everywhere because the number of calls is bounded.

* `LocalRuntime!Fairness`: a goroutine that can take a step takes it (the Go
  scheduler), and a process that was sent SIGKILL ends. Nothing is assumed of
  commands left alone, of cancellation, deadlines or errors, so the property
  excepts exactly the wait for a command nobody has killed.
* `SkillCache!FairCacheSpec`, and `SharedSpec` for the ARK keys: a goroutine that can
  go on does; downloads, fetches and model requests end by their timeouts. Waiters
  need not cancel, hosts need not call.
* `FanOut!ToolFairness`: goroutines are scheduled, the service answers requests and
  settles a video in some way: succeeded, failed or cancelled. Nobody has to cancel the
  call, nothing has to panic, and no poll has to fail (`PollFails` is in no fair action), so the
  loop over a cancelled task, which looks for the other two only, may go on for ever:
  `PolledForever`, the exception that `CallsEnd` makes.
* `AgentkitSkills!SkillsFairness`: the service answers a listing and a creation (the
  client has a timeout), time passes, and a loop looks at its deadline. Nothing is
  assumed of sandboxes and tasks.
* `WebFetch!WebFairness`: a request is answered or times out. Nothing is assumed
  of pages, nor of the clock.

### Assumptions about what is not in the repository

ADK calls the after-run callback of every plugin for every run, in the order of
the plugins; a session service gives each run a copy of the session that grows with
its own events; the services that a tool signs for refuse signatures
of mixed credentials; edits of skill files are those made while a call reads; the
HTTP client of AgentKit repeats a request with the same message ID.

## 5. Proofs
<a name="proofs"></a>

Each proof is about every value of the constants: any goroutines, sessions,
revisions, configurations, sizes, and any number of calls. The assumptions are
the modules' own `...Assumption`, which TLC evaluates in the runs. Most give the
types of constants; `TraceAssumption` also says that a trace which ADK starts for a run
is none of the others and that the empty call ID and the empty trace are told apart from real
ones: ADK draws its IDs at random. Two groups of theorems say
in their statement what they need besides: those about edits, removals and
`Close` of the local runtime `SerializedCleanup`, without which
`runtime_lost_edit` shows the first of them to fail, and `LiveIsKept` that a whole revision
can be read (`~Flaky`), without which `skill_kept_while_open` shows it to fail.

`LocalRuntimeProofs`:

* `TypeCorrect` and `TypesHold`: `TypeOK` is not inductive by itself. `TypeInv`
  adds `CallInv`, which fields of a call are set at which label (a call that has
  passed `session()` has an object, a sweep that looks at an entry has a session),
  and `PendingInv`, that Close's loops go over sessions with an object.
* `EditsKept` (`NoLostEdit`) and `SessionsExclusive`, from the assumption
  `SerializedCleanup`. `EditInv` is the strengthening: whoever is inside holds
  the mutex of its object, which is not closing (`MutexInv`); an object
  that is not closing is the one in the map, and a session has one cleanup at
  most, whose object is in the map (`MapInv`), so two goroutines inside one
  session share an object and hence are one (`SessionExclusive`); an edit between its
  read and its write has read everything that was reported (`CopyInv`). Without
  the assumption `MapInv` fails at `Forget`, which is the violation above. For each
  part there is a lemma for each action that can disturb it.
* `RemovalsAreQuiet` (`ExplicitRemovalIsQuiet`), `CloseStopped`
  (`CloseStopsAll`), `ClosedStaysClosed` (`NothingRevives`) and `RunningIsSpared`
  (`SweepSparesRunning`), with `SerializedCleanup`. `RInv` adds to the two
  invariants above `WorkInv`, that a running command is in the active set of its
  object and that object in the map, and that a session that is purged or forgotten
  has no command; `IdInv`, that calls have different numbers; `SweepInv`, that what
  a sweep saw running has begun nothing else since, and has ended if the sweep is
  about to remove its workspace; and `CloseInv`, what Close's two loops have
  reached: all objects marked, then no command and no workspace for each session
  they have passed. `NothingRevives` and `SweepSparesRunning` are about a step:
  their proofs go through the actions from `RInv`.

`ArkTokenProviderProofs`: `Typed`, `KeysAreFresh` (`KeyIsFresh`), `RetriesHaveNewKeys`
(`RetryHasNewKey`) and `OneKeyCached` (`OneKeyAGeneration`), all from the
inductive invariant `IInv` (`InvHolds`):

* `CountInv`: the requests that may still invalidate are a finite set whose
  size, added to the generation, does not exceed the requests made; without it
  the type of `generation` is not inductive.
* `ExchangeInv`: an exchange belongs to a generation that has begun, and the key it fetches
  is not older than itself; `CallInv`: a waiter's exchange is not older than its
  call, and a repeated request wants a key newer than the refused one. Together
  they give freshness wherever a waiter is resolved.
* `StoreInv`: the key in the cache is of the present generation, and while
  that generation's exchange may still store a key, none is cached.

`SkillCacheProofs`: `GateHolds`, that one goroutine at most is past the gate and
that the job behind it agrees with what is published (`CacheInv`); and
`Implements`, the refinement `CacheSpec => ImplementsStore`. The map is the identity on pins and on
published revisions; every step of the cache is a step of the store or leaves both alone.
`CacheInv` is needed where a job acts on what it has seen before: a revision is
discarded only if it is still unusable, and published only where none is. That no
other goroutine can have changed it in between is the exclusion by the gate.
`DiskIsBounded` (`DiskBounded`) is from `DiskInv`: only the gate's holder has
anything staged, and what it has staged stays, with the bytes of all the other
revisions and the strays as they were when it measured them, within the limit.
`Usage` and `Others` are sums over revisions and over goroutines; what
`SumFunction` is when one value changes is proved once, by induction over subsets
in the form of `WFMin`, which speaks of a set and not of a predicate.

`WebFetchProofs`: `ResultsAreFresh` (`FetchFresh`). The strengthening says of every
cache entry that it was served no more than `FetchTime` before it was stored and
expires `CacheTTL` after, and of every call under way which page it may have read and when.

`SkillRegistryProofs`:

* `RegistryTyped`: the type invariant, with what a goroutine's locals are at each label.
* `PinsAreExact` (`PinsExact`) and `LiveIsKept` (`LiveKept`). `LockInv` says who
  holds the gate and the write lock, `SnapInv` what the goroutines at work on
  a snapshot allow its state to be, `ListInv` that the loops over pins go over
  revisions of their generation. `CountInv` accounts for every pin at every moment: a
  revision has one pin for each snapshot that has one or is making it or giving it
  back, one if the generation has not lost it to the loop that unpins, and one if the next
  generation has got it already. `PinsExact` speaks of the moments between
  these loops and is not inductive by itself. `LiveKept` speaks of the moments within
  them too: by `CopyInv` a snapshot that is being pinned is a copy of the generation
  whose read lock it holds, so each revision it has still to pin has the generation's
  pin (`HeldPinned`).
* `GenerationsAreWhole` (`GenerationWhole`) and `ListingIsRetained`
  (`ListingRetained`): `GatherInv` says that a generation, whether current or being
  gathered, has each name from the first source that lists it and no other names,
  and that a source which failed keeps its previous listing.

`AgentHostProofs` is about a whole server: auto-save, observability and the
shutdown together. `HostStep` and `HostTrace` say that each step of the server is a step
of auto-save or leaves it alone, and a step of the registry or leaves it alone; so
each component's invariant is proved over its own steps.

* `MemoryHasNoCopies` (`NothingTwice`) and `AutoSaveDelivers`, the refinement
  `HostSpec => ImplementsDelivery`. Events of one session have different IDs (`IdInv`). In a
  session whose runs followed one another, one run at a time is under way, it has
  the session as it is and saves what came since the last save, and what is
  acknowledged is what the policy keeps up to there (`SeqInv`): from
  this every save is a step of `Delivery`. If nothing went wrong an event has a copy only
  if the plugin has come to it (`CopyInv`).
* `GracefulShutdown` (`GracefulLosesNothing`). When no run is at work
  the count covers the whole log (`KeptInv`); a run that is over has no recording
  span (`PhaseInv`); a request is answered after its run is over (`ConnInv`), the
  server returns without an error only after every handler has returned
  (`EndInv`), and a flush in time leaves no ended span behind (`FlushInv`).
* `SpansAreLinked` (`SpanLinked`), from `RegistryInvariant`. A run is calm when its
  trace has not been cleaned and no call ID of it was used by two runs. Of a calm run the bridge's
  mapping is right for as long as a span needs it (`MappedInv`), its tool call leads to
  it (`CalledInv`), the exporter has found what is right (`ExportInv`), and a trace of its own
  has the run's invocation (`BoundInv`). `WriteInv` says of a callback between
  its look-up and its write whether what it holds is still in the map.
* `LeaksHaveCauses` (`LeakHasCause`). A run is pending while it is under way,
  its cleanup is queued, or nobody will ask for one. `LeakInv`: whatever is in the maps
  belongs to a pending run, or came back after a cleanup. `LeakHasCause` speaks only of the end, when
  nothing is queued.

`ServicesProofs` has four components that share no state.

* `OnlyPermittedPasses` (`PassesOnlyPermitted`) of `Shield`, for runs of any
  length, where the run checks one callback: the invariant says of every message that has
  passed how it was judged.
* `RetriesAreFresh` (`RetryIsFresh`) and `AnswersAreWhole` (`AnswersWhole`) of
  `RemoteSource`. The invariant says which answers the requests before the present one
  have had, and that a job about to send has a credential that was in force since
  the last answer; every change of credentials only adds to these. `AnswerInv`: a
  job has written no more than the object has and the limit allows, and returns
  nothing before its end.

* `StreamsAgree` (`StreamAgrees`), `TextsAreKept` (`TextNotLost`) and
  `UsageIsCounted` (`UsageCounted`) of `ModelCall`, from one invariant. `BufferOK`:
  while a stream is read the accumulators are what the deltas so far say, and
  if the deltas have indexes, or there is one call, each slot has the head and
  the pieces of its call and no other's; this is what the response is made of.
  `TextOK`: a text that was shown is in a buffer or in a response that is to
  come. `CountOK`: as long as branches are in calls one after the other, what was counted
  before a call is all there is.
* `ToolIdsAgree` (`ToolIdsMatch`). `IdsInv`: where the service gives
  identifiers, no slot of a buffer and no call of a response lacks one, and in
  every conversation answers come right after the calls they answer
  (`Paired`). What a request becomes is an induction over its
  contents (`PairedAnswered`): the messages of the contents so far are in order, and
  end with the message that has the calls of the last one.
* `ResultsTold` (`ResultsAreTrue`) of `ServiceTools`. `Simple`, `Speech` and `Many`
  say what a call is while it asks one question, reads a stream or has goroutines at
  work. `SearchOK` is the last: the counter of the wait group is the number of
  goroutines that have not called `Done`, and the two maps are what those that
  have recorded were answered, so that a counter of zero means that every
  query is in one of them. An empty result follows only from a first result that
  holds nothing, which the property says in so many words. No two calls have one file, because a new file's name is
  none that exists, which is a count (`UnusedIsNew`).

`ToolCallsProofs` has four components that share no state.

* `ClosesLast` (`ClosedAfterSends`) of `FanOut`. The counter of the wait group
  is the number of workers that have not called `Done`, which is not inductive by itself:
  items that the video tool has not come to are idle, and a closed channel means that it
  will come to none.
* `ImagesAccounted` (`AllAccounted`). The lists are a bag; `EntryCounts` says what one more
  entry does to every count. `StageOK` says which of the images that an item was promised its worker
  has handed over at each of its steps, which is what the property
  speaks of only at the end.
* `SandboxesHaveCauses` (`SandboxHasCause`) of `AgentkitSkills`. A call that is about
  to make a sandbox knows how many there were when the service listed
  them, and that those were gone if the listing succeeded (`Known`); the
  sandboxes keep this for good. A poll goes to the latest that it was shown, so to an
  older one only after the task's own has ended.
* `ResourcesAreRead` (`ResourceAnswers`) of `SkillFiles`. Of a call that has opened the
  file, `ReaderOK` says that the chunks read so far are the file's first ones
  as long as its time of change is the one that the call noted and no edit shared a
  tick with another; so an equal time and size at the end mean the whole content.
* `AddsAreKept` (`KnowledgeKept`) of `Knowledge`. `KeptInv` says of each document
  that an add has promised that it is settled (stored, registered under a key that
  still has it, or excused: refused without a word, or its key was overwritten) or
  still to be stored by that add; what is settled stays so. `FilterRule`, an
  induction over the numbers, says which documents the filters of blank and of refused
  ones leave.
* `SearchesAreComplete` (`SearchComplete`). A search copies a local base in
  one step, and there nothing is excused or on its way, so the copy has every
  acknowledged document (`SearchInv`). The order of the ranking is strict and total
  (`BetterOrder`), so that each place of it has exactly one candidate (`NthIs`, by the
  pigeonhole principle), and whoever is not found has `top` others before it (`ForemostFinds`).

What is only model-checked, and why: liveness (`CallsReturn`, `JobsEnd`,
`RequestsEnd`, `FetchEnds`, `CallsEnd`, `SkillCallsEnd`), which is out of the prover's
reach; and the three runs that expect a violation, where there is nothing to prove. Every
invariant and every action property of the other runs is a theorem.

## 6. Not modelled
<a name="not"></a>

Sizes and quotas of workspaces, truncation of output, environments and audit
records of the runtime; process IDs and their reuse; ZIP and YAML syntax, path
checks; chunks of a model's stream that do not parse; contents of messages other than text and tool calls, and request options;
embeddings; HTML conversion; attribute translation and metrics of
observability; routes and cards of the apps; the searches of the memory backends; prompt
pilot and Mem0; the construction of agents; configuration and logging; the
examples. They are sequential transformations, configuration or the operating
system, and no property above depends on them, except as steps that may fail,
which they are in the models.
