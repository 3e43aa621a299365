---------------------------- MODULE ServiceTools ----------------------------
(***************************************************************************)
(* The built-in tools that put one question to a remote service: tts.go,   *)
(* vesearch.go, link_reader.go, web_scraper.go, run_code.go, mcp_router.go *)
(* and the two tools of web_search.go, of which parallel_web_search asks   *)
(* all of its queries at once.  Each goroutine makes the tool and calls it *)
(* with the credentials that it finds.                                     *)
(*                                                                         *)
(* External: the services; they refuse a signature whose parts are not of  *)
(* one credential.  What a service says is abstracted to what the tools    *)
(* tell apart.                                                             *)
(***************************************************************************)
EXTENDS Integers, Sequences, FiniteSets

CONSTANTS
    Askers,         \* goroutines that call tools
    Settings,       \* what may be configured, records of Setting
    QueryLists,     \* lists of queries; Blank is one of white space
    Blank,
    MaxLines,       \* bound: lines of a speech stream
    MaxAsks         \* bound: calls of a behaviour

ASSUME ServiceToolsAssumption ==
    /\ MaxLines \in Nat /\ MaxAsks \in Nat
    /\ QueryLists \subseteq Seq(UNION {{list[i] : i \in DOMAIN list} : list \in QueryLists})

VARIABLES
    setting,    \* what is configured
    audio,      \* output directory of text_to_speech: file -> what is in it
    asks,       \* calls so far
    ask,        \* goroutine -> its call
    down        \* a goroutine without a recover has panicked

askVars == <<setting, audio, asks, ask, down>>

(***************************************************************************)
(* Settings and credentials                                                *)
(***************************************************************************)

Parts == {"ak", "sk"}

\* If the tool has the name it needs (an application, an endpoint or an
\* identifier) and a key; the parts of a credential that the tool context and
\* the process (its environment or configuration) have; a session token of the
\* environment; and the mounted role file.
Setting == [name : BOOLEAN, key : BOOLEAN, context : SUBSET Parts, process : SUBSET Parts,
            token : BOOLEAN, role : {"none", "bare", "token"}]

Pair(ak, sk, token) == [ak |-> ak, sk |-> sk, token |-> token]
NoPair == Pair("none", "none", "none")
Complete(c) == c.ak # "none" /\ c.sk # "none"

InProcess(part) == IF part \in setting.process THEN "process" ELSE "none"

\* GetCredentialFromVeFaaSIAM.
RolePair ==
    IF setting.role = "none" THEN NoPair
    ELSE Pair("role", "role", IF setting.role = "token" THEN "role" ELSE "none")

\* resolveWebSearchCredential looks for each part by itself.
SearchPair ==
    LET part(p) == IF p \in setting.context THEN "context" ELSE InProcess(p)
        found   == Pair(part("ak"), part("sk"), "none")
    IN  IF Complete(found) \/ setting.role = "none" THEN found ELSE RolePair

\* Credentials of the AgentKit client: both parts of one place, but the session
\* token of the environment with either.
AgentkitPair ==
    LET found == IF setting.context = Parts THEN Pair("context", "context", "none")
                 ELSE Pair(InProcess("ak"), InProcess("sk"), "none")
    IN  IF ~ Complete(found) THEN RolePair
        ELSE IF setting.token THEN [found EXCEPT !.token = "process"] ELSE found

\* GetSpeechToken and GetVeSearchToken.
ExchangePair ==
    LET found == Pair(InProcess("ak"), InProcess("sk"), "none")
    IN  IF Complete(found) THEN found ELSE RolePair

\* The role source of the MCP router gives up at half a pair.
RouterPair ==
    CASE setting.process = Parts -> Pair("process", "process", IF setting.token THEN "process" ELSE "none")
      [] setting.process = {} -> RolePair
      [] OTHER -> NoPair

Genuine(c) == c.ak = c.sk /\ c.token \in {"none", c.ak}

(***************************************************************************)
(* Answers                                                                 *)
(***************************************************************************)

\* None (a bad status, a body that breaks off, is too large or cannot be parsed),
\* the JSON null, a report of a failure, one without results, results the first
\* of which holds nothing that the tool reads (no organic entry, no content, no
\* summary; it may hold a failure in their place), a result.
Bodies == {"none", "null", "failed", "empty", "hollow", "good"}

\* Those that have a result.
Results == {"hollow", "good"}

\* What a tool makes of an answer: "blank" is a result with nothing in it, and no
\* error.  Three tools look for results, and not at what the first one holds.
FirstResult(body) ==
    CASE body = "good" -> "answer"
      [] body = "hollow" -> "blank"
      [] OTHER -> "error"
VeSearchJudges(body) == FirstResult(body)
ScraperJudges(body) == FirstResult(body)
SearchJudges(body) == IF body = "null" THEN "panic" ELSE FirstResult(body)
RouterJudges(body) == IF body = "good" THEN "answer" ELSE "error"
LinksJudge(body) == IF body = "empty" THEN "blank" ELSE FirstResult(body)
CodeJudges(body) ==
    CASE body = "none" -> "error"
      [] body \in Results -> FirstResult(body)
      [] OTHER -> "raw"

Judged(tool, body) ==
    CASE tool = "vesearch" -> VeSearchJudges(body)
      [] tool = "scraper" -> ScraperJudges(body)
      [] tool = "router" -> RouterJudges(body)
      [] tool = "links" -> LinksJudge(body)
      [] tool = "code" -> CodeJudges(body)
      [] tool = "search" -> SearchJudges(body)

\* Those whose requests are signed.
Signed == {"search", "code", "router"}
PairFor(tool) ==
    CASE tool = "search" -> SearchPair
      [] tool = "code" -> AgentkitPair
      [] tool = "router" -> RouterPair

\* Only a good signature is served.
Served(tool, pair) ==
    IF tool \in Signed /\ ~ Genuine(pair) THEN {"none"} ELSE Bodies

(***************************************************************************)
(* A call                                                                  *)
(***************************************************************************)

NoAsk == [pc |-> "idle"]

AskInit ==
    /\ setting \in Settings
    /\ audio = <<>>
    /\ asks = 0
    /\ ask = [a \in Askers |-> NoAsk]
    /\ down = FALSE

Is(a, pc) == ask[a].pc = pc /\ ~ down
Be(a, r) == ask' = [ask EXCEPT ![a] = r]
Step(a, pc) == Be(a, [ask[a] EXCEPT !.pc = pc])
End(a, result) == Be(a, [ask[a] EXCEPT !.pc = "returned", !.result = result])

Made(tool, pc, result) ==
    [pc |-> pc, tool |-> tool, result |-> result, pair |-> NoPair, body |-> "unasked"]

Ready(tool) == Made(tool, "called", "none")
Unmade(tool) == Made(tool, "returned", "error")
Exchanges(tool) == Made(tool, "exchange", "none")

\* New...Tool and applyDefaults: without a name or a key there is no tool, unless
\* the key can be had for the credentials of the process.
NewSpeech ==
    CASE ~ setting.name -> Unmade("speech")
      [] setting.key -> Ready("speech")
      [] OTHER -> Exchanges("speech")
NewVeSearch ==
    CASE ~ setting.name -> Unmade("vesearch")
      [] setting.key -> Ready("vesearch")
      [] OTHER -> Exchanges("vesearch")
NewScraper == IF setting.name /\ setting.key THEN Ready("scraper") ELSE Unmade("scraper")
NewRouter == IF setting.name THEN Ready("router") ELSE Unmade("router")
NewLinkReader == IF setting.key THEN Ready("links") ELSE Exchanges("links")

Tools == {NewSpeech, NewVeSearch, NewScraper, NewRouter, NewLinkReader,
          Ready("code"), Ready("search"), Ready("many")}

Make(a) ==
    /\ Is(a, "idle") \/ Is(a, "returned")
    /\ asks < MaxAsks
    /\ asks' = asks + 1
    /\ \E new \in Tools : Be(a, new)
    /\ UNCHANGED <<setting, audio, down>>

\* The key of speech and vesearch is asked for; that of link_reader comes from an
\* ArkTokenProvider, and NewLinkReaderTool panics when there is none.
ExchangeKey(a) ==
    /\ Is(a, "exchange")
    /\ \/ (ask[a].tool = "links" \/ (Complete(ExchangePair) /\ Genuine(ExchangePair))) /\ Step(a, "called")
       \/ End(a, IF ask[a].tool = "links" THEN "panic" ELSE "error")
    /\ UNCHANGED <<setting, audio, asks, down>>

\* A handler, or the constructor of the router toolset: there is nothing to ask
\* (no links; a router with a URL and no identifier), or too much, or no credential
\* to sign it with; else the request goes out.
Handle(a) ==
    /\ Is(a, "called") /\ ask[a].tool # "many"
    /\ LET tool == ask[a].tool
       IN  \/ tool \in Signed /\ ~ Complete(PairFor(tool)) /\ End(a, "error")
           \/ tool \in Signed /\ Complete(PairFor(tool))
                /\ Be(a, [ask[a] EXCEPT !.pc = "sent", !.pair = PairFor(tool)])
           \/ tool \notin Signed \cup {"speech"} /\ Step(a, "sent")
           \/ tool = "speech"
                /\ Be(a, [pc |-> "stream", tool |-> tool, result |-> "none", lines |-> <<>>,
                          heard |-> 0, file |-> 0])
           \/ tool \notin Signed /\ End(a, "error")
           \/ tool \in {"links", "router"} /\ End(a, "nothing")
    /\ UNCHANGED <<setting, audio, asks, down>>

\* execute: the answer, or none.
Answer(a) ==
    /\ Is(a, "sent")
    /\ \E body \in Served(ask[a].tool, ask[a].pair) :
          Be(a, [ask[a] EXCEPT !.pc = "returned", !.body = body, !.result = Judged(ask[a].tool, body)])
    /\ UNCHANGED <<setting, audio, asks, down>>

(***************************************************************************)
(* text_to_speech                                                          *)
(***************************************************************************)

\* readTTSAudioData: the next line of the stream.  Audio (code 0) is kept; one
\* without data, or with a negative code, is skipped; another code, or what is no
\* line, fails.  The marker ends the speech, and so does the end of the stream.
Line(a) ==
    /\ Is(a, "stream")
    /\ LET r == ask[a]
           read(line) == [r EXCEPT !.lines = Append(@, line)]
       IN  \/ /\ Len(r.lines) < MaxLines
              /\ \/ Be(a, [read("audio") EXCEPT !.heard = @ + 1])
                 \/ Be(a, read("skipped"))
                 \/ Be(a, [read("end") EXCEPT !.pc = "save"])
           \/ Step(a, "save")
           \/ End(a, "error")
    /\ UNCHANGED <<setting, audio, asks, down>>

\* os.CreateTemp takes a name that nobody has.
Unused == CHOOSE f \in 1 .. Cardinality(DOMAIN audio) + 1 : f \notin DOMAIN audio

Create(a) ==
    /\ Is(a, "save")
    /\ \/ /\ Be(a, [ask[a] EXCEPT !.pc = "write", !.file = Unused])
          /\ audio' = [f \in DOMAIN audio \cup {Unused} |-> IF f = Unused THEN 0 ELSE audio[f]]
       \/ End(a, "error") /\ UNCHANGED audio
    /\ UNCHANGED <<setting, asks, down>>

\* A write that fails may have written a part.
Write(a) ==
    /\ Is(a, "write")
    /\ \E n \in 0 .. ask[a].heard :
          /\ audio' = [audio EXCEPT ![ask[a].file] = n]
          /\ Step(a, "remove") \/ (n = ask[a].heard /\ Step(a, "close"))
    /\ UNCHANGED <<setting, asks, down>>

CloseFile(a) ==
    /\ Is(a, "close")
    /\ Step(a, "remove") \/ End(a, "answer")
    /\ UNCHANGED <<setting, audio, asks, down>>

\* What cannot be removed stays.
RemoveFile(a) ==
    /\ Is(a, "remove")
    /\ \/ audio' = [f \in DOMAIN audio \ {ask[a].file} |-> audio[f]]
       \/ UNCHANGED audio
    /\ End(a, "error")
    /\ UNCHANGED <<setting, asks, down>>

(***************************************************************************)
(* parallel_web_search                                                     *)
(***************************************************************************)

ParallelSearch(list) ==
    [pc |-> "spawn", tool |-> "many", result |-> "none", pair |-> SearchPair, list |-> list, next |-> 1,
     worker |-> [i \in DOMAIN list |-> "none"], body |-> [i \in DOMAIN list |-> "unasked"],
     wg |-> 0, found |-> {}, errors |-> {}]

Queries(a) ==
    /\ Is(a, "called") /\ ask[a].tool = "many"
    /\ \E list \in QueryLists : Be(a, ParallelSearch(list))
    /\ UNCHANGED <<setting, audio, asks, down>>

\* The next query: wg.Add, then its goroutine.
Spawn(a) ==
    /\ Is(a, "spawn")
    /\ LET i == ask[a].next
       IN  Be(a, IF i > Len(ask[a].list) THEN [ask[a] EXCEPT !.pc = "join"]
                 ELSE IF ask[a].list[i] = Blank THEN [ask[a] EXCEPT !.next = i + 1]
                 ELSE [ask[a] EXCEPT !.next = i + 1, !.wg = @ + 1, !.worker[i] = "searching"])
    /\ UNCHANGED <<setting, audio, asks, down>>

Has(a, i, phase) == ~ down /\ ask[a].pc \in {"spawn", "join"} /\ ask[a].worker[i] = phase

\* search: a pair that lacks a part is not even sent.
Searched(a, i) ==
    /\ Has(a, i, "searching")
    /\ \E body \in IF Complete(ask[a].pair) THEN Served("search", ask[a].pair) ELSE {"none"} :
          /\ Be(a, [ask[a] EXCEPT !.worker[i] = "answered", !.body[i] = body])
          /\ down' = (Judged("search", body) = "panic")
    /\ UNCHANGED <<setting, audio, asks>>

\* With the mutex: the answer of one query into one of the two maps.
Record(a, i) ==
    /\ Has(a, i, "answered")
    /\ LET q == ask[a].list[i]
       IN  Be(a, IF Judged("search", ask[a].body[i]) \in {"answer", "blank"}
                 THEN [ask[a] EXCEPT !.worker[i] = "recorded", !.found = @ \cup {q}]
                 ELSE [ask[a] EXCEPT !.worker[i] = "recorded", !.errors = @ \cup {q}])
    /\ UNCHANGED <<setting, audio, asks, down>>

Done(a, i) ==
    /\ Has(a, i, "recorded")
    /\ Be(a, [ask[a] EXCEPT !.worker[i] = "done", !.wg = @ - 1])
    /\ UNCHANGED <<setting, audio, asks, down>>

\* Mutant of JoinSearches: the handler does not wait.
JoinSearchesNow(a) ==
    /\ Is(a, "join")
    /\ End(a, "answer")
    /\ UNCHANGED <<setting, audio, asks, down>>

JoinSearches(a) ==
    /\ Is(a, "join") /\ ask[a].wg = 0
    /\ End(a, "answer")
    /\ UNCHANGED <<setting, audio, asks, down>>

Work(a) == ask[a].pc \in {"spawn", "join"} /\ \E i \in DOMAIN ask[a].list : Searched(a, i) \/ Record(a, i) \/ Done(a, i)

AskNext ==
    \E a \in Askers :
       \/ Make(a) \/ ExchangeKey(a) \/ Handle(a) \/ Answer(a)
       \/ Line(a) \/ Create(a) \/ Write(a) \/ CloseFile(a) \/ RemoveFile(a)
       \/ Queries(a) \/ Spawn(a) \/ Work(a) \/ JoinSearches(a)

AskSpec == AskInit /\ [][AskNext]_askVars

(***************************************************************************)
(* Properties                                                              *)
(***************************************************************************)

\* The path that is returned names a file of this call alone, with all the audio
\* of the stream up to its marker or its end.
SpeechWhole(a) ==
    LET r == ask[a]
        marked == {i \in DOMAIN r.lines : r.lines[i] = "end"}
        spoken == {i \in DOMAIN r.lines : r.lines[i] = "audio" /\ \A j \in marked : i < j}
    IN  /\ r.file \in DOMAIN audio /\ audio[r.file] = Cardinality(spoken)
        /\ \A b \in Askers \ {a} :
              ask[b].pc \in {"write", "close", "remove"} => ask[b].file # r.file

\* Every query has its answer or its error, and each of these is what a search of
\* that query came to (equal queries may have both).
QueriesAnswered(a) ==
    LET r == ask[a]
        asked(bodies) == {r.list[i] : i \in {j \in DOMAIN r.list : r.body[j] \in bodies}}
    IN  /\ {r.list[i] : i \in DOMAIN r.list} \ {Blank} = r.found \cup r.errors
        /\ r.found = asked(Results)
        /\ r.errors = asked(Bodies \ Results)

\* A call that returns without an error returns what the service did for it: not a
\* failure in place of an answer, nor less than what came, nor the answer of
\* another call.  The exceptions: a first result that holds nothing, be it for a
\* failure inside of it, is returned as an empty one (web_scraper.go:219,
\* vesearch.go:214, web_search.go:156), as is link_reader's empty list, and run_code
\* hands on an answer that it does not know.
ResultsAreTrue ==
    \A a \in Askers : ask[a].pc = "returned" =>
        LET r == ask[a]
        IN  /\ r.result = "answer" =>
                  CASE r.tool = "speech" -> SpeechWhole(a)
                    [] r.tool = "many" -> QueriesAnswered(a)
                    [] OTHER -> r.body = "good"
            /\ r.result = "blank" => r.body = "hollow" \/ (r.tool = "links" /\ r.body = "empty")
            /\ r.result = "raw" => r.tool = "code" /\ r.body \notin Results
            /\ r.tool \in Signed /\ r.result \in {"answer", "blank", "raw"} => Genuine(r.pair)
=============================================================================
