------------------------------ MODULE ModelCall ------------------------------
(***************************************************************************)
(* The model clients at work in one run of an agent: model/openai.go and   *)
(* model/ark.go convert the conversation into a request, read the answer   *)
(* whole or as a stream of deltas, and hand responses on; the              *)
(* observability plugin counts the tokens; runner.RunText collects the     *)
(* text.  Branches are sub-agents that a parallel agent runs at once: they *)
(* share the session's state, and with it the plugin's spanMetadata.       *)
(*                                                                         *)
(* A text is the number of its pieces and an identifier the number of its  *)
(* tool call.  The arguments of a call are the pieces <<k, 1>>, <<k, 2>>   *)
(* they are streamed in: they parse only when one call's are all there.    *)
(*                                                                         *)
(* External: the model service, and what ADK does between two calls (it    *)
(* runs the tools a response asks for and appends their answers).          *)
(***************************************************************************)
EXTENDS Integers, Sequences, FiniteSets, SequencesExt

CONSTANTS Services,    \* the clients and services to check: [client, streams, ids, indexes]
          Branches,    \* parallel sub-agents of the run
          MaxTurns,    \* bound: model calls of a branch
          MaxCalls,    \* bound: tool calls in one answer
          MaxDeltas    \* bound: deltas of the branches' answers, the last chunks aside

ASSUME ModelAssumption ==
    /\ Services \subseteq [client : {"openai", "ark"}, streams : BOOLEAN,
                           ids : BOOLEAN, indexes : BOOLEAN]
    /\ MaxTurns \in Nat /\ MaxCalls \in Nat /\ MaxDeltas \in Nat

ArgPieces == 2
NoId      == 0       \* an identifier the service left empty
CallNos   == 1 .. MaxCalls

VARIABLES
    service,    \* the client used, and whether its service is asked to stream,
                \* identifies its tool calls and gives their deltas an index
    history,    \* per branch: the contents of its next request
    pc,         \* per branch: idle | asking | reading | ended | over
    answer,     \* external, per branch: what the service has sent so far
    acc,        \* per branch: the buffers of generateStream
    got,        \* per branch: the response its call ended with
    turns,      \* per branch: model calls made
    meta,       \* the plugin's spanMetadata: tokens, and before the call
    spent,      \* history: tokens of all responses with usage
    overlap,    \* history: two branches were in model calls at once
    collected   \* CollectFinalText: any partial text, any final text, an error

modelVars == <<service, history, pc, answer, acc, got, turns, meta,
               spent, overlap, collected>>

-----------------------------------------------------------------------------
\* Contents of a conversation, and the messages they become.

Content(role, parts, calls, answers) ==
    [role |-> role, parts |-> parts, calls |-> calls, answers |-> answers]

TextParts  == {"text", "text file"}
OpenAIMedia == {"image", "video", "audio", "document", "uri"}
ArkMedia    == {"image", "video"}
MediaParts  == IF service.client = "openai" THEN OpenAIMedia ELSE ArkMedia

\* An empty identifier is replaced by a random one, so two of them never match.
SentId(side, id) == IF id = NoId THEN <<side, id>> ELSE <<"given", id>>

\* Mutant of ToolMessages: every answer gets an identifier of its own.
ToolMessagesRenamed(content) ==
    [i \in DOMAIN content.answers |->
        [role |-> "tool", parts |-> {"text"}, calls |-> {}, answers |-> <<"answer", i>>]]

\* One tool message for each function response.
ToolMessages(content) ==
    [i \in DOMAIN content.answers |->
        [role |-> "tool", parts |-> {"text"}, calls |-> {},
         answers |-> SentId("answer", content.answers[i])]]

\* A content without parts is not sent, and one with function responses as those
\* only.  Tool calls go with the texts, and without them media goes with the
\* texts; what the client does not know is left out.
ConvertContent(content) ==
    IF content.answers # <<>> THEN ToolMessages(content)
    ELSE IF content.parts = {} /\ content.calls = <<>> THEN <<>>
    ELSE <<[role    |-> IF content.role = "model" THEN "assistant" ELSE content.role,
            parts   |-> content.parts \cap
                           (IF content.calls # <<>> THEN TextParts
                                                    ELSE TextParts \cup MediaParts),
            calls   |-> {SentId("call", id) : id \in ToSet(content.calls)},
            answers |-> <<>>]>>

\* A request ends with a content of the user.
WithUserLast(contents) ==
    IF contents # <<>> /\ Last(contents).role = "user" THEN contents
    ELSE Append(contents, Content("user", {"text"}, <<>>, <<>>))

Messages(b) == FlattenSeq([i \in DOMAIN WithUserLast(history[b]) |->
                              ConvertContent(WithUserLast(history[b])[i])])

-----------------------------------------------------------------------------
\* Answers and responses.

NoAnswer == [text |-> 0, reason |-> 0, calls |-> <<>>, deltas |-> 0,
             finish |-> FALSE, usage |-> 0, json |-> FALSE]

\* need is how many argument pieces a call has: a call without arguments may be
\* sent with an empty string for them.
ToolCall(need, sent) == [need |-> need, sent |-> sent]

NoBuffers == [text |-> 0, reason |-> 0, slots |-> <<>>, usage |-> 0, finish |-> FALSE]
EmptySlot == [heads |-> {}, id |-> NoId, args |-> <<>>]

Nothing == [kind |-> "none", text |-> 0, reason |-> 0, calls |-> {}, usage |-> 0]
Failed  == [Nothing EXCEPT !.kind = "error"]

WholeArgs(k) == [j \in 1 .. ArgPieces |-> <<k, j>>]
Parses(args) == \E k \in CallNos : args = WholeArgs(k)

IdOf(k) == IF service.ids THEN k ELSE NoId

Response(text, reason, calls, usage) ==
    [kind |-> "final", text |-> text, reason |-> reason, calls |-> calls, usage |-> usage]

\* generate: the answer as one JSON document.  A call whose arguments do not
\* parse fails it all.
WholeCallParts(a) == {[heads |-> {k}, id |-> IdOf(k)] : k \in DOMAIN a.calls}

ArkResponse(a) == Response(a.text, a.reason, WholeCallParts(a), a.usage)

\* parseToolCallsFromText: of a text that is a tool call in JSON the OpenAI
\* client makes one, with an identifier of its own, when there is no other.
TextIsCall(a) == a.json /\ a.calls = <<>>

OpenAIResponse(a) ==
    IF TextIsCall(a) THEN Response(0, a.reason, {[heads |-> {1}, id |-> 1]}, a.usage)
    ELSE Response(a.text, a.reason, WholeCallParts(a), a.usage)

WholeResponse(a) ==
    IF \E k \in DOMAIN a.calls : a.calls[k].need = 0 THEN Failed
    ELSE IF service.client = "openai" THEN OpenAIResponse(a) ELSE ArkResponse(a)

\* Mutant of StreamResponse: one slot that does not parse hides those after it.
StreamResponseUpTo(buf) ==
    LET good == {i \in DOMAIN buf.slots : \A j \in 1 .. i : Parses(buf.slots[j].args)}
    IN  Response(buf.text, buf.reason,
                 {[heads |-> buf.slots[i].heads, id |-> buf.slots[i].id] : i \in good},
                 buf.usage)

\* The final response of a stream: a slot whose arguments do not parse is
\* skipped.
StreamResponse(buf) ==
    LET good == {i \in DOMAIN buf.slots : Parses(buf.slots[i].args)}
    IN  Response(buf.text, buf.reason,
                 {[heads |-> buf.slots[i].heads, id |-> buf.slots[i].id] : i \in good},
                 buf.usage)

\* Mutant of IsSilent: a stream that was not finished counts as nothing.
IsSilentUnfinished(buf) == ~buf.finish /\ buf.usage = 0

\* Nothing but reasoning, no finish reason and no usage: no response at all.
IsSilent(buf) == buf.text = 0 /\ buf.slots = <<>> /\ ~buf.finish /\ buf.usage = 0

-----------------------------------------------------------------------------
\* The user's question, in text and media, and a fresh run (BeforeRun stores a
\* new spanMetadata).
ModelInit ==
    /\ service \in Services
    /\ history = [b \in Branches |->
          <<Content("user", {"text", "image", "document"}, <<>>, <<>>)>>]
    /\ pc = [b \in Branches |-> "idle"]
    /\ answer = [b \in Branches |-> NoAnswer]
    /\ acc = [b \in Branches |-> NoBuffers]
    /\ got = [b \in Branches |-> Nothing]
    /\ turns = [b \in Branches |-> 0]
    /\ meta = [total |-> 0, prev |-> 0]
    /\ spent = 0
    /\ overlap = FALSE
    /\ collected = [partial |-> FALSE, final |-> FALSE, broken |-> FALSE]

-----------------------------------------------------------------------------
\* Mutant of BeforeModel: what was counted before is not remembered.
BeforeModelForgets == UNCHANGED meta

\* The plugin before a call: what the responses of this call add is added to
\* what had been counted when it began.
BeforeModel == meta' = [meta EXCEPT !.prev = meta.total]

\* The plugin after a response with usage.
AfterModel(tokens) ==
    /\ spent' = spent + tokens
    /\ meta' = IF tokens = 0 THEN meta ELSE [meta EXCEPT !.total = meta.prev + tokens]

\* A branch calls its model.
Ask(b) ==
    /\ pc[b] = "idle" /\ turns[b] < MaxTurns
    /\ pc' = [pc EXCEPT ![b] = "asking"]
    /\ turns' = [turns EXCEPT ![b] = @ + 1]
    /\ overlap' = (overlap \/ \E other \in Branches \ {b} :
                                  pc[other] \in {"asking", "reading", "ended"})
    /\ BeforeModel
    /\ UNCHANGED <<service, history, answer, acc, got, spent, collected>>

\* ADK runs the tools a response asks for, one answer for each call, and then
\* the branch calls its model again; otherwise the response is its last.
Follow(b, response) ==
    LET ids == SetToSeq({call.id : call \in response.calls})
    IN  IF response.calls # {} /\ turns[b] < MaxTurns
        THEN /\ pc' = [pc EXCEPT ![b] = "idle"]
             /\ history' = [history EXCEPT ![b] = history[b] \o
                   <<Content("model", {"text"}, ids, <<>>),
                     Content("user", {}, <<>>, ids)>>]
        ELSE pc' = [pc EXCEPT ![b] = "over"] /\ UNCHANGED history

\* A call ends with a final response, an error, or nothing ...
Conclude(b, response) ==
    /\ pc' = [pc EXCEPT ![b] = "ended"]
    /\ got' = [got EXCEPT ![b] = response]
    /\ acc' = [acc EXCEPT ![b] = NoBuffers]
    /\ UNCHANGED <<service, history, turns, meta, spent, overlap, collected>>

\* ... that goes through the plugin to the run's events, where CollectFinalText
\* keeps a text.
Deliver(b) ==
    /\ pc[b] = "ended" /\ got[b].kind # "error"
    /\ AfterModel(got[b].usage)
    /\ collected' = [collected EXCEPT !.final = @ \/ got[b].text > 0]
    /\ Follow(b, got[b])
    /\ got' = [got EXCEPT ![b] = Nothing]
    /\ answer' = [answer EXCEPT ![b] = NoAnswer]
    /\ UNCHANGED <<service, acc, turns, overlap>>

\* Nobody reads the run's events any more: all calls end as they are.
Abandon ==
    /\ pc' = [b \in Branches |-> "over"]
    /\ answer' = [b \in Branches |-> NoAnswer]
    /\ acc' = [b \in Branches |-> NoBuffers]
    /\ got' = [b \in Branches |-> Nothing]
    /\ collected' = [collected EXCEPT !.broken = TRUE]
    /\ UNCHANGED <<service, history, turns, meta, spent, overlap>>

\* An error ends the collection, and with it the run.
DeliverError(b) ==
    /\ pc[b] = "ended" /\ got[b].kind = "error"
    /\ Abandon

\* The request fails, a stream breaks off, or an answer has no choice.
CallFails(b) ==
    /\ pc[b] \in {"asking", "reading"}
    /\ Conclude(b, Failed)
    /\ answer' = [answer EXCEPT ![b] = NoAnswer]

Answers ==
    [text : 0 .. 1, reason : {1}, deltas : {0}, finish : {TRUE},
     usage : 0 .. 1, json : BOOLEAN,
     calls : SeqOf([need : {0, ArgPieces}, sent : {0}], MaxCalls)]

\* generate: the answer in one document.
AnswerWhole(b) ==
    /\ pc[b] = "asking" /\ ~service.streams
    /\ \E a \in Answers :
          /\ a.json => a.text > 0
          /\ answer' = [answer EXCEPT ![b] = a]
          /\ Conclude(b, WholeResponse(a))

-----------------------------------------------------------------------------
\* generateStream.  An answer is what its readable chunks say: the loop passes
\* over a line whose JSON it cannot parse, which is no step here.

Open(b) ==
    /\ pc[b] = "asking" /\ service.streams
    /\ pc' = [pc EXCEPT ![b] = "reading"]
    /\ UNCHANGED <<service, history, answer, acc, got, turns, meta,
                   spent, overlap, collected>>

StreamUnchanged == UNCHANGED <<service, history, pc, got, turns, meta,
                               spent, overlap>>

\* The bound on deltas is on the answers of all branches together.
Room(b) ==
    /\ ~answer[b].finish
    /\ MapThenSumSet(LAMBDA other : answer[other].deltas, Branches) < MaxDeltas

\* A text delta is shown at once, as a partial response.
TextDelta(b) ==
    /\ pc[b] = "reading" /\ Room(b)
    /\ answer' = [answer EXCEPT ![b].text = @ + 1, ![b].deltas = @ + 1]
    /\ acc' = [acc EXCEPT ![b].text = @ + 1]
    /\ collected' = [collected EXCEPT !.partial = TRUE]
    /\ StreamUnchanged

ReasoningDelta(b) ==
    /\ pc[b] = "reading" /\ Room(b)
    /\ answer' = [answer EXCEPT ![b].reason = @ + 1, ![b].deltas = @ + 1]
    /\ acc' = [acc EXCEPT ![b].reason = @ + 1]
    /\ UNCHANGED collected /\ StreamUnchanged

\* The slot a tool-call delta goes to: by its index, or the first.
SlotOf(k) == IF service.indexes THEN k ELSE 1

Padded(slots, n) == [i \in 1 .. (IF Len(slots) < n THEN n ELSE Len(slots)) |->
                        IF i <= Len(slots) THEN slots[i] ELSE EmptySlot]

\* The delta that opens a tool call, with its identifier and its name; an
\* identifier replaces what the slot had, a name is appended to it.
CallDelta(b) ==
    /\ pc[b] = "reading" /\ Room(b) /\ Len(answer[b].calls) < MaxCalls
    /\ \E need \in {0, ArgPieces} :
          LET k     == Len(answer[b].calls) + 1
              slots == Padded(acc[b].slots, SlotOf(k))
              slot  == slots[SlotOf(k)]
              filled == [slot EXCEPT !.heads = @ \cup {k},
                                     !.id = IF IdOf(k) = NoId THEN slot.id ELSE IdOf(k)]
          IN  /\ answer' = [answer EXCEPT ![b].calls = Append(@, ToolCall(need, 0)),
                                          ![b].deltas = @ + 1]
              /\ acc' = [acc EXCEPT ![b].slots = [slots EXCEPT ![SlotOf(k)] = filled]]
    /\ UNCHANGED collected /\ StreamUnchanged

\* A delta with a piece of a call's arguments.
ArgumentDelta(b) ==
    /\ pc[b] = "reading" /\ Room(b)
    /\ \E k \in DOMAIN answer[b].calls :
          LET tc == answer[b].calls[k]
          IN  /\ tc.sent < tc.need
              /\ answer' = [answer EXCEPT ![b].calls[k] = ToolCall(tc.need, tc.sent + 1),
                                          ![b].deltas = @ + 1]
              /\ acc' = [acc EXCEPT ![b].slots[SlotOf(k)].args =
                                        Append(@, <<k, tc.sent + 1>>)]
    /\ UNCHANGED collected /\ StreamUnchanged

\* The last chunk, with the finish reason, with the usage or with both.
LastChunk(b) ==
    /\ pc[b] = "reading" /\ ~answer[b].finish
    /\ \E finish \in BOOLEAN, usage \in 0 .. 1 :
          /\ finish \/ usage > 0
          /\ answer' = [answer EXCEPT ![b] = [@ EXCEPT !.finish = TRUE]]
          /\ acc' = [acc EXCEPT ![b] = [@ EXCEPT !.finish = finish, !.usage = usage]]
    /\ UNCHANGED collected /\ StreamUnchanged

\* The stream ends, with [DONE] or because the connection was closed: what was
\* read is the response, finished or not.
StreamEnds(b) ==
    /\ pc[b] = "reading"
    /\ Conclude(b, IF IsSilent(acc[b]) THEN Nothing ELSE StreamResponse(acc[b]))
    /\ UNCHANGED answer

\* Whoever reads the run's events stops.
ConsumerStops == (\E b \in Branches : pc[b] # "over") /\ Abandon

ModelNext ==
    \/ \E b \in Branches :
          \/ Ask(b) \/ CallFails(b) \/ AnswerWhole(b) \/ Open(b)
          \/ TextDelta(b) \/ ReasoningDelta(b) \/ CallDelta(b) \/ ArgumentDelta(b)
          \/ LastChunk(b) \/ StreamEnds(b) \/ Deliver(b) \/ DeliverError(b)
    \/ ConsumerStops

ModelSpec == ModelInit /\ [][ModelNext]_modelVars

-----------------------------------------------------------------------------
\* A service that indexes its tool calls, or makes one only, gives each its
\* arguments, and was not understood to put them into the text.
Regular(a) ==
    /\ service.indexes \/ Len(a.calls) <= 1
    /\ \A k \in DOMAIN a.calls : a.calls[k].need > 0

WholeCalls(a) == {k \in DOMAIN a.calls : a.calls[k].sent = a.calls[k].need}

\* An answer read as a stream is the response its document would have been,
\* whatever the deltas were cut into and in which order the calls' deltas came;
\* a stream that was cut loses the calls it was cut in, and no other.
StreamAgrees ==
    \A b \in Branches :
       service.streams /\ got[b].kind = "final" /\ Regular(answer[b])
       => /\ got[b].text = answer[b].text /\ got[b].reason = answer[b].reason
          /\ got[b].calls = {[heads |-> {k}, id |-> IdOf(k)] : k \in WholeCalls(answer[b])}

\* In every request a tool message answers a tool call of the message before
\* it, when the service gives its calls identifiers (otherwise the client makes
\* up one for the call and another for the answer).
ToolIdsMatch ==
    \A b \in Branches :
       service.ids /\ pc[b] # "over" =>
          LET msgs == Messages(b)
          IN  \A i \in DOMAIN msgs : msgs[i].role = "tool" =>
                 \E j \in 1 .. i - 1 : /\ msgs[j].role = "assistant"
                                       /\ msgs[i].answers \in msgs[j].calls

\* RunText returns a text that some response had as a whole: after a run that
\* was not broken off, partial texts are never all there is.
TextNotLost ==
    /\ \A b \in Branches : pc[b] = "over"
    /\ ~collected.broken /\ collected.partial
    => collected.final

\* The tokens of a run are those of all its responses, unless two branches were
\* in model calls at once (each adds to what there was when it began).
UsageCounted == meta.total = spent \/ overlap
=============================================================================
