---------------------------- MODULE MCAgentHost -----------------------------
(* Instances of AgentHost for TLC: one application per element of Configs.  *)
EXTENDS AgentHost, TLC

\* A user's text, a model's text and tool call: the default policy keeps the
\* first of them only.
Says(author, types) ==
    [author |-> author, role |-> "model", parts |-> <<types>>, error |-> FALSE,
     content |-> TRUE]
SomeContents == {Says("user", {"text"}), Says("agent", {"function_call"})}

SomePolicies == {{}}

\* A traced request, one that is not sampled, and one without a span.
SomeContexts ==
    {[trace |-> t, sampled |-> b] : t \in Traces, b \in BOOLEAN}
        \cup {[trace |-> NoTrace, sampled |-> TRUE]}

App(backend, observability, requests, contexts, contents, calls, kinds) ==
    [autoSave |-> backend # "none", memory |-> TRUE, observability |-> observability,
     plugins |-> <<>>, backend |-> IF backend = "none" THEN "redis" ELSE backend,
     policy |-> {}, requests |-> requests, contexts |-> contexts, contents |-> contents,
     calls |-> calls, kinds |-> kinds, detach |-> backend # "none"]

Untraced == {[trace |-> NoTrace, sampled |-> TRUE]}
Traced == {[trace |-> t, sampled |-> TRUE] : t \in Traces}

\* Auto-save over every backend; observability, of agent spans and of tool
\* spans; both, with one request; and auto-save without a memory.
SomeConfigs ==
    {App(b, FALSE, Runs, Untraced, SomeContents, {}, {}) : b \in Backends}
        \cup {App("none", TRUE, Runs, SomeContexts, {}, {}, {"agent"}),
              App("none", TRUE, Runs, Untraced \cup Traced, {}, CallIDs, {"tool"})}
        \cup {App("redis", TRUE, {r}, Untraced \cup Traced, SomeContents, {c}, Kinds) :
                 r \in Runs, c \in CallIDs}
        \cup {[App("redis", TRUE, {}, Untraced, {}, {}, {}) EXCEPT !.memory = FALSE]}

HostSymmetry == Permutations(Runs) \cup Permutations(CallIDs)
=============================================================================
