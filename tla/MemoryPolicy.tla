---------------------------- MODULE MemoryPolicy ----------------------------
(***************************************************************************)
(* Which session events reach long-term memory, and what a backend does    *)
(* with the batch it is given.                                             *)
(*                                                                         *)
(*   memory/long_term_memory_backends/auto_save_policy.go   the policy     *)
(*   memory/long_term_memory_backends/{redis,opensearch,mem0,viking}...    *)
(*                                                                         *)
(* A part of an event is the set of types inferPartEventTypes gives it (a  *)
(* nil part and an empty one have none).  An optional slice of a policy    *)
(* is a set of at most one set: {} is the nil slice, {S} the slice S.      *)
(***************************************************************************)
EXTENDS Naturals, Sequences, FiniteSets

Roles == {"user", "assistant", "system"}

TextTypes == {"text", "thought"}

(***************************************************************************)
(* Policies                                                                *)
(***************************************************************************)

BaseMemoryAutoSavePolicy(preset) ==
    CASE preset = "all" ->
            [roles |-> {Roles}, notRoles |-> {}, types |-> {}, notTypes |-> {},
             textOnly |-> FALSE, thought |-> TRUE, empty |-> TRUE]
      [] preset = "custom" ->
            [roles |-> {}, notRoles |-> {}, types |-> {}, notTypes |-> {},
             textOnly |-> TRUE, thought |-> FALSE, empty |-> FALSE]
      [] OTHER ->
            [roles |-> {{"user"}}, notRoles |-> {}, types |-> {{"text"}}, notTypes |-> {},
             textOnly |-> TRUE, thought |-> FALSE, empty |-> FALSE]

(* The caller's policy is {} (a nil pointer) or {p}; p's fields override   *)
(* those of its preset, and an empty preset means "custom".                *)
ResolveMemoryAutoSavePolicy(policy) ==
    IF policy = {}
    THEN BaseMemoryAutoSavePolicy("default")
    ELSE LET p    == CHOOSE q \in policy : TRUE
             base == BaseMemoryAutoSavePolicy(IF p.preset = "" THEN "custom" ELSE p.preset)
         IN  [roles    |-> IF p.roles # {} THEN p.roles ELSE base.roles,
              notRoles |-> IF p.notRoles # {} THEN p.notRoles ELSE base.notRoles,
              types    |-> IF p.types # {} THEN p.types ELSE base.types,
              notTypes |-> IF p.notTypes # {} THEN p.notTypes ELSE base.notTypes,
              textOnly |-> p.textOnly \/ base.textOnly,
              thought  |-> p.thought \/ base.thought,
              empty    |-> p.empty \/ base.empty]

(***************************************************************************)
(* Events: [author, role, parts, error], or one without content            *)
(***************************************************************************)

NormalizeMemoryRole(event) ==
    IF event.author = "user" \/ event.role = "user" THEN "user"
    ELSE IF event.role = "system" THEN "system" ELSE "assistant"

IsRoleAllowed(role, policy) ==
    /\ UNION policy.roles # {} => role \in UNION policy.roles
    /\ role \notin policy.notRoles

InferEventTypes(event) ==
    UNION {event.parts[i] : i \in DOMAIN event.parts}
        \cup (IF event.error THEN {"error"} ELSE {})

HasAllowedEventType(types, policy) ==
    LET left == types \ policy.notTypes
    IN  IF types = {}
        THEN policy.empty
        ELSE /\ left # {}
             /\ policy.types # {} => left \cap UNION policy.types # {}

HasAllowedPartType(types, policy) ==
    /\ types # {}
    /\ (policy.textOnly /\ policy.types = {}) => types \subseteq TextTypes
    /\ types \cap policy.notTypes = {}
    /\ policy.types # {} => types \cap UNION policy.types # {}

(* A part that is only a thought is dropped unless thoughts are included;  *)
(* one that is also something else keeps its text and loses the flag.      *)
FilterMemoryParts(parts, policy) ==
    SelectSeq(parts, LAMBDA types :
        /\ HasAllowedPartType(types, policy)
        /\ ~ (types = {"thought"} /\ ~ policy.thought))

(* convertEventToMemoryContent returns content, and not nil.               *)
IsRemembered(event, policy) ==
    /\ event.content
    /\ IsRoleAllowed(NormalizeMemoryRole(event), policy)
    /\ HasAllowedEventType(InferEventTypes(event), policy)
    /\ FilterMemoryParts(event.parts, policy) # <<>> \/ policy.empty

(***************************************************************************)
(* Backends: what SaveMemory(batch) may leave stored, and what it returns  *)
(***************************************************************************)

Backends == {"redis", "opensearch", "mem0", "viking"}

(* A save of the events at these positions of a session, for each backend. *)
Complete(events) == [stored |-> events, ok |-> TRUE]

(* An embedding that fails stores nothing; the pipeline may be cut         *)
(* anywhere, and its answer may be lost after it was applied.              *)
RedisSave(events) ==
    IF events = {} THEN {Complete(events)}
    ELSE {Complete(events)} \cup [stored : SUBSET events, ok : {FALSE}]

(* Only the HTTP status of the bulk response is looked at, so items that   *)
(* were refused one by one are taken for stored.                           *)
OpenSearchSave(events) ==
    IF events = {} THEN {Complete(events)} ELSE [stored : SUBSET events, ok : BOOLEAN]

(* Events are added one by one, up to the first error; an add whose answer *)
(* was lost has taken place.                                               *)
Mem0Save(events) ==
    {Complete(events)} \cup
        [stored : {{}} \cup {{p \in events : p <= k} : k \in events},
         ok     : IF events = {} THEN {TRUE} ELSE {FALSE}]

(* One request with all events, which is sent for no event too.            *)
VikingSave(events) ==
    {Complete(events)} \cup [stored : {{}, events}, ok : {FALSE}]

SaveOutcomes(backend, events) ==
    CASE backend = "redis"      -> RedisSave(events)
      [] backend = "opensearch" -> OpenSearchSave(events)
      [] backend = "mem0"       -> Mem0Save(events)
      [] backend = "viking"     -> VikingSave(events)

=============================================================================
