---- MODULE MCToolCalls ----
(***************************************************************************)
(* The tools that work through remote services.  A behaviour is one call   *)
(* of a generation tool, the calls of the sandbox tools in two runs of a   *)
(* session, the uses of one knowledge base, or the calls of the skill      *)
(* tools: the kinds share no state, so their behaviours are added and not  *)
(* multiplied.                                                             *)
(***************************************************************************)
EXTENDS FanOut, AgentkitSkills, Knowledge, SkillFiles

CONSTANTS c1, c2, dog, cat, blank

MCCallers == {c1, c2}

\* Of the files, two have one name in different directories.
MCDocuments == {dog, cat, blank}
MCLists == {<<cat, dog>>, <<blank, dog>>}
MCFileKey == dog :> "a" @@ cat :> "a" @@ blank :> "b"
MCQueries == {dog :> 1 @@ cat :> 2 @@ blank :> 0}

\* Toolsets that differ in what they answer.
Toolset(origin, scripts, executor, held) ==
    [origin |-> origin, scripts |-> scripts, executor |-> executor, held |-> held]
MCOffered ==
    {Toolset("registry", FALSE, "none", {}), Toolset("discovered", TRUE, "code", {}),
     Toolset("loaded", TRUE, "none", {"script"}), Toolset("loaded", TRUE, "code", {"script"}),
     Toolset("loaded", TRUE, "runtime", {}), Toolset("memory", TRUE, "code", {}),
     Toolset("memory", FALSE, "none", {"resource"})}

\* A generation call that has returned, sandbox calls that are used up, a
\* knowledge base and a skill that nobody uses.
NoGeneration ==
    /\ tool = "edit" /\ batch = 10 /\ main = "returned" /\ next = 1
    /\ phase = [i \in Items |-> "done"]
    /\ todo = [i \in Items |-> <<>>] /\ offer = [i \in Items |-> NoOffer]
    /\ reply = [i \in Items |-> {}] /\ wg = 0 /\ chan = "closed"
    /\ uploader = "unset" /\ video = [i \in Items |-> "running"]
    /\ ctx = "live" /\ result = EmptyBag /\ crashed = FALSE

NoSandbox ==
    /\ boxes = <<>> /\ homes = {} /\ ncalls = MaxSkillCalls
    /\ call = [c \in Callers |-> NoCall]

NoKnowledge ==
    /\ base = [kind |-> "local", embedder |-> FALSE] /\ index = FALSE /\ entries = <<>>
    /\ bucket = FALSE /\ objects = <<>> /\ registered = {} /\ millis = 0
    /\ uses = MaxUses /\ use = [u \in Users |-> NoUse] /\ kept = {} /\ excused = Nothing

NoSkills ==
    /\ toolset = Toolset("memory", FALSE, "none", {}) /\ files = <<>> /\ path = NoFile
    /\ clock = 0 /\ edits = 0 /\ tcalls = MaxToolCalls /\ reader = Idle /\ seen = Unseen

ToolCallsInit ==
    \/ ToolInit /\ NoSandbox /\ NoKnowledge /\ NoSkills
    \/ NoGeneration /\ SkillsIdle /\ NoKnowledge /\ NoSkills
    \/ NoGeneration /\ NoSandbox /\ BaseInit /\ NoSkills
    \/ NoGeneration /\ NoSandbox /\ NoKnowledge /\ FilesInit

ToolCallsNext ==
    \/ ToolNext /\ UNCHANGED <<skillVars, baseVars, fileVars>>
    \/ SkillsNext /\ UNCHANGED <<toolVars, baseVars, fileVars>>
    \/ BaseNext /\ UNCHANGED <<toolVars, skillVars, fileVars>>
    \/ FilesNext /\ UNCHANGED <<toolVars, skillVars, baseVars>>

ToolCallsSpec ==
    /\ ToolCallsInit /\ [][ToolCallsNext]_<<toolVars, skillVars, baseVars, fileVars>>
    /\ ToolFairness /\ SkillsFairness
====
