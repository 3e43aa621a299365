----------------------------- MODULE SkillFiles -----------------------------
(***************************************************************************)
(* Skills in directories: how they are found (skills/discovery.go), how a  *)
(* file of one is read while somebody edits it (skills/resource.go), and   *)
(* the tools that answer from them (tool/skilltool/skill_toolset.go and    *)
(* registry_toolset.go).                                                   *)
(*                                                                         *)
(* A file is a sequence of chunks, each the number of the edit that wrote  *)
(* it; a chunk is what one Read returns.  Calls of these tools share       *)
(* nothing, so that one call at a time shows all they do.                  *)
(*                                                                         *)
(* External: the file system, those who edit the files, the registry's     *)
(* snapshot (module SkillRegistry) and what executes scripts.              *)
(***************************************************************************)
EXTENDS Integers, Sequences

CONSTANTS
    MaxChunks,      \* the size limit of a resource
    MaxEdits,       \* bound: edits of a behaviour
    MaxTime,        \* bound: ticks of the file system's clock
    MaxToolCalls,   \* bound: tool calls of a behaviour
    Offered         \* the toolsets that behaviours start from

ASSUME SkillFilesAssumption ==
    MaxChunks \in Nat /\ MaxEdits \in Nat /\ MaxTime \in Nat /\ MaxToolCalls \in Nat

VARIABLES
    toolset,    \* what the toolset was made from
    files,      \* the files there have been: chunks, mtime, regular or not
    path,       \* the file that the resource's path leads to, 0 for none
    clock,      \* the time that a write stamps a file with
    edits,      \* how many edits there were
    tcalls,     \* how many tool calls there were
    reader,     \* the tool call that is under way
    seen        \* history: what the file that it reads has contained since it was
                \* opened, and if there was no file since the call began

fileVars == <<toolset, files, path, clock, edits, tcalls, reader, seen>>

(***************************************************************************)
(* Discovery                                                               *)
(***************************************************************************)

\* An entry of the skills directory.
ChildEntries == [type : {"directory", "symlink", "file"},
           document : {"SKILL.md", "skill.md", "none", "special"},
           text : {"valid", "invalid", "large", "misnamed"}]

\* parseSkillRoot: the old file name is only for a skill that is asked for by
\* its directory.
Parses(e, legacy) ==
    /\ e.document = "SKILL.md" \/ (legacy /\ e.document = "skill.md")
    /\ e.text \in {"valid", "misnamed"}

\* The name that a skill declares is that of its directory.
IsSkill(e, legacy) == Parses(e, legacy) /\ e.text = "valid"

\* Directories of the same name there are none, so that no skill comes twice.
Discover(children, strict) ==
    LET directories == {n \in DOMAIN children : children[n].type = "directory"}
        found == {n \in directories : IsSkill(children[n], FALSE)}
    IN  [found |-> found, failed |-> strict /\ found # directories]

\* LoadSkillFromDir reads the resources too, those that are text.
LoadSkillFromDir(e) == e.type # "file" /\ IsSkill(e, TRUE)

(***************************************************************************)
(* Toolsets                                                                *)
(***************************************************************************)

\* Where the toolset's skill comes from.  A discovered one has no resources in
\* memory, one made by hand no directory.
Origins ==
    {"discovered" : e \in {x \in ChildEntries : Discover([n \in {"skill"} |-> x], FALSE).found # {}}} \cup
    {"loaded" : e \in {x \in ChildEntries : LoadSkillFromDir(x)}} \cup
    {"memory", "registry"}

\* The script tool is left out of read-only toolsets and of those of a registry;
\* held is what the skill has in memory.
Toolsets ==
    {t \in [origin : Origins, scripts : BOOLEAN, executor : {"none", "code", "runtime"},
            held : SUBSET {"resource", "script"}] :
        /\ t.origin \in {"discovered", "registry"} => t.held = {}
        /\ t.origin = "registry" => ~ t.scripts
        /\ ~ t.scripts => t.executor = "none"}

Idle == [pc |-> "idle"]
Unseen == [contents |-> {}, missing |-> FALSE, coarse |-> FALSE]
NoFile == 0

FilesInit ==
    /\ toolset \in Offered \cap Toolsets
    /\ files = <<[chunks |-> <<0, 0>>, mtime |-> 0, regular |-> TRUE]>>
    /\ path \in {NoFile, 1}
    /\ clock = 0 /\ edits = 0 /\ tcalls = 0
    /\ reader = Idle
    /\ seen = Unseen

(***************************************************************************)
(* Those who edit the files                                                *)
(***************************************************************************)

Reading == reader.pc \in {"stat", "open", "opened", "read", "end"}
IsOpen(f) == reader.pc \in {"opened", "read", "end"} /\ reader.file = f

\* File f has the contents c from now on.
Edited(f, c) ==
    /\ files' = [files EXCEPT ![f] = [chunks |-> c, mtime |-> clock, regular |-> TRUE]]
    /\ seen' = IF IsOpen(f)
               THEN [seen EXCEPT !.contents = @ \cup {c},
                                 !.coarse = @ \/ (reader.pc # "opened" /\ clock = reader.mtime)]
               ELSE seen
    /\ UNCHANGED path

\* A chunk is overwritten or appended, or the file is truncated.
Edit(f) ==
    /\ files[f].regular
    /\ \/ \E i \in 1 .. Len(files[f].chunks) :
             Edited(f, [files[f].chunks EXCEPT ![i] = edits + 1])
       \/ Len(files[f].chunks) <= MaxChunks
          /\ Edited(f, Append(files[f].chunks, edits + 1))
       \/ files[f].chunks # <<>> /\ Edited(f, <<>>)

\* Another file, or something that is none, is moved to the path.
Replace ==
    /\ \E isFile \in BOOLEAN :
          files' = Append(files, [chunks |-> <<edits + 1, edits + 1>>, mtime |-> clock,
                                  regular |-> isFile])
    /\ path' = Len(files')
    /\ UNCHANGED seen

Unlink ==
    /\ path' = NoFile
    /\ seen' = [seen EXCEPT !.missing = @ \/ Reading]
    /\ UNCHANGED files

\* Edits that come between calls make other initial files, no other answers.
Disturb ==
    /\ Reading /\ edits < MaxEdits
    /\ edits' = edits + 1
    /\ Replace \/ Unlink \/ \E f \in DOMAIN files : Edit(f)
    /\ UNCHANGED <<toolset, clock, tcalls, reader>>

Tick ==
    /\ Reading /\ clock < MaxTime
    /\ clock' = clock + 1
    /\ UNCHANGED <<toolset, files, path, edits, tcalls, reader, seen>>

(***************************************************************************)
(* Tool calls                                                              *)
(***************************************************************************)

World == <<toolset, files, path, clock, edits>>

Becomes(r) == reader' = r

\* The call answers with a code, or with "ok".
Answer(code) == Becomes([reader EXCEPT !.pc = "answered", !.code = code])

\* resolve of a RegistrySkillToolset: the snapshot gives the skill or fails.
Resolve(name) ==
    IF toolset.origin = "registry"
    THEN (IF name = "known" THEN {"ok"} ELSE {}) \cup {"SKILL_LOAD_FAILED", "SKILL_LOAD_CANCELED"}
    ELSE {"ok"}

\* What a call is refused for before it reads or executes anything.
Refusal(call) ==
    CASE call.name = "" -> "MISSING_SKILL_NAME"
      [] call.tool = "load_skill_resource" /\ call.path = "" -> "MISSING_RESOURCE_PATH"
      [] call.tool = "run_skill_script" /\ call.path = "" -> "MISSING_SCRIPT_PATH"
      [] call.name # "known" -> "SKILL_NOT_FOUND"
      [] OTHER -> "ok"

\* readInMemoryResource; a path is loose if it is not below references, assets
\* or scripts.
ReadInMemory(call) ==
    CASE call.path \in {"outside", "loose"} -> "INVALID_RESOURCE_PATH"
      [] "resource" \notin toolset.held -> "RESOURCE_NOT_FOUND"
      [] OTHER -> "ok"

\* runSkillScriptToolHandler; a local runtime answers by itself.
RunScript ==
    CASE toolset.executor = "runtime" -> {"ok", "EXECUTION_ERROR"}
      [] toolset.origin = "discovered" -> {"SCRIPT_NOT_LOADED"}
      [] "script" \notin toolset.held -> {"SCRIPT_NOT_FOUND"}
      [] toolset.executor = "none" -> {"NO_CODE_EXECUTOR"}
      [] OTHER -> {"ok", "EXECUTION_ERROR"}

ToolNames == {"load_skill", "load_skill_resource"} \cup
             (IF toolset.scripts THEN {"run_skill_script"} ELSE {})

CallTool ==
    /\ reader.pc = "idle" /\ tcalls < MaxToolCalls
    /\ tcalls' = tcalls + 1
    /\ seen' = [Unseen EXCEPT !.missing = (path = NoFile)]
    /\ \E call \in [tool : ToolNames, name : {"", "known", "unknown"},
                    path : {"", "outside", "loose", "resource"}] :
       \E found \in Resolve(call.name) :
          LET begun == [pc |-> "answered", code |-> "ok", tool |-> call.tool, since |-> edits,
                        file |-> NoFile, size |-> 0, mtime |-> 0, data |-> <<>>]
              refusal == IF found = "ok" THEN Refusal(call) ELSE found
          IN  \/ refusal # "ok" /\ Becomes([begun EXCEPT !.code = refusal])
              \/ /\ refusal = "ok" /\ call.tool = "load_skill"
                 /\ Becomes(begun)
              \/ /\ refusal = "ok" /\ call.tool = "run_skill_script"
                 /\ \E code \in RunScript : Becomes([begun EXCEPT !.code = code])
              \/ /\ refusal = "ok" /\ call.tool = "load_skill_resource"
                 /\ toolset.origin = "memory"
                 /\ Becomes([begun EXCEPT !.code = ReadInMemory(call)])
              \/ /\ refusal = "ok" /\ call.tool = "load_skill_resource"
                 /\ toolset.origin # "memory"
                 /\ Becomes(IF call.path = "outside"
                            THEN [begun EXCEPT !.code = "INVALID_RESOURCE_PATH"]
                            ELSE [begun EXCEPT !.pc = "stat"])
    /\ UNCHANGED World

\* root.Stat of the path; before it links are resolved, which may fail.
StatPath ==
    /\ reader.pc = "stat"
    /\ \/ path = NoFile /\ Answer("RESOURCE_NOT_FOUND")
       \/ Answer("RESOURCE_READ_ERROR")
       \/ path # NoFile /\ ~ files[path].regular /\ Answer("INVALID_RESOURCE_TYPE")
       \/ /\ path # NoFile /\ files[path].regular
          /\ IF Len(files[path].chunks) > MaxChunks
             THEN Answer("RESOURCE_TOO_LARGE")
             ELSE Becomes([reader EXCEPT !.pc = "open", !.file = path])
    /\ UNCHANGED <<World, tcalls, seen>>

\* root.Open and the comparison with SameFile, which knows a file by its inode.
OpenPath ==
    /\ reader.pc = "open"
    /\ \/ path = NoFile /\ Answer("RESOURCE_NOT_FOUND") /\ UNCHANGED seen
       \/ /\ path # NoFile
          /\ CASE ~ files[path].regular -> Answer("INVALID_RESOURCE_TYPE") /\ UNCHANGED seen
               [] path # reader.file -> Answer("RESOURCE_CHANGED") /\ UNCHANGED seen
               [] OTHER -> /\ Becomes([reader EXCEPT !.pc = "opened"])
                           /\ seen' = [seen EXCEPT !.contents = {files[path].chunks}]
    /\ UNCHANGED <<World, tcalls>>

\* file.Stat after the open.
StatOpened ==
    /\ reader.pc = "opened"
    /\ Becomes([reader EXCEPT !.pc = "read", !.size = Len(files[reader.file].chunks),
                              !.mtime = files[reader.file].mtime])
    /\ UNCHANGED <<World, tcalls, seen>>

\* One Read of readBoundedContext, of at most one byte more than the limit.
ReadChunk ==
    LET next == Len(reader.data) + 1
        chunks == files[reader.file].chunks
    IN  /\ reader.pc = "read"
        /\ IF next > Len(chunks) THEN Becomes([reader EXCEPT !.pc = "end"])
           ELSE IF next > MaxChunks THEN Answer("RESOURCE_TOO_LARGE")
           ELSE Becomes([reader EXCEPT !.data = Append(@, chunks[next])])
        /\ UNCHANGED <<World, tcalls, seen>>

\* Mutant of StatRead: only the size is compared.
StatReadSize ==
    /\ reader.pc = "end"
    /\ Answer(IF Len(files[reader.file].chunks) # reader.size
              THEN "RESOURCE_CHANGED" ELSE "ok")
    /\ UNCHANGED <<World, tcalls, seen>>

\* file.Stat after the read, compared with the one before it.
StatRead ==
    /\ reader.pc = "end"
    /\ Answer(IF \/ Len(files[reader.file].chunks) # reader.size
                 \/ files[reader.file].mtime # reader.mtime
              THEN "RESOURCE_CHANGED" ELSE "ok")
    /\ UNCHANGED <<World, tcalls, seen>>

\* Opening, asking for the size or reading fails, as Stat may (StatPath).
ReadFails ==
    /\ reader.pc \in {"open", "opened", "read", "end"}
    /\ Answer("RESOURCE_READ_ERROR")
    /\ UNCHANGED <<World, tcalls, seen>>

\* The context is looked at before every Read.
CancelRead ==
    /\ reader.pc = "read"
    /\ Answer("RESOURCE_READ_CANCELED")
    /\ UNCHANGED <<World, tcalls, seen>>

CallEnds ==
    /\ reader.pc = "answered"
    /\ Becomes(Idle)
    /\ seen' = Unseen
    /\ UNCHANGED <<World, tcalls>>

FilesNext ==
    \/ Disturb \/ Tick
    \/ CallTool \/ StatPath \/ OpenPath \/ StatOpened \/ ReadChunk \/ StatRead
    \/ ReadFails \/ CancelRead \/ CallEnds

FilesSpec == FilesInit /\ [][FilesNext]_fileVars

(***************************************************************************)
(* Properties                                                              *)
(***************************************************************************)

\* The answers of load_skill_resource agree with the disk.  What is returned was
\* the whole file at one moment of the call, unless it was written within the
\* clock tick of its last change before the read; a file is called changed, or
\* missing, only if it was so since the call began.
ResourceAnswers ==
    (reader.pc = "answered" /\ reader.file # NoFile) =>
        /\ reader.code = "ok" => reader.data \in seen.contents \/ seen.coarse
        /\ reader.code = "RESOURCE_CHANGED" => edits > reader.since
        /\ reader.code = "RESOURCE_NOT_FOUND" => seen.missing
=============================================================================
