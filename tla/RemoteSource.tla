---------------------------- MODULE RemoteSource ----------------------------
(***************************************************************************)
(* The source of remote skills (skills/remote_source.go): one Discover or  *)
(* Download, with the signed requests (integrations/ve_sign) and the       *)
(* credentials that they are signed with (auth/veauth/credential_source).  *)
(* A source keeps nothing between calls, so that one call shows all it     *)
(* does.  SkillRegistry and SkillCache are its users.                      *)
(*                                                                         *)
(* External: the service and what its space holds, the object store, those *)
(* who change credentials, and the caller's context.                       *)
(***************************************************************************)
EXTENDS Integers, Sequences

CONSTANTS
    Spaces,         \* what the skill space may hold, sequences of Items
    ObjectSizes,    \* how large the archive of a skill may be
    MaxObject,      \* how large it may be to be downloaded
    MaxRotations,   \* bound: changes of credentials
    MaxUpdates      \* bound: changes of the skill space

ASSUME RemoteSourceAssumption ==
    /\ ObjectSizes \subseteq Nat /\ MaxObject \in Nat
    /\ MaxRotations \in Nat /\ MaxUpdates \in Nat

VARIABLES
    source,         \* the configuration of the RemoteSource
    environment,    \* the credential variables of the process
    file,           \* the mounted credential file
    rotations,      \* how often credentials have changed
    space,          \* what the skill space holds
    updates,        \* how often that has changed
    context,        \* "live", or "done": the caller or the time limit has ended it
    job,            \* the call that is under way
    witness         \* history: credentials in force since the last answer, and
                    \* what the space held since the call began

sourceVars == <<source, environment, file, rotations, space, updates, context, job, witness>>

(***************************************************************************)
(* Configuration                                                           *)
(***************************************************************************)

Holders == {"custom", "half", "pair", "ambient", "unknown"}

\* A skill space, an endpoint, a time limit and hosts for temporary URLs may be
\* bad or missing; attempts of 0 stand for the default.
Configs == [space : BOOLEAN, endpoint : BOOLEAN, attempts : 0 .. 4, limits : BOOLEAN,
            temporary : BOOLEAN, hosts : BOOLEAN, credentials : Holders]

NewRemoteSource(c) ==
    [attempts |-> IF c.attempts = 0 THEN 2 ELSE c.attempts,
     temporary |-> c.temporary, credentials |-> c.credentials]

Accepted(c) ==
    /\ c.space /\ c.endpoint /\ c.limits
    /\ NewRemoteSource(c).attempts \in 1 .. 3
    /\ c.temporary => c.hosts

Sources == {NewRemoteSource(c) : c \in {x \in Configs : Accepted(x)}}

(***************************************************************************)
(* Credentials                                                             *)
(***************************************************************************)

NoCredential == [from |-> "none", since |-> 0]
Credential(from, since) == [from |-> from, since |-> since]

\* Credential of the role source: explicit values, the environment, the file;
\* the first that has a part of a pair decides.
RoleCredential ==
    CASE source.credentials = "pair" -> Credential("explicit", 0)
      [] source.credentials \in {"half", "unknown"} -> NoCredential
      [] environment.is = "pair" -> Credential("environment", environment.since)
      [] environment.is = "half" -> NoCredential
      [] file.is = "pair" -> Credential("file", file.since)
      [] OTHER -> NoCredential

\* A source of somebody else may give anything, and not look at the context.
Resolutions ==
    IF source.credentials = "custom"
    THEN {NoCredential, Credential("custom", 0), Credential("blank", 0)}
    ELSE {IF context = "done" THEN NoCredential ELSE RoleCredential}

\* VeRequest.validate: what is signed has a key and a secret.
Signs(c) == c.from # "blank"

(***************************************************************************)
(* A call                                                                  *)
(***************************************************************************)

\* An item of a listing: its name, if its metadata is within the limits, and if
\* it says where the archive is.
Items == [name : {"a", "b"}, valid : BOOLEAN, located : BOOLEAN]

ASSUME SpacesAssumption == Spaces \subseteq Seq(Items)

Waiting == [pc |-> "idle", op |-> "none", credential |-> NoCredential, sent |-> <<>>,
            size |-> 0, written |-> 0, result |-> "none", listing |-> <<>>, counted |-> FALSE]

SourceInit ==
    /\ source \in Sources
    /\ environment \in [is : {"none", "half", "pair"}, since : {0}]
    /\ file \in [is : {"none", "half", "pair"}, since : {0}]
    /\ rotations = 0
    /\ space \in Spaces
    /\ updates = 0
    /\ context = "live"
    /\ job = Waiting
    /\ witness = [inForce |-> {RoleCredential}, spaces |-> {space}]

\* Changes of credentials and of the space; those before the call make other
\* initial states.
Called == job.pc \notin {"idle", "returned"}

Rotate ==
    /\ Called /\ rotations < MaxRotations
    /\ rotations' = rotations + 1
    /\ UNCHANGED <<source, space, updates, context, job>>
    /\ \/ /\ \E is \in {"none", "half", "pair"} :
                environment' = [is |-> is, since |-> rotations + 1]
          /\ UNCHANGED file
       \/ /\ \E is \in {"none", "half", "pair"} : file' = [is |-> is, since |-> rotations + 1]
          /\ UNCHANGED environment
    /\ witness' = [witness EXCEPT !.inForce = @ \cup {RoleCredential'}]

Update ==
    /\ Called /\ job.op = "list" /\ updates < MaxUpdates
    /\ updates' = updates + 1
    /\ space' \in Spaces
    /\ witness' = [witness EXCEPT !.spaces = @ \cup {space'}]
    /\ UNCHANGED <<source, environment, file, rotations, context, job>>

ContextEnds ==
    /\ Called /\ context = "live"
    /\ context' = "done"
    /\ UNCHANGED <<source, environment, file, rotations, space, updates, job, witness>>

Around == <<source, environment, file, rotations, space, updates, context>>

On(pc) == job.pc = pc
Goes(pc) == job' = [job EXCEPT !.pc = pc]
Fail == job' = [job EXCEPT !.pc = "returned", !.result = "error"]

Discover ==
    /\ On("idle")
    /\ job' = [job EXCEPT !.pc = "credential", !.op = "list"]
    /\ UNCHANGED <<Around, witness>>

\* Download: of a descriptor that is out of bounds there is none, nor a temporary
\* URL without the version that its object key should have.
Download ==
    /\ On("idle")
    /\ \/ \E size \in ObjectSizes :
             job' = [job EXCEPT !.pc = "credential", !.size = size,
                                !.op = IF source.temporary THEN "url" ELSE "object"]
       \/ Fail
    /\ UNCHANGED <<Around, witness>>

\* The credential of this attempt, and the signature.
ResolveCredential ==
    /\ On("credential")
    /\ \E c \in Resolutions :
          IF c = NoCredential \/ (job.op # "object" /\ ~ Signs(c))
          THEN Fail
          ELSE job' = [job EXCEPT !.credential = c,
                                  !.pc = IF job.op = "object" THEN "get" ELSE "send"]
    /\ UNCHANGED <<Around, witness>>

Fresh(c) == c.from = "custom" \/ c \in witness.inForce

\* The request goes out, if the context has not ended.
Send ==
    /\ On("send")
    /\ IF context = "done" THEN Fail
       ELSE job' = [job EXCEPT !.pc = "wait",
                    !.sent = Append(@, [fresh |-> Fresh(job.credential), status |-> "none"])]
    /\ UNCHANGED <<Around, witness>>

Statuses == {"ok", "transient", "refused"}

\* requestOnce without an answer: no connection, an ended context, a body that
\* breaks off or is too large.  That is never tried again.
RequestFails ==
    /\ On("wait")
    /\ Fail
    /\ UNCHANGED <<Around, witness>>

HasAnswer ==
    /\ On("wait") /\ context = "live"
    /\ witness' = [witness EXCEPT !.inForce = {RoleCredential}]
    /\ UNCHANGED Around

\* The requests, the last one with its answer.
Answered(status) ==
    [job.sent EXCEPT ![Len(job.sent)] = [fresh |-> job.sent[Len(job.sent)].fresh,
                                         status |-> status]]

\* The answer ends the call with an error.
FailWith(status) ==
    job' = [job EXCEPT !.sent = Answered(status), !.pc = "returned", !.result = "error"]

\* 429, 500, 502, 503 and 504, as long as there are attempts left.
Transient ==
    /\ HasAnswer
    /\ IF Len(job.sent) < source.attempts
       THEN job' = [job EXCEPT !.sent = Answered("transient"), !.pc = "backoff"]
       ELSE FailWith("transient")

Rejected ==
    /\ HasAnswer
    /\ FailWith("refused")

\* Mutant of Backoff: the next attempt is made with the credential of the last.
BackoffOnly ==
    /\ On("backoff")
    /\ \/ Goes("send")
       \/ context = "done" /\ Fail
    /\ UNCHANGED <<Around, witness>>

Backoff ==
    /\ On("backoff")
    /\ \/ Goes("credential")
       \/ context = "done" /\ Fail
    /\ UNCHANGED <<Around, witness>>

\* What Discover accepts: the listing is whole as far as the service has said
\* how long it is, and every item can be downloaded and told from the others.
Usable(items) ==
    /\ \A i \in DOMAIN items : items[i].valid /\ items[i].located
    /\ \A i, j \in DOMAIN items : items[i].name = items[j].name => i = j

\* The service answers with its space, or a part of it; with a count of the
\* items or not; or with something that is no listing.
Listed ==
    /\ job.op = "list"
    /\ HasAnswer
    /\ \/ \E n \in 0 .. Len(space), counted \in BOOLEAN :
             LET items == SubSeq(space, 1, n)
             IN  IF (counted /\ Len(space) # n) \/ ~ Usable(items)
                 THEN FailWith("ok")
                 ELSE job' = [job EXCEPT !.sent = Answered("ok"), !.pc = "returned",
                                         !.result = "listing", !.listing = items,
                                         !.counted = counted]
       \/ FailWith("ok")

\* A temporary URL; only an allowed HTTPS host is asked.
UrlGiven ==
    /\ job.op = "url"
    /\ HasAnswer
    /\ \/ job' = [job EXCEPT !.sent = Answered("ok"), !.pc = "get"]
       \/ FailWith("ok")

\* The archive itself is asked for once.
GetObject ==
    /\ On("get")
    /\ \/ context = "live" /\ job.credential.from # "blank" /\ Goes("copy")
       \/ Fail
    /\ UNCHANGED <<Around, witness>>

\* Mutant of Copy: an archive that breaks off is taken for a whole one.
CopyBroken ==
    /\ On("copy")
    /\ \/ /\ context = "live" /\ job.written < job.size /\ job.written < MaxObject
          /\ job' = [job EXCEPT !.written = @ + 1]
       \/ job' = [job EXCEPT !.pc = "returned", !.result = "archive"]
    /\ UNCHANGED <<Around, witness>>

\* io.Copy: a unit of the archive, its end, or an error of one side; what does
\* not fit is not written.
Copy ==
    /\ On("copy")
    /\ \/ /\ context = "live" /\ job.written < job.size /\ job.written < MaxObject
          /\ job' = [job EXCEPT !.written = @ + 1]
       \/ /\ context = "live" /\ job.written = job.size
          /\ job' = [job EXCEPT !.pc = "returned", !.result = "archive"]
       \/ Fail
    /\ UNCHANGED <<Around, witness>>

SourceNext ==
    \/ Discover \/ Download \/ ResolveCredential \/ Send
    \/ RequestFails \/ Transient \/ Rejected \/ Backoff
    \/ Listed \/ UrlGiven \/ GetObject \/ Copy
    \/ Rotate \/ Update \/ ContextEnds

SourceSpec == SourceInit /\ [][SourceNext]_sourceVars

(***************************************************************************)
(* Properties                                                              *)
(***************************************************************************)

\* A request is repeated only when the answer was a transient one, as often as
\* the configuration allows, and never with a credential that had been replaced
\* before that answer came (RemoteSource.request, requestOnce).
RetryIsFresh ==
    /\ Len(job.sent) <= source.attempts
    /\ \A i \in DOMAIN job.sent :
          /\ job.sent[i].fresh
          /\ i < Len(job.sent) => job.sent[i].status = "transient"

\* What is returned without an error is whole: a listing is one that the space
\* held during the call, unless the service gave a part of it and no count; an
\* archive has all of its bytes, and no more than the limit.
AnswersWhole ==
    /\ job.result = "listing" =>
          /\ Usable(job.listing)
          /\ \E held \in witness.spaces, n \in 0 .. Len(job.listing) :
                /\ n <= Len(held) /\ job.listing = SubSeq(held, 1, n)
                /\ job.counted => n = Len(held)
    /\ job.result = "archive" => job.written = job.size /\ job.size <= MaxObject
=============================================================================
