---------------------------- MODULE AgentkitSkills ----------------------------
(***************************************************************************)
(* execute_skills, invoke_skill and poll_skill                             *)
(* (tool/builtin_tools/agentkit_skills.go): tool calls of one ADK session  *)
(* that hand a workflow to an AgentKit Skills Sandbox over A2A.            *)
(*                                                                         *)
(* Every call first finds the sandbox of the session: it lists, takes the  *)
(* newest that is not ending, or creates one, and waits until it is ready. *)
(* No state is kept between the calls, so calls that overlap, a listing    *)
(* that fails and a sandbox that ends show in what the next call finds.    *)
(*                                                                         *)
(* Time is the flag late: a deadline that has passed.  A gateway error     *)
(* (502, 503, 504) makes the same request be posted again and leaves this  *)
(* state alone.  External: the AgentKit service (boxes) and the A2A        *)
(* servers in the sandboxes, of whose tasks only the place is kept.        *)
(***************************************************************************)
EXTENDS Integers, Sequences, FiniteSets, FiniteSetsExt

CONSTANTS Callers,      \* runs of the session that may call the tools at once
          MaxSkillCalls \* bound: calls altogether, and so sandboxes

ASSUME SkillsAssumption == MaxSkillCalls \in Nat

VARIABLES
    boxes,     \* sandboxes, in the order of their CreatedAt
    homes,     \* the sandboxes with a task whose ID a call has returned
    call,      \* per caller: the tool call it is in
    ncalls     \* calls made so far

skillVars == <<boxes, homes, call, ncalls>>


\* home is the sandbox of the task a poll is about.  since and listed are
\* history: how many sandboxes there were when the call's listing was answered
\* or failed, and whether it was answered.
NoCall == [op |-> "none", pc |-> "idle", box |-> 0, home |-> 0, late |-> FALSE,
           since |-> 0, listed |-> FALSE]

SkillsIdle ==
    /\ boxes = <<>> /\ homes = {} /\ ncalls = 0
    /\ call = [c \in Callers |-> NoCall]

-----------------------------------------------------------------------------
\* A tool call; poll_skill is given the ID of a task that a call returned.
StartCall(c, op, home) ==
    /\ call[c].pc = "idle" /\ ncalls < MaxSkillCalls
    /\ ncalls' = ncalls + 1
    /\ call' = [call EXCEPT ![c] = [NoCall EXCEPT !.op = op, !.pc = "listing",
                                                  !.home = home]]
    /\ UNCHANGED <<boxes, homes>>

Execute(c) == StartCall(c, "execute", 0)
Invoke(c)  == StartCall(c, "invoke", 0)
Poll(c)    == \E home \in homes : StartCall(c, "poll", home)

\* A call returns, with its result or with an error.
Returned(c) == call' = [call EXCEPT ![c] = NoCall]

\* The endpoint is there: message/send or tasks/get is next, with a deadline
\* of its own.
Contact(c, b) ==
    call' = [call EXCEPT ![c].pc = IF call[c].op = "poll" THEN "fetching" ELSE "sending",
                         ![c].box = b, ![c].late = FALSE,
                         ![c].since = 0, ![c].listed = FALSE]

\* A session found or made: its endpoint is used when it is ready already.
Found(c, b, status) ==
    IF status = "ready" THEN Contact(c, b)
    ELSE call' = [call EXCEPT ![c].pc = "readying", ![c].box = b, ![c].late = FALSE,
                              ![c].since = 0, ![c].listed = FALSE]

-----------------------------------------------------------------------------
\* Mutant of Reusable: a sandbox that is still being created is passed over.
ReusableReadyOnly == {b \in DOMAIN boxes : boxes[b].status = "ready"}

\* The listed sessions that are not ending.
Reusable == {b \in DOMAIN boxes : boxes[b].status # "terminated"}

\* The one with the greatest CreatedAt.
Best == Max(Reusable)

\* ListSessions is answered: the newest live session, or one has to be made.
SessionsListed(c) ==
    /\ call[c].pc = "listing"
    /\ IF Reusable = {}
       THEN call' = [call EXCEPT ![c].pc = "creating", ![c].listed = TRUE,
                                 ![c].since = Len(boxes)]
       ELSE Found(c, Best, boxes[Best].status)
    /\ UNCHANGED <<boxes, homes, ncalls>>

\* ensureAgentkitSessionEndpoint drops the listing's error.
ListingFails(c) ==
    /\ call[c].pc = "listing"
    /\ call' = [call EXCEPT ![c].pc = "creating", ![c].since = Len(boxes)]
    /\ UNCHANGED <<boxes, homes, ncalls>>

\* CreateSession is answered with a session, ready or not; or the session is
\* made and the answer lost.
SessionMade(c, status) ==
    boxes' = Append(boxes, [status |-> status, since |-> call[c].since,
                            listed |-> call[c].listed])

SessionCreated(c) ==
    /\ call[c].pc = "creating"
    /\ \E status \in {"creating", "ready"} :
          /\ SessionMade(c, status)
          /\ Found(c, Len(boxes) + 1, status)
    /\ UNCHANGED <<homes, ncalls>>

CreatedUnheard(c) ==
    /\ call[c].pc = "creating"
    /\ SessionMade(c, "creating")
    /\ Returned(c)
    /\ UNCHANGED <<homes, ncalls>>

\* GetSession, once a second: ready, over, or asked again.
SessionReady(c) ==
    /\ call[c].pc = "readying"
    /\ CASE boxes[call[c].box].status = "ready"      -> Contact(c, call[c].box)
         [] boxes[call[c].box].status = "terminated" -> Returned(c)
         [] OTHER                                    -> FALSE
    /\ UNCHANGED <<boxes, homes, ncalls>>

\* An AgentKit or A2A request fails, or its answer is not what it should be.
RequestFails(c) ==
    /\ call[c].pc \in {"creating", "readying", "sending", "fetching"}
    /\ Returned(c)
    /\ UNCHANGED <<boxes, homes, ncalls>>

-----------------------------------------------------------------------------
InTime(c) == ~call[c].late /\ boxes[call[c].box].status # "terminated"

\* message/send is answered with a task.  invoke_skill returns it; execute_skills
\* polls it until a new deadline, unless the task has ended already.  The answer
\* may be lost although the server acted, as its body is read after the
\* request's context was cancelled: RequestFails.
MessageSent(c) ==
    /\ call[c].pc = "sending" /\ InTime(c)
    /\ \/ Returned(c) /\ homes' = homes \cup {call[c].box}
       \/ /\ call[c].op = "execute"
          /\ call' = [call EXCEPT ![c].pc = "fetching", ![c].late = FALSE,
                                  ![c].home = call[c].box]
          /\ UNCHANGED homes
    /\ UNCHANGED <<boxes, ncalls>>

\* tasks/get is answered with a snapshot, which ends poll_skill; execute_skills
\* asks again while the task has not ended.  A sandbox knows its own tasks only.
TaskFetched(c) ==
    /\ call[c].pc = "fetching" /\ InTime(c)
    /\ call[c].home = call[c].box
    /\ Returned(c)
    /\ homes' = homes \cup {call[c].box}
    /\ UNCHANGED <<boxes, ncalls>>

\* The deadline of the step a call is at passes...
DeadlinePasses(c) ==
    /\ call[c].pc \in {"readying", "sending", "fetching"} /\ ~call[c].late
    /\ call' = [call EXCEPT ![c].late = TRUE]
    /\ UNCHANGED <<boxes, homes, ncalls>>

\* Mutant of TimesOut: a session that never gets ready is waited for.
TimesOutContacted(c) ==
    /\ call[c].pc \in {"sending", "fetching"} /\ call[c].late
    /\ Returned(c)
    /\ UNCHANGED <<boxes, homes, ncalls>>

\* ... and the loop that looks at it ends the call.
TimesOut(c) ==
    /\ call[c].pc \in {"readying", "sending", "fetching"} /\ call[c].late
    /\ Returned(c)
    /\ UNCHANGED <<boxes, homes, ncalls>>

-----------------------------------------------------------------------------
\* External: a sandbox gets ready or ends (its tasks go with it).
BoxReady(b) ==
    /\ boxes[b].status = "creating"
    /\ boxes' = [boxes EXCEPT ![b].status = "ready"]
    /\ UNCHANGED <<homes, call, ncalls>>

BoxTerminates(b) ==
    /\ boxes[b].status # "terminated"
    /\ boxes' = [boxes EXCEPT ![b].status = "terminated"]
    /\ UNCHANGED <<homes, call, ncalls>>

CallStep(c) == SessionsListed(c) \/ SessionCreated(c) \/ TimesOut(c)

SkillsNext ==
    \/ \E c \in Callers :
          \/ Execute(c) \/ Invoke(c) \/ Poll(c) \/ CallStep(c)
          \/ ListingFails(c) \/ CreatedUnheard(c) \/ SessionReady(c) \/ RequestFails(c)
          \/ MessageSent(c) \/ TaskFetched(c) \/ DeadlinePasses(c)
    \/ \E b \in DOMAIN boxes : BoxReady(b) \/ BoxTerminates(b)

\* The AgentKit service answers a listing and a creation, time passes, and a
\* loop looks at its deadline.  Nothing is assumed of the sandboxes.
SkillsFairness ==
    \A c \in Callers : WF_skillVars(CallStep(c)) /\ WF_skillVars(DeadlinePasses(c))

SkillsSpec == SkillsIdle /\ [][SkillsNext]_skillVars /\ SkillsFairness

-----------------------------------------------------------------------------
\* The calls of a session share one sandbox.  A second one beside a live first
\* has one of two causes: the listing of the call that made it failed, or was
\* answered before the first was made (two calls overlapped).  And poll_skill,
\* which looks for the sandbox anew, may ask a newer one than the one its task is
\* in, but an older one only when that one has ended.
SandboxHasCause ==
    /\ \A a, b \in DOMAIN boxes :
          /\ a < b
          /\ boxes[a].status # "terminated" /\ boxes[b].status # "terminated"
          => ~boxes[b].listed \/ boxes[b].since < a
    /\ \A c \in Callers :
          call[c].op = "poll" /\ call[c].pc = "fetching" =>
             \/ call[c].box >= call[c].home
             \/ boxes[call[c].home].status = "terminated"

\* Every call returns, whatever the sandbox and its task do.
SkillCallsEnd == \A c \in Callers : call[c].pc # "idle" ~> call[c].pc = "idle"
=============================================================================
