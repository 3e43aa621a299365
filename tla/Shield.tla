------------------------------- MODULE Shield -------------------------------
(***************************************************************************)
(* LLM Shield (tool/builtin_tools/llm_shield.go, llm_shield_plugin.go): a  *)
(* plugin that lets a service judge the messages of a run at four places,  *)
(* what goes to the model and to a tool and what comes back.               *)
(*                                                                         *)
(* External: the moderation service, the agent's run (ADK), which calls    *)
(* the plugin in turn and ends at an error of a model hook, and the        *)
(* caller, who may cancel at any time.                                     *)
(***************************************************************************)
EXTENDS Integers, Sequences

CONSTANT MaxHooks       \* bound: places that a run comes to

ASSUME ShieldAssumption == MaxHooks \in Nat

VARIABLES
    shield,     \* how the plugin is configured
    caller,     \* "live", or "cancelled"
    at,         \* the place of the run and the state of its check there
    passed      \* history: what has gone on its way, as it was or replaced

shieldVars == <<shield, caller, at, passed>>

(***************************************************************************)
(* Configuration                                                           *)
(***************************************************************************)

Hooks == {"before_model", "after_model", "before_tool", "after_tool"}

\* NewLLMShieldPlugin; without a list of callbacks it is that before the model.
\* The signed requests need credentials, which a source finds or not.
Shields == [scopes : SUBSET Hooks,
            policy : {"fail_open", "fail_close"}, key : {"api_key", "signed"}]

Between == [hook |-> "none", pc |-> "between"]

ShieldInit ==
    /\ shield \in Shields
    /\ caller = "live"
    /\ at = Between
    /\ passed = <<>>

(***************************************************************************)
(* Moderate                                                                *)
(***************************************************************************)

\* An answer: if it has a result, what that decides (to block, something else, or
\* nothing), whether it lists risks, and whether the service was degraded.
Replies == [usable : BOOLEAN, decision : {"absent", "other", "block"}, risks : BOOLEAN, degraded : BOOLEAN]
NoReply == [usable |-> FALSE, decision |-> "absent", risks |-> FALSE, degraded |-> FALSE]

Blocks(reply) == reply.usable /\ reply.decision = "block" /\ reply.risks
Permits(reply) == reply.usable /\ ~ Blocks(reply) /\ ~ reply.degraded /\ reply.decision # "absent"

\* shieldDecision; "failed" is an error of the service.
Decision(reply) ==
    CASE Blocks(reply) -> "block"
      [] Permits(reply) -> "permit"
      [] OTHER -> "failed"

(***************************************************************************)
(* The callbacks                                                           *)
(***************************************************************************)

Cancelled == caller = "cancelled"
Stage(pc) == at.pc = pc
Go(pc) == at' = [at EXCEPT !.pc = pc]

\* The hook is over: its message goes on, or the message that blocks it does.
Pass(how) ==
    /\ passed' = Append(passed, [hook |-> at.hook, how |-> how, reply |-> at.reply,
                                 moderated |-> at.pc # "arrived", cancelled |-> at.cancelled \/ Cancelled])
    /\ at' = Between

\* An error ends the run; that of a tool's hook may be told to the model in the
\* place of the tool's result instead, and the run goes on.
Abort ==
    /\ \/ at' = [at EXCEPT !.pc = "aborted"]
       \/ at.hook \in {"before_tool", "after_tool"} /\ at' = Between
    /\ UNCHANGED passed

\* The caller has gone by now, or had when the answer came.
Gone == at.cancelled \/ Cancelled

\* The failure policy.
Fails == IF shield.policy = "fail_open" THEN Pass("unchecked") ELSE Abort

\* The run comes to a place with a message: a text, one whose first part is no
\* text, one that cannot be encoded, or an error.
Arrive ==
    /\ Stage("between") /\ Len(passed) < MaxHooks
    /\ \E hook \in Hooks, message \in {"text", "other", "error"} :
          at' = [hook |-> hook, pc |-> "arrived", message |-> message, reply |-> NoReply, cancelled |-> FALSE]
    /\ UNCHANGED <<shield, caller, passed>>

\* Nothing to moderate: the plugin is not asked here, an error goes on as it is,
\* the model hooks look at text only.
Unmoderated ==
    \/ at.hook \notin shield.scopes
    \/ at.message = "error" /\ at.hook \in {"after_model", "after_tool"}
    \/ at.message # "text" /\ at.hook \in {"before_model", "after_model"}

Skip ==
    /\ Stage("arrived") /\ Unmoderated
    /\ Pass("unchanged")
    /\ UNCHANGED <<shield, caller>>

\* toolEncodingError: what cannot be encoded is a failure for the policy.
Unencodable ==
    /\ Stage("arrived") /\ ~ Unmoderated /\ at.message # "text"
    /\ Fails
    /\ UNCHANGED <<shield, caller>>

\* Moderate: nothing is asked for a caller who has gone.
Enter ==
    /\ Stage("arrived") /\ ~ Unmoderated /\ at.message = "text"
    /\ IF Cancelled THEN Abort ELSE Go("credential") /\ UNCHANGED passed
    /\ UNCHANGED <<shield, caller>>

\* A credential that cannot be had fails like the service, unless the caller went.
Authorize ==
    /\ Stage("credential")
    /\ \/ Go("asked")
       \/ shield.key = "signed" /\ at' = [at EXCEPT !.pc = "judged", !.cancelled = Cancelled]
    /\ UNCHANGED <<shield, caller, passed>>

\* The service answers, or it fails or its time is over; if the caller has gone
\* by now then the answer does not count.
Reply ==
    /\ Stage("asked")
    /\ \E reply \in Replies :
          at' = [at EXCEPT !.pc = "judged", !.reply = reply, !.cancelled = Cancelled]
    /\ UNCHANGED <<shield, caller, passed>>

\* Mutant of Decide: the policy is asked before the context.
DecidePolicyFirst ==
    /\ Stage("judged")
    /\ \/ Decision(at.reply) = "failed" /\ Fails
       \/ Decision(at.reply) # "failed" /\ Gone /\ Abort
       \/ Decision(at.reply) = "block" /\ ~ Gone /\ Pass("replaced")
       \/ Decision(at.reply) = "permit" /\ ~ Gone /\ Pass("unchanged")
    /\ UNCHANGED <<shield, caller>>

\* check: the caller's end comes first, in fail-open mode too; then the policy
\* decides about failures, and about nothing else.
Decide ==
    /\ Stage("judged")
    /\ \/ Gone /\ Abort
       \/ ~ Gone /\ Decision(at.reply) = "block" /\ Pass("replaced")
       \/ ~ Gone /\ Decision(at.reply) = "permit" /\ Pass("unchanged")
       \/ ~ Gone /\ Decision(at.reply) = "failed" /\ Fails
    /\ UNCHANGED <<shield, caller>>

Cancel ==
    /\ ~ Cancelled
    /\ caller' = "cancelled"
    /\ UNCHANGED <<shield, at, passed>>

ShieldNext ==
    \/ Arrive \/ Skip \/ Unencodable \/ Enter \/ Authorize \/ Reply \/ Decide
    \/ Cancel

ShieldSpec == ShieldInit /\ [][ShieldNext]_shieldVars

(***************************************************************************)
(* Properties                                                              *)
(***************************************************************************)

\* "Service failures are returned as redacted errors; failure policy is applied by
\* the callbacks. Cancellation always propagates, including in fail-open mode."
\* What has been moderated goes on unchanged only with a permission, and without
\* one only in fail-open mode and after a failure; what was to be blocked never
\* does, degraded or not; and no check that saw its caller go lets anything by.
PassesOnlyPermitted ==
    \A i \in DOMAIN passed :
        LET p == passed[i]
        IN  /\ p.how = "unchecked" => shield.policy = "fail_open" /\ ~ Permits(p.reply)
            /\ p.moderated => /\ ~ p.cancelled
                              /\ p.how = "unchanged" => Permits(p.reply)
                              /\ Blocks(p.reply) <=> p.how = "replaced"
=============================================================================
