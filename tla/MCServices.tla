----------------------------- MODULE MCServices -----------------------------
(***************************************************************************)
(* What a run asks of remote services, each call for itself: the model in  *)
(* the two branches of a parallel agent, a remote skill source, the tools  *)
(* that ask one question, and LLM Shield.  A behaviour is about one of the *)
(* four: they share no state, so their behaviours are added and not        *)
(* multiplied.                                                             *)
(***************************************************************************)
EXTENDS ModelCall, RemoteSource, ServiceTools, Shield, TLC

CONSTANTS b1, b2, a1, a2, q1, q2, blank

Service(client, streams, ids, indexes) ==
    [client |-> client, streams |-> streams, ids |-> ids, indexes |-> indexes]

(* Both clients, both ways to read an answer, and each irregularity once. *)
MCServices == {Service("openai", TRUE, TRUE, TRUE), Service("ark", TRUE, TRUE, FALSE),
               Service("openai", FALSE, TRUE, TRUE), Service("ark", FALSE, FALSE, TRUE)}

\* Branches are alike, and so are the goroutines that ask.
ServicesSymmetry == Permutations(Branches) \cup Permutations({a1, a2})

Good(n) == [name |-> n, valid |-> TRUE, located |-> TRUE]
MCSpaces == {<<Good("a"), Good("b")>>, <<Good("b")>>, <<Good("a"), Good("a")>>}

MCAskers == {a1, a2}
SettingOf(n, k, c, p, t, r) ==
    [name |-> n, key |-> k, context |-> c, process |-> p, token |-> t, role |-> r]

\* All from the process; from the tool context beside a role; in parts; nothing.
MCSettings ==
    {SettingOf(TRUE, TRUE, {}, Parts, TRUE, "none"), SettingOf(TRUE, FALSE, Parts, {}, TRUE, "token"),
     SettingOf(FALSE, FALSE, {"ak"}, {"sk"}, FALSE, "none"), SettingOf(TRUE, FALSE, {}, {}, FALSE, "none")}
MCQueryLists == {<<q1, q1>>, <<q2, blank>>}

\* A source and tools that nobody calls, branches and a run that are over.
NoModelCall ==
    /\ service = Service("openai", FALSE, FALSE, FALSE)
    /\ history = [b \in Branches |-> <<>>] /\ pc = [b \in Branches |-> "over"]
    /\ answer = [b \in Branches |-> NoAnswer] /\ acc = [b \in Branches |-> NoBuffers]
    /\ got = [b \in Branches |-> Nothing] /\ turns = [b \in Branches |-> 0]
    /\ meta = [total |-> 0, prev |-> 0] /\ spent = 0 /\ overlap = FALSE
    /\ collected = [partial |-> FALSE, final |-> FALSE, broken |-> FALSE]

NoSource ==
    /\ source = [attempts |-> 2, temporary |-> FALSE, credentials |-> "custom"]
    /\ environment = [is |-> "none", since |-> 0] /\ file = environment
    /\ rotations = 0 /\ space = <<>> /\ updates = 0 /\ context = "done"
    /\ job = [Waiting EXCEPT !.pc = "returned"] /\ witness = [inForce |-> {}, spaces |-> {}]

NoAsks ==
    /\ setting = SettingOf(FALSE, FALSE, {}, {}, FALSE, "none") /\ audio = <<>> /\ asks = MaxAsks
    /\ ask = [a \in Askers |-> NoAsk] /\ down = FALSE

NoShield ==
    /\ shield = [scopes |-> {}, policy |-> "fail_open", key |-> "signed"]
    /\ caller = "cancelled" /\ at = [Between EXCEPT !.pc = "aborted"] /\ passed = <<>>

ServicesInit ==
    \/ ModelInit /\ NoSource /\ NoAsks /\ NoShield
    \/ NoModelCall /\ SourceInit /\ NoAsks /\ NoShield
    \/ NoModelCall /\ NoSource /\ AskInit /\ NoShield
    \/ NoModelCall /\ NoSource /\ NoAsks /\ ShieldInit

ServicesNext ==
    \/ ModelNext /\ UNCHANGED <<sourceVars, askVars, shieldVars>>
    \/ SourceNext /\ UNCHANGED <<modelVars, askVars, shieldVars>>
    \/ AskNext /\ UNCHANGED <<modelVars, sourceVars, shieldVars>>
    \/ ShieldNext /\ UNCHANGED <<modelVars, sourceVars, askVars>>

ServicesSpec == ServicesInit /\ [][ServicesNext]_<<modelVars, sourceVars, askVars, shieldVars>>
=============================================================================
