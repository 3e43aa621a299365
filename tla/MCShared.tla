------------------------------ MODULE MCShared ------------------------------
(***************************************************************************)
(* Answers of remote services that goroutines share: the ARK key and the   *)
(* pages of web_fetch.  A behaviour is about one of the two.               *)
(***************************************************************************)
EXTENDS ArkTokenProvider, WebFetch, TLC

CONSTANTS f1, f2

MCFetchers == {f1, f2}
To(is, u) == [is |-> is, to |-> u]

\* A page and a redirect to it, and three circles.
MCWebs ==
    {"home" :> [is |-> "html"] @@ "moved" :> To("redirect", "home"),
     "home" :> To("refresh", "moved") @@ "moved" :> To("refresh", "home"),
     "home" :> To("redirect", "moved") @@ "moved" :> To("refresh", "home"),
     "home" :> [is |-> "error"] @@ "moved" :> To("refresh", "moved")}
Wish(u, m, n) == [url |-> u, mode |-> m, asked |-> n]
MCWishes == {Wish("home", "markdown", 0), Wish("home", "text", 9), Wish("moved", "markdown", 0)}

\* Requests that are used up, and fetches.
NoRequests ==
    /\ apiKey = NoKey /\ generation = 0
    /\ exchange = [g \in Generations |-> NoExchange]
    /\ requests = MaxRequests /\ call = [p \in Procs |-> NoCall]
    /\ stores = [g \in Generations |-> 0]

NoWeb ==
    /\ web = <<>> /\ second = LastSecond /\ cache = <<>> /\ fetches = MaxFetches
    /\ fetch = [f \in Fetchers |-> NoFetch]

SharedInit ==
    \/ Init /\ NoWeb
    \/ NoRequests /\ WebInit

SharedNext ==
    \/ Next /\ UNCHANGED webVars
    \/ WebNext /\ UNCHANGED vars

SharedSpec ==
    /\ SharedInit /\ [][SharedNext]_<<vars, webVars>>
    /\ \A p \in Procs : WF_vars(RequestStep(p))
    /\ \A g \in Generations : WF_vars(ExchangeStep(g))
    /\ WebFairness
=============================================================================
