-------------------------------- MODULE Sdk ---------------------------------
(* How an application reaches the public edges: the SDKs (src/sdks), with    *)
(* the edge selector that an application's threads share, its parallel      *)
(* probes and the failover loop every call goes through; and the dashboard, *)
(* whose proxy keeps no ranking and probes for every request. The SDKs have *)
(* one policy and differ where an answer meets a list that changed, and on  *)
(* a success whose body cannot be read. Lower case and underscores name the *)
(* Rust and Python functions, camel case the TypeScript and Kotlin ones.    *)
EXTENDS Integers, Sequences, FiniteSets

CONSTANTS
    Apps,       \* threads that share one Client
    Edges,      \* base URLs
    Plans,      \* instances to choose from: language, threads, edges, and what an
                \* edge may be: ready, failing (503, 504, timeouts, network errors),
                \* bad (other 5xx) or garbled (success with a body nobody can read)
    MaxTries,   \* edges one call tries (3)
    EdgeCooldown    \* COOLDOWN_MS, in ticks

ASSUME SdkAssumption ==
    /\ {MaxTries, EdgeCooldown} \subseteq Nat
    /\ \A p \in Plans : /\ p.apps \subseteq Apps /\ p.edges \subseteq Edges
                       /\ "ready" \in p.states

VARIABLES
    edge_state,     \* [Edges -> what the edge is]
    candidates,     \* ranked candidates: sequence of [url, measured, cool]
    initialized,    \* a probe has ended
    app,            \* [Apps -> the call the thread is in]
    plan            \* the instance

sdkVars == <<edge_state, candidates, initialized, app, plan>>

Idle == [pc |-> "idle"]
Failed == [pc |-> "failed"]
Candidate(e) == [url |-> e, measured |-> FALSE, cool |-> 0]

(* The permutations of a list of edges that a set has.                      *)
Orders(S) == {s \in [1..Cardinality(S) -> S] : \A i, j \in DOMAIN s : i # j => s[i] # s[j]}

InitSdk ==
    /\ plan \in Plans
    /\ edge_state = [e \in Edges |-> "ready"]
    /\ candidates \in {[i \in DOMAIN s |-> Candidate(s[i])] : s \in Orders(plan.edges)}
    /\ initialized = FALSE
    /\ app = [t \in Apps |-> Idle]

Urls == [i \in DOMAIN candidates |-> candidates[i].url]

(* live_urls: the candidates that are not cooling down, in rank order.      *)
live_urls == LET Live(c) == c.cool = 0
                 kept == SelectSeq(candidates, Live)
             IN  [i \in DOMAIN kept |-> kept[i].url]

needs_probe == ~initialized \/ live_urls = <<>>

Marked(e, cool) == [i \in DOMAIN candidates |->
                       IF candidates[i].url = e THEN [candidates[i] EXCEPT !.cool = cool]
                       ELSE candidates[i]]
mark_failure_of(e) == Marked(e, EdgeCooldown)
mark_success_of(e) == Marked(e, 0)

-----------------------------------------------------------------------------

Probing(forced) == [pc |-> "probing", urls |-> Urls, ok |-> {}, forced |-> forced]
Selecting(forced) == [pc |-> "select", forced |-> forced]
Become(t, next) == app' = [app EXCEPT ![t] = next]

(* A call: ensure_probed, from request_json_with_status. The proxy of the   *)
(* dashboard probes every time.                                             *)
Request(t) ==
    /\ t \in plan.apps /\ app[t].pc = "idle"
    /\ Become(t, IF needs_probe \/ plan.lang = "proxy" THEN Probing(FALSE) ELSE Selecting(FALSE))
    /\ UNCHANGED <<edge_state, candidates, initialized, plan>>

(* probe_one, is_selectable: an edge answers a probe that it is ready, and  *)
(* may be something else before the other probes have ended.                *)
ProbeAnswers(t, e) ==
    /\ app[t].pc = "probing" /\ e \in plan.edges \ app[t].ok
    /\ edge_state[e] = "ready"
    /\ Become(t, [app[t] EXCEPT !.ok = @ \cup {e}])
    /\ UNCHANGED <<edge_state, candidates, initialized, plan>>

(* A result on a candidate. A probe that fails never starts a cooldown.     *)
Result(c, ok) == IF ok THEN [c EXCEPT !.measured = TRUE, !.cool = 0] ELSE [c EXCEPT !.measured = FALSE]

(* Rust: result i of the list that was probed goes to candidate i of the    *)
(* list as it is now, which another thread may have sorted meanwhile.       *)
probe_all(p) == [i \in DOMAIN candidates |-> Result(candidates[i], p.urls[i] \in p.ok)]

(* TypeScript, Python, Kotlin: a result goes to the candidate it names.     *)
probeAll(p) == [i \in DOMAIN candidates |-> Result(candidates[i], candidates[i].url \in p.ok)]
apply_probe_results(p) == probeAll(p)
applyProbeResults(p) == probeAll(p)

Applied(p) == CASE plan.lang = "rust" -> probe_all(p)
                [] plan.lang = "typescript" -> probeAll(p)
                [] plan.lang = "python" -> apply_probe_results(p)
                [] plan.lang = "kotlin" -> applyProbeResults(p)

(* Rank of a candidate in the sort: cooling last, unmeasured after measured.*)
Rank(c) == <<IF c.cool > 0 THEN 1 ELSE 0, IF c.measured THEN 0 ELSE 1>>
Sorted(s) == \A i \in 1..(Len(s) - 1) :
                LET a == Rank(s[i]) b == Rank(s[i + 1])
                IN  a[1] < b[1] \/ (a[1] = b[1] /\ a[2] <= b[2])

(* Every probe has answered or timed out: the results are applied and the   *)
(* list is sorted. Round-trip times are left open.                          *)
ProbeEnds(t) ==
    /\ app[t].pc = "probing" /\ plan.lang # "proxy"
    /\ LET updated == Applied(app[t])
       IN  \E s \in Orders({updated[i] : i \in DOMAIN updated}) :
              Sorted(s) /\ candidates' = s
    /\ initialized' = TRUE
    /\ Become(t, Selecting(app[t].forced))
    /\ UNCHANGED <<edge_state, plan>>

(* The dashboard: edges that are ready first, then the others, each in the  *)
(* order of the configuration.                                              *)
prioritized_edges(t) ==
    /\ app[t].pc = "probing" /\ plan.lang = "proxy"
    /\ LET Good(e) == e \in app[t].ok
           Poor(e) == e \notin app[t].ok
       IN  Become(t, [pc |-> "try", urls |-> SelectSeq(Urls, Good) \o SelectSeq(Urls, Poor)])
    /\ UNCHANGED <<edge_state, candidates, initialized, plan>>

(* Faulty variant: a call tries the first edge and no other.                *)
TriesOne(s) == SubSeq(s, 1, 1)

(* urls.iter().take(3)                                                      *)
Tries(s) == SubSeq(s, 1, IF Len(s) < MaxTries THEN Len(s) ELSE MaxTries)

(* With every edge cooling down the call forces one more probe, then gives  *)
(* up ("all edges unhealthy").                                              *)
Select(t) ==
    /\ app[t].pc = "select"
    /\ app' = [app EXCEPT ![t] =
                  IF live_urls # <<>> THEN [pc |-> "try", urls |-> Tries(live_urls)]
                  ELSE IF @.forced THEN Failed ELSE Probing(TRUE)]
    /\ UNCHANGED <<edge_state, candidates, initialized, plan>>

(* What an attempt may do, by what the edge is: the mark it leaves on the   *)
(* edge, and whether the call is over, goes to the next edge with the same  *)
(* body and nonce, or fails. An error that is the caller's own (4xx) is an  *)
(* answer too, and leaves no mark.                                          *)
Then(mark, next) == [mark |-> mark, next |-> next]
Answers == {Then("success", "done"), Then("none", "done")}

(* is_retryable, from_status: 503, 504, timeouts and network errors. 500    *)
(* and 502, what the proxy in front of a dead gateway answers, end the call *)
(* without failover or cooldown.                                            *)
request_json_with_status(s) ==
    CASE s = "ready" -> Answers
      [] s = "failing" -> {Then("failure", "next")}
      [] s \in {"bad", "garbled"} -> {Then("none", "fail")}

(* TypeScript: the body is read inside the try, so that one that cannot be  *)
(* read counts as a network error and the request is sent again elsewhere.  *)
request(s) ==
    CASE s = "ready" -> Answers
      [] s \in {"failing", "garbled"} -> {Then("failure", "next")}
      [] s = "bad" -> {Then("none", "fail")}

(* Python and Kotlin: the edge is marked before its answer is read.         *)
_request(s) == IF s = "garbled" THEN {Then("success", "fail")} ELSE request_json_with_status(s)
request_and_decode(s) == IF s = "garbled" THEN {Then("success", "fail")}
                         ELSE request_json_with_status(s)

(* The dashboard: any server error goes to the next edge, any other answer, *)
(* readable or not, is passed on.                                           *)
proxy_gateway_json(s) == {Then("none", IF s \in {"failing", "bad"} THEN "next" ELSE "done")}

Outcomes(s) == CASE plan.lang = "rust" -> request_json_with_status(s)
                 [] plan.lang = "typescript" -> request(s)
                 [] plan.lang = "python" -> _request(s)
                 [] plan.lang = "kotlin" -> request_and_decode(s)
                 [] plan.lang = "proxy" -> proxy_gateway_json(s)

Attempt(t) ==
    /\ app[t].pc = "try"
    /\ LET e == Head(app[t].urls)
       IN  \E o \in Outcomes(edge_state[e]) :
              /\ candidates' = CASE o.mark = "success" -> mark_success_of(e)
                                 [] o.mark = "failure" -> mark_failure_of(e)
                                 [] o.mark = "none" -> candidates
              /\ Become(t, CASE o.next = "done" -> Idle
                             [] o.next = "fail" \/ Len(app[t].urls) = 1 -> Failed
                             [] OTHER -> [app[t] EXCEPT !.urls = Tail(@)])
    /\ UNCHANGED <<edge_state, initialized, plan>>

(* The error is the result of the call.                                     *)
CallFails(t) ==
    /\ app[t].pc = "failed"
    /\ app' = [app EXCEPT ![t] = Idle]
    /\ UNCHANGED <<edge_state, candidates, initialized, plan>>

EdgeTurns(e, s) ==
    /\ e \in plan.edges /\ edge_state[e] # s
    /\ edge_state' = [edge_state EXCEPT ![e] = s]
    /\ UNCHANGED <<candidates, initialized, app, plan>>

CooldownTick ==
    /\ candidates' = [i \in DOMAIN candidates |->
           [candidates[i] EXCEPT !.cool = IF @ > 0 THEN @ - 1 ELSE 0]]
    /\ UNCHANGED <<edge_state, initialized, app, plan>>

SdkNext ==
    \/ \E t \in Apps :
          \/ Request(t) \/ ProbeEnds(t) \/ prioritized_edges(t) \/ Select(t) \/ Attempt(t)
          \/ CallFails(t)
          \/ \E e \in Edges : ProbeAnswers(t, e)
    \/ \E e \in Edges, s \in plan.states : EdgeTurns(e, s)
    \/ CooldownTick

(* A probe and an attempt end at the latest with their timeout; time        *)
(* passes. Calls may stop coming.                                           *)
SdkFairness ==
    /\ WF_sdkVars(CooldownTick)
    /\ \A t \in Apps :
          /\ WF_sdkVars(ProbeEnds(t) \/ prioritized_edges(t))
          /\ WF_sdkVars(Select(t))
          /\ WF_sdkVars(Attempt(t))
          /\ WF_sdkVars(CallFails(t))

SdkSpec == InitSdk /\ [][SdkNext]_sdkVars /\ SdkFairness

-----------------------------------------------------------------------------

GivesUp(s) == \E o \in Outcomes(s) : o.next = "fail"

(* Once one edge stays ready, and none is in a state this SDK does not fail *)
(* over from, calls stop failing, whatever cooldowns earlier failures left  *)
(* behind, and in whatever order the probes of other threads end and rank   *)
(* the edges (edges.rs, the selector; client.rs, the failover loop, and     *)
(* their counterparts; developer_buckets.rs, proxy_gateway_json).           *)
CallsRecover ==
    \A e \in Edges :
        (/\ <>[](e \in plan.edges /\ edge_state[e] = "ready")
         /\ <>[](\A x \in plan.edges : ~GivesUp(edge_state[x])))
            => <>[](\A t \in Apps : app[t].pc # "failed")
=============================================================================
