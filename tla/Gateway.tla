------------------------------ MODULE Gateway -------------------------------
(***************************************************************************)
(* The manager's inference gateway: a request finds the provider of its    *)
(* model, the agents that may serve it, and tries them one after the       *)
(* other; what it holds meanwhile (a slot of the stream pool, a place in   *)
(* an agent's and in a client's in-flight count) it gives back on every    *)
(* way out.  The model index is refreshed by one thread at a time.         *)
(*                                                                         *)
(* Kinds of request: "json" and "stream" are _handle_completion without    *)
(* and with stream, "call" is complete_json, "chat" the in-process         *)
(* streams, "proxy" is proxy_stream_to_primary, which shares the pool.     *)
(* Each runs on its own thread; a step ends where another thread can see   *)
(* what it did.  There is one model id and one client.  What an agent      *)
(* answers, and which agents are live when asked, is left open.            *)
(***************************************************************************)
EXTENDS Naturals, Sequences, FiniteSets, Functions

CONSTANTS
    Req,        \* requests
    Provider,   \* gateway_enabled providers
    Fallback,   \* "llama"
    PoolOf,     \* [Provider -> SUBSET Agent]: pool members and the default agent
    Limit,      \* StreamPool.limit()
    None,
    MaxAges     \* bound: times the index grows stale

Agent == UNION {PoolOf[p] : p \in Provider}
Kind == {"json", "stream", "call", "chat", "proxy"}
Outcome == {"served", "relayed", "bad", "busy", "none", "timeout", "dropped", "raised"}
Failure == {"bad", "busy", "none", "timeout", "dropped"}
Thread == {"kick", "list"}

ASSUME GatewayAssumption ==
    /\ Fallback \in Provider /\ None \notin Provider \cup Agent \cup Outcome
    /\ DOMAIN PoolOf = Provider /\ Limit \in Nat \ {0} /\ MaxAges \in Nat
    /\ IsFiniteSet(Req) /\ IsFiniteSet(Agent)

VARIABLES
    req,        \* the requests
    active,     \* StreamPool._active
    inflight,   \* gateway_usage._inflight
    clients,    \* the client's inflight
    errors,     \* gateway_usage._errors
    index,      \* _model_index: is it fresh, and the model's provider
    refreshing, \* _model_index["refreshing"]
    fan,        \* [thread -> where it is in _refresh_model_index]
    ages        \* times the index grew stale

counts == <<active, inflight, clients, errors>>
vars == <<req, counts, index, refreshing, fan, ages>>

Lists == UNION {[1..n -> Agent] : n \in 0..Cardinality(Agent)}
Request ==
    [kind : Kind, pc : {"new", "await", "enter", "pick", "try", "sent", "first", "open", "built",
                        "stream", "slot", "host", "leave", "done"},
     prov : Provider \cup {None}, left : Lists,
     at : Agent \cup {None}, late : BOOLEAN, out : Outcome \cup {None}]

TypeOK ==
    /\ req \in [Req -> Request]
    /\ active \in 0..Limit
    /\ inflight \in [Agent -> 0..Cardinality(Req)]
    /\ clients \in 0..Cardinality(Req) /\ errors \in 0..Cardinality(Req)
    /\ index \in [fresh : BOOLEAN, owner : Provider \cup {None}]
    /\ refreshing \in BOOLEAN
    /\ fan \in [Thread -> {"off", "wait", "fetch"}]
    /\ ages \in 0..MaxAges

Init ==
    /\ req \in [Req -> {[kind |-> k, pc |-> "new", prov |-> None, left |-> <<>>,
                         at |-> None, late |-> FALSE, out |-> None] : k \in Kind}]
    /\ active = 0 /\ inflight = [a \in Agent |-> 0] /\ clients = 0 /\ errors = 0
    /\ index = [fresh |-> FALSE, owner |-> None]
    /\ refreshing = FALSE /\ fan = [t \in Thread |-> "off"] /\ ages = 0

At(r, k, pc) == req[r].kind \in k /\ req[r].pc = pc
Goto(r, pc) == req' = [req EXCEPT ![r].pc = pc]
Exit(r, out) ==
    req' = [req EXCEPT ![r] = [@ EXCEPT !.pc = "leave", !.out = out, !.left = <<>>,
                                        !.at = None, !.late = FALSE]]

-----------------------------------------------------------------------------
(* The model index.                                                          *)

(* _refresh_model_index_async                                                *)
Kick ==
    /\ refreshing' = TRUE
    /\ fan' = IF refreshing THEN fan ELSE [fan EXCEPT !["kick"] = "wait"]

(* A caller of GET /v1/models that finds no fresh entries.                   *)
List ==
    /\ fan["list"] = "off" /\ ~index.fresh
    /\ fan' = [fan EXCEPT !["list"] = "wait"]
    /\ UNCHANGED <<req, counts, index, refreshing>>

Over(t) ==
    /\ fan' = [fan EXCEPT ![t] = "off"]
    /\ refreshing' = (refreshing /\ t # "kick")

(* _refresh_lock is taken: the winner's map is used, or the fan-out begins.  *)
Locked(t) ==
    /\ fan[t] = "wait" /\ \A u \in Thread : fan[u] # "fetch"
    /\ IF index.fresh THEN Over(t)
       ELSE fan' = [fan EXCEPT ![t] = "fetch"] /\ UNCHANGED refreshing
    /\ UNCHANGED <<req, counts, index>>

(* The fan-out ends: the first provider that lists the model owns it.        *)
FetchedStays(t) ==     \* mutant: "refreshing" is not cleared
    /\ fan[t] = "fetch"
    /\ \E p \in Provider \cup {None} : index' = [fresh |-> TRUE, owner |-> p]
    /\ fan' = [fan EXCEPT ![t] = "off"]
    /\ UNCHANGED <<req, counts, refreshing>>

Fetched(t) ==
    /\ fan[t] = "fetch"
    /\ \E p \in Provider \cup {None} : index' = [fresh |-> TRUE, owner |-> p]
    /\ Over(t)
    /\ UNCHANGED <<req, counts>>

FetchFails(t) == fan[t] = "fetch" /\ Over(t) /\ UNCHANGED <<req, counts, index>>

Stale ==
    /\ ages < MaxAges /\ ages' = ages + 1
    /\ index.fresh /\ index' = [index EXCEPT !.fresh = FALSE]
    /\ UNCHANGED <<req, counts, refreshing, fan>>

-----------------------------------------------------------------------------
(* The route names the provider, or _provider_for_model does: by a pin, or   *)
(* by the index, fresh or not; a miss in a stale index waits for the         *)
(* refresh.                                                                  *)
Route(r, p) == req' = [req EXCEPT ![r].pc = "enter", ![r].prov = p]

Given(r) ==
    /\ At(r, Kind \ {"proxy"}, "new")
    /\ \E p \in Provider : Route(r, p)
    /\ UNCHANGED <<counts, index, refreshing, fan>>

Lookup(r) ==
    /\ At(r, Kind \ {"proxy"}, "new")
    /\ IF index.owner # None \/ index.fresh
       THEN Route(r, IF index.owner = None THEN Fallback ELSE index.owner)
       ELSE Goto(r, "await")
    /\ IF index.fresh THEN UNCHANGED <<refreshing, fan>> ELSE Kick
    /\ UNCHANGED <<counts, index>>

AwaitForever(r) ==     \* mutant: without the deadline
    /\ At(r, Kind, "await") /\ index.owner # None /\ Route(r, index.owner)
    /\ UNCHANGED <<counts, index, refreshing, fan>>

(* _await_model_index, which also gives up after _MODEL_INDEX_WAIT_S.        *)
Await(r) ==
    /\ At(r, Kind, "await")
    /\ Route(r, IF index.owner = None THEN Fallback ELSE index.owner)
    /\ UNCHANGED <<counts, index, refreshing, fan>>

ClientBegin(r) ==
    /\ At(r, Kind, "enter")
    /\ clients' = clients + 1
    /\ Goto(r, "pick")
    /\ UNCHANGED <<active, inflight, errors, index, refreshing, fan>>

(* _candidates orders the agents of the pool by the explicit choice, by      *)
(* liveness, by who serves the model and by round robin; every order can     *)
(* come of it.                                                               *)
Orders(S) == Bijection(1..Cardinality(S), S)

Candidates(r) ==
    /\ At(r, Kind, "pick")
    /\ \E s \in Orders(PoolOf[req[r].prov]) :
            req' = [req EXCEPT ![r].pc = "try", ![r].left = s, ![r].prov = None]
    /\ UNCHANGED <<counts, index, refreshing, fan>>

-----------------------------------------------------------------------------
(* The loop over the candidates.                                             *)
Fail == errors' = errors + 1

NextAgent(r, late) ==
    req' = [req EXCEPT ![r].pc = "try", ![r].at = None, ![r].late = @ \/ late]

Exhausted(r) ==
    /\ At(r, Kind, "try") /\ req[r].left = <<>>
    /\ Fail
    /\ Exit(r, IF req[r].late THEN "timeout" ELSE "none")
    /\ UNCHANGED <<active, inflight, clients, index, refreshing, fan>>

Add(a, n) == inflight' = [inflight EXCEPT ![a] = @ + n]
Sub(a) == inflight' = [inflight EXCEPT ![a] = IF @ > 0 THEN @ - 1 ELSE 0]

Take(r, pc) ==
    /\ req[r].left # <<>>
    /\ req' = [req EXCEPT ![r].pc = pc, ![r].at = Head(req[r].left), ![r].left = Tail(@)]

(* The plain requests are in flight while they wait for their answer.        *)
Forward(r) ==
    /\ At(r, {"json", "call"}, "try") /\ Take(r, "sent")
    /\ Add(Head(req[r].left), 1)
    /\ UNCHANGED <<active, clients, errors, index, refreshing, fan>>

(* No answer, 502 or 503: the next candidate; in complete_json so is any     *)
(* error once a sibling timed out.                                           *)
AnswerKeeps(r) ==     \* mutant: an unreachable agent stays in flight
    /\ At(r, {"json", "call"}, "sent")
    /\ \/ \E late \in {FALSE, req[r].kind = "call"} : NextAgent(r, late) /\ UNCHANGED <<errors, inflight>>
       \/ Sub(req[r].at) /\ Exit(r, "served") /\ UNCHANGED errors
       \/ Sub(req[r].at) /\ Exit(r, "bad") /\ Fail
    /\ UNCHANGED <<active, clients, index, refreshing, fan>>

Answer(r) ==
    /\ At(r, {"json", "call"}, "sent")
    /\ Sub(req[r].at)
    /\ \/ \E late \in {FALSE, req[r].kind = "call"} : NextAgent(r, late) /\ UNCHANGED errors
       \/ Exit(r, "served") /\ UNCHANGED errors
       \/ req[r].kind = "call" /\ Exit(r, "raised") /\ UNCHANGED errors
       \/ ~req[r].late /\ Exit(r, "bad") /\ Fail
    /\ UNCHANGED <<active, clients, index, refreshing, fan>>

(* _dial_stream and what its answer is taken for.                            *)
Dial(r) ==
    /\ At(r, {"stream", "chat"}, "try") /\ Take(r, "sent")
    /\ UNCHANGED <<counts, index, refreshing, fan>>

Dialed(r) ==
    /\ At(r, {"stream", "chat"}, "sent")
    /\ \/ \E late \in {FALSE, req[r].kind = "chat"} : NextAgent(r, late) /\ UNCHANGED errors
       \/ Goto(r, IF req[r].kind = "chat" THEN "first" ELSE "open") /\ UNCHANGED errors
       \/ req[r].kind = "stream" /\ Exit(r, "relayed") /\ UNCHANGED errors
       \/ ~req[r].late /\ Exit(r, "bad") /\ Fail
    /\ UNCHANGED <<active, inflight, clients, index, refreshing, fan>>

(* _stream_chunks with an open stream: in flight until it ends; a timeout    *)
(* before the first token tries the next agent, a drop after it does not.    *)
ChatOpen(r) ==
    /\ At(r, {"chat"}, "first") /\ Goto(r, "stream") /\ Add(req[r].at, 1)
    /\ UNCHANGED <<active, clients, errors, index, refreshing, fan>>

ChatEnds(r) ==
    /\ At(r, {"chat"}, "stream") /\ Sub(req[r].at)
    /\ \/ NextAgent(r, TRUE) /\ UNCHANGED errors
       \/ Exit(r, "served") /\ UNCHANGED errors
       \/ Exit(r, "dropped") /\ Fail
    /\ UNCHANGED <<active, clients, index, refreshing, fan>>

-----------------------------------------------------------------------------
(* The pool: try_acquire and release.                                        *)
Acquire(r) ==
    \/ active < Limit /\ active' = active + 1 /\ Goto(r, "built") /\ UNCHANGED errors
    \/ active >= Limit /\ Exit(r, "busy") /\ Fail /\ UNCHANGED active

Release == active' = IF active > 0 THEN active - 1 ELSE 0

(* _stream_from with an event stream in hand.                                *)
StreamSlot(r) ==
    /\ At(r, {"stream"}, "open") /\ Acquire(r)
    /\ UNCHANGED <<inflight, clients, index, refreshing, fan>>

(* The response is built and handed off, or its construction raises.         *)
HandOff(r) ==
    /\ At(r, {"stream"}, "built")
    /\ \/ Goto(r, "stream") /\ Add(req[r].at, 1) /\ UNCHANGED active
       \/ Exit(r, "raised") /\ Release /\ UNCHANGED inflight
    /\ UNCHANGED <<clients, errors, index, refreshing, fan>>

(* The response is closed, by its end, by the lifetime cap or because the    *)
(* browser left: its three callbacks run.                                    *)
Closed(r) ==
    /\ At(r, {"stream"}, "stream") /\ Goto(r, "slot") /\ Release
    /\ UNCHANGED <<inflight, clients, errors, index, refreshing, fan>>

ClosedHost(r) ==
    /\ At(r, {"stream"}, "slot") /\ Exit(r, "served") /\ Sub(req[r].at)
    /\ UNCHANGED <<active, clients, errors, index, refreshing, fan>>

(* client_end, in the handler's finally or in the response's last callback.  *)
ClientEnd(r) ==
    /\ At(r, Kind \ {"proxy"}, "leave") /\ Goto(r, "done")
    /\ clients' = IF clients > 0 THEN clients - 1 ELSE 0
    /\ UNCHANGED <<active, inflight, errors, index, refreshing, fan>>

(* proxy_stream_to_primary takes its slot before it dials, keeps it while    *)
(* every callback URL fails and frees it unless the response owns it.        *)
ProxyEnds(r, out) == req' = [req EXCEPT ![r].pc = "done", ![r].out = out]

ProxySlot(r) ==
    /\ At(r, {"proxy"}, "new")
    /\ \/ active < Limit /\ active' = active + 1 /\ Goto(r, "built")
       \/ active >= Limit /\ ProxyEnds(r, "busy") /\ UNCHANGED active
    /\ UNCHANGED <<inflight, clients, errors, index, refreshing, fan>>

ProxyDialed(r) ==
    /\ At(r, {"proxy"}, "built")
    /\ \/ Goto(r, "stream") /\ UNCHANGED active
       \/ ProxyEnds(r, "none") /\ Release
    /\ UNCHANGED <<inflight, clients, errors, index, refreshing, fan>>

ProxyClosed(r) ==
    /\ At(r, {"proxy"}, "stream") /\ Release
    /\ ProxyEnds(r, "served")
    /\ UNCHANGED <<inflight, clients, errors, index, refreshing, fan>>

-----------------------------------------------------------------------------
Serve(r) ==
    \/ Given(r) \/ Lookup(r) \/ Await(r) \/ ClientBegin(r) \/ Candidates(r) \/ Exhausted(r)
    \/ Forward(r) \/ Answer(r) \/ Dial(r) \/ Dialed(r) \/ ChatOpen(r) \/ ChatEnds(r)
    \/ StreamSlot(r) \/ HandOff(r) \/ Closed(r) \/ ClosedHost(r) \/ ClientEnd(r)
    \/ ProxySlot(r) \/ ProxyDialed(r) \/ ProxyClosed(r)

Refresh(t) == Locked(t) \/ Fetched(t) \/ FetchFails(t)

Next ==
    \/ Stale
    \/ UNCHANGED ages /\ (List \/ (\E r \in Req : Serve(r)) \/ (\E t \in Thread : Refresh(t)))

Spec == Init /\ [][Next]_vars

(* Every wait is bounded: agents are asked with a timeout, a stream has a    *)
(* lifetime cap; a thread that keeps asking for _refresh_lock gets it.       *)
Fairness ==
    /\ \A r \in Req : WF_vars(Serve(r) /\ UNCHANGED ages)
    /\ \A t \in Thread : SF_vars(Refresh(t) /\ UNCHANGED ages)
FairSpec == Spec /\ Fairness

-----------------------------------------------------------------------------
(* What the request q holds: a slot of the pool, a place in the in-flight     *)
(* count of the agent a, one in its client's; and whether it was an error.    *)
Slotted(q) == q.kind \in {"stream", "proxy"} /\ q.pc \in {"built", "stream"}
ServedBy(q, a) ==
    /\ q.at = a
    /\ \/ q.kind \in {"json", "call"} /\ q.pc = "sent"
       \/ q.kind \in {"stream", "chat"} /\ q.pc = "stream"
       \/ q.kind = "stream" /\ q.pc = "slot"
Inside(q) == q.kind # "proxy" /\ q.pc \notin {"new", "await", "enter", "done"}
Failed(q) == q.kind # "proxy" /\ q.out \in Failure

(* What is counted is what is held: the pool's slots are those of streams    *)
(* that are being built or are open, an agent's in-flight count is the       *)
(* requests it is serving, the client's is its requests between entry and    *)
(* exit.  A slot leaked on one of the ways out would shrink the pool for     *)
(* good, one given back twice would overbook it: release and end do not go   *)
(* below zero, so neither shows by itself.  The pool is never overbooked     *)
(* (TypeOK), and errors_15m counts requests, not attempts: one for each that *)
(* failed, however many agents it tried.                                     *)
Conserved ==
    /\ TypeOK
    /\ active = Cardinality({r \in Req : Slotted(req[r])})
    /\ \A a \in Agent : inflight[a] = Cardinality({r \in Req : ServedBy(req[r], a)})
    /\ clients = Cardinality({r \in Req : Inside(req[r])})
    /\ errors = Cardinality({r \in Req : Failed(req[r])})

(* Every request comes to an end, whatever the agents do.                    *)
Answered == <>(\A r \in Req : req[r].pc = "done")

(* A refresh that was kicked off ends, or completions would wait for it and  *)
(* never start another.                                                      *)
RefreshEnds == refreshing ~> ~refreshing
=============================================================================
