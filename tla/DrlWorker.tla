------------------------------ MODULE DrlWorker -------------------------------
(***************************************************************************)
(* The service worker of the browser package (web-features.ts): it answers *)
(* fetches of DRLs, https://dweb/<did>/<path>, from its cache or from the  *)
(* first DWN endpoint of the DID, and lets the application say which ones  *)
(* to keep and for how long.                                               *)
(*                                                                         *)
(* A resource is its version, which its owner changes at any time.  The    *)
(* answers are history: the code hands them to the browser.                *)
(***************************************************************************)
EXTENDS Integers, FiniteSets

CONSTANTS
    Drl,          \* DRLs, less the trailing slash and in https
    Documents,    \* those without a path: the DID document itself
    Checks,       \* what onCacheCheck may do: throw, return nothing or a ttl
    Request,      \* fetch events
    MaxVersion, MaxTime   \* bounds

VARIABLES
    onLine,       \* navigator.onLine
    clock,
    version,      \* of each resource, at its endpoint
    check,        \* what this worker's onCacheCheck does; without one, the call throws
    cache,        \* the cache 'drl': {} or the entry of each DRL
    puts,         \* cache.put() calls that have not been done
    request       \* each fetch event

vars == <<onLine, clock, version, check, cache, puts, request>>

Entry(drl, v, t) == [drl |-> drl, version |-> v, time |-> t]
\* step: where handleEvent() is; from, version, at: the answer and when it was given.
Idle == [step |-> "idle"]
Answered(from, drl, began, v, cached) ==
    [step |-> "answered", from |-> from, drl |-> drl, began |-> began, version |-> v,
     cached |-> cached, at |-> clock, onLine |-> onLine]
Failed(r) == Answered("failure", request[r].drl, request[r].began, 0, {})

Init ==
    /\ onLine \in BOOLEAN /\ clock = 0
    /\ version = [d \in Drl |-> 1]
    /\ check \in Checks
    /\ cache = [d \in Drl |-> {}]
    /\ puts = {}
    /\ request = [r \in Request |-> Idle]

Becomes(r, state) == request' = [request EXCEPT ![r] = state]
Only(changed) == \A v \in {"network", "cache"} \ changed :
    CASE v = "network" -> UNCHANGED <<onLine, clock, version, check>>
      [] v = "cache" -> UNCHANGED <<cache, puts>>

\* handleEvent(): without a network whatever is cached will do.
HandleEvent(r, d) ==
    /\ request[r].step = "idle"
    /\ LET next(step) == [step |-> step, drl |-> d, began |-> version[d], cached |-> cache[d]] IN
       Becomes(r, IF cache[d] = {} THEN next("fetch")
                  ELSE IF ~onLine
                  THEN Answered("cache", d, version[d], (CHOOSE e \in cache[d] : TRUE).version, cache[d])
                  ELSE next("check"))
    /\ Only({})

Fresh(e) == check.does = "keeps" /\ clock < e.time + check.ttl

\* onCacheCheck() of a cached response; an exception is not caught.
CacheCheck(r) ==
    /\ request[r].step = "check"
    /\ Becomes(r, IF check.does = "throws" THEN Failed(r)
                  ELSE IF \E e \in request[r].cached : Fresh(e)
                  THEN Answered("cache", request[r].drl, request[r].began,
                                (CHOOSE e \in request[r].cached : TRUE).version, request[r].cached)
                  ELSE [request[r] EXCEPT !.step = "fetch"])
    /\ Only({})

\* The DID cannot be resolved, which is also the answer to a request for its
\* document, has no endpoint, or the first one refuses.
FetchFails(r) ==
    /\ request[r].step = "fetch"
    /\ Becomes(r, Failed(r))
    /\ Only({})

FetchResource(r) ==
    /\ request[r].step = "fetch" /\ onLine
    /\ LET d == request[r].drl IN
       Becomes(r, IF d \in Documents THEN Answered("fetch", d, request[r].began, version[d], {})
                  ELSE [step |-> "keep", drl |-> d, began |-> request[r].began, version |-> version[d]])
    /\ Only({})

\* onCacheCheck() of a response; cacheResponse() does not wait for the cache.
CacheResponse(r) ==
    /\ request[r].step = "keep"
    /\ LET d == request[r].drl IN
       IF check.does = "throws" THEN Becomes(r, Failed(r)) /\ Only({})
       ELSE /\ Becomes(r, Answered("fetch", d, request[r].began, request[r].version, {}))
            /\ puts' = IF check.does = "nothing" THEN puts ELSE puts \cup {Entry(d, request[r].version, clock)}
            /\ UNCHANGED cache /\ Only({"cache"})

Put(e) ==
    /\ e \in puts
    /\ cache' = [cache EXCEPT ![e.drl] = {e}]
    /\ puts' = puts \ {e}
    /\ Only({"cache"}) /\ UNCHANGED request

\* The browser stops a worker that has answered; a put may not have been done.
WorkerStops ==
    /\ \A r \in Request : request[r].step \in {"idle", "answered"}
    /\ check' \in Checks
    /\ puts' = {}
    /\ request' = [r \in Request |-> Idle]
    /\ UNCHANGED <<onLine, clock, version, cache>>

Network ==
    /\ \/ onLine' = ~onLine /\ UNCHANGED <<clock, version>>
       \/ clock < MaxTime /\ clock' = clock + 1 /\ UNCHANGED <<onLine, version>>
       \/ \E d \in Drl : /\ version[d] < MaxVersion
                         /\ version' = [version EXCEPT ![d] = @ + 1]
                         /\ UNCHANGED <<onLine, clock>>
    /\ UNCHANGED <<check, cache, puts, request>>

Next ==
    \/ \E r \in Request : \/ \E d \in Drl : HandleEvent(r, d)
                          \/ CacheCheck(r) \/ FetchFails(r) \/ FetchResource(r) \/ CacheResponse(r)
    \/ \E e \in puts : Put(e)
    \/ WorkerStops \/ Network

---------------------------------------------------------------------------
(* Properties *)

\* A DRL is answered with a version it had: the one at the endpoint while the
\* request was under way, or a cached one, which was put together less than its
\* ttl before the answer unless the browser was offline (web-features.ts 39-76).
AnswersRight ==
    \A r \in Request : LET q == request[r] IN q.step = "answered" =>
        /\ q.from = "fetch" => q.version \in q.began .. version[q.drl]
        /\ q.from = "cache" => \E e \in q.cached :
               /\ e.drl = q.drl /\ e.version = q.version /\ e.version <= q.began
               /\ q.onLine => check.does = "keeps" /\ q.at < e.time + check.ttl

\* What is in the cache, or on its way there, is under its own DRL a version the
\* resource has had, with a time that has passed, and never a DID document
\* (web-features.ts 78-117).
CacheRight ==
    \A d \in Drl : \A e \in cache[d] \cup {p \in puts : p.drl = d} :
        e.drl = d /\ d \notin Documents /\ e.version \in 1 .. version[d] /\ e.time <= clock
=============================================================================
