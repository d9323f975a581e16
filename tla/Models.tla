------------------------------- MODULE Models -------------------------------
(***************************************************************************)
(* The list of models: GET /v1/models (internal/adapters/httpapi/models.go)*)
(* answers from a cache; when it is too old, the handler asks the upstreams*)
(* one after the other (Router.ListModels) outside the cache's mutex, with *)
(* one deadline for all of them, and stores what it got.                   *)
(*                                                                         *)
(* REQUEST_TIMEOUT_SECONDS is taken to be longer than the context of a     *)
(* request, as its default is; the client of one upstream never gives up   *)
(* before the context does.                                                *)
(*                                                                         *)
(* There is no clock: every age counts up to the largest value that the    *)
(* code or a property compares it with, and stays there.                   *)
(***************************************************************************)
EXTENDS Naturals, FiniteSets, FiniteSetsExt

CONSTANTS
  N,            \* number of upstreams, asked in the order 1..N
  Model,
  Declared,     \* the models that the configuration gives each upstream
  Default,      \* s.defaultModel, the first model declared for upstream 1
  Request,      \* GET /v1/models requests in flight
  TTL,          \* modelListTTL
  Timeout,      \* of the context of a request
  Loadable,     \* bound: the models that upstreams load and unload meanwhile
  Nil           \* modelCache.cached before the first list, and of an empty one

ASSUME ModelsAssumption ==
  /\ N \in Nat \ {0}
  /\ Declared \in [1..N -> SUBSET Model]
  /\ Default \in Declared[1]
  /\ TTL \in Nat \ {0}
  /\ Timeout \in Nat \ {0}
  /\ Loadable \subseteq Model
  /\ \A M \in SUBSET Model : M # Nil

VARIABLES
  health,     \* an upstream answers, refuses or leaves requests unanswered
  loaded,     \* the models it announces
  cached,     \* modelCache.cached
  age,        \* time since modelCache.fetched
  pc,         \* where a request is
  next,       \* the upstream it is about to ask
  acc,        \* Router.ListModels: result
  elapsed,    \* time since its context was made
  reply,      \* the models it was answered with
  heard,      \* history: an upstream answered it, or the one its list came from
  unseen,     \* history: time since a model was last announced by an upstream
  steady      \* history: time for which upstream 1 has announced a model

fetches == <<pc, next, acc, elapsed>>
ages == <<unseen, steady>>
history == <<heard, ages>>
vars == <<health, loaded, cached, age, fetches, reply, history>>

\* The oldest list that is served was fetched this long ago.
Oldest == TTL + Timeout

\* The default model is in every answer; the history is about the others.
Listed == Model \ {Default}

Least(a, b) == IF a < b THEN a ELSE b

-----------------------------------------------------------------------------
(* The upstreams *)

Announced(u) == IF health[u] = "up" THEN loaded[u] ELSE {}

\* Every upstream has been up, with the models it is configured with.
Init ==
  /\ health = [u \in 1..N |-> "up"]
  /\ loaded \in {l \in [1..N -> SUBSET Model] : \A u \in 1..N : Declared[u] \subseteq l[u]}
  /\ cached = Nil
  /\ age = TTL
  /\ pc = [r \in Request |-> "idle"]
  /\ next = [r \in Request |-> 1]
  /\ acc = [r \in Request |-> {}]
  /\ elapsed = [r \in Request |-> 0]
  /\ reply = [r \in Request |-> {}]
  /\ heard = [r \in Request |-> FALSE]
  /\ unseen = [m \in Listed |-> IF \E u \in 1..N : m \in Announced(u) THEN 0 ELSE Oldest]
  /\ steady = [m \in Listed |-> IF m \in Announced(1) THEN Oldest ELSE 0]

Change(u) ==
  /\ \/ /\ health' \in {[health EXCEPT ![u] = s] : s \in {"up", "down", "hung"} \ {health[u]}}
        /\ UNCHANGED loaded
     \/ /\ loaded' \in {[loaded EXCEPT ![u] = SymDiff(@, {m})] : m \in Loadable}
        /\ UNCHANGED health
  /\ unseen' = [m \in Listed |->
       IF \E v \in 1..N : health'[v] = "up" /\ m \in loaded'[v] THEN 0 ELSE unseen[m]]
  /\ steady' = [m \in Listed |->
       IF health'[1] = "up" /\ m \in loaded'[1] THEN steady[m] ELSE 0]
  /\ UNCHANGED <<cached, age, fetches, reply, heard>>

MUTTick_NoDeadline ==
  /\ age' = Least(age + 1, TTL)
  /\ elapsed' = [r \in Request |-> IF pc[r] = "fetch" THEN elapsed[r] + 1 ELSE elapsed[r]]
  /\ unseen' = [m \in Listed |->
       IF \E u \in 1..N : m \in Announced(u) THEN 0 ELSE Least(unseen[m] + 1, Oldest)]
  /\ steady' = [m \in Listed |->
       IF m \in Announced(1) THEN Least(steady[m] + 1, Oldest) ELSE 0]
  /\ reply' = [r \in Request |-> {}]
  /\ pc' = [r \in Request |-> IF pc[r] = "done" THEN "idle" ELSE pc[r]]
  /\ heard' = [r \in Request |-> heard[r] /\ pc[r] = "fetch"]
  /\ UNCHANGED <<health, loaded, cached, next, acc>>

\* Time passes, but not beyond the deadline of a request.  An answer is a
\* fact about the time at which it is given.
Tick ==
  /\ \A r \in Request : pc[r] = "fetch" => elapsed[r] < Timeout
  /\ age' = Least(age + 1, TTL)
  /\ elapsed' = [r \in Request |-> IF pc[r] = "fetch" THEN elapsed[r] + 1 ELSE elapsed[r]]
  /\ unseen' = [m \in Listed |->
       IF \E u \in 1..N : m \in Announced(u) THEN 0 ELSE Least(unseen[m] + 1, Oldest)]
  /\ steady' = [m \in Listed |->
       IF m \in Announced(1) THEN Least(steady[m] + 1, Oldest) ELSE 0]
  /\ reply' = [r \in Request |-> {}]
  /\ pc' = [r \in Request |-> IF pc[r] = "done" THEN "idle" ELSE pc[r]]
  /\ heard' = [r \in Request |-> heard[r] /\ pc[r] = "fetch"]
  /\ UNCHANGED <<health, loaded, cached, next, acc>>

-----------------------------------------------------------------------------
(* GET /v1/models *)

\* The variables of a fetch that has ended.
EndFetch(r) ==
  /\ next' = [next EXCEPT ![r] = 1]
  /\ acc' = [acc EXCEPT ![r] = {}]
  /\ elapsed' = [elapsed EXCEPT ![r] = 0]

\* models: the default model is always listed.
Answer(r, list) ==
  /\ pc' = [pc EXCEPT ![r] = "done"]
  /\ reply' = [reply EXCEPT ![r] = list \cup {Default}]

MUTHit_NilIsAList(r) ==
  /\ pc[r] = "idle"
  /\ age < TTL
  /\ heard' = [heard EXCEPT ![r] = TRUE]
  /\ Answer(r, IF cached = Nil THEN {} ELSE cached)
  /\ UNCHANGED <<health, loaded, cached, age, next, acc, elapsed, ages>>

MUTHit_SlidingTTL(r) ==
  /\ pc[r] = "idle"
  /\ cached # Nil
  /\ age < TTL
  /\ age' = 0
  /\ heard' = [heard EXCEPT ![r] = TRUE]
  /\ Answer(r, cached)
  /\ UNCHANGED <<health, loaded, cached, next, acc, elapsed, ages>>

\* list, with a cached list that is young enough.
Hit(r) ==
  /\ pc[r] = "idle"
  /\ cached # Nil
  /\ age < TTL
  /\ heard' = [heard EXCEPT ![r] = TRUE]
  /\ Answer(r, cached)
  /\ UNCHANGED <<health, loaded, cached, age, next, acc, elapsed, ages>>

\* list, without one: the mutex is given back before the upstreams are asked.
Miss(r) ==
  /\ pc[r] = "idle"
  /\ cached = Nil \/ age >= TTL
  /\ pc' = [pc EXCEPT ![r] = "fetch"]
  /\ UNCHANGED <<health, loaded, cached, age, next, acc, elapsed, reply, history>>

\* Router.ListModels, an upstream: one that refuses is passed over.
Ask(r) ==
  /\ pc[r] = "fetch"
  /\ next[r] <= N
  /\ health[next[r]] # "hung"
  /\ acc' = [acc EXCEPT ![r] = @ \cup Announced(next[r])]
  /\ next' = [next EXCEPT ![r] = @ + 1]
  /\ heard' = [heard EXCEPT ![r] = @ \/ health[next[r]] = "up"]
  /\ UNCHANGED <<health, loaded, cached, age, pc, elapsed, reply, ages>>

MUTExpire_Never(r) ==
  /\ FALSE
  /\ UNCHANGED vars

\* The deadline: this upstream and the ones after it fail.
Expire(r) ==
  /\ pc[r] = "fetch"
  /\ next[r] <= N
  /\ health[next[r]] = "hung"
  /\ elapsed[r] = Timeout
  /\ next' = [next EXCEPT ![r] = N + 1]
  /\ UNCHANGED <<health, loaded, cached, age, pc, acc, elapsed, reply, history>>

\* What Router.ListModels returns is nil when nothing was collected.
Result(r) == IF acc[r] = {} THEN Nil ELSE acc[r]

\* list never sees an error, the router has none: the cached list, promised
\* in a comment for this case, is replaced even if no upstream has answered.
StoreList(r) ==
  /\ pc[r] = "fetch"
  /\ next[r] > N
  /\ cached' = Result(r)
  /\ age' = 0
  /\ Answer(r, acc[r])
  /\ EndFetch(r)
  /\ UNCHANGED <<health, loaded, history>>

\* The client goes away: its context is cancelled, the upstreams not asked
\* yet fail, and what was collected so far is stored all the same.
ClientLeaves(r) ==
  /\ pc[r] = "fetch"
  /\ next[r] <= N
  /\ cached' = Result(r)
  /\ age' = 0
  /\ pc' = [pc EXCEPT ![r] = "idle"]
  /\ heard' = [heard EXCEPT ![r] = FALSE]
  /\ EndFetch(r)
  /\ UNCHANGED <<health, loaded, reply, ages>>

-----------------------------------------------------------------------------

Serve(r) == Hit(r) \/ Miss(r) \/ Ask(r) \/ Expire(r) \/ StoreList(r)

Next ==
  \/ Tick
  \/ \E u \in 1..N : Change(u)
  \/ \E r \in Request : Serve(r) \/ ClientLeaves(r)

Spec == Init /\ [][Next]_vars

\* The clock goes on, and so does a handler that has something to do.
FairSpec ==
  /\ Spec
  /\ WF_vars(Tick)
  /\ \A r \in Request : WF_vars(Ask(r) \/ Expire(r) \/ StoreList(r))
=============================================================================
