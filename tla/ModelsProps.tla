---------------------------- MODULE ModelsProps ----------------------------
(***************************************************************************)
(* The properties of module Models.                                        *)
(***************************************************************************)
EXTENDS Models

(* The types of the upstreams, the cache and the requests. *)
TypeOK ==
  /\ health \in [1..N -> {"up", "down", "hung"}]
  /\ loaded \in [1..N -> SUBSET Model]
  /\ cached \in (SUBSET Model) \cup {Nil}
  /\ age \in 0..TTL
  /\ pc \in [Request -> {"idle", "fetch", "done"}]
  /\ next \in [Request -> 1..(N + 1)]
  /\ acc \in [Request -> SUBSET Model]
  /\ elapsed \in [Request -> 0..Timeout]
  /\ reply \in [Request -> SUBSET Model]
  /\ heard \in [Request -> BOOLEAN]
  /\ unseen \in [Listed -> 0..Oldest]
  /\ steady \in [Listed -> 0..Oldest]

\* What a request has collected: models that were announced since it began;
\* once the first upstream was asked, all that it announced all that time.
CollectedInv ==
  \A r \in Request :
    /\ pc[r] # "fetch" => next[r] = 1 /\ elapsed[r] = 0
    /\ pc[r] # "done" => reply[r] = {}
    /\ next[r] = 1 => acc[r] = {}
    /\ \A m \in acc[r] \cap Listed : unseen[m] <= elapsed[r]
    /\ next[r] > 1 => \A m \in Listed : steady[m] > elapsed[r] => m \in acc[r]

\* The same of the cached list, which may have been collected for Timeout.
CachedInv ==
  cached # Nil =>
    /\ \A m \in cached \cap Listed : unseen[m] <= age + Timeout
    /\ \A m \in Listed : steady[m] > age + Timeout => m \in cached

\* The two histories are about what the upstreams announce.
HistoryInv ==
  \A m \in Listed :
    /\ (\E u \in 1..N : m \in Announced(u)) => unseen[m] = 0
    /\ m \notin Announced(1) => steady[m] = 0

(* README.md:163-167 ("los modelos disponibles en ese momento"): whatever the
   order in which overlapping fetches are stored, a model is listed only if
   an upstream announced it within the life of a cached list and the deadline
   of a fetch.  This is about lists that some upstream had a part in: to a
   request that none answers models.go:48-50 promises the cached list, however
   old (but see StoreList). *)
ListedIsRecent ==
  \A r \in Request : heard[r] => \A m \in reply[r] \cap Listed : unseen[m] < Oldest

(* Router.ListModels asks the upstreams in turn and swallows their errors, and
   a cancelled request stores what it has.  Nevertheless, a model that the
   first upstream has announced all that time is in every list. *)
SteadyIsListed ==
  \A r \in Request, m \in Listed :
    pc[r] = "done" /\ steady[m] = Oldest => m \in reply[r]

(* The inductive invariant behind the two properties above. *)
ModelsInv ==
  /\ TypeOK
  /\ CollectedInv
  /\ CachedInv
  /\ HistoryInv
  /\ ListedIsRecent
  /\ SteadyIsListed

(* models (models.go:65-67): its context ends every request, also with an
   upstream that never answers. *)
EveryRequestEnds ==
  \A r \in Request : pc[r] = "fetch" ~> pc[r] # "fetch"

=============================================================================
