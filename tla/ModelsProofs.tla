---------------------------- MODULE ModelsProofs ----------------------------
(***************************************************************************)
(* Proofs about module Models: what is listed is recent, and what the      *)
(* first upstream announces steadily is listed.                            *)
(***************************************************************************)
EXTENDS ModelsProps, DataFacts

(* The arithmetic of ages that stop counting at a bound. *)
LEMMA LeastFacts ==
  ASSUME NEW i \in Nat, NEW n \in Nat, i <= n
  PROVE  /\ Least(i + 1, n) \in 0..n
         /\ Least(i + 1, n) <= i + 1
         /\ Least(i + 1, n) < n => Least(i + 1, n) = i + 1
BY DEF Least

(* The bounds on the ages are numbers. *)
LEMMA BoundsType ==
  /\ TTL \in Nat \ {0} /\ Timeout \in Nat \ {0}
  /\ Oldest \in Nat /\ Oldest = TTL + Timeout
BY ModelsAssumption DEF Oldest

(* At the start nothing is cached and nobody asks. *)
LEMMA InitInv == Init => ModelsInv
<1> SUFFICES ASSUME Init PROVE ModelsInv
  OBVIOUS
<1>0. N \in Nat /\ N # 0
  BY ModelsAssumption
<1>1. TypeOK
  <2>1. /\ 1 \in 1..(N + 1) /\ TTL \in 0..TTL /\ 0 \in 0..Timeout
        /\ 0 \in 0..Oldest /\ Oldest \in 0..Oldest
    BY <1>0, BoundsType
  <2>2. health \in [1..N -> {"up", "down", "hung"}] /\ loaded \in [1..N -> SUBSET Model]
    BY DEF Init
  <2>. QED  BY <2>1, <2>2 DEF Init, TypeOK
<1>2. HistoryInv
  BY DEF Init, HistoryInv
<1>. QED
  BY <1>1, <1>2
  DEF Init, ModelsInv, CollectedInv, CachedInv, ListedIsRecent, SteadyIsListed

(* An upstream that comes, goes or changes its models makes no model older and
   none steadier. *)
LEMMA ChangeInv ==
  ASSUME ModelsInv, NEW u \in 1..N, Change(u)
  PROVE  ModelsInv'
<1>0. N \in Nat /\ N # 0 /\ 1 \in 1..N
  BY ModelsAssumption
<1>1. /\ health' \in [1..N -> {"up", "down", "hung"}]
      /\ loaded' \in [1..N -> SUBSET Model]
  <2>1. CASE UNCHANGED loaded
    BY <2>1 DEF ModelsInv, TypeOK, Change
  <2>2. CASE UNCHANGED health
    <3>1. PICK m \in Loadable : loaded' = [loaded EXCEPT ![u] = SymDiff(@, {m})]
      BY <2>2 DEF Change, ModelsInv, TypeOK
    <3>2. SymDiff(loaded[u], {m}) \subseteq Model
      BY ModelsAssumption DEF SymDiff, ModelsInv, TypeOK
    <3>. QED  BY <2>2, <3>1, <3>2 DEF ModelsInv, TypeOK
  <2>. QED  BY <2>1, <2>2 DEF Change
<1>2. \A v \in 1..N, m \in Listed :
        m \in Announced(v)' <=> health'[v] = "up" /\ m \in loaded'[v]
  BY DEF Announced
<1>3. ASSUME NEW m \in Listed
      PROVE  /\ unseen'[m] \in 0..Oldest /\ unseen'[m] <= unseen[m]
             /\ steady'[m] \in 0..Oldest /\ steady'[m] <= steady[m]
             /\ (\E v \in 1..N : m \in Announced(v)') => unseen'[m] = 0
             /\ m \notin Announced(1)' => steady'[m] = 0
  BY <1>0, <1>2, BoundsType DEF ModelsInv, TypeOK, Change
<1>4. UNCHANGED <<cached, age, pc, next, acc, elapsed, reply, heard>>
  BY DEF Change, fetches
<1>5. TypeOK'
  BY <1>1, <1>3, <1>4 DEF ModelsInv, TypeOK, Change
<1>6. CollectedInv'
  BY <1>3, <1>4, <1>5 DEF ModelsInv, TypeOK, CollectedInv
<1>7. CachedInv'
  BY <1>3, <1>4, <1>5, BoundsType DEF ModelsInv, TypeOK, CachedInv
<1>8. HistoryInv'
  BY <1>3 DEF HistoryInv
<1>9. ListedIsRecent' /\ SteadyIsListed'
  BY <1>3, <1>4, <1>5, BoundsType
  DEF ModelsInv, TypeOK, ListedIsRecent, SteadyIsListed
<1>. QED  BY <1>5, <1>6, <1>7, <1>8, <1>9 DEF ModelsInv

(* Time ages lists, fetches and histories alike. *)
LEMMA TickInv ==
  ASSUME ModelsInv, Tick
  PROVE  ModelsInv'
<1>0. N \in Nat /\ N # 0 /\ 1 \in 1..N
  BY ModelsAssumption
<1>1. \A v \in 1..N : Announced(v)' = Announced(v)
  BY DEF Tick, Announced
<1>2. ASSUME NEW m \in Listed
      PROVE  /\ unseen'[m] \in 0..Oldest /\ unseen'[m] <= unseen[m] + 1
             /\ steady'[m] \in 0..Oldest /\ steady'[m] <= steady[m] + 1
             /\ (\E v \in 1..N : m \in Announced(v)') => unseen'[m] = 0
             /\ m \notin Announced(1)' => steady'[m] = 0
  <2>1. unseen[m] \in 0..Oldest /\ steady[m] \in 0..Oldest
    BY DEF ModelsInv, TypeOK
  <2>2. /\ unseen'[m] = IF \E v \in 1..N : m \in Announced(v)
                          THEN 0 ELSE Least(unseen[m] + 1, Oldest)
        /\ steady'[m] = IF m \in Announced(1) THEN Least(steady[m] + 1, Oldest) ELSE 0
    BY DEF Tick
  <2>. QED  BY <1>0, <1>1, <2>1, <2>2, BoundsType, LeastFacts
<1>3. /\ age' \in 0..TTL /\ age' <= age + 1
      /\ age' < TTL => age' = age + 1
  BY BoundsType, LeastFacts DEF ModelsInv, TypeOK, Tick
<1>4. ASSUME NEW r \in Request
      PROVE  /\ elapsed'[r] \in 0..Timeout
             /\ elapsed'[r] = IF pc[r] = "fetch" THEN elapsed[r] + 1 ELSE elapsed[r]
             /\ reply'[r] = {} /\ acc'[r] = acc[r] /\ next'[r] = next[r]
             /\ pc'[r] = IF pc[r] = "done" THEN "idle" ELSE pc[r]
             /\ heard'[r] \in BOOLEAN
  BY BoundsType DEF ModelsInv, TypeOK, Tick
<1>5. TypeOK'
  BY <1>2, <1>3, <1>4 DEF ModelsInv, TypeOK, Tick
<1>6. CollectedInv'
  <2> SUFFICES ASSUME NEW r \in Request
               PROVE  /\ pc'[r] # "fetch" => next'[r] = 1 /\ elapsed'[r] = 0
                      /\ pc'[r] # "done" => reply'[r] = {}
                      /\ next'[r] = 1 => acc'[r] = {}
                      /\ \A m \in acc'[r] \cap Listed : unseen'[m] <= elapsed'[r]
                      /\ next'[r] > 1 =>
                           \A m \in Listed : steady'[m] > elapsed'[r] => m \in acc'[r]
    BY DEF CollectedInv
  <2>1. /\ pc[r] # "fetch" => next[r] = 1 /\ elapsed[r] = 0
        /\ next[r] = 1 => acc[r] = {}
        /\ \A m \in acc[r] \cap Listed : unseen[m] <= elapsed[r]
        /\ next[r] > 1 => \A m \in Listed : steady[m] > elapsed[r] => m \in acc[r]
    BY DEF ModelsInv, CollectedInv
  <2>2. /\ elapsed[r] \in Nat /\ next[r] \in Nat
        /\ \A m \in Listed : unseen[m] \in Nat /\ steady[m] \in Nat
    BY BoundsType, ModelsAssumption DEF ModelsInv, TypeOK
  <2>3. CASE pc[r] = "fetch"
    BY <1>2, <1>4, <2>1, <2>2, <2>3
  <2>4. CASE pc[r] # "fetch"
    BY <1>4, <2>1, <2>4
  <2>. QED  BY <2>3, <2>4
<1>7. CachedInv'
  <2> SUFFICES ASSUME cached # Nil
               PROVE  /\ \A m \in cached \cap Listed : unseen'[m] <= age' + Timeout
                      /\ \A m \in Listed : steady'[m] > age' + Timeout => m \in cached
    BY DEF CachedInv, Tick
  <2>1. /\ \A m \in cached \cap Listed : unseen[m] <= age + Timeout
        /\ \A m \in Listed : steady[m] > age + Timeout => m \in cached
    BY DEF ModelsInv, CachedInv
  <2>2. /\ age \in Nat /\ age' \in Nat
        /\ \A m \in Listed : unseen[m] \in Nat /\ steady[m] \in Nat
    BY <1>3, BoundsType DEF ModelsInv, TypeOK
  <2>3. CASE age' < TTL
    BY <1>2, <1>3, <2>1, <2>2, <2>3, BoundsType
  <2>4. CASE age' = TTL
    BY <1>2, <2>4, BoundsType
  <2>. QED  BY <1>3, <2>3, <2>4, BoundsType
<1>8. HistoryInv'
  BY <1>2 DEF HistoryInv
<1>9. ListedIsRecent' /\ SteadyIsListed'
  BY <1>4 DEF ListedIsRecent, SteadyIsListed
<1>. QED  BY <1>5, <1>6, <1>7, <1>8, <1>9 DEF ModelsInv
(* A cached list that is young enough is recent, and has what was steady. *)
LEMMA HitInv ==
  ASSUME ModelsInv, NEW r \in Request, Hit(r)
  PROVE  ModelsInv'
<1>1. /\ cached # Nil /\ age < TTL /\ pc[r] = "idle"
      /\ pc' = [pc EXCEPT ![r] = "done"]
      /\ reply' = [reply EXCEPT ![r] = cached \cup {Default}]
      /\ heard' = [heard EXCEPT ![r] = TRUE]
      /\ UNCHANGED <<health, loaded, cached, age, next, acc, elapsed, unseen, steady>>
  BY DEF Hit, Answer, ages
<1>2. cached \subseteq Model /\ Default \in Model
  BY <1>1, ModelsAssumption DEF ModelsInv, TypeOK
<1>3. TypeOK'
  BY <1>1, <1>2 DEF ModelsInv, TypeOK
<1>4. CollectedInv' /\ CachedInv' /\ HistoryInv'
  BY <1>1 DEF ModelsInv, TypeOK, CollectedInv, CachedInv, HistoryInv, Announced
<1>5. /\ \A m \in cached \cap Listed : unseen[m] < Oldest
      /\ \A m \in Listed : steady[m] = Oldest => m \in cached
  BY <1>1, BoundsType DEF ModelsInv, TypeOK, CachedInv
<1>6. ListedIsRecent' /\ SteadyIsListed'
  BY <1>1, <1>5 DEF ModelsInv, TypeOK, ListedIsRecent, SteadyIsListed, Listed
<1>. QED  BY <1>3, <1>4, <1>6 DEF ModelsInv

(* A request that goes and asks has collected nothing. *)
LEMMA MissInv ==
  ASSUME ModelsInv, NEW r \in Request, Miss(r)
  PROVE  ModelsInv'
<1>1. TypeOK'
  BY DEF ModelsInv, TypeOK, Miss, history, ages
<1>2. CollectedInv' /\ CachedInv' /\ HistoryInv' /\ ListedIsRecent' /\ SteadyIsListed'
  BY DEF ModelsInv, TypeOK, CollectedInv, CachedInv, HistoryInv, Announced,
         ListedIsRecent, SteadyIsListed, Miss, history, ages
<1>. QED  BY <1>1, <1>2 DEF ModelsInv

(* What an upstream announces it announces now; the first one is asked first. *)
LEMMA AskInv ==
  ASSUME ModelsInv, NEW r \in Request, Ask(r)
  PROVE  ModelsInv'
<1>0. N \in Nat /\ N # 0 /\ 1 \in 1..N
  BY ModelsAssumption
<1> DEFINE u == next[r]
<1>1. /\ pc[r] = "fetch" /\ u \in 1..N
      /\ acc' = [acc EXCEPT ![r] = @ \cup Announced(u)]
      /\ next' = [next EXCEPT ![r] = @ + 1]
      /\ heard' = [heard EXCEPT ![r] = @ \/ health[u] = "up"]
      /\ UNCHANGED <<health, loaded, cached, age, pc, elapsed, reply, unseen, steady>>
  BY <1>0 DEF ModelsInv, TypeOK, Ask, ages
<1>2. Announced(u) \subseteq Model
  BY <1>1 DEF ModelsInv, TypeOK, Announced
<1>3. TypeOK'
  <2>1. heard' \in [Request -> BOOLEAN]
    BY <1>1 DEF ModelsInv, TypeOK
  <2>. QED  BY <1>0, <1>1, <1>2, <2>1 DEF ModelsInv, TypeOK
<1>4. /\ \A m \in Announced(u) \cap Listed : unseen[m] = 0
      /\ \A m \in Listed : steady[m] > 0 => m \in Announced(1)
      /\ elapsed[r] \in Nat
      /\ \A m \in Listed : steady[m] \in Nat
  BY <1>1, BoundsType DEF ModelsInv, TypeOK, HistoryInv
<1>5. CollectedInv'
  <2>1. /\ acc'[r] = acc[r] \cup Announced(u) /\ next'[r] = u + 1
        /\ \A q \in Request \ {r} : acc'[q] = acc[q] /\ next'[q] = next[q]
    BY <1>1 DEF ModelsInv, TypeOK
  <2>2. \A m \in acc'[r] \cap Listed : unseen[m] <= elapsed[r]
    BY <1>4, <2>1 DEF ModelsInv, CollectedInv
  <2>3. ASSUME NEW m \in Listed, steady[m] > elapsed[r] PROVE m \in acc'[r]
    <3>1. CASE u = 1
      BY <1>4, <2>1, <2>3, <3>1
    <3>2. CASE u > 1
      BY <2>1, <2>3, <3>2 DEF ModelsInv, CollectedInv
    <3>. QED  BY <1>0, <1>1, <3>1, <3>2
  <2>4. next'[r] # 1
    BY <1>0, <1>1, <2>1
  <2>. QED  BY <1>1, <2>1, <2>2, <2>3, <2>4 DEF ModelsInv, CollectedInv
<1>6. CachedInv' /\ HistoryInv' /\ SteadyIsListed'
  BY <1>1 DEF ModelsInv, CachedInv, HistoryInv, Announced, SteadyIsListed
<1>7. ListedIsRecent'
  <2>1. reply[r] = {} /\ \A q \in Request \ {r} : heard'[q] = heard[q]
    BY <1>1 DEF ModelsInv, TypeOK, CollectedInv
  <2>. QED  BY <1>1, <2>1 DEF ModelsInv, ListedIsRecent
<1>. QED  BY <1>3, <1>5, <1>6, <1>7 DEF ModelsInv

(* Where the deadline passes the first upstream over, nothing is steady. *)
LEMMA ExpireInv ==
  ASSUME ModelsInv, NEW r \in Request, Expire(r)
  PROVE  ModelsInv'
<1>0. N \in Nat /\ N # 0 /\ 1 \in 1..N
  BY ModelsAssumption
<1>1. /\ pc[r] = "fetch" /\ next[r] \in 1..N /\ health[next[r]] = "hung"
      /\ next' = [next EXCEPT ![r] = N + 1]
      /\ UNCHANGED <<health, loaded, cached, age, pc, acc, elapsed, reply,
                     heard, unseen, steady>>
  BY <1>0 DEF ModelsInv, TypeOK, Expire, history, ages
<1>2. TypeOK'
  BY <1>0, <1>1 DEF ModelsInv, TypeOK
<1>3. ASSUME NEW m \in Listed, steady[m] > elapsed[r] PROVE m \in acc[r]
  <2>1. CASE next[r] = 1
    <3>1. steady[m] = 0
      BY <1>1, <2>1 DEF ModelsInv, HistoryInv, Announced
    <3>2. elapsed[r] \in Nat
      BY BoundsType DEF ModelsInv, TypeOK
    <3>. QED  BY <1>3, <3>1, <3>2
  <2>2. CASE next[r] > 1
    BY <1>3, <2>2 DEF ModelsInv, CollectedInv
  <2>. QED  BY <1>0, <1>1, <2>1, <2>2
<1>4. CollectedInv'
  BY <1>0, <1>1, <1>3 DEF ModelsInv, TypeOK, CollectedInv
<1>5. CachedInv' /\ HistoryInv' /\ ListedIsRecent' /\ SteadyIsListed'
  BY <1>1 DEF ModelsInv, CachedInv, HistoryInv, Announced, ListedIsRecent, SteadyIsListed
<1>. QED  BY <1>2, <1>4, <1>5 DEF ModelsInv

(* What a fetch stores is at most as old as its deadline allows; a fetch that
   stores a list, complete or not, has asked the first upstream. *)
LEMMA StoredFacts ==
  ASSUME ModelsInv, NEW r \in Request, pc[r] = "fetch",
         cached' = Result(r), age' = 0, UNCHANGED <<health, loaded, unseen, steady>>
  PROVE  /\ cached' \in (SUBSET Model) \cup {Nil}
         /\ CachedInv' /\ HistoryInv'
<1>0. Nil \notin SUBSET Model
  BY ModelsAssumption
<1>1. cached' = IF acc[r] = {} THEN Nil ELSE acc[r]
  BY DEF Result
<1>2. acc[r] \subseteq Model /\ elapsed[r] \in 0..Timeout /\ next[r] \in 1..(N + 1)
  BY DEF ModelsInv, TypeOK
<1>3. CachedInv'
  <2> SUFFICES ASSUME cached' # Nil
               PROVE  /\ \A m \in cached' \cap Listed : unseen[m] <= 0 + Timeout
                      /\ \A m \in Listed : steady[m] > 0 + Timeout => m \in cached'
    BY DEF CachedInv
  <2>1. cached' = acc[r] /\ next[r] > 1
    BY <1>1, <1>2, ModelsAssumption DEF ModelsInv, CollectedInv
  <2>2. \A m \in Listed : unseen[m] \in Nat /\ steady[m] \in Nat
    BY BoundsType DEF ModelsInv, TypeOK
  <2>. QED  BY <1>2, <2>1, <2>2, BoundsType DEF ModelsInv, CollectedInv
<1>4. HistoryInv'
  BY DEF ModelsInv, HistoryInv, Announced
<1>. QED  BY <1>1, <1>2, <1>3, <1>4

(* The fetch of a request ends, with or without an answer. *)
LEMMA EndFetchInv ==
  ASSUME ModelsInv, NEW r \in Request, EndFetch(r), NEW s \in {"idle", "done"},
         pc' = [pc EXCEPT ![r] = s], UNCHANGED <<unseen, steady>>,
         \A q \in Request : pc'[q] # "done" => reply'[q] = {}
  PROVE  CollectedInv'
<1>1. /\ next'[r] = 1 /\ acc'[r] = {} /\ elapsed'[r] = 0 /\ pc'[r] = s
      /\ \A q \in Request \ {r} : /\ next'[q] = next[q] /\ acc'[q] = acc[q]
                                  /\ elapsed'[q] = elapsed[q] /\ pc'[q] = pc[q]
  BY DEF ModelsInv, TypeOK, EndFetch
<1>. QED  BY <1>1 DEF ModelsInv, CollectedInv

LEMMA StoreListInv ==
  ASSUME ModelsInv, NEW r \in Request, StoreList(r)
  PROVE  ModelsInv'
<1>0. N \in Nat /\ N # 0
  BY ModelsAssumption
<1>1. /\ pc[r] = "fetch" /\ next[r] > N /\ cached' = Result(r) /\ age' = 0
      /\ EndFetch(r)
      /\ pc' = [pc EXCEPT ![r] = "done"]
      /\ reply' = [reply EXCEPT ![r] = acc[r] \cup {Default}]
      /\ UNCHANGED <<health, loaded, heard, unseen, steady>>
  BY DEF StoreList, Answer, history, ages
<1>2. acc[r] \subseteq Model /\ Default \in Model /\ 1 \in 1..(N + 1)
  BY <1>0, ModelsAssumption DEF ModelsInv, TypeOK
<1>3. CachedInv' /\ HistoryInv' /\ cached' \in (SUBSET Model) \cup {Nil}
  BY <1>1, StoredFacts
<1>4. TypeOK'
  BY <1>1, <1>2, <1>3, BoundsType DEF ModelsInv, TypeOK, EndFetch
<1>5. CollectedInv'
  <2>1. \A q \in Request : pc'[q] # "done" => reply'[q] = {}
    BY <1>1 DEF ModelsInv, TypeOK, CollectedInv
  <2>. QED  BY <1>1, <2>1, EndFetchInv
<1>6. /\ \A m \in acc[r] \cap Listed : unseen[m] < Oldest
      /\ \A m \in Listed : steady[m] = Oldest => m \in acc[r]
  <2>1. elapsed[r] \in 0..Timeout /\ next[r] > 1
    BY <1>0, <1>1 DEF ModelsInv, TypeOK
  <2>2. \A m \in Listed : unseen[m] \in Nat /\ steady[m] \in Nat
    BY BoundsType DEF ModelsInv, TypeOK
  <2>. QED  BY <2>1, <2>2, BoundsType DEF ModelsInv, CollectedInv
<1>7. ListedIsRecent' /\ SteadyIsListed'
  BY <1>1, <1>6 DEF ModelsInv, TypeOK, ListedIsRecent, SteadyIsListed, Listed
<1>. QED  BY <1>3, <1>4, <1>5, <1>7 DEF ModelsInv

LEMMA ClientLeavesInv ==
  ASSUME ModelsInv, NEW r \in Request, ClientLeaves(r)
  PROVE  ModelsInv'
<1>1. /\ pc[r] = "fetch" /\ cached' = Result(r) /\ age' = 0
      /\ EndFetch(r)
      /\ pc' = [pc EXCEPT ![r] = "idle"]
      /\ heard' = [heard EXCEPT ![r] = FALSE]
      /\ UNCHANGED <<health, loaded, reply, unseen, steady>>
  BY DEF ClientLeaves, ages
<1>2. CachedInv' /\ HistoryInv' /\ cached' \in (SUBSET Model) \cup {Nil}
  BY <1>1, StoredFacts
<1>3. TypeOK'
  <2>1. 1 \in 1..(N + 1)
    BY ModelsAssumption
  <2>. QED  BY <1>1, <1>2, <2>1, BoundsType DEF ModelsInv, TypeOK, EndFetch
<1>4. CollectedInv'
  <2>1. \A q \in Request : pc'[q] # "done" => reply'[q] = {}
    BY <1>1 DEF ModelsInv, TypeOK, CollectedInv
  <2>. QED  BY <1>1, <2>1, EndFetchInv
<1>5. ListedIsRecent' /\ SteadyIsListed'
  BY <1>1 DEF ModelsInv, TypeOK, ListedIsRecent, SteadyIsListed
<1>. QED  BY <1>2, <1>3, <1>4, <1>5 DEF ModelsInv

(* Every step of the list of models preserves the inductive invariant. *)
LEMMA NextInv == ModelsInv /\ [Next]_vars => ModelsInv'
<1> SUFFICES ASSUME ModelsInv, [Next]_vars PROVE ModelsInv'
  OBVIOUS
<1>1. CASE UNCHANGED vars
  BY <1>1
  DEF ModelsInv, TypeOK, CollectedInv, CachedInv, HistoryInv, Announced,
      ListedIsRecent, SteadyIsListed, vars, fetches, history, ages
<1>2. CASE Tick
  BY <1>2, TickInv
<1>3. ASSUME NEW u \in 1..N, Change(u) PROVE ModelsInv'
  BY <1>3, ChangeInv
<1>4. ASSUME NEW r \in Request, Serve(r) \/ ClientLeaves(r) PROVE ModelsInv'
  BY <1>4, HitInv, MissInv, AskInv, ExpireInv, StoreListInv, ClientLeavesInv DEF Serve
<1>. QED  BY <1>1, <1>2, <1>3, <1>4 DEF Next

(* The inductive invariant of the model list and its cache. *)
THEOREM ModelsInvHolds == Spec => []ModelsInv
<1>. QED  BY InitInv, NextInv, PTL DEF Spec

(* For any upstreams, requests, TTL and deadline, and in whatever order fetches
   overlap: a model in a list that some upstream had a part in was announced
   within TTL + Timeout. *)
THEOREM ListedIsRecentHolds == Spec => []ListedIsRecent
<1>1. ModelsInv => ListedIsRecent
  BY DEF ModelsInv
<1>. QED  BY <1>1, ModelsInvHolds, PTL

(* And a model that the first upstream has announced all that time is listed,
   whichever other upstreams fail and whichever clients leave. *)
THEOREM SteadyIsListedHolds == Spec => []SteadyIsListed
<1>1. ModelsInv => SteadyIsListed
  BY DEF ModelsInv
<1>. QED  BY <1>1, ModelsInvHolds, PTL
=============================================================================
