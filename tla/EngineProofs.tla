---------------------------- MODULE EngineProofs ----------------------------
(***************************************************************************)
(* Proofs about module Engine, for plans of any shape, any number of       *)
(* rounds, calls and failures.  The inductive invariant is EngineInv.      *)
(***************************************************************************)
EXTENDS EngineProps, DataFacts, FiniteSetTheorems, TLAPS

-----------------------------------------------------------------------------
(* Listings *)

(* The leaves: each is an atomic task, each atomic task is one, and none is
   a part of another. *)
LEMMA LeavesFacts ==
  ASSUME NEW S, IsFiniteSet(S), S \subseteq Path,
         NEW ls \in Listings(S, Before)
  PROVE  /\ ls \in Seq(Path)
         /\ Len(ls) = Cardinality(S)
         /\ \A i \in 1..Len(ls) : ls[i] \in S
         /\ \A i, j \in 1..Len(ls) : IsPrefix(ls[i], ls[j]) => i = j
         /\ \A p \in S : \E i \in 1..Len(ls) : ls[i] = p
<1>1. Cardinality(S) \in Nat
  BY FS_CardinalityType
<1>2. /\ ls \in [1..Cardinality(S) -> S]
      /\ \A i, j \in 1..Cardinality(S) : i < j => Before(ls[i], ls[j])
  BY DEF Listings
<1>3. ls \in Seq(S) /\ Len(ls) = Cardinality(S)
  BY <1>1, <1>2
<1>4. ls \in Seq(Path)
  BY <1>3, SeqMonotonic
<1>5. \A i \in 1..Len(ls) : ls[i] \in S
  BY <1>2, <1>3
<1>6. ASSUME NEW p \in Path, NEW q \in Path, Before(p, q)
      PROVE  ~IsPrefix(p, q) /\ ~IsPrefix(q, p)
  <2>1. PICK i \in 1..Len(p) : i <= Len(q) /\ p[i] < q[i]
    BY <1>6 DEF Before
  <2>2. Len(p) \in Nat /\ Len(q) \in Nat
    BY LenProperties DEF Path
  <2>3. p[i] \in Nat /\ q[i] \in Nat
    <3>1. i \in 1..Len(p) /\ i \in 1..Len(q)
      BY <2>1, <2>2
    <3>2. p[i] \in 1..MaxSubtasks /\ q[i] \in 1..MaxSubtasks
      BY <3>1, ElementOfSeq DEF Path
    <3>. QED  BY <3>2, ConstantsAssumption
  <2>4. p[i] # q[i]
    BY <2>1, <2>3
  <2>. QED  BY <2>1, <2>2, <2>4, PrefixDef DEF Path
<1>7. ASSUME NEW i \in 1..Len(ls), NEW j \in 1..Len(ls), i # j
      PROVE  ~IsPrefix(ls[i], ls[j])
  <2>1. ls[i] \in Path /\ ls[j] \in Path
    BY <1>5
  <2>2. CASE i < j
    BY <1>2, <1>3, <1>6, <2>1, <2>2
  <2>3. CASE j < i
    BY <1>2, <1>3, <1>6, <2>1, <2>3
  <2>4. i \in Nat /\ j \in Nat
    BY <1>1, <1>3
  <2>. QED  BY <1>7, <2>2, <2>3, <2>4
<1>8. \A p \in S : \E i \in 1..Len(ls) : ls[i] = p
  <2>1. ls \in Injection(1..Len(ls), S)
    <3>1. ASSUME NEW i \in 1..Len(ls), NEW j \in 1..Len(ls), ls[i] = ls[j]
          PROVE  i = j
      <4>1. IsPrefix(ls[i], ls[j])
        BY <1>5, <3>1, PrefixRefl DEF Path
      <4>. QED  BY <1>7, <4>1
    <3>. QED  BY <1>2, <1>3, <3>1 DEF Injection, IsInjective
  <2>2. Cardinality(1..Len(ls)) = Cardinality(S)
    BY <1>1, <1>3, FS_Interval
  <2>3. ls \in Surjection(1..Len(ls), S)
    BY <2>1, <2>2, FS_Injection
  <2>. QED  BY <2>3 DEF Surjection
<1>. QED  BY <1>3, <1>4, <1>5, <1>7, <1>8

(* The calls a round pauses for are calls, and there is one if no number is
   left out. *)
LEMMA StreamedCallsFacts ==
  ASSUME NEW cs \in StreamedCalls
  PROVE  /\ cs \in Seq(CallId)
         /\ GapFree => cs # <<>>
         /\ Obedient => Offered
<1>0. PICK I \in IndexSets : \E acc \in [I -> CallId] : cs \in CollectToolCalls(acc)
  BY DEF StreamedCalls
<1>1. PICK acc \in [I -> CallId] : cs \in CollectToolCalls(acc)
  BY <1>0
<1>2. I \subseteq Nat /\ IsFiniteSet(I) /\ I # {}
  BY ConstantsAssumption
<1> DEFINE visited == {i \in DOMAIN acc : i < Cardinality(DOMAIN acc)}
<1>3. visited \subseteq I /\ IsFiniteSet(visited) /\ Cardinality(visited) \in Nat
  BY <1>2, FS_Subset, FS_CardinalityType
<1>4. PICK s \in Listings(visited, InOrder) : cs = [k \in DOMAIN s |-> acc[s[k]]]
  BY <1>1 DEF CollectToolCalls
<1>5. s \in [1..Cardinality(visited) -> visited]
  BY <1>4 DEF Listings
<1>6. cs \in [1..Cardinality(visited) -> CallId]
  BY <1>1, <1>3, <1>4, <1>5
<1> DEFINE n == Cardinality(visited)
<1>7. cs \in Seq(CallId) /\ Len(cs) = n
  <2>1. n \in Nat /\ cs \in [1..n -> CallId]
    BY <1>3, <1>6
  <2> HIDE DEF n
  <2>. QED  BY <2>1
<1>8. ASSUME GapFree PROVE cs # <<>>
  <2>1. 0 \in visited
    <3>1. Cardinality(I) \in Nat /\ Cardinality(I) # 0
      BY <1>2, FS_CardinalityType, FS_EmptySet
    <3>. QED  BY <1>1, <1>8, <3>1 DEF GapFree
  <2>2. Cardinality(visited) # 0
    BY <1>3, <2>1, FS_EmptySet
  <2>. QED  BY <1>3, <1>7, <2>2
<1>9. Obedient => Offered
  BY DEF StreamedCalls
<1>. QED  BY <1>7, <1>8, <1>9

-----------------------------------------------------------------------------
(* The inductive invariant *)

(* Nothing is pending is a pending state. *)
LEMMA NoPendingType == NoPending \in Pending
BY DEF NoPending, Pending

(* At the start there is neither a tree nor a row. *)
LEMMA InitInv == Init => EngineInv
<1> SUFFICES ASSUME Init PROVE EngineInv
  OBVIOUS
<1>1. TypeOK
  <2>1. <<>> \in Seq(Path) /\ <<>> \in Seq(Result) /\ 0 \in 0..MaxFailures
    BY ConstantsAssumption
  <2>. QED  BY <2>1, NoPendingType DEF Init, TypeOK
<1>2. TreeInv
  BY FS_EmptySet DEF Init, TreeInv, Executing
<1>3. RunInv
  BY DEF Init, RunInv, ResultsFollowLeaves, Executing
<1>4. SavedInv
  BY DEF Init, SavedInv
<1>. QED  BY <1>1, <1>2, <1>3, <1>4 DEF EngineInv

(* A step that ends a request leaves nothing but the row. *)
LEMMA DropInv ==
  ASSUME EngineInv, Drop, UNCHANGED saved, heard' \in BOOLEAN,
         heard' => saved # NoRow, failures' \in 0..MaxFailures
  PROVE  EngineInv'
<1>1. TypeOK'
  <2>1. <<>> \in Seq(Path) /\ <<>> \in Seq(Result) /\ 0 \in Nat
    OBVIOUS
  <2>. QED  BY <2>1, NoPendingType DEF EngineInv, TypeOK, Drop
<1>2. TreeInv'
  BY FS_EmptySet DEF Drop, TreeInv, Executing
<1>3. RunInv'
  BY DEF Drop, RunInv, ResultsFollowLeaves, Executing
<1>4. SavedInv'
  BY DEF EngineInv, SavedInv, Drop, Executing
<1>. QED  BY <1>1, <1>2, <1>3, <1>4 DEF EngineInv

(* Steps of the decomposition after which it still goes on. *)
LEMMA PlanningInv ==
  ASSUME EngineInv, TypeOK', TreeInv', pc \in {"idle", "plan"}, saved = NoRow,
         pc' = "plan", UNCHANGED <<workVars, saved, heard>>
  PROVE  EngineInv'
<1>1. RunInv'
  BY DEF EngineInv, RunInv, ResultsFollowLeaves, Executing, workVars
<1>2. SavedInv'
  BY DEF EngineInv, SavedInv
<1>. QED  BY <1>1, <1>2 DEF EngineInv

LEMMA RunStepInv == EngineInv /\ Run => EngineInv'
<1> SUFFICES ASSUME EngineInv, Run PROVE EngineInv'
  OBVIOUS
<1>1. <<>> \in Path /\ Len(<<>>) = 0
  BY DEF Path
<1>2. TypeOK'
  BY <1>1 DEF EngineInv, TypeOK, Run, workVars
<1>3. TreeInv'
  <2>1. IsPrefix(<<>>, <<>>)
    BY <1>1, PrefixRefl DEF Path
  <2>. QED
    BY <1>1, <2>1, FS_EmptySet, ConstantsAssumption DEF Run, TreeInv, Executing
<1>. QED  BY <1>2, <1>3, PlanningInv DEF Run

LEMMA DecomposeAtomicInv == EngineInv /\ DecomposeAtomic => EngineInv'
<1> SUFFICES ASSUME EngineInv, DecomposeAtomic PROVE EngineInv'
  OBVIOUS
<1>1. /\ todo \in Seq(Path) /\ todo # <<>> /\ Len(todo) \in Nat
      /\ todo' = Tail(todo) /\ atomic' = atomic \cup {todo[1]}
      /\ UNCHANGED <<nodes, saved, workVars, heard>>
      /\ pc = "plan" /\ pc' = "plan"
  BY DEF EngineInv, TypeOK, DecomposeAtomic
<1>2. /\ todo[1] \in nodes /\ Tail(todo) \in Seq(Path)
      /\ Len(Tail(todo)) = Len(todo) - 1
      /\ \A i \in 1..Len(Tail(todo)) : Tail(todo)[i] = todo[i + 1]
      /\ 1 \in 1..Len(todo)
  BY <1>1 DEF EngineInv, TreeInv
<1>3. TypeOK'
  BY <1>1, <1>2 DEF EngineInv, TypeOK, DecomposeAtomic, workVars
<1>4. TreeInv'
  <2>1. IsFiniteSet(atomic')
    BY <1>1, FS_AddElement DEF EngineInv, TreeInv
  <2>2. \A i \in 1..Len(todo') : todo'[i] \in nodes'
    BY <1>1, <1>2 DEF EngineInv, TreeInv
  <2>3. ASSUME NEW n \in nodes'
        PROVE  \/ \E m \in atomic' : IsPrefix(n, m)
               \/ \E i \in 1..Len(todo') : IsPrefix(n, todo'[i])
    <3>1. CASE \E m \in atomic : IsPrefix(n, m)
      BY <1>1, <3>1
    <3>2. ASSUME NEW i \in 1..Len(todo), IsPrefix(n, todo[i])
          PROVE  \/ \E m \in atomic' : IsPrefix(n, m)
                 \/ \E j \in 1..Len(todo') : IsPrefix(n, todo'[j])
      <4>1. CASE i = 1
        BY <1>1, <3>2, <4>1
      <4>2. CASE i # 1
        <5>1. i - 1 \in 1..Len(todo') /\ todo'[i - 1] = todo[i]
          BY <1>1, <1>2, <4>2
        <5>. QED  BY <3>2, <5>1
      <4>. QED  BY <4>1, <4>2
    <3>. QED  BY <1>1, <3>1, <3>2 DEF EngineInv, TreeInv
  <2>. QED
    BY <1>1, <2>1, <2>2, <2>3 DEF EngineInv, TreeInv, Executing
<1>5. saved = NoRow
  BY <1>1 DEF EngineInv, RunInv
<1>. QED  BY <1>1, <1>3, <1>4, <1>5, PlanningInv

LEMMA DecomposeSplitInv == EngineInv /\ DecomposeSplit => EngineInv'
<1> SUFFICES ASSUME EngineInv, DecomposeSplit PROVE EngineInv'
  OBVIOUS
<1> DEFINE child(i) == Append(Head(todo), i)
           children(k) == [i \in 1..k |-> child(i)]
<1>1. PICK k \in 1..MaxSubtasks :
        /\ nodes' = nodes \cup {children(k)[i] : i \in 1..k}
        /\ todo' = children(k) \o Tail(todo)
  BY DEF DecomposeSplit
<1>2. /\ todo \in Seq(Path) /\ todo # <<>> /\ Len(todo) \in Nat
      /\ Len(Head(todo)) < MaxDecompositionDepth
      /\ UNCHANGED <<atomic, saved, workVars, heard>>
      /\ pc = "plan" /\ pc' = "plan" /\ k \in Nat /\ 1 \in 1..k
  BY ConstantsAssumption DEF EngineInv, TypeOK, DecomposeSplit
<1>3. /\ todo[1] \in nodes /\ Tail(todo) \in Seq(Path)
      /\ Len(Tail(todo)) = Len(todo) - 1
      /\ \A i \in 1..Len(Tail(todo)) : Tail(todo)[i] = todo[i + 1]
      /\ todo[1] \in Path /\ Head(todo) = todo[1]
  BY <1>2 DEF EngineInv, TreeInv
<1>4. ASSUME NEW i \in 1..k
      PROVE  /\ child(i) \in Path /\ Len(child(i)) = Len(todo[1]) + 1
             /\ IsPrefix(todo[1], child(i)) /\ IsPrefix(child(i), child(i))
  <2>1. i \in 1..MaxSubtasks
    BY ConstantsAssumption
  <2>2. child(i) \in Path /\ Len(child(i)) = Len(todo[1]) + 1
    BY <1>3, <2>1, AppendProperties DEF Path
  <2>3. IsPrefix(todo[1], child(i))
    BY <1>3, <2>1, PrefixOfAppend DEF Path
  <2>4. IsPrefix(child(i), child(i))
    BY <2>2, PrefixRefl DEF Path
  <2>. QED  BY <2>2, <2>3, <2>4
<1> HIDE DEF child
<1>5. /\ todo' \in Seq(Path) /\ Len(todo') = k + Len(todo) - 1
      /\ \A i \in 1..k : todo'[i] = child(i)
      /\ \A i \in 1..(Len(todo) - 1) : todo'[k + i] = todo[i + 1]
  <2>1. children(k) \in Seq(Path) /\ Len(children(k)) = k
    BY <1>2, <1>4
  <2>2. \A i \in 1..k : children(k)[i] = child(i)
    OBVIOUS
  <2> DEFINE c == children(k)
             t == Tail(todo)
  <2>3. /\ c \in Seq(Path) /\ Len(c) = k /\ todo' = c \o t
        /\ \A i \in 1..k : c[i] = child(i)
    BY <1>1, <2>1, <2>2
  <2>4. /\ t \in Seq(Path) /\ Len(t) = Len(todo) - 1
        /\ \A i \in 1..(Len(todo) - 1) : t[i] = todo[i + 1]
    BY <1>3
  <2> HIDE DEF children, c, t
  <2>6. c \in Seq(Path) /\ t \in Seq(Path)
    BY <2>3, <2>4
  <2>7. c \o t \in Seq(Path)
    BY <2>6, ConcatElements
  <2>8. Len(c \o t) = Len(c) + Len(t)
    BY <2>6, ConcatElements
  <2>9. \A i \in 1..Len(c) : (c \o t)[i] = c[i]
    BY <2>6, ConcatElements
  <2>10. \A i \in 1..Len(t) : (c \o t)[Len(c) + i] = t[i]
    BY <2>6, ConcatElements
  <2>. QED  BY <1>2, <2>3, <2>4, <2>7, <2>8, <2>9, <2>10
<1>6. nodes' = nodes \cup {child(i) : i \in 1..k}
  BY <1>1
<1>7. TypeOK'
  BY <1>2, <1>4, <1>5, <1>6 DEF EngineInv, TypeOK, DecomposeSplit, workVars
<1>8. TreeInv'
  <2>1. \A i \in 1..Len(todo') : todo'[i] \in nodes'
    <3>1. ASSUME NEW i \in 1..Len(todo'), i > k PROVE todo'[i] \in nodes
      <4>1. i - k \in 1..(Len(todo) - 1) /\ i = k + (i - k)
            /\ (i - k) + 1 \in 1..Len(todo)
        BY <1>2, <1>5, <3>1
      <4>2. todo'[i] = todo[(i - k) + 1]
        BY <1>5, <4>1
      <4>. QED  BY <4>1, <4>2 DEF EngineInv, TreeInv
    <3>2. ASSUME NEW i \in 1..Len(todo'), ~(i > k) PROVE i \in 1..k
      BY <1>2, <1>5, <3>2
    <3>. QED  BY <1>5, <1>6, <3>1, <3>2
  <2>2. \A n \in nodes' : Len(n) <= MaxDecompositionDepth
    <3>1. Len(todo[1]) \in Nat
      BY <1>3, LenProperties DEF Path
    <3>. QED
      BY <1>2, <1>4, <1>6, <3>1, ConstantsAssumption DEF EngineInv, TreeInv
  <2>3. ASSUME NEW n \in nodes'
        PROVE  \/ \E m \in atomic' : IsPrefix(n, m)
               \/ \E i \in 1..Len(todo') : IsPrefix(n, todo'[i])
    <3>0. 1..k \subseteq 1..Len(todo')
      BY <1>2, <1>5
    <3>1. CASE \E i \in 1..k : n = child(i)
      BY <1>4, <1>5, <3>0, <3>1
    <3>2. CASE \E m \in atomic : IsPrefix(n, m)
      BY <1>2, <3>2
    <3>3. ASSUME n \in nodes, NEW i \in 1..Len(todo), IsPrefix(n, todo[i])
          PROVE  \E j \in 1..Len(todo') : IsPrefix(n, todo'[j])
      <4>1. CASE i = 1
        <5>1. n \in Path
          BY <3>3 DEF EngineInv, TypeOK
        <5>2. IsPrefix(todo[1], child(1)) /\ child(1) \in Path
          BY <1>2, <1>4
        <5>3. IsPrefix(n, child(1))
          BY <1>3, <3>3, <4>1, <5>1, <5>2, PrefixTrans DEF Path
        <5>. QED  BY <1>2, <1>5, <3>0, <5>3
      <4>2. CASE i # 1
        <5>1. /\ i - 1 \in 1..(Len(todo) - 1) /\ (i - 1) + 1 = i
              /\ k + (i - 1) \in 1..Len(todo')
          BY <1>2, <1>5, <4>2
        <5>2. todo'[k + (i - 1)] = todo[i]
          BY <1>5, <5>1
        <5>. QED  BY <3>3, <5>1, <5>2
      <4>. QED  BY <4>1, <4>2
    <3>. QED  BY <1>6, <3>1, <3>2, <3>3 DEF EngineInv, TreeInv
  <2>. QED
    BY <1>2, <1>6, <2>1, <2>2, <2>3 DEF EngineInv, TreeInv, Executing
<1>9. saved = NoRow
  BY <1>2 DEF EngineInv, RunInv
<1>. QED  BY <1>2, <1>7, <1>8, <1>9, PlanningInv

LEMMA ExecuteTreeInv == EngineInv /\ ExecuteTree => EngineInv'
<1> SUFFICES ASSUME EngineInv, ExecuteTree PROVE EngineInv'
  OBVIOUS
<1>1. /\ leaves' \in Listings(atomic, Before) /\ results' = <<>> /\ at' = 1
      /\ pc = "plan" /\ pc' = "leaf" /\ todo = <<>>
      /\ UNCHANGED <<todo, nodes, atomic, saved, heard, pend>>
      /\ atomic \subseteq Path /\ IsFiniteSet(atomic)
  BY DEF ExecuteTree, CollectAtomicLeaves, treeVars, EngineInv, TypeOK, TreeInv
<1>2. /\ leaves' \in Seq(Path) /\ Len(leaves') = Cardinality(atomic)
      /\ Cardinality(atomic) \in Nat
  BY <1>1, LeavesFacts, FS_CardinalityType
<1>3. leaves' # <<>>
  <2>1. atomic # {}
    BY <1>1 DEF EngineInv, TreeInv
  <2>2. Cardinality(atomic) # 0
    BY <1>1, <2>1, FS_EmptySet
  <2>. QED  BY <1>2, <2>2
<1>4. TypeOK'
  BY <1>1, <1>2 DEF EngineInv, TypeOK, ExecuteTree
<1>5. TreeInv'
  BY <1>1 DEF EngineInv, TreeInv, Executing, CollectAtomicLeaves
<1>6. RunInv'
  BY <1>1, <1>2, <1>3 DEF EngineInv, RunInv, ResultsFollowLeaves, Executing
<1>7. SavedInv'
  BY <1>1 DEF EngineInv, RunInv, SavedInv
<1>. QED  BY <1>4, <1>5, <1>6, <1>7 DEF EngineInv

(* A step of a run that goes on leaves its tree alone, and saves nothing. *)
LEMMA ExecutingInv ==
  ASSUME EngineInv, pc \in {"leaf", "round"},
         pc' \in {"leaf", "round", "stopped"},
         UNCHANGED <<treeVars, leaves, saved, heard>>, TypeOK', RunInv',
         results' = results \/ \E r \in Result : results' = Append(results, r)
  PROVE  EngineInv'
<1>1. TreeInv'
  BY DEF EngineInv, TreeInv, Executing, CollectAtomicLeaves, treeVars
<1>2. SavedInv'
  <2> SUFFICES ASSUME saved # NoRow
               PROVE  IsPrefix(saved.results, results')
    BY DEF EngineInv, SavedInv, Executing
  <2>1. /\ IsPrefix(saved.results, results) /\ saved.results \in Seq(Result)
        /\ results \in Seq(Result)
    BY DEF EngineInv, SavedInv, Executing, TypeOK, Row
  <2>. QED  BY <2>1, PrefixAppend
<1>. QED  BY <1>1, <1>2 DEF EngineInv

LEMMA NextPhaseInv == EngineInv /\ (NextLeaf \/ SynthesizeFinal) => EngineInv'
<1> SUFFICES ASSUME EngineInv, NextLeaf \/ SynthesizeFinal PROVE EngineInv'
  OBVIOUS
<1>0. pend' = NoPending
  <2>1. pend = NoPending /\ pend' = [pend EXCEPT !.conv = <<>>, !.rounds = 0]
    BY DEF EngineInv, RunInv, NextLeaf, SynthesizeFinal
  <2>2. [NoPending EXCEPT !.conv = <<>>, !.rounds = 0] = NoPending
    <3>1. [NoPending EXCEPT !.conv = <<>>] = NoPending
      BY DEF NoPending
    <3>2. [NoPending EXCEPT !.rounds = 0] = NoPending
      BY DEF NoPending
    <3>. QED  BY <3>1, <3>2, Zenon
  <2>. QED  BY <2>1, <2>2
<1>1. /\ pend' = NoPending /\ pc = "leaf" /\ pc' = "round"
      /\ UNCHANGED <<treeVars, leaves, results, at, saved, heard>>
      /\ Executing /\ at = Len(results) + 1 /\ at <= Len(leaves) + 1
  BY <1>0 DEF EngineInv, RunInv, ResultsFollowLeaves, Executing, NextLeaf,
              SynthesizeFinal
<1>2. TypeOK'
  BY <1>1, NoPendingType
  DEF EngineInv, TypeOK, NextLeaf, SynthesizeFinal, treeVars
<1>3. RunInv'
  <2>1. /\ leaves \in Seq(Path) /\ results \in Seq(Result)
        /\ phase' = "leaf" => at <= Len(leaves)
        /\ phase' = "synthesis" => at > Len(leaves)
    BY DEF EngineInv, TypeOK, NextLeaf, SynthesizeFinal
  <2>2. ResultsFollowLeaves'
    BY <1>1, <2>1 DEF EngineInv, RunInv, ResultsFollowLeaves
  <2>. QED  BY <1>1, <2>2 DEF EngineInv, RunInv, Executing
<1>. QED  BY <1>1, <1>2, <1>3, ExecutingInv

LEMMA RoundPausesInv == EngineInv /\ RoundPauses => EngineInv'
<1> SUFFICES ASSUME EngineInv, RoundPauses PROVE EngineInv'
  OBVIOUS
<1>1. PICK cs \in StreamedCalls :
        pend' = [phase |-> phase,
                 leafIndex |-> IF phase = "leaf" THEN at ELSE 0,
                 calls |-> cs,
                 conv |-> Append(pend.conv, Asks(cs)),
                 rounds |-> pend.rounds + 1]
  BY DEF RoundPauses
<1>2. /\ pc = "round" /\ pc' = "stopped"
      /\ UNCHANGED <<treeVars, leaves, results, at, phase, saved, heard>>
      /\ cs \in Seq(CallId) /\ (GapFree => cs # <<>>)
  BY StreamedCallsFacts DEF RoundPauses
<1>3. TypeOK'
  <2>1. Asks(cs) \in Entry
    BY <1>2 DEF Asks, Entry
  <2>2. Append(pend.conv, Asks(cs)) \in Seq(Entry)
    BY <2>1 DEF EngineInv, TypeOK, Pending
  <2>3. pend' \in Pending
    BY <1>1, <1>2, <2>2 DEF EngineInv, TypeOK, Pending
  <2>. QED  BY <1>2, <2>3 DEF EngineInv, TypeOK, RoundPauses, treeVars
<1>4. RunInv'
  <2>1. ResultsFollowLeaves' /\ PendFits(pend', leaves', results')
    BY <1>1, <1>2
    DEF EngineInv, TypeOK, RunInv, ResultsFollowLeaves, PendFits, Executing
  <2>. QED
    BY <1>1, <1>2, <2>1 DEF EngineInv, RunInv, Executing
<1>. QED  BY <1>2, <1>3, <1>4, ExecutingInv

LEMMA RoundRecordsLeafInv == EngineInv /\ RoundRecordsLeaf => EngineInv'
<1> SUFFICES ASSUME EngineInv, RoundRecordsLeaf PROVE EngineInv'
  OBVIOUS
<1>1. PICK r \in Text :
        results' = Append(results, [leaf |-> leaves[at], text |-> r])
  BY DEF RoundRecordsLeaf
<1> DEFINE e == [leaf |-> leaves[at], text |-> r]
<1>2. /\ pc = "round" /\ phase = "leaf" /\ pc' = "leaf"
      /\ pend' = NoPending /\ at' = at + 1
      /\ UNCHANGED <<treeVars, leaves, phase, saved, heard>>
      /\ at = Len(results) + 1 /\ at <= Len(leaves)
      /\ leaves \in Seq(Path) /\ results \in Seq(Result) /\ at \in Nat
  BY DEF RoundRecordsLeaf, EngineInv, TypeOK, RunInv, ResultsFollowLeaves,
         Executing
<1>3. e \in Result /\ e.leaf = leaves[at]
  <2>1. leaves[at] \in Path
    BY <1>2
  <2>. QED  BY <2>1 DEF Result
<1> HIDE DEF e
<1>4. /\ results' = Append(results, e) /\ results' \in Seq(Result)
      /\ Len(results') = Len(results) + 1
      /\ \A i \in 1..Len(results) : results'[i] = results[i]
      /\ results'[Len(results) + 1] = e
  BY <1>1, <1>2, <1>3 DEF e
<1>5. TypeOK'
  BY <1>2, <1>4, NoPendingType DEF EngineInv, TypeOK, RoundRecordsLeaf, treeVars
<1>6. RunInv'
  <2>1. ResultsFollowLeaves'
    BY <1>2, <1>3, <1>4
    DEF EngineInv, RunInv, ResultsFollowLeaves, Executing
  <2>. QED  BY <1>2, <2>1 DEF EngineInv, RunInv, Executing
<1>. QED  BY <1>2, <1>3, <1>4, <1>5, <1>6, ExecutingInv

LEMMA RoundAnswersInv == EngineInv /\ RoundAnswers => EngineInv'
<1> SUFFICES ASSUME EngineInv, RoundAnswers PROVE EngineInv'
  OBVIOUS
<1>1. /\ pc = "round" /\ phase = "synthesis" /\ pc' = "stopped"
      /\ pend' = NoPending
      /\ UNCHANGED <<treeVars, leaves, results, at, phase, saved, heard>>
  BY DEF RoundAnswers
<1>2. TypeOK'
  BY <1>1, NoPendingType DEF EngineInv, TypeOK, RoundAnswers, treeVars
<1>3. RunInv'
  <2>1. ResultsFollowLeaves' /\ PendFits(pend', leaves', results')
    BY <1>1
    DEF EngineInv, RunInv, ResultsFollowLeaves, PendFits, Executing, NoPending
  <2>. QED  BY <1>1, <2>1 DEF EngineInv, RunInv, Executing, NoPending
<1>. QED  BY <1>1, <1>2, <1>3, ExecutingInv

LEMMA PersistInv == EngineInv /\ Persist => EngineInv'
<1> SUFFICES ASSUME EngineInv, Persist PROVE EngineInv'
  OBVIOUS
<1>1. /\ pc = "stopped" /\ pc' = "reply" /\ heard' = FALSE
      /\ UNCHANGED <<treeVars, workVars>>
      /\ saved' = [leaves |-> leaves, results |-> results,
                   pend |-> IF Paused THEN pend ELSE NoPending]
  BY DEF Persist
<1>2. saved' \in Row
  BY <1>1, NoPendingType DEF EngineInv, TypeOK, Row
<1>3. TypeOK'
  BY <1>1, <1>2 DEF EngineInv, TypeOK, Persist, treeVars, workVars
<1>4. TreeInv'
  BY <1>1 DEF EngineInv, TreeInv, Executing, CollectAtomicLeaves, treeVars,
              workVars
<1>5. RunInv'
  BY <1>1 DEF EngineInv, RunInv, ResultsFollowLeaves, Executing, workVars
<1>6. SavedInv'
  <2>1. /\ leaves # <<>> /\ Len(results) <= Len(leaves)
        /\ \A i \in 1..Len(results) : results[i].leaf = leaves[i]
        /\ results \in Seq(Result) /\ leaves \in Seq(Path)
    BY <1>1 DEF EngineInv, TypeOK, RunInv, ResultsFollowLeaves, Executing
  <2>2. PendFits(IF Paused THEN pend ELSE NoPending, leaves, results)
    BY <1>1 DEF EngineInv, RunInv, PendFits, NoPending, Paused
  <2>3. IsPrefix(results, results)
    BY <2>1, PrefixRefl
  <2>. QED
    BY <1>1, <1>2, <2>1, <2>2, <2>3, RowAssumption DEF SavedInv, workVars
<1>. QED  BY <1>3, <1>4, <1>5, <1>6 DEF EngineInv

LEMMA ResumeInv == EngineInv /\ Resume => EngineInv'
<1> SUFFICES ASSUME EngineInv, Resume PROVE EngineInv'
  OBVIOUS
<1> DEFINE outputs == [i \in DOMAIN saved.pend.calls |->
                         Output(saved.pend.calls[i])]
<1>1. /\ pc = "idle" /\ saved # NoRow /\ saved.pend.calls # <<>>
      /\ leaves' = saved.leaves /\ results' = saved.results
      /\ at' = IF saved.pend.phase = "leaf"
                 THEN saved.pend.leafIndex ELSE Len(saved.leaves) + 1
      /\ phase' = saved.pend.phase /\ pc' = "round"
      /\ pend' = [saved.pend EXCEPT !.conv = @ \o outputs]
      /\ UNCHANGED <<treeVars, saved, heard>>
      /\ nodes = {} /\ atomic = {} /\ todo = <<>>
  BY DEF Resume, EngineInv, SavedInv, TreeInv
<1>2. /\ saved.leaves \in Seq(Path) /\ saved.results \in Seq(Result)
      /\ saved.pend \in Pending /\ saved.pend.calls \in Seq(CallId)
      /\ saved.pend.conv \in Seq(Entry)
  BY <1>1 DEF EngineInv, TypeOK, Row, Pending
<1>3. /\ saved.leaves # <<>> /\ Len(saved.results) <= Len(saved.leaves)
      /\ \A i \in 1..Len(saved.results) : saved.results[i].leaf = saved.leaves[i]
      /\ PendFits(saved.pend, saved.leaves, saved.results)
      /\ saved.pend.phase # "none"
  BY <1>1 DEF EngineInv, SavedInv, PendFits, NoPending
<1>4. TypeOK'
  <2>1. outputs \in Seq(Entry)
    <3>1. \A i \in DOMAIN saved.pend.calls : Output(saved.pend.calls[i]) \in Entry
      BY <1>2 DEF Output, Entry
    <3>. QED  BY <1>2, <3>1
  <2> HIDE DEF outputs
  <2>2. saved.pend.conv \o outputs \in Seq(Entry)
    BY <1>2, <2>1
  <2>3. pend' \in Pending
    BY <1>1, <1>2, <2>2 DEF Pending
  <2>4. at' \in Nat /\ phase' \in {"leaf", "synthesis"}
    BY <1>1, <1>2, <1>3 DEF Pending
  <2>. QED
    BY <1>1, <1>2, <2>3, <2>4 DEF EngineInv, TypeOK, Resume, treeVars
<1>5. TreeInv'
  BY <1>1 DEF EngineInv, TreeInv, treeVars
<1>6. RunInv'
  BY <1>1, <1>2, <1>3 DEF RunInv, ResultsFollowLeaves, PendFits, Executing, Pending
<1>7. SavedInv'
  <2>1. IsPrefix(saved.results, saved.results)
    BY <1>2, PrefixRefl
  <2>. QED  BY <1>1, <1>3, <2>1 DEF EngineInv, SavedInv
<1>. QED  BY <1>4, <1>5, <1>6, <1>7 DEF EngineInv

LEMMA EndInv == EngineInv /\ (Deliver \/ ReplyLost \/ RunFails) => EngineInv'
<1> SUFFICES ASSUME EngineInv, Deliver \/ ReplyLost \/ RunFails
             PROVE  EngineInv'
  OBVIOUS
<1>1. Drop /\ UNCHANGED saved /\ heard' \in BOOLEAN
  BY DEF EngineInv, TypeOK, Deliver, ReplyLost, RunFails
<1>2. failures' \in 0..MaxFailures
  <2>1. failures \in 0..MaxFailures /\ MaxFailures \in Nat
    BY ConstantsAssumption DEF EngineInv, TypeOK
  <2>. QED  BY <2>1 DEF Deliver, ReplyLost, RunFails
<1>3. heard' => saved # NoRow
  BY DEF EngineInv, SavedInv, Deliver, ReplyLost, RunFails
<1>. QED  BY <1>1, <1>2, <1>3, DropInv

(* Every step preserves the invariant. *)
LEMMA NextInv == EngineInv /\ [Next]_vars => EngineInv'
<1>1. ASSUME EngineInv, UNCHANGED vars PROVE EngineInv'
  <2>1. TypeOK' /\ SavedInv'
    BY <1>1 DEF EngineInv, TypeOK, SavedInv, Executing, vars, treeVars, workVars
  <2>2. TreeInv' /\ RunInv'
    BY <1>1
    DEF EngineInv, TreeInv, RunInv, ResultsFollowLeaves, Executing,
        CollectAtomicLeaves, PendFits, vars, treeVars, workVars
  <2>. QED  BY <2>1, <2>2 DEF EngineInv
<1>. QED
  BY <1>1, RunStepInv, DecomposeAtomicInv, DecomposeSplitInv, ExecuteTreeInv,
     NextPhaseInv, RoundPausesInv, RoundRecordsLeafInv, RoundAnswersInv,
     PersistInv, ResumeInv, EndInv
  DEF Next, Work

(* Whatever a run decomposes, executes, pauses on, loses and resumes, what is
   saved of it and what is held between two checkpoints fit together. *)
THEOREM EngineInvHolds == Spec => []EngineInv
BY InitInv, NextInv, PTL DEF Spec

(* The engine's state keeps its shape. *)
THEOREM TypeCorrect == Spec => []TypeOK
<1>1. EngineInv => TypeOK
  BY DEF EngineInv
<1>. QED  BY EngineInvHolds, <1>1, PTL

(* Results are those of the leaves before the current one, in order, and the
   synthesis has all of them (executeFrom, resumePhase). *)
THEOREM ResultsFollowLeavesHolds == Spec => []ResultsFollowLeaves
<1>1. EngineInv => ResultsFollowLeaves
  BY DEF EngineInv, RunInv
<1>. QED  BY EngineInvHolds, <1>1, PTL

(* The leaves are the whole instruction, each part once and none too deep
   (decomposeNode, CollectAtomicLeaves). *)
THEOREM PlanCoversTreeHolds == Spec => []PlanCoversTree
<1>1. EngineInv => PlanCoversTree
  <2> SUFFICES ASSUME EngineInv, pc = "leaf", nodes # {}
               PROVE  /\ \A n \in nodes :
                           \E i \in 1..Len(leaves) : IsPrefix(n, leaves[i])
                      /\ \A i, j \in 1..Len(leaves) :
                           IsPrefix(leaves[i], leaves[j]) => i = j
                      /\ \A n \in nodes : Len(n) <= MaxDecompositionDepth
    BY DEF PlanCoversTree
  <2>1. /\ todo = <<>> /\ leaves \in Listings(atomic, Before)
        /\ IsFiniteSet(atomic) /\ atomic \subseteq Path
    BY DEF EngineInv, TypeOK, TreeInv, Executing, CollectAtomicLeaves
  <2>2. /\ \A i, j \in 1..Len(leaves) : IsPrefix(leaves[i], leaves[j]) => i = j
        /\ \A m \in atomic : \E i \in 1..Len(leaves) : leaves[i] = m
    BY <2>1, LeavesFacts
  <2>3. \A n \in nodes : \E m \in atomic : IsPrefix(n, m)
    BY <2>1 DEF EngineInv, TreeInv
  <2>4. \A n \in nodes : Len(n) <= MaxDecompositionDepth
    BY DEF EngineInv, TreeInv
  <2>5. \A n \in nodes : \E i \in 1..Len(leaves) : IsPrefix(n, leaves[i])
    BY <2>2, <2>3
  <2>. QED  BY <2>2, <2>4, <2>5
<1>. QED  BY EngineInvHolds, <1>1, PTL

-----------------------------------------------------------------------------
(* Rounds and markers *)

(* RoundsBounded is inductive together with its form for the row. *)
RoundsInv ==
  /\ RoundsBounded
  /\ saved # NoRow => saved.pend.rounds <= MaxToolRoundsPerPhase

LEMMA NextRounds ==
  ASSUME Obedient PROVE EngineInv /\ RoundsInv /\ [Next]_vars => RoundsInv'
<1> SUFFICES ASSUME EngineInv, RoundsInv, [Next]_vars PROVE RoundsInv'
  OBVIOUS
<1>0. /\ 0 <= MaxToolRoundsPerPhase /\ MaxToolRoundsPerPhase \in Nat
      /\ NoPending.rounds = 0 /\ pend \in Pending /\ pend.rounds \in Nat
  BY ConstantsAssumption DEF NoPending, EngineInv, TypeOK, Pending
<1>1. CASE RoundPauses
  <2>1. pend'.rounds = pend.rounds + 1 /\ saved' = saved
    BY <1>1 DEF RoundPauses
  <2>2. pend.rounds < MaxToolRoundsPerPhase
    BY <1>1, StreamedCallsFacts DEF RoundPauses, Offered
  <2>. QED  BY <1>0, <2>1, <2>2 DEF RoundsInv, RoundsBounded
<1>2. CASE NextLeaf \/ SynthesizeFinal
  BY <1>0, <1>2 DEF NextLeaf, SynthesizeFinal, Pending, RoundsInv, RoundsBounded
<1>3. CASE RoundRecordsLeaf \/ RoundAnswers
  BY <1>0, <1>3 DEF RoundRecordsLeaf, RoundAnswers, RoundsInv, RoundsBounded
<1>4. CASE Persist
  BY <1>0, <1>4 DEF Persist, workVars, RoundsInv, RoundsBounded
<1>5. CASE Resume
  <2>1. saved # NoRow /\ saved.pend \in Pending
    BY <1>5 DEF EngineInv, TypeOK, SavedInv, Resume, Row
  <2>2. pend'.rounds = saved.pend.rounds /\ saved' = saved
    BY <1>5, <2>1 DEF Resume, Pending
  <2>. QED  BY <2>1, <2>2 DEF RoundsInv, RoundsBounded
<1>6. CASE Deliver \/ ReplyLost \/ RunFails
  BY <1>0, <1>6 DEF Deliver, ReplyLost, RunFails, Drop, RoundsInv, RoundsBounded
<1>7. CASE \/ Run \/ DecomposeAtomic \/ DecomposeSplit \/ ExecuteTree
           \/ UNCHANGED vars
  BY <1>7 DEF Run, DecomposeAtomic, DecomposeSplit, ExecuteTree, workVars, vars,
              RoundsInv, RoundsBounded
<1>. QED
  BY <1>1, <1>2, <1>3, <1>4, <1>5, <1>6, <1>7 DEF Next, Work

(* With an upstream that calls no tools when it is offered none, no phase
   exceeds its rounds, over any number of requests (README.md:215). *)
THEOREM RoundsBoundedHolds == ASSUME Obedient PROVE Spec => []RoundsBounded
<1>1. Init => RoundsInv
  BY ConstantsAssumption DEF Init, RoundsInv, RoundsBounded, NoPending
<1>2. EngineInv /\ RoundsInv /\ [Next]_vars => RoundsInv'
  BY NextRounds
<1>3. RoundsInv => RoundsBounded
  BY DEF RoundsInv
<1>. QED  BY EngineInvHolds, <1>1, <1>2, <1>3, PTL DEF Spec

(* What the synthesis may not see, in the engine and in the row. *)
Clean(rs) == \A i \in 1..Len(rs) : rs[i].text \notin {"marker", "bare"}
MarkerInv == tools = "none" => Clean(results) /\ (saved # NoRow => Clean(saved.results))

LEMMA NextMarker == EngineInv /\ MarkerInv /\ [Next]_vars => MarkerInv'
<1> SUFFICES ASSUME EngineInv, MarkerInv, [Next]_vars, tools' = "none"
             PROVE  Clean(results') /\ (saved' # NoRow => Clean(saved'.results))
  BY DEF MarkerInv, Clean
<1>0. /\ results \in Seq(Result) /\ Clean(<<>>) /\ tools' = tools
      /\ Clean(results) /\ (saved # NoRow => Clean(saved.results))
  BY DEF EngineInv, TypeOK, Clean, MarkerInv, Next, Work, Run, DecomposeAtomic,
         DecomposeSplit, ExecuteTree, NextLeaf, SynthesizeFinal, RoundPauses,
         RoundRecordsLeaf, RoundAnswers, Persist, Deliver, Resume, ReplyLost,
         RunFails, Drop, vars
<1>1. CASE RoundRecordsLeaf
  <2>1. PICK t \in Texts, r \in Text :
          /\ r \in LeafResults(t)
          /\ results' = Append(results, [leaf |-> leaves[at], text |-> r])
    BY <1>1 DEF RoundRecordsLeaf
  <2>2. r \notin {"marker", "bare"}
    BY <1>0, <2>1 DEF LeafResults, Sanitized
  <2>3. Clean(results')
    <3> DEFINE e == [leaf |-> leaves[at], text |-> r]
    <3>1. e.text = r /\ results' = Append(results, e)
      BY <2>1
    <3> HIDE DEF e
    <3>. QED  BY <1>0, <2>2, <3>1 DEF Clean
  <2>. QED  BY <1>0, <1>1, <2>3 DEF RoundRecordsLeaf
<1>2. CASE Persist
  BY <1>0, <1>2 DEF Persist, workVars
<1>3. CASE Resume
  BY <1>0, <1>3 DEF Resume, EngineInv, SavedInv
<1>4. CASE Deliver \/ ReplyLost \/ RunFails \/ ExecuteTree
  BY <1>0, <1>4 DEF Deliver, ReplyLost, RunFails, Drop, ExecuteTree
<1>5. CASE \/ Run \/ DecomposeAtomic \/ DecomposeSplit \/ NextLeaf
           \/ SynthesizeFinal \/ RoundPauses \/ RoundAnswers \/ UNCHANGED vars
  BY <1>0, <1>5
  DEF Run, DecomposeAtomic, DecomposeSplit, NextLeaf, SynthesizeFinal,
      RoundPauses, RoundAnswers, workVars, vars
<1>. QED
  BY <1>1, <1>2, <1>3, <1>4, <1>5 DEF Next, Work

(* Without tools no marker reaches the synthesis, whatever correction and
   debate write (correctNeedsToolMarker, sanitizeResultForContext). *)
THEOREM NoMarkerWithoutToolsHolds == Spec => []NoMarkerWithoutTools
<1>1. Init => MarkerInv
  BY DEF Init, MarkerInv, Clean
<1>2. MarkerInv => NoMarkerWithoutTools
  BY DEF MarkerInv, Clean, NoMarkerWithoutTools
<1>. QED  BY EngineInvHolds, NextMarker, <1>1, <1>2, PTL DEF Spec

-----------------------------------------------------------------------------
(* The refinement of RunLog *)

(* Between a resumed checkpoint and the next one the plan stands and results
   are only added. *)
LEMMA PersistCommits ==
  ASSUME GapFree, EngineInv, EngineInv', Persist
  PROVE  Abstract!Commit("run")
<1>1. /\ pc = "stopped" /\ saved' # NoRow
      /\ saved'.leaves = leaves /\ saved'.results = results
      /\ SavedRun' = [leaves |-> leaves, results |-> results,
                      closed |-> saved'.pend.phase = "none"]
  BY RowAssumption DEF EngineInv, SavedInv, Persist, SavedRun
<1>2. /\ leaves # <<>> /\ results \in Seq(Result)
      /\ Len(results) <= Len(leaves)
      /\ \A i \in 1..Len(results) : results[i].leaf = leaves[i]
  BY <1>1
  DEF EngineInv, TypeOK, SavedInv, RunInv, ResultsFollowLeaves, Executing
<1>3. saved'.pend.phase = "none" => Len(results) = Len(leaves)
  BY <1>1 DEF EngineInv, SavedInv, PendFits
<1>4. /\ ~SavedRun.closed
      /\ SavedRun.leaves # <<>> => SavedRun.leaves = leaves
      /\ IsPrefix(SavedRun.results, results)
  <2>1. CASE saved = NoRow
    BY <1>2, <2>1, PrefixOfAll DEF SavedRun
  <2>2. CASE saved # NoRow
    BY <1>1, <2>2 DEF SavedRun, EngineInv, SavedInv, Executing
  <2>. QED  BY <2>1, <2>2
<1>5. Abstract!IsPrefix(SavedRun.results, results)
  BY <1>4 DEF IsPrefix, Abstract!IsPrefix
<1>6. Abstract!Follows(SavedRun')
  BY <1>1, <1>2 DEF Abstract!Follows
<1>. QED  BY <1>1, <1>2, <1>3, <1>4, <1>5, <1>6 DEF Abstract!Commit

LEMMA StepRefines ==
  ASSUME GapFree
  PROVE  EngineInv /\ EngineInv' /\ [Next]_vars
           => [Abstract!Next]_([id \in {"run"} |-> SavedRun])
<1> SUFFICES ASSUME EngineInv, EngineInv', [Next]_vars
             PROVE  Abstract!Next \/ UNCHANGED [id \in {"run"} |-> SavedRun]
  OBVIOUS
<1>1. CASE Persist
  BY <1>1, PersistCommits DEF Abstract!Next
<1>2. ASSUME UNCHANGED saved PROVE UNCHANGED [id \in {"run"} |-> SavedRun]
  BY <1>2 DEF SavedRun
<1>3. CASE \/ Run \/ DecomposeAtomic \/ DecomposeSplit \/ ExecuteTree
           \/ NextLeaf \/ SynthesizeFinal \/ RoundPauses \/ RoundRecordsLeaf
           \/ RoundAnswers \/ Deliver \/ Resume \/ ReplyLost \/ RunFails
           \/ UNCHANGED vars
  BY <1>2, <1>3
  DEF Run, DecomposeAtomic, DecomposeSplit, ExecuteTree, NextLeaf,
      SynthesizeFinal, RoundPauses, RoundRecordsLeaf, RoundAnswers, Deliver,
      Resume, ReplyLost, RunFails, vars
<1>. QED  BY <1>1, <1>3 DEF Next, Work

(* As long as streams number their calls from 0, what is saved of a run over
   all its requests implements RunLog (Persist, RestoreTree, Resume). *)
THEOREM Refinement == ASSUME GapFree PROVE Spec => ImplementsRunLog
<1>1. Init => Abstract!Init
  BY DEF Init, Abstract!Init, SavedRun
<1>2. EngineInv /\ EngineInv' /\ [Next]_vars
        => [Abstract!Next]_([id \in {"run"} |-> SavedRun])
  BY StepRefines
<1>. QED
  BY EngineInvHolds, <1>1, <1>2, PTL DEF Spec, ImplementsRunLog, Abstract!Spec

-----------------------------------------------------------------------------
(* The conversation of a phase *)

Outputs(cs) == [i \in DOMAIN cs |-> Output(cs[i])]

(* A conversation that was answered call by call, after so many rounds. *)
Whole(conv, rounds) ==
  /\ conv \in Seq(Entry)
  /\ OutputsFollow(conv)
  /\ Cardinality(Assistants(conv)) = rounds

(* Pending state p has just asked for its calls in such a conversation. *)
Asked(p) ==
  p.phase # "none" =>
    \E c \in Seq(Entry), n \in Nat :
      Whole(c, n) /\ p.conv = Append(c, Asks(p.calls)) /\ p.rounds = n + 1

(* The inductive form of ConversationIsWhole. *)
ConversationInv ==
  /\ pc = "round" => Whole(pend.conv, pend.rounds)
  /\ pc = "stopped" => Asked(pend)
  /\ saved # NoRow => Asked(saved.pend)

(* Another round and its outputs keep a conversation whole. *)
LEMMA AnsweredIsWhole ==
  ASSUME NEW c \in Seq(Entry), NEW n \in Nat, Whole(c, n),
         NEW cs \in Seq(CallId)
  PROVE  Whole(Append(c, Asks(cs)) \o Outputs(cs), n + 1)
<1> DEFINE a == Append(c, Asks(cs))
           o == Outputs(cs)
           u == a \o o
           N == Len(c)
           M == Len(cs)
<1>1. /\ N \in Nat /\ M \in Nat /\ Asks(cs) \in Entry
      /\ Asks(cs).role = "assistant" /\ Asks(cs).calls = cs
  BY DEF Asks, Entry
<1>2. /\ a \in Seq(Entry) /\ Len(a) = N + 1 /\ a[N + 1] = Asks(cs)
      /\ \A i \in 1..N : a[i] = c[i]
  BY <1>1, AppendProperties
<1>3. /\ o \in Seq(Entry) /\ Len(o) = M
      /\ \A i \in 1..M : o[i] = Output(cs[i])
  <2>1. \A i \in 1..M : Output(cs[i]) \in Entry
    BY DEF Output, Entry
  <2>. QED  BY <2>1 DEF Outputs
<1> HIDE DEF a, o
<1>4. u \in Seq(Entry)
  BY <1>2, <1>3, ConcatElements
<1>5. Len(u) = Len(a) + Len(o)
  BY <1>2, <1>3, ConcatElements
<1>6. \A i \in 1..Len(a) : u[i] = a[i]
  BY <1>2, <1>3, ConcatElements
<1>7. \A i \in 1..Len(o) : u[Len(a) + i] = o[i]
  BY <1>2, <1>3, ConcatElements
<1> HIDE DEF u
<1>8. /\ Len(u) = N + 1 + M /\ DOMAIN u = 1..(N + 1 + M) /\ DOMAIN c = 1..N
      /\ \A i \in 1..N : u[i] = c[i]
      /\ u[N + 1] = Asks(cs)
      /\ \A j \in 1..M : u[N + 1 + j] = Output(cs[j])
  BY <1>1, <1>2, <1>3, <1>4, <1>5, <1>6, <1>7
<1> HIDE DEF N, M
<1>9. Assistants(u) = Assistants(c) \cup {N + 1}
  <2>1. ASSUME NEW i \in Assistants(u) PROVE i \in Assistants(c) \cup {N + 1}
    <3>1. i \in 1..(N + 1 + M) /\ u[i].role = "assistant"
      BY <1>8 DEF Assistants
    <3>2. CASE i <= N
      BY <1>1, <1>8, <3>1, <3>2 DEF Assistants
    <3>3. CASE i > N + 1
      <4>1. i - (N + 1) \in 1..M /\ i = N + 1 + (i - (N + 1))
        BY <1>1, <3>1, <3>3
      <4>2. u[i] = Output(cs[i - (N + 1)])
        BY <1>8, <4>1
      <4>. QED  BY <3>1, <4>2 DEF Output
    <3>. QED  BY <1>1, <3>1, <3>2, <3>3
  <2>2. ASSUME NEW i \in Assistants(c) \cup {N + 1} PROVE i \in Assistants(u)
    BY <1>1, <1>8 DEF Assistants
  <2>. QED  BY <2>1, <2>2
<1>10. Cardinality(Assistants(u)) = n + 1
  <2>1. IsFiniteSet(Assistants(c))
    <3>1. Assistants(c) \subseteq 1..N
      BY <1>8 DEF Assistants
    <3>2. IsFiniteSet(1..N)
      BY <1>1, FS_Interval
    <3>. QED  BY <3>1, <3>2, FS_Subset
  <2>2. N + 1 \notin Assistants(c)
    BY <1>1, <1>8 DEF Assistants
  <2>. QED  BY <1>9, <2>1, <2>2, FS_AddElement DEF Whole
<1>11. OutputsFollow(u)
  <2> SUFFICES ASSUME NEW i \in Assistants(u)
               PROVE  /\ \A j \in 1..Len(u[i].calls) :
                           /\ i + j <= Len(u)
                           /\ u[i + j] = Output(u[i].calls[j])
                      /\ i + Len(u[i].calls) + 1 <= Len(u)
                           => i + Len(u[i].calls) + 1 \in Assistants(u)
    BY DEF OutputsFollow
  <2>1. CASE i = N + 1
    <3>1. u[i].calls = cs /\ Len(u[i].calls) = M
      BY <1>1, <1>8, <2>1 DEF M
    <3>2. \A j \in 1..M : i + j <= Len(u) /\ u[i + j] = Output(cs[j])
      BY <1>1, <1>8, <2>1
    <3>3. ~(i + M + 1 <= Len(u))
      BY <1>1, <1>8, <2>1
    <3>. QED  BY <3>1, <3>2, <3>3
  <2>2. CASE i \in Assistants(c)
    <3>1. i \in 1..N /\ u[i] = c[i]
      BY <1>8, <2>2 DEF Assistants
    <3> DEFINE L == Len(c[i].calls)
    <3>2. L \in Nat
      <4>1. c[i] \in Entry
        BY <3>1, ElementOfSeq DEF N
      <4>. QED  BY <4>1 DEF Entry
    <3>3. /\ \A j \in 1..L : i + j <= N /\ c[i + j] = Output(c[i].calls[j])
          /\ i + L + 1 <= N => i + L + 1 \in Assistants(c)
      BY <2>2 DEF Whole, OutputsFollow, N
    <3> HIDE DEF L
    <3>4. i + L <= N
      <4>1. CASE L = 0
        BY <1>1, <3>1, <4>1
      <4>2. CASE L # 0
        <5>1. L \in 1..L
          BY <3>2, <4>2
        <5>. QED  BY <3>3, <5>1
      <4>. QED  BY <4>1, <4>2
    <3>5. i + L + 1 \in Assistants(u)
      <4>1. CASE i + L + 1 <= N
        BY <1>9, <3>3, <4>1
      <4>2. CASE ~(i + L + 1 <= N)
        <5>1. i + L + 1 = N + 1
          BY <1>1, <3>1, <3>2, <3>4, <4>2
        <5>. QED  BY <1>9, <5>1
      <4>. QED  BY <4>1, <4>2
    <3>6. ASSUME NEW j \in 1..L
          PROVE  i + j <= Len(u) /\ u[i + j] = Output(u[i].calls[j])
      <4>1. i + j \in 1..N
        <5>1. i + j <= N
          BY <3>3
        <5>. QED  BY <1>1, <3>1, <3>2, <5>1
      <4>2. u[i + j] = c[i + j]
        BY <1>8, <4>1
      <4>. QED  BY <1>1, <1>8, <3>1, <3>3, <4>1, <4>2
    <3>. QED  BY <3>1, <3>5, <3>6 DEF L
  <2>. QED  BY <1>9, <2>1, <2>2
<1>. QED  BY <1>4, <1>10, <1>11 DEF Whole, u, a, o

LEMMA NextConversation ==
  EngineInv /\ ConversationInv /\ [Next]_vars => ConversationInv'
<1> SUFFICES ASSUME EngineInv, ConversationInv, [Next]_vars
             PROVE  ConversationInv'
  OBVIOUS
<1>0. Asked(NoPending) /\ pend \in Pending
  BY DEF Asked, NoPending, EngineInv, TypeOK
<1>1. CASE RoundPauses
  <2>1. PICK cs \in StreamedCalls :
          /\ pend'.calls = cs /\ pend'.rounds = pend.rounds + 1
          /\ pend'.conv = Append(pend.conv, Asks(cs))
    BY <1>1 DEF RoundPauses
  <2>2. Whole(pend.conv, pend.rounds) /\ pend.rounds \in Nat
        /\ pend.conv \in Seq(Entry)
    BY <1>0, <1>1 DEF RoundPauses, ConversationInv, Pending
  <2>3. Asked(pend')
    BY <2>1, <2>2 DEF Asked
  <2>. QED  BY <1>1, <2>3 DEF RoundPauses, ConversationInv
<1>2. CASE Resume
  <2>1. /\ saved # NoRow /\ saved.pend \in Pending /\ saved.pend.phase # "none"
        /\ saved.pend.calls \in Seq(CallId)
    BY <1>2
    DEF EngineInv, TypeOK, SavedInv, Resume, PendFits, NoPending, Row, Pending
  <2>2. PICK c \in Seq(Entry), n \in Nat :
          /\ Whole(c, n) /\ saved.pend.conv = Append(c, Asks(saved.pend.calls))
          /\ saved.pend.rounds = n + 1
    BY <2>1 DEF ConversationInv, Asked
  <2>3. /\ pend'.conv = saved.pend.conv \o Outputs(saved.pend.calls)
        /\ pend'.rounds = saved.pend.rounds
    BY <1>2, <2>1 DEF Resume, Pending, Outputs
  <2>4. Whole(Append(c, Asks(saved.pend.calls)) \o Outputs(saved.pend.calls), n + 1)
    BY <2>1, <2>2, AnsweredIsWhole
  <2>5. Whole(pend'.conv, pend'.rounds)
    BY <2>2, <2>3, <2>4
  <2>. QED  BY <1>2, <2>5 DEF Resume, ConversationInv
<1>3. CASE NextLeaf \/ SynthesizeFinal
  <2>1. pend'.conv = <<>> /\ pend'.rounds = 0
    BY <1>0, <1>3 DEF NextLeaf, SynthesizeFinal, Pending
  <2>2. Whole(<<>>, 0)
    <3>1. Assistants(<<>>) = {}
      BY DEF Assistants
    <3>. QED  BY <3>1, FS_EmptySet DEF Whole, OutputsFollow
  <2>. QED  BY <1>3, <2>1, <2>2 DEF NextLeaf, SynthesizeFinal, ConversationInv
<1>4. CASE RoundRecordsLeaf \/ RoundAnswers
  BY <1>0, <1>4 DEF RoundRecordsLeaf, RoundAnswers, ConversationInv
<1>5. CASE Persist
  <2>1. saved'.pend \in {pend, NoPending} /\ pc = "stopped" /\ pc' = "reply"
    BY <1>5 DEF Persist
  <2>. QED  BY <1>0, <2>1 DEF ConversationInv
<1>6. CASE Deliver \/ ReplyLost \/ RunFails
  BY <1>6 DEF Deliver, ReplyLost, RunFails, Drop, ConversationInv
<1>7. CASE Run \/ DecomposeAtomic \/ DecomposeSplit \/ ExecuteTree
  BY <1>7 DEF Run, DecomposeAtomic, DecomposeSplit, ExecuteTree, ConversationInv
<1>8. CASE UNCHANGED vars
  BY <1>8 DEF vars, workVars, ConversationInv
<1>. QED
  BY <1>1, <1>2, <1>3, <1>4, <1>5, <1>6, <1>7, <1>8 DEF Next, Work

(* The conversation of a round holds every round of its phase, each answered
   call by call, over any number of requests (enterPending, resumePhase). *)
THEOREM ConversationIsWholeHolds == Spec => []ConversationIsWhole
<1>1. Init => ConversationInv
  BY DEF Init, ConversationInv
<1>2. ConversationInv => ConversationIsWhole
  BY DEF ConversationInv, Whole, ConversationIsWhole
<1>. QED  BY EngineInvHolds, NextConversation, <1>1, <1>2, PTL DEF Spec
=============================================================================
