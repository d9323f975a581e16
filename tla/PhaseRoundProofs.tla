-------------------------- MODULE PhaseRoundProofs --------------------------
(***************************************************************************)
(* Proofs about module PhaseRound: how tool calls are assembled from their *)
(* deltas, what a failed debate leaves, and that a round is a step of      *)
(* module Engine.                                                          *)
(***************************************************************************)
EXTENDS PhaseRoundProps, DataFacts, FiniteSetTheorems, TLAPS

-----------------------------------------------------------------------------
(* Texts *)

(* A text is one of its pieces, or empty. *)
LEMMA ClassType ==
  ASSUME NEW ps \in Seq(Pieces)
  PROVE  /\ Class(ps) \in Pieces \cup {"empty"}
         /\ Class(<<>>) = "empty"
<1> DEFINE marks == {i \in DOMAIN ps : ps[i] # "text"}
<1>1. /\ Len(ps) \in Nat /\ DOMAIN ps = 1..Len(ps)
      /\ \A i \in DOMAIN ps : ps[i] \in Pieces
  BY LenProperties, ElementOfSeq
<1>2. CASE ps = <<>>
  BY <1>2 DEF Class
<1>3. CASE ps # <<>> /\ marks = {}
  <2>1. 1 \in DOMAIN ps
    BY <1>1, <1>3, EmptySeq
  <2>2. ps[1] = "text"
    BY <1>3, <2>1
  <2>. QED  BY <1>1, <1>3, <2>1, <2>2 DEF Class
<1>4. CASE ps # <<>> /\ marks # {}
  <2>1. marks \in SUBSET Nat
    BY <1>1
  <2>2. Min(marks) \in marks
    <3> HIDE DEF marks
    <3>. QED  BY <1>4, <2>1, LeastExists DEF Min
  <2>. QED  BY <1>1, <1>4, <2>2 DEF Class
<1>5. Class(<<>>) = "empty"
  BY DEF Class
<1>. QED  BY <1>2, <1>3, <1>4, <1>5

(* So is what a debater or a critic writes. *)
LEMMA CompletionsType == Completions \subseteq Pieces \cup {"empty"}
<1>1. ASSUME NEW ps \in SeqOf(Pieces, 1) PROVE ps \in Seq(Pieces)
  <2>1. PICK m \in 0..1 : ps \in [1..m -> Pieces]
    BY DEF SeqOf
  <2>. QED  BY <2>1
<1>. QED  BY <1>1, ClassType DEF Completions

-----------------------------------------------------------------------------
(* Tool calls *)

LEMMA IndexType ==
  ASSUME NEW d \in Delta
  PROVE  /\ IndexOf(d) \in Indices \cup {0} /\ IndexOf(d) \in Nat
         /\ d.arg \in 1..MaxLines /\ d.id \in CallId \cup {Missing}
BY RoundAssumption DEF Delta, IndexOf

(* The indices of a stream are finitely many numbers. *)
LEMMA UsedType ==
  ASSUME NEW ds \in Seq(Delta)
  PROVE  /\ UsedIndices(ds) \subseteq Indices \cup {0}
         /\ UsedIndices(ds) \subseteq Nat
         /\ IsFiniteSet(UsedIndices(ds)) /\ Cardinality(UsedIndices(ds)) \in Nat
<1>1. \A k \in DOMAIN ds : ds[k] \in Delta
  BY LenProperties, ElementOfSeq
<1>2. UsedIndices(ds) \subseteq Indices \cup {0} /\ UsedIndices(ds) \subseteq Nat
  BY <1>1, IndexType DEF UsedIndices
<1>3. IsFiniteSet(Indices \cup {0})
  BY RoundAssumption, FS_AddElement
<1>. QED  BY <1>2, <1>3, FS_Subset, FS_CardinalityType

(* An ascending listing of 0..n-1 is 0, 1, ..., n-1. *)
LEMMA AscendingFromZero ==
  ASSUME NEW n \in Nat, NEW s \in [1..n -> 0..(n - 1)],
         \A i, j \in 1..n : i < j => s[i] < s[j]
  PROVE  \A k \in 1..n : s[k] = k - 1
<1>1. \A k \in 1..n : s[k] \in 0..(n - 1)
  OBVIOUS
<1>2. ASSUME NEW k0 \in 1..n, s[k0] < k0 - 1 PROVE FALSE
  <2> DEFINE B == {k \in 1..n : s[k] < k - 1}
  <2>0. k0 \in B /\ B \subseteq 1..n /\ 1..n \subseteq Nat
    BY <1>2
  <2>1. B \in SUBSET Nat /\ B # {}
    BY <2>0
  <2>2. PICK k \in B : \A j \in B : k <= j
    BY <2>1, LeastExists
  <2>3. k \in 1..n /\ s[k] < k - 1 /\ k > 1
    BY <1>1, <2>2
  <2>4. k - 1 \in 1..n /\ k - 1 < k /\ k - 1 \notin B
    BY <2>2, <2>3
  <2>5. s[k - 1] < s[k] /\ ~(s[k - 1] < (k - 1) - 1)
    BY <2>3, <2>4
  <2>. QED  BY <1>1, <2>3, <2>4, <2>5
<1>3. ASSUME NEW k0 \in 1..n, s[k0] > k0 - 1 PROVE FALSE
  <2> DEFINE B == {k \in 1..n : s[k] > k - 1}
  <2>0. k0 \in B /\ B \subseteq 1..n /\ 1..n \subseteq Nat
    BY <1>3
  <2>1. B \in SUBSET Nat /\ B # {}
    BY <2>0
  <2>a. \A k \in B : k <= n
    OBVIOUS
  <2>2. PICK k \in B : \A j \in B : j <= k
    <3> HIDE DEF B
    <3>. QED  BY <2>1, <2>a, GreatestExists
  <2>3. k \in 1..n /\ s[k] > k - 1 /\ k < n
    BY <1>1, <2>2
  <2>4. k + 1 \in 1..n /\ k < k + 1 /\ k + 1 \notin B
    BY <2>2, <2>3
  <2>5. s[k] < s[k + 1] /\ ~(s[k + 1] > (k + 1) - 1)
    BY <2>3, <2>4
  <2>. QED  BY <1>1, <2>3, <2>4, <2>5
<1>. QED  BY <1>1, <1>2, <1>3

(* What collectToolCalls returns are calls, listed by their index; all of
   them if the indices are those from 0. *)
LEMMA CollectFacts ==
  ASSUME NEW D \in SUBSET Nat, IsFiniteSet(D), NEW a \in [D -> Call],
         NEW cs \in CollectToolCalls(a)
  PROVE  /\ cs \in Seq(Call)
         /\ D = 0..(Cardinality(D) - 1) =>
              /\ Len(cs) = Cardinality(D)
              /\ \A i \in D : cs[i + 1] = a[i]
<1> DEFINE visited == {i \in D : i < Cardinality(D)}
           n == Cardinality(visited)
<1>1. DOMAIN a = D
  OBVIOUS
<1>2. IsFiniteSet(visited) /\ n \in Nat /\ Cardinality(D) \in Nat
  BY FS_Subset, FS_CardinalityType
<1>3. PICK s \in Ascending(visited) : cs = [k \in DOMAIN s |-> a[s[k]]]
  BY <1>1 DEF CollectToolCalls
<1>4. /\ s \in [1..n -> visited]
      /\ \A i, j \in 1..n : i < j => s[i] < s[j]
  BY DEF Ascending
<1>5. cs \in [1..n -> Call] /\ \A k \in 1..n : cs[k] = a[s[k]]
  BY <1>3, <1>4
<1>6. cs \in Seq(Call) /\ Len(cs) = n
  <2> HIDE DEF n
  <2>. QED  BY <1>2, <1>5
<1>7. ASSUME D = 0..(Cardinality(D) - 1)
      PROVE  Len(cs) = Cardinality(D) /\ \A i \in D : cs[i + 1] = a[i]
  <2>1. visited = D
    BY <1>2, <1>7
  <2>2. n = Cardinality(D) /\ D = 0..(n - 1)
    BY <1>7, <2>1
  <2>3. s \in [1..n -> 0..(n - 1)]
    BY <1>4, <2>1, <2>2
  <2> HIDE DEF n, visited
  <2>4. \A k \in 1..n : s[k] = k - 1
    BY <1>2, <1>4, <2>3, AscendingFromZero
  <2>5. ASSUME NEW i \in D PROVE cs[i + 1] = a[i]
    <3>1. n \in Nat /\ i \in 0..(n - 1)
      BY <1>2, <2>2
    <3>2. i + 1 \in 1..n /\ (i + 1) - 1 = i
      BY <3>1
    <3>. QED  BY <1>5, <2>4, <3>2
  <2>. QED  BY <1>6, <2>2, <2>5
<1>. QED  BY <1>6, <1>7

(* One delta more: its call gets its id, if it has one, and its arguments. *)
LEMMA MergeFacts ==
  ASSUME NEW ds \in Seq(Delta), NEW a,
         a \in [UsedIndices(ds) -> Call],
         \A i \in UsedIndices(ds) : Assembled(ds, a[i], i),
         \A k \in DOMAIN ds : ds[k].arg = k,
         NEW d \in Delta, d.arg = Len(ds) + 1
  PROVE  /\ Append(ds, d) \in Seq(Delta)
         /\ MergeToolCallDelta(a, d) \in [UsedIndices(Append(ds, d)) -> Call]
         /\ \A i \in UsedIndices(Append(ds, d)) :
              Assembled(Append(ds, d), MergeToolCallDelta(a, d)[i], i)
         /\ \A k \in DOMAIN Append(ds, d) : Append(ds, d)[k].arg = k
<1> DEFINE n == Len(ds)
           es == Append(ds, d)
           x == IndexOf(d)
           entry == IF x \in DOMAIN a THEN a[x] ELSE Fresh
           call == [id |-> IF d.id = Missing THEN entry.id ELSE d.id,
                    args |-> Append(entry.args, d.arg)]
           merged == MergeToolCallDelta(a, d)
<1>1. /\ es \in Seq(Delta) /\ Len(es) = n + 1
      /\ \A k \in 1..n : es[k] = ds[k]
      /\ es[n + 1] = d
  BY AppendProperties
<1>2. n \in Nat /\ DOMAIN ds = 1..n /\ DOMAIN es = 1..(n + 1)
  BY <1>1, LenProperties
<1>3. merged = [j \in UsedIndices(ds) \cup {x} |-> IF j # x THEN a[j] ELSE call]
  BY DEF MergeToolCallDelta, IndexOf
<1>4. /\ x \in Nat /\ x \in Indices \cup {0} /\ d.id \in CallId \cup {Missing}
      /\ d.arg \in 1..MaxLines /\ MaxLines \in Nat
  BY IndexType, RoundAssumption
<1>5. /\ entry \in Call /\ Assembled(ds, entry, x)
      /\ entry.args \in Seq(1..MaxLines) /\ entry.id \in CallId \cup {NoId}
  <2>1. CASE x \in UsedIndices(ds)
    BY <2>1 DEF Call
  <2>2. CASE x \notin UsedIndices(ds)
    <3>1. Of(ds, x) = {} /\ Named(ds, x) = {}
      BY <2>2 DEF UsedIndices, Of, Named
    <3>2. entry = Fresh
      BY <2>2
    <3>3. Fresh.id = NoId /\ Fresh.args = <<>> /\ DOMAIN <<>> = {}
      BY DEF Fresh
    <3>4. Range(Fresh.args) = {}
      BY <3>3 DEF Range
    <3>5. Fresh \in Call
      BY DEF Fresh, Call
    <3> HIDE DEF entry
    <3>. QED  BY <3>1, <3>2, <3>3, <3>4, <3>5 DEF Assembled, Gathered, Call
  <2>. QED  BY <2>1, <2>2
<1> HIDE DEF es, x, entry, merged
<1>6. UsedIndices(es) = UsedIndices(ds) \cup {x}
  <2>1. ASSUME NEW k \in DOMAIN es
        PROVE  IndexOf(es[k]) \in UsedIndices(ds) \cup {x}
    <3>1. CASE k = n + 1
      BY <1>1, <3>1 DEF x
    <3>2. CASE k # n + 1
      <4>1. k \in DOMAIN ds /\ es[k] = ds[k]
        BY <1>1, <1>2, <3>2
      <4>. QED  BY <4>1 DEF UsedIndices
    <3>. QED  BY <3>1, <3>2
  <2>2. ASSUME NEW k \in DOMAIN ds PROVE IndexOf(ds[k]) \in UsedIndices(es)
    <3>1. k \in DOMAIN es /\ es[k] = ds[k]
      BY <1>1, <1>2
    <3>. QED  BY <3>1 DEF UsedIndices
  <2>3. x \in UsedIndices(es)
    <3>1. n + 1 \in DOMAIN es
      BY <1>2
    <3>. QED  BY <1>1, <3>1 DEF UsedIndices, x
  <2>. QED  BY <2>1, <2>2, <2>3 DEF UsedIndices
<1>7. ASSUME NEW k \in DOMAIN es PROVE es[k].arg = k
  <2>1. CASE k = n + 1
    BY <1>1, <2>1
  <2>2. CASE k # n + 1
    BY <1>1, <1>2, <2>2
  <2>. QED  BY <2>1, <2>2
<1>8. call \in Call
  <2>1. Append(entry.args, d.arg) \in Seq(1..MaxLines)
    BY <1>4, <1>5, AppendProperties
  <2>2. (IF d.id = Missing THEN entry.id ELSE d.id) \in CallId \cup {NoId}
    BY <1>4, <1>5
  <2>. QED  BY <2>1, <2>2 DEF Call
<1>9. merged \in [UsedIndices(es) -> Call]
  <2> HIDE DEF call
  <2>. QED  BY <1>3, <1>6, <1>8
<1>10. ASSUME NEW i \in UsedIndices(es), i # x
       PROVE  Assembled(es, merged[i], i)
  <2>1. i \in UsedIndices(ds) /\ merged[i] = a[i]
    BY <1>3, <1>6, <1>10
  <2>2. Of(es, i) = Of(ds, i) /\ Of(ds, i) \subseteq 1..n
    BY <1>1, <1>2, <1>10 DEF Of, x
  <2>3. Named(es, i) = Named(ds, i) /\ Named(ds, i) \subseteq 1..n
    BY <1>1, <2>2 DEF Named
  <2>4. Named(ds, i) # {} => Max(Named(ds, i)) \in 1..n
    <3>1. Named(ds, i) \in SUBSET Nat /\ \A k \in Named(ds, i) : k <= n
      BY <1>2, <2>3
    <3>. QED  BY <1>2, <2>3, <3>1, MaxFacts
  <2>5. {es[k].arg : k \in Of(es, i)} = {ds[k].arg : k \in Of(ds, i)}
    BY <1>1, <2>2
  <2>6. Assembled(ds, a[i], i)
    BY <2>1
  <2>. QED  BY <1>1, <2>1, <2>3, <2>4, <2>5, <2>6 DEF Assembled, Gathered
<1>11. Assembled(es, call, x)
  <2> DEFINE old == entry.args
             new == Append(old, d.arg)
  <2>1. /\ Of(es, x) = Of(ds, x) \cup {n + 1} /\ Of(ds, x) \subseteq 1..n
    BY <1>1, <1>2 DEF Of, x
  <2>2. /\ Named(es, x) = IF d.id = Missing THEN Named(ds, x) ELSE Named(ds, x) \cup {n + 1}
        /\ Named(ds, x) \subseteq 1..n
    BY <1>1, <1>2, <2>1 DEF Named
  <2>3. Named(ds, x) # {} => Max(Named(ds, x)) \in 1..n
    <3>1. Named(ds, x) \in SUBSET Nat /\ \A k \in Named(ds, x) : k <= n
      BY <1>2, <2>2
    <3>. QED  BY <1>2, <2>2, <3>1, MaxFacts
  <2>4. d.id # Missing => Max(Named(es, x)) = n + 1
    <3> DEFINE N == Named(es, x)
    <3>1. SUFFICES ASSUME d.id # Missing PROVE Max(N) = n + 1
      OBVIOUS
    <3>2. N \subseteq 1..(n + 1) /\ n + 1 \in N
      BY <1>2, <2>2, <3>1
    <3>3. N \in SUBSET Nat /\ N # {} /\ \A k \in N : k <= n + 1
      BY <1>2, <3>2
    <3>a. n + 1 \in Nat
      BY <1>2
    <3> HIDE DEF N
    <3> DEFINE top == n + 1
    <3>b. top \in Nat /\ \A k \in N : k <= top
      BY <3>a, <3>3
    <3> HIDE DEF top
    <3>4. Max(N) \in N /\ \A k \in N : k <= Max(N)
      BY <3>b, <3>3, MaxFacts
    <3> DEFINE m == Max(N)
    <3>5. m \in N /\ \A k \in N : k <= m
      BY <3>4
    <3> HIDE DEF m
    <3>6. m = n + 1
      BY <1>2, <3>2, <3>3, <3>5
    <3>. QED  BY <3>6 DEF m
  <2>5. call.id = IF Named(es, x) = {} THEN NoId ELSE es[Max(Named(es, x))].id
    <3>1. entry.id = IF Named(ds, x) = {} THEN NoId ELSE ds[Max(Named(ds, x))].id
      BY <1>5 DEF Assembled, Gathered
    <3>2. CASE d.id = Missing
      BY <1>1, <2>2, <2>3, <3>1, <3>2
    <3>3. CASE d.id # Missing
      BY <1>1, <2>2, <2>4, <3>3
    <3>. QED  BY <3>2, <3>3
  <2>6. /\ Len(old) \in Nat /\ DOMAIN old = 1..Len(old) /\ DOMAIN new = 1..(Len(old) + 1)
        /\ \A j \in 1..Len(old) : new[j] = old[j]
        /\ new[Len(old) + 1] = n + 1
    <3>1. old \in Seq(1..MaxLines) /\ d.arg \in 1..MaxLines
      BY <1>4, <1>5
    <3> HIDE DEF old
    <3>2. new \in Seq(1..MaxLines) /\ Len(new) = Len(old) + 1
      BY <3>1, AppendProperties
    <3>3. \A j \in 1..Len(old) : new[j] = old[j]
      BY <3>1, AppendProperties
    <3>4. new[Len(old) + 1] = n + 1
      BY <3>1, AppendProperties
    <3> HIDE DEF new
    <3>. QED  BY <3>1, <3>2, <3>3, <3>4, LenProperties
  <2>7. Range(old) = {ds[k].arg : k \in Of(ds, x)} /\ Range(old) \subseteq 1..n
    <3>1. Range(old) = {ds[k].arg : k \in Of(ds, x)}
      BY <1>5 DEF Assembled, Gathered
    <3>. QED  BY <1>2, <2>1, <3>1
  <2> HIDE DEF old, new
  <2>8. Range(new) = {es[k].arg : k \in Of(es, x)}
    <3>1. Range(new) = Range(old) \cup {n + 1}
      <4>1. ASSUME NEW j \in DOMAIN new PROVE new[j] \in Range(old) \cup {n + 1}
        <5>1. j \in DOMAIN old \/ j = Len(old) + 1
          BY <2>6
        <5>. QED  BY <2>6, <5>1 DEF Range
      <4>2. ASSUME NEW j \in DOMAIN old PROVE old[j] \in Range(new)
        <5>1. j \in DOMAIN new /\ new[j] = old[j]
          BY <2>6
        <5>. QED  BY <5>1 DEF Range
      <4>3. n + 1 \in Range(new)
        <5>1. Len(old) + 1 \in DOMAIN new
          BY <2>6
        <5>. QED  BY <2>6, <5>1 DEF Range
      <4>. QED  BY <4>1, <4>2, <4>3 DEF Range
    <3>2. {es[k].arg : k \in Of(es, x)} = {ds[k].arg : k \in Of(ds, x)} \cup {n + 1}
      <4>1. \A k \in Of(ds, x) : es[k].arg = ds[k].arg
        BY <1>1, <2>1
      <4>2. es[n + 1].arg = n + 1
        BY <1>1
      <4>. QED  BY <2>1, <4>1, <4>2
    <3>. QED  BY <2>7, <3>1, <3>2
  <2>9. \A j, k \in DOMAIN new : j < k => new[j] < new[k]
    <3>1. \A j, k \in DOMAIN old : j < k => old[j] < old[k]
      BY <1>5 DEF Assembled, Gathered, old
    <3>2. \A j \in DOMAIN old : old[j] \in 1..n
      BY <2>7 DEF Range
    <3>3. ASSUME NEW j \in DOMAIN new, NEW k \in DOMAIN new, j < k
          PROVE  new[j] < new[k]
      <4>1. j \in DOMAIN old
        BY <2>6, <3>3
      <4>2. CASE k \in DOMAIN old
        BY <2>6, <3>1, <3>3, <4>1, <4>2
      <4>3. CASE k = Len(old) + 1
        BY <1>2, <2>6, <3>2, <4>1, <4>3
      <4>. QED  BY <2>6, <4>2, <4>3
    <3>. QED  BY <3>3
  <2>10. call.args = new
    BY DEF old, new
  <2>. QED  BY <2>5, <2>8, <2>9, <2>10 DEF Assembled, Gathered
<1>12. merged[x] = call
  <2> HIDE DEF call
  <2>. QED  BY <1>3
<1>. QED  BY <1>1, <1>7, <1>9, <1>10, <1>11, <1>12 DEF es, merged

-----------------------------------------------------------------------------
(* The inductive invariant *)

(* The round starts, and runPhase returns, with no delta and no call. *)
LEMMA NoCallsFacts ==
  /\ UsedIndices(<<>>) = {} /\ DOMAIN NoCalls = {}
  /\ NoCalls \in [DOMAIN NoCalls -> Call]
  /\ <<>> \in Seq(Delta) /\ <<>> \in Seq(Pieces) /\ <<>> \in Seq(Call)
  /\ DOMAIN <<>> = {}
BY DEF UsedIndices, NoCalls

LEMMA InitInv == Init => RoundInv
<1> SUFFICES ASSUME Init PROVE RoundInv
  OBVIOUS
<1>1. TypeOK
  <2>1. rounds \in 0..MaxToolRoundsPerPhase
    BY RoundAssumption DEF Init
  <2>2. DOMAIN acc \subseteq Indices \cup {0} /\ acc \in [DOMAIN acc -> Call]
    BY NoCallsFacts DEF Init
  <2>3. parts \in Seq(Pieces) /\ calls \in Seq(Call) /\ sent \in Seq(Delta)
    BY NoCallsFacts DEF Init
  <2>4. debates \in 0..DebateRounds
    BY RoundAssumption DEF Init
  <2>. QED  BY <2>1, <2>2, <2>3, <2>4 DEF Init, TypeOK
<1>2. Assembling
  BY NoCallsFacts DEF Init, Assembling
<1>3. Debating /\ Phases
  BY DEF Init, Debating, Phases
<1>. QED  BY <1>1, <1>2, <1>3 DEF RoundInv

(* What a stream has assembled stays assembled. *)
LEMMA NextAssembling ==
  ASSUME TypeOK, Assembling, [Next]_vars
  PROVE  /\ Assembling'
         /\ (DOMAIN acc \subseteq Indices \cup {0})'
         /\ (acc \in [DOMAIN acc -> Call])'
         /\ (calls \in Seq(Call))'
         /\ (sent \in Seq(Delta))'
<1> DEFINE Goal == /\ Assembling'
                   /\ (DOMAIN acc \subseteq Indices \cup {0})'
                   /\ (acc \in [DOMAIN acc -> Call])'
                   /\ (calls \in Seq(Call))'
                   /\ (sent \in Seq(Delta))'
<1>1. /\ DOMAIN acc = UsedIndices(sent) /\ acc \in [UsedIndices(sent) -> Call]
      /\ \A i \in UsedIndices(sent) : Assembled(sent, acc[i], i)
      /\ \A k \in DOMAIN sent : sent[k].arg = k
      /\ sent \in Seq(Delta) /\ calls \in Seq(Call)
  BY DEF TypeOK, Assembling
<1>2. CASE CallLine
  <2>1. PICK d \in Delta : /\ d.arg = Len(sent) + 1
                           /\ acc' = MergeToolCallDelta(acc, d)
                           /\ sent' = Append(sent, d)
    BY <1>2 DEF CallLine
  <2>2. sent' \in Seq(Delta)
    BY <1>1, <2>1, MergeFacts
  <2>3. acc' \in [UsedIndices(sent') -> Call]
    BY <1>1, <2>1, MergeFacts
  <2>4. \A i \in UsedIndices(sent') : Assembled(sent', acc'[i], i)
    BY <1>1, <2>1, MergeFacts
  <2>5. \A k \in DOMAIN sent' : sent'[k].arg = k
    BY <1>1, <2>1, MergeFacts
  <2>6. DOMAIN acc' = UsedIndices(sent')
    BY <2>3
  <2>7. UsedIndices(sent') \subseteq Indices \cup {0}
    BY <2>2, UsedType
  <2>8. pc' # "paused" /\ calls' = calls
    BY <1>2 DEF CallLine, Streaming
  <2>9. Assembling'
    BY <2>4, <2>5, <2>6, <2>8 DEF Assembling
  <2>. QED  BY <1>1, <2>2, <2>3, <2>6, <2>7, <2>8, <2>9
<1>3. CASE StreamPauses
  <2>1. calls' \in CollectToolCalls(acc) /\ UNCHANGED <<acc, sent>>
    BY <1>3 DEF StreamPauses, streamVars
  <2>2. UsedIndices(sent) \in SUBSET Nat /\ IsFiniteSet(UsedIndices(sent))
    BY <1>1, UsedType
  <2>3. calls' \in Seq(Call)
    BY <1>1, <2>1, <2>2, CollectFacts
  <2>4. Assembling'
    BY <2>1 DEF Assembling
  <2>. QED  BY <2>1, <2>3, <2>4 DEF TypeOK
<1>4. ASSUME acc' = NoCalls, sent' = <<>>, UNCHANGED calls, pc' # "paused"
      PROVE  Goal
  <2>1. Assembling'
    BY <1>4, NoCallsFacts DEF Assembling
  <2>. QED  BY <1>1, <1>4, <2>1, NoCallsFacts
<1>5. ASSUME UNCHANGED <<acc, sent, calls>>, pc' # "paused" \/ pc' = pc
      PROVE  Goal
  <2>1. Assembling'
    BY <1>5 DEF Assembling
  <2>. QED  BY <1>5, <2>1 DEF TypeOK
<1>6. CASE StreamFails \/ StreamAnswers \/ StreamEndsLeaf \/ RetryEnds \/ RetryFails
  <2>1. acc' = NoCalls /\ sent' = <<>> /\ UNCHANGED calls /\ pc' # "paused"
    BY <1>6 DEF StreamFails, StreamAnswers, StreamEndsLeaf, RetryEnds, RetryFails, Return
  <2>. QED  BY <1>4, <2>1
<1>7. CASE TextLine \/ RetryLeaf \/ StartDebate \/ SkipDebate \/ Approve \/ Object
           \/ Refine \/ DebateFails \/ Record \/ UNCHANGED vars
  <2>1. UNCHANGED <<acc, sent, calls>> /\ (pc' # "paused" \/ pc' = pc)
    BY <1>7 DEF TextLine, RetryLeaf, StartDebate, SkipDebate, Approve, Object, Refine,
                DebateFails, Record, streamVars, vars
  <2>. QED  BY <1>5, <2>1
<1>. QED  BY <1>2, <1>3, <1>6, <1>7 DEF Next

(* The types of the other variables. *)
LEMMA NextType ==
  ASSUME TypeOK, Assembling, [Next]_vars
  PROVE  TypeOK'
<1> DEFINE Text == Pieces \cup {"empty", "note"}
<1>0. /\ (DOMAIN acc \subseteq Indices \cup {0})'
      /\ (acc \in [DOMAIN acc -> Call])'
      /\ (calls \in Seq(Call))'
      /\ (sent \in Seq(Delta))'
  BY NextAssembling
<1>1. Class(parts) \in Text
  BY ClassType DEF TypeOK
<1>2. /\ pc' \in {"stream", "correct", "retry", "debate", "critique", "refine",
                  "record", "paused", "answered", "recorded", "failed"}
      /\ UNCHANGED <<phase, tools, rounds>>
  BY DEF TypeOK, Next, TextLine, CallLine, StreamFails, StreamPauses, StreamAnswers,
         StreamEndsLeaf, RetryLeaf, RetryEnds, RetryFails, StartDebate, SkipDebate,
         Approve, Object, Refine, DebateFails, Record, inputs, vars
<1>3. parts' \in Seq(Pieces)
  <2>1. CASE TextLine
    BY <2>1, AppendProperties DEF TextLine, TypeOK
  <2>2. CASE ~TextLine
    <3>1. parts' = parts \/ parts' = <<>>
      BY <2>2 DEF Next, CallLine, StreamFails, StreamPauses, StreamAnswers,
         StreamEndsLeaf, RetryLeaf, RetryEnds, RetryFails, StartDebate, SkipDebate,
         Approve, Object, Refine, DebateFails, Record, Return, streamVars, vars
    <3>. QED  BY <3>1, NoCallsFacts DEF TypeOK
  <2>. QED  BY <2>1, <2>2
<1>4. text' \in Text /\ current' \in Text /\ original' \in Text
  <2>1. CASE StreamEndsLeaf \/ RetryEnds \/ RetryFails
    BY <1>1, <2>1 DEF StreamEndsLeaf, RetryEnds, RetryFails, debateVars, TypeOK
  <2>2. CASE Refine
    BY <2>2, CompletionsType DEF Refine, TypeOK
  <2>3. CASE StartDebate \/ Approve \/ Record
    BY <2>3 DEF StartDebate, Approve, Record, Sanitized, debateVars, TypeOK
  <2>4. CASE TextLine \/ CallLine \/ StreamFails \/ StreamPauses \/ StreamAnswers
             \/ RetryLeaf \/ SkipDebate \/ Object \/ DebateFails \/ UNCHANGED vars
    BY <2>4 DEF TextLine, CallLine, StreamFails, StreamPauses, StreamAnswers, RetryLeaf,
                SkipDebate, Object, DebateFails, debateVars, vars, TypeOK
  <2>. QED  BY <2>1, <2>2, <2>3, <2>4 DEF Next
<1>5. debates' \in 0..DebateRounds /\ failed' \in BOOLEAN
  <2>1. CASE Refine
    BY <2>1, RoundAssumption DEF Refine, TypeOK
  <2>2. CASE StartDebate
    BY <2>2, RoundAssumption DEF StartDebate, TypeOK
  <2>3. CASE ~Refine /\ ~StartDebate
    BY <2>3 DEF Next, TextLine, CallLine, StreamFails, StreamPauses, StreamAnswers,
         StreamEndsLeaf, RetryLeaf, RetryEnds, RetryFails, SkipDebate,
         Approve, Object, DebateFails, Record, debateVars, vars, TypeOK
  <2>. QED  BY <2>1, <2>2, <2>3
<1>. QED  BY <1>0, <1>2, <1>3, <1>4, <1>5 DEF TypeOK

(* A debate that fails has left the leaf's text as it was. *)
LEMMA NextDebating ==
  ASSUME Debating, [Next]_vars
  PROVE  Debating'
<1>1. CASE StartDebate
  BY <1>1 DEF StartDebate, Debating
<1>2. CASE Approve \/ Object \/ Refine
  BY <1>2 DEF Approve, Object, Refine, debateVars, Debating
<1>3. CASE DebateFails
  BY <1>3 DEF DebateFails, Debating
<1>4. CASE Record
  BY <1>4 DEF Record, Debating, Sanitized, debateVars, inputs
<1>5. CASE TextLine \/ CallLine \/ StreamFails \/ StreamPauses \/ StreamAnswers
           \/ StreamEndsLeaf \/ RetryLeaf \/ RetryEnds \/ RetryFails \/ SkipDebate
  BY <1>5 DEF TextLine, CallLine, StreamFails, StreamPauses, StreamAnswers,
              StreamEndsLeaf, RetryLeaf, RetryEnds, RetryFails, SkipDebate,
              Streaming, debateVars, Debating
<1>6. CASE UNCHANGED vars
  BY <1>6 DEF vars, inputs, debateVars, Debating, Sanitized
<1>. QED  BY <1>1, <1>2, <1>3, <1>4, <1>5, <1>6 DEF Next

(* Each phase of the round knows what the one before it has left. *)
LEMMA NextPhases ==
  ASSUME TypeOK, Debating, Phases, [Next]_vars
  PROVE  Phases'
<1>0. UNCHANGED inputs /\ UNCHANGED <<phase, tools, rounds>>
  BY DEF Next, TextLine, CallLine, StreamFails, StreamPauses, StreamAnswers,
         StreamEndsLeaf, RetryLeaf, RetryEnds, RetryFails, StartDebate, SkipDebate,
         Approve, Object, Refine, DebateFails, Record, inputs, vars
<1>1. Class(parts) \in Pieces \cup {"empty"}
  BY ClassType DEF TypeOK
<1>. USE DEF Phases, Corrects, Offered
<1>2. CASE TextLine
  BY <1>0, <1>2 DEF TextLine, Streaming, debateVars
<1>3. CASE CallLine
  BY <1>0, <1>3 DEF CallLine, Streaming, debateVars
<1>4. CASE StreamFails \/ StreamPauses \/ StreamAnswers
  BY <1>0, <1>4 DEF StreamFails, StreamPauses, StreamAnswers, Return, streamVars, debateVars
<1>5. CASE StreamEndsLeaf
  <2> DEFINE t == Class(parts)
  <2>1. t \in Pieces \cup {"empty"}
    BY <1>1
  <2>2. /\ text' = t /\ acc' = NoCalls /\ phase = "leaf"
        /\ pc' = IF t = "marker" /\ tools = "none" THEN "correct" ELSE "debate"
    BY <1>5 DEF StreamEndsLeaf, Return
  <2> HIDE DEF t
  <2>3. t # "note" \/ "note" \in Pieces
    BY <2>1
  <2>4. "note" \notin Pieces
    BY RoundAssumption
  <2>. QED  BY <1>0, <2>2, <2>3, <2>4
<1>6. CASE RetryLeaf
  BY <1>0, <1>6 DEF RetryLeaf, streamVars, debateVars
<1>7. CASE RetryEnds
  BY <1>0, <1>1, <1>7 DEF RetryEnds, Return, debateVars, TypeOK
<1>8. CASE RetryFails
  BY <1>0, <1>8 DEF RetryFails, Return, debateVars, TypeOK
<1>9. CASE StartDebate \/ SkipDebate \/ Object
  BY <1>0, <1>9 DEF StartDebate, SkipDebate, Object, streamVars, debateVars
<1>10. CASE Approve
  BY <1>0, <1>10 DEF Approve, streamVars, debateVars, Debating
<1>11. CASE Refine
  BY <1>0, <1>11, CompletionsType DEF Refine, streamVars, Debating
<1>12. CASE DebateFails
  BY <1>0, <1>12 DEF DebateFails, streamVars, Debating
<1>13. CASE Record
  BY <1>0, <1>13 DEF Record, streamVars, debateVars
<1>14. CASE UNCHANGED vars
  BY <1>0, <1>14 DEF vars, streamVars, debateVars
<1>. QED  BY <1>2, <1>3, <1>4, <1>5, <1>6, <1>7, <1>8, <1>9, <1>10, <1>11, <1>12,
            <1>13, <1>14 DEF Next

(* RoundInv is inductive. *)
THEOREM RoundInvHolds == Spec => []RoundInv
<1>1. ASSUME RoundInv, [Next]_vars PROVE RoundInv'
  <2>1. TypeOK' /\ Assembling'
    BY <1>1, NextType, NextAssembling DEF RoundInv
  <2>2. Debating' /\ Phases'
    BY <1>1, NextDebating, NextPhases DEF RoundInv
  <2>. QED  BY <2>1, <2>2 DEF RoundInv
<1>. QED  BY <1>1, InitInv, PTL DEF Spec

(* The round's state has its types. *)
THEOREM TypeCorrect == Spec => []TypeOK
<1>1. RoundInv => TypeOK
  BY DEF RoundInv
<1>. QED  BY <1>1, RoundInvHolds, PTL

(* A call that is given one id has it. *)
LEMMA AssembledIdentified ==
  ASSUME NEW ds \in Seq(Delta), NEW call, NEW i, Assembled(ds, call, i)
  PROVE  Identified(ds, call, i)
<1> DEFINE N == Named(ds, i)
           n == Len(ds)
<1>1. n \in Nat /\ N \in SUBSET Nat /\ \A k \in N : k <= n
  BY LenProperties DEF Named, Of
<1> HIDE DEF N, n
<1>2. ASSUME N # {} PROVE Max(N) \in N
  BY <1>1, <1>2, MaxFacts
<1>. QED  BY <1>2 DEF Assembled, Identified, N

(* However the deltas of parallel calls are interleaved, each call has its id
   and all its arguments in order (merge.go:9-34, execute.go:98-107). *)
THEOREM CallsAssembledHolds == Spec => []CallsAssembled
<1>1. RoundInv => CallsAssembled
  <2> DEFINE D == UsedIndices(sent)
             n == Cardinality(D)
  <2>1. SUFFICES ASSUME RoundInv, pc = "paused", D = 0..(n - 1)
                 PROVE  Len(calls) = n
                        /\ \A i \in 0..(n - 1) : Gathered(sent, calls[i + 1], i)
                                               /\ Identified(sent, calls[i + 1], i)
    BY DEF CallsAssembled
  <2>2. D \in SUBSET Nat /\ IsFiniteSet(D)
    BY <2>1, UsedType DEF RoundInv, TypeOK
  <2>3. /\ acc \in [D -> Call] /\ calls \in CollectToolCalls(acc)
        /\ \A i \in D : Assembled(sent, acc[i], i)
    BY <2>1 DEF RoundInv, TypeOK, Assembling
  <2> HIDE DEF D
  <2>4. Len(calls) = n /\ \A i \in D : calls[i + 1] = acc[i]
    BY <2>1, <2>2, <2>3, CollectFacts
  <2>5. ASSUME NEW i \in 0..(n - 1)
        PROVE  Gathered(sent, calls[i + 1], i) /\ Identified(sent, calls[i + 1], i)
    <3>1. i \in D
      BY <2>1
    <3>2. Assembled(sent, calls[i + 1], i)
      BY <2>3, <2>4, <3>1
    <3>3. sent \in Seq(Delta)
      BY <2>1 DEF RoundInv, TypeOK
    <3>. QED  BY <3>2, <3>3, AssembledIdentified DEF Assembled
  <2>. QED  BY <2>4, <2>5
<1>. QED  BY <1>1, RoundInvHolds, PTL

(* A debate that fails keeps the original result, whatever its earlier rounds
   came to (README.md:188-189, execute.go debateResult). *)
THEOREM FailedDebateKeepsOriginalHolds == Spec => []FailedDebateKeepsOriginal
<1>1. RoundInv => FailedDebateKeepsOriginal
  BY DEF RoundInv, Debating, FailedDebateKeepsOriginal
<1>. QED  BY <1>1, RoundInvHolds, PTL

-----------------------------------------------------------------------------
(* A round is a step of module Engine *)

InRound == {"stream", "correct", "retry", "debate", "critique", "refine", "record"}

\* What the engine sees of a round that has not ended.
LEMMA EngineInRound ==
  ASSUME pc \in InRound
  PROVE  /\ EnginePc = "round"
         /\ Pend = [phase |-> "none", leafIndex |-> 0, calls |-> <<>>,
                    conv |-> <<>>, rounds |-> rounds]
         /\ At = IF phase = "leaf" THEN 1 ELSE 2
BY DEF InRound, EnginePc, Pend, NoPend, At

(* Nothing changes for the engine while the round goes on. *)
LEMMA EngineSeesNothing ==
  ASSUME pc \in InRound, pc' \in InRound, UNCHANGED <<phase, tools, rounds>>
  PROVE  UNCHANGED Abstract!vars
<1>1. UNCHANGED <<EnginePc, Pend, At>>
  BY DEF InRound, EnginePc, Pend, NoPend, At
<1>. QED  BY <1>1 DEF InRound, Abstract!vars, Abstract!treeVars, Abstract!workVars

(* The ids of the calls a round collects are calls that the engine expects. *)
LEMMA EngineCalls ==
  ASSUME NEW D \in SUBSET (Indices \cup {0}), D # {}, NEW a \in [D -> Call],
         NEW cs \in CollectToolCalls(a), Obedient => Abstract!Offered
  PROVE  Ids(cs) \in Abstract!StreamedCalls
<1> DEFINE visited == {i \in D : i < Cardinality(D)}
           ids == [i \in D |-> a[i].id]
<1>1. D \in IndexSets
  BY DEF IndexSets
<1>2. ids \in [D -> CallId \cup {NoId}]
  BY DEF Call
<1>3. PICK s \in Ascending(visited) : cs = [k \in DOMAIN s |-> a[s[k]]]
  BY DEF CollectToolCalls
<1>a. \A S : Abstract!Cardinality(S) = Cardinality(S)
  BY DEF Cardinality, Abstract!Cardinality
<1>4. s \in Abstract!Listings(visited, Abstract!InOrder)
  BY <1>a DEF Ascending, Abstract!Listings, Abstract!InOrder
<1>5. Ids(cs) = [k \in DOMAIN s |-> ids[s[k]]]
  <2>1. \A k \in DOMAIN s : s[k] \in D
    BY DEF Ascending
  <2>. QED  BY <1>3, <2>1 DEF Ids
<1>6. DOMAIN ids = D
  OBVIOUS
<1> HIDE DEF ids
<1>7. Ids(cs) \in Abstract!CollectToolCalls(ids)
  BY <1>a, <1>4, <1>5, <1>6 DEF Abstract!CollectToolCalls
<1>. QED  BY <1>1, <1>2, <1>7 DEF Abstract!StreamedCalls

(* A disobedient upstream can always call a tool. *)
LEMMA EngineHasCalls ==
  ASSUME ~Obedient
  PROVE  Abstract!StreamedCalls # {}
<1> DEFINE a == [i \in {0} |-> Fresh]
           s == [k \in 1..1 |-> 0]
           cs == [k \in DOMAIN s |-> a[s[k]]]
<1>1. Cardinality({0}) = 1 /\ {i \in {0} : i < 1} = {0}
  BY FS_Singleton
<1>2. s \in Ascending({0})
  BY <1>1 DEF Ascending
<1>3. a \in [{0} -> Call] /\ DOMAIN a = {0}
  BY DEF Fresh, Call
<1> HIDE DEF a, s
<1>4. cs \in CollectToolCalls(a)
  BY <1>1, <1>2, <1>3 DEF CollectToolCalls
<1> HIDE DEF cs
<1>5. {0} \in SUBSET (Indices \cup {0}) /\ {0} # {}
  OBVIOUS
<1>. QED  BY <1>3, <1>4, <1>5, EngineCalls

(* What a round records is what the engine allows for some text of the leaf. *)
LEMMA EngineLeafResult ==
  ASSUME RoundInv, pc = "record"
  PROVE  \E t \in Pieces \cup {"empty"} : Sanitized(text) \in Abstract!LeafResults(t)
<1> DEFINE Texts == Pieces \cup {"empty"}
<1>1. ASSUME NEW c \in Texts \cup {"note"}, Corrects(c)
      PROVE  \E t \in Texts : c \in Abstract!Corrected(t)
  <2>1. CASE c = "note"
    BY <1>1, <2>1 DEF Corrects, Abstract!Corrected
  <2>2. CASE c = "marker" /\ tools = "none"
    <3>1. Abstract!StreamedCalls # {} /\ c \in Texts
      BY <1>1, <2>2, EngineHasCalls DEF Corrects
    <3>2. c \in Abstract!Corrected(c)
      BY <3>1, <2>2 DEF Abstract!Corrected
    <3>. QED  BY <3>1, <3>2
  <2>3. CASE c # "note" /\ ~(c = "marker" /\ tools = "none")
    <3>1. c \in Abstract!Corrected(c) /\ c \in Texts
      BY <2>3 DEF Abstract!Corrected
    <3>. QED  BY <3>1
  <2>. QED  BY <2>1, <2>2, <2>3
<1>2. \A t : Sanitized(t) = Abstract!Sanitized(t)
  BY DEF Sanitized, Abstract!Sanitized
<1>3. ASSUME NEW c \in Texts \cup {"note"}, Corrects(c), text \in Abstract!Debated(c)
      PROVE  \E t \in Texts : Sanitized(text) \in Abstract!LeafResults(t)
  <2>1. PICK t \in Texts : c \in Abstract!Corrected(t)
    BY <1>1, <1>3
  <2>2. Sanitized(text) \in {Abstract!Sanitized(d) : d \in Abstract!Debated(c)}
    BY <1>2, <1>3
  <2>. QED  BY <2>1, <2>2 DEF Abstract!LeafResults
<1>4. text \in Texts \cup {"note"} /\ original \in Texts \cup {"note"}
  BY DEF RoundInv, TypeOK
<1>5. CASE Corrects(text)
  <2>1. text \in Abstract!Debated(text)
    BY DEF Abstract!Debated
  <2>. QED  BY <1>3, <1>4, <1>5, <2>1
<1>6. CASE ~Corrects(text)
  <2>1. DebateEnabled /\ text \in Texts /\ Corrects(original) /\ original # "empty"
    BY <1>6 DEF RoundInv, Phases
  <2>2. text \in Abstract!Debated(original)
    BY <2>1 DEF Abstract!Debated
  <2>. QED  BY <1>3, <1>4, <2>1, <2>2
<1>. QED  BY <1>5, <1>6

(* Every step of a round is no step of the engine's, or the one that ends its
   round: runPhase and what follows it implement RoundPauses, RoundAnswers,
   RoundRecordsLeaf and RunFails. *)
THEOREM ImplementsEngineRoundHolds == Spec => ImplementsEngineRound
<1>1. ASSUME RoundInv, [Next]_vars PROVE [EngineRoundEnds]_(Abstract!vars)
  <2>0. UNCHANGED <<phase, tools, rounds>>
    BY <1>1 DEF Next, TextLine, CallLine, StreamFails, StreamPauses, StreamAnswers,
         StreamEndsLeaf, RetryLeaf, RetryEnds, RetryFails, StartDebate, SkipDebate,
         Approve, Object, Refine, DebateFails, Record, inputs, vars
  <2>1. CASE StreamPauses
    <3>1. /\ pc = "stream" /\ pc' = "paused" /\ acc # NoCalls
          /\ calls' \in CollectToolCalls(acc)
      BY <2>1 DEF StreamPauses
    <3>2. DOMAIN acc \in SUBSET (Indices \cup {0}) /\ acc \in [DOMAIN acc -> Call]
      BY <1>1 DEF RoundInv, TypeOK
    <3>3. DOMAIN acc # {}
      BY <3>1, <3>2 DEF NoCalls
    <3>4. /\ EnginePc = "round" /\ At = IF phase = "leaf" THEN 1 ELSE 2
          /\ Pend = [phase |-> "none", leafIndex |-> 0, calls |-> <<>>,
                     conv |-> <<>>, rounds |-> rounds]
      BY <3>1, EngineInRound DEF InRound
    <3>5. Obedient => Abstract!Offered
      BY <1>1, <3>1, <3>4 DEF RoundInv, Phases, Offered, Abstract!Offered
    <3>6. Ids(calls') \in Abstract!StreamedCalls
      BY <3>1, <3>2, <3>3, <3>5, EngineCalls
    <3>7. EnginePc' = "stopped" /\ At' = At
      BY <2>0, <3>1, <3>4 DEF EnginePc, At
    <3>8. Pend' = [phase |-> phase, leafIndex |-> IF phase = "leaf" THEN 1 ELSE 0,
                   calls |-> Ids(calls'),
                   conv |-> Append(Pend.conv, Abstract!Asks(Ids(calls'))),
                   rounds |-> Pend.rounds + 1]
      BY <2>0, <3>1, <3>4 DEF Pend, Ids, Abstract!Asks
    <3>9. Abstract!RoundPauses
      BY <2>0, <3>1, <3>4, <3>6, <3>7, <3>8
         DEF Abstract!RoundPauses, Abstract!treeVars
    <3>. QED  BY <3>7, <3>9 DEF EngineRoundEnds
  <2>2. CASE StreamAnswers
    <3>1. pc = "stream" /\ pc' = "answered" /\ phase = "synthesis"
      BY <2>2 DEF StreamAnswers
    <3>2. /\ EnginePc = "round" /\ EnginePc' = "stopped" /\ At' = At
          /\ Pend' = Abstract!NoPending
      BY <2>0, <3>1 DEF EnginePc, At, Pend, NoPend, Abstract!NoPending
    <3>3. Abstract!RoundAnswers
      BY <2>0, <3>1, <3>2 DEF Abstract!RoundAnswers, Abstract!treeVars
    <3>. QED  BY <3>2, <3>3 DEF EngineRoundEnds
  <2>3. CASE StreamFails
    <3>1. pc = "stream" /\ pc' = "failed"
      BY <2>3 DEF StreamFails
    <3>2. EnginePc = "round" /\ EnginePc' = "idle" /\ Pend' = Abstract!NoPending
      BY <3>1 DEF EnginePc, Pend, NoPend, Abstract!NoPending
    <3>3. Abstract!RunFails
      BY <2>0, <3>1, <3>2 DEF Abstract!RunFails, Abstract!Drop
    <3>. QED  BY <3>2, <3>3 DEF EngineRoundEnds
  <2>4. CASE Record
    <3>1. pc = "record" /\ pc' = "recorded" /\ text' = Sanitized(text) /\ phase = "leaf"
      BY <1>1, <2>4 DEF Record, RoundInv, Phases
    <3>2. /\ EnginePc = "round" /\ EnginePc' = "leaf" /\ At = 1 /\ At' = 2
          /\ Pend' = Abstract!NoPending
      BY <2>0, <3>1 DEF EnginePc, At, Pend, NoPend, Abstract!NoPending
    <3>3. PICK t \in Pieces \cup {"empty"} : Sanitized(text) \in Abstract!LeafResults(t)
      BY <1>1, <3>1, EngineLeafResult
    <3>4. Sanitized(text) \in Abstract!Text
      BY <1>1, RoundAssumption DEF RoundInv, TypeOK, Sanitized, Abstract!Text
    <3>5. <<EngineResult(text')>>
            = Append(<<>>, [leaf |-> <<EngineNode>>[1], text |-> Sanitized(text)])
      BY <3>1 DEF EngineResult
    <3>6. Abstract!RoundRecordsLeaf
      BY <2>0, <3>1, <3>2, <3>3, <3>4, <3>5
         DEF Abstract!RoundRecordsLeaf, Abstract!treeVars
    <3>. QED  BY <3>2, <3>6 DEF EngineRoundEnds
  <2>5. CASE TextLine \/ CallLine \/ StreamEndsLeaf \/ RetryLeaf \/ RetryEnds \/ RetryFails
             \/ StartDebate \/ SkipDebate \/ Approve \/ Object \/ Refine \/ DebateFails
    <3>1. pc \in InRound /\ pc' \in InRound
      BY <2>5 DEF TextLine, CallLine, StreamEndsLeaf, RetryLeaf, RetryEnds, RetryFails,
         StartDebate, SkipDebate, Approve, Object, Refine, DebateFails, Streaming, InRound
    <3>. QED  BY <2>0, <3>1, EngineSeesNothing
  <2>6. CASE UNCHANGED vars
    <3>1. UNCHANGED <<EnginePc, Pend, At, EngineResult(text)>> /\ UNCHANGED pc
      BY <2>0, <2>6 DEF vars, EnginePc, Pend, NoPend, At, EngineResult, Ids
    <3>. QED  BY <2>0, <3>1 DEF Abstract!vars, Abstract!treeVars, Abstract!workVars
  <2>. QED  BY <1>1, <2>1, <2>2, <2>3, <2>4, <2>5, <2>6 DEF Next
<1>. QED  BY <1>1, RoundInvHolds, PTL DEF Spec, ImplementsEngineRound
=============================================================================
