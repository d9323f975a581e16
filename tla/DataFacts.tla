----------------------------- MODULE DataFacts -----------------------------
(***************************************************************************)
(* Facts about prefixes of sequences and about sets of naturals that the   *)
(* proofs of several modules rest on.                                      *)
(***************************************************************************)
EXTENDS Naturals, Sequences, SequencesExt, FiniteSetsExt, SequenceTheorems,
        FiniteSetTheorems, WellFoundedInduction, TLAPS

(* IsPrefix of the community modules, element by element. *)
LEMMA PrefixDef ==
  ASSUME NEW S, NEW s \in Seq(S), NEW t \in Seq(S)
  PROVE  IsPrefix(s, t) <=>
           Len(s) <= Len(t) /\ \A i \in 1..Len(s) : s[i] = t[i]
<1>1. Len(s) \in Nat /\ Len(t) \in Nat
  BY LenProperties
<1>2. ASSUME Len(s) <= Len(t)
      PROVE  SubSeq(s, 1, Len(s)) = SubSeq(t, 1, Len(s))
               <=> \A i \in 1..Len(s) : s[i] = t[i]
  <2>1. \A i \in 1..Len(s) : s[i] \in S /\ t[i] \in S
    BY <1>1, <1>2, ElementOfSeq
  <2>2. /\ SubSeq(s, 1, Len(s)) \in Seq(S)
        /\ Len(SubSeq(s, 1, Len(s))) = Len(s)
        /\ \A i \in 1..Len(s) : SubSeq(s, 1, Len(s))[i] = s[i]
    BY <1>1, <2>1, SubSeqProperties
  <2>3. /\ SubSeq(t, 1, Len(s)) \in Seq(S)
        /\ Len(SubSeq(t, 1, Len(s))) = Len(s)
        /\ \A i \in 1..Len(s) : SubSeq(t, 1, Len(s))[i] = t[i]
    BY <1>1, <2>1, SubSeqProperties
  <2>4. ASSUME \A i \in 1..Len(s) : s[i] = t[i]
        PROVE  SubSeq(s, 1, Len(s)) = SubSeq(t, 1, Len(s))
    BY <2>2, <2>3, <2>4, SeqEqual
  <2>5. ASSUME SubSeq(s, 1, Len(s)) = SubSeq(t, 1, Len(s))
        PROVE  \A i \in 1..Len(s) : s[i] = t[i]
    BY <2>2, <2>3, <2>5
  <2>. QED  BY <2>4, <2>5
<1>. QED  BY <1>2 DEF IsPrefix

(* A sequence is a prefix of itself. *)
LEMMA PrefixRefl ==
  ASSUME NEW S, NEW s \in Seq(S)
  PROVE  IsPrefix(s, s)
BY PrefixDef, LenProperties

(* The empty sequence is a prefix of every sequence. *)
LEMMA PrefixOfAll ==
  ASSUME NEW S, NEW s \in Seq(S)
  PROVE  IsPrefix(<<>>, s)
<1>1. <<>> \in Seq(S) /\ Len(<<>>) = 0 /\ Len(s) \in Nat
  BY EmptySeq, LenProperties
<1>2. ASSUME NEW e \in Seq(S), Len(e) = 0 PROVE IsPrefix(e, s)
  <2>1. Len(e) <= Len(s) /\ \A i \in 1..Len(e) : e[i] = s[i]
    BY <1>1, <1>2
  <2>. QED  BY <2>1, PrefixDef
<1>. QED  BY <1>1, <1>2

(* Appending to a sequence keeps its prefixes. *)
LEMMA PrefixAppend ==
  ASSUME NEW S, NEW s \in Seq(S), NEW t \in Seq(S), NEW e \in S,
         IsPrefix(s, t)
  PROVE  IsPrefix(s, Append(t, e))
<1>1. Len(s) \in Nat /\ Len(t) \in Nat
  BY LenProperties
<1>2. Len(s) <= Len(t) /\ \A i \in 1..Len(s) : s[i] = t[i]
  BY PrefixDef
<1> DEFINE u == Append(t, e)
<1>3. /\ u \in Seq(S)
      /\ Len(u) = Len(t) + 1
      /\ \A i \in 1..Len(t) : u[i] = t[i]
  BY AppendProperties
<1> HIDE DEF u
<1>4. IsPrefix(s, u)
  BY <1>1, <1>2, <1>3, PrefixDef
<1>. QED  BY <1>4 DEF u

(* Appending an element extends the sequence. *)
LEMMA PrefixOfAppend ==
  ASSUME NEW S, NEW s \in Seq(S), NEW e \in S
  PROVE  IsPrefix(s, Append(s, e))
BY PrefixRefl, PrefixAppend

(* IsPrefix is transitive. *)
LEMMA PrefixTrans ==
  ASSUME NEW S, NEW s \in Seq(S), NEW t \in Seq(S), NEW u \in Seq(S),
         IsPrefix(s, t), IsPrefix(t, u)
  PROVE  IsPrefix(s, u)
<1>1. Len(s) \in Nat /\ Len(t) \in Nat /\ Len(u) \in Nat
  BY LenProperties
<1>2. /\ Len(s) <= Len(t) /\ \A i \in 1..Len(s) : s[i] = t[i]
      /\ Len(t) <= Len(u) /\ \A i \in 1..Len(t) : t[i] = u[i]
  BY PrefixDef
<1>. QED  BY <1>1, <1>2, PrefixDef

(* Where the elements of a concatenation come from. *)
LEMMA ConcatElements ==
  ASSUME NEW S, NEW s \in Seq(S), NEW t \in Seq(S)
  PROVE  /\ s \o t \in Seq(S) /\ Len(s \o t) = Len(s) + Len(t)
         /\ \A i \in 1..Len(s) : (s \o t)[i] = s[i]
         /\ \A i \in 1..Len(t) : (s \o t)[Len(s) + i] = t[i]
<1> DEFINE u == s \o t
<1>1. Len(s) \in Nat /\ Len(t) \in Nat
  BY LenProperties
<1>2. /\ u \in Seq(S) /\ Len(u) = Len(s) + Len(t)
      /\ \A i \in 1..(Len(s) + Len(t)) :
           u[i] = IF i <= Len(s) THEN s[i] ELSE t[i - Len(s)]
  BY ConcatProperties
<1> HIDE DEF u
<1>3. \A i \in 1..Len(s) : u[i] = s[i]
  BY <1>1, <1>2
<1>4. ASSUME NEW i \in 1..Len(t) PROVE u[Len(s) + i] = t[i]
  <2>1. /\ Len(s) + i \in 1..(Len(s) + Len(t)) /\ ~(Len(s) + i <= Len(s))
        /\ (Len(s) + i) - Len(s) = i
    BY <1>1
  <2>. QED  BY <1>2, <2>1
<1>. QED  BY <1>2, <1>3, <1>4 DEF u

-----------------------------------------------------------------------------
(* Sets of naturals *)

(* A nonempty set of naturals has a least element. *)
LEMMA LeastExists ==
  ASSUME NEW S \in SUBSET Nat, S # {}
  PROVE  \E x \in S : \A y \in S : x <= y
<1> DEFINE R == {ss \in Nat \X Nat : ss[1] < ss[2]}
<1>1. IsWellFoundedOn(R, Nat)
  BY NatLessThanWellFounded DEF OpToRel
<1>2. PICK x \in S : \A y \in S : <<y, x>> \notin R
  BY <1>1, WFMin
<1>3. ASSUME NEW y \in S PROVE x <= y
  <2>1. <<y, x>> \in Nat \X Nat /\ <<y, x>>[1] = y /\ <<y, x>>[2] = x
    OBVIOUS
  <2>2. ~(y < x)
    BY <1>2, <2>1
  <2>. QED  BY <2>2
<1>. QED  BY <1>3

(* A nonempty bounded set of naturals has a greatest element. *)
LEMMA GreatestExists ==
  ASSUME NEW S \in SUBSET Nat, S # {}, NEW n \in Nat, \A s \in S : s <= n
  PROVE  \E x \in S : \A y \in S : y <= x
<1> DEFINE T == {n - s : s \in S}
<1>1. T \in SUBSET Nat /\ T # {}
  <2>1. \A s \in S : n - s \in Nat
    OBVIOUS
  <2>. QED  BY <2>1
<1>2. PICK t \in T : \A u \in T : t <= u
  BY <1>1, LeastExists
<1>3. PICK x \in S : t = n - x
  OBVIOUS
<1>4. ASSUME NEW y \in S PROVE y <= x
  <2>1. n - x <= n - y
    BY <1>2, <1>3
  <2>. QED  BY <2>1
<1>. QED  BY <1>3, <1>4

(* Max of the community modules is that element. *)
LEMMA MaxFacts ==
  ASSUME NEW S \in SUBSET Nat, S # {}, NEW n \in Nat, \A s \in S : s <= n
  PROVE  Max(S) \in S /\ \A s \in S : s <= Max(S)
<1>1. PICK x \in S : \A y \in S : x >= y
  BY GreatestExists
<1>. QED  BY <1>1 DEF Max

(* Below the greatest element of a finite set are the others. *)
LEMMA BelowGreatest ==
  ASSUME NEW S \in SUBSET Nat, IsFiniteSet(S), NEW x \in S, \A y \in S : y <= x
  PROVE  Cardinality({m \in S : m < x}) = Cardinality(S) - 1
<1>1. {m \in S : m < x} = S \ {x}
  <2>1. ASSUME NEW m \in S PROVE m < x <=> m # x
    <3>1. m \in Nat /\ x \in Nat /\ m <= x
      OBVIOUS
    <3>. QED  BY <3>1
  <2>. QED  BY <2>1
<1>2. Cardinality(S \ {x}) = Cardinality(S) - 1
  BY FS_RemoveElement
<1>. QED  BY <1>1, <1>2

(* A bounded set of naturals has an element of each rank. *)
LEMMA RankExists ==
  ASSUME NEW S \in SUBSET Nat, NEW b \in Nat, \A s \in S : s <= b,
         NEW i \in 1..Cardinality(S)
  PROVE  \E n \in S : Cardinality({m \in S : m < n}) = i - 1
<1> DEFINE below(n) == {m \in S : m < n}
           T == {n \in S : Cardinality(below(n)) >= i - 1}
<1>1. IsFiniteSet(S) /\ Cardinality(S) \in Nat /\ i \in Nat /\ S # {}
  BY FS_BoundedSetOfNaturals, FS_CardinalityType, FS_EmptySet
<1>2. ASSUME NEW n \in S
      PROVE  /\ IsFiniteSet(below(n)) /\ Cardinality(below(n)) \in Nat
             /\ below(n) \in SUBSET Nat /\ \A m \in below(n) : m <= b
  BY <1>1, FS_Subset, FS_CardinalityType
<1>3. T # {} /\ T \in SUBSET Nat
  <2>1. PICK x \in S : \A y \in S : y <= x
    BY <1>1, GreatestExists
  <2>2. Cardinality(below(x)) = Cardinality(S) - 1
    BY <1>1, <2>1, BelowGreatest
  <2>3. Cardinality(below(x)) >= i - 1
    BY <1>1, <2>2
  <2>4. x \in T
    BY <2>1, <2>3
  <2>. QED  BY <2>4
<1>4. PICK n \in T : \A m \in T : n <= m
  <2> HIDE DEF T
  <2>. QED  BY <1>3, LeastExists
<1>5. n \in S /\ n \in Nat /\ Cardinality(below(n)) >= i - 1
  BY <1>4
<1>6. ASSUME Cardinality(below(n)) > i - 1 PROVE FALSE
  <2> DEFINE R == below(n)
  <2>1. /\ IsFiniteSet(R) /\ Cardinality(R) \in Nat
        /\ R \in SUBSET Nat /\ \A m \in R : m <= b
    BY <1>2, <1>5
  <2>2. R # {}
    <3> HIDE DEF R
    <3>. QED  BY <1>1, <1>6, FS_EmptySet DEF R
  <2>3. PICK p \in R : \A m \in R : m <= p
    <3> HIDE DEF R
    <3>. QED  BY <2>1, <2>2, GreatestExists
  <2>4. p \in S /\ p \in Nat /\ p < n
    BY <2>3
  <2>5. below(p) = {m \in R : m < p}
    <3>1. ASSUME NEW m \in S, m < p PROVE m < n
      <4>1. m \in Nat
        OBVIOUS
      <4>. QED  BY <1>5, <2>4, <3>1, <4>1
    <3>. QED  BY <3>1
  <2>6. Cardinality({m \in R : m < p}) = Cardinality(R) - 1
    <3> HIDE DEF R
    <3>. QED  BY <2>1, <2>3, BelowGreatest
  <2>7. Cardinality(below(p)) >= i - 1
    <3>1. Cardinality(below(p)) = Cardinality(R) - 1
      BY <2>5, <2>6
    <3> HIDE DEF below
    <3>. QED  BY <1>1, <1>6, <2>1, <3>1 DEF R
  <2>8. p \in T
    BY <2>4, <2>7
  <2>9. n <= p
    BY <1>4, <2>8
  <2>. QED  BY <1>5, <2>4, <2>9
<1>7. Cardinality(below(n)) = i - 1
  <2>1. Cardinality(below(n)) \in Nat
    BY <1>2, <1>5
  <2> HIDE DEF below
  <2>. QED  BY <1>1, <1>5, <1>6, <2>1
<1>. QED  BY <1>5, <1>7
=============================================================================
