--------------------------- MODULE SpecClientProofs ---------------------------
(***************************************************************************)
(* Proofs about SpecClient, for any documents and any specifications with  *)
(* any number of references, and any listing of finitely many              *)
(* declarations.                                                           *)
(*                                                                         *)
(* Both the resolver and the converter wait for a number of answers they   *)
(* have counted beforehand.  The invariants say what the two numbers have  *)
(* to do with the set of calls that are under way.                         *)
(***************************************************************************)
EXTENDS SpecClient, FiniteSetTheorems, SequenceTheorems, WellFoundedInduction, TLAPS

\* The resolver: between two rounds nothing is under way, and in one as much as
\* is still to be counted.
RoundInv ==
    /\ toResolve \in Seq(Nat) /\ i \in Nat /\ processed \in 0..Len(toResolve)
    /\ phase \in Phases
    /\ inflight \subseteq 1..Len(toResolve)
    /\ phase # "wait" => inflight = {}
    /\ phase = "wait" => inflight # {} /\ Len(toResolve) = processed + Cardinality(inflight)

\* The converter: a declaration that is not under way any more has been merged
\* if it was served and complete.
Accounted(a) == description.apis[a] = "complete" => a \in merged \cup refused

ListingInv ==
    /\ processedCount \in Nat
    /\ conversion = "idle" => processedCount = 0
    /\ Listing =>
          /\ IsFiniteSet(Named) /\ \A a \in Named : description.apis[a] \in Qualities
          /\ awaited \subseteq Named
          /\ Cardinality(Named) = processedCount + Cardinality(awaited)
          /\ awaited = {} => threw # {}
          /\ \A a \in Named \ awaited : Accounted(a)
    /\ (conversion = "spec" /\ description.kind = "listing") => \A a \in Named : Accounted(a)
-----------------------------------------------------------------------------
(***************************************************************************)
(* Numbers and sequences                                                   *)
(*                                                                         *)
(* The library's principles of induction take the formula to be proved as  *)
(* a parameter, which no prover here can instantiate.  Its theorem about   *)
(* minimal elements of sets does as well: the formula becomes a set.       *)
(***************************************************************************)
LEMMA Induction ==
    ASSUME NEW S, 0 \in S, \A n \in Nat : n \in S => n + 1 \in S
    PROVE  Nat \subseteq S
  <1> DEFINE R == {p \in Nat \X Nat : p[1] < p[2]}
             T == Nat \ S
  <1> SUFFICES ASSUME T # {} PROVE FALSE
    OBVIOUS
  <1>1. IsWellFoundedOn(R, Nat)
    BY NatLessThanWellFounded DEF OpToRel
  <1>2. PICK n \in T : \A m \in T : ~ (<<m, n>> \in R)
    <2>1. T \subseteq Nat
      OBVIOUS
    <2> HIDE DEF T, R
    <2> QED
      BY <1>1, <2>1, WFMin
  <1>3. n \in Nat /\ n # 0 /\ n - 1 \in Nat
    OBVIOUS
  <1>4. <<n - 1, n>> \in R
    BY <1>3
  <1>5. n - 1 \notin T
    BY ONLY <1>2, <1>4
  <1> QED
    BY <1>3, <1>5

\* The least and the greatest element of a set of positions.
LEMMA Least ==
    ASSUME NEW S, S \subseteq Nat, S # {}
    PROVE  Min(S) \in S /\ \A x \in S : Min(S) <= x
  <1> DEFINE R == {p \in Nat \X Nat : p[1] < p[2]}
  <1>1. IsWellFoundedOn(R, Nat)
    BY NatLessThanWellFounded DEF OpToRel
  <1>2. PICK n \in S : \A m \in S : ~ (<<m, n>> \in R)
    <2> HIDE DEF R
    <2> QED
      BY <1>1, WFMin
  <1>3. \A m \in S : n <= m
    <2> TAKE m \in S
    <2>1. m \in Nat /\ n \in Nat /\ ~ (<<m, n>> \in R)
      BY <1>2
    <2> QED
      BY <2>1
  <1> HIDE DEF R
  <1> QED
    BY <1>3 DEF Min

LEMMA Greatest ==
    ASSUME NEW n \in Nat, NEW S, S \subseteq 1..n, S # {}
    PROVE  Max(S) \in S
  <1> DEFINE B == {b \in Nat : \A x \in S : x <= b}
  <1>1. n \in B
    OBVIOUS
  <1>2. Min(B) \in B /\ \A b \in B : Min(B) <= b
    BY <1>1, Least
  <1> DEFINE m == Min(B)
  <1>3. m \in Nat /\ \A x \in S : x <= m
    BY <1>2
  <1>4. m \in S
    <2> SUFFICES ASSUME m \notin S PROVE FALSE
      OBVIOUS
    <2>1. \A x \in S : x \in Nat /\ x <= m - 1 /\ x >= 1
      BY <1>3
    <2>2. m - 1 \in B
      <3>1. PICK x \in S : TRUE
        OBVIOUS
      <3> QED
        BY <1>3, <2>1, <3>1
    <2> HIDE DEF B
    <2> QED
      BY <1>2, <1>3, <2>2
  <1> HIDE DEF m, B
  <1>5. \A x \in S : m >= x
    BY <1>3
  <1> QED
    BY <1>4, <1>5 DEF Max

\* FlattenSeq is defined by a function f for which Flattens(ss, Len(ss), f).
Flattens(ss, n, f) == f = [k \in 1..n |-> IF k = 1 THEN ss[k] ELSE f[k - 1] \o ss[k]]

LEMMA FlattensExists == ASSUME NEW ss, NEW n \in Nat PROVE \E f : Flattens(ss, n, f)
  <1> DEFINE S == {m \in Nat : \E f : Flattens(ss, m, f)}
  <1>1. 0 \in S
    <2> DEFINE f == [k \in 1..0 |-> {}]
    <2>1. Flattens(ss, 0, f)
      BY DEF Flattens
    <2> HIDE DEF f
    <2> QED
      BY <2>1
  <1>2. ASSUME NEW m \in Nat, m \in S PROVE m + 1 \in S
    <2>1. PICK f : Flattens(ss, m, f)
      BY <1>2
    <2> DEFINE g == [k \in 1..(m + 1) |-> IF k = 1 THEN ss[k] ELSE f[k - 1] \o ss[k]]
    <2>2. ASSUME NEW k \in 1..(m + 1)
          PROVE  g[k] = IF k = 1 THEN ss[k] ELSE g[k - 1] \o ss[k]
      <3>1. CASE k = 1
        BY <3>1
      <3>2. CASE k # 1
        <4>1. k - 1 \in 1..m /\ k - 1 \in 1..(m + 1)
          BY <3>2
        <4>2. g[k - 1] = f[k - 1]
          BY <4>1, <2>1 DEF Flattens
        <4> QED
          BY <3>2, <4>2
      <3> QED
        BY <3>1, <3>2
    <2>3. g = [k \in 1..(m + 1) |-> g[k]]
      OBVIOUS
    <2> HIDE DEF g
    <2>4. Flattens(ss, m + 1, g)
      BY <2>2, <2>3 DEF Flattens
    <2> QED
      BY <2>4
  <1> HIDE DEF S
  <1>3. n \in S
    BY <1>1, <1>2, Induction
  <1> QED
    BY <1>3 DEF S

LEMMA ConcatSet ==
    ASSUME NEW S, NEW s \in Seq(S), NEW t \in Seq(S)
    PROVE  s \o t \in Seq(S) /\ ToSet(s \o t) = ToSet(s) \cup ToSet(t)
  <1>1. s \o t \in Seq(S) /\ Range(s \o t) = Range(s) \cup Range(t)
    BY ConcatProperties, RangeConcatenation
  <1> QED
    BY <1>1 DEF Range, ToSet

LEMMA FlattensStep ==
    ASSUME NEW ss, NEW n \in Nat, NEW f, Flattens(ss, n, f)
    PROVE  /\ n # 0 => f[1] = ss[1]
           /\ \A m \in 1..n : m + 1 \in 1..n => f[m + 1] = f[m] \o ss[m + 1]
  <1>1. f = [k \in 1..n |-> IF k = 1 THEN ss[k] ELSE f[k - 1] \o ss[k]]
    BY DEF Flattens
  <1>2. \A k \in 1..n : f[k] = IF k = 1 THEN ss[k] ELSE f[k - 1] \o ss[k]
    BY ONLY <1>1, Zenon
  <1>3. ASSUME NEW m \in 1..n, m + 1 \in 1..n PROVE f[m + 1] = f[m] \o ss[m + 1]
    <2>1. PICK j \in 1..n : j = m + 1
      BY <1>3
    <2>2. j # 1 /\ j - 1 = m
      BY <2>1
    <2>3. f[j] = f[j - 1] \o ss[j]
      BY ONLY <1>2, <2>2, Zenon
    <2> QED
      BY ONLY <2>1, <2>2, <2>3
  <1>4. n # 0 => 1 \in 1..n
    OBVIOUS
  <1> QED
    BY ONLY <1>2, <1>3, <1>4, Zenon

\* A flattened sequence has the elements of its parts.
LEMMA Flattened ==
    ASSUME NEW S, NEW ss \in Seq(Seq(S))
    PROVE  /\ FlattenSeq(ss) \in Seq(S)
           /\ \A x : x \in ToSet(FlattenSeq(ss)) <=> \E k \in 1..Len(ss) : x \in ToSet(ss[k])
  <1> DEFINE n == Len(ss)
             Has(t, m) == /\ t \in Seq(S)
                          /\ \A x : x \in ToSet(t) <=> \E k \in 1..m : x \in ToSet(ss[k])
  <1>1. n \in Nat /\ \A k \in 1..n : ss[k] \in Seq(S)
    OBVIOUS
  <1>2. CASE n = 0
    <2>1. FlattenSeq(ss) = <<>> /\ ToSet(<<>>) = {} /\ 1..n = {} /\ <<>> \in Seq(S)
      BY <1>2 DEF FlattenSeq, ToSet
    <2> QED
      BY ONLY <2>1, Zenon
  <1>3. CASE n # 0
    <2>1. PICK f : Flattens(ss, n, f) /\ FlattenSeq(ss) = f[n]
      <3> DEFINE g == CHOOSE h : Flattens(ss, n, h)
      <3>1. Flattens(ss, n, g)
        BY <1>1, FlattensExists
      <3>2. FlattenSeq(ss) = g[n]
        BY <1>3 DEF FlattenSeq, Flattens
      <3> HIDE DEF g
      <3> QED
        BY <3>1, <3>2
    <2> DEFINE T == {m \in Nat : m + 1 \in 1..n => Has(f[m + 1], m + 1)}
    <2>2. /\ f[1] = ss[1]
          /\ \A m \in 1..n : m + 1 \in 1..n => f[m + 1] = f[m] \o ss[m + 1]
      <3> HIDE DEF n
      <3> QED
        BY <1>1, <1>3, <2>1, FlattensStep
    <2>3. FlattenSeq(ss) = f[n]
      BY <2>1
    <2>4. 0 \in T
      <3>0. 0 + 1 = 1 /\ 1..1 = {1} /\ 1 \in 1..n
        BY <1>1, <1>3
      <3>1. f[0 + 1] = ss[0 + 1] /\ ss[0 + 1] \in Seq(S) /\ 1..(0 + 1) = {0 + 1}
        <4>2. ss[1] \in Seq(S)
          BY ONLY <1>1, <3>0, Zenon
        <4> QED
          BY ONLY <2>2, <3>0, <4>2
      <3>2. Has(f[0 + 1], 0 + 1)
        BY ONLY <3>1, Zenon
      <3> QED
        BY ONLY <3>2, 0 \in Nat, Zenon
    <2>5. ASSUME NEW m \in Nat, m \in T PROVE m + 1 \in T
      <3> SUFFICES ASSUME m + 1 + 1 \in 1..n PROVE Has(f[m + 1 + 1], m + 1 + 1)
        OBVIOUS
      <3>1. m + 1 \in 1..n /\ 1..(m + 1 + 1) = 1..(m + 1) \cup {m + 1 + 1}
        BY <1>1
      <3>2. Has(f[m + 1], m + 1)
        BY ONLY <2>5, <3>1, Zenon
      <3>3. f[m + 1 + 1] = f[m + 1] \o ss[m + 1 + 1] /\ ss[m + 1 + 1] \in Seq(S)
        BY <1>1, <2>2, <3>1
      <3>4. /\ f[m + 1 + 1] \in Seq(S)
            /\ ToSet(f[m + 1 + 1]) = ToSet(f[m + 1]) \cup ToSet(ss[m + 1 + 1])
        BY <3>2, <3>3, ConcatSet
      <3> QED
        BY ONLY <3>1, <3>2, <3>4, Zenon
    <2>6. n - 1 \in T
      <3> HIDE DEF T
      <3>1. n - 1 \in Nat
        BY <1>1, <1>3
      <3> QED
        BY ONLY <2>4, <2>5, <3>1, Induction
    <2>7. n - 1 + 1 = n /\ n \in 1..n
      BY <1>1, <1>3
    <2>8. Has(f[n], n)
      <3>1. n - 1 + 1 \in 1..n => Has(f[n - 1 + 1], n - 1 + 1)
        BY ONLY <2>6, Zenon
      <3> HIDE DEF Has, n
      <3> QED
        BY ONLY <2>7, <3>1
    <2> QED
      BY ONLY <2>3, <2>8, Zenon
  <1>4. n = 0 \/ n # 0
    OBVIOUS
  <1> QED
    BY ONLY <1>2, <1>3, <1>4, Zenon
-----------------------------------------------------------------------------
(***************************************************************************)
(* The resolver                                                            *)
(***************************************************************************)
roundVars == <<toResolve, i, processed, phase, inflight>>

LEMMA RoundInit == Init => RoundInv
  BY DEF Init, ResolverInit, RoundInv, Phases

LEMMA RoundUnchanged == RoundInv /\ UNCHANGED roundVars => RoundInv'
  BY DEF RoundInv, roundVars

LEMMA Counting == \A n \in Nat : IsFiniteSet(1..n) /\ Cardinality(1..n) = n
  <1> SUFFICES ASSUME NEW n \in Nat PROVE IsFiniteSet(1..n) /\ Cardinality(1..n) = n
    OBVIOUS
  <1>1. /\ IsFiniteSet(1..n)
        /\ Cardinality(1..n) = IF 1 > n THEN 0 ELSE n - 1 + 1
    BY FS_Interval
  <1> QED
    BY <1>1

\* What a set of counted calls loses by one answer.
LEMMA OneAnswered ==
    ASSUME NEW S, IsFiniteSet(S), NEW x \in S
    PROVE  /\ Cardinality(S \ {x}) = Cardinality(S) - 1
           /\ Cardinality(S) \in Nat \ {0}
           /\ Cardinality(S) = 1 <=> S \ {x} = {}
           /\ IsFiniteSet(S \ {x})
  <1>1. /\ Cardinality(S \ {x}) = Cardinality(S) - 1 /\ IsFiniteSet(S \ {x})
        /\ Cardinality(S) \in Nat /\ Cardinality(S \ {x}) \in Nat
    BY FS_RemoveElement, FS_CardinalityType
  <1>2. Cardinality(S \ {x}) = 0 <=> S \ {x} = {}
    BY <1>1, FS_EmptySet
  <1> QED
    BY <1>1, <1>2

LEMMA ExamineCounts == RoundInv /\ Examine => RoundInv'
  <1> SUFFICES ASSUME RoundInv, Examine PROVE RoundInv'
    OBVIOUS
  <1>1. /\ toResolve' \in {toResolve, Append(toResolve, i)}
        /\ i' \in {i + 1, Depth + 1}
        /\ phase = "scan" /\ UNCHANGED <<processed, phase, inflight>>
    BY DEF Examine, ExamineRemote, ExamineSchema, ExamineFile, ExamineInline, Queue, calls
  <1>2. /\ toResolve \in Seq(Nat) /\ i \in Nat /\ processed \in Nat
        /\ inflight = {} /\ phase \in Phases
    BY <1>1 DEF RoundInv
  <1>3. toResolve' \in Seq(Nat) /\ i' \in Nat
    BY <1>1, <1>2, DepthAssumption
  <1> QED
    BY <1>1, <1>2, <1>3 DEF RoundInv

LEMMA DispatchCounts == RoundInv /\ Dispatch => RoundInv'
  <1> SUFFICES ASSUME RoundInv, Dispatch PROVE RoundInv'
    OBVIOUS
  <1> DEFINE all == 1..Len(toResolve)
             locals == {p \in all : Local(p)}
  <1>1. /\ processed' = Cardinality(locals) /\ inflight' = all \ locals
        /\ phase' = IF inflight' = {} THEN "finish" ELSE "wait"
        /\ UNCHANGED <<toResolve, i>>
    BY DEF Dispatch
  <1>2. toResolve \in Seq(Nat) /\ i \in Nat /\ Len(toResolve) \in Nat
    BY DEF RoundInv
  <1>3. IsFiniteSet(all) /\ Cardinality(all) = Len(toResolve)
    BY <1>2, Counting
  <1>4. IsFiniteSet(locals) /\ Cardinality(locals) \in Nat
    BY <1>3, FS_Subset, FS_CardinalityType
  <1>5. Cardinality(all \ locals) = Cardinality(all) - Cardinality(all \cap locals)
    BY <1>3, FS_Difference
  <1>6. Cardinality(all \cap locals) = Cardinality(locals)
    <2>1. all \cap locals = locals
      OBVIOUS
    <2> QED
      BY ONLY <2>1, Zenon
  <1>7. IsFiniteSet(all \ locals) /\ Cardinality(all \ locals) \in Nat
    BY <1>3, FS_Difference, FS_CardinalityType
  <1> HIDE DEF all, locals
  <1>8. Len(toResolve) = Cardinality(locals) + Cardinality(all \ locals)
    BY ONLY <1>2, <1>3, <1>4, <1>5, <1>6, <1>7
  <1>9. inflight' \subseteq 1..Len(toResolve')
    BY <1>1 DEF all
  <1>10. Len(toResolve') = processed' + Cardinality(inflight')
    BY <1>1, <1>8
  <1>11. phase' \in Phases /\ (phase' # "wait" => inflight' = {}) /\ (phase' = "wait" => inflight' # {})
    BY <1>1 DEF Phases
  <1>12. toResolve' \in Seq(Nat) /\ i' \in Nat /\ processed' \in 0..Len(toResolve')
    BY <1>1, <1>2, <1>4, <1>7, <1>8
  <1> QED
    BY ONLY <1>9, <1>10, <1>11, <1>12 DEF RoundInv

LEMMA AnswerCounts ==
    ASSUME RoundInv, NEW p \in inflight, phase = "wait", Processed(p), UNCHANGED <<toResolve, i>>
    PROVE  RoundInv'
  <1>1. /\ toResolve \in Seq(Nat) /\ i \in Nat /\ processed \in Nat /\ Len(toResolve) \in Nat
        /\ inflight \subseteq 1..Len(toResolve)
        /\ Len(toResolve) = processed + Cardinality(inflight)
    BY DEF RoundInv
  <1>2. IsFiniteSet(inflight)
    BY <1>1, Counting, FS_Subset
  <1>3. /\ Cardinality(inflight \ {p}) = Cardinality(inflight) - 1
        /\ Cardinality(inflight) \in Nat \ {0}
        /\ Cardinality(inflight) = 1 <=> inflight \ {p} = {}
    BY <1>2, OneAnswered
  <1>4. /\ inflight' = inflight \ {p} /\ processed' = processed + 1
        /\ phase' = IF processed + 1 = Len(toResolve) THEN "finish" ELSE "wait"
    BY DEF Processed
  <1>5. processed + 1 = Len(toResolve) <=> inflight' = {}
    BY <1>1, <1>3, <1>4
  <1>6. Len(toResolve) = processed' + Cardinality(inflight')
    BY <1>1, <1>3, <1>4
  <1>7. processed' \in 0..Len(toResolve')
    BY <1>1, <1>3, <1>4
  <1> QED
    BY <1>1, <1>4, <1>5, <1>6, <1>7 DEF RoundInv, Phases

LEMMA ResolverCounts == RoundInv /\ ResolverNext => RoundInv'
  <1>1. RoundInv /\ StartRound => RoundInv'
    BY DEF RoundInv, StartRound, Phases
  <1>2. RoundInv /\ Answer => RoundInv'
    BY AnswerCounts DEF Answer, Respond, FetchFails, round
  <1>3. RoundInv /\ Finish => RoundInv'
    BY DEF RoundInv, Finish, round, calls, Phases
  <1> QED
    BY <1>1, <1>2, <1>3, ExamineCounts, DispatchCounts DEF ResolverNext

LEMMA BeginCounts == ASSUME RoundInv, NEW s, Begin(s) PROVE RoundInv'
  BY DEF RoundInv, Begin, round, calls, Phases

LEMMA RoundNext == RoundInv /\ [Next]_clientVars => RoundInv'
  <1> SUFFICES ASSUME RoundInv, [Next]_clientVars PROVE RoundInv'
    OBVIOUS
  <1>1. CASE UNCHANGED resolverVars
    BY <1>1, RoundUnchanged DEF resolverVars, round, calls, roundVars
  <1>2. CASE ClientStep
    BY <1>1, <1>2, BeginCounts DEF ClientStep, DescriptionFails, DescriptionArrives,
       OldDescriptionArrives, ConverterCallsBack, ResolverCallsBack
  <1> QED
    BY <1>1, <1>2, ResolverCounts DEF Next, clientVars
-----------------------------------------------------------------------------
(***************************************************************************)
(* The converter                                                           *)
(***************************************************************************)
LEMMA ListingInit == Init => ListingInv
  BY DEF Init, ConverterInit, ListingInv, Listing

LEMMA ListingUnchanged == ListingInv /\ UNCHANGED converterVars => ListingInv'
  BY DEF ListingInv, converterVars, Listing, Named, Accounted

\* A listing names finitely many declarations.
LEMMA NamedFinite ==
    ASSUME NEW d \in Descriptions, d.kind = "listing"
    PROVE  IsFiniteSet(DOMAIN d.apis) /\ \A a \in DOMAIN d.apis : d.apis[a] \in Qualities
  <1>1. PICK S \in SUBSET Apis : d \in [kind : {"listing"}, apis : [S -> Qualities]]
    BY DEF Descriptions
  <1>2. DOMAIN d.apis = S /\ \A a \in S : d.apis[a] \in Qualities
    BY <1>1
  <1> QED
    BY <1>1, <1>2, ApisAssumption, FS_Subset

LEMMA ConvertCounts == ASSUME ListingInv, NEW d \in Descriptions, Convert(d) PROVE ListingInv'
  <1>1. /\ conversion = "idle" /\ processedCount = 0 /\ processedCount' = 0
        /\ description' = d
    BY DEF Convert, ListingInv
  <1>2. CASE d.kind = "listing"
    <2>1. /\ awaited' = DOMAIN d.apis
          /\ conversion' = IF DOMAIN d.apis = {} THEN "spec" ELSE "listing"
      BY <1>2 DEF Convert
    <2>2. /\ IsFiniteSet(DOMAIN d.apis) /\ Cardinality(DOMAIN d.apis) \in Nat
          /\ \A a \in DOMAIN d.apis : d.apis[a] \in Qualities
      BY <1>2, NamedFinite, FS_CardinalityType
    <2> QED
      BY <1>1, <2>1, <2>2 DEF ListingInv, Listing, Named
  <1>3. CASE d.kind # "listing"
    <2>1. d.kind \in {"notASpec", "single"}
      BY <1>3 DEF Descriptions
    <2>2. conversion' \in {"null", "spec", "thrown"}
      BY <2>1 DEF Convert
    <2> QED
      BY <1>1, <1>3, <2>2 DEF ListingInv, Listing
  <1> QED
    BY <1>2, <1>3

\* One declaration less is under way, and it is accounted for.
LEMMA DeclarationCounts ==
    ASSUME ListingInv, Listing, NEW a \in awaited,
           awaited' = awaited \ {a}, processedCount' = processedCount + 1,
           UNCHANGED description, merged \subseteq merged', refused \subseteq refused',
           \/ conversion' = CountedOut
           \/ UNCHANGED conversion /\ threw' # {},
           Accounted(a)'
    PROVE  ListingInv'
  <1>1. /\ processedCount \in Nat
        /\ IsFiniteSet(Named) /\ \A b \in Named : description.apis[b] \in Qualities
        /\ awaited \subseteq Named
        /\ Cardinality(Named) = processedCount + Cardinality(awaited)
        /\ \A b \in Named \ awaited : Accounted(b)
    BY DEF ListingInv
  <1>2. IsFiniteSet(awaited)
    BY <1>1, FS_Subset
  <1>3. /\ Cardinality(awaited \ {a}) = Cardinality(awaited) - 1
        /\ Cardinality(awaited) \in Nat
        /\ Cardinality(awaited) = 1 <=> awaited \ {a} = {}
    BY <1>2, OneAnswered
  <1>4. Named' = Named /\ processedCount' \in Nat /\ \A b \in Named' : description'.apis[b] \in Qualities
    BY <1>1 DEF Named
  <1>5. \A b \in Named' \ awaited' : Accounted(b)'
    BY <1>1, <1>4 DEF Accounted
  <1>6. Cardinality(Named') = processedCount' + Cardinality(awaited')
    BY <1>1, <1>3, <1>4
  <1>7. processedCount + 1 = Cardinality(Named) <=> awaited' = {}
    BY <1>1, <1>3
  <1>8. CASE conversion' = CountedOut
    BY <1>1, <1>4, <1>5, <1>6, <1>7, <1>8 DEF CountedOut, ListingInv, Listing
  <1>9. CASE UNCHANGED conversion /\ threw' # {}
    BY <1>1, <1>4, <1>5, <1>6, <1>9 DEF ListingInv, Listing
  <1> QED
    BY <1>8, <1>9

LEMMA ConverterCounts == ListingInv /\ ConverterNext => ListingInv'
  <1>1. ASSUME ListingInv, NEW a \in Apis, ApiFails(a) PROVE ListingInv'
    <2>1. Accounted(a)'
      BY <1>1 DEF ApiFails, Accounted
    <2> QED
      BY <1>1, <2>1, DeclarationCounts DEF ApiFails
  <1>2. ASSUME ListingInv, NEW a \in Apis, ApiAnswers(a) PROVE ListingInv'
    <2>1. /\ Listing /\ a \in awaited /\ awaited' = awaited \ {a}
          /\ processedCount' = processedCount + 1 /\ UNCHANGED <<description, refused>>
      BY <1>2 DEF ApiAnswers
    <2>2. CASE description.apis[a] = "complete"
      <3>1. merged' = merged \cup {a} /\ conversion' = CountedOut
        BY <1>2, <2>2 DEF ApiAnswers
      <3> QED
        BY <1>2, <2>1, <3>1, DeclarationCounts DEF Accounted
    <2>3. CASE description.apis[a] = "unreadable"
      <3>1. UNCHANGED merged /\ conversion' = CountedOut
        BY <1>2, <2>3 DEF ApiAnswers
      <3> QED
        BY <1>2, <2>1, <2>3, <3>1, DeclarationCounts DEF Accounted
    <2>4. CASE description.apis[a] = "noBasePath"
      <3>1. threw' = threw \cup {a} /\ UNCHANGED <<merged, conversion>>
        BY <1>2, <2>4 DEF ApiAnswers
      <3> QED
        BY <1>2, <2>1, <2>4, <3>1, DeclarationCounts DEF Accounted
    <2>5. description.apis[a] \in Qualities
      BY <1>2, <2>1 DEF ListingInv
    <2> QED
      BY <2>2, <2>3, <2>4, <2>5 DEF Qualities
  <1> QED
    BY <1>1, <1>2 DEF ConverterNext

LEMMA ListingNext == ListingInv /\ [Next]_clientVars => ListingInv'
  <1> SUFFICES ASSUME ListingInv, [Next]_clientVars PROVE ListingInv'
    OBVIOUS
  <1>1. CASE UNCHANGED converterVars
    BY <1>1, ListingUnchanged
  <1>2. CASE OldDescriptionArrives
    BY <1>2, ConvertCounts, OldDescriptionsAssumption DEF OldDescriptionArrives
  <1> QED
    BY <1>1, <1>2, ConverterCounts DEF Next, clientVars, ClientStep, DescriptionFails,
       DescriptionArrives, ConverterCallsBack, ResolverCallsBack
-----------------------------------------------------------------------------
(***************************************************************************)
(* What a round makes of a specification is a specification                *)
(***************************************************************************)
Entry       == [ref : Refs, root : Docs \cup {Root}]
Resolutions == [from : Docs \cup {Root}, refs : Seq(Refs)]

\* What is in resolvedRefs was put there for an entry that was queued.
Known ==
    \A k \in DOMAIN resolvedRefs : \E p \in 1..Len(toResolve) :
        /\ Key(Item(p).ref) = k /\ Found(Item(p))
        /\ resolvedRefs[k] = Resolution(Item(p))

TypeInv ==
    /\ stage \in Stages
    /\ iteration \in 0..MaxIteration /\ failures \in 0..MaxFailures
    /\ callbacks = IF phase = "done" THEN 1 ELSE 0
    /\ defs \in Seq(Definitions) /\ ops \in Seq(Refs)
    /\ table \in Seq(Entry) /\ i \in Nat \ {0} /\ toResolve \in Seq(1..Len(table))
    /\ Known
    /\ phase \in {"idle", "scan"} => DOMAIN resolvedRefs = {}

LEMMA RefFields ==
    ASSUME NEW r \in Refs
    PROVE  /\ r.as \in {"ref", "inline"} /\ r.form \in Forms
           /\ r.doc \in Docs \cup {Root} /\ r.of \in Docs \cup {Root}
           /\ r.name \in Names \cup {Whole}
           /\ r.as = "ref" => r.name \in Names /\ r.form # "file"
           /\ r.form = "local" => r.doc = Root
  BY DEF Refs

\* A reference that is written otherwise still is one.
LEMMA RefChanged ==
    ASSUME NEW r \in Refs, NEW f \in Forms, NEW d \in Docs \cup {Root},
           r.as = "ref" => f # "file", f = "local" => d = Root
    PROVE  [r EXCEPT !.form = f, !.doc = d] \in Refs
  <1> DEFINE t == [r EXCEPT !.form = f, !.doc = d]
  <1>1. /\ t \in [as : {"ref", "inline"}, form : Forms, doc : Docs \cup {Root},
                  name : Names \cup {Whole}, of : Docs \cup {Root}]
        /\ t.as = r.as /\ t.name = r.name /\ t.form = f /\ t.doc = d
    BY DEF Refs
  <1> HIDE DEF t
  <1>2. t \in Refs
    BY <1>1, RefFields DEF Refs
  <1> QED
    BY <1>2 DEF t

LEMMA RetainType ==
    ASSUME NEW r \in Refs, NEW d \in Docs \cup {Root}
    PROVE  Retain(r, d) \in Refs
  <1>1. CASE r.form = "local"
    <2>1. Retain(r, d) = [r EXCEPT !.form = "http", !.doc = d]
      BY <1>1 DEF Retain
    <2> QED
      BY <2>1, RefChanged DEF Forms
  <1>2. CASE r.form \in {"relative", "file"}
    <2>1. Retain(r, d) = [r EXCEPT !.form = "lost", !.doc = d]
      BY <1>2 DEF Retain
    <2> QED
      BY <2>1, RefChanged DEF Forms
  <1>3. CASE r.form \notin {"local", "relative", "file"}
    BY <1>3 DEF Retain
  <1> QED
    BY <1>1, <1>2, <1>3

\* The table lists references of the specification, whichever set R those are in.
LEMMA TableType ==
    ASSUME NEW R \in SUBSET Refs, ops \in Seq(R),
           defs \in Seq(Definitions), \A k \in 1..Len(defs) : defs[k].refs \in Seq(R)
    PROVE  ResolutionTable \in Seq([ref : R, root : Docs \cup {Root}])
  <1> DEFINE E == [ref : R, root : Docs \cup {Root}]
  <1>1. ASSUME NEW refs \in Seq(R) PROVE Entries(refs) \in Seq(E)
    <2>1. ASSUME NEW k \in 1..Len(refs) PROVE [ref |-> refs[k], root |-> RootOf(refs[k])] \in E
      BY RefFields DEF RootOf
    <2> QED
      BY <2>1 DEF Entries
  <1> DEFINE ss == [k \in 1..Len(defs) |-> Entries(defs[k].refs)]
  <1>2. ss \in Seq(Seq(E))
    <2>1. \A k \in 1..Len(defs) : Entries(defs[k].refs) \in Seq(E)
      BY <1>1
    <2> HIDE DEF E
    <2> QED
      BY <2>1
  <1> HIDE DEF ss, E
  <1>3. FlattenSeq(ss) \in Seq(E) /\ Entries(ops) \in Seq(E)
    BY <1>1, <1>2, Flattened
  <1> QED
    BY <1>3 DEF ResolutionTable, ss, E

LEMMA ResolutionType ==
    ASSUME NEW e \in Entry, Found(e)
    PROVE  Resolution(e) \in Resolutions
  <1>1. e.root \in DOMAIN Library /\ e.ref.name \in DOMAIN Library[e.root]
    BY LibraryAssumption DEF Found, Entry
  <1>2. Library[e.root][e.ref.name] \in Seq(Refs)
    BY <1>1, LibraryAssumption
  <1> QED
    BY <1>2 DEF Resolution, Resolutions, Entry

\* An entry of the table for whatever was resolved.
LEMMA ResolvedEntry ==
    ASSUME TypeInv, NEW r, Resolved(r)
    PROVE  \E k \in 1..Len(table) :
              /\ table[k] \in Entry /\ Key(table[k].ref) = Key(r) /\ Found(table[k])
              /\ resolvedRefs[Key(r)] = Resolution(table[k])
              /\ LocalResolve => table[k].root = Root
  <1>1. PICK p \in 1..Len(toResolve) : /\ Key(Item(p).ref) = Key(r) /\ Found(Item(p))
                                       /\ resolvedRefs[Key(r)] = Resolution(Item(p))
    BY DEF TypeInv, Known, Resolved
  <1>2. toResolve[p] \in 1..Len(table) /\ table[toResolve[p]] \in Entry
    BY DEF TypeInv
  <1> QED
    BY <1>1, <1>2 DEF Item, LocalResolve, Local

LEMMA ContentsType ==
    ASSUME TypeInv, NEW r, Resolved(r)
    PROVE  Contents(r) \in Seq(Refs)
  <1> DEFINE known == resolvedRefs[Key(r)]
             I == {k \in 1..Len(table) : Key(table[k].ref) = Key(r)}
             first == table[SelectInSeq(table, LAMBDA e : Key(e.ref) = Key(r))]
  <1>1. PICK k \in 1..Len(table) : /\ table[k] \in Entry /\ Key(table[k].ref) = Key(r) /\ Found(table[k])
                                   /\ known = Resolution(table[k])
    BY ResolvedEntry
  <1>2. known \in Resolutions
    BY <1>1, ResolutionType
  <1>3. known.refs \in Seq(Refs)
    BY <1>2 DEF Resolutions
  <1>4. first \in Entry
    <2>0. k \in I
      BY <1>1
    <2>1. I # {} /\ I \subseteq Nat
      BY <2>0
    <2>2. Min(I) \in I
      BY <2>1, Least
    <2>3. SelectInSeq(table, LAMBDA e : Key(e.ref) = Key(r)) = Min(I)
      BY <2>1 DEF SelectInSeq
    <2>4. SelectInSeq(table, LAMBDA e : Key(e.ref) = Key(r)) \in 1..Len(table)
      BY <2>2, <2>3
    <2>5. table \in Seq(Entry)
      BY DEF TypeInv
    <2> QED
      BY <2>4, <2>5
  <1>5. first.root \in Docs \cup {Root}
    BY <1>4 DEF Entry
  <1>6. Contents(r) = IF LocalResolve THEN known.refs
                      ELSE [j \in 1..Len(known.refs) |-> Retain(known.refs[j], first.root)]
    BY DEF Contents
  <1> HIDE DEF known, first
  <1>7. \A j \in 1..Len(known.refs) : Retain(known.refs[j], first.root) \in Refs
    BY <1>3, <1>5, RetainType
  <1> QED
    BY <1>3, <1>6, <1>7

\* References that share a key share the kind and the name.
LEMMA KeyNames ==
    ASSUME NEW r \in Refs, NEW t \in Refs, Key(r) = Key(t)
    PROVE  r.as = t.as /\ r.name = t.name
  <1> DEFINE short(x) == x.as = "ref" /\ x.form = "http"
  <1>1. \A x \in Refs : Key(x) = IF short(x) THEN <<x.as, "fragment", x.name>>
                                 ELSE <<x.as, x.form, x.doc, x.name>>
    BY DEF Key
  <1>2. \A a, b, c, d, e, f, g : <<a, b, c>> # <<d, e, f, g>>
    <2> SUFFICES ASSUME NEW a, NEW b, NEW c, NEW d, NEW e, NEW f, NEW g
                 PROVE  <<a, b, c>> # <<d, e, f, g>>
      OBVIOUS
    <2>1. Len(<<a, b, c>>) = 3 /\ Len(<<d, e, f, g>>) = 4
      OBVIOUS
    <2> QED
      BY <2>1
  <1>3. CASE short(r) /\ short(t)
    <2>1. <<r.as, "fragment", r.name>> = <<t.as, "fragment", t.name>>
      BY <1>1, <1>3
    <2> QED
      BY <2>1
  <1>4. CASE ~short(r) /\ ~short(t)
    <2>1. <<r.as, r.form, r.doc, r.name>> = <<t.as, t.form, t.doc, t.name>>
      BY <1>1, <1>4
    <2> QED
      BY <2>1
  <1>5. CASE short(r) /\ ~short(t)
    <2>1. <<r.as, "fragment", r.name>> = <<t.as, t.form, t.doc, t.name>>
      BY <1>1, <1>5
    <2> QED
      BY ONLY <1>2, <2>1, Zenon
  <1>6. CASE ~short(r) /\ short(t)
    <2>1. <<t.as, "fragment", t.name>> = <<r.as, r.form, r.doc, r.name>>
      BY <1>1, <1>6
    <2> QED
      BY ONLY <1>2, <2>1, Zenon
  <1> QED
    BY <1>3, <1>4, <1>5, <1>6

\* What is written under definition n is the part of that name of a document
\* other than the specification.
LEMMA DefinitionType ==
    ASSUME TypeInv, NEW n, Adding(n) # {}
    PROVE  /\ Definition(n) \in Definitions
           /\ Definition(n).name = n
           /\ Definition(n).from \in Docs /\ n \in DOMAIN Library[Definition(n).from]
           /\ \E r \in Refs : Resolved(r) /\ Definition(n).refs = Contents(r)
  <1> DEFINE m == Max(Adding(n))
             r == table[m].ref
  <1>1. m \in Adding(n)
    <2>1. Adding(n) \subseteq 1..Len(table) /\ Len(table) \in Nat
      BY DEF Adding, TypeInv
    <2> QED
      BY <2>1, Greatest
  <1>2. m \in 1..Len(table) /\ table[m] \in Entry
    BY <1>1 DEF Adding, TypeInv
  <1>3. r \in Refs /\ r.as = "ref" /\ r.name = n /\ Resolved(r)
    BY <1>1, <1>2 DEF Adding, Entry
  <1>4. PICK k \in 1..Len(table) :
            /\ table[k] \in Entry /\ Key(table[k].ref) = Key(r) /\ Found(table[k])
            /\ resolvedRefs[Key(r)] = Resolution(table[k])
    BY <1>3, ResolvedEntry
  <1>5. table[k].ref \in Refs /\ table[k].root \in Docs \cup {Root}
    BY <1>4 DEF Entry
  <1>6. table[k].ref.as = "ref" /\ table[k].ref.name = n
    BY <1>3, <1>4, <1>5, KeyNames
  <1>7. table[k].root \in Docs /\ n \in DOMAIN Library[table[k].root]
    BY <1>4, <1>5, <1>6 DEF Found
  <1>8. Definition(n) = [name |-> n, from |-> resolvedRefs[Key(r)].from, refs |-> Contents(r)]
    BY DEF Definition
  <1>9. resolvedRefs[Key(r)].from = table[k].root
    BY <1>4 DEF Resolution
  <1>10. n \in Names
    BY <1>3, RefFields
  <1>11. Contents(r) \in Seq(Refs)
    BY <1>3, ContentsType
  <1> HIDE DEF r, m
  <1>12. Definition(n) \in Definitions
    BY <1>7, <1>8, <1>9, <1>10, <1>11 DEF Definitions
  <1> QED
    BY <1>3, <1>7, <1>8, <1>9, <1>12

\* What a list of references becomes, reference by reference.
LEMMA RewrittenType ==
    ASSUME TypeInv, NEW r \in Refs
    PROVE  Rewritten(r) \in Seq(Refs)
  <1>1. CASE ~Resolved(r)
    BY <1>1 DEF Rewritten
  <1>2. CASE Resolved(r) /\ r.as = "ref"
    <2>1. [r EXCEPT !.form = "local", !.doc = Root] \in Refs
      BY <1>2, RefChanged DEF Forms
    <2>2. Rewritten(r) = <<[r EXCEPT !.form = "local", !.doc = Root]>>
      BY <1>2 DEF Rewritten
    <2> QED
      BY <2>1, <2>2
  <1>3. CASE Resolved(r) /\ r.as # "ref"
    BY <1>3, ContentsType DEF Rewritten
  <1> QED
    BY <1>1, <1>2, <1>3

LEMMA RewriteAllType ==
    ASSUME TypeInv, NEW refs \in Seq(Refs)
    PROVE  /\ RewriteAll(refs) \in Seq(Refs)
           /\ \A x \in ToSet(RewriteAll(refs)) : \E r \in ToSet(refs) : x \in ToSet(Rewritten(r))
  <1> DEFINE ss == [k \in 1..Len(refs) |-> Rewritten(refs[k])]
  <1>1. \A k \in 1..Len(refs) : Rewritten(refs[k]) \in Seq(Refs)
    BY RewrittenType
  <1>2. ss \in Seq(Seq(Refs)) /\ Len(ss) = Len(refs)
    BY <1>1
  <1>3. RewriteAll(refs) = FlattenSeq(ss)
    BY DEF RewriteAll
  <1>4. \A k \in 1..Len(refs) : ss[k] = Rewritten(refs[k]) /\ refs[k] \in ToSet(refs)
    BY DEF ToSet
  <1> HIDE DEF ss
  <1>5. /\ FlattenSeq(ss) \in Seq(Refs)
        /\ \A x : x \in ToSet(FlattenSeq(ss)) <=> \E k \in 1..Len(ss) : x \in ToSet(ss[k])
    BY <1>2, Flattened
  <1>6. ASSUME NEW x \in ToSet(RewriteAll(refs)) PROVE \E r \in ToSet(refs) : x \in ToSet(Rewritten(r))
    <2>1. PICK k \in 1..Len(ss) : x \in ToSet(ss[k])
      BY <1>3, <1>5, <1>6
    <2> QED
      BY <1>2, <1>4, <2>1
  <1> QED
    BY <1>3, <1>5, <1>6

\* The definitions after a round: one that was written, or one that was there
\* before, with its references rewritten.  No name is lost, and each name that
\* was written is there.
LEMMA RewrittenDefsType ==
    ASSUME TypeInv
    PROVE  /\ RewrittenDefs \in Seq(Definitions)
           /\ \A x \in ToSet(RewrittenDefs) :
                \/ \E n : Adding(n) # {} /\ x = Definition(n)
                \/ \E d \in ToSet(defs) : x = [d EXCEPT !.refs = RewriteAll(d.refs)]
           /\ \A n : DefinedIn(defs, n) \/ Adding(n) # {} => DefinedIn(RewrittenDefs, n)
  <1> DEFINE kept(d) == IF Adding(d.name) # {} THEN Definition(d.name)
                        ELSE [d EXCEPT !.refs = RewriteAll(d.refs)]
             fresh(k, n) == IF k \in Adding(n) /\ k = Min(Adding(n)) /\ ~DefinedIn(defs, n)
                            THEN <<Definition(n)>> ELSE <<>>
             ks == [k \in 1..Len(defs) |-> kept(defs[k])]
             fs == [k \in 1..Len(table) |-> fresh(k, table[k].ref.name)]
  <1>1. RewrittenDefs = ks \o FlattenSeq(fs)
    BY DEF RewrittenDefs
  <1>2. \A k \in 1..Len(defs) : defs[k] \in Definitions
    BY DEF TypeInv
  <1>3. ASSUME NEW k \in 1..Len(defs)
        PROVE  kept(defs[k]) \in Definitions /\ kept(defs[k]).name = defs[k].name
    <2>1. CASE Adding(defs[k].name) # {}
      BY <2>1, DefinitionType
    <2>2. CASE Adding(defs[k].name) = {}
      <3>1. defs[k].refs \in Seq(Refs)
        BY <1>2 DEF Definitions
      <3>2. RewriteAll(defs[k].refs) \in Seq(Refs)
        BY <3>1, RewriteAllType
      <3> QED
        BY <1>2, <2>2, <3>2 DEF Definitions
    <2> QED
      BY <2>1, <2>2
  <1>4. Len(defs) \in Nat /\ Len(table) \in Nat
    BY DEF TypeInv
  <1>5. ks \in Seq(Definitions) /\ Len(ks) = Len(defs) /\ \A k \in 1..Len(defs) : ks[k] = kept(defs[k])
    <2> HIDE DEF kept
    <2> QED
      BY <1>3, <1>4
  <1>6. ASSUME NEW k \in 1..Len(table)
        PROVE  fresh(k, table[k].ref.name) \in Seq(Definitions)
    <2>1. ASSUME k \in Adding(table[k].ref.name) PROVE Definition(table[k].ref.name) \in Definitions
      BY <2>1, DefinitionType
    <2> QED
      BY <2>1
  <1>7. fs \in Seq(Seq(Definitions)) /\ Len(fs) = Len(table)
        /\ \A k \in 1..Len(table) : fs[k] = fresh(k, table[k].ref.name)
    BY <1>4, <1>6
  <1> HIDE DEF ks, fs
  <1>8. /\ FlattenSeq(fs) \in Seq(Definitions)
        /\ \A x : x \in ToSet(FlattenSeq(fs)) <=> \E k \in 1..Len(fs) : x \in ToSet(fs[k])
    BY <1>7, Flattened
  <1>9. /\ RewrittenDefs \in Seq(Definitions)
        /\ ToSet(RewrittenDefs) = ToSet(ks) \cup ToSet(FlattenSeq(fs))
    BY <1>1, <1>5, <1>8, ConcatSet
  <1>10. ASSUME NEW x \in ToSet(ks)
         PROVE  \/ \E n : Adding(n) # {} /\ x = Definition(n)
                \/ \E d \in ToSet(defs) : x = [d EXCEPT !.refs = RewriteAll(d.refs)]
    <2>1. PICK k \in 1..Len(defs) : x = kept(defs[k])
      <3> HIDE DEF kept
      <3> QED
        BY <1>5, <1>10 DEF ToSet
    <2>2. defs[k] \in ToSet(defs)
      BY DEF ToSet, TypeInv
    <2> QED
      BY <2>1, <2>2
  <1>11. ASSUME NEW x \in ToSet(FlattenSeq(fs)) PROVE \E n : Adding(n) # {} /\ x = Definition(n)
    <2>1. PICK k \in 1..Len(table) : x \in ToSet(fresh(k, table[k].ref.name))
      <3> HIDE DEF fresh
      <3> QED
        BY <1>7, <1>8, <1>11
    <2> DEFINE n == table[k].ref.name
    <2>2. CASE k \in Adding(n) /\ k = Min(Adding(n)) /\ ~DefinedIn(defs, n)
      <3>1. x \in ToSet(<<Definition(n)>>)
        BY <2>1, <2>2
      <3>2. x = Definition(n)
        BY <3>1 DEF ToSet
      <3> QED
        BY <2>2, <3>2
    <2>3. CASE ~(k \in Adding(n) /\ k = Min(Adding(n)) /\ ~DefinedIn(defs, n))
      <3>1. x \in ToSet(<<>>)
        BY <2>1, <2>3
      <3> QED
        BY <3>1 DEF ToSet
    <2> QED
      BY <2>2, <2>3
  <1>12. ASSUME NEW n, DefinedIn(defs, n) PROVE \E x \in ToSet(RewrittenDefs) : x.name = n
    <2>1. PICK k \in 1..Len(defs) : defs[k].name = n
      BY <1>12 DEF DefinedIn, TypeInv
    <2>2. ks[k].name = n /\ ks[k] \in ToSet(ks)
      <3> HIDE DEF kept
      <3> QED
        BY <1>3, <1>5, <2>1 DEF ToSet
    <2> QED
      BY <1>9, <2>2
  <1>13. ASSUME NEW n, Adding(n) # {}, ~DefinedIn(defs, n) PROVE \E x \in ToSet(RewrittenDefs) : x.name = n
    <2> DEFINE k == Min(Adding(n))
    <2>1. Adding(n) \subseteq 1..Len(table)
      BY DEF Adding, TypeInv
    <2>2. k \in Adding(n)
      BY <1>13, <2>1, <1>4, Least
    <2>3. table[k].ref.name = n /\ k \in 1..Len(table)
      BY <2>1, <2>2 DEF Adding
    <2>4. fs[k] = <<Definition(n)>>
      BY <1>7, <1>13, <2>2, <2>3
    <2>5. Definition(n) \in ToSet(fs[k])
      BY <2>4 DEF ToSet
    <2>6. Definition(n) \in ToSet(FlattenSeq(fs)) /\ Definition(n).name = n
      BY <1>7, <1>8, <1>13, <2>3, <2>5, DefinitionType
    <2> QED
      BY <1>9, <2>6
  <1>14. ASSUME NEW n, \E x \in ToSet(RewrittenDefs) : x.name = n PROVE DefinedIn(RewrittenDefs, n)
    BY <1>14 DEF DefinedIn, ToSet
  <1>15. \A n : DefinedIn(defs, n) \/ Adding(n) # {} => DefinedIn(RewrittenDefs, n)
    BY <1>12, <1>13, <1>14
  <1>16. \A x \in ToSet(RewrittenDefs) :
            \/ \E n : Adding(n) # {} /\ x = Definition(n)
            \/ \E d \in ToSet(defs) : x = [d EXCEPT !.refs = RewriteAll(d.refs)]
    BY <1>9, <1>10, <1>11
  <1> QED
    BY <1>9, <1>15, <1>16
-----------------------------------------------------------------------------
(***************************************************************************)
(* Types                                                                   *)
(***************************************************************************)
LEMMA TypesInit == Init => TypeInv /\ ConverterTypeOK /\ ~Listing
  <1> SUFFICES ASSUME Init PROVE TypeInv /\ ConverterTypeOK /\ ~Listing
    OBVIOUS
  <1>1. TypeInv
    BY DepthAssumption DEF Init, ResolverInit, TypeInv, Known, Stages, MaxIteration
  <1>2. Cardinality(Apis) \in Nat
    BY ApisAssumption, FS_CardinalityType
  <1> QED
    BY <1>1, <1>2 DEF Init, ConverterInit, ConverterTypeOK, Listing

\* Whatever leaves the queue, the table and what was resolved alone.
LEMMA KnownUnchanged == ASSUME Known, UNCHANGED <<table, toResolve, resolvedRefs>> PROVE Known'
  BY DEF Known, Item

LEMMA StartTypes == TypeInv /\ StartRound /\ UNCHANGED stage => TypeInv'
  <1> SUFFICES ASSUME TypeInv, StartRound, UNCHANGED stage PROVE TypeInv'
    OBVIOUS
  <1>1. /\ table' = ResolutionTable /\ i' = 1 /\ toResolve' = <<>> /\ resolvedRefs' = <<>>
        /\ phase = "resolve" /\ phase' = "scan"
        /\ UNCHANGED <<stage, iteration, failures, callbacks, defs, ops>>
    BY DEF StartRound, spec
  <1>2. table' \in Seq(Entry)
    <2>1. \A k \in 1..Len(defs) : defs[k] \in Definitions
      BY DEF TypeInv
    <2> QED
      BY <1>1, <2>1, TableType DEF TypeInv, Entry, Definitions
  <1>3. DOMAIN resolvedRefs' = {}
    BY <1>1
  <1> QED
    BY <1>1, <1>2, <1>3 DEF TypeInv, Known

LEMMA ExamineTypes == TypeInv /\ Examine /\ UNCHANGED stage => TypeInv'
  <1> SUFFICES ASSUME TypeInv, Examine, UNCHANGED stage PROVE TypeInv'
    OBVIOUS
  <1>1. /\ phase = "scan" /\ i \in 1..Len(table)
        /\ UNCHANGED <<stage, iteration, failures, callbacks, phase, defs, ops, resolvedRefs>>
        /\ DOMAIN resolvedRefs = {}
    BY DEF Examine, TypeInv, spec
  <1>2. /\ toResolve' \in {toResolve, Append(toResolve, i)}
        /\ i' \in {i + 1, Depth + 1}
    BY DEF Examine, ExamineRemote, ExamineSchema, ExamineFile, ExamineInline, Queue
  <1>3. table' \in Seq(Entry) /\ Len(table') = Len(table)
    <2>1. CASE ExamineFile
      <3>1. table' = [table EXCEPT ![i].root = table[i].ref.doc]
        BY <2>1 DEF ExamineFile
      <3>2. table[i] \in Entry
        BY <1>1 DEF TypeInv
      <3>3. table[i].ref.doc \in Docs \cup {Root}
        BY <3>2, RefFields DEF Entry
      <3>4. [table[i] EXCEPT !.root = table[i].ref.doc] \in Entry
        BY <3>2, <3>3 DEF Entry
      <3> QED
        BY <1>1, <3>1, <3>4 DEF TypeInv
    <2>2. CASE UNCHANGED table
      BY <2>2 DEF TypeInv
    <2> QED
      BY <2>1, <2>2 DEF Examine, ExamineRemote, ExamineSchema, ExamineInline
  <1>4. toResolve' \in Seq(1..Len(table'))
    <2>1. toResolve \in Seq(1..Len(table))
      BY DEF TypeInv
    <2>2. Append(toResolve, i) \in Seq(1..Len(table))
      BY <1>1, <2>1
    <2>3. toResolve' \in Seq(1..Len(table))
      BY <1>2, <2>1, <2>2
    <2> QED
      BY <1>3, <2>3
  <1>5. i' \in Nat \ {0}
    BY <1>2, DepthAssumption DEF TypeInv
  <1>6. Known'
    BY <1>1 DEF Known
  <1> QED
    BY <1>1, <1>3, <1>4, <1>5, <1>6 DEF TypeInv

LEMMA DispatchTypes == TypeInv /\ Dispatch /\ UNCHANGED stage => TypeInv'
  <1> SUFFICES ASSUME TypeInv, Dispatch, UNCHANGED stage PROVE TypeInv'
    OBVIOUS
  <1> DEFINE found == {e \in {Item(p) : p \in {q \in 1..Len(toResolve) : Local(q)}} : Found(e)}
  <1>1. /\ resolvedRefs' = [k \in {Key(e.ref) : e \in found} |->
                               Resolution(CHOOSE e \in found : Key(e.ref) = k)]
        /\ phase = "scan" /\ phase' \in {"finish", "wait"}
        /\ UNCHANGED <<stage, iteration, failures, callbacks, defs, ops, table, i, toResolve>>
    BY DEF Dispatch, spec
  <1>2. ASSUME NEW k \in DOMAIN resolvedRefs'
        PROVE  \E p \in 1..Len(toResolve) : /\ Key(Item(p).ref) = k /\ Found(Item(p))
                                            /\ resolvedRefs'[k] = Resolution(Item(p))
    <2> DEFINE e == CHOOSE x \in found : Key(x.ref) = k
    <2>1. k \in {Key(x.ref) : x \in found} /\ resolvedRefs'[k] = Resolution(e)
      BY <1>1, <1>2
    <2>2. e \in found /\ Key(e.ref) = k
      BY <2>1
    <2> HIDE DEF e
    <2>3. PICK p \in 1..Len(toResolve) : e = Item(p) /\ Found(e)
      BY <2>2
    <2> QED
      BY <2>1, <2>2, <2>3
  <1>3. Known'
    <2>1. table' = table /\ toResolve' = toResolve
      BY <1>1
    <2> QED
      BY ONLY <1>2, <2>1 DEF Known, Item
  <1> QED
    BY <1>1, <1>3 DEF TypeInv

LEMMA AnswerTypes == TypeInv /\ RoundInv /\ Answer /\ UNCHANGED stage => TypeInv'
  <1> SUFFICES ASSUME TypeInv, RoundInv, UNCHANGED stage,
                      NEW p \in inflight, Respond(p) \/ FetchFails(p)
               PROVE  TypeInv'
    BY DEF Answer
  <1>1. /\ phase = "wait" /\ phase' \in {"wait", "finish"}
        /\ UNCHANGED <<stage, iteration, callbacks, defs, ops, table, i, toResolve>>
    BY DEF Respond, FetchFails, Processed, spec, round
  <1>2. failures' \in 0..MaxFailures
    BY DepthAssumption DEF Respond, FetchFails, TypeInv
  <1>3. Known'
    <2>1. CASE Respond(p)
      <3>1. p \in 1..Len(toResolve)
        BY DEF RoundInv
      <3>2. resolvedRefs' = Resolve(resolvedRefs, Item(p))
        BY <2>1 DEF Respond
      <3>3. CASE ~Found(Item(p))
        BY <1>1, <3>2, <3>3, KnownUnchanged DEF Resolve, TypeInv
      <3>4. CASE Found(Item(p))
        <4>1. resolvedRefs' = [k \in DOMAIN resolvedRefs \cup {Key(Item(p).ref)} |->
                                 IF k = Key(Item(p).ref) THEN Resolution(Item(p)) ELSE resolvedRefs[k]]
          BY <3>2, <3>4 DEF Resolve
        <4>2. ASSUME NEW k \in DOMAIN resolvedRefs'
              PROVE  \E q \in 1..Len(toResolve) : /\ Key(Item(q).ref) = k /\ Found(Item(q))
                                                  /\ resolvedRefs'[k] = Resolution(Item(q))
          <5>1. CASE k = Key(Item(p).ref)
            BY <3>1, <3>4, <4>1, <4>2, <5>1
          <5>2. CASE k # Key(Item(p).ref)
            BY <4>1, <4>2, <5>2 DEF TypeInv, Known
          <5> QED
            BY <5>1, <5>2
        <4> QED
          BY <1>1, <4>2 DEF Known, Item
      <3> QED
        BY <3>3, <3>4
    <2>2. CASE FetchFails(p)
      BY <2>2, KnownUnchanged DEF FetchFails, round, TypeInv
    <2> QED
      BY <2>1, <2>2
  <1> QED
    BY <1>1, <1>2, <1>3 DEF TypeInv

LEMMA FinishTypes == TypeInv /\ Finish /\ UNCHANGED stage => TypeInv'
  <1> SUFFICES ASSUME TypeInv, Finish, UNCHANGED stage PROVE TypeInv'
    OBVIOUS
  <1>1. /\ defs' = RewrittenDefs /\ ops' = RewriteAll(ops)
        /\ phase = "finish"
        /\ UNCHANGED <<table, i, toResolve, resolvedRefs, failures>>
    BY DEF Finish, Rewrite, round
  <1>2. defs' \in Seq(Definitions) /\ ops' \in Seq(Refs)
    BY <1>1, RewrittenDefsType, RewriteAllType DEF TypeInv
  <1>3. \/ phase' = "done" /\ callbacks' = callbacks + 1 /\ iteration' = iteration
        \/ phase' = "resolve" /\ iteration' = iteration + 1 /\ ~(iteration > 5) /\ callbacks' = callbacks
    BY DEF Finish
  <1>4. /\ iteration' \in 0..MaxIteration /\ phase' \in {"done", "resolve"}
        /\ callbacks' = IF phase' = "done" THEN 1 ELSE 0
    BY <1>1, <1>3 DEF TypeInv, MaxIteration
  <1>5. Known'
    BY <1>1, KnownUnchanged DEF TypeInv
  <1> QED
    BY <1>1, <1>2, <1>4, <1>5 DEF TypeInv

LEMMA BeginTypes ==
    ASSUME TypeInv, NEW s \in Sources, Begin(s), stage' \in Stages
    PROVE  TypeInv'
  <1>1. /\ phase = "idle" /\ phase' = "resolve" /\ defs' = s.defs /\ ops' = s.ops
        /\ UNCHANGED <<table, i, toResolve, resolvedRefs, iteration, callbacks, failures>>
    BY DEF Begin, round
  <1>2. defs' \in Seq(Definitions) /\ ops' \in Seq(Refs)
    BY <1>1 DEF Sources
  <1>3. Known'
    BY <1>1, KnownUnchanged DEF TypeInv
  <1> QED
    BY <1>1, <1>2, <1>3 DEF TypeInv

\* A finite set in the order of a sequence.
LEMMA Listed ==
    ASSUME NEW S, IsFiniteSet(S)
    PROVE  SetToSeq(S) \in Seq(S)
  <1>1. Cardinality(S) \in Nat
    BY FS_CardinalityType
  <1>2. ExistsBijection(1..Cardinality(S), S)
    BY FS_NatBijection, FS_CardinalityType, FS_CountingElements
  <1>3. PICK f : f \in Bijection(1..Cardinality(S), S)
    BY <1>2 DEF ExistsBijection
  <1>4. f \in [1..Cardinality(S) -> S] /\ IsInjective(f)
    BY <1>3 DEF Bijection, Injection, Surjection, IsInjective
  <1>5. SetToSeq(S) \in [1..Cardinality(S) -> S]
    BY <1>4 DEF SetToSeq
  <1> QED
    BY <1>1, <1>5

LEMMA ConvertedType ==
    ASSUME ConverterTypeOK
    PROVE  /\ Converted \in Sources
           /\ \A k \in DOMAIN Converted.defs : Converted.defs[k].from = Root
           /\ \A r \in ToSet(Converted.ops) : r.of = Root /\ r.form = "local"
           /\ \A k \in DOMAIN Converted.defs : Converted.defs[k].refs = <<>>
  <1> DEFINE used == IF description.kind = "single" THEN SetToSeq(Apis) ELSE SetToSeq(merged)
  <1>1. merged \subseteq Apis /\ IsFiniteSet(merged)
    BY ApisAssumption, FS_Subset DEF ConverterTypeOK
  <1>2. used \in Seq(Apis)
    <2>1. SetToSeq(Apis) \in Seq(Apis) /\ SetToSeq(merged) \in Seq(merged)
      BY <1>1, ApisAssumption, Listed
    <2>2. SetToSeq(merged) \in Seq(Apis)
      BY <1>1, <2>1
    <2> QED
      BY <2>1, <2>2
  <1> HIDE DEF used
  <1> DEFINE ds == [k \in 1..Len(used) |-> [name |-> Model[used[k]], from |-> Root, refs |-> <<>>]]
             os == [k \in 1..Len(used) |-> LocalModel("ref", Model[used[k]])]
  <1>3. Converted = [defs |-> ds, ops |-> os]
    BY DEF Converted, used
  <1>4. \A k \in 1..Len(used) : Model[used[k]] \in Names
    BY <1>2, OldDescriptionsAssumption
  <1>5. ds \in Seq(Definitions)
    <2>1. \A k \in 1..Len(used) : [name |-> Model[used[k]], from |-> Root, refs |-> <<>>] \in Definitions
      BY <1>4 DEF Definitions
    <2> QED
      BY <1>2, <2>1
  <1>6. os \in Seq(Refs)
    <2>1. ASSUME NEW n \in Names PROVE LocalModel("ref", n) \in Refs
      BY LibraryAssumption DEF LocalModel, Refs, Forms
    <2>2. \A k \in 1..Len(used) : LocalModel("ref", Model[used[k]]) \in Refs
      BY <1>4, <2>1
    <2> QED
      BY <1>2, <2>2
  <1>7. \A r \in ToSet(os) : r.of = Root /\ r.form = "local"
    BY <1>2 DEF ToSet, LocalModel
  <1> QED
    BY <1>3, <1>5, <1>6, <1>7 DEF Sources

LEMMA TypeNext == TypeInv /\ RoundInv /\ ConverterTypeOK /\ [Next]_clientVars => TypeInv'
  <1> SUFFICES ASSUME TypeInv, RoundInv, ConverterTypeOK, [Next]_clientVars PROVE TypeInv'
    OBVIOUS
  <1>1. CASE ResolverNext /\ UNCHANGED stage
    BY <1>1, StartTypes, ExamineTypes, DispatchTypes, AnswerTypes, FinishTypes DEF ResolverNext
  <1>2. CASE UNCHANGED resolverVars /\ stage' \in Stages
    <2>1. UNCHANGED <<iteration, failures, callbacks, phase, defs, ops, table, i, toResolve, resolvedRefs>>
      BY <1>2 DEF resolverVars, spec, round
    <2>2. Known'
      BY <2>1, KnownUnchanged DEF TypeInv
    <2> QED
      BY <1>2, <2>1, <2>2 DEF TypeInv
  <1>3. CASE DescriptionArrives
    BY <1>3, BeginTypes, SpecificationsAssumption DEF DescriptionArrives, Stages
  <1>4. CASE ConverterCallsBack
    <2>1. CASE conversion = "null"
      BY <1>2, <1>4, <2>1 DEF ConverterCallsBack, Stages
    <2>2. CASE conversion # "null"
      BY <1>4, <2>2, BeginTypes, ConvertedType DEF ConverterCallsBack, Stages
    <2> QED
      BY <2>1, <2>2
  <1>5. CASE DescriptionFails \/ OldDescriptionArrives \/ ResolverCallsBack
    BY <1>2, <1>5 DEF DescriptionFails, OldDescriptionArrives, ResolverCallsBack, Stages
  <1>6. stage \in Stages
    BY DEF TypeInv
  <1> QED
    BY <1>1, <1>2, <1>3, <1>4, <1>5, <1>6 DEF Next, ClientStep, clientVars

\* What is counted is never more than there are declarations.
ConverterInv == ListingInv /\ ConverterTypeOK /\ (Listing => description.kind = "listing")

LEMMA NamedApis ==
    ASSUME NEW d \in Descriptions \cup {NoDescription}, d.kind = "listing"
    PROVE  DOMAIN d.apis \subseteq Apis
  <1>1. d \in Descriptions
    BY DEF NoDescription
  <1>2. PICK S \in SUBSET Apis : d \in [kind : {"listing"}, apis : [S -> Qualities]]
    BY <1>1 DEF Descriptions
  <1> QED
    BY <1>2

LEMMA ConvertTypes ==
    ASSUME ConverterInv, NEW d \in Descriptions, Convert(d)
    PROVE  ConverterTypeOK' /\ (Listing => description.kind = "listing")'
  <1>1. description' = d /\ UNCHANGED <<processedCount, merged, threw, refused>>
    BY DEF Convert
  <1>2. awaited' \subseteq Apis
    BY NamedApis DEF Convert
  <1>3. d.kind \in {"notASpec", "single", "listing"}
    BY DEF Descriptions
  <1>4. /\ conversion' \in {"idle", "listing", "thrown"} \cup Callback
        /\ conversion' = "listing" => d.kind = "listing"
    BY <1>3 DEF Convert, Callback
  <1> QED
    BY <1>1, <1>2, <1>4 DEF ConverterTypeOK, ConverterInv, Listing

LEMMA CountTypes ==
    ASSUME ConverterInv, NEW a \in awaited, Listing,
           awaited' = awaited \ {a}, processedCount' = processedCount + 1, UNCHANGED description,
           merged' \subseteq Apis, threw' \subseteq Apis, refused' \subseteq Apis,
           conversion' = CountedOut \/ UNCHANGED conversion
    PROVE  ConverterTypeOK' /\ (Listing => description.kind = "listing")'
  <1>1. Named \subseteq Apis
    BY NamedApis DEF ConverterInv, ConverterTypeOK, Named
  <1>2. /\ Cardinality(Named) \in Nat /\ Cardinality(Apis) \in Nat
        /\ Cardinality(Named) <= Cardinality(Apis)
    BY <1>1, ApisAssumption, FS_Subset, FS_CardinalityType
  <1>3. IsFiniteSet(awaited) /\ Cardinality(Named) = processedCount + Cardinality(awaited)
    BY FS_Subset DEF ConverterInv, ListingInv
  <1>4. Cardinality(awaited) \in Nat \ {0}
    BY <1>3, OneAnswered
  <1>5. processedCount' \in 0..Cardinality(Apis)
    BY <1>2, <1>3, <1>4 DEF ConverterInv, ConverterTypeOK
  <1>6. conversion' \in {"idle", "listing", "thrown"} \cup Callback
    BY DEF CountedOut, Callback, ConverterInv, ConverterTypeOK
  <1> QED
    BY <1>5, <1>6 DEF ConverterInv, ConverterTypeOK, Listing

LEMMA ConverterStepTypes ==
    ASSUME ConverterInv, ConverterNext
    PROVE  ConverterTypeOK' /\ (Listing => description.kind = "listing")'
  <1>1. PICK a \in Apis : ApiAnswers(a) \/ ApiFails(a)
    BY DEF ConverterNext
  <1>2. CASE ApiFails(a)
    BY <1>2, CountTypes DEF ApiFails, ConverterInv, ConverterTypeOK
  <1>3. CASE ApiAnswers(a)
    <2>1. /\ Listing /\ a \in awaited /\ awaited' = awaited \ {a}
          /\ processedCount' = processedCount + 1 /\ UNCHANGED <<description, refused>>
      BY <1>3 DEF ApiAnswers
    <2>2. description.apis[a] \in Qualities
      BY <2>1 DEF ConverterInv, ListingInv
    <2>3. /\ conversion' = CountedOut \/ UNCHANGED conversion
          /\ merged' \in {merged, merged \cup {a}} /\ threw' \in {threw, threw \cup {a}}
      <3>1. CASE description.apis[a] = "complete"
        BY <1>3, <3>1 DEF ApiAnswers
      <3>2. CASE description.apis[a] = "unreadable"
        BY <1>3, <3>2 DEF ApiAnswers
      <3>3. CASE description.apis[a] = "noBasePath"
        BY <1>3, <3>3 DEF ApiAnswers
      <3> QED
        BY <2>2, <3>1, <3>2, <3>3 DEF Qualities
    <2>4. merged' \subseteq Apis /\ threw' \subseteq Apis /\ refused' \subseteq Apis
      BY <1>1, <2>1, <2>3 DEF ConverterInv, ConverterTypeOK
    <2> QED
      BY <2>1, <2>3, <2>4, CountTypes
  <1> QED
    BY <1>1, <1>2, <1>3

LEMMA ConverterTypeNext == ConverterInv /\ [Next]_clientVars => ConverterInv'
  <1> SUFFICES ASSUME ConverterInv, [Next]_clientVars PROVE ConverterInv'
    OBVIOUS
  <1>1. ListingInv'
    BY ListingNext DEF ConverterInv
  <1>2. CASE UNCHANGED converterVars
    BY <1>1, <1>2 DEF ConverterInv, ConverterTypeOK, converterVars, Listing
  <1>3. CASE OldDescriptionArrives
    BY <1>1, <1>3, ConvertTypes, OldDescriptionsAssumption DEF OldDescriptionArrives, ConverterInv
  <1>4. CASE ConverterNext
    BY <1>1, <1>4, ConverterStepTypes DEF ConverterInv
  <1> QED
    BY <1>2, <1>3, <1>4 DEF Next, clientVars, ClientStep, DescriptionFails,
       DescriptionArrives, ConverterCallsBack, ResolverCallsBack

\* Every state is well typed: the callback runs once, rounds are at most seven,
\* the queue points into the table, and no more is counted than was asked for.
THEOREM TypeCorrect == Spec => []TypeOK
  <1> DEFINE Inv == TypeInv /\ RoundInv /\ ConverterInv
  <1>1. Init => Inv
    BY TypesInit, RoundInit, ListingInit DEF ConverterInv
  <1>2. Inv /\ [Next]_clientVars => Inv'
    BY TypeNext, RoundNext, ConverterTypeNext DEF ConverterInv
  <1>3. Inv => TypeOK
    BY DEF TypeInv, RoundInv, ConverterInv, TypeOK
  <1> QED
    BY <1>1, <1>2, <1>3, PTL DEF Spec
-----------------------------------------------------------------------------
(***************************************************************************)
(* What a rewritten reference means                                        *)
(*                                                                         *)
(* A definition is the part of its name of the document it came from, and  *)
(* a reference of another document is made local only along with a         *)
(* definition of its name; a reference taken over from another document    *)
(* is not local any more.                                                  *)
(***************************************************************************)
\* A reference that was written for another document and is local now.
Moved(r) == r.as = "ref" /\ r.form = "local" /\ r.of # Root

Leads(refs, ds) == \A r \in ToSet(refs) : Moved(r) => DefinedIn(ds, r.name)

MeaningInv ==
    /\ \A k \in DOMAIN defs : defs[k].from \in Homes(defs[k].name) /\ Leads(defs[k].refs, defs)
    /\ Leads(ops, defs)

LEMMA MeaningInit == Init => MeaningInv
  BY DEF Init, ResolverInit, MeaningInv, Leads, ToSet

LEMMA MeaningUnchanged == MeaningInv /\ UNCHANGED <<source, defs, ops>> => MeaningInv'
  BY DEF MeaningInv, Homes

\* Where a reference in sight of getRefs is.
LEMMA InSight ==
    \A ds, os, r : r \in AllRefs(ds, os) <=>
        \/ \E k \in DOMAIN ds : r \in ToSet(ds[k].refs)
        \/ r \in ToSet(os)
        \/ \E n \in DOMAIN Library[Root] : r \in ToSet(Library[Root][n])
  BY DEF AllRefs

\* What is written for a document is not moved when it is taken over from it.
LEMMA LibraryRefs ==
    ASSUME NEW d \in Docs \cup {Root}, NEW n \in DOMAIN Library[d], NEW x \in ToSet(Library[d][n])
    PROVE  WrittenIn(x, d)
  BY LibraryAssumption

\* The contents of a resolved reference were written for the specification, or
\* have been made absolute.
LEMMA ContentsFrom ==
    ASSUME TypeInv, NEW r, Resolved(r), NEW x \in ToSet(Contents(r))
    PROVE  \/ \E n \in DOMAIN Library[Root] : x \in ToSet(Library[Root][n])
           \/ x.form \notin {"local", "relative", "file"}
  <1> DEFINE known == resolvedRefs[Key(r)]
             first == table[SelectInSeq(table, LAMBDA e : Key(e.ref) = Key(r))]
  <1>1. PICK k \in 1..Len(table) :
            /\ table[k] \in Entry /\ Found(table[k]) /\ known = Resolution(table[k])
            /\ LocalResolve => table[k].root = Root
    BY ResolvedEntry
  <1>2. known \in Resolutions
    BY <1>1, ResolutionType
  <1>3. known.refs \in Seq(Refs)
    BY <1>2 DEF Resolutions
  <1>4. Contents(r) = IF LocalResolve THEN known.refs
                      ELSE [j \in 1..Len(known.refs) |-> Retain(known.refs[j], first.root)]
    BY DEF Contents
  <1>5. CASE LocalResolve
    <2>1. known.refs = Library[Root][table[k].ref.name] /\ table[k].ref.name \in DOMAIN Library[Root]
      BY <1>1, <1>5 DEF Resolution, Found
    <2> QED
      BY <1>4, <1>5, <2>1
  <1>6. CASE ~LocalResolve
    <2>1. PICK j \in 1..Len(known.refs) : x = Retain(known.refs[j], first.root)
      <3> HIDE DEF known, first
      <3> QED
        BY <1>3, <1>4, <1>6 DEF ToSet
    <2> HIDE DEF known, first
    <2> DEFINE t == known.refs[j]
               d == first.root
    <2>2. t \in Refs /\ x = Retain(t, d)
      BY <1>3, <2>1
    <2> HIDE DEF t, d
    <2>3. CASE t.form = "local"
      <3>1. x = [t EXCEPT !.form = "http", !.doc = d]
        BY <2>2, <2>3 DEF Retain
      <3> QED
        BY <2>2, <3>1 DEF Refs
    <2>4. CASE t.form \in {"relative", "file"}
      <3>1. x = [t EXCEPT !.form = "lost", !.doc = d]
        BY <2>2, <2>4 DEF Retain
      <3> QED
        BY <2>2, <3>1 DEF Refs
    <2>5. CASE t.form \notin {"local", "relative", "file"}
      BY <2>2, <2>5 DEF Retain
    <2> QED
      BY <2>3, <2>4, <2>5
  <1> QED
    BY <1>5, <1>6

\* Nothing in the contents of a resolved reference is a moved reference.
LEMMA ContentsUnmoved ==
    ASSUME TypeInv, NEW r, Resolved(r), NEW x \in ToSet(Contents(r))
    PROVE  ~Moved(x)
  <1>1. CASE \E n \in DOMAIN Library[Root] : x \in ToSet(Library[Root][n])
    BY <1>1, LibraryRefs DEF WrittenIn, Moved
  <1> QED
    BY <1>1, ContentsFrom DEF Moved

\* What a reference of the specification becomes is moved only to a name that
\* is defined after the round.
LEMMA RewrittenMoved ==
    ASSUME TypeInv, NEW r \in Refs, Moved(r) => DefinedIn(defs, r.name),
           NEW x \in ToSet(Rewritten(r)), Moved(x)
    PROVE  DefinedIn(RewrittenDefs, x.name)
  <1>1. CASE ~Resolved(r)
    <2>1. x = r
      BY <1>1 DEF Rewritten, ToSet
    <2> QED
      BY <2>1, RewrittenDefsType
  <1>2. CASE Resolved(r) /\ r.as = "ref"
    <2>1. Rewritten(r) = <<[r EXCEPT !.form = "local", !.doc = Root]>>
      BY <1>2 DEF Rewritten
    <2>2. x = [r EXCEPT !.form = "local", !.doc = Root]
      BY <2>1 DEF ToSet
    <2>3. x.name = r.name
      BY <2>2 DEF Refs
    <2>4. PICK k \in 1..Len(table) : table[k] \in Entry /\ Key(table[k].ref) = Key(r)
      BY <1>2, ResolvedEntry
    <2>5. table[k].ref \in Refs
      BY <2>4 DEF Entry
    <2>6. table[k].ref.as = "ref" /\ table[k].ref.name = r.name /\ Resolved(table[k].ref)
      BY <1>2, <2>4, <2>5, KeyNames DEF Resolved
    <2>7. k \in Adding(r.name)
      BY <2>6 DEF Adding, TypeInv
    <2> QED
      BY <2>3, <2>7, RewrittenDefsType
  <1>3. CASE Resolved(r) /\ r.as # "ref"
    BY <1>3, ContentsUnmoved DEF Rewritten
  <1> QED
    BY <1>1, <1>2, <1>3

LEMMA FinishMeaning == TypeInv /\ MeaningInv /\ Finish => MeaningInv'
  <1> SUFFICES ASSUME TypeInv, MeaningInv, Finish PROVE MeaningInv'
    OBVIOUS
  <1>1. defs' = RewrittenDefs /\ ops' = RewriteAll(ops) /\ source' = source
    BY DEF Finish, Rewrite
  <1>2. defs \in Seq(Definitions) /\ ops \in Seq(Refs)
    BY DEF TypeInv
  <1>3. RewrittenDefs \in Seq(Definitions)
    BY RewrittenDefsType
  <1>4. ASSUME NEW x \in ToSet(RewrittenDefs)
        PROVE  \/ \E n : Adding(n) # {} /\ x = Definition(n)
               \/ \E k \in 1..Len(defs) : x = [defs[k] EXCEPT !.refs = RewriteAll(defs[k].refs)]
    <2>1. \/ \E n : Adding(n) # {} /\ x = Definition(n)
          \/ \E d \in ToSet(defs) : x = [d EXCEPT !.refs = RewriteAll(d.refs)]
      BY RewrittenDefsType
    <2>2. \A d \in ToSet(defs) : \E k \in 1..Len(defs) : d = defs[k]
      BY <1>2 DEF ToSet
    <2> QED
      BY <2>1, <2>2
  <1>5. ASSUME NEW refs \in Seq(Refs), Leads(refs, defs)
        PROVE  Leads(RewriteAll(refs), RewrittenDefs)
    <2> SUFFICES ASSUME NEW x \in ToSet(RewriteAll(refs)), Moved(x)
                 PROVE  DefinedIn(RewrittenDefs, x.name)
      BY DEF Leads
    <2>1. PICK r \in ToSet(refs) : x \in ToSet(Rewritten(r))
      BY <1>5, RewriteAllType
    <2>2. r \in Refs /\ (Moved(r) => DefinedIn(defs, r.name))
      BY <1>5 DEF ToSet, Leads
    <2> QED
      BY <2>1, <2>2, RewrittenMoved
  <1>6. ASSUME NEW x \in ToSet(RewrittenDefs)
        PROVE  x.from \in Homes(x.name) /\ Leads(x.refs, RewrittenDefs)
    <2>1. CASE \E n : Adding(n) # {} /\ x = Definition(n)
      <3>1. PICK n : Adding(n) # {} /\ x = Definition(n)
        BY <2>1
      <3>2. /\ x.name = n /\ x.from \in Docs /\ n \in DOMAIN Library[x.from]
            /\ \E r \in Refs : Resolved(r) /\ x.refs = Contents(r)
        BY <3>1, DefinitionType
      <3> QED
        BY <3>2, ContentsUnmoved DEF Homes, Leads
    <2>2. CASE \E k \in 1..Len(defs) : x = [defs[k] EXCEPT !.refs = RewriteAll(defs[k].refs)]
      <3>1. PICK k \in 1..Len(defs) : x = [defs[k] EXCEPT !.refs = RewriteAll(defs[k].refs)]
        BY <2>2
      <3>2. defs[k] \in Definitions
        BY <1>2
      <3>3. /\ x.name = defs[k].name /\ x.from = defs[k].from /\ x.refs = RewriteAll(defs[k].refs)
            /\ defs[k].refs \in Seq(Refs)
        BY <3>1, <3>2 DEF Definitions
      <3>4. defs[k].from \in Homes(defs[k].name) /\ Leads(defs[k].refs, defs)
        BY <1>2 DEF MeaningInv
      <3> QED
        BY <1>5, <3>3, <3>4
    <2> QED
      BY <1>4, <2>1, <2>2
  <1>7. Leads(RewriteAll(ops), RewrittenDefs)
    BY <1>2, <1>5 DEF MeaningInv
  <1>8. \A k \in DOMAIN RewrittenDefs : RewrittenDefs[k] \in ToSet(RewrittenDefs)
    BY DEF ToSet
  <1>9. \A n : Homes(n)' = Homes(n)
    BY <1>1 DEF Homes
  <1> QED
    BY <1>1, <1>6, <1>7, <1>8, <1>9 DEF MeaningInv

\* A specification as it is given.
LEMMA BeginMeaning ==
    ASSUME NEW s \in Sources, Begin(s), \A k \in DOMAIN s.defs : s.defs[k].from = Root,
           \A k \in DOMAIN s.defs : \A r \in ToSet(s.defs[k].refs) : ~Moved(r),
           \A r \in ToSet(s.ops) : ~Moved(r)
    PROVE  MeaningInv'
  <1>1. source' = s /\ defs' = s.defs /\ ops' = s.ops
    BY DEF Begin
  <1>2. \A k \in DOMAIN s.defs : DefinedIn(s.defs, s.defs[k].name)
    BY DEF DefinedIn
  <1>3. \A n : DefinedIn(s.defs, n) => Root \in Homes(n)'
    BY <1>1 DEF Homes
  <1>4. /\ \A k \in DOMAIN s.defs : Leads(s.defs[k].refs, s.defs)
        /\ Leads(s.ops, s.defs)
    BY DEF Leads
  <1> QED
    BY <1>1, <1>2, <1>3, <1>4 DEF MeaningInv

LEMMA MeaningNext == TypeInv /\ ConverterTypeOK /\ MeaningInv /\ [Next]_clientVars => MeaningInv'
  <1> SUFFICES ASSUME TypeInv, ConverterTypeOK, MeaningInv, [Next]_clientVars PROVE MeaningInv'
    OBVIOUS
  <1>1. CASE UNCHANGED <<source, defs, ops>>
    BY <1>1, MeaningUnchanged
  <1>2. CASE Finish
    BY <1>2, FinishMeaning
  <1>3. CASE DescriptionArrives
    <2>1. PICK s \in Specifications : Begin(s)
      BY <1>3 DEF DescriptionArrives
    <2>2. /\ s \in Sources /\ \A k \in DOMAIN s.defs : s.defs[k].from = Root
          /\ \A r \in AllRefs(s.defs, s.ops) : WrittenIn(r, Root)
      BY SpecificationsAssumption
    <2>3. \A r \in AllRefs(s.defs, s.ops) : ~Moved(r)
      BY <2>2 DEF WrittenIn, Moved
    <2>4. /\ \A k \in DOMAIN s.defs : ToSet(s.defs[k].refs) \subseteq AllRefs(s.defs, s.ops)
          /\ ToSet(s.ops) \subseteq AllRefs(s.defs, s.ops)
      BY InSight
    <2> QED
      BY <2>1, <2>2, <2>3, <2>4, BeginMeaning
  <1>4. CASE ConverterCallsBack /\ Begin(Converted)
    <2>1. /\ Converted \in Sources
          /\ \A k \in DOMAIN Converted.defs : Converted.defs[k].from = Root
          /\ \A k \in DOMAIN Converted.defs : \A r \in ToSet(Converted.defs[k].refs) : ~Moved(r)
          /\ \A r \in ToSet(Converted.ops) : ~Moved(r)
      BY ConvertedType DEF Moved, ToSet
    <2> QED
      BY <1>4, <2>1, BeginMeaning
  <1> QED
    BY <1>1, <1>2, <1>3, <1>4 DEF Next, ClientStep, DescriptionFails, OldDescriptionArrives,
       ConverterCallsBack, ResolverCallsBack, ResolverNext, StartRound, Examine, Dispatch,
       Answer, Respond, FetchFails, clientVars, resolverVars, spec

\* Whatever the documents and the order in which they arrive, a reference that
\* was made local leads to the part it was written for, if only one document has
\* a part of that name.
THEOREM MeaningSafe == Spec => []MeansItsTarget
  <1> DEFINE Inv == TypeInv /\ RoundInv /\ ConverterInv /\ MeaningInv
  <1>1. Init => Inv
    BY TypesInit, RoundInit, ListingInit, MeaningInit DEF ConverterInv
  <1>2. Inv /\ [Next]_clientVars => Inv'
    BY TypeNext, RoundNext, ConverterTypeNext, MeaningNext DEF ConverterInv
  <1>3. MeaningInv => MeansItsTarget
    <2> SUFFICES ASSUME MeaningInv, NEW r \in AllRefs(defs, ops), Moved(r), Homes(r.name) = {r.of}
                 PROVE  \E k \in DOMAIN defs : defs[k].name = r.name /\ defs[k].from = r.of
      BY DEF MeansItsTarget, Moved
    <2>1. \/ \E k \in DOMAIN defs : r \in ToSet(defs[k].refs)
          \/ r \in ToSet(ops)
          \/ \E n \in DOMAIN Library[Root] : r \in ToSet(Library[Root][n])
      BY InSight
    <2>2. ASSUME NEW n \in DOMAIN Library[Root], r \in ToSet(Library[Root][n]) PROVE FALSE
      <3>1. WrittenIn(r, Root)
        BY <2>2, LibraryRefs
      <3> QED
        BY <3>1 DEF WrittenIn, Moved
    <2>3. DefinedIn(defs, r.name)
      BY <2>1, <2>2 DEF MeaningInv, Leads
    <2>4. PICK k \in DOMAIN defs : defs[k].name = r.name
      BY <2>3 DEF DefinedIn
    <2>5. defs[k].from \in Homes(r.name)
      BY <2>4 DEF MeaningInv
    <2> QED
      BY <2>4, <2>5
  <1> QED
    BY <1>1, <1>2, <1>3, PTL DEF Spec
-----------------------------------------------------------------------------
(***************************************************************************)
(* Why every run ends                                                      *)
(*                                                                         *)
(* That the client settles is a liveness property, which TLC checks.  Its  *)
(* two halves are proved: every step lowers a measure, so that there are   *)
(* finitely many of them, and short of an exception or of the end there is *)
(* always something under way.                                             *)
(*                                                                         *)
(* The loop over the table is left at the number of parts of a URL by a    *)
(* relative file.  It ends because a file is then an entry of another      *)
(* document: a file that is the specification itself, behind that number   *)
(* of references, would be examined for ever.                              *)
(***************************************************************************)
Elsewhere(r) == r.form = "file" => r.doc # Root

\* No relative file is the specification itself.
NoFileIsRoot ==
    /\ \A s \in Specifications :
          /\ \A k \in DOMAIN s.defs : \A r \in ToSet(s.defs[k].refs) : Elsewhere(r)
          /\ \A r \in ToSet(s.ops) : Elsewhere(r)
    /\ \A n \in DOMAIN Library[Root] : \A r \in ToSet(Library[Root][n]) : Elsewhere(r)

\* Files of the table that were not examined yet.
Files == {k \in 1..Len(table) : table[k].root = Root /\ table[k].ref.form = "file"}

StageLeft == CASE stage = "fetching" -> 3 [] stage = "converting" -> 2
               [] stage = "resolving" -> 1 [] OTHER -> 0
PhaseLeft == CASE phase = "idle" -> 5 [] phase = "resolve" -> 4 [] phase = "scan" -> 3
               [] phase = "wait" -> 2 [] phase = "finish" -> 1 [] OTHER -> 0
Ahead == IF i <= Len(table) THEN Len(table) + 1 - i ELSE 0

\* What is left to do, the longer work before the shorter.
Left == <<StageLeft, Cardinality(awaited), MaxIteration - iteration, PhaseLeft,
          Cardinality(Files), Ahead, Cardinality(inflight)>>

\* The lexicographic order on what is left, which is well founded on numbers.
Numbers == \A k \in 1..7 : Left[k] \in Nat
Lower == \E k \in 1..7 : Left'[k] < Left[k] /\ \A j \in 1..(k - 1) : Left'[j] = Left[j]

\* At the end of the work, or stopped by an exception.
Stopped == Settled \/ stage = "thrown" \/ conversion = "thrown" \/ threw # {}

\* Something is under way: the guard of a step holds.
Underway ==
    \/ stage = "fetching"
    \/ stage = "converting" /\ (conversion \in Callback \/ (Listing /\ awaited # {}))
    \/ stage = "resolving" /\ (\/ phase \in {"resolve", "scan", "finish", "done"}
                               \/ phase = "wait" /\ inflight # {})

Safe == TypeInv /\ RoundInv /\ ConverterInv

FilesInv ==
    /\ \A k \in 1..Len(defs) : \A r \in ToSet(defs[k].refs) : Elsewhere(r)
    /\ \A r \in ToSet(ops) : Elsewhere(r)
    /\ \A k \in 1..Len(table) : Elsewhere(table[k].ref)

LEMMA SafeInit == Init => Safe
  BY TypesInit, RoundInit, ListingInit DEF Safe, ConverterInv

LEMMA SafeNext == Safe /\ [Next]_clientVars => Safe'
  BY TypeNext, RoundNext, ConverterTypeNext DEF Safe, ConverterInv

LEMMA RewrittenElsewhere ==
    ASSUME NoFileIsRoot, TypeInv, NEW r \in Refs, Elsewhere(r), NEW x \in ToSet(Rewritten(r))
    PROVE  Elsewhere(x)
  <1>1. CASE ~Resolved(r)
    BY <1>1 DEF Rewritten, ToSet
  <1>2. CASE Resolved(r) /\ r.as = "ref"
    <2>1. Rewritten(r) = <<[r EXCEPT !.form = "local", !.doc = Root]>>
      BY <1>2 DEF Rewritten
    <2>2. x = [r EXCEPT !.form = "local", !.doc = Root]
      BY <2>1 DEF ToSet
    <2> QED
      BY <2>2 DEF Refs, Elsewhere
  <1>3. CASE Resolved(r) /\ r.as # "ref"
    BY <1>3, ContentsFrom DEF Rewritten, NoFileIsRoot, Elsewhere
  <1> QED
    BY <1>1, <1>2, <1>3

LEMMA RewriteAllElsewhere ==
    ASSUME NoFileIsRoot, TypeInv, NEW refs \in Seq(Refs), \A r \in ToSet(refs) : Elsewhere(r),
           NEW x \in ToSet(RewriteAll(refs))
    PROVE  Elsewhere(x)
  <1>1. PICK r \in ToSet(refs) : x \in ToSet(Rewritten(r))
    BY RewriteAllType
  <1>2. r \in Refs
    BY DEF ToSet
  <1> QED
    BY <1>1, <1>2, RewrittenElsewhere

LEMMA FilesFinish == NoFileIsRoot /\ TypeInv /\ FilesInv /\ Finish => FilesInv'
  <1> SUFFICES ASSUME NoFileIsRoot, TypeInv, FilesInv, Finish PROVE FilesInv'
    OBVIOUS
  <1>1. defs' = RewrittenDefs /\ ops' = RewriteAll(ops) /\ table' = table
    BY DEF Finish, Rewrite, round
  <1>2. defs \in Seq(Definitions) /\ ops \in Seq(Refs) /\ RewrittenDefs \in Seq(Definitions)
    BY RewrittenDefsType DEF TypeInv
  <1>3. ASSUME NEW d \in ToSet(RewrittenDefs), NEW x \in ToSet(d.refs) PROVE Elsewhere(x)
    <2>1. CASE \E n : Adding(n) # {} /\ d = Definition(n)
      <3>1. PICK r \in Refs : Resolved(r) /\ d.refs = Contents(r)
        BY <2>1, DefinitionType
      <3> QED
        BY <1>3, <3>1, ContentsFrom DEF NoFileIsRoot, Elsewhere
    <2>2. CASE \E c \in ToSet(defs) : d = [c EXCEPT !.refs = RewriteAll(c.refs)]
      <3>1. PICK c \in ToSet(defs) : d = [c EXCEPT !.refs = RewriteAll(c.refs)]
        BY <2>2
      <3>2. PICK k \in 1..Len(defs) : c = defs[k] /\ c \in Definitions
        BY <1>2 DEF ToSet
      <3>3. d.refs = RewriteAll(defs[k].refs) /\ defs[k].refs \in Seq(Refs)
        BY <3>1, <3>2 DEF Definitions
      <3> QED
        BY <1>3, <3>3, RewriteAllElsewhere DEF FilesInv
    <2> QED
      BY <2>1, <2>2, RewrittenDefsType
  <1>4. \A k \in 1..Len(RewrittenDefs) : RewrittenDefs[k] \in ToSet(RewrittenDefs)
    BY <1>2 DEF ToSet
  <1>5. \A x \in ToSet(RewriteAll(ops)) : Elsewhere(x)
    BY <1>2, RewriteAllElsewhere DEF FilesInv
  <1> QED
    BY <1>1, <1>3, <1>4, <1>5 DEF FilesInv

LEMMA FilesStart == TypeInv /\ FilesInv /\ StartRound => FilesInv'
  <1> SUFFICES ASSUME TypeInv, FilesInv, StartRound PROVE FilesInv'
    OBVIOUS
  <1> DEFINE R == {r \in Refs : Elsewhere(r)}
  <1>1. table' = ResolutionTable /\ defs' = defs /\ ops' = ops
    BY DEF StartRound, spec
  <1>2. ASSUME NEW refs \in Seq(Refs), \A r \in ToSet(refs) : Elsewhere(r) PROVE refs \in Seq(R)
    <2>1. \A k \in 1..Len(refs) : refs[k] \in R
      BY <1>2 DEF ToSet
    <2> HIDE DEF R
    <2> QED
      BY <2>1
  <1>3. \A k \in 1..Len(defs) : defs[k] \in Definitions
    BY DEF TypeInv
  <1>4. ops \in Seq(R) /\ \A k \in 1..Len(defs) : defs[k].refs \in Seq(R)
    BY <1>2, <1>3 DEF TypeInv, FilesInv, Definitions
  <1>5. ResolutionTable \in Seq([ref : R, root : Docs \cup {Root}])
    BY <1>4, TableType DEF TypeInv
  <1>6. \A k \in 1..Len(ResolutionTable) : ResolutionTable[k].ref \in R
    <2> DEFINE E == [ref : R, root : Docs \cup {Root}]
               t == ResolutionTable
    <2>1. \A k \in 1..Len(t) : t[k] \in E
      <3>1. t \in Seq(E)
        BY <1>5
      <3> HIDE DEF E, t
      <3> QED
        BY <3>1
    <2>2. \A e \in E : e.ref \in R
      <3> HIDE DEF R
      <3> QED
        OBVIOUS
    <2> HIDE DEF E, R
    <2> QED
      BY <2>1, <2>2
  <1> QED
    BY <1>1, <1>6 DEF FilesInv

LEMMA FilesNext ==
    NoFileIsRoot /\ Safe /\ FilesInv /\ [Next]_clientVars => FilesInv'
  <1> SUFFICES ASSUME NoFileIsRoot, Safe, FilesInv, [Next]_clientVars PROVE FilesInv'
    OBVIOUS
  <1>1. CASE UNCHANGED <<defs, ops, table>>
    BY <1>1 DEF FilesInv
  <1>2. CASE Finish
    BY <1>2, FilesFinish DEF Safe
  <1>3. CASE StartRound
    BY <1>3, FilesStart DEF Safe
  <1>4. CASE Examine
    <2>1. UNCHANGED <<defs, ops>> /\ i \in 1..Len(table) /\ table \in Seq(Entry)
      BY <1>4 DEF Examine, spec, Safe, TypeInv
    <2>2. CASE ExamineFile
      <3>1. table' = [table EXCEPT ![i].root = table[i].ref.doc]
        BY <2>2 DEF ExamineFile
      <3>2. \A k \in 1..Len(table) : table[k] \in Entry
        BY <2>1
      <3>3. Len(table') = Len(table) /\ \A k \in 1..Len(table) : table'[k].ref = table[k].ref
        BY <2>1, <3>1, <3>2 DEF Entry
      <3> QED
        BY <2>1, <3>3 DEF FilesInv
    <2> QED
      BY <1>1, <1>4, <2>1, <2>2 DEF Examine, ExamineRemote, ExamineSchema, ExamineInline
  <1>5. CASE DescriptionArrives
    <2>1. PICK s \in Specifications : Begin(s)
      BY <1>5 DEF DescriptionArrives
    <2>2. defs' = s.defs /\ ops' = s.ops /\ table' = table
      BY <2>1 DEF Begin, round
    <2>3. DOMAIN s.defs = 1..Len(s.defs)
      BY SpecificationsAssumption DEF Sources
    <2> QED
      BY <2>2, <2>3 DEF FilesInv, NoFileIsRoot
  <1>6. CASE ConverterCallsBack /\ Begin(Converted)
    <2>1. defs' = Converted.defs /\ ops' = Converted.ops /\ table' = table
      BY <1>6 DEF Begin, round
    <2>2. /\ Converted.defs \in Seq(Definitions) /\ Converted.ops \in Seq(Refs)
          /\ \A k \in DOMAIN Converted.defs : Converted.defs[k].refs = <<>>
          /\ \A r \in ToSet(Converted.ops) : r.form = "local"
      BY ConvertedType DEF Sources, Safe, ConverterInv
    <2>3. \A k \in 1..Len(Converted.defs) : ToSet(Converted.defs[k].refs) = {}
      BY <2>2 DEF ToSet
    <2>4. \A r \in ToSet(Converted.ops) : Elsewhere(r)
      BY <2>2 DEF Elsewhere
    <2> QED
      BY <2>1, <2>3, <2>4 DEF FilesInv
  <1> QED
    BY <1>1, <1>2, <1>3, <1>4, <1>5, <1>6 DEF Next, ClientStep, DescriptionFails, OldDescriptionArrives,
       ConverterCallsBack, ResolverCallsBack, ResolverNext, Dispatch,
       Answer, Respond, FetchFails, clientVars, resolverVars, spec, round

\* Each component of the measure is a number.
LEMMA LeftNumbers ==
    ASSUME Safe
    PROVE  /\ StageLeft \in Nat /\ Cardinality(awaited) \in Nat /\ MaxIteration - iteration \in Nat
           /\ PhaseLeft \in Nat /\ Cardinality(Files) \in Nat /\ Ahead \in Nat /\ Cardinality(inflight) \in Nat
           /\ IsFiniteSet(awaited) /\ IsFiniteSet(Files) /\ IsFiniteSet(inflight)
  <1>1. Len(table) \in Nat /\ Len(toResolve) \in Nat /\ i \in Nat \ {0} /\ iteration \in 0..MaxIteration
    BY DEF Safe, TypeInv
  <1>2. Files \subseteq 1..Len(table) /\ inflight \subseteq 1..Len(toResolve) /\ awaited \subseteq Apis
    BY DEF Files, Safe, RoundInv, ConverterInv, ConverterTypeOK
  <1>3. IsFiniteSet(awaited) /\ IsFiniteSet(Files) /\ IsFiniteSet(inflight)
    BY <1>1, <1>2, Counting, ApisAssumption, FS_Subset
  <1>4. Cardinality(awaited) \in Nat /\ Cardinality(Files) \in Nat /\ Cardinality(inflight) \in Nat
    BY <1>3, FS_CardinalityType
  <1>5. StageLeft \in Nat
    BY DEF StageLeft
  <1>6. PhaseLeft \in Nat
    BY DEF PhaseLeft
  <1>7. Ahead \in Nat
    BY <1>1 DEF Ahead
  <1> QED
    BY <1>1, <1>3, <1>4, <1>5, <1>6, <1>7 DEF MaxIteration

\* Lower, one component after the other.
LEMMA LowerIf ==
    ASSUME \/ StageLeft' < StageLeft
           \/ /\ StageLeft' = StageLeft
              /\ \/ Cardinality(awaited') < Cardinality(awaited)
                 \/ /\ awaited' = awaited
                    /\ \/ MaxIteration - iteration' < MaxIteration - iteration
                       \/ /\ iteration' = iteration
                          /\ \/ PhaseLeft' < PhaseLeft
                             \/ /\ PhaseLeft' = PhaseLeft
                                /\ \/ Cardinality(Files') < Cardinality(Files)
                                   \/ /\ Files' = Files
                                      /\ \/ Ahead' < Ahead
                                         \/ /\ Ahead' = Ahead
                                            /\ Cardinality(inflight') < Cardinality(inflight)
    PROVE  Lower
  <1>1. /\ Left[1] = StageLeft /\ Left[2] = Cardinality(awaited) /\ Left[3] = MaxIteration - iteration
        /\ Left[4] = PhaseLeft /\ Left[5] = Cardinality(Files) /\ Left[6] = Ahead
        /\ Left[7] = Cardinality(inflight)
    BY DEF Left
  <1>2. /\ Left'[1] = StageLeft' /\ Left'[2] = Cardinality(awaited') /\ Left'[3] = MaxIteration - iteration'
        /\ Left'[4] = PhaseLeft' /\ Left'[5] = Cardinality(Files') /\ Left'[6] = Ahead'
        /\ Left'[7] = Cardinality(inflight')
    BY DEF Left, MaxIteration
  <1>3. ASSUME NEW k \in 1..7, Left'[k] < Left[k], \A j \in 1..(k - 1) : Left'[j] = Left[j]
        PROVE  Lower
    BY <1>3 DEF Lower
  <1>4. CASE StageLeft' < StageLeft
    <2>1. Left'[1] < Left[1] /\ 1..(1 - 1) = {}
      BY <1>1, <1>2, <1>4
    <2> QED
      BY <1>3, <2>1
  <1>5. CASE StageLeft' = StageLeft /\ Cardinality(awaited') < Cardinality(awaited)
    <2>1. Left'[2] < Left[2] /\ 1..(2 - 1) = {1} /\ Left'[1] = Left[1]
      BY <1>1, <1>2, <1>5
    <2> QED
      BY <1>3, <2>1
  <1>6. CASE StageLeft' = StageLeft /\ awaited' = awaited /\ MaxIteration - iteration' < MaxIteration - iteration
    <2>1. Left'[3] < Left[3] /\ 1..(3 - 1) = {1, 2} /\ Left'[1] = Left[1] /\ Left'[2] = Left[2]
      BY <1>1, <1>2, <1>6
    <2> QED
      BY <1>3, <2>1
  <1> DEFINE Rest == \/ PhaseLeft' < PhaseLeft
                     \/ /\ PhaseLeft' = PhaseLeft
                        /\ \/ Cardinality(Files') < Cardinality(Files)
                           \/ /\ Files' = Files
                              /\ \/ Ahead' < Ahead
                                 \/ /\ Ahead' = Ahead
                                    /\ Cardinality(inflight') < Cardinality(inflight)
  <1>7. CASE StageLeft' = StageLeft /\ awaited' = awaited /\ iteration' = iteration /\ Rest
    <2>1. Left'[1] = Left[1] /\ Left'[2] = Left[2] /\ Left'[3] = Left[3]
      BY <1>1, <1>2, <1>7
    <2>2. CASE PhaseLeft' < PhaseLeft
      <3>1. Left'[4] < Left[4] /\ 1..(4 - 1) = {1, 2, 3}
        BY <1>1, <1>2, <2>2
      <3> QED
        BY <1>3, <2>1, <3>1
    <2>3. CASE PhaseLeft' = PhaseLeft /\ Cardinality(Files') < Cardinality(Files)
      <3>1. Left'[5] < Left[5] /\ Left'[4] = Left[4] /\ 1..(5 - 1) = {1, 2, 3, 4}
        BY <1>1, <1>2, <2>3
      <3> QED
        BY <1>3, <2>1, <3>1
    <2>4. CASE PhaseLeft' = PhaseLeft /\ Files' = Files /\ Ahead' < Ahead
      <3>1. /\ Left'[6] < Left[6] /\ Left'[4] = Left[4] /\ Left'[5] = Left[5]
            /\ 1..(6 - 1) = {1, 2, 3, 4, 5}
        BY <1>1, <1>2, <2>4
      <3> QED
        BY <1>3, <2>1, <3>1
    <2>5. CASE /\ PhaseLeft' = PhaseLeft /\ Files' = Files /\ Ahead' = Ahead
               /\ Cardinality(inflight') < Cardinality(inflight)
      <3>1. /\ Left'[7] < Left[7] /\ Left'[4] = Left[4] /\ Left'[5] = Left[5] /\ Left'[6] = Left[6]
            /\ 1..(7 - 1) = {1, 2, 3, 4, 5, 6}
        BY <1>1, <1>2, <2>5
      <3> QED
        BY <1>3, <2>1, <3>1
    <2> QED
      BY <1>7, <2>2, <2>3, <2>4, <2>5
  <1> QED
    BY <1>4, <1>5, <1>6, <1>7

LEMMA ExamineLowers ==
    ASSUME Safe, FilesInv, Examine, UNCHANGED <<stage, awaited>>
    PROVE  Lower
  <1>1. /\ phase = "scan" /\ i \in 1..Len(table) /\ Len(table) \in Nat /\ table \in Seq(Entry)
        /\ UNCHANGED <<stage, awaited, iteration, phase>>
    BY DEF Examine, Safe, TypeInv
  <1>2. StageLeft' = StageLeft /\ PhaseLeft' = PhaseLeft
    BY <1>1 DEF StageLeft, PhaseLeft
  <1>3. CASE ExamineFile
    <2>1. /\ table' = [table EXCEPT ![i].root = table[i].ref.doc]
          /\ table[i].root = Root /\ table[i].ref.form = "file"
      BY <1>3 DEF ExamineFile
    <2>2. table[i].ref.doc # Root
      BY <1>1, <2>1 DEF FilesInv, Elsewhere
    <2>3. \A k \in 1..Len(table) : table[k] \in Entry
      BY <1>1
    <2>4. /\ Len(table') = Len(table) /\ table'[i].root # Root
          /\ \A k \in 1..Len(table) : table'[k].ref = table[k].ref
          /\ \A k \in 1..Len(table) : k # i => table'[k] = table[k]
      BY <1>1, <2>1, <2>2, <2>3 DEF Entry
    <2>5. Files' = Files \ {i} /\ i \in Files
      BY <1>1, <2>1, <2>4 DEF Files
    <2>6. Cardinality(Files') = Cardinality(Files) - 1 /\ Cardinality(Files) \in Nat
      BY <2>5, LeftNumbers, OneAnswered
    <2> QED
      BY <1>1, <1>2, <2>6, LowerIf
  <1>4. CASE ~ExamineFile
    <2>1. table' = table /\ i' = i + 1
      BY <1>4 DEF Examine, ExamineRemote, ExamineSchema, ExamineInline
    <2>2. Files' = Files
      BY <2>1 DEF Files
    <2>3. Ahead' < Ahead
      BY <1>1, <2>1 DEF Ahead
    <2> QED
      BY <1>1, <1>2, <2>2, <2>3, LowerIf
  <1> QED
    BY <1>3, <1>4

LEMMA AnswerLowers ==
    ASSUME Safe, Answer, UNCHANGED <<stage, awaited>>
    PROVE  Lower
  <1>1. PICK p \in inflight : Respond(p) \/ FetchFails(p)
    BY DEF Answer
  <1>2. /\ phase = "wait" /\ phase' \in {"wait", "finish"} /\ inflight' = inflight \ {p}
        /\ UNCHANGED <<stage, awaited, iteration, table, i>>
    BY <1>1 DEF Respond, FetchFails, Processed, round
  <1>3. Cardinality(inflight') = Cardinality(inflight) - 1 /\ Cardinality(inflight) \in Nat
    BY <1>1, <1>2, LeftNumbers, OneAnswered
  <1>4. StageLeft' = StageLeft /\ Files' = Files /\ Ahead' = Ahead
    BY <1>2 DEF StageLeft, Files, Ahead
  <1>5. PhaseLeft = 2 /\ (PhaseLeft' = 2 \/ PhaseLeft' = 1)
    BY <1>2 DEF PhaseLeft
  <1> QED
    BY <1>2, <1>3, <1>4, <1>5, LowerIf

LEMMA StepLowers == Safe /\ FilesInv /\ Next => Lower
  <1> SUFFICES ASSUME Safe, FilesInv, Next PROVE Lower
    OBVIOUS
  <1>1. CASE ClientStep
    <2>1. \/ stage = "fetching" /\ stage' \in {"converting", "resolving", "failed"}
          \/ stage = "converting" /\ stage' \in {"resolving", "thrown"}
          \/ stage = "resolving" /\ stage' = "built"
      BY <1>1 DEF ClientStep, DescriptionFails, DescriptionArrives, OldDescriptionArrives,
         ConverterCallsBack, ResolverCallsBack
    <2>2. StageLeft' < StageLeft
      BY <2>1 DEF StageLeft
    <2> QED
      BY <2>2, LowerIf
  <1>2. CASE ConverterNext /\ UNCHANGED stage
    <2>1. PICK a \in awaited : awaited' = awaited \ {a}
      BY <1>2 DEF ConverterNext, ApiAnswers, ApiFails
    <2>2. Cardinality(awaited') < Cardinality(awaited)
      BY <2>1, LeftNumbers, OneAnswered
    <2>3. StageLeft' = StageLeft
      BY <1>2 DEF StageLeft
    <2> QED
      BY <2>2, <2>3, LowerIf
  <1>3. CASE ResolverNext /\ UNCHANGED <<stage, awaited>>
    <2>1. StageLeft' = StageLeft
      BY <1>3 DEF StageLeft
    <2>2. CASE StartRound \/ Dispatch
      <3>1. /\ iteration' = iteration
            /\ \/ phase = "resolve" /\ phase' = "scan"
               \/ phase = "scan" /\ phase' \in {"finish", "wait"}
        BY <2>2 DEF StartRound, Dispatch
      <3>2. PhaseLeft' < PhaseLeft
        BY <3>1 DEF PhaseLeft
      <3> QED
        BY <1>3, <2>1, <3>1, <3>2, LowerIf
    <2>3. CASE Finish
      <3>1. \/ phase = "finish" /\ phase' = "done" /\ iteration' = iteration
            \/ phase' = "resolve" /\ iteration' = iteration + 1
        BY <2>3 DEF Finish
      <3>2. CASE phase' = "done" /\ phase = "finish" /\ iteration' = iteration
        <4>1. PhaseLeft' < PhaseLeft
          BY <3>2 DEF PhaseLeft
        <4> QED
          BY <1>3, <2>1, <3>2, <4>1, LowerIf
      <3>3. CASE iteration' = iteration + 1
        <4>1. MaxIteration - iteration' < MaxIteration - iteration
          BY <3>3 DEF Safe, TypeInv, MaxIteration
        <4> QED
          BY <1>3, <2>1, <4>1, LowerIf
      <3> QED
        BY <3>1, <3>2, <3>3
    <2> QED
      BY <1>3, <2>2, <2>3, ExamineLowers, AnswerLowers DEF ResolverNext
  <1> QED
    BY <1>1, <1>2, <1>3 DEF Next, converterVars

\* Whatever arrives and whatever fails, every step of a client leaves less to be
\* done, so that no run goes on for ever, if no relative file is the
\* specification itself.  (resolve's rounds and its loop variable, and the counts)
THEOREM RunsOut == NoFileIsRoot => (Spec => [][Numbers /\ Lower]_clientVars)
  <1> SUFFICES ASSUME NoFileIsRoot PROVE Spec => [][Numbers /\ Lower]_clientVars
    OBVIOUS
  <1>1. Init => Safe /\ FilesInv
    BY SafeInit DEF Init, ResolverInit, FilesInv, ToSet
  <1>2. Safe /\ FilesInv /\ [Next]_clientVars => (Safe /\ FilesInv)'
    BY SafeNext, FilesNext
  <1>3. Safe => Numbers
    BY LeftNumbers DEF Numbers, Left
  <1>4. Safe /\ FilesInv /\ [Next]_clientVars => [Numbers /\ Lower]_clientVars
    BY <1>3, StepLowers
  <1> QED
    BY <1>1, <1>2, <1>4, PTL DEF Spec

\* Where each stage of the client is in its work.
StagesInv ==
    /\ stage = "converting" => conversion # "idle"
    /\ stage = "resolving" => phase # "idle"

LEMMA StagesNext == ListingInv /\ StagesInv /\ [Next]_clientVars => StagesInv'
  <1> SUFFICES ASSUME ListingInv, StagesInv, [Next]_clientVars PROVE StagesInv'
    OBVIOUS
  <1>1. CASE ClientStep
    <2>1. CASE DescriptionArrives
      BY <2>1 DEF DescriptionArrives, Begin, StagesInv
    <2>2. CASE OldDescriptionArrives
      <3>1. PICK d \in OldDescriptions : Convert(d)
        BY <2>2 DEF OldDescriptionArrives
      <3>2. d.kind \in {"notASpec", "single", "listing"}
        BY OldDescriptionsAssumption DEF Descriptions
      <3>3. conversion' # "idle"
        BY <3>1, <3>2 DEF Convert
      <3> QED
        BY <2>2, <3>3 DEF OldDescriptionArrives, StagesInv
    <2>3. CASE ConverterCallsBack
      BY <2>3 DEF ConverterCallsBack, Begin, StagesInv
    <2> QED
      BY <1>1, <2>1, <2>2, <2>3 DEF ClientStep, DescriptionFails, ResolverCallsBack, StagesInv
  <1>2. CASE ConverterNext /\ UNCHANGED <<stage, resolverVars>>
    <2>1. PICK a \in Apis : ApiAnswers(a) \/ ApiFails(a)
      BY <1>2 DEF ConverterNext
    <2>2. Listing
      BY <2>1 DEF ApiAnswers, ApiFails
    <2>3. CASE ApiFails(a)
      BY <1>2, <2>3 DEF ApiFails, CountedOut, StagesInv, resolverVars
    <2>4. CASE ApiAnswers(a)
      <3>1. CASE UNCHANGED conversion \/ conversion' = CountedOut
        BY <1>2, <2>2, <3>1 DEF CountedOut, StagesInv, resolverVars, Listing
      <3>2. description.apis[a] \in {"complete", "unreadable", "noBasePath"}
        BY <2>4 DEF ApiAnswers, ListingInv, Qualities
      <3> QED
        BY <2>4, <3>1, <3>2 DEF ApiAnswers
    <2> QED
      BY <2>1, <2>3, <2>4
  <1>3. CASE ResolverNext /\ UNCHANGED <<stage, converterVars>>
    <2>1. phase' \in {"scan", "wait", "finish", "done", "resolve"} \/ UNCHANGED phase
      BY <1>3 DEF ResolverNext, StartRound, Examine, Dispatch, Answer, Respond, FetchFails,
         Processed, Finish
    <2> QED
      BY <1>3, <2>1 DEF StagesInv, converterVars
  <1>4. CASE UNCHANGED clientVars
    BY <1>4 DEF clientVars, resolverVars, converterVars, StagesInv
  <1> QED
    BY <1>1, <1>2, <1>3, <1>4 DEF Next

\* Until it is built, has failed or an exception stopped it, a client has a
\* request under way, or a turn of the event loop: it never waits for nothing.
THEOREM NeverForgotten == Spec => [](Stopped \/ Underway)
  <1>1. Init => Safe /\ StagesInv
    BY SafeInit DEF Init, StagesInv
  <1>2. Safe /\ StagesInv /\ [Next]_clientVars => (Safe /\ StagesInv)'
    BY SafeNext, StagesNext DEF Safe, ConverterInv
  <1>3. Safe /\ StagesInv => Stopped \/ Underway
    <2> SUFFICES ASSUME Safe, StagesInv, ~Stopped PROVE Underway
      OBVIOUS
    <2>1. stage \in {"fetching", "converting", "resolving"}
      <3>1. stage \in Stages
        BY DEF Safe, TypeInv
      <3> QED
        BY <3>1 DEF Stages, Stopped, Settled
    <2>2. CASE stage = "converting"
      <3>1. conversion \in {"idle", "listing", "thrown"} \cup Callback
        BY DEF Safe, ConverterInv, ConverterTypeOK
      <3>2. conversion # "idle" /\ conversion # "thrown" /\ threw = {}
        BY <2>2 DEF StagesInv, Stopped
      <3>3. Listing => awaited # {}
        BY <3>2 DEF Safe, ConverterInv, ListingInv
      <3>4. conversion \in Callback \/ (Listing /\ awaited # {})
        BY <3>1, <3>2, <3>3 DEF Listing
      <3> QED
        BY ONLY <2>2, <3>4, Zenon DEF Underway
    <2>3. CASE stage = "resolving"
      <3>1. phase \in Phases /\ phase # "idle" /\ (phase = "wait" => inflight # {})
        BY <2>3 DEF Safe, RoundInv, StagesInv
      <3>2. phase \in {"resolve", "scan", "finish", "done"} \/ (phase = "wait" /\ inflight # {})
        BY <3>1 DEF Phases
      <3> QED
        BY ONLY <2>3, <3>2, Zenon DEF Underway
    <2>4. CASE stage = "fetching"
      BY ONLY <2>4, Zenon DEF Underway
    <2> QED
      BY <2>1, <2>2, <2>3, <2>4
  <1> QED
    BY <1>1, <1>2, <1>3, PTL DEF Spec
-----------------------------------------------------------------------------
\* Whatever the number of references and the order of the answers, a round ends
\* with the last answer, and with no document under way.
THEOREM CallsSafe == Spec => []CallsCounted
  <1>1. RoundInv => CallsCounted
    BY DEF RoundInv, CallsCounted
  <1> QED
    BY <1>1, RoundInit, RoundNext, PTL DEF Spec

\* A listing that is waiting has declarations under way, or one has thrown.
THEOREM DeclarationsSafe == Spec => []DeclarationsCounted
  <1>1. ListingInv => DeclarationsCounted
    BY DEF ListingInv, DeclarationsCounted
  <1> QED
    BY <1>1, ListingInit, ListingNext, PTL DEF Spec

\* No listing is handed on without a declaration that was served and complete.
THEOREM ListingSafe == Spec => []ListingComplete
  <1>1. ListingInv => ListingComplete
    BY DEF ListingInv, ListingComplete, Accounted
  <1> QED
    BY <1>1, ListingInit, ListingNext, PTL DEF Spec
-----------------------------------------------------------------------------
(***************************************************************************)
(* When nothing is left to resolve                                         *)
(*                                                                         *)
(* The resolver gives up after seven rounds, passes references over after  *)
(* a relative file, and takes parts of two documents for one another that  *)
(* have the same name.  Without the last two, and when the parts that lead *)
(* to other parts do so seven deep at most, it has resolved everything.    *)
(***************************************************************************)
Given == AllRefs(source.defs, source.ops)
Away  == {r \in Given : Remote(r)}

Parts == Docs \X (Names \cup {Whole})

\* The parts P lead to parts of P alone, always to one of a lower level, and
\* have names of their own.
Layers(P, level) ==
    /\ \A p \in P : /\ p[2] \in DOMAIN Library[p[1]]
                    /\ \A x \in ToSet(Library[p[1]][p[2]]) :
                          /\ x.form \in {"local", "http"}
                          /\ <<x.of, x.name>> \in P /\ level[<<x.of, x.name>>] < level[p]
    /\ \A p, q \in P : p[2] = q[2] /\ p[2] # Whole => p = q

\* No relative files; nothing remote in the shared parameters and responses, and
\* no definition that refers to those along with other documents; and what is
\* referred to is in seven layers.
SevenDeep ==
    /\ \A r \in Given : r.form # "file"
    /\ \A n \in DOMAIN Library[Root] : \A r \in ToSet(Library[Root][n]) : r.form = "local"
    /\ Away # {} => \A k \in DOMAIN source.defs : \A r \in ToSet(source.defs[k].refs) :
                       r.as = "inline" => r.form # "local"
    /\ \E P \in SUBSET Parts : \E level \in [P -> 0..MaxIteration] :
          Layers(P, level) /\ \A r \in Away : <<r.doc, r.name>> \in P

\* SevenDeep and Resolvable, as far as the proof needs them.
Premises(P, level) ==
    /\ Layers(P, level)
    /\ \A r \in Given : r.form \in {"local", "http", "relative"}
    /\ \A r \in Given : r.form = "local" => ~Unresolved(r, source.defs)
    /\ \A r \in Away : <<r.doc, r.name>> \in P
    /\ \A n \in DOMAIN Library[Root] : \A r \in ToSet(Library[Root][n]) : r.form = "local"
    /\ Away # {} => /\ \A k \in DOMAIN source.defs : \A r \in ToSet(source.defs[k].refs) :
                          r.as = "inline" => r.form # "local"
                    /\ \A r \in ToSet(source.ops) : r.as = "inline" => r.form # "local"

\* r leads to a part that the rounds left can still resolve.
LeadsOn(r, P, level, left) ==
    /\ r.form \in {"http", "relative"} /\ r.doc = r.of
    /\ <<r.doc, r.name>> \in P /\ level[<<r.doc, r.name>>] <= left

\* r is resolved among the definitions ds, or will be; "alone" is a
\* specification that refers to no other document.
InPlay(r, ds, alone, P, level, left) ==
    \/ r.form = "local" /\ ~Unresolved(r, ds) /\ (r.as = "inline" => alone)
    \/ LeadsOn(r, P, level, left) /\ ~alone

\* The references the table lists.
Own == (UNION {ToSet(defs[k].refs) : k \in DOMAIN defs}) \cup ToSet(ops)

RoundsLeft == IF phase = "done" THEN 0 - 1 ELSE MaxIteration - iteration

\* A round lists every reference, asks for each of another document, and finds
\* what it names.
ListsAll ==
    /\ phase \in {"scan", "wait", "finish"} => table = ResolutionTable
    /\ phase = "scan" => \A k \in 1..Len(table) : (k < i /\ table[k].root # Root) =>
                            \E p \in 1..Len(toResolve) : toResolve[p] = k
    /\ phase \in {"wait", "finish"} =>
          /\ \A k \in 1..Len(table) : table[k].root # Root =>
                \E p \in 1..Len(toResolve) : toResolve[p] = k
          /\ \A p \in 1..Len(toResolve) : (p \notin inflight /\ ~Local(p) /\ Found(Item(p))) =>
                Key(Item(p).ref) \in DOMAIN resolvedRefs

Progress(P, level) == ListsAll /\ \A r \in Own : InPlay(r, defs, Away = {}, P, level, RoundsLeft)

LayersInv ==
    /\ source \in Sources /\ (phase = "idle" => iteration = 0)
    /\ \A n : DefinedIn(source.defs, n) => DefinedIn(defs, n)
    /\ \A P \in SUBSET Parts : \A level \in [P -> 0..MaxIteration] :
          (Premises(P, level) /\ failures = 0 /\ phase # "idle") => Progress(P, level)

\* What was given decides the premises.
LEMMA PremisesKept ==
    ASSUME source' = source, NEW P, NEW level
    PROVE  Premises(P, level)' = Premises(P, level) /\ Given' = Given /\ Away' = Away
  <1>1. Given' = Given
    BY DEF Given, AllRefs
  <1>2. Away' = Away
    BY <1>1 DEF Away, Remote
  <1> QED
    BY <1>1, <1>2 DEF Premises, Layers, Unresolved, DefinedIn

\* The same definitions, references and rounds left.
LEMMA OwnKept ==
    ASSUME UNCHANGED <<source, defs, ops>>, RoundsLeft' = RoundsLeft, NEW P, NEW level,
           \A r \in Own : InPlay(r, defs, Away = {}, P, level, RoundsLeft)
    PROVE  (\A r \in Own : InPlay(r, defs, Away = {}, P, level, RoundsLeft))'
  <1>1. Own' = Own
    BY DEF Own
  <1>2. Away' = Away
    BY PremisesKept
  <1> QED
    BY <1>1, <1>2

\* The elements of a list of entries.
LEMMA EntriesOf ==
    ASSUME NEW refs \in Seq(Refs)
    PROVE  /\ Entries(refs) \in Seq(Entry)
           /\ ToSet(Entries(refs)) = {[ref |-> r, root |-> RootOf(r)] : r \in ToSet(refs)}
  <1>1. ASSUME NEW k \in 1..Len(refs) PROVE [ref |-> refs[k], root |-> RootOf(refs[k])] \in Entry
    BY RefFields DEF RootOf, Entry
  <1>2. Entries(refs) \in Seq(Entry)
    BY <1>1 DEF Entries
  <1>3. ToSet(Entries(refs)) = {[ref |-> r, root |-> RootOf(r)] : r \in ToSet(refs)}
    BY DEF Entries, ToSet
  <1> QED
    BY <1>2, <1>3

\* The table lists the references of the specification, all of them.
LEMMA TableOf ==
    ASSUME TypeInv
    PROVE  /\ ResolutionTable \in Seq(Entry)
           /\ ToSet(ResolutionTable) = {[ref |-> r, root |-> RootOf(r)] : r \in Own}
  <1> DEFINE ss == [k \in 1..Len(defs) |-> Entries(defs[k].refs)]
             E(r) == [ref |-> r, root |-> RootOf(r)]
  <1>1. \A k \in 1..Len(defs) : defs[k].refs \in Seq(Refs)
    <2>1. \A k \in 1..Len(defs) : defs[k] \in Definitions
      BY DEF TypeInv
    <2> QED
      BY <2>1 DEF Definitions
  <1>2. ss \in Seq(Seq(Entry)) /\ Len(ss) = Len(defs) /\ \A k \in 1..Len(defs) : ss[k] = Entries(defs[k].refs)
    <2>1. \A k \in 1..Len(defs) : Entries(defs[k].refs) \in Seq(Entry)
      BY <1>1, EntriesOf
    <2>2. Len(defs) \in Nat
      BY DEF TypeInv
    <2> HIDE DEF Entry
    <2> QED
      BY <2>1, <2>2
  <1> HIDE DEF ss
  <1>3. /\ FlattenSeq(ss) \in Seq(Entry)
        /\ \A x : x \in ToSet(FlattenSeq(ss)) <=> \E k \in 1..Len(ss) : x \in ToSet(ss[k])
    BY <1>2, Flattened
  <1>4. /\ Entries(ops) \in Seq(Entry) /\ ToSet(Entries(ops)) = {E(r) : r \in ToSet(ops)}
    BY EntriesOf DEF TypeInv
  <1>5. /\ ResolutionTable \in Seq(Entry)
        /\ ToSet(ResolutionTable) = ToSet(FlattenSeq(ss)) \cup ToSet(Entries(ops))
    <2>1. ResolutionTable = FlattenSeq(ss) \o Entries(ops)
      BY DEF ResolutionTable, ss
    <2> HIDE DEF Entry
    <2> QED
      BY <1>3, <1>4, <2>1, ConcatSet
  <1>6. ASSUME NEW k \in 1..Len(defs) PROVE ToSet(ss[k]) = {E(r) : r \in ToSet(defs[k].refs)}
    BY <1>1, <1>2, EntriesOf
  <1> HIDE DEF E
  <1>7. ToSet(FlattenSeq(ss)) = {E(r) : r \in UNION {ToSet(defs[k].refs) : k \in 1..Len(defs)}}
    <2> DEFINE F == FlattenSeq(ss)
               G == UNION {ToSet(defs[k].refs) : k \in 1..Len(defs)}
    <2>1. ASSUME NEW x \in ToSet(F) PROVE \E r \in G : x = E(r)
      <3>1. PICK k \in 1..Len(defs) : x \in ToSet(ss[k])
        BY <1>2, <1>3, <2>1
      <3> QED
        BY <1>6, <3>1
    <2>2. ASSUME NEW r \in G PROVE E(r) \in ToSet(F)
      <3>1. PICK k \in 1..Len(defs) : r \in ToSet(defs[k].refs)
        BY <2>2
      <3>2. E(r) \in ToSet(ss[k])
        BY <1>6, <3>1
      <3> QED
        BY <1>2, <1>3, <3>2
    <2> HIDE DEF F, G
    <2>3. ToSet(F) = {E(r) : r \in G}
      BY <2>1, <2>2
    <2> QED
      BY <2>3 DEF F, G
  <1>8. DOMAIN defs = 1..Len(defs)
    BY DEF TypeInv
  <1> QED
    BY <1>4, <1>5, <1>7, <1>8 DEF Own, E

\* The end of a round of a specification that is seven deep.
AtFinish(P, level) ==
    /\ TypeInv /\ RoundInv /\ phase = "finish" /\ failures = 0
    /\ P \in SUBSET Parts /\ level \in [P -> 0..MaxIteration] /\ Premises(P, level)
    /\ Progress(P, level)
    /\ \A n : DefinedIn(source.defs, n) => DefinedIn(defs, n)

Left0 == MaxIteration - iteration

LEMMA TableEntries ==
    ASSUME NEW P, NEW level, AtFinish(P, level)
    PROVE  /\ \A k \in 1..Len(table) :
                 /\ table[k].ref \in Own /\ table[k].ref \in Refs
                 /\ table[k].root = RootOf(table[k].ref)
                 /\ InPlay(table[k].ref, defs, Away = {}, P, level, Left0)
           /\ \A r \in Own : \E k \in 1..Len(table) : table[k].ref = r /\ table[k].root = RootOf(r)
           /\ \A r \in Own : r \in Refs /\ InPlay(r, defs, Away = {}, P, level, Left0)
  <1>1. /\ table = ResolutionTable /\ table \in Seq(Entry)
        /\ ToSet(table) = {[ref |-> r, root |-> RootOf(r)] : r \in Own}
    BY TableOf DEF AtFinish, Progress, ListsAll
  <1>2. RoundsLeft = Left0
    BY DEF AtFinish, RoundsLeft, Left0
  <1>3. \A r \in Own : InPlay(r, defs, Away = {}, P, level, Left0)
    BY <1>2 DEF AtFinish, Progress
  <1>4. \A k \in 1..Len(table) : table[k] \in Entry /\ table[k] \in ToSet(table)
    BY <1>1 DEF ToSet
  <1>5. ASSUME NEW k \in 1..Len(table)
        PROVE  /\ table[k].ref \in Own /\ table[k].ref \in Refs
               /\ table[k].root = RootOf(table[k].ref)
    <2>1. PICK r \in Own : table[k] = [ref |-> r, root |-> RootOf(r)]
      BY <1>1, <1>4
    <2> QED
      BY <1>4, <2>1 DEF Entry
  <1>6. ASSUME NEW r \in Own
        PROVE  \E k \in 1..Len(table) : table[k].ref = r /\ table[k].root = RootOf(r)
    <2>1. [ref |-> r, root |-> RootOf(r)] \in ToSet(table)
      BY <1>1
    <2> QED
      BY <1>1, <2>1 DEF ToSet
  <1>7. \A r \in Own : r \in Refs
    BY <1>5, <1>6
  <1> QED
    BY <1>3, <1>5, <1>6, <1>7

\* A reference to another document has been resolved.
LEMMA RemoteResolved ==
    ASSUME NEW P, NEW level, AtFinish(P, level), NEW r \in Own, LeadsOn(r, P, level, Left0)
    PROVE  Resolved(r) /\ ~LocalResolve
  <1>1. PICK k \in 1..Len(table) : table[k].ref = r /\ table[k].root = RootOf(r)
    BY TableEntries
  <1>2. RootOf(r) = r.doc /\ r.doc \in Docs /\ r.name \in DOMAIN Library[r.doc] /\ r.form # "lost"
    BY DEF LeadsOn, RootOf, AtFinish, Premises, Layers, Parts
  <1>3. r.doc # Root
    BY <1>2, LibraryAssumption
  <1>4. PICK p \in 1..Len(toResolve) : toResolve[p] = k
    BY <1>1, <1>2, <1>3 DEF AtFinish, Progress, ListsAll
  <1>5. Item(p) = table[k] /\ ~Local(p) /\ Found(Item(p))
    BY <1>1, <1>2, <1>3, <1>4 DEF Item, Local, Found
  <1>6. p \notin inflight
    BY DEF AtFinish, RoundInv
  <1>7. Key(r) \in DOMAIN resolvedRefs
    BY <1>1, <1>4, <1>5, <1>6 DEF AtFinish, Progress, ListsAll
  <1> QED
    BY <1>5, <1>7 DEF Resolved, LocalResolve

\* References that share a key with one that leads on lead to the same part.
LEMMA SameHome ==
    ASSUME NEW P, NEW level, NEW left, NEW ds, NEW alone, P \in SUBSET Parts, Layers(P, level),
           NEW r \in Refs, NEW t \in Refs, Key(r) = Key(t),
           LeadsOn(r, P, level, left), InPlay(t, ds, alone, P, level, left)
    PROVE  t.as = r.as /\ t.doc = r.doc /\ t.name = r.name /\ t.form # "local" /\ t.form # "file"
  <1> DEFINE short(x) == x.as = "ref" /\ x.form = "http"
  <1>0. r.as = t.as /\ r.name = t.name
    BY KeyNames
  <1>1. /\ Key(r) = IF short(r) THEN <<r.as, "fragment", r.name>> ELSE <<r.as, r.form, r.doc, r.name>>
        /\ Key(t) = IF short(t) THEN <<t.as, "fragment", t.name>> ELSE <<t.as, t.form, t.doc, t.name>>
    BY DEF Key
  <1>2. \A a, b, c, d, e, f, g : <<a, b, c>> # <<d, e, f, g>>
    <2> SUFFICES ASSUME NEW a, NEW b, NEW c, NEW d, NEW e, NEW f, NEW g
                 PROVE  <<a, b, c>> # <<d, e, f, g>>
      OBVIOUS
    <2>1. Len(<<a, b, c>>) = 3 /\ Len(<<d, e, f, g>>) = 4
      OBVIOUS
    <2> QED
      BY <2>1
  <1>3. CASE short(r) /\ short(t)
    <2>1. LeadsOn(t, P, level, left)
      BY <1>3 DEF InPlay
    <2>2. <<r.doc, r.name>> \in P /\ <<t.doc, t.name>> \in P /\ r.name # Whole
      <3>1. r.name \in Names
        BY <1>3, RefFields
      <3> QED
        BY <2>1, <3>1, LibraryAssumption DEF LeadsOn
    <2>3. <<r.doc, r.name>> = <<t.doc, t.name>>
      BY <1>0, <2>2 DEF Layers
    <2> QED
      BY <1>0, <1>3, <2>3
  <1>4. CASE ~short(r) /\ ~short(t)
    <2>1. <<r.as, r.form, r.doc, r.name>> = <<t.as, t.form, t.doc, t.name>>
      BY <1>1, <1>4
    <2>2. r.form = t.form /\ r.doc = t.doc
      BY <2>1
    <2> QED
      BY <1>0, <2>2 DEF LeadsOn
  <1>5. CASE short(r) /\ ~short(t)
    BY <1>1, <1>2, <1>5
  <1>6. CASE ~short(r) /\ short(t)
    BY <1>1, <1>2, <1>6
  <1> QED
    BY <1>3, <1>4, <1>5, <1>6

\* What is taken over from a part leads on to a lower level.
LEMMA RetainedLeadsOn ==
    ASSUME NEW P, NEW level, P \in SUBSET Parts, level \in [P -> 0..MaxIteration], Layers(P, level),
           NEW p \in P, NEW x \in ToSet(Library[p[1]][p[2]]), NEW left \in Int, level[p] <= left
    PROVE  LeadsOn(Retain(x, p[1]), P, level, left - 1)
  <1> DEFINE d == p[1]
             n == p[2]
  <1>1. d \in Docs /\ n \in DOMAIN Library[d] /\ n \in Names \cup {Whole}
    BY DEF Layers, Parts
  <1>2. /\ x.form \in {"local", "http"}
        /\ <<x.of, x.name>> \in P /\ level[<<x.of, x.name>>] < level[p]
    BY DEF Layers
  <1>3. WrittenIn(x, d) /\ x \in Refs
    <2>1. Library[d][n] \in Seq(Refs)
      BY <1>1, LibraryAssumption
    <2>2. x \in Refs
      BY <2>1 DEF ToSet
    <2> QED
      BY <1>1, <2>2, LibraryRefs
  <1> DEFINE q == <<x.of, x.name>>
  <1>4. level[q] \in Int /\ level[p] \in Int /\ level[q] <= left - 1
    <2>1. level[q] \in Nat /\ level[p] \in Nat
      BY <1>2
    <2> QED
      BY <1>2, <2>1
  <1>5. CASE x.form = "local"
    <2> DEFINE y == [x EXCEPT !.form = "http", !.doc = d]
    <2>1. Retain(x, d) = y
      BY <1>5 DEF Retain
    <2>2. y.form = "http" /\ y.doc = d /\ y.of = x.of /\ y.name = x.name
      BY <1>3 DEF Refs
    <2>3. x.of = d
      BY <1>3, <1>5 DEF WrittenIn
    <2> HIDE DEF y
    <2> QED
      BY <1>2, <1>4, <2>1, <2>2, <2>3 DEF LeadsOn
  <1>6. CASE x.form = "http"
    <2>1. Retain(x, d) = x
      BY <1>6 DEF Retain
    <2>2. x.of = x.doc
      BY <1>3, <1>6 DEF WrittenIn
    <2> QED
      BY <1>2, <1>4, <1>6, <2>1, <2>2 DEF LeadsOn
  <1> QED
    BY <1>2, <1>5, <1>6

LEMMA RemoteContents ==
    ASSUME NEW P, NEW level, AtFinish(P, level), NEW r \in Own, LeadsOn(r, P, level, Left0),
           NEW x \in ToSet(Contents(r))
    PROVE  LeadsOn(x, P, level, Left0 - 1)
  <1> DEFINE known == resolvedRefs[Key(r)]
             I == {k \in 1..Len(table) : Key(table[k].ref) = Key(r)}
             first == table[SelectInSeq(table, LAMBDA e : Key(e.ref) = Key(r))]
             p == <<r.doc, r.name>>
  <1>1. Resolved(r) /\ ~LocalResolve /\ r \in Refs
    BY RemoteResolved, TableEntries
  <1>2. TypeInv /\ P \in SUBSET Parts /\ level \in [P -> 0..MaxIteration] /\ Layers(P, level)
    BY DEF AtFinish, Premises
  <1>3. ASSUME NEW k \in I PROVE table[k].root = r.doc /\ table[k].ref.name = r.name
    <2>1. /\ table[k].ref \in Refs /\ table[k].root = RootOf(table[k].ref)
          /\ InPlay(table[k].ref, defs, Away = {}, P, level, Left0)
      BY TableEntries
    <2>2. /\ table[k].ref.doc = r.doc /\ table[k].ref.name = r.name
          /\ table[k].ref.form # "file"
      BY <1>1, <1>2, <1>3, <2>1, SameHome
    <2> QED
      BY <2>1, <2>2 DEF RootOf
  <1>4. PICK k \in I : known = Resolution(table[k])
    BY <1>1, <1>2, ResolvedEntry
  <1>5. known.refs = Library[r.doc][r.name]
    BY <1>3, <1>4 DEF Resolution
  <1>6. first.root = r.doc
    <2>1. I # {} /\ I \subseteq Nat
      BY <1>4
    <2>2. Min(I) \in I
      BY <2>1, Least
    <2>3. SelectInSeq(table, LAMBDA e : Key(e.ref) = Key(r)) = Min(I)
      BY <2>1 DEF SelectInSeq
    <2> QED
      BY <1>3, <2>2, <2>3
  <1>7. Contents(r) = [j \in 1..Len(known.refs) |-> Retain(known.refs[j], first.root)]
    BY <1>1 DEF Contents
  <1> HIDE DEF known, first, I
  <1>8. p \in P /\ level[p] <= Left0 /\ p[1] = r.doc /\ p[2] = r.name
    BY DEF LeadsOn
  <1>9. Library[r.doc][r.name] \in Seq(Refs)
    BY <1>2, <1>8, LibraryAssumption DEF Layers, Parts
  <1>10. PICK j \in 1..Len(known.refs) : x = Retain(known.refs[j], r.doc)
    BY <1>6, <1>7 DEF ToSet
  <1>11. known.refs[j] \in ToSet(Library[r.doc][r.name])
    BY <1>5, <1>9, <1>10 DEF ToSet
  <1>12. Left0 \in Int
    BY <1>2 DEF Left0, TypeInv, MaxIteration
  <1> HIDE DEF p
  <1>13. LeadsOn(Retain(known.refs[j], p[1]), P, level, Left0 - 1)
    BY <1>2, <1>8, <1>11, <1>12, RetainedLeadsOn
  <1> QED
    BY <1>8, <1>10, <1>13

\* A schema of the specification itself is never resolved by finish: it is there.
LEMMA LocalSchemaStays ==
    ASSUME TypeInv, NEW P, NEW level, AtFinish(P, level), NEW r \in Refs,
           r.as = "ref", r.form = "local"
    PROVE  ~Resolved(r)
  <1> SUFFICES ASSUME Resolved(r) PROVE FALSE
    OBVIOUS
  <1>1. PICK k \in 1..Len(table) : Key(table[k].ref) = Key(r) /\ Found(table[k])
    BY ResolvedEntry
  <1> DEFINE t == table[k].ref
  <1>2. t \in Refs /\ table[k].root = RootOf(t)
    BY TableEntries
  <1>3. Key(r) = <<r.as, "local", r.doc, r.name>>
    BY DEF Key
  <1>4. Key(t) = <<t.as, t.form, t.doc, t.name>> \/ Key(t) = <<t.as, "fragment", t.name>>
    BY DEF Key
  <1>5. Key(t) # <<t.as, "fragment", t.name>>
    <2> SUFFICES ASSUME Key(t) = <<t.as, "fragment", t.name>> PROVE FALSE
      OBVIOUS
    <2>1. Len(<<t.as, "fragment", t.name>>) = 3 /\ Len(<<r.as, "local", r.doc, r.name>>) = 4
      OBVIOUS
    <2> QED
      BY <1>1, <1>3, <2>1
  <1>6. t.form = "local" /\ t.as = "ref"
    <2>1. <<t.as, t.form, t.doc, t.name>> = <<r.as, "local", r.doc, r.name>>
      BY <1>1, <1>3, <1>4, <1>5
    <2> QED
      BY <2>1
  <1>7. table[k].root = Root
    BY <1>2, <1>6, RefFields DEF RootOf
  <1> QED
    BY <1>1, <1>6, <1>7 DEF Found

\* What was resolved before a round is resolved after it.
LEMMA StillResolved ==
    ASSUME TypeInv, NEW r, r.form = "local", NEW ds, ~Unresolved(r, ds),
           \A n : DefinedIn(ds, n) => DefinedIn(defs, n)
    PROVE  ~Unresolved(r, RewrittenDefs)
  <1>1. \A n : DefinedIn(ds, n) => DefinedIn(RewrittenDefs, n)
    BY RewrittenDefsType
  <1> QED
    BY <1>1 DEF Unresolved

LEMMA RewrittenInPlay ==
    ASSUME NEW P, NEW level, AtFinish(P, level), NEW r \in Own, NEW x \in ToSet(Rewritten(r))
    PROVE  InPlay(x, RewrittenDefs, Away = {}, P, level, Left0 - 1)
  <1>1. TypeInv /\ r \in Refs /\ InPlay(r, defs, Away = {}, P, level, Left0)
    BY TableEntries DEF AtFinish
  <1>2. ASSUME LeadsOn(r, P, level, Left0), Away # {}
        PROVE  InPlay(x, RewrittenDefs, Away = {}, P, level, Left0 - 1)
    <2>1. Resolved(r)
      BY <1>2, RemoteResolved
    <2>2. CASE r.as = "ref"
      <3>1. Rewritten(r) = <<[r EXCEPT !.form = "local", !.doc = Root]>>
        BY <2>1, <2>2 DEF Rewritten
      <3>2. x = [r EXCEPT !.form = "local", !.doc = Root]
        BY <3>1 DEF ToSet
      <3>3. x.name = r.name /\ x.form = "local" /\ x.as = "ref"
        BY <1>1, <2>2, <3>2 DEF Refs
      <3>4. PICK k \in 1..Len(table) : table[k].ref = r
        BY TableEntries
      <3>5. k \in Adding(r.name)
        BY <1>1, <2>1, <2>2, <3>4 DEF Adding, TypeInv
      <3>6. DefinedIn(RewrittenDefs, x.name)
        BY <1>1, <3>3, <3>5, RewrittenDefsType
      <3> QED
        BY <3>3, <3>6 DEF InPlay, Unresolved
    <2>3. CASE r.as # "ref"
      <3>1. x \in ToSet(Contents(r))
        BY <2>1, <2>3 DEF Rewritten
      <3> QED
        BY <1>2, <3>1, RemoteContents DEF InPlay
    <2> QED
      BY <2>2, <2>3
  <1>3. ASSUME r.form = "local", ~Unresolved(r, defs), r.as = "ref"
        PROVE  InPlay(x, RewrittenDefs, Away = {}, P, level, Left0 - 1)
    <2>1. ~Resolved(r)
      BY <1>1, <1>3, LocalSchemaStays
    <2>2. x = r
      BY <2>1 DEF Rewritten, ToSet
    <2>3. ~Unresolved(r, RewrittenDefs)
      BY <1>1, <1>3, StillResolved
    <2> QED
      BY <1>3, <2>2, <2>3 DEF InPlay
  <1>4. ASSUME r.form = "local", ~Unresolved(r, defs), r.as # "ref", Away = {}
        PROVE  InPlay(x, RewrittenDefs, Away = {}, P, level, Left0 - 1)
    <2>1. CASE ~Resolved(r)
      <3>1. x = r
        BY <2>1 DEF Rewritten, ToSet
      <3>2. ~Unresolved(r, RewrittenDefs)
        BY <1>1, <1>4, StillResolved
      <3> QED
        BY <1>4, <3>1, <3>2 DEF InPlay
    <2>2. CASE Resolved(r)
      <3>1. \A k \in 1..Len(table) : table[k].root = Root
        <4> TAKE k \in 1..Len(table)
        <4>1. /\ table[k].ref \in Refs /\ table[k].root = RootOf(table[k].ref)
              /\ table[k].ref.form = "local"
          BY <1>4, TableEntries DEF InPlay
        <4> QED
          BY <4>1, RefFields DEF RootOf
      <3>2. LocalResolve
        <4>1. \A p \in 1..Len(toResolve) : toResolve[p] \in 1..Len(table)
          BY <1>1 DEF TypeInv
        <4> QED
          BY <3>1, <4>1 DEF LocalResolve, Local, Item
      <3>3. PICK k \in 1..Len(table) : /\ Found(table[k]) /\ resolvedRefs[Key(r)] = Resolution(table[k])
        BY <1>1, <2>2, ResolvedEntry
      <3>4. /\ Contents(r) = Library[Root][table[k].ref.name]
            /\ table[k].ref.name \in DOMAIN Library[Root]
        BY <3>1, <3>2, <3>3 DEF Contents, Resolution, Found
      <3>5. x \in ToSet(Library[Root][table[k].ref.name])
        BY <1>4, <2>2, <3>4 DEF Rewritten
      <3>6. x \in Given
        BY <3>4, <3>5, InSight DEF Given
      <3>7. x.form = "local" /\ ~Unresolved(x, source.defs)
        BY <3>4, <3>5, <3>6 DEF AtFinish, Premises
      <3>8. ~Unresolved(x, RewrittenDefs)
        BY <1>1, <3>7, StillResolved DEF AtFinish
      <3> QED
        BY <1>4, <3>7, <3>8 DEF InPlay
    <2> QED
      BY <2>1, <2>2
  <1>5. r.as \in {"ref", "inline"}
    BY <1>1, RefFields
  <1> QED
    BY <1>1, <1>2, <1>3, <1>4, <1>5 DEF InPlay

\* What is in a definition that was written over or added.
LEMMA DefinitionFrom ==
    ASSUME TypeInv, NEW n, Adding(n) # {}
    PROVE  \E k \in Adding(n) : Definition(n).refs = Contents(table[k].ref)
  <1>1. Adding(n) \subseteq 1..Len(table) /\ Len(table) \in Nat
    BY DEF Adding, TypeInv
  <1>2. Max(Adding(n)) \in Adding(n)
    BY <1>1, Greatest
  <1> QED
    BY <1>2 DEF Definition

LEMMA FinishInPlay ==
    ASSUME NEW P, NEW level, AtFinish(P, level)
    PROVE  /\ \A d \in ToSet(RewrittenDefs) : \A x \in ToSet(d.refs) :
                 InPlay(x, RewrittenDefs, Away = {}, P, level, Left0 - 1)
           /\ \A x \in ToSet(RewriteAll(ops)) :
                 InPlay(x, RewrittenDefs, Away = {}, P, level, Left0 - 1)
  <1>1. TypeInv /\ defs \in Seq(Definitions) /\ ops \in Seq(Refs)
    BY DEF AtFinish, TypeInv
  <1>2. ASSUME NEW refs \in Seq(Refs), ToSet(refs) \subseteq Own, NEW x \in ToSet(RewriteAll(refs))
        PROVE  InPlay(x, RewrittenDefs, Away = {}, P, level, Left0 - 1)
    <2>1. PICK r \in ToSet(refs) : x \in ToSet(Rewritten(r))
      BY <1>1, <1>2, RewriteAllType
    <2> QED
      BY <1>2, <2>1, RewrittenInPlay
  <1>3. ASSUME NEW d \in ToSet(RewrittenDefs), NEW x \in ToSet(d.refs)
        PROVE  InPlay(x, RewrittenDefs, Away = {}, P, level, Left0 - 1)
    <2>1. CASE \E n : Adding(n) # {} /\ d = Definition(n)
      <3>1. PICK n, k : k \in Adding(n) /\ d.refs = Contents(table[k].ref)
        BY <1>1, <2>1, DefinitionFrom
      <3> DEFINE r == table[k].ref
      <3>2. /\ k \in 1..Len(table) /\ r.as = "ref" /\ Resolved(r)
        BY <1>1, <3>1 DEF Adding, TypeInv
      <3>3. r \in Own /\ r \in Refs /\ InPlay(r, defs, Away = {}, P, level, Left0)
        BY <3>2, TableEntries
      <3> HIDE DEF r
      <3>4. r.form # "local"
        BY <1>1, <3>2, <3>3, LocalSchemaStays
      <3>5. LeadsOn(r, P, level, Left0) /\ Away # {}
        BY <3>3, <3>4 DEF InPlay
      <3>6. x \in ToSet(Contents(r))
        BY <1>3, <3>1 DEF r
      <3> QED
        BY <3>3, <3>5, <3>6, RemoteContents DEF InPlay
    <2>2. CASE \E c \in ToSet(defs) : d = [c EXCEPT !.refs = RewriteAll(c.refs)]
      <3>1. PICK c \in ToSet(defs) : d = [c EXCEPT !.refs = RewriteAll(c.refs)]
        BY <2>2
      <3>2. PICK k \in 1..Len(defs) : c = defs[k] /\ c \in Definitions
        BY <1>1 DEF ToSet
      <3>3. d.refs = RewriteAll(c.refs) /\ c.refs \in Seq(Refs)
        BY <3>1, <3>2 DEF Definitions
      <3>4. ToSet(c.refs) \subseteq Own
        BY <1>1, <3>2 DEF Own
      <3> QED
        BY <1>2, <1>3, <3>3, <3>4
    <2> QED
      BY <1>1, <2>1, <2>2, RewrittenDefsType
  <1>4. ToSet(ops) \subseteq Own
    BY DEF Own
  <1> QED
    BY <1>1, <1>2, <1>3, <1>4

LEMMA LayersFinish == Safe /\ LayersInv /\ Finish => LayersInv'
  <1> SUFFICES ASSUME Safe, LayersInv, Finish PROVE LayersInv'
    OBVIOUS
  <1>1. /\ phase = "finish" /\ defs' = RewrittenDefs /\ ops' = RewriteAll(ops)
        /\ UNCHANGED <<source, failures>>
    BY DEF Finish, Rewrite
  <1>2. TypeInv /\ RoundInv
    BY DEF Safe
  <1>3. \A n : DefinedIn(source'.defs, n) => DefinedIn(defs', n)
    BY <1>1, <1>2, RewrittenDefsType DEF LayersInv
  <1>4. \A n : DefinedIn(source.defs, n)' => DefinedIn(defs, n)'
    BY <1>3 DEF DefinedIn
  <1>5. ASSUME NEW P \in SUBSET Parts, NEW level \in [P -> 0..MaxIteration],
               Premises(P, level)', failures' = 0
        PROVE  Progress(P, level)'
    <2>1. Premises(P, level) /\ Away' = Away
      BY <1>1, <1>5, PremisesKept
    <2>2. AtFinish(P, level)
      BY <1>1, <1>2, <1>5, <2>1 DEF LayersInv, AtFinish
    <2>3. ListsAll'
      <3>1. phase' \in {"done", "resolve"}
        BY DEF Finish
      <3> QED
        BY <3>1 DEF ListsAll
    <2>4. ASSUME NEW x \in Own' PROVE InPlay(x, defs', Away = {}, P, level, Left0 - 1)
      <3>1. \/ \E k \in DOMAIN defs' : x \in ToSet(defs'[k].refs)
            \/ x \in ToSet(ops')
        BY <2>4 DEF Own, ToSet
      <3>2. \A k \in DOMAIN defs' : defs'[k] \in ToSet(defs')
        BY DEF ToSet
      <3> QED
        BY <1>1, <2>2, <3>1, <3>2, FinishInPlay
    <2>5. ASSUME NEW x \in Own' PROVE InPlay(x, defs', Away' = {}, P, level, RoundsLeft')
      <3>1. InPlay(x, defs', Away = {}, P, level, Left0 - 1)
        BY <2>4, <2>5
      <3>2. iteration \in 0..MaxIteration /\ Left0 = MaxIteration - iteration
        BY <1>2 DEF TypeInv, Left0
      <3>3. CASE phase' = "resolve"
        <4>1. iteration' = iteration + 1
          BY <3>3 DEF Finish
        <4>2. RoundsLeft' = Left0 - 1
          BY <3>2, <3>3, <4>1 DEF RoundsLeft, MaxIteration
        <4> QED
          BY <2>1, <3>1, <4>2
      <3>4. CASE phase' = "done" /\ iteration > 5
        <4>1. RoundsLeft' = Left0 - 1
          BY <3>2, <3>4 DEF RoundsLeft, MaxIteration
        <4> QED
          BY <2>1, <3>1, <4>1
      <3>5. CASE phase' = "done" /\ ~(iteration > 5)
        <4>1. \A r \in AllRefs(defs', ops') : ~Unresolved(r, defs')
          BY <3>5 DEF Finish
        <4>2. x \in AllRefs(defs', ops')
          BY <2>5 DEF Own, AllRefs, ToSet
        <4>3. ~Unresolved(x, defs')
          BY <4>1, <4>2
        <4>4. x.form = "local"
          BY <4>3 DEF Unresolved
        <4> QED
          BY <2>1, <3>1, <4>3, <4>4 DEF InPlay, LeadsOn
      <3>6. phase' \in {"done", "resolve"}
        BY DEF Finish
      <3> QED
        BY <3>3, <3>4, <3>5, <3>6
    <2> QED
      BY <2>3, <2>5 DEF Progress
  <1>6. source' \in Sources /\ (phase' = "idle" => iteration' = 0)
    BY DEF Finish, LayersInv
  <1> QED
    BY <1>4, <1>5, <1>6 DEF LayersInv

\* A step within a round: the specification stays as it is.
LEMMA LayersRound ==
    ASSUME LayersInv, UNCHANGED <<source, defs, ops, iteration>>, phase # "idle", phase # "done",
           phase' \notin {"idle", "done"}, failures' = 0 => failures = 0,
           \A P \in SUBSET Parts : \A level \in [P -> 0..MaxIteration] :
              (Premises(P, level) /\ Progress(P, level) /\ failures' = 0) => ListsAll'
    PROVE  LayersInv'
  <1>1. \A n : DefinedIn(source.defs, n)' => DefinedIn(defs, n)'
    BY DEF LayersInv, DefinedIn
  <1>2. RoundsLeft' = RoundsLeft
    BY DEF RoundsLeft
  <1>3. ASSUME NEW P \in SUBSET Parts, NEW level \in [P -> 0..MaxIteration],
               Premises(P, level)', failures' = 0
        PROVE  Progress(P, level)'
    <2>1. Premises(P, level)
      BY <1>3, PremisesKept
    <2>2. Progress(P, level)
      BY <1>3, <2>1 DEF LayersInv
    <2>3. ListsAll'
      BY <1>3, <2>1, <2>2
    <2>4. \A r \in Own : InPlay(r, defs, Away = {}, P, level, RoundsLeft)
      BY <2>2 DEF Progress
    <2>5. (\A r \in Own : InPlay(r, defs, Away = {}, P, level, RoundsLeft))'
      BY <1>2, <2>4, OwnKept
    <2> QED
      BY <2>3, <2>5 DEF Progress
  <1> QED
    BY <1>1, <1>3 DEF LayersInv

LEMMA LayersStart == Safe /\ LayersInv /\ StartRound => LayersInv'
  <1> SUFFICES ASSUME Safe, LayersInv, StartRound PROVE LayersInv'
    OBVIOUS
  <1>1. /\ table' = ResolutionTable /\ i' = 1 /\ phase = "resolve" /\ phase' = "scan"
        /\ UNCHANGED <<source, defs, ops, iteration, failures>>
    BY DEF StartRound, spec
  <1>2. table' \in Seq(Entry) /\ ResolutionTable' = ResolutionTable
    BY <1>1, TableOf DEF ResolutionTable, Safe
  <1>3. ListsAll'
    BY <1>1, <1>2 DEF ListsAll
  <1> QED
    BY <1>1, <1>3, LayersRound

LEMMA LayersExamine == Safe /\ LayersInv /\ Examine => LayersInv'
  <1> SUFFICES ASSUME Safe, LayersInv, Examine PROVE LayersInv'
    OBVIOUS
  <1>1. /\ phase = "scan" /\ phase' = "scan" /\ i \in 1..Len(table)
        /\ UNCHANGED <<source, defs, ops, iteration, failures>>
    BY DEF Examine, spec, Safe, TypeInv
  <1>2. TypeInv /\ toResolve \in Seq(1..Len(table))
    BY DEF Safe, TypeInv
  <1>3. ASSUME NEW P \in SUBSET Parts, NEW level \in [P -> 0..MaxIteration], Progress(P, level)
        PROVE  ListsAll'
    <2>1. table = ResolutionTable
      BY <1>1, <1>3 DEF Progress, ListsAll
    <2>2. PICK r \in Own : table[i] = [ref |-> r, root |-> RootOf(r)]
      <3>1. table[i] \in ToSet(ResolutionTable)
        BY <1>1, <2>1 DEF ToSet
      <3> QED
        BY <1>2, <3>1, TableOf
    <2>3. r.form # "file"
      BY <1>3 DEF Progress, InPlay, LeadsOn
    <2>4. ~ExamineFile
      BY <2>2, <2>3 DEF ExamineFile
    <2>5. /\ i' = i + 1 /\ table' = table
          /\ toResolve' \in {toResolve, Append(toResolve, i)}
          /\ table[i].root # Root => toResolve' = Append(toResolve, i)
      BY <2>4 DEF Examine, ExamineRemote, ExamineSchema, ExamineInline, Queue
    <2>6. ASSUME NEW k \in 1..Len(table), k < i + 1, table[k].root # Root
          PROVE  \E p \in 1..Len(toResolve') : toResolve'[p] = k
      <3>1. CASE k = i
        <4>1. toResolve' = Append(toResolve, i)
          BY <2>5, <2>6, <3>1
        <4> QED
          BY <1>2, <3>1, <4>1
      <3>2. CASE k # i
        <4>1. k < i
          BY <1>1, <2>6, <3>2
        <4>2. PICK p \in 1..Len(toResolve) : toResolve[p] = k
          BY <1>1, <1>3, <2>6, <4>1 DEF Progress, ListsAll
        <4>3. CASE toResolve' = toResolve
          BY <4>2, <4>3
        <4>4. CASE toResolve' = Append(toResolve, i)
          <5>1. p \in 1..Len(toResolve') /\ toResolve'[p] = toResolve[p]
            BY <1>1, <1>2, <4>2, <4>4
          <5> QED
            BY <4>2, <5>1
        <4> QED
          BY <2>5, <4>3, <4>4
      <3> QED
        BY <3>1, <3>2
    <2>7. ResolutionTable' = ResolutionTable
      BY <1>1 DEF ResolutionTable
    <2> QED
      BY <1>1, <2>1, <2>5, <2>6, <2>7 DEF ListsAll
  <1> QED
    BY <1>1, <1>3, LayersRound

LEMMA LayersDispatch == Safe /\ LayersInv /\ Dispatch => LayersInv'
  <1> SUFFICES ASSUME Safe, LayersInv, Dispatch PROVE LayersInv'
    OBVIOUS
  <1>1. /\ phase = "scan" /\ phase' \in {"wait", "finish"} /\ i > Len(table)
        /\ UNCHANGED <<source, defs, ops, table, toResolve, iteration, failures>>
        /\ inflight' = {p \in 1..Len(toResolve) : ~Local(p)}
    BY DEF Dispatch, spec
  <1>2. i \in Nat /\ Len(table) \in Nat
    BY DEF Safe, TypeInv
  <1>3. ASSUME NEW P \in SUBSET Parts, NEW level \in [P -> 0..MaxIteration], Progress(P, level)
        PROVE  ListsAll'
    <2>1. table = ResolutionTable
      BY <1>1, <1>3 DEF Progress, ListsAll
    <2>2. \A k \in 1..Len(table) : table[k].root # Root => \E p \in 1..Len(toResolve) : toResolve[p] = k
      <3>1. \A k \in 1..Len(table) : k < i
        BY <1>1, <1>2
      <3> QED
        BY <1>1, <1>3, <3>1 DEF Progress, ListsAll
    <2>3. ResolutionTable' = ResolutionTable
      BY <1>1 DEF ResolutionTable
    <2>4. \A p \in 1..Len(toResolve) : ~Local(p)' => p \in inflight'
      BY <1>1 DEF Local, Item
    <2> QED
      BY <1>1, <2>1, <2>2, <2>3, <2>4 DEF ListsAll
  <1> QED
    BY <1>1, <1>3, LayersRound

LEMMA LayersAnswer == Safe /\ LayersInv /\ Answer => LayersInv'
  <1> SUFFICES ASSUME Safe, LayersInv, NEW q \in inflight, Respond(q) \/ FetchFails(q) PROVE LayersInv'
    BY DEF Answer
  <1>1. /\ phase = "wait" /\ phase' \in {"wait", "finish"} /\ inflight' = inflight \ {q}
        /\ UNCHANGED <<source, defs, ops, table, toResolve, iteration>>
    BY DEF Respond, FetchFails, Processed, spec, round
  <1>2. \/ failures' = failures /\ Respond(q)
        \/ failures' = failures + 1
    BY DEF Respond, FetchFails
  <1>3. failures \in Nat
    BY DepthAssumption DEF Safe, TypeInv
  <1>4. ASSUME NEW P \in SUBSET Parts, NEW level \in [P -> 0..MaxIteration], Progress(P, level),
               failures' = 0
        PROVE  ListsAll'
    <2>1. resolvedRefs' = Resolve(resolvedRefs, Item(q))
      BY <1>2, <1>3, <1>4 DEF Respond
    <2>2. /\ DOMAIN resolvedRefs \subseteq DOMAIN resolvedRefs'
          /\ Found(Item(q)) => Key(Item(q).ref) \in DOMAIN resolvedRefs'
      BY <2>1 DEF Resolve
    <2>3. \A p : (Item(p))' = Item(p) /\ (Local(p)' <=> Local(p))
      BY <1>1 DEF Item, Local
    <2>4. table = ResolutionTable /\ ResolutionTable' = ResolutionTable
      BY <1>1, <1>4 DEF Progress, ListsAll, ResolutionTable
    <2>5. \A k \in 1..Len(table) : table[k].root # Root => \E p \in 1..Len(toResolve) : toResolve[p] = k
      BY <1>1, <1>4 DEF Progress, ListsAll
    <2>6. ASSUME NEW p \in 1..Len(toResolve), p \notin inflight', ~Local(p), Found(Item(p))
          PROVE  Key(Item(p).ref) \in DOMAIN resolvedRefs'
      <3>1. CASE p = q
        BY <2>2, <2>6, <3>1
      <3>2. CASE p # q
        BY <1>1, <1>4, <2>2, <2>6, <3>2 DEF Progress, ListsAll
      <3> QED
        BY <3>1, <3>2
    <2>7. \A p \in 1..Len(toResolve) : Found(Item(p))' <=> Found(Item(p))
      BY <2>3 DEF Found
    <2>8. \A p \in 1..Len(toResolve) : Key(Item(p).ref)' = Key(Item(p).ref)
      BY <2>3 DEF Key
    <2> QED
      BY <1>1, <2>3, <2>4, <2>5, <2>6, <2>7, <2>8 DEF ListsAll
  <1> QED
    BY <1>1, <1>2, <1>3, <1>4, LayersRound
\* Another step of the client, or of the converter.
LEMMA LayersUnchanged == LayersInv /\ UNCHANGED resolverVars => LayersInv'
  <1> SUFFICES ASSUME LayersInv, UNCHANGED resolverVars PROVE LayersInv'
    OBVIOUS
  <1>1. UNCHANGED <<source, defs, ops, table, i, toResolve, resolvedRefs, inflight, phase,
                    iteration, failures>>
    BY DEF resolverVars, spec, round, calls
  <1>2. \A n : DefinedIn(source.defs, n)' => DefinedIn(defs, n)'
    BY <1>1 DEF LayersInv, DefinedIn
  <1>3. RoundsLeft' = RoundsLeft /\ ResolutionTable' = ResolutionTable
    BY <1>1 DEF RoundsLeft, ResolutionTable
  <1>4. \A p : /\ (Item(p))' = Item(p) /\ (Local(p)' <=> Local(p))
               /\ (Found(Item(p))' <=> Found(Item(p))) /\ Key(Item(p).ref)' = Key(Item(p).ref)
    BY <1>1 DEF Item, Local, Found, Key
  <1>5. ListsAll => ListsAll'
    BY <1>1, <1>3, <1>4 DEF ListsAll
  <1>6. ASSUME NEW P \in SUBSET Parts, NEW level \in [P -> 0..MaxIteration],
               Premises(P, level)', failures' = 0, phase' # "idle"
        PROVE  Progress(P, level)'
    <2>1. Premises(P, level)
      BY <1>1, <1>6, PremisesKept
    <2>2. Progress(P, level)
      BY <1>1, <1>6, <2>1 DEF LayersInv
    <2>3. \A r \in Own : InPlay(r, defs, Away = {}, P, level, RoundsLeft)
      BY <2>2 DEF Progress
    <2>4. (\A r \in Own : InPlay(r, defs, Away = {}, P, level, RoundsLeft))'
      BY <1>1, <1>3, <2>3, OwnKept
    <2> QED
      BY <1>5, <2>2, <2>4 DEF Progress
  <1> QED
    BY <1>1, <1>2, <1>6 DEF LayersInv

LEMMA LayersInit == Init => LayersInv
  <1> SUFFICES ASSUME Init PROVE LayersInv
    OBVIOUS
  <1>1. source = Nothing /\ defs = <<>> /\ phase = "idle" /\ iteration = 0
    BY DEF Init, ResolverInit
  <1>2. Nothing \in Sources
    BY DEF Nothing, Sources
  <1>3. source.defs = defs
    BY <1>1 DEF Nothing
  <1> QED
    BY <1>1, <1>2, <1>3 DEF LayersInv

\* A specification as it is given.
LEMMA LayersBegin ==
    ASSUME LayersInv, NEW s \in Sources, Begin(s),
           \A k \in DOMAIN s.defs : \A r \in ToSet(s.defs[k].refs) : WrittenIn(r, Root),
           \A r \in ToSet(s.ops) : WrittenIn(r, Root)
    PROVE  LayersInv'
  <1>1. /\ phase = "idle" /\ phase' = "resolve" /\ iteration' = 0
        /\ source' = s /\ defs' = s.defs /\ ops' = s.ops
    BY DEF Begin, LayersInv
  <1>2. RoundsLeft' = MaxIteration
    BY <1>1 DEF RoundsLeft, MaxIteration
  <1>3. ASSUME NEW P \in SUBSET Parts, NEW level \in [P -> 0..MaxIteration],
               Premises(P, level)', NEW r \in Own'
        PROVE  InPlay(r, defs', Away' = {}, P, level, RoundsLeft')
    <2>1. \/ \E k \in DOMAIN s.defs : r \in ToSet(s.defs[k].refs)
          \/ r \in ToSet(s.ops)
      BY <1>1, <1>3 DEF Own
    <2>2. r \in Given'
      BY <1>1, <2>1, InSight DEF Given
    <2>3. WrittenIn(r, Root)
      BY <2>1
    <2>4. CASE r.form = "local"
      <3>1. ~Unresolved(r, defs')
        BY <1>1, <1>3, <2>2, <2>4 DEF Premises, Unresolved, DefinedIn
      <3>2. r.as = "inline" => Away' = {}
        BY <1>1, <1>3, <2>1, <2>4 DEF Premises
      <3> QED
        BY <2>4, <3>1, <3>2 DEF InPlay
    <2>5. CASE r.form # "local"
      <3>1. r.form \in {"http", "relative"}
        BY <1>3, <2>2, <2>5 DEF Premises
      <3>2. r \in Away'
        BY <2>2, <3>1 DEF Away, Remote
      <3>3. <<r.doc, r.name>> \in P /\ r.doc = r.of
        BY <1>3, <2>3, <2>5, <3>2 DEF Premises, WrittenIn
      <3>4. level[<<r.doc, r.name>>] <= MaxIteration
        BY <3>3 DEF MaxIteration
      <3> QED
        BY <1>2, <3>1, <3>2, <3>3, <3>4 DEF InPlay, LeadsOn
    <2> QED
      BY <2>4, <2>5
  <1>4. ListsAll'
    BY <1>1 DEF ListsAll
  <1>5. \A n : DefinedIn(source.defs, n)' => DefinedIn(defs, n)'
    BY <1>1 DEF DefinedIn
  <1>6. \A P \in SUBSET Parts : \A level \in [P -> 0..MaxIteration] :
           Premises(P, level)' => Progress(P, level)'
    BY <1>3, <1>4 DEF Progress
  <1> QED
    BY <1>1, <1>5, <1>6 DEF LayersInv

LEMMA LayersNext == Safe /\ LayersInv /\ [Next]_clientVars => LayersInv'
  <1> SUFFICES ASSUME Safe, LayersInv, [Next]_clientVars PROVE LayersInv'
    OBVIOUS
  <1>1. CASE UNCHANGED resolverVars
    BY <1>1, LayersUnchanged
  <1>2. CASE ResolverNext
    BY <1>2, LayersStart, LayersExamine, LayersDispatch, LayersAnswer, LayersFinish
       DEF ResolverNext
  <1>3. CASE DescriptionArrives
    <2>1. PICK s \in Specifications : Begin(s)
      BY <1>3 DEF DescriptionArrives
    <2>2. s \in Sources /\ \A r \in AllRefs(s.defs, s.ops) : WrittenIn(r, Root)
      BY SpecificationsAssumption
    <2>3. /\ \A k \in DOMAIN s.defs : ToSet(s.defs[k].refs) \subseteq AllRefs(s.defs, s.ops)
          /\ ToSet(s.ops) \subseteq AllRefs(s.defs, s.ops)
      BY InSight
    <2> QED
      BY <2>1, <2>2, <2>3, LayersBegin
  <1>4. CASE Begin(Converted)
    <2>1. /\ Converted \in Sources
          /\ \A k \in DOMAIN Converted.defs : \A r \in ToSet(Converted.defs[k].refs) : WrittenIn(r, Root)
          /\ \A r \in ToSet(Converted.ops) : WrittenIn(r, Root)
      BY ConvertedType DEF Safe, ConverterInv, WrittenIn, ToSet
    <2> QED
      BY <1>4, <2>1, LayersBegin
  <1> QED
    BY <1>1, <1>2, <1>3, <1>4 DEF Next, ClientStep, DescriptionFails, OldDescriptionArrives,
       ConverterCallsBack, ResolverCallsBack, clientVars

\* A reference of the specification is one that can be written.
LEMMA GivenRefs ==
    ASSUME source \in Sources, NEW r \in Given
    PROVE  r.form \in Forms
  <1>1. CASE \E k \in DOMAIN source.defs : r \in ToSet(source.defs[k].refs)
    <2>1. PICK k \in DOMAIN source.defs : r \in ToSet(source.defs[k].refs)
      BY <1>1
    <2>2. source.defs \in Seq(Definitions)
      BY DEF Sources
    <2>3. source.defs[k] \in Definitions
      BY <2>1, <2>2
    <2>4. source.defs[k].refs \in Seq(Refs)
      BY <2>3 DEF Definitions
    <2> QED
      BY <2>1, <2>4, RefFields DEF ToSet
  <1>2. CASE r \in ToSet(source.ops)
    <2>1. source.ops \in Seq(Refs)
      BY DEF Sources
    <2> QED
      BY <1>2, <2>1, RefFields DEF ToSet
  <1>3. CASE \E n \in DOMAIN Library[Root] : r \in ToSet(Library[Root][n])
    <2>1. PICK n \in DOMAIN Library[Root] : r \in ToSet(Library[Root][n])
      BY <1>3
    <2>2. Library[Root][n] \in Seq(Refs)
      BY LibraryAssumption
    <2> QED
      BY <2>1, <2>2, RefFields DEF ToSet
  <1> QED
    BY <1>1, <1>2, <1>3, InSight DEF Given

\* Whatever the order of the answers, once every document was served and the
\* callback runs nothing is left to resolve of a specification that can be
\* resolved and whose references lead seven parts deep at most: none was passed
\* over, none was written over by another part, and seven rounds were enough.
THEOREM NothingLeft == Spec => [](SevenDeep => LeftNothing)
  <1>1. Init => Safe /\ LayersInv
    BY SafeInit, LayersInit
  <1>2. Safe /\ LayersInv /\ [Next]_clientVars => (Safe /\ LayersInv)'
    BY SafeNext, LayersNext
  <1>3. Safe /\ LayersInv /\ SevenDeep => LeftNothing
    <2> SUFFICES ASSUME Safe, LayersInv, SevenDeep, phase = "done", failures = 0, Resolvable,
                        NEW r \in AllRefs(defs, ops)
                 PROVE  ~Unresolved(r, defs)
      BY DEF LeftNothing
    <2>0. PICK P \in SUBSET Parts : \E level \in [P -> 0..MaxIteration] :
             Layers(P, level) /\ \A x \in Away : <<x.doc, x.name>> \in P
      BY DEF SevenDeep
    <2>1. PICK level \in [P -> 0..MaxIteration] :
             Layers(P, level) /\ \A x \in Away : <<x.doc, x.name>> \in P
      BY <2>0
    <2>2. /\ \A x \in Given : x.form # "lost"
          /\ \A x \in Given : x.form = "local" => ~Unresolved(x, source.defs)
          /\ Away # {} => \A k \in DOMAIN source.ops :
                              source.ops[k].as = "inline" => source.ops[k].form # "local"
      BY DEF Resolvable, Given, Away
    <2>3. \A x \in Given : x.form \in {"local", "http", "relative"}
      <3>1. \A x \in Given : x.form \in Forms
        BY GivenRefs DEF LayersInv
      <3> QED
        BY <2>2, <3>1 DEF SevenDeep, Forms
    <2>4. Away # {} => \A x \in ToSet(source.ops) : x.as = "inline" => x.form # "local"
      BY <2>2 DEF ToSet, LayersInv, Sources
    <2>5. Premises(P, level)
      BY <2>1, <2>2, <2>3, <2>4 DEF Premises, SevenDeep
    <2>6. Progress(P, level)
      BY <2>1, <2>5 DEF LayersInv
    <2>7. CASE r \in Own
      <3>1. InPlay(r, defs, Away = {}, P, level, 0 - 1)
        BY <2>6, <2>7 DEF Progress, RoundsLeft
      <3>2. ~LeadsOn(r, P, level, 0 - 1)
        BY <2>1 DEF LeadsOn, MaxIteration
      <3> QED
        BY <3>1, <3>2 DEF InPlay
    <2>8. CASE r \notin Own
      <3>1. PICK n \in DOMAIN Library[Root] : r \in ToSet(Library[Root][n])
        BY <2>8, InSight DEF Own
      <3>2. r \in Given /\ r.form = "local"
        BY <3>1, InSight DEF Given, SevenDeep
      <3>3. ~Unresolved(r, source.defs)
        BY <2>2, <3>2
      <3> QED
        BY <3>3 DEF Unresolved, LayersInv
    <2> QED
      BY <2>7, <2>8
  <1> QED
    BY <1>1, <1>2, <1>3, PTL DEF Spec
=============================================================================
