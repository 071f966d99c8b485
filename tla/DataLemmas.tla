----------------------------- MODULE DataLemmas -----------------------------
(* Lemmas about numbers, finite sets and sequences that the proofs of several *)
(* components need.                                                           *)
EXTENDS Integers, Sequences, FiniteSetsExt, SequencesExt,
        FiniteSetTheorems, SequenceTheorems, WellFoundedInduction, TLAPS

(* A set of natural numbers has a least one.  This is how the proofs do       *)
(* induction: on the least number for which what is claimed would not hold.   *)
LEMMA LeastNumber ==
    ASSUME NEW S \in SUBSET Nat, S # {}
    PROVE  \E x \in S : \A y \in S : x <= y
<1> DEFINE R == OpToRel(<, Nat)
<1>1. \E x \in S : \A y \in S : <<y, x>> \notin R
  <2>1. IsWellFoundedOn(R, Nat)  BY NatLessThanWellFounded
  <2> HIDE DEF R
  <2> QED BY <2>1, WFMin
<1>2. \A x, y \in Nat : y < x => <<y, x>> \in R
  BY DEF OpToRel
<1> HIDE DEF R
<1>3. \A x, y \in Nat : ~(y < x) => x <= y
  OBVIOUS
<1> QED BY <1>1, <1>2, <1>3

(* The least of some natural numbers is one of them.                          *)
LEMMA MinIn == ASSUME NEW S \in SUBSET Nat, S # {} PROVE Min(S) \in S
  BY LeastNumber DEF Min

(* What holds of 0 and of the successor of whatever it holds of holds up to n. *)
LEMMA UpTo ==
    ASSUME NEW n \in Nat, NEW S, 0 \in S, \A k \in 0 .. n - 1 : k \in S => k + 1 \in S
    PROVE  0 .. n \subseteq S
<1> DEFINE Missed == (0 .. n) \ S
<1> SUFFICES ASSUME Missed # {} PROVE FALSE
  OBVIOUS
<1>1. PICK x \in Missed : \A y \in Missed : x <= y
  <2>1. Missed \in SUBSET Nat
    OBVIOUS
  <2> HIDE DEF Missed
  <2> QED BY <2>1, LeastNumber
<1>2. x # 0 /\ x \in Nat
  OBVIOUS
<1>3. x - 1 \in 0 .. n - 1 /\ ~(x <= x - 1)
  BY <1>2
<1>4. x - 1 \in S
  BY <1>1, <1>3
<1> QED BY <1>3, <1>4

(* As many elements as places, when no element has two.                       *)
LEMMA PlacesCounted ==
    ASSUME NEW n \in Nat, NEW s, \A j, k \in 1 .. n : s[j] = s[k] => j = k
    PROVE  /\ IsFiniteSet({s[k] : k \in 1 .. n})
           /\ Cardinality({s[k] : k \in 1 .. n}) = n
<1> DEFINE T == {s[k] : k \in 1 .. n}
           f == [k \in 1 .. n |-> s[k]]
<1>1. f \in Bijection(1 .. n, T)
  BY DEF Bijection, Injection, Surjection, IsInjective
<1>2. ExistsBijection(1 .. n, T)
  BY <1>1 DEF ExistsBijection
<1>3. IsFiniteSet(1 .. n) /\ Cardinality(1 .. n) = n
  BY FS_Interval
<1> HIDE DEF T
<1>4. IsFiniteSet(T) /\ Cardinality(T) = n
  BY <1>2, <1>3, FS_Bijection
<1> QED BY <1>4 DEF T

(* A set and its image under a mapping that tells its elements apart.         *)
LEMMA ImageCounted ==
    ASSUME NEW S, IsFiniteSet(S), NEW f, \A x, y \in S : f[x] = f[y] => x = y
    PROVE  /\ IsFiniteSet({f[x] : x \in S})
           /\ Cardinality({f[x] : x \in S}) = Cardinality(S)
<1> DEFINE T == {f[x] : x \in S}
           g == [x \in S |-> f[x]]
<1>1. g \in Bijection(S, T)
  BY DEF Bijection, Injection, Surjection, IsInjective
<1>2. ExistsBijection(S, T)
  BY <1>1 DEF ExistsBijection
<1> HIDE DEF T
<1>3. IsFiniteSet(T) /\ Cardinality(T) = Cardinality(S)
  BY <1>2, FS_Bijection
<1> QED BY <1>3 DEF T

(* Two sets that share no element.                                            *)
LEMMA DisjointCounted ==
    ASSUME NEW S, NEW T, IsFiniteSet(S), IsFiniteSet(T), S \cap T = {}
    PROVE  /\ IsFiniteSet(S \cup T)
           /\ Cardinality(S \cup T) = Cardinality(S) + Cardinality(T)
<1>1. /\ IsFiniteSet(S \cup T)
      /\ Cardinality(S \cup T) = Cardinality(S) + Cardinality(T) - Cardinality(S \cap T)
  BY FS_Union
<1>2. Cardinality(S \cap T) = 0 /\ Cardinality(S) \in Nat /\ Cardinality(T) \in Nat
  BY FS_EmptySet, FS_CardinalityType
<1> QED BY <1>1, <1>2

(* The elements of sequences put together and taken apart.                    *)
LEMMA SetOfConcat ==
    ASSUME NEW S, NEW s \in Seq(S), NEW t \in Seq(S)
    PROVE  s \o t \in Seq(S) /\ ToSet(s \o t) = ToSet(s) \cup ToSet(t)
<1>1. /\ s \o t \in Seq(S) /\ Len(s \o t) = Len(s) + Len(t)
      /\ \A k \in 1 .. Len(s) + Len(t) :
            (s \o t)[k] = IF k <= Len(s) THEN s[k] ELSE t[k - Len(s)]
  BY ConcatProperties
<1>2. /\ ToSet(s) = {s[k] : k \in 1 .. Len(s)} /\ ToSet(t) = {t[k] : k \in 1 .. Len(t)}
      /\ ToSet(s \o t) = {(s \o t)[k] : k \in 1 .. Len(s) + Len(t)}
  BY <1>1 DEF ToSet
<1>3. Len(s) \in Nat /\ Len(t) \in Nat
  BY LenProperties
<1>4. \A k \in 1 .. Len(s) : k \in 1 .. Len(s) + Len(t) /\ (s \o t)[k] = s[k]
  BY <1>1, <1>3
<1>5. \A k \in 1 .. Len(t) :
         k + Len(s) \in 1 .. Len(s) + Len(t) /\ (s \o t)[k + Len(s)] = t[k]
  <2> TAKE k \in 1 .. Len(t)
  <2>1. /\ k + Len(s) \in 1 .. Len(s) + Len(t) /\ ~(k + Len(s) <= Len(s))
        /\ (k + Len(s)) - Len(s) = k
    BY <1>3
  <2> QED BY <1>1, <2>1
<1>6. \A k \in 1 .. Len(s) + Len(t) : (s \o t)[k] \in ToSet(s) \cup ToSet(t)
  <2> TAKE k \in 1 .. Len(s) + Len(t)
  <2>1. CASE k <= Len(s)
    BY <1>1, <1>2, <1>3, <2>1
  <2>2. CASE ~(k <= Len(s))
    <3>1. k - Len(s) \in 1 .. Len(t)
      BY <1>3, <2>2
    <3> QED BY <1>1, <1>2, <2>2, <3>1
  <2> QED BY <2>1, <2>2
<1>7. ToSet(s) \subseteq ToSet(s \o t)
  BY <1>2, <1>4
<1>8. ToSet(t) \subseteq ToSet(s \o t)
  BY <1>2, <1>5
<1>9. ToSet(s \o t) \subseteq ToSet(s) \cup ToSet(t)
  BY <1>2, <1>6
<1> QED BY <1>1, <1>7, <1>8, <1>9

(* The elements of a sequence and of the one with x put at its end.           *)
LEMMA SetOfAppend ==
    ASSUME NEW S, NEW s \in Seq(S), NEW x \in S
    PROVE  Append(s, x) \in Seq(S) /\ ToSet(Append(s, x)) = ToSet(s) \cup {x}
<1> DEFINE last == <<x>>
<1>1. Append(s, x) = s \o last /\ last \in Seq(S)
  OBVIOUS
<1>2. ToSet(last) = {x}
  BY DEF ToSet
<1> HIDE DEF last
<1>3. s \o last \in Seq(S) /\ ToSet(s \o last) = ToSet(s) \cup ToSet(last)
  BY <1>1, SetOfConcat
<1> QED BY <1>1, <1>2, <1>3

(* A sequence that is not empty has the elements of its head and its tail.    *)
LEMMA SetOfTail ==
    ASSUME NEW S, NEW s \in Seq(S), s # <<>>
    PROVE  /\ Head(s) \in S /\ Tail(s) \in Seq(S)
           /\ ToSet(s) = {Head(s)} \cup ToSet(Tail(s))
<1> DEFINE first == <<Head(s)>>
           rest == Tail(s)
<1>1. Head(s) \in S /\ rest \in Seq(S)
  BY HeadTailProperties
<1>2. first \in Seq(S) /\ ToSet(first) = {Head(s)}
  BY <1>1 DEF ToSet
<1>3. s = first \o rest
  BY HeadTailProperties
<1> HIDE DEF first, rest
<1>4. ToSet(first \o rest) = ToSet(first) \cup ToSet(rest)
  BY <1>1, <1>2, SetOfConcat
<1>5. ToSet(s) = {Head(s)} \cup ToSet(rest)
  BY <1>2, <1>3, <1>4
<1> QED BY <1>1, <1>5 DEF rest

(* What SeqOf enumerates are sequences.                                       *)
LEMMA BoundedSeqs ==
    ASSUME NEW S, NEW n \in Nat, NEW s \in SeqOf(S, n)
    PROVE  s \in Seq(S)
BY DEF SeqOf


(* The greatest of some places is one of them.                                *)
LEMMA MaxIn ==
    ASSUME NEW n \in Nat, NEW S \in SUBSET (1 .. n), S # {}
    PROVE  Max(S) \in S /\ \A y \in S : Max(S) >= y
<1> DEFINE Above == {k \in Nat : \A y \in S : k >= y}
<1>1. n \in Above
  OBVIOUS
<1>2. PICK k \in Above : \A j \in Above : k <= j
  <2>1. Above \in SUBSET Nat /\ Above # {}
    BY <1>1
  <2> HIDE DEF Above
  <2> QED BY <2>1, LeastNumber
<1>3. k \in S
  <2> SUFFICES ASSUME k \notin S PROVE FALSE
    OBVIOUS
  <2>1. \A y \in S : k >= y /\ k # y /\ y \in Nat /\ y >= 1
    OBVIOUS
  <2>2. k \in Nat /\ k >= 1
    <3>1. PICK y \in S : TRUE
      OBVIOUS
    <3> QED BY <2>1, <3>1
  <2>3. k - 1 \in Above
    BY <2>1, <2>2
  <2> QED BY <1>2, <2>2, <2>3
<1>4. \A y \in S : k >= y
  OBVIOUS
<1> QED BY <1>3, <1>4 DEF Max

(* What the recursion of MapThenFoldSet, hence of FoldLeft, asks of a function *)
(* of the sets of places, and the steps of the fold it makes.                 *)
IsFold(g, n, base, step) ==
    \A s \in SUBSET (1 .. n) :
        g[s] = IF s = {} THEN base ELSE step[<<g[s \ {Max(s)}], Max(s)>>]

Follows(iter, n, V, base, step) ==
    /\ iter[{}] = base
    /\ \A s \in SUBSET (1 .. n) : s # {} /\ iter[s \ {Max(s)}] \in V =>
          iter[s] = step[<<iter[s \ {Max(s)}], Max(s)>>]

IsRun(run, iter, n, base, step) ==
    run[0] = base /\ run[n] = iter[1 .. n] /\ \A k \in 1 .. n : run[k] = step[<<run[k - 1], k>>]

(* There is a function that makes the steps of a fold, for every step         *)
(* function of the right type.                                                *)
LEMMA Folding ==
    ASSUME NEW n \in Nat, NEW V, NEW base \in V, NEW step \in [V \X (1 .. n) -> V]
    PROVE  \E g \in [SUBSET (1 .. n) -> V] : IsFold(g, n, base, step)
<1> DEFINE Next(g, s) == IF s = {} THEN base ELSE step[<<g[s \ {Max(s)}], Max(s)>>]
           Built == {m \in 0 .. n : \E g \in [SUBSET (1 .. m) -> V] :
                                      \A s \in SUBSET (1 .. m) : g[s] = Next(g, s)}
<1>1. 0 \in Built
  <2> DEFINE g == [s \in SUBSET (1 .. 0) |-> base]
  <2>1. g \in [SUBSET (1 .. 0) -> V] /\ \A s \in SUBSET (1 .. 0) : s = {} /\ g[s] = base
    OBVIOUS
  <2>2. \A s \in SUBSET (1 .. 0) : g[s] = Next(g, s)
    BY <2>1
  <2>3. 0 \in 0 .. n
    OBVIOUS
  <2> HIDE DEF g
  <2> QED BY <2>1, <2>2, <2>3
<1>2. ASSUME NEW m \in 0 .. n - 1, m \in Built PROVE m + 1 \in Built
  <2>1. PICK g \in [SUBSET (1 .. m) -> V] : \A s \in SUBSET (1 .. m) : g[s] = Next(g, s)
    BY <1>2
  <2>2. m \in Nat /\ m + 1 \in 1 .. n /\ m + 1 \in 0 .. n
    OBVIOUS
  <2> DEFINE h == [s \in SUBSET (1 .. m + 1) |->
                     IF m + 1 \in s THEN step[<<g[s \ {m + 1}], m + 1>>] ELSE g[s]]
  <2>3. ASSUME NEW s \in SUBSET (1 .. m + 1)
        PROVE  /\ m + 1 \in s => Max(s) = m + 1 /\ s \ {m + 1} \in SUBSET (1 .. m)
               /\ m + 1 \notin s => s \in SUBSET (1 .. m)
    <3>1. CASE m + 1 \in s
      <4>0. m + 1 \in Nat /\ s # {}
        BY <2>2, <3>1
      <4>1. Max(s) \in s /\ \A y \in s : Max(s) >= y
        BY <4>0, MaxIn
      <4> HIDE DEF Built
      <4>2. Max(s) = m + 1
        <5>1. Max(s) \in 1 .. m + 1 /\ Max(s) >= m + 1
          BY <3>1, <4>1
        <5> QED BY <2>2, <5>1
      <4>3. \A x \in s \ {m + 1} : x \in 1 .. m
        BY <2>2
      <4> QED BY <3>1, <4>2, <4>3
    <3>2. CASE m + 1 \notin s
      <4>1. \A x \in s : x \in 1 .. m
        BY <2>2, <3>2
      <4> QED BY <3>2, <4>1
    <3> QED BY <3>1, <3>2
  <2>4. h \in [SUBSET (1 .. m + 1) -> V]
    <3> SUFFICES ASSUME NEW s \in SUBSET (1 .. m + 1)
                 PROVE  (IF m + 1 \in s THEN step[<<g[s \ {m + 1}], m + 1>>] ELSE g[s]) \in V
      OBVIOUS
    <3>1. CASE m + 1 \in s
      <4>1. g[s \ {m + 1}] \in V
        BY <2>3, <3>1
      <4> QED BY <2>2, <3>1, <4>1
    <3>2. CASE m + 1 \notin s
      BY <2>3, <3>2
    <3> QED BY <3>1, <3>2
  <2>5. \A s \in SUBSET (1 .. m) : s \in SUBSET (1 .. m + 1) /\ h[s] = g[s]
    <3> TAKE s \in SUBSET (1 .. m)
    <3>1. s \in SUBSET (1 .. m + 1) /\ m + 1 \notin s
      BY <2>2
    <3> QED BY <3>1
  <2>6. ASSUME NEW s \in SUBSET (1 .. m + 1) PROVE h[s] = Next(h, s)
    <3>1. CASE m + 1 \in s
      <4>1. h[s] = step[<<g[s \ {m + 1}], m + 1>>]
        BY <3>1
      <4>2. h[s \ {m + 1}] = g[s \ {m + 1}] /\ Max(s) = m + 1
        BY <2>3, <2>5, <3>1
      <4> HIDE DEF h
      <4> QED BY <3>1, <4>1, <4>2
    <3>2. CASE m + 1 \notin s
      <4>1. s \in SUBSET (1 .. m) /\ s \ {Max(s)} \in SUBSET (1 .. m)
        BY <2>3, <3>2
      <4>2. h[s] = g[s] /\ h[s \ {Max(s)}] = g[s \ {Max(s)}]
        BY <2>5, <4>1
      <4>3. g[s] = Next(g, s)
        BY <2>1, <4>1
      <4> HIDE DEF h
      <4> QED BY <4>2, <4>3
    <3> QED BY <3>1, <3>2
  <2> HIDE DEF h
  <2> QED BY <2>2, <2>4, <2>6
<1>3. n \in Built
  <2> HIDE DEF Built
  <2>1. 0 .. n \subseteq Built
    BY <1>1, <1>2, UpTo
  <2> QED BY <2>1
<1> QED BY <1>3 DEF IsFold

(* The first k places, and what is left when the last of them is taken.       *)
LEMMA PrefixPlaces ==
    ASSUME NEW n \in Nat, NEW k \in 1 .. n
    PROVE  /\ 1 .. k \in SUBSET (1 .. n) /\ 1 .. k # {} /\ (1 .. k) \ {k} = 1 .. k - 1
           /\ Max(1 .. k) = k
<1>1. 1 .. k \in SUBSET (1 .. n) /\ 1 .. k # {} /\ k \in 1 .. k /\ (1 .. k) \ {k} = 1 .. k - 1
  OBVIOUS
<1>2. Max(1 .. k) \in 1 .. k /\ Max(1 .. k) >= k
  BY <1>1, MaxIn
<1> QED BY <1>1, <1>2

(* A fold that makes the right step whenever what came before has the right   *)
(* type is a run: the base, then one step for each place.                     *)
LEMMA FoldSteps ==
    ASSUME NEW n \in Nat, NEW V, NEW base \in V, NEW step \in [V \X (1 .. n) -> V], NEW iter,
           Follows(iter, n, V, base, step)
    PROVE  \E run \in [0 .. n -> V] : IsRun(run, iter, n, base, step)
<1> DEFINE Typed == {k \in 0 .. n : iter[1 .. k] \in V}
<1>1. iter[1 .. 0] = base
  <2>1. 1 .. 0 = {}
    OBVIOUS
  <2> QED BY <2>1 DEF Follows
<1>2. \A k \in 1 .. n : iter[1 .. k - 1] \in V => iter[1 .. k] = step[<<iter[1 .. k - 1], k>>]
  BY PrefixPlaces DEF Follows
<1>3. 0 .. n \subseteq Typed
  <2>1. 0 \in Typed
    BY <1>1
  <2>2. ASSUME NEW k \in 0 .. n - 1, k \in Typed PROVE k + 1 \in Typed
    <3>1. k + 1 \in 1 .. n /\ (k + 1) - 1 = k /\ k + 1 \in 0 .. n /\ iter[1 .. k] \in V
      BY <2>2
    <3>2. iter[1 .. k + 1] = step[<<iter[1 .. k], k + 1>>]
      BY <1>2, <3>1
    <3> QED BY <3>1, <3>2
  <2> HIDE DEF Typed
  <2> QED BY <2>1, <2>2, UpTo
<1> DEFINE run == [k \in 0 .. n |-> iter[1 .. k]]
<1>4. run \in [0 .. n -> V]
  BY <1>3
<1>5. run[0] = base /\ run[n] = iter[1 .. n]
  BY <1>1
<1>6. \A k \in 1 .. n : run[k] = step[<<run[k - 1], k>>]
  <2> TAKE k \in 1 .. n
  <2>1. k \in 0 .. n /\ k - 1 \in 0 .. n
    OBVIOUS
  <2>2. iter[1 .. k - 1] \in V
    BY <1>3, <2>1
  <2> QED BY <1>2, <2>1, <2>2
<1> HIDE DEF run
<1> QED BY <1>4, <1>5, <1>6 DEF IsRun

(* A set listed without repetition.                                           *)
LEMMA SetListed ==
    ASSUME NEW S, IsFiniteSet(S)
    PROVE  /\ SetToSeq(S) \in Seq(S) /\ ToSet(SetToSeq(S)) = S
           /\ \A j, k \in 1 .. Len(SetToSeq(S)) : SetToSeq(S)[j] = SetToSeq(S)[k] => j = k
<1> DEFINE n == Cardinality(S)
           listed == SetToSeq(S)
<1>1. n \in Nat /\ ExistsBijection(1 .. n, S)
  BY FS_CardinalityType
<1>2. PICK f : f \in Bijection(1 .. n, S)
  BY <1>1 DEF ExistsBijection
<1>3. f \in [1 .. n -> S] /\ IsInjective(f)
  BY <1>2 DEF Bijection, Injection, Surjection
<1>4. listed \in [1 .. n -> S] /\ IsInjective(listed)
  BY <1>3 DEF SetToSeq
<1> HIDE DEF listed
<1>5. listed \in Seq(S) /\ Len(listed) = n
  BY <1>1, <1>4
<1>6. listed \in Injection(1 .. n, S)
  BY <1>4 DEF Injection
<1>7. IsFiniteSet(1 .. n) /\ Cardinality(1 .. n) = n
  BY <1>1, FS_Interval
<1>8. listed \in Surjection(1 .. n, S)
  BY <1>6, <1>7, FS_Injection
<1>9. ToSet(listed) = S
  BY <1>4, <1>5, <1>8 DEF Surjection, ToSet
<1>10. \A j, k \in 1 .. Len(listed) : listed[j] = listed[k] => j = k
  BY <1>4, <1>5 DEF IsInjective
<1> QED BY <1>5, <1>9, <1>10 DEF listed

(* The places of a strict total order: the element that k - 1 others precede  *)
(* exists for each k, and these elements follow each other in the order.      *)
IsOrder(R, n) ==
    /\ \A i \in 1 .. n : <<i, i>> \notin R
    /\ \A i, j \in 1 .. n : i # j => <<i, j>> \in R \/ <<j, i>> \in R
    /\ \A i, j, k \in 1 .. n : <<i, j>> \in R /\ <<j, k>> \in R => <<i, k>> \in R

IsPlace(R, n, i, k) == Cardinality({j \in 1 .. n : <<j, i>> \in R}) = k - 1

(* place lists the places in the order R: all of them, each once.             *)
LEMMA PlacesOfOrder ==
    ASSUME NEW n \in Nat, NEW R, IsOrder(R, n), NEW place,
           \A k \in 1 .. n : (\E i \in 1 .. n : IsPlace(R, n, i, k)) =>
              place[k] \in 1 .. n /\ IsPlace(R, n, place[k], k)
    PROVE  /\ \A k \in 1 .. n : place[k] \in 1 .. n
           /\ \A i \in 1 .. n : \E k \in 1 .. n : place[k] = i
           /\ \A k, l \in 1 .. n : k < l => <<place[k], place[l]>> \in R
<1> DEFINE before(i) == {j \in 1 .. n : <<j, i>> \in R}
           count == [i \in 1 .. n |-> Cardinality(before(i)) + 1]
<1>1. IsFiniteSet(1 .. n) /\ Cardinality(1 .. n) = n
  BY FS_Interval
<1>2. ASSUME NEW i \in 1 .. n
      PROVE  IsFiniteSet(before(i)) /\ Cardinality(before(i)) \in Nat /\ Cardinality(before(i)) < n
  <2>1. before(i) \in SUBSET (1 .. n) /\ before(i) # 1 .. n
    BY DEF IsOrder
  <2> HIDE DEF before
  <2>2. /\ IsFiniteSet(before(i)) /\ Cardinality(before(i)) <= n
        /\ n = Cardinality(before(i)) => FALSE
    BY <1>1, <2>1, FS_Subset
  <2>3. Cardinality(before(i)) \in Nat
    BY <2>2, FS_CardinalityType
  <2> QED BY <2>2, <2>3
<1>3. ASSUME NEW i \in 1 .. n, NEW j \in 1 .. n, <<i, j>> \in R PROVE count[i] < count[j]
  <2>1. before(i) \in SUBSET before(j) /\ i \in before(j) /\ i \notin before(i)
    BY <1>3 DEF IsOrder
  <2>2. /\ IsFiniteSet(before(i)) /\ Cardinality(before(i)) \in Nat
        /\ IsFiniteSet(before(j)) /\ Cardinality(before(j)) \in Nat
    BY <1>2
  <2>3. count[i] = Cardinality(before(i)) + 1 /\ count[j] = Cardinality(before(j)) + 1
    OBVIOUS
  <2> HIDE DEF before, count
  <2>4. Cardinality(before(i)) <= Cardinality(before(j)) /\ before(i) # before(j)
    BY <2>1, <2>2, FS_Subset
  <2>5. Cardinality(before(j)) # Cardinality(before(i))
    BY <2>1, <2>2, <2>4, FS_Subset
  <2> QED BY <2>2, <2>3, <2>4, <2>5
<1>4. count \in [1 .. n -> 1 .. n]
  <2>1. \A i \in 1 .. n : Cardinality(before(i)) + 1 \in 1 .. n
    BY <1>2
  <2> HIDE DEF before
  <2> QED BY <2>1
<1>5. \A i, j \in 1 .. n : count[i] = count[j] => i = j
  <2> HIDE DEF count
  <2> SUFFICES ASSUME NEW i \in 1 .. n, NEW j \in 1 .. n, count[i] = count[j], i # j PROVE FALSE
    OBVIOUS
  <2>1. count[i] \in Int /\ count[j] \in Int
    BY <1>4
  <2>2. <<i, j>> \in R \/ <<j, i>> \in R
    BY DEF IsOrder
  <2>3. count[i] < count[j] \/ count[j] < count[i]
    BY <1>3, <2>2
  <2> QED BY <2>1, <2>3
<1>6. \A k \in 1 .. n : \E i \in 1 .. n : count[i] = k
  <2> HIDE DEF count
  <2>1. count \in Injection(1 .. n, 1 .. n)
    BY <1>4, <1>5 DEF Injection, IsInjective
  <2>2. count \in Surjection(1 .. n, 1 .. n)
    BY <1>1, <2>1, FS_Injection
  <2> QED BY <2>2 DEF Surjection
<1>7. \A k \in 1 .. n : place[k] \in 1 .. n /\ count[place[k]] = k
  <2> TAKE k \in 1 .. n
  <2>1. PICK i \in 1 .. n : count[i] = k
    BY <1>6
  <2>2. Cardinality(before(i)) = k - 1
    <3>1. count[i] = Cardinality(before(i)) + 1 /\ Cardinality(before(i)) \in Nat
      BY <1>2
    <3> HIDE DEF count, before
    <3> QED BY <2>1, <3>1
  <2>3. place[k] \in 1 .. n /\ Cardinality(before(place[k])) = k - 1
    BY <2>2 DEF IsPlace
  <2>4. count[place[k]] = Cardinality(before(place[k])) + 1
    BY <2>3
  <2> HIDE DEF count, before
  <2> QED BY <2>3, <2>4
<1> HIDE DEF count, before
<1> HIDE DEF IsOrder
<1>8. ASSUME NEW i \in 1 .. n PROVE \E k \in 1 .. n : place[k] = i
  <2>1. count[i] \in 1 .. n
    BY <1>4
  <2>2. place[count[i]] \in 1 .. n /\ count[place[count[i]]] = count[i]
    BY <1>7, <2>1
  <2>3. place[count[i]] = i
    BY <1>5, <2>2
  <2> QED BY <2>1, <2>3
<1>9. ASSUME NEW k \in 1 .. n, NEW l \in 1 .. n, k < l PROVE <<place[k], place[l]>> \in R
  <2>1. /\ place[k] \in 1 .. n /\ count[place[k]] = k
        /\ place[l] \in 1 .. n /\ count[place[l]] = l
    BY <1>7
  <2>2. place[k] # place[l]
    <3>1. count[place[k]] # count[place[l]]
      BY <1>9, <2>1
    <3> QED BY <3>1, Zenon
  <2>3. <<place[k], place[l]>> \in R \/ <<place[l], place[k]>> \in R
    BY <2>1, <2>2 DEF IsOrder
  <2>4. ASSUME <<place[l], place[k]>> \in R PROVE FALSE
    <3>1. count[place[l]] < count[place[k]]
      BY <1>3, <2>1, <2>4
    <3>2. l < k
      BY <2>1, <3>1
    <3> QED BY <1>9, <3>2
  <2> QED BY <2>3, <2>4
<1> QED BY <1>7, <1>8, <1>9

(* FlattenSeq puts one sequence after the other.                              *)
LEMMA FlattenRun ==
    ASSUME NEW S, NEW ss \in Seq(Seq(S))
    PROVE  \E run \in [0 .. Len(ss) -> Seq(S)] :
              /\ run[0] = <<>> /\ run[Len(ss)] = FlattenSeq(ss)
              /\ \A k \in 1 .. Len(ss) : run[k] = run[k - 1] \o ss[k]
<1> DEFINE n == Len(ss)
           V == Seq(S)
           base == <<>>
           step == [p \in V \X (1 .. n) |-> p[1] \o ss[p[2]]]
           Next(f) == [i \in 1 .. n |-> IF i = 1 THEN ss[i] ELSE f[i - 1] \o ss[i]]
           flatten == CHOOSE f : f = Next(f)
<1>1. n \in Nat /\ (\A k \in 1 .. n : ss[k] \in V) /\ base \in V /\ (\A s \in V : base \o s = s)
  OBVIOUS
<1>2. IF n = 0 THEN FlattenSeq(ss) = base ELSE FlattenSeq(ss) = flatten[n]
  BY DEF FlattenSeq
<1>a. \A a, b \in V : a \o b \in V
  OBVIOUS
<1> HIDE DEF n, V, base
<1>3. /\ step \in [V \X (1 .. n) -> V]
      /\ \A a \in V, k \in 1 .. n : step[<<a, k>>] = a \o ss[k]
  BY <1>1, <1>a
<1> HIDE DEF step
<1>4. flatten = Next(flatten)
  <2>1. PICK g \in [SUBSET (1 .. n) -> V] : IsFold(g, n, base, step)
    BY <1>1, <1>3, Folding
  <2> DEFINE f == [i \in 1 .. n |-> g[1 .. i]]
  <2>2. ASSUME NEW i \in 1 .. n PROVE g[1 .. i] = g[1 .. i - 1] \o ss[i] /\ g[1 .. i - 1] \in V
    <3>1. 1 .. i \in SUBSET (1 .. n) /\ 1 .. i # {} /\ (1 .. i) \ {i} = 1 .. i - 1 /\ Max(1 .. i) = i
      BY <1>1, PrefixPlaces
    <3>2. g[1 .. i] = step[<<g[1 .. i - 1], i>>]
      BY <2>1, <3>1 DEF IsFold
    <3>3. 1 .. i - 1 \in SUBSET (1 .. n)
      BY <3>1
    <3> QED BY <1>3, <3>2, <3>3
  <2>3. g[{}] = base
    BY <2>1 DEF IsFold
  <2>4. ASSUME NEW i \in 1 .. n
        PROVE  f[i] = IF i = 1 THEN ss[i] ELSE f[i - 1] \o ss[i]
    <3>1. f[i] = g[1 .. i - 1] \o ss[i]
      BY <2>2
    <3>2. CASE i = 1
      <4>1. 1 .. i - 1 = {}
        BY <3>2
      <4>2. g[1 .. i - 1] = base
        BY <2>3, <4>1
      <4> QED BY <1>1, <3>1, <3>2, <4>2
    <3>3. CASE i # 1
      <4>1. i - 1 \in 1 .. n
        BY <1>1, <3>3
      <4> QED BY <3>1, <3>3, <4>1
    <3> QED BY <3>2, <3>3
  <2>5. f = Next(f)
    <3>1. \A i \in 1 .. n : g[1 .. i] = IF i = 1 THEN ss[i] ELSE f[i - 1] \o ss[i]
      BY <2>4
    <3> HIDE DEF V
    <3> QED BY <3>1
  <2> HIDE DEF f
  <2> QED BY <2>5
<1> HIDE DEF flatten
<1> DEFINE Built(k) == IF k = 0 THEN base ELSE flatten[k]
<1>5. ASSUME NEW k \in 1 .. n PROVE Built(k - 1) \in V => Built(k) = Built(k - 1) \o ss[k]
  <2>1. flatten[k] = IF k = 1 THEN ss[k] ELSE flatten[k - 1] \o ss[k]
    BY <1>4
  <2>2. CASE k = 1
    BY <1>1, <2>1, <2>2
  <2>3. CASE k # 1
    <3>1. k # 0 /\ k - 1 # 0
      BY <1>1, <2>3
    <3>2. Built(k) = flatten[k] /\ Built(k - 1) = flatten[k - 1]
      BY <3>1
    <3> QED BY <2>1, <2>3, <3>2
  <2> QED BY <2>2, <2>3
<1>6. Built(0) = base
  OBVIOUS
<1>7. IF n = 0 THEN FlattenSeq(ss) = Built(0) ELSE FlattenSeq(ss) = Built(n)
  BY <1>1, <1>2
<1> HIDE DEF Built
<1> DEFINE Typed == {k \in 0 .. n : Built(k) \in V}
<1>8. 0 .. n \subseteq Typed
  <2>1. 0 \in Typed
    BY <1>1, <1>6
  <2>2. ASSUME NEW k \in 0 .. n - 1, k \in Typed PROVE k + 1 \in Typed
    <3>1. k + 1 \in 1 .. n /\ (k + 1) - 1 = k /\ k + 1 \in 0 .. n /\ Built(k) \in V
      BY <1>1, <2>2
    <3>2. Built(k + 1) = Built(k) \o ss[k + 1]
      BY <1>5, <3>1
    <3> QED BY <1>1, <1>a, <3>1, <3>2
  <2> HIDE DEF Typed
  <2> QED BY <1>1, <2>1, <2>2, UpTo
<1> DEFINE run == [k \in 0 .. n |-> Built(k)]
<1>9. run \in [0 .. n -> V] /\ run[0] = base /\ run[n] = FlattenSeq(ss)
  BY <1>1, <1>6, <1>7, <1>8
<1>10. \A k \in 1 .. n : run[k] = run[k - 1] \o ss[k]
  <2> TAKE k \in 1 .. n
  <2>1. k \in 0 .. n /\ k - 1 \in 0 .. n
    BY <1>1
  <2> QED BY <1>5, <1>8, <2>1
<1> HIDE DEF run
<1> QED BY <1>9, <1>10 DEF n, V, base

(* The elements of a flattened sequence are those of its parts.               *)
LEMMA SetOfFlatten ==
    ASSUME NEW S, NEW ss \in Seq(Seq(S))
    PROVE  /\ FlattenSeq(ss) \in Seq(S)
           /\ \A x : x \in ToSet(FlattenSeq(ss)) <=> \E k \in 1 .. Len(ss) : x \in ToSet(ss[k])
<1> DEFINE n == Len(ss)
<1>1. PICK run \in [0 .. n -> Seq(S)] :
         /\ run[0] = <<>> /\ run[n] = FlattenSeq(ss)
         /\ \A k \in 1 .. n : run[k] = run[k - 1] \o ss[k]
  BY FlattenRun
<1>2. n \in Nat /\ \A k \in 1 .. n : ss[k] \in Seq(S)
  OBVIOUS
<1>3. ToSet(run[0]) = {}
  BY <1>1 DEF ToSet
<1> DEFINE Right == {m \in 0 .. n : \A x : x \in ToSet(run[m]) <=> \E k \in 1 .. m : x \in ToSet(ss[k])}
<1> HIDE DEF n
<1>4. 0 .. n \subseteq Right
  <2>1. 0 \in Right
    BY <1>2, <1>3
  <2>2. ASSUME NEW m \in 0 .. n - 1, m \in Right PROVE m + 1 \in Right
    <3>1. m + 1 \in 1 .. n /\ (m + 1) - 1 = m /\ m + 1 \in 0 .. n /\ m \in 0 .. n
          /\ \A k \in 1 .. m + 1 : k \in 1 .. m \/ k = m + 1
      BY <1>2, <2>2
    <3>2. run[m + 1] = run[m] \o ss[m + 1]
      BY <1>1, <3>1
    <3>3. ToSet(run[m + 1]) = ToSet(run[m]) \cup ToSet(ss[m + 1])
      BY <1>1, <1>2, <3>1, <3>2, SetOfConcat
    <3>4. \A k \in 1 .. m : k \in 1 .. m + 1
      BY <3>1
    <3>5. \A x : x \in ToSet(run[m]) <=> \E k \in 1 .. m : x \in ToSet(ss[k])
      BY <2>2
    <3>6. m + 1 \in 1 .. m + 1
      BY <3>1
    <3>7. \A x : x \in ToSet(run[m + 1]) <=> \E k \in 1 .. m + 1 : x \in ToSet(ss[k])
      BY <3>1, <3>3, <3>4, <3>5, <3>6
    <3> QED BY <3>1, <3>7
  <2> HIDE DEF Right
  <2> QED BY <1>2, <2>1, <2>2, UpTo
<1>5. n \in 0 .. n
  BY <1>2
<1>6. FlattenSeq(ss) \in Seq(S)
  BY <1>1, <1>5
<1> QED BY <1>1, <1>4, <1>5, <1>6 DEF n
=============================================================================
