------------------------- MODULE SearchCommandProofs ------------------------
(* Theorems about ResultStream, SearchDrive and SearchCommand, the loop of the *)
(* one with the search of the other.                                           *)
(*                                                                             *)
(* The first part is about ResultStream and the algorithms of LinkMerge, for   *)
(* every number of sources, every sequence of rows they may find, every order  *)
(* in which they answer and every moment at which the run may end.  A fold is  *)
(* taken apart by a lemma of its own (MergeRowRun and so on): it is the last   *)
(* value of a run that starts with the base and makes one step for each        *)
(* element.  What each step keeps then holds of the fold, by induction on the  *)
(* length of the run (UpTo).                                                   *)
(*                                                                             *)
(* The second part is about the loop, for any links, channels, number of check *)
(* slots and events.  SearchDrive and SearchCommand drive the same loop with   *)
(* links of a set L and sources of a set S of their own; what the loop keeps   *)
(* is proved once, for any L and S.  Its invariant says where every scheduled  *)
(* link is (Slots, Places), what a verdict in `checked` rests on (Verdicts),   *)
(* that whatever the search has sent is either still in the channel or has     *)
(* been looked at (Received), and what is known once the answer is printed     *)
(* (Ending).                                                                   *)
EXTENDS SearchCommand, DataLemmas

(* Links of the answer, links of a row, the events about links, what has been  *)
(* announced so far, and that with the events of one round.                    *)
AnswerLink == [url : Url, pwd : Pwd, src : Source, time : Nat]
RowLink == [url : Url, pwd : Pwd, time : Nat]
LinkEvent == [kind : {"result", "update"}, link : AnswerLink]
Known == {k \in UNION {[D -> AnswerLink] : D \in SUBSET Url} : \A u \in DOMAIN k : k[u].url = u}
Told == [known : Known, sent : Seq(LinkEvent)]

(* A batch, batches of sources that differ, rows that differ in their key, and *)
(* the keys of rows.                                                           *)
Batch == Source \X Seq(Row)
OneEach(bs) == \A j, k \in DOMAIN bs : bs[j][1] = bs[k][1] => j = k
Distinct(rows) == \A j, k \in DOMAIN rows : rows[j].key = rows[k].key => j = k
Keys(rows) == {rows[k].key : k \in DOMAIN rows}

-----------------------------------------------------------------------------
(* The folds of the model, step by step.                                      *)
LEMMA MergeRowRun ==
    ASSUME NEW cs \in Seq(Row),
           \A a \in Seq(Row), c \in Row : MergeRow(a, c) \in Seq(Row)
    PROVE  \E run \in [0 .. Len(cs) -> Seq(Row)] :
              /\ run[0] = <<>> /\ run[Len(cs)] = FoldLeft(MergeRow, <<>>, cs)
              /\ \A k \in 1 .. Len(cs) : run[k] = MergeRow(run[k - 1], cs[k])
<1> DEFINE n == Len(cs)
           V == Seq(Row)
           base == <<>>
           step == [p \in V \X (1 .. n) |-> MergeRow(p[1], cs[p[2]])]
           Iter(f) == [s \in SUBSET (1 .. n) |->
                        IF s = {} THEN base ELSE LET x == Max(s) IN MergeRow(f[s \ {x}], cs[x])]
           iter == CHOOSE f : f = Iter(f)
<1>1. n \in Nat /\ DOMAIN cs = 1 .. n /\ (\A k \in 1 .. n : cs[k] \in Row) /\ base \in V
  OBVIOUS
<1>2. FoldLeft(MergeRow, <<>>, cs) = iter[1 .. n]
  BY <1>1 DEF FoldLeft, MapThenFoldSet
<1> HIDE DEF n, V, base
<1>3. /\ step \in [V \X (1 .. n) -> V]
      /\ \A a \in V, k \in 1 .. n : step[<<a, k>>] = MergeRow(a, cs[k])
  BY <1>1 DEF V
<1> HIDE DEF step
<1>4. \A s \in SUBSET (1 .. n) : s # {} => Max(s) \in 1 .. n /\ s \ {Max(s)} \in SUBSET (1 .. n)
  BY <1>1, MaxIn
<1>5. iter = Iter(iter)
  <2>1. PICK g \in [SUBSET (1 .. n) -> V] : IsFold(g, n, base, step)
    BY <1>1, <1>3, Folding
  <2>2. g = Iter(g)
    BY <1>3, <1>4, <2>1 DEF IsFold
  <2> QED BY <2>2
<1> HIDE DEF iter
<1>6. Follows(iter, n, V, base, step)
  BY <1>3, <1>4, <1>5 DEF Follows
<1>7. PICK run \in [0 .. n -> V] : IsRun(run, iter, n, base, step)
  BY <1>1, <1>3, <1>6, FoldSteps
<1>8. \A k \in 1 .. n : run[k] = MergeRow(run[k - 1], cs[k])
  <2>1. \A k \in 1 .. n : k - 1 \in 0 .. n
    BY <1>1
  <2> QED BY <1>3, <1>7, <2>1 DEF IsRun
<1> QED BY <1>2, <1>7, <1>8 DEF n, V, base, IsRun

(* FoldLeft(FinishRow, ...), the loop of SearchContext::finish over the rows. *)
LEMMA FinishRowRun ==
    ASSUME NEW cs \in Seq(Row),
           \A a \in Seq(Row), c \in Row : FinishRow(a, c) \in Seq(Row)
    PROVE  \E run \in [0 .. Len(cs) -> Seq(Row)] :
              /\ run[0] = <<>> /\ run[Len(cs)] = FoldLeft(FinishRow, <<>>, cs)
              /\ \A k \in 1 .. Len(cs) : run[k] = FinishRow(run[k - 1], cs[k])
<1> DEFINE n == Len(cs)
           V == Seq(Row)
           base == <<>>
           step == [p \in V \X (1 .. n) |-> FinishRow(p[1], cs[p[2]])]
           Iter(f) == [s \in SUBSET (1 .. n) |->
                        IF s = {} THEN base ELSE LET x == Max(s) IN FinishRow(f[s \ {x}], cs[x])]
           iter == CHOOSE f : f = Iter(f)
<1>1. n \in Nat /\ DOMAIN cs = 1 .. n /\ (\A k \in 1 .. n : cs[k] \in Row) /\ base \in V
  OBVIOUS
<1>2. FoldLeft(FinishRow, <<>>, cs) = iter[1 .. n]
  BY <1>1 DEF FoldLeft, MapThenFoldSet
<1> HIDE DEF n, V, base
<1>3. /\ step \in [V \X (1 .. n) -> V]
      /\ \A a \in V, k \in 1 .. n : step[<<a, k>>] = FinishRow(a, cs[k])
  BY <1>1 DEF V
<1> HIDE DEF step
<1>4. \A s \in SUBSET (1 .. n) : s # {} => Max(s) \in 1 .. n /\ s \ {Max(s)} \in SUBSET (1 .. n)
  BY <1>1, MaxIn
<1>5. iter = Iter(iter)
  <2>1. PICK g \in [SUBSET (1 .. n) -> V] : IsFold(g, n, base, step)
    BY <1>1, <1>3, Folding
  <2>2. g = Iter(g)
    BY <1>3, <1>4, <2>1 DEF IsFold
  <2> QED BY <2>2
<1> HIDE DEF iter
<1>6. Follows(iter, n, V, base, step)
  BY <1>3, <1>4, <1>5 DEF Follows
<1>7. PICK run \in [0 .. n -> V] : IsRun(run, iter, n, base, step)
  BY <1>1, <1>3, <1>6, FoldSteps
<1>8. \A k \in 1 .. n : run[k] = FinishRow(run[k - 1], cs[k])
  <2>1. \A k \in 1 .. n : k - 1 \in 0 .. n
    BY <1>1
  <2> QED BY <1>3, <1>7, <2>1 DEF IsRun
<1> QED BY <1>2, <1>7, <1>8 DEF n, V, base, IsRun

(* FoldLeft(MergeLink, ...), the loop of merge_links.                         *)
LEMMA MergeLinkRun ==
    ASSUME NEW cs \in Seq(AnswerLink),
           \A a \in Seq(AnswerLink), c \in AnswerLink : MergeLink(a, c) \in Seq(AnswerLink)
    PROVE  \E run \in [0 .. Len(cs) -> Seq(AnswerLink)] :
              /\ run[0] = <<>> /\ run[Len(cs)] = FoldLeft(MergeLink, <<>>, cs)
              /\ \A k \in 1 .. Len(cs) : run[k] = MergeLink(run[k - 1], cs[k])
<1> DEFINE n == Len(cs)
           V == Seq(AnswerLink)
           base == <<>>
           step == [p \in V \X (1 .. n) |-> MergeLink(p[1], cs[p[2]])]
           Iter(f) == [s \in SUBSET (1 .. n) |->
                        IF s = {} THEN base ELSE LET x == Max(s) IN MergeLink(f[s \ {x}], cs[x])]
           iter == CHOOSE f : f = Iter(f)
<1>1. n \in Nat /\ DOMAIN cs = 1 .. n /\ (\A k \in 1 .. n : cs[k] \in AnswerLink) /\ base \in V
  OBVIOUS
<1>2. FoldLeft(MergeLink, <<>>, cs) = iter[1 .. n]
  BY <1>1 DEF FoldLeft, MapThenFoldSet
<1> HIDE DEF n, V, base
<1>3. /\ step \in [V \X (1 .. n) -> V]
      /\ \A a \in V, k \in 1 .. n : step[<<a, k>>] = MergeLink(a, cs[k])
  BY <1>1 DEF V
<1> HIDE DEF step
<1>4. \A s \in SUBSET (1 .. n) : s # {} => Max(s) \in 1 .. n /\ s \ {Max(s)} \in SUBSET (1 .. n)
  BY <1>1, MaxIn
<1>5. iter = Iter(iter)
  <2>1. PICK g \in [SUBSET (1 .. n) -> V] : IsFold(g, n, base, step)
    BY <1>1, <1>3, Folding
  <2>2. g = Iter(g)
    BY <1>3, <1>4, <2>1 DEF IsFold
  <2> QED BY <2>2
<1> HIDE DEF iter
<1>6. Follows(iter, n, V, base, step)
  BY <1>3, <1>4, <1>5 DEF Follows
<1>7. PICK run \in [0 .. n -> V] : IsRun(run, iter, n, base, step)
  BY <1>1, <1>3, <1>6, FoldSteps
<1>8. \A k \in 1 .. n : run[k] = MergeLink(run[k - 1], cs[k])
  <2>1. \A k \in 1 .. n : k - 1 \in 0 .. n
    BY <1>1
  <2> QED BY <1>3, <1>7, <2>1 DEF IsRun
<1> QED BY <1>2, <1>7, <1>8 DEF n, V, base, IsRun

(* FoldLeft(RefreshLink, ...), the loop of SearchContext::finish over the     *)
(* links of a row.                                                            *)
LEMMA RefreshLinkRun ==
    ASSUME NEW cs \in Seq(RowLink), NEW base \in Seq(RowLink),
           \A a \in Seq(RowLink), c \in RowLink : RefreshLink(a, c) \in Seq(RowLink)
    PROVE  \E run \in [0 .. Len(cs) -> Seq(RowLink)] :
              /\ run[0] = base /\ run[Len(cs)] = FoldLeft(RefreshLink, base, cs)
              /\ \A k \in 1 .. Len(cs) : run[k] = RefreshLink(run[k - 1], cs[k])
<1> DEFINE n == Len(cs)
           V == Seq(RowLink)
           step == [p \in V \X (1 .. n) |-> RefreshLink(p[1], cs[p[2]])]
           Iter(f) == [s \in SUBSET (1 .. n) |->
                        IF s = {} THEN base ELSE LET x == Max(s) IN RefreshLink(f[s \ {x}], cs[x])]
           iter == CHOOSE f : f = Iter(f)
<1>1. n \in Nat /\ DOMAIN cs = 1 .. n /\ (\A k \in 1 .. n : cs[k] \in RowLink) /\ base \in V
  OBVIOUS
<1>2. FoldLeft(RefreshLink, base, cs) = iter[1 .. n]
  BY <1>1 DEF FoldLeft, MapThenFoldSet
<1> HIDE DEF n, V
<1>3. /\ step \in [V \X (1 .. n) -> V]
      /\ \A a \in V, k \in 1 .. n : step[<<a, k>>] = RefreshLink(a, cs[k])
  BY <1>1 DEF V
<1> HIDE DEF step
<1>4. \A s \in SUBSET (1 .. n) : s # {} => Max(s) \in 1 .. n /\ s \ {Max(s)} \in SUBSET (1 .. n)
  BY <1>1, MaxIn
<1>5. iter = Iter(iter)
  <2>1. PICK g \in [SUBSET (1 .. n) -> V] : IsFold(g, n, base, step)
    BY <1>1, <1>3, Folding
  <2>2. g = Iter(g)
    BY <1>3, <1>4, <2>1 DEF IsFold
  <2> QED BY <2>2
<1> HIDE DEF iter
<1>6. Follows(iter, n, V, base, step)
  BY <1>3, <1>4, <1>5 DEF Follows
<1>7. PICK run \in [0 .. n -> V] : IsRun(run, iter, n, base, step)
  BY <1>1, <1>3, <1>6, FoldSteps
<1>8. \A k \in 1 .. n : run[k] = RefreshLink(run[k - 1], cs[k])
  <2>1. \A k \in 1 .. n : k - 1 \in 0 .. n
    BY <1>1
  <2> QED BY <1>3, <1>7, <2>1 DEF IsRun
<1> QED BY <1>2, <1>7, <1>8 DEF n, V, IsRun

(* FoldLeft(Announce, ...), the loop that announces what was merged.          *)
LEMMA AnnounceRun ==
    ASSUME NEW cs \in Seq(AnswerLink), NEW base \in Told,
           \A a \in Told, c \in AnswerLink : Announce(a, c) \in Told
    PROVE  \E run \in [0 .. Len(cs) -> Told] :
              /\ run[0] = base /\ run[Len(cs)] = FoldLeft(Announce, base, cs)
              /\ \A k \in 1 .. Len(cs) : run[k] = Announce(run[k - 1], cs[k])
<1> DEFINE n == Len(cs)
           V == Told
           step == [p \in V \X (1 .. n) |-> Announce(p[1], cs[p[2]])]
           Iter(f) == [s \in SUBSET (1 .. n) |->
                        IF s = {} THEN base ELSE LET x == Max(s) IN Announce(f[s \ {x}], cs[x])]
           iter == CHOOSE f : f = Iter(f)
<1>1. n \in Nat /\ DOMAIN cs = 1 .. n /\ (\A k \in 1 .. n : cs[k] \in AnswerLink) /\ base \in V
  OBVIOUS
<1>2. FoldLeft(Announce, base, cs) = iter[1 .. n]
  BY <1>1 DEF FoldLeft, MapThenFoldSet
<1> HIDE DEF n, V
<1>3. /\ step \in [V \X (1 .. n) -> V]
      /\ \A a \in V, k \in 1 .. n : step[<<a, k>>] = Announce(a, cs[k])
  BY <1>1 DEF V
<1> HIDE DEF step
<1>4. \A s \in SUBSET (1 .. n) : s # {} => Max(s) \in 1 .. n /\ s \ {Max(s)} \in SUBSET (1 .. n)
  BY <1>1, MaxIn
<1>5. iter = Iter(iter)
  <2>1. PICK g \in [SUBSET (1 .. n) -> V] : IsFold(g, n, base, step)
    BY <1>1, <1>3, Folding
  <2>2. g = Iter(g)
    BY <1>3, <1>4, <2>1 DEF IsFold
  <2> QED BY <2>2
<1> HIDE DEF iter
<1>6. Follows(iter, n, V, base, step)
  BY <1>3, <1>4, <1>5 DEF Follows
<1>7. PICK run \in [0 .. n -> V] : IsRun(run, iter, n, base, step)
  BY <1>1, <1>3, <1>6, FoldSteps
<1>8. \A k \in 1 .. n : run[k] = Announce(run[k - 1], cs[k])
  <2>1. \A k \in 1 .. n : k - 1 \in 0 .. n
    BY <1>1
  <2> QED BY <1>3, <1>7, <2>1 DEF IsRun
<1> QED BY <1>2, <1>7, <1>8 DEF n, V, IsRun

-----------------------------------------------------------------------------
(* Rows: merging them by key and ranking them.                                *)
LEMMA DistinctConcat ==
    ASSUME NEW s \in Seq(Row), NEW t \in Seq(Row), Distinct(s), Distinct(t), Keys(s) \cap Keys(t) = {}
    PROVE  Distinct(s \o t) /\ Keys(s \o t) = Keys(s) \cup Keys(t)
<1> DEFINE m == Len(s)
           n == Len(t)
           c == s \o t
<1>1. /\ c \in Seq(Row) /\ Len(c) = m + n
      /\ \A k \in 1 .. m + n : c[k] = IF k <= m THEN s[k] ELSE t[k - m]
  BY ConcatProperties
<1>2. m \in Nat /\ n \in Nat /\ DOMAIN s = 1 .. m /\ DOMAIN t = 1 .. n
  OBVIOUS
<1>3. DOMAIN c = 1 .. m + n
  BY <1>1
<1> HIDE DEF m, n, c
<1>4. \A k \in 1 .. m + n : \/ k \in 1 .. m /\ c[k] = s[k]
                            \/ k - m \in 1 .. n /\ c[k] = t[k - m]
  <2> TAKE k \in 1 .. m + n
  <2>1. CASE k <= m
    BY <1>1, <1>2, <2>1
  <2>2. CASE ~(k <= m)
    <3>1. k - m \in 1 .. n
      BY <1>2, <2>2
    <3> QED BY <1>1, <2>2, <3>1
  <2> QED BY <2>1, <2>2
<1>5. ASSUME NEW j \in 1 .. m, NEW k \in 1 .. n PROVE s[j].key # t[k].key
  BY <1>2 DEF Keys
<1>6. ASSUME NEW j \in 1 .. m + n, NEW k \in 1 .. m + n, c[j].key = c[k].key PROVE j = k
  <2>1. CASE j \in 1 .. m /\ c[j] = s[j]
    <3>1. k \in 1 .. m /\ c[k] = s[k]
      BY <1>4, <1>5, <1>6, <2>1
    <3> QED BY <1>2, <1>6, <2>1, <3>1 DEF Distinct
  <2>2. CASE j - m \in 1 .. n /\ c[j] = t[j - m]
    <3>1. k - m \in 1 .. n /\ c[k] = t[k - m]
      <4>1. \A i \in 1 .. m : s[i].key # t[j - m].key
        BY <1>5, <2>2
      <4> QED BY <1>4, <1>6, <2>2, <4>1
    <3>2. t[j - m].key = t[k - m].key
      BY <1>6, <2>2, <3>1
    <3>3. j - m = k - m
      BY <1>2, <2>2, <3>1, <3>2 DEF Distinct
    <3> QED BY <1>2, <3>3
  <2> QED BY <1>4, <2>1, <2>2
<1>7. Keys(c) = Keys(s) \cup Keys(t)
  <2>1. \A k \in 1 .. m : k \in 1 .. m + n /\ c[k] = s[k]
    BY <1>1, <1>2
  <2>2. \A k \in 1 .. n : k + m \in 1 .. m + n /\ c[k + m] = t[k]
    <3> TAKE k \in 1 .. n
    <3>1. k + m \in 1 .. m + n /\ ~(k + m <= m) /\ (k + m) - m = k
      BY <1>2
    <3> QED BY <1>1, <3>1
  <2>3. Keys(s) \subseteq Keys(c)
    BY <1>2, <1>3, <2>1 DEF Keys
  <2>4. Keys(t) \subseteq Keys(c)
    BY <1>2, <1>3, <2>2 DEF Keys
  <2>5. Keys(c) \subseteq Keys(s) \cup Keys(t)
    BY <1>2, <1>3, <1>4 DEF Keys
  <2> QED BY <2>3, <2>4, <2>5
<1>8. Distinct(c)
  BY <1>3, <1>6 DEF Distinct
<1> QED BY <1>7, <1>8 DEF c

(* The same for any number of parts.                                          *)
LEMMA DistinctFlatten ==
    ASSUME NEW ss \in Seq(Seq(Row)),
           \A k \in DOMAIN ss : Distinct(ss[k]),
           \A j, k \in DOMAIN ss : j # k => Keys(ss[j]) \cap Keys(ss[k]) = {}
    PROVE  Distinct(FlattenSeq(ss))
<1> DEFINE n == Len(ss)
<1>1. PICK run \in [0 .. n -> Seq(Row)] :
         /\ run[0] = <<>> /\ run[n] = FlattenSeq(ss)
         /\ \A k \in 1 .. n : run[k] = run[k - 1] \o ss[k]
  BY FlattenRun
<1>2. n \in Nat /\ DOMAIN ss = 1 .. n /\ \A k \in 1 .. n : ss[k] \in Seq(Row)
  OBVIOUS
<1>3. Distinct(run[0]) /\ Keys(run[0]) = {}
  <2>1. DOMAIN run[0] = {}
    BY <1>1
  <2> QED BY <2>1 DEF Distinct, Keys
<1> DEFINE Right == {m \in 0 .. n : /\ Distinct(run[m])
                                    /\ \A x \in Keys(run[m]) : \E k \in 1 .. m : x \in Keys(ss[k])}
<1> HIDE DEF n
<1>4. 0 .. n \subseteq Right
  <2>1. 0 \in Right
    BY <1>2, <1>3
  <2>2. ASSUME NEW m \in 0 .. n - 1, m \in Right PROVE m + 1 \in Right
    <3>1. /\ m + 1 \in 1 .. n /\ (m + 1) - 1 = m /\ m + 1 \in 0 .. n /\ m \in 0 .. n
          /\ m + 1 \in 1 .. m + 1 /\ \A k \in 1 .. m : k \in 1 .. m + 1 /\ k \in 1 .. n /\ k # m + 1
      BY <1>2, <2>2
    <3>2. run[m + 1] = run[m] \o ss[m + 1]
      BY <1>1, <3>1
    <3>3. Distinct(run[m]) /\ \A x \in Keys(run[m]) : \E k \in 1 .. m : x \in Keys(ss[k])
      BY <2>2
    <3>4. Keys(run[m]) \cap Keys(ss[m + 1]) = {}
      <4> SUFFICES ASSUME NEW x \in Keys(run[m]) PROVE x \notin Keys(ss[m + 1])
        OBVIOUS
      <4>1. PICK k \in 1 .. m : x \in Keys(ss[k])
        BY <3>3
      <4> QED BY <1>2, <3>1, <4>1
    <3>5. Distinct(run[m + 1]) /\ Keys(run[m + 1]) = Keys(run[m]) \cup Keys(ss[m + 1])
      <4>1. run[m] \in Seq(Row) /\ ss[m + 1] \in Seq(Row) /\ Distinct(ss[m + 1])
        BY <1>1, <1>2, <3>1
      <4> QED BY <3>2, <3>3, <3>4, <4>1, DistinctConcat
    <3>6. \A x \in Keys(run[m + 1]) : \E k \in 1 .. m + 1 : x \in Keys(ss[k])
      BY <3>1, <3>3, <3>5
    <3> QED BY <3>1, <3>5, <3>6
  <2> HIDE DEF Right
  <2> QED BY <1>2, <2>1, <2>2, UpTo
<1>5. n \in 0 .. n
  BY <1>2
<1> QED BY <1>1, <1>4, <1>5

(* merge_search_results takes rows that all differ in their key as they are.  *)
LEMMA MergeRowTyped ==
    ASSUME NEW rows \in Seq(Row), NEW row \in Row
    PROVE  /\ MergeRow(rows, row) \in Seq(Row)
           /\ row.key \notin Keys(rows) => MergeRow(rows, row) = Append(rows, row)
<1> DEFINE same == {i \in 1 .. Len(rows) : rows[i].key = row.key}
           at == Find(rows, LAMBDA r : r.key = row.key)
<1>1. at = IF same # {} THEN Min(same) ELSE 0
  BY DEF Find, SelectInSeq
<1>2. same # {} => Min(same) \in same
  <2>1. same \in SUBSET Nat
    OBVIOUS
  <2> HIDE DEF same
  <2> QED BY <2>1, MinIn
<1>3. MergeRow(rows, row) = IF at = 0 THEN Append(rows, row)
                            ELSE IF row.full > rows[at].full THEN [rows EXCEPT ![at] = row] ELSE rows
  BY DEF MergeRow
<1>4. at # 0 => at \in 1 .. Len(rows)
  BY <1>1, <1>2
<1>5. row.key \notin Keys(rows) => at = 0
  <2>1. row.key \notin Keys(rows) => same = {}
    BY DEF Keys
  <2> HIDE DEF same
  <2> QED BY <1>1, <2>1
<1> HIDE DEF at, same
<1>6. Append(rows, row) \in Seq(Row)
  OBVIOUS
<1>7. at \in 1 .. Len(rows) => [rows EXCEPT ![at] = row] \in Seq(Row)
  OBVIOUS
<1> QED BY <1>3, <1>4, <1>5, <1>6, <1>7

(* merge_search_results gives rows, and gives back rows that all differ in    *)
(* their key.                                                                 *)
LEMMA MergeRowsTyped ==
    ASSUME NEW rows \in Seq(Row)
    PROVE  /\ FoldLeft(MergeRow, <<>>, rows) \in Seq(Row)
           /\ Distinct(rows) => FoldLeft(MergeRow, <<>>, rows) = rows
<1> DEFINE n == Len(rows)
<1>1. \A a \in Seq(Row), c \in Row : MergeRow(a, c) \in Seq(Row)
  BY MergeRowTyped
<1>2. PICK run \in [0 .. n -> Seq(Row)] :
         /\ run[0] = <<>> /\ run[n] = FoldLeft(MergeRow, <<>>, rows)
         /\ \A k \in 1 .. n : run[k] = MergeRow(run[k - 1], rows[k])
  BY <1>1, MergeRowRun
<1>3. n \in Nat /\ DOMAIN rows = 1 .. n /\ \A k \in 1 .. n : rows[k] \in Row
  OBVIOUS
<1>4. n \in 0 .. n
  BY <1>3
<1>5. ASSUME Distinct(rows) PROVE FoldLeft(MergeRow, <<>>, rows) = rows
  <2> DEFINE Kept == {m \in 0 .. n : Len(run[m]) = m /\ \A j \in 1 .. m : run[m][j] = rows[j]}
  <2> HIDE DEF n
  <2>1. 0 .. n \subseteq Kept
    <3>1. 0 \in Kept
      BY <1>2, <1>3
    <3>2. ASSUME NEW m \in 0 .. n - 1, m \in Kept PROVE m + 1 \in Kept
      <4>1. /\ m + 1 \in 1 .. n /\ (m + 1) - 1 = m /\ m + 1 \in 0 .. n /\ m \in 0 .. n /\ m \in Nat
            /\ \A j \in 1 .. m : j \in 1 .. n /\ j # m + 1
        BY <1>3, <3>2
      <4>2. Len(run[m]) = m /\ \A j \in 1 .. m : run[m][j] = rows[j]
        BY <3>2
      <4>3. rows[m + 1].key \notin Keys(run[m])
        <5>1. run[m] \in Seq(Row)
          BY <1>2, <4>1
        <5>2. DOMAIN run[m] = 1 .. m
          BY <4>2, <5>1
        <5>3. \A j \in 1 .. m : rows[j].key # rows[m + 1].key
          BY <1>3, <1>5, <4>1 DEF Distinct
        <5> QED BY <4>2, <5>2, <5>3 DEF Keys
      <4>4. run[m] \in Seq(Row) /\ rows[m + 1] \in Row
        BY <1>2, <1>3, <4>1
      <4>5. run[m + 1] = Append(run[m], rows[m + 1])
        <5>1. run[m + 1] = MergeRow(run[m], rows[m + 1])
          BY <1>2, <4>1
        <5> QED BY <4>3, <4>4, <5>1, MergeRowTyped
      <4>6. Len(run[m + 1]) = m + 1 /\ \A j \in 1 .. m + 1 : run[m + 1][j] = rows[j]
        <5>1. Len(run[m + 1]) = m + 1 /\ run[m + 1][m + 1] = rows[m + 1]
          BY <4>2, <4>4, <4>5
        <5>2. \A j \in 1 .. m : run[m + 1][j] = run[m][j]
          BY <4>2, <4>4, <4>5
        <5> QED BY <4>1, <4>2, <5>1, <5>2
      <4> QED BY <4>1, <4>6
    <3> HIDE DEF Kept
    <3> QED BY <1>3, <3>1, <3>2, UpTo
  <2>2. run[n] \in Seq(Row) /\ Len(run[n]) = n /\ \A j \in 1 .. n : run[n][j] = rows[j]
    BY <1>2, <1>4, <2>1
  <2>3. run[n] = rows
    BY <2>2 DEF n
  <2> QED BY <1>2, <2>3
<1> QED BY <1>2, <1>4, <1>5

(* The ranking is a permutation of the rows.                                  *)
LEMMA RankPermutes ==
    ASSUME NEW rows \in Seq(Row)
    PROVE  /\ Rank(rows) \in Seq(Row) /\ ToSet(Rank(rows)) = ToSet(rows)
           /\ Keys(Rank(rows)) = Keys(rows)
           /\ Distinct(rows) => Distinct(Rank(rows))
<1> DEFINE n == Len(rows)
           R == {p \in (1 .. n) \X (1 .. n) :
                   \/ rows[p[1]].score > rows[p[2]].score
                   \/ rows[p[1]].score = rows[p[2]].score /\ p[1] < p[2]}
           before(i) == {j \in 1 .. n : rows[j].score > rows[i].score
                                         \/ (rows[j].score = rows[i].score /\ j < i)}
           place == [k \in 1 .. n |-> CHOOSE i \in 1 .. n : Cardinality(before(i)) = k - 1]
<1>1. n \in Nat /\ DOMAIN rows = 1 .. n /\ \A k \in 1 .. n : rows[k] \in Row /\ rows[k].score \in Int
  <2>1. \A k \in 1 .. n : rows[k] \in Row
    OBVIOUS
  <2>2. \A r \in Row : r.score \in Int
    BY DEF Row
  <2> QED BY <2>1, <2>2
<1>2. Rank(rows) = [k \in 1 .. n |-> rows[CHOOSE i \in 1 .. n : Cardinality(before(i)) = k - 1]]
  BY <1>1 DEF Rank, Sorted
<1>3. \A i, j \in 1 .. n : <<i, j>> \in R <=> \/ rows[i].score > rows[j].score
                                              \/ rows[i].score = rows[j].score /\ i < j
  OBVIOUS
<1>4. \A i \in 1 .. n : before(i) = {j \in 1 .. n : <<j, i>> \in R}
  BY <1>3
<1> HIDE DEF before, R, n
<1>5. IsOrder(R, n)
  <2>1. \A i \in 1 .. n : <<i, i>> \notin R
    BY <1>1, <1>3
  <2>2. \A i, j \in 1 .. n : i # j => <<i, j>> \in R \/ <<j, i>> \in R
    BY <1>1, <1>3
  <2>3. \A i, j, k \in 1 .. n : <<i, j>> \in R /\ <<j, k>> \in R => <<i, k>> \in R
    BY <1>1, <1>3
  <2> QED BY <2>1, <2>2, <2>3 DEF IsOrder
<1>6. \A k \in 1 .. n : (\E i \in 1 .. n : IsPlace(R, n, i, k)) =>
                           place[k] \in 1 .. n /\ IsPlace(R, n, place[k], k)
  <2> TAKE k \in 1 .. n
  <2>1. \A i \in 1 .. n : IsPlace(R, n, i, k) <=> Cardinality(before(i)) = k - 1
    BY <1>4 DEF IsPlace
  <2>2. place[k] = CHOOSE i \in 1 .. n : Cardinality(before(i)) = k - 1
    OBVIOUS
  <2> HIDE DEF place
  <2> QED BY <2>1, <2>2
<1>7. \A k \in 1 .. n : Rank(rows)[k] = rows[place[k]]
  BY <1>2
<1>8. /\ \A k \in 1 .. n : place[k] \in 1 .. n
      /\ \A i \in 1 .. n : \E k \in 1 .. n : place[k] = i
      /\ \A k, l \in 1 .. n : k < l => <<place[k], place[l]>> \in R
  <2> HIDE DEF place
  <2> QED BY <1>1, <1>5, <1>6, PlacesOfOrder
<1> HIDE DEF place
<1>9. \A k, l \in 1 .. n : place[k] = place[l] => k = l
  <2> SUFFICES ASSUME NEW k \in 1 .. n, NEW l \in 1 .. n, place[k] = place[l], k # l PROVE FALSE
    OBVIOUS
  <2>1. k < l \/ l < k
    BY <1>1
  <2> QED BY <1>5, <1>8, <2>1 DEF IsOrder
<1> DEFINE ranked == Rank(rows)
<1>10. ranked \in [1 .. n -> Row]
  <2>1. \A k \in 1 .. n : ranked[k] \in Row
    BY <1>1, <1>7, <1>8
  <2>2. ranked = [k \in 1 .. n |-> ranked[k]]
    BY <1>2
  <2> HIDE DEF ranked
  <2> QED BY <2>1, <2>2
<1>11. ranked \in Seq(Row) /\ DOMAIN ranked = 1 .. n
  BY <1>1, <1>10
<1>12. \A k \in 1 .. n : ranked[k] = rows[place[k]]
  BY <1>7
<1> HIDE DEF ranked
<1>13. ToSet(ranked) = ToSet(rows)
  <2>1. ToSet(ranked) \subseteq ToSet(rows)
    <3>1. \A k \in 1 .. n : rows[place[k]] \in ToSet(rows)
      BY <1>1, <1>8 DEF ToSet
    <3>2. \A x \in ToSet(ranked) : \E k \in 1 .. n : x = ranked[k]
      BY <1>11 DEF ToSet
    <3> QED BY <1>12, <3>1, <3>2
  <2>2. ASSUME NEW i \in 1 .. n PROVE rows[i] \in ToSet(ranked)
    <3>1. PICK k \in 1 .. n : place[k] = i
      BY <1>8
    <3>2. ranked[k] = rows[i]
      BY <1>12, <3>1
    <3> QED BY <1>11, <3>2 DEF ToSet
  <2>3. \A x \in ToSet(rows) : \E i \in 1 .. n : x = rows[i]
    BY <1>1 DEF ToSet
  <2> QED BY <2>1, <2>2, <2>3
<1>14. Keys(ranked) = Keys(rows)
  <2>1. Keys(ranked) \subseteq Keys(rows)
    <3>1. \A k \in 1 .. n : rows[place[k]].key \in Keys(rows)
      BY <1>1, <1>8 DEF Keys
    <3>2. \A x \in Keys(ranked) : \E k \in 1 .. n : x = ranked[k].key
      BY <1>11 DEF Keys
    <3> QED BY <1>12, <3>1, <3>2
  <2>2. ASSUME NEW i \in 1 .. n PROVE rows[i].key \in Keys(ranked)
    <3>1. PICK k \in 1 .. n : place[k] = i
      BY <1>8
    <3>2. ranked[k].key = rows[i].key
      BY <1>12, <3>1
    <3> QED BY <1>11, <3>2 DEF Keys
  <2>3. \A x \in Keys(rows) : \E i \in 1 .. n : x = rows[i].key
    BY <1>1 DEF Keys
  <2> QED BY <2>1, <2>2, <2>3
<1>15. Distinct(rows) => Distinct(ranked)
  <2> SUFFICES ASSUME Distinct(rows), NEW j \in 1 .. n, NEW k \in 1 .. n, ranked[j].key = ranked[k].key
               PROVE  j = k
    BY <1>11 DEF Distinct
  <2>1. place[j] \in 1 .. n /\ place[k] \in 1 .. n
    BY <1>8
  <2>2. rows[place[j]].key = rows[place[k]].key
    BY <1>12
  <2>3. place[j] = place[k]
    BY <1>1, <2>1, <2>2 DEF Distinct
  <2> QED BY <1>9, <2>3
<1> QED BY <1>11, <1>13, <1>14, <1>15 DEF ranked

(* The batches in source order, when no source has two.                       *)
LEMMA SourceOrderSorts ==
    ASSUME NEW bs \in Seq(Batch), OneEach(bs)
    PROVE  /\ InSourceOrder(bs) \in Seq(Batch) /\ ToSet(InSourceOrder(bs)) = ToSet(bs)
           /\ \A j, k \in DOMAIN InSourceOrder(bs) :
                 j < k => InSourceOrder(bs)[j][1] < InSourceOrder(bs)[k][1]
<1> DEFINE n == Len(bs)
           R == {p \in (1 .. n) \X (1 .. n) : bs[p[1]][1] < bs[p[2]][1]}
           before(i) == {j \in 1 .. n : bs[j][1] < bs[i][1]}
           place == [k \in 1 .. n |-> CHOOSE i \in 1 .. n : Cardinality(before(i)) = k - 1]
<1>1. n \in Nat /\ DOMAIN bs = 1 .. n /\ \A k \in 1 .. n : bs[k] \in Batch /\ bs[k][1] \in Int
  BY DEF Batch, Source
<1>2. InSourceOrder(bs) = [k \in 1 .. n |-> bs[CHOOSE i \in 1 .. n : Cardinality(before(i)) = k - 1]]
  BY <1>1 DEF InSourceOrder, Sorted
<1>3. \A i, j \in 1 .. n : <<i, j>> \in R <=> bs[i][1] < bs[j][1]
  OBVIOUS
<1>4. \A i \in 1 .. n : before(i) = {j \in 1 .. n : <<j, i>> \in R}
  BY <1>3
<1> HIDE DEF before, R, n
<1>5. IsOrder(R, n)
  <2>1. \A i \in 1 .. n : <<i, i>> \notin R
    BY <1>1, <1>3
  <2>2. \A i, j \in 1 .. n : i # j => <<i, j>> \in R \/ <<j, i>> \in R
    BY <1>1, <1>3 DEF OneEach
  <2>3. \A i, j, k \in 1 .. n : <<i, j>> \in R /\ <<j, k>> \in R => <<i, k>> \in R
    BY <1>1, <1>3
  <2> QED BY <2>1, <2>2, <2>3 DEF IsOrder
<1>6. \A k \in 1 .. n : (\E i \in 1 .. n : IsPlace(R, n, i, k)) =>
                           place[k] \in 1 .. n /\ IsPlace(R, n, place[k], k)
  <2> TAKE k \in 1 .. n
  <2>1. \A i \in 1 .. n : IsPlace(R, n, i, k) <=> Cardinality(before(i)) = k - 1
    BY <1>4 DEF IsPlace
  <2>2. place[k] = CHOOSE i \in 1 .. n : Cardinality(before(i)) = k - 1
    OBVIOUS
  <2> HIDE DEF place
  <2> QED BY <2>1, <2>2
<1>7. \A k \in 1 .. n : InSourceOrder(bs)[k] = bs[place[k]]
  BY <1>2
<1>8. /\ \A k \in 1 .. n : place[k] \in 1 .. n
      /\ \A i \in 1 .. n : \E k \in 1 .. n : place[k] = i
      /\ \A k, l \in 1 .. n : k < l => <<place[k], place[l]>> \in R
  <2> HIDE DEF place
  <2> QED BY <1>1, <1>5, <1>6, PlacesOfOrder
<1> HIDE DEF place
<1> DEFINE ordered == InSourceOrder(bs)
<1>9. ordered \in [1 .. n -> Batch]
  <2>1. \A k \in 1 .. n : ordered[k] \in Batch
    BY <1>1, <1>7, <1>8
  <2>2. ordered = [k \in 1 .. n |-> ordered[k]]
    BY <1>2
  <2> HIDE DEF ordered
  <2> QED BY <2>1, <2>2
<1>10. ordered \in Seq(Batch) /\ DOMAIN ordered = 1 .. n
  BY <1>1, <1>9
<1>11. \A k \in 1 .. n : ordered[k] = bs[place[k]]
  BY <1>7
<1> HIDE DEF ordered
<1>12. ToSet(ordered) = ToSet(bs)
  <2>1. ToSet(ordered) \subseteq ToSet(bs)
    <3>1. \A k \in 1 .. n : bs[place[k]] \in ToSet(bs)
      BY <1>1, <1>8 DEF ToSet
    <3>2. \A x \in ToSet(ordered) : \E k \in 1 .. n : x = ordered[k]
      BY <1>10 DEF ToSet
    <3> QED BY <1>11, <3>1, <3>2
  <2>2. ASSUME NEW i \in 1 .. n PROVE bs[i] \in ToSet(ordered)
    <3>1. PICK k \in 1 .. n : place[k] = i
      BY <1>8
    <3>2. ordered[k] = bs[i]
      BY <1>11, <3>1
    <3> QED BY <1>10, <3>2 DEF ToSet
  <2>3. \A x \in ToSet(bs) : \E i \in 1 .. n : x = bs[i]
    BY <1>1 DEF ToSet
  <2> QED BY <2>1, <2>2, <2>3
<1>13. ASSUME NEW j \in 1 .. n, NEW k \in 1 .. n, j < k PROVE ordered[j][1] < ordered[k][1]
  <2>1. place[j] \in 1 .. n /\ place[k] \in 1 .. n /\ <<place[j], place[k]>> \in R
    BY <1>8, <1>13
  <2>2. bs[place[j]][1] < bs[place[k]][1]
    BY <1>3, <2>1
  <2> QED BY <1>11, <2>2
<1> QED BY <1>10, <1>12, <1>13 DEF ordered

-----------------------------------------------------------------------------
(* Links: merge_links.                                                        *)
(* Links in which no url occurs twice and that keep of the candidates C what  *)
(* merge_links promises: every url, a password when one is known, the newest  *)
(* date, and the password the newest of them agree on.                        *)
AgreedCode(link, C) ==
    \A code \in Pwd \ {NoPwd} :
        (\A c \in C : c.url = link.url /\ c.time = link.time => c.pwd = code) => link.pwd = code

Merges(links, C) ==
    /\ \A j, k \in DOMAIN links : links[j].url = links[k].url => j = k
    /\ \A c \in C : \E k \in DOMAIN links : links[k].url = c.url
    /\ \A k \in DOMAIN links :
          /\ \E c \in C : c.url = links[k].url /\ c.pwd = links[k].pwd
          /\ \A c \in C : c.url = links[k].url =>
                c.time <= links[k].time /\ (links[k].pwd = NoPwd => c.pwd = NoPwd)
          /\ \E c \in C : c.url = links[k].url /\ c.time = links[k].time
          /\ AgreedCode(links[k], C)

(* Of two links with the same url, absorbing one keeps the url, a known       *)
(* password and the newest date, and a password of the newer link.            *)
LEMMA AbsorbKeeps ==
    ASSUME NEW old \in AnswerLink, NEW new \in AnswerLink, old.url = new.url
    PROVE  /\ Absorb(old, new) \in AnswerLink /\ Absorb(old, new).url = old.url
           /\ Absorb(old, new).pwd \in {old.pwd, new.pwd}
           /\ Absorb(old, new).pwd = NoPwd => old.pwd = NoPwd /\ new.pwd = NoPwd
           /\ old.time <= Absorb(old, new).time /\ new.time <= Absorb(old, new).time
           /\ \/ /\ Absorb(old, new).time = new.time
                 /\ new.pwd # NoPwd => Absorb(old, new).pwd = new.pwd
              \/ /\ Absorb(old, new).time = old.time
                 /\ old.pwd # NoPwd => Absorb(old, new).pwd = old.pwd
<1>1. old.time \in Int /\ new.time \in Int
  BY DEF AnswerLink
<1>2. CASE new.time > old.time /\ new.pwd = NoPwd
  BY <1>1, <1>2 DEF Absorb, AnswerLink
<1>3. CASE new.time > old.time /\ new.pwd # NoPwd
  BY <1>1, <1>3 DEF Absorb, AnswerLink
<1>4. CASE ~(new.time > old.time) /\ old.pwd = NoPwd
  BY <1>1, <1>4 DEF Absorb, AnswerLink
<1>5. CASE ~(new.time > old.time) /\ old.pwd # NoPwd
  BY <1>1, <1>5 DEF Absorb, AnswerLink
<1> QED BY <1>2, <1>3, <1>4, <1>5

(* merge_links either appends a link with a new url or absorbs it into the    *)
(* one that has its url.                                                      *)
LEMMA MergeLinkCases ==
    ASSUME NEW links \in Seq(AnswerLink), NEW new \in AnswerLink
    PROVE  \/ /\ \A k \in DOMAIN links : links[k].url # new.url
              /\ MergeLink(links, new) = Append(links, new)
           \/ \E at \in DOMAIN links :
                 /\ links[at].url = new.url
                 /\ MergeLink(links, new) = [links EXCEPT ![at] = Absorb(links[at], new)]
<1> DEFINE same == {i \in 1 .. Len(links) : links[i].url = new.url}
           at == Find(links, LAMBDA l : l.url = new.url)
<1>1. at = IF same # {} THEN Min(same) ELSE 0
  BY DEF Find, SelectInSeq
<1>2. same # {} => Min(same) \in same
  <2>1. same \in SUBSET Nat
    OBVIOUS
  <2> HIDE DEF same
  <2> QED BY <2>1, MinIn
<1>3. MergeLink(links, new) = IF at = 0 THEN Append(links, new)
                              ELSE [links EXCEPT ![at] = Absorb(links[at], new)]
  BY DEF MergeLink
<1>4. \A i \in same : i # 0 /\ i \in DOMAIN links /\ links[i].url = new.url
  OBVIOUS
<1>5. same = {} => \A k \in DOMAIN links : links[k].url # new.url
  OBVIOUS
<1> HIDE DEF at, same
<1> QED BY <1>1, <1>2, <1>3, <1>4, <1>5

(* One step of merge_links takes one more candidate into account.             *)
LEMMA MergeLinkMerges ==
    ASSUME NEW links \in Seq(AnswerLink), NEW new \in AnswerLink
    PROVE  /\ MergeLink(links, new) \in Seq(AnswerLink)
           /\ \A C \in SUBSET AnswerLink : Merges(links, C) => Merges(MergeLink(links, new), C \cup {new})
<1> DEFINE merged == MergeLink(links, new)
           n == Len(links)
<1>0. n \in Nat /\ DOMAIN links = 1 .. n /\ \A k \in 1 .. n : links[k] \in AnswerLink
  OBVIOUS
<1>1. CASE /\ \A k \in DOMAIN links : links[k].url # new.url
           /\ merged = Append(links, new)
  <2>1. /\ merged \in Seq(AnswerLink) /\ DOMAIN merged = 1 .. n + 1 /\ merged[n + 1] = new
        /\ \A k \in 1 .. n : merged[k] = links[k]
    BY <1>1
  <2>2. new.time \in Int
    BY DEF AnswerLink
  <2> HIDE DEF merged, n
  <2>3. \A k \in 1 .. n + 1 : k \in 1 .. n \/ k = n + 1
    BY <1>0
  <2>4. \A k \in 1 .. n : k \in 1 .. n + 1
    BY <1>0
  <2>5. n + 1 \in 1 .. n + 1
    BY <1>0
  <2> SUFFICES ASSUME NEW C \in SUBSET AnswerLink, Merges(links, C) PROVE Merges(merged, C \cup {new})
    BY <2>1 DEF merged
  <2>6. \A j, k \in 1 .. n + 1 : merged[j].url = merged[k].url => j = k
    BY <1>0, <1>1, <2>1, <2>3 DEF Merges
  <2>7. \A c \in C \cup {new} : \E k \in 1 .. n + 1 : merged[k].url = c.url
    BY <1>0, <2>1, <2>4, <2>5 DEF Merges
  <2>8. ASSUME NEW k \in 1 .. n + 1
        PROVE  /\ \E c \in C \cup {new} : c.url = merged[k].url /\ c.pwd = merged[k].pwd
               /\ \A c \in C \cup {new} : c.url = merged[k].url =>
                    c.time <= merged[k].time /\ (merged[k].pwd = NoPwd => c.pwd = NoPwd)
               /\ \E c \in C \cup {new} : c.url = merged[k].url /\ c.time = merged[k].time
               /\ AgreedCode(merged[k], C \cup {new})
    <3>1. CASE k \in 1 .. n
      <4>1. merged[k] = links[k] /\ links[k].url # new.url
        BY <1>0, <1>1, <2>1, <3>1
      <4> QED BY <1>0, <3>1, <4>1 DEF Merges, AgreedCode
    <3>2. CASE k = n + 1
      <4>1. \A c \in C : c.url # new.url
        BY <1>0, <1>1 DEF Merges
      <4> QED BY <2>1, <2>2, <3>2, <4>1 DEF AgreedCode
    <3> QED BY <2>3, <3>1, <3>2
  <2> QED BY <2>1, <2>6, <2>7, <2>8 DEF Merges
<1>2. ASSUME NEW at \in DOMAIN links, links[at].url = new.url,
             merged = [links EXCEPT ![at] = Absorb(links[at], new)]
      PROVE  /\ merged \in Seq(AnswerLink)
             /\ \A C \in SUBSET AnswerLink : Merges(links, C) => Merges(merged, C \cup {new})
  <2> DEFINE both == Absorb(links[at], new)
  <2>1. /\ both \in AnswerLink /\ both.url = new.url /\ both.pwd \in {links[at].pwd, new.pwd}
        /\ both.pwd = NoPwd => links[at].pwd = NoPwd /\ new.pwd = NoPwd
        /\ links[at].time <= both.time /\ new.time <= both.time
        /\ \/ both.time = new.time /\ (new.pwd # NoPwd => both.pwd = new.pwd)
           \/ both.time = links[at].time /\ (links[at].pwd # NoPwd => both.pwd = links[at].pwd)
    BY <1>0, <1>2, AbsorbKeeps
  <2>2. links[at].time \in Int /\ both.time \in Int
    BY <1>0, <2>1 DEF AnswerLink
  <2> HIDE DEF both
  <2>3. /\ merged \in Seq(AnswerLink) /\ DOMAIN merged = 1 .. n /\ merged[at] = both
        /\ \A k \in 1 .. n : k # at => merged[k] = links[k]
    BY <1>0, <1>2, <2>1 DEF both
  <2>4. at \in 1 .. n
    BY <1>0
  <2> HIDE DEF merged, n
  <2> SUFFICES ASSUME NEW C \in SUBSET AnswerLink, Merges(links, C) PROVE Merges(merged, C \cup {new})
    BY <2>3
  <2>5. \A k \in 1 .. n : merged[k].url = links[k].url
    BY <1>2, <2>1, <2>3
  <2>6. \A j, k \in 1 .. n : merged[j].url = merged[k].url => j = k
    BY <1>0, <2>5 DEF Merges
  <2>7. \A c \in C \cup {new} : \E k \in 1 .. n : merged[k].url = c.url
    BY <1>0, <1>2, <2>4, <2>5 DEF Merges
  <2>8. ASSUME NEW k \in 1 .. n
        PROVE  /\ \E c \in C \cup {new} : c.url = merged[k].url /\ c.pwd = merged[k].pwd
               /\ \A c \in C \cup {new} : c.url = merged[k].url =>
                    c.time <= merged[k].time /\ (merged[k].pwd = NoPwd => c.pwd = NoPwd)
               /\ \E c \in C \cup {new} : c.url = merged[k].url /\ c.time = merged[k].time
               /\ AgreedCode(merged[k], C \cup {new})
    <3>1. CASE k # at
      <4>1. merged[k] = links[k] /\ links[k].url # new.url
        BY <1>0, <1>2, <2>3, <2>4, <3>1 DEF Merges
      <4> QED BY <1>0, <3>1, <4>1 DEF Merges, AgreedCode
    <3>2. CASE k = at
      <4>1. /\ \E c \in C : c.url = new.url /\ c.pwd = links[at].pwd
            /\ \A c \in C : c.url = new.url =>
                  c.time <= links[at].time /\ (links[at].pwd = NoPwd => c.pwd = NoPwd)
            /\ \E c \in C : c.url = new.url /\ c.time = links[at].time
            /\ AgreedCode(links[at], C)
        BY <1>0, <1>2, <2>4 DEF Merges
      <4>2. \A c \in C : c.time \in Int
        BY DEF AnswerLink
      <4>3. \A c \in C : c.url = new.url => c.time <= both.time /\ (both.pwd = NoPwd => c.pwd = NoPwd)
        BY <2>1, <2>2, <4>1, <4>2
      <4>4. \E c \in C \cup {new} : c.url = new.url /\ c.pwd = both.pwd
        BY <2>1, <4>1
      <4>5. \E c \in C \cup {new} : c.url = new.url /\ c.time = both.time
        BY <2>1, <4>1
      <4>6. AgreedCode(both, C \cup {new})
        <5> SUFFICES ASSUME NEW code \in Pwd \ {NoPwd},
                            \A c \in C \cup {new} : c.url = both.url /\ c.time = both.time => c.pwd = code
                     PROVE  both.pwd = code
          BY DEF AgreedCode
        <5>1. CASE both.time = new.time /\ (new.pwd # NoPwd => both.pwd = new.pwd)
          BY <2>1, <5>1
        <5>2. CASE both.time = links[at].time /\ (links[at].pwd # NoPwd => both.pwd = links[at].pwd)
          <6>1. links[at].pwd = code
            BY <1>2, <2>1, <4>1, <5>2 DEF AgreedCode
          <6> QED BY <5>2, <6>1
        <5> QED BY <2>1, <5>1, <5>2
      <4> QED BY <2>1, <2>3, <3>2, <4>3, <4>4, <4>5, <4>6
    <3> QED BY <3>1, <3>2
  <2> QED BY <2>3, <2>6, <2>7, <2>8 DEF Merges
<1> QED BY <1>1, <1>2, MergeLinkCases

(* merge_links keeps its promise for all candidates.                          *)
LEMMA MergedLinks ==
    ASSUME NEW cs \in Seq(AnswerLink)
    PROVE  /\ FoldLeft(MergeLink, <<>>, cs) \in Seq(AnswerLink)
           /\ Merges(FoldLeft(MergeLink, <<>>, cs), ToSet(cs))
<1> DEFINE n == Len(cs)
           seen(m) == {cs[k] : k \in 1 .. m}
<1>1. \A a \in Seq(AnswerLink), c \in AnswerLink : MergeLink(a, c) \in Seq(AnswerLink)
  BY MergeLinkMerges
<1>2. PICK run \in [0 .. n -> Seq(AnswerLink)] :
         /\ run[0] = <<>> /\ run[n] = FoldLeft(MergeLink, <<>>, cs)
         /\ \A k \in 1 .. n : run[k] = MergeLink(run[k - 1], cs[k])
  BY <1>1, MergeLinkRun
<1>3. n \in Nat /\ DOMAIN cs = 1 .. n /\ \A k \in 1 .. n : cs[k] \in AnswerLink
  OBVIOUS
<1>4. ToSet(cs) = seen(n)
  BY <1>3 DEF ToSet
<1> DEFINE Right == {m \in 0 .. n : Merges(run[m], seen(m))}
<1> HIDE DEF n
<1>5. 0 .. n \subseteq Right
  <2>1. 0 \in Right
    <3>1. DOMAIN run[0] = {} /\ seen(0) = {}
      BY <1>2
    <3> HIDE DEF seen
    <3>2. Merges(run[0], seen(0))
      BY <3>1 DEF Merges
    <3> QED BY <1>3, <3>2
  <2>2. ASSUME NEW m \in 0 .. n - 1, m \in Right PROVE m + 1 \in Right
    <3>1. m + 1 \in 1 .. n /\ (m + 1) - 1 = m /\ m + 1 \in 0 .. n /\ m \in 0 .. n
      BY <1>3, <2>2
    <3>2. seen(m + 1) = seen(m) \cup {cs[m + 1]} /\ seen(m) \in SUBSET AnswerLink
      <4>1. (1 .. m + 1) = (1 .. m) \cup {m + 1} /\ 1 .. m \subseteq 1 .. n
        BY <1>3, <3>1
      <4> QED BY <1>3, <4>1
    <3>3. run[m] \in Seq(AnswerLink) /\ cs[m + 1] \in AnswerLink /\ run[m + 1] = MergeLink(run[m], cs[m + 1])
      BY <1>2, <1>3, <3>1
    <3>4. Merges(run[m], seen(m))
      BY <2>2
    <3> HIDE DEF seen
    <3>5. Merges(run[m + 1], seen(m) \cup {cs[m + 1]})
      BY <3>2, <3>3, <3>4, MergeLinkMerges
    <3> QED BY <3>1, <3>2, <3>5
  <2> HIDE DEF Right
  <2> QED BY <1>3, <2>1, <2>2, UpTo
<1>6. n \in 0 .. n
  BY <1>3
<1> HIDE DEF seen
<1> QED BY <1>2, <1>4, <1>5, <1>6

(* The password on which the newest of the candidates of a link agree.        *)
NewestCode(link, C) ==
    \A code \in Pwd \ {NoPwd} :
        (\A c \in C : c.url = link.url /\ (\A o \in C : o.url = link.url => o.time <= c.time)
                       => c.pwd = code) => link.pwd = code

(* A merge gives each link that password.                                     *)
LEMMA MergesNewest ==
    ASSUME NEW links, NEW C, Merges(links, C), NEW k \in DOMAIN links
    PROVE  NewestCode(links[k], C)
<1> SUFFICES ASSUME NEW code \in Pwd \ {NoPwd},
                    \A c \in C : c.url = links[k].url
                                /\ (\A o \in C : o.url = links[k].url => o.time <= c.time)
                              => c.pwd = code
             PROVE  links[k].pwd = code
  BY DEF NewestCode
<1>1. \A c \in C : c.url = links[k].url /\ c.time = links[k].time => c.pwd = code
  BY DEF Merges
<1>2. AgreedCode(links[k], C)
  BY DEF Merges
<1> QED BY <1>1, <1>2 DEF AgreedCode

(* Which candidates there are depends on which rows there are, not on their   *)
(* order.                                                                     *)
LEMMA CandidateSet ==
    ASSUME NEW rows \in Seq(Row)
    PROVE  /\ Candidates(rows) \in Seq(AnswerLink)
           /\ \A c : c \in ToSet(Candidates(rows)) <=>
                 \E r \in ToSet(rows) : \E j \in DOMAIN r.links : c = Candidate(r, r.links[j])
<1> DEFINE of(r) == [j \in DOMAIN r.links |-> Candidate(r, r.links[j])]
           ss == [i \in DOMAIN rows |-> of(rows[i])]
<1>1. DOMAIN rows = 1 .. Len(rows) /\ Len(rows) \in Nat /\ \A i \in 1 .. Len(rows) : rows[i] \in Row
  OBVIOUS
<1>2. ASSUME NEW r \in Row
      PROVE  of(r) \in Seq(AnswerLink) /\ ToSet(of(r)) = {Candidate(r, r.links[j]) : j \in DOMAIN r.links}
  <2>1. /\ r.links \in Seq(RowLink) /\ r.src \in Source /\ r.time \in Nat
    BY DEF Row, RowLink
  <2>2. /\ DOMAIN r.links = 1 .. Len(r.links) /\ Len(r.links) \in Nat
        /\ \A j \in DOMAIN r.links : r.links[j] \in RowLink
    BY <2>1
  <2>3. \A l \in RowLink : Candidate(r, l) \in AnswerLink
    BY <2>1 DEF RowLink, Candidate, AnswerLink
  <2>4. of(r) \in [1 .. Len(r.links) -> AnswerLink]
    BY <2>2, <2>3
  <2>5. ToSet(of(r)) = {Candidate(r, r.links[j]) : j \in DOMAIN r.links}
    BY DEF ToSet
  <2> HIDE DEF of
  <2> QED BY <2>2, <2>4, <2>5
<1>3. ss \in Seq(Seq(AnswerLink)) /\ Len(ss) = Len(rows) /\ \A i \in 1 .. Len(rows) : ss[i] = of(rows[i])
  <2> HIDE DEF of
  <2> QED BY <1>1, <1>2
<1>4. Candidates(rows) = FlattenSeq(ss)
  BY DEF Candidates
<1> HIDE DEF ss
<1>5. Candidates(rows) \in Seq(AnswerLink)
      /\ \A c : c \in ToSet(Candidates(rows)) <=> \E k \in 1 .. Len(rows) : c \in ToSet(ss[k])
  BY <1>3, <1>4, SetOfFlatten
<1> HIDE DEF of
<1>6. ASSUME NEW c
      PROVE  c \in ToSet(Candidates(rows)) <=>
                 \E r \in ToSet(rows) : \E j \in DOMAIN r.links : c = Candidate(r, r.links[j])
  <2>1. \A k \in 1 .. Len(rows) : c \in ToSet(ss[k]) <=>
             \E j \in DOMAIN rows[k].links : c = Candidate(rows[k], rows[k].links[j])
    BY <1>1, <1>2, <1>3
  <2>2. ToSet(rows) = {rows[k] : k \in 1 .. Len(rows)}
    BY <1>1 DEF ToSet
  <2> QED BY <1>5, <2>1, <2>2
<1> QED BY <1>5, <1>6

(* The links merged from rows, in whatever order the rows are.                *)
LEMMA MergedRows ==
    ASSUME NEW rows \in Seq(Row)
    PROVE  MergeLinks(rows) \in Seq(AnswerLink) /\ Merges(MergeLinks(rows), ToSet(Candidates(rows)))
BY CandidateSet, MergedLinks DEF MergeLinks

(* The same rows in another order offer the same links.                       *)
LEMMA SameCandidates ==
    ASSUME NEW r \in Seq(Row), NEW s \in Seq(Row), ToSet(r) = ToSet(s)
    PROVE  ToSet(Candidates(r)) = ToSet(Candidates(s))
<1> DEFINE a == ToSet(Candidates(r))
           b == ToSet(Candidates(s))
<1>1. \A c : c \in a <=> c \in b
  BY CandidateSet
<1> HIDE DEF a, b
<1>2. a = b
  BY <1>1
<1> QED BY <1>2 DEF a, b

(* The collector of a source: a link whose password was known keeps one.      *)
Knows(links, u) == \E k \in DOMAIN links : links[k].url = u /\ links[k].pwd # NoPwd

(* Publishing a link again, or another one, loses no known password.          *)
LEMMA RefreshLinkKeeps ==
    ASSUME NEW links \in Seq(RowLink), NEW new \in RowLink
    PROVE  /\ RefreshLink(links, new) \in Seq(RowLink)
           /\ \A u : Knows(links, u) \/ (new.url = u /\ new.pwd # NoPwd) =>
                 Knows(RefreshLink(links, new), u)
<1> DEFINE same == {i \in 1 .. Len(links) : links[i].url = new.url}
           at == Find(links, LAMBDA l : l.url = new.url)
           n == Len(links)
           result == RefreshLink(links, new)
<1>0. n \in Nat /\ DOMAIN links = 1 .. n /\ \A k \in 1 .. n : links[k] \in RowLink
  OBVIOUS
<1>1. at = IF same # {} THEN Min(same) ELSE 0
  BY DEF Find, SelectInSeq
<1>2. same # {} => Min(same) \in same
  <2>1. same \in SUBSET Nat
    OBVIOUS
  <2> HIDE DEF same
  <2> QED BY <2>1, MinIn
<1>3. result = IF at = 0 THEN Append(links, new)
               ELSE [links EXCEPT ![at] = Refresh(links[at], new)]
  BY DEF RefreshLink
<1>4. \A i \in same : i # 0 /\ i \in 1 .. n /\ links[i].url = new.url
  OBVIOUS
<1> HIDE DEF at, same, result
<1>5. CASE at = 0
  <2>1. /\ result \in Seq(RowLink) /\ DOMAIN result = 1 .. n + 1 /\ result[n + 1] = new
        /\ \A k \in 1 .. n : result[k] = links[k]
    BY <1>3, <1>5
  <2> HIDE DEF n
  <2>2. n + 1 \in 1 .. n + 1 /\ \A k \in 1 .. n : k \in 1 .. n + 1
    BY <1>0
  <2>3. \A u : Knows(links, u) \/ (new.url = u /\ new.pwd # NoPwd) => Knows(result, u)
    BY <1>0, <2>1, <2>2 DEF Knows
  <2> QED BY <2>1, <2>3 DEF result
<1>6. CASE at # 0
  <2>1. at \in 1 .. n /\ links[at].url = new.url /\ result = [links EXCEPT ![at] = Refresh(links[at], new)]
    BY <1>1, <1>2, <1>3, <1>4, <1>6
  <2> DEFINE both == Refresh(links[at], new)
  <2>2. /\ both \in RowLink /\ both.url = new.url
        /\ both.pwd = NoPwd => links[at].pwd = NoPwd /\ new.pwd = NoPwd
    BY <1>0, <2>1 DEF RowLink, Refresh
  <2> HIDE DEF both
  <2>3. /\ result \in Seq(RowLink) /\ DOMAIN result = 1 .. n /\ result[at] = both
        /\ \A k \in 1 .. n : k # at => result[k] = links[k]
    BY <1>0, <2>1, <2>2 DEF both
  <2> HIDE DEF n
  <2>4. ASSUME NEW u, Knows(links, u) \/ (new.url = u /\ new.pwd # NoPwd) PROVE Knows(result, u)
    <3>1. CASE Knows(links, u)
      <4>1. PICK k \in 1 .. n : links[k].url = u /\ links[k].pwd # NoPwd
        BY <1>0, <3>1 DEF Knows
      <4>2. result[k].url = u /\ result[k].pwd # NoPwd
        BY <2>1, <2>2, <2>3, <4>1
      <4> QED BY <2>3, <4>2 DEF Knows
    <3>2. CASE new.url = u /\ new.pwd # NoPwd
      BY <2>1, <2>2, <2>3, <3>2 DEF Knows
    <3> QED BY <2>4, <3>1, <3>2
  <2> QED BY <2>3, <2>4 DEF result
<1> QED BY <1>5, <1>6

(* Nor does publishing the links of a row.                                    *)
LEMMA RefreshedLinks ==
    ASSUME NEW base \in Seq(RowLink), NEW cs \in Seq(RowLink)
    PROVE  /\ FoldLeft(RefreshLink, base, cs) \in Seq(RowLink)
           /\ \A u : Knows(base, u) \/ Knows(cs, u) => Knows(FoldLeft(RefreshLink, base, cs), u)
<1> DEFINE n == Len(cs)
<1>1. \A a \in Seq(RowLink), c \in RowLink : RefreshLink(a, c) \in Seq(RowLink)
  BY RefreshLinkKeeps
<1>2. PICK run \in [0 .. n -> Seq(RowLink)] :
         /\ run[0] = base /\ run[n] = FoldLeft(RefreshLink, base, cs)
         /\ \A k \in 1 .. n : run[k] = RefreshLink(run[k - 1], cs[k])
  BY <1>1, RefreshLinkRun
<1>3. n \in Nat /\ DOMAIN cs = 1 .. n /\ \A k \in 1 .. n : cs[k] \in RowLink
  OBVIOUS
<1> DEFINE Kept(m) == \A u : Knows(base, u) \/ (\E k \in 1 .. m : cs[k].url = u /\ cs[k].pwd # NoPwd) =>
                                Knows(run[m], u)
           Right == {m \in 0 .. n : Kept(m)}
<1> HIDE DEF n
<1>4. 0 .. n \subseteq Right
  <2>1. 0 \in Right
    BY <1>2, <1>3
  <2>2. ASSUME NEW m \in 0 .. n - 1, m \in Right PROVE m + 1 \in Right
    <3>1. /\ m + 1 \in 1 .. n /\ (m + 1) - 1 = m /\ m + 1 \in 0 .. n /\ m \in 0 .. n
          /\ \A k \in 1 .. m + 1 : k \in 1 .. m \/ k = m + 1
      BY <1>3, <2>2
    <3>2. run[m] \in Seq(RowLink) /\ cs[m + 1] \in RowLink /\ run[m + 1] = RefreshLink(run[m], cs[m + 1])
      BY <1>2, <1>3, <3>1
    <3>3. \A u : Knows(run[m], u) \/ (cs[m + 1].url = u /\ cs[m + 1].pwd # NoPwd) => Knows(run[m + 1], u)
      BY <3>2, RefreshLinkKeeps
    <3>4. Kept(m)
      BY <2>2
    <3>5. Kept(m + 1)
      BY <3>1, <3>3, <3>4
    <3> HIDE DEF Kept
    <3> QED BY <3>1, <3>5
  <2> HIDE DEF Right
  <2> QED BY <1>3, <2>1, <2>2, UpTo
<1>5. n \in 0 .. n
  BY <1>3
<1>6. ASSUME NEW u, Knows(base, u) \/ Knows(cs, u) PROVE Knows(run[n], u)
  <2>1. Knows(cs, u) => \E k \in 1 .. n : cs[k].url = u /\ cs[k].pwd # NoPwd
    BY <1>3 DEF Knows
  <2>2. Kept(n)
    BY <1>4, <1>5
  <2> QED BY <1>6, <2>1, <2>2
<1> QED BY <1>2, <1>5, <1>6

OfSource(rows, i) == \A k \in DOMAIN rows : rows[k].src = i
KnowsCode(rows, u) == \E k \in DOMAIN rows : Knows(rows[k].links, u)

(* A row that is published again stays the same row and loses no known        *)
(* password.                                                                  *)
LEMMA RefreshRowKeeps ==
    ASSUME NEW old \in Row, NEW new \in Row
    PROVE  /\ RefreshRow(old, new) \in Row
           /\ RefreshRow(old, new).key = old.key /\ RefreshRow(old, new).src = old.src
           /\ \A u : Knows(old.links, u) \/ Knows(new.links, u) => Knows(RefreshRow(old, new).links, u)
<1> DEFINE links == FoldLeft(RefreshLink, old.links, new.links)
           both == RefreshRow(old, new)
<1>1. old.links \in Seq(RowLink) /\ new.links \in Seq(RowLink)
  BY DEF Row, RowLink
<1>2. /\ links \in Seq(RowLink)
      /\ \A u : Knows(old.links, u) \/ Knows(new.links, u) => Knows(links, u)
  BY <1>1, RefreshedLinks
<1>3. both = [old EXCEPT !.links = links,
                         !.time = IF new.time = 0 THEN old.time ELSE new.time,
                         !.score = new.score,
                         !.full = IF new.full > old.full THEN new.full ELSE old.full]
  BY DEF RefreshRow
<1> HIDE DEF links, both
<1>4. links \in Seq([url : Url, pwd : Pwd, time : Nat])
  BY <1>2 DEF RowLink
<1>5. both \in Row /\ both.key = old.key /\ both.src = old.src /\ both.links = links
  BY <1>3, <1>4 DEF Row
<1> QED BY <1>2, <1>5 DEF both

(* One step of the collector: no password is lost, and the rows of a source   *)
(* that differed in their key still do.                                       *)
LEMMA FinishRowKeeps ==
    ASSUME NEW rows \in Seq(Row), NEW row \in Row
    PROVE  /\ FinishRow(rows, row) \in Seq(Row)
           /\ \A u : KnowsCode(rows, u) \/ Knows(row.links, u) => KnowsCode(FinishRow(rows, row), u)
           /\ (Distinct(rows) /\ OfSource(rows, row.src)) =>
                 /\ Distinct(FinishRow(rows, row)) /\ OfSource(FinishRow(rows, row), row.src)
                 /\ Keys(FinishRow(rows, row)) = Keys(rows) \cup {row.key}
<1> DEFINE same == {i \in 1 .. Len(rows) : rows[i].key = row.key /\ rows[i].src = row.src}
           at == Find(rows, LAMBDA r : r.key = row.key /\ r.src = row.src)
           n == Len(rows)
           result == FinishRow(rows, row)
<1>0. n \in Nat /\ DOMAIN rows = 1 .. n /\ \A k \in 1 .. n : rows[k] \in Row
  OBVIOUS
<1>1. at = IF same # {} THEN Min(same) ELSE 0
  BY DEF Find, SelectInSeq
<1>2. same # {} => Min(same) \in same
  <2>1. same \in SUBSET Nat
    OBVIOUS
  <2> HIDE DEF same
  <2> QED BY <2>1, MinIn
<1>3. result = IF at = 0 THEN Append(rows, row) ELSE [rows EXCEPT ![at] = RefreshRow(rows[at], row)]
  BY DEF FinishRow
<1>4. \A i \in same : i # 0 /\ i \in 1 .. n /\ rows[i].key = row.key
  OBVIOUS
<1>5. same = {} => \A k \in 1 .. n : rows[k].key # row.key \/ rows[k].src # row.src
  OBVIOUS
<1> HIDE DEF at, same, result
<1>6. CASE at = 0
  <2>1. /\ result \in Seq(Row) /\ DOMAIN result = 1 .. n + 1 /\ result[n + 1] = row
        /\ \A k \in 1 .. n : result[k] = rows[k]
    BY <1>3, <1>6
  <2> HIDE DEF n
  <2>2. n + 1 \in 1 .. n + 1 /\ \A k \in 1 .. n : k \in 1 .. n + 1
    BY <1>0
  <2>3. \A k \in 1 .. n + 1 : k \in 1 .. n \/ k = n + 1
    BY <1>0
  <2>4. \A u : KnowsCode(rows, u) \/ Knows(row.links, u) => KnowsCode(result, u)
    BY <1>0, <2>1, <2>2 DEF KnowsCode
  <2>5. ASSUME Distinct(rows), OfSource(rows, row.src)
        PROVE  Distinct(result) /\ OfSource(result, row.src) /\ Keys(result) = Keys(rows) \cup {row.key}
    <3>1. \A k \in 1 .. n : rows[k].key # row.key
      <4>1. same = {}
        BY <1>1, <1>2, <1>4, <1>6
      <4> QED BY <1>0, <1>5, <2>5, <4>1 DEF OfSource
    <3>2. Distinct(result)
      BY <1>0, <2>1, <2>3, <2>5, <3>1 DEF Distinct
    <3>3. OfSource(result, row.src)
      BY <1>0, <2>1, <2>3, <2>5 DEF OfSource
    <3>4. Keys(result) = Keys(rows) \cup {row.key}
      BY <1>0, <2>1, <2>2, <2>3 DEF Keys
    <3> QED BY <3>2, <3>3, <3>4
  <2> QED BY <2>1, <2>4, <2>5 DEF result
<1>7. CASE at # 0
  <2>1. at \in 1 .. n /\ rows[at].key = row.key /\ result = [rows EXCEPT ![at] = RefreshRow(rows[at], row)]
    BY <1>1, <1>2, <1>3, <1>4, <1>7
  <2> DEFINE both == RefreshRow(rows[at], row)
  <2>2. /\ both \in Row /\ both.key = row.key /\ both.src = rows[at].src
        /\ \A u : Knows(rows[at].links, u) \/ Knows(row.links, u) => Knows(both.links, u)
    BY <1>0, <2>1, RefreshRowKeeps
  <2> HIDE DEF both
  <2>3. /\ result \in Seq(Row) /\ DOMAIN result = 1 .. n /\ result[at] = both
        /\ \A k \in 1 .. n : k # at => result[k] = rows[k]
    BY <1>0, <2>1, <2>2 DEF both
  <2> HIDE DEF n
  <2>4. \A k \in 1 .. n : result[k].key = rows[k].key /\ result[k].src = rows[k].src
    BY <2>1, <2>2, <2>3
  <2>5. ASSUME NEW u, KnowsCode(rows, u) \/ Knows(row.links, u) PROVE KnowsCode(result, u)
    <3>1. CASE KnowsCode(rows, u)
      <4>1. PICK k \in 1 .. n : Knows(rows[k].links, u)
        BY <1>0, <3>1 DEF KnowsCode
      <4>2. Knows(result[k].links, u)
        BY <2>2, <2>3, <4>1
      <4> QED BY <2>3, <4>2 DEF KnowsCode
    <3>2. CASE Knows(row.links, u)
      BY <2>1, <2>2, <2>3, <3>2 DEF KnowsCode
    <3> QED BY <2>5, <3>1, <3>2
  <2>6. ASSUME Distinct(rows), OfSource(rows, row.src)
        PROVE  Distinct(result) /\ OfSource(result, row.src) /\ Keys(result) = Keys(rows) \cup {row.key}
    <3>1. Distinct(result)
      BY <1>0, <2>3, <2>4, <2>6 DEF Distinct
    <3>2. OfSource(result, row.src)
      BY <1>0, <2>3, <2>4, <2>6 DEF OfSource
    <3>3. Keys(result) = Keys(rows) /\ row.key \in Keys(rows)
      BY <1>0, <2>1, <2>3, <2>4 DEF Keys
    <3> QED BY <3>1, <3>2, <3>3
  <2> QED BY <2>3, <2>5, <2>6 DEF result
<1> QED BY <1>6, <1>7

(* SearchContext::finish gives rows that differ in their key, with the keys   *)
(* that were published and no password lost.                                  *)
LEMMA FinishedRows ==
    ASSUME NEW rows \in Seq(Row)
    PROVE  /\ FinishRows(rows) \in Seq(Row)
           /\ \A u : KnowsCode(rows, u) => KnowsCode(FinishRows(rows), u)
           /\ \A i \in Source : OfSource(rows, i) =>
                 Distinct(FinishRows(rows)) /\ Keys(FinishRows(rows)) \subseteq Keys(rows)
<1> DEFINE n == Len(rows)
<1>1. \A a \in Seq(Row), c \in Row : FinishRow(a, c) \in Seq(Row)
  BY FinishRowKeeps
<1>2. PICK run \in [0 .. n -> Seq(Row)] :
         /\ run[0] = <<>> /\ run[n] = FinishRows(rows)
         /\ \A k \in 1 .. n : run[k] = FinishRow(run[k - 1], rows[k])
  <2>1. PICK run \in [0 .. n -> Seq(Row)] :
           /\ run[0] = <<>> /\ run[n] = FoldLeft(FinishRow, <<>>, rows)
           /\ \A k \in 1 .. n : run[k] = FinishRow(run[k - 1], rows[k])
    BY <1>1, FinishRowRun
  <2> QED BY <2>1 DEF FinishRows
<1>3. n \in Nat /\ DOMAIN rows = 1 .. n /\ \A k \in 1 .. n : rows[k] \in Row
  OBVIOUS
<1>4. DOMAIN run[0] = {}
  BY <1>2
<1>5. n \in 0 .. n
  BY <1>3
<1> DEFINE Kept(m) == \A u : (\E k \in 1 .. m : Knows(rows[k].links, u)) => KnowsCode(run[m], u)
           Right == {m \in 0 .. n : Kept(m)}
           Own(m, i) == Distinct(run[m]) /\ OfSource(run[m], i) /\ Keys(run[m]) \subseteq Keys(rows)
<1>6. \A m \in 1 .. n : /\ run[m - 1] \in Seq(Row) /\ rows[m] \in Row
                        /\ run[m] = FinishRow(run[m - 1], rows[m])
  <2> TAKE m \in 1 .. n
  <2>1. m - 1 \in 0 .. n
    BY <1>3
  <2> QED BY <1>2, <1>3, <2>1
<1> HIDE DEF n
<1>7. 0 .. n \subseteq Right
  <2>1. 0 \in Right
    BY <1>3
  <2>2. ASSUME NEW m \in 0 .. n - 1, m \in Right PROVE m + 1 \in Right
    <3>1. /\ m + 1 \in 1 .. n /\ (m + 1) - 1 = m /\ m + 1 \in 0 .. n
          /\ \A k \in 1 .. m + 1 : k \in 1 .. m \/ k = m + 1
      BY <1>3, <2>2
    <3>2. run[m] \in Seq(Row) /\ rows[m + 1] \in Row /\ run[m + 1] = FinishRow(run[m], rows[m + 1])
      BY <1>6, <3>1
    <3>3. \A u : KnowsCode(run[m], u) \/ Knows(rows[m + 1].links, u) => KnowsCode(run[m + 1], u)
      BY <3>2, FinishRowKeeps
    <3>4. Kept(m)
      BY <2>2
    <3>5. Kept(m + 1)
      BY <3>1, <3>3, <3>4
    <3> HIDE DEF Kept
    <3> QED BY <3>1, <3>5
  <2> HIDE DEF Right
  <2> QED BY <1>3, <2>1, <2>2, UpTo
<1>8. ASSUME NEW u, KnowsCode(rows, u) PROVE KnowsCode(run[n], u)
  <2>1. \E k \in 1 .. n : Knows(rows[k].links, u)
    BY <1>3, <1>8 DEF KnowsCode
  <2>2. Kept(n)
    BY <1>5, <1>7
  <2> QED BY <2>1, <2>2
<1> HIDE DEF Right, Kept
<1>9. ASSUME NEW i \in Source, OfSource(rows, i) PROVE Own(n, i)
  <2> DEFINE Good == {m \in 0 .. n : Own(m, i)}
  <2>1. 0 \in Good
    <3>1. Own(0, i)
      BY <1>4 DEF Distinct, OfSource, Keys
    <3> HIDE DEF Own
    <3> QED BY <1>3, <3>1
  <2>2. ASSUME NEW m \in 0 .. n - 1, m \in Good PROVE m + 1 \in Good
    <3>1. m + 1 \in 1 .. n /\ (m + 1) - 1 = m /\ m + 1 \in 0 .. n
      BY <1>3, <2>2
    <3>2. run[m] \in Seq(Row) /\ rows[m + 1] \in Row /\ run[m + 1] = FinishRow(run[m], rows[m + 1])
      BY <1>6, <3>1
    <3>3. rows[m + 1].src = i /\ rows[m + 1].key \in Keys(rows)
      BY <1>3, <1>9, <3>1 DEF OfSource, Keys
    <3>4. Own(m, i)
      BY <2>2
    <3>5. Own(m + 1, i)
      <4>1. /\ Distinct(run[m + 1]) /\ OfSource(run[m + 1], i)
            /\ Keys(run[m + 1]) = Keys(run[m]) \cup {rows[m + 1].key}
        BY <3>2, <3>3, <3>4, FinishRowKeeps
      <4> QED BY <3>3, <3>4, <4>1
    <3> HIDE DEF Own
    <3> QED BY <3>1, <3>5
  <2> HIDE DEF Good
  <2>3. 0 .. n \subseteq Good
    BY <1>3, <2>1, <2>2, UpTo
  <2> QED BY <1>5, <2>3 DEF Good
<1> QED BY <1>2, <1>5, <1>8, <1>9

-----------------------------------------------------------------------------
(* Announcements.                                                             *)
Urls(links) == {links[k].url : k \in DOMAIN links}
PasswordsKept(old, new) == \A u \in DOMAIN old : old[u].pwd # NoPwd => u \in DOMAIN new /\ new[u].pwd # NoPwd

(* Announced links are a function from some urls to links.                    *)
LEMMA KnownLinks ==
    ASSUME NEW k
    PROVE  k \in Known <=> /\ DOMAIN k \in SUBSET Url /\ k \in [DOMAIN k -> AnswerLink]
                           /\ \A u \in DOMAIN k : k[u].url = u
BY DEF Known

(* Announcing one link adds its url and takes back no password.               *)
LEMMA AnnounceKeeps ==
    ASSUME NEW acc \in Told, NEW merged \in AnswerLink
    PROVE  /\ Announce(acc, merged) \in Told
           /\ DOMAIN Announce(acc, merged).known = DOMAIN acc.known \cup {merged.url}
           /\ PasswordsKept(acc.known, Announce(acc, merged).known)
<1> DEFINE link == KeepPassword(merged, acc.known)
           known == [u \in DOMAIN acc.known \cup {link.url} |->
                        IF u = link.url THEN link ELSE acc.known[u]]
           event == [kind |-> IF link.url \in DOMAIN acc.known THEN "update" ELSE "result", link |-> link]
           result == Announce(acc, merged)
<1>1. /\ acc.known \in Known /\ acc.sent \in Seq(LinkEvent)
      /\ acc = [known |-> acc.known, sent |-> acc.sent]
  BY DEF Told
<1>2. /\ DOMAIN acc.known \in SUBSET Url
      /\ \A u \in DOMAIN acc.known : acc.known[u] \in AnswerLink /\ acc.known[u].url = u
  BY <1>1, KnownLinks
<1>3. /\ link \in AnswerLink /\ link.url = merged.url
      /\ \A u \in DOMAIN acc.known : u = link.url /\ acc.known[u].pwd # NoPwd => link.pwd # NoPwd
  BY <1>2 DEF KeepPassword, AnswerLink
<1>4. result = IF link.url \in DOMAIN acc.known /\ acc.known[link.url] = link THEN acc
               ELSE [known |-> known, sent |-> Append(acc.sent, event)]
  BY DEF Announce
<1>5. event \in LinkEvent
  <2> HIDE DEF link
  <2> QED BY <1>3 DEF LinkEvent
<1> HIDE DEF link, event
<1>6. /\ DOMAIN known = DOMAIN acc.known \cup {merged.url}
      /\ DOMAIN known \in SUBSET Url
      /\ \A u \in DOMAIN known : known[u] \in AnswerLink /\ known[u].url = u
      /\ PasswordsKept(acc.known, known)
  <2>1. merged.url \in Url
    BY DEF AnswerLink
  <2> QED BY <1>2, <1>3, <2>1 DEF PasswordsKept
<1>7. known \in Known
  <2>1. known = [u \in DOMAIN known |-> known[u]]
    OBVIOUS
  <2> HIDE DEF known
  <2> QED BY <1>6, <2>1, KnownLinks
<1> HIDE DEF known, result
<1>8. CASE link.url \in DOMAIN acc.known /\ acc.known[link.url] = link
  <2>1. result = acc
    BY <1>4, <1>8
  <2>2. PasswordsKept(acc.known, acc.known)
    BY DEF PasswordsKept
  <2> QED BY <1>3, <1>8, <2>1, <2>2 DEF result
<1>9. CASE ~(link.url \in DOMAIN acc.known /\ acc.known[link.url] = link)
  <2>1. result = [known |-> known, sent |-> Append(acc.sent, event)]
    BY <1>4, <1>9
  <2>2. Append(acc.sent, event) \in Seq(LinkEvent)
    BY <1>1, <1>5
  <2>3. result \in Told /\ result.known = known
    BY <1>7, <2>1, <2>2 DEF Told
  <2> QED BY <1>6, <2>3 DEF result
<1> QED BY <1>8, <1>9

(* Announcing merged links adds their urls and takes back no password.        *)
LEMMA Announced ==
    ASSUME NEW base \in Told, NEW links \in Seq(AnswerLink)
    PROVE  /\ FoldLeft(Announce, base, links) \in Told
           /\ DOMAIN FoldLeft(Announce, base, links).known = DOMAIN base.known \cup Urls(links)
           /\ PasswordsKept(base.known, FoldLeft(Announce, base, links).known)
<1> DEFINE n == Len(links)
<1>1. \A a \in Told, c \in AnswerLink : Announce(a, c) \in Told
  BY AnnounceKeeps
<1>2. PICK run \in [0 .. n -> Told] :
         /\ run[0] = base /\ run[n] = FoldLeft(Announce, base, links)
         /\ \A k \in 1 .. n : run[k] = Announce(run[k - 1], links[k])
  BY <1>1, AnnounceRun
<1>3. n \in Nat /\ DOMAIN links = 1 .. n /\ \A k \in 1 .. n : links[k] \in AnswerLink
  OBVIOUS
<1> DEFINE urls(m) == {links[k].url : k \in 1 .. m}
           Right == {m \in 0 .. n : /\ DOMAIN run[m].known = DOMAIN base.known \cup urls(m)
                                    /\ PasswordsKept(base.known, run[m].known)}
<1>4. Urls(links) = urls(n)
  BY <1>3 DEF Urls
<1> HIDE DEF n
<1>5. 0 .. n \subseteq Right
  <2>1. 0 \in Right
    <3>1. urls(0) = {} /\ PasswordsKept(base.known, base.known)
      BY DEF PasswordsKept
    <3> HIDE DEF urls
    <3> QED BY <1>2, <1>3, <3>1
  <2>2. ASSUME NEW m \in 0 .. n - 1, m \in Right PROVE m + 1 \in Right
    <3>1. m + 1 \in 1 .. n /\ (m + 1) - 1 = m /\ m + 1 \in 0 .. n /\ m \in 0 .. n
      BY <1>3, <2>2
    <3>2. run[m] \in Told /\ links[m + 1] \in AnswerLink /\ run[m + 1] = Announce(run[m], links[m + 1])
      BY <1>2, <1>3, <3>1
    <3>3. /\ DOMAIN run[m + 1].known = DOMAIN run[m].known \cup {links[m + 1].url}
          /\ PasswordsKept(run[m].known, run[m + 1].known)
      BY <3>2, AnnounceKeeps
    <3>4. urls(m + 1) = urls(m) \cup {links[m + 1].url}
      <4>1. (1 .. m + 1) = (1 .. m) \cup {m + 1}
        BY <1>3, <3>1
      <4> QED BY <4>1
    <3> HIDE DEF urls
    <3>5. PasswordsKept(base.known, run[m + 1].known)
      BY <2>2, <3>3 DEF PasswordsKept
    <3> QED BY <2>2, <3>1, <3>3, <3>4, <3>5
  <2> HIDE DEF Right
  <2> QED BY <1>3, <2>1, <2>2, UpTo
<1>6. n \in 0 .. n
  BY <1>3
<1> HIDE DEF urls
<1> QED BY <1>2, <1>4, <1>5, <1>6

(* Every change of what is known is an event.                                 *)
Backed(old, told) ==
    \A u \in DOMAIN told.known :
        \/ u \in DOMAIN old /\ old[u] = told.known[u]
        \/ \E e \in ToSet(told.sent) : e.link = told.known[u]

(* Announcing one link changes what is known of its url only, by an event, and *)
(* with its password when it has one.                                         *)
LEMMA AnnounceSays ==
    ASSUME NEW acc \in Told, NEW merged \in AnswerLink
    PROVE  /\ \A old : Backed(old, acc) => Backed(old, Announce(acc, merged))
           /\ \A u \in DOMAIN acc.known : u # merged.url => Announce(acc, merged).known[u] = acc.known[u]
           /\ merged.pwd # NoPwd => Announce(acc, merged).known[merged.url].pwd = merged.pwd
<1> DEFINE link == KeepPassword(merged, acc.known)
           known == [u \in DOMAIN acc.known \cup {link.url} |->
                        IF u = link.url THEN link ELSE acc.known[u]]
           event == [kind |-> IF link.url \in DOMAIN acc.known THEN "update" ELSE "result", link |-> link]
           result == Announce(acc, merged)
<1>1. /\ acc.known \in Known /\ acc.sent \in Seq(LinkEvent)
      /\ acc = [known |-> acc.known, sent |-> acc.sent]
  BY DEF Told
<1>2. \A u \in DOMAIN acc.known : acc.known[u] \in AnswerLink
  BY <1>1, KnownLinks
<1>3. link \in AnswerLink /\ link.url = merged.url /\ (merged.pwd # NoPwd => link.pwd = merged.pwd)
  BY <1>2 DEF KeepPassword, AnswerLink
<1>4. result = IF link.url \in DOMAIN acc.known /\ acc.known[link.url] = link THEN acc
               ELSE [known |-> known, sent |-> Append(acc.sent, event)]
  BY DEF Announce
<1>5. event \in LinkEvent /\ event.link = link
  <2> HIDE DEF link
  <2> QED BY <1>3 DEF LinkEvent
<1> HIDE DEF link, event
<1>6. /\ DOMAIN known = DOMAIN acc.known \cup {link.url} /\ known[link.url] = link
      /\ \A u \in DOMAIN acc.known : u # link.url => known[u] = acc.known[u]
  OBVIOUS
<1> HIDE DEF known, result
<1>7. CASE link.url \in DOMAIN acc.known /\ acc.known[link.url] = link
  <2>1. result = acc
    BY <1>4, <1>7
  <2> QED BY <1>3, <1>7, <2>1 DEF result
<1>8. CASE ~(link.url \in DOMAIN acc.known /\ acc.known[link.url] = link)
  <2>1. result.known = known /\ result.sent = Append(acc.sent, event)
    BY <1>4, <1>8
  <2>2. ToSet(result.sent) = ToSet(acc.sent) \cup {event}
    BY <1>1, <1>5, <2>1, SetOfAppend
  <2>3. ASSUME NEW old, Backed(old, acc) PROVE Backed(old, result)
    <3> SUFFICES ASSUME NEW u \in DOMAIN known
                 PROVE  \/ u \in DOMAIN old /\ old[u] = known[u]
                        \/ \E e \in ToSet(result.sent) : e.link = known[u]
      BY <2>1 DEF Backed
    <3>1. CASE u = link.url
      BY <1>5, <1>6, <2>2, <3>1
    <3>2. CASE u # link.url
      BY <1>6, <2>2, <2>3, <3>2 DEF Backed
    <3> QED BY <3>1, <3>2
  <2> QED BY <1>3, <1>6, <2>1, <2>3 DEF result
<1> QED BY <1>7, <1>8

(* Announcing links with different urls tells every change, and every password *)
(* they have.                                                                 *)
LEMMA AnnouncedSays ==
    ASSUME NEW base \in Told, NEW links \in Seq(AnswerLink),
           \A j, k \in DOMAIN links : links[j].url = links[k].url => j = k
    PROVE  LET told == FoldLeft(Announce, base, links) IN
              /\ Backed(base.known, told)
              /\ \A k \in DOMAIN links :
                    links[k].pwd # NoPwd => told.known[links[k].url].pwd = links[k].pwd
<1> DEFINE n == Len(links)
<1>1. \A a \in Told, c \in AnswerLink : Announce(a, c) \in Told
  BY AnnounceKeeps
<1>2. PICK run \in [0 .. n -> Told] :
         /\ run[0] = base /\ run[n] = FoldLeft(Announce, base, links)
         /\ \A k \in 1 .. n : run[k] = Announce(run[k - 1], links[k])
  BY <1>1, AnnounceRun
<1>3. n \in Nat /\ DOMAIN links = 1 .. n /\ \A k \in 1 .. n : links[k] \in AnswerLink
  OBVIOUS
<1> DEFINE Says(m) == \A k \in 1 .. m : /\ links[k].url \in DOMAIN run[m].known
                                        /\ links[k].pwd # NoPwd =>
                                              run[m].known[links[k].url].pwd = links[k].pwd
           Right == {m \in 0 .. n : Backed(base.known, run[m]) /\ Says(m)}
<1> HIDE DEF n
<1>4. 0 .. n \subseteq Right
  <2>1. 0 \in Right
    <3>1. Backed(base.known, base) /\ 0 \in 0 .. n /\ 1 .. 0 = {}
      BY <1>3 DEF Backed
    <3> QED BY <1>2, <3>1
  <2>2. ASSUME NEW m \in 0 .. n - 1, m \in Right PROVE m + 1 \in Right
    <3>1. m + 1 \in 1 .. n /\ (m + 1) - 1 = m /\ m + 1 \in 0 .. n /\ m \in 0 .. n
      BY <1>3, <2>2
    <3>2. run[m] \in Told /\ links[m + 1] \in AnswerLink /\ run[m + 1] = Announce(run[m], links[m + 1])
      BY <1>2, <1>3, <3>1
    <3>3. /\ DOMAIN run[m + 1].known = DOMAIN run[m].known \cup {links[m + 1].url}
          /\ Backed(base.known, run[m]) => Backed(base.known, run[m + 1])
          /\ \A u \in DOMAIN run[m].known :
                u # links[m + 1].url => run[m + 1].known[u] = run[m].known[u]
          /\ links[m + 1].pwd # NoPwd => run[m + 1].known[links[m + 1].url].pwd = links[m + 1].pwd
      <4> DEFINE a == run[m]
                 c == links[m + 1]
      <4>1. a \in Told /\ c \in AnswerLink /\ run[m + 1] = Announce(a, c)
        BY <3>2
      <4> HIDE DEF a, c
      <4>2. /\ DOMAIN run[m + 1].known = DOMAIN a.known \cup {c.url}
            /\ \A old : Backed(old, a) => Backed(old, run[m + 1])
            /\ \A u \in DOMAIN a.known : u # c.url => run[m + 1].known[u] = a.known[u]
            /\ c.pwd # NoPwd => run[m + 1].known[c.url].pwd = c.pwd
        BY <4>1, AnnounceKeeps, AnnounceSays
      <4> QED BY <4>2 DEF a, c
    <3>4. Backed(base.known, run[m]) /\ Says(m)
      BY <2>2
    <3>5. \A k \in 1 .. m + 1 : k = m + 1 \/ (k \in 1 .. m /\ k \in 1 .. n /\ k # m + 1)
      BY <1>3, <3>1
    <3>6. \A k \in 1 .. m : k \in 1 .. n /\ k # m + 1 => links[k].url # links[m + 1].url
      BY <1>3, <3>1
    <3>7. Says(m + 1)
      BY <3>3, <3>4, <3>5, <3>6
    <3> HIDE DEF Says
    <3> QED BY <3>1, <3>3, <3>4, <3>7
  <2> HIDE DEF Right
  <2> QED BY <1>3, <2>1, <2>2, UpTo
<1>5. n \in 0 .. n
  BY <1>3
<1> QED BY <1>2, <1>3, <1>4, <1>5

-----------------------------------------------------------------------------
(* The invariant of the run.                                                  *)
(* What the run keeps.  The batches are rows of Row, one batch per source;    *)
(* without clashes of row ids each batch has rows of its own, and every url   *)
(* among them has been announced.  Until the end the batches are the answers  *)
(* of their sources, and at the end they stand in source order, the outcome is *)
(* their ranked merge, and the last link announced for a url has the password *)
(* on which its newest rows agree.                                            *)
AllRows(bs) == FlattenSeq([k \in DOMAIN bs |-> bs[k][2]])
UrlsOf(rows) == {c.url : c \in ToSet(Candidates(rows))}
Own(bs) == \A b \in ToSet(bs) : Distinct(b[2]) /\ Keys(b[2]) \subseteq RowIds(b[1])

StreamType ==
    found \in Found /\ batches \in Seq(Batch) /\ emitted \in Known /\ ended \in BOOLEAN
AllAnnounced == DistinctIds => Own(batches) /\ DOMAIN emitted = UrlsOf(AllRows(batches))
StillAnswers == ~ended => \A k \in DOMAIN batches : batches[k][2] = Answer(batches[k][1])
EndsInOrder ==
    ended => /\ \A j, k \in DOMAIN batches : j < k => batches[j][1] < batches[k][1]
             /\ outcome = MergeLinks(Rank(RowsOf(batches)))

EndsAnnounced ==
    (ended /\ DistinctIds) =>
        \A u \in DOMAIN emitted : NewestCode(emitted[u], ToSet(Candidates(AllRows(batches))))

StreamInv ==
    /\ StreamType /\ OneEach(batches) /\ AllAnnounced
    /\ StillAnswers /\ EndsInOrder /\ EndsAnnounced

(* Whether rows know a password does not depend on their order.               *)
LEMMA KnowsCodeOfSet ==
    ASSUME NEW rows, NEW u
    PROVE  KnowsCode(rows, u) <=> \E r \in ToSet(rows) : Knows(r.links, u)
BY DEF KnowsCode, ToSet

(* A batch of rows of source i.                                               *)
LEMMA BatchKeeps ==
    ASSUME NEW i \in Source, NEW rows \in Seq(Row), OfSource(rows, i)
    PROVE  /\ BatchOf(i, rows) \in Seq(Row) /\ Keys(BatchOf(i, rows)) \subseteq Keys(rows)
           /\ (i \in Telegram => Distinct(rows)) => Distinct(BatchOf(i, rows))
           /\ \A u : KnowsCode(rows, u) => KnowsCode(BatchOf(i, rows), u)
<1> DEFINE kept == IF i \in Telegram THEN rows ELSE FinishRows(rows)
<1>1. /\ kept \in Seq(Row) /\ Keys(kept) \subseteq Keys(rows)
      /\ (i \in Telegram => Distinct(rows)) => Distinct(kept)
      /\ \A u : KnowsCode(rows, u) => KnowsCode(kept, u)
  <2>1. CASE i \in Telegram
    BY <2>1
  <2>2. CASE i \notin Telegram
    <3>1. kept = FinishRows(rows)
      BY <2>2
    <3> HIDE DEF kept
    <3> QED BY <2>2, <3>1, FinishedRows
  <2> QED BY <2>1, <2>2
<1>2. BatchOf(i, rows) = Rank(kept)
  BY DEF BatchOf
<1> HIDE DEF kept
<1>3. /\ Rank(kept) \in Seq(Row) /\ ToSet(Rank(kept)) = ToSet(kept) /\ Keys(Rank(kept)) = Keys(kept)
      /\ Distinct(kept) => Distinct(Rank(kept))
  BY <1>1, RankPermutes
<1>4. \A u : KnowsCode(kept, u) => KnowsCode(Rank(kept), u)
  BY <1>3, KnowsCodeOfSet
<1> QED BY <1>1, <1>2, <1>3, <1>4

(* What a source finds are rows that name it.                                 *)
LEMMA FoundRows ==
    ASSUME found \in Found, NEW i \in Source
    PROVE  found[i] \in Seq(Row) /\ OfSource(found[i], i) /\ RowIds(i) = Keys(found[i])
BY FoundAssumption DEF OfSource, RowIds, Keys

(* What source i answers, and what it leaves when it is cut off.              *)
LEMMA AnswerKeeps ==
    ASSUME found \in Found, NEW i \in Source
    PROVE  /\ Answer(i) \in Seq(Row) /\ Keys(Answer(i)) \subseteq RowIds(i)
           /\ DistinctIds => Distinct(Answer(i))
           /\ i \notin Telegram \cap Failing =>
                 \A u : KnowsCode(found[i], u) => KnowsCode(Answer(i), u)
<1> DEFINE rows == IF i \in Telegram \cap Failing THEN <<>> ELSE found[i]
<1>1. found[i] \in Seq(Row) /\ OfSource(found[i], i) /\ RowIds(i) = Keys(found[i])
  BY FoundRows
<1>2. DistinctIds /\ i \in Telegram => Distinct(found[i])
  BY DEF DistinctIds, Distinct
<1>3. /\ rows \in Seq(Row) /\ OfSource(rows, i) /\ Keys(rows) \subseteq RowIds(i)
      /\ DistinctIds /\ i \in Telegram => Distinct(rows)
  <2>1. CASE i \in Telegram \cap Failing
    <3>1. rows = <<>> /\ DOMAIN rows = {}
      BY <2>1
    <3> HIDE DEF rows
    <3>2. rows \in Seq(Row)
      BY <3>1
    <3> QED BY <3>1, <3>2 DEF OfSource, Keys, Distinct
  <2>2. CASE i \notin Telegram \cap Failing
    BY <1>1, <1>2, <2>2
  <2> QED BY <2>1, <2>2
<1>4. Answer(i) = BatchOf(i, rows)
  BY DEF Answer
<1>5. i \notin Telegram \cap Failing => rows = found[i]
  OBVIOUS
<1> HIDE DEF rows
<1> QED BY <1>3, <1>4, <1>5, BatchKeeps

(* What a provider leaves that is cut off: rows with keys of its own.         *)
LEMMA CutKeeps ==
    ASSUME found \in Found, NEW i \in Source \ Telegram, NEW m \in 0 .. Len(found[i])
    PROVE  /\ BatchOf(i, SubSeq(found[i], 1, m)) \in Seq(Row)
           /\ Keys(BatchOf(i, SubSeq(found[i], 1, m))) \subseteq RowIds(i)
           /\ Distinct(BatchOf(i, SubSeq(found[i], 1, m)))
<1> DEFINE rows == SubSeq(found[i], 1, m)
<1>1. found[i] \in Seq(Row) /\ OfSource(found[i], i) /\ RowIds(i) = Keys(found[i])
  BY FoundRows
<1>2. /\ rows \in Seq(Row) /\ DOMAIN rows = 1 .. m
      /\ \A k \in 1 .. m : rows[k] = found[i][k] /\ k \in DOMAIN found[i]
  <2>1. m \in Nat /\ m <= Len(found[i]) /\ Len(found[i]) \in Nat
    BY <1>1
  <2> QED BY <1>1, <2>1
<1> HIDE DEF rows
<1>3. OfSource(rows, i) /\ Keys(rows) \subseteq RowIds(i)
  BY <1>1, <1>2 DEF OfSource, Keys
<1> QED BY <1>2, <1>3, BatchKeeps DEF rows

(* The rows of the batches, and that merging them drops none when no two      *)
(* share a key.                                                               *)
LEMMA RowsOfBatches ==
    ASSUME NEW bs \in Seq(Batch)
    PROVE  /\ AllRows(bs) \in Seq(Row) /\ RowsOf(bs) \in Seq(Row)
           /\ \A r : r \in ToSet(AllRows(bs)) <=> \E b \in ToSet(bs) : r \in ToSet(b[2])
           /\ OneEach(bs) /\ DistinctIds /\ Own(bs) => RowsOf(bs) = AllRows(bs)
<1> DEFINE ss == [k \in DOMAIN bs |-> bs[k][2]]
           n == Len(bs)
<1>1. n \in Nat /\ DOMAIN bs = 1 .. n /\ \A k \in 1 .. n : bs[k] \in Batch
  OBVIOUS
<1>2. \A k \in 1 .. n : bs[k][1] \in Source /\ bs[k][2] \in Seq(Row)
  BY <1>1 DEF Batch
<1>3. ss \in Seq(Seq(Row)) /\ Len(ss) = n /\ DOMAIN ss = 1 .. n /\ \A k \in 1 .. n : ss[k] = bs[k][2]
  BY <1>1, <1>2
<1>4. AllRows(bs) = FlattenSeq(ss) /\ RowsOf(bs) = FoldLeft(MergeRow, <<>>, FlattenSeq(ss))
  BY DEF AllRows, RowsOf, MergeSearchResults
<1> HIDE DEF ss, n
<1>5. /\ FlattenSeq(ss) \in Seq(Row)
      /\ \A r : r \in ToSet(FlattenSeq(ss)) <=> \E k \in 1 .. n : r \in ToSet(ss[k])
  BY <1>3, SetOfFlatten
<1>6. ASSUME NEW r
      PROVE  r \in ToSet(AllRows(bs)) <=> \E b \in ToSet(bs) : r \in ToSet(b[2])
  <2>1. r \in ToSet(AllRows(bs)) <=> \E k \in 1 .. n : r \in ToSet(ss[k])
    BY <1>4, <1>5
  <2>2. \A k \in 1 .. n : r \in ToSet(ss[k]) <=> r \in ToSet(bs[k][2])
    BY <1>3
  <2>3. \A b : b \in ToSet(bs) <=> \E k \in 1 .. n : b = bs[k]
    BY <1>1 DEF ToSet
  <2> QED BY <2>1, <2>2, <2>3
<1>7. ASSUME OneEach(bs), DistinctIds, Own(bs) PROVE Distinct(FlattenSeq(ss))
  <2>1. \A k \in 1 .. n : Distinct(ss[k]) /\ Keys(ss[k]) \subseteq RowIds(bs[k][1])
    BY <1>1, <1>3, <1>7 DEF Own, ToSet
  <2>2. ASSUME NEW j \in 1 .. n, NEW k \in 1 .. n, j # k PROVE Keys(ss[j]) \cap Keys(ss[k]) = {}
    <3>1. bs[j][1] # bs[k][1]
      BY <1>1, <1>7, <2>2 DEF OneEach
    <3>2. RowIds(bs[j][1]) \cap RowIds(bs[k][1]) = {}
      BY <1>2, <1>7, <3>1 DEF DistinctIds
    <3> QED BY <2>1, <3>2
  <2> QED BY <1>3, <2>1, <2>2, DistinctFlatten
<1> QED BY <1>4, <1>5, <1>6, <1>7, MergeRowsTyped

(* More batches have more urls.                                               *)
LEMMA UrlsGrow ==
    ASSUME NEW bs \in Seq(Batch), NEW cs \in Seq(Batch), ToSet(bs) \subseteq ToSet(cs)
    PROVE  UrlsOf(AllRows(bs)) \subseteq UrlsOf(AllRows(cs))
<1> DEFINE a == AllRows(bs)
           b == AllRows(cs)
<1>1. a \in Seq(Row) /\ b \in Seq(Row) /\ \A r : r \in ToSet(a) => r \in ToSet(b)
  <2>1. a \in Seq(Row) /\ \A r : r \in ToSet(a) <=> \E x \in ToSet(bs) : r \in ToSet(x[2])
    BY RowsOfBatches
  <2>2. b \in Seq(Row) /\ \A r : r \in ToSet(b) <=> \E x \in ToSet(cs) : r \in ToSet(x[2])
    BY RowsOfBatches
  <2> HIDE DEF a, b
  <2> QED BY <2>1, <2>2
<1> HIDE DEF a, b
<1>2. ASSUME NEW c \in ToSet(Candidates(a)) PROVE c \in ToSet(Candidates(b))
  <2>1. PICK r \in ToSet(a) : \E j \in DOMAIN r.links : c = Candidate(r, r.links[j])
    BY <1>1, CandidateSet
  <2>2. r \in ToSet(b)
    BY <1>1
  <2> QED BY <1>1, <2>1, <2>2, CandidateSet
<1>3. UrlsOf(a) \subseteq UrlsOf(b)
  BY <1>2 DEF UrlsOf
<1> QED BY <1>3 DEF a, b

(* merge_links has the urls of its candidates.                                *)
LEMMA UrlsOfMerge ==
    ASSUME NEW rows \in Seq(Row)
    PROVE  Urls(MergeLinks(rows)) = UrlsOf(rows)
BY MergedRows DEF Merges, Urls, UrlsOf

(* A round of announcements adds the urls of all rows accepted so far.        *)
LEMMA PublishesLinks ==
    ASSUME NEW bs \in Seq(Batch), NEW first, emitted \in Known, Publishes(bs, first)
    PROVE  /\ emitted' \in Known /\ PasswordsKept(emitted, emitted')
           /\ DOMAIN emitted' = DOMAIN emitted \cup UrlsOf(RowsOf(bs))
<1> DEFINE rows == RowsOf(bs)
           base == [known |-> emitted, sent |-> <<>>]
           links == MergeLinks(rows)
           announced == FoldLeft(Announce, base, links)
<1>1. rows \in Seq(Row)
  BY RowsOfBatches
<1>2. emitted' = announced.known
  BY DEF Publishes
<1>3. base \in Told /\ base.known = emitted
  <2>1. <<>> \in Seq(LinkEvent)
    OBVIOUS
  <2> QED BY <2>1 DEF Told
<1> HIDE DEF rows, base
<1>4. links \in Seq(AnswerLink) /\ Urls(links) = UrlsOf(rows)
  BY <1>1, MergedRows, UrlsOfMerge
<1> HIDE DEF links
<1>5. /\ announced \in Told /\ DOMAIN announced.known = DOMAIN base.known \cup Urls(links)
      /\ PasswordsKept(base.known, announced.known)
  BY <1>3, <1>4, Announced
<1> HIDE DEF announced
<1>6. announced.known \in Known
  BY <1>5 DEF Told
<1> QED BY <1>2, <1>3, <1>4, <1>5, <1>6 DEF rows

(* Events that tell every change of what is known.                            *)
Tells(more) ==
    \A u \in DOMAIN emitted' :
        \/ u \in DOMAIN emitted /\ emitted[u] = emitted'[u]
        \/ \E e \in ToSet(more) : e.kind # "error" /\ e.link = emitted'[u]

(* A round tells every change, and leaves known the passwords of the merge.   *)
LEMMA PublishesSays ==
    ASSUME NEW bs \in Seq(Batch), NEW first, emitted \in Known, Publishes(bs, first)
    PROVE  /\ \E more \in Seq(LinkEvent) : events' = events \o first \o more /\ Tells(more)
           /\ LET links == MergeLinks(RowsOf(bs)) IN
                 \A k \in DOMAIN links :
                     links[k].pwd # NoPwd => emitted'[links[k].url].pwd = links[k].pwd
<1> DEFINE rows == RowsOf(bs)
           base == [known |-> emitted, sent |-> <<>>]
           links == MergeLinks(rows)
           told == FoldLeft(Announce, base, links)
<1>1. rows \in Seq(Row)
  BY RowsOfBatches
<1>2. emitted' = told.known /\ events' = events \o first \o told.sent
  BY DEF Publishes
<1>3. base \in Told /\ base.known = emitted
  <2>1. <<>> \in Seq(LinkEvent)
    OBVIOUS
  <2> QED BY <2>1 DEF Told
<1> HIDE DEF rows, base
<1>4. links \in Seq(AnswerLink) /\ \A j, k \in DOMAIN links : links[j].url = links[k].url => j = k
  <2>1. links \in Seq(AnswerLink) /\ Merges(links, ToSet(Candidates(rows)))
    BY <1>1, MergedRows
  <2> HIDE DEF links
  <2> QED BY <2>1 DEF Merges
<1> HIDE DEF links
<1>5. told \in Told
  BY <1>3, <1>4, Announced
<1>6. /\ Backed(base.known, told)
      /\ \A k \in DOMAIN links : links[k].pwd # NoPwd => told.known[links[k].url].pwd = links[k].pwd
  BY <1>3, <1>4, AnnouncedSays
<1> HIDE DEF told
<1>7. told.sent \in Seq(LinkEvent)
  BY <1>5 DEF Told
<1>8. \A e \in ToSet(told.sent) : e.kind # "error"
  <2>1. \A e \in LinkEvent : e.kind # "error"
    BY DEF LinkEvent
  <2> QED BY <1>7, <2>1, ElementOfSeq DEF ToSet
<1>9. Tells(told.sent)
  BY <1>2, <1>3, <1>6, <1>8 DEF Backed, Tells
<1>10. \E more \in Seq(LinkEvent) : events' = events \o first \o more /\ Tells(more)
  BY <1>2, <1>7, <1>9
<1> QED BY <1>2, <1>6, <1>10 DEF links, rows

(* Batches of different sources, put together from two parts.                 *)
LEMMA OneEachConcat ==
    ASSUME NEW s \in Seq(Batch), NEW t \in Seq(Batch), OneEach(s), OneEach(t),
           \A j \in DOMAIN s, k \in DOMAIN t : s[j][1] # t[k][1]
    PROVE  OneEach(s \o t)
<1> DEFINE m == Len(s)
           n == Len(t)
           c == s \o t
<1>1. /\ c \in Seq(Batch) /\ Len(c) = m + n
      /\ \A k \in 1 .. m + n : c[k] = IF k <= m THEN s[k] ELSE t[k - m]
  BY ConcatProperties
<1>2. m \in Nat /\ n \in Nat /\ DOMAIN s = 1 .. m /\ DOMAIN t = 1 .. n
  OBVIOUS
<1>3. DOMAIN c = 1 .. m + n
  BY <1>1
<1> HIDE DEF m, n, c
<1>4. \A k \in 1 .. m + n : \/ k \in 1 .. m /\ c[k] = s[k]
                            \/ k - m \in 1 .. n /\ c[k] = t[k - m]
  <2> TAKE k \in 1 .. m + n
  <2>1. CASE k <= m
    BY <1>1, <1>2, <2>1
  <2>2. CASE ~(k <= m)
    <3>1. k - m \in 1 .. n
      BY <1>2, <2>2
    <3> QED BY <1>1, <2>2, <3>1
  <2> QED BY <2>1, <2>2
<1>5. ASSUME NEW j \in 1 .. m + n, NEW k \in 1 .. m + n, c[j][1] = c[k][1] PROVE j = k
  <2>1. CASE j \in 1 .. m /\ c[j] = s[j]
    <3>1. k \in 1 .. m /\ c[k] = s[k]
      BY <1>2, <1>4, <1>5, <2>1
    <3> QED BY <1>2, <1>5, <2>1, <3>1 DEF OneEach
  <2>2. CASE j - m \in 1 .. n /\ c[j] = t[j - m]
    <3>1. k - m \in 1 .. n /\ c[k] = t[k - m]
      BY <1>2, <1>4, <1>5, <2>2
    <3>2. j - m = k - m
      BY <1>2, <1>5, <2>2, <3>1 DEF OneEach
    <3> QED BY <1>2, <3>2
  <2> QED BY <1>4, <2>1, <2>2
<1>6. OneEach(c)
  BY <1>3, <1>5 DEF OneEach
<1> QED BY <1>6 DEF c

(* Batches in source order are of different sources.                          *)
LEMMA IncreasingOneEach ==
    ASSUME NEW bs \in Seq(Batch), \A j, k \in DOMAIN bs : j < k => bs[j][1] < bs[k][1]
    PROVE  OneEach(bs)
<1> SUFFICES ASSUME NEW j \in DOMAIN bs, NEW k \in DOMAIN bs, bs[j][1] = bs[k][1], j # k PROVE FALSE
  BY DEF OneEach
<1>1. j \in Nat /\ k \in Nat
  OBVIOUS
<1>2. bs[j][1] \in Nat /\ bs[k][1] \in Nat
  <2>1. bs[j] \in Batch /\ bs[k] \in Batch
    OBVIOUS
  <2> QED BY <2>1 DEF Batch, Source
<1>3. j < k \/ k < j
  BY <1>1
<1> QED BY <1>2, <1>3

(* The invariant holds before any source has answered.                        *)
LEMMA InitStream == StreamInit => StreamInv
<1> SUFFICES ASSUME StreamInit PROVE StreamInv
  OBVIOUS
<1>1. batches = <<>> /\ DOMAIN batches = {} /\ batches \in Seq(Batch) /\ ToSet(batches) = {}
  BY DEF StreamInit, ToSet
<1>2. emitted \in Known /\ DOMAIN emitted = {}
  <2>1. DOMAIN emitted = {} /\ emitted = [u \in DOMAIN emitted |-> emitted[u]]
    BY DEF StreamInit
  <2> QED BY <2>1, KnownLinks
<1>3. StreamType
  BY <1>1, <1>2 DEF StreamInit, StreamType
<1>4. AllAnnounced
  <2>1. AllRows(batches) \in Seq(Row) /\ \A r : r \notin ToSet(AllRows(batches))
    BY <1>1, RowsOfBatches
  <2>2. \A c : c \notin ToSet(Candidates(AllRows(batches)))
    BY <2>1, CandidateSet
  <2>3. UrlsOf(AllRows(batches)) = {}
    BY <2>2 DEF UrlsOf
  <2> QED BY <1>1, <1>2, <2>3 DEF AllAnnounced, Own
<1>5. OneEach(batches) /\ StillAnswers /\ EndsInOrder /\ EndsAnnounced
  <2>1. ~ended
    BY DEF StreamInit
  <2> QED BY <1>1, <2>1 DEF OneEach, StillAnswers, EndsInOrder, EndsAnnounced
<1> QED BY <1>3, <1>4, <1>5 DEF StreamInv

(* Accepting the batch of a source keeps the invariant and every announced    *)
(* password.                                                                  *)
LEMMA AcceptKeeps ==
    ASSUME StreamInv, NEW i \in Source, AcceptBatch(i)
    PROVE  StreamInv' /\ PasswordsKept(emitted, emitted')
<1> DEFINE new == <<i, Answer(i)>>
<1>1. found \in Found /\ batches \in Seq(Batch) /\ emitted \in Known /\ ended = FALSE
  BY DEF StreamInv, StreamType, AcceptBatch
<1>2. found' = found /\ ended' = FALSE /\ batches' = Append(batches, new)
  BY <1>1 DEF AcceptBatch
<1>3. /\ Answer(i) \in Seq(Row) /\ Keys(Answer(i)) \subseteq RowIds(i)
      /\ DistinctIds => Distinct(Answer(i))
  BY <1>1, AnswerKeeps
<1>4. new \in Batch /\ new[1] = i /\ new[2] = Answer(i)
  BY <1>3 DEF Batch
<1> HIDE DEF new
<1>5. /\ batches' \in Seq(Batch) /\ DOMAIN batches' = 1 .. Len(batches) + 1
      /\ batches'[Len(batches) + 1] = new
      /\ \A k \in 1 .. Len(batches) : batches'[k] = batches[k]
      /\ DOMAIN batches = 1 .. Len(batches) /\ Len(batches) \in Nat
  BY <1>1, <1>2, <1>4
<1>6. ToSet(batches') = ToSet(batches) \cup {new}
  BY <1>1, <1>2, <1>4, SetOfAppend
<1>7. \A k \in 1 .. Len(batches) + 1 : k \in 1 .. Len(batches) \/ k = Len(batches) + 1
  BY <1>5
<1>8. OneEach(batches')
  <2>1. \A k \in 1 .. Len(batches) : batches[k][1] # i
    BY <1>5 DEF AcceptBatch, Accepted
  <2>2. OneEach(batches)
    BY DEF StreamInv
  <2> QED BY <1>4, <1>5, <1>7, <2>1, <2>2 DEF OneEach
<1>9. DistinctIds => Own(batches')
  <2>1. DistinctIds => Own(batches)
    BY DEF StreamInv, AllAnnounced
  <2> QED BY <1>3, <1>4, <1>6, <2>1 DEF Own
<1>10. PICK first : Publishes(batches', first)
  BY DEF AcceptBatch
<1>11. /\ emitted' \in Known /\ PasswordsKept(emitted, emitted')
       /\ DOMAIN emitted' = DOMAIN emitted \cup UrlsOf(RowsOf(batches'))
  BY <1>1, <1>5, <1>10, PublishesLinks
<1>12. DistinctIds => DOMAIN emitted' = UrlsOf(AllRows(batches'))
  <2>1. UrlsOf(AllRows(batches)) \subseteq UrlsOf(AllRows(batches'))
    BY <1>1, <1>5, <1>6, UrlsGrow
  <2>2. DistinctIds => RowsOf(batches') = AllRows(batches')
    BY <1>5, <1>8, <1>9, RowsOfBatches
  <2>3. DistinctIds => DOMAIN emitted = UrlsOf(AllRows(batches))
    BY DEF StreamInv, AllAnnounced
  <2> QED BY <1>11, <2>1, <2>2, <2>3
<1>13. DistinctIds' = DistinctIds /\ Own(batches)' = Own(batches')
  BY <1>2 DEF DistinctIds, Own, RowIds
<1>14. StreamType'
  BY <1>1, <1>2, <1>5, <1>11 DEF StreamType
<1>15. AllAnnounced'
  <2>1. AllAnnounced' = (DistinctIds' => Own(batches)' /\ DOMAIN emitted' = UrlsOf(AllRows(batches')))
    BY DEF AllAnnounced
  <2> QED BY <1>9, <1>12, <1>13, <2>1
<1>16. StillAnswers'
  <2>1. \A j : Answer(j)' = Answer(j)
    BY <1>2 DEF Answer
  <2>2. \A k \in 1 .. Len(batches) : batches[k][2] = Answer(batches[k][1])
    BY <1>1, <1>5 DEF StreamInv, StillAnswers
  <2>3. \A k \in DOMAIN batches' : batches'[k][2] = Answer(batches'[k][1])
    BY <1>4, <1>5, <1>7, <2>2
  <2> QED BY <2>1, <2>3 DEF StillAnswers
<1>17. EndsInOrder' /\ EndsAnnounced'
  BY <1>2 DEF EndsInOrder, EndsAnnounced
<1>18. OneEach(batches)'
  BY <1>8 DEF OneEach
<1> QED BY <1>11, <1>14, <1>15, <1>16, <1>17, <1>18 DEF StreamInv

(* The end of the run, with providers cut off anywhere, keeps both as well.   *)
LEMMA EndKeeps ==
    ASSUME StreamInv, NEW cut \in SUBSET Unfinished, NEW published, EndStream(cut, published)
    PROVE  StreamInv' /\ PasswordsKept(emitted, emitted')
<1> DEFINE left == SetToSeq(cut)
           rest(k) == BatchOf(left[k], SubSeq(found[left[k]], 1, published[left[k]]))
           late == [k \in DOMAIN left |-> <<left[k], rest(k)>>]
           all == batches \o late
<1>1. found \in Found /\ batches \in Seq(Batch) /\ emitted \in Known
  BY DEF StreamInv, StreamType
<1>2. found' = found /\ ended' = TRUE /\ batches' = InSourceOrder(all)
      /\ outcome' = MergeLinks(Rank(RowsOf(batches')))
  BY DEF EndStream
<1>3. left \in Seq(cut) /\ \A j, k \in 1 .. Len(left) : left[j] = left[k] => j = k
  <2>1. IsFiniteSet(cut)
    <3>1. cut \in SUBSET (1 .. NumSources) /\ NumSources \in Nat
      BY StreamAssumption DEF Unfinished, Source
    <3>2. IsFiniteSet(1 .. NumSources)
      BY <3>1, FS_Interval
    <3> QED BY <3>1, <3>2, FS_Subset
  <2> QED BY <2>1, SetListed
<1> HIDE DEF left
<1>4. ASSUME NEW k \in 1 .. Len(left)
      PROVE  /\ left[k] \in cut /\ left[k] \in Source \ Telegram /\ left[k] \notin Accepted
             /\ rest(k) \in Seq(Row) /\ Keys(rest(k)) \subseteq RowIds(left[k]) /\ Distinct(rest(k))
  <2>1. left[k] \in cut
    BY <1>3
  <2>2. left[k] \in Source \ Telegram /\ left[k] \notin Accepted
    BY <2>1 DEF Unfinished
  <2>3. published[left[k]] \in 0 .. Len(found[left[k]])
    BY <2>1 DEF EndStream
  <2> QED BY <1>1, <2>1, <2>2, <2>3, CutKeeps
<1> HIDE DEF rest
<1>5. /\ late \in Seq(Batch) /\ DOMAIN late = 1 .. Len(left)
      /\ \A k \in 1 .. Len(left) : late[k][1] = left[k] /\ late[k][2] = rest(k)
  <2>1. DOMAIN left = 1 .. Len(left) /\ Len(left) \in Nat
    BY <1>3
  <2>2. \A k \in 1 .. Len(left) : <<left[k], rest(k)>> \in Batch
    BY <1>4 DEF Batch
  <2> QED BY <2>1, <2>2
<1> HIDE DEF late
<1>6. all \in Seq(Batch) /\ ToSet(all) = ToSet(batches) \cup ToSet(late)
  BY <1>1, <1>5, SetOfConcat
<1>7. OneEach(all)
  <2>1. OneEach(late)
    BY <1>3, <1>5 DEF OneEach
  <2>2. \A j \in DOMAIN batches, k \in DOMAIN late : batches[j][1] # late[k][1]
    BY <1>4, <1>5 DEF Accepted
  <2>3. OneEach(batches)
    BY DEF StreamInv
  <2> QED BY <1>1, <1>5, <2>1, <2>2, <2>3, OneEachConcat
<1>8. DistinctIds => Own(all)
  <2>1. DistinctIds => Own(batches)
    BY DEF StreamInv, AllAnnounced
  <2>2. ASSUME NEW b \in ToSet(late) PROVE Distinct(b[2]) /\ Keys(b[2]) \subseteq RowIds(b[1])
    <3>1. PICK k \in 1 .. Len(left) : b = late[k]
      BY <1>5 DEF ToSet
    <3> QED BY <1>4, <1>5, <3>1
  <2> QED BY <1>6, <2>1, <2>2 DEF Own
<1> HIDE DEF all
<1>9. /\ batches' \in Seq(Batch) /\ ToSet(batches') = ToSet(all)
      /\ \A j, k \in DOMAIN batches' : j < k => batches'[j][1] < batches'[k][1]
  BY <1>2, <1>6, <1>7, SourceOrderSorts
<1>10. OneEach(batches')
  BY <1>9, IncreasingOneEach
<1>11. DistinctIds => Own(batches')
  BY <1>8, <1>9 DEF Own
<1>12. Publishes(batches', <<>>)
  BY DEF EndStream
<1>13. /\ emitted' \in Known /\ PasswordsKept(emitted, emitted')
       /\ DOMAIN emitted' = DOMAIN emitted \cup UrlsOf(RowsOf(batches'))
  BY <1>1, <1>9, <1>12, PublishesLinks
<1>14. DistinctIds => DOMAIN emitted' = UrlsOf(AllRows(batches'))
  <2>1. UrlsOf(AllRows(batches)) \subseteq UrlsOf(AllRows(batches'))
    BY <1>1, <1>6, <1>9, UrlsGrow
  <2>2. DistinctIds => RowsOf(batches') = AllRows(batches')
    BY <1>9, <1>10, <1>11, RowsOfBatches
  <2>3. DistinctIds => DOMAIN emitted = UrlsOf(AllRows(batches))
    BY DEF StreamInv, AllAnnounced
  <2> QED BY <1>13, <2>1, <2>2, <2>3
<1>15. DistinctIds' = DistinctIds /\ Own(batches)' = Own(batches')
  BY <1>2 DEF DistinctIds, Own, RowIds
<1>16. StreamType'
  BY <1>1, <1>2, <1>9, <1>13 DEF StreamType
<1>17. AllAnnounced'
  <2>1. AllAnnounced' = (DistinctIds' => Own(batches)' /\ DOMAIN emitted' = UrlsOf(AllRows(batches')))
    BY DEF AllAnnounced
  <2> QED BY <1>11, <1>14, <1>15, <2>1
<1>18. StillAnswers'
  BY <1>2 DEF StillAnswers
<1>19. EndsInOrder'
  <2>1. RowsOf(batches)' = RowsOf(batches')
    BY DEF RowsOf
  <2> QED BY <1>2, <1>9, <2>1 DEF EndsInOrder
<1>20. OneEach(batches)'
  BY <1>10 DEF OneEach
<1>21. EndsAnnounced'
  <2> DEFINE rows == RowsOf(batches')
             links == MergeLinks(rows)
             C == ToSet(Candidates(rows))
  <2> SUFFICES ASSUME DistinctIds, NEW u \in DOMAIN emitted'
               PROVE  NewestCode(emitted'[u], ToSet(Candidates(AllRows(batches'))))
    <3>1. AllRows(batches)' = AllRows(batches')
      BY DEF AllRows
    <3> QED BY <1>15, <3>1 DEF EndsAnnounced, NewestCode
  <2>1. rows = AllRows(batches') /\ rows \in Seq(Row)
    BY <1>9, <1>10, <1>11, RowsOfBatches
  <2>2. u \in {c.url : c \in C} /\ emitted'[u].url = u
    <3>1. DOMAIN emitted' = {c.url : c \in C}
      BY <1>14, <2>1 DEF UrlsOf
    <3>2. emitted'[u].url = u
      BY <1>13, KnownLinks
    <3> QED BY <3>1, <3>2
  <2>3. /\ links \in Seq(AnswerLink) /\ Merges(links, C)
        /\ \A k \in DOMAIN links :
               links[k].pwd # NoPwd => emitted'[links[k].url].pwd = links[k].pwd
    BY <1>1, <1>9, <1>12, <2>1, MergedRows, PublishesSays
  <2> HIDE DEF links, C
  <2>4. PICK k \in DOMAIN links : links[k].url = u
    BY <2>2, <2>3 DEF Merges
  <2>5. NewestCode(links[k], C)
    BY <2>3, MergesNewest
  <2>6. NewestCode(emitted'[u], C)
    BY <2>2, <2>3, <2>4, <2>5 DEF NewestCode
  <2> QED BY <2>1, <2>6 DEF C
<1> QED BY <1>13, <1>16, <1>17, <1>18, <1>19, <1>20, <1>21 DEF StreamInv

(* A step that touches neither what was found nor what was answered.          *)
LEMMA StreamUntouched ==
    ASSUME StreamInv, UNCHANGED <<found, batches, emitted, ended, outcome>>
    PROVE  StreamInv'
<1>1. StreamType' /\ OneEach(batches)'
  BY DEF StreamInv, StreamType, OneEach
<1>2. AllAnnounced'
  <2>1. DistinctIds' = DistinctIds /\ Own(batches)' = Own(batches)
    BY DEF DistinctIds, Own, RowIds
  <2>2. UrlsOf(AllRows(batches))' = UrlsOf(AllRows(batches))
    BY DEF UrlsOf, AllRows
  <2> QED BY <2>1, <2>2 DEF StreamInv, AllAnnounced
<1>3. StillAnswers'
  <2>1. \A j : Answer(j)' = Answer(j)
    BY DEF Answer
  <2> QED BY <2>1 DEF StreamInv, StillAnswers
<1>4. EndsInOrder'
  <2>1. RowsOf(batches)' = RowsOf(batches)
    BY DEF RowsOf
  <2> QED BY <2>1 DEF StreamInv, EndsInOrder
<1>5. EndsAnnounced'
  <2>1. DistinctIds' = DistinctIds /\ AllRows(batches)' = AllRows(batches)
    BY DEF DistinctIds, RowIds, AllRows
  <2> QED BY <2>1 DEF StreamInv, EndsAnnounced, NewestCode
<1> QED BY <1>1, <1>2, <1>3, <1>4, <1>5 DEF StreamInv

(* Every step keeps the invariant, and the passwords announced before.                                                        *)
LEMMA StreamStep ==
    ASSUME StreamInv, [StreamNext]_streamVars
    PROVE  StreamInv' /\ PasswordsKept(emitted, emitted')
<1>1. ASSUME NEW i \in Source, AcceptBatch(i) PROVE StreamInv' /\ PasswordsKept(emitted, emitted')
  BY <1>1, AcceptKeeps
<1>2. CASE StreamEnds
  <2>1. PICK cut \in SUBSET Unfinished :
           \E published \in [cut -> 0 .. MaxRows] : EndStream(cut, published)
    BY <1>2, Zenon DEF StreamEnds
  <2>2. PICK published \in [cut -> 0 .. MaxRows] : EndStream(cut, published)
    BY <2>1
  <2> QED BY <2>2, EndKeeps
<1>3. CASE UNCHANGED streamVars
  <2>1. UNCHANGED <<found, batches, emitted, ended, outcome>>
    BY <1>3 DEF streamVars
  <2>2. PasswordsKept(emitted, emitted')
    BY <2>1 DEF PasswordsKept
  <2> QED BY <2>1, <2>2, StreamUntouched
<1> QED BY <1>1, <1>2, <1>3 DEF StreamNext, StreamDone

(* What a step sends: links, and failures of sources.                         *)
StreamEvent == LinkEvent \cup [kind : {"error"}, source : Source]

(* What a step of the search adds to its channel tells every change.          *)
LEMMA StepTells ==
    ASSUME StreamInv, (\E i \in Source : AcceptBatch(i)) \/ StreamEnds, events \in Seq(StreamEvent)
    PROVE  \E more \in Seq(StreamEvent) : events' = events \o more /\ Tells(more)
<1>1. batches \in Seq(Batch) /\ emitted \in Known /\ StreamInv'
  BY StreamStep DEF StreamInv, StreamType, StreamNext
<1>2. batches' \in Seq(Batch)
  BY <1>1 DEF StreamInv, StreamType
<1>3. PICK first \in Seq(StreamEvent) : Publishes(batches', first)
  <2>1. ASSUME NEW i \in Source, AcceptBatch(i)
        PROVE  \E first \in Seq(StreamEvent) : Publishes(batches', first)
    <3> DEFINE first == IF i \in Failing THEN <<[kind |-> "error", source |-> i]>> ELSE <<>>
    <3>1. first \in Seq(StreamEvent)
      <4>1. [kind |-> "error", source |-> i] \in StreamEvent
        BY DEF StreamEvent
      <4> QED BY <4>1
    <3>2. Publishes(batches', first)
      BY <2>1 DEF AcceptBatch
    <3> HIDE DEF first
    <3> QED BY <3>1, <3>2
  <2>2. CASE StreamEnds
    <3>1. <<>> \in Seq(StreamEvent) /\ Publishes(batches', <<>>)
      BY <2>2 DEF StreamEnds, EndStream
    <3> QED BY <3>1
  <2> QED BY <2>1, <2>2
<1>4. PICK more \in Seq(LinkEvent) : events' = events \o first \o more /\ Tells(more)
  BY <1>1, <1>2, <1>3, PublishesSays
<1>5. more \in Seq(StreamEvent) /\ first \o more \in Seq(StreamEvent)
      /\ ToSet(first \o more) = ToSet(first) \cup ToSet(more)
  <2>1. more \in Seq(StreamEvent)
    BY DEF StreamEvent
  <2> QED BY <2>1, SetOfConcat
<1>6. events' = events \o (first \o more)
  BY <1>4, <1>5
<1>7. Tells(first \o more)
  BY <1>4, <1>5 DEF Tells
<1> QED BY <1>5, <1>6, <1>7

-----------------------------------------------------------------------------
(* The theorems.                                                              *)
THEOREM StreamInvariant == StreamSpec => []StreamInv
<1>1. StreamInv /\ [StreamNext]_streamVars => StreamInv'
  BY StreamStep
<1> QED BY InitStream, <1>1, PTL DEF StreamSpec

(* No step takes back a password that was announced for a link, whatever the  *)
(* ids of the rows are.                                                       *)
THEOREM PasswordNeverLostCorrect == StreamSpec => PasswordNeverLost
<1>1. StreamInv /\ [StreamNext]_streamVars => StreamInv'
  BY StreamStep
<1>2. StreamInv /\ [StreamNext]_streamVars =>
         [\A u \in DOMAIN emitted :
             emitted[u].pwd # NoPwd => u \in DOMAIN emitted' /\ emitted'[u].pwd # NoPwd]_streamVars
  BY StreamStep DEF PasswordsKept
<1> QED BY InitStream, <1>1, <1>2, PTL DEF StreamSpec, PasswordNeverLost

(* The outcome at the end is a merge of all rows of the batches.              *)
LEMMA OutcomeMerges ==
    ASSUME StreamInv, ended, DistinctIds
    PROVE  /\ outcome \in Seq(AnswerLink) /\ Merges(outcome, ToSet(Candidates(AllRows(batches))))
           /\ DOMAIN emitted = UrlsOf(AllRows(batches))
<1> DEFINE rows == AllRows(batches)
           ranked == Rank(rows)
<1>1. batches \in Seq(Batch) /\ OneEach(batches) /\ Own(batches) /\ DOMAIN emitted = UrlsOf(rows)
  BY DEF StreamInv, StreamType, AllAnnounced
<1>2. rows \in Seq(Row) /\ RowsOf(batches) = rows
  BY <1>1, RowsOfBatches
<1>3. outcome = MergeLinks(ranked)
  BY <1>2 DEF StreamInv, EndsInOrder
<1> HIDE DEF rows
<1>4. ranked \in Seq(Row) /\ ToSet(ranked) = ToSet(rows)
  BY <1>2, RankPermutes
<1> HIDE DEF ranked
<1>5. ToSet(Candidates(ranked)) = ToSet(Candidates(rows))
  BY <1>2, <1>4, SameCandidates
<1>6. MergeLinks(ranked) \in Seq(AnswerLink) /\ Merges(MergeLinks(ranked), ToSet(Candidates(ranked)))
  BY <1>4, MergedRows
<1> QED BY <1>1, <1>3, <1>5, <1>6 DEF rows

(* The invariant implies that the answer has the announced urls.              *)
LEMMA UrlsAnnounced == StreamInv => AnswerHasAnnouncedUrls
<1> SUFFICES ASSUME StreamInv, ended, DistinctIds
             PROVE  /\ {outcome[k].url : k \in DOMAIN outcome} = DOMAIN emitted
                    /\ \A j, k \in DOMAIN outcome : outcome[j].url = outcome[k].url => j = k
  BY DEF AnswerHasAnnouncedUrls
<1> DEFINE C == ToSet(Candidates(AllRows(batches)))
<1>1. Merges(outcome, C) /\ DOMAIN emitted = {c.url : c \in C}
  BY OutcomeMerges DEF UrlsOf
<1> HIDE DEF C
<1> QED BY <1>1 DEF Merges

(* The answer has exactly the urls that were announced, each once.            *)
THEOREM AnswerHasAnnouncedUrlsCorrect == StreamSpec => []AnswerHasAnnouncedUrls
BY StreamInvariant, UrlsAnnounced, PTL

(* The invariant implies that the answer keeps passwords and newest dates.    *)
LEMMA PasswordsInAnswer == StreamInv => AnswerKeepsPasswords
<1> SUFFICES ASSUME StreamInv, ended, DistinctIds, NEW k \in DOMAIN outcome
             PROVE  LET seen == Occurrences(outcome[k].url)
                    IN  /\ outcome[k].pwd = NoPwd => \A l \in seen : l.pwd = NoPwd
                        /\ \E l \in seen : l.pwd = outcome[k].pwd
                        /\ \A l \in seen : l.time <= outcome[k].time
  BY DEF AnswerKeepsPasswords
<1> DEFINE C == ToSet(Candidates(AllRows(batches)))
<1>1. Merges(outcome, C)
  BY OutcomeMerges
<1>2. \A u : Occurrences(u) = {l \in C : l.url = u}
  BY DEF Occurrences, AllRows
<1> HIDE DEF C
<1> QED BY <1>1, <1>2 DEF Merges

(* A printed link has a password whenever a source knew it, and it is the     *)
(* password and a newest date of this very link.                              *)
THEOREM AnswerKeepsPasswordsCorrect == StreamSpec => []AnswerKeepsPasswords
BY StreamInvariant, PasswordsInAnswer, PTL

(* When every source has answered its batches are the answers in source order.*)
LEMMA AllInOrder ==
    ASSUME StreamInv, AllAnswered
    PROVE  /\ DOMAIN batches = Source
           /\ \A i \in Source : batches[i] = <<i, Answer(i)>>
<1> DEFINE n == Len(batches)
<1>1. /\ batches \in Seq(Batch) /\ Accepted = Source
      /\ \A k \in DOMAIN batches : batches[k][2] = Answer(batches[k][1])
      /\ \A j, k \in DOMAIN batches : j < k => batches[j][1] < batches[k][1]
  BY DEF StreamInv, StreamType, EndsInOrder, AllAnswered
<1>2. /\ n \in Nat /\ DOMAIN batches = 1 .. n /\ NumSources \in Nat \ {0}
      /\ \A k \in 1 .. n : batches[k] = <<batches[k][1], batches[k][2]>> /\ batches[k][1] \in 1 .. NumSources
  BY <1>1, StreamAssumption DEF Batch, Source
<1>3. \A i \in 1 .. NumSources : \E k \in 1 .. n : batches[k][1] = i
  BY <1>1, <1>2 DEF Accepted, Source
<1> DEFINE Off == {k \in 1 .. n : batches[k][1] # k}
<1> HIDE DEF n
<1>4. Off = {}
  <2> SUFFICES ASSUME Off # {} PROVE FALSE
    OBVIOUS
  <2>1. PICK k \in Off : \A j \in Off : k <= j
    <3>1. Off \in SUBSET Nat
      BY <1>2
    <3> HIDE DEF Off
    <3> QED BY <3>1, LeastNumber
  <2>2. k \in 1 .. n /\ batches[k][1] # k /\ batches[k][1] \in 1 .. NumSources
    BY <1>2
  <2>3. ASSUME NEW j \in 1 .. n, j < k PROVE batches[j][1] = j
    BY <1>2, <2>1, <2>2, <2>3
  <2>4. batches[k][1] > k
    <3>1. CASE k = 1
      BY <2>2, <3>1
    <3>2. CASE k # 1
      <4>1. k - 1 \in 1 .. n /\ k - 1 < k
        BY <1>2, <2>2, <3>2
      <4>2. batches[k - 1][1] = k - 1 /\ batches[k - 1][1] < batches[k][1]
        BY <1>1, <1>2, <2>2, <2>3, <4>1
      <4> QED BY <2>2, <4>2
    <3> QED BY <3>1, <3>2
  <2>5. k \in 1 .. NumSources
    BY <1>2, <2>2, <2>4
  <2>6. PICK j \in 1 .. n : batches[j][1] = k
    BY <1>3, <2>5
  <2>7. ~(j < k)
    BY <2>3, <2>6, <2>2
  <2>8. j # k
    BY <2>2, <2>6
  <2>9. k < j
    BY <1>2, <2>2, <2>7, <2>8
  <2>10. batches[k][1] < batches[j][1]
    BY <1>1, <1>2, <2>2, <2>9
  <2> QED BY <1>2, <2>2, <2>4, <2>6, <2>10
<1>5. \A k \in 1 .. n : batches[k][1] = k
  BY <1>4
<1>6. n = NumSources
  <2>1. NumSources \in 1 .. n
    BY <1>2, <1>3, <1>5
  <2>2. n \in 1 .. NumSources
    BY <1>2, <1>5, <2>1
  <2> QED BY <1>2, <2>1, <2>2
<1> QED BY <1>1, <1>2, <1>5, <1>6 DEF Source

(* The invariant implies that the answer does not depend on the order of      *)
(* completion.                                                                *)
LEMMA Stable == StreamInv => AnswerIsStable
<1> SUFFICES ASSUME StreamInv, AllAnswered
             PROVE  outcome = MergeLinks(Rank(MergeSearchResults([i \in Source |-> Answer(i)])))
  BY DEF AnswerIsStable
<1>1. outcome = MergeLinks(Rank(RowsOf(batches)))
  BY DEF StreamInv, EndsInOrder, AllAnswered
<1>2. DOMAIN batches = Source /\ \A i \in Source : batches[i][2] = Answer(i)
  BY AllInOrder
<1>3. [k \in DOMAIN batches |-> batches[k][2]] = [i \in Source |-> Answer(i)]
  BY <1>2
<1> QED BY <1>1, <1>3 DEF RowsOf

(* When every source has answered the outcome is the merge in source order,   *)
(* in whatever order they answered.                                           *)
THEOREM AnswerIsStableCorrect == StreamSpec => []AnswerIsStable
BY StreamInvariant, Stable, PTL

(* The invariant implies that no published password is forgotten.             *)
LEMMA CodesKept == StreamInv => NoCodeForgotten
<1> SUFFICES ASSUME StreamInv, AllAnswered, DistinctIds, NEW i \in Source,
                    NEW l \in ToSet(FlattenSeq([j \in DOMAIN found[i] |-> found[i][j].links])),
                    l.pwd # NoPwd, i \notin Telegram \cap Failing
             PROVE  \E k \in DOMAIN outcome : outcome[k].url = l.url /\ outcome[k].pwd # NoPwd
  BY DEF NoCodeForgotten
<1>1. found \in Found /\ batches \in Seq(Batch) /\ ended
  BY DEF StreamInv, StreamType, AllAnswered
<1>2. KnowsCode(found[i], l.url)
  <2> DEFINE ss == [j \in DOMAIN found[i] |-> found[i][j].links]
  <2>1. found[i] \in Seq(Row)
    BY <1>1, FoundRows
  <2>2. /\ ss \in Seq(Seq(RowLink)) /\ Len(ss) = Len(found[i]) /\ Len(found[i]) \in Nat
        /\ \A j \in 1 .. Len(found[i]) : ss[j] = found[i][j].links
    <3>1. \A j \in DOMAIN found[i] : found[i][j].links \in Seq(RowLink)
      <4>1. \A r \in Row : r.links \in Seq(RowLink)
        BY DEF Row, RowLink
      <4>2. \A j \in DOMAIN found[i] : found[i][j] \in Row
        BY <2>1
      <4> QED BY <4>1, <4>2
    <3> QED BY <2>1, <3>1
  <2> HIDE DEF ss
  <2>3. PICK j \in 1 .. Len(found[i]) : l \in ToSet(ss[j])
    <3>1. l \in ToSet(FlattenSeq(ss))
      BY DEF ss
    <3> QED BY <2>2, <3>1, SetOfFlatten
  <2>4. Knows(found[i][j].links, l.url)
    BY <2>2, <2>3 DEF Knows, ToSet
  <2> QED BY <2>1, <2>3, <2>4 DEF KnowsCode
<1>3. KnowsCode(Answer(i), l.url)
  BY <1>1, <1>2, AnswerKeeps
<1>4. PICK r \in ToSet(Answer(i)) : Knows(r.links, l.url)
  BY <1>3, KnowsCodeOfSet
<1>5. r \in ToSet(AllRows(batches))
  <2>1. batches[i] \in ToSet(batches) /\ batches[i][2] = Answer(i)
    BY AllInOrder DEF ToSet
  <2> QED BY <1>1, <1>4, <2>1, RowsOfBatches
<1> DEFINE C == ToSet(Candidates(AllRows(batches)))
<1>6. PICK j \in DOMAIN r.links : r.links[j].url = l.url /\ r.links[j].pwd # NoPwd
  BY <1>4 DEF Knows
<1>7. Candidate(r, r.links[j]) \in C
  <2>1. AllRows(batches) \in Seq(Row)
    BY <1>1, RowsOfBatches
  <2> QED BY <1>5, <1>6, <2>1, CandidateSet
<1>8. \E c \in C : c.url = l.url /\ c.pwd # NoPwd
  <2>1. /\ Candidate(r, r.links[j]).url = l.url /\ Candidate(r, r.links[j]).pwd # NoPwd
    BY <1>6 DEF Candidate
  <2> HIDE DEF C
  <2> QED BY <1>7, <2>1
<1>9. Merges(outcome, C)
  BY <1>1, OutcomeMerges
<1> HIDE DEF C
<1> QED BY <1>8, <1>9 DEF Merges

(* A password that any source published, in any version of a row, leaves its  *)
(* link with a password in the answer.                                        *)
THEOREM NoCodeForgottenCorrect == StreamSpec => []NoCodeForgotten
BY StreamInvariant, CodesKept, PTL

-----------------------------------------------------------------------------
(* The loop of the command.                                                    *)

Event(L, S) ==
    [kind : {"update", "result"}, link : L] \cup [kind : {"error"}, source : S]

DriveType(L, S) ==
    /\ checking \in BOOLEAN /\ interrupted \in BOOLEAN
    /\ phase \in {"loop", "printed", "failed"}
    /\ events \in Seq(Event(L, S)) /\ sent \in Seq(Event(L, S)) /\ outcome \in Seq(L)
    /\ pending \in Seq(L) /\ checks \in SUBSET L /\ IsFiniteSet(checks)
    /\ DOMAIN checked \subseteq {CheckKey(l) : l \in L} /\ IsFiniteSet(DOMAIN checked)

(* The slots are filled before a link waits, and an interrupt empties both.   *)
Slots ==
    /\ Cardinality(checks) <= CheckSlots
    /\ pending # <<>> => Cardinality(checks) = CheckSlots
    /\ interrupted => checks = {} /\ pending = <<>>

(* No two links that wait or are being checked have the same key.             *)
Apart(waiting, running) ==
    /\ \A j, k \in 1 .. Len(waiting) : CheckKey(waiting[j]) = CheckKey(waiting[k]) => j = k
    /\ \A l, m \in running : CheckKey(l) = CheckKey(m) => l = m
    /\ \A k \in 1 .. Len(waiting), l \in running : CheckKey(waiting[k]) # CheckKey(l)

Keyed(waiting, running) == {CheckKey(l) : l \in running \cup ToSet(waiting)}

(* A scheduled link waits, is being checked or has a verdict, and only one of *)
(* these.                                                                     *)
Places ==
    /\ Apart(pending, checks)
    /\ Keyed(pending, checks) \cap DOMAIN checked = {}
    /\ ~interrupted => scheduled = Keyed(pending, checks) \cup DOMAIN checked

Verdicts ==
    \A key \in DOMAIN checked :
        checked[key] \in States /\ <<key[1], key[2], checked[key]>> \in verdicts

LookedAt(e) ==
    /\ (e.kind # "error" /\ checking /\ ~interrupted /\ RequiresCheck(e.link)) =>
          CheckKey(e.link) \in scheduled
    /\ IsInvalidChannel(e) => e.source \in invalid

Received ==
    /\ \A e \in ToSet(sent) \ ToSet(events) : LookedAt(e)
    /\ ToSet(events) \subseteq ToSet(sent)
    /\ \A source \in invalid :
          \E e \in ToSet(sent) : IsInvalidChannel(e) /\ e.source = source

SentAreChecked ==
    (phase = "printed" /\ ~interrupted /\ checking) =>
        \A link \in SentLinks : RequiresCheck(link) => CheckKey(link) \in DOMAIN checked

Ending ==
    /\ phase = "loop" => enabled = Saved
    /\ SentAreChecked /\ InvalidAreDisabled /\ OnlyValidPrinted

DriveInv(L, S) ==
    DriveType(L, S) /\ Slots /\ Places /\ Verdicts /\ Received /\ Ending

(* A saved source that the loop hears of is a channel.                        *)
Heard(S) == S \cap Saved \subseteq Channels

USE DriveAssumption DEF DriveAssumption

-----------------------------------------------------------------------------
LEMMA SlotsPositive == CheckSlots \in Nat /\ CheckSlots > 0
  BY DEF CheckSlots

(* Filling the slots leaves a link waiting only when all are taken; it loses  *)
(* none and puts none in two places.                                          *)
LEMMA RefillKeeps ==
    ASSUME NEW L, NEW waiting \in Seq(L), NEW running \in SUBSET L, IsFiniteSet(running),
           Cardinality(running) <= CheckSlots, Apart(waiting, running),
           Refill(waiting, running)
    PROVE  /\ pending' \in Seq(L) /\ checks' \in SUBSET L /\ IsFiniteSet(checks')
           /\ Cardinality(checks') <= CheckSlots
           /\ pending' # <<>> => Cardinality(checks') = CheckSlots
           /\ Apart(pending', checks')
           /\ checks' \cup ToSet(pending') = running \cup ToSet(waiting)
<1> DEFINE free == CheckSlots - Cardinality(running)
           n == IF free < Len(waiting) THEN free ELSE Len(waiting)
           taken == {waiting[k] : k \in 1 .. n}
<1>1. /\ Len(waiting) \in Nat /\ Cardinality(running) \in Nat /\ CheckSlots \in Nat
      /\ free \in Nat
  BY SlotsPositive, FS_CardinalityType
<1>2. n \in Nat /\ n <= Len(waiting) /\ n <= free /\ (n < Len(waiting) => n = free)
  BY <1>1
<1>3. pending' = SubSeq(waiting, n + 1, Len(waiting)) /\ checks' = running \cup taken
  BY DEF Refill
<1> HIDE DEF n, free
<1>4. IsFiniteSet(taken) /\ Cardinality(taken) = n
  <2>1. \A j, k \in 1 .. n : waiting[j] = waiting[k] => j = k
    <3>1. \A k \in 1 .. n : k \in 1 .. Len(waiting)
      BY <1>1, <1>2
    <3> QED BY <3>1 DEF Apart
  <2> QED BY <1>2, <2>1, PlacesCounted
<1>5. taken \cap running = {} /\ taken \in SUBSET L
  BY <1>1, <1>2 DEF Apart
<1> HIDE DEF taken
<1>6. IsFiniteSet(checks') /\ Cardinality(checks') = Cardinality(running) + n
  BY <1>3, <1>4, <1>5, DisjointCounted
<1>7. /\ pending' \in Seq(L) /\ Len(pending') = Len(waiting) - n
      /\ \A k \in 1 .. Len(pending') : pending'[k] = waiting[n + k]
  <2>1. \A i \in n + 1 .. Len(waiting) : waiting[i] \in L
    BY <1>2, ElementOfSeq
  <2> QED BY <1>1, <1>2, <1>3, <2>1, SubSeqProperties
<1>8. Cardinality(checks') <= CheckSlots /\ (pending' # <<>> => Cardinality(checks') = CheckSlots)
  <2>1. pending' # <<>> => Len(pending') # 0
    BY <1>7, EmptySeq
  <2> QED BY <1>1, <1>2, <1>6, <1>7, <2>1 DEF free
<1>9. \A k \in 1 .. Len(pending') : n + k \in 1 .. Len(waiting)
  BY <1>1, <1>2, <1>7
<1>10. \A l \in taken : \E k \in 1 .. n : k \in 1 .. Len(waiting) /\ l = waiting[k]
  BY <1>1, <1>2 DEF taken
<1>11. Apart(pending', checks')
  <2>1. ASSUME NEW j \in 1 .. Len(pending'), NEW k \in 1 .. Len(pending'),
               CheckKey(pending'[j]) = CheckKey(pending'[k])
        PROVE  j = k
    <3>1. n + j = n + k
      BY <1>7, <1>9, <2>1 DEF Apart
    <3> QED BY <1>2, <3>1
  <2>2. ASSUME NEW l \in checks', NEW m \in checks', CheckKey(l) = CheckKey(m) PROVE l = m
    <3>1. CASE l \in running /\ m \in running
      BY <2>2, <3>1 DEF Apart
    <3>2. CASE l \in taken /\ m \in running
      BY <1>10, <2>2, <3>2 DEF Apart
    <3>3. CASE l \in running /\ m \in taken
      BY <1>10, <2>2, <3>3 DEF Apart
    <3>4. CASE l \in taken /\ m \in taken
      BY <1>10, <2>2, <3>4 DEF Apart
    <3> QED BY <1>3, <2>2, <3>1, <3>2, <3>3, <3>4
  <2>3. ASSUME NEW k \in 1 .. Len(pending'), NEW l \in checks'
        PROVE  CheckKey(pending'[k]) # CheckKey(l)
    <3>1. n + k \in 1 .. Len(waiting) /\ pending'[k] = waiting[n + k]
      BY <1>7, <1>9
    <3>2. CASE l \in running
      BY <3>1, <3>2 DEF Apart
    <3>3. CASE l \in taken
      <4>1. PICK j \in 1 .. n : j \in 1 .. Len(waiting) /\ l = waiting[j]
        BY <1>10, <3>3
      <4>2. j # n + k
        BY <1>2, <4>1
      <4> QED BY <3>1, <4>1, <4>2 DEF Apart
    <3> QED BY <1>3, <3>2, <3>3
  <2> QED BY <2>1, <2>2, <2>3 DEF Apart
<1>12. checks' \cup ToSet(pending') = running \cup ToSet(waiting)
  <2>1. ToSet(pending') = {pending'[k] : k \in 1 .. Len(pending')}
    BY <1>7 DEF ToSet
  <2>2. ToSet(waiting) = {waiting[k] : k \in 1 .. Len(waiting)}
    BY DEF ToSet
  <2>3. \A k \in 1 .. Len(waiting) : k \in 1 .. n \/ k - n \in 1 .. Len(pending')
    BY <1>1, <1>2, <1>7
  <2>4. \A k \in 1 .. Len(waiting) : waiting[k] \in taken \/ waiting[k] \in ToSet(pending')
    <3> TAKE k \in 1 .. Len(waiting)
    <3>1. CASE k \in 1 .. n
      BY <3>1 DEF taken
    <3>2. CASE k - n \in 1 .. Len(pending')
      <4>1. n + (k - n) = k
        BY <1>2
      <4> QED BY <1>7, <2>1, <3>2, <4>1
    <3> QED BY <2>3, <3>1, <3>2
  <2>5. ToSet(pending') \subseteq ToSet(waiting)
    BY <1>7, <1>9, <2>1, <2>2
  <2>6. taken \subseteq ToSet(waiting)
    BY <1>10, <2>2
  <2> QED BY <1>3, <2>2, <2>4, <2>5, <2>6
<1> QED BY <1>3, <1>5, <1>6, <1>7, <1>8, <1>11, <1>12

(* The keys of PendingKeys and RunningKeys.                                   *)
LEMMA KeysInPlaces == PendingKeys \cup RunningKeys = Keyed(pending, checks)
<1>1. ToSet(pending) = {pending[k] : k \in DOMAIN pending}
  BY DEF ToSet
<1>2. PendingKeys = {CheckKey(l) : l \in ToSet(pending)}
  BY <1>1 DEF PendingKeys
<1> QED BY <1>2 DEF RunningKeys, Keyed

(* What is printed of the outcome are links that survive the filter.          *)
LEMMA FilteredSurvive ==
    ASSUME NEW L, NEW links \in Seq(L)
    PROVE  Filtered(links) \in Seq({l \in L : Survives(l)})
<1> DEFINE Good == {l \in L : Survives(l)}
           Next(f, n) == IF n = 0 THEN <<>>
                         ELSE IF Survives(links[n]) THEN Append(f[n - 1], links[n]) ELSE f[n - 1]
           Built == {m \in 0 .. Len(links) :
                       \E g \in [0 .. m -> Seq(Good)] : \A n \in 0 .. m : g[n] = Next(g, n)}
<1>0. Len(links) \in Nat /\ <<>> \in Seq(Good)
  OBVIOUS
<1>1. \A n \in 1 .. Len(links) : Survives(links[n]) => links[n] \in Good
  BY ElementOfSeq
<1> HIDE DEF Good
<1>2. 0 \in Built
  <2> DEFINE g == [n \in 0 .. 0 |-> <<>>]
  <2>1. g \in [0 .. 0 -> Seq(Good)]
    BY <1>0
  <2>2. \A n \in 0 .. 0 : g[n] = Next(g, n)
    OBVIOUS
  <2> HIDE DEF g
  <2>3. 0 \in 0 .. Len(links)
    BY <1>0
  <2> QED BY <2>1, <2>2, <2>3
<1>3. ASSUME NEW m \in 0 .. Len(links) - 1, m \in Built PROVE m + 1 \in Built
  <2> PICK g \in [0 .. m -> Seq(Good)] : \A n \in 0 .. m : g[n] = Next(g, n)
    BY <1>3
  <2> DEFINE last == IF Survives(links[m + 1]) THEN Append(g[m], links[m + 1]) ELSE g[m]
             h == [n \in 0 .. m + 1 |-> IF n = m + 1 THEN last ELSE g[n]]
  <2>1. m \in Nat /\ m + 1 \in 1 .. Len(links) /\ m \in 0 .. m
    BY <1>0
  <2>2. last \in Seq(Good)
    BY <1>1, <2>1, AppendProperties
  <2>3. /\ \A n \in 0 .. m + 1 : n = m + 1 \/ n \in 0 .. m
        /\ \A n \in 0 .. m : n # m + 1 /\ n \in 0 .. m + 1
        /\ \A n \in 1 .. m + 1 : n - 1 \in 0 .. m
    BY <2>1
  <2>4. h \in [0 .. m + 1 -> Seq(Good)]
    BY <2>2, <2>3
  <2>5. h[m + 1] = last /\ \A n \in 0 .. m : h[n] = g[n]
    BY <2>3, <2>1
  <2>6. h[m + 1] = Next(h, m + 1)
    BY <2>1, <2>3, <2>5
  <2>7. \A n \in 0 .. m : h[n] = Next(h, n)
    <3> TAKE n \in 0 .. m
    <3>1. n = 0 \/ n - 1 \in 0 .. m
      BY <2>1
    <3>2. g[n] = Next(g, n)
      OBVIOUS
    <3> HIDE DEF h
    <3> QED BY <2>5, <3>1, <3>2
  <2> HIDE DEF h
  <2>8. \A n \in 0 .. m + 1 : h[n] = Next(h, n)
    BY <2>3, <2>6, <2>7
  <2>9. m + 1 \in 0 .. Len(links)
    BY <2>1
  <2> QED BY <2>4, <2>8, <2>9
<1>4. Len(links) \in Built
  <2> HIDE DEF Built
  <2>1. 0 .. Len(links) \subseteq Built
    BY <1>0, <1>2, <1>3, UpTo
  <2> QED BY <1>0, <2>1
<1> DEFINE kept == CHOOSE f : f = [n \in 0 .. Len(links) |-> Next(f, n)]
<1>5. kept = [n \in 0 .. Len(links) |-> Next(kept, n)]
  <2>1. PICK g \in [0 .. Len(links) -> Seq(Good)] : \A n \in 0 .. Len(links) : g[n] = Next(g, n)
    BY <1>4
  <2>2. g = [n \in 0 .. Len(links) |-> Next(g, n)]
    BY <2>1
  <2> QED BY <2>2
<1>6. Filtered(links) = kept[Len(links)]
  BY DEF Filtered
<1> HIDE DEF kept
<1>7. /\ kept[0] = <<>>
      /\ \A n \in 0 .. Len(links) - 1 :
            kept[n + 1] = IF Survives(links[n + 1]) THEN Append(kept[n], links[n + 1]) ELSE kept[n]
  <2>1. kept[0] = <<>>
    BY <1>0, <1>5
  <2> SUFFICES ASSUME NEW n \in 0 .. Len(links) - 1
               PROVE  kept[n + 1] = IF Survives(links[n + 1]) THEN Append(kept[n], links[n + 1]) ELSE kept[n]
    BY <2>1
  <2>2. n + 1 \in 0 .. Len(links) /\ n + 1 # 0 /\ (n + 1) - 1 = n
    BY <1>0
  <2>3. kept[n + 1] = Next(kept, n + 1)
    BY <1>5, <2>2
  <2> QED BY <2>2, <2>3
<1> DEFINE Typed == {n \in 0 .. Len(links) : kept[n] \in Seq(Good)}
<1>8. 0 .. Len(links) \subseteq Typed
  <2>1. 0 \in Typed
    <3>1. 0 \in 0 .. Len(links)
      BY <1>0
    <3> QED BY <1>0, <1>7, <3>1
  <2>2. ASSUME NEW n \in 0 .. Len(links) - 1, n \in Typed PROVE n + 1 \in Typed
    <3>1. n + 1 \in 1 .. Len(links) /\ n + 1 \in 0 .. Len(links)
      BY <1>0
    <3>2. kept[n] \in Seq(Good)
      BY <2>2
    <3>3. CASE Survives(links[n + 1])
      <4>1. Append(kept[n], links[n + 1]) \in Seq(Good)
        BY <1>1, <3>1, <3>2, <3>3, AppendProperties
      <4> QED BY <1>7, <3>1, <3>3, <4>1
    <3>4. CASE ~Survives(links[n + 1])
      BY <1>7, <3>1, <3>2, <3>4
    <3> QED BY <3>3, <3>4
  <2> HIDE DEF Typed
  <2> QED BY <1>0, <2>1, <2>2, UpTo
<1> QED BY <1>0, <1>6, <1>8 DEF Good
-----------------------------------------------------------------------------
(* The steps of the loop, for links of any set L and sources of any set S.    *)
LEMMA InitLoop == ASSUME NEW L, NEW S, DriveInit PROVE DriveInv(L, S)
<1>1. IsFiniteSet({}) /\ Cardinality({}) = 0 /\ ToSet(<<>>) = {}
  BY FS_EmptySet DEF ToSet
<1>2. DriveType(L, S)
  <2>1. DOMAIN checked = {}
    BY DEF DriveInit
  <2>2. <<>> \in Seq(Event(L, S)) /\ <<>> \in Seq(L)
    OBVIOUS
  <2> QED BY <1>1, <2>1, <2>2 DEF DriveInit, DriveType
<1>3. Slots
  BY <1>1, SlotsPositive DEF DriveInit, Slots
<1>4. Places
  <2>1. DOMAIN checked = {} /\ Keyed(pending, checks) = {} /\ scheduled = {}
    BY <1>1 DEF DriveInit, Keyed
  <2>2. Apart(pending, checks)
    BY DEF DriveInit, Apart
  <2> QED BY <2>1, <2>2 DEF Places
<1>5. Verdicts /\ Received
  BY DEF DriveInit, Verdicts, Received, ToSet
<1>6. Ending
  BY DEF DriveInit, Ending, SentAreChecked, OnlyValidPrinted, InvalidAreDisabled
<1> QED BY <1>2, <1>3, <1>4, <1>5, <1>6 DEF DriveInv

(* While the loop runs nothing is claimed of what has been printed.           *)
LEMMA LoopEnding == Ending /\ InLoop /\ UNCHANGED endingVars => Ending'
BY DEF Ending, InLoop, endingVars, SentAreChecked, OnlyValidPrinted, InvalidAreDisabled

(* Events the search sends join the channel and have not been looked at.      *)
LEMMA SentKeeps ==
    ASSUME NEW L, NEW S, DriveInv(L, S), InLoop,
           NEW more \in Seq(Event(L, S)), outcome' \in Seq(L),
           events' = events \o more, sent' = sent \o more,
           UNCHANGED <<checking, checkVars, endingVars, interrupted, invalid>>
    PROVE  DriveInv(L, S)'
<1> USE DEF DriveInv, checkVars, endingVars
<1>1. /\ events' \in Seq(Event(L, S)) /\ ToSet(events') = ToSet(events) \cup ToSet(more)
      /\ sent' \in Seq(Event(L, S)) /\ ToSet(sent') = ToSet(sent) \cup ToSet(more)
  BY SetOfConcat DEF DriveType
<1>2. DriveType(L, S)'
  BY <1>1 DEF DriveType, Event
<1>3. Slots' /\ Verdicts' /\ Places'
  BY DEF Slots, Verdicts, Places
<1>4. \A e : LookedAt(e)' = LookedAt(e)
  BY DEF LookedAt, IsInvalidChannel
<1>5. Received'
  BY <1>1, <1>4 DEF Received, IsInvalidChannel
<1>6. Ending'
  BY LoopEnding
<1> QED BY <1>2, <1>3, <1>5, <1>6

LEMMA InterruptKeeps ==
    ASSUME NEW L, NEW S, DriveInv(L, S), Interrupt PROVE DriveInv(L, S)'
<1> USE DEF DriveInv, Interrupt, searchVars, GivenUp
<1>0. IsFiniteSet({}) /\ Cardinality({}) = 0 /\ ToSet(<<>>) = {}
  BY FS_EmptySet DEF ToSet
<1>1. DriveType(L, S)'
  BY <1>0 DEF DriveType, endingVars, Event
<1>2. Slots'
  BY <1>0, SlotsPositive DEF Slots
<1>3. Places'
  BY <1>0 DEF Places, Apart, Keyed
<1>4. Verdicts' /\ Received'
  BY DEF Verdicts, Received, LookedAt, IsInvalidChannel
<1>5. Ending'
  BY LoopEnding
<1> QED BY <1>1, <1>2, <1>3, <1>4, <1>5

(* An event is received: nothing the loop wants to know of it is lost.        *)
LEMMA ReceiveKeeps ==
    ASSUME NEW L, NEW S, DriveInv(L, S), ReceiveEvent PROVE DriveInv(L, S)'
<1> DEFINE head == Head(events)
           wanted == WantsCheck(head) /\ ~interrupted /\ Schedulable(head.link)
<1>0. DriveType(L, S) /\ Slots /\ Places /\ Verdicts /\ Received /\ Ending
  BY DEF DriveInv
<1>1. /\ head \in Event(L, S) /\ events' \in Seq(Event(L, S))
      /\ ToSet(events) = {head} \cup ToSet(events')
  BY <1>0, SetOfTail DEF ReceiveEvent, DriveType
<1>2. /\ UNCHANGED <<checking, sent, outcome, completed, failedAll, endingVars,
                     interrupted, checked, verdicts>>
      /\ invalid' = Learned(head) /\ InLoop
  BY DEF ReceiveEvent
<1>3. Verdicts'
  BY <1>0, <1>2 DEF Verdicts
<1>4. Ending'
  BY <1>0, <1>2, LoopEnding
<1>5. /\ invalid \subseteq invalid'
      /\ IsInvalidChannel(head) => head.source \in invalid'
      /\ \A source \in invalid' :
            source \in invalid \/ (IsInvalidChannel(head) /\ source = head.source)
  BY <1>2 DEF Learned
<1>6. ASSUME scheduled \subseteq scheduled',
             (head.kind # "error" /\ checking /\ ~interrupted /\ RequiresCheck(head.link)) =>
                CheckKey(head.link) \in scheduled'
      PROVE  Received'
  <2>0. UNCHANGED <<checking, interrupted>>
    BY <1>2
  <2>1. \A e : LookedAt(e) => LookedAt(e)'
    BY <1>5, <1>6, <2>0 DEF LookedAt, IsInvalidChannel, CheckKey, RequiresCheck
  <2>2. \A e : e = head => LookedAt(e)'
    BY <1>5, <1>6, <2>0 DEF LookedAt, IsInvalidChannel, CheckKey, RequiresCheck
  <2>3. \A e : IsInvalidChannel(e)' = IsInvalidChannel(e)
    BY DEF IsInvalidChannel
  <2>4. \A e \in ToSet(sent) \ ToSet(events') : LookedAt(e)'
    BY <1>0, <1>1, <2>1, <2>2 DEF Received
  <2>5. ToSet(events') \subseteq ToSet(sent) /\ head \in ToSet(sent)
    BY <1>0, <1>1 DEF Received
  <2>6. \A source \in invalid' :
           \E e \in ToSet(sent) : IsInvalidChannel(e) /\ e.source = source
    BY <1>0, <1>5, <2>5 DEF Received
  <2>7. sent' = sent
    BY <1>2
  <2> QED BY <2>3, <2>4, <2>5, <2>6, <2>7 DEF Received
<1>7. CASE wanted
  <2>1. head.link \in L /\ head.kind # "error"
    BY <1>1, <1>7 DEF WantsCheck, Event
  <2> DEFINE link == head.link
             waiting == Append(pending, link)
  <2>2. scheduled' = scheduled \cup {CheckKey(link)} /\ Refill(waiting, checks)
    BY <1>7 DEF ReceiveEvent
  <2>3. ~interrupted /\ CheckKey(link) \notin DOMAIN checked /\ CheckKey(link) \notin scheduled
    BY <1>7 DEF Schedulable
  <2>4. pending \in Seq(L) /\ checks \in SUBSET L /\ IsFiniteSet(checks) /\ Apart(pending, checks)
    BY <1>0 DEF DriveType, Places
  <2>5. CheckKey(link) \notin Keyed(pending, checks)
    BY <1>0, <2>3 DEF Places
  <2>6. waiting \in Seq(L) /\ ToSet(waiting) = ToSet(pending) \cup {link}
    BY <2>1, <2>4, SetOfAppend
  <2>7. Keyed(waiting, checks) = Keyed(pending, checks) \cup {CheckKey(link)}
    BY <2>6 DEF Keyed
  <2>8. Apart(waiting, checks)
    <3>1. /\ Len(waiting) = Len(pending) + 1 /\ Len(pending) \in Nat
          /\ waiting[Len(pending) + 1] = link
          /\ \A k \in 1 .. Len(pending) : waiting[k] = pending[k]
      BY <2>1, <2>4, AppendProperties, LenProperties
    <3>2. /\ \A k \in 1 .. Len(pending) : CheckKey(pending[k]) # CheckKey(link)
          /\ \A l \in checks : CheckKey(l) # CheckKey(link)
      BY <2>4, <2>5 DEF Keyed, ToSet
    <3>3. \A k \in 1 .. Len(waiting) : k = Len(pending) + 1 \/ k \in 1 .. Len(pending)
      BY <3>1
    <3> HIDE DEF waiting
    <3>4. \A j, k \in 1 .. Len(waiting) : CheckKey(waiting[j]) = CheckKey(waiting[k]) => j = k
      BY <2>4, <3>1, <3>2, <3>3 DEF Apart
    <3>5. \A k \in 1 .. Len(waiting), l \in checks : CheckKey(waiting[k]) # CheckKey(l)
      BY <2>4, <3>1, <3>2, <3>3 DEF Apart
    <3> QED BY <2>4, <3>4, <3>5 DEF Apart
  <2>9. Cardinality(checks) <= CheckSlots
    BY <1>0 DEF Slots
  <2> HIDE DEF waiting
  <2>10. /\ pending' \in Seq(L) /\ checks' \in SUBSET L /\ IsFiniteSet(checks')
         /\ Cardinality(checks') <= CheckSlots
         /\ pending' # <<>> => Cardinality(checks') = CheckSlots
         /\ Apart(pending', checks')
         /\ checks' \cup ToSet(pending') = checks \cup ToSet(waiting)
    BY <2>2, <2>4, <2>6, <2>8, <2>9, RefillKeeps
  <2>11. DriveType(L, S)'
    BY <1>0, <1>1, <1>2, <2>10 DEF DriveType, endingVars, CheckKey, Event
  <2>12. Slots'
    BY <1>2, <2>3, <2>10 DEF Slots, CheckSlots
  <2>13. Places'
    <3>1. Keyed(pending', checks') = Keyed(pending, checks) \cup {CheckKey(link)}
      BY <2>7, <2>10 DEF Keyed
    <3>2. checked' = checked
      BY <1>2
    <3>3. Apart(pending, checks)' /\ Keyed(pending, checks)' = Keyed(pending', checks')
      BY <2>10 DEF Apart, Keyed, CheckKey
    <3> QED BY <1>0, <2>2, <2>3, <3>1, <3>2, <3>3 DEF Places
  <2>14. Received'
    BY <1>6, <2>2
  <2> QED BY <1>3, <1>4, <2>11, <2>12, <2>13, <2>14 DEF DriveInv
<1>8. CASE ~wanted
  <2>1. UNCHANGED <<scheduled, pending, checks>>
    BY <1>8 DEF ReceiveEvent
  <2>2. (head.kind # "error" /\ checking /\ ~interrupted /\ RequiresCheck(head.link)) =>
           CheckKey(head.link) \in scheduled'
    BY <1>0, <1>8, <2>1 DEF WantsCheck, Schedulable, Places
  <2>3. Received'
    BY <1>6, <2>1, <2>2
  <2>4. DriveType(L, S)'
    BY <1>0, <1>1, <1>2, <2>1 DEF DriveType, endingVars, CheckKey, Event
  <2>5. Slots'
    BY <1>0, <1>2, <2>1 DEF Slots, CheckSlots
  <2>6. Places'
    BY <1>0, <1>2, <2>1 DEF Places, Apart, Keyed, CheckKey
  <2> QED BY <1>3, <1>4, <2>3, <2>4, <2>5, <2>6 DEF DriveInv
<1> QED BY <1>7, <1>8

(* A check finishes, which it cannot after an interrupt.                      *)
LEMMA CheckFinishesKeeps ==
    ASSUME NEW L, NEW S, DriveInv(L, S), CheckFinishes PROVE DriveInv(L, S)'
<1>0. DriveType(L, S) /\ Slots /\ Places /\ Verdicts /\ Received /\ Ending
  BY DEF DriveInv
<1>1. PICK link \in checks, state \in States :
         /\ checked' = Noted(CheckKey(link), state)
         /\ verdicts' = verdicts \cup {<<link.url, link.pwd, state>>}
         /\ Refill(pending, checks \ {link})
  BY DEF CheckFinishes
<1>2. UNCHANGED <<searchVars, scheduled, endingVars, interrupted, invalid>> /\ InLoop
  BY DEF CheckFinishes
<1>3. /\ pending \in Seq(L) /\ checks \in SUBSET L /\ IsFiniteSet(checks) /\ link \in L
      /\ Apart(pending, checks)
  BY <1>0, <1>1 DEF DriveType, Places
<1>4. ~interrupted
  BY <1>0, <1>1 DEF Slots
<1>5. DOMAIN checked' = DOMAIN checked \cup {CheckKey(link)}
  BY <1>1 DEF Noted
<1> DEFINE others == checks \ {link}
<1>6. IsFiniteSet(others) /\ Cardinality(others) <= CheckSlots /\ others \in SUBSET L
  <2>1. IsFiniteSet(others) /\ Cardinality(others) <= Cardinality(checks)
    BY <1>3, FS_Difference, FS_Subset
  <2>2. Cardinality(checks) <= CheckSlots
    BY <1>0 DEF Slots
  <2> QED BY <1>3, <2>1, <2>2, FS_CardinalityType, SlotsPositive
<1>7. Apart(pending, others)
  BY <1>3 DEF Apart
<1>8. Keyed(pending, checks) = Keyed(pending, others) \cup {CheckKey(link)}
  BY <1>1 DEF Keyed
<1>9. CheckKey(link) \notin Keyed(pending, others)
  <2>1. \A l \in others : CheckKey(l) # CheckKey(link)
    BY <1>1, <1>3 DEF Apart
  <2>2. \A k \in DOMAIN pending : CheckKey(pending[k]) # CheckKey(link)
    BY <1>1, <1>3 DEF Apart
  <2> QED BY <2>1, <2>2 DEF Keyed, ToSet
<1> HIDE DEF others
<1>10. /\ pending' \in Seq(L) /\ checks' \in SUBSET L /\ IsFiniteSet(checks')
       /\ Cardinality(checks') <= CheckSlots
       /\ pending' # <<>> => Cardinality(checks') = CheckSlots
       /\ Apart(pending', checks')
       /\ checks' \cup ToSet(pending') = others \cup ToSet(pending)
  BY <1>1, <1>3, <1>6, <1>7, RefillKeeps DEF others
<1>11. DriveType(L, S)'
  <2>1. IsFiniteSet(DOMAIN checked')
    <3>1. IsFiniteSet(DOMAIN checked)
      BY <1>0 DEF DriveType
    <3> QED BY <1>5, <3>1, FS_AddElement
  <2>2. DOMAIN checked' \subseteq {CheckKey(l) : l \in L}
    BY <1>0, <1>3, <1>5 DEF DriveType
  <2> QED BY <1>0, <1>2, <1>10, <2>1, <2>2 DEF DriveType, searchVars, endingVars, CheckKey, Event
<1>12. Slots'
  BY <1>2, <1>4, <1>10 DEF Slots, CheckSlots
<1>13. Places'
  <2>1. Keyed(pending', checks') = Keyed(pending, others)
    BY <1>10 DEF Keyed
  <2>2. Apart(pending, checks)' /\ Keyed(pending, checks)' = Keyed(pending', checks')
    BY <1>10 DEF Apart, Keyed, CheckKey
  <2>3. UNCHANGED <<scheduled, interrupted>>
    BY <1>2
  <2> QED BY <1>0, <1>5, <1>8, <1>9, <2>1, <2>2, <2>3 DEF Places
<1>14. Verdicts'
  <2> SUFFICES ASSUME NEW key \in DOMAIN checked'
               PROVE  /\ checked'[key] \in States
                      /\ <<key[1], key[2], checked'[key]>> \in verdicts'
    BY DEF Verdicts, States
  <2>1. CASE key = CheckKey(link)
    BY <1>1, <1>5, <2>1 DEF Noted, CheckKey
  <2>2. CASE key # CheckKey(link)
    <3>1. key \in DOMAIN checked /\ checked'[key] = checked[key]
      BY <1>1, <1>5, <2>2 DEF Noted
    <3> QED BY <1>0, <1>1, <3>1 DEF Verdicts
  <2> QED BY <2>1, <2>2
<1>15. Received'
  BY <1>0, <1>2 DEF Received, LookedAt, IsInvalidChannel, searchVars, RequiresCheck, CheckKey
<1>16. Ending'
  BY <1>0, <1>2, LoopEnding
<1> QED BY <1>11, <1>12, <1>13, <1>14, <1>15, <1>16 DEF DriveInv

(* What the loop knew stays true once it has ended.                           *)
LEMMA EndedKeeps ==
    ASSUME NEW L, NEW S, DriveInv(L, S), phase' \in {"loop", "printed", "failed"},
           UNCHANGED <<searchVars, checkVars, interrupted, invalid>>
    PROVE  DriveType(L, S)' /\ Slots' /\ Places' /\ Verdicts' /\ Received'
<1> USE DEF DriveInv, searchVars, checkVars
<1>1. DriveType(L, S)'
  BY DEF DriveType, CheckKey, Event
<1>2. Slots' /\ Verdicts'
  BY DEF Slots, Verdicts, CheckSlots
<1>3. Places'
  BY DEF Places, Apart, Keyed, CheckKey
<1>4. Received'
  BY DEF Received, LookedAt, IsInvalidChannel, RequiresCheck, CheckKey
<1> QED BY <1>1, <1>2, <1>3, <1>4

(* When the loop has nothing left to wait for, every event has been looked at *)
(* and every scheduled link has a verdict.                                    *)
LEMMA WriteAnswerKeeps ==
    ASSUME NEW L, NEW S, Heard(S), DriveInv(L, S), WriteAnswer PROVE DriveInv(L, S)'
<1>0. DriveType(L, S) /\ Slots /\ Places /\ Verdicts /\ Received /\ enabled = Saved
  BY DEF DriveInv, Ending, WriteAnswer, InLoop
<1>1. /\ UNCHANGED <<checking, sent, verdicts, interrupted, checked>>
      /\ phase' = "printed" /\ enabled' = enabled \ invalid /\ printed' = Filtered(outcome)
  BY DEF WriteAnswer, searchVars, checkVars
<1>2. ToSet(events) = {} /\ checks = {} /\ pending = <<>> /\ ToSet(pending) = {}
  BY DEF WriteAnswer, Drained, ToSet
<1>3. DriveType(L, S)' /\ Slots' /\ Places' /\ Verdicts' /\ Received'
  BY <1>1, EndedKeeps DEF WriteAnswer
<1>4. \A k \in DOMAIN sent : sent[k] \in Event(L, S) /\ LookedAt(sent[k])
  <2> TAKE k \in DOMAIN sent
  <2>1. sent[k] \in ToSet(sent) \ ToSet(events)
    BY <1>2 DEF ToSet
  <2>2. sent[k] \in Event(L, S)
    BY <1>0, ElementOfSeq DEF DriveType
  <2> QED BY <1>0, <2>1, <2>2 DEF Received
<1>5. SentAreChecked'
  <2> SUFFICES ASSUME ~interrupted, checking, NEW link \in SentLinks, RequiresCheck(link)
               PROVE  CheckKey(link) \in DOMAIN checked
    BY <1>1 DEF SentAreChecked, SentLinks, RequiresCheck, CheckKey
  <2>1. PICK k \in DOMAIN sent : sent[k].kind # "error" /\ sent[k].link = link
    BY DEF SentLinks
  <2>2. CheckKey(link) \in scheduled
    BY <1>4, <2>1 DEF LookedAt
  <2>3. Keyed(pending, checks) = {}
    BY <1>2 DEF Keyed
  <2> QED BY <1>0, <2>2, <2>3 DEF Places
<1>6. OnlyValidPrinted'
  <2>1. printed' \in Seq({l \in L : Survives(l)})
    BY <1>0, <1>1, FilteredSurvive DEF DriveType
  <2> SUFFICES ASSUME checking, NEW k \in DOMAIN printed', RequiresCheck(printed'[k])
               PROVE  <<printed'[k].url, printed'[k].pwd, "ok">> \in verdicts
    BY <1>1 DEF OnlyValidPrinted, RequiresCheck
  <2>2. Survives(printed'[k])
    BY <2>1, ElementOfSeq
  <2>3. /\ CheckKey(printed'[k]) \in DOMAIN checked
        /\ checked[CheckKey(printed'[k])] = "ok"
    BY <2>2 DEF Survives
  <2>4. /\ CheckKey(printed'[k])[1] = printed'[k].url
        /\ CheckKey(printed'[k])[2] = printed'[k].pwd
    BY DEF CheckKey
  <2> QED BY <1>0, <2>3, <2>4 DEF Verdicts
<1>7. InvalidAreDisabled'
  <2>1. \A source \in Saved : source \in SentErrors => source \in invalid
    <3> SUFFICES ASSUME NEW k \in DOMAIN sent, sent[k].kind = "error", sent[k].source \in Saved
                 PROVE  sent[k].source \in invalid
      BY DEF SentErrors
    <3>1. sent[k].source \in S
      BY <1>4 DEF Event
    <3> QED BY <1>4, <3>1 DEF LookedAt, IsInvalidChannel, Heard
  <2>2. \A source \in invalid : source \in SentErrors
    <3> TAKE source \in invalid
    <3>1. PICK e \in ToSet(sent) : IsInvalidChannel(e) /\ e.source = source
      BY <1>0 DEF Received
    <3>2. PICK k \in DOMAIN sent : sent[k] = e
      BY DEF ToSet
    <3> QED BY <3>1, <3>2 DEF SentErrors, IsInvalidChannel
  <2>3. Saved \ invalid = Saved \ SentErrors
    BY <2>1, <2>2
  <2>4. SentErrors' = SentErrors
    BY <1>1 DEF SentErrors
  <2> QED BY <1>0, <1>1, <2>3, <2>4 DEF InvalidAreDisabled
<1>8. Ending'
  BY <1>1, <1>5, <1>6, <1>7 DEF Ending
<1> QED BY <1>3, <1>8 DEF DriveInv

LEMMA FailureKeeps ==
    ASSUME NEW L, NEW S, DriveInv(L, S), DisableFails \/ SignalFails \/ WriteFails
    PROVE  DriveInv(L, S)'
<1>1. UNCHANGED <<searchVars, checkVars, interrupted, invalid>> /\ phase' = "failed"
  BY DEF DisableFails, SignalFails, WriteFails
<1>2. Ending'
  BY <1>1 DEF Ending, SentAreChecked, OnlyValidPrinted, InvalidAreDisabled
<1> QED BY <1>1, <1>2, EndedKeeps DEF DriveInv

LEMMA StutterKeeps ==
    ASSUME NEW L, NEW S, DriveInv(L, S), UNCHANGED driveVars PROVE DriveInv(L, S)'
<1>1. /\ UNCHANGED <<searchVars, checkVars, interrupted, invalid>>
      /\ UNCHANGED <<phase, enabled, printed, sent, verdicts, checking, checked>>
  BY DEF driveVars, endingVars, searchVars, checkVars
<1>2. phase \in {"loop", "printed", "failed"}
  BY DEF DriveInv, DriveType
<1>3. Ending'
  BY <1>1 DEF DriveInv, Ending, SentAreChecked, OnlyValidPrinted, InvalidAreDisabled,
              SentLinks, SentErrors, RequiresCheck, CheckKey
<1> QED BY <1>1, <1>2, <1>3, EndedKeeps DEF DriveInv

(* Every step of the loop but those in which the search is polled.            *)
LoopStep == DriveStep \/ CheckFinishes \/ Interrupt \/ SignalFails \/ DriveEnded

LEMMA LoopKeeps ==
    ASSUME NEW L, NEW S, Heard(S), DriveInv(L, S), LoopStep \/ UNCHANGED driveVars
    PROVE  DriveInv(L, S)'
BY ReceiveKeeps, WriteAnswerKeeps, FailureKeeps, CheckFinishesKeeps, InterruptKeeps, StutterKeeps
   DEF LoopStep, DriveStep, DriveEnded

-----------------------------------------------------------------------------
(* What the invariant says of the loop.                                       *)
LEMMA BranchLeft == ASSUME NEW L, NEW S, DriveInv(L, S) PROVE SelectHasBranch
<1> SUFFICES ASSUME InLoop, ~Drained, completed # "none", events = <<>>, checks = {}
             PROVE  FALSE
  BY DEF SelectHasBranch
<1>1. pending # <<>>
  BY DEF Drained
<1>2. Cardinality(checks) = CheckSlots
  BY <1>1 DEF DriveInv, Slots
<1> QED BY <1>2, FS_EmptySet, SlotsPositive

LEMMA EachInOnePlace == ASSUME NEW L, NEW S, DriveInv(L, S) PROVE ChecksAccounted
<1>0. DriveType(L, S) /\ Slots /\ Places /\ Apart(pending, checks)
  BY DEF DriveInv, Places
<1>1. /\ IsFiniteSet(checks) /\ IsFiniteSet(DOMAIN checked) /\ Len(pending) \in Nat
      /\ DOMAIN pending = 1 .. Len(pending)
  BY <1>0, LenProperties DEF DriveType
<1>2. IsFiniteSet(PendingKeys) /\ Cardinality(PendingKeys) = Len(pending)
  <2> DEFINE keys == [k \in 1 .. Len(pending) |-> CheckKey(pending[k])]
  <2>1. \A j, k \in 1 .. Len(pending) : keys[j] = keys[k] => j = k
    BY <1>0 DEF Apart
  <2>2. PendingKeys = {keys[k] : k \in 1 .. Len(pending)}
    BY <1>1 DEF PendingKeys
  <2>3. Len(pending) \in Nat
    BY <1>1
  <2> HIDE DEF keys
  <2> QED BY <2>1, <2>2, <2>3, PlacesCounted, Zenon
<1>3. IsFiniteSet(RunningKeys) /\ Cardinality(RunningKeys) = Cardinality(checks)
  <2> DEFINE keyOf == [l \in checks |-> CheckKey(l)]
  <2>1. \A l, m \in checks : keyOf[l] = keyOf[m] => l = m
    BY <1>0 DEF Apart
  <2>2. RunningKeys = {keyOf[l] : l \in checks}
    BY DEF RunningKeys
  <2> HIDE DEF keyOf
  <2> QED BY <1>1, <2>1, <2>2, ImageCounted
<1>4. PendingKeys \cap RunningKeys = {}
  BY <1>0, <1>1 DEF Apart, PendingKeys, RunningKeys
<1>5. (PendingKeys \cup RunningKeys) \cap DOMAIN checked = {}
  BY <1>0, KeysInPlaces DEF Places
<1>6. /\ IsFiniteSet(PendingKeys \cup RunningKeys)
      /\ Cardinality(PendingKeys \cup RunningKeys) = Len(pending) + Cardinality(checks)
  BY <1>2, <1>3, <1>4, DisjointCounted
<1>7. Cardinality(PendingKeys \cup RunningKeys \cup DOMAIN checked)
         = Len(pending) + Cardinality(checks) + Cardinality(DOMAIN checked)
  BY <1>1, <1>5, <1>6, DisjointCounted
<1> QED BY <1>0, <1>2, <1>3, <1>7, KeysInPlaces DEF ChecksAccounted, Slots, Places

LEMMA EachChecked == ASSUME NEW L, NEW S, DriveInv(L, S) PROVE AnnouncedAreChecked
<1> SUFFICES ASSUME phase = "printed", ~interrupted, checking,
                    NEW link \in SentLinks, RequiresCheck(link)
             PROVE  \E state \in States : <<link.url, link.pwd, state>> \in verdicts
  BY DEF AnnouncedAreChecked
<1>1. CheckKey(link) \in DOMAIN checked
  BY DEF DriveInv, Ending, SentAreChecked
<1>2. CheckKey(link)[1] = link.url /\ CheckKey(link)[2] = link.pwd
  BY DEF CheckKey
<1> QED BY <1>1, <1>2 DEF DriveInv, Verdicts

-----------------------------------------------------------------------------
(* The loop with any search: DriveSpec.                                       *)
SearchedSources == Channels \cup {Plugin}

LEMMA EventsTyped == \A history : EventsFor(history) \subseteq Event(Link, SearchedSources)
BY DEF EventsFor, Event, SearchedSources

LEMMA SearchKeeps ==
    ASSUME DriveInv(Link, SearchedSources), SearchProgresses \/ SearchCompletes
    PROVE  DriveInv(Link, SearchedSources)'
<1> DEFINE E == Event(Link, SearchedSources)
<1>1. events \in Seq(E) /\ sent \in Seq(E) /\ outcome \in Seq(Link)
  BY DEF DriveInv, DriveType
<1>2. CASE SearchProgresses
  <2>1. PICK event \in E : events' = Append(events, event) /\ sent' = Append(sent, event)
    BY <1>2, EventsTyped DEF SearchProgresses
  <2>2. events' = events \o <<event>> /\ sent' = sent \o <<event>> /\ <<event>> \in Seq(E)
    BY <1>1, <2>1
  <2>3. /\ UNCHANGED <<checking, checkVars, endingVars, interrupted, invalid>>
        /\ InLoop /\ outcome' \in Seq(Link)
    BY <1>1, <1>2 DEF SearchProgresses, SearchPolled
  <2> HIDE DEF E
  <2> QED BY <2>2, <2>3, SentKeeps DEF E
<1>3. CASE SearchCompletes
  <2>1. PICK last \in SeqOf(EventsFor(sent), MaxLast) :
           events' = events \o last /\ sent' = sent \o last
    BY <1>3 DEF SearchCompletes
  <2>2. last \in Seq(E)
    <3>1. last \in Seq(EventsFor(sent))
      BY <2>1, BoundedSeqs
    <3> QED BY <3>1, EventsTyped
  <2>3. outcome' \in Seq(Link)
    BY <1>3, BoundedSeqs DEF SearchCompletes
  <2>4. UNCHANGED <<checking, checkVars, endingVars, interrupted, invalid>> /\ InLoop
    BY <1>3 DEF SearchCompletes, SearchReturns
  <2> QED BY <2>1, <2>2, <2>3, <2>4, SentKeeps
<1> QED BY <1>2, <1>3

THEOREM DriveInvariant == DriveSpec => []DriveInv(Link, SearchedSources)
<1>1. Heard(SearchedSources)
  BY DEF Heard, SearchedSources
<1>2. DriveInv(Link, SearchedSources) /\ [DriveNext]_driveVars => DriveInv(Link, SearchedSources)'
  BY <1>1, SearchKeeps, LoopKeeps DEF DriveNext, LoopStep
<1>3. DriveInit => DriveInv(Link, SearchedSources)
  BY InitLoop
<1> QED BY <1>2, <1>3, PTL DEF DriveSpec

(* While the loop runs something can happen: a link waits only when every     *)
(* slot is taken, and there is at least one, so a check is running.           *)
THEOREM SelectHasBranchCorrect == DriveSpec => []SelectHasBranch
<1>1. DriveInv(Link, SearchedSources) => SelectHasBranch
  BY BranchLeft
<1> QED BY <1>1, DriveInvariant, PTL

(* No more links are checked at once than check.jobs says, and each scheduled *)
(* link is waiting, being checked or checked, and counted once.               *)
THEOREM ChecksAccountedCorrect == DriveSpec => []ChecksAccounted
<1>1. DriveInv(Link, SearchedSources) => ChecksAccounted
  BY EachInOnePlace
<1> QED BY <1>1, DriveInvariant, PTL

(* A search that was not interrupted prints only after every link it was told *)
(* of has been checked under the password it was announced with.              *)
THEOREM AnnouncedAreCheckedCorrect == DriveSpec => []AnnouncedAreChecked
<1>1. DriveInv(Link, SearchedSources) => AnnouncedAreChecked
  BY EachChecked
<1> QED BY <1>1, DriveInvariant, PTL

(* What is printed was found valid under the password it is printed with.     *)
THEOREM OnlyValidPrintedCorrect == DriveSpec => []OnlyValidPrinted
<1>1. DriveInv(Link, SearchedSources) => OnlyValidPrinted
  BY DEF DriveInv, Ending
<1> QED BY <1>1, DriveInvariant, PTL

(* The saved channels that the search found invalid are disabled when the     *)
(* answer is printed, those found after an interrupt too, and no others.      *)
THEOREM InvalidAreDisabledCorrect == DriveSpec => []InvalidAreDisabled
<1>1. DriveInv(Link, SearchedSources) => InvalidAreDisabled
  BY DEF DriveInv, Ending
<1> QED BY <1>1, DriveInvariant, PTL

-----------------------------------------------------------------------------
(* The loop with the search of ResultStream: CommandSpec.  Every link as it   *)
(* was last announced has been sent to the loop.                              *)
AnnouncedSent ==
    \A u \in DOMAIN emitted : \E e \in ToSet(sent) : e.kind # "error" /\ e.link = emitted[u]

CommandInv ==
    /\ DriveInv(AnswerLink, Source) /\ StreamInv /\ AnnouncedSent
    /\ completed # "none" => ended

LEMMA SourcesHeard == Heard(Source)
BY CommandAssumption DEF Heard

LEMMA InitCommand == CommandInit => CommandInv
<1> SUFFICES ASSUME CommandInit PROVE CommandInv
  OBVIOUS
<1>1. DriveInv(AnswerLink, Source) /\ StreamInv
  BY InitLoop, InitStream DEF CommandInit
<1>2. AnnouncedSent /\ completed = "none"
  BY DEF CommandInit, DriveInit, StreamInit, AnnouncedSent
<1> QED BY <1>1, <1>2 DEF CommandInv

(* What the history records of a poll is what the poll added to the channel.  *)
LEMMA NewlySent ==
    ASSUME NEW T, events \in Seq(T), NEW more \in Seq(T), events' = events \o more
    PROVE  NewEvents = more
<1>1. /\ Len(events) \in Nat /\ Len(more) \in Nat
      /\ events' \in Seq(T) /\ Len(events') = Len(events) + Len(more)
      /\ \A k \in 1 .. Len(more) : events'[Len(events) + k] = more[k]
  <2>1. /\ Len(events \o more) = Len(events) + Len(more) /\ events \o more \in Seq(T)
        /\ \A k \in 1 .. Len(events) + Len(more) :
              (events \o more)[k] = IF k <= Len(events) THEN events[k] ELSE more[k - Len(events)]
    BY ConcatProperties
  <2>2. Len(events) \in Nat /\ Len(more) \in Nat
    BY LenProperties
  <2>3. ASSUME NEW k \in 1 .. Len(more) PROVE (events \o more)[Len(events) + k] = more[k]
    <3>1. /\ Len(events) + k \in 1 .. Len(events) + Len(more) /\ ~(Len(events) + k <= Len(events))
          /\ (Len(events) + k) - Len(events) = k
      BY <2>2
    <3> QED BY <2>1, <3>1
  <2> QED BY <2>1, <2>2, <2>3
<1>2. /\ NewEvents \in Seq(T) /\ Len(NewEvents) = Len(more)
      /\ \A k \in 1 .. Len(more) : NewEvents[k] = events'[Len(events) + k]
  <2>1. \A i \in Len(events) + 1 .. Len(events') : events'[i] \in T
    BY <1>1, ElementOfSeq
  <2> QED BY <1>1, <2>1, SubSeqProperties DEF NewEvents
<1> QED BY <1>1, <1>2, SeqEqual

(* A poll of the search, whether it ends with it or not.                      *)
LEMMA PollKeeps ==
    ASSUME CommandInv, (\E i \in Source : AcceptBatch(i)) \/ StreamEnds,
           outcome' \in Seq(AnswerLink), sent' = sent \o NewEvents, InLoop,
           UNCHANGED <<checking, checkVars, endingVars, interrupted, invalid>>
    PROVE  DriveInv(AnswerLink, Source)' /\ StreamInv' /\ AnnouncedSent'
<1>1. StreamEvent = Event(AnswerLink, Source)
  BY DEF StreamEvent, LinkEvent, Event
<1>2. /\ DriveInv(AnswerLink, Source) /\ StreamInv /\ AnnouncedSent
      /\ events \in Seq(StreamEvent) /\ sent \in Seq(StreamEvent)
  BY <1>1 DEF CommandInv, DriveInv, DriveType
<1>3. PICK more \in Seq(StreamEvent) : events' = events \o more /\ Tells(more)
  BY <1>2, StepTells
<1>4. sent' = sent \o more
  BY <1>2, <1>3, NewlySent
<1>5. DriveInv(AnswerLink, Source)'
  BY <1>1, <1>2, <1>3, <1>4, SentKeeps
<1>6. StreamInv'
  BY <1>2, StreamStep DEF StreamNext
<1>7. AnnouncedSent'
  <2>1. ToSet(sent') = ToSet(sent) \cup ToSet(more)
    BY <1>2, <1>4, SetOfConcat
  <2> QED BY <1>2, <1>3, <2>1 DEF AnnouncedSent, Tells
<1> QED BY <1>5, <1>6, <1>7

LEMMA ProgressInv == CommandInv /\ CommandProgresses => CommandInv'
<1> SUFFICES ASSUME CommandInv, CommandProgresses PROVE CommandInv'
  OBVIOUS
<1>1. PICK i \in Source : AcceptBatch(i)
  BY DEF CommandProgresses
<1>2. /\ UNCHANGED <<checking, checkVars, endingVars, interrupted, invalid>>
      /\ InLoop /\ sent' = sent \o NewEvents /\ completed' = completed
  BY DEF CommandProgresses, SearchPolled
<1>3. outcome' \in Seq(AnswerLink) /\ ended' = ended
  BY <1>1 DEF AcceptBatch, CommandInv, DriveInv, DriveType
<1>4. DriveInv(AnswerLink, Source)' /\ StreamInv' /\ AnnouncedSent'
  BY <1>1, <1>2, <1>3, PollKeeps
<1> QED BY <1>2, <1>3, <1>4 DEF CommandInv

LEMMA CompletionInv == CommandInv /\ CommandCompletes => CommandInv'
<1> SUFFICES ASSUME CommandInv, CommandCompletes PROVE CommandInv'
  OBVIOUS
<1>1. StreamEnds /\ sent' = sent \o NewEvents
  BY DEF CommandCompletes
<1>2. UNCHANGED <<checking, checkVars, endingVars, interrupted, invalid>> /\ InLoop
  BY DEF CommandCompletes, SearchReturns
<1>3. outcome' = MergeLinks(Rank(RowsOf(batches'))) /\ ended'
  BY <1>1 DEF StreamEnds, EndStream
<1>4. outcome' \in Seq(AnswerLink)
  <2>1. StreamInv'
    BY <1>1, StreamStep DEF CommandInv, StreamNext
  <2>2. batches' \in Seq(Batch)
    BY <2>1 DEF StreamInv, StreamType
  <2> QED BY <1>3, <2>2, RowsOfBatches, RankPermutes, MergedRows
<1>5. DriveInv(AnswerLink, Source)' /\ StreamInv' /\ AnnouncedSent'
  BY <1>1, <1>2, <1>4, PollKeeps
<1> QED BY <1>3, <1>5 DEF CommandInv

(* The other steps leave the search alone.                                    *)
LEMMA OtherInv ==
    CommandInv /\ (LoopStep \/ UNCHANGED driveVars) /\ UNCHANGED streamOnly => CommandInv'
<1> SUFFICES ASSUME CommandInv, LoopStep \/ UNCHANGED driveVars, UNCHANGED streamOnly
             PROVE  CommandInv'
  OBVIOUS
<1>1. DriveInv(AnswerLink, Source)'
  BY SourcesHeard, LoopKeeps DEF CommandInv
<1>2. UNCHANGED <<sent, outcome, completed>>
  BY DEF LoopStep, DriveStep, ReceiveEvent, WriteAnswer, DisableFails, WriteFails,
         CheckFinishes, Interrupt, SignalFails, DriveEnded, searchVars, driveVars
<1>3. UNCHANGED <<found, batches, emitted, ended>>
  BY DEF streamOnly
<1>4. StreamInv'
  BY <1>2, <1>3, StreamUntouched DEF CommandInv
<1>5. AnnouncedSent' /\ (completed # "none" => ended)'
  BY <1>2, <1>3 DEF CommandInv, AnnouncedSent
<1> QED BY <1>1, <1>4, <1>5 DEF CommandInv

THEOREM CommandInvariant == CommandSpec => []CommandInv
<1>1. CommandInv /\ [CommandNext]_commandVars => CommandInv'
  <2> SUFFICES ASSUME CommandInv, [CommandNext]_commandVars PROVE CommandInv'
    OBVIOUS
  <2>1. CASE CommandProgresses
    BY <2>1, ProgressInv
  <2>2. CASE CommandCompletes
    BY <2>2, CompletionInv
  <2>3. CASE LoopStep /\ UNCHANGED streamOnly
    BY <2>3, OtherInv
  <2>4. CASE UNCHANGED commandVars
    BY <2>4, OtherInv DEF commandVars, streamOnly
  <2> QED BY <2>1, <2>2, <2>3, <2>4 DEF CommandNext, LoopStep
<1> QED BY <1>1, InitCommand, PTL DEF CommandSpec

(* The invariant implies that the newest code is printed and was checked.     *)
LEMMA NewestChecked == CommandInv => NewestCodeIsChecked
<1> DEFINE C == ToSet(Candidates(AllRows(batches)))
<1> SUFFICES ASSUME CommandInv, CompletedAnswer, DistinctIds, NEW k \in DOMAIN outcome,
                    NEW code \in Pwd \ {NoPwd}, RequiresCheck(outcome[k]),
                    \A l \in {l \in Occurrences(outcome[k].url) :
                                 \A o \in Occurrences(outcome[k].url) : o.time <= l.time} :
                        l.pwd = code
             PROVE  outcome[k].pwd = code /\ CheckKey(outcome[k]) \in DOMAIN checked
  BY Zenon DEF NewestCodeIsChecked
<1>1. StreamInv /\ ended /\ AnnouncedSent
  BY DEF CommandInv, CompletedAnswer
<1>2. Merges(outcome, C) /\ DOMAIN emitted = {c.url : c \in C}
  BY <1>1, OutcomeMerges DEF UrlsOf
<1>3. \A u : Occurrences(u) = {l \in C : l.url = u}
  BY DEF Occurrences, AllRows
<1>4. \A u \in DOMAIN emitted : NewestCode(emitted[u], C) /\ emitted[u].url = u
  BY <1>1, KnownLinks DEF StreamInv, StreamType, EndsAnnounced
<1> HIDE DEF C
<1> DEFINE url == outcome[k].url
<1>5. \A c \in C : c.url = url /\ (\A o \in C : o.url = url => o.time <= c.time) => c.pwd = code
  BY <1>3
<1>6. outcome[k].pwd = code
  <2>1. NewestCode(outcome[k], C)
    BY <1>2, MergesNewest
  <2> QED BY <1>5, <2>1 DEF NewestCode
<1>7. url \in DOMAIN emitted
  BY <1>2 DEF Merges
<1>8. emitted[url].pwd = code /\ emitted[url].url = url
  BY <1>4, <1>5, <1>7 DEF NewestCode
<1>9. PICK e \in ToSet(sent) : e.kind # "error" /\ e.link = emitted[url]
  BY <1>1, <1>7 DEF AnnouncedSent
<1>10. e.link \in SentLinks
  BY <1>9 DEF SentLinks, ToSet
<1>11. RequiresCheck(e.link) /\ CheckKey(e.link) = CheckKey(outcome[k])
  BY <1>6, <1>8, <1>9 DEF RequiresCheck, CheckKey
<1>12. SentAreChecked
  BY DEF CommandInv, DriveInv, Ending
<1>13. CheckKey(e.link) \in DOMAIN checked
  BY <1>10, <1>11, <1>12 DEF SentAreChecked, CompletedAnswer
<1> QED BY <1>6, <1>11, <1>13

(* When the newest rows that carry a link agree on its password, the answer   *)
(* has this password and the link was checked with it, whatever the sources   *)
(* found and in whatever order they answered.                                 *)
THEOREM NewestCodeIsCheckedCorrect == CommandSpec => []NewestCodeIsChecked
BY CommandInvariant, NewestChecked, PTL

(* Polling the search of ResultStream the loop keeps all that DriveSpec       *)
(* promises of it with a search that is left open.                            *)
THEOREM CommandKeepsLoop ==
    CommandSpec => [](/\ SelectHasBranch /\ ChecksAccounted /\ AnnouncedAreChecked
                      /\ OnlyValidPrinted /\ InvalidAreDisabled)
<1>1. CommandInv => /\ SelectHasBranch /\ ChecksAccounted /\ AnnouncedAreChecked
                    /\ OnlyValidPrinted /\ InvalidAreDisabled
  BY BranchLeft, EachInOnePlace, EachChecked DEF CommandInv, DriveInv, Ending
<1> QED BY <1>1, CommandInvariant, PTL
=============================================================================
