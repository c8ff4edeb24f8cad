----------------------------- MODULE DataProofs ----------------------------
(***************************************************************************)
(* Lemmas on data, whatever a component makes of it: on appending to a     *)
(* sequence, on the ranks of its indices, on picking elements of it and    *)
(* counting them; on counting up and on concatenating sequences; and on    *)
(* JSON values.  A JSON value is a finite tree: what holds of a value if   *)
(* it holds of its parts holds of all (TreeInduction), and a walk that is  *)
(* defined by what it gives for the parts exists and is the only one       *)
(* (TreeRecursion, OneRecursion).                                          *)
(***************************************************************************)
EXTENDS Picks, Deque, JsonTrees, SequencesExt, SequenceTheorems, FiniteSetTheorems, TLAPS

\* Appending a value makes it the last of the sequence and moves no other.
LEMMA AppendElements ==
    ASSUME NEW E, NEW q \in Seq(E), NEW e
    PROVE  /\ Len(Append(q, e)) = Len(q) + 1
           /\ Len(q) \in Nat
           /\ \A i \in 1..Len(q) : Append(q, e)[i] = q[i]
           /\ Append(q, e)[Len(q) + 1] = e
OBVIOUS

\* Appending to a sequence of bounded length, and dropping its oldest element
\* when it is full, keeps it within the bound.
LEMMA BoundedAppend ==
    ASSUME NEW E, NEW bound \in Nat \ {0},
           NEW q \in Seq(E), Len(q) <= bound, NEW e \in E
    PROVE  LET r == Append(IF Len(q) < bound THEN q ELSE Tail(q), e) IN
           r \in Seq(E) /\ Len(r) <= bound
<1>1. CASE Len(q) < bound
  BY <1>1
<1>2. CASE ~(Len(q) < bound)
  <2>1. Len(q) \in Nat /\ Len(q) = bound /\ q # << >>
    BY <1>2
  <2>2. Tail(q) \in Seq(E) /\ Len(Tail(q)) = Len(q) - 1
    BY <2>1
  <2>. QED  BY <1>2, <2>1, <2>2
<1>. QED  BY <1>1, <1>2

\* The elements of a part of a sequence.
LEMMA PartElements ==
    ASSUME NEW E, NEW h \in Seq(E), NEW m \in 1..(Len(h) + 1), NEW k \in (m - 1)..Len(h)
    PROVE  /\ SubSeq(h, m, k) \in Seq(E)
           /\ Len(SubSeq(h, m, k)) = k - m + 1
           /\ \A i \in 1..(k - m + 1) : SubSeq(h, m, k)[i] = h[m + i - 1]
<1>1. m \in Int /\ k \in Int /\ Len(h) \in Nat
  OBVIOUS
<1>2. \A i \in m..k : h[i] \in E
  OBVIOUS
<1>. QED  BY <1>1, <1>2, SubSeqProperties

\* Appending changes no part of a sequence.
LEMMA PartOfLonger ==
    ASSUME NEW E, NEW h \in Seq(E), NEW e \in E,
           NEW k \in 0..Len(h), NEW m \in 1..(k + 1)
    PROVE  SubSeq(Append(h, e), m, k) = SubSeq(h, m, k)
<1>. DEFINE g == Append(h, e)
<1>1. /\ g \in Seq(E) /\ Len(g) = Len(h) + 1 /\ Len(h) \in Nat
      /\ \A i \in 1..Len(h) : g[i] = h[i]
  BY AppendElements
<1>. HIDE DEF g
<1>2. m \in 1..(Len(h) + 1) /\ k \in (m - 1)..Len(h)
  BY <1>1
<1>3. m \in 1..(Len(g) + 1) /\ k \in (m - 1)..Len(g)
  BY <1>1
<1>4. /\ SubSeq(h, m, k) \in Seq(E) /\ Len(SubSeq(h, m, k)) = k - m + 1
      /\ \A i \in 1..(k - m + 1) : SubSeq(h, m, k)[i] = h[m + i - 1]
  BY <1>2, PartElements
<1>5. /\ SubSeq(g, m, k) \in Seq(E) /\ Len(SubSeq(g, m, k)) = k - m + 1
      /\ \A i \in 1..(k - m + 1) : SubSeq(g, m, k)[i] = g[m + i - 1]
  BY <1>1, <1>3, PartElements
<1>6. \A i \in 1..(k - m + 1) : m + i - 1 \in 1..Len(h)
  BY <1>1
<1>7. SubSeq(g, m, k) = SubSeq(h, m, k)
  BY <1>1, <1>4, <1>5, <1>6, SeqEqual
<1>. QED  BY <1>7 DEF g

\* A deque that holds the latest of some elements, with one more pushed, holds
\* the latest of them with that one.
LEMMA PushedIsLatest ==
    ASSUME NEW E, NEW h \in Seq(E), NEW e \in E, NEW maxlen \in Nat \ {0}
    PROVE  Pushed(Latest(h, maxlen), e, maxlen) = Latest(Append(h, e), maxlen)
<1>. DEFINE Oldest(k) == (IF k > maxlen THEN k - maxlen ELSE 0) + 1
            n == Len(h)
            g == Append(h, e)
            q == SubSeq(h, Oldest(n), n)
            w == SubSeq(g, Oldest(n + 1), n + 1)
<1>1. /\ g \in Seq(E) /\ Len(g) = n + 1 /\ n \in Nat
      /\ \A i \in 1..n : g[i] = h[i]
      /\ g[n + 1] = e
  BY AppendElements
<1>2. maxlen \in Nat /\ maxlen > 0
  OBVIOUS
<1>0. Latest(h, maxlen) = q /\ Latest(g, maxlen) = w
  BY <1>1 DEF Latest
<1>. HIDE DEF Oldest, g, n
<1>3. Oldest(n) \in 1..(n + 1) /\ n \in (Oldest(n) - 1)..n
  BY <1>1, <1>2 DEF Oldest
<1>4. /\ q \in Seq(E) /\ Len(q) = n - Oldest(n) + 1
      /\ \A i \in 1..(n - Oldest(n) + 1) : q[i] = h[Oldest(n) + i - 1]
  BY <1>3, PartElements DEF n
<1>5. Oldest(n + 1) \in 1..(Len(g) + 1) /\ n + 1 \in (Oldest(n + 1) - 1)..Len(g)
  BY <1>1, <1>2 DEF Oldest
<1>6. /\ w \in Seq(E) /\ Len(w) = n + 1 - Oldest(n + 1) + 1
      /\ \A i \in 1..(n + 1 - Oldest(n + 1) + 1) : w[i] = g[Oldest(n + 1) + i - 1]
  BY <1>1, <1>5, PartElements, SMTT(30)
<1>. HIDE DEF q, w
<1>7. CASE n < maxlen
  <2>1. Oldest(n) = 1 /\ Oldest(n + 1) = 1
    BY <1>1, <1>2, <1>7 DEF Oldest
  <2>2. Len(q) = n
    BY <1>1, <1>4, <2>1
  <2>3. Pushed(q, e, maxlen) = Append(q, e)
    BY <1>7, <2>2 DEF Pushed
  <2>4. /\ Append(q, e) \in Seq(E) /\ Len(Append(q, e)) = n + 1
        /\ \A i \in 1..n : Append(q, e)[i] = q[i]
        /\ Append(q, e)[n + 1] = e
    BY <1>4, <2>2, AppendElements
  <2>5. ASSUME NEW i \in 1..(n + 1)  PROVE Append(q, e)[i] = w[i]
    <3>1. i \in 1..(n + 1 - Oldest(n + 1) + 1) /\ Oldest(n + 1) + i - 1 = i
      BY <1>1, <2>1
    <3>2. w[i] = g[i]
      BY <1>6, <3>1
    <3>3. CASE i \in 1..n
      <4>1. i \in 1..(n - Oldest(n) + 1) /\ Oldest(n) + i - 1 = i
        BY <1>1, <2>1, <3>3
      <4>2. q[i] = h[i]
        BY <1>4, <4>1
      <4>. QED  BY <1>1, <2>4, <3>2, <3>3, <4>2
    <3>4. CASE i = n + 1
      BY <1>1, <2>4, <3>2, <3>4
    <3>5. i \in 1..n \/ i = n + 1
      BY <1>1
    <3>. QED  BY <3>3, <3>4, <3>5
  <2>6. Len(w) = n + 1
    BY <1>1, <1>6, <2>1
  <2>7. Append(q, e) = w
    BY <1>6, <2>4, <2>5, <2>6, SeqEqual
  <2>. QED  BY <1>0, <2>3, <2>7 DEF g
<1>8. CASE ~(n < maxlen)
  <2>1. Oldest(n) = n - maxlen + 1 /\ Oldest(n + 1) = n - maxlen + 2
    BY <1>1, <1>2, <1>8 DEF Oldest
  <2>2. Len(q) = maxlen /\ q # << >>
    BY <1>1, <1>2, <1>4, <2>1
  <2>. DEFINE t == Tail(q)
  <2>3. /\ t \in Seq(E) /\ Len(t) = maxlen - 1
        /\ \A i \in 1..(maxlen - 1) : t[i] = q[i + 1]
    BY <1>4, <2>2, HeadTailProperties
  <2>4. Pushed(q, e, maxlen) = Append(t, e)
    BY <1>2, <2>2 DEF Pushed
  <2>. HIDE DEF t
  <2>5. /\ Append(t, e) \in Seq(E) /\ Len(Append(t, e)) = maxlen
        /\ \A i \in 1..(maxlen - 1) : Append(t, e)[i] = t[i]
        /\ Append(t, e)[maxlen] = e
    <3>1. Len(t) + 1 = maxlen
      BY <1>2, <2>3
    <3>. QED  BY <2>3, <3>1, AppendElements
  <2>6. ASSUME NEW i \in 1..maxlen
        PROVE  w[i] = g[n - maxlen + 1 + i]
    <3>1. /\ i \in 1..(n + 1 - Oldest(n + 1) + 1)
          /\ Oldest(n + 1) + i - 1 = n - maxlen + 1 + i
      BY <1>1, <1>2, <2>1
    <3>. QED  BY <1>6, <3>1
  <2>7. ASSUME NEW i \in 1..(maxlen - 1)
        PROVE  Append(t, e)[i] = h[n - maxlen + 1 + i]
    <3>1. /\ i + 1 \in 1..(n - Oldest(n) + 1)
          /\ Oldest(n) + (i + 1) - 1 = n - maxlen + 1 + i
      BY <1>1, <1>2, <2>1
    <3>2. q[i + 1] = h[n - maxlen + 1 + i]
      BY <1>4, <3>1
    <3>. QED  BY <2>3, <2>5, <3>2
  <2>8. Len(w) = maxlen
    BY <1>1, <1>2, <1>6, <2>1
  <2>9. ASSUME NEW i \in 1..maxlen  PROVE Append(t, e)[i] = w[i]
    <3>1. CASE i \in 1..(maxlen - 1)
      <4>1. n - maxlen + 1 + i \in 1..n
        BY <1>1, <1>2, <1>8, <3>1
      <4>2. g[n - maxlen + 1 + i] = h[n - maxlen + 1 + i]
        BY <1>1, <4>1
      <4>. QED  BY <2>6, <2>7, <3>1, <4>2
    <3>2. CASE i = maxlen
      <4>1. n - maxlen + 1 + i = n + 1
        BY <1>1, <1>2, <3>2
      <4>2. w[i] = e
        BY <1>1, <2>6, <4>1
      <4>. QED  BY <2>5, <3>2, <4>2
    <3>3. i \in 1..(maxlen - 1) \/ i = maxlen
      BY <1>2
    <3>. QED  BY <3>1, <3>2, <3>3
  <2>10. Append(t, e) = w
    BY <1>6, <2>5, <2>8, <2>9, SeqEqual
  <2>. QED  BY <1>0, <2>4, <2>10 DEF g
<1>. QED  BY <1>7, <1>8

\* The indices of a sequence.
LEMMA IndicesType ==
    ASSUME NEW E, NEW s \in Seq(E)
    PROVE  /\ DOMAIN s = 1..Len(s) /\ Len(s) \in Nat
           /\ DOMAIN s \in SUBSET Int /\ IsFiniteSet(DOMAIN s)
           /\ Cardinality(DOMAIN s) = Len(s)
<1>1. DOMAIN s = 1..Len(s) /\ Len(s) \in Nat
  OBVIOUS
<1>2. IsFiniteSet(1..Len(s)) /\ Cardinality(1..Len(s)) = Len(s)
  BY <1>1, FS_Interval
<1>. QED  BY <1>1, <1>2

-----------------------------------------------------------------------------
\* The rank of an index among others: Nth is its inverse.
Rank(indices, i) == Cardinality({j \in indices : j <= i})

\* A one-to-one function onto a set shows that it has as many elements.
LEMMA SameSize ==
    ASSUME NEW S, NEW T, IsFiniteSet(S), NEW f \in [S -> T],
           \A x, y \in S : f[x] = f[y] => x = y,
           \A y \in T : \E x \in S : f[x] = y
    PROVE  IsFiniteSet(T) /\ Cardinality(T) = Cardinality(S)
<1>1. f \in Injection(S, T) /\ f \in Surjection(S, T)
  BY DEF Injection, Surjection, IsInjective
<1>. QED  BY <1>1, FS_Surjection

\* Ranks count up from one to the number of indices.
LEMMA RankType ==
    ASSUME NEW indices \in SUBSET Int, IsFiniteSet(indices), NEW i \in indices
    PROVE  Rank(indices, i) \in 1..Cardinality(indices)
<1>. DEFINE below == {j \in indices : j <= i}
<1>1. below \in SUBSET indices /\ i \in below
  OBVIOUS
<1>2. /\ IsFiniteSet(below) /\ Cardinality(below) \in Nat /\ Cardinality(indices) \in Nat
      /\ Cardinality(below) <= Cardinality(indices)
  BY <1>1, FS_Subset, FS_CardinalityType
<1>3. Cardinality(below) # 0
  BY <1>1, <1>2, FS_EmptySet
<1>. HIDE DEF below
<1>4. Cardinality(below) \in 1..Cardinality(indices)
  BY <1>2, <1>3
<1>. QED  BY <1>4 DEF Rank, below

\* The rank grows with the index.
LEMMA RankGrows ==
    ASSUME NEW indices \in SUBSET Int, IsFiniteSet(indices),
           NEW i \in indices, NEW j \in indices, i < j
    PROVE  Rank(indices, i) < Rank(indices, j)
<1>. DEFINE below(n) == {m \in indices : m <= n}
<1>0. i \in Int /\ j \in Int /\ \A m \in indices : m \in Int
  OBVIOUS
<1>1. below(i) \in SUBSET below(j) /\ j \in below(j) /\ j \notin below(i)
  <2>1. \A m \in indices : m <= i => m <= j
    BY <1>0
  <2>2. j <= j /\ ~(j <= i)
    BY <1>0
  <2>. QED  BY <2>1, <2>2
<1>2. IsFiniteSet(below(j))
  BY FS_Subset
<1>. HIDE DEF below
<1>3. /\ Cardinality(below(i)) \in Nat /\ Cardinality(below(j)) \in Nat
      /\ Cardinality(below(i)) <= Cardinality(below(j))
      /\ Cardinality(below(i)) # Cardinality(below(j))
  BY <1>1, <1>2, FS_Subset, FS_CardinalityType
<1>4. Cardinality(below(i)) < Cardinality(below(j))
  BY <1>3
<1>. QED  BY <1>4 DEF Rank, below

\* So every rank has its index, and only one.
LEMMA NthHasRank ==
    ASSUME NEW indices \in SUBSET Int, IsFiniteSet(indices)
    PROVE  /\ Cardinality(indices) \in Nat
           /\ \A k \in 1..Cardinality(indices) :
                 Nth(indices, k) \in indices /\ Rank(indices, Nth(indices, k)) = k
           /\ \A i \in indices : Nth(indices, Rank(indices, i)) = i
<1>. DEFINE n == Cardinality(indices)
            rank == [i \in indices |-> Rank(indices, i)]
<1>1. n \in Nat
  BY FS_CardinalityType
<1>2. rank \in [indices -> 1..n]
  BY RankType
<1>3. \A i, j \in indices : rank[i] = rank[j] => i = j
  <2>1. ASSUME NEW i \in indices, NEW j \in indices, i < j  PROVE rank[i] # rank[j]
    <3>1. Rank(indices, i) < Rank(indices, j)
      BY <2>1, RankGrows
    <3>2. Rank(indices, i) \in Int /\ Rank(indices, j) \in Int
      BY <1>1, RankType
    <3>. QED  BY <3>1, <3>2
  <2>2. \A i, j \in indices : i = j \/ i < j \/ j < i
    OBVIOUS
  <2>. QED  BY <2>1, <2>2
<1>4. rank \in Surjection(indices, 1..n)
  <2>1. rank \in Injection(indices, 1..n)
    BY <1>2, <1>3 DEF Injection, IsInjective
  <2>2. IsFiniteSet(1..n) /\ Cardinality(1..n) = n
    BY <1>1, FS_Interval
  <2>. QED  BY <2>1, <2>2, FS_Injection
<1>5. ASSUME NEW k \in 1..n
      PROVE  Nth(indices, k) \in indices /\ Rank(indices, Nth(indices, k)) = k
  <2>1. \E i \in indices : Rank(indices, i) = k
    BY <1>4 DEF Surjection
  <2>. QED  BY <2>1 DEF Nth, Rank
<1>6. ASSUME NEW i \in indices  PROVE Nth(indices, Rank(indices, i)) = i
  <2>1. Rank(indices, i) \in 1..n
    BY RankType
  <2>2. /\ Nth(indices, Rank(indices, i)) \in indices
        /\ Rank(indices, Nth(indices, Rank(indices, i))) = Rank(indices, i)
    BY <1>5, <2>1
  <2>. QED  BY <1>3, <2>2
<1>. QED  BY <1>1, <1>5, <1>6

\* Greater ranks belong to greater indices.
LEMMA NthGrows ==
    ASSUME NEW indices \in SUBSET Int, IsFiniteSet(indices),
           NEW k \in 1..Cardinality(indices), NEW l \in 1..Cardinality(indices), k < l
    PROVE  Nth(indices, k) < Nth(indices, l)
<1>1. /\ Nth(indices, k) \in indices /\ Rank(indices, Nth(indices, k)) = k
      /\ Nth(indices, l) \in indices /\ Rank(indices, Nth(indices, l)) = l
      /\ Cardinality(indices) \in Nat
  BY NthHasRank
<1>2. Nth(indices, l) < Nth(indices, k) => l < k
  BY <1>1, RankGrows
<1>3. k \in Int /\ l \in Int /\ Nth(indices, k) \in Int /\ Nth(indices, l) \in Int
  <2>1. \A i \in indices : i \in Int
    OBVIOUS
  <2>2. Nth(indices, k) \in Int /\ Nth(indices, l) \in Int
    BY <1>1, <2>1
  <2>3. k \in Int /\ l \in Int
    BY <1>1
  <2>. QED  BY <2>2, <2>3
<1>4. Nth(indices, l) # Nth(indices, k)
  BY <1>1, <1>3
<1>. QED  BY <1>2, <1>3, <1>4

\* Some indices have a greatest one.
LEMMA GreatestIndex ==
    ASSUME NEW indices \in SUBSET Int, IsFiniteSet(indices), indices # {}
    PROVE  \E i \in indices : \A j \in indices : j <= i
<1>. DEFINE n == Cardinality(indices)
            i == Nth(indices, n)
<1>1. n \in Nat /\ n # 0
  BY FS_CardinalityType, FS_EmptySet
<1>2. i \in indices /\ Rank(indices, i) = n
  BY <1>1, NthHasRank
<1>. HIDE DEF i
<1>3. ASSUME NEW j \in indices  PROVE j <= i
  <2>1. Rank(indices, j) \in 1..n
    BY RankType
  <2>2. i < j => n < Rank(indices, j)
    BY <1>2, RankGrows
  <2>3. ~(i < j)
    BY <1>1, <2>1, <2>2
  <2>4. i \in Int /\ j \in Int
    BY <1>2
  <2>. QED  BY <2>3, <2>4
<1>. QED  BY <1>2, <1>3

-----------------------------------------------------------------------------
\* What is picked of a sequence, with as many elements as there are indices.
LEMMA PickedElements ==
    ASSUME NEW s, NEW indices \in SUBSET Int, IsFiniteSet(indices)
    PROVE  /\ Len(Picked(s, indices)) = Cardinality(indices)
           /\ DOMAIN Picked(s, indices) = 1..Cardinality(indices)
           /\ \A k \in 1..Cardinality(indices) :
                 Picked(s, indices)[k] = s[Nth(indices, k)]
           /\ \A i \in indices :
                 /\ Rank(indices, i) \in DOMAIN Picked(s, indices)
                 /\ Picked(s, indices)[Rank(indices, i)] = s[i]
<1>1. Cardinality(indices) \in Nat
  BY NthHasRank
<1>2. /\ Len(Picked(s, indices)) = Cardinality(indices)
      /\ DOMAIN Picked(s, indices) = 1..Cardinality(indices)
      /\ \A k \in 1..Cardinality(indices) :
            Picked(s, indices)[k] = s[Nth(indices, k)]
  BY <1>1 DEF Picked
<1>3. ASSUME NEW i \in indices
      PROVE  /\ Rank(indices, i) \in DOMAIN Picked(s, indices)
             /\ Picked(s, indices)[Rank(indices, i)] = s[i]
  BY <1>2, RankType, NthHasRank
<1>. QED  BY <1>2, <1>3

\* Of what is picked as many elements lie in a set as indices do.
LEMMA PickedCount ==
    ASSUME NEW s, NEW indices \in SUBSET Int, IsFiniteSet(indices), NEW marked
    PROVE  Cardinality({k \in 1..Cardinality(indices) : Nth(indices, k) \in marked})
             = Cardinality(indices \cap marked)
<1>. DEFINE ranks == {k \in 1..Cardinality(indices) : Nth(indices, k) \in marked}
            f == [k \in ranks |-> Nth(indices, k)]
<1>1. Cardinality(indices) \in Nat
  BY NthHasRank
<1>2. IsFiniteSet(ranks)
  <2>1. IsFiniteSet(1..Cardinality(indices))
    BY <1>1, FS_Interval
  <2>. QED  BY <2>1, FS_Subset
<1>3. f \in [ranks -> indices \cap marked]
  BY NthHasRank
<1>4. \A k, l \in ranks : f[k] = f[l] => k = l
  BY NthHasRank
<1>5. \A i \in indices \cap marked : \E k \in ranks : f[k] = i
  BY NthHasRank, RankType
<1>. HIDE DEF ranks, f
<1>6. Cardinality(indices \cap marked) = Cardinality(ranks)
  BY <1>2, <1>3, <1>4, <1>5, SameSize
<1>. QED  BY <1>6 DEF ranks

-----------------------------------------------------------------------------
\* Those of some indices that are in a group, and as many units of every group.
Members(indices, group, g) == {i \in indices : group[i] = g}
UnitsOf(groups, size) == UNION {{g} \X (1..size[g]) : g \in groups}

\* Counted group by group, or all at once: the n-th of a group is itself.
LEMMA CountByGroup ==
    ASSUME NEW indices \in SUBSET Int, IsFiniteSet(indices),
           NEW groups, NEW group \in [indices -> groups],
           NEW size, \A g \in groups : size[g] = Cardinality(Members(indices, group, g))
    PROVE  Cardinality(UnitsOf(groups, size)) = Cardinality(indices)
<1>. DEFINE units == UnitsOf(groups, size)
            members(g) == Members(indices, group, g)
            f == [i \in indices |-> <<group[i], Rank(members(group[i]), i)>>]
<1>1. ASSUME NEW g \in groups
      PROVE  members(g) \in SUBSET Int /\ IsFiniteSet(members(g)) /\ size[g] = Cardinality(members(g))
  BY FS_Subset DEF Members
<1>2. ASSUME NEW i \in indices
      PROVE  /\ group[i] \in groups /\ i \in members(group[i])
             /\ f[i] = <<group[i], Rank(members(group[i]), i)>>
  BY DEF Members
<1>3. \A g \in groups : \A i \in members(g) : i \in indices /\ group[i] = g
  BY DEF Members
<1>4. \A u : u \in units <=> \E g \in groups : \E k \in 1..size[g] : u = <<g, k>>
  BY DEF UnitsOf
<1>. HIDE DEF units, members
<1>5. f \in [indices -> units]
  <2>1. ASSUME NEW i \in indices  PROVE f[i] \in units
    <3>1. Rank(members(group[i]), i) \in 1..size[group[i]]
      BY <1>1, <1>2, RankType
    <3>. QED  BY <1>2, <1>4, <3>1
  <2>. QED  BY <2>1
<1>. HIDE DEF f
<1>6. ASSUME NEW i \in indices, NEW j \in indices, f[i] = f[j]  PROVE i = j
  <2>0. <<group[i], Rank(members(group[i]), i)>> = <<group[j], Rank(members(group[j]), j)>>
    BY <1>2, <1>6
  <2>1. group[i] = group[j] /\ Rank(members(group[i]), i) = Rank(members(group[j]), j)
    BY <2>0
  <2>2. /\ Nth(members(group[i]), Rank(members(group[i]), i)) = i
        /\ Nth(members(group[j]), Rank(members(group[j]), j)) = j
    BY <1>1, <1>2, NthHasRank
  <2>. QED  BY <2>1, <2>2
<1>7. ASSUME NEW u \in units  PROVE \E i \in indices : f[i] = u
  <2>0. PICK g \in groups : \E k \in 1..size[g] : u = <<g, k>>
    BY <1>4
  <2>1. PICK k \in 1..size[g] : u = <<g, k>>
    BY <2>0
  <2>. DEFINE i == Nth(members(g), k)
  <2>2. i \in members(g) /\ Rank(members(g), i) = k
    BY <1>1, NthHasRank
  <2>3. i \in indices /\ group[i] = g
    BY <1>3, <2>2
  <2>. HIDE DEF i
  <2>. QED  BY <1>2, <2>1, <2>2, <2>3
<1>8. Cardinality(units) = Cardinality(indices)
  BY <1>5, <1>6, <1>7, SameSize
<1>. QED  BY <1>8 DEF units

-----------------------------------------------------------------------------
\* Some numbers have a least one.
LEMMA LeastNumber ==
    ASSUME NEW numbers \in SUBSET Nat, numbers # {}
    PROVE  \E n \in numbers : \A m \in numbers : n <= m
<1>1. PICK k \in numbers : TRUE
  OBVIOUS
<1>2. k \in Nat
  OBVIOUS
<1>. DEFINE upTo == {n \in -k..0 : -n \in numbers}
<1>3. upTo \in SUBSET Int /\ upTo # {} /\ IsFiniteSet(upTo)
  <2>1. IsFiniteSet(-k..0)
    BY <1>2, FS_Interval
  <2>2. -k \in upTo
    BY <1>1, <1>2
  <2>. QED  BY <2>1, <2>2, FS_Subset
<1>4. PICK i \in upTo : \A j \in upTo : j <= i
  BY <1>3, GreatestIndex
<1>5. -i \in numbers /\ i \in Int
  BY <1>4
<1>6. ASSUME NEW m \in numbers  PROVE -i <= m
  <2>1. m \in Nat
    OBVIOUS
  <2>2. CASE m <= k
    <3>1. -m \in upTo
      BY <1>2, <2>1, <2>2
    <3>2. -m <= i
      BY <1>4, <3>1
    <3>. QED  BY <1>5, <2>1, <3>2
  <2>3. CASE ~(m <= k)
    <3>1. -i <= k
      BY <1>2, <1>4
    <3>. QED  BY <1>2, <1>5, <2>1, <2>3, <3>1
  <2>. QED  BY <2>2, <2>3
<1>. QED  BY <1>5, <1>6

\* What holds of zero and of the next of each number it holds of, holds of all.
LEMMA CountingUp ==
    ASSUME NEW good, 0 \in good, \A n \in Nat : n \in good => n + 1 \in good
    PROVE  Nat \subseteq good
<1>. DEFINE bad == Nat \ good
<1>1. SUFFICES ASSUME bad # {}  PROVE FALSE
  OBVIOUS
<1>2. PICK n \in bad : \A m \in bad : n <= m
  BY <1>1, LeastNumber
<1>3. n \in Nat \ {0}
  BY <1>2
<1>4. n - 1 \in Nat /\ n - 1 \notin bad /\ (n - 1) + 1 = n
  BY <1>2, <1>3
<1>. QED  BY <1>2, <1>4

-----------------------------------------------------------------------------
\* The concatenation of the first sequences of some, up to each of them.
IsPrefixes(prefixes, s) ==
    \A i \in 1..Len(s) :
        prefixes[i] = IF i = 1 THEN s[i] ELSE prefixes[i - 1] \o s[i]

\* There is such a function, so FlattenSeq gives its last element.
LEMMA FlattenSteps ==
    ASSUME NEW E, NEW s \in Seq(Seq(E)), Len(s) # 0
    PROVE  \E prefixes \in [1..Len(s) -> Seq(E)] :
             IsPrefixes(prefixes, s) /\ FlattenSeq(s) = prefixes[Len(s)]
<1>0. Len(s) \in Nat \ {0} /\ \A i \in 1..Len(s) : s[i] \in Seq(E)
  OBVIOUS
<1>. DEFINE L == Len(s)
            Fits(f, n) == /\ f \in [1..n -> Seq(E)]
                          /\ \A i \in 1..n : f[i] = IF i = 1 THEN s[i] ELSE f[i - 1] \o s[i]
            good == {n \in Nat : n <= L => \E f : Fits(f, n)}
<1>. HIDE DEF L
<1>1. L \in Nat \ {0} /\ \A i \in 1..L : s[i] \in Seq(E)
  BY <1>0 DEF L
<1>2. ASSUME NEW n \in Nat, n + 1 <= L, NEW f, Fits(f, n)
      PROVE  \E g : Fits(g, n + 1)
  <2>. DEFINE last == IF n = 0 THEN s[1] ELSE f[n] \o s[n + 1]
              g == [i \in 1..(n + 1) |-> IF i = n + 1 THEN last ELSE f[i]]
  <2>1. n + 1 \in 1..L /\ 1 \in 1..L /\ (n # 0 => n \in 1..n)
    BY <1>1, <1>2
  <2>2. last \in Seq(E)
    <3>1. s[1] \in Seq(E) /\ s[n + 1] \in Seq(E)
      BY <1>1, <2>1
    <3>2. n # 0 => f[n] \in Seq(E)
      BY <1>2, <2>1
    <3>. QED  BY <3>1, <3>2
  <2>3. g[n + 1] = IF n = 0 THEN s[1] ELSE f[n] \o s[n + 1]
    OBVIOUS
  <2>. HIDE DEF last
  <2>4. \A i \in 1..n : g[i] = f[i]
    OBVIOUS
  <2>5. g \in [1..(n + 1) -> Seq(E)]
    BY <1>2, <2>2
  <2>. HIDE DEF g
  <2>6. ASSUME NEW i \in 1..(n + 1)
        PROVE  g[i] = IF i = 1 THEN s[i] ELSE g[i - 1] \o s[i]
    <3>1. CASE i \in 1..n
      <4>1. i # 1 => i - 1 \in 1..n
        BY <3>1
      <4>2. f[i] = IF i = 1 THEN s[i] ELSE f[i - 1] \o s[i]
        BY <1>2, <3>1
      <4>. QED  BY <2>4, <3>1, <4>1, <4>2
    <3>2. CASE i = n + 1
      <4>1. n # 0 => g[n] = f[n]
        BY <2>1, <2>4
      <4>2. i - 1 = n /\ (i = 1 <=> n = 0)
        BY <3>2
      <4>. QED  BY <2>3, <3>2, <4>1, <4>2
    <3>. QED  BY <3>1, <3>2
  <2>. QED  BY <2>5, <2>6
<1>3. Fits(<< >>, 0)
  OBVIOUS
<1>. HIDE DEF Fits
<1>4. \E f : Fits(f, L)
  <2>1. 0 \in good
    BY <1>3
  <2>2. ASSUME NEW n \in Nat, n \in good  PROVE n + 1 \in good
    BY <1>1, <1>2, <2>2
  <2>. HIDE DEF good
  <2>3. Nat \subseteq good
    BY <2>1, <2>2, CountingUp
  <2>4. L \in good
    BY <1>1, <2>3
  <2>. QED  BY <1>1, <2>4 DEF good
<1>. DEFINE F(g) == [i \in 1..L |-> IF i = 1 THEN s[i] ELSE g[i - 1] \o s[i]]
            flatten == CHOOSE g : g = F(g)
<1>5. \E g : g = F(g)
  BY <1>4, Zenon DEF Fits
<1>6. flatten = F(flatten)
  BY <1>5, Zenon
<1>7. FlattenSeq(s) = flatten[L]
  BY <1>0 DEF FlattenSeq, L
<1>. HIDE DEF flatten
<1>8. /\ DOMAIN flatten = 1..L
      /\ \A i \in 1..L : flatten[i] = IF i = 1 THEN s[i] ELSE flatten[i - 1] \o s[i]
  BY <1>6
<1>. DEFINE typed == {n \in Nat : n + 1 <= L => flatten[n + 1] \in Seq(E)}
<1>9. 0 \in typed
  <2>1. 1 \in 1..L
    BY <1>1
  <2>2. flatten[1] = s[1] /\ s[1] \in Seq(E)
    BY <1>1, <1>8, <2>1
  <2>. QED  BY <2>2
<1>10. ASSUME NEW n \in Nat, n \in typed, n + 2 <= L  PROVE flatten[n + 2] \in Seq(E)
  <2>1. n + 1 <= L /\ n + 2 \in 1..L /\ n + 2 # 1 /\ (n + 2) - 1 = n + 1
    BY <1>1, <1>10
  <2>2. flatten[n + 2] = flatten[n + 1] \o s[n + 2]
    BY <1>8, <2>1
  <2>3. flatten[n + 1] \in Seq(E) /\ s[n + 2] \in Seq(E)
    BY <1>1, <1>10, <2>1
  <2>. QED  BY <2>2, <2>3
<1>11. \A n \in Nat : n \in typed => n + 1 \in typed
  BY <1>10
<1>12. Nat \subseteq typed
  <2>. HIDE DEF typed
  <2>. QED  BY <1>9, <1>11, CountingUp
<1>13. ASSUME NEW i \in 1..L  PROVE flatten[i] \in Seq(E)
  <2>1. i - 1 \in Nat /\ (i - 1) + 1 = i /\ i <= L
    BY <1>1
  <2>2. i - 1 \in typed
    BY <1>12, <2>1
  <2>. QED  BY <2>1, <2>2
<1>14. flatten \in [1..L -> Seq(E)]
  <2>1. flatten = [i \in 1..L |-> flatten[i]]
    BY <1>6, <1>8
  <2>. HIDE DEF F
  <2>. QED  BY <1>13, <2>1
<1>. QED  BY <1>7, <1>8, <1>14 DEF IsPrefixes, L

\* Where each of the first n sequences starts in their concatenation f: each
\* behind the one before it, all of f covered.
LaidOut(start, s, n, f) ==
    /\ \A i \in 1..n : start[i] + Len(s[i]) <= Len(f)
    /\ \A i \in 1..n : \A k \in 1..Len(s[i]) : f[start[i] + k] = s[i][k]
    /\ \A m \in 1..Len(f) : \E i \in 1..n : m - start[i] \in 1..Len(s[i])
    /\ \A i, j \in 1..n : i < j => start[i] + Len(s[i]) <= start[j]

\* One sequence more is laid out behind the others.
LEMMA LaidBehind ==
    ASSUME NEW E, NEW s \in Seq(Seq(E)), NEW n \in Nat, n + 1 <= Len(s),
           NEW start \in [1..Len(s) -> Nat], NEW f \in Seq(E),
           LaidOut(start, s, n, f), start[n + 1] = Len(f)
    PROVE  LaidOut(start, s, n + 1, f \o s[n + 1])
<1>. DEFINE g == f \o s[n + 1]
<1>0. /\ Len(s) \in Nat /\ s[n + 1] \in Seq(E) /\ Len(f) \in Nat
      /\ \A i \in 1..Len(s) : s[i] \in Seq(E)
  OBVIOUS
<1>1. /\ g \in Seq(E) /\ Len(g) = Len(f) + Len(s[n + 1]) /\ Len(s[n + 1]) \in Nat
      /\ \A m \in 1..Len(f) : g[m] = f[m]
      /\ \A k \in 1..Len(s[n + 1]) : g[Len(f) + k] = s[n + 1][k]
  BY <1>0, ConcatProperties
<1>. HIDE DEF g
<1>2. \A i \in 1..n : i \in 1..Len(s) /\ start[i] \in Nat /\ Len(s[i]) \in Nat
  <2>1. \A i \in 1..n : i \in 1..Len(s)
    BY <1>0
  <2>2. \A i \in 1..n : start[i] \in Nat
    BY <2>1
  <2>3. \A i \in 1..n : Len(s[i]) \in Nat
    BY <1>0, <2>1
  <2>. QED  BY <2>1, <2>2, <2>3
<1>3. \A i \in 1..(n + 1) : i \in 1..n \/ i = n + 1
  OBVIOUS
<1>4. ASSUME NEW i \in 1..(n + 1)  PROVE start[i] + Len(s[i]) <= Len(g)
  <2>1. CASE i \in 1..n
    <3>1. start[i] + Len(s[i]) <= Len(f)
      BY <2>1 DEF LaidOut
    <3>2. start[i] \in Nat /\ Len(s[i]) \in Nat /\ Len(f) \in Nat /\ Len(s[n + 1]) \in Nat
      BY <1>0, <1>1, <1>2, <2>1
    <3>3. Len(g) = Len(f) + Len(s[n + 1])
      BY <1>1
    <3>. QED  BY <3>1, <3>2, <3>3, SMTT(30)
  <2>2. CASE i = n + 1
    BY <1>1, <2>2
  <2>. QED  BY <1>3, <2>1, <2>2
<1>5. ASSUME NEW i \in 1..(n + 1), NEW k \in 1..Len(s[i])  PROVE g[start[i] + k] = s[i][k]
  <2>1. CASE i \in 1..n
    <3>1. start[i] + Len(s[i]) <= Len(f) /\ f[start[i] + k] = s[i][k]
      BY <2>1 DEF LaidOut
    <3>2. start[i] \in Nat /\ Len(s[i]) \in Nat /\ k \in 1..Len(s[i]) /\ Len(f) \in Nat
      BY <1>0, <1>2, <2>1
    <3>3. start[i] + k \in 1..Len(f)
      BY <3>1, <3>2, SMTT(30)
    <3>. QED  BY <1>1, <3>1, <3>3
  <2>2. CASE i = n + 1
    BY <1>1, <2>2
  <2>. QED  BY <1>3, <2>1, <2>2
<1>6. ASSUME NEW m \in 1..Len(g)
      PROVE  \E i \in 1..(n + 1) : m - start[i] \in 1..Len(s[i])
  <2>1. CASE m \in 1..Len(f)
    <3>1. PICK i \in 1..n : m - start[i] \in 1..Len(s[i])
      BY <2>1 DEF LaidOut
    <3>. QED  BY <3>1
  <2>2. CASE m \notin 1..Len(f)
    <3>1. m - start[n + 1] \in 1..Len(s[n + 1])
      BY <1>0, <1>1, <2>2
    <3>2. n + 1 \in 1..(n + 1)
      OBVIOUS
    <3>. QED  BY <3>1, <3>2
  <2>. QED  BY <2>1, <2>2
<1>7. ASSUME NEW i \in 1..(n + 1), NEW j \in 1..(n + 1), i < j
      PROVE  start[i] + Len(s[i]) <= start[j]
  <2>1. i \in 1..n
    BY <1>7
  <2>. QED  BY <1>3, <1>7, <2>1 DEF LaidOut
<1>8. LaidOut(start, s, n + 1, g)
  BY <1>4, <1>5, <1>6, <1>7 DEF LaidOut
<1>. QED  BY <1>8 DEF g

\* What FlattenSeq gives: the sequences laid out one behind the other.
LEMMA Flattened ==
    ASSUME NEW E, NEW s \in Seq(Seq(E))
    PROVE  /\ FlattenSeq(s) \in Seq(E)
           /\ \E start \in [1..Len(s) -> Nat] : LaidOut(start, s, Len(s), FlattenSeq(s))
<1>0. Len(s) \in Nat /\ \A i \in 1..Len(s) : s[i] \in Seq(E)
  OBVIOUS
<1>1. CASE Len(s) = 0
  <2>1. s = << >> /\ FlattenSeq(s) = << >>
    BY <1>1 DEF FlattenSeq
  <2>2. LaidOut([i \in 1..0 |-> 0], << >>, 0, << >>)
    BY DEF LaidOut
  <2>3. [i \in 1..0 |-> 0] \in [1..0 -> Nat] /\ << >> \in Seq(E) /\ Len(<< >>) = 0
    OBVIOUS
  <2>. QED  BY <2>1, <2>2, <2>3
<1>2. CASE Len(s) # 0
  <2>1. PICK p \in [1..Len(s) -> Seq(E)] : IsPrefixes(p, s) /\ FlattenSeq(s) = p[Len(s)]
    BY <1>2, FlattenSteps
  <2>. DEFINE start == [i \in 1..Len(s) |-> IF i = 1 THEN 0 ELSE Len(p[i - 1])]
  <2>2. start \in [1..Len(s) -> Nat]
    <3>1. \A i \in 1..Len(s) : i # 1 => i - 1 \in 1..Len(s)
      BY <1>0
    <3>2. \A i \in 1..Len(s) : i # 1 => Len(p[i - 1]) \in Nat
      BY <3>1
    <3>. QED  BY <3>2
  <2>3. start[1] = 0 /\ \A n \in 1..(Len(s) - 1) : start[n + 1] = Len(p[n])
    BY <1>0, <1>2
  <2>. HIDE DEF start
  <2>. DEFINE good == {n \in Nat : n + 1 <= Len(s) => LaidOut(start, s, n + 1, p[n + 1])}
  <2>4. 0 \in good
    <3>1. LaidOut(start, s, 0, << >>) /\ << >> \in Seq(E) /\ Len(<< >>) = 0
      BY DEF LaidOut
    <3>2. << >> \o s[1] = p[1] /\ 0 + 1 <= Len(s)
      <4>0. 1 \in 1..Len(s)
        BY <1>0, <1>2
      <4>1. s[1] \in Seq(E) /\ p[1] = s[1]
        BY <1>0, <2>1, <4>0 DEF IsPrefixes
      <4>. QED  BY <1>0, <1>2, <4>1, ConcatEmptySeq
    <3>3. start[0 + 1] = Len(<< >>) /\ 0 \in Nat
      BY <2>3
    <3>4. LaidOut(start, s, 0 + 1, << >> \o s[0 + 1])
      BY <2>2, <3>1, <3>2, <3>3, LaidBehind, Zenon
    <3>. QED  BY <3>2, <3>4
  <2>5. ASSUME NEW n \in Nat, n \in good, n + 2 <= Len(s)
        PROVE  LaidOut(start, s, n + 2, p[n + 2])
    <3>0. n + 1 \in 1..Len(s) /\ n + 2 \in 1..Len(s) /\ n + 2 # 1 /\ (n + 2) - 1 = n + 1
      BY <1>0, <2>5
    <3>1. p[n + 2] = p[n + 1] \o s[n + 2] /\ p[n + 1] \in Seq(E)
      BY <2>1, <3>0 DEF IsPrefixes
    <3>2. LaidOut(start, s, n + 1, p[n + 1]) /\ start[n + 2] = Len(p[n + 1])
      BY <1>0, <2>3, <2>5
    <3>3. n + 1 \in Nat /\ (n + 1) + 1 = n + 2 /\ (n + 1) + 1 <= Len(s)
      BY <2>5
    <3>4. LaidOut(start, s, (n + 1) + 1, p[n + 1] \o s[(n + 1) + 1])
      BY <2>2, <3>1, <3>2, <3>3, LaidBehind
    <3>. QED  BY <3>1, <3>3, <3>4
  <2>6. Nat \subseteq good
    <3>1. \A n \in Nat : n \in good => n + 1 \in good
      BY <2>5
    <3>. HIDE DEF good
    <3>. QED  BY <2>4, <3>1, CountingUp
  <2>7. LaidOut(start, s, Len(s), p[Len(s)]) /\ p[Len(s)] \in Seq(E)
    <3>0. Len(s) - 1 \in Nat /\ (Len(s) - 1) + 1 = Len(s) /\ Len(s) \in 1..Len(s)
      BY <1>0, <1>2
    <3>1. Len(s) - 1 \in good
      BY <2>6, <3>0
    <3>2. LaidOut(start, s, Len(s), p[Len(s)])
      BY <3>0, <3>1
    <3>. QED  BY <3>0, <3>2
  <2>. QED  BY <2>1, <2>2, <2>7
<1>. QED  BY <1>1, <1>2

-----------------------------------------------------------------------------
\* The values lower than a value.
Lower(values, height, v) == {w \in values : height[w] < height[v]}

\* What it means that values are trees.
LEMMA TreesType ==
    ASSUME NEW values, NEW height, NEW strings, AreTrees(values, height, strings)
    PROVE  /\ height \in [values -> Nat]
           /\ \A v \in values :
                /\ v.kind # "absent"
                /\ v.kind = "dict" =>
                    /\ v.entries \in Seq([key : strings, value : Lower(values, height, v)])
                    /\ \A i, j \in DOMAIN v.entries :
                           v.entries[i].key = v.entries[j].key => i = j
                /\ v.kind = "list" => v.items \in Seq(Lower(values, height, v))
                /\ v.kind = "text" => v.text \in strings
BY DEF AreTrees, Lower

-----------------------------------------------------------------------------
\* The values directly in a value are lower than it.
LEMMA PartsType ==
    ASSUME NEW values, NEW height, NEW strings, AreTrees(values, height, strings),
           NEW v \in values
    PROVE  /\ Parts(v) \in Seq(values)
           /\ \A i \in 1..Len(Parts(v)) : height[Parts(v)[i]] < height[v]
<1>1. Parts(v) \in Seq(Lower(values, height, v))
  <2>1. CASE v.kind = "dict"
    <3>1. v.entries \in Seq([key : strings, value : Lower(values, height, v)])
      BY <2>1, TreesType
    <3>. DEFINE L == Lower(values, height, v)
    <3>2. v.entries \in Seq([key : strings, value : L])
      BY <3>1
    <3>. HIDE DEF L
    <3>3. [i \in DOMAIN v.entries |-> v.entries[i].value] \in Seq(L)
      <4>1. \A i \in 1..Len(v.entries) : v.entries[i] \in [key : strings, value : L]
        BY <3>2, ElementOfSeq
      <4>2. \A i \in 1..Len(v.entries) : v.entries[i].value \in L
        BY <4>1
      <4>3. DOMAIN v.entries = 1..Len(v.entries) /\ Len(v.entries) \in Nat
        BY <3>2
      <4>. QED  BY <4>2, <4>3
    <3>. QED  BY <2>1, <3>3 DEF Parts, L
  <2>2. CASE v.kind = "list"
    BY <2>2, TreesType DEF Parts
  <2>3. CASE v.kind \notin {"dict", "list"}
    BY <2>3 DEF Parts
  <2>. QED  BY <2>1, <2>2, <2>3
<1>2. \A w \in Lower(values, height, v) : w \in values /\ height[w] < height[v]
  BY DEF Lower
<1>. QED  BY <1>1, <1>2

\* What holds of a value if it holds of all its parts holds of every value.
LEMMA TreeInduction ==
    ASSUME NEW values, NEW height, NEW strings, AreTrees(values, height, strings),
           NEW good,
           \A v \in values :
               (\A i \in 1..Len(Parts(v)) : Parts(v)[i] \in good) => v \in good
    PROVE  values \subseteq good
<1>. DEFINE bad == values \ good
            heights == {n \in Nat : \E v \in bad : height[v] = n}
<1>1. SUFFICES ASSUME bad # {}  PROVE FALSE
  OBVIOUS
<1>2. \A v \in bad : height[v] \in heights
  BY TreesType
<1>3. PICK n \in heights : \A m \in heights : n <= m
  <2>1. heights # {} /\ heights \in SUBSET Nat
    BY <1>1, <1>2
  <2>. QED  BY <2>1, LeastNumber
<1>4. PICK v \in bad : height[v] = n
  BY <1>3
<1>5. ASSUME NEW i \in 1..Len(Parts(v))  PROVE Parts(v)[i] \in good
  <2>1. Parts(v)[i] \in values /\ height[Parts(v)[i]] < n
    BY <1>4, PartsType
  <2>2. Parts(v)[i] \in bad => n <= height[Parts(v)[i]]
    BY <1>2, <1>3
  <2>3. height[Parts(v)[i]] \in Nat /\ n \in Nat
    BY <1>3, <2>1, TreesType
  <2>. QED  BY <2>1, <2>2, <2>3
<1>. QED  BY <1>4, <1>5

-----------------------------------------------------------------------------
\* The parts of a value, each replaced by what a function gives of it.
Folded(f, v) == [i \in DOMAIN Parts(v) |-> f[Parts(v)[i]]]

\* What is to be folded: a value and a result of each part of it.
ToFold(values, R) == {x \in values \X Seq(R) : DOMAIN x[2] = DOMAIN Parts(x[1])}

\* A function satisfies the equation of a recursion on some values.
Recurs(f, step, S, R) == f \in [S -> R] /\ \A v \in S : f[v] = step[<<v, Folded(f, v)>>]

\* values below a height.
Below(values, height, n) == {v \in values : height[v] < n}

\* What is folded.
LEMMA FoldedType ==
    ASSUME NEW values, NEW height, NEW strings, AreTrees(values, height, strings),
           NEW R, NEW S, NEW f, \A w \in S : f[w] \in R,
           NEW v \in values, \A i \in 1..Len(Parts(v)) : Parts(v)[i] \in S
    PROVE  <<v, Folded(f, v)>> \in ToFold(values, R)
<1>. DEFINE parts == Parts(v)
            folded == [i \in 1..Len(parts) |-> f[parts[i]]]
<1>1. DOMAIN parts = 1..Len(parts) /\ Len(parts) \in Nat
  BY PartsType
<1>. HIDE DEF parts
<1>2. \A i \in 1..Len(parts) : f[parts[i]] \in R
  BY DEF parts
<1>3. folded \in Seq(R) /\ DOMAIN folded = 1..Len(parts)
  BY <1>1, <1>2
<1>4. Folded(f, v) = folded
  BY <1>1 DEF Folded, parts
<1>. QED  BY <1>1, <1>3, <1>4 DEF ToFold, parts

\* Two such functions agree where both are defined.
LEMMA OneRecursion ==
    ASSUME NEW values, NEW height, NEW strings, AreTrees(values, height, strings),
           NEW R, NEW step, NEW n \in Nat, NEW m \in Nat, n <= m,
           NEW f, Recurs(f, step, Below(values, height, n), R), NEW g, Recurs(g, step, Below(values, height, m), R)
    PROVE  \A v \in Below(values, height, n) : f[v] = g[v]
<1>. DEFINE good == {v \in values : height[v] < n => f[v] = g[v]}
<1>1. ASSUME NEW v \in values, \A i \in 1..Len(Parts(v)) : Parts(v)[i] \in good, height[v] < n
      PROVE  f[v] = g[v]
  <2>1. v \in Below(values, height, n) /\ v \in Below(values, height, m)
    BY <1>1, TreesType DEF Below
  <2>2. ASSUME NEW i \in 1..Len(Parts(v))  PROVE f[Parts(v)[i]] = g[Parts(v)[i]]
    <3>1. Parts(v)[i] \in values /\ height[Parts(v)[i]] < height[v]
      BY PartsType
    <3>2. height[Parts(v)[i]] < n
      BY <1>1, <3>1, TreesType
    <3>. QED  BY <1>1, <3>2
  <2>3. DOMAIN Parts(v) = 1..Len(Parts(v))
    BY PartsType
  <2>4. Folded(f, v) = Folded(g, v)
    BY <2>2, <2>3 DEF Folded
  <2>. QED  BY <2>1, <2>4 DEF Recurs
<1>2. values \subseteq good
  <2>1. \A v \in values : (\A i \in 1..Len(Parts(v)) : Parts(v)[i] \in good) => v \in good
    BY <1>1
  <2>. HIDE DEF good
  <2>. QED  BY <2>1, TreeInduction
<1>. QED  BY <1>2 DEF Below

\* Recursion on trees: there is a function that computes the result of each
\* value from those of its parts.
LEMMA TreeRecursion ==
    ASSUME NEW values, NEW height, NEW strings, AreTrees(values, height, strings),
           NEW R, NEW step \in [ToFold(values, R) -> R]
    PROVE  \E f : Recurs(f, step, values, R)
<1>1. ASSUME NEW n \in Nat, NEW f, Recurs(f, step, Below(values, height, n), R)
      PROVE  \E g : Recurs(g, step, Below(values, height, n + 1), R)
  <2>. DEFINE g == [v \in Below(values, height, n + 1) |-> step[<<v, Folded(f, v)>>]]
  <2>1. ASSUME NEW v \in Below(values, height, n + 1)
        PROVE  /\ v \in values /\ DOMAIN Parts(v) = 1..Len(Parts(v))
               /\ \A i \in 1..Len(Parts(v)) : Parts(v)[i] \in Below(values, height, n) /\ Parts(v)[i] \in Below(values, height, n + 1)
    <3>1. v \in values /\ height[v] < n + 1
      BY DEF Below
    <3>2. ASSUME NEW i \in 1..Len(Parts(v))
          PROVE  Parts(v)[i] \in Below(values, height, n) /\ Parts(v)[i] \in Below(values, height, n + 1)
      <4>1. Parts(v)[i] \in values /\ height[Parts(v)[i]] < height[v]
        BY <3>1, PartsType
      <4>2. height[Parts(v)[i]] \in Nat /\ height[v] \in Nat
        BY <3>1, <4>1, TreesType
      <4>3. height[Parts(v)[i]] < n /\ height[Parts(v)[i]] < n + 1
        BY <3>1, <4>1, <4>2
      <4>. QED  BY <4>1, <4>3 DEF Below
    <3>3. DOMAIN Parts(v) = 1..Len(Parts(v))
      BY <3>1, PartsType
    <3>. QED  BY <3>1, <3>2, <3>3
  <2>2. \A v \in Below(values, height, n) : f[v] \in R /\ f[v] = step[<<v, Folded(f, v)>>]
    BY <1>1 DEF Recurs
  <2>3. ASSUME NEW v \in Below(values, height, n + 1)  PROVE step[<<v, Folded(f, v)>>] \in R
    <3>1. <<v, Folded(f, v)>> \in ToFold(values, R)
      BY <2>1, <2>2, FoldedType
    <3>. QED  BY <3>1
  <2>4. g \in [Below(values, height, n + 1) -> R] /\ \A v \in Below(values, height, n + 1) : g[v] = step[<<v, Folded(f, v)>>]
    BY <2>3
  <2>. HIDE DEF g
  <2>5. \A v \in Below(values, height, n) : v \in Below(values, height, n + 1)
    BY TreesType DEF Below
  <2>6. \A v \in Below(values, height, n) : g[v] = f[v]
    BY <2>2, <2>4, <2>5
  <2>7. ASSUME NEW v \in Below(values, height, n + 1)  PROVE Folded(g, v) = Folded(f, v)
    BY <2>1, <2>6 DEF Folded
  <2>. QED  BY <2>4, <2>7 DEF Recurs
<1>2. \A n \in Nat : \E f : Recurs(f, step, Below(values, height, n), R)
  <2>. DEFINE good == {n \in Nat : \E f : Recurs(f, step, Below(values, height, n), R)}
  <2>1. 0 \in good
    <3>1. Below(values, height, 0) = {}
      BY TreesType DEF Below
    <3>2. Recurs([v \in {} |-> v], step, {}, R)
      BY DEF Recurs
    <3>. QED  BY <3>1, <3>2
  <2>2. \A n \in Nat : n \in good => n + 1 \in good
    BY <1>1
  <2>3. Nat \subseteq good
    <3>. HIDE DEF good
    <3>. QED  BY <2>1, <2>2, CountingUp
  <2>. QED  BY <2>3
<1>. DEFINE part(v) == CHOOSE f : Recurs(f, step, Below(values, height, height[v] + 1), R)
            h == [v \in values |-> part(v)[v]]
<1>3. ASSUME NEW v \in values
      PROVE  Recurs(part(v), step, Below(values, height, height[v] + 1), R) /\ v \in Below(values, height, height[v] + 1)
  <2>1. height[v] + 1 \in Nat /\ height[v] < height[v] + 1
    BY TreesType
  <2>. QED  BY <1>2, <2>1 DEF Below
<1>. HIDE DEF part
<1>4. h \in [values -> R] /\ \A v \in values : h[v] = part(v)[v]
  BY <1>3 DEF Recurs
<1>. HIDE DEF h
<1>5. ASSUME NEW v \in values  PROVE h[v] = step[<<v, Folded(h, v)>>]
  <2>1. ASSUME NEW i \in 1..Len(Parts(v))  PROVE part(v)[Parts(v)[i]] = h[Parts(v)[i]]
    <3>. DEFINE w == Parts(v)[i]
    <3>1. w \in values /\ height[w] < height[v]
      BY PartsType
    <3>. HIDE DEF w
    <3>2. height[w] + 1 \in Nat /\ height[v] + 1 \in Nat /\ height[w] + 1 <= height[v] + 1
      BY <3>1, TreesType
    <3>3. part(w)[w] = part(v)[w]
      BY <1>3, <3>1, <3>2, OneRecursion
    <3>4. h[w] = part(v)[w]
      BY <1>4, <3>1, <3>3
    <3>. QED  BY <3>4 DEF w
  <2>2. DOMAIN Parts(v) = 1..Len(Parts(v))
    BY PartsType
  <2>3. Folded(part(v), v) = Folded(h, v)
    BY <2>1, <2>2 DEF Folded
  <2>. QED  BY <1>3, <1>4, <2>3 DEF Recurs
<1>6. Recurs(h, step, values, R)
  BY <1>4, <1>5 DEF Recurs
<1>. QED  BY <1>6

\* A function that satisfies the equation where its parts have results has one
\* everywhere.
LEMMA FoldResult ==
    ASSUME NEW values, NEW height, NEW strings, AreTrees(values, height, strings),
           NEW R, NEW step \in [ToFold(values, R) -> R], NEW g,
           \A v \in values : <<v, Folded(g, v)>> \in ToFold(values, R) => g[v] = step[<<v, Folded(g, v)>>]
    PROVE  \A v \in values : g[v] \in R
<1>. DEFINE good == {v \in values : g[v] \in R}
<1>1. ASSUME NEW v \in values, \A i \in 1..Len(Parts(v)) : Parts(v)[i] \in good
      PROVE  v \in good
  <2>1. \A w \in good : g[w] \in R
    OBVIOUS
  <2>. HIDE DEF good
  <2>2. <<v, Folded(g, v)>> \in ToFold(values, R)
    BY <1>1, <2>1, FoldedType
  <2>3. g[v] \in R
    BY <2>2
  <2>. QED  BY <2>3 DEF good
<1>2. values \subseteq good
  <2>. HIDE DEF good
  <2>. QED  BY <1>1, TreeInduction
<1>. QED  BY <1>2

\* The entries of a dict, and its parts.
LEMMA DictType ==
    ASSUME NEW values, NEW height, NEW strings, AreTrees(values, height, strings),
           NEW v \in values, v.kind = "dict"
    PROVE  /\ DOMAIN v.entries = 1..Len(v.entries) /\ Len(v.entries) \in Nat
           /\ Len(Parts(v)) = Len(v.entries) /\ DOMAIN Parts(v) = DOMAIN v.entries
           /\ \A i \in 1..Len(v.entries) :
                 /\ v.entries[i].key \in strings /\ v.entries[i].value \in values
                 /\ Parts(v)[i] = v.entries[i].value
<1>. DEFINE L == Lower(values, height, v)
<1>1. v.entries \in Seq([key : strings, value : L])
  BY TreesType
<1>2. Parts(v) = [i \in DOMAIN v.entries |-> v.entries[i].value]
  BY DEF Parts
<1>3. L \subseteq values
  BY DEF Lower
<1>. HIDE DEF L
<1>4. DOMAIN v.entries = 1..Len(v.entries) /\ Len(v.entries) \in Nat
  BY <1>1
<1>5. \A i \in 1..Len(v.entries) : v.entries[i] \in [key : strings, value : L]
  BY <1>1, ElementOfSeq
<1>6. Len(Parts(v)) = Len(v.entries) /\ DOMAIN Parts(v) = DOMAIN v.entries
  BY <1>2, <1>4
<1>. QED  BY <1>2, <1>3, <1>4, <1>5, <1>6

\* The items of a list are its parts.
LEMMA ListType ==
    ASSUME NEW values, NEW height, NEW strings, AreTrees(values, height, strings),
           NEW v \in values, v.kind = "list"
    PROVE  /\ DOMAIN v.items = 1..Len(v.items) /\ Len(v.items) \in Nat
           /\ Parts(v) = v.items
           /\ \A i \in 1..Len(v.items) : v.items[i] \in values
<1>1. Parts(v) = v.items
  BY DEF Parts
<1>2. v.items \in Seq(values)
  BY <1>1, PartsType
<1>. QED  BY <1>1, <1>2

-----------------------------------------------------------------------------
\* A walk in document order that gives something of each key and each leaf.
Walked(ofKey, ofLeaf, g, w) ==
    CASE w.kind = "dict" -> FlattenSeq([i \in DOMAIN w.entries |->
             ofKey[w.entries[i].key] \o g[w.entries[i].value]])
      [] w.kind = "list" -> FlattenSeq([i \in DOMAIN w.items |-> g[w.items[i]]])
      [] OTHER -> ofLeaf[w]

\* There is such a walk.
LEMMA WalkRecursion ==
    ASSUME NEW values, NEW height, NEW strings, AreTrees(values, height, strings),
           NEW ofKey, \A k \in strings : ofKey[k] \in Seq(strings),
           NEW ofLeaf, \A w \in values : ofLeaf[w] \in Seq(strings)
    PROVE  \E g : g = [w \in values |-> Walked(ofKey, ofLeaf, g, w)]
<1>. DEFINE R == Seq(strings)
            S(w, f) == CASE w.kind = "dict" -> FlattenSeq([i \in DOMAIN w.entries |->
                                ofKey[w.entries[i].key] \o f[i]])
                         [] w.kind = "list" -> FlattenSeq([i \in DOMAIN w.items |-> f[i]])
                         [] OTHER -> ofLeaf[w]
            step == [x \in ToFold(values, R) |-> S(x[1], x[2])]
            T(g, w) == Walked(ofKey, ofLeaf, g, w)
<1>d. ASSUME NEW w \in values, w.kind = "dict"
      PROVE  /\ DOMAIN w.entries = 1..Len(w.entries) /\ Len(w.entries) \in Nat
             /\ DOMAIN Parts(w) = DOMAIN w.entries
             /\ \A i \in 1..Len(w.entries) :
                   w.entries[i].key \in strings /\ Parts(w)[i] = w.entries[i].value
  BY <1>d, DictType
<1>1. step \in [ToFold(values, R) -> R]
  <2>1. ASSUME NEW w \in values, NEW f \in Seq(R), DOMAIN f = DOMAIN Parts(w)
        PROVE  S(w, f) \in R
    <3>1. CASE w.kind = "dict"
      <4>. DEFINE s == [i \in DOMAIN w.entries |-> ofKey[w.entries[i].key] \o f[i]]
      <4>1. \A i \in DOMAIN w.entries : ofKey[w.entries[i].key] \in R /\ f[i] \in R
        <5>1. \A i \in DOMAIN w.entries : w.entries[i].key \in strings
          BY <3>1, <1>d
        <5>2. DOMAIN f = DOMAIN w.entries
          BY <2>1, <3>1, DictType
        <5>3. \A i \in DOMAIN f : f[i] \in R
          BY <2>1
        <5>. QED  BY <5>1, <5>2, <5>3
      <4>2. DOMAIN w.entries = 1..Len(w.entries) /\ Len(w.entries) \in Nat
        BY <3>1, DictType
      <4>3. \A i \in DOMAIN w.entries : ofKey[w.entries[i].key] \o f[i] \in R
        BY <4>1, ConcatProperties
      <4>. HIDE DEF R
      <4>4. s \in [1..Len(w.entries) -> R]
        BY <4>2, <4>3
      <4>5. s \in Seq(R)
        BY <4>2, <4>4
      <4>. HIDE DEF s
      <4>6. FlattenSeq(s) \in R
        BY <4>5, Flattened DEF R
      <4>. QED  BY <3>1, <4>6 DEF s
    <3>2. CASE w.kind = "list"
      <4>. DEFINE s == [i \in DOMAIN w.items |-> f[i]]
      <4>1. s = f
        <5>1. DOMAIN w.items = DOMAIN f
          BY <2>1, <3>2, ListType
        <5>. QED  BY <5>1
      <4>2. FlattenSeq(s) \in R
        BY <4>1, Flattened
      <4>. QED  BY <3>2, <4>2
    <3>3. CASE w.kind \notin {"dict", "list"}
      BY <3>3
    <3>. QED  BY <3>1, <3>2, <3>3
  <2>2. \A x \in ToFold(values, R) : x[1] \in values /\ x[2] \in Seq(R) /\ DOMAIN x[2] = DOMAIN Parts(x[1])
    BY DEF ToFold
  <2>. HIDE DEF S, R
  <2>. QED  BY <2>1, <2>2
<1>2. ASSUME NEW g, NEW w \in values  PROVE S(w, Folded(g, w)) = T(g, w)
  <2>1. CASE w.kind = "dict"
    <3>1. \A i \in DOMAIN w.entries : Folded(g, w)[i] = g[w.entries[i].value]
      BY <2>1, <1>d DEF Folded
    <3>. QED  BY <2>1, <3>1 DEF Walked
  <2>2. CASE w.kind = "list"
    <3>1. \A i \in DOMAIN w.items : Folded(g, w)[i] = g[w.items[i]]
      BY <2>2, ListType DEF Folded
    <3>. QED  BY <2>2, <3>1 DEF Walked
  <2>3. CASE w.kind \notin {"dict", "list"}
    BY <2>3 DEF Walked
  <2>. QED  BY <2>1, <2>2, <2>3
<1>3. \A g : \A w \in values :
        <<w, Folded(g, w)>> \in ToFold(values, R) => step[<<w, Folded(g, w)>>] = T(g, w)
  <2>. HIDE DEF S, T, R
  <2>. QED  BY <1>2
<1>. HIDE DEF S, step, T
<1>4. \E g : g = [w \in values |-> T(g, w)]
  <2>1. PICK f : Recurs(f, step, values, R)
    BY <1>1, TreeRecursion
  <2>2. ASSUME NEW w \in values  PROVE <<w, Folded(f, w)>> \in ToFold(values, R)
    <3>1. \A u \in values : f[u] \in R
      BY <2>1 DEF Recurs
    <3>2. \A i \in 1..Len(Parts(w)) : Parts(w)[i] \in values
      BY PartsType
    <3>. HIDE DEF R
    <3>. QED  BY <3>1, <3>2, FoldedType
  <2>3. \A w \in values : f[w] = T(f, w)
    BY <1>3, <2>1, <2>2 DEF Recurs
  <2>4. f \in [values -> R]
    BY <2>1 DEF Recurs
  <2>. QED  BY <2>3, <2>4
<1>. QED  BY <1>4 DEF T

\* It gives sequences of texts.
LEMMA WalkType ==
    ASSUME NEW values, NEW height, NEW strings, AreTrees(values, height, strings),
           NEW ofKey, \A k \in strings : ofKey[k] \in Seq(strings),
           NEW ofLeaf, \A w \in values : ofLeaf[w] \in Seq(strings),
           NEW g, \A w \in values : g[w] = Walked(ofKey, ofLeaf, g, w)
    PROVE  \A w \in values : g[w] \in Seq(strings)
<1>. DEFINE R == Seq(strings)
            good == {w \in values : g[w] \in R}
<1>1. ASSUME NEW w \in values, \A i \in 1..Len(Parts(w)) : Parts(w)[i] \in good
      PROVE  g[w] \in R
  <2>0. \A i \in 1..Len(Parts(w)) : g[Parts(w)[i]] \in R
    BY <1>1
  <2>. HIDE DEF R, good
  <2>1. CASE w.kind = "dict"
    <3>. DEFINE s == [i \in DOMAIN w.entries |->
                          ofKey[w.entries[i].key] \o g[w.entries[i].value]]
    <3>1. /\ DOMAIN w.entries = 1..Len(w.entries) /\ Len(w.entries) \in Nat
          /\ Len(Parts(w)) = Len(w.entries)
          /\ \A i \in 1..Len(w.entries) :
                w.entries[i].key \in strings /\ Parts(w)[i] = w.entries[i].value
      BY <2>1, DictType
    <3>2. \A i \in 1..Len(w.entries) :
             ofKey[w.entries[i].key] \in R /\ g[w.entries[i].value] \in R
      BY <2>0, <3>1 DEF R
    <3>3. \A i \in 1..Len(w.entries) :
             ofKey[w.entries[i].key] \o g[w.entries[i].value] \in R
      BY <3>2, ConcatProperties DEF R
    <3>4. s \in Seq(R)
      BY <3>1, <3>3
    <3>. HIDE DEF s
    <3>5. FlattenSeq(s) \in R
      BY <3>4, Flattened DEF R
    <3>. QED  BY <2>1, <3>5 DEF Walked, s
  <2>2. CASE w.kind = "list"
    <3>. DEFINE s == [i \in DOMAIN w.items |-> g[w.items[i]]]
    <3>1. DOMAIN w.items = 1..Len(w.items) /\ Len(w.items) \in Nat /\ Parts(w) = w.items
      BY <2>2, ListType
    <3>2. s \in Seq(R)
      BY <2>0, <3>1
    <3>. HIDE DEF s
    <3>3. FlattenSeq(s) \in R
      BY <3>2, Flattened DEF R
    <3>. QED  BY <2>2, <3>3 DEF Walked, s
  <2>3. CASE w.kind \notin {"dict", "list"}
    BY <2>3 DEF Walked, R
  <2>. QED  BY <2>1, <2>2, <2>3
<1>2. \A w \in values : (\A i \in 1..Len(Parts(w)) : Parts(w)[i] \in good) => w \in good
  BY <1>1
<1>3. values \subseteq good
  <2>. HIDE DEF good
  <2>. QED  BY <1>2, TreeInduction
<1>. QED  BY <1>3

\* The walk that collects keys and texts (SchemaTextValues of Checks), of any
\* values, and what its recursion says.
TextsWalk(values) ==
    LET texts[w \in values] ==
            CASE w.kind = "dict" -> FlattenSeq([i \in DOMAIN w.entries |->
                     <<w.entries[i].key>> \o texts[w.entries[i].value]])
              [] w.kind = "list" -> FlattenSeq([i \in DOMAIN w.items |-> texts[w.items[i]]])
              [] w.kind = "text" -> <<w.text>>
              [] OTHER -> << >>
    IN  texts

LEMMA TextsOfTrees ==
    ASSUME NEW values, NEW height, NEW strings, AreTrees(values, height, strings),
           NEW v \in values
    PROVE  /\ TextsWalk(values)[v] \in Seq(strings)
           /\ v.kind = "dict" => TextsWalk(values)[v] =
                 FlattenSeq([i \in DOMAIN v.entries |->
                     <<v.entries[i].key>> \o TextsWalk(values)[v.entries[i].value]])
           /\ v.kind = "list" => TextsWalk(values)[v] =
                 FlattenSeq([i \in DOMAIN v.items |-> TextsWalk(values)[v.items[i]]])
           /\ v.kind = "text" => TextsWalk(values)[v] = <<v.text>>
           /\ v.kind \notin {"dict", "list", "text"} => TextsWalk(values)[v] = << >>
<1>. DEFINE T(g, w) == CASE w.kind = "dict" -> FlattenSeq([i \in DOMAIN w.entries |->
                                <<w.entries[i].key>> \o g[w.entries[i].value]])
                         [] w.kind = "list" -> FlattenSeq([i \in DOMAIN w.items |-> g[w.items[i]]])
                         [] w.kind = "text" -> <<w.text>>
                         [] OTHER -> << >>
            texts == CHOOSE g : g = [w \in values |-> T(g, w)]
            ofKey == [k \in strings |-> <<k>>]
            ofLeaf == [w \in values |-> IF w.kind = "text" THEN <<w.text>> ELSE << >>]
<1>1. /\ \A k \in strings : ofKey[k] \in Seq(strings)
      /\ \A w \in values : ofLeaf[w] \in Seq(strings)
  <2>1. \A w \in values : w.kind = "text" => w.text \in strings
    BY TreesType
  <2>. QED  BY <2>1
<1>2. ASSUME NEW g, NEW w \in values  PROVE T(g, w) = Walked(ofKey, ofLeaf, g, w)
  <2>1. CASE w.kind = "dict"
    <3>1. \A i \in DOMAIN w.entries : ofKey[w.entries[i].key] = <<w.entries[i].key>>
      BY <2>1, DictType
    <3>. HIDE DEF ofKey
    <3>. QED  BY <2>1, <3>1 DEF Walked
  <2>2. CASE w.kind # "dict"
    BY <2>2 DEF Walked
  <2>. QED  BY <2>1, <2>2
<1>. HIDE DEF T, ofKey, ofLeaf
<1>3. \E g : g = [w \in values |-> T(g, w)]
  <2>1. PICK g : g = [w \in values |-> Walked(ofKey, ofLeaf, g, w)]
    BY <1>1, WalkRecursion
  <2>. QED  BY <1>2, <2>1
<1>4. texts = [w \in values |-> T(texts, w)]
  BY <1>3
<1>5. \A w : TextsWalk(values)[w] = texts[w]
  BY DEF TextsWalk, T
<1>. HIDE DEF texts
<1>6. \A w \in values : texts[w] = T(texts, w)
  BY <1>4
<1>7. \A w \in values : texts[w] \in Seq(strings)
  <2>1. \A w \in values : texts[w] = Walked(ofKey, ofLeaf, texts, w)
    BY <1>2, <1>6
  <2>. QED  BY <1>1, <2>1, WalkType
<1>. QED  BY <1>5, <1>6, <1>7 DEF T

\* The walk that collects prohibited keys (FindSchemaKeys of Checks) likewise.
KeysWalk(values, prohibited) ==
    LET keys[w \in values] ==
            CASE w.kind = "dict" -> FlattenSeq([i \in DOMAIN w.entries |->
                     (IF w.entries[i].key \in prohibited THEN <<w.entries[i].key>> ELSE << >>)
                     \o keys[w.entries[i].value]])
              [] w.kind = "list" -> FlattenSeq([i \in DOMAIN w.items |-> keys[w.items[i]]])
              [] OTHER -> << >>
    IN  keys

LEMMA KeysOfTrees ==
    ASSUME NEW values, NEW height, NEW strings, AreTrees(values, height, strings),
           NEW v \in values, NEW prohibited
    PROVE  /\ KeysWalk(values, prohibited)[v] \in Seq(strings)
           /\ v.kind = "dict" => KeysWalk(values, prohibited)[v] =
                 FlattenSeq([i \in DOMAIN v.entries |->
                     (IF v.entries[i].key \in prohibited THEN <<v.entries[i].key>> ELSE << >>)
                     \o KeysWalk(values, prohibited)[v.entries[i].value]])
           /\ v.kind = "list" => KeysWalk(values, prohibited)[v] =
                 FlattenSeq([i \in DOMAIN v.items |-> KeysWalk(values, prohibited)[v.items[i]]])
           /\ v.kind \notin {"dict", "list"} => KeysWalk(values, prohibited)[v] = << >>
<1>. DEFINE T(g, w) == CASE w.kind = "dict" -> FlattenSeq([i \in DOMAIN w.entries |->
                                (IF w.entries[i].key \in prohibited
                                 THEN <<w.entries[i].key>> ELSE << >>)
                                \o g[w.entries[i].value]])
                         [] w.kind = "list" -> FlattenSeq([i \in DOMAIN w.items |-> g[w.items[i]]])
                         [] OTHER -> << >>
            keys == CHOOSE g : g = [w \in values |-> T(g, w)]
            ofKey == [k \in strings |-> IF k \in prohibited THEN <<k>> ELSE << >>]
            ofLeaf == [w \in values |-> << >>]
<1>1. /\ \A k \in strings : ofKey[k] \in Seq(strings)
      /\ \A w \in values : ofLeaf[w] \in Seq(strings)
  OBVIOUS
<1>2. ASSUME NEW g, NEW w \in values  PROVE T(g, w) = Walked(ofKey, ofLeaf, g, w)
  <2>1. CASE w.kind = "dict"
    <3>1. \A i \in DOMAIN w.entries : ofKey[w.entries[i].key] =
             IF w.entries[i].key \in prohibited THEN <<w.entries[i].key>> ELSE << >>
      BY <2>1, DictType
    <3>. HIDE DEF ofKey
    <3>. QED  BY <2>1, <3>1 DEF Walked
  <2>2. CASE w.kind # "dict"
    BY <2>2 DEF Walked
  <2>. QED  BY <2>1, <2>2
<1>. HIDE DEF T, ofKey, ofLeaf
<1>3. \E g : g = [w \in values |-> T(g, w)]
  <2>1. PICK g : g = [w \in values |-> Walked(ofKey, ofLeaf, g, w)]
    BY <1>1, WalkRecursion
  <2>. QED  BY <1>2, <2>1
<1>4. keys = [w \in values |-> T(keys, w)]
  BY <1>3
<1>5. \A w : KeysWalk(values, prohibited)[w] = keys[w]
  BY DEF KeysWalk, T
<1>. HIDE DEF keys
<1>6. \A w \in values : keys[w] = T(keys, w)
  BY <1>4
<1>7. \A w \in values : keys[w] \in Seq(strings)
  <2>1. \A w \in values : keys[w] = Walked(ofKey, ofLeaf, keys, w)
    BY <1>2, <1>6
  <2>. QED  BY <1>1, <2>1, WalkType
<1>. QED  BY <1>5, <1>6, <1>7 DEF T
=============================================================================
