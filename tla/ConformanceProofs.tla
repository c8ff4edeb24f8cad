-------------------------- MODULE ConformanceProofs --------------------------
(***************************************************************************)
(* What the validator guarantees for any texts, terms, JSON values and     *)
(* sequences of candidates: what its walks find however deep a schema is   *)
(* (by the lemmas on trees of DataProofs), then what each check reports,   *)
(* and with the invariant of the run what the verdicts say.                *)
(***************************************************************************)
EXTENDS Conformance, DataProofs

\* What the assumption says of Values and Height.
LEMMA ValuesAreTrees ==
    /\ Height \in [Values -> Nat]
    /\ \A v \in Values :
        /\ v.kind # "absent"
        /\ v.kind = "dict" =>
            /\ v.entries \in Seq([key : Strings, value : Lower(Values, Height, v)])
            /\ \A i, j \in DOMAIN v.entries : v.entries[i].key = v.entries[j].key => i = j
        /\ v.kind = "list" => v.items \in Seq(Lower(Values, Height, v))
        /\ v.kind = "text" => v.text \in Strings
BY ValuesAssumption, TreesType

\* _schema_text_values computes what its recursion says.
LEMMA TextsEquation ==
    ASSUME NEW v \in Values
    PROVE  /\ SchemaTextValues(v) \in Seq(Strings)
           /\ v.kind = "dict" => SchemaTextValues(v) =
                 FlattenSeq([i \in DOMAIN v.entries |->
                     <<v.entries[i].key>> \o SchemaTextValues(v.entries[i].value)])
           /\ v.kind = "list" => SchemaTextValues(v) =
                 FlattenSeq([i \in DOMAIN v.items |-> SchemaTextValues(v.items[i])])
           /\ v.kind = "text" => SchemaTextValues(v) = <<v.text>>
<1>1. \A w : SchemaTextValues(w) = TextsWalk(Values)[w]
  BY DEF SchemaTextValues, TextsWalk
<1>. QED  BY <1>1, TextsOfTrees, ValuesAssumption

\* _find_schema_keys likewise.
LEMMA KeysEquation ==
    ASSUME NEW v \in Values, NEW prohibited
    PROVE  /\ FindSchemaKeys(v, prohibited) \in Seq(Strings)
           /\ v.kind = "dict" => FindSchemaKeys(v, prohibited) =
                 FlattenSeq([i \in DOMAIN v.entries |->
                     (IF v.entries[i].key \in prohibited THEN <<v.entries[i].key>> ELSE << >>)
                     \o FindSchemaKeys(v.entries[i].value, prohibited)])
           /\ v.kind = "list" => FindSchemaKeys(v, prohibited) =
                 FlattenSeq([i \in DOMAIN v.items |-> FindSchemaKeys(v.items[i], prohibited)])
           /\ v.kind \notin {"dict", "list"} => FindSchemaKeys(v, prohibited) = << >>
<1>1. \A w : FindSchemaKeys(w, prohibited) = KeysWalk(Values, prohibited)[w]
  BY DEF FindSchemaKeys, KeysWalk
<1>. DEFINE keys == KeysWalk(Values, prohibited)
<1>2. /\ keys[v] \in Seq(Strings)
      /\ v.kind = "dict" => keys[v] =
            FlattenSeq([i \in DOMAIN v.entries |->
                (IF v.entries[i].key \in prohibited THEN <<v.entries[i].key>> ELSE << >>)
                \o keys[v.entries[i].value]])
      /\ v.kind = "list" => keys[v] = FlattenSeq([i \in DOMAIN v.items |-> keys[v.items[i]]])
      /\ v.kind \notin {"dict", "list"} => keys[v] = << >>
  BY KeysOfTrees, ValuesAssumption
<1>. HIDE DEF keys
<1>3. \A w : FindSchemaKeys(w, prohibited) = keys[w]
  BY <1>1 DEF keys
<1>. QED  BY <1>2, <1>3

\* The places in a part, seen from the whole.
Under(i, places) == {<<<<i>> \o place[1], place[2]>> : place \in places}

\* The places in a value: itself and those in its parts, with what is there.
LEMMA NestedEquation ==
    ASSUME NEW v \in Values
    PROVE  /\ Nested(v) \in SUBSET (Seq(Nat) \X Values)
           /\ Nested(v) = {<<<< >>, v>>} \cup
                 UNION {Under(i, Nested(Parts(v)[i])) : i \in DOMAIN Parts(v)}
<1>. DEFINE Places == Seq(Nat) \X Values
            R == SUBSET Places
            S(w, f) == {<<<< >>, w>>} \cup UNION {Under(i, f[i]) : i \in DOMAIN Parts(w)}
            step == [x \in ToFold(Values, R) |-> S(x[1], x[2])]
            T(g, w) == {<<<< >>, w>>} \cup
                 UNION {Under(i, g[Parts(w)[i]]) : i \in DOMAIN Parts(w)}
            nested == CHOOSE g : g = [w \in Values |-> T(g, w)]
<1>1. step \in [ToFold(Values, R) -> R]
  <2>1. ASSUME NEW w \in Values, NEW f \in Seq(R), DOMAIN f = DOMAIN Parts(w)
        PROVE  S(w, f) \in R
    <3>1. <<<< >>, w>> \in Places
      <4>1. << >> \in Seq(Nat)
        OBVIOUS
      <4>. QED  BY <4>1
    <3>2. ASSUME NEW i \in DOMAIN Parts(w), NEW place \in f[i]
          PROVE  <<<<i>> \o place[1], place[2]>> \in Places
      <4>1. i \in Nat /\ f[i] \in R
        BY <2>1, PartsType, ValuesAssumption
      <4>2. place[1] \in Seq(Nat) /\ place[2] \in Values
        BY <4>1
      <4>3. <<i>> \o place[1] \in Seq(Nat)
        BY <4>1, <4>2
      <4>. QED  BY <4>2, <4>3
    <3>. HIDE DEF Places
    <3>3. \A i \in DOMAIN Parts(w) : Under(i, f[i]) \subseteq Places
      BY <3>2 DEF Under
    <3>. QED  BY <3>1, <3>3
  <2>2. \A x \in ToFold(Values, R) : x[1] \in Values /\ x[2] \in Seq(R) /\ DOMAIN x[2] = DOMAIN Parts(x[1])
    BY DEF ToFold
  <2>. HIDE DEF S, R
  <2>. QED  BY <2>1, <2>2
<1>2. ASSUME NEW g, NEW w \in Values  PROVE S(w, Folded(g, w)) = T(g, w)
  <2>1. \A i \in DOMAIN Parts(w) : Folded(g, w)[i] = g[Parts(w)[i]]
    BY DEF Folded
  <2>2. \A i \in DOMAIN Parts(w) : Under(i, Folded(g, w)[i]) = Under(i, g[Parts(w)[i]])
    BY <2>1
  <2>. QED  BY <2>2
<1>3. \A g : \A w \in Values :
        <<w, Folded(g, w)>> \in ToFold(Values, R) => step[<<w, Folded(g, w)>>] = T(g, w)
  <2>. HIDE DEF S, T, R
  <2>. QED  BY <1>2
<1>. HIDE DEF S, step, T
<1>4. \E g : g = [w \in Values |-> T(g, w)]
  <2>1. PICK f : Recurs(f, step, Values, R)
    BY <1>1, TreeRecursion, ValuesAssumption
  <2>2. ASSUME NEW w \in Values  PROVE <<w, Folded(f, w)>> \in ToFold(Values, R)
    <3>. HIDE DEF R
    <3>1. \A u \in Values : f[u] \in R
      BY <2>1 DEF Recurs
    <3>2. \A i \in 1..Len(Parts(w)) : Parts(w)[i] \in Values
      BY PartsType, ValuesAssumption
    <3>. QED  BY <3>1, <3>2, FoldedType, ValuesAssumption
  <2>. HIDE DEF R
  <2>3. \A w \in Values : f[w] = T(f, w)
    BY <1>3, <2>1, <2>2 DEF Recurs
  <2>4. f \in [Values -> R]
    BY <2>1 DEF Recurs
  <2>. QED  BY <2>3, <2>4
<1>5. nested = [w \in Values |-> T(nested, w)]
  BY <1>4
<1>6. \A w : Nested(w) = nested[w]
  BY DEF Nested, T, Under
<1>. HIDE DEF nested
<1>7. \A w \in Values : nested[w] = T(nested, w)
  BY <1>5
<1>8. \A w \in Values : nested[w] \in R
  <2>. HIDE DEF R
  <2>. QED  BY <1>1, <1>3, <1>7, FoldResult, ValuesAssumption
<1>9. \A g : T(g, v) = {<<<< >>, v>>} \cup UNION {Under(i, g[Parts(v)[i]]) : i \in DOMAIN Parts(v)}
  BY DEF T
<1>10. Nested(v) = {<<<< >>, v>>} \cup UNION {Under(i, nested[Parts(v)[i]]) : i \in DOMAIN Parts(v)}
  BY <1>6, <1>7, <1>9
<1>11. \A i \in DOMAIN Parts(v) : Under(i, nested[Parts(v)[i]]) = Under(i, Nested(Parts(v)[i]))
  BY <1>6
<1>. QED  BY <1>6, <1>8, <1>10, <1>11

\* So a place is the value itself or is in a part of it.
LEMMA NestedPlaces ==
    ASSUME NEW v \in Values
    PROVE  \A path, w : <<path, w>> \in Nested(v) <=>
              \/ path = << >> /\ w = v
              \/ \E i \in 1..Len(Parts(v)) : \E rest \in Seq(Nat) :
                    path = <<i>> \o rest /\ <<rest, w>> \in Nested(Parts(v)[i])
<1>1. DOMAIN Parts(v) = 1..Len(Parts(v)) /\ \A i \in 1..Len(Parts(v)) : Parts(v)[i] \in Values
  BY PartsType, ValuesAssumption
<1>2. \A x : x \in Nested(v) <=>
         x = <<<< >>, v>> \/ \E i \in 1..Len(Parts(v)) : x \in Under(i, Nested(Parts(v)[i]))
  BY <1>1, NestedEquation
<1>3. ASSUME NEW path, NEW w, NEW i \in 1..Len(Parts(v))
      PROVE  <<path, w>> \in Under(i, Nested(Parts(v)[i])) <=>
                \E rest \in Seq(Nat) :
                    path = <<i>> \o rest /\ <<rest, w>> \in Nested(Parts(v)[i])
  <2>. DEFINE places == Nested(Parts(v)[i])
  <2>1. places \in SUBSET (Seq(Nat) \X Values)
    BY <1>1, NestedEquation
  <2>. HIDE DEF places
  <2>2. \A place \in places : place[1] \in Seq(Nat) /\ place = <<place[1], place[2]>>
    BY <2>1
  <2>3. <<path, w>> \in Under(i, places) <=>
           \E place \in places : path = <<i>> \o place[1] /\ w = place[2]
    BY DEF Under
  <2>4. (\E place \in places : path = <<i>> \o place[1] /\ w = place[2]) <=>
           \E rest \in Seq(Nat) : path = <<i>> \o rest /\ <<rest, w>> \in places
    <3>1. ASSUME NEW place \in places, path = <<i>> \o place[1], w = place[2]
          PROVE  \E rest \in Seq(Nat) : path = <<i>> \o rest /\ <<rest, w>> \in places
      BY <2>2, <3>1
    <3>2. ASSUME NEW rest \in Seq(Nat), path = <<i>> \o rest, <<rest, w>> \in places
          PROVE  \E place \in places : path = <<i>> \o place[1] /\ w = place[2]
      <4>1. <<rest, w>>[1] = rest /\ <<rest, w>>[2] = w
        OBVIOUS
      <4>. QED  BY <3>2, <4>1
    <3>. QED  BY <3>1, <3>2
  <2>. QED  BY <2>3, <2>4 DEF places
<1>. QED  BY <1>2, <1>3

-----------------------------------------------------------------------------
\* A one-to-one correspondence, and that there is one of the first n numbers.
OneToOne(f, S, T) ==
    /\ f \in [S -> T]
    /\ \A x, y \in S : f[x] = f[y] => x = y
    /\ \A y \in T : \E x \in S : f[x] = y

Counts(n, T) == \E f : OneToOne(f, 1..n, T)

\* One correspondence after another.
LEMMA Composed ==
    ASSUME NEW S, NEW T, NEW U, NEW f, OneToOne(f, S, T), NEW g, OneToOne(g, T, U)
    PROVE  \E h : OneToOne(h, S, U)
<1>. DEFINE h == [x \in S |-> g[f[x]]]
<1>1. \A x \in S : f[x] \in T /\ g[f[x]] \in U
  BY DEF OneToOne
<1>2. h \in [S -> U]
  BY <1>1
<1>3. \A x, y \in S : h[x] = h[y] => x = y
  BY <1>1 DEF OneToOne
<1>4. \A z \in U : \E x \in S : h[x] = z
  BY DEF OneToOne
<1>. HIDE DEF h
<1>5. OneToOne(h, S, U)
  BY <1>2, <1>3, <1>4 DEF OneToOne
<1>. QED  BY <1>5

\* What is counted to n has n elements.
LEMMA CountedSize ==
    ASSUME NEW n \in Nat, NEW T, Counts(n, T)
    PROVE  IsFiniteSet(T) /\ Cardinality(T) = n
<1>1. PICK f : OneToOne(f, 1..n, T)
  BY DEF Counts
<1>2. IsFiniteSet(1..n) /\ Cardinality(1..n) = n
  BY FS_Interval
<1>. QED  BY <1>1, <1>2, SameSize DEF OneToOne

\* The positions in some sequences, each with the number of its sequence.
Positions(s) == UNION {{i} \X (1..Len(s[i])) : i \in 1..Len(s)}

\* A position is a sequence and a place in it.
LEMMA PositionIs ==
    ASSUME NEW s, NEW p
    PROVE  p \in Positions(s) <=>
              \E i \in 1..Len(s) : \E k \in 1..Len(s[i]) : p = <<i, k>>
BY DEF Positions

\* Flattening keeps every position, in another place.
LEMMA FlattenPositions ==
    ASSUME NEW E, NEW s \in Seq(Seq(E))
    PROVE  /\ FlattenSeq(s) \in Seq(E)
           /\ \E pos : /\ OneToOne(pos, 1..Len(FlattenSeq(s)), Positions(s))
                       /\ \A m \in 1..Len(FlattenSeq(s)) :
                             FlattenSeq(s)[m] = s[pos[m][1]][pos[m][2]]
<1>. DEFINE F == FlattenSeq(s)
            L == Len(s)
<1>1. F \in Seq(E)
  BY Flattened
<1>2. PICK start \in [1..L -> Nat] : LaidOut(start, s, L, F)
  BY Flattened
<1>3. L \in Nat /\ \A i \in 1..L : s[i] \in Seq(E)
  OBVIOUS
<1>4. \A p : p \in Positions(s) <=> \E i \in 1..L : \E k \in 1..Len(s[i]) : p = <<i, k>>
  BY PositionIs
<1>5. Len(F) \in Nat
  BY <1>1
<1>. HIDE DEF F, L
<1>6. \A i \in 1..L : start[i] \in Nat /\ Len(s[i]) \in Nat
  BY <1>3
<1>7. ASSUME NEW i \in 1..L, NEW k \in 1..Len(s[i])
      PROVE  start[i] + k \in 1..Len(F) /\ F[start[i] + k] = s[i][k]
  <2>1. start[i] + Len(s[i]) <= Len(F) /\ F[start[i] + k] = s[i][k]
    BY <1>2 DEF LaidOut
  <2>2. start[i] \in Nat /\ Len(s[i]) \in Nat
    BY <1>6
  <2>. QED  BY <1>5, <2>1, <2>2
<1>8. ASSUME NEW i \in 1..L, NEW k \in 1..Len(s[i]), NEW j \in 1..L, NEW l \in 1..Len(s[j]),
             start[i] + k = start[j] + l
      PROVE  i = j /\ k = l
  <2>1. i < j => start[i] + Len(s[i]) <= start[j]
    BY <1>2 DEF LaidOut
  <2>2. j < i => start[j] + Len(s[j]) <= start[i]
    BY <1>2 DEF LaidOut
  <2>3. start[i] \in Nat /\ Len(s[i]) \in Nat /\ start[j] \in Nat /\ Len(s[j]) \in Nat
    BY <1>6
  <2>4. ~(i < j) /\ ~(j < i)
    <3>. DEFINE a == start[i]
                b == start[j]
                m == Len(s[i])
                n == Len(s[j])
    <3>1. /\ a \in Nat /\ b \in Nat /\ m \in Nat /\ n \in Nat
          /\ k \in 1..m /\ l \in 1..n /\ a + k = b + l
      BY <1>8, <2>3
    <3>2. (i < j => a + m <= b) /\ (j < i => b + n <= a)
      BY <2>1, <2>2
    <3>. HIDE DEF a, b, m, n
    <3>. QED  BY <3>1, <3>2
  <2>5. i = j
    BY <1>3, <2>4
  <2>. QED  BY <1>8, <2>3, <2>5
<1>. DEFINE At(m, p) == start[p[1]] + p[2] = m
            pos == [m \in 1..Len(F) |-> CHOOSE p \in Positions(s) : At(m, p)]
<1>9. ASSUME NEW m \in 1..Len(F)  PROVE \E p \in Positions(s) : At(m, p)
  <2>1. PICK i \in 1..L : m - start[i] \in 1..Len(s[i])
    BY <1>2 DEF LaidOut
  <2>2. <<i, m - start[i]>> \in Positions(s)
    BY <1>4, <2>1
  <2>3. start[i] + (m - start[i]) = m
    BY <1>5, <1>6
  <2>. QED  BY <2>2, <2>3
<1>10. \A m \in 1..Len(F) : pos[m] \in Positions(s) /\ At(m, pos[m])
  BY <1>9
<1>11. pos \in [1..Len(F) -> Positions(s)]
  BY <1>10
<1>. HIDE DEF pos
<1>12. \A m, n \in 1..Len(F) : pos[m] = pos[n] => m = n
  BY <1>10
<1>13. ASSUME NEW p \in Positions(s)  PROVE \E m \in 1..Len(F) : pos[m] = p
  <2>1. PICK i \in 1..L : \E k \in 1..Len(s[i]) : p = <<i, k>>
    BY <1>4
  <2>2. PICK k \in 1..Len(s[i]) : p = <<i, k>>
    BY <2>1
  <2>. DEFINE m == start[i] + k
  <2>3. m \in 1..Len(F) /\ m = start[i] + k
    BY <1>7
  <2>. HIDE DEF m
  <2>4. PICK j \in 1..L : \E l \in 1..Len(s[j]) : pos[m] = <<j, l>>
    BY <1>4, <1>10, <2>3
  <2>5. PICK l \in 1..Len(s[j]) : pos[m] = <<j, l>>
    BY <2>4
  <2>6. start[j] + l = start[i] + k
    <3>1. At(m, pos[m])
      BY <1>10, <2>3
    <3>2. pos[m][1] = j /\ pos[m][2] = l
      BY <2>5
    <3>. QED  BY <2>3, <3>1, <3>2
  <2>7. i = j /\ k = l
    BY <1>8, <2>6
  <2>. QED  BY <2>2, <2>3, <2>5, <2>7
<1>14. ASSUME NEW m \in 1..Len(F)  PROVE F[m] = s[pos[m][1]][pos[m][2]]
  <2>1. PICK i \in 1..L : \E k \in 1..Len(s[i]) : pos[m] = <<i, k>>
    BY <1>4, <1>10
  <2>2. PICK k \in 1..Len(s[i]) : pos[m] = <<i, k>>
    BY <2>1
  <2>3. start[i] + k = m
    BY <1>10, <2>2
  <2>. QED  BY <1>7, <2>2, <2>3
<1>15. OneToOne(pos, 1..Len(F), Positions(s))
  BY <1>11, <1>12, <1>13 DEF OneToOne
<1>. QED  BY <1>1, <1>14, <1>15 DEF F

\* Every element of the sequences is one of their concatenation.
LEMMA FlattenKeepsAll ==
    ASSUME NEW E, NEW s \in Seq(Seq(E)), NEW i \in 1..Len(s), NEW k \in 1..Len(s[i])
    PROVE  s[i][k] \in Range(FlattenSeq(s))
<1>1. PICK pos : /\ OneToOne(pos, 1..Len(FlattenSeq(s)), Positions(s))
                 /\ \A m \in 1..Len(FlattenSeq(s)) :
                       FlattenSeq(s)[m] = s[pos[m][1]][pos[m][2]]
  BY FlattenPositions
<1>2. <<i, k>> \in Positions(s)
  BY PositionIs
<1>3. PICK m \in 1..Len(FlattenSeq(s)) : pos[m] = <<i, k>>
  BY <1>1, <1>2 DEF OneToOne
<1>4. FlattenSeq(s)[m] = s[i][k]
  BY <1>1, <1>3
<1>5. DOMAIN FlattenSeq(s) = 1..Len(FlattenSeq(s))
  BY FlattenPositions
<1>. QED  BY <1>3, <1>4, <1>5 DEF Range

-----------------------------------------------------------------------------
\* The places of keys: in the value itself, or in a part of it.
LEMMA KeyPlaceIs ==
    ASSUME NEW v \in Values, NEW x
    PROVE  x \in KeyPlaces(v) <=>
              \E place \in Nested(v) :
                 /\ place[2].kind = "dict"
                 /\ \E i \in DOMAIN place[2].entries :
                       x = <<place[1], place[2].entries[i].key>>
BY DEF KeyPlaces

\* They are the keys of the value itself, and those of its parts behind a step.
LEMMA KeyPlacesOf ==
    ASSUME NEW v \in Values
    PROVE  \A path, key : <<path, key>> \in KeyPlaces(v) <=>
              \/ /\ v.kind = "dict" /\ path = << >>
                 /\ \E i \in 1..Len(v.entries) : v.entries[i].key = key
              \/ \E i \in 1..Len(Parts(v)) : \E rest \in Seq(Nat) :
                    path = <<i>> \o rest /\ <<rest, key>> \in KeyPlaces(Parts(v)[i])
<1>. DEFINE Has(w, key) == w.kind = "dict" /\ \E i \in DOMAIN w.entries : w.entries[i].key = key
<1>1. ASSUME NEW u \in Values, NEW path, NEW key
      PROVE  <<path, key>> \in KeyPlaces(u) <=> \E w : <<path, w>> \in Nested(u) /\ Has(w, key)
  <2>1. \A place \in Nested(u) : place = <<place[1], place[2]>>
    BY NestedEquation
  <2>2. ASSUME NEW w, <<path, w>> \in Nested(u), Has(w, key)
        PROVE  <<path, key>> \in KeyPlaces(u)
    <3>1. <<path, w>>[1] = path /\ <<path, w>>[2] = w
      OBVIOUS
    <3>. QED  BY <2>2, <3>1, KeyPlaceIs
  <2>3. ASSUME <<path, key>> \in KeyPlaces(u)
        PROVE  \E w : <<path, w>> \in Nested(u) /\ Has(w, key)
    <3>1. PICK place \in Nested(u) :
             /\ place[2].kind = "dict"
             /\ \E i \in DOMAIN place[2].entries :
                   <<path, key>> = <<place[1], place[2].entries[i].key>>
      BY <2>3, KeyPlaceIs
    <3>2. path = place[1] /\ Has(place[2], key)
      BY <3>1
    <3>. QED  BY <2>1, <3>2
  <2>. QED  BY <2>2, <2>3
<1>2. \A i \in 1..Len(Parts(v)) : Parts(v)[i] \in Values
  BY PartsType, ValuesAssumption
<1>3. \A key : Has(v, key) <=> v.kind = "dict" /\ \E i \in 1..Len(v.entries) : v.entries[i].key = key
  BY DictType, ValuesAssumption
<1>. HIDE DEF Has
<1>. DEFINE InPart(path, key) ==
              \E i \in 1..Len(Parts(v)) : \E rest \in Seq(Nat) :
                 path = <<i>> \o rest /\ <<rest, key>> \in KeyPlaces(Parts(v)[i])
<1>4. ASSUME NEW path, NEW key, <<path, key>> \in KeyPlaces(v)
      PROVE  (path = << >> /\ Has(v, key)) \/ InPart(path, key)
  <2>1. PICK w : <<path, w>> \in Nested(v) /\ Has(w, key)
    BY <1>1, <1>4
  <2>2. CASE path = << >> /\ w = v
    BY <2>1, <2>2
  <2>3. ASSUME NEW i \in 1..Len(Parts(v)), NEW rest \in Seq(Nat),
               path = <<i>> \o rest, <<rest, w>> \in Nested(Parts(v)[i])
        PROVE  InPart(path, key)
    <3>1. <<rest, key>> \in KeyPlaces(Parts(v)[i])
      BY <1>1, <1>2, <2>1, <2>3
    <3>. QED  BY <2>3, <3>1
  <2>4. \/ path = << >> /\ w = v
        \/ \E i \in 1..Len(Parts(v)) : \E rest \in Seq(Nat) :
              path = <<i>> \o rest /\ <<rest, w>> \in Nested(Parts(v)[i])
    BY <2>1, NestedPlaces
  <2>. HIDE DEF InPart
  <2>. QED  BY <2>2, <2>3, <2>4
<1>5. ASSUME NEW path, NEW key, path = << >>, Has(v, key)  PROVE <<path, key>> \in KeyPlaces(v)
  <2>1. <<path, v>> \in Nested(v)
    BY <1>5, NestedPlaces
  <2>. QED  BY <1>1, <1>5, <2>1
<1>6. ASSUME NEW path, NEW key, NEW i \in 1..Len(Parts(v)), NEW rest \in Seq(Nat),
             path = <<i>> \o rest, <<rest, key>> \in KeyPlaces(Parts(v)[i])
      PROVE  <<path, key>> \in KeyPlaces(v)
  <2>1. PICK w : <<rest, w>> \in Nested(Parts(v)[i]) /\ Has(w, key)
    BY <1>1, <1>2, <1>6
  <2>2. <<path, w>> \in Nested(v)
    BY <1>6, <2>1, NestedPlaces
  <2>. QED  BY <1>1, <2>1, <2>2
<1>. QED  BY <1>3, <1>4, <1>5, <1>6

\* Where a key is, is a pair of a path and the key.
LEMMA KeyPlacesType ==
    ASSUME NEW v \in Values
    PROVE  \A x \in KeyPlaces(v) : x = <<x[1], x[2]>> /\ x[1] \in Seq(Nat)
<1>1. ASSUME NEW x \in KeyPlaces(v)  PROVE x = <<x[1], x[2]>> /\ x[1] \in Seq(Nat)
  <2>1. PICK place \in Nested(v) :
           \E i \in DOMAIN place[2].entries : x = <<place[1], place[2].entries[i].key>>
    BY KeyPlaceIs
  <2>2. place[1] \in Seq(Nat)
    BY NestedEquation
  <2>. QED  BY <2>1, <2>2
<1>. QED  BY <1>1

-----------------------------------------------------------------------------
\* What _find_schema_keys reports of an entry of a dict itself.
OwnKey(v, i) ==
    IF v.kind = "dict" /\ v.entries[i].key \in PROHIBITED_SCHEMA_KEYS
    THEN <<v.entries[i].key>> ELSE << >>

FoundKeys(v) == FindSchemaKeys(v, PROHIBITED_SCHEMA_KEYS)

\* What it reports of a value: part by part.
LEMMA KeysByParts ==
    ASSUME NEW v \in Values
    PROVE  \E s \in Seq(Seq(Strings)) :
              /\ Len(s) = Len(Parts(v)) /\ FoundKeys(v) = FlattenSeq(s)
              /\ \A i \in 1..Len(s) : s[i] = OwnKey(v, i) \o FoundKeys(Parts(v)[i])
<1>. DEFINE n == Len(Parts(v))
            s == [i \in 1..n |-> OwnKey(v, i) \o FoundKeys(Parts(v)[i])]
<1>1. n \in Nat /\ DOMAIN Parts(v) = 1..n /\ \A i \in 1..n : Parts(v)[i] \in Values
  BY PartsType, ValuesAssumption
<1>2. ASSUME NEW i \in 1..n  PROVE FoundKeys(Parts(v)[i]) \in Seq(Strings)
  BY <1>1, KeysEquation DEF FoundKeys
<1>3. ASSUME NEW i \in 1..n  PROVE OwnKey(v, i) \in Seq(Strings)
  <2>1. CASE v.kind = "dict"
    <3>1. v.entries[i].key \in Strings
      BY <2>1, DictType, ValuesAssumption
    <3>. QED  BY <3>1 DEF OwnKey
  <2>2. CASE v.kind # "dict"
    BY <2>2 DEF OwnKey
  <2>. QED  BY <2>1, <2>2
<1>4. \A i \in 1..n : OwnKey(v, i) \o FoundKeys(Parts(v)[i]) \in Seq(Strings)
  BY <1>2, <1>3, ConcatProperties
<1>5. s \in Seq(Seq(Strings)) /\ Len(s) = n
  <2>. DEFINE R == Seq(Strings)
  <2>1. s \in [1..n -> R]
    BY <1>4
  <2>. HIDE DEF R, s, n
  <2>2. s \in Seq(R) /\ Len(s) = n
    BY <1>1, <2>1
  <2>. QED  BY <2>2 DEF R
<1>6. FoundKeys(v) = FlattenSeq(s)
  <2>1. CASE v.kind = "dict"
    <3>. DEFINE t == [i \in DOMAIN v.entries |->
                        (IF v.entries[i].key \in PROHIBITED_SCHEMA_KEYS
                         THEN <<v.entries[i].key>> ELSE << >>)
                        \o FindSchemaKeys(v.entries[i].value, PROHIBITED_SCHEMA_KEYS)]
    <3>1. DOMAIN v.entries = 1..n /\ \A i \in 1..n : Parts(v)[i] = v.entries[i].value
      BY <2>1, DictType, ValuesAssumption
    <3>2. \A i \in 1..n : t[i] = OwnKey(v, i) \o FoundKeys(Parts(v)[i])
      BY <2>1, <3>1 DEF OwnKey, FoundKeys
    <3>3. t = s
      BY <3>1, <3>2
    <3>4. FindSchemaKeys(v, PROHIBITED_SCHEMA_KEYS) = FlattenSeq(t)
      BY <2>1, KeysEquation
    <3>. HIDE DEF s, t
    <3>. QED  BY <3>3, <3>4 DEF FoundKeys
  <2>2. CASE v.kind = "list"
    <3>. DEFINE t == [i \in DOMAIN v.items |-> FindSchemaKeys(v.items[i], PROHIBITED_SCHEMA_KEYS)]
    <3>1. DOMAIN v.items = 1..n /\ Parts(v) = v.items
      BY <2>2, ListType, ValuesAssumption
    <3>2. \A i \in 1..n : OwnKey(v, i) = << >>
      BY <2>2 DEF OwnKey
    <3>3. \A i \in 1..n : t[i] = OwnKey(v, i) \o FoundKeys(Parts(v)[i])
      BY <1>2, <3>1, <3>2, ConcatEmptySeq DEF FoundKeys
    <3>4. t = s
      BY <3>1, <3>3
    <3>5. FindSchemaKeys(v, PROHIBITED_SCHEMA_KEYS) = FlattenSeq(t)
      BY <2>2, KeysEquation
    <3>. HIDE DEF s, t
    <3>. QED  BY <3>4, <3>5 DEF FoundKeys
  <2>3. CASE v.kind \notin {"dict", "list"}
    <3>1. Parts(v) = << >>
      BY <2>3 DEF Parts
    <3>2. s = << >>
      BY <1>5, <3>1
    <3>3. FlattenSeq(<< >>) = << >>
      BY DEF FlattenSeq
    <3>4. FoundKeys(v) = << >>
      BY <2>3, KeysEquation DEF FoundKeys
    <3>. HIDE DEF s
    <3>. QED  BY <3>2, <3>3, <3>4
  <2>. QED  BY <2>1, <2>2, <2>3
<1>. HIDE DEF n
<1>7. \A i \in 1..n : s[i] = OwnKey(v, i) \o FoundKeys(Parts(v)[i])
  OBVIOUS
<1>. HIDE DEF s
<1>. QED  BY <1>5, <1>6, <1>7 DEF n

\* The prohibited places of a value: its own, and those of its parts.
LEMMA ProhibitedPlacesOf ==
    ASSUME NEW v \in Values
    PROVE  /\ \A x \in ProhibitedPlaces(v) : x = <<x[1], x[2]>> /\ x[1] \in Seq(Nat)
           /\ \A path, key : <<path, key>> \in ProhibitedPlaces(v) <=>
                 \/ /\ path = << >>
                    /\ \E i \in 1..Len(Parts(v)) : Len(OwnKey(v, i)) = 1 /\ v.entries[i].key = key
                 \/ \E i \in 1..Len(Parts(v)) : \E rest \in Seq(Nat) :
                       path = <<i>> \o rest /\ <<rest, key>> \in ProhibitedPlaces(Parts(v)[i])
<1>1. \A u : \A x : x \in ProhibitedPlaces(u) <=>
                      x \in KeyPlaces(u) /\ x[2] \in PROHIBITED_SCHEMA_KEYS
  BY DEF ProhibitedPlaces
<1>2. \A path, key : <<path, key>>[2] = key
  OBVIOUS
<1>3. ASSUME NEW i  PROVE Len(OwnKey(v, i)) = 1 <=>
                             v.kind = "dict" /\ v.entries[i].key \in PROHIBITED_SCHEMA_KEYS
  BY DEF OwnKey
<1>4. v.kind = "dict" => Len(Parts(v)) = Len(v.entries)
  BY DictType, ValuesAssumption
<1>5. \A u, path, key : <<path, key>> \in ProhibitedPlaces(u) <=>
                          <<path, key>> \in KeyPlaces(u) /\ key \in PROHIBITED_SCHEMA_KEYS
  BY <1>1, <1>2
<1>6. \A x \in ProhibitedPlaces(v) : x = <<x[1], x[2]>> /\ x[1] \in Seq(Nat)
  BY <1>1, KeyPlacesType
<1>7. ASSUME NEW path, NEW key
      PROVE  <<path, key>> \in ProhibitedPlaces(v) <=>
                 \/ /\ path = << >>
                    /\ \E i \in 1..Len(Parts(v)) : Len(OwnKey(v, i)) = 1 /\ v.entries[i].key = key
                 \/ \E i \in 1..Len(Parts(v)) : \E rest \in Seq(Nat) :
                       path = <<i>> \o rest /\ <<rest, key>> \in ProhibitedPlaces(Parts(v)[i])
  <2>1. CASE key \in PROHIBITED_SCHEMA_KEYS
    <3>1. <<path, key>> \in KeyPlaces(v) <=>
             \/ /\ v.kind = "dict" /\ path = << >>
                /\ \E i \in 1..Len(v.entries) : v.entries[i].key = key
             \/ \E i \in 1..Len(Parts(v)) : \E rest \in Seq(Nat) :
                   path = <<i>> \o rest /\ <<rest, key>> \in KeyPlaces(Parts(v)[i])
      BY KeyPlacesOf
    <3>2. v.kind = "dict" /\ (\E i \in 1..Len(v.entries) : v.entries[i].key = key) <=>
             \E i \in 1..Len(Parts(v)) : Len(OwnKey(v, i)) = 1 /\ v.entries[i].key = key
      BY <1>3, <1>4, <2>1
    <3>. QED  BY <1>5, <2>1, <3>1, <3>2
  <2>2. CASE key \notin PROHIBITED_SCHEMA_KEYS
    BY <1>3, <1>5, <2>2
  <2>. QED  BY <2>1, <2>2
<1>. QED  BY <1>6, <1>7

\* A path that begins with a step is not empty, and tells the step and the rest.
LEMMA PathIsNotEmpty ==
    ASSUME NEW i \in Nat, NEW r \in Seq(Nat)
    PROVE  <<i>> \o r # << >>
<1>1. Len(<<i>> \o r) = 1 + Len(r) /\ Len(r) \in Nat
  OBVIOUS
<1>. QED  BY <1>1

\* Paths into different parts differ, and so do different paths into one part.
LEMMA PathsDiffer ==
    \A i, j \in Nat : \A r, q \in Seq(Nat) : <<i>> \o r = <<j>> \o q => i = j /\ r = q
<1>1. ASSUME NEW i \in Nat, NEW j \in Nat, NEW r \in Seq(Nat), NEW q \in Seq(Nat),
             <<i>> \o r = <<j>> \o q
      PROVE  i = j /\ r = q
  <2>. DEFINE x == <<i>> \o r
              y == <<j>> \o q
  <2>1. /\ Len(x) = 1 + Len(r) /\ x[1] = i /\ Len(r) \in Nat
        /\ \A m \in 1..Len(r) : x[m + 1] = r[m]
    BY SMTT(30)
  <2>2. /\ Len(y) = 1 + Len(q) /\ y[1] = j /\ Len(q) \in Nat
        /\ \A m \in 1..Len(q) : y[m + 1] = q[m]
    BY SMTT(30)
  <2>. HIDE DEF x, y
  <2>0. x = y
    BY <1>1 DEF x, y
  <2>3. i = j /\ Len(r) = Len(q)
    BY <2>0, <2>1, <2>2
  <2>4. \A m \in 1..Len(r) : r[m] = q[m]
    BY <2>0, <2>1, <2>2, <2>3
  <2>. QED  BY <2>3, <2>4, SeqEqual
<1>. QED  BY <1>1

\* The keys that are reported and the places of prohibited keys correspond one
\* to one, however deep the places are.
LEMMA PlacesOfKeys ==
    ASSUME NEW v \in Values,
           \A i \in 1..Len(Parts(v)) :
               Counts(Len(FoundKeys(Parts(v)[i])), ProhibitedPlaces(Parts(v)[i]))
    PROVE  Counts(Len(FoundKeys(v)), ProhibitedPlaces(v))
<1>. DEFINE n == Len(Parts(v))
            own(i) == Len(OwnKey(v, i))
            found(i) == Len(FoundKeys(Parts(v)[i]))
            places(i) == ProhibitedPlaces(Parts(v)[i])
            g(i) == CHOOSE f : OneToOne(f, 1..found(i), places(i))
            Place(i, k) == IF k <= own(i) THEN <<<< >>, v.entries[i].key>>
                           ELSE <<<<i>> \o g(i)[k - own(i)][1], g(i)[k - own(i)][2]>>
<1>1. PICK s \in Seq(Seq(Strings)) :
         /\ Len(s) = n /\ FoundKeys(v) = FlattenSeq(s)
         /\ \A i \in 1..n : s[i] = OwnKey(v, i) \o FoundKeys(Parts(v)[i])
  BY KeysByParts
<1>2. n \in Nat /\ \A i \in 1..n : i \in Nat /\ Parts(v)[i] \in Values
  BY PartsType, ValuesAssumption
<1>3. ASSUME NEW i \in 1..n
      PROVE  own(i) \in {0, 1} /\ found(i) \in Nat /\ Len(s[i]) = own(i) + found(i)
  <2>1. CASE Len(OwnKey(v, i)) = 1
    <3>1. v.kind = "dict" /\ OwnKey(v, i) = <<v.entries[i].key>>
      BY <2>1 DEF OwnKey
    <3>2. v.entries[i].key \in Strings
      BY <3>1, DictType, ValuesAssumption
    <3>3. FoundKeys(Parts(v)[i]) \in Seq(Strings)
      BY <1>2, KeysEquation DEF FoundKeys
    <3>4. OwnKey(v, i) \in Seq(Strings)
      BY <3>1, <3>2
    <3>5. Len(OwnKey(v, i) \o FoundKeys(Parts(v)[i])) = Len(OwnKey(v, i)) + Len(FoundKeys(Parts(v)[i]))
      BY <3>3, <3>4, ConcatProperties
    <3>6. Len(FoundKeys(Parts(v)[i])) \in Nat
      BY <3>3
    <3>. QED  BY <1>1, <2>1, <3>5, <3>6
  <2>2. CASE Len(OwnKey(v, i)) # 1
    <3>1. OwnKey(v, i) = << >>
      BY <2>2 DEF OwnKey
    <3>2. FoundKeys(Parts(v)[i]) \in Seq(Strings)
      BY <1>2, KeysEquation DEF FoundKeys
    <3>3. s[i] = FoundKeys(Parts(v)[i])
      <4>1. << >> \o FoundKeys(Parts(v)[i]) = FoundKeys(Parts(v)[i])
        BY <3>2, ConcatEmptySeq
      <4>. QED  BY <1>1, <3>1, <4>1
    <3>4. own(i) = 0 /\ found(i) \in Nat
      BY <3>1, <3>2
    <3>. QED  BY <3>3, <3>4
  <2>. QED  BY <2>1, <2>2
<1>4. \A i \in 1..n : OneToOne(g(i), 1..found(i), places(i))
  BY DEF Counts
<1>5. \A path, key : <<path, key>> \in ProhibitedPlaces(v) <=>
        \/ path = << >> /\ \E i \in 1..n : own(i) = 1 /\ v.entries[i].key = key
        \/ \E i \in 1..n : \E rest \in Seq(Nat) :
              path = <<i>> \o rest /\ <<rest, key>> \in places(i)
  BY ProhibitedPlacesOf
<1>6. \A i \in 1..n : \A x \in places(i) : x = <<x[1], x[2]>> /\ x[1] \in Seq(Nat)
  BY <1>2, ProhibitedPlacesOf
<1>7. ASSUME NEW i \in 1..n, NEW j \in 1..n, own(i) = 1, own(j) = 1,
             v.entries[i].key = v.entries[j].key
      PROVE  i = j
  <2>1. v.kind = "dict"
    BY <1>7 DEF OwnKey
  <2>2. DOMAIN v.entries = 1..n
    BY <2>1, DictType, ValuesAssumption
  <2>. QED  BY <1>7, <2>1, <2>2, ValuesAreTrees
<1>8. Len(s) = n /\ \A p : p \in Positions(s) <=> \E i \in 1..n : \E k \in 1..Len(s[i]) : p = <<i, k>>
  BY <1>1, PositionIs
<1>. HIDE DEF n, own, found, places, g
<1>9. ASSUME NEW i \in 1..n, NEW k \in 1..Len(s[i])
      PROVE  \/ /\ own(i) = 1 /\ k = 1 /\ Place(i, k) = <<<< >>, v.entries[i].key>>
             \/ /\ k - own(i) \in 1..found(i)
                /\ g(i)[k - own(i)] \in places(i)
                /\ Place(i, k) = <<<<i>> \o g(i)[k - own(i)][1], g(i)[k - own(i)][2]>>
  <2>1. own(i) \in {0, 1} /\ found(i) \in Nat /\ Len(s[i]) = own(i) + found(i)
    BY <1>3
  <2>2. CASE k <= own(i)
    BY <2>1, <2>2
  <2>3. CASE ~(k <= own(i))
    <3>1. k - own(i) \in 1..found(i)
      BY <2>1, <2>3
    <3>2. g(i)[k - own(i)] \in places(i)
      BY <1>4, <3>1 DEF OneToOne
    <3>. QED  BY <2>3, <3>1, <3>2
  <2>. QED  BY <2>2, <2>3
<1>10. ASSUME NEW i \in 1..n, own(i) = 1  PROVE Place(i, 1) = <<<< >>, v.entries[i].key>>
  BY <1>10
<1>11. ASSUME NEW i \in 1..n, NEW m \in 1..found(i)
       PROVE  Place(i, m + own(i)) = <<<<i>> \o g(i)[m][1], g(i)[m][2]>>
  <2>1. own(i) \in {0, 1} /\ found(i) \in Nat
    BY <1>3
  <2>2. ~(m + own(i) <= own(i)) /\ (m + own(i)) - own(i) = m
    BY <2>1
  <2>. QED  BY <2>2
<1>. HIDE DEF Place
<1>12. ASSUME NEW i \in 1..n, NEW k \in 1..Len(s[i])  PROVE Place(i, k) \in ProhibitedPlaces(v)
  <2>1. CASE own(i) = 1 /\ Place(i, k) = <<<< >>, v.entries[i].key>>
    BY <1>5, <2>1
  <2>2. CASE /\ g(i)[k - own(i)] \in places(i)
             /\ Place(i, k) = <<<<i>> \o g(i)[k - own(i)][1], g(i)[k - own(i)][2]>>
    <3>. DEFINE y == g(i)[k - own(i)]
    <3>1. y = <<y[1], y[2]>> /\ y[1] \in Seq(Nat) /\ y \in places(i)
      BY <1>6, <2>2
    <3>2. Place(i, k) = <<<<i>> \o y[1], y[2]>>
      BY <2>2
    <3>. HIDE DEF y
    <3>3. <<y[1], y[2]>> \in places(i)
      BY <3>1
    <3>4. <<<<i>> \o y[1], y[2]>> \in ProhibitedPlaces(v)
      BY <1>5, <3>1, <3>3, Zenon
    <3>. QED  BY <3>2, <3>4
  <2>. QED  BY <1>9, <2>1, <2>2
<1>13. ASSUME NEW i \in 1..n, NEW k \in 1..Len(s[i]), NEW j \in 1..n, NEW l \in 1..Len(s[j]),
              Place(i, k) = Place(j, l)
       PROVE  i = j /\ k = l
  <2>. DEFINE Own(a, b) == own(a) = 1 /\ b = 1 /\ Place(a, b) = <<<< >>, v.entries[a].key>>
              Part(a, b) == /\ b - own(a) \in 1..found(a)
                            /\ g(a)[b - own(a)] \in places(a)
                            /\ Place(a, b) = <<<<a>> \o g(a)[b - own(a)][1], g(a)[b - own(a)][2]>>
  <2>1. (Own(i, k) \/ Part(i, k)) /\ (Own(j, l) \/ Part(j, l))
    BY <1>9
  <2>2. CASE Own(i, k) /\ Own(j, l)
    BY <1>7, <1>13, <2>2
  <2>3. ASSUME NEW a \in 1..n, NEW b, Part(a, b)  PROVE Place(a, b)[1] # << >>
    <3>1. g(a)[b - own(a)][1] \in Seq(Nat)
      BY <1>6, <2>3
    <3>2. <<a>> \o g(a)[b - own(a)][1] # << >>
      BY <1>2, <3>1, PathIsNotEmpty
    <3>. QED  BY <2>3, <3>2
  <2>4. \A a, b : Own(a, b) => Place(a, b)[1] = << >>
    OBVIOUS
  <2>5. CASE Part(i, k) /\ Part(j, l)
    <3>. DEFINE x == g(i)[k - own(i)]
                y == g(j)[l - own(j)]
    <3>1. x = <<x[1], x[2]>> /\ x[1] \in Seq(Nat) /\ y = <<y[1], y[2]>> /\ y[1] \in Seq(Nat)
      BY <1>6, <2>5
    <3>0. <<<<i>> \o x[1], x[2]>> = <<<<j>> \o y[1], y[2]>>
      BY <1>13, <2>5
    <3>2. <<i>> \o x[1] = <<j>> \o y[1] /\ x[2] = y[2]
      BY <3>0
    <3>3. i = j /\ x[1] = y[1]
      <4>1. i \in Nat /\ j \in Nat
        BY <1>2
      <4>2. x[1] \in Seq(Nat) /\ y[1] \in Seq(Nat)
        BY <3>1
      <4>. DEFINE r == x[1]
                  q == y[1]
      <4>3. r \in Seq(Nat) /\ q \in Seq(Nat) /\ <<i>> \o r = <<j>> \o q
        BY <3>2, <4>2
      <4>. HIDE DEF r, q
      <4>. DEFINE Longer(a, u) == <<a>> \o u
      <4>4. \A a, b \in Nat : \A u, w \in Seq(Nat) : Longer(a, u) = Longer(b, w) => a = b /\ u = w
        BY PathsDiffer
      <4>5. Longer(i, r) = Longer(j, q)
        BY <4>3
      <4>. HIDE DEF Longer
      <4>6. i = j /\ r = q
        BY <4>1, <4>3, <4>4, <4>5
      <4>. QED  BY <4>6 DEF r, q
    <3>4. x = y
      BY <3>1, <3>2, <3>3
    <3>5. k - own(i) = l - own(i) /\ k - own(i) \in 1..found(i)
      BY <1>4, <2>5, <3>3, <3>4 DEF OneToOne
    <3>6. own(i) \in {0, 1}
      BY <1>3
    <3>7. k \in Int /\ l \in Int
      OBVIOUS
    <3>. QED  BY <3>3, <3>5, <3>6, <3>7
  <2>. HIDE DEF Own, Part
  <2>. QED  BY <1>13, <2>1, <2>2, <2>3, <2>4, <2>5
<1>14. ASSUME NEW x \in ProhibitedPlaces(v)
       PROVE  \E i \in 1..n : \E k \in 1..Len(s[i]) : Place(i, k) = x
  <2>1. x = <<x[1], x[2]>>
    BY ProhibitedPlacesOf
  <2>2. ASSUME x[1] = << >>, NEW i \in 1..n, own(i) = 1, v.entries[i].key = x[2]
        PROVE  \E k \in 1..Len(s[i]) : Place(i, k) = x
    <3>1. Place(i, 1) = x
      BY <1>10, <2>1, <2>2
    <3>2. 1 \in 1..Len(s[i])
      BY <1>3, <2>2
    <3>. QED  BY <3>1, <3>2
  <2>3. ASSUME NEW i \in 1..n, NEW rest \in Seq(Nat),
               x[1] = <<i>> \o rest, <<rest, x[2]>> \in places(i)
        PROVE  \E k \in 1..Len(s[i]) : Place(i, k) = x
    <3>1. PICK m \in 1..found(i) : g(i)[m] = <<rest, x[2]>>
      BY <1>4, <2>3 DEF OneToOne
    <3>0. g(i)[m][1] = rest /\ g(i)[m][2] = x[2]
      BY <3>1
    <3>2. Place(i, m + own(i)) = x
      BY <1>11, <2>1, <2>3, <3>0
    <3>3. m + own(i) \in 1..Len(s[i])
      <4>1. own(i) \in {0, 1} /\ found(i) \in Nat /\ Len(s[i]) = own(i) + found(i)
        BY <1>3
      <4>. QED  BY <4>1
    <3>. QED  BY <3>2, <3>3
  <2>4. \/ x[1] = << >> /\ \E i \in 1..n : own(i) = 1 /\ v.entries[i].key = x[2]
        \/ \E i \in 1..n : \E rest \in Seq(Nat) :
              x[1] = <<i>> \o rest /\ <<rest, x[2]>> \in places(i)
    <3>1. <<x[1], x[2]>> \in ProhibitedPlaces(v)
      BY <2>1
    <3>. QED  BY <1>5, <3>1
  <2>. QED  BY <2>2, <2>3, <2>4
<1>. DEFINE place == [p \in Positions(s) |-> Place(p[1], p[2])]
<1>15. OneToOne(place, Positions(s), ProhibitedPlaces(v))
  <2>1. ASSUME NEW p \in Positions(s)
        PROVE  \E i \in 1..n : \E k \in 1..Len(s[i]) : p = <<i, k>> /\ place[p] = Place(i, k)
    <3>1. PICK i \in 1..n : \E k \in 1..Len(s[i]) : p = <<i, k>>
      BY <1>8
    <3>2. PICK k \in 1..Len(s[i]) : p = <<i, k>>
      BY <3>1
    <3>3. p[1] = i /\ p[2] = k
      BY <3>2
    <3>. QED  BY <3>2, <3>3
  <2>2. \A i \in 1..n : \A k \in 1..Len(s[i]) :
           <<i, k>> \in Positions(s) /\ place[<<i, k>>] = Place(i, k)
    <3>1. \A i, k : <<i, k>>[1] = i /\ <<i, k>>[2] = k
      OBVIOUS
    <3>. QED  BY <1>8, <3>1
  <2>3. DOMAIN place = Positions(s) /\ place = [p \in Positions(s) |-> place[p]]
    OBVIOUS
  <2>. HIDE DEF place
  <2>4. place \in [Positions(s) -> ProhibitedPlaces(v)]
    BY <1>12, <2>1, <2>3
  <2>5. \A p, q \in Positions(s) : place[p] = place[q] => p = q
    BY <1>13, <2>1
  <2>6. \A x \in ProhibitedPlaces(v) : \E p \in Positions(s) : place[p] = x
    BY <1>14, <2>2
  <2>. QED  BY <2>4, <2>5, <2>6 DEF OneToOne
<1>16. PICK pos : OneToOne(pos, 1..Len(FlattenSeq(s)), Positions(s))
  BY FlattenPositions
<1>17. \E h : OneToOne(h, 1..Len(FoundKeys(v)), ProhibitedPlaces(v))
  BY <1>1, <1>15, <1>16, Composed
<1>. QED  BY <1>17 DEF Counts

\* _find_schema_keys finds as many keys as there are prohibited places.
LEMMA PlacesAreCounted ==
    ASSUME NEW v \in Values
    PROVE  Counts(Len(FoundKeys(v)), ProhibitedPlaces(v))
<1>. DEFINE good == {w \in Values : Counts(Len(FoundKeys(w)), ProhibitedPlaces(w))}
<1>1. ASSUME NEW w \in Values, \A i \in 1..Len(Parts(w)) : Parts(w)[i] \in good
      PROVE  w \in good
  BY <1>1, PlacesOfKeys
<1>2. Values \subseteq good
  <2>. HIDE DEF good
  <2>. QED  BY <1>1, TreeInduction, ValuesAssumption
<1>. QED  BY <1>2

-----------------------------------------------------------------------------
\* What _schema_text_values gives of an entry of a dict itself.
OwnText(v, i) == IF v.kind = "dict" THEN <<v.entries[i].key>> ELSE << >>

\* It reaches all that is said of the parts.
LEMMA TextsOfParts ==
    ASSUME NEW v \in Values, NEW i \in 1..Len(Parts(v))
    PROVE  /\ Range(OwnText(v, i)) \subseteq Range(SchemaTextValues(v))
           /\ Range(SchemaTextValues(Parts(v)[i])) \subseteq Range(SchemaTextValues(v))
<1>. DEFINE n == Len(Parts(v))
            s == [j \in 1..n |-> OwnText(v, j) \o SchemaTextValues(Parts(v)[j])]
<1>1. n \in Nat /\ DOMAIN Parts(v) = 1..n /\ \A j \in 1..n : Parts(v)[j] \in Values
  BY PartsType, ValuesAssumption
<1>2. ASSUME NEW j \in 1..n
      PROVE  SchemaTextValues(Parts(v)[j]) \in Seq(Strings) /\ OwnText(v, j) \in Seq(Strings)
  <2>1. SchemaTextValues(Parts(v)[j]) \in Seq(Strings)
    BY <1>1, TextsEquation
  <2>2. CASE v.kind = "dict"
    <3>1. v.entries[j].key \in Strings
      BY <2>2, DictType, ValuesAssumption
    <3>2. OwnText(v, j) \in Seq(Strings)
      BY <2>2, <3>1 DEF OwnText
    <3>. QED  BY <2>1, <3>2
  <2>3. CASE v.kind # "dict"
    BY <2>1, <2>3 DEF OwnText
  <2>. QED  BY <2>2, <2>3
<1>3. \A j \in 1..n : OwnText(v, j) \o SchemaTextValues(Parts(v)[j]) \in Seq(Strings)
  BY <1>2, ConcatProperties
<1>4. s \in Seq(Seq(Strings)) /\ Len(s) = n
  <2>. DEFINE R == Seq(Strings)
  <2>1. s \in [1..n -> R]
    BY <1>3
  <2>. HIDE DEF R, s, n
  <2>2. s \in Seq(R) /\ Len(s) = n
    BY <1>1, <2>1
  <2>. QED  BY <2>2 DEF R
<1>5. SchemaTextValues(v) = FlattenSeq(s)
  <2>1. CASE v.kind = "dict"
    <3>. DEFINE t == [j \in DOMAIN v.entries |->
                        <<v.entries[j].key>> \o SchemaTextValues(v.entries[j].value)]
    <3>1. DOMAIN v.entries = 1..n /\ \A j \in 1..n : Parts(v)[j] = v.entries[j].value
      BY <2>1, DictType, ValuesAssumption
    <3>2. \A j \in 1..n : t[j] = OwnText(v, j) \o SchemaTextValues(Parts(v)[j])
      BY <2>1, <3>1 DEF OwnText
    <3>3. t = s
      BY <3>1, <3>2
    <3>4. SchemaTextValues(v) = FlattenSeq(t)
      BY <2>1, TextsEquation
    <3>. HIDE DEF s, t
    <3>. QED  BY <3>3, <3>4
  <2>2. CASE v.kind = "list"
    <3>. DEFINE t == [j \in DOMAIN v.items |-> SchemaTextValues(v.items[j])]
    <3>1. DOMAIN v.items = 1..n /\ Parts(v) = v.items
      BY <2>2, ListType, ValuesAssumption
    <3>2. \A j \in 1..n : OwnText(v, j) = << >>
      BY <2>2 DEF OwnText
    <3>3. \A j \in 1..n : t[j] = OwnText(v, j) \o SchemaTextValues(Parts(v)[j])
      BY <1>2, <3>1, <3>2, ConcatEmptySeq
    <3>4. t = s
      BY <3>1, <3>3
    <3>5. SchemaTextValues(v) = FlattenSeq(t)
      BY <2>2, TextsEquation
    <3>. HIDE DEF s, t
    <3>. QED  BY <3>4, <3>5
  <2>3. CASE v.kind \notin {"dict", "list"}
    <3>1. n = 0
      BY <2>3 DEF Parts
    <3>. QED  BY <3>1
  <2>. QED  BY <2>1, <2>2, <2>3
<1>6. s[i] = OwnText(v, i) \o SchemaTextValues(Parts(v)[i]) /\ i \in 1..Len(s) /\ s[i] \in Seq(Strings)
  BY <1>3, <1>4
<1>. HIDE DEF s
<1>7. \A x \in Range(s[i]) : x \in Range(FlattenSeq(s))
  <2>1. ASSUME NEW k \in 1..Len(s[i])  PROVE s[i][k] \in Range(FlattenSeq(s))
    BY <1>4, <1>6, FlattenKeepsAll
  <2>2. DOMAIN s[i] = 1..Len(s[i])
    BY <1>6
  <2>. QED  BY <2>1, <2>2 DEF Range
<1>8. Range(s[i]) = Range(OwnText(v, i)) \cup Range(SchemaTextValues(Parts(v)[i]))
  BY <1>2, <1>6, RangeConcatenation
<1>. QED  BY <1>5, <1>7, <1>8

\* It reaches every key and every text, however deep they are.
LEMMA TextsAreComplete ==
    ASSUME NEW v \in Values
    PROVE  /\ \A path, key : <<path, key>> \in KeyPlaces(v) => key \in Range(SchemaTextValues(v))
           /\ \A path, w : <<path, w>> \in Nested(v) /\ w.kind = "text"
                              => w.text \in Range(SchemaTextValues(v))
<1>. DEFINE Keys(u) == \A path, key : <<path, key>> \in KeyPlaces(u)
                                         => key \in Range(SchemaTextValues(u))
            Leaves(u) == \A path, w : <<path, w>> \in Nested(u) /\ w.kind = "text"
                                         => w.text \in Range(SchemaTextValues(u))
            good == {u \in Values : Keys(u) /\ Leaves(u)}
<1>1. ASSUME NEW u \in Values, \A i \in 1..Len(Parts(u)) : Parts(u)[i] \in good
      PROVE  Keys(u)
  <2>1. ASSUME NEW path, NEW key, <<path, key>> \in KeyPlaces(u)
        PROVE  key \in Range(SchemaTextValues(u))
    <3>1. CASE u.kind = "dict" /\ \E i \in 1..Len(u.entries) : u.entries[i].key = key
      <4>1. PICK i \in 1..Len(u.entries) : u.entries[i].key = key
        BY <3>1
      <4>2. i \in 1..Len(Parts(u))
        BY <3>1, DictType, ValuesAssumption
      <4>3. key \in Range(OwnText(u, i))
        BY <3>1, <4>1 DEF OwnText, Range
      <4>. QED  BY <4>2, <4>3, TextsOfParts
    <3>2. ASSUME NEW i \in 1..Len(Parts(u)), NEW rest, <<rest, key>> \in KeyPlaces(Parts(u)[i])
          PROVE  key \in Range(SchemaTextValues(u))
      <4>1. key \in Range(SchemaTextValues(Parts(u)[i]))
        BY <1>1, <3>2
      <4>. QED  BY <4>1, TextsOfParts
    <3>3. \/ /\ u.kind = "dict" /\ path = << >>
             /\ \E i \in 1..Len(u.entries) : u.entries[i].key = key
          \/ \E i \in 1..Len(Parts(u)) : \E rest \in Seq(Nat) :
                path = <<i>> \o rest /\ <<rest, key>> \in KeyPlaces(Parts(u)[i])
      <4>. HIDE DEF good
      <4>. QED  BY <2>1, KeyPlacesOf
    <3>. QED  BY <3>1, <3>2, <3>3
  <2>. QED  BY <2>1
<1>2. ASSUME NEW u \in Values, \A i \in 1..Len(Parts(u)) : Parts(u)[i] \in good
      PROVE  Leaves(u)
  <2>1. ASSUME NEW path, NEW w, <<path, w>> \in Nested(u), w.kind = "text"
        PROVE  w.text \in Range(SchemaTextValues(u))
    <3>1. CASE w = u
      <4>1. SchemaTextValues(u) = <<w.text>>
        BY <2>1, <3>1, TextsEquation
      <4>. QED  BY <4>1 DEF Range
    <3>2. ASSUME NEW i \in 1..Len(Parts(u)), NEW rest, <<rest, w>> \in Nested(Parts(u)[i])
          PROVE  w.text \in Range(SchemaTextValues(u))
      <4>1. w.text \in Range(SchemaTextValues(Parts(u)[i]))
        BY <1>2, <2>1, <3>2
      <4>. QED  BY <4>1, TextsOfParts
    <3>3. \/ path = << >> /\ w = u
          \/ \E i \in 1..Len(Parts(u)) : \E rest \in Seq(Nat) :
                path = <<i>> \o rest /\ <<rest, w>> \in Nested(Parts(u)[i])
      <4>1. <<path, w>> \in Nested(u)
        BY <2>1
      <4>. HIDE DEF good
      <4>. QED  BY <4>1, NestedPlaces
    <3>. QED  BY <3>1, <3>2, <3>3
  <2>. QED  BY <2>1
<1>3. \A u \in Values : (\A i \in 1..Len(Parts(u)) : Parts(u)[i] \in good) => u \in good
  BY <1>1, <1>2
<1>4. Values \subseteq good
  <2>. HIDE DEF good
  <2>. QED  BY <1>3, TreeInduction, ValuesAssumption
<1>. QED  BY <1>4

-----------------------------------------------------------------------------
\* All words there are.
AllWords == {Space} \cup UNION {Range(Words[text]) : text \in Strings}

Texts3(c) == <<c.vertical, c.upstream_tool, c.description>> \o SchemaTextValues(c.input_schema)

WordsOf(texts) == [i \in DOMAIN texts |-> Words[texts[i]] \o <<Space>>]

\* The texts that are searched are all the texts of the candidate.
LEMMA SearchedTexts ==
    ASSUME NEW c \in CandidateTool
    PROVE  /\ Texts3(c) \in Seq(Strings)
           /\ TextsOf(c) \subseteq Range(Texts3(c))
<1>. DEFINE outer == <<c.vertical, c.upstream_tool, c.description>>
            inner == SchemaTextValues(c.input_schema)
<1>1. outer \in Seq(Strings) /\ Range(outer) = {c.vertical, c.upstream_tool, c.description}
  <2>1. c.vertical \in Strings /\ c.upstream_tool \in Strings /\ c.description \in Strings
    BY DEF CandidateTool
  <2>. QED  BY <2>1 DEF Range
<1>2. c.input_schema \in Values
  BY DEF CandidateTool
<1>3. inner \in Seq(Strings)
  BY <1>2, TextsEquation
<1>4. Texts3(c) \in Seq(Strings) /\ Range(Texts3(c)) = Range(outer) \cup Range(inner)
  <2>1. Texts3(c) = outer \o inner
    BY DEF Texts3
  <2>. HIDE DEF outer, inner
  <2>2. outer \o inner \in Seq(Strings)
    BY <1>1, <1>3, ConcatProperties
  <2>3. Range(outer \o inner) = Range(outer) \cup Range(inner)
    BY <1>1, <1>3, RangeConcatenation
  <2>. QED  BY <2>1, <2>2, <2>3
<1>5. ASSUME NEW p \in KeyPlaces(c.input_schema)  PROVE p[2] \in Range(inner)
  <2>1. p = <<p[1], p[2]>>
    BY <1>2, KeyPlacesType
  <2>. HIDE DEF inner
  <2>2. <<p[1], p[2]>> \in KeyPlaces(c.input_schema)
    BY <2>1
  <2>. QED  BY <1>2, <2>2, TextsAreComplete DEF inner
<1>6. ASSUME NEW q \in Nested(c.input_schema), q[2].kind = "text"  PROVE q[2].text \in Range(inner)
  <2>1. q = <<q[1], q[2]>>
    BY <1>2, NestedEquation
  <2>2. <<q[1], q[2]>> \in Nested(c.input_schema)
    BY <2>1
  <2>. QED  BY <1>2, <1>6, <2>2, TextsAreComplete
<1>. QED  BY <1>1, <1>4, <1>5, <1>6 DEF TextsOf

\* The words of each text are in one piece in the searched text.
LEMMA WordsInOnePiece ==
    ASSUME NEW c \in CandidateTool, NEW text \in TextsOf(c)
    PROVE  /\ CandidateText(c) \in Seq(AllWords) /\ Words[text] \in Seq(AllWords)
           /\ \E a \in Nat :
                 /\ a + Len(Words[text]) <= Len(CandidateText(c))
                 /\ \A k \in 1..Len(Words[text]) : CandidateText(c)[a + k] = Words[text][k]
<1>. DEFINE texts == Texts3(c)
            s == WordsOf(texts)
<1>1. texts \in Seq(Strings) /\ text \in Range(texts)
  BY SearchedTexts
<1>2. \A t \in Strings : Words[t] \in Seq(AllWords)
  <2>1. ASSUME NEW t \in Strings  PROVE Words[t] \in Seq(AllWords)
    <3>1. Words[t] \in Seq(Range(Words[t])) /\ Range(Words[t]) \subseteq AllWords
      BY TextsAssumption DEF AllWords
    <3>. QED  BY <3>1, SeqMonotonic
  <2>. QED  BY <2>1
<1>3. CandidateText(c) = FlattenSeq(s)
  BY DEF CandidateText, Texts3, WordsOf
<1>. HIDE DEF texts
<1>4. DOMAIN texts = 1..Len(texts) /\ Len(texts) \in Nat /\ \A i \in 1..Len(texts) : texts[i] \in Strings
  BY <1>1
<1>5. \A t \in Strings : Words[t] \o <<Space>> \in Seq(AllWords)
  <2>1. <<Space>> \in Seq(AllWords)
    BY DEF AllWords
  <2>. QED  BY <1>2, <2>1, ConcatProperties
<1>6. s \in Seq(Seq(AllWords)) /\ Len(s) = Len(texts)
  <2>. DEFINE R == Seq(AllWords)
  <2>1. \A i \in 1..Len(texts) : Words[texts[i]] \o <<Space>> \in R
    BY <1>4, <1>5
  <2>2. s \in [1..Len(texts) -> R]
    BY <1>4, <2>1 DEF WordsOf
  <2>. HIDE DEF R, s
  <2>3. s \in Seq(R) /\ Len(s) = Len(texts)
    BY <1>4, <2>2
  <2>. QED  BY <2>3 DEF R
<1>7. PICK i \in 1..Len(texts) : texts[i] = text
  BY <1>1, <1>4 DEF Range
<1>8. s[i] = Words[text] \o <<Space>>
  BY <1>4, <1>7 DEF WordsOf
<1>. HIDE DEF s
<1>9. /\ FlattenSeq(s) \in Seq(AllWords)
      /\ \E start \in [1..Len(s) -> Nat] : LaidOut(start, s, Len(s), FlattenSeq(s))
  BY <1>6, Flattened
<1>10. PICK start \in [1..Len(s) -> Nat] : LaidOut(start, s, Len(s), FlattenSeq(s))
  BY <1>9
<1>11. /\ i \in 1..Len(s) /\ start[i] \in Nat
       /\ start[i] + Len(s[i]) <= Len(FlattenSeq(s))
       /\ \A k \in 1..Len(s[i]) : FlattenSeq(s)[start[i] + k] = s[i][k]
  BY <1>6, <1>10 DEF LaidOut
<1>12. text \in Strings /\ Words[text] \in Seq(AllWords)
  BY <1>2, <1>4, <1>7
<1>13. /\ Len(s[i]) = Len(Words[text]) + 1 /\ Len(Words[text]) \in Nat
       /\ \A k \in 1..Len(Words[text]) : s[i][k] = Words[text][k]
  <2>. DEFINE blank == <<Space>>
  <2>1. blank \in Seq(AllWords) /\ Len(blank) = 1
    BY DEF AllWords
  <2>2. s[i] = Words[text] \o blank
    BY <1>8
  <2>. HIDE DEF blank
  <2>3. /\ Len(Words[text] \o blank) = Len(Words[text]) + Len(blank)
        /\ \A k \in 1..(Len(Words[text]) + Len(blank)) :
              (Words[text] \o blank)[k] = IF k <= Len(Words[text]) THEN Words[text][k]
                                          ELSE blank[k - Len(Words[text])]
    BY <1>12, <2>1, ConcatProperties
  <2>4. Len(Words[text]) \in Nat
    BY <1>12
  <2>5. Len(s[i]) = Len(Words[text]) + 1
    BY <2>1, <2>2, <2>3
  <2>6. ASSUME NEW k \in 1..Len(Words[text])  PROVE s[i][k] = Words[text][k]
    <3>1. k \in 1..(Len(Words[text]) + Len(blank)) /\ k <= Len(Words[text])
      BY <2>1, <2>4
    <3>. QED  BY <2>2, <2>3, <3>1
  <2>. QED  BY <2>4, <2>5, <2>6
<1>14. start[i] + Len(Words[text]) <= Len(FlattenSeq(s))
  <2>1. Len(FlattenSeq(s)) \in Nat
    BY <1>9
  <2>. QED  BY <1>11, <1>13, <2>1
<1>15. \A k \in 1..Len(Words[text]) : FlattenSeq(s)[start[i] + k] = Words[text][k]
  BY <1>11, <1>13
<1>. QED  BY <1>3, <1>9, <1>11, <1>12, <1>14, <1>15

\* So a term that a text mentions is found.
LEMMA MentionIsFound ==
    ASSUME NEW c \in CandidateTool, NEW text \in TextsOf(c), NEW terms, NEW term \in terms,
           term \in Seq(Range(term)), Hyphen \notin Range(term), Mentions(text, term)
    PROVE  term \in FindTerms(CandidateText(c), terms)
<1>. DEFINE words == CandidateText(c)
            normal(word) == IF word = Hyphen THEN Underscore ELSE word
            normalized == [i \in DOMAIN words |-> normal(words[i])]
            own == Words[text]
            n == Len(term)
<1>1. /\ words \in Seq(AllWords) /\ own \in Seq(AllWords)
      /\ \E a \in Nat : /\ a + Len(own) <= Len(words)
                        /\ \A k \in 1..Len(own) : words[a + k] = own[k]
  BY WordsInOnePiece
<1>2. PICK a \in Nat : /\ a + Len(own) <= Len(words)
                       /\ \A k \in 1..Len(own) : words[a + k] = own[k]
  BY <1>1
<1>3. n \in Nat /\ DOMAIN term = 1..n /\ \A k \in 1..n : term[k] # Hyphen
  BY DEF Range
<1>4. PICK b \in DOMAIN own :
         \A k \in DOMAIN term :
            /\ b + k - 1 \in DOMAIN own
            /\ LET word == own[b + k - 1]
               IN  word = term[k] \/ (word = Hyphen /\ term[k] = Underscore)
  BY DEF Mentions
<1>5. DOMAIN own = 1..Len(own) /\ Len(own) \in Nat /\ DOMAIN words = 1..Len(words) /\ Len(words) \in Nat
  BY <1>1
<1>. HIDE DEF words, own, n, normal
<1>6. \A k \in 1..n : b + k - 1 \in 1..Len(own) /\ normal(own[b + k - 1]) = term[k]
  <2>1. \A k \in 1..n : b + k - 1 \in 1..Len(own)
    BY <1>3, <1>4, <1>5
  <2>2. ASSUME NEW k \in 1..n  PROVE normal(own[b + k - 1]) = term[k]
    BY <1>3, <1>4 DEF normal
  <2>. QED  BY <2>1, <2>2
<1>. DEFINE i == a + b - 1
<1>7. i \in 0..(Len(words) - n)
  <2>1. b \in 1..Len(own)
    BY <1>5
  <2>2. CASE n = 0
    BY <1>2, <1>5, <2>1, <2>2
  <2>3. CASE n # 0
    <3>1. n \in 1..n
      BY <1>3, <2>3
    <3>2. b + n - 1 \in 1..Len(own)
      BY <1>6, <3>1
    <3>. QED  BY <1>2, <1>3, <1>5, <2>1, <3>2
  <2>. QED  BY <2>2, <2>3
<1>8. \A k \in 1..n : i + k \in 1..Len(words) /\ normalized[i + k] = term[k]
  <2>1. ASSUME NEW k \in 1..n  PROVE i + k \in 1..Len(words) /\ normalized[i + k] = term[k]
    <3>1. b \in Nat /\ k \in Nat /\ i + k = a + (b + k - 1)
      BY <1>3, <1>5
    <3>2. b + k - 1 \in 1..Len(own)
      BY <1>6
    <3>3. a + (b + k - 1) \in 1..Len(words) /\ words[a + (b + k - 1)] = own[b + k - 1]
      BY <1>2, <1>5, <3>2
    <3>. HIDE DEF i
    <3>4. normalized[i + k] = normal(own[b + k - 1])
      BY <1>5, <3>1, <3>3
    <3>. QED  BY <1>6, <3>1, <3>3, <3>4
  <2>. QED  BY <2>1
<1>9. SubSeq(normalized, i + 1, i + n) = term
  <2>1. i \in Int /\ i + 1 \in Int /\ i + n \in Int
    BY <1>3, <1>5, <1>7
  <2>. HIDE DEF i, normalized
  <2>2. ASSUME NEW j \in (i + 1)..(i + n)  PROVE normalized[j] \in Range(term)
    <3>1. j - i \in 1..n /\ i + (j - i) = j
      BY <1>3, <2>1
    <3>2. normalized[j] = term[j - i]
      BY <1>8, <3>1
    <3>. QED  BY <1>3, <3>1, <3>2 DEF Range
  <2>3. /\ SubSeq(normalized, i + 1, i + n) \in Seq(Range(term))
        /\ Len(SubSeq(normalized, i + 1, i + n)) = IF i + 1 <= i + n THEN (i + n) - (i + 1) + 1 ELSE 0
        /\ \A k \in 1..((i + n) - (i + 1) + 1) :
              SubSeq(normalized, i + 1, i + n)[k] = normalized[(i + 1) + k - 1]
    BY <2>1, <2>2, SubSeqProperties
  <2>4. (i + n) - (i + 1) + 1 = n /\ (IF i + 1 <= i + n THEN n ELSE 0) = n
    BY <1>3, <2>1
  <2>5. Len(SubSeq(normalized, i + 1, i + n)) = n
    BY <2>3, <2>4
  <2>6. \A k \in 1..n : SubSeq(normalized, i + 1, i + n)[k] = term[k]
    <3>1. \A k \in 1..n : (i + 1) + k - 1 = i + k
      BY <2>1
    <3>. QED  BY <1>8, <2>3, <2>4, <3>1
  <2>. QED  BY <2>3, <2>5, <2>6, SeqEqual DEF n
<1>10. \E j \in 0..(Len(words) - n) : SubSeq(normalized, j + 1, j + n) = term
  BY <1>7, <1>9
<1>. QED  BY <1>10 DEF FindTerms, words, normal, n

-----------------------------------------------------------------------------
\* The issues there are.
KnownIssues == {Issue(cf[1], cf[2]) : cf \in FieldsOfCodes}

\* The codes in a list of issues, and the places of one of them.
Codes(list) == {issue.code : issue \in Range(list)}

Marks(list, code) == {i \in DOMAIN list : list[i].code = code}

\* One condition.
LEMMA OneIssue ==
    ASSUME NEW condition, NEW code, NEW field, <<code, field>> \in FieldsOfCodes
    PROVE  /\ IssueIf(condition, code, field) \in Seq(KnownIssues)
           /\ Codes(IssueIf(condition, code, field)) = {x \in {code} : condition}
           /\ IssueIf(condition, code, field) = << >> <=> ~condition
<1>1. Issue(code, field) \in KnownIssues /\ Issue(code, field).code = code
  BY DEF KnownIssues, Issue
<1>2. CASE condition
  <2>. DEFINE one == <<Issue(code, field)>>
  <2>1. IssueIf(condition, code, field) = one
    BY <1>2 DEF IssueIf
  <2>2. one \in Seq(KnownIssues) /\ Range(one) = {Issue(code, field)} /\ one # << >>
    BY <1>1 DEF Range
  <2>. HIDE DEF one
  <2>3. Codes(one) = {code}
    BY <1>1, <2>2 DEF Codes
  <2>. QED  BY <1>2, <2>1, <2>2, <2>3
<1>3. CASE ~condition
  <2>. DEFINE none == << >>
  <2>1. IssueIf(condition, code, field) = none
    BY <1>3 DEF IssueIf
  <2>2. none \in Seq(KnownIssues) /\ Range(none) = {} /\ none = << >>
    BY DEF Range
  <2>. HIDE DEF none
  <2>3. Codes(none) = {}
    BY <2>2 DEF Codes
  <2>. QED  BY <1>3, <2>1, <2>2, <2>3
<1>. QED  BY <1>2, <1>3

\* One list after another.
LEMMA CodesOfBoth ==
    ASSUME NEW s \in Seq(KnownIssues), NEW t \in Seq(KnownIssues)
    PROVE  /\ s \o t \in Seq(KnownIssues)
           /\ Codes(s \o t) = Codes(s) \cup Codes(t)
           /\ s \o t = << >> <=> s = << >> /\ t = << >>
<1>1. s \o t \in Seq(KnownIssues)
  BY ConcatProperties
<1>2. s \o t = << >> <=> s = << >> /\ t = << >>
  BY ConcatEqualIffEmpty
<1>3. Range(s \o t) = Range(s) \cup Range(t)
  BY RangeConcatenation
<1>. QED  BY <1>1, <1>2, <1>3 DEF Codes

\* A code is in a list if it has a place there.
LEMMA CodesAreMarked ==
    ASSUME NEW s, NEW code
    PROVE  code \in Codes(s) <=> Marks(s, code) # {}
BY DEF Codes, Marks, Range

\* Issues of other codes behind a list leave the places of a code in it,
LEMMA MarksBefore ==
    ASSUME NEW s \in Seq(KnownIssues), NEW t \in Seq(KnownIssues), NEW code,
           code \notin Codes(t)
    PROVE  Marks(s \o t, code) = Marks(s, code)
<1>1. \A k \in DOMAIN t : t[k].code # code
  BY DEF Codes, Range
<1>2. /\ DOMAIN (s \o t) = 1..(Len(s) + Len(t)) /\ DOMAIN s = 1..Len(s)
      /\ DOMAIN t = 1..Len(t) /\ Len(s) \in Nat /\ Len(t) \in Nat
      /\ \A i \in 1..(Len(s) + Len(t)) :
            (s \o t)[i] = IF i <= Len(s) THEN s[i] ELSE t[i - Len(s)]
  BY ConcatProperties
<1>3. ASSUME NEW i \in 1..(Len(s) + Len(t)), (s \o t)[i].code = code
      PROVE  i \in 1..Len(s) /\ s[i].code = code
  <2>1. CASE i <= Len(s)
    BY <1>2, <1>3, <2>1
  <2>2. CASE ~(i <= Len(s))
    <3>1. i - Len(s) \in 1..Len(t)
      BY <1>2, <2>2
    <3>2. (s \o t)[i] = t[i - Len(s)]
      BY <1>2, <2>2
    <3>. QED  BY <1>1, <1>2, <1>3, <3>1, <3>2
  <2>. QED  BY <2>1, <2>2
<1>4. ASSUME NEW i \in 1..Len(s)
      PROVE  i \in 1..(Len(s) + Len(t)) /\ (s \o t)[i] = s[i]
  BY <1>2
<1>5. \A i : i \in Marks(s \o t, code) <=> i \in Marks(s, code)
  BY <1>2, <1>3, <1>4 DEF Marks
<1>. QED  BY <1>5

\* and issues of other codes before it shift them.
LEMMA MarksBehind ==
    ASSUME NEW s \in Seq(KnownIssues), NEW t \in Seq(KnownIssues), NEW code,
           code \notin Codes(s)
    PROVE  Cardinality(Marks(s \o t, code)) = Cardinality(Marks(t, code))
<1>. DEFINE shift == [k \in Marks(t, code) |-> Len(s) + k]
<1>1. \A k \in DOMAIN s : s[k].code # code
  BY DEF Codes, Range
<1>2. /\ DOMAIN (s \o t) = 1..(Len(s) + Len(t)) /\ DOMAIN s = 1..Len(s)
      /\ DOMAIN t = 1..Len(t) /\ Len(s) \in Nat /\ Len(t) \in Nat
      /\ \A i \in 1..(Len(s) + Len(t)) :
            (s \o t)[i] = IF i <= Len(s) THEN s[i] ELSE t[i - Len(s)]
  BY ConcatProperties
<1>3. ASSUME NEW k \in Marks(t, code)
      PROVE  k \in Nat /\ Len(s) + k \in Marks(s \o t, code)
  <2>1. k \in 1..Len(t) /\ t[k].code = code
    BY <1>2 DEF Marks
  <2>2. /\ Len(s) + k \in 1..(Len(s) + Len(t)) /\ ~(Len(s) + k <= Len(s))
        /\ (Len(s) + k) - Len(s) = k
    BY <1>2, <2>1
  <2>3. (s \o t)[Len(s) + k] = t[k]
    BY <1>2, <2>2
  <2>. QED  BY <1>2, <2>1, <2>2, <2>3 DEF Marks
<1>4. shift \in [Marks(t, code) -> Marks(s \o t, code)]
  BY <1>3
<1>5. ASSUME NEW k \in Marks(t, code), NEW m \in Marks(t, code), shift[k] = shift[m]
      PROVE  k = m
  BY <1>2, <1>3, <1>5
<1>6. ASSUME NEW i \in Marks(s \o t, code)  PROVE \E k \in Marks(t, code) : shift[k] = i
  <2>1. i \in 1..(Len(s) + Len(t)) /\ (s \o t)[i].code = code
    BY <1>2 DEF Marks
  <2>2. ~(i <= Len(s))
    BY <1>1, <1>2, <2>1
  <2>3. i - Len(s) \in 1..Len(t) /\ Len(s) + (i - Len(s)) = i
    BY <1>2, <2>1, <2>2
  <2>4. i - Len(s) \in Marks(t, code)
    BY <1>2, <2>1, <2>2, <2>3 DEF Marks
  <2>. QED  BY <2>3, <2>4
<1>7. IsFiniteSet(Marks(t, code))
  <2>1. Marks(t, code) \subseteq 1..Len(t)
    BY <1>2 DEF Marks
  <2>2. IsFiniteSet(1..Len(t))
    BY <1>2, FS_Interval
  <2>. QED  BY <2>1, <2>2, FS_Subset
<1>. HIDE DEF shift
<1>. QED  BY <1>4, <1>5, <1>6, <1>7, SameSize

-----------------------------------------------------------------------------
\* What each check reports, and when it reports nothing.
LEMMA RequiredFieldsReport ==
    ASSUME NEW c
    PROVE  /\ RequiredFields(c) \in Seq(KnownIssues)
           /\ Codes(RequiredFields(c)) =
                 {x \in {"MISSING_VERTICAL"} : ~HasText(c.vertical)}
                 \cup {x \in {"MISSING_UPSTREAM_TOOL"} : ~HasText(c.upstream_tool)}
                 \cup {x \in {"MISSING_INTERNAL_VERSION"} : ~HasText(c.internal_version)}
                 \cup {x \in {"MISSING_DESCRIPTION"} : ~HasText(c.description)}
                 \cup {x \in {"MISSING_INPUT_SCHEMA"} : c.input_schema.entries = << >>}
           /\ RequiredFields(c) = << >> => c.input_schema.entries # << >>
<1>. DEFINE r1 == IssueIf(~HasText(c.vertical), "MISSING_VERTICAL", "vertical")
            r2 == IssueIf(~HasText(c.upstream_tool), "MISSING_UPSTREAM_TOOL", "upstream_tool")
            r3 == IssueIf(~HasText(c.internal_version),
                          "MISSING_INTERNAL_VERSION", "internal_version")
            r4 == IssueIf(~HasText(c.description), "MISSING_DESCRIPTION", "description")
            r5 == IssueIf(c.input_schema.entries = << >>, "MISSING_INPUT_SCHEMA", "input_schema")
<1>1. /\ <<"MISSING_VERTICAL", "vertical">> \in FieldsOfCodes
      /\ <<"MISSING_UPSTREAM_TOOL", "upstream_tool">> \in FieldsOfCodes
      /\ <<"MISSING_INTERNAL_VERSION", "internal_version">> \in FieldsOfCodes
      /\ <<"MISSING_DESCRIPTION", "description">> \in FieldsOfCodes
      /\ <<"MISSING_INPUT_SCHEMA", "input_schema">> \in FieldsOfCodes
  BY DEF FieldsOfCodes
<1>2. /\ r1 \in Seq(KnownIssues)
      /\ Codes(r1) = {x \in {"MISSING_VERTICAL"} : ~HasText(c.vertical)}
  BY <1>1, OneIssue
<1>3. /\ r2 \in Seq(KnownIssues)
      /\ Codes(r2) = {x \in {"MISSING_UPSTREAM_TOOL"} : ~HasText(c.upstream_tool)}
  BY <1>1, OneIssue
<1>4. /\ r3 \in Seq(KnownIssues)
      /\ Codes(r3) = {x \in {"MISSING_INTERNAL_VERSION"} : ~HasText(c.internal_version)}
  BY <1>1, OneIssue
<1>5. /\ r4 \in Seq(KnownIssues)
      /\ Codes(r4) = {x \in {"MISSING_DESCRIPTION"} : ~HasText(c.description)}
  BY <1>1, OneIssue
<1>6. /\ r5 \in Seq(KnownIssues)
      /\ Codes(r5) = {x \in {"MISSING_INPUT_SCHEMA"} : c.input_schema.entries = << >>}
      /\ r5 = << >> <=> c.input_schema.entries # << >>
  <2>. DEFINE empty == c.input_schema.entries = << >>
              r == IssueIf(empty, "MISSING_INPUT_SCHEMA", "input_schema")
  <2>1. r5 = r
    OBVIOUS
  <2>. HIDE DEF empty, r5
  <2>2. /\ r \in Seq(KnownIssues) /\ Codes(r) = {x \in {"MISSING_INPUT_SCHEMA"} : empty}
        /\ r = << >> <=> ~empty
    BY <1>1, OneIssue
  <2>. HIDE DEF r
  <2>. QED  BY <2>1, <2>2 DEF empty
<1>7. RequiredFields(c) = r1 \o r2 \o r3 \o r4 \o r5
  BY DEF RequiredFields
<1>. HIDE DEF r1, r2, r3, r4, r5
<1>. DEFINE r12 == r1 \o r2
            r123 == r12 \o r3
            r1234 == r123 \o r4
<1>8. r12 \in Seq(KnownIssues) /\ Codes(r12) = Codes(r1) \cup Codes(r2)
  BY <1>2, <1>3, CodesOfBoth
<1>9. RequiredFields(c) = r1234 \o r5
  BY <1>7
<1>. HIDE DEF r12
<1>10. r123 \in Seq(KnownIssues) /\ Codes(r123) = Codes(r12) \cup Codes(r3)
  BY <1>4, <1>8, CodesOfBoth
<1>. HIDE DEF r123
<1>11. r1234 \in Seq(KnownIssues) /\ Codes(r1234) = Codes(r123) \cup Codes(r4)
  BY <1>5, <1>10, CodesOfBoth
<1>. HIDE DEF r1234
<1>12. /\ r1234 \o r5 \in Seq(KnownIssues) /\ Codes(r1234 \o r5) = Codes(r1234) \cup Codes(r5)
       /\ r1234 \o r5 = << >> <=> r1234 = << >> /\ r5 = << >>
  BY <1>6, <1>11, CodesOfBoth
<1>13. Codes(RequiredFields(c))
          = Codes(r1) \cup Codes(r2) \cup Codes(r3) \cup Codes(r4) \cup Codes(r5)
  BY <1>8, <1>9, <1>10, <1>11, <1>12
<1>14. RequiredFields(c) = << >> => c.input_schema.entries # << >>
  BY <1>6, <1>9, <1>12
<1>. QED  BY <1>2, <1>3, <1>4, <1>5, <1>6, <1>9, <1>12, <1>13, <1>14

\* The formats of the names are only complained of where there is a name,
LEMMA IdentityFormatReports ==
    ASSUME NEW c
    PROVE  /\ IdentityFormat(c) \in Seq(KnownIssues)
           /\ Codes(IdentityFormat(c)) =
                 {x \in {"INVALID_VERTICAL_NAME"} :
                     HasText(c.vertical) /\ c.vertical \notin NameTexts}
                 \cup {x \in {"INVALID_UPSTREAM_TOOL_NAME"} :
                     HasText(c.upstream_tool) /\ c.upstream_tool \notin NameTexts}
                 \cup {x \in {"INVALID_INTERNAL_VERSION"} :
                     HasText(c.internal_version) /\ c.internal_version \notin VersionTexts}
<1>. DEFINE r1 == IssueIf(HasText(c.vertical) /\ c.vertical \notin NameTexts,
                          "INVALID_VERTICAL_NAME", "vertical")
            r2 == IssueIf(HasText(c.upstream_tool) /\ c.upstream_tool \notin NameTexts,
                          "INVALID_UPSTREAM_TOOL_NAME", "upstream_tool")
            r3 == IssueIf(HasText(c.internal_version) /\ c.internal_version \notin VersionTexts,
                          "INVALID_INTERNAL_VERSION", "internal_version")
<1>1. /\ <<"INVALID_VERTICAL_NAME", "vertical">> \in FieldsOfCodes
      /\ <<"INVALID_UPSTREAM_TOOL_NAME", "upstream_tool">> \in FieldsOfCodes
      /\ <<"INVALID_INTERNAL_VERSION", "internal_version">> \in FieldsOfCodes
  BY DEF FieldsOfCodes
<1>2. /\ r1 \in Seq(KnownIssues)
      /\ Codes(r1) = {x \in {"INVALID_VERTICAL_NAME"} :
                        HasText(c.vertical) /\ c.vertical \notin NameTexts}
  BY <1>1, OneIssue
<1>3. /\ r2 \in Seq(KnownIssues)
      /\ Codes(r2) = {x \in {"INVALID_UPSTREAM_TOOL_NAME"} :
                        HasText(c.upstream_tool) /\ c.upstream_tool \notin NameTexts}
  BY <1>1, OneIssue
<1>4. /\ r3 \in Seq(KnownIssues)
      /\ Codes(r3) = {x \in {"INVALID_INTERNAL_VERSION"} :
                        HasText(c.internal_version) /\ c.internal_version \notin VersionTexts}
  BY <1>1, OneIssue
<1>5. IdentityFormat(c) = r1 \o r2 \o r3
  BY DEF IdentityFormat
<1>. HIDE DEF r1, r2, r3
<1>. DEFINE r12 == r1 \o r2
<1>6. r12 \in Seq(KnownIssues) /\ Codes(r12) = Codes(r1) \cup Codes(r2)
  BY <1>2, <1>3, CodesOfBoth
<1>7. IdentityFormat(c) = r12 \o r3
  BY <1>5
<1>. HIDE DEF r12
<1>8. r12 \o r3 \in Seq(KnownIssues) /\ Codes(r12 \o r3) = Codes(r12) \cup Codes(r3)
  BY <1>4, <1>6, CodesOfBoth
<1>. QED  BY <1>2, <1>3, <1>4, <1>6, <1>7, <1>8

\* the attestation exactly when it is not given,
LEMMA AttestationReports ==
    ASSUME NEW c
    PROVE  /\ VerticalAttestation(c) \in Seq(KnownIssues)
           /\ Codes(VerticalAttestation(c)) \subseteq {"VERTICAL_MARKED_UNSAFE"}
           /\ VerticalAttestation(c) = << >> <=> c.safe_to_expose
<1>1. <<"VERTICAL_MARKED_UNSAFE", "safe_to_expose">> \in FieldsOfCodes
  BY DEF FieldsOfCodes
<1>2. /\ VerticalAttestation(c) \in Seq(KnownIssues)
      /\ Codes(VerticalAttestation(c)) = {x \in {"VERTICAL_MARKED_UNSAFE"} : ~c.safe_to_expose}
      /\ VerticalAttestation(c) = << >> <=> ~(~c.safe_to_expose)
  BY <1>1, OneIssue DEF VerticalAttestation
<1>. QED  BY <1>2

\* the two term checks exactly when some searched text has a term,
LEMMA TermChecksReport ==
    ASSUME NEW c
    PROVE  /\ UnsafeActions(c) \in Seq(KnownIssues)
           /\ Codes(UnsafeActions(c)) \subseteq {"UNSAFE_ACTION"}
           /\ UnsafeActions(c) = << >> <=> FindTerms(CandidateText(c), UNSAFE_ACTION_TERMS) = {}
           /\ InternalLeakage(c) \in Seq(KnownIssues)
           /\ Codes(InternalLeakage(c)) \subseteq {"INTERNAL_LEAKAGE"}
           /\ InternalLeakage(c) = << >>
                 <=> FindTerms(CandidateText(c), INTERNAL_LEAKAGE_TERMS) = {}
           /\ SensitiveData(c) \in Seq(KnownIssues)
           /\ Codes(SensitiveData(c)) \subseteq {"SENSITIVE_DATA_COLLECTION"}
           /\ SensitiveData(c) = << >>
                 <=> FindTerms(CandidateText(c), SENSITIVE_DATA_TERMS) = {}
<1>. DEFINE Found(terms) == FindTerms(CandidateText(c), terms) # {}
<1>1. /\ <<"UNSAFE_ACTION", "upstream_tool">> \in FieldsOfCodes
      /\ <<"INTERNAL_LEAKAGE", "description">> \in FieldsOfCodes
      /\ <<"SENSITIVE_DATA_COLLECTION", "input_schema">> \in FieldsOfCodes
  BY DEF FieldsOfCodes
<1>2. /\ UnsafeActions(c) = IssueIf(Found(UNSAFE_ACTION_TERMS), "UNSAFE_ACTION", "upstream_tool")
      /\ InternalLeakage(c) = IssueIf(Found(INTERNAL_LEAKAGE_TERMS),
                                      "INTERNAL_LEAKAGE", "description")
      /\ SensitiveData(c) = IssueIf(Found(SENSITIVE_DATA_TERMS),
                                    "SENSITIVE_DATA_COLLECTION", "input_schema")
  BY DEF UnsafeActions, InternalLeakage, SensitiveData
<1>3. /\ UnsafeActions(c) \in Seq(KnownIssues)
      /\ Codes(UnsafeActions(c)) = {x \in {"UNSAFE_ACTION"} : Found(UNSAFE_ACTION_TERMS)}
      /\ UnsafeActions(c) = << >> <=> ~Found(UNSAFE_ACTION_TERMS)
  <2>. HIDE DEF Found
  <2>. QED  BY <1>1, <1>2, OneIssue
<1>4. /\ InternalLeakage(c) \in Seq(KnownIssues)
      /\ Codes(InternalLeakage(c)) = {x \in {"INTERNAL_LEAKAGE"} : Found(INTERNAL_LEAKAGE_TERMS)}
      /\ InternalLeakage(c) = << >> <=> ~Found(INTERNAL_LEAKAGE_TERMS)
  <2>. HIDE DEF Found
  <2>. QED  BY <1>1, <1>2, OneIssue
<1>5. /\ SensitiveData(c) \in Seq(KnownIssues)
      /\ Codes(SensitiveData(c))
            = {x \in {"SENSITIVE_DATA_COLLECTION"} : Found(SENSITIVE_DATA_TERMS)}
      /\ SensitiveData(c) = << >> <=> ~Found(SENSITIVE_DATA_TERMS)
  <2>. HIDE DEF Found
  <2>. QED  BY <1>1, <1>2, OneIssue
<1>6. \A terms : ~Found(terms) <=> FindTerms(CandidateText(c), terms) = {}
  OBVIOUS
<1>. HIDE DEF Found
<1>. QED  BY <1>3, <1>4, <1>5, <1>6

\* and the description only where there is one.
LEMMA DescriptionChecksReport ==
    ASSUME NEW c
    PROVE  /\ DescriptionLength(c) \in Seq(KnownIssues)
           /\ \A x \in Codes(DescriptionLength(c)) :
                 x = "DESCRIPTION_TOO_SHORT" /\ HasText(c.description)
           /\ DescriptionPlaceholder(c) \in Seq(KnownIssues)
           /\ \A x \in Codes(DescriptionPlaceholder(c)) :
                 x = "DESCRIPTION_PLACEHOLDER" /\ HasText(c.description)
<1>1. /\ <<"DESCRIPTION_TOO_SHORT", "description">> \in FieldsOfCodes
      /\ <<"DESCRIPTION_PLACEHOLDER", "description">> \in FieldsOfCodes
  BY DEF FieldsOfCodes
<1>2. /\ DescriptionLength(c) \in Seq(KnownIssues)
      /\ Codes(DescriptionLength(c)) =
            {x \in {"DESCRIPTION_TOO_SHORT"} :
                HasText(c.description) /\ Length[c.description] < 20}
  BY <1>1, OneIssue DEF DescriptionLength
<1>3. /\ DescriptionPlaceholder(c) \in Seq(KnownIssues)
      /\ Codes(DescriptionPlaceholder(c)) =
            {x \in {"DESCRIPTION_PLACEHOLDER"} :
                HasText(c.description) /\ c.description \in PlaceholderTexts}
  BY <1>1, OneIssue DEF DescriptionPlaceholder
<1>. QED  BY <1>2, <1>3

-----------------------------------------------------------------------------
\* What dict.get finds, and that it finds what is there.
LEMMA GetFinds ==
    ASSUME NEW v \in Values, v.kind = "dict", NEW key
    PROVE  /\ Get(v, key) = Absent =>
                 \A i \in 1..Len(v.entries) : v.entries[i].key # key
           /\ Get(v, key) # Absent =>
                 /\ Get(v, key) \in Values
                 /\ \E i \in 1..Len(v.entries) :
                       v.entries[i].key = key /\ v.entries[i].value = Get(v, key)
<1>. DEFINE found == {i \in DOMAIN v.entries : v.entries[i].key = key}
<1>1. /\ DOMAIN v.entries = 1..Len(v.entries)
      /\ \A i \in 1..Len(v.entries) : v.entries[i].value \in Values
  BY DictType, ValuesAssumption
<1>2. Get(v, key) = IF found = {} THEN Absent ELSE v.entries[CHOOSE i \in found : TRUE].value
  BY DEF Get
<1>3. \A w \in Values : w # Absent
  <2>1. \A w \in Values : w.kind # "absent"
    BY ValuesAreTrees
  <2>. QED  BY <2>1 DEF Absent
<1>4. CASE found = {}
  BY <1>1, <1>2, <1>4
<1>5. CASE found # {}
  <2>. DEFINE i == CHOOSE i \in found : TRUE
  <2>1. i \in found
    BY <1>5
  <2>2. Get(v, key) = v.entries[i].value
    BY <1>2, <1>5
  <2>. HIDE DEF i
  <2>3. i \in 1..Len(v.entries) /\ v.entries[i].key = key
    BY <1>1, <2>1
  <2>. QED  BY <1>1, <1>3, <2>2, <2>3
<1>. QED  BY <1>4, <1>5

-----------------------------------------------------------------------------
\* What is reported of one required field.
FieldIssues(schema, field) ==
    IssueIf(field.kind # "text", "SCHEMA_REQUIRED_FIELD_INVALID", "input_schema.required")
    \o IssueIf(field.kind = "text" /\ field.text \notin PropertyNames(schema),
               "SCHEMA_REQUIRED_FIELD_NOT_DEFINED", "input_schema.required")

Undefined(schema, field) == field.kind = "text" /\ field.text \notin PropertyNames(schema)

\* One issue, or none.
LEMMA FieldReport ==
    ASSUME NEW schema, NEW field
    PROVE  /\ FieldIssues(schema, field) \in Seq(KnownIssues)
           /\ Codes(FieldIssues(schema, field)) \subseteq
                 {"SCHEMA_REQUIRED_FIELD_INVALID", "SCHEMA_REQUIRED_FIELD_NOT_DEFINED"}
           /\ FieldIssues(schema, field) = << >>
                 <=> field.kind = "text" /\ field.text \in PropertyNames(schema)
           /\ Undefined(schema, field) =>
                 /\ Len(FieldIssues(schema, field)) = 1
                 /\ FieldIssues(schema, field)[1].code = "SCHEMA_REQUIRED_FIELD_NOT_DEFINED"
           /\ \A k \in 1..Len(FieldIssues(schema, field)) :
                 FieldIssues(schema, field)[k].code = "SCHEMA_REQUIRED_FIELD_NOT_DEFINED"
                    => k = 1 /\ Undefined(schema, field)
<1>. DEFINE invalid == field.kind # "text"
            r1 == IssueIf(invalid, "SCHEMA_REQUIRED_FIELD_INVALID", "input_schema.required")
            r2 == IssueIf(Undefined(schema, field),
                          "SCHEMA_REQUIRED_FIELD_NOT_DEFINED", "input_schema.required")
            bad == Issue("SCHEMA_REQUIRED_FIELD_INVALID", "input_schema.required")
            lost == Issue("SCHEMA_REQUIRED_FIELD_NOT_DEFINED", "input_schema.required")
<1>1. /\ <<"SCHEMA_REQUIRED_FIELD_INVALID", "input_schema.required">> \in FieldsOfCodes
      /\ <<"SCHEMA_REQUIRED_FIELD_NOT_DEFINED", "input_schema.required">> \in FieldsOfCodes
  BY DEF FieldsOfCodes
<1>2. /\ r1 \in Seq(KnownIssues)
      /\ Codes(r1) = {x \in {"SCHEMA_REQUIRED_FIELD_INVALID"} : invalid}
      /\ r1 = << >> <=> ~invalid
  <2>. HIDE DEF invalid
  <2>. QED  BY <1>1, OneIssue
<1>3. /\ r2 \in Seq(KnownIssues)
      /\ Codes(r2) = {x \in {"SCHEMA_REQUIRED_FIELD_NOT_DEFINED"} : Undefined(schema, field)}
      /\ r2 = << >> <=> ~Undefined(schema, field)
  BY <1>1, OneIssue
<1>4. FieldIssues(schema, field) = r1 \o r2
  BY DEF FieldIssues, Undefined
<1>5. /\ bad \in KnownIssues /\ bad.code = "SCHEMA_REQUIRED_FIELD_INVALID"
      /\ lost \in KnownIssues /\ lost.code = "SCHEMA_REQUIRED_FIELD_NOT_DEFINED"
  BY <1>1 DEF KnownIssues, Issue
<1>6. (invalid => r1 = <<bad>>) /\ (Undefined(schema, field) => r2 = <<lost>>)
  BY DEF IssueIf
<1>7. Undefined(schema, field) => ~invalid
  BY DEF Undefined
<1>8. ~invalid /\ ~Undefined(schema, field)
         <=> field.kind = "text" /\ field.text \in PropertyNames(schema)
  BY DEF Undefined
<1>. HIDE DEF invalid, r1, r2, bad, lost
<1>9. /\ r1 \o r2 \in Seq(KnownIssues) /\ Codes(r1 \o r2) = Codes(r1) \cup Codes(r2)
      /\ r1 \o r2 = << >> <=> r1 = << >> /\ r2 = << >>
  BY <1>2, <1>3, CodesOfBoth
<1>10. \/ invalid /\ r1 \o r2 = <<bad>>
       \/ ~invalid /\ Undefined(schema, field) /\ r1 \o r2 = <<lost>>
       \/ ~invalid /\ ~Undefined(schema, field) /\ r1 \o r2 = << >>
  <2>1. CASE invalid
    <3>1. r2 = << >> /\ r1 = <<bad>>
      BY <1>3, <1>6, <1>7, <2>1
    <3>. QED  BY <1>2, <2>1, <3>1, ConcatEmptySeq
  <2>2. CASE ~invalid
    <3>1. r1 \o r2 = r2
      BY <1>2, <1>3, <2>2, ConcatEmptySeq
    <3>. QED  BY <1>3, <1>6, <2>2, <3>1
  <2>. QED  BY <2>1, <2>2
<1>11. /\ Len(<<lost>>) = 1 /\ <<lost>>[1] = lost /\ Len(<<bad>>) = 1 /\ <<bad>>[1] = bad
       /\ Len(<< >>) = 0
  OBVIOUS
<1>12. Undefined(schema, field) => Len(r1 \o r2) = 1 /\ (r1 \o r2)[1] = lost
  BY <1>7, <1>10, <1>11
<1>13. ASSUME NEW k \in 1..Len(r1 \o r2),
              (r1 \o r2)[k].code = "SCHEMA_REQUIRED_FIELD_NOT_DEFINED"
       PROVE  k = 1 /\ Undefined(schema, field)
  <2>. DEFINE both == r1 \o r2
  <2>1. CASE invalid /\ both = <<bad>>
    <3>1. k = 1 /\ both[1] = bad
      BY <1>11, <1>13, <2>1
    <3>. QED  BY <1>5, <1>13, <3>1
  <2>2. CASE Undefined(schema, field) /\ both = <<lost>>
    <3>1. Len(both) = 1 /\ k \in 1..Len(both)
      BY <1>11, <2>2
    <3>. QED  BY <2>2, <3>1
  <2>3. CASE both = << >>
    <3>1. Len(both) = 0 /\ k \in 1..Len(both)
      BY <1>11, <2>3
    <3>. QED  BY <3>1
  <2>. QED  BY <1>10, <2>1, <2>2, <2>3
<1>. QED  BY <1>2, <1>3, <1>4, <1>5, <1>8, <1>9, <1>12, <1>13

\* The required fields that are not among the properties.
UndefinedFields(schema) ==
    LET required == Get(schema, "required") IN
    IF required.kind # "list" THEN {}
    ELSE {k \in DOMAIN required.items : Undefined(schema, required.items[k])}

\* What the required list of a schema is reported for: one issue for each
\* field that is not defined, and none only if all are.
LEMMA RequiredReport ==
    ASSUME NEW schema \in Values, schema.kind = "dict"
    PROVE  /\ RequiredIssues(schema) \in Seq(KnownIssues)
           /\ Codes(RequiredIssues(schema)) \subseteq
                 {"SCHEMA_REQUIRED_NOT_LIST", "SCHEMA_REQUIRED_FIELD_INVALID",
                  "SCHEMA_REQUIRED_FIELD_NOT_DEFINED"}
           /\ RequiredIssues(schema) = << >> =>
                 LET required == Get(schema, "required") IN
                 required # Absent =>
                    /\ required.kind = "list"
                    /\ \A k \in DOMAIN required.items :
                          /\ required.items[k].kind = "text"
                          /\ required.items[k].text \in PropertyNames(schema)
           /\ Cardinality(Marks(RequiredIssues(schema), "SCHEMA_REQUIRED_FIELD_NOT_DEFINED"))
                 = Cardinality(UndefinedFields(schema))
<1>. DEFINE required == Get(schema, "required")
            code == "SCHEMA_REQUIRED_FIELD_NOT_DEFINED"
<1>1. CASE required = Absent
  <2>1. RequiredIssues(schema) = << >>
    BY <1>1 DEF RequiredIssues
  <2>2. UndefinedFields(schema) = {}
    BY <1>1 DEF UndefinedFields, Absent
  <2>. DEFINE none == << >>
  <2>3. none \in Seq(KnownIssues) /\ Codes(none) = {} /\ Marks(none, code) = {}
    BY DEF Codes, Marks, Range
  <2>. HIDE DEF none
  <2>. QED  BY <1>1, <2>1, <2>2, <2>3 DEF none
<1>2. CASE required # Absent /\ required.kind # "list"
  <2>. DEFINE one == <<Issue("SCHEMA_REQUIRED_NOT_LIST", "input_schema.required")>>
  <2>1. RequiredIssues(schema) = one
    BY <1>2 DEF RequiredIssues
  <2>2. UndefinedFields(schema) = {}
    BY <1>2 DEF UndefinedFields
  <2>3. <<"SCHEMA_REQUIRED_NOT_LIST", "input_schema.required">> \in FieldsOfCodes
    BY DEF FieldsOfCodes
  <2>4. /\ Issue("SCHEMA_REQUIRED_NOT_LIST", "input_schema.required") \in KnownIssues
        /\ Issue("SCHEMA_REQUIRED_NOT_LIST", "input_schema.required").code
              = "SCHEMA_REQUIRED_NOT_LIST"
    BY <2>3 DEF KnownIssues, Issue
  <2>5. /\ one \in Seq(KnownIssues) /\ one # << >>
        /\ \A i \in DOMAIN one : one[i].code = "SCHEMA_REQUIRED_NOT_LIST"
    BY <2>4
  <2>. HIDE DEF one
  <2>6. Codes(one) \subseteq {"SCHEMA_REQUIRED_NOT_LIST"} /\ Marks(one, code) = {}
    BY <2>5 DEF Codes, Marks, Range
  <2>. QED  BY <2>1, <2>2, <2>5, <2>6
<1>3. CASE required # Absent /\ required.kind = "list"
  <2>. DEFINE items == required.items
              n == Len(items)
              s == [i \in DOMAIN items |-> FieldIssues(schema, items[i])]
              F == FlattenSeq(s)
  <2>1. required \in Values
    BY <1>3, GetFinds
  <2>2. DOMAIN items = 1..n /\ n \in Nat
    BY <1>3, <2>1, ListType, ValuesAssumption
  <2>3. s \in Seq(Seq(KnownIssues)) /\ Len(s) = n
    <3>. DEFINE R == Seq(KnownIssues)
    <3>1. \A i \in 1..n : FieldIssues(schema, items[i]) \in R
      BY FieldReport
    <3>2. s \in [1..n -> R]
      BY <2>2, <3>1
    <3>. HIDE DEF R, s, n
    <3>3. s \in Seq(R) /\ Len(s) = n
      BY <2>2, <3>2
    <3>. QED  BY <3>3 DEF R
  <2>4. RequiredIssues(schema) = F
    BY <1>3 DEF RequiredIssues, FieldIssues
  <2>5. \A i \in 1..n : s[i] = FieldIssues(schema, items[i])
    BY <2>2
  <2>6. UndefinedFields(schema) = {i \in 1..n : Undefined(schema, items[i])}
    BY <1>3, <2>2 DEF UndefinedFields
  <2>. HIDE DEF items, s, F, n
  <2>7. PICK pos : /\ OneToOne(pos, 1..Len(FlattenSeq(s)), Positions(s))
                   /\ \A m \in 1..Len(FlattenSeq(s)) :
                         FlattenSeq(s)[m] = s[pos[m][1]][pos[m][2]]
    BY <2>3, FlattenPositions
  <2>8. F \in Seq(KnownIssues) /\ DOMAIN F = 1..Len(F) /\ Len(F) \in Nat
    <3>1. F \in Seq(KnownIssues)
      BY <2>3, FlattenPositions DEF F
    <3>. QED  BY <3>1
  <2>9. ASSUME NEW m \in 1..Len(F)
        PROVE  \E i \in 1..n : \E k \in 1..Len(FieldIssues(schema, items[i])) :
                  pos[m] = <<i, k>> /\ F[m] = FieldIssues(schema, items[i])[k]
    <3>1. pos[m] \in Positions(s)
      BY <2>7 DEF OneToOne, F
    <3>2. PICK i \in 1..Len(s) : \E k \in 1..Len(s[i]) : pos[m] = <<i, k>>
      BY <3>1, PositionIs
    <3>3. PICK k \in 1..Len(s[i]) : pos[m] = <<i, k>>
      BY <3>2
    <3>4. F[m] = s[i][k]
      BY <2>7, <3>3 DEF F
    <3>. QED  BY <2>3, <2>5, <3>3, <3>4
  <2>10. Codes(F) \subseteq {"SCHEMA_REQUIRED_FIELD_INVALID", "SCHEMA_REQUIRED_FIELD_NOT_DEFINED"}
    <3>1. ASSUME NEW m \in 1..Len(F)
          PROVE  F[m].code \in {"SCHEMA_REQUIRED_FIELD_INVALID",
                                "SCHEMA_REQUIRED_FIELD_NOT_DEFINED"}
      <4>1. PICK i \in 1..n : \E k \in 1..Len(FieldIssues(schema, items[i])) :
                  pos[m] = <<i, k>> /\ F[m] = FieldIssues(schema, items[i])[k]
        BY <2>9
      <4>. DEFINE r == FieldIssues(schema, items[i])
      <4>2. PICK k \in 1..Len(r) : F[m] = r[k]
        BY <4>1
      <4>3. r \in Seq(KnownIssues) /\ Codes(r) \subseteq
               {"SCHEMA_REQUIRED_FIELD_INVALID", "SCHEMA_REQUIRED_FIELD_NOT_DEFINED"}
        BY FieldReport
      <4>. HIDE DEF r
      <4>4. r[k] \in Range(r)
        BY <4>3 DEF Range
      <4>5. r[k].code \in Codes(r)
        BY <4>4 DEF Codes
      <4>. QED  BY <4>2, <4>3, <4>5
    <3>. QED  BY <2>8, <3>1 DEF Codes, Range
  <2>11. F = << >> => \A i \in 1..n : items[i].kind = "text"
                                       /\ items[i].text \in PropertyNames(schema)
    <3>1. ASSUME F = << >>, NEW i \in 1..n
          PROVE  items[i].kind = "text" /\ items[i].text \in PropertyNames(schema)
      <4>1. s[i] \in Seq(KnownIssues)
        BY <2>3
      <4>2. \A k \in 1..Len(s[i]) : FALSE
        <5>1. \A k \in 1..Len(s[i]) : s[i][k] \in Range(F)
          BY <2>3, FlattenKeepsAll DEF F
        <5>2. Range(F) = {}
          BY <3>1 DEF Range
        <5>. QED  BY <5>1, <5>2
      <4>3. s[i] = << >>
        BY <4>1, <4>2
      <4>. QED  BY <2>5, <4>3, FieldReport
    <3>. QED  BY <3>1
  <2>12. Cardinality(Marks(F, code)) = Cardinality(UndefinedFields(schema))
    <3>. DEFINE which == [m \in Marks(F, code) |-> pos[m][1]]
    <3>1. ASSUME NEW m \in Marks(F, code)
          PROVE  m \in 1..Len(F) /\ pos[m] = <<pos[m][1], 1>>
                 /\ pos[m][1] \in UndefinedFields(schema)
      <4>1. m \in 1..Len(F) /\ F[m].code = code
        BY <2>8 DEF Marks
      <4>2. PICK i \in 1..n : \E k \in 1..Len(FieldIssues(schema, items[i])) :
                  pos[m] = <<i, k>> /\ F[m] = FieldIssues(schema, items[i])[k]
        BY <2>9, <4>1
      <4>3. PICK k \in 1..Len(FieldIssues(schema, items[i])) :
                  pos[m] = <<i, k>> /\ F[m] = FieldIssues(schema, items[i])[k]
        BY <4>2
      <4>4. k = 1 /\ Undefined(schema, items[i])
        BY <4>1, <4>3, FieldReport
      <4>. QED  BY <2>6, <4>1, <4>3, <4>4
    <3>2. which \in [Marks(F, code) -> UndefinedFields(schema)]
      BY <3>1
    <3>3. ASSUME NEW m \in Marks(F, code), NEW q \in Marks(F, code), which[m] = which[q]
          PROVE  m = q
      <4>1. pos[m] = pos[q]
        BY <3>1, <3>3
      <4>. QED  BY <2>7, <3>1, <4>1 DEF OneToOne, F
    <3>4. ASSUME NEW i \in UndefinedFields(schema)
          PROVE  \E m \in Marks(F, code) : which[m] = i
      <4>1. i \in 1..n /\ Undefined(schema, items[i])
        BY <2>6
      <4>2. Len(s[i]) = 1 /\ s[i][1].code = code
        BY <2>5, <4>1, FieldReport
      <4>3. <<i, 1>> \in Positions(s)
        <5>1. 1 \in 1..Len(s[i]) /\ i \in 1..Len(s)
          BY <2>3, <4>1, <4>2
        <5>. QED  BY <5>1, PositionIs
      <4>4. PICK m \in 1..Len(F) : pos[m] = <<i, 1>>
        BY <2>7, <4>3 DEF OneToOne, F
      <4>5. F[m].code = code
        BY <2>7, <4>2, <4>4 DEF F
      <4>6. m \in Marks(F, code)
        BY <2>8, <4>5 DEF Marks
      <4>. QED  BY <4>4, <4>6
    <3>5. IsFiniteSet(Marks(F, code))
      <4>1. Marks(F, code) \subseteq 1..Len(F)
        BY <2>8 DEF Marks
      <4>2. IsFiniteSet(1..Len(F))
        BY <2>8, FS_Interval
      <4>. QED  BY <4>1, <4>2, FS_Subset
    <3>. HIDE DEF which
    <3>. QED  BY <3>2, <3>3, <3>4, <3>5, SameSize
  <2>13. /\ RequiredIssues(schema) \in Seq(KnownIssues)
         /\ Codes(RequiredIssues(schema)) \subseteq
                 {"SCHEMA_REQUIRED_NOT_LIST", "SCHEMA_REQUIRED_FIELD_INVALID",
                  "SCHEMA_REQUIRED_FIELD_NOT_DEFINED"}
    BY <2>4, <2>8, <2>10
  <2>14. RequiredIssues(schema) = << >> =>
            /\ required.kind = "list"
            /\ \A k \in DOMAIN required.items :
                  /\ required.items[k].kind = "text"
                  /\ required.items[k].text \in PropertyNames(schema)
    BY <1>3, <2>2, <2>4, <2>11 DEF items
  <2>. QED  BY <2>4, <2>12, <2>13, <2>14
<1>. QED  BY <1>1, <1>2, <1>3

-----------------------------------------------------------------------------
\* There is one issue for every place of a prohibited key.
LEMMA CompositionReport ==
    ASSUME NEW schema \in Values
    PROVE  /\ CompositionIssues(schema) \in Seq(KnownIssues)
           /\ Codes(CompositionIssues(schema)) \subseteq {"SCHEMA_COMPOSITION_NOT_ALLOWED"}
           /\ Cardinality(Marks(CompositionIssues(schema), "SCHEMA_COMPOSITION_NOT_ALLOWED"))
                 = Cardinality(ProhibitedPlaces(schema))
           /\ CompositionIssues(schema) = << >> => ProhibitedPlaces(schema) = {}
<1>. DEFINE found == FoundKeys(schema)
            n == Len(found)
            comp == Issue("SCHEMA_COMPOSITION_NOT_ALLOWED", "input_schema")
            list == [i \in 1..n |-> comp]
<1>1. n \in Nat /\ DOMAIN found = 1..n
  <2>1. found \in Seq(Strings)
    BY KeysEquation DEF FoundKeys
  <2>. QED  BY <2>1
<1>2. IsFiniteSet(ProhibitedPlaces(schema)) /\ Cardinality(ProhibitedPlaces(schema)) = n
  <2>1. Counts(n, ProhibitedPlaces(schema))
    BY PlacesAreCounted
  <2>. HIDE DEF n
  <2>. QED  BY <1>1, <2>1, CountedSize
<1>3. CompositionIssues(schema) = list
  BY <1>1 DEF CompositionIssues, FoundKeys
<1>4. comp \in KnownIssues /\ comp.code = "SCHEMA_COMPOSITION_NOT_ALLOWED"
  <2>1. <<"SCHEMA_COMPOSITION_NOT_ALLOWED", "input_schema">> \in FieldsOfCodes
    BY DEF FieldsOfCodes
  <2>. QED  BY <2>1 DEF KnownIssues, Issue
<1>. HIDE DEF comp, n, found
<1>5. /\ list \in Seq(KnownIssues) /\ DOMAIN list = 1..n /\ Len(list) = n
      /\ \A i \in 1..n : list[i] = comp
  BY <1>1, <1>4
<1>. HIDE DEF list
<1>6. /\ Codes(list) \subseteq {"SCHEMA_COMPOSITION_NOT_ALLOWED"}
      /\ Marks(list, "SCHEMA_COMPOSITION_NOT_ALLOWED") = 1..n
  BY <1>4, <1>5 DEF Codes, Marks, Range
<1>7. Cardinality(1..n) = n
  BY <1>1, FS_Interval
<1>8. list = << >> => n = 0
  BY <1>5
<1>9. n = 0 => ProhibitedPlaces(schema) = {}
  BY <1>2, FS_EmptySet
<1>. QED  BY <1>2, <1>3, <1>5, <1>6, <1>7, <1>8, <1>9

\* The codes of the last check.
SchemaCodes ==
    {"INVALID_JSON_SCHEMA", "SCHEMA_TOP_LEVEL_NOT_OBJECT", "SCHEMA_MISSING_PROPERTIES",
     "SCHEMA_REQUIRED_NOT_LIST", "SCHEMA_REQUIRED_FIELD_INVALID",
     "SCHEMA_REQUIRED_FIELD_NOT_DEFINED", "SCHEMA_COMPOSITION_NOT_ALLOWED"}

\* A dict without entries has no faults below it.
LEMMA EmptySchema ==
    ASSUME NEW schema \in Values, schema.kind = "dict", schema.entries = << >>
    PROVE  ProhibitedPlaces(schema) = {} /\ UndefinedFields(schema) = {}
<1>1. Len(schema.entries) = 0 /\ Len(Parts(schema)) = 0
  BY DictType, ValuesAssumption
<1>2. ASSUME NEW path, NEW key, <<path, key>> \in KeyPlaces(schema)  PROVE FALSE
  <2>1. \/ \E i \in 1..Len(schema.entries) : schema.entries[i].key = key
        \/ \E i \in 1..Len(Parts(schema)) : \E rest \in Seq(Nat) :
              path = <<i>> \o rest /\ <<rest, key>> \in KeyPlaces(Parts(schema)[i])
    <3>1. \A p, k : <<p, k>> \in KeyPlaces(schema) <=>
              \/ /\ schema.kind = "dict" /\ p = << >>
                 /\ \E i \in 1..Len(schema.entries) : schema.entries[i].key = k
              \/ \E i \in 1..Len(Parts(schema)) : \E rest \in Seq(Nat) :
                    p = <<i>> \o rest /\ <<rest, k>> \in KeyPlaces(Parts(schema)[i])
      BY KeyPlacesOf, Zenon
    <3>. QED  BY <1>2, <3>1
  <2>2. 1..Len(schema.entries) = {} /\ 1..Len(Parts(schema)) = {}
    BY <1>1
  <2>. QED  BY <2>1, <2>2
<1>3. KeyPlaces(schema) = {}
  BY <1>2, KeyPlacesType
<1>4. Get(schema, "required") = Absent
  <2>1. \A i \in 1..Len(schema.entries) : FALSE
    BY <1>1
  <2>. QED  BY <2>1, GetFinds
<1>. QED  BY <1>3, <1>4 DEF ProhibitedPlaces, UndefinedFields, Absent

\* What the whole check of a schema reports.
LEMMA InputSchemaReport ==
    ASSUME NEW c \in CandidateTool
    PROVE  /\ InputSchema(c) \in Seq(KnownIssues)
           /\ Codes(InputSchema(c)) \subseteq SchemaCodes
           /\ c.input_schema.entries = << >> => Codes(InputSchema(c)) = {}
           /\ c.input_schema.entries # << >> /\ InputSchema(c) = << >> =>
                 /\ CheckSchema(c.input_schema)
                 /\ IsTypeObject(Get(c.input_schema, "type"))
                 /\ HasProperties(c.input_schema)
                 /\ RequiredIssues(c.input_schema) = << >>
                 /\ CompositionIssues(c.input_schema) = << >>
           /\ Cardinality(Marks(InputSchema(c), "SCHEMA_COMPOSITION_NOT_ALLOWED"))
                 = Cardinality(ProhibitedPlaces(c.input_schema))
           /\ Cardinality(Marks(InputSchema(c), "SCHEMA_REQUIRED_FIELD_NOT_DEFINED"))
                 = Cardinality(UndefinedFields(c.input_schema))
<1>. DEFINE schema == c.input_schema
            r1 == IssueIf(~CheckSchema(schema), "INVALID_JSON_SCHEMA", "input_schema")
            r2 == IssueIf(~IsTypeObject(Get(schema, "type")),
                          "SCHEMA_TOP_LEVEL_NOT_OBJECT", "input_schema.type")
            r3 == IssueIf(~HasProperties(schema),
                          "SCHEMA_MISSING_PROPERTIES", "input_schema.properties")
            r4 == RequiredIssues(schema)
            r5 == CompositionIssues(schema)
            lost == "SCHEMA_REQUIRED_FIELD_NOT_DEFINED"
            comp == "SCHEMA_COMPOSITION_NOT_ALLOWED"
<1>1. schema \in Values /\ schema.kind = "dict"
  BY DEF CandidateTool
<1>2. CASE schema.entries = << >>
  <2>. DEFINE none == << >>
  <2>1. InputSchema(c) = none
    BY <1>2 DEF InputSchema
  <2>2. none \in Seq(KnownIssues) /\ Codes(none) = {} /\ Marks(none, lost) = {}
        /\ Marks(none, comp) = {}
    BY DEF Codes, Marks, Range
  <2>3. ProhibitedPlaces(schema) = {} /\ UndefinedFields(schema) = {}
    BY <1>1, <1>2, EmptySchema
  <2>. HIDE DEF none
  <2>. QED  BY <1>2, <2>1, <2>2, <2>3
<1>3. CASE schema.entries # << >>
  <2>1. /\ <<"INVALID_JSON_SCHEMA", "input_schema">> \in FieldsOfCodes
        /\ <<"SCHEMA_TOP_LEVEL_NOT_OBJECT", "input_schema.type">> \in FieldsOfCodes
        /\ <<"SCHEMA_MISSING_PROPERTIES", "input_schema.properties">> \in FieldsOfCodes
    BY DEF FieldsOfCodes
  <2>2. /\ r1 \in Seq(KnownIssues) /\ Codes(r1) \subseteq {"INVALID_JSON_SCHEMA"}
        /\ r1 = << >> => CheckSchema(schema)
    <3>. DEFINE fault == ~CheckSchema(schema)
                r == IssueIf(fault, "INVALID_JSON_SCHEMA", "input_schema")
    <3>1. r1 = r
      OBVIOUS
    <3>2. ~fault => CheckSchema(schema)
      OBVIOUS
    <3>. HIDE DEF fault, r1
    <3>3. /\ r \in Seq(KnownIssues) /\ Codes(r) = {x \in {"INVALID_JSON_SCHEMA"} : fault}
          /\ r = << >> <=> ~fault
      BY <2>1, OneIssue
    <3>. HIDE DEF r
    <3>. QED  BY <3>1, <3>2, <3>3
  <2>3. /\ r2 \in Seq(KnownIssues) /\ Codes(r2) \subseteq {"SCHEMA_TOP_LEVEL_NOT_OBJECT"}
        /\ r2 = << >> => IsTypeObject(Get(schema, "type"))
    <3>. DEFINE fault == ~IsTypeObject(Get(schema, "type"))
                r == IssueIf(fault, "SCHEMA_TOP_LEVEL_NOT_OBJECT", "input_schema.type")
    <3>1. r2 = r
      OBVIOUS
    <3>2. ~fault => IsTypeObject(Get(schema, "type"))
      OBVIOUS
    <3>. HIDE DEF fault, r2
    <3>3. /\ r \in Seq(KnownIssues)
          /\ Codes(r) = {x \in {"SCHEMA_TOP_LEVEL_NOT_OBJECT"} : fault}
          /\ r = << >> <=> ~fault
      BY <2>1, OneIssue
    <3>. HIDE DEF r
    <3>. QED  BY <3>1, <3>2, <3>3
  <2>4. /\ r3 \in Seq(KnownIssues) /\ Codes(r3) \subseteq {"SCHEMA_MISSING_PROPERTIES"}
        /\ r3 = << >> => HasProperties(schema)
    <3>. DEFINE fault == ~HasProperties(schema)
                r == IssueIf(fault, "SCHEMA_MISSING_PROPERTIES", "input_schema.properties")
    <3>1. r3 = r
      OBVIOUS
    <3>2. ~fault => HasProperties(schema)
      OBVIOUS
    <3>. HIDE DEF fault, r3
    <3>3. /\ r \in Seq(KnownIssues)
          /\ Codes(r) = {x \in {"SCHEMA_MISSING_PROPERTIES"} : fault}
          /\ r = << >> <=> ~fault
      BY <2>1, OneIssue
    <3>. HIDE DEF r
    <3>. QED  BY <3>1, <3>2, <3>3
  <2>5. /\ r4 \in Seq(KnownIssues)
        /\ Codes(r4) \subseteq
              {"SCHEMA_REQUIRED_NOT_LIST", "SCHEMA_REQUIRED_FIELD_INVALID", lost}
        /\ Cardinality(Marks(r4, lost)) = Cardinality(UndefinedFields(schema))
    BY <1>1, RequiredReport
  <2>6. /\ r5 \in Seq(KnownIssues) /\ Codes(r5) \subseteq {comp}
        /\ Cardinality(Marks(r5, comp)) = Cardinality(ProhibitedPlaces(schema))
    BY <1>1, CompositionReport
  <2>7. InputSchema(c) = r1 \o r2 \o r3 \o r4 \o r5
    BY <1>3 DEF InputSchema
  <2>. HIDE DEF r1, r2, r3, r4, r5
  <2>8. /\ r1 \o r2 \in Seq(KnownIssues) /\ Codes(r1 \o r2) = Codes(r1) \cup Codes(r2)
        /\ r1 \o r2 = << >> <=> r1 = << >> /\ r2 = << >>
    BY <2>2, <2>3, CodesOfBoth
  <2>. DEFINE r12 == r1 \o r2
              r123 == r12 \o r3
              r1234 == r123 \o r4
  <2>9. /\ r123 \in Seq(KnownIssues)
        /\ Codes(r123) = Codes(r1) \cup Codes(r2) \cup Codes(r3)
        /\ r123 = << >> <=> r1 = << >> /\ r2 = << >> /\ r3 = << >>
    <3>1. /\ r12 \in Seq(KnownIssues) /\ Codes(r12) = Codes(r1) \cup Codes(r2)
          /\ r12 = << >> <=> r1 = << >> /\ r2 = << >>
      BY <2>8
    <3>. HIDE DEF r12
    <3>2. /\ r12 \o r3 \in Seq(KnownIssues) /\ Codes(r12 \o r3) = Codes(r12) \cup Codes(r3)
          /\ r12 \o r3 = << >> <=> r12 = << >> /\ r3 = << >>
      BY <2>4, <3>1, CodesOfBoth
    <3>. QED  BY <3>1, <3>2
  <2>10. InputSchema(c) = r1234 \o r5
    BY <2>7
  <2>. HIDE DEF r123
  <2>11. /\ r1234 \in Seq(KnownIssues) /\ Codes(r1234) = Codes(r123) \cup Codes(r4)
         /\ r1234 = << >> <=> r123 = << >> /\ r4 = << >>
    BY <2>5, <2>9, CodesOfBoth
  <2>12. lost \notin Codes(r123) /\ lost \notin Codes(r5) /\ comp \notin Codes(r1234)
    <3>1. Codes(r123) \subseteq {"INVALID_JSON_SCHEMA", "SCHEMA_TOP_LEVEL_NOT_OBJECT",
                                "SCHEMA_MISSING_PROPERTIES"}
      BY <2>2, <2>3, <2>4, <2>9
    <3>2. lost \notin Codes(r123)
      BY <3>1
    <3>3. lost \notin Codes(r5)
      BY <2>6
    <3>4. comp \notin Codes(r123)
      BY <3>1
    <3>5. comp \notin Codes(r4)
      BY <2>5
    <3>. QED  BY <2>11, <3>2, <3>3, <3>4, <3>5
  <2>13. Cardinality(Marks(r1234, lost)) = Cardinality(Marks(r4, lost))
    BY <2>5, <2>9, <2>12, MarksBehind
  <2>. HIDE DEF r1234
  <2>14. /\ r1234 \o r5 \in Seq(KnownIssues)
         /\ Codes(r1234 \o r5) = Codes(r1234) \cup Codes(r5)
         /\ r1234 \o r5 = << >> <=> r1234 = << >> /\ r5 = << >>
    BY <2>6, <2>11, CodesOfBoth
  <2>15. Marks(r1234 \o r5, lost) = Marks(r1234, lost)
    BY <2>6, <2>11, <2>12, MarksBefore
  <2>16. Cardinality(Marks(r1234 \o r5, comp)) = Cardinality(Marks(r5, comp))
    BY <2>6, <2>11, <2>12, MarksBehind
  <2>17. Codes(InputSchema(c)) \subseteq SchemaCodes
    <3>1. Codes(r1) \subseteq SchemaCodes /\ Codes(r2) \subseteq SchemaCodes
          /\ Codes(r3) \subseteq SchemaCodes
      BY <2>2, <2>3, <2>4 DEF SchemaCodes
    <3>2. Codes(r4) \subseteq SchemaCodes /\ Codes(r5) \subseteq SchemaCodes
      BY <2>5, <2>6 DEF SchemaCodes
    <3>. QED  BY <2>9, <2>10, <2>11, <2>14, <3>1, <3>2
  <2>18. InputSchema(c) = << >> =>
            /\ CheckSchema(schema) /\ IsTypeObject(Get(schema, "type")) /\ HasProperties(schema)
            /\ r4 = << >> /\ r5 = << >>
    BY <2>2, <2>3, <2>4, <2>9, <2>10, <2>11, <2>14
  <2>19. InputSchema(c) \in Seq(KnownIssues)
    BY <2>10, <2>14
  <2>20. Cardinality(Marks(InputSchema(c), comp)) = Cardinality(ProhibitedPlaces(schema))
    <3>1. Cardinality(Marks(InputSchema(c), comp)) = Cardinality(Marks(r5, comp))
      BY <2>10, <2>16
    <3>. QED  BY <2>6, <3>1
  <2>21. Cardinality(Marks(InputSchema(c), lost)) = Cardinality(UndefinedFields(schema))
    <3>1. Marks(InputSchema(c), lost) = Marks(r1234, lost)
      BY <2>10, <2>15
    <3>. QED  BY <2>5, <2>13, <3>1
  <2>. QED  BY <1>3, <2>17, <2>18, <2>19, <2>20, <2>21 DEF r4, r5
<1>. QED  BY <1>2, <1>3

-----------------------------------------------------------------------------
\* The issues of a candidate before each check and after the last one.
FoundBefore(c) ==
    LET f1 == RequiredFields(c)
        f2 == f1 \o IdentityFormat(c)
        f3 == f2 \o VerticalAttestation(c)
        f4 == f3 \o UnsafeActions(c)
        f5 == f4 \o InternalLeakage(c)
        f6 == f5 \o SensitiveData(c)
        f7 == f6 \o DescriptionLength(c)
        f8 == f7 \o DescriptionPlaceholder(c)
    IN  <<<< >>, f1, f2, f3, f4, f5, f6, f7, f8, IssuesOf(c)>>

\* Every check adds what it finds to them.
LEMMA FoundSteps ==
    ASSUME NEW c \in CandidateTool
    PROVE  /\ FoundBefore(c)[1] = << >>
           /\ FoundBefore(c)[2] = FoundBefore(c)[1] \o RequiredFields(c)
           /\ FoundBefore(c)[3] = FoundBefore(c)[2] \o IdentityFormat(c)
           /\ FoundBefore(c)[4] = FoundBefore(c)[3] \o VerticalAttestation(c)
           /\ FoundBefore(c)[5] = FoundBefore(c)[4] \o UnsafeActions(c)
           /\ FoundBefore(c)[6] = FoundBefore(c)[5] \o InternalLeakage(c)
           /\ FoundBefore(c)[7] = FoundBefore(c)[6] \o SensitiveData(c)
           /\ FoundBefore(c)[8] = FoundBefore(c)[7] \o DescriptionLength(c)
           /\ FoundBefore(c)[9] = FoundBefore(c)[8] \o DescriptionPlaceholder(c)
           /\ FoundBefore(c)[10] = FoundBefore(c)[9] \o InputSchema(c)
           /\ FoundBefore(c)[10] = IssuesOf(c)
           /\ \A k \in 1..10 : FoundBefore(c)[k] \in Seq(KnownIssues)
<1>. DEFINE f1 == RequiredFields(c)
            f2 == f1 \o IdentityFormat(c)
            f3 == f2 \o VerticalAttestation(c)
            f4 == f3 \o UnsafeActions(c)
            f5 == f4 \o InternalLeakage(c)
            f6 == f5 \o SensitiveData(c)
            f7 == f6 \o DescriptionLength(c)
            f8 == f7 \o DescriptionPlaceholder(c)
            f9 == f8 \o InputSchema(c)
            F == FoundBefore(c)
<1>1. F = <<<< >>, f1, f2, f3, f4, f5, f6, f7, f8, f9>> /\ IssuesOf(c) = f9
  BY DEF FoundBefore, IssuesOf
<1>2. f1 \in Seq(KnownIssues) /\ f1 = << >> \o f1
  BY RequiredFieldsReport, ConcatEmptySeq
<1>. DEFINE none == << >>
<1>3. none \in Seq(KnownIssues)
  OBVIOUS
<1>. HIDE DEF f1
<1>4. f2 \in Seq(KnownIssues)
  BY <1>2, IdentityFormatReports, CodesOfBoth
<1>. HIDE DEF f2
<1>5. f3 \in Seq(KnownIssues)
  BY <1>4, AttestationReports, CodesOfBoth
<1>. HIDE DEF f3
<1>6. f4 \in Seq(KnownIssues)
  BY <1>5, TermChecksReport, CodesOfBoth
<1>. HIDE DEF f4
<1>7. f5 \in Seq(KnownIssues)
  BY <1>6, TermChecksReport, CodesOfBoth
<1>. HIDE DEF f5
<1>8. f6 \in Seq(KnownIssues)
  BY <1>7, TermChecksReport, CodesOfBoth
<1>. HIDE DEF f6
<1>9. f7 \in Seq(KnownIssues)
  BY <1>8, DescriptionChecksReport, CodesOfBoth
<1>. HIDE DEF f7
<1>10. f8 \in Seq(KnownIssues)
  BY <1>9, DescriptionChecksReport, CodesOfBoth
<1>. HIDE DEF f8
<1>11. f9 \in Seq(KnownIssues)
  BY <1>10, InputSchemaReport, CodesOfBoth
<1>. HIDE DEF f9, F, none
<1>12. /\ F[1] = none /\ F[2] = f1 /\ F[3] = f2 /\ F[4] = f3 /\ F[5] = f4
       /\ F[6] = f5 /\ F[7] = f6 /\ F[8] = f7 /\ F[9] = f8 /\ F[10] = f9
  BY <1>1 DEF none
<1>13. ASSUME NEW k \in 1..10  PROVE F[k] \in Seq(KnownIssues)
  <2>1. k \in {1, 2, 3, 4, 5, 6, 7, 8, 9, 10}
    OBVIOUS
  <2>. QED  BY <1>2, <1>3, <1>4, <1>5, <1>6, <1>7, <1>8, <1>9, <1>10, <1>11, <1>12, <2>1
<1>14. F[2] = F[1] \o RequiredFields(c)
  BY <1>2, <1>12 DEF none, f1
<1>15. /\ F[3] = F[2] \o IdentityFormat(c) /\ F[4] = F[3] \o VerticalAttestation(c)
       /\ F[5] = F[4] \o UnsafeActions(c) /\ F[6] = F[5] \o InternalLeakage(c)
  BY <1>12 DEF f2, f3, f4, f5
<1>16. /\ F[7] = F[6] \o SensitiveData(c) /\ F[8] = F[7] \o DescriptionLength(c)
       /\ F[9] = F[8] \o DescriptionPlaceholder(c) /\ F[10] = F[9] \o InputSchema(c)
  BY <1>12 DEF f6, f7, f8, f9
<1>17. F[1] = << >>
  BY <1>12 DEF none
<1>18. F[10] = IssuesOf(c)
  BY <1>1, <1>12
<1>19. \A k \in 1..10 : F[k] \in Seq(KnownIssues)
  BY <1>13
<1>. QED  BY <1>14, <1>15, <1>16, <1>17, <1>18, <1>19, Zenon DEF F

\* All of them together.
LEMMA IssuesReport ==
    ASSUME NEW c \in CandidateTool
    PROVE  /\ IssuesOf(c) \in Seq(KnownIssues)
           /\ Codes(IssuesOf(c)) =
                 Codes(RequiredFields(c)) \cup Codes(IdentityFormat(c))
                 \cup Codes(VerticalAttestation(c)) \cup Codes(UnsafeActions(c))
                 \cup Codes(InternalLeakage(c)) \cup Codes(SensitiveData(c))
                 \cup Codes(DescriptionLength(c)) \cup Codes(DescriptionPlaceholder(c))
                 \cup Codes(InputSchema(c))
           /\ IssuesOf(c) = << >> =>
                 /\ RequiredFields(c) = << >> /\ VerticalAttestation(c) = << >>
                 /\ UnsafeActions(c) = << >> /\ InternalLeakage(c) = << >>
                 /\ SensitiveData(c) = << >> /\ InputSchema(c) = << >>
           /\ \A code \in {"SCHEMA_COMPOSITION_NOT_ALLOWED", "SCHEMA_REQUIRED_FIELD_NOT_DEFINED"} :
                 Cardinality(Marks(IssuesOf(c), code)) = Cardinality(Marks(InputSchema(c), code))
<1>. DEFINE F == FoundBefore(c)
<1>. HIDE DEF F
<1>0. F[10] = IssuesOf(c)
  BY FoundSteps DEF F
<1>1. \A k \in 1..10 : F[k] \in Seq(KnownIssues)
  BY FoundSteps DEF F
<1>2. F[2] = RequiredFields(c)
  <2>1. F[2] = << >> \o RequiredFields(c)
    BY FoundSteps DEF F
  <2>. QED  BY <2>1, RequiredFieldsReport, ConcatEmptySeq
<1>3. /\ Codes(F[3]) = Codes(F[2]) \cup Codes(IdentityFormat(c))
      /\ F[3] = << >> => F[2] = << >> /\ IdentityFormat(c) = << >>
  <2>1. F[3] = F[2] \o IdentityFormat(c)
    BY FoundSteps DEF F
  <2>2. F[2] \in Seq(KnownIssues) /\ IdentityFormat(c) \in Seq(KnownIssues)
    BY <1>1, IdentityFormatReports
  <2>. QED  BY <2>1, <2>2, CodesOfBoth
<1>4. /\ Codes(F[4]) = Codes(F[3]) \cup Codes(VerticalAttestation(c))
      /\ F[4] = << >> => F[3] = << >> /\ VerticalAttestation(c) = << >>
  <2>1. F[4] = F[3] \o VerticalAttestation(c)
    BY FoundSteps DEF F
  <2>2. F[3] \in Seq(KnownIssues) /\ VerticalAttestation(c) \in Seq(KnownIssues)
    BY <1>1, AttestationReports
  <2>. QED  BY <2>1, <2>2, CodesOfBoth
<1>5. /\ Codes(F[5]) = Codes(F[4]) \cup Codes(UnsafeActions(c))
      /\ F[5] = << >> => F[4] = << >> /\ UnsafeActions(c) = << >>
  <2>1. F[5] = F[4] \o UnsafeActions(c)
    BY FoundSteps DEF F
  <2>2. F[4] \in Seq(KnownIssues) /\ UnsafeActions(c) \in Seq(KnownIssues)
    BY <1>1, TermChecksReport
  <2>. QED  BY <2>1, <2>2, CodesOfBoth
<1>6. /\ Codes(F[6]) = Codes(F[5]) \cup Codes(InternalLeakage(c))
      /\ F[6] = << >> => F[5] = << >> /\ InternalLeakage(c) = << >>
  <2>1. F[6] = F[5] \o InternalLeakage(c)
    BY FoundSteps DEF F
  <2>2. F[5] \in Seq(KnownIssues) /\ InternalLeakage(c) \in Seq(KnownIssues)
    BY <1>1, TermChecksReport
  <2>. QED  BY <2>1, <2>2, CodesOfBoth
<1>7. /\ Codes(F[7]) = Codes(F[6]) \cup Codes(SensitiveData(c))
      /\ F[7] = << >> => F[6] = << >> /\ SensitiveData(c) = << >>
  <2>1. F[7] = F[6] \o SensitiveData(c)
    BY FoundSteps DEF F
  <2>2. F[6] \in Seq(KnownIssues) /\ SensitiveData(c) \in Seq(KnownIssues)
    BY <1>1, TermChecksReport
  <2>. QED  BY <2>1, <2>2, CodesOfBoth
<1>8. /\ Codes(F[8]) = Codes(F[7]) \cup Codes(DescriptionLength(c))
      /\ F[8] = << >> => F[7] = << >> /\ DescriptionLength(c) = << >>
  <2>1. F[8] = F[7] \o DescriptionLength(c)
    BY FoundSteps DEF F
  <2>2. F[7] \in Seq(KnownIssues) /\ DescriptionLength(c) \in Seq(KnownIssues)
    BY <1>1, DescriptionChecksReport
  <2>. QED  BY <2>1, <2>2, CodesOfBoth
<1>9. /\ Codes(F[9]) = Codes(F[8]) \cup Codes(DescriptionPlaceholder(c))
      /\ F[9] = << >> => F[8] = << >> /\ DescriptionPlaceholder(c) = << >>
  <2>1. F[9] = F[8] \o DescriptionPlaceholder(c)
    BY FoundSteps DEF F
  <2>2. F[8] \in Seq(KnownIssues) /\ DescriptionPlaceholder(c) \in Seq(KnownIssues)
    BY <1>1, DescriptionChecksReport
  <2>. QED  BY <2>1, <2>2, CodesOfBoth
<1>10. /\ Codes(F[10]) = Codes(F[9]) \cup Codes(InputSchema(c))
       /\ F[10] = << >> => F[9] = << >> /\ InputSchema(c) = << >>
  <2>1. F[10] = F[9] \o InputSchema(c)
    BY FoundSteps DEF F
  <2>2. F[9] \in Seq(KnownIssues) /\ InputSchema(c) \in Seq(KnownIssues)
    BY <1>1, InputSchemaReport
  <2>. QED  BY <2>1, <2>2, CodesOfBoth
<1>11. Codes(F[9]) =
          Codes(RequiredFields(c)) \cup Codes(IdentityFormat(c))
          \cup Codes(VerticalAttestation(c)) \cup Codes(UnsafeActions(c))
          \cup Codes(InternalLeakage(c)) \cup Codes(SensitiveData(c))
          \cup Codes(DescriptionLength(c)) \cup Codes(DescriptionPlaceholder(c))
  BY <1>2, <1>3, <1>4, <1>5, <1>6, <1>7, <1>8, <1>9
<1>12. ASSUME NEW code \in {"SCHEMA_COMPOSITION_NOT_ALLOWED", "SCHEMA_REQUIRED_FIELD_NOT_DEFINED"}
       PROVE  code \notin Codes(F[9])
  <2>1. code \notin Codes(RequiredFields(c))
    BY RequiredFieldsReport
  <2>2. code \notin Codes(IdentityFormat(c))
    BY IdentityFormatReports
  <2>3. code \notin Codes(VerticalAttestation(c))
    BY AttestationReports
  <2>4. /\ code \notin Codes(UnsafeActions(c)) /\ code \notin Codes(InternalLeakage(c))
        /\ code \notin Codes(SensitiveData(c))
    BY TermChecksReport
  <2>5. code \notin Codes(DescriptionLength(c)) /\ code \notin Codes(DescriptionPlaceholder(c))
    BY DescriptionChecksReport
  <2>. QED  BY <1>11, <2>1, <2>2, <2>3, <2>4, <2>5
<1>13. ASSUME NEW code \in {"SCHEMA_COMPOSITION_NOT_ALLOWED", "SCHEMA_REQUIRED_FIELD_NOT_DEFINED"}
       PROVE  Cardinality(Marks(IssuesOf(c), code)) = Cardinality(Marks(InputSchema(c), code))
  <2>1. F[10] = F[9] \o InputSchema(c)
    BY FoundSteps DEF F
  <2>2. F[9] \in Seq(KnownIssues) /\ InputSchema(c) \in Seq(KnownIssues)
    BY <1>1, InputSchemaReport
  <2>3. Cardinality(Marks(F[9] \o InputSchema(c), code)) = Cardinality(Marks(InputSchema(c), code))
    BY <1>12, <2>2, MarksBehind
  <2>. QED  BY <1>0, <2>1, <2>3
<1>14. Codes(IssuesOf(c)) = Codes(F[9]) \cup Codes(InputSchema(c))
  BY <1>0, <1>10
<1>15. IssuesOf(c) = << >> =>
          /\ RequiredFields(c) = << >> /\ VerticalAttestation(c) = << >>
          /\ UnsafeActions(c) = << >> /\ InternalLeakage(c) = << >>
          /\ SensitiveData(c) = << >> /\ InputSchema(c) = << >>
  <2>1. IssuesOf(c) = << >> => F[8] = << >> /\ InputSchema(c) = << >>
    BY <1>0, <1>9, <1>10
  <2>2. F[8] = << >> => F[6] = << >> /\ SensitiveData(c) = << >>
    BY <1>7, <1>8
  <2>3. F[6] = << >> => F[4] = << >> /\ UnsafeActions(c) = << >> /\ InternalLeakage(c) = << >>
    BY <1>5, <1>6
  <2>4. F[4] = << >> => RequiredFields(c) = << >> /\ VerticalAttestation(c) = << >>
    BY <1>2, <1>3, <1>4
  <2>. QED  BY <2>1, <2>2, <2>3, <2>4
<1>16. IssuesOf(c) \in Seq(KnownIssues)
  BY <1>0, <1>1
<1>. QED  BY <1>11, <1>13, <1>14, <1>15, <1>16

-----------------------------------------------------------------------------
\* What a candidate without issues is: safe,
LEMMA SafeWithoutIssues ==
    ASSUME NEW c \in CandidateTool, IssuesOf(c) = << >>
    PROVE  /\ c.safe_to_expose
           /\ ProhibitedPlaces(c.input_schema) = {}
           /\ \A text \in TextsOf(c), term \in
                  UNSAFE_ACTION_TERMS \cup INTERNAL_LEAKAGE_TERMS \cup SENSITIVE_DATA_TERMS :
                      ~Mentions(text, term)
<1>1. /\ RequiredFields(c) = << >> /\ VerticalAttestation(c) = << >>
      /\ UnsafeActions(c) = << >> /\ InternalLeakage(c) = << >>
      /\ SensitiveData(c) = << >> /\ InputSchema(c) = << >>
  BY IssuesReport
<1>2. c.safe_to_expose
  BY <1>1, AttestationReports
<1>3. c.input_schema \in Values
  BY DEF CandidateTool
<1>4. ProhibitedPlaces(c.input_schema) = {}
  <2>1. c.input_schema.entries # << >>
    BY <1>1, RequiredFieldsReport
  <2>2. CompositionIssues(c.input_schema) = << >>
    BY <1>1, <2>1, InputSchemaReport
  <2>. QED  BY <1>3, <2>2, CompositionReport
<1>5. /\ FindTerms(CandidateText(c), UNSAFE_ACTION_TERMS) = {}
      /\ FindTerms(CandidateText(c), INTERNAL_LEAKAGE_TERMS) = {}
      /\ FindTerms(CandidateText(c), SENSITIVE_DATA_TERMS) = {}
  BY <1>1, TermChecksReport
<1>6. ASSUME NEW terms, FindTerms(CandidateText(c), terms) = {},
             \A term \in terms : term \in Seq(Range(term)) /\ Hyphen \notin Range(term),
             NEW text \in TextsOf(c), NEW term \in terms
      PROVE  ~Mentions(text, term)
  BY <1>6, MentionIsFound
<1>7. \A text \in TextsOf(c), term \in UNSAFE_ACTION_TERMS : ~Mentions(text, term)
  BY <1>5, <1>6, TermsAssumption
<1>8. \A text \in TextsOf(c), term \in INTERNAL_LEAKAGE_TERMS : ~Mentions(text, term)
  BY <1>5, <1>6, TermsAssumption
<1>9. \A text \in TextsOf(c), term \in SENSITIVE_DATA_TERMS : ~Mentions(text, term)
  BY <1>5, <1>6, TermsAssumption
<1>. QED  BY <1>2, <1>4, <1>7, <1>8, <1>9

\* The keys at the top of a schema, and those of its properties.
TopKeys(schema) == {p[2] : p \in {q \in KeyPlaces(schema) : q[1] = << >>}}

PropertyKeys(schema) ==
    LET propertyAt == {k \in DOMAIN schema.entries : schema.entries[k].key = "properties"} IN
    {p[2] : p \in {q \in KeyPlaces(schema) : \E k \in propertyAt : q[1] = <<k>>}}

\* The keys at the top of a dict are the keys of its entries,
LEMMA TopKeysAre ==
    ASSUME NEW v \in Values, v.kind = "dict", NEW key
    PROVE  key \in TopKeys(v) <=> \E i \in 1..Len(v.entries) : v.entries[i].key = key
<1>1. \A p, k : <<p, k>> \in KeyPlaces(v) <=>
          \/ /\ v.kind = "dict" /\ p = << >>
             /\ \E i \in 1..Len(v.entries) : v.entries[i].key = k
          \/ \E i \in 1..Len(Parts(v)) : \E rest \in Seq(Nat) :
                p = <<i>> \o rest /\ <<rest, k>> \in KeyPlaces(Parts(v)[i])
  BY KeyPlacesOf, Zenon
<1>2. key \in TopKeys(v) <=> <<<< >>, key>> \in KeyPlaces(v)
  <2>1. ASSUME key \in TopKeys(v)  PROVE <<<< >>, key>> \in KeyPlaces(v)
    <3>1. PICK q \in KeyPlaces(v) : q[1] = << >> /\ q[2] = key
      BY <2>1 DEF TopKeys
    <3>2. q = <<q[1], q[2]>>
      BY KeyPlacesType
    <3>. QED  BY <3>1, <3>2
  <2>2. ASSUME <<<< >>, key>> \in KeyPlaces(v)  PROVE key \in TopKeys(v)
    <3>. DEFINE q == <<<< >>, key>>
    <3>1. q[1] = << >> /\ q[2] = key
      OBVIOUS
    <3>. HIDE DEF q
    <3>2. q \in KeyPlaces(v)
      BY <2>2 DEF q
    <3>. QED  BY <3>1, <3>2 DEF TopKeys
  <2>. QED  BY <2>1, <2>2
<1>3. ASSUME NEW i \in 1..Len(Parts(v)), NEW rest \in Seq(Nat)
      PROVE  <<i>> \o rest # << >>
  <2>1. i \in Nat
    BY PartsType, ValuesAssumption
  <2>. QED  BY <2>1, PathIsNotEmpty
<1>4. <<<< >>, key>> \in KeyPlaces(v) <=> \E i \in 1..Len(v.entries) : v.entries[i].key = key
  <2>. DEFINE top == << >>
  <2>1. <<top, key>> \in KeyPlaces(v) <=>
          \/ /\ v.kind = "dict" /\ top = top
             /\ \E i \in 1..Len(v.entries) : v.entries[i].key = key
          \/ \E i \in 1..Len(Parts(v)) : \E rest \in Seq(Nat) :
                top = <<i>> \o rest /\ <<rest, key>> \in KeyPlaces(Parts(v)[i])
    BY <1>1, Zenon
  <2>2. ~\E i \in 1..Len(Parts(v)) : \E rest \in Seq(Nat) :
                top = <<i>> \o rest /\ <<rest, key>> \in KeyPlaces(Parts(v)[i])
    BY <1>3
  <2>. HIDE DEF top
  <2>3. <<top, key>> \in KeyPlaces(v) <=> \E i \in 1..Len(v.entries) : v.entries[i].key = key
    BY <2>1, <2>2
  <2>. QED  BY <2>3 DEF top
<1>. QED  BY <1>2, <1>4

\* and the names of its properties are the keys of the properties in it.
LEMMA PropertyKeysHave ==
    ASSUME NEW v \in Values, v.kind = "dict", HasProperties(v),
           NEW name \in PropertyNames(v)
    PROVE  name \in PropertyKeys(v)
<1>. DEFINE properties == Get(v, "properties")
<1>1. properties.kind = "dict" /\ properties # Absent
  BY DEF HasProperties, Absent
<1>2. /\ properties \in Values
      /\ \E i \in 1..Len(v.entries) :
            v.entries[i].key = "properties" /\ v.entries[i].value = properties
  BY <1>1, GetFinds
<1>3. PICK k \in 1..Len(v.entries) :
         v.entries[k].key = "properties" /\ v.entries[k].value = properties
  BY <1>2
<1>4. /\ DOMAIN v.entries = 1..Len(v.entries) /\ Len(Parts(v)) = Len(v.entries)
      /\ Parts(v)[k] = properties
  BY <1>3, DictType, ValuesAssumption DEF Parts
<1>. HIDE DEF properties
<1>5. name \in TopKeys(properties)
  <2>1. \E i \in DOMAIN properties.entries : properties.entries[i].key = name
    BY DEF PropertyNames, properties
  <2>2. DOMAIN properties.entries = 1..Len(properties.entries)
    BY <1>1, <1>2, DictType, ValuesAssumption
  <2>. QED  BY <1>1, <1>2, <2>1, <2>2, TopKeysAre
<1>6. <<<< >>, name>> \in KeyPlaces(properties)
  <2>1. PICK q \in KeyPlaces(properties) : q[1] = << >> /\ q[2] = name
    BY <1>5 DEF TopKeys
  <2>2. q = <<q[1], q[2]>>
    BY <1>2, KeyPlacesType
  <2>. QED  BY <2>1, <2>2
<1>7. \A p, x : <<p, x>> \in KeyPlaces(v) <=>
          \/ /\ v.kind = "dict" /\ p = << >>
             /\ \E i \in 1..Len(v.entries) : v.entries[i].key = x
          \/ \E i \in 1..Len(Parts(v)) : \E rest \in Seq(Nat) :
                p = <<i>> \o rest /\ <<rest, x>> \in KeyPlaces(Parts(v)[i])
  BY KeyPlacesOf, Zenon
<1>8. <<<<k>>, name>> \in KeyPlaces(v)
  <2>. DEFINE empty == << >>
              path == <<k>> \o empty
  <2>1. empty \in Seq(Nat) /\ path = <<k>>
    OBVIOUS
  <2>. HIDE DEF empty, path
  <2>2. <<empty, name>> \in KeyPlaces(Parts(v)[k])
    BY <1>4, <1>6 DEF empty
  <2>3. k \in 1..Len(Parts(v))
    BY <1>4
  <2>4. path = <<k>> \o empty
    BY DEF path
  <2>5. \E i \in 1..Len(Parts(v)) : \E rest \in Seq(Nat) :
           path = <<i>> \o rest /\ <<rest, name>> \in KeyPlaces(Parts(v)[i])
    BY <2>1, <2>2, <2>3, <2>4, Zenon
  <2>6. <<path, name>> \in KeyPlaces(v)
    BY <1>7, <2>5, Zenon
  <2>. QED  BY <2>1, <2>6
<1>. DEFINE q == <<<<k>>, name>>
<1>9. q \in KeyPlaces(v) /\ q[1] = <<k>> /\ q[2] = name
  BY <1>8
<1>. HIDE DEF q
<1>10. k \in {j \in DOMAIN v.entries : v.entries[j].key = "properties"}
  BY <1>3, <1>4
<1>. QED  BY <1>9, <1>10 DEF PropertyKeys

\* and callable.
IsCallable(schema) ==
    /\ CheckSchema(schema)
    /\ {"type", "properties"} \subseteq TopKeys(schema)
    /\ PropertyKeys(schema) # {}
    /\ "required" \in TopKeys(schema) =>
          {f.text : f \in Range(Get(schema, "required").items)} \subseteq PropertyKeys(schema)

\* and callable.
LEMMA CallableWithoutIssues ==
    ASSUME NEW c \in CandidateTool, IssuesOf(c) = << >>
    PROVE  IsCallable(c.input_schema)
<1>. DEFINE schema == c.input_schema
<1>1. schema \in Values /\ schema.kind = "dict"
  BY DEF CandidateTool
<1>2. RequiredFields(c) = << >> /\ InputSchema(c) = << >>
  BY IssuesReport
<1>3. schema.entries # << >>
  BY <1>2, RequiredFieldsReport
<1>4. /\ CheckSchema(schema) /\ IsTypeObject(Get(schema, "type")) /\ HasProperties(schema)
      /\ RequiredIssues(schema) = << >>
  BY <1>2, <1>3, InputSchemaReport
<1>. HIDE DEF schema
<1>5. "type" \in TopKeys(schema)
  <2>1. Get(schema, "type") # Absent
    BY <1>4 DEF IsTypeObject, Absent
  <2>2. \E i \in 1..Len(schema.entries) : schema.entries[i].key = "type"
    BY <1>1, <2>1, GetFinds
  <2>. QED  BY <1>1, <2>2, TopKeysAre
<1>6. "properties" \in TopKeys(schema)
  <2>1. Get(schema, "properties") # Absent
    BY <1>4 DEF HasProperties, Absent
  <2>2. \E i \in 1..Len(schema.entries) : schema.entries[i].key = "properties"
    BY <1>1, <2>1, GetFinds
  <2>. QED  BY <1>1, <2>2, TopKeysAre
<1>7. PropertyKeys(schema) # {}
  <2>. DEFINE properties == Get(schema, "properties")
  <2>1. properties.kind = "dict" /\ properties.entries # << >> /\ properties # Absent
    BY <1>4 DEF HasProperties, Absent
  <2>2. properties \in Values
    BY <1>1, <2>1, GetFinds
  <2>. HIDE DEF properties
  <2>3. /\ DOMAIN properties.entries = 1..Len(properties.entries)
        /\ Len(properties.entries) \in Nat /\ Len(properties.entries) # 0
    <3>1. \E S : properties.entries \in Seq(S)
      BY <2>1, <2>2, ValuesAreTrees
    <3>. QED  BY <2>1, <3>1
  <2>4. 1 \in DOMAIN properties.entries
    BY <2>3
  <2>5. properties.entries[1].key \in PropertyNames(schema)
    BY <1>4, <2>4 DEF PropertyNames, properties
  <2>. QED  BY <1>1, <1>4, <2>5, PropertyKeysHave
<1>8. ASSUME "required" \in TopKeys(schema)
      PROVE  {f.text : f \in Range(Get(schema, "required").items)} \subseteq PropertyKeys(schema)
  <2>. DEFINE required == Get(schema, "required")
  <2>1. required # Absent
    <3>1. \E i \in 1..Len(schema.entries) : schema.entries[i].key = "required"
      BY <1>1, <1>8, TopKeysAre
    <3>. QED  BY <1>1, <3>1, GetFinds
  <2>2. \A k \in DOMAIN required.items : required.items[k].text \in PropertyNames(schema)
    BY <1>1, <1>4, <2>1, RequiredReport
  <2>. HIDE DEF required
  <2>3. ASSUME NEW f \in Range(required.items)  PROVE f.text \in PropertyKeys(schema)
    <3>1. PICK k \in DOMAIN required.items : f = required.items[k]
      BY DEF Range
    <3>2. f.text \in PropertyNames(schema)
      BY <2>2, <3>1
    <3>. QED  BY <1>1, <1>4, <3>2, PropertyKeysHave
  <2>. QED  BY <2>3 DEF required
<1>. QED  BY <1>4, <1>5, <1>6, <1>7, <1>8 DEF IsCallable, schema

\* What is missing is reported once,
LEMMA MissingHasOneCode ==
    ASSUME NEW c \in CandidateTool
    PROVE  LET codes == Codes(IssuesOf(c)) IN
           /\ "MISSING_VERTICAL" \in codes => "INVALID_VERTICAL_NAME" \notin codes
           /\ "MISSING_UPSTREAM_TOOL" \in codes => "INVALID_UPSTREAM_TOOL_NAME" \notin codes
           /\ "MISSING_INTERNAL_VERSION" \in codes => "INVALID_INTERNAL_VERSION" \notin codes
           /\ "MISSING_DESCRIPTION" \in codes =>
                 /\ "DESCRIPTION_TOO_SHORT" \notin codes
                 /\ "DESCRIPTION_PLACEHOLDER" \notin codes
           /\ "MISSING_INPUT_SCHEMA" \in codes => SchemaCodes \cap codes = {}
<1>. DEFINE codes == Codes(IssuesOf(c))
            missing == {"MISSING_VERTICAL", "MISSING_UPSTREAM_TOOL", "MISSING_INTERNAL_VERSION",
                        "MISSING_DESCRIPTION", "MISSING_INPUT_SCHEMA"}
            invalid == {"INVALID_VERTICAL_NAME", "INVALID_UPSTREAM_TOOL_NAME",
                        "INVALID_INTERNAL_VERSION"}
            described == {"DESCRIPTION_TOO_SHORT", "DESCRIPTION_PLACEHOLDER"}
            terms == {"VERTICAL_MARKED_UNSAFE", "UNSAFE_ACTION", "INTERNAL_LEAKAGE",
                      "SENSITIVE_DATA_COLLECTION"}
<1>1. /\ Codes(VerticalAttestation(c)) \subseteq terms /\ Codes(UnsafeActions(c)) \subseteq terms
      /\ Codes(InternalLeakage(c)) \subseteq terms /\ Codes(SensitiveData(c)) \subseteq terms
  BY AttestationReports, TermChecksReport
<1>2. /\ Codes(DescriptionLength(c)) \subseteq described
      /\ Codes(DescriptionPlaceholder(c)) \subseteq described
  BY DescriptionChecksReport
<1>3. Codes(IdentityFormat(c)) \subseteq invalid
  BY IdentityFormatReports
<1>4. Codes(RequiredFields(c)) \subseteq missing
  BY RequiredFieldsReport
<1>5. Codes(InputSchema(c)) \subseteq SchemaCodes
  BY InputSchemaReport
<1>6. \A x : x \in codes <=>
          \/ x \in Codes(RequiredFields(c)) \/ x \in Codes(IdentityFormat(c))
          \/ x \in Codes(VerticalAttestation(c)) \/ x \in Codes(UnsafeActions(c))
          \/ x \in Codes(InternalLeakage(c)) \/ x \in Codes(SensitiveData(c))
          \/ x \in Codes(DescriptionLength(c)) \/ x \in Codes(DescriptionPlaceholder(c))
          \/ x \in Codes(InputSchema(c))
  BY IssuesReport
<1>. HIDE DEF codes
<1>7. /\ missing \cap invalid = {} /\ missing \cap described = {} /\ missing \cap terms = {}
      /\ invalid \cap described = {} /\ invalid \cap terms = {} /\ described \cap terms = {}
  OBVIOUS
<1>8. /\ missing \cap SchemaCodes = {} /\ invalid \cap SchemaCodes = {}
      /\ described \cap SchemaCodes = {} /\ terms \cap SchemaCodes = {}
  BY DEF SchemaCodes
<1>9. /\ "MISSING_VERTICAL" \in Codes(RequiredFields(c)) => ~HasText(c.vertical)
      /\ "MISSING_UPSTREAM_TOOL" \in Codes(RequiredFields(c)) => ~HasText(c.upstream_tool)
      /\ "MISSING_INTERNAL_VERSION" \in Codes(RequiredFields(c)) => ~HasText(c.internal_version)
      /\ "MISSING_DESCRIPTION" \in Codes(RequiredFields(c)) => ~HasText(c.description)
      /\ "MISSING_INPUT_SCHEMA" \in Codes(RequiredFields(c)) => c.input_schema.entries = << >>
  BY RequiredFieldsReport
<1>10. /\ "INVALID_VERTICAL_NAME" \in Codes(IdentityFormat(c)) => HasText(c.vertical)
       /\ "INVALID_UPSTREAM_TOOL_NAME" \in Codes(IdentityFormat(c)) => HasText(c.upstream_tool)
       /\ "INVALID_INTERNAL_VERSION" \in Codes(IdentityFormat(c)) => HasText(c.internal_version)
  BY IdentityFormatReports
<1>11. \A x \in missing : x \in codes => x \in Codes(RequiredFields(c))
  <2>. HIDE DEF missing, invalid, described, terms
  <2>. QED  BY <1>1, <1>2, <1>3, <1>5, <1>6, <1>7, <1>8
<1>12. \A x \in invalid : x \in codes => x \in Codes(IdentityFormat(c))
  <2>. HIDE DEF missing, invalid, described, terms
  <2>. QED  BY <1>1, <1>2, <1>4, <1>5, <1>6, <1>7, <1>8
<1>13. \A x \in described : x \in codes => HasText(c.description)
  <2>1. \A x \in described : x \in codes => \/ x \in Codes(DescriptionLength(c))
                                            \/ x \in Codes(DescriptionPlaceholder(c))
    <3>. HIDE DEF missing, invalid, described, terms
    <3>. QED  BY <1>1, <1>3, <1>4, <1>5, <1>6, <1>7, <1>8
  <2>. QED  BY <2>1, DescriptionChecksReport
<1>14. \A x \in SchemaCodes : x \in codes => x \in Codes(InputSchema(c))
  <2>. HIDE DEF missing, invalid, described, terms
  <2>. QED  BY <1>1, <1>2, <1>3, <1>4, <1>6, <1>8
<1>15. "MISSING_VERTICAL" \in codes => "INVALID_VERTICAL_NAME" \notin codes
  BY <1>9, <1>10, <1>11, <1>12
<1>16. "MISSING_UPSTREAM_TOOL" \in codes => "INVALID_UPSTREAM_TOOL_NAME" \notin codes
  BY <1>9, <1>10, <1>11, <1>12
<1>17. "MISSING_INTERNAL_VERSION" \in codes => "INVALID_INTERNAL_VERSION" \notin codes
  BY <1>9, <1>10, <1>11, <1>12
<1>18. "MISSING_DESCRIPTION" \in codes => /\ "DESCRIPTION_TOO_SHORT" \notin codes
                                         /\ "DESCRIPTION_PLACEHOLDER" \notin codes
  BY <1>9, <1>11, <1>13
<1>19. "MISSING_INPUT_SCHEMA" \in codes => SchemaCodes \cap codes = {}
  <2>1. "MISSING_INPUT_SCHEMA" \in codes => c.input_schema.entries = << >>
    BY <1>9, <1>11
  <2>2. c.input_schema.entries = << >> => Codes(InputSchema(c)) = {}
    BY InputSchemaReport
  <2>. QED  BY <1>14, <2>1, <2>2
<1>. QED  BY <1>15, <1>16, <1>17, <1>18, <1>19 DEF codes

-----------------------------------------------------------------------------
\* The result a candidate has to get.
Verdict(c) ==
    [vertical |-> c.vertical, tool |-> c.upstream_tool,
     status |-> IF IssuesOf(c) = << >> THEN "ACCEPTED" ELSE "REJECTED",
     reasons |-> IssuesOf(c)]

\* The inductive invariant: a verdict for each candidate that is done, and of the
\* current one just the issues of the checks before the next.
IInv ==
    /\ candidates \in Batches
    /\ at \in 1..10
    /\ results \in Seq({Verdict(c) : c \in CandidateTool})
    /\ Len(results) <= Len(candidates)
    /\ \A i \in 1..Len(results) : results[i] = Verdict(candidates[i])
    /\ Len(results) < Len(candidates) => issues = FoundBefore(Candidate)[at]
    /\ Len(results) = Len(candidates) => at = 1 /\ issues = << >>

\* It holds when a run begins,
LEMMA InitIInv == Init => IInv
<1>. SUFFICES ASSUME Init  PROVE IInv
  OBVIOUS
<1>1. candidates \in Batches /\ at = 1 /\ issues = << >> /\ results = << >>
  BY DEF Init
<1>2. candidates \in Seq(CandidateTool)
  BY <1>1, BatchesAssumption
<1>3. Len(candidates) \in Nat /\ \A i \in 1..Len(candidates) : candidates[i] \in CandidateTool
  BY <1>2
<1>4. results \in Seq({Verdict(c) : c \in CandidateTool}) /\ Len(results) = 0
  BY <1>1
<1>5. Len(results) < Len(candidates) => issues = FoundBefore(Candidate)[at]
  <2>1. SUFFICES ASSUME Len(results) < Len(candidates)
                 PROVE  issues = FoundBefore(Candidate)[1]
    BY <1>1
  <2>2. Candidate \in CandidateTool
    BY <1>3, <1>4, <2>1 DEF Candidate
  <2>. QED  BY <1>1, <2>2, FoundSteps
<1>. QED  BY <1>1, <1>3, <1>4, <1>5 DEF IInv

\* A check finds what it has to find.
LEMMA CheckStep ==
    ASSUME IInv, at \in 1..9, Len(results) < Len(candidates), NEW found,
           FoundBefore(Candidate)[at + 1] = FoundBefore(Candidate)[at] \o found,
           issues' = issues \o found, at' = at + 1, UNCHANGED <<candidates, results>>
    PROVE  IInv'
<1>1. Candidate' = Candidate
  BY DEF Candidate
<1>2. issues' = FoundBefore(Candidate')[at']
  BY <1>1 DEF IInv
<1>3. at' \in 1..10
  OBVIOUS
<1>4. Len(results') # Len(candidates')
  <2>1. Len(results) \in Nat
    BY DEF IInv
  <2>. QED  BY <2>1
<1>5. /\ candidates' \in Batches /\ results' \in Seq({Verdict(c) : c \in CandidateTool})
      /\ Len(results') <= Len(candidates')
      /\ \A i \in 1..Len(results') : results'[i] = Verdict(candidates'[i])
  BY DEF IInv
<1>. QED  BY <1>2, <1>3, <1>4, <1>5 DEF IInv

\* A verdict is that of its candidate, and the next one begins with no issues.
LEMMA ConcludeStep == IInv /\ Conclude => IInv'
<1>. SUFFICES ASSUME IInv, Conclude  PROVE IInv'
  OBVIOUS
<1>. DEFINE R == {Verdict(c) : c \in CandidateTool}
            n == Len(results)
            c == Candidate
<1>1. /\ candidates \in Seq(CandidateTool) /\ Len(candidates) \in Nat
      /\ results \in Seq(R) /\ n \in Nat /\ n <= Len(candidates)
  BY BatchesAssumption DEF IInv
<1>2. n < Len(candidates)
  BY <1>1 DEF IInv, Conclude
<1>3. c \in CandidateTool /\ n + 1 \in 1..Len(candidates)
  BY <1>1, <1>2 DEF Candidate
<1>4. issues = IssuesOf(c)
  <2>1. issues = FoundBefore(c)[10]
    BY <1>2 DEF IInv, Conclude
  <2>. QED  BY <1>3, <2>1, FoundSteps
<1>5. ValidationResult = Verdict(c)
  BY <1>4 DEF ValidationResult, Verdict
<1>6. results' = Append(results, Verdict(c)) /\ Verdict(c) \in R
  BY <1>3, <1>5 DEF Conclude
<1>. HIDE DEF R, n, c
<1>7. /\ results' \in Seq(R) /\ Len(results') = n + 1 /\ results'[n + 1] = Verdict(c)
      /\ \A i \in 1..n : results'[i] = results[i]
  BY <1>1, <1>6, AppendProperties DEF n
<1>8. candidates' = candidates /\ at' = 1 /\ issues' = << >>
  BY DEF Conclude
<1>9. ASSUME NEW i \in 1..Len(results')  PROVE results'[i] = Verdict(candidates'[i])
  <2>1. CASE i = n + 1
    BY <1>7, <1>8, <2>1 DEF c, n, Candidate
  <2>2. CASE i # n + 1
    <3>1. i \in 1..n
      BY <1>1, <1>7, <2>2
    <3>2. results[i] = Verdict(candidates[i])
      BY <3>1 DEF IInv, n
    <3>. QED  BY <1>7, <1>8, <3>1, <3>2
  <2>. QED  BY <2>1, <2>2
<1>10. Len(results') <= Len(candidates')
  BY <1>1, <1>2, <1>7, <1>8
<1>11. Len(results') < Len(candidates') => issues' = FoundBefore(Candidate')[at']
  <2>1. SUFFICES ASSUME Len(results') < Len(candidates')
                 PROVE  issues' = FoundBefore(Candidate')[1]
    BY <1>8
  <2>2. Candidate' \in CandidateTool
    <3>1. Candidate' = candidates[Len(results') + 1]
      BY <1>8 DEF Candidate
    <3>2. Len(results') + 1 \in 1..Len(candidates)
      BY <1>1, <1>7, <1>8, <2>1
    <3>. QED  BY <1>1, <3>1, <3>2
  <2>. QED  BY <1>8, <2>2, FoundSteps
<1>12. candidates' \in Batches
  BY <1>8 DEF IInv
<1>. QED  BY <1>7, <1>8, <1>9, <1>10, <1>11, <1>12 DEF IInv, R

\* Every step keeps the invariant.
LEMMA StepIInv == IInv /\ [Next]_vars => IInv'
<1>. SUFFICES ASSUME IInv, [Next]_vars  PROVE IInv'
  OBVIOUS
<1>1. Len(results) < Len(candidates) => Candidate \in CandidateTool
  <2>1. SUFFICES ASSUME Len(results) < Len(candidates)  PROVE Candidate \in CandidateTool
    OBVIOUS
  <2>2. /\ candidates \in Seq(CandidateTool) /\ Len(candidates) \in Nat
        /\ Len(results) \in Nat
    BY BatchesAssumption DEF IInv
  <2>3. Len(results) + 1 \in 1..Len(candidates)
    BY <2>1, <2>2
  <2>. QED  BY <2>2, <2>3 DEF Candidate
<1>2. CASE CheckRequiredFields
  <2>1. /\ at = 1 /\ at \in 1..9 /\ Len(results) < Len(candidates) /\ at' = at + 1
        /\ issues' = issues \o RequiredFields(Candidate) /\ UNCHANGED <<candidates, results>>
    BY <1>2 DEF CheckRequiredFields, Check
  <2>2. FoundBefore(Candidate)[2] = FoundBefore(Candidate)[1] \o RequiredFields(Candidate)
    BY <1>1, <2>1, FoundSteps
  <2>3. FoundBefore(Candidate)[at + 1] = FoundBefore(Candidate)[at] \o RequiredFields(Candidate)
    BY <2>1, <2>2
  <2>. QED  BY <2>1, <2>3, CheckStep
<1>3. CASE CheckIdentityFormat
  <2>1. /\ at = 2 /\ at \in 1..9 /\ Len(results) < Len(candidates) /\ at' = at + 1
        /\ issues' = issues \o IdentityFormat(Candidate) /\ UNCHANGED <<candidates, results>>
    BY <1>3 DEF CheckIdentityFormat, Check
  <2>2. FoundBefore(Candidate)[3] = FoundBefore(Candidate)[2] \o IdentityFormat(Candidate)
    BY <1>1, <2>1, FoundSteps
  <2>3. FoundBefore(Candidate)[at + 1] = FoundBefore(Candidate)[at] \o IdentityFormat(Candidate)
    BY <2>1, <2>2
  <2>. QED  BY <2>1, <2>3, CheckStep
<1>4. CASE CheckVerticalAttestation
  <2>1. /\ at = 3 /\ at \in 1..9 /\ Len(results) < Len(candidates) /\ at' = at + 1
        /\ issues' = issues \o VerticalAttestation(Candidate) /\ UNCHANGED <<candidates, results>>
    BY <1>4 DEF CheckVerticalAttestation, Check
  <2>2. FoundBefore(Candidate)[4] = FoundBefore(Candidate)[3] \o VerticalAttestation(Candidate)
    BY <1>1, <2>1, FoundSteps
  <2>3. FoundBefore(Candidate)[at + 1] = FoundBefore(Candidate)[at] \o VerticalAttestation(Candidate)
    BY <2>1, <2>2
  <2>. QED  BY <2>1, <2>3, CheckStep
<1>5. CASE CheckUnsafeActions
  <2>1. /\ at = 4 /\ at \in 1..9 /\ Len(results) < Len(candidates) /\ at' = at + 1
        /\ issues' = issues \o UnsafeActions(Candidate) /\ UNCHANGED <<candidates, results>>
    BY <1>5 DEF CheckUnsafeActions, Check
  <2>2. FoundBefore(Candidate)[5] = FoundBefore(Candidate)[4] \o UnsafeActions(Candidate)
    BY <1>1, <2>1, FoundSteps
  <2>3. FoundBefore(Candidate)[at + 1] = FoundBefore(Candidate)[at] \o UnsafeActions(Candidate)
    BY <2>1, <2>2
  <2>. QED  BY <2>1, <2>3, CheckStep
<1>6. CASE CheckInternalLeakage
  <2>1. /\ at = 5 /\ at \in 1..9 /\ Len(results) < Len(candidates) /\ at' = at + 1
        /\ issues' = issues \o InternalLeakage(Candidate) /\ UNCHANGED <<candidates, results>>
    BY <1>6 DEF CheckInternalLeakage, Check
  <2>2. FoundBefore(Candidate)[6] = FoundBefore(Candidate)[5] \o InternalLeakage(Candidate)
    BY <1>1, <2>1, FoundSteps
  <2>3. FoundBefore(Candidate)[at + 1] = FoundBefore(Candidate)[at] \o InternalLeakage(Candidate)
    BY <2>1, <2>2
  <2>. QED  BY <2>1, <2>3, CheckStep
<1>7. CASE CheckSensitiveData
  <2>1. /\ at = 6 /\ at \in 1..9 /\ Len(results) < Len(candidates) /\ at' = at + 1
        /\ issues' = issues \o SensitiveData(Candidate) /\ UNCHANGED <<candidates, results>>
    BY <1>7 DEF CheckSensitiveData, Check
  <2>2. FoundBefore(Candidate)[7] = FoundBefore(Candidate)[6] \o SensitiveData(Candidate)
    BY <1>1, <2>1, FoundSteps
  <2>3. FoundBefore(Candidate)[at + 1] = FoundBefore(Candidate)[at] \o SensitiveData(Candidate)
    BY <2>1, <2>2
  <2>. QED  BY <2>1, <2>3, CheckStep
<1>8. CASE CheckDescriptionLength
  <2>1. /\ at = 7 /\ at \in 1..9 /\ Len(results) < Len(candidates) /\ at' = at + 1
        /\ issues' = issues \o DescriptionLength(Candidate) /\ UNCHANGED <<candidates, results>>
    BY <1>8 DEF CheckDescriptionLength, Check
  <2>2. FoundBefore(Candidate)[8] = FoundBefore(Candidate)[7] \o DescriptionLength(Candidate)
    BY <1>1, <2>1, FoundSteps
  <2>3. FoundBefore(Candidate)[at + 1] = FoundBefore(Candidate)[at] \o DescriptionLength(Candidate)
    BY <2>1, <2>2
  <2>. QED  BY <2>1, <2>3, CheckStep
<1>9. CASE CheckDescriptionPlaceholder
  <2>1. /\ at = 8 /\ at \in 1..9 /\ Len(results) < Len(candidates) /\ at' = at + 1
        /\ issues' = issues \o DescriptionPlaceholder(Candidate) /\ UNCHANGED <<candidates, results>>
    BY <1>9 DEF CheckDescriptionPlaceholder, Check
  <2>2. FoundBefore(Candidate)[9] = FoundBefore(Candidate)[8] \o DescriptionPlaceholder(Candidate)
    BY <1>1, <2>1, FoundSteps
  <2>3. FoundBefore(Candidate)[at + 1] = FoundBefore(Candidate)[at] \o DescriptionPlaceholder(Candidate)
    BY <2>1, <2>2
  <2>. QED  BY <2>1, <2>3, CheckStep
<1>10. CASE CheckInputSchema
  <2>1. /\ at = 9 /\ at \in 1..9 /\ Len(results) < Len(candidates) /\ at' = at + 1
        /\ issues' = issues \o InputSchema(Candidate) /\ UNCHANGED <<candidates, results>>
    BY <1>10 DEF CheckInputSchema, Check
  <2>2. FoundBefore(Candidate)[10] = FoundBefore(Candidate)[9] \o InputSchema(Candidate)
    BY <1>1, <2>1, FoundSteps
  <2>3. FoundBefore(Candidate)[at + 1] = FoundBefore(Candidate)[at] \o InputSchema(Candidate)
    BY <2>1, <2>2
  <2>. QED  BY <2>1, <2>3, CheckStep
<1>11. CASE Conclude
  BY <1>11, ConcludeStep
<1>12. CASE UNCHANGED vars
  BY <1>12 DEF IInv, Candidate, vars
<1>. QED  BY <1>2, <1>3, <1>4, <1>5, <1>6, <1>7, <1>8, <1>9, <1>10, <1>11, <1>12 DEF Next

\* In every state of a run the issues at hand are those that the checks so far
\* find in this candidate, and every result is the verdict on its own candidate.
THEOREM Invariance == Spec => []IInv
BY InitIInv, StepIInv, PTL DEF Spec

-----------------------------------------------------------------------------
\* In every state each result is the verdict on its candidate.
LEMMA ResultsAreVerdicts ==
    ASSUME IInv
    PROVE  /\ DOMAIN results = 1..Len(results) /\ Len(results) \in Nat
           /\ \A i \in DOMAIN results :
                 candidates[i] \in CandidateTool /\ results[i] = Verdict(candidates[i])
<1>1. /\ candidates \in Seq(CandidateTool) /\ Len(candidates) \in Nat
      /\ DOMAIN results = 1..Len(results) /\ Len(results) \in Nat
      /\ Len(results) <= Len(candidates)
  BY BatchesAssumption DEF IInv
<1>2. ASSUME NEW i \in 1..Len(results)  PROVE candidates[i] \in CandidateTool
  <2>1. i \in 1..Len(candidates)
    BY <1>1
  <2>. QED  BY <1>1, <2>1
<1>3. \A i \in 1..Len(results) : results[i] = Verdict(candidates[i])
  BY DEF IInv
<1>. QED  BY <1>1, <1>2, <1>3

\* An accepted candidate has no issues.
LEMMA AcceptedHasNoIssues ==
    ASSUME IInv, NEW c, Accepted(c)
    PROVE  c \in CandidateTool /\ IssuesOf(c) = << >>
<1>1. PICK i \in DOMAIN results : candidates[i] = c /\ results[i].status = "ACCEPTED"
  BY DEF Accepted
<1>2. c \in CandidateTool /\ results[i] = Verdict(c)
  BY <1>1, ResultsAreVerdicts
<1>. QED  BY <1>1, <1>2 DEF Verdict

\* validate_all only ever holds known issues, each naming its field.
THEOREM TypeCorrect == Spec => []TypeOK
<1>1. IInv => TypeOK
  <2>. SUFFICES ASSUME IInv  PROVE TypeOK
    OBVIOUS
  <2>1. candidates \in Batches /\ at \in 1..10 /\ Len(results) <= Len(candidates)
    BY DEF IInv
  <2>2. issues \in Seq(KnownIssues)
    <3>1. CASE Len(results) = Len(candidates)
      <4>1. issues = << >>
        BY <3>1 DEF IInv
      <4>. QED  BY <4>1
    <3>2. CASE Len(results) # Len(candidates)
      <4>1. /\ candidates \in Seq(CandidateTool) /\ Len(candidates) \in Nat
            /\ Len(results) \in Nat
        BY BatchesAssumption DEF IInv
      <4>2. Len(results) < Len(candidates) /\ Len(results) + 1 \in 1..Len(candidates)
        BY <2>1, <3>2, <4>1
      <4>3. Candidate \in CandidateTool
        BY <4>1, <4>2 DEF Candidate
      <4>4. issues = FoundBefore(Candidate)[at]
        BY <4>2 DEF IInv
      <4>. QED  BY <2>1, <4>3, <4>4, FoundSteps
    <3>. QED  BY <3>1, <3>2
  <2>3. ASSUME NEW i \in DOMAIN results  PROVE results[i].reasons \in Seq(KnownIssues)
    <3>1. candidates[i] \in CandidateTool /\ results[i].reasons = IssuesOf(candidates[i])
      BY ResultsAreVerdicts DEF Verdict
    <3>. QED  BY <3>1, IssuesReport
  <2>. QED  BY <2>1, <2>2, <2>3 DEF TypeOK, KnownIssues
<1>. QED  BY <1>1, Invariance, PTL

\* An accepted tool is attested safe, has no prohibited schema key at any depth
\* and no text that mentions a prohibited term.
THEOREM AcceptedToolsAreSafe == Spec => []AcceptedIsSafe
<1>1. IInv => AcceptedIsSafe
  <2>. SUFFICES ASSUME IInv, NEW i \in DOMAIN candidates, Accepted(candidates[i])
                PROVE  /\ candidates[i].safe_to_expose
                       /\ ProhibitedPlaces(candidates[i].input_schema) = {}
                       /\ \A text \in TextsOf(candidates[i]), term \in
                              UNSAFE_ACTION_TERMS \cup INTERNAL_LEAKAGE_TERMS
                              \cup SENSITIVE_DATA_TERMS :
                                  ~Mentions(text, term)
    BY DEF AcceptedIsSafe
  <2>1. candidates[i] \in CandidateTool /\ IssuesOf(candidates[i]) = << >>
    BY AcceptedHasNoIssues
  <2>. QED  BY <2>1, SafeWithoutIssues
<1>. QED  BY <1>1, Invariance, PTL

\* The schema of an accepted tool describes an object, and every argument it
\* requires is among its properties.
THEOREM AcceptedToolsAreCallable == Spec => []AcceptedIsCallable
<1>1. IInv => AcceptedIsCallable
  <2>. SUFFICES ASSUME IInv, NEW i \in DOMAIN candidates, Accepted(candidates[i])
                PROVE  IsCallable(candidates[i].input_schema)
    BY DEF AcceptedIsCallable, IsCallable, TopKeys, PropertyKeys
  <2>1. candidates[i] \in CandidateTool /\ IssuesOf(candidates[i]) = << >>
    BY AcceptedHasNoIssues
  <2>. QED  BY <2>1, CallableWithoutIssues
<1>. QED  BY <1>1, Invariance, PTL

\* What is missing is reported as missing and as nothing else.
THEOREM NoSecondComplaint == Spec => []MissingIsReportedOnce
<1>1. IInv => MissingIsReportedOnce
  <2>. SUFFICES ASSUME IInv  PROVE MissingIsReportedOnce
    OBVIOUS
  <2>1. ASSUME NEW i \in DOMAIN results
        PROVE  /\ candidates[i] \in CandidateTool
               /\ {reason.code : reason \in Range(results[i].reasons)}
                     = Codes(IssuesOf(candidates[i]))
    BY ResultsAreVerdicts DEF Verdict, Codes
  <2>. DEFINE schemaCodes == {cf[1] : cf \in {f \in FieldsOfCodes :
                   f[2] \in {"input_schema.type", "input_schema.properties",
                             "input_schema.required"}}}
  <2>2. schemaCodes \subseteq SchemaCodes
    BY DEF FieldsOfCodes, SchemaCodes
  <2>. HIDE DEF schemaCodes
  <2>3. ASSUME NEW i \in DOMAIN results,
               NEW missing \in
                  {<<"MISSING_VERTICAL", {"INVALID_VERTICAL_NAME"}>>,
                   <<"MISSING_UPSTREAM_TOOL", {"INVALID_UPSTREAM_TOOL_NAME"}>>,
                   <<"MISSING_INTERNAL_VERSION", {"INVALID_INTERNAL_VERSION"}>>,
                   <<"MISSING_DESCRIPTION", {"DESCRIPTION_TOO_SHORT", "DESCRIPTION_PLACEHOLDER"}>>,
                   <<"MISSING_INPUT_SCHEMA", schemaCodes>>},
               missing[1] \in {reason.code : reason \in Range(results[i].reasons)}
        PROVE  missing[2] \cap {reason.code : reason \in Range(results[i].reasons)} = {}
    <3>. DEFINE codes == Codes(IssuesOf(candidates[i]))
    <3>1. /\ "MISSING_VERTICAL" \in codes => "INVALID_VERTICAL_NAME" \notin codes
          /\ "MISSING_UPSTREAM_TOOL" \in codes => "INVALID_UPSTREAM_TOOL_NAME" \notin codes
          /\ "MISSING_INTERNAL_VERSION" \in codes => "INVALID_INTERNAL_VERSION" \notin codes
          /\ "MISSING_DESCRIPTION" \in codes =>
                /\ "DESCRIPTION_TOO_SHORT" \notin codes
                /\ "DESCRIPTION_PLACEHOLDER" \notin codes
          /\ "MISSING_INPUT_SCHEMA" \in codes => SchemaCodes \cap codes = {}
      BY <2>1, MissingHasOneCode
    <3>2. missing[1] \in codes
      BY <2>1, <2>3
    <3>. HIDE DEF codes
    <3>3. missing[2] \cap codes = {}
      <4>1. CASE missing = <<"MISSING_VERTICAL", {"INVALID_VERTICAL_NAME"}>>
        BY <3>1, <3>2, <4>1
      <4>2. CASE missing = <<"MISSING_UPSTREAM_TOOL", {"INVALID_UPSTREAM_TOOL_NAME"}>>
        BY <3>1, <3>2, <4>2
      <4>3. CASE missing = <<"MISSING_INTERNAL_VERSION", {"INVALID_INTERNAL_VERSION"}>>
        BY <3>1, <3>2, <4>3
      <4>4. CASE missing = <<"MISSING_DESCRIPTION",
                             {"DESCRIPTION_TOO_SHORT", "DESCRIPTION_PLACEHOLDER"}>>
        BY <3>1, <3>2, <4>4
      <4>5. CASE missing = <<"MISSING_INPUT_SCHEMA", schemaCodes>>
        BY <2>2, <3>1, <3>2, <4>5
      <4>. QED  BY <2>3, <4>1, <4>2, <4>3, <4>4, <4>5
    <3>. QED  BY <2>1, <3>3 DEF codes
  <2>. QED  BY <2>3 DEF MissingIsReportedOnce, schemaCodes
<1>. QED  BY <1>1, Invariance, PTL

\* A rejection names every prohibited key and every undefined required field.
THEOREM RejectionsAreComplete == Spec => []EveryFaultIsReported
<1>1. IInv => EveryFaultIsReported
  <2>. SUFFICES ASSUME IInv, NEW i \in DOMAIN results
                PROVE  LET schema == candidates[i].input_schema
                       IN  /\ Cardinality(Reasons(results[i], "SCHEMA_COMPOSITION_NOT_ALLOWED"))
                                = Cardinality(ProhibitedPlaces(schema))
                           /\ Cardinality(Reasons(results[i], "SCHEMA_REQUIRED_FIELD_NOT_DEFINED"))
                                = Cardinality(UndefinedFields(schema))
    BY DEF EveryFaultIsReported, UndefinedFields, Undefined
  <2>. DEFINE c == candidates[i]
  <2>1. c \in CandidateTool /\ results[i].reasons = IssuesOf(c)
    BY ResultsAreVerdicts DEF Verdict
  <2>. HIDE DEF c
  <2>2. \A code : Reasons(results[i], code) = Marks(IssuesOf(c), code)
    BY <2>1 DEF Reasons, Marks
  <2>3. /\ Cardinality(Marks(IssuesOf(c), "SCHEMA_COMPOSITION_NOT_ALLOWED"))
              = Cardinality(ProhibitedPlaces(c.input_schema))
        /\ Cardinality(Marks(IssuesOf(c), "SCHEMA_REQUIRED_FIELD_NOT_DEFINED"))
              = Cardinality(UndefinedFields(c.input_schema))
    BY <2>1, IssuesReport, InputSchemaReport
  <2>. QED  BY <2>2, <2>3 DEF c
<1>. QED  BY <1>1, Invariance, PTL

\* The verdict on a tool does not depend on what was validated before it.
THEOREM NoVerdictDependsOnOthers == Spec => []VerdictsAreIndependent
<1>1. IInv => VerdictsAreIndependent
  <2>. SUFFICES ASSUME IInv  PROVE VerdictsAreIndependent
    OBVIOUS
  <2>1. \A i \in DOMAIN results : results[i] = Verdict(candidates[i])
    BY ResultsAreVerdicts
  <2>2. \A c : Verdict(c).vertical = c.vertical /\ Verdict(c).tool = c.upstream_tool
    BY DEF Verdict
  <2>. QED  BY <2>1, <2>2 DEF VerdictsAreIndependent
<1>. QED  BY <1>1, Invariance, PTL

=============================================================================
