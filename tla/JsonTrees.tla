------------------------------ MODULE JsonTrees ------------------------------
(***************************************************************************)
(* JSON values as trees.  A dict is the sequence of its entries, because   *)
(* the order of keys is the order in which the validator walks them.       *)
(***************************************************************************)
EXTENDS Integers, Sequences, FiniteSets

Text(text) == [kind |-> "text", text |-> text]
Number(n) == [kind |-> "number", n |-> n]

\* A number that is no integer: between n and n + 1.
Fraction(n) == [kind |-> "fraction", n |-> n]

List(items) == [kind |-> "list", items |-> items]
Dict(entries) == [kind |-> "dict", entries |-> entries]
Entry(key, value) == [key |-> key, value |-> value]

\* None of these: true, false or null.
Other == [kind |-> "other"]

Texts(strings) == List([i \in DOMAIN strings |-> Text(strings[i])])

KeysOf(dict) == {dict.entries[i].key : i \in DOMAIN dict.entries}

ValueAt(dict, key) ==
    dict.entries[CHOOSE i \in DOMAIN dict.entries : dict.entries[i].key = key].value

\* The values directly in a value, in order.
Parts(v) ==
    IF v.kind = "dict" THEN [i \in DOMAIN v.entries |-> v.entries[i].value]
    ELSE IF v.kind = "list" THEN v.items ELSE << >>

\* JSON values are finite trees, and the keys of a dict are distinct.
AreTrees(values, height, strings) ==
    LET lower(v) == {w \in values : height[w] < height[v]} IN
    /\ height \in [values -> Nat]
    /\ \A v \in values :
        /\ v.kind # "absent"
        /\ v.kind = "dict" =>
            /\ v.entries \in Seq([key : strings, value : lower(v)])
            /\ \A i, j \in DOMAIN v.entries : v.entries[i].key = v.entries[j].key => i = j
        /\ v.kind = "list" => v.items \in Seq(lower(v))
        /\ v.kind = "text" => v.text \in strings

\* What is nested just so deep in some values.
Level(values, depth) ==
    LET level[n \in 0..depth] ==
            IF n = 0 THEN values
            ELSE UNION {{Parts(v)[i] : i \in DOMAIN Parts(v)} : v \in level[n - 1]}
    IN  level[depth]

\* Some values with all that is nested in them, down to some depth, and how
\* deep each of them is.
Within(values, depth) == UNION {Level(values, n) : n \in 0..depth}

Heights(values, depth) ==
    [v \in values |-> Cardinality({n \in 1..depth : Level({v}, n) # {}})]
=============================================================================
