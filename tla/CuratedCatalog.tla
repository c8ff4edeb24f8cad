--------------------------- MODULE CuratedCatalog ---------------------------
(***************************************************************************)
(* What the catalog promises, with no loop in it: candidates are collected *)
(* from the verticals, then one step publishes, under every public name,   *)
(* the first candidate eligible for it, and nothing else; what is published*)
(* never changes.  Collecting may fail, and then nothing is published.     *)
(***************************************************************************)
EXTENDS CatalogData

VARIABLES
    offered,    \* candidates collected so far, in listing order
    outcome,    \* "pending", "published" or "failed"
    tools,      \* the set of published public tools
    routes      \* public name -> its route, None if it has none

vars == <<offered, outcome, tools, routes>>

Winners == {i \in DOMAIN offered :
                \E n \in PublicNames : First(offered, i, n)}

CuratedTools == {ToPublicTool(offered[i], MappingOf(offered[i])) : i \in Winners}

CuratedRoute(n, route) ==
    \/ \E i \in DOMAIN offered :
          /\ First(offered, i, n)
          /\ route = ToRoute(offered[i], MappingOf(offered[i]))
    \/ /\ \A i \in DOMAIN offered : ~Eligible(offered, i, n)
       /\ route = None

-----------------------------------------------------------------------------
Init == /\ offered = << >>
        /\ outcome = "pending"
        /\ tools = {}
        /\ routes = [n \in PublicNames |-> None]

Collect == /\ outcome = "pending"
           /\ SubSeq(offered', 1, Len(offered)) = offered
           /\ offered' \in Seq(Candidates)
           /\ UNCHANGED <<outcome, tools, routes>>

Publish == /\ outcome = "pending"
           /\ outcome' = "published"
           /\ tools' = CuratedTools
           /\ routes' \in [PublicNames -> Routes \cup {None}]
           /\ \A n \in PublicNames : CuratedRoute(n, routes'[n])
           /\ UNCHANGED offered

Fail == /\ outcome = "pending"
        /\ outcome' = "failed"
        /\ UNCHANGED <<offered, tools, routes>>

Next == Collect \/ Publish \/ Fail

Spec == Init /\ [][Next]_vars
=============================================================================
