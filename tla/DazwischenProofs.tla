--------------------------- MODULE DazwischenProofs ---------------------------
(***************************************************************************)
(* First, what Catalog guarantees for any verticals, listings, mappings    *)
(* and verdicts of the validator: the invariant of the publication loop,   *)
(* what follows from it for the report and the registry, and that the loop *)
(* implements the one-step publication of CuratedCatalog.                  *)
(*                                                                         *)
(* Then, what holds of the composed system for any clients besides:        *)
(* listing and calling agree, the verticals page accounts for every tool,  *)
(* because the handlers of the shipped tools honour the schemas they ship, *)
(* the templates of the sandbox page work, and, because the validator's    *)
(* checks find a term in the name of each tool the guidance names and      *)
(* nothing in the others, the guidance is true.                            *)
(***************************************************************************)
EXTENDS Dazwischen, DataProofs

\* The mappings in force are a dict.
LEMMA MappingsType == Mappings \in MappingDicts
BY MappingsAssumption DEF Mappings, Falsy

\* A candidate's key is in the domain of the dict, and its mapping, if it has
\* one, gives it a public name, description and version.
LEMMA MappingOfType ==
    ASSUME NEW c \in Candidates
    PROVE  MappingOf(c) \in PublicMappings \cup {None}
<1>1. MappingKey(c) \in Keys
  BY DEF Candidates, MappingKey, Keys
<1>. QED  BY <1>1, MappingsType DEF MappingOf, MappingDicts

\* What is made of a candidate that has a mapping is a public tool and a route.
LEMMA PublishedTypes ==
    ASSUME NEW c \in Candidates, MappingOf(c) # None
    PROVE  /\ MappingOf(c).public_name \in PublicNames
           /\ ToPublicTool(c, MappingOf(c)) \in PublicTools
           /\ ToPublicTool(c, MappingOf(c)).name = MappingOf(c).public_name
           /\ ToPublicTool(c, MappingOf(c)) # None
           /\ ToRoute(c, MappingOf(c)) \in Routes
           /\ ToRoute(c, MappingOf(c)) # None
<1>1. MappingOf(c) \in PublicMappings
  BY MappingOfType
<1>2. /\ ToPublicTool(c, MappingOf(c)) \in PublicTools
      /\ ToPublicTool(c, MappingOf(c)).name = MappingOf(c).public_name
  BY <1>1 DEF PublicMappings, Candidates, ToPublicTool, PublicTools
<1>3. ToRoute(c, MappingOf(c)) \in Routes
  BY <1>1 DEF PublicMappings, Candidates, ToRoute, Routes
<1>. QED  BY <1>1, <1>2, <1>3, NoneAssumption DEF PublicMappings

\* What a client lists, if the adapter accepts all of it, is adapted to as many
\* candidates, one of each descriptor.
LEMMA AdaptedType ==
    ASSUME listing \in Listings, NEW k \in 1..Len(Clients), listing[k] # Unreachable,
           \A i \in 1..Len(listing[k]) : ~Malformed(listing[k][i])
    PROVE  /\ Adapted(Clients[k], listing[k]) \in Seq(Candidates)
           /\ Len(Adapted(Clients[k], listing[k])) = Len(listing[k])
           /\ Len(listing[k]) \in Nat
<1>1. /\ Len(listing[k]) \in Nat
      /\ \A i \in 1..Len(listing[k]) :
            listing[k][i].name \in Tools /\ listing[k][i].input_schema \in Schemas
  <2>1. \E S : listing[k] \in Seq(S)
    BY ListingsAssumption
  <2>2. \A i \in 1..Len(listing[k]) :
            listing[k][i].name \in Tools /\ listing[k][i].input_schema \in Schemas
    BY ListingsAssumption, Zenon
  <2>3. Len(listing[k]) \in Nat
    BY <2>1, LenProperties
  <2>. QED  BY <2>2, <2>3
<1>2. Clients[k] \in Verticals
  BY ClientsAssumption
<1>3. \A i \in 1..Len(listing[k]) :
         McpToolToCandidate(Clients[k], listing[k][i]) \in Candidates
  BY <1>1, <1>2 DEF Malformed, McpToolToCandidate, Candidates
<1>. QED  BY <1>1, <1>3 DEF Adapted

-----------------------------------------------------------------------------
(* The inductive invariant: before the loop nothing is published; in it,   *)
(* what is published, and what the report says, is what the candidates     *)
(* before the loop's index amount to.                                      *)

\* Nothing is published before the loop over the candidates.
Fresh ==
    /\ at = 1 /\ results = << >>
    /\ tools = << >> /\ routes = [n \in PublicNames |-> None]

\* What the phase says of the two loops.
Phases ==
    /\ listing \in Listings
    /\ phase \in {"listing", "failed"} => Fresh
    /\ phase \in {"building", "ready"} => client = Len(Clients) + 1
    /\ phase = "ready" => at = Len(candidates) + 1

\* The candidates have everything that the clients done with list.
Collected ==
    \A k \in 1..(client - 1) :
        /\ listing[k] # Unreachable
        /\ \A d \in 1..Len(listing[k]) : \E i \in 1..Len(candidates) :
               candidates[i] = McpToolToCandidate(Clients[k], listing[k][d])

\* What the loop would publish of a candidate.
RouteMade(i) == ToRoute(candidates[i], MappingOf(candidates[i]))
ToolMade(i) == ToPublicTool(candidates[i], MappingOf(candidates[i]))

\* Routes and tools are those of the first eligible candidates so far.
RoutesAreFirst ==
    \A n \in PublicNames :
        /\ routes[n] = None => \A i \in 1..(at - 1) : ~Eligible(candidates, i, n)
        /\ routes[n] # None => \E i \in 1..(at - 1) :
                First(candidates, i, n) /\ routes[n] = RouteMade(i)

ToolsAreFirst ==
    \A t \in 1..Len(tools) : \E i \in 1..(at - 1) :
        First(candidates, i, tools[t].name) /\ tools[t] = ToolMade(i)

FirstsHaveTools ==
    \A n \in PublicNames : \A i \in 1..(at - 1) :
        First(candidates, i, n) => \E t \in 1..Len(tools) : tools[t] = ToolMade(i)

NamesAreSingle ==
    \A t, u \in 1..Len(tools) : tools[t].name = tools[u].name => t = u

\* A code says of a candidate what the validator and the mappings say of it.
Explains(code, c) ==
    /\ code = "NONCONFORMING" <=> ~Conforms(c)
    /\ code = "NO_APPROVED_PUBLIC_MAPPING" => MappingOf(c) = None

\* A result names its candidate, and says whether it got a name, or why not.
Tells(i) ==
    /\ results[i].vertical = candidates[i].vertical
    /\ results[i].tool = candidates[i].upstream_tool
    /\ results[i].code = Accepted <=> \E n \in PublicNames : First(candidates, i, n)
    /\ Explains(results[i].code, candidates[i])

ResultsTell == Len(results) = at - 1 /\ \A i \in 1..Len(results) : Tells(i)

\* The inductive invariant of both loops.
IInv == /\ TypeOK /\ Phases /\ Collected
        /\ RoutesAreFirst /\ ToolsAreFirst /\ FirstsHaveTools /\ NamesAreSingle
        /\ ResultsTell

-----------------------------------------------------------------------------
\* At most one candidate is the first eligible for a name.
LEMMA FirstIsOne ==
    ASSUME NEW i \in Nat \ {0}, NEW j \in Nat \ {0}, NEW n,
           First(candidates, i, n), First(candidates, j, n)
    PROVE  i = j
<1>1. i < j => i \in 1..(j - 1)
  OBVIOUS
<1>2. j < i => j \in 1..(i - 1)
  OBVIOUS
<1>. QED  BY <1>1, <1>2 DEF First

\* The candidate the loop is at is one of the candidates.
LEMMA CandidateType ==
    ASSUME TypeOK, InLoop
    PROVE  /\ at \in 1..Len(candidates)
           /\ Candidate \in Candidates /\ Candidate = candidates[at]
           /\ Candidate.vertical \in Verticals /\ Candidate.upstream_tool \in Tools
<1>1. at \in 1..Len(candidates) /\ candidates[at] \in Candidates
  BY DEF TypeOK, InLoop
<1>. QED  BY <1>1 DEF Candidate, Candidates

\* Every step keeps the types.
LEMMA TypeStep ==
    ASSUME TypeOK, listing \in Listings, [Next]_vars
    PROVE  TypeOK'
<1>1. CASE ListCandidateTools
  <2>1. /\ client \in 1..Len(Clients) /\ listing[client] # Unreachable
        /\ \A i \in 1..Len(listing[client]) : ~Malformed(listing[client][i])
    BY <1>1 DEF ListCandidateTools, Listed, Adaptable, TypeOK
  <2>2. Adapted(Clients[client], listing[client]) \in Seq(Candidates)
    BY <2>1, AdaptedType
  <2>3. candidates' \in Seq(Candidates) /\ Len(candidates') >= Len(candidates)
    BY <1>1, <2>2 DEF ListCandidateTools, TypeOK
  <2>4. client' \in 1..(Len(Clients) + 1)
    BY <1>1, <2>1, ClientsAssumption DEF ListCandidateTools, TypeOK
  <2>. QED  BY <1>1, <2>3, <2>4 DEF ListCandidateTools, TypeOK
<1>2. CASE ListingRaises \/ BuildFromCandidates \/ Snapshot
  BY <1>2 DEF ListingRaises, BuildFromCandidates, Snapshot, TypeOK
<1>3. ASSUME InLoop, NEW code \in Codes, Reject(code)  PROVE TypeOK'
  BY <1>3, CandidateType DEF Reject, Result, TypeOK, InLoop
<1>4. CASE PublishCandidate
  <2>1. /\ ToPublicTool(Candidate, MappingOf(Candidate)) \in PublicTools
        /\ ToRoute(Candidate, MappingOf(Candidate)) \in Routes
    BY <1>4, CandidateType, PublishedTypes DEF PublishCandidate
  <2>2. tools' \in Seq(PublicTools)
    BY <1>4, <2>1 DEF PublishCandidate, TypeOK
  <2>3. routes' \in [PublicNames -> Routes \cup {None}]
    BY <1>4, <2>1 DEF PublishCandidate, TypeOK
  <2>4. results' \in Seq([vertical : Verticals, tool : Tools, code : Codes])
    BY <1>4, CandidateType DEF PublishCandidate, Result, TypeOK, Codes
  <2>. QED
    BY <1>4, <2>2, <2>3, <2>4, CandidateType DEF PublishCandidate, TypeOK
<1>5. CASE UNCHANGED vars
  BY <1>5 DEF vars, TypeOK
<1>. QED
  BY <1>1, <1>2, <1>3, <1>4, <1>5
  DEF Next, KeepRejection, RejectUnmapped, RejectDuplicate, Codes

-----------------------------------------------------------------------------
\* An iteration that rejects its candidate keeps the invariant, provided that
\* the candidate is the first of no name and the code explains it.
LEMMA RejectStep ==
    ASSUME IInv, TypeOK', InLoop, NEW code \in Codes \ {Accepted}, Reject(code),
           Explains(code, candidates[at]),
           \A n \in PublicNames : ~First(candidates, at, n)
    PROVE  IInv'
<1>1. /\ at \in 1..Len(candidates) /\ at' = at + 1 /\ at' - 1 = at
      /\ \A i \in 1..at : i \in 1..(at - 1) \/ i = at
      /\ 1..(at - 1) \subseteq 1..at
  BY CandidateType DEF IInv, TypeOK, Reject
<1>2. /\ phase = "building" /\ candidates' = candidates /\ tools' = tools
      /\ routes' = routes
      /\ UNCHANGED <<listing, phase, client>>
  BY DEF Reject, InLoop
<1>3. Phases'
  BY <1>1, <1>2 DEF IInv, Phases
<1>4. Collected'
  BY <1>2 DEF IInv, Collected
<1>5. RoutesAreFirst'
  <2>1. ASSUME NEW n \in PublicNames, routes[n] = None, NEW i \in 1..at
        PROVE  ~Eligible(candidates, i, n)
    BY <2>1, <1>1 DEF IInv, RoutesAreFirst, First
  <2>. QED  BY <2>1, <1>1, <1>2 DEF IInv, RoutesAreFirst, RouteMade
<1>6. ToolsAreFirst'
  BY <1>1, <1>2 DEF IInv, ToolsAreFirst, ToolMade
<1>7. FirstsHaveTools'
  BY <1>1, <1>2 DEF IInv, FirstsHaveTools, ToolMade
<1>8. NamesAreSingle'
  BY <1>2 DEF IInv, NamesAreSingle
<1>9. ResultsTell'
  <2>1. /\ Len(results') = at /\ Len(results) = at - 1
        /\ \A i \in 1..(at - 1) : results'[i] = results[i]
        /\ results'[at] = Result(code)
    BY <1>1 DEF IInv, TypeOK, Reject, ResultsTell
  <2>2. ASSUME NEW i \in 1..(at - 1)  PROVE Tells(i)'
    BY <2>1, <1>2 DEF IInv, ResultsTell, Tells, Explains
  <2>3. ASSUME NEW i, i = at  PROVE Tells(i)'
    <3>1. ~\E n \in PublicNames : First(candidates', i, n)
      BY <2>3, <1>2
    <3>2. /\ results'[i].vertical = candidates[i].vertical
          /\ results'[i].tool = candidates[i].upstream_tool
          /\ results'[i].code = code
      BY <2>1, <2>3 DEF Result, Candidate
    <3>. QED  BY <2>3, <3>1, <3>2, <1>2 DEF Tells, Explains
  <2>. QED  BY <2>1, <2>2, <2>3, <1>1 DEF ResultsTell
<1>. QED  BY <1>3, <1>4, <1>5, <1>6, <1>7, <1>8, <1>9 DEF IInv

\* The iteration that publishes its candidate keeps the invariant.
LEMMA PublishStep ==
    ASSUME IInv, TypeOK', PublishCandidate
    PROVE  IInv'
<1>. DEFINE m == MappingOf(candidates[at]).public_name
<1>1. /\ at \in 1..Len(candidates) /\ at' = at + 1 /\ at' - 1 = at
      /\ \A i \in 1..at : i \in 1..(at - 1) \/ i = at
      /\ 1..(at - 1) \subseteq 1..at
  BY CandidateType DEF IInv, TypeOK, PublishCandidate
<1>2. /\ phase = "building" /\ candidates' = candidates
      /\ UNCHANGED <<listing, phase, client>>
  BY DEF PublishCandidate, InLoop
<1>3. /\ Conforms(candidates[at]) /\ MappingOf(candidates[at]) # None
      /\ routes[m] = None
      /\ routes' = [routes EXCEPT ![m] = RouteMade(at)]
      /\ tools' = Append(tools, ToolMade(at))
      /\ results' = Append(results, Result(Accepted))
  BY CandidateType DEF IInv, PublishCandidate, NameTaken, RouteMade, ToolMade
<1>4. /\ m \in PublicNames
      /\ ToolMade(at) \in PublicTools /\ ToolMade(at).name = m
      /\ RouteMade(at) # None
  BY <1>3, CandidateType, PublishedTypes DEF IInv, PublishCandidate, ToolMade, RouteMade
<1>. HIDE DEF m
<1>5. /\ First(candidates, at, m)
      /\ \A n \in PublicNames \ {m} : ~Eligible(candidates, at, n)
  <2>1. \A n : Eligible(candidates, at, n) <=> n = m
    BY <1>3 DEF Eligible, m
  <2>2. \A i \in 1..(at - 1) : ~Eligible(candidates, i, m)
    BY <1>3, <1>4 DEF IInv, RoutesAreFirst
  <2>. QED  BY <2>1, <2>2 DEF First
<1>6. /\ routes'[m] = RouteMade(at)
      /\ \A n \in PublicNames \ {m} : routes'[n] = routes[n]
  BY <1>3, <1>4, SMTT(30) DEF IInv, TypeOK
<1>7. /\ Len(tools) \in Nat /\ Len(tools') = Len(tools) + 1
      /\ \A t \in 1..Len(tools) : tools'[t] = tools[t]
      /\ tools'[Len(tools')] = ToolMade(at)
      /\ \A t \in 1..Len(tools') : t \in 1..Len(tools) \/ t = Len(tools')
  <2>1. tools \in Seq(PublicTools)
    BY DEF IInv, TypeOK
  <2>2. /\ Len(tools) \in Nat /\ Len(tools') = Len(tools) + 1
        /\ \A t \in 1..Len(tools) : tools'[t] = tools[t]
        /\ tools'[Len(tools) + 1] = ToolMade(at)
    BY <1>3, <1>4, <2>1, AppendProperties
  <2>. QED  BY <2>2
<1>8. Phases'
  BY <1>1, <1>2 DEF IInv, Phases
<1>9. Collected'
  BY <1>2 DEF IInv, Collected
<1>10. RoutesAreFirst'
  <2>1. ASSUME NEW n \in PublicNames \ {m}
        PROVE  /\ routes[n] = None => \A i \in 1..at : ~Eligible(candidates, i, n)
               /\ routes[n] # None => \E i \in 1..at :
                      First(candidates, i, n) /\ routes[n] = RouteMade(i)
    BY <1>1, <1>5 DEF IInv, RoutesAreFirst
  <2>2. \E i \in 1..at : First(candidates, i, m) /\ routes'[m] = RouteMade(i)
    BY <1>1, <1>5, <1>6
  <2>3. ASSUME NEW n \in PublicNames
        PROVE  /\ routes'[n] = None => \A i \in 1..at : ~Eligible(candidates, i, n)
               /\ routes'[n] # None => \E i \in 1..at :
                      First(candidates, i, n) /\ routes'[n] = RouteMade(i)
    <3>1. CASE n = m
      BY <3>1, <2>2, <1>4, <1>6
    <3>2. CASE n # m
      BY <3>2, <2>1, <1>6
    <3>. QED  BY <3>1, <3>2
  <2>. QED  BY <2>3, <1>1, <1>2 DEF RoutesAreFirst, RouteMade
<1>11. ToolsAreFirst'
  <2>1. ASSUME NEW t \in 1..Len(tools')
        PROVE  \E i \in 1..at :
                  First(candidates, i, tools'[t].name) /\ tools'[t] = ToolMade(i)
    <3>1. CASE t \in 1..Len(tools)
      BY <3>1, <1>1, <1>7 DEF IInv, ToolsAreFirst
    <3>2. CASE t = Len(tools')
      BY <3>2, <1>1, <1>4, <1>5, <1>7
    <3>. QED  BY <3>1, <3>2, <1>7
  <2>. QED  BY <2>1, <1>1, <1>2 DEF ToolsAreFirst, ToolMade
<1>12. FirstsHaveTools'
  <2>1. ASSUME NEW n \in PublicNames, NEW i \in 1..at, First(candidates, i, n)
        PROVE  \E t \in 1..Len(tools') : tools'[t] = ToolMade(i)
    <3>1. CASE i \in 1..(at - 1)
      BY <3>1, <2>1, <1>7 DEF IInv, FirstsHaveTools
    <3>2. CASE i = at
      BY <3>2, <1>7
    <3>. QED  BY <3>1, <3>2, <1>1
  <2>. QED  BY <2>1, <1>1, <1>2 DEF FirstsHaveTools, ToolMade
<1>13. NamesAreSingle'
  <2>1. \A t \in 1..Len(tools) : tools[t].name # m
    <3>1. ASSUME NEW t \in 1..Len(tools), tools[t].name = m  PROVE FALSE
      <4>1. PICK i \in 1..(at - 1) : First(candidates, i, m)
        BY <3>1 DEF IInv, ToolsAreFirst
      <4>. QED  BY <4>1, <1>5 DEF First
    <3>. QED  BY <3>1
  <2>. QED  BY <2>1, <1>4, <1>7 DEF IInv, NamesAreSingle
<1>14. ResultsTell'
  <2>1. /\ Len(results') = at /\ Len(results) = at - 1
        /\ \A i \in 1..(at - 1) : results'[i] = results[i]
        /\ results'[at] = Result(Accepted)
    BY <1>1, <1>3 DEF IInv, TypeOK, ResultsTell
  <2>2. ASSUME NEW i \in 1..(at - 1)  PROVE Tells(i)'
    BY <2>1, <2>2, <1>2 DEF IInv, ResultsTell, Tells, Explains
  <2>3. ASSUME NEW i, i = at  PROVE Tells(i)'
    <3>1. \E n \in PublicNames : First(candidates', i, n)
      BY <2>3, <1>2, <1>4, <1>5
    <3>2. /\ results'[i].vertical = candidates[i].vertical
          /\ results'[i].tool = candidates[i].upstream_tool
          /\ results'[i].code = Accepted
      BY <2>1, <2>3 DEF Result, Candidate
    <3>. QED  BY <2>3, <3>1, <3>2, <1>2, <1>3 DEF Tells, Explains, Accepted
  <2>. QED  BY <2>1, <2>2, <2>3, <1>1 DEF ResultsTell
<1>. QED
  BY <1>8, <1>9, <1>10, <1>11, <1>12, <1>13, <1>14 DEF IInv

-----------------------------------------------------------------------------
\* Before the loop nothing is published and no candidate tried, so a step that
\* stays there, or starts the loop, has only the listed candidates to keep.
LEMMA FreshStep ==
    ASSUME TypeOK', Phases', Collected', Fresh'
    PROVE  IInv'
<1>1. /\ at' = 1 /\ at' - 1 = 0 /\ Len(results') = 0 /\ Len(tools') = 0
      /\ \A n \in PublicNames : routes'[n] = None
  BY DEF Fresh
<1>. QED
  BY <1>1 DEF IInv, RoutesAreFirst, ToolsAreFirst, FirstsHaveTools,
              NamesAreSingle, ResultsTell

\* The invariant holds before the first client is listed.
LEMMA IInvInit == Init => IInv
<1>. SUFFICES ASSUME Init PROVE IInv
  OBVIOUS
<1>1. /\ at = 1 /\ at - 1 = 0 /\ Len(results) = 0 /\ Len(tools) = 0
      /\ Len(candidates) = 0 /\ \A n \in PublicNames : routes[n] = None
  BY DEF Init
<1>2. TypeOK
  BY ClientsAssumption DEF Init, TypeOK
<1>3. Phases /\ Collected
  BY DEF Init, Phases, Fresh, Collected
<1>. QED
  BY <1>1, <1>2, <1>3 DEF IInv, RoutesAreFirst, ToolsAreFirst, FirstsHaveTools,
                          NamesAreSingle, ResultsTell

\* Listing a client appends what it lists, adapted, to the candidates.
LEMMA ListingAppends ==
    ASSUME TypeOK, listing \in Listings, ListCandidateTools
    PROVE  /\ client \in 1..Len(Clients) /\ client' = client + 1
           /\ listing[client] # Unreachable
           /\ Len(candidates) \in Nat /\ Len(listing[client]) \in Nat
           /\ Len(candidates') = Len(candidates) + Len(listing[client])
           /\ \A i \in 1..Len(candidates) : candidates'[i] = candidates[i]
           /\ \A d \in 1..Len(listing[client]) : candidates'[Len(candidates) + d] =
                  McpToolToCandidate(Clients[client], listing[client][d])
<1>1. /\ client \in 1..Len(Clients) /\ client' = client + 1
      /\ listing[client] # Unreachable /\ listing \in Listings
      /\ \A i \in 1..Len(listing[client]) : ~Malformed(listing[client][i])
  BY DEF ListCandidateTools, Listed, Adaptable, TypeOK
<1>. DEFINE new == Adapted(Clients[client], listing[client])
<1>2. /\ new \in Seq(Candidates) /\ Len(new) = Len(listing[client])
      /\ Len(listing[client]) \in Nat
  BY <1>1, AdaptedType
<1>3. \A d \in 1..Len(listing[client]) :
         new[d] = McpToolToCandidate(Clients[client], listing[client][d])
  BY DEF Adapted
<1>4. candidates \in Seq(Candidates) /\ candidates' = candidates \o new
  BY DEF ListCandidateTools, TypeOK
<1>. HIDE DEF new
<1>5. /\ Len(candidates) \in Nat
      /\ Len(candidates') = Len(candidates) + Len(new)
      /\ \A i \in 1..Len(candidates) : candidates'[i] = candidates[i]
      /\ \A d \in 1..Len(new) : candidates'[Len(candidates) + d] = new[d]
  <2>1. Len(candidates) \in Nat /\ Len(new) \in Nat
    BY <1>2, <1>4, LenProperties
  <2>2. /\ Len(candidates \o new) = Len(candidates) + Len(new)
        /\ \A i \in 1..(Len(candidates) + Len(new)) : (candidates \o new)[i] =
              IF i <= Len(candidates) THEN candidates[i]
              ELSE new[i - Len(candidates)]
    BY <1>2, <1>4, ConcatProperties
  <2>3. \A i \in 1..Len(candidates) : (candidates \o new)[i] = candidates[i]
    BY <2>1, <2>2
  <2>4. ASSUME NEW d \in 1..Len(new)
        PROVE  (candidates \o new)[Len(candidates) + d] = new[d]
    <3>1. /\ Len(candidates) + d \in 1..(Len(candidates) + Len(new))
          /\ ~(Len(candidates) + d <= Len(candidates))
          /\ Len(candidates) + d - Len(candidates) = d
      BY <2>1
    <3>. QED  BY <3>1, <2>2
  <2>. QED  BY <1>4, <2>1, <2>2, <2>3, <2>4
<1>6. Len(candidates') = Len(candidates) + Len(listing[client])
  BY <1>2, <1>5
<1>7. \A d \in 1..Len(listing[client]) : candidates'[Len(candidates) + d] =
         McpToolToCandidate(Clients[client], listing[client][d])
  BY <1>2, <1>3, <1>5
<1>. QED  BY <1>1, <1>2, <1>5, <1>6, <1>7

\* Listing one more client keeps the invariant.
LEMMA ListStep ==
    ASSUME IInv, TypeOK', ListCandidateTools
    PROVE  IInv'
<1>1. /\ client \in 1..Len(Clients) /\ client' = client + 1
      /\ listing[client] # Unreachable
      /\ Len(candidates) \in Nat /\ Len(listing[client]) \in Nat
      /\ Len(candidates') = Len(candidates) + Len(listing[client])
      /\ \A i \in 1..Len(candidates) : candidates'[i] = candidates[i]
      /\ \A d \in 1..Len(listing[client]) : candidates'[Len(candidates) + d] =
             McpToolToCandidate(Clients[client], listing[client][d])
  BY ListingAppends DEF IInv, Phases
<1>2. Phases'
  BY DEF ListCandidateTools, IInv, Phases, Fresh
<1>3. Collected'
  <2>1. ASSUME NEW k \in 1..client
        PROVE  /\ listing[k] # Unreachable
               /\ \A d \in 1..Len(listing[k]) : \E i \in 1..Len(candidates') :
                      candidates'[i] = McpToolToCandidate(Clients[k], listing[k][d])
    <3>1. CASE k \in 1..(client - 1)
      <4>1. /\ listing[k] # Unreachable
            /\ \A d \in 1..Len(listing[k]) : \E i \in 1..Len(candidates) :
                   candidates[i] = McpToolToCandidate(Clients[k], listing[k][d])
        BY <3>1 DEF IInv, Collected
      <4>2. \A i \in 1..Len(candidates) :
               i \in 1..Len(candidates') /\ candidates'[i] = candidates[i]
        BY <1>1
      <4>. QED  BY <4>1, <4>2
    <3>2. CASE k = client
      BY <3>2, <1>1
    <3>. QED  BY <3>1, <3>2, <1>1
  <2>2. listing' = listing /\ client' - 1 = client
    BY <1>1 DEF ListCandidateTools
  <2>3. \A k \in 1..client :
           /\ listing[k] # Unreachable
           /\ \A d \in 1..Len(listing[k]) : \E i \in 1..Len(candidates') :
                  candidates'[i] = McpToolToCandidate(Clients[k], listing[k][d])
    BY <2>1
  <2>. QED  BY <2>2, <2>3 DEF Collected
<1>4. Fresh'
  BY DEF ListCandidateTools, IInv, Phases, Fresh
<1>. QED  BY <1>2, <1>3, <1>4, FreshStep

\* Every step keeps the invariant.
LEMMA IInvStep == IInv /\ [Next]_vars => IInv'
<1>. SUFFICES ASSUME IInv, [Next]_vars PROVE IInv'
  OBVIOUS
<1>1. TypeOK'
  BY TypeStep DEF IInv, Phases
<1>2. CASE ListCandidateTools
  BY <1>1, <1>2, ListStep
<1>3. CASE ListingRaises \/ BuildFromCandidates
  <2>1. Phases'
    BY <1>3 DEF ListingRaises, BuildFromCandidates, IInv, TypeOK, Phases, Fresh
  <2>2. Collected'
    BY <1>3 DEF ListingRaises, BuildFromCandidates, IInv, Collected
  <2>3. Fresh'
    BY <1>3 DEF ListingRaises, BuildFromCandidates, IInv, Phases, Fresh
  <2>. QED  BY <1>1, <2>1, <2>2, <2>3, FreshStep
<1>4. CASE KeepRejection
  <2>1. \A n \in PublicNames : ~First(candidates, at, n)
    BY <1>4 DEF KeepRejection, Candidate, First, Eligible
  <2>2. Explains("NONCONFORMING", candidates[at])
    BY <1>4 DEF KeepRejection, Candidate, Explains
  <2>. QED
    BY <1>1, <1>4, <2>1, <2>2, RejectStep DEF KeepRejection, Codes, Accepted
<1>5. CASE RejectUnmapped
  <2>1. \A n \in PublicNames : ~First(candidates, at, n)
    BY <1>5 DEF RejectUnmapped, Candidate, First, Eligible
  <2>2. Explains("NO_APPROVED_PUBLIC_MAPPING", candidates[at])
    BY <1>5 DEF RejectUnmapped, Candidate, Explains
  <2>. QED
    BY <1>1, <1>5, <2>1, <2>2, RejectStep DEF RejectUnmapped, Codes, Accepted
<1>6. CASE RejectDuplicate
  <2>. DEFINE m == MappingOf(candidates[at]).public_name
  <2>1. m \in PublicNames /\ routes[m] # None
    BY <1>6, CandidateType, PublishedTypes
    DEF RejectDuplicate, NameTaken, Candidate, IInv
  <2>. HIDE DEF m
  <2>2. PICK i \in 1..(at - 1) : Eligible(candidates, i, m)
    BY <2>1 DEF IInv, RoutesAreFirst, First
  <2>3. \A n \in PublicNames : First(candidates, at, n) => n = m
    BY DEF First, Eligible, m
  <2>4. \A n \in PublicNames : ~First(candidates, at, n)
    BY <2>2, <2>3 DEF First
  <2>5. Explains("DUPLICATE_PUBLIC_MAPPING", candidates[at])
    BY <1>6 DEF RejectDuplicate, Candidate, Explains
  <2>. QED
    BY <1>1, <1>6, <2>4, <2>5, RejectStep DEF RejectDuplicate, Codes, Accepted
<1>7. CASE PublishCandidate
  BY <1>1, <1>7, PublishStep
<1>8. CASE Snapshot
  <2>1. at' = Len(candidates) + 1 /\ UNCHANGED <<candidates, tools, results, routes>>
        /\ at' = at /\ listing' = listing /\ client' = client
    BY <1>8, CandidateType DEF Snapshot, IInv, TypeOK
  <2>2. Phases'
    BY <1>8, <2>1 DEF Snapshot, IInv, Phases
  <2>. QED
    BY <1>1, <2>1, <2>2
    DEF IInv, Collected, RoutesAreFirst, RouteMade, ToolsAreFirst, ToolMade,
        FirstsHaveTools, NamesAreSingle, ResultsTell, Tells, Explains
<1>9. CASE UNCHANGED vars
  BY <1>1, <1>9
  DEF vars, IInv, Phases, Fresh, Collected, RoutesAreFirst, RouteMade,
      ToolsAreFirst, ToolMade, FirstsHaveTools, NamesAreSingle, ResultsTell, Tells,
      Explains
<1>. QED
  BY <1>2, <1>3, <1>4, <1>5, <1>6, <1>7, <1>8, <1>9 DEF Next

\* The variables keep their types: every candidate, tool, route and result the
\* builder makes is well formed, whatever the clients list.
THEOREM TypeCorrect == Spec => []TypeOK
<1>1. IInv => TypeOK
  BY DEF IInv
<1>. QED  BY <1>1, IInvInit, IInvStep, PTL DEF Spec

\* The invariant of the loop holds throughout.
THEOREM Invariance == Spec => []IInv
BY IInvInit, IInvStep, PTL DEF Spec

-----------------------------------------------------------------------------
\* The report of build_from_candidates has one result per candidate tried, in
\* order and under its identity, and "accepted" exactly of what got a name.
THEOREM ReportTells == Spec => []ReportTellsWhatIsPublished
<1>1. IInv => ReportTellsWhatIsPublished
  <2>. SUFFICES ASSUME IInv PROVE ReportTellsWhatIsPublished
    OBVIOUS
  <2>1. Len(candidates) \in Nat
    BY DEF IInv, TypeOK
  <2>2. phase = "ready" => Len(results) = Len(candidates)
    BY <2>1 DEF IInv, Phases, ResultsTell
  <2>. QED  BY <2>2 DEF IInv, ResultsTell, Tells, ReportTellsWhatIsPublished
<1>. QED  BY <1>1, Invariance, PTL

\* The tool and the route of a name are of one candidate, or there is neither.
LEMMA TwoDictsAgree ==
    ASSUME IInv, NEW n \in PublicNames
    PROVE  /\ GetTool(n) # None <=> GetRoute(n) # None
           /\ GetRoute(n) # None =>
                \E i \in 1..Len(candidates) :
                   /\ First(candidates, i, n)
                   /\ GetRoute(n) = RouteMade(i) /\ GetTool(n) = ToolMade(i)
<1>. DEFINE named == {i \in 1..Len(tools) : tools[i].name = n}
<1>1. /\ Len(candidates) \in Nat /\ at \in 1..(Len(candidates) + 1)
      /\ 1..(at - 1) \subseteq 1..Len(candidates)
  BY DEF IInv, TypeOK
<1>2. ASSUME NEW i \in 1..(at - 1), First(candidates, i, n)
      PROVE  ToolMade(i).name = n /\ ToolMade(i) # None
  BY <1>1, <1>2, PublishedTypes
  DEF IInv, TypeOK, First, Eligible, ToolMade
<1>3. CASE routes[n] = None
  <2>1. named = {}
    BY <1>3 DEF IInv, RoutesAreFirst, ToolsAreFirst, First
  <2>. QED  BY <2>1, <1>3 DEF GetTool, GetRoute
<1>4. CASE routes[n] # None
  <2>1. PICK i \in 1..(at - 1) : First(candidates, i, n) /\ routes[n] = RouteMade(i)
    BY <1>4 DEF IInv, RoutesAreFirst
  <2>2. PICK t \in 1..Len(tools) : tools[t] = ToolMade(i)
    BY <2>1 DEF IInv, FirstsHaveTools
  <2>3. named = {t}
    BY <1>2, <2>1, <2>2 DEF IInv, NamesAreSingle
  <2>4. (CHOOSE j \in named : \A k \in named : k <= j) = t
    BY <2>3
  <2>5. GetTool(n) = ToolMade(i)
    BY <2>2, <2>3, <2>4 DEF GetTool
  <2>. QED  BY <1>1, <1>2, <1>4, <2>1, <2>5 DEF GetRoute
<1>. QED  BY <1>3, <1>4

\* The two dicts of CatalogRegistry agree: a name has a tool exactly when it has
\* a route, and both were made of the first eligible candidate of the name.
THEOREM RegistryAgreement == Spec => []RegistryAgrees
<1>1. IInv => RegistryAgrees
  BY TwoDictsAgree DEF RegistryAgrees, RouteMade, ToolMade
<1>. QED  BY <1>1, Invariance, PTL

\* Startup is all or nothing: a ready catalog was built from everything every
\* client listed, and a startup that failed has published nothing.
THEOREM AllOrNothing == Spec => []NoPartialCatalog
<1>1. IInv => NoPartialCatalog
  <2>. SUFFICES ASSUME IInv PROVE NoPartialCatalog
    OBVIOUS
  <2>1. Ready => client - 1 = Len(Clients)
    BY ClientsAssumption DEF IInv, Phases, Ready
  <2>2. phase = "failed" => tools = << >> /\ \A n \in PublicNames : routes[n] = None
    BY DEF IInv, Phases, Fresh
  <2>. QED  BY <2>1, <2>2 DEF IInv, Collected, NoPartialCatalog
<1>. QED  BY <1>1, Invariance, PTL

-----------------------------------------------------------------------------
(* The loop over candidates implements CuratedCatalog: it collects while   *)
(* it lists, its return publishes, and the iterations are stutters.        *)

\* The candidates already collected stay, in place.
LEMMA CollectStep ==
    ASSUME IInv, ListCandidateTools
    PROVE  /\ candidates' \in Seq(Candidates)
           /\ SubSeq(candidates', 1, Len(candidates)) = candidates
<1>1. /\ client \in 1..Len(Clients) /\ listing \in Listings
      /\ listing[client] # Unreachable
      /\ \A i \in 1..Len(listing[client]) : ~Malformed(listing[client][i])
  BY DEF ListCandidateTools, Listed, Adaptable, IInv, TypeOK, Phases
<1>. DEFINE new == Adapted(Clients[client], listing[client])
<1>2. new \in Seq(Candidates)
  BY <1>1, AdaptedType
<1>3. candidates \in Seq(Candidates) /\ candidates' = candidates \o new
  BY DEF ListCandidateTools, IInv, TypeOK
<1>. HIDE DEF new
<1>4. /\ candidates' \in Seq(Candidates)
      /\ Len(candidates) \in Nat /\ Len(new) \in Nat
      /\ Len(candidates') = Len(candidates) + Len(new)
      /\ \A i \in 1..Len(candidates) : candidates'[i] = candidates[i]
  <2>1. Len(candidates) \in Nat /\ Len(new) \in Nat
    BY <1>2, <1>3, LenProperties
  <2>2. /\ candidates \o new \in Seq(Candidates)
        /\ Len(candidates \o new) = Len(candidates) + Len(new)
        /\ \A i \in 1..(Len(candidates) + Len(new)) : (candidates \o new)[i] =
              IF i <= Len(candidates) THEN candidates[i]
              ELSE new[i - Len(candidates)]
    BY <1>2, <1>3, ConcatProperties
  <2>3. \A i \in 1..Len(candidates) : (candidates \o new)[i] = candidates[i]
    BY <2>1, <2>2
  <2>. QED  BY <1>3, <2>1, <2>2, <2>3
<1>. DEFINE head == SubSeq(candidates', 1, Len(candidates))
<1>5. /\ head \in Seq(Candidates) /\ Len(head) = Len(candidates)
      /\ \A i \in 1..Len(candidates) : head[i] = candidates'[i]
  BY <1>4 
<1>6. head = candidates
  BY <1>3, <1>4, <1>5, SeqEqual
<1>. QED  BY <1>4, <1>6

\* CuratedCatalog takes its decisions with the same operators.
LEMMA SameDecisions ==
    /\ Curated!Mappings = Mappings
    /\ Curated!Routes = Routes /\ Curated!Candidates = Candidates
    /\ \A c : /\ Curated!MappingOf(c) = MappingOf(c)
              /\ Curated!ToPublicTool(c, MappingOf(c)) = ToPublicTool(c, MappingOf(c))
              /\ Curated!ToRoute(c, MappingOf(c)) = ToRoute(c, MappingOf(c))
    /\ \A cs, i, n : /\ Curated!Eligible(cs, i, n) <=> Eligible(cs, i, n)
                     /\ Curated!First(cs, i, n) <=> First(cs, i, n)
<1>1. Curated!Mappings = Mappings
  BY DEF Curated!Mappings, Mappings, Curated!Falsy, Falsy, Curated!Keys, Keys
<1>2. Curated!Routes = Routes /\ Curated!Candidates = Candidates
  BY DEF Curated!Routes, Routes, Curated!Candidates, Candidates
<1>3. \A c : Curated!MappingOf(c) = MappingOf(c)
  BY <1>1 DEF Curated!MappingOf, MappingOf, Curated!MappingKey, MappingKey
<1>4. \A c : /\ Curated!ToPublicTool(c, MappingOf(c)) = ToPublicTool(c, MappingOf(c))
             /\ Curated!ToRoute(c, MappingOf(c)) = ToRoute(c, MappingOf(c))
  BY DEF Curated!ToPublicTool, ToPublicTool, Curated!ToRoute, ToRoute
<1>5. \A cs, i, n : Curated!Eligible(cs, i, n) <=> Eligible(cs, i, n)
  BY <1>3 DEF Curated!Eligible, Eligible
<1>6. \A cs, i, n : Curated!First(cs, i, n) <=> First(cs, i, n)
  BY <1>5 DEF Curated!First, First
<1>. QED  BY <1>1, <1>2, <1>3, <1>4, <1>5, <1>6

\* What is published when the loop ends is what CuratedCatalog publishes.
LEMMA PublishedIsCurated ==
    ASSUME IInv, at = Len(candidates) + 1
    PROVE  /\ {tools[t] : t \in 1..Len(tools)} = Curated!CuratedTools
           /\ \A n \in PublicNames : Curated!CuratedRoute(n, routes[n])
<1>1. /\ DOMAIN candidates = 1..(at - 1) /\ at - 1 \in Nat
  BY DEF IInv, TypeOK
<1>2. /\ \A i \in 1..(at - 1) : \A n \in PublicNames : First(candidates, i, n)
            => ToolMade(i) \in Curated!CuratedTools
      /\ \A tool \in Curated!CuratedTools : \E i \in 1..(at - 1) :
            \E n \in PublicNames : First(candidates, i, n) /\ tool = ToolMade(i)
  <2>1. Curated!Winners =
           {i \in 1..(at - 1) : \E n \in PublicNames : First(candidates, i, n)}
    BY <1>1, SameDecisions DEF Curated!Winners
  <2>2. Curated!CuratedTools = {ToolMade(i) : i \in Curated!Winners}
    BY SameDecisions, Zenon DEF Curated!CuratedTools, ToolMade
  <2>. QED  BY <2>1, <2>2
<1>3. ASSUME NEW t \in 1..Len(tools)
      PROVE  tools[t] \in Curated!CuratedTools
  <2>1. tools[t] \in PublicTools
    BY DEF IInv, TypeOK
  <2>2. tools[t].name \in PublicNames
    BY <2>1 DEF PublicTools
  <2>. QED  BY <1>2, <2>2 DEF IInv, ToolsAreFirst
<1>4. ASSUME NEW tool \in Curated!CuratedTools
      PROVE  tool \in {tools[t] : t \in 1..Len(tools)}
  BY <1>2 DEF IInv, FirstsHaveTools
<1>5. ASSUME NEW n \in PublicNames
      PROVE  Curated!CuratedRoute(n, routes[n])
  BY <1>1, SameDecisions DEF IInv, RoutesAreFirst, RouteMade, Curated!CuratedRoute
<1>. QED  BY <1>3, <1>4, <1>5

\* The loop implements the one-step publication of the first eligible
\* candidate of every public name, for any listings and any mappings.
THEOREM Implementation == Spec => ImplementsCuratedCatalog
<1>1. Init => Curated!Init
  BY DEF Init, Curated!Init, Ready
<1>2. ASSUME IInv, IInv', [Next]_vars
      PROVE  [Curated!Next]_Curated!vars
  <2>1. CASE ListCandidateTools
    BY <1>2, <2>1, CollectStep, SameDecisions
    DEF ListCandidateTools, Ready, Curated!Next, Curated!Collect
  <2>2. CASE ListingRaises
    BY <2>2 DEF ListingRaises, Ready, Curated!Next, Curated!Fail
  <2>3. CASE Snapshot
    <3>1. /\ phase = "building" /\ phase' = "ready" /\ candidates' = candidates
          /\ tools' = tools /\ routes' = routes /\ at = Len(candidates) + 1
      BY <1>2, <2>3 DEF Snapshot, IInv, TypeOK
    <3>2. routes \in [PublicNames -> Routes \cup {None}]
      BY <1>2 DEF IInv, TypeOK
    <3>. QED
      BY <1>2, <3>1, <3>2, PublishedIsCurated, SameDecisions
      DEF Ready, Curated!Next, Curated!Publish
  <2>4. CASE \/ BuildFromCandidates \/ KeepRejection \/ RejectUnmapped
             \/ RejectDuplicate \/ PublishCandidate \/ UNCHANGED vars
    BY <2>4 DEF BuildFromCandidates, KeepRejection, RejectUnmapped, RejectDuplicate,
       PublishCandidate, Reject, InLoop, vars, Ready, Curated!vars
  <2>. QED  BY <1>2, <2>1, <2>2, <2>3, <2>4 DEF Next
<1>. QED
  BY <1>1, <1>2, Invariance, PTL DEF Spec, ImplementsCuratedCatalog, Curated!Spec

-----------------------------------------------------------------------------
\* The composed system.

\* The candidates of one vertical.
Offered(v) == {i \in 1..Len(candidates) : candidates[i].vertical = v}

\* A client that has been listed has all its tools among the candidates, each
\* once; one that has not, none.
OfferedOnce ==
    \A k \in 1..Len(Clients) :
        /\ IsFiniteSet(Offered(Clients[k]))
        /\ Cardinality(Offered(Clients[k])) = IF k < client THEN Len(listing[k]) ELSE 0

\* Every candidate was listed by a client.
OfferedBySome ==
    \A i \in 1..Len(candidates) :
        \E k \in 1..Len(Clients) :
            /\ listing[k] # Unreachable
            /\ \E d \in 1..Len(listing[k]) :
                  candidates[i] = McpToolToCandidate(Clients[k], listing[k][d])

\* What ListingTellsWhatIsCallable says of one call and its answer.
Agrees(filter, listed, asked, answer) ==
    LET named == {tool \in {listed[i] : i \in DOMAIN listed} : tool.name = asked.name}
        sent == asked.arguments
    IN  IF named = {} THEN answer = Refused("TOOL_NOT_FOUND")
        ELSE \E tool \in named :
          IF ~ValidArguments(sent, tool.input_schema)
          THEN answer = Refused("INVALID_ARGUMENTS")
          ELSE \/ TooLarge(sent) /\ answer = Refused("UPSTREAM_ERROR")
               \/ /\ answer.ok
                  /\ filter # None => answer.data.vertical = filter
                  /\ \A key \in DOMAIN sent : answer.data.query[key] = sent[key]

\* A client was listed what the finished catalog has for its filter, and told
\* what agrees with that.
SessionFits(s) ==
    /\ surface[s] # None => Ready /\ view[s] = ListTools(FilterOf(s))
    /\ told[s] # None => surface[s] # None /\ Agrees(FilterOf(s), view[s], call[s], told[s])

SessionShapes ==
    /\ DOMAIN surface = Sessions /\ DOMAIN view = Sessions
    /\ DOMAIN call = Sessions /\ DOMAIN told = Sessions

\* The inductive invariant of the system.
SInv == /\ IInv /\ OfferedOnce /\ OfferedBySome
        /\ SessionShapes /\ \A s \in Sessions : SessionFits(s)

systemVars == <<vars, sessionVars>>
-----------------------------------------------------------------------------
\* Listing a client adds one candidate per tool it lists, of its vertical.
LEMMA ListingOffers ==
    ASSUME SInv, ListCandidateTools
    PROVE  OfferedOnce'
<1>. DEFINE n == Len(candidates)
            l == Len(listing[client])
<1>1. /\ client \in 1..Len(Clients) /\ client' = client + 1
      /\ n \in Nat /\ l \in Nat /\ Len(candidates') = n + l
      /\ \A i \in 1..n : candidates'[i] = candidates[i]
      /\ \A d \in 1..l : candidates'[n + d].vertical = Clients[client]
  <2>1. \A v, d : McpToolToCandidate(v, d).vertical = v
    BY DEF McpToolToCandidate
  <2>2. TypeOK /\ listing \in Listings
    BY DEF SInv, IInv, Phases
  <2>. QED  BY <2>1, <2>2, ListingAppends
<1>. HIDE DEF n, l
<1>2. listing' = listing
  BY DEF ListCandidateTools
<1>3. ASSUME NEW i \in (n + 1)..(n + l)  PROVE candidates'[i].vertical = Clients[client]
  <2>1. i - n \in 1..l /\ n + (i - n) = i
    BY <1>1
  <2>2. candidates'[n + (i - n)].vertical = Clients[client]
    BY <1>1, <2>1
  <2>. QED  BY <2>1, <2>2
<1>4. ASSUME NEW k \in 1..Len(Clients)
      PROVE  /\ IsFiniteSet(Offered(Clients[k])')
             /\ Cardinality(Offered(Clients[k])')
                  = IF k < client' THEN Len(listing'[k]) ELSE 0
  <2>1. CASE k = client
    <3>1. Offered(Clients[k]) = {}
      BY <1>1, <2>1, FS_EmptySet DEF SInv, OfferedOnce
    <3>2. Offered(Clients[k])' = (n + 1)..(n + l)
      BY <1>1, <1>3, <2>1, <3>1 DEF Offered, n
    <3>3. n + 1 \in Int /\ n + l \in Int
      BY <1>1
    <3>4. IsFiniteSet((n + 1)..(n + l)) /\ Cardinality((n + 1)..(n + l)) = l
      BY <1>1, <3>3, FS_Interval
    <3>. QED  BY <1>1, <1>2, <2>1, <3>2, <3>4 DEF l
  <2>2. CASE k # client
    <3>1. Clients[k] # Clients[client]
      BY <1>1, <2>2, OneClientEach, ClientsAssumption
    <3>2. Offered(Clients[k])' = Offered(Clients[k])
      BY <1>1, <1>3, <3>1 DEF Offered, n
    <3>3. k < client' <=> k < client
      BY <1>1, <2>2
    <3>. QED  BY <1>2, <3>2, <3>3 DEF SInv, OfferedOnce
  <2>. QED  BY <2>1, <2>2
<1>. QED  BY <1>4, <1>2 DEF OfferedOnce

\* What is listed becomes a candidate, of the client that listed it.
LEMMA ListingIsSource ==
    ASSUME SInv, ListCandidateTools
    PROVE  OfferedBySome'
<1>. DEFINE n == Len(candidates)
            l == Len(listing[client])
<1>1. /\ client \in 1..Len(Clients) /\ listing[client] # Unreachable
      /\ n \in Nat /\ l \in Nat /\ Len(candidates') = n + l
      /\ \A i \in 1..n : candidates'[i] = candidates[i]
      /\ \A d \in 1..l : candidates'[n + d] =
             McpToolToCandidate(Clients[client], listing[client][d])
  BY ListingAppends DEF SInv, IInv, Phases
<1>2. listing' = listing
  BY DEF ListCandidateTools
<1>. HIDE DEF n
<1>3. ASSUME NEW i \in 1..(n + l)
      PROVE  \E k \in 1..Len(Clients) :
                /\ listing[k] # Unreachable
                /\ \E d \in 1..Len(listing[k]) :
                      candidates'[i] = McpToolToCandidate(Clients[k], listing[k][d])
  <2>1. CASE i \in 1..n
    BY <1>1, <2>1 DEF SInv, OfferedBySome, n
  <2>2. CASE i \notin 1..n
    <3>1. i - n \in 1..l /\ n + (i - n) = i
      BY <1>1, <2>2
    <3>2. candidates'[n + (i - n)] = McpToolToCandidate(Clients[client], listing[client][i - n])
      BY <1>1, <3>1
    <3>. QED  BY <1>1, <3>1, <3>2
  <2>. QED  BY <2>1, <2>2
<1>. QED  BY <1>1, <1>2, <1>3 DEF OfferedBySome

\* A finished catalog stays as it is.
LEMMA ReadyIsFinal ==
    ASSUME IInv, Ready, [Next]_vars
    PROVE  UNCHANGED vars
BY DEF Next, Ready, ListCandidateTools, ListingRaises, BuildFromCandidates, InLoop,
       KeepRejection, RejectUnmapped, RejectDuplicate, PublishCandidate, Snapshot

-----------------------------------------------------------------------------
(* The verticals' handlers.                                                *)

\* What validation asks of arguments, by the parts of a schema of an object.
LEMMA ArgumentsAreValid ==
    ASSUME NEW properties, NEW required, NEW arguments
    PROVE  ValidArguments(arguments, Arguments(properties, required)) <=>
              /\ \A i \in DOMAIN required : required[i] \in DOMAIN arguments
              /\ DOMAIN arguments \subseteq KeysOf(Dict(properties))
              /\ \A key \in DOMAIN arguments :
                     ValidValue(arguments[key], ValueAt(Dict(properties), key))
<1>. DEFINE schema == Arguments(properties, required)
<1>1. /\ DOMAIN schema.entries = 1..4
      /\ schema.entries[2].key = "properties" /\ schema.entries[2].value = Dict(properties)
      /\ schema.entries[3].key = "required" /\ schema.entries[3].value = Texts(required)
      /\ \A i \in 1..4 : /\ schema.entries[i].key = "properties" => i = 2
                         /\ schema.entries[i].key = "required" => i = 3
  BY DEF Arguments, Dict, Entry
<1>. HIDE DEF schema
<1>2. /\ ValueAt(schema, "properties") = Dict(properties)
      /\ ValueAt(schema, "required") = Texts(required)
  BY <1>1 DEF ValueAt
<1>3. /\ DOMAIN Texts(required).items = DOMAIN required
      /\ \A i \in DOMAIN required : Texts(required).items[i].text = required[i]
  BY DEF Texts, List, Text
<1>. QED  BY <1>2, <1>3 DEF ValidArguments, schema

\* The values that the properties of the shipped schemas take.
LEMMA ValuesAreValid ==
    ASSUME NEW value
    PROVE  /\ \A d : ValidValue(value, Described("string", d)) <=> value.kind = "text"
           /\ \A t \in {"integer", "number"} : \A m :
                 ValidValue(value, AtLeast(t, m)) <=>
                    value.kind \in KindsOf(t) /\ value.n >= m
<1>1. ASSUME NEW d
      PROVE  ValidValue(value, Described("string", d)) <=> value.kind = "text"
  <2>. DEFINE schema == Described("string", d)
  <2>1. /\ DOMAIN schema.entries = 1..2
        /\ schema.entries[1].key = "type" /\ schema.entries[1].value = Text("string")
        /\ schema.entries[2].key = "description"
    BY DEF Described, Dict, Entry
  <2>. HIDE DEF schema
  <2>2. /\ ValueAt(schema, "type") = Text("string")
        /\ "minimum" \notin KeysOf(schema) /\ "enum" \notin KeysOf(schema)
    BY <2>1 DEF ValueAt, KeysOf
  <2>. QED  BY <2>2 DEF ValidValue, KindsOf, Text, schema
<1>2. ASSUME NEW t \in {"integer", "number"}, NEW m
      PROVE  ValidValue(value, AtLeast(t, m)) <=> value.kind \in KindsOf(t) /\ value.n >= m
  <2>. DEFINE schema == AtLeast(t, m)
  <2>1. /\ DOMAIN schema.entries = 1..3
        /\ schema.entries[1].key = "type" /\ schema.entries[1].value = Text(t)
        /\ schema.entries[2].key = "minimum" /\ schema.entries[2].value = Number(m)
        /\ schema.entries[3].key = "description"
    BY DEF AtLeast, Dict, Entry
  <2>. HIDE DEF schema
  <2>2. /\ ValueAt(schema, "type") = Text(t) /\ ValueAt(schema, "minimum") = Number(m)
        /\ "minimum" \in KeysOf(schema) /\ "enum" \notin KeysOf(schema)
    BY <2>1 DEF ValueAt, KeysOf
  <2>. QED  BY <1>2, <2>2 DEF ValidValue, Text, Number, schema
<1>. QED  BY <1>1, <1>2

\* What the schema of search admits.
LEMMA SearchArguments ==
    ASSUME NEW arguments
    PROVE  ValidArguments(arguments, SearchInput) <=>
              /\ {"origin", "destination", "date"} \subseteq DOMAIN arguments
              /\ DOMAIN arguments \subseteq {"origin", "destination", "date", "passengers"}
              /\ \A key \in DOMAIN arguments \ {"passengers"} : arguments[key].kind = "text"
              /\ "passengers" \in DOMAIN arguments =>
                    arguments["passengers"].kind = "number" /\ arguments["passengers"].n >= 1
<1>. DEFINE text == Described("string", "..")
            number == AtLeast("integer", 1)
            properties == <<Entry("origin", text), Entry("destination", text),
                            Entry("date", text), Entry("passengers", number)>>
            required == <<"origin", "destination", "date">>
<1>1. SearchInput = Arguments(properties, required)
  BY DEF SearchInput
<1>2. /\ \A value : ValidValue(value, text) <=> value.kind = "text"
      /\ \A value : ValidValue(value, number) <=> value.kind = "number" /\ value.n >= 1
  BY ValuesAreValid DEF KindsOf
<1>. HIDE DEF text, number
<1>3. /\ KeysOf(Dict(properties)) = {"origin", "destination", "date", "passengers"}
      /\ ValueAt(Dict(properties), "origin") = text
      /\ ValueAt(Dict(properties), "destination") = text
      /\ ValueAt(Dict(properties), "date") = text
      /\ ValueAt(Dict(properties), "passengers") = number
  <2>. DEFINE dict == Dict(properties)
  <2>1. /\ DOMAIN dict.entries = 1..4
        /\ dict.entries[1] = Entry("origin", text) /\ dict.entries[2] = Entry("destination", text)
        /\ dict.entries[3] = Entry("date", text) /\ dict.entries[4] = Entry("passengers", number)
    BY DEF Dict
  <2>. HIDE DEF dict
  <2>2. 1..4 = {1, 2, 3, 4}
    OBVIOUS
  <2>3. KeysOf(dict) = {"origin", "destination", "date", "passengers"}
    BY <2>1, <2>2 DEF KeysOf, Entry
  <2>4. /\ ValueAt(dict, "origin") = text /\ ValueAt(dict, "destination") = text
        /\ ValueAt(dict, "date") = text /\ ValueAt(dict, "passengers") = number
    BY <2>1, <2>2 DEF ValueAt, Entry
  <2>. QED  BY <2>3, <2>4 DEF dict
<1>4. \A i \in DOMAIN required : required[i] \in {"origin", "destination", "date"}
  OBVIOUS
<1>5. (\A i \in DOMAIN required : required[i] \in DOMAIN arguments)
         <=> {"origin", "destination", "date"} \subseteq DOMAIN arguments
  OBVIOUS
<1>. HIDE DEF properties, required
<1>6. ValidArguments(arguments, SearchInput) <=>
         /\ {"origin", "destination", "date"} \subseteq DOMAIN arguments
         /\ DOMAIN arguments \subseteq {"origin", "destination", "date", "passengers"}
         /\ \A key \in DOMAIN arguments :
                ValidValue(arguments[key], ValueAt(Dict(properties), key))
  BY <1>1, <1>3, <1>5, ArgumentsAreValid
<1>. QED  BY <1>2, <1>3, <1>6

\* What the schema of check_availability admits.
LEMMA CheckAvailabilityArguments ==
    ASSUME NEW arguments
    PROVE  ValidArguments(arguments, CheckAvailabilityTool.input_schema) <=>
              /\ {"address", "postal_code"} \subseteq DOMAIN arguments
              /\ DOMAIN arguments \subseteq {"address", "postal_code", "desired_speed_mbps"}
              /\ \A key \in DOMAIN arguments \ {"desired_speed_mbps"} :
                     arguments[key].kind = "text"
              /\ "desired_speed_mbps" \in DOMAIN arguments =>
                    /\ arguments["desired_speed_mbps"].kind = "number"
                    /\ arguments["desired_speed_mbps"].n >= 1
<1>. DEFINE text == Described("string", "..")
            number == AtLeast("integer", 1)
            properties == <<Entry("address", text), Entry("postal_code", text),
                            Entry("desired_speed_mbps", number)>>
            required == <<"address", "postal_code">>
<1>1. CheckAvailabilityTool.input_schema = Arguments(properties, required)
  BY DEF CheckAvailabilityTool, Tool
<1>2. /\ \A value : ValidValue(value, text) <=> value.kind = "text"
      /\ \A value : ValidValue(value, number) <=> value.kind = "number" /\ value.n >= 1
  BY ValuesAreValid DEF KindsOf
<1>. HIDE DEF text, number
<1>3. /\ KeysOf(Dict(properties)) = {"address", "postal_code", "desired_speed_mbps"}
      /\ ValueAt(Dict(properties), "address") = text
      /\ ValueAt(Dict(properties), "postal_code") = text
      /\ ValueAt(Dict(properties), "desired_speed_mbps") = number
  <2>. DEFINE dict == Dict(properties)
  <2>1. /\ DOMAIN dict.entries = {1, 2, 3} /\ dict.entries[1] = Entry("address", text)
        /\ dict.entries[2] = Entry("postal_code", text)
        /\ dict.entries[3] = Entry("desired_speed_mbps", number)
    BY DEF Dict
  <2>. HIDE DEF dict
  <2>2. KeysOf(dict) = {"address", "postal_code", "desired_speed_mbps"}
    BY <2>1 DEF KeysOf, Entry
  <2>3. /\ ValueAt(dict, "address") = text /\ ValueAt(dict, "postal_code") = text
        /\ ValueAt(dict, "desired_speed_mbps") = number
    BY <2>1 DEF ValueAt, Entry
  <2>. QED  BY <2>2, <2>3 DEF dict
<1>4. (\A i \in DOMAIN required : required[i] \in DOMAIN arguments)
         <=> {"address", "postal_code"} \subseteq DOMAIN arguments
  OBVIOUS
<1>. HIDE DEF properties, required
<1>. QED  BY <1>1, <1>2, <1>3, <1>4, ArgumentsAreValid

\* What the schema of quote admits.
LEMMA QuoteArguments ==
    ASSUME NEW arguments
    PROVE  ValidArguments(arguments, Arguments(QuoteProperties, QuoteRequired)) <=>
              /\ DOMAIN arguments = {"product_type", "coverage_amount_eur", "customer_age"}
              /\ arguments["product_type"] \in {Text("travel"), Text("home"), Text("car")}
              /\ arguments["coverage_amount_eur"].kind \in {"number", "fraction"}
              /\ arguments["coverage_amount_eur"].n >= 1000
              /\ arguments["customer_age"].kind = "number"
              /\ arguments["customer_age"].n >= 18
<1>. DEFINE product == Dict(<<Entry("type", Text("string")),
                              Entry("enum", Texts(<<"travel", "home", "car">>)),
                              Entry("description", Text(".."))>>)
            amount == AtLeast("number", 1000)
            age == AtLeast("integer", 18)
<1>1. QuoteProperties = <<Entry("product_type", product), Entry("coverage_amount_eur", amount),
                             Entry("customer_age", age)>>
  BY DEF QuoteProperties
<1>2. \A value : ValidValue(value, product) <=>
                    value \in {Text("travel"), Text("home"), Text("car")}
  <2>1. /\ DOMAIN product.entries = {1, 2, 3}
        /\ product.entries[1].key = "type" /\ product.entries[1].value = Text("string")
        /\ product.entries[2].key = "enum"
        /\ product.entries[2].value = Texts(<<"travel", "home", "car">>)
        /\ product.entries[3].key = "description"
    BY DEF Dict, Entry
  <2>. DEFINE names == Texts(<<"travel", "home", "car">>).items
  <2>2. /\ DOMAIN names = {1, 2, 3} /\ names[1] = Text("travel") /\ names[2] = Text("home")
        /\ names[3] = Text("car")
    BY DEF Texts, List
  <2>. HIDE DEF product, names
  <2>3. /\ ValueAt(product, "type") = Text("string")
        /\ ValueAt(product, "enum").items = names
        /\ "minimum" \notin KeysOf(product) /\ "enum" \in KeysOf(product)
    BY <2>1 DEF ValueAt, KeysOf, names
  <2>. QED  BY <2>2, <2>3 DEF ValidValue, KindsOf, Text
<1>3. /\ \A value : ValidValue(value, amount) <=>
                        value.kind \in {"number", "fraction"} /\ value.n >= 1000
      /\ \A value : ValidValue(value, age) <=> value.kind = "number" /\ value.n >= 18
  BY ValuesAreValid DEF KindsOf
<1>. HIDE DEF product, amount, age
<1>4. /\ KeysOf(Dict(QuoteProperties)) = {"product_type", "coverage_amount_eur", "customer_age"}
      /\ ValueAt(Dict(QuoteProperties), "product_type") = product
      /\ ValueAt(Dict(QuoteProperties), "coverage_amount_eur") = amount
      /\ ValueAt(Dict(QuoteProperties), "customer_age") = age
  <2>. DEFINE dict == Dict(QuoteProperties)
  <2>1. /\ DOMAIN dict.entries = {1, 2, 3} /\ dict.entries[1] = Entry("product_type", product)
        /\ dict.entries[2] = Entry("coverage_amount_eur", amount)
        /\ dict.entries[3] = Entry("customer_age", age)
    BY <1>1 DEF Dict
  <2>. HIDE DEF dict
  <2>2. KeysOf(dict) = {"product_type", "coverage_amount_eur", "customer_age"}
    BY <2>1 DEF KeysOf, Entry
  <2>3. /\ ValueAt(dict, "product_type") = product /\ ValueAt(dict, "customer_age") = age
        /\ ValueAt(dict, "coverage_amount_eur") = amount
    BY <2>1 DEF ValueAt, Entry
  <2>. QED  BY <2>2, <2>3 DEF dict
<1>5. (\A i \in DOMAIN QuoteRequired : QuoteRequired[i] \in DOMAIN arguments)
         <=> {"product_type", "coverage_amount_eur", "customer_age"} \subseteq DOMAIN arguments
  BY DEF QuoteRequired
<1>. DEFINE keys == {"product_type", "coverage_amount_eur", "customer_age"}
<1>6. ValidArguments(arguments, Arguments(QuoteProperties, QuoteRequired)) <=>
         /\ keys \subseteq DOMAIN arguments /\ DOMAIN arguments \subseteq keys
         /\ \A key \in DOMAIN arguments :
                ValidValue(arguments[key], ValueAt(Dict(QuoteProperties), key))
  BY <1>1, <1>4, <1>5, ArgumentsAreValid
<1>7. ValidArguments(arguments, Arguments(QuoteProperties, QuoteRequired)) <=>
         /\ DOMAIN arguments = keys
         /\ ValidValue(arguments["product_type"], product)
         /\ ValidValue(arguments["coverage_amount_eur"], amount)
         /\ ValidValue(arguments["customer_age"], age)
  BY <1>4, <1>6
<1>. QED  BY <1>2, <1>3, <1>7

-----------------------------------------------------------------------------
\* What a handler echoes of arguments it knows.
LEMMA EchoesArguments ==
    ASSUME NEW arguments, NEW keys, DOMAIN arguments \subseteq keys
    PROVE  /\ DOMAIN Echo(arguments, keys) = keys
           /\ \A key \in DOMAIN arguments : Echo(arguments, keys)[key] = arguments[key]
BY DEF Echo, Given

\* A call answered in full: by its vertical, with the arguments it was sent.
Honours(reply, vertical, arguments) ==
    IF reply.is_error THEN TooLarge(arguments)
    ELSE /\ reply.vertical = vertical
         /\ \A key \in DOMAIN arguments : reply.query[key] = arguments[key]

\* The handlers of the three tools that are mapped honour their schemas: search,
LEMMA SearchHonours ==
    ASSUME NEW arguments \in ArgumentSets, ValidArguments(arguments, SearchInput)
    PROVE  Honours(Search(arguments), "mobility", arguments)
<1>. DEFINE keys == {"origin", "destination", "date", "passengers"}
            query == [Echo(arguments, keys)
                        EXCEPT !.passengers = IF @ = Missing THEN Number(1) ELSE @]
<1>1. DOMAIN arguments \subseteq keys
  BY SearchArguments
<1>2. /\ DOMAIN Echo(arguments, keys) = keys
      /\ \A key \in DOMAIN arguments : Echo(arguments, keys)[key] = arguments[key]
  BY <1>1, EchoesArguments
<1>3. \A key \in DOMAIN arguments : arguments[key] # Missing
  BY ArgumentsAssumption
<1>4. \A key \in DOMAIN arguments : query[key] = arguments[key]
  <2>. DEFINE echo == Echo(arguments, keys)
  <2>. HIDE DEF echo
  <2>1. \A key \in DOMAIN arguments : query[key] = echo[key]
    BY <1>1, <1>2, <1>3 DEF echo
  <2>. QED  BY <1>2, <2>1 DEF echo
<1>5. Search(arguments) = Reply("mobility", "search", query)
  BY DEF Search
<1>. HIDE DEF query
<1>. QED  BY <1>4, <1>5 DEF Honours, Reply

\* check_availability,
LEMMA CheckAvailabilityHonours ==
    ASSUME NEW arguments \in ArgumentSets,
           ValidArguments(arguments, CheckAvailabilityTool.input_schema)
    PROVE  Honours(InternetCall("check_availability", arguments), "internet", arguments)
<1>. DEFINE keys == {"address", "postal_code", "desired_speed_mbps"}
            query == Echo(arguments, keys)
<1>1. DOMAIN arguments \subseteq keys
  BY CheckAvailabilityArguments
<1>2. \A key \in DOMAIN arguments : query[key] = arguments[key]
  BY <1>1, EchoesArguments
<1>3. InternetCall("check_availability", arguments)
         = Reply("internet", "check_availability", query)
  BY DEF InternetCall
<1>. HIDE DEF query
<1>. QED  BY <1>2, <1>3 DEF Honours, Reply

\* and quote, except that a number may be too large for it.
LEMMA QuoteHonours ==
    ASSUME NEW arguments \in ArgumentSets, ValidArguments(arguments, Arguments(QuoteProperties, QuoteRequired))
    PROVE  Honours(InsuranceCall("quote", arguments), "insurance", arguments)
<1>. DEFINE keys == {"product_type", "coverage_amount_eur", "customer_age"}
            query == [Echo(arguments, keys) EXCEPT !.coverage_amount_eur = OrZero(@),
                                                   !.customer_age = OrZero(@)]
<1>1. /\ DOMAIN arguments = keys
      /\ arguments["coverage_amount_eur"].kind \in {"number", "fraction"}
      /\ arguments["customer_age"].kind = "number"
  BY QuoteArguments
<1>2. /\ DOMAIN Echo(arguments, keys) = keys
      /\ \A key \in DOMAIN arguments : Echo(arguments, keys)[key] = arguments[key]
  BY <1>1, EchoesArguments
<1>3. /\ \A key \in DOMAIN arguments : arguments[key] # Missing
      /\ arguments["coverage_amount_eur"].n \in Int /\ arguments["customer_age"].n \in Int
      /\ FloatMax \in Int
      /\ arguments["coverage_amount_eur"].kind = "fraction" =>
            arguments["coverage_amount_eur"].n < FloatMax
  BY <1>1, ArgumentsAssumption
<1>4. \A key \in DOMAIN arguments : query[key] = arguments[key]
  <2>. DEFINE echo == Echo(arguments, keys)
  <2>. HIDE DEF echo
  <2>1. \A key \in DOMAIN arguments : query[key] = echo[key]
    BY <1>1, <1>2, <1>3 DEF echo, OrZero
  <2>. QED  BY <1>2, <2>1 DEF echo
<1>5. query.coverage_amount_eur = arguments["coverage_amount_eur"]
      /\ query.customer_age = arguments["customer_age"]
  BY <1>1, <1>4
<1>6. InsuranceCall("quote", arguments) =
         IF Fits(query.coverage_amount_eur) /\ Fits(query.customer_age)
         THEN Reply("insurance", "quote", query) ELSE ErrorReply
  BY DEF InsuranceCall, Quote
<1>. HIDE DEF query
<1>7. ~(Fits(query.coverage_amount_eur) /\ Fits(query.customer_age)) => TooLarge(arguments)
  BY <1>1, <1>3, <1>5 DEF Fits, TooLarge
<1>. QED  BY <1>4, <1>6, <1>7 DEF Honours, Reply, ErrorReply

-----------------------------------------------------------------------------
\* A candidate as a client may offer it: of a tool its vertical ships.
OfShipped(c) ==
    /\ c \in Candidates /\ c.vertical \in DOMAIN ShippedTools
    /\ \E j \in DOMAIN ShippedTools[c.vertical] :
          LET tool == ShippedTools[c.vertical][j] IN
          /\ c.upstream_tool = tool.name /\ c.input_schema = tool.input_schema
          /\ tool.safe => c.safe_to_expose = TRUE

\* What a client lists is of the tools its vertical ships.
LEMMA ListedIsShipped ==
    ASSUME NEW l \in Listings, NEW k \in 1..Len(Clients), l[k] # Unreachable,
           NEW d \in 1..Len(l[k]),
           McpToolToCandidate(Clients[k], l[k][d]) \in Candidates
    PROVE  OfShipped(McpToolToCandidate(Clients[k], l[k][d]))
<1>. DEFINE shipped == ShippedTools[Clients[k]]
<1>1. k \in DOMAIN Clients /\ d \in DOMAIN l[k]
  <2>1. \E S : l[k] \in Seq(S)
    BY ListingsAssumption
  <2>. QED  BY <2>1, ClientsAssumption
<1>2. Clients[k] \in DOMAIN ShippedTools
  BY <1>1, ShippedListings
<1>3. PICK j \in DOMAIN shipped :
         /\ l[k][d].name = shipped[j].name
         /\ l[k][d].input_schema = shipped[j].input_schema
         /\ shipped[j].safe => l[k][d].safe = TRUE
  BY <1>1, ShippedListings
<1>4. /\ McpToolToCandidate(Clients[k], l[k][d]).vertical = Clients[k]
      /\ McpToolToCandidate(Clients[k], l[k][d]).upstream_tool = l[k][d].name
      /\ McpToolToCandidate(Clients[k], l[k][d]).input_schema = l[k][d].input_schema
      /\ McpToolToCandidate(Clients[k], l[k][d]).safe_to_expose = l[k][d].safe
  BY DEF McpToolToCandidate
<1>. QED  BY <1>2, <1>3, <1>4 DEF OfShipped

\* What mobility ships, tool by tool.
LEMMA MobilityShips ==
    LET shipped == ShippedTools["mobility"] IN
    /\ DOMAIN shipped = {1, 2}
    /\ shipped[1].name = "search"
    /\ shipped[1].description = ".."
    /\ shipped[1].input_schema = SearchInput
    /\ shipped[1].safe = TRUE
    /\ shipped[2].name = "book"
<1>1. ShippedTools["mobility"] = MobilityTools
  BY DEF ShippedTools
<1>2. DOMAIN MobilityTools = {1, 2}
  BY DEF MobilityTools
<1>3. MobilityTools[1].name = "search"
  BY DEF MobilityTools, Tool
<1>4. MobilityTools[1].description = ".."
  BY DEF MobilityTools, Tool
<1>5. MobilityTools[1].input_schema = SearchInput
  BY DEF MobilityTools, Tool
<1>6. MobilityTools[1].safe = TRUE
  BY DEF MobilityTools, Tool
<1>7. MobilityTools[2].name = "book"
  BY DEF MobilityTools, Tool
<1>. QED  BY <1>1, <1>2, <1>3, <1>4, <1>5, <1>6, <1>7

\* The same of internet.
LEMMA InternetShips ==
    LET shipped == ShippedTools["internet"] IN
    /\ DOMAIN shipped = {1, 2, 3}
    /\ shipped[1].name = "check_availability"
    /\ shipped[1].description = ".."
    /\ shipped[1].input_schema = CheckAvailabilityTool.input_schema
    /\ shipped[1].safe = TRUE
    /\ shipped[2].name = "order_plan"
    /\ shipped[3].name = "run_diagnostics_command"
<1>1. ShippedTools["internet"] = InternetTools
  BY DEF ShippedTools
<1>2. DOMAIN InternetTools = {1, 2, 3}
  BY DEF InternetTools
<1>3. InternetTools[1].name = "check_availability"
  BY DEF InternetTools, Tool, CheckAvailabilityTool
<1>4. InternetTools[1].description = ".."
  BY DEF InternetTools, Tool, CheckAvailabilityTool
<1>5. InternetTools[1].input_schema = CheckAvailabilityTool.input_schema
  BY DEF InternetTools, Tool, CheckAvailabilityTool
<1>6. InternetTools[1].safe = TRUE
  BY DEF InternetTools, Tool, CheckAvailabilityTool
<1>7. InternetTools[2].name = "order_plan"
  BY DEF InternetTools, Tool, OrderPlanTool
<1>8. InternetTools[3].name = "run_diagnostics_command"
  BY DEF InternetTools, Tool, RunDiagnosticsCommandTool
<1>. QED  BY <1>1, <1>2, <1>3, <1>4, <1>5, <1>6, <1>7, <1>8

\* The same of insurance.
LEMMA InsuranceShips ==
    LET shipped == ShippedTools["insurance"] IN
    /\ DOMAIN shipped = {1, 2, 3}
    /\ shipped[1].name = "quote"
    /\ shipped[1].description = ".."
    /\ shipped[1].input_schema = Arguments(QuoteProperties, QuoteRequired)
    /\ shipped[1].safe = TRUE
    /\ shipped[2].name = "bind_policy"
    /\ shipped[3].name = "quote_with_ssn"
<1>1. ShippedTools["insurance"] = InsuranceTools
  BY DEF ShippedTools
<1>2. DOMAIN InsuranceTools = {1, 2, 3}
  BY DEF InsuranceTools
<1>3. InsuranceTools[1].name = "quote"
  BY DEF InsuranceTools, Tool
<1>4. InsuranceTools[1].description = ".."
  BY DEF InsuranceTools, Tool
<1>5. InsuranceTools[1].input_schema = Arguments(QuoteProperties, QuoteRequired)
  BY DEF InsuranceTools, Tool, QuoteInput
<1>6. InsuranceTools[1].safe = TRUE
  BY DEF InsuranceTools, Tool
<1>7. InsuranceTools[2].name = "bind_policy"
  BY DEF InsuranceTools, Tool, BindPolicyTool
<1>8. InsuranceTools[3].name = "quote_with_ssn"
  BY DEF InsuranceTools, Tool
<1>. QED  BY <1>1, <1>2, <1>3, <1>4, <1>5, <1>6, <1>7, <1>8

\* A vertical ships one tool of a name.
LEMMA ShippedSchemas ==
    ASSUME NEW c, OfShipped(c)
    PROVE  /\ c.vertical = "mobility" /\ c.upstream_tool = "search" => c.input_schema = SearchInput
           /\ c.vertical = "internet" /\ c.upstream_tool = "check_availability"
                => c.input_schema = CheckAvailabilityTool.input_schema
           /\ c.vertical = "insurance" /\ c.upstream_tool = "quote"
                => c.input_schema = Arguments(QuoteProperties, QuoteRequired)
<1>1. PICK j \in DOMAIN ShippedTools[c.vertical] :
         LET tool == ShippedTools[c.vertical][j] IN
         c.upstream_tool = tool.name /\ c.input_schema = tool.input_schema
  BY DEF OfShipped
<1>2. CASE c.vertical = "mobility" /\ c.upstream_tool = "search"
  <2>1. j = 1
    BY <1>1, <1>2, MobilityShips
  <2>. QED  BY <1>1, <1>2, <2>1, MobilityShips
<1>3. CASE c.vertical = "internet" /\ c.upstream_tool = "check_availability"
  <2>1. j = 1
    BY <1>1, <1>3, InternetShips
  <2>. QED  BY <1>1, <1>3, <2>1, InternetShips
<1>4. CASE c.vertical = "insurance" /\ c.upstream_tool = "quote"
  <2>1. j = 1
    BY <1>1, <1>4, InsuranceShips
  <2>. QED  BY <1>1, <1>4, <2>1, InsuranceShips
<1>. QED  BY <1>2, <1>3, <1>4

\* The default mapping for a key.
DefaultOf(key) ==
    CASE key = <<"mobility", "search", "1.0">> -> Mapped("search_mobility_options")
      [] key = <<"internet", "check_availability", "1.0">> -> Mapped("compare_internet_plans")
      [] key = <<"insurance", "quote", "1.0">> -> Mapped("compare_insurance_offers")
      [] OTHER -> None

\* A candidate's mapping is the default for its key.
LEMMA MappingIsDefault ==
    ASSUME NEW c \in Candidates
    PROVE  MappingOf(c) = DefaultOf(MappingKey(c))
<1>. DEFINE key == MappingKey(c)
<1>1. key \in Keys
  BY DEF Candidates, MappingKey, Keys
<1>2. MappingOf(c) = DEFAULT_APPROVED_PUBLIC_MAPPINGS[key]
  BY DefaultsInForce DEF MappingOf, Mappings, Falsy
<1>. HIDE DEF key
<1>3. MappingOf(c) = DefaultOf(key)
  BY <1>1, <1>2 DEF DEFAULT_APPROVED_PUBLIC_MAPPINGS, DefaultOf
<1>. QED  BY <1>3 DEF key

\* The three tools that are mapped, by the names they are published under.
LEMMA MappedTools ==
    ASSUME NEW c, OfShipped(c), MappingOf(c) # None
    PROVE  \/ /\ c.vertical = "mobility" /\ c.upstream_tool = "search"
              /\ c.input_schema = SearchInput
              /\ MappingOf(c).public_name = "search_mobility_options"
           \/ /\ c.vertical = "internet" /\ c.upstream_tool = "check_availability"
              /\ c.input_schema = CheckAvailabilityTool.input_schema
              /\ MappingOf(c).public_name = "compare_internet_plans"
           \/ /\ c.vertical = "insurance" /\ c.upstream_tool = "quote"
              /\ c.input_schema = Arguments(QuoteProperties, QuoteRequired)
              /\ MappingOf(c).public_name = "compare_insurance_offers"
<1>. DEFINE key == MappingKey(c)
<1>1. key = <<c.vertical, c.upstream_tool, c.internal_version>>
  BY DEF MappingKey
<1>2. MappingOf(c) = DefaultOf(key)
  BY MappingIsDefault DEF OfShipped
<1>. HIDE DEF key
<1>3. \A n : Mapped(n).public_name = n
  BY DEF Mapped
<1>4. \/ /\ c.vertical = "mobility" /\ c.upstream_tool = "search"
         /\ MappingOf(c) = Mapped("search_mobility_options")
      \/ /\ c.vertical = "internet" /\ c.upstream_tool = "check_availability"
         /\ MappingOf(c) = Mapped("compare_internet_plans")
      \/ /\ c.vertical = "insurance" /\ c.upstream_tool = "quote"
         /\ MappingOf(c) = Mapped("compare_insurance_offers")
  BY <1>1, <1>2 DEF DefaultOf
<1>. QED  BY <1>3, <1>4, ShippedSchemas

\* What a mapped tool's schema admits its handler answers, and echoes, unless a
\* number is too large for it.
LEMMA HandlersHonourSchemas ==
    ASSUME NEW c, OfShipped(c), MappingOf(c) # None,
           NEW arguments \in ArgumentSets, ValidArguments(arguments, c.input_schema)
    PROVE  Honours(ShippedCall(c.vertical, c.upstream_tool, arguments), c.vertical, arguments)
<1>1. CASE c.vertical = "mobility" /\ c.upstream_tool = "search" /\ c.input_schema = SearchInput
  <2>1. ShippedCall(c.vertical, c.upstream_tool, arguments) = Search(arguments)
    BY <1>1 DEF ShippedCall, MobilityCall
  <2>. QED  BY <1>1, <2>1, SearchHonours
<1>2. CASE /\ c.vertical = "internet" /\ c.upstream_tool = "check_availability"
           /\ c.input_schema = CheckAvailabilityTool.input_schema
  <2>1. ShippedCall(c.vertical, c.upstream_tool, arguments)
           = InternetCall("check_availability", arguments)
    BY <1>2 DEF ShippedCall
  <2>. QED  BY <1>2, <2>1, CheckAvailabilityHonours
<1>3. CASE /\ c.vertical = "insurance" /\ c.upstream_tool = "quote"
           /\ c.input_schema = Arguments(QuoteProperties, QuoteRequired)
  <2>1. ShippedCall(c.vertical, c.upstream_tool, arguments) = InsuranceCall("quote", arguments)
    BY <1>3 DEF ShippedCall
  <2>. QED  BY <1>3, <2>1, QuoteHonours
<1>. QED  BY <1>1, <1>2, <1>3, MappedTools

\* The schema of a mapped tool admits what the sandbox page fills in for it, and
\* no number of it is too large.
LEMMA TemplatesAreValid ==
    ASSUME NEW c, OfShipped(c), MappingOf(c) # None
    PROVE  LET template == ArgumentTemplate[MappingOf(c).public_name] IN
           ValidArguments(template, c.input_schema) /\ ~TooLarge(template)
<1>0. FloatMax \in Int /\ FloatMax >= 99999
  BY ArgumentsAssumption
<1>1. /\ ValidArguments(ArgumentTemplate["search_mobility_options"], SearchInput)
      /\ ~TooLarge(ArgumentTemplate["search_mobility_options"])
  <2>. DEFINE template == ArgumentTemplate["search_mobility_options"]
  <2>1. /\ DOMAIN template = {"origin", "destination", "date", "passengers"}
        /\ \A key \in DOMAIN template \ {"passengers"} : template[key].kind = "text"
        /\ template["passengers"].kind = "number" /\ template["passengers"].n = 1
    BY DEF ArgumentTemplate, Text, Number
  <2>. HIDE DEF template
  <2>2. ValidArguments(template, SearchInput)
    BY <2>1, SearchArguments
  <2>3. ~TooLarge(template)
    BY <1>0, <2>1 DEF TooLarge
  <2>. QED  BY <2>2, <2>3 DEF template
<1>2. /\ ValidArguments(ArgumentTemplate["compare_internet_plans"],
                        CheckAvailabilityTool.input_schema)
      /\ ~TooLarge(ArgumentTemplate["compare_internet_plans"])
  <2>. DEFINE template == ArgumentTemplate["compare_internet_plans"]
  <2>1. /\ DOMAIN template = {"address", "postal_code", "desired_speed_mbps"}
        /\ \A key \in DOMAIN template \ {"desired_speed_mbps"} : template[key].kind = "text"
        /\ template["desired_speed_mbps"].kind = "number"
        /\ template["desired_speed_mbps"].n = 100
    <3>1. template = PlanArguments
      BY DEF ArgumentTemplate
    <3>. HIDE DEF template
    <3>2. DOMAIN PlanArguments = {"address", "postal_code", "desired_speed_mbps"}
      BY DEF PlanArguments
    <3>3. PlanArguments["address"].kind = "text" /\ PlanArguments["postal_code"].kind = "text"
      BY DEF PlanArguments, Text
    <3>4. /\ PlanArguments["desired_speed_mbps"].kind = "number"
          /\ PlanArguments["desired_speed_mbps"].n = 100
      BY DEF PlanArguments, Number
    <3>. QED  BY <3>1, <3>2, <3>3, <3>4
  <2>. HIDE DEF template
  <2>2. ValidArguments(template, CheckAvailabilityTool.input_schema)
    BY <2>1, CheckAvailabilityArguments
  <2>3. ~TooLarge(template)
    BY <1>0, <2>1 DEF TooLarge
  <2>. QED  BY <2>2, <2>3 DEF template
<1>3. /\ ValidArguments(ArgumentTemplate["compare_insurance_offers"],
                        Arguments(QuoteProperties, QuoteRequired))
      /\ ~TooLarge(ArgumentTemplate["compare_insurance_offers"])
  <2>. DEFINE template == ArgumentTemplate["compare_insurance_offers"]
  <2>1. /\ DOMAIN template = {"product_type", "coverage_amount_eur", "customer_age"}
        /\ template["product_type"] = Text("travel") /\ template["product_type"].kind = "text"
        /\ template["coverage_amount_eur"].kind = "number"
        /\ template["coverage_amount_eur"].n = 10000
        /\ template["customer_age"].kind = "number" /\ template["customer_age"].n = 35
    BY DEF ArgumentTemplate, Text, Number
  <2>. HIDE DEF template
  <2>2. ValidArguments(template, Arguments(QuoteProperties, QuoteRequired))
    BY <2>1, QuoteArguments
  <2>3. ~TooLarge(template)
    BY <1>0, <2>1 DEF TooLarge
  <2>. QED  BY <2>2, <2>3 DEF template
<1>. QED  BY <1>1, <1>2, <1>3, MappedTools

-----------------------------------------------------------------------------
(* Listing and calling.                                                    *)

\* The tools listed under a filter are those the filter's vertical is routed.
LEMMA ListingElements ==
    ASSUME IInv, NEW v, NEW tool
    PROVE  tool \in {ListTools(v)[i] : i \in DOMAIN ListTools(v)}
             <=> \E t \in 1..Len(tools) :
                    tool = tools[t] /\ (v = None \/ RoutedTo(v, tools[t]))
<1>1. DOMAIN tools = 1..Len(tools) /\ DOMAIN tools \in SUBSET Int /\ IsFiniteSet(DOMAIN tools)
  BY IndicesType DEF IInv, TypeOK
<1>2. CASE v = None
  BY <1>1, <1>2 DEF ListTools
<1>3. CASE v # None
  <2>. DEFINE own == {t \in DOMAIN tools : RoutedTo(v, tools[t])}
  <2>1. ListTools(v) = Picked(tools, own)
    BY <1>3 DEF ListTools
  <2>2. own \in SUBSET Int /\ IsFiniteSet(own)
    BY <1>1, FS_Subset
  <2>3. \A t \in own : t \in 1..Len(tools) /\ RoutedTo(v, tools[t])
    BY <1>1
  <2>4. \A t \in 1..Len(tools) : RoutedTo(v, tools[t]) => t \in own
    BY <1>1
  <2>. HIDE DEF own
  <2>5. /\ DOMAIN Picked(tools, own) = 1..Cardinality(own)
        /\ \A k \in 1..Cardinality(own) : Picked(tools, own)[k] = tools[Nth(own, k)]
        /\ \A t \in own : /\ Rank(own, t) \in DOMAIN Picked(tools, own)
                          /\ Picked(tools, own)[Rank(own, t)] = tools[t]
    BY <2>2, PickedElements
  <2>6. \A k \in 1..Cardinality(own) : Nth(own, k) \in own
    BY <2>2, NthHasRank
  <2>. QED  BY <1>3, <2>1, <2>3, <2>4, <2>5, <2>6
<1>. QED  BY <1>2, <1>3

\* A tool of the registry is found under its name, with its route.
LEMMA ToolIsFound ==
    ASSUME IInv, NEW t \in 1..Len(tools)
    PROVE  /\ tools[t].name \in PublicNames
           /\ GetTool(tools[t].name) = tools[t] /\ tools[t] # None
<1>. DEFINE n == tools[t].name
            named == {u \in 1..Len(tools) : tools[u].name = n}
<1>1. tools[t] \in PublicTools
  <2>1. tools \in Seq(PublicTools)
    BY DEF IInv, TypeOK
  <2>. QED  BY <2>1
<1>2. n \in PublicNames /\ tools[t] # None
  BY <1>1, NoneAssumption DEF PublicTools
<1>3. t \in Int /\ named = {t}
  BY DEF IInv, NamesAreSingle
<1>4. (CHOOSE u \in named : \A w \in named : w <= u) = t
  BY <1>3
<1>. QED  BY <1>2, <1>3, <1>4 DEF GetTool

\* A name is found only if a tool has it.
LEMMA FoundIsTool ==
    ASSUME IInv, NEW n \in PublicNames, GetTool(n) # None
    PROVE  \E t \in 1..Len(tools) : tools[t] = GetTool(n) /\ tools[t].name = n
<1>1. \E t \in 1..Len(tools) : tools[t].name = n
  BY DEF GetTool
<1>. QED  BY <1>1, ToolIsFound

\* A name that was not listed is unknown to a call.
LEMMA UnlistedIsUnknown ==
    ASSUME IInv, NEW s, NEW name, NEW arguments,
           \A t \in 1..Len(tools) :
               tools[t].name = name => FilterOf(s) # None /\ ~RoutedTo(FilterOf(s), tools[t])
    PROVE  RefusalCode(s, name, arguments) = "TOOL_NOT_FOUND"
<1>1. CASE ToolOf(name) = None
  BY <1>1 DEF RefusalCode
<1>2. CASE ToolOf(name) # None
  <2>1. name \in PublicNames /\ GetTool(name) # None
    BY <1>2 DEF ToolOf
  <2>2. PICK t \in 1..Len(tools) : tools[t].name = name
    BY <2>1, FoundIsTool
  <2>3. FilterOf(s) # None /\ ~RoutedTo(FilterOf(s), tools[t])
    BY <2>2
  <2>4. RouteOf(name) = None \/ RouteOf(name).vertical # FilterOf(s)
    BY <2>1, <2>2, <2>3 DEF RoutedTo, RouteOf
  <2>5. Blocked(s, name)
    BY <2>3, <2>4 DEF Blocked
  <2>. QED  BY <2>5 DEF RefusalCode
<1>. QED  BY <1>1, <1>2

\* A tool that was listed is of a candidate that a client listed, found by a
\* call, and let through by the filter.
LEMMA ListedIsKnown ==
    ASSUME IInv, OfferedBySome, NEW s, NEW t \in 1..Len(tools),
           FilterOf(s) = None \/ RoutedTo(FilterOf(s), tools[t])
    PROVE  LET name == tools[t].name IN
           /\ ~Blocked(s, name) /\ ToolOf(name) = tools[t] /\ ToolOf(name) # None
           /\ RouteOf(name) # None
           /\ FilterOf(s) # None => RouteOf(name).vertical = FilterOf(s)
           /\ \E k \in 1..Len(Clients) :
                 /\ listing[k] # Unreachable
                 /\ \E d \in 1..Len(listing[k]) :
                       LET c == McpToolToCandidate(Clients[k], listing[k][d]) IN
                       /\ OfShipped(c) /\ MappingOf(c) # None
                       /\ name = MappingOf(c).public_name
                       /\ tools[t].input_schema = c.input_schema
                       /\ RouteOf(name).vertical = c.vertical
                       /\ RouteOf(name).upstream_tool = c.upstream_tool
                       /\ c.vertical = Clients[k]
<1>. DEFINE name == tools[t].name
<1>1. name \in PublicNames /\ GetTool(name) = tools[t] /\ tools[t] # None
  BY ToolIsFound
<1>. HIDE DEF name
<1>2. RouteOf(name) = GetRoute(name) /\ ToolOf(name) = tools[t]
  BY <1>1 DEF RouteOf, ToolOf
<1>3. PICK i \in 1..Len(candidates) :
         /\ First(candidates, i, name)
         /\ GetRoute(name) = RouteMade(i) /\ GetTool(name) = ToolMade(i)
  BY <1>1, TwoDictsAgree
<1>4. GetRoute(name) # None
  BY <1>1, TwoDictsAgree
<1>5. ~Blocked(s, name) /\ (FilterOf(s) # None => RouteOf(name).vertical = FilterOf(s))
  BY <1>2, <1>4 DEF Blocked, RoutedTo, name
<1>6. PICK k \in 1..Len(Clients) :
         /\ listing[k] # Unreachable
         /\ \E d \in 1..Len(listing[k]) :
               candidates[i] = McpToolToCandidate(Clients[k], listing[k][d])
  BY DEF OfferedBySome
<1>7. PICK d \in 1..Len(listing[k]) :
         candidates[i] = McpToolToCandidate(Clients[k], listing[k][d])
  BY <1>6
<1>. DEFINE c == McpToolToCandidate(Clients[k], listing[k][d])
<1>8. c \in Candidates /\ MappingOf(c) # None /\ c = candidates[i]
      /\ name = MappingOf(c).public_name
  BY <1>3, <1>7 DEF IInv, TypeOK, First, Eligible
<1>11. OfShipped(c)
  BY <1>6, <1>8, ListedIsShipped DEF IInv, Phases
<1>9. c.vertical = Clients[k]
  BY DEF McpToolToCandidate
<1>. HIDE DEF c
<1>10. /\ tools[t].input_schema = c.input_schema
       /\ RouteOf(name).vertical = c.vertical
       /\ RouteOf(name).upstream_tool = c.upstream_tool
  BY <1>1, <1>2, <1>3, <1>8 DEF RouteMade, ToRoute, ToolMade, ToPublicTool
<1>. QED  BY <1>1, <1>2, <1>4, <1>5, <1>6, <1>8, <1>9, <1>10, <1>11 DEF c, name

\* The result of a call that the proxy sends on.
Replied(reply) ==
    IF reply.is_error THEN Refused("UPSTREAM_ERROR") ELSE [ok |-> TRUE, data |-> reply]

\* So a call is answered as the listing tells.
LEMMA CallAgrees ==
    ASSUME SInv, NEW s \in Sessions, Calling(s), NEW name, NEW arguments \in ArgumentSets,
           NEW answer,
           \/ /\ RefusalCode(s, name, arguments) # None
              /\ answer = Refused(RefusalCode(s, name, arguments))
           \/ /\ RefusalCode(s, name, arguments) = None
              /\ answer = Replied(ShippedCall(RouteOf(name).vertical,
                                              RouteOf(name).upstream_tool, arguments))
    PROVE  Agrees(FilterOf(s), view[s], [name |-> name, arguments |-> arguments], answer)
<1>. DEFINE f == FilterOf(s)
            listed == {view[s][i] : i \in DOMAIN view[s]}
            named == {tool \in listed : tool.name = name}
<1>1. view[s] = ListTools(f) /\ listing \in Listings
  BY DEF SInv, SessionFits, Calling, IInv, Phases
<1>2. ASSUME NEW tool
      PROVE  tool \in named <=> \E t \in 1..Len(tools) :
                /\ tool = tools[t] /\ tools[t].name = name
                /\ f = None \/ RoutedTo(f, tools[t])
  <2>. HIDE DEF f
  <2>1. tool \in {ListTools(f)[i] : i \in DOMAIN ListTools(f)} <=>
           \E t \in 1..Len(tools) : tool = tools[t] /\ (f = None \/ RoutedTo(f, tools[t]))
    BY ListingElements DEF SInv
  <2>2. tool \in listed <=> \E t \in 1..Len(tools) :
            tool = tools[t] /\ (f = None \/ RoutedTo(f, tools[t]))
    BY <1>1, <2>1
  <2>. HIDE DEF listed
  <2>. QED  BY <2>2
<1>3. None \notin RefusalCodes
  BY NoneIsNoCode
<1>4. CASE named = {}
  <2>1. RefusalCode(s, name, arguments) = "TOOL_NOT_FOUND"
    BY <1>2, <1>4, UnlistedIsUnknown DEF SInv
  <2>2. answer = Refused("TOOL_NOT_FOUND")
    BY <1>3, <2>1 DEF RefusalCodes
  <2>. QED  BY <1>4, <2>2 DEF Agrees
<1>5. CASE named # {}
  <2>1. PICK t \in 1..Len(tools) :
           /\ tools[t] \in named /\ tools[t].name = name
           /\ f = None \/ RoutedTo(f, tools[t])
    BY <1>2, <1>5
  <2>2. /\ ~Blocked(s, name) /\ ToolOf(name) = tools[t] /\ ToolOf(name) # None
        /\ RouteOf(name) # None
        /\ f # None => RouteOf(name).vertical = f
    BY <2>1, ListedIsKnown DEF SInv
  <2>3. PICK k \in 1..Len(Clients) :
           /\ listing[k] # Unreachable
           /\ \E d \in 1..Len(listing[k]) :
                 LET c == McpToolToCandidate(Clients[k], listing[k][d]) IN
                 /\ OfShipped(c) /\ MappingOf(c) # None
                 /\ tools[t].input_schema = c.input_schema
                 /\ RouteOf(name).vertical = c.vertical
                 /\ RouteOf(name).upstream_tool = c.upstream_tool
                 /\ c.vertical = Clients[k]
    BY <2>1, ListedIsKnown DEF SInv
  <2>4. PICK d \in 1..Len(listing[k]) :
           LET c == McpToolToCandidate(Clients[k], listing[k][d]) IN
           /\ OfShipped(c) /\ MappingOf(c) # None
           /\ tools[t].input_schema = c.input_schema
           /\ RouteOf(name).vertical = c.vertical
           /\ RouteOf(name).upstream_tool = c.upstream_tool
           /\ c.vertical = Clients[k]
    BY <2>3
  <2>. DEFINE c == McpToolToCandidate(Clients[k], listing[k][d])
              reply == ShippedCall(RouteOf(name).vertical, RouteOf(name).upstream_tool,
                                   arguments)
  <2>5. CASE ~ValidArguments(arguments, tools[t].input_schema)
    <3>1. RefusalCode(s, name, arguments) = "INVALID_ARGUMENTS"
      BY <2>2, <2>5 DEF RefusalCode
    <3>2. answer = Refused("INVALID_ARGUMENTS")
      BY <1>3, <3>1 DEF RefusalCodes
    <3>. QED  BY <1>5, <2>1, <2>5, <3>2 DEF Agrees
  <2>6. CASE ValidArguments(arguments, tools[t].input_schema)
    <3>1. RefusalCode(s, name, arguments) = None
      BY <2>2, <2>4, <2>6, ClientsAssumption DEF RefusalCode
    <3>2. answer = Replied(reply)
      BY <3>1
    <3>3. reply = ShippedCall(c.vertical, c.upstream_tool, arguments)
      BY <2>4
    <3>4. OfShipped(c) /\ MappingOf(c) # None /\ ValidArguments(arguments, c.input_schema)
      BY <2>4, <2>6
    <3>5. Honours(reply, c.vertical, arguments)
      <4>. HIDE DEF reply, c
      <4>. QED  BY <3>3, <3>4, HandlersHonourSchemas
    <3>6. c.vertical = RouteOf(name).vertical
      BY <2>4
    <3>. HIDE DEF reply, c
    <3>7. \/ TooLarge(arguments) /\ answer = Refused("UPSTREAM_ERROR")
          \/ /\ answer.ok
             /\ f # None => answer.data.vertical = f
             /\ \A key \in DOMAIN arguments : answer.data.query[key] = arguments[key]
      BY <2>2, <3>2, <3>5, <3>6 DEF Replied, Honours
    <3>. QED  BY <1>5, <2>1, <2>6, <3>7 DEF Agrees
  <2>. QED  BY <2>5, <2>6
<1>. QED  BY <1>4, <1>5

-----------------------------------------------------------------------------
(* The invariant.                                                          *)

\* A session that a step leaves alone keeps what is known of it, unless the
\* catalog changes, and then it has not begun.
LEMMA SessionKept ==
    ASSUME NEW s, SessionFits(s),
           surface'[s] = surface[s], view'[s] = view[s],
           call'[s] = call[s], told'[s] = told[s],
           UNCHANGED vars \/ ~Ready
    PROVE  SessionFits(s)'
<1>1. FilterOf(s)' = FilterOf(s)
  BY DEF FilterOf
<1>2. CASE surface[s] = None
  BY <1>2 DEF SessionFits
<1>3. CASE surface[s] # None
  <2>1. Ready /\ UNCHANGED vars
    BY <1>3 DEF SessionFits
  <2>2. ListTools(FilterOf(s)') = ListTools(FilterOf(s))
    BY <1>1
  <2>3. Ready' /\ ListTools(FilterOf(s))' = ListTools(FilterOf(s))
    BY <1>1, <2>1 DEF Ready, vars, ListTools, RoutedTo, GetRoute
  <2>. QED  BY <1>1, <2>3 DEF SessionFits
<1>. QED  BY <1>2, <1>3

\* The steps of the builder and of the clients keep what is known of sessions.
LEMMA SessionStep ==
    ASSUME SInv, [SystemNext]_systemVars
    PROVE  SessionShapes' /\ \A s \in Sessions : SessionFits(s)'
<1>1. CASE Build \/ UNCHANGED systemVars
  <2>1. UNCHANGED sessionVars /\ [Next]_vars
    BY <1>1 DEF Build, systemVars
  <2>2. UNCHANGED vars \/ ~Ready
    BY <2>1, ReadyIsFinal DEF SInv
  <2>. QED  BY <2>1, <2>2, SessionKept DEF SInv, SessionShapes, sessionVars
<1>2. ASSUME NEW s \in Sessions, NEW reached \in Surfaces, ListToolsFor(s, reached)
      PROVE  SessionShapes' /\ \A q \in Sessions : SessionFits(q)'
  <2>1. /\ UNCHANGED vars /\ Ready /\ surface[s] = None
        /\ view' = [view EXCEPT ![s] = ListTools(FilterOf(s)')]
        /\ surface' = [surface EXCEPT ![s] = reached]
        /\ UNCHANGED <<call, told>>
    BY <1>2 DEF ListToolsFor
  <2>2. view'[s] = ListTools(FilterOf(s)') /\ told'[s] = None
    BY <2>1 DEF SInv, SessionShapes, SessionFits
  <2>3. Ready' /\ ListTools(FilterOf(s))' = ListTools(FilterOf(s)')
    BY <2>1 DEF Ready, vars, ListTools, RoutedTo, GetRoute
  <2>4. SessionFits(s)'
    BY <2>2, <2>3 DEF SessionFits
  <2>5. ASSUME NEW q \in Sessions \ {s}  PROVE SessionFits(q)'
    BY <2>1, SessionKept DEF SInv, SessionShapes
  <2>. QED  BY <2>1, <2>4, <2>5 DEF SInv, SessionShapes
<1>3. ASSUME NEW s \in Sessions, NEW name, NEW arguments \in ArgumentSets,
             Refuse(s, name, arguments) \/ Invoke(s, name, arguments)
      PROVE  SessionShapes' /\ \A q \in Sessions : SessionFits(q)'
  <2>. DEFINE asked == [name |-> name, arguments |-> arguments]
  <2>1. /\ UNCHANGED vars /\ UNCHANGED <<surface, view>> /\ Calling(s)
        /\ call' = [call EXCEPT ![s] = asked]
    BY <1>3 DEF Refuse, Invoke, Told
  <2>2. PICK answer :
           /\ told' = [told EXCEPT ![s] = answer]
           /\ \/ /\ RefusalCode(s, name, arguments) # None
                 /\ answer = Refused(RefusalCode(s, name, arguments))
              \/ /\ RefusalCode(s, name, arguments) = None
                 /\ answer = Replied(ShippedCall(RouteOf(name).vertical,
                                                 RouteOf(name).upstream_tool, arguments))
    BY <1>3 DEF Refuse, Invoke, Told, Replied
  <2>3. Agrees(FilterOf(s), view[s], asked, answer)
    BY <2>1, <2>2, CallAgrees
  <2>4. call'[s] = asked /\ told'[s] = answer
    BY <2>1, <2>2 DEF SInv, SessionShapes
  <2>5. FilterOf(s)' = FilterOf(s) /\ view'[s] = view[s] /\ surface'[s] = surface[s]
    BY <2>1 DEF FilterOf
  <2>6. Ready' /\ ListTools(FilterOf(s))' = ListTools(FilterOf(s))
    BY <2>1, <2>5 DEF SInv, SessionFits, Calling, Ready, vars, ListTools, RoutedTo, GetRoute
  <2>7. surface[s] # None /\ view[s] = ListTools(FilterOf(s))
    BY <2>1 DEF SInv, SessionFits, Calling
  <2>. HIDE DEF asked
  <2>8. SessionFits(s)'
    BY <2>3, <2>4, <2>5, <2>6, <2>7 DEF SessionFits
  <2>9. ASSUME NEW q \in Sessions \ {s}  PROVE SessionFits(q)'
    BY <2>1, <2>2, SessionKept DEF SInv, SessionShapes
  <2>. QED  BY <2>1, <2>2, <2>8, <2>9 DEF SInv, SessionShapes
<1>. QED  BY <1>1, <1>2, <1>3 DEF SystemNext

\* Every step of the builder, and of the clients of the proxy, keeps it.
LEMMA SInvStep == SInv /\ [SystemNext]_systemVars => SInv'
<1>. SUFFICES ASSUME SInv, [SystemNext]_systemVars PROVE SInv'
  OBVIOUS
<1>1. [Next]_vars
  BY DEF SystemNext, Build, ListToolsFor, Refuse, Invoke, Told, systemVars
<1>2. IInv' /\ SessionShapes' /\ \A s \in Sessions : SessionFits(s)'
  BY <1>1, IInvStep, SessionStep DEF SInv
<1>3. CASE ListCandidateTools
  BY <1>2, <1>3, ListingOffers, ListingIsSource DEF SInv
<1>4. CASE ~ListCandidateTools
  <2>1. UNCHANGED <<listing, client, candidates>>
    BY <1>1, <1>4
    DEF Next, ListingRaises, BuildFromCandidates, KeepRejection, RejectUnmapped,
        RejectDuplicate, Reject, PublishCandidate, Snapshot, vars
  <2>. QED  BY <1>2, <2>1 DEF SInv, OfferedOnce, Offered, OfferedBySome
<1>. QED  BY <1>3, <1>4

\* The invariant holds before the first client is listed.
LEMMA SInvInit == SystemInit => SInv
<1>. SUFFICES ASSUME SystemInit PROVE SInv
  OBVIOUS
<1>1. client = 1 /\ Len(candidates) = 0 /\ \A v : Offered(v) = {}
  BY DEF SystemInit, Init, Offered
<1>2. ASSUME NEW k \in 1..Len(Clients)  PROVE ~(k < client)
  BY <1>1
<1>3. ASSUME NEW v  PROVE IsFiniteSet(Offered(v)) /\ Cardinality(Offered(v)) = 0
  BY <1>1, FS_EmptySet
<1>4. OfferedOnce /\ OfferedBySome
  BY <1>1, <1>2, <1>3 DEF OfferedOnce, OfferedBySome
<1>5. SessionShapes /\ \A s \in Sessions : SessionFits(s)
  BY DEF SystemInit, SessionShapes, SessionFits
<1>. QED  BY <1>4, <1>5, IInvInit DEF SystemInit, SInv

\* The invariant of the builder, with what it owes to the listings and what
\* its clients owe to it, holds of every reachable state.
THEOREM SystemInvariance == SystemSpec => []SInv
BY SInvInit, SInvStep, PTL DEF SystemSpec, systemVars

\* Whatever the verticals list and the proxy maps, on either surface and under
\* any filter, what a client was listed tells what a call is answered.
THEOREM ListingIsCallable == SystemSpec => []ListingTellsWhatIsCallable
<1>1. SInv => ListingTellsWhatIsCallable
  BY DEF SInv, SessionFits, Agrees, ListingTellsWhatIsCallable, ListedTools
<1>. QED  BY <1>1, SystemInvariance, PTL

\* Whatever the verticals list and whoever calls, the arguments the sandbox page
\* fills in for a listed tool make a call that succeeds.
THEOREM TemplatesWork == SystemSpec => []SandboxTemplatesWork
<1>1. ASSUME SInv, NEW s \in Sessions, told[s] # None,
             call[s].name \in {tool.name : tool \in ListedTools(s)},
             call[s].arguments = ArgumentTemplate[call[s].name]
      PROVE  told[s].ok
  <2>. DEFINE f == FilterOf(s)
              named == {tool \in {view[s][i] : i \in DOMAIN view[s]} : tool.name = call[s].name}
  <2>1. view[s] = ListTools(f) /\ Agrees(f, view[s], call[s], told[s])
    BY <1>1 DEF SInv, SessionFits
  <2>2. named # {}
    BY <1>1 DEF ListedTools
  <2>3. PICK tool \in named :
           IF ~ValidArguments(call[s].arguments, tool.input_schema)
           THEN told[s] = Refused("INVALID_ARGUMENTS")
           ELSE \/ TooLarge(call[s].arguments) /\ told[s] = Refused("UPSTREAM_ERROR")
                \/ told[s].ok
    BY <2>1, <2>2 DEF Agrees
  <2>4. PICK t \in 1..Len(tools) : tool = tools[t] /\ (f = None \/ RoutedTo(f, tools[t]))
    <3>. HIDE DEF f
    <3>1. tool \in {ListTools(f)[i] : i \in DOMAIN ListTools(f)}
      BY <2>1, <2>3
    <3>. QED  BY <1>1, <3>1, ListingElements DEF SInv
  <2>5. \E c : /\ OfShipped(c) /\ MappingOf(c) # None
                /\ tools[t].name = MappingOf(c).public_name
                /\ tools[t].input_schema = c.input_schema
    BY <1>1, <2>4, ListedIsKnown DEF SInv
  <2>6. call[s].arguments = ArgumentTemplate[tools[t].name]
    BY <1>1, <2>3, <2>4
  <2>7. ValidArguments(call[s].arguments, tool.input_schema) /\ ~TooLarge(call[s].arguments)
    BY <2>4, <2>5, <2>6, TemplatesAreValid
  <2>. QED  BY <2>3, <2>7
<1>2. SInv => SandboxTemplatesWork
  BY <1>1 DEF SandboxTemplatesWork
<1>. QED  BY <1>2, SystemInvariance, PTL

-----------------------------------------------------------------------------
\* The tools of a vertical in the registry, and the candidates of it that the
\* report accepts, or rejects.
Published(v) == {t \in DOMAIN tools : RoutedTo(v, tools[t])}
AcceptedOf(v) == {i \in DOMAIN results : results[i].vertical = v /\ results[i].code = Accepted}
RejectedOf(v) == {i \in DOMAIN results : results[i].vertical = v /\ results[i].code # Accepted}

\* Each tool of the registry is of one accepted candidate, and each accepted
\* candidate is one of the tools.
LEMMA AcceptedArePublished ==
    ASSUME IInv, NEW v
    PROVE  /\ IsFiniteSet(Published(v)) /\ IsFiniteSet(AcceptedOf(v))
           /\ Cardinality(Published(v)) = Cardinality(AcceptedOf(v))
<1>0. ASSUME NEW t \in 1..Len(tools)  PROVE tools[t].name \in PublicNames
  <2>1. tools \in Seq(PublicTools)
    BY DEF IInv, TypeOK
  <2>2. tools[t] \in PublicTools
    BY <2>1
  <2>. QED  BY <2>2 DEF PublicTools
<1>1. /\ DOMAIN tools = 1..Len(tools) /\ Len(tools) \in Nat
      /\ DOMAIN results = 1..Len(results) /\ Len(results) \in Nat
      /\ at \in Nat \ {0} /\ Len(results) = at - 1
  BY DEF IInv, TypeOK, ResultsTell
<1>2. IsFiniteSet(Published(v)) /\ IsFiniteSet(AcceptedOf(v))
  <2>1. IsFiniteSet(1..Len(tools)) /\ IsFiniteSet(1..Len(results))
    BY <1>1, FS_Interval
  <2>. QED  BY <1>1, <2>1, FS_Subset DEF Published, AcceptedOf
<1>. DEFINE MadeOf(t, i) == /\ First(candidates, i, tools[t].name)
                            /\ tools[t] = ToolMade(i)
                            /\ routes[tools[t].name] = RouteMade(i)
            source == [t \in Published(v) |-> CHOOSE i \in 1..(at - 1) : MadeOf(t, i)]
<1>3. ASSUME NEW t \in 1..Len(tools)  PROVE \E i \in 1..(at - 1) : MadeOf(t, i)
  <2>1. PICK i \in 1..(at - 1) : First(candidates, i, tools[t].name) /\ tools[t] = ToolMade(i)
    BY DEF IInv, ToolsAreFirst
  <2>2. tools[t].name \in PublicNames
    BY <1>0
  <2>3. routes[tools[t].name] # None
    BY <2>1, <2>2 DEF IInv, RoutesAreFirst, First
  <2>4. PICK j \in 1..(at - 1) : /\ First(candidates, j, tools[t].name)
                                 /\ routes[tools[t].name] = RouteMade(j)
    BY <2>2, <2>3 DEF IInv, RoutesAreFirst
  <2>5. i = j
    BY <1>1, <2>1, <2>4, FirstIsOne
  <2>. QED  BY <2>1, <2>4, <2>5
<1>. HIDE DEF MadeOf
<1>4. ASSUME NEW t \in Published(v)
      PROVE  source[t] \in 1..(at - 1) /\ MadeOf(t, source[t])
  BY <1>1, <1>3 DEF Published
<1>. HIDE DEF source
<1>5. ASSUME NEW t \in Published(v)  PROVE source[t] \in AcceptedOf(v)
  <2>. DEFINE i == source[t]
  <2>1. i \in 1..(at - 1) /\ MadeOf(t, i)
    BY <1>4
  <2>. HIDE DEF i
  <2>2. RouteMade(i).vertical = v
    BY <2>1 DEF Published, RoutedTo, GetRoute, MadeOf
  <2>3. candidates[i].vertical = v
    BY <2>2 DEF RouteMade, ToRoute
  <2>4. tools[t].name \in PublicNames
    BY <1>0, <1>1 DEF Published
  <2>5. i \in DOMAIN results /\ Tells(i)
    BY <1>1, <2>1 DEF IInv, ResultsTell
  <2>6. results[i].vertical = v /\ results[i].code = Accepted
    BY <2>1, <2>3, <2>4, <2>5 DEF Tells, MadeOf
  <2>. QED  BY <2>5, <2>6 DEF AcceptedOf, i
<1>6. ASSUME NEW t \in Published(v), NEW u \in Published(v), source[t] = source[u]
      PROVE  t = u
  <2>1. tools[t] = tools[u]
    BY <1>4, <1>6 DEF MadeOf
  <2>. QED  BY <1>1, <2>1 DEF Published, IInv, NamesAreSingle
<1>7. ASSUME NEW i \in AcceptedOf(v)  PROVE \E t \in Published(v) : source[t] = i
  <2>1. /\ i \in 1..(at - 1) /\ Tells(i)
        /\ results[i].vertical = v /\ results[i].code = Accepted
    BY <1>1 DEF AcceptedOf, IInv, ResultsTell
  <2>2. PICK n \in PublicNames : First(candidates, i, n)
    BY <2>1 DEF Tells
  <2>3. PICK t \in 1..Len(tools) : tools[t] = ToolMade(i)
    BY <2>1, <2>2 DEF IInv, FirstsHaveTools
  <2>4. tools[t].name = n
    BY <2>2, <2>3 DEF ToolMade, ToPublicTool, First, Eligible
  <2>5. PICK j \in 1..(at - 1) : MadeOf(t, j)
    BY <1>3
  <2>6. j = i
    BY <1>1, <2>1, <2>2, <2>4, <2>5, FirstIsOne DEF MadeOf
  <2>7. routes[tools[t].name] = RouteMade(i) /\ RouteMade(i).vertical = v
    BY <2>1, <2>5, <2>6 DEF MadeOf, RouteMade, ToRoute, Tells
  <2>8. routes[n] # None
    BY <2>1, <2>2 DEF IInv, RoutesAreFirst, First
  <2>9. t \in Published(v)
    BY <1>1, <2>4, <2>7, <2>8 DEF Published, RoutedTo, GetRoute
  <2>10. source[t] \in 1..(at - 1) /\ First(candidates, source[t], n)
    BY <1>4, <2>4, <2>9 DEF MadeOf
  <2>11. source[t] = i
    BY <1>1, <2>1, <2>2, <2>10, FirstIsOne
  <2>. QED  BY <2>9, <2>11
<1>8. /\ source \in Injection(Published(v), AcceptedOf(v))
      /\ source \in Surjection(Published(v), AcceptedOf(v))
  <2>1. source \in [Published(v) -> AcceptedOf(v)]
    BY <1>5 DEF source
  <2>. QED  BY <1>6, <1>7, <2>1 DEF Injection, Surjection, IsInjective
<1>. QED  BY <1>2, <1>8, FS_Surjection

\* Accepted, rejected and offered, of each vertical.
LEMMA CountsOfVertical ==
    ASSUME SInv, Ready, NEW k \in DOMAIN Clients
    PROVE  /\ AcceptedToolCounts(Clients[k]) + RejectedToolCounts(Clients[k])
                = Len(listing[k])
           /\ AcceptedToolCounts(Clients[k]) = Len(ListTools(Clients[k]))
<1>. DEFINE v == Clients[k]
<1>1. k \in 1..Len(Clients) /\ v \in Verticals /\ v # None
  BY ClientsAssumption, OneClientEach
<1>. HIDE DEF v
<1>2. client = Len(Clients) + 1 /\ at = Len(candidates) + 1 /\ Len(candidates) \in Nat
  BY DEF Ready, SInv, IInv, TypeOK, Phases
<1>3. Cardinality(Offered(v)) = Len(listing[k]) /\ IsFiniteSet(Offered(v))
  BY <1>1, <1>2, ClientsAssumption DEF SInv, OfferedOnce, v
<1>4. /\ DOMAIN results = 1..Len(candidates)
      /\ \A i \in DOMAIN results : results[i].vertical = candidates[i].vertical
  BY <1>2 DEF SInv, IInv, TypeOK, ResultsTell, Tells
<1>5. Offered(v) = AcceptedOf(v) \cup RejectedOf(v)
  BY <1>4 DEF Offered, AcceptedOf, RejectedOf
<1>6. AcceptedOf(v) \cap RejectedOf(v) = {}
  BY DEF AcceptedOf, RejectedOf
<1>7. IsFiniteSet(AcceptedOf(v)) /\ IsFiniteSet(RejectedOf(v))
  BY <1>3, <1>5, FS_Subset
<1>8. Cardinality(AcceptedOf(v)) + Cardinality(RejectedOf(v)) = Len(listing[k])
  BY <1>3, <1>5, <1>6, <1>7, FS_Union, FS_EmptySet, FS_CardinalityType
<1>9. /\ AcceptedToolCounts(v) = Cardinality(Published(v))
      /\ RejectedToolCounts(v) = Cardinality(RejectedOf(v))
  BY DEF AcceptedToolCounts, RejectedToolCounts, Published, RejectedOf
<1>10. /\ Cardinality(Published(v)) = Cardinality(AcceptedOf(v))
       /\ IsFiniteSet(Published(v)) /\ Cardinality(Published(v)) \in Nat
  BY AcceptedArePublished, FS_CardinalityType DEF SInv
<1>11. Len(ListTools(v)) = Cardinality(Published(v))
  <2>1. ListTools(v) = Picked(tools, Published(v))
    BY <1>1 DEF ListTools, Published
  <2>. QED  BY <1>10, <2>1 DEF Picked
<1>. QED  BY <1>8, <1>9, <1>10, <1>11 DEF v

\* Whatever the verticals list, the accepted and the rejected tools of each
\* add up to the tools it lists, and the accepted ones are those it shows.
THEOREM CountsAddUp == SystemSpec => []ToolCountsAddUp
<1>1. SInv => ToolCountsAddUp
  BY CountsOfVertical DEF ToolCountsAddUp
<1>. QED  BY <1>1, SystemInvariance, PTL
-----------------------------------------------------------------------------
(* What the validator finds in the shipped tools.                          *)

\* The walks of the validator compute what their recursions say.
LEMMA TextsEquation ==
    ASSUME NEW v \in Values
    PROVE  /\ SchemaTextValues(v) \in Seq(Strings)
           /\ v.kind = "dict" => SchemaTextValues(v) =
                 FlattenSeq([i \in DOMAIN v.entries |->
                     <<v.entries[i].key>> \o SchemaTextValues(v.entries[i].value)])
           /\ v.kind = "list" => SchemaTextValues(v) =
                 FlattenSeq([i \in DOMAIN v.items |-> SchemaTextValues(v.items[i])])
           /\ v.kind = "text" => SchemaTextValues(v) = <<v.text>>
           /\ v.kind \notin {"dict", "list", "text"} => SchemaTextValues(v) = << >>
<1>1. \A w : SchemaTextValues(w) = TextsWalk(Values)[w]
  BY DEF SchemaTextValues, TextsWalk
<1>. QED  BY <1>1, TextsOfTrees, ValuesAssumption

\* What is searched for prohibited keys.
SchemaKeys(v) == FindSchemaKeys(v, PROHIBITED_SCHEMA_KEYS)

\* The same of the search for prohibited keys.
LEMMA KeysEquation ==
    ASSUME NEW v \in Values
    PROVE  /\ SchemaKeys(v) \in Seq(Strings)
           /\ v.kind = "dict" => SchemaKeys(v) =
                 FlattenSeq([i \in DOMAIN v.entries |->
                     (IF v.entries[i].key \in PROHIBITED_SCHEMA_KEYS
                      THEN <<v.entries[i].key>> ELSE << >>)
                     \o SchemaKeys(v.entries[i].value)])
           /\ v.kind = "list" => SchemaKeys(v) =
                 FlattenSeq([i \in DOMAIN v.items |-> SchemaKeys(v.items[i])])
           /\ v.kind \notin {"dict", "list"} => SchemaKeys(v) = << >>
<1>. DEFINE prohibited == PROHIBITED_SCHEMA_KEYS
            keys == KeysWalk(Values, prohibited)
<1>1. /\ keys[v] \in Seq(Strings)
      /\ v.kind = "dict" => keys[v] =
            FlattenSeq([i \in DOMAIN v.entries |->
                (IF v.entries[i].key \in prohibited THEN <<v.entries[i].key>> ELSE << >>)
                \o keys[v.entries[i].value]])
      /\ v.kind = "list" => keys[v] = FlattenSeq([i \in DOMAIN v.items |-> keys[v.items[i]]])
      /\ v.kind \notin {"dict", "list"} => keys[v] = << >>
  BY KeysOfTrees, ValuesAssumption
<1>2. \A w : SchemaKeys(w) = keys[w]
  BY DEF SchemaKeys, FindSchemaKeys, KeysWalk
<1>. HIDE DEF keys
<1>. QED  BY <1>1, <1>2

\* Values that the validator finds nothing in.
PlainValues == {v \in Values : SchemaTextValues(v) \in Seq(PlainTexts) /\ SchemaKeys(v) = << >>}

\* No plain text is a prohibited key.
LEMMA PlainKeys == PlainTexts \cap PROHIBITED_SCHEMA_KEYS = {}
BY TermsInForce DEF PlainTexts, ProhibitedSchemaKeys

\* Concatenating nothing gives nothing.
LEMMA FlattenNothing ==
    ASSUME NEW n \in Nat, NEW s \in [1..n -> {<< >>}]
    PROVE  FlattenSeq(s) = << >>
<1>1. s \in Seq(Seq({}))
  <2>1. << >> \in Seq({}) /\ \A i \in 1..n : s[i] = << >>
    OBVIOUS
  <2>2. s \in [1..n -> Seq({})]
    BY <2>1
  <2>. QED  BY <2>2
<1>2. FlattenSeq(s) \in Seq({})
  BY <1>1, Flattened
<1>. QED  BY <1>2

\* A dict of plain keys and values is plain,
LEMMA PlainDict ==
    ASSUME NEW v \in Values, v.kind = "dict",
           \A i \in DOMAIN v.entries :
               v.entries[i].key \in PlainTexts /\ v.entries[i].value \in PlainValues
    PROVE  v \in PlainValues
<1>. DEFINE n == Len(v.entries)
            texts == [i \in DOMAIN v.entries |->
                         <<v.entries[i].key>> \o SchemaTextValues(v.entries[i].value)]
            keys == [i \in DOMAIN v.entries |->
                        (IF v.entries[i].key \in PROHIBITED_SCHEMA_KEYS
                         THEN <<v.entries[i].key>> ELSE << >>)
                        \o SchemaKeys(v.entries[i].value)]
<1>1. DOMAIN v.entries = 1..n /\ n \in Nat
  BY DictType, ValuesAssumption
<1>2. ASSUME NEW i \in 1..n
      PROVE  /\ <<v.entries[i].key>> \o SchemaTextValues(v.entries[i].value) \in Seq(PlainTexts)
             /\ (IF v.entries[i].key \in PROHIBITED_SCHEMA_KEYS
                 THEN <<v.entries[i].key>> ELSE << >>) \o SchemaKeys(v.entries[i].value) = << >>
  <2>1. /\ v.entries[i].key \in PlainTexts
        /\ SchemaTextValues(v.entries[i].value) \in Seq(PlainTexts)
        /\ SchemaKeys(v.entries[i].value) = << >>
    BY <1>1 DEF PlainValues
  <2>2. v.entries[i].key \notin PROHIBITED_SCHEMA_KEYS
    BY <2>1, PlainKeys
  <2>3. <<v.entries[i].key>> \in Seq(PlainTexts)
    BY <2>1
  <2>4. << >> \o << >> = << >>
    OBVIOUS
  <2>. QED  BY <2>1, <2>2, <2>3, <2>4, ConcatProperties
<1>. HIDE DEF n
<1>3. texts \in [1..n -> Seq(PlainTexts)] /\ keys \in [1..n -> {<< >>}]
  BY <1>1, <1>2
<1>4. SchemaTextValues(v) = FlattenSeq(texts) /\ SchemaKeys(v) = FlattenSeq(keys)
  BY TextsEquation, KeysEquation
<1>. HIDE DEF texts, keys
<1>5. texts \in Seq(Seq(PlainTexts))
  BY <1>1, <1>3
<1>6. FlattenSeq(texts) \in Seq(PlainTexts) /\ FlattenSeq(keys) = << >>
  BY <1>1, <1>3, <1>5, Flattened, FlattenNothing
<1>. QED  BY <1>4, <1>6 DEF PlainValues

\* a list of plain values,
LEMMA PlainList ==
    ASSUME NEW v \in Values, v.kind = "list", \A i \in DOMAIN v.items : v.items[i] \in PlainValues
    PROVE  v \in PlainValues
<1>. DEFINE n == Len(v.items)
            texts == [i \in DOMAIN v.items |-> SchemaTextValues(v.items[i])]
            keys == [i \in DOMAIN v.items |-> SchemaKeys(v.items[i])]
<1>1. DOMAIN v.items = 1..n /\ n \in Nat
  BY ListType, ValuesAssumption
<1>. HIDE DEF n
<1>2. texts \in [1..n -> Seq(PlainTexts)] /\ keys \in [1..n -> {<< >>}]
  BY <1>1 DEF PlainValues
<1>3. SchemaTextValues(v) = FlattenSeq(texts) /\ SchemaKeys(v) = FlattenSeq(keys)
  BY TextsEquation, KeysEquation
<1>. HIDE DEF texts, keys
<1>4. texts \in Seq(Seq(PlainTexts))
  BY <1>1, <1>2
<1>5. FlattenSeq(texts) \in Seq(PlainTexts) /\ FlattenSeq(keys) = << >>
  BY <1>1, <1>2, <1>4, Flattened, FlattenNothing
<1>. QED  BY <1>3, <1>5 DEF PlainValues

\* and a leaf, if its text is.
LEMMA PlainLeaf ==
    ASSUME NEW v \in Values, v.kind \notin {"dict", "list"},
           v.kind = "text" => v.text \in PlainTexts
    PROVE  v \in PlainValues
<1>1. SchemaKeys(v) = << >>
  BY KeysEquation
<1>2. CASE v.kind = "text"
  <2>1. SchemaTextValues(v) = <<v.text>>
    BY <1>2, TextsEquation
  <2>2. v.text \in PlainTexts
    BY <1>2
  <2>3. <<v.text>> \in Seq(PlainTexts)
    BY <2>2
  <2>. QED  BY <1>1, <2>1, <2>3 DEF PlainValues
<1>3. CASE v.kind # "text"
  <2>1. SchemaTextValues(v) = << >>
    BY <1>3, TextsEquation
  <2>. QED  BY <1>1, <2>1 DEF PlainValues
<1>. QED  BY <1>2, <1>3

\* Of a dict that is a value, the entries' values are values.
LEMMA EntriesAreValues ==
    ASSUME NEW entries, Dict(entries) \in Values
    PROVE  /\ Dict(entries).kind = "dict" /\ Dict(entries).entries = entries
           /\ DOMAIN entries = 1..Len(entries)
           /\ \A i \in DOMAIN entries : entries[i].value \in Values
<1>1. Dict(entries).kind = "dict" /\ Dict(entries).entries = entries
  BY DEF Dict
<1>. QED  BY <1>1, DictType, ValuesAssumption

\* A dict of entries in which nothing is found.
LEMMA PlainEntries ==
    ASSUME NEW entries, Dict(entries) \in Values,
           \A i \in DOMAIN entries : /\ entries[i].key \in PlainTexts
                                     /\ entries[i].value \in Values => entries[i].value \in PlainValues
    PROVE  Dict(entries) \in PlainValues
<1>. DEFINE v == Dict(entries)
<1>1. v \in Values /\ v.kind = "dict" /\ v.entries = entries
  BY EntriesAreValues
<1>2. \A i \in DOMAIN v.entries :
         v.entries[i].key \in PlainTexts /\ v.entries[i].value \in PlainValues
  BY <1>1, EntriesAreValues
<1>. HIDE DEF v
<1>3. v \in PlainValues
  BY <1>1, <1>2, PlainDict
<1>. QED  BY <1>3 DEF v

\* The same of a text, and of a list of texts.
LEMMA PlainText ==
    ASSUME NEW text \in PlainTexts, Text(text) \in Values
    PROVE  Text(text) \in PlainValues
<1>1. Text(text).kind = "text" /\ Text(text).text = text
  BY DEF Text
<1>. QED  BY <1>1, PlainLeaf

\* A list of plain texts is plain.
LEMMA PlainListOfTexts ==
    ASSUME NEW strings, Texts(strings) \in Values,
           \A i \in DOMAIN strings : strings[i] \in PlainTexts
    PROVE  Texts(strings) \in PlainValues
<1>. DEFINE v == Texts(strings)
<1>1. v.kind = "list" /\ v.items = [i \in DOMAIN strings |-> Text(strings[i])]
  BY DEF Texts, List
<1>2. DOMAIN v.items = DOMAIN strings /\ \A i \in DOMAIN strings : v.items[i] = Text(strings[i])
  BY <1>1
<1>. HIDE DEF v
<1>3. \A i \in DOMAIN v.items : v.items[i] \in Values
  BY <1>1, ListType, ValuesAssumption DEF v
<1>4. \A i \in DOMAIN v.items : v.items[i] \in PlainValues
  BY <1>2, <1>3, PlainText
<1>. QED  BY <1>1, <1>4, PlainList DEF v

\* A described property is plain, if its type and its description are.
LEMMA PlainDescribed ==
    ASSUME NEW type \in PlainTexts, Described(type, "..") \in Values
    PROVE  Described(type, "..") \in PlainValues
<1>. DEFINE entries == <<Entry("type", Text(type)), Entry("description", Text(".."))>>
<1>1. Described(type, "..") = Dict(entries)
  BY DEF Described
<1>2. /\ DOMAIN entries = {1, 2}
      /\ entries[1].key = "type" /\ entries[1].value = Text(type)
      /\ entries[2].key = "description" /\ entries[2].value = Text("..")
  BY DEF Entry
<1>. HIDE DEF entries
<1>3. {"type", "description", ".."} \subseteq PlainTexts
  BY DEF PlainTexts
<1>4. \A i \in DOMAIN entries : /\ entries[i].key \in PlainTexts
                                /\ entries[i].value \in Values => entries[i].value \in PlainValues
  BY <1>2, <1>3, PlainText
<1>. QED  BY <1>1, <1>4, PlainEntries

\* The same of one with a minimum.
LEMMA PlainAtLeast ==
    ASSUME NEW type \in PlainTexts, NEW minimum, AtLeast(type, minimum) \in Values
    PROVE  AtLeast(type, minimum) \in PlainValues
<1>. DEFINE entries == <<Entry("type", Text(type)), Entry("minimum", Number(minimum)),
                         Entry("description", Text(".."))>>
<1>1. AtLeast(type, minimum) = Dict(entries)
  BY DEF AtLeast
<1>2. /\ DOMAIN entries = {1, 2, 3}
      /\ entries[1].key = "type" /\ entries[1].value = Text(type)
      /\ entries[2].key = "minimum" /\ entries[2].value = Number(minimum)
      /\ entries[3].key = "description" /\ entries[3].value = Text("..")
  BY DEF Entry
<1>. HIDE DEF entries
<1>3. {"type", "minimum", "description", ".."} \subseteq PlainTexts
  BY DEF PlainTexts
<1>4. Number(minimum) \in Values => Number(minimum) \in PlainValues
  <2>1. Number(minimum).kind = "number"
    BY DEF Number
  <2>. QED  BY <2>1, PlainLeaf
<1>5. \A i \in DOMAIN entries : /\ entries[i].key \in PlainTexts
                                /\ entries[i].value \in Values => entries[i].value \in PlainValues
  BY <1>2, <1>3, <1>4, PlainText
<1>. QED  BY <1>1, <1>5, PlainEntries

\* The entries of the schema of an object.
LEMMA ArgumentsEntries ==
    ASSUME NEW properties, NEW required
    PROVE  \E entries : /\ Arguments(properties, required) = Dict(entries)
                        /\ DOMAIN entries = 1..4
                        /\ entries[1].key = "type" /\ entries[1].value = Text("object")
                        /\ entries[2].key = "properties" /\ entries[2].value = Dict(properties)
                        /\ entries[3].key = "required" /\ entries[3].value = Texts(required)
                        /\ entries[4].key = "additionalProperties" /\ entries[4].value = Other
<1>. DEFINE entries == <<Entry("type", Text("object")), Entry("properties", Dict(properties)),
                         Entry("required", Texts(required)), Entry("additionalProperties", Other)>>
<1>1. Arguments(properties, required) = Dict(entries)
  BY DEF Arguments
<1>2. /\ DOMAIN entries = 1..4
      /\ entries[1].key = "type" /\ entries[1].value = Text("object")
      /\ entries[2].key = "properties" /\ entries[2].value = Dict(properties)
      /\ entries[3].key = "required" /\ entries[3].value = Texts(required)
      /\ entries[4].key = "additionalProperties" /\ entries[4].value = Other
  BY DEF Entry
<1>. HIDE DEF entries
<1>. QED  BY <1>1, <1>2

\* Nothing is found in a schema of plain properties, all or some required.
LEMMA PlainArguments ==
    ASSUME NEW properties, NEW required, Arguments(properties, required) \in Values,
           \A i \in DOMAIN properties :
               /\ properties[i].key \in PlainTexts
               /\ properties[i].value \in Values => properties[i].value \in PlainValues,
           \A i \in DOMAIN required : required[i] \in PlainTexts
    PROVE  Arguments(properties, required) \in PlainValues
<1>1. PICK entries : /\ Arguments(properties, required) = Dict(entries)
                     /\ DOMAIN entries = 1..4
                     /\ entries[1].key = "type" /\ entries[1].value = Text("object")
                     /\ entries[2].key = "properties" /\ entries[2].value = Dict(properties)
                     /\ entries[3].key = "required" /\ entries[3].value = Texts(required)
                     /\ entries[4].key = "additionalProperties" /\ entries[4].value = Other
  BY ArgumentsEntries
<1>2. {"type", "object", "properties", "required", "additionalProperties"} \subseteq PlainTexts
  BY DEF PlainTexts
<1>3. Text("object") \in Values => Text("object") \in PlainValues
  BY <1>2, PlainText
<1>4. Dict(properties) \in Values => Dict(properties) \in PlainValues
  BY PlainEntries
<1>5. Texts(required) \in Values => Texts(required) \in PlainValues
  BY PlainListOfTexts
<1>6. Other \in Values => Other \in PlainValues
  <2>1. Other.kind = "other"
    BY DEF Other
  <2>. QED  BY <2>1, PlainLeaf
<1>7. \A i \in 1..4 : i = 1 \/ i = 2 \/ i = 3 \/ i = 4
  OBVIOUS
<1>8. \A i \in DOMAIN entries : /\ entries[i].key \in PlainTexts
                                /\ entries[i].value \in Values => entries[i].value \in PlainValues
  BY <1>1, <1>2, <1>3, <1>4, <1>5, <1>6, <1>7
<1>. QED  BY <1>1, <1>8, PlainEntries

\* The schemas of the tools that no guidance names.
LEMMA SearchIsPlain ==
    ASSUME SearchInput \in Values
    PROVE  SearchInput \in PlainValues
<1>. DEFINE properties == <<Entry("origin", Described("string", "..")),
                            Entry("destination", Described("string", "..")),
                            Entry("date", Described("string", "..")),
                            Entry("passengers", AtLeast("integer", 1))>>
            required == <<"origin", "destination", "date">>
<1>1. SearchInput = Arguments(properties, required)
  BY DEF SearchInput
<1>2. /\ DOMAIN properties = {1, 2, 3, 4}
      /\ properties[1].key = "origin" /\ properties[1].value = Described("string", "..")
      /\ properties[2].key = "destination" /\ properties[2].value = Described("string", "..")
      /\ properties[3].key = "date" /\ properties[3].value = Described("string", "..")
      /\ properties[4].key = "passengers" /\ properties[4].value = AtLeast("integer", 1)
  BY DEF Entry
<1>3. /\ DOMAIN required = {1, 2, 3}
      /\ required[1] = "origin" /\ required[2] = "destination" /\ required[3] = "date"
  OBVIOUS
<1>. HIDE DEF properties, required
<1>4. {"origin", "destination", "date", "passengers", "string", "integer"} \subseteq PlainTexts
  BY DEF PlainTexts
<1>5. \A i \in DOMAIN properties :
         /\ properties[i].key \in PlainTexts
         /\ properties[i].value \in Values => properties[i].value \in PlainValues
  BY <1>2, <1>4, PlainDescribed, PlainAtLeast
<1>6. \A i \in DOMAIN required : required[i] \in PlainTexts
  BY <1>3, <1>4
<1>. QED  BY <1>1, <1>5, <1>6, PlainArguments

\* So is that of check_availability.
LEMMA CheckAvailabilityIsPlain ==
    ASSUME CheckAvailabilityTool.input_schema \in Values
    PROVE  CheckAvailabilityTool.input_schema \in PlainValues
<1>. DEFINE properties == <<Entry("address", Described("string", "..")),
                            Entry("postal_code", Described("string", "..")),
                            Entry("desired_speed_mbps", AtLeast("integer", 1))>>
            required == <<"address", "postal_code">>
<1>1. CheckAvailabilityTool.input_schema = Arguments(properties, required)
  BY DEF CheckAvailabilityTool, Tool
<1>2. /\ DOMAIN properties = {1, 2, 3}
      /\ properties[1].key = "address" /\ properties[1].value = Described("string", "..")
      /\ properties[2].key = "postal_code" /\ properties[2].value = Described("string", "..")
      /\ properties[3].key = "desired_speed_mbps" /\ properties[3].value = AtLeast("integer", 1)
  BY DEF Entry
<1>3. DOMAIN required = {1, 2} /\ required[1] = "address" /\ required[2] = "postal_code"
  OBVIOUS
<1>. HIDE DEF properties, required
<1>4. {"address", "postal_code", "desired_speed_mbps", "string", "integer"} \subseteq PlainTexts
  BY DEF PlainTexts
<1>5. \A i \in DOMAIN properties :
         /\ properties[i].key \in PlainTexts
         /\ properties[i].value \in Values => properties[i].value \in PlainValues
  BY <1>2, <1>4, PlainDescribed, PlainAtLeast
<1>6. \A i \in DOMAIN required : required[i] \in PlainTexts
  BY <1>3, <1>4
<1>. QED  BY <1>1, <1>5, <1>6, PlainArguments

\* So is that of quote.
LEMMA QuoteIsPlain ==
    ASSUME Arguments(QuoteProperties, QuoteRequired) \in Values
    PROVE  Arguments(QuoteProperties, QuoteRequired) \in PlainValues
<1>. DEFINE kinds == <<"travel", "home", "car">>
            product == <<Entry("type", Text("string")), Entry("enum", Texts(kinds)),
                         Entry("description", Text(".."))>>
<1>1. /\ DOMAIN QuoteProperties = {1, 2, 3}
      /\ QuoteProperties[1].key = "product_type" /\ QuoteProperties[1].value = Dict(product)
      /\ QuoteProperties[2].key = "coverage_amount_eur"
      /\ QuoteProperties[2].value = AtLeast("number", 1000)
      /\ QuoteProperties[3].key = "customer_age"
      /\ QuoteProperties[3].value = AtLeast("integer", 18)
  BY DEF QuoteProperties, Entry
<1>2. /\ DOMAIN product = {1, 2, 3}
      /\ product[1].key = "type" /\ product[1].value = Text("string")
      /\ product[2].key = "enum" /\ product[2].value = Texts(kinds)
      /\ product[3].key = "description" /\ product[3].value = Text("..")
  BY DEF Entry
<1>3. /\ DOMAIN kinds = {1, 2, 3}
      /\ kinds[1] = "travel" /\ kinds[2] = "home" /\ kinds[3] = "car"
  OBVIOUS
<1>4. /\ DOMAIN QuoteRequired = {1, 2, 3} /\ QuoteRequired[1] = "product_type"
      /\ QuoteRequired[2] = "coverage_amount_eur" /\ QuoteRequired[3] = "customer_age"
  BY DEF QuoteRequired
<1>. HIDE DEF product, kinds
<1>5. {"product_type", "coverage_amount_eur", "customer_age", "travel", "home", "car", "type",
       "enum", "description", "string", "integer", "number", ".."} \subseteq PlainTexts
  BY DEF PlainTexts
<1>6. Texts(kinds) \in Values => Texts(kinds) \in PlainValues
  BY <1>3, <1>5, PlainListOfTexts
<1>7. \A i \in DOMAIN product : /\ product[i].key \in PlainTexts
                                /\ product[i].value \in Values => product[i].value \in PlainValues
  BY <1>2, <1>5, <1>6, PlainText
<1>8. Dict(product) \in Values => Dict(product) \in PlainValues
  BY <1>7, PlainEntries
<1>9. \A i \in DOMAIN QuoteProperties :
         /\ QuoteProperties[i].key \in PlainTexts
         /\ QuoteProperties[i].value \in Values => QuoteProperties[i].value \in PlainValues
  BY <1>1, <1>5, <1>8, PlainAtLeast
<1>10. \A i \in DOMAIN QuoteRequired : QuoteRequired[i] \in PlainTexts
  BY <1>4, <1>5
<1>. QED  BY <1>9, <1>10, PlainArguments

-----------------------------------------------------------------------------
\* A schema is in form if its type is object, it has properties, and each of
\* the fields it requires is one of them.
InForm(schema) ==
    /\ schema.kind = "dict" /\ schema.entries # << >>
    /\ IsTypeObject(Get(schema, "type"))
    /\ HasProperties(schema)
    /\ RequiredIssues(schema) = << >>

\* What is at a key of the schema of an object.
LEMMA GetArguments ==
    ASSUME NEW properties, NEW required
    PROVE  /\ Arguments(properties, required).kind = "dict"
           /\ Arguments(properties, required).entries # << >>
           /\ Get(Arguments(properties, required), "type") = Text("object")
           /\ Get(Arguments(properties, required), "properties") = Dict(properties)
           /\ Get(Arguments(properties, required), "required") = Texts(required)
<1>1. PICK entries : /\ Arguments(properties, required) = Dict(entries)
                     /\ DOMAIN entries = 1..4
                     /\ entries[1].key = "type" /\ entries[1].value = Text("object")
                     /\ entries[2].key = "properties" /\ entries[2].value = Dict(properties)
                     /\ entries[3].key = "required" /\ entries[3].value = Texts(required)
                     /\ entries[4].key = "additionalProperties" /\ entries[4].value = Other
  BY ArgumentsEntries
<1>2. Dict(entries).kind = "dict" /\ Dict(entries).entries = entries /\ entries # << >>
  <2>1. 1 \in DOMAIN entries /\ 1 \notin DOMAIN << >>
    BY <1>1
  <2>. QED  BY <2>1 DEF Dict
<1>3. ASSUME NEW key, NEW i \in 1..4, entries[i].key = key,
             \A j \in 1..4 : entries[j].key = key => j = i
      PROVE  Get(Dict(entries), key) = entries[i].value
  <2>. DEFINE found == {j \in DOMAIN entries : entries[j].key = key}
  <2>1. found = {i}
    BY <1>1, <1>3
  <2>2. Get(Dict(entries), key) = entries[CHOOSE j \in found : TRUE].value
    BY <1>2, <2>1 DEF Get
  <2>. HIDE DEF found
  <2>3. (CHOOSE j \in found : TRUE) = i
    BY <2>1
  <2>. QED  BY <2>2, <2>3
<1>4. \A i \in 1..4 : i = 1 \/ i = 2 \/ i = 3 \/ i = 4
  OBVIOUS
<1>5. Get(Dict(entries), "type") = entries[1].value
  BY <1>1, <1>3, <1>4
<1>6. Get(Dict(entries), "properties") = entries[2].value
  BY <1>1, <1>3, <1>4
<1>7. Get(Dict(entries), "required") = entries[3].value
  BY <1>1, <1>3, <1>4
<1>. QED  BY <1>1, <1>2, <1>5, <1>6, <1>7

\* The schema of an object is in form if what it requires is among its properties.
LEMMA ArgumentsInForm ==
    ASSUME NEW properties, NEW required, properties # << >>,
           Len(required) \in Nat, DOMAIN required = 1..Len(required),
           \A i \in DOMAIN required : \E j \in DOMAIN properties :
               required[i] = properties[j].key
    PROVE  InForm(Arguments(properties, required))
<1>. DEFINE schema == Arguments(properties, required)
<1>1. /\ schema.kind = "dict" /\ schema.entries # << >>
      /\ Get(schema, "type") = Text("object")
      /\ Get(schema, "properties") = Dict(properties)
      /\ Get(schema, "required") = Texts(required)
  BY GetArguments
<1>. HIDE DEF schema
<1>2. IsTypeObject(Get(schema, "type"))
  BY <1>1 DEF IsTypeObject, Text
<1>3. Dict(properties).kind = "dict" /\ Dict(properties).entries = properties
  BY DEF Dict
<1>4. HasProperties(schema)
  BY <1>1, <1>3 DEF HasProperties
<1>5. PropertyNames(schema) = {properties[j].key : j \in DOMAIN properties}
  BY <1>1, <1>3, <1>4 DEF PropertyNames
<1>6. /\ Texts(required).kind = "list"
      /\ Texts(required).items = [i \in DOMAIN required |-> Text(required[i])]
      /\ Texts(required) # Absent
  BY DEF Texts, List, Absent
<1>7. RequiredIssues(schema) = << >>
  <2>. DEFINE issues == [i \in DOMAIN Texts(required).items |->
            LET field == Texts(required).items[i] IN
            IssueIf(field.kind # "text",
                    "SCHEMA_REQUIRED_FIELD_INVALID", "input_schema.required")
            \o IssueIf(field.kind = "text" /\ field.text \notin PropertyNames(schema),
                       "SCHEMA_REQUIRED_FIELD_NOT_DEFINED", "input_schema.required")]
  <2>1. RequiredIssues(schema) = FlattenSeq(issues)
    BY <1>1, <1>6 DEF RequiredIssues
  <2>2. ASSUME NEW i \in DOMAIN required  PROVE issues[i] = << >>
    <3>. DEFINE field == Texts(required).items[i]
    <3>1. field = Text(required[i])
      BY <1>6
    <3>2. field.kind = "text" /\ field.text = required[i]
      BY <3>1 DEF Text
    <3>3. required[i] \in PropertyNames(schema)
      BY <1>5
    <3>4. i \in DOMAIN Texts(required).items
      BY <1>6
    <3>. HIDE DEF field
    <3>5. /\ IssueIf(field.kind # "text",
                     "SCHEMA_REQUIRED_FIELD_INVALID", "input_schema.required") = << >>
          /\ IssueIf(field.kind = "text" /\ field.text \notin PropertyNames(schema),
                     "SCHEMA_REQUIRED_FIELD_NOT_DEFINED", "input_schema.required") = << >>
      BY <3>2, <3>3 DEF IssueIf
    <3>6. << >> \o << >> = << >>
      OBVIOUS
    <3>. QED  BY <3>4, <3>5, <3>6 DEF field
  <2>3. DOMAIN issues = DOMAIN required
    BY <1>6
  <2>. HIDE DEF issues
  <2>4. DOMAIN issues = 1..Len(required) /\ \A i \in 1..Len(required) : issues[i] = << >>
    BY <2>2, <2>3
  <2>5. issues \in [1..Len(required) -> {<< >>}]
    <3>1. issues = [i \in DOMAIN issues |-> issues[i]]
      BY DEF issues
    <3>. QED  BY <2>4, <3>1
  <2>. QED  BY <2>1, <2>5, FlattenNothing
<1>. QED  BY <1>1, <1>2, <1>4, <1>7 DEF InForm, schema

\* The schemas of the three tools that the guidance does not name are in form.
LEMMA SearchInForm == InForm(SearchInput)
<1>. DEFINE properties == <<Entry("origin", Described("string", "..")),
                            Entry("destination", Described("string", "..")),
                            Entry("date", Described("string", "..")),
                            Entry("passengers", AtLeast("integer", 1))>>
            required == <<"origin", "destination", "date">>
<1>1. SearchInput = Arguments(properties, required)
  BY DEF SearchInput
<1>2. /\ DOMAIN properties = {1, 2, 3, 4} /\ properties # << >>
      /\ properties[1].key = "origin" /\ properties[2].key = "destination"
      /\ properties[3].key = "date"
  BY DEF Entry
<1>3. /\ Len(required) = 3 /\ DOMAIN required = 1..3
      /\ required[1] = "origin" /\ required[2] = "destination" /\ required[3] = "date"
  OBVIOUS
<1>. HIDE DEF properties, required
<1>4. \A i \in 1..3 : i = 1 \/ i = 2 \/ i = 3
  OBVIOUS
<1>5. \A i \in DOMAIN required : \E j \in DOMAIN properties : required[i] = properties[j].key
  BY <1>2, <1>3, <1>4
<1>. QED  BY <1>1, <1>2, <1>3, <1>5, ArgumentsInForm

\* The second of them.
LEMMA CheckAvailabilityInForm == InForm(CheckAvailabilityTool.input_schema)
<1>. DEFINE properties == <<Entry("address", Described("string", "..")),
                            Entry("postal_code", Described("string", "..")),
                            Entry("desired_speed_mbps", AtLeast("integer", 1))>>
            required == <<"address", "postal_code">>
<1>1. CheckAvailabilityTool.input_schema = Arguments(properties, required)
  BY DEF CheckAvailabilityTool, Tool
<1>2. /\ DOMAIN properties = {1, 2, 3} /\ properties # << >>
      /\ properties[1].key = "address" /\ properties[2].key = "postal_code"
  BY DEF Entry
<1>3. /\ Len(required) = 2 /\ DOMAIN required = 1..2
      /\ required[1] = "address" /\ required[2] = "postal_code"
  OBVIOUS
<1>. HIDE DEF properties, required
<1>4. \A i \in 1..2 : i = 1 \/ i = 2
  OBVIOUS
<1>5. \A i \in DOMAIN required : \E j \in DOMAIN properties : required[i] = properties[j].key
  BY <1>2, <1>3, <1>4
<1>. QED  BY <1>1, <1>2, <1>3, <1>5, ArgumentsInForm

\* The third of them.
LEMMA QuoteInForm == InForm(Arguments(QuoteProperties, QuoteRequired))
<1>1. /\ DOMAIN QuoteProperties = {1, 2, 3} /\ QuoteProperties # << >>
      /\ QuoteProperties[1].key = "product_type"
      /\ QuoteProperties[2].key = "coverage_amount_eur"
      /\ QuoteProperties[3].key = "customer_age"
  BY DEF QuoteProperties, Entry
<1>2. /\ Len(QuoteRequired) = 3 /\ DOMAIN QuoteRequired = 1..3
      /\ QuoteRequired[1] = "product_type" /\ QuoteRequired[2] = "coverage_amount_eur"
      /\ QuoteRequired[3] = "customer_age"
  BY DEF QuoteRequired
<1>3. \A i \in 1..3 : i = 1 \/ i = 2 \/ i = 3
  OBVIOUS
<1>4. \A i \in DOMAIN QuoteRequired : \E j \in DOMAIN QuoteProperties :
          QuoteRequired[i] = QuoteProperties[j].key
  BY <1>1, <1>2, <1>3
<1>. QED  BY <1>1, <1>2, <1>4, ArgumentsInForm

-----------------------------------------------------------------------------
\* The issues there are.
IssueCodes ==
    {"MISSING_VERTICAL", "MISSING_UPSTREAM_TOOL", "MISSING_INTERNAL_VERSION",
     "MISSING_DESCRIPTION", "MISSING_INPUT_SCHEMA", "INVALID_VERTICAL_NAME",
     "INVALID_UPSTREAM_TOOL_NAME", "INVALID_INTERNAL_VERSION", "VERTICAL_MARKED_UNSAFE",
     "UNSAFE_ACTION", "INTERNAL_LEAKAGE", "SENSITIVE_DATA_COLLECTION",
     "DESCRIPTION_TOO_SHORT", "DESCRIPTION_PLACEHOLDER", "INVALID_JSON_SCHEMA",
     "SCHEMA_TOP_LEVEL_NOT_OBJECT", "SCHEMA_MISSING_PROPERTIES", "SCHEMA_REQUIRED_NOT_LIST",
     "SCHEMA_REQUIRED_FIELD_INVALID", "SCHEMA_REQUIRED_FIELD_NOT_DEFINED",
     "SCHEMA_COMPOSITION_NOT_ALLOWED"}

IssueFields ==
    {"vertical", "upstream_tool", "internal_version", "description", "safe_to_expose",
     "input_schema", "input_schema.type", "input_schema.properties", "input_schema.required"}

AnyIssue == [code : IssueCodes, field : IssueFields]

\* An issue there may be is a list of issues, empty if there is none.
LEMMA IssueIfType ==
    ASSUME NEW condition, NEW code \in IssueCodes, NEW field \in IssueFields
    PROVE  /\ IssueIf(condition, code, field) \in Seq(AnyIssue)
           /\ IssueIf(condition, code, field) = << >> <=> ~condition
<1>1. Issue(code, field) \in AnyIssue
  BY DEF Issue, AnyIssue, IssueCodes, IssueFields
<1>2. CASE condition
  <2>. DEFINE one == <<Issue(code, field)>>
  <2>1. IssueIf(condition, code, field) = one
    BY <1>2 DEF IssueIf
  <2>. DEFINE issue == Issue(code, field)
  <2>2. one = <<issue>> /\ issue \in AnyIssue
    BY <1>1
  <2>. HIDE DEF one, issue
  <2>3. one \in Seq(AnyIssue) /\ one # << >>
    BY <2>2
  <2>. QED  BY <1>2, <2>1, <2>3
<1>3. CASE ~condition
  <2>. DEFINE none == << >>
  <2>1. IssueIf(condition, code, field) = none
    BY <1>3 DEF IssueIf
  <2>2. none \in Seq(AnyIssue) /\ none = << >>
    OBVIOUS
  <2>. QED  BY <1>3, <2>1, <2>2
<1>. QED  BY <1>2, <1>3

\* Two lists behind one another are empty if both are.
LEMMA JoinedIssues ==
    ASSUME NEW s \in Seq(AnyIssue), NEW t \in Seq(AnyIssue)
    PROVE  /\ s \o t \in Seq(AnyIssue)
           /\ s \o t = << >> <=> s = << >> /\ t = << >>
<1>1. /\ s \o t \in Seq(AnyIssue) /\ Len(s \o t) = Len(s) + Len(t)
      /\ Len(s) \in Nat /\ Len(t) \in Nat
  BY ConcatProperties
<1>2. ASSUME NEW u \in Seq(AnyIssue)  PROVE u = << >> <=> Len(u) = 0
  BY EmptySeq
<1>3. /\ s \o t = << >> <=> Len(s \o t) = 0
      /\ s = << >> <=> Len(s) = 0
      /\ t = << >> <=> Len(t) = 0
  BY <1>1, <1>2
<1>. HIDE DEF AnyIssue
<1>. QED  BY <1>1, <1>3

\* What is at a key of a dict is a value, or there is none.
LEMMA GetType ==
    ASSUME NEW schema \in Values, schema.kind = "dict", NEW key
    PROVE  Get(schema, key) \in Values \cup {Absent}
<1>. DEFINE found == {i \in DOMAIN schema.entries : schema.entries[i].key = key}
            first == CHOOSE i \in found : TRUE
<1>1. Get(schema, key) = IF found = {} THEN Absent ELSE schema.entries[first].value
  BY DEF Get
<1>2. found # {} => first \in found
  OBVIOUS
<1>. HIDE DEF first
<1>3. found # {} => schema.entries[first].value \in Values
  BY <1>2, DictType, ValuesAssumption
<1>. QED  BY <1>1, <1>3

\* What is found in the required properties is a list of issues.
LEMMA RequiredIssuesType ==
    ASSUME NEW schema \in Values, schema.kind = "dict"
    PROVE  RequiredIssues(schema) \in Seq(AnyIssue)
<1>. DEFINE required == Get(schema, "required")
            issues == [i \in DOMAIN required.items |->
                LET field == required.items[i] IN
                IssueIf(field.kind # "text",
                        "SCHEMA_REQUIRED_FIELD_INVALID", "input_schema.required")
                \o IssueIf(field.kind = "text" /\ field.text \notin PropertyNames(schema),
                           "SCHEMA_REQUIRED_FIELD_NOT_DEFINED", "input_schema.required")]
            wrong == <<Issue("SCHEMA_REQUIRED_NOT_LIST", "input_schema.required")>>
<1>1. required \in Values \cup {Absent}
  BY GetType
<1>2. RequiredIssues(schema) = IF required = Absent THEN << >>
                               ELSE IF required.kind # "list" THEN wrong ELSE FlattenSeq(issues)
  BY DEF RequiredIssues
<1>3. wrong \in Seq(AnyIssue) /\ << >> \in Seq(AnyIssue)
  BY DEF Issue, AnyIssue, IssueCodes, IssueFields
<1>4. ASSUME required # Absent, required.kind = "list"
      PROVE  FlattenSeq(issues) \in Seq(AnyIssue)
  <2>1. DOMAIN required.items = 1..Len(required.items) /\ Len(required.items) \in Nat
    <3>. HIDE DEF required
    <3>. QED  BY <1>1, <1>4, ListType, ValuesAssumption
  <2>2. ASSUME NEW i \in DOMAIN required.items
        PROVE  issues[i] \in Seq(AnyIssue)
    <3>. DEFINE field == required.items[i]
                a == IssueIf(field.kind # "text",
                        "SCHEMA_REQUIRED_FIELD_INVALID", "input_schema.required")
                b == IssueIf(field.kind = "text" /\ field.text \notin PropertyNames(schema),
                           "SCHEMA_REQUIRED_FIELD_NOT_DEFINED", "input_schema.required")
    <3>1. issues[i] = a \o b
      OBVIOUS
    <3>2. a \in Seq(AnyIssue) /\ b \in Seq(AnyIssue)
      BY IssueIfType DEF IssueCodes, IssueFields
    <3>. HIDE DEF a, b
    <3>3. a \o b \in Seq(AnyIssue)
      BY <3>2, JoinedIssues
    <3>. QED  BY <3>1, <3>3
  <2>3. issues = [i \in DOMAIN required.items |-> issues[i]]
    OBVIOUS
  <2>. DEFINE R == Seq(AnyIssue)
  <2>. HIDE DEF issues, required, R
  <2>4. issues \in [1..Len(required.items) -> R]
    BY <2>1, <2>2, <2>3 DEF R
  <2>5. issues \in Seq(R)
    BY <2>1, <2>4
  <2>. QED  BY <2>5, Flattened DEF R
<1>. HIDE DEF required, issues, wrong
<1>. QED  BY <1>2, <1>3, <1>4

\* So is what is found of composition, empty if no key is prohibited.
LEMMA CompositionIssuesType ==
    ASSUME NEW schema \in Values
    PROVE  /\ CompositionIssues(schema) \in Seq(AnyIssue)
           /\ SchemaKeys(schema) = << >> => CompositionIssues(schema) = << >>
<1>. DEFINE keys == FindSchemaKeys(schema, PROHIBITED_SCHEMA_KEYS)
            issue == Issue("SCHEMA_COMPOSITION_NOT_ALLOWED", "input_schema")
<1>1. CompositionIssues(schema) = [i \in DOMAIN keys |-> issue]
  <2>. HIDE DEF issue
  <2>. QED  BY DEF CompositionIssues, issue
<1>2. keys \in Seq(Strings)
  BY KeysEquation DEF SchemaKeys
<1>3. issue \in AnyIssue
  BY DEF Issue, AnyIssue, IssueCodes, IssueFields
<1>4. keys = SchemaKeys(schema)
  BY DEF SchemaKeys
<1>. HIDE DEF keys, issue
<1>5. DOMAIN keys = 1..Len(keys) /\ Len(keys) \in Nat
  BY <1>2
<1>6. [i \in DOMAIN keys |-> issue] \in Seq(AnyIssue)
  BY <1>3, <1>5
<1>7. keys = << >> => [i \in DOMAIN keys |-> issue] = << >>
  OBVIOUS
<1>. QED  BY <1>1, <1>4, <1>6, <1>7

\* Each check gives a list of issues.
LEMMA ChecksType ==
    ASSUME NEW c, c.input_schema \in Values, c.input_schema.kind = "dict"
    PROVE  /\ RequiredFields(c) \in Seq(AnyIssue) /\ IdentityFormat(c) \in Seq(AnyIssue)
           /\ VerticalAttestation(c) \in Seq(AnyIssue) /\ UnsafeActions(c) \in Seq(AnyIssue)
           /\ InternalLeakage(c) \in Seq(AnyIssue) /\ SensitiveData(c) \in Seq(AnyIssue)
           /\ DescriptionLength(c) \in Seq(AnyIssue) /\ DescriptionPlaceholder(c) \in Seq(AnyIssue)
           /\ InputSchema(c) \in Seq(AnyIssue)
<1>. DEFINE schema == c.input_schema
<1>1. RequiredFields(c) \in Seq(AnyIssue)
  BY IssueIfType, JoinedIssues DEF RequiredFields, IssueCodes, IssueFields
<1>2. IdentityFormat(c) \in Seq(AnyIssue)
  BY IssueIfType, JoinedIssues DEF IdentityFormat, IssueCodes, IssueFields
<1>3. /\ VerticalAttestation(c) \in Seq(AnyIssue) /\ UnsafeActions(c) \in Seq(AnyIssue)
      /\ InternalLeakage(c) \in Seq(AnyIssue) /\ SensitiveData(c) \in Seq(AnyIssue)
      /\ DescriptionLength(c) \in Seq(AnyIssue) /\ DescriptionPlaceholder(c) \in Seq(AnyIssue)
  BY IssueIfType DEF VerticalAttestation, UnsafeActions, InternalLeakage, SensitiveData,
     DescriptionLength, DescriptionPlaceholder, IssueCodes, IssueFields
<1>4. RequiredIssues(schema) \in Seq(AnyIssue) /\ CompositionIssues(schema) \in Seq(AnyIssue)
  BY RequiredIssuesType, CompositionIssuesType
<1>5. << >> \in Seq(AnyIssue)
  OBVIOUS
<1>6. InputSchema(c) \in Seq(AnyIssue)
  BY <1>4, <1>5, IssueIfType, JoinedIssues DEF InputSchema, IssueCodes, IssueFields
<1>. QED  BY <1>1, <1>2, <1>3, <1>6

\* The validator finds nothing exactly if none of its checks does.
LEMMA NothingFound ==
    ASSUME NEW c, c.input_schema \in Values, c.input_schema.kind = "dict"
    PROVE  IssuesOf(c) = << >> <=>
             /\ RequiredFields(c) = << >> /\ IdentityFormat(c) = << >>
             /\ VerticalAttestation(c) = << >> /\ UnsafeActions(c) = << >>
             /\ InternalLeakage(c) = << >> /\ SensitiveData(c) = << >>
             /\ DescriptionLength(c) = << >> /\ DescriptionPlaceholder(c) = << >>
             /\ InputSchema(c) = << >>
<1>1. /\ RequiredFields(c) \in Seq(AnyIssue) /\ IdentityFormat(c) \in Seq(AnyIssue)
      /\ VerticalAttestation(c) \in Seq(AnyIssue) /\ UnsafeActions(c) \in Seq(AnyIssue)
      /\ InternalLeakage(c) \in Seq(AnyIssue) /\ SensitiveData(c) \in Seq(AnyIssue)
      /\ DescriptionLength(c) \in Seq(AnyIssue) /\ DescriptionPlaceholder(c) \in Seq(AnyIssue)
      /\ InputSchema(c) \in Seq(AnyIssue)
  BY ChecksType
<1>. DEFINE p2 == RequiredFields(c) \o IdentityFormat(c)
            p3 == p2 \o VerticalAttestation(c)
            p4 == p3 \o UnsafeActions(c)
            p5 == p4 \o InternalLeakage(c)
            p6 == p5 \o SensitiveData(c)
            p7 == p6 \o DescriptionLength(c)
            p8 == p7 \o DescriptionPlaceholder(c)
            p9 == p8 \o InputSchema(c)
<1>2. IssuesOf(c) = p9
  BY DEF IssuesOf
<1>3. /\ p2 \in Seq(AnyIssue)
      /\ p2 = << >> <=> RequiredFields(c) = << >> /\ IdentityFormat(c) = << >>
  BY <1>1, JoinedIssues
<1>. HIDE DEF p2
<1>4. p3 \in Seq(AnyIssue) /\ (p3 = << >> <=> p2 = << >> /\ VerticalAttestation(c) = << >>)
  BY <1>1, <1>3, JoinedIssues
<1>. HIDE DEF p3
<1>5. p4 \in Seq(AnyIssue) /\ (p4 = << >> <=> p3 = << >> /\ UnsafeActions(c) = << >>)
  BY <1>1, <1>4, JoinedIssues
<1>. HIDE DEF p4
<1>6. p5 \in Seq(AnyIssue) /\ (p5 = << >> <=> p4 = << >> /\ InternalLeakage(c) = << >>)
  BY <1>1, <1>5, JoinedIssues
<1>. HIDE DEF p5
<1>7. p6 \in Seq(AnyIssue) /\ (p6 = << >> <=> p5 = << >> /\ SensitiveData(c) = << >>)
  BY <1>1, <1>6, JoinedIssues
<1>. HIDE DEF p6
<1>8. p7 \in Seq(AnyIssue) /\ (p7 = << >> <=> p6 = << >> /\ DescriptionLength(c) = << >>)
  BY <1>1, <1>7, JoinedIssues
<1>. HIDE DEF p7
<1>9. p8 \in Seq(AnyIssue) /\ (p8 = << >> <=> p7 = << >> /\ DescriptionPlaceholder(c) = << >>)
  BY <1>1, <1>8, JoinedIssues
<1>. HIDE DEF p8
<1>10. p9 = << >> <=> p8 = << >> /\ InputSchema(c) = << >>
  BY <1>1, <1>9, JoinedIssues
<1>. HIDE DEF p9
<1>. QED  BY <1>2, <1>3, <1>4, <1>5, <1>6, <1>7, <1>8, <1>9, <1>10

-----------------------------------------------------------------------------
\* The terms of the three lists.
AllTerms == UnsafeActionTerms \cup InternalLeakageTerms \cup SensitiveDataTerms

\* Short sequences.
LEMMA SingleElement ==
    ASSUME NEW E, NEW e \in E
    PROVE  <<e>> \in Seq(E) /\ Len(<<e>>) = 1 /\ <<e>>[1] = e
OBVIOUS

\* The same of three elements.
LEMMA ThreeElements ==
    ASSUME NEW E, NEW a \in E, NEW b \in E, NEW d \in E
    PROVE  <<a, b, d>> \in Seq(E) /\ Len(<<a, b, d>>) = 3 /\ <<a, b, d>>[2] = b
OBVIOUS

\* Two sequences behind one another.
LEMMA Joined ==
    ASSUME NEW E, NEW s \in Seq(E), NEW t \in Seq(E)
    PROVE  /\ s \o t \in Seq(E) /\ Len(s \o t) = Len(s) + Len(t)
           /\ Len(s) \in Nat /\ Len(t) \in Nat
           /\ \A k \in 1..Len(s) : (s \o t)[k] = s[k]
<1>1. /\ s \o t \in Seq(E) /\ Len(s \o t) = Len(s) + Len(t)
      /\ \A k \in 1..(Len(s) + Len(t)) :
            (s \o t)[k] = IF k <= Len(s) THEN s[k] ELSE t[k - Len(s)]
  BY ConcatProperties
<1>2. Len(s) \in Nat /\ Len(t) \in Nat
  OBVIOUS
<1>3. \A k \in 1..Len(s) : k \in 1..(Len(s) + Len(t)) /\ k <= Len(s)
  BY <1>2
<1>. QED  BY <1>1, <1>2, <1>3

\* One element of a sequence, cut out.
LEMMA OneElementOf ==
    ASSUME NEW s, NEW i \in Int
    PROVE  SubSeq(s, i, i) = <<s[i]>>
<1>. DEFINE E == {s[i]}
            a == SubSeq(s, i, i)
            b == <<s[i]>>
<1>1. \A j \in i..i : s[j] \in E
  OBVIOUS
<1>. HIDE DEF E
<1>2. /\ SubSeq(s, i, i) \in Seq(E)
      /\ Len(SubSeq(s, i, i)) = IF i <= i THEN i - i + 1 ELSE 0
      /\ \A k \in 1..(i - i + 1) : SubSeq(s, i, i)[k] = s[i + k - 1]
  BY <1>1, SubSeqProperties
<1>3. a \in Seq(E) /\ Len(a) = 1 /\ a[1] = s[i]
  BY <1>2
<1>4. b \in Seq(E) /\ Len(b) = 1 /\ b[1] = s[i]
  BY <1>1, SingleElement
<1>. HIDE DEF a, b
<1>5. a = b
  BY <1>3, <1>4, SeqEqual
<1>. QED  BY <1>5 DEF a, b

\* Each term begins with a first word, and is a sequence of words.
LEMMA TermsBegin ==
    ASSUME NEW term \in AllTerms
    PROVE  /\ Len(term) \in Nat \ {0} /\ term \in Seq(Range(term))
           /\ term[1] \in FirstWords /\ term[1] \notin {Space, Underscore}
<1>1. term[1] \in FirstWords
  <2>1. term \in UnsafeActionTerms \cup InternalLeakageTerms \cup SensitiveDataTerms
    BY DEF AllTerms
  <2>. QED  BY <2>1 DEF FirstWords
<1>2. term \in Seq(Range(term))
  BY TermsAssumption, TermsInForce DEF AllTerms
<1>. DEFINE words == {"book", "buy", "purchase", "delete", "cancel", "pay", "charge", "order",
                      "bind", "create", "contract", "commit", "internal", "debug", "admin",
                      "private", "database", "token", "secret", "hostname", "diagnostics",
                      "raw", "command", "device", "ssn", "social", "passport", "national"}
<1>3. term # << >> /\ term[1] \in words
  <2>1. CASE term \in UnsafeActionTerms
    BY <2>1 DEF UnsafeActionTerms
  <2>2. CASE term \in InternalLeakageTerms
    BY <2>2 DEF InternalLeakageTerms
  <2>3. CASE term \in SensitiveDataTerms
    BY <2>3 DEF SensitiveDataTerms
  <2>. QED  BY <2>1, <2>2, <2>3 DEF AllTerms
<1>31. words \cap {Space, Underscore} = {}
  BY DEF Space, Underscore
<1>4. Len(term) \in Nat /\ (Len(term) = 0 => term = << >>)
  BY <1>2, EmptySeq
<1>. QED  BY <1>1, <1>2, <1>3, <1>31, <1>4

\* The texts of a candidate, and their words, each text's followed by a blank.
TextsOfCandidate(c) ==
    <<c.vertical, c.upstream_tool, c.description>> \o SchemaTextValues(c.input_schema)
WordsOf(texts) == [i \in DOMAIN texts |-> Words[texts[i]] \o <<Space>>]

\* Searched texts that have their words from some set, which has the blank too.
LEMMA SearchedWords ==
    ASSUME NEW c, NEW T \in SUBSET Strings, NEW E, Space \in E,
           \A text \in T : Range(Words[text]) \subseteq E,
           c.vertical \in T, c.upstream_tool \in T, c.description \in T,
           SchemaTextValues(c.input_schema) \in Seq(T)
    PROVE  LET texts == TextsOfCandidate(c)
               s == WordsOf(texts)
           IN  /\ texts \in Seq(T) /\ texts[2] = c.upstream_tool /\ 2 \in 1..Len(texts)
               /\ s \in Seq(Seq(E)) /\ Len(s) = Len(texts)
               /\ s[2] = Words[c.upstream_tool] \o <<Space>>
               /\ Words[c.upstream_tool] \in Seq(E)
               /\ CandidateText(c) = FlattenSeq(s)
<1>. DEFINE own == <<c.vertical, c.upstream_tool, c.description>>
            rest == SchemaTextValues(c.input_schema)
            texts == TextsOfCandidate(c)
            s == WordsOf(texts)
            R == Seq(E)
<1>1. texts = own \o rest
  BY DEF TextsOfCandidate
<1>2. own \in Seq(T) /\ Len(own) = 3 /\ own[2] = c.upstream_tool
  BY ThreeElements
<1>. HIDE DEF own, rest, texts
<1>3. texts \in Seq(T) /\ Len(texts) = 3 + Len(rest) /\ texts[2] = own[2] /\ Len(rest) \in Nat
  <2>1. rest \in Seq(T)
    BY DEF rest
  <2>2. /\ Len(rest) \in Nat /\ own \o rest \in Seq(T)
        /\ Len(own \o rest) = Len(own) + Len(rest)
        /\ \A k \in 1..Len(own) : (own \o rest)[k] = own[k]
    BY <1>2, <2>1, Joined
  <2>3. 2 \in 1..Len(own)
    BY <1>2
  <2>4. (own \o rest)[2] = own[2]
    BY <2>2, <2>3
  <2>. QED  BY <1>1, <1>2, <2>2, <2>4
<1>4. DOMAIN texts = 1..Len(texts) /\ Len(texts) \in Nat /\ \A i \in 1..Len(texts) : texts[i] \in T
  BY <1>3
<1>. HIDE DEF s, R
<1>5. ASSUME NEW text \in T  PROVE Words[text] \in Seq(E) /\ Words[text] \o <<Space>> \in R
  <2>1. Words[text] \in Seq(Range(Words[text])) /\ Range(Words[text]) \subseteq E
    BY TextsAssumption
  <2>2. Words[text] \in Seq(E)
    BY <2>1, SeqMonotonic
  <2>3. <<Space>> \in Seq(E)
    BY SingleElement
  <2>4. Words[text] \o <<Space>> \in Seq(E)
    BY <2>2, <2>3, Joined
  <2>. QED  BY <2>2, <2>4 DEF R
<1>6. \A i \in 1..Len(texts) : Words[texts[i]] \o <<Space>> \in R
  BY <1>4, <1>5
<1>7. s \in [1..Len(texts) -> R]
  BY <1>4, <1>6 DEF WordsOf, s
<1>8. 2 \in 1..Len(texts) /\ texts[2] = c.upstream_tool
  BY <1>2, <1>3
<1>9. s[2] = Words[c.upstream_tool] \o <<Space>>
  BY <1>4, <1>8 DEF WordsOf, s
<1>10. CandidateText(c) = FlattenSeq(s)
  BY DEF CandidateText, WordsOf, s, texts, TextsOfCandidate
<1>11. s \in Seq(R) /\ Len(s) = Len(texts)
  <2>. DEFINE n == Len(texts)
  <2>1. n \in Nat /\ s \in [1..n -> R]
    BY <1>4, <1>7
  <2>. HIDE DEF n
  <2>2. s \in Seq(R) /\ Len(s) = n
    BY <2>1
  <2>. QED  BY <2>2 DEF n
<1>12. Words[c.upstream_tool] \in Seq(E)
  BY <1>5
<1>. QED  BY <1>3, <1>8, <1>9, <1>10, <1>11, <1>12 DEF s, texts, R

\* No term is found in plain texts.
LEMMA NothingMentioned ==
    ASSUME NEW c, c.vertical \in PlainTexts, c.upstream_tool \in PlainTexts,
           c.description \in PlainTexts, c.input_schema \in PlainValues,
           NEW terms \in SUBSET AllTerms
    PROVE  FindTerms(CandidateText(c), terms) = {}
<1>. DEFINE E == {Space} \cup UNION {Range(Words[text]) : text \in PlainTexts}
            words == CandidateText(c)
            normalized == [i \in DOMAIN words |->
                              IF words[i] = Hyphen THEN Underscore ELSE words[i]]
<1>1. PlainTexts \in SUBSET Strings /\ \A text \in PlainTexts : Range(Words[text]) \subseteq E
  BY WordsOfTools
<1>2. Space \in E /\ SchemaTextValues(c.input_schema) \in Seq(PlainTexts)
  BY DEF PlainValues
<1>3. \A word \in E : word = Space \/ word \notin FirstWords
  BY WordsOfTools
<1>. HIDE DEF E, words
<1>4. words \in Seq(E)
  <2>. DEFINE s == WordsOf(TextsOfCandidate(c))
  <2>1. s \in Seq(Seq(E)) /\ words = FlattenSeq(s)
    BY <1>1, <1>2, SearchedWords DEF words
  <2>. HIDE DEF s
  <2>. QED  BY <2>1, Flattened
<1>5. DOMAIN words = 1..Len(words) /\ Len(words) \in Nat /\ \A i \in 1..Len(words) : words[i] \in E
  BY <1>4
<1>6. ASSUME NEW term \in terms, NEW i \in 0..(Len(words) - Len(term)),
             SubSeq(normalized, i + 1, i + Len(term)) = term
      PROVE  FALSE
  <2>1. Len(term) \in Nat \ {0} /\ term[1] \in FirstWords /\ term[1] \notin {Space, Underscore}
    BY TermsBegin
  <2>2. i + 1 \in 1..Len(words) /\ i \in Nat
    <3>. DEFINE n == Len(term)
    <3>1. n \in Nat \ {0} /\ i \in 0..(Len(words) - n) /\ Len(words) \in Nat
      BY <1>5, <1>6, <2>1
    <3>. HIDE DEF n
    <3>. QED  BY <3>1
  <2>3. SubSeq(normalized, i + 1, i + Len(term))[1] = normalized[i + 1]
    <3>. DEFINE n == Len(term)
    <3>1. n \in Nat \ {0}
      BY <2>1
    <3>. HIDE DEF normalized, n
    <3>2. SubSeq(normalized, i + 1, i + n)[1] = normalized[i + 1]
      BY <2>2, <3>1
    <3>. QED  BY <3>2 DEF n
  <2>4. normalized[i + 1] = (IF words[i + 1] = Hyphen THEN Underscore ELSE words[i + 1])
    BY <1>5, <2>2
  <2>. HIDE DEF normalized
  <2>5. term[1] = words[i + 1]
    BY <1>6, <2>1, <2>3, <2>4
  <2>6. words[i + 1] \in E
    BY <1>5, <2>2
  <2>. QED  BY <1>3, <2>1, <2>5, <2>6
<1>. QED  BY <1>6 DEF FindTerms, words

\* A word of the tool's name that is a term is found.
LEMMA WordIsFound ==
    ASSUME NEW c, c.vertical \in Strings, c.upstream_tool \in Strings, c.description \in Strings,
           c.input_schema \in Values,
           NEW word, word # Hyphen, NEW k \in DOMAIN Words[c.upstream_tool],
           Words[c.upstream_tool][k] = word,
           NEW terms, <<word>> \in terms
    PROVE  FindTerms(CandidateText(c), terms) # {}
<1>. DEFINE E == {Space} \cup UNION {Range(Words[text]) : text \in Strings}
            words == CandidateText(c)
            normalized == [i \in DOMAIN words |->
                              IF words[i] = Hyphen THEN Underscore ELSE words[i]]
            s == WordsOf(TextsOfCandidate(c))
            name == Words[c.upstream_tool]
            blank == <<Space>>
<1>1. Strings \in SUBSET Strings /\ \A text \in Strings : Range(Words[text]) \subseteq E
  OBVIOUS
<1>2. Space \in E /\ SchemaTextValues(c.input_schema) \in Seq(Strings)
  BY TextsEquation
<1>. HIDE DEF E, words
<1>3. /\ s \in Seq(Seq(E)) /\ words = FlattenSeq(s) /\ 2 \in 1..Len(s)
      /\ s[2] = name \o blank /\ name \in Seq(E)
  BY <1>1, <1>2, SearchedWords DEF words
<1>. HIDE DEF s
<1>4. words \in Seq(E)
  BY <1>3, Flattened
<1>5. PICK start \in [1..Len(s) -> Nat] : LaidOut(start, s, Len(s), words)
  BY <1>3, Flattened
<1>6. /\ start[2] \in Nat /\ start[2] + Len(s[2]) <= Len(words)
      /\ \A j \in 1..Len(s[2]) : words[start[2] + j] = s[2][j]
  BY <1>3, <1>5 DEF LaidOut
<1>70. k \in DOMAIN name /\ name[k] = word
  OBVIOUS
<1>8. blank \in Seq(E) /\ Len(blank) = 1
  BY <1>2, SingleElement
<1>. HIDE DEF name, blank
<1>7. k \in 1..Len(name) /\ Len(name) \in Nat /\ name[k] = word
  BY <1>3, <1>70
<1>9. Len(s[2]) = Len(name) + 1 /\ s[2][k] = word
  <2>1. /\ Len(name \o blank) = Len(name) + Len(blank)
        /\ \A j \in 1..Len(name) : (name \o blank)[j] = name[j]
    BY <1>3, <1>8, Joined
  <2>. QED  BY <1>3, <1>7, <1>8, <2>1
<1>. DEFINE i == start[2] + k - 1
<1>10. /\ i \in 0..(Len(words) - 1) /\ i + 1 \in 1..Len(words) /\ words[i + 1] = word
       /\ DOMAIN words = 1..Len(words) /\ i \in Nat
  <2>1. Len(words) \in Nat /\ DOMAIN words = 1..Len(words)
    BY <1>4
  <2>2. k \in 1..Len(s[2]) /\ k \in Nat \ {0}
    BY <1>7, <1>9
  <2>3. words[start[2] + k] = word
    BY <1>6, <1>9, <2>2
  <2>4. start[2] + k <= Len(words)
    BY <1>6, <1>7, <1>9, <2>1, <2>2
  <2>. QED  BY <1>6, <2>1, <2>2, <2>3, <2>4, SMTT(30)
<1>. HIDE DEF i
<1>11. normalized[i + 1] = word
  BY <1>10
<1>12. SubSeq(normalized, i + 1, i + Len(<<word>>)) = <<word>>
  <2>1. Len(<<word>>) = 1
    OBVIOUS
  <2>. HIDE DEF normalized
  <2>2. i + 1 \in Int /\ i + 1 <= i + 1
    BY <1>10
  <2>3. SubSeq(normalized, i + 1, i + 1) = <<normalized[i + 1]>>
    BY <2>2, OneElementOf
  <2>. QED  BY <1>11, <2>1, <2>3
<1>13. i \in 0..(Len(words) - Len(<<word>>))
  <2>1. Len(<<word>>) = 1
    OBVIOUS
  <2>. QED  BY <1>10, <2>1
<1>14. <<word>> \in FindTerms(words, terms)
  BY <1>12, <1>13 DEF FindTerms
<1>. QED  BY <1>14 DEF words

-----------------------------------------------------------------------------
\* The schemas of the shipped tools are those of objects.
LEMMA ShippedDicts ==
    ASSUME NEW v \in DOMAIN ShippedTools, NEW j \in DOMAIN ShippedTools[v]
    PROVE  ShippedTools[v][j].input_schema.kind = "dict"
<1>1. \A p, r : Arguments(p, r).kind = "dict"
  BY DEF Arguments, Dict
<1>2. BookInput.kind = "dict"
  BY <1>1 DEF BookInput
<1>3. OrderPlanTool.input_schema.kind = "dict"
  BY <1>1 DEF OrderPlanTool, Tool
<1>4. RunDiagnosticsCommandTool.input_schema.kind = "dict"
  BY <1>1 DEF RunDiagnosticsCommandTool, Tool
<1>5. BindPolicyTool.input_schema.kind = "dict"
  BY <1>1 DEF BindPolicyTool, Tool
<1>6. QuoteInput(TRUE).kind = "dict"
  BY <1>1 DEF QuoteInput
<1>7. MobilityTools[2].input_schema = BookInput
  BY DEF MobilityTools, Tool
<1>8. InsuranceTools[3].input_schema = QuoteInput(TRUE)
  BY DEF InsuranceTools, Tool
<1>9. /\ ShippedTools["mobility"][2] = MobilityTools[2]
      /\ ShippedTools["internet"][2] = OrderPlanTool
      /\ ShippedTools["internet"][3] = RunDiagnosticsCommandTool
      /\ ShippedTools["insurance"][2] = BindPolicyTool
      /\ ShippedTools["insurance"][3] = InsuranceTools[3]
  BY DEF ShippedTools, InternetTools, InsuranceTools
<1>10. v \in {"mobility", "internet", "insurance"}
  BY DEF ShippedTools
<1>11. CASE v = "mobility"
  <2>1. SearchInput.kind = "dict"
    BY SearchInForm DEF InForm
  <2>. QED  BY <1>2, <1>7, <1>9, <1>11, <2>1, MobilityShips
<1>12. CASE v = "internet"
  <2>1. CheckAvailabilityTool.input_schema.kind = "dict"
    BY CheckAvailabilityInForm DEF InForm
  <2>. QED  BY <1>3, <1>4, <1>9, <1>12, <2>1, InternetShips
<1>13. CASE v = "insurance"
  <2>1. Arguments(QuoteProperties, QuoteRequired).kind = "dict"
    BY QuoteInForm DEF InForm
  <2>. QED  BY <1>5, <1>6, <1>8, <1>9, <1>13, <2>1, InsuranceShips
<1>. QED  BY <1>10, <1>11, <1>12, <1>13

\* What the validator sees of a tool.
LEMMA JudgedIs ==
    ASSUME NEW v, NEW tool, NEW version, NEW safe
    PROVE  LET c == Judged(v, tool, version, safe) IN
           /\ c.vertical = v /\ c.upstream_tool = tool.name
           /\ c.description = tool.description /\ c.internal_version = version
           /\ c.input_schema = tool.input_schema
BY DEF Judged

\* It is in form, as far as its name, its description and its version go.
LEMMA ToolInForm ==
    ASSUME NEW v \in DOMAIN ShippedTools, NEW j \in DOMAIN ShippedTools[v], NEW version \in Versions
    PROVE  LET tool == ShippedTools[v][j] IN
           /\ v \in NameTexts \ BlankTexts /\ tool.name \in NameTexts \ BlankTexts
           /\ version \in VersionTexts \ BlankTexts
           /\ tool.description \in Strings \ (BlankTexts \cup PlaceholderTexts)
           /\ Length[tool.description] \in Nat /\ Length[tool.description] >= 20
           /\ v \in Strings /\ tool.name \in Strings
           /\ tool.input_schema \in Values /\ CheckSchema(tool.input_schema)
<1>1. /\ {v, ShippedTools[v][j].name} \subseteq NameTexts \ BlankTexts
      /\ version \in VersionTexts \ BlankTexts
      /\ ShippedTools[v][j].description \in Strings \ (BlankTexts \cup PlaceholderTexts)
      /\ Length[ShippedTools[v][j].description] >= 20
      /\ ShippedTools[v][j].input_schema \in Values
      /\ CheckSchema(ShippedTools[v][j].input_schema)
  BY ToolsAreInForm
<1>2. NameTexts \subseteq Strings /\ Length \in [Strings -> Nat]
  BY TextsAssumption
<1>. QED  BY <1>1, <1>2

\* A plain tool that its vertical calls safe conforms.
LEMMA PlainToolConforms ==
    ASSUME NEW v \in DOMAIN ShippedTools, NEW j \in DOMAIN ShippedTools[v],
           NEW version \in Versions,
           v \in PlainTexts, ShippedTools[v][j].name \in PlainTexts,
           ShippedTools[v][j].description \in PlainTexts,
           ShippedTools[v][j].input_schema \in PlainValues,
           InForm(ShippedTools[v][j].input_schema), NEW safe, safe = TRUE
    PROVE  IssuesOf(Judged(v, ShippedTools[v][j], version, safe)) = << >>
<1>. DEFINE tool == ShippedTools[v][j]
            schema == tool.input_schema
            c == Judged(v, tool, version, safe)
<1>1. /\ c.vertical = v /\ c.upstream_tool = tool.name
      /\ c.description = tool.description /\ c.internal_version = version
      /\ c.input_schema = schema
  <2>. HIDE DEF tool
  <2>. QED  BY DEF Judged
<1>20. c.safe_to_expose
  BY DEF Judged
<1>2. /\ v \in NameTexts \ BlankTexts /\ tool.name \in NameTexts \ BlankTexts
      /\ version \in VersionTexts \ BlankTexts
      /\ tool.description \in Strings \ (BlankTexts \cup PlaceholderTexts)
      /\ Length[tool.description] \in Nat /\ Length[tool.description] >= 20
      /\ schema \in Values /\ CheckSchema(schema)
  BY ToolInForm
<1>3. /\ schema.kind = "dict" /\ schema.entries # << >>
      /\ IsTypeObject(Get(schema, "type")) /\ HasProperties(schema)
      /\ RequiredIssues(schema) = << >>
  BY DEF InForm
<1>4. SchemaKeys(schema) = << >>
  BY DEF PlainValues
<1>. HIDE DEF c, tool, schema
<1>5. << >> \o << >> = << >>
  OBVIOUS
<1>6. \A code, field : IssueIf(FALSE, code, field) = << >>
  BY DEF IssueIf
<1>7. RequiredFields(c) = << >>
  BY <1>1, <1>2, <1>3, <1>5, <1>6 DEF RequiredFields, HasText, IssueIf
<1>8. IdentityFormat(c) = << >>
  BY <1>1, <1>2, <1>5, <1>6 DEF IdentityFormat, IssueIf
<1>9. VerticalAttestation(c) = << >>
  BY <1>20 DEF VerticalAttestation, IssueIf
<1>10. UnsafeActions(c) = << >> /\ InternalLeakage(c) = << >> /\ SensitiveData(c) = << >>
  <2>1. \A terms \in SUBSET AllTerms : FindTerms(CandidateText(c), terms) = {}
    BY <1>1, NothingMentioned DEF tool, schema
  <2>2. {UNSAFE_ACTION_TERMS, INTERNAL_LEAKAGE_TERMS, SENSITIVE_DATA_TERMS}
           \subseteq SUBSET AllTerms
    BY TermsInForce DEF AllTerms
  <2>3. /\ FindTerms(CandidateText(c), UNSAFE_ACTION_TERMS) = {}
        /\ FindTerms(CandidateText(c), INTERNAL_LEAKAGE_TERMS) = {}
        /\ FindTerms(CandidateText(c), SENSITIVE_DATA_TERMS) = {}
    BY <2>1, <2>2
  <2>. QED  BY <2>3 DEF UnsafeActions, InternalLeakage, SensitiveData, IssueIf
<1>11. DescriptionLength(c) = << >>
  BY <1>1, <1>2 DEF DescriptionLength, IssueIf
<1>12. DescriptionPlaceholder(c) = << >>
  BY <1>1, <1>2 DEF DescriptionPlaceholder, IssueIf
<1>13. InputSchema(c) = << >>
  <2>1. CompositionIssues(schema) = << >>
    BY <1>2, <1>4, CompositionIssuesType
  <2>. QED  BY <1>1, <1>2, <1>3, <1>5, <2>1 DEF InputSchema, IssueIf
<1>14. IssuesOf(c) = << >>
  BY <1>1, <1>2, <1>3, <1>7, <1>8, <1>9, <1>10, <1>11, <1>12, <1>13, NothingFound
<1>. QED  BY <1>14 DEF c, tool

\* A tool with a term for a word of its name does not.
LEMMA TermToolIsRejected ==
    ASSUME NEW v \in DOMAIN ShippedTools, NEW j \in DOMAIN ShippedTools[v],
           NEW version \in Versions, NEW safe,
           NEW k \in DOMAIN Words[ShippedTools[v][j].name],
           NEW word, word # Hyphen, Words[ShippedTools[v][j].name][k] = word, <<word>> \in AllTerms
    PROVE  IssuesOf(Judged(v, ShippedTools[v][j], version, safe)) # << >>
<1>. DEFINE tool == ShippedTools[v][j]
            c == Judged(v, tool, version, safe)
<1>1. /\ c.vertical = v /\ c.upstream_tool = tool.name
      /\ c.description = tool.description /\ c.input_schema = tool.input_schema
  BY JudgedIs
<1>2. /\ v \in Strings /\ tool.name \in Strings /\ tool.description \in Strings
      /\ tool.input_schema \in Values /\ tool.input_schema.kind = "dict"
  BY ToolInForm, ShippedDicts
<1>. HIDE DEF c
<1>3. \A terms : <<word>> \in terms => FindTerms(CandidateText(c), terms) # {}
  BY <1>1, <1>2, WordIsFound
<1>4. CASE <<word>> \in UnsafeActionTerms
  <2>1. FindTerms(CandidateText(c), UNSAFE_ACTION_TERMS) # {}
    BY <1>3, <1>4, TermsInForce
  <2>2. UnsafeActions(c) # << >>
    BY <2>1, IssueIfType DEF UnsafeActions, IssueCodes, IssueFields
  <2>. QED  BY <1>1, <1>2, <2>2, NothingFound DEF c
<1>5. CASE <<word>> \in InternalLeakageTerms
  <2>1. FindTerms(CandidateText(c), INTERNAL_LEAKAGE_TERMS) # {}
    BY <1>3, <1>5, TermsInForce
  <2>2. InternalLeakage(c) # << >>
    BY <2>1, IssueIfType DEF InternalLeakage, IssueCodes, IssueFields
  <2>. QED  BY <1>1, <1>2, <2>2, NothingFound DEF c
<1>6. CASE <<word>> \in SensitiveDataTerms
  <2>1. FindTerms(CandidateText(c), SENSITIVE_DATA_TERMS) # {}
    BY <1>3, <1>6, TermsInForce
  <2>2. SensitiveData(c) # << >>
    BY <2>1, IssueIfType DEF SensitiveData, IssueCodes, IssueFields
  <2>. QED  BY <1>1, <1>2, <2>2, NothingFound DEF c
<1>. QED  BY <1>4, <1>5, <1>6 DEF AllTerms

\* What a client offers is the tool of its vertical, and conforms if the
\* validator finds nothing in it.
LEMMA OfferedIsJudged ==
    ASSUME NEW c, OfShipped(c)
    PROVE  /\ c.vertical \in DOMAIN ShippedTools /\ c.internal_version \in Versions
           /\ \E j \in DOMAIN ShippedTools[c.vertical] :
                 /\ c.upstream_tool = ShippedTools[c.vertical][j].name
                 /\ ShippedTools[c.vertical][j].safe => c.safe_to_expose = TRUE
                 /\ Conforms(c) <=> IssuesOf(Judged(c.vertical, ShippedTools[c.vertical][j],
                                                   c.internal_version, c.safe_to_expose)) = << >>
<1>1. /\ c \in Candidates /\ c.vertical \in DOMAIN ShippedTools
      /\ c.internal_version \in Versions /\ c.safe_to_expose \in BOOLEAN
  BY DEF OfShipped, Candidates
<1>2. PICK j \in DOMAIN ShippedTools[c.vertical] :
         /\ c.upstream_tool = ShippedTools[c.vertical][j].name
         /\ c.input_schema = ShippedTools[c.vertical][j].input_schema
         /\ ShippedTools[c.vertical][j].safe => c.safe_to_expose = TRUE
  BY DEF OfShipped
<1>. DEFINE tool == ShippedTools[c.vertical][j]
<1>. HIDE DEF tool
<1>3. c.upstream_tool = tool.name /\ c.input_schema = tool.input_schema
  BY <1>2 DEF tool
<1>4. c = Attested(c.vertical, tool, c.internal_version, c.safe_to_expose)
  BY <1>1, <1>3 DEF Candidates, Attested
<1>5. Conforms(Attested(c.vertical, tool, c.internal_version, c.safe_to_expose))
      <=> IssuesOf(Judged(c.vertical, tool, c.internal_version, c.safe_to_expose)) = << >>
  BY <1>1, ConformsIsVerdict DEF tool
<1>6. Conforms(c)
      <=> IssuesOf(Judged(c.vertical, tool, c.internal_version, c.safe_to_expose)) = << >>
  <2>1. \A d : d = c => (Conforms(d) <=> Conforms(c))
    OBVIOUS
  <2>. QED  BY <1>4, <1>5, <2>1
<1>. QED  BY <1>1, <1>2, <1>6 DEF tool

\* What a guided tool is called begins a term; the others are plain.
LEMMA GuidedOrPlain ==
    ASSUME NEW v \in DOMAIN ShippedTools, NEW j \in DOMAIN ShippedTools[v]
    PROVE  LET tool == ShippedTools[v][j] IN
           \/ /\ tool.name \in RejectionGuidance[v]
              /\ \E k \in DOMAIN Words[tool.name] :
                    /\ Words[tool.name][k] # Hyphen
                    /\ <<Words[tool.name][k]>> \in AllTerms
           \/ /\ tool.name \notin RejectionGuidance[v] /\ tool.safe = TRUE
              /\ v \in PlainTexts /\ tool.name \in PlainTexts /\ tool.description \in PlainTexts
              /\ tool.input_schema \in PlainValues /\ InForm(tool.input_schema)
              /\ \/ v = "mobility" /\ tool.name = "search"
                 \/ v = "internet" /\ tool.name = "check_availability"
                 \/ v = "insurance" /\ tool.name = "quote"
<1>. DEFINE Spells(text, words) == Words[text] = words
            Guided(text) == \E k \in DOMAIN Words[text] :
                               Words[text][k] # Hyphen /\ <<Words[text][k]>> \in AllTerms
<1>1. /\ Spells("book", <<"book">>)
      /\ Spells("order_plan", <<"order", Underscore, "plan">>)
      /\ Spells("run_diagnostics_command",
                <<"run", Underscore, "diagnostics", Underscore, "command">>)
      /\ Spells("bind_policy", <<"bind", Underscore, "policy">>)
      /\ Spells("quote_with_ssn", <<"quote", Underscore, "with", Underscore, "ssn">>)
  BY WordsOfTools
<1>. HIDE DEF Spells
<1>2. /\ {<<"book">>, <<"order">>, <<"bind">>} \subseteq UnsafeActionTerms
      /\ <<"diagnostics">> \in InternalLeakageTerms /\ <<"ssn">> \in SensitiveDataTerms
  BY DEF UnsafeActionTerms, InternalLeakageTerms, SensitiveDataTerms
<1>3. {<<"book">>, <<"order">>, <<"bind">>, <<"diagnostics">>, <<"ssn">>} \subseteq AllTerms
  BY <1>2 DEF AllTerms
<1>4. Hyphen \notin {"book", "order", "bind", "diagnostics", "ssn"}
  BY DEF Hyphen
<1>5. Guided("book")
  <2>1. 1 \in DOMAIN Words["book"] /\ Words["book"][1] = "book"
    BY <1>1 DEF Spells
  <2>. QED  BY <1>3, <1>4, <2>1
<1>6. Guided("order_plan")
  <2>1. 1 \in DOMAIN Words["order_plan"] /\ Words["order_plan"][1] = "order"
    BY <1>1 DEF Spells
  <2>. QED  BY <1>3, <1>4, <2>1
<1>7. Guided("run_diagnostics_command")
  <2>1. /\ 3 \in DOMAIN Words["run_diagnostics_command"]
        /\ Words["run_diagnostics_command"][3] = "diagnostics"
    BY <1>1 DEF Spells
  <2>. QED  BY <1>3, <1>4, <2>1
<1>8. Guided("bind_policy")
  <2>1. 1 \in DOMAIN Words["bind_policy"] /\ Words["bind_policy"][1] = "bind"
    BY <1>1 DEF Spells
  <2>. QED  BY <1>3, <1>4, <2>1
<1>9. Guided("quote_with_ssn")
  <2>1. 5 \in DOMAIN Words["quote_with_ssn"] /\ Words["quote_with_ssn"][5] = "ssn"
    BY <1>1 DEF Spells
  <2>. QED  BY <1>3, <1>4, <2>1
<1>. HIDE DEF Guided
<1>10. /\ RejectionGuidance["mobility"] = {"book"}
       /\ RejectionGuidance["internet"] = {"order_plan", "run_diagnostics_command"}
       /\ RejectionGuidance["insurance"] = {"bind_policy", "quote_with_ssn"}
  BY DEF RejectionGuidance, MobilityRejectionGuidance, InternetRejectionGuidance,
         InsuranceRejectionGuidance
<1>11. {"mobility", "internet", "insurance", "search", "check_availability", "quote", ".."}
          \subseteq PlainTexts
  BY DEF PlainTexts
<1>12. v \in {"mobility", "internet", "insurance"}
  BY DEF ShippedTools
<1>13. ShippedTools[v][j].input_schema \in Values
  BY ToolsAreInForm
<1>14. CASE v = "mobility"
  <2>1. CASE j = 1
    <3>1. SearchInput \in PlainValues
      BY <1>13, <1>14, <2>1, MobilityShips, SearchIsPlain
    <3>. QED  BY <1>10, <1>11, <1>14, <2>1, <3>1, MobilityShips, SearchInForm
  <2>2. CASE j = 2
    BY <1>5, <1>10, <1>14, <2>2, MobilityShips DEF Guided
  <2>. QED  BY <1>14, <2>1, <2>2, MobilityShips
<1>15. CASE v = "internet"
  <2>1. CASE j = 1
    <3>1. CheckAvailabilityTool.input_schema \in PlainValues
      BY <1>13, <1>15, <2>1, InternetShips, CheckAvailabilityIsPlain
    <3>. QED  BY <1>10, <1>11, <1>15, <2>1, <3>1, InternetShips, CheckAvailabilityInForm
  <2>2. CASE j = 2
    BY <1>6, <1>10, <1>15, <2>2, InternetShips DEF Guided
  <2>3. CASE j = 3
    BY <1>7, <1>10, <1>15, <2>3, InternetShips DEF Guided
  <2>. QED  BY <1>15, <2>1, <2>2, <2>3, InternetShips
<1>16. CASE v = "insurance"
  <2>1. CASE j = 1
    <3>1. Arguments(QuoteProperties, QuoteRequired) \in PlainValues
      BY <1>13, <1>16, <2>1, InsuranceShips, QuoteIsPlain
    <3>. QED  BY <1>10, <1>11, <1>16, <2>1, <3>1, InsuranceShips, QuoteInForm
  <2>2. CASE j = 2
    BY <1>8, <1>10, <1>16, <2>2, InsuranceShips DEF Guided
  <2>3. CASE j = 3
    BY <1>9, <1>10, <1>16, <2>3, InsuranceShips DEF Guided
  <2>. QED  BY <1>16, <2>1, <2>2, <2>3, InsuranceShips
<1>. QED  BY <1>12, <1>14, <1>15, <1>16

\* The validator rejects the tools that the guidance names and no others.
LEMMA GuidanceIsVerdict ==
    ASSUME NEW c, OfShipped(c)
    PROVE  /\ Conforms(c) <=> c.upstream_tool \notin RejectionGuidance[c.vertical]
           /\ c.upstream_tool \notin RejectionGuidance[c.vertical] =>
                 \/ c.vertical = "mobility" /\ c.upstream_tool = "search"
                 \/ c.vertical = "internet" /\ c.upstream_tool = "check_availability"
                 \/ c.vertical = "insurance" /\ c.upstream_tool = "quote"
<1>. DEFINE v == c.vertical
            version == c.internal_version
            safe == c.safe_to_expose
<1>1. /\ v \in DOMAIN ShippedTools /\ version \in Versions
  BY OfferedIsJudged
<1>2. PICK j \in DOMAIN ShippedTools[v] :
         /\ c.upstream_tool = ShippedTools[v][j].name
         /\ ShippedTools[v][j].safe => safe = TRUE
         /\ Conforms(c) <=> IssuesOf(Judged(v, ShippedTools[v][j], version, safe)) = << >>
  BY OfferedIsJudged
<1>. DEFINE tool == ShippedTools[v][j]
<1>. HIDE DEF v, version, safe
<1>3. CASE /\ tool.name \in RejectionGuidance[v]
           /\ \E k \in DOMAIN Words[tool.name] :
                 Words[tool.name][k] # Hyphen /\ <<Words[tool.name][k]>> \in AllTerms
  <2>1. PICK k \in DOMAIN Words[tool.name] :
           Words[tool.name][k] # Hyphen /\ <<Words[tool.name][k]>> \in AllTerms
    BY <1>3
  <2>2. IssuesOf(Judged(v, tool, version, safe)) # << >>
    BY <1>1, <2>1, TermToolIsRejected
  <2>. QED  BY <1>2, <1>3, <2>2 DEF v
<1>4. CASE /\ tool.name \notin RejectionGuidance[v] /\ tool.safe = TRUE
           /\ v \in PlainTexts /\ tool.name \in PlainTexts /\ tool.description \in PlainTexts
           /\ tool.input_schema \in PlainValues /\ InForm(tool.input_schema)
           /\ \/ v = "mobility" /\ tool.name = "search"
              \/ v = "internet" /\ tool.name = "check_availability"
              \/ v = "insurance" /\ tool.name = "quote"
  <2>1. safe = TRUE
    BY <1>2, <1>4
  <2>2. IssuesOf(Judged(v, tool, version, safe)) = << >>
    BY <1>1, <1>4, <2>1, PlainToolConforms
  <2>. QED  BY <1>2, <1>4, <2>2 DEF v
<1>. QED  BY <1>1, <1>3, <1>4, GuidedOrPlain

-----------------------------------------------------------------------------
(* The guidance.                                                           *)

\* A vertical's manifest names the tools it ships, and its guidance some of them.
LEMMA ManifestIsShipped ==
    ASSUME NEW v \in DOMAIN ShippedTools
    PROVE  /\ Manifest[v] = {ShippedTools[v][j].name : j \in DOMAIN ShippedTools[v]}
           /\ RejectionGuidance[v] \subseteq Manifest[v]
<1>1. v \in {"mobility", "internet", "insurance"}
  BY DEF ShippedTools
<1>2. CASE v = "mobility"
  <2>1. Manifest[v] = {"search", "book"} /\ RejectionGuidance[v] = {"book"}
    BY <1>2 DEF Manifest, MobilityManifest, RejectionGuidance, MobilityRejectionGuidance
  <2>. QED  BY <1>2, <2>1, MobilityShips
<1>3. CASE v = "internet"
  <2>1. /\ Manifest[v] = {"check_availability", "order_plan", "run_diagnostics_command"}
        /\ RejectionGuidance[v] = {"order_plan", "run_diagnostics_command"}
    BY <1>3 DEF Manifest, InternetManifest, RejectionGuidance, InternetRejectionGuidance
  <2>. QED  BY <1>3, <2>1, InternetShips
<1>4. CASE v = "insurance"
  <2>1. /\ Manifest[v] = {"quote", "bind_policy", "quote_with_ssn"}
        /\ RejectionGuidance[v] = {"bind_policy", "quote_with_ssn"}
    BY <1>4 DEF Manifest, InsuranceManifest, RejectionGuidance, InsuranceRejectionGuidance
  <2>. QED  BY <1>4, <2>1, InsuranceShips
<1>. QED  BY <1>1, <1>2, <1>3, <1>4

\* The tools that the guidance does not name are mapped, as version 1.0.
LEMMA UnguidedIsMapped ==
    ASSUME NEW c, OfShipped(c), c.internal_version = "1.0",
           c.upstream_tool \notin RejectionGuidance[c.vertical]
    PROVE  MappingOf(c) # None
<1>. DEFINE key == MappingKey(c)
<1>1. key = <<c.vertical, c.upstream_tool, "1.0">>
  BY DEF MappingKey
<1>2. MappingOf(c) = DefaultOf(key)
  BY MappingIsDefault DEF OfShipped
<1>. HIDE DEF key
<1>3. \/ key = <<"mobility", "search", "1.0">>
      \/ key = <<"internet", "check_availability", "1.0">>
      \/ key = <<"insurance", "quote", "1.0">>
  BY <1>1, GuidanceIsVerdict
<1>4. \/ MappingOf(c) = Mapped("search_mobility_options")
      \/ MappingOf(c) = Mapped("compare_internet_plans")
      \/ MappingOf(c) = Mapped("compare_insurance_offers")
  BY <1>2, <1>3 DEF DefaultOf
<1>. QED  BY <1>4, DefaultsInForce

\* What is listed of a vertical is what it ships.
LEMMA ListedNames ==
    ASSUME NEW l \in Listings, NEW k \in DOMAIN Clients, l[k] # Unreachable
    PROVE  /\ Clients[k] \in DOMAIN ShippedTools
           /\ {l[k][d].name : d \in DOMAIN l[k]} = Manifest[Clients[k]]
<1>1. /\ Clients[k] \in DOMAIN ShippedTools
      /\ \A d \in DOMAIN l[k] : \E j \in DOMAIN ShippedTools[Clients[k]] :
            l[k][d].name = ShippedTools[Clients[k]][j].name
      /\ \A j \in DOMAIN ShippedTools[Clients[k]] : \E d \in DOMAIN l[k] :
            l[k][d].name = ShippedTools[Clients[k]][j].name
  BY ShippedListings
<1>. QED  BY <1>1, ManifestIsShipped

\* Every candidate is of a tool that its vertical ships.
LEMMA CandidatesAreShipped ==
    ASSUME SInv, NEW i \in 1..Len(candidates)
    PROVE  OfShipped(candidates[i])
<1>1. candidates[i] \in Candidates /\ listing \in Listings
  BY DEF SInv, IInv, TypeOK, Phases
<1>2. PICK k \in 1..Len(Clients) :
         /\ listing[k] # Unreachable
         /\ \E d \in 1..Len(listing[k]) :
               candidates[i] = McpToolToCandidate(Clients[k], listing[k][d])
  BY DEF SInv, OfferedBySome
<1>3. PICK d \in 1..Len(listing[k]) :
         candidates[i] = McpToolToCandidate(Clients[k], listing[k][d])
  BY <1>2
<1>4. McpToolToCandidate(Clients[k], listing[k][d]) \in Candidates
  BY <1>1, <1>3
<1>5. OfShipped(McpToolToCandidate(Clients[k], listing[k][d]))
  BY <1>1, <1>2, <1>4, ListedIsShipped
<1>. QED  BY <1>3, <1>5

\* The guidance a vertical publishes about its tools is true of the catalog:
\* the validator rejects the tools it names, and of the others none but for a
\* duplicate or another version, however the vertical lists and attests them;
\* and the manifest names the tools listed.
THEOREM GuidanceIsTrue == SystemSpec => []RejectionGuidanceIsTrue
<1>1. ASSUME SInv, Ready, NEW k \in DOMAIN Clients
      PROVE  LET v == Clients[k]
                 Rejected(codes) == {results[i].tool : i \in {j \in DOMAIN results :
                                        results[j].vertical = v /\ results[j].code \in codes}}
             IN  /\ Rejected({"NONCONFORMING"}) = RejectionGuidance[v]
                 /\ \A i \in DOMAIN candidates :
                       /\ candidates[i].vertical = v
                       /\ candidates[i].upstream_tool \notin RejectionGuidance[v]
                       /\ candidates[i].internal_version = "1.0"
                       => results[i].code \in {Accepted, "DUPLICATE_PUBLIC_MAPPING"}
                 /\ {listing[k][i].name : i \in DOMAIN listing[k]} = Manifest[v]
  <2>. DEFINE v == Clients[k]
              named == {results[i].tool : i \in {j \in DOMAIN results :
                           results[j].vertical = v /\ results[j].code \in {"NONCONFORMING"}}}
  <2>1. /\ listing \in Listings /\ k \in 1..(client - 1)
        /\ DOMAIN candidates = 1..Len(candidates) /\ DOMAIN results = 1..Len(candidates)
        /\ \A i \in 1..Len(candidates) : results[i].code \in Codes
    <3>1. /\ client = Len(Clients) + 1 /\ at = Len(candidates) + 1
          /\ Len(results) = at - 1
      BY <1>1 DEF Ready, SInv, IInv, Phases, ResultsTell
    <3>2. DOMAIN Clients = 1..Len(Clients) /\ Len(Clients) \in Nat
      BY ClientsAssumption
    <3>3. /\ DOMAIN candidates = 1..Len(candidates) /\ Len(candidates) \in Nat
          /\ DOMAIN results = 1..Len(results)
      BY <1>1 DEF SInv, IInv, TypeOK
    <3>4. ASSUME NEW i \in 1..Len(results)  PROVE results[i].code \in Codes
      <4>1. results \in Seq([vertical : Verticals, tool : Tools, code : Codes])
        BY <1>1 DEF SInv, IInv, TypeOK
      <4>2. results[i] \in [vertical : Verticals, tool : Tools, code : Codes]
        BY <4>1, ElementOfSeq
      <4>. QED  BY <4>2
    <3>. QED  BY <1>1, <3>1, <3>2, <3>3, <3>4 DEF SInv, IInv, Phases
  <2>2. ASSUME NEW i \in 1..Len(candidates)
        PROVE  /\ OfShipped(candidates[i])
               /\ results[i].vertical = candidates[i].vertical
               /\ results[i].tool = candidates[i].upstream_tool
               /\ results[i].code = "NONCONFORMING" <=>
                     candidates[i].upstream_tool \in RejectionGuidance[candidates[i].vertical]
               /\ results[i].code = "NO_APPROVED_PUBLIC_MAPPING" => MappingOf(candidates[i]) = None
    <3>1. Tells(i)
      BY <1>1, <2>1 DEF SInv, IInv, TypeOK, ResultsTell
    <3>2. OfShipped(candidates[i])
      BY <1>1, CandidatesAreShipped
    <3>. QED  BY <3>1, <3>2, GuidanceIsVerdict DEF Tells, Explains
  <2>3. /\ v \in DOMAIN ShippedTools /\ listing[k] # Unreachable
        /\ {listing[k][d].name : d \in DOMAIN listing[k]} = Manifest[v]
    BY <1>1, <2>1, ListedNames DEF SInv, IInv, Collected
  <2>4. ASSUME NEW tool \in RejectionGuidance[v]  PROVE tool \in named
    <3>1. PICK d \in DOMAIN listing[k] : listing[k][d].name = tool
      BY <2>3, <2>4, ManifestIsShipped
    <3>2. d \in 1..Len(listing[k])
      <4>1. k \in 1..Len(Clients)
        BY <1>1, ClientsAssumption
      <4>2. \E S : listing[k] \in Seq(S)
        BY <2>1, <2>3, <4>1, ListingsAssumption
      <4>. QED  BY <3>1, <4>2
    <3>3. PICK i \in 1..Len(candidates) :
             candidates[i] = McpToolToCandidate(Clients[k], listing[k][d])
      BY <1>1, <2>1, <3>2 DEF SInv, IInv, Collected
    <3>4. candidates[i].vertical = v /\ candidates[i].upstream_tool = tool
      BY <3>1, <3>3 DEF McpToolToCandidate
    <3>5. i \in DOMAIN results
      BY <2>1
    <3>. QED  BY <2>2, <2>4, <3>4, <3>5
  <2>5. named \subseteq RejectionGuidance[v]
    <3>1. ASSUME NEW i \in DOMAIN results, results[i].vertical = v,
                 results[i].code = "NONCONFORMING"
          PROVE  results[i].tool \in RejectionGuidance[v]
      BY <2>1, <2>2, <3>1
    <3>. QED  BY <3>1
  <2>6. named = RejectionGuidance[v]
    BY <2>4, <2>5
  <2>7. ASSUME NEW i \in DOMAIN candidates, candidates[i].vertical = v,
               candidates[i].upstream_tool \notin RejectionGuidance[v],
               candidates[i].internal_version = "1.0"
        PROVE  results[i].code \in {Accepted, "DUPLICATE_PUBLIC_MAPPING"}
    <3>1. i \in 1..Len(candidates)
      BY <2>1
    <3>2. MappingOf(candidates[i]) # None
      BY <2>2, <2>7, <3>1, UnguidedIsMapped
    <3>3. results[i].code \notin {"NONCONFORMING", "NO_APPROVED_PUBLIC_MAPPING"}
      BY <2>2, <2>7, <3>1, <3>2
    <3>. QED  BY <2>1, <3>1, <3>3 DEF Codes
  <2>. QED  BY <2>3, <2>6, <2>7
<1>2. SInv => RejectionGuidanceIsTrue
  BY <1>1 DEF RejectionGuidanceIsTrue
<1>. QED  BY <1>2, SystemInvariance, PTL
===============================================================================
