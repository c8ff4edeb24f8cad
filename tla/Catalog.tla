------------------------------- MODULE Catalog -------------------------------
(***************************************************************************)
(* The startup construction of the public catalog (app/catalog/builder.py, *)
(* app/vertical_mcp/adapters.py) and the read-only registry on the result  *)
(* (app/catalog/registry.py).                                              *)
(*                                                                         *)
(* The builder awaits the listing of one vertical client after another and *)
(* adapts what each lists; then, in one turn of the event loop, it         *)
(* validates all candidates and goes through them in order, publishing,    *)
(* or rejecting, one at a time.                                            *)
(***************************************************************************)
EXTENDS CatalogData, Picks

CONSTANTS
    Clients,        \* sequence of the clients' names, in configured order
    Listings,       \* the possible results of the clients' list_tools()
    Unreachable     \* the listing of a client whose list_tools() raises

ASSUME ClientsAssumption == Clients \in Seq(Verticals)

\* A client that answers lists a sequence of descriptors, whose names are texts
\* and whose schemas are dicts; their metadata may be anything.
ASSUME ListingsAssumption ==
    \A l \in Listings : \A k \in 1..Len(Clients) :
        l[k] # Unreachable =>
            /\ l[k] \in Seq({l[k][i] : i \in DOMAIN l[k]})
            /\ \A i \in 1..Len(l[k]) :
                  l[k][i].name \in Tools /\ l[k][i].input_schema \in Schemas

VARIABLES
    listing,        \* what each client lists, or Unreachable
    phase,          \* "listing", "building", "ready" or "failed"
    client,         \* index of the client listed next
    candidates,     \* list of adapted candidates
    at,             \* index of the candidate the loop is at
    results,        \* final_results of the validation report
    tools,          \* public_tools of the snapshot
    routes          \* routes of the snapshot

vars == <<listing, phase, client, candidates, at, results, tools, routes>>

-----------------------------------------------------------------------------
\* A descriptor whose metadata lacks a key or has a value of the wrong type
\* makes the adapter raise.
Malformed(d) == d.version \notin Versions \/ d.safe \notin BOOLEAN

\* A candidate as the builder reads it: the description and the response schema
\* it carries along are left out.
McpToolToCandidate(vertical, d) ==
    [vertical |-> vertical, upstream_tool |-> d.name,
     internal_version |-> d.version, safe_to_expose |-> d.safe,
     input_schema |-> d.input_schema]

Adapted(vertical, ds) ==
    [i \in 1..Len(ds) |-> McpToolToCandidate(vertical, ds[i])]

\* Mutant: no metadata is required.
AdaptableUnchecked == TRUE

Listed == listing[client] # Unreachable
Adaptable == \A i \in 1..Len(listing[client]) : ~Malformed(listing[client][i])

Init == /\ listing \in Listings
        /\ phase = "listing"
        /\ client = 1
        /\ candidates = << >>
        /\ at = 1
        /\ results = << >>
        /\ tools = << >>
        /\ routes = [n \in PublicNames |-> None]

\* candidates.extend(await list_candidate_tools(client))
ListCandidateTools ==
    /\ phase = "listing"
    /\ client <= Len(Clients)
    /\ Listed /\ Adaptable
    /\ candidates' = candidates \o Adapted(Clients[client], listing[client])
    /\ client' = client + 1
    /\ UNCHANGED <<listing, phase, at, results, tools, routes>>

\* Mutant: a client that cannot be listed is left out.
SkipClient ==
    /\ phase = "listing"
    /\ client <= Len(Clients)
    /\ Listed => ~Adaptable
    /\ client' = client + 1
    /\ UNCHANGED <<listing, phase, candidates, at, results, tools, routes>>

\* Mutant: a client that cannot be listed is asked again.
RetryClient ==
    /\ phase = "listing"
    /\ client <= Len(Clients)
    /\ Listed => ~Adaptable
    /\ UNCHANGED vars

\* list_tools() or the adapter raises; nothing catches it during startup.
ListingRaises ==
    /\ phase = "listing"
    /\ client <= Len(Clients)
    /\ Listed => ~Adaptable
    /\ phase' = "failed"
    /\ UNCHANGED <<listing, client, candidates, at, results, tools, routes>>

BuildFromCandidates ==
    /\ phase = "listing"
    /\ client > Len(Clients)
    /\ phase' = "building"
    /\ UNCHANGED <<listing, client, candidates, at, results, tools, routes>>

-----------------------------------------------------------------------------
Candidate == candidates[at]

InLoop == phase = "building" /\ at <= Len(candidates)

Result(code) == [vertical |-> Candidate.vertical,
                 tool |-> Candidate.upstream_tool, code |-> code]

Accepted == "accepted"

\* Mutant: a duplicate is skipped without a result.
RejectUnreported(code) ==
    /\ results' = IF code = "DUPLICATE_PUBLIC_MAPPING" THEN results
                  ELSE Append(results, Result(code))
    /\ at' = at + 1
    /\ UNCHANGED <<listing, phase, client, candidates, tools, routes>>

\* One iteration that appends a rejection and continues.
Reject(code) ==
    /\ results' = Append(results, Result(code))
    /\ at' = at + 1
    /\ UNCHANGED <<listing, phase, client, candidates, tools, routes>>

KeepRejection == InLoop /\ ~Conforms(Candidate) /\ Reject("NONCONFORMING")

RejectUnmapped ==
    /\ InLoop
    /\ Conforms(Candidate)
    /\ MappingOf(Candidate) = None
    /\ Reject("NO_APPROVED_PUBLIC_MAPPING")

\* Mutant: a name is taken only by a tool of the same vertical.
NameTakenInVertical(mapping) ==
    LET route == routes[mapping.public_name] IN
    route # None /\ route.vertical = Candidate.vertical

NameTaken(mapping) == routes[mapping.public_name] # None

RejectDuplicate ==
    /\ InLoop
    /\ Conforms(Candidate)
    /\ MappingOf(Candidate) # None
    /\ NameTaken(MappingOf(Candidate))
    /\ Reject("DUPLICATE_PUBLIC_MAPPING")

PublishCandidate ==
    /\ InLoop
    /\ Conforms(Candidate)
    /\ MappingOf(Candidate) # None
    /\ LET mapping == MappingOf(Candidate) IN
         /\ ~NameTaken(mapping)
         /\ tools' = Append(tools, ToPublicTool(Candidate, mapping))
         /\ routes' = [routes EXCEPT ![mapping.public_name] =
                                        ToRoute(Candidate, mapping)]
    /\ results' = Append(results, Result(Accepted))
    /\ at' = at + 1
    /\ UNCHANGED <<listing, phase, client, candidates>>

\* Mutant: the loop ends one candidate early.
SnapshotEarly ==
    /\ phase = "building"
    /\ at >= Len(candidates)
    /\ phase' = "ready"
    /\ UNCHANGED <<listing, client, candidates, at, results, tools, routes>>

\* return CatalogSnapshot(...)
Snapshot ==
    /\ phase = "building"
    /\ at > Len(candidates)
    /\ phase' = "ready"
    /\ UNCHANGED <<listing, client, candidates, at, results, tools, routes>>

Next == \/ ListCandidateTools \/ ListingRaises \/ BuildFromCandidates
        \/ KeepRejection \/ RejectUnmapped \/ RejectDuplicate
        \/ PublishCandidate \/ Snapshot

Spec == Init /\ [][Next]_vars

\* The in-process clients answer list_tools() and the loop has no other await.
FairSpec == Spec /\ WF_vars(Next)

-----------------------------------------------------------------------------
(* The registry: CatalogRegistry over the snapshot of a ready catalog.     *)

Ready == phase = "ready"

\* _tools_by_name keeps the last tool of a name.
GetTool(n) ==
    LET named == {i \in 1..Len(tools) : tools[i].name = n} IN
    IF named = {} THEN None
    ELSE tools[CHOOSE i \in named : \A j \in named : j <= i]

GetRoute(n) == routes[n]

RoutedTo(vertical, tool) ==
    GetRoute(tool.name) # None /\ GetRoute(tool.name).vertical = vertical

ListTools(vertical) ==
    IF vertical = None THEN tools
    ELSE Picked(tools, {i \in DOMAIN tools : RoutedTo(vertical, tools[i])})

-----------------------------------------------------------------------------
(* Properties                                                              *)

Codes == {Accepted, "NONCONFORMING", "NO_APPROVED_PUBLIC_MAPPING",
          "DUPLICATE_PUBLIC_MAPPING"}

\* The type of every variable of the builder.
TypeOK ==
    /\ phase \in {"listing", "building", "ready", "failed"}
    /\ client \in 1..(Len(Clients) + 1)
    /\ candidates \in Seq(Candidates)
    /\ at \in 1..(Len(candidates) + 1)
    /\ results \in Seq([vertical : Verticals, tool : Tools, code : Codes])
    /\ tools \in Seq(PublicTools)
    /\ routes \in [PublicNames -> Routes \cup {None}]

\* The validation report has exactly one result per candidate, in listing
\* order and under that candidate's identity, and says "accepted" of exactly
\* the candidates that got a public name (build_from_candidates appends in
\* four places and the debug pages pair the report with the catalog).
ReportTellsWhatIsPublished ==
    /\ Len(results) = at - 1
    /\ phase = "ready" => Len(results) = Len(candidates)
    /\ \A i \in 1..Len(results) :
          /\ results[i].vertical = candidates[i].vertical
          /\ results[i].tool = candidates[i].upstream_tool
          /\ results[i].code = Accepted
                <=> \E n \in PublicNames : First(candidates, i, n)

\* The registry's two dicts, built separately, agree: a name has a tool
\* exactly when it has a route, and both were made from one candidate, so
\* arguments are validated with the schema of the tool they are sent to.
RegistryAgrees ==
    \A n \in PublicNames :
        /\ GetTool(n) # None <=> GetRoute(n) # None
        /\ GetRoute(n) # None =>
             \E i \in 1..Len(candidates) :
                /\ First(candidates, i, n)
                /\ GetRoute(n) = ToRoute(candidates[i], MappingOf(candidates[i]))
                /\ GetTool(n) = ToPublicTool(candidates[i], MappingOf(candidates[i]))

\* Startup is all or nothing: a catalog is ready only if every client was
\* listed and every descriptor of every client is among its candidates, and
\* a startup that failed has published nothing.
NoPartialCatalog ==
    /\ Ready => \A k \in 1..Len(Clients) :
         /\ listing[k] # Unreachable
         /\ \A d \in 1..Len(listing[k]) : \E i \in 1..Len(candidates) :
               candidates[i] = McpToolToCandidate(Clients[k], listing[k][d])
    /\ phase = "failed" => tools = << >> /\ \A n \in PublicNames : routes[n] = None

\* The loop over candidates implements the one-step publication.
Curated == INSTANCE CuratedCatalog WITH
    offered <- candidates,
    outcome <- IF Ready THEN "published"
               ELSE IF phase = "failed" THEN "failed" ELSE "pending",
    tools   <- IF Ready THEN {tools[i] : i \in 1..Len(tools)} ELSE {},
    routes  <- IF Ready THEN routes ELSE [n \in PublicNames |-> None]

ImplementsCuratedCatalog == Curated!Spec

\* Startup ends: every build reaches a snapshot or fails.
StartupEnds == <>(phase \in {"ready", "failed"})
=============================================================================
