----------------------------- MODULE Resources -----------------------------
(***************************************************************************)
(* The two routes of app/api/debug.py on what the verticals publish about  *)
(* themselves: the listing, which awaits the selected clients one after    *)
(* another, and the reading of one resource.  A client answers, raises, or *)
(* takes its time; requests overlap at every await.                        *)
(***************************************************************************)
EXTENDS Verticals, FiniteSets

CONSTANTS
    Requests,       \* the requests made, each once (bound)
    Clients,        \* sequence of the clients' names, in configured order
    Asked,          \* the verticals a request may name
    AskedNames,     \* the resource names a request may name
    Delaying,       \* the clients that may never answer
    None            \* no vertical is named, or there is no reply yet

ClientNames == {Clients[i] : i \in DOMAIN Clients}

\* Each client is one of a shipped server.
ASSUME ClientsAssumption ==
    Clients \in Seq(DOMAIN ShippedTools) /\ Delaying \subseteq ClientNames
ASSUME NoneAssumption == None \notin Asked \cup ClientNames

VARIABLES
    request,    \* the route and its parameters, None before it is called
    at,         \* index of the client that is awaited
    found,      \* what the clients before it list
    reply,      \* the response, None before there is one
    raised      \* ghost: the verticals that raised during the request

vars == <<request, at, found, reply, raised>>

-----------------------------------------------------------------------------
\* Mutant: all clients are listed, and the others left out at the end.
AllClients(vertical) == Clients

\* All clients, or those of one name: as many as have it.
FilterVerticalClients(vertical) ==
    IF vertical = None THEN Clients
    ELSE [k \in 1..Cardinality({i \in DOMAIN Clients : Clients[i] = vertical}) |-> vertical]

\* Whether _get_vertical_client finds a client.
HasVerticalClient(vertical) == \E i \in DOMAIN Clients : Clients[i] = vertical

\* Mutant: the uri is made of the name alone.
UriOfName(vertical, name) == <<name>>
Uri(vertical, name) == <<vertical, name>>

Listing(vertical) == [route |-> "list", vertical |-> vertical]
Reading(vertical, name) == [route |-> "read", vertical |-> vertical, name |-> name]

Success(body) == [status |-> 200, body |-> body]
HTTPException(status, detail) == [status |-> status, detail |-> detail]
VerticalNotFound == HTTPException(404, "Vertical not found.")
ResourceNotFound == HTTPException(404, "Resource not found.")

\* What becomes of an exception that no handler catches.
InternalServerError == HTTPException(500, "Internal Server Error")

\* What a client adds to a listing, and what all selected clients do.
Listed(name) == [vertical |-> name, resources |-> ListResources(name)]
ListedBy(clients) == [i \in DOMAIN clients |-> Listed(clients[i])]

\* No request and no response is None.
ASSUME MessagesAssumption ==
    /\ \A v \in Asked \cup {None} :
          None \notin {Listing(v), Success(<< >>), Success(ListedBy(FilterVerticalClients(v)))}
    /\ \A v \in Asked, name \in AskedNames : Reading(v, name) # None
    /\ \A v \in ClientNames :
          None \notin {Success(Manifest[v]), Success(RejectionGuidance[v])}
    /\ None \notin {VerticalNotFound, ResourceNotFound, InternalServerError}

Open(r) == request[r] # None /\ reply[r] = None
IsListing(r) == Open(r) /\ request[r].route = "list"
IsReading(r) == Open(r) /\ request[r].route = "read"

Selected(r) == FilterVerticalClients(request[r].vertical)

\* The client a request waits for, None if it waits for none.
Awaited(r) == CASE IsListing(r) -> Selected(r)[at[r]]
                [] IsReading(r) -> request[r].vertical
                [] OTHER        -> None

-----------------------------------------------------------------------------
Init == /\ request = [r \in Requests |-> None]
        /\ at = [r \in Requests |-> 1]
        /\ found = [r \in Requests |-> << >>]
        /\ reply = [r \in Requests |-> None]
        /\ raised = [r \in Requests |-> {}]

Returns(r, response) == reply' = [reply EXCEPT ![r] = response]

\* debug_vertical_resources up to its first await.
DebugVerticalResources(r, vertical) ==
    /\ request[r] = None
    /\ request' = [request EXCEPT ![r] = Listing(vertical)]
    /\ IF FilterVerticalClients(vertical) = << >> THEN Returns(r, Success(<< >>))
                                                  ELSE UNCHANGED reply
    /\ UNCHANGED <<at, found, raised>>

\* debug_vertical_resource up to its await.
DebugVerticalResource(r, vertical, name) ==
    /\ request[r] = None
    /\ request' = [request EXCEPT ![r] = Reading(vertical, name)]
    /\ IF HasVerticalClient(vertical) THEN UNCHANGED reply ELSE Returns(r, VerticalNotFound)
    /\ UNCHANGED <<at, found, raised>>

\* The awaited client lists its resources: on to the next client or the reply.
ResourcesListed(r) ==
    /\ IsListing(r)
    /\ found' = [found EXCEPT ![r] = Append(@, Listed(Awaited(r)))]
    /\ IF at[r] = Len(Selected(r))
       THEN Returns(r, Success(found[r]')) /\ UNCHANGED at
       ELSE at' = [at EXCEPT ![r] = @ + 1] /\ UNCHANGED reply
    /\ UNCHANGED <<request, raised>>

\* Mutant: a client that raises is left out of the listing.
ListingSkips(r) ==
    /\ IsListing(r)
    /\ raised' = [raised EXCEPT ![r] = @ \cup {Awaited(r)}]
    /\ IF at[r] = Len(Selected(r))
       THEN Returns(r, Success(found[r])) /\ UNCHANGED at
       ELSE at' = [at EXCEPT ![r] = @ + 1] /\ UNCHANGED reply
    /\ UNCHANGED <<request, found>>

\* The awaited client raises, and with it the whole listing.
ListingRaises(r) ==
    /\ IsListing(r)
    /\ raised' = [raised EXCEPT ![r] = @ \cup {Awaited(r)}]
    /\ Returns(r, InternalServerError)
    /\ UNCHANGED <<request, at, found>>

\* The client returns the contents, or its server knows no such resource.
ResourceRead(r) ==
    /\ IsReading(r)
    /\ LET uri == Uri(request[r].vertical, request[r].name)
           contents == ReadResource(request[r].vertical, uri)
       IN  Returns(r, IF contents = Missing THEN ResourceNotFound ELSE Success(contents))
    /\ UNCHANGED <<request, at, found, raised>>

\* Any other exception of the client.
ReadingRaises(r) ==
    /\ IsReading(r)
    /\ raised' = [raised EXCEPT ![r] = @ \cup {Awaited(r)}]
    /\ Returns(r, ResourceNotFound)
    /\ UNCHANGED <<request, at, found>>

\* The awaited client answers in one way or the other.
ClientAnswers(r) ==
    ResourcesListed(r) \/ ListingRaises(r) \/ ResourceRead(r) \/ ReadingRaises(r)

Next == \E r \in Requests :
    \/ \E vertical \in Asked \cup {None} : DebugVerticalResources(r, vertical)
    \/ \E vertical \in Asked, name \in AskedNames : DebugVerticalResource(r, vertical, name)
    \/ ClientAnswers(r)

Spec == Init /\ [][Next]_vars

\* A client that does not delay answers: no in-process handler of resources has
\* an await, and the event loop goes on with what is ready.
FairSpec == Spec /\ \A r \in Requests :
                        WF_vars(Awaited(r) \notin Delaying /\ ClientAnswers(r))

-----------------------------------------------------------------------------
(* Properties                                                              *)

Answered(r, status) == reply[r] # None /\ reply[r].status = status

\* A listing is whole or it fails: a reply has the resources of every vertical
\* asked for, in the configured order, whatever other requests do meanwhile,
\* and the listing fails only if a vertical that was asked for raised.
WholeListing ==
    \A r \in Requests : reply[r] # None /\ request[r].route = "list" =>
        LET Wanted(name) == request[r].vertical \in {None, name}
            WantedUpTo(n) == {i \in 1..n : Wanted(Clients[i])}
        IN IF raised[r] = {}
           THEN /\ Answered(r, 200)
                /\ DOMAIN reply[r].body = 1..Cardinality(WantedUpTo(Len(Clients)))
                /\ \A i \in WantedUpTo(Len(Clients)) :
                      reply[r].body[Cardinality(WantedUpTo(i))] = Listed(Clients[i])
           ELSE /\ Answered(r, 500)
                /\ \A v \in raised[r] : Wanted(v)

\* What one request is shown another can read: a resource of any listing is
\* found and is the named vertical's own, unless that vertical raised; and a
\* vertical that a listing has is never reported as unknown.
ListedIsReadable ==
    \A l, r \in Requests :
        /\ Answered(l, 200) /\ request[l].route = "list"
        /\ reply[r] # None /\ request[r].route = "read"
        => \A i \in DOMAIN reply[l].body :
             LET entry == reply[l].body[i]
                 named == <<request[r].vertical, request[r].name>>
             IN  /\ entry.vertical = request[r].vertical => reply[r] # VerticalNotFound
                 /\ named \in {entry.resources[j] : j \in DOMAIN entry.resources}
                    => \/ reply[r] = Success(ReadResource(entry.vertical, named))
                       \/ entry.vertical \in raised[r]

\* A vertical that does not answer holds up only those who ask for it: a
\* request for another vertical is answered.
SlowVerticalHoldsUpItsOwn ==
    \A r \in Requests :
        (request[r] # None /\ request[r].vertical \notin Delaying \cup {None})
            ~> (reply[r] # None)
=============================================================================
