--------------------------- MODULE ResourcesProofs ---------------------------
(***************************************************************************)
(* What the resource routes guarantee for any number of requests and any   *)
(* selection of the shipped clients: a listing is whole or fails, and what *)
(* it lists can be read.                                                   *)
(***************************************************************************)
EXTENDS Resources, SequenceTheorems, FiniteSetTheorems, TLAPS

\* What a listing may be asked for: the resources of one vertical, or of all.
Choices == Asked \cup {None}

Listings == {Listing(v) : v \in Choices}
Readings == {Reading(v, name) : v \in Asked, name \in AskedNames}

\* The variables are functions of the requests; a listing collects a sequence.
Shapes ==
    /\ request \in [Requests -> Listings \cup Readings \cup {None}]
    /\ at \in [Requests -> Nat]
    /\ found \in [Requests -> Seq({Listed(v) : v \in ClientNames})]
    /\ DOMAIN reply = Requests
    /\ DOMAIN raised = Requests

Untouched(r) == /\ at[r] = 1 /\ found[r] = << >>
                /\ reply[r] = None /\ raised[r] = {}

\* The clients before the awaited one are listed, in their order, and none of
\* them raised.
ListingGoesOn(r, clients) ==
    /\ reply[r] = None /\ raised[r] = {}
    /\ at[r] \in 1..Len(clients)
    /\ Len(found[r]) = at[r] - 1
    /\ \A i \in 1..(at[r] - 1) : found[r][i] = Listed(clients[i])

\* A listing that is done has what all its clients list, or one of them raised.
ListingIsWhole(r, clients) ==
    raised[r] = {} /\ reply[r] = Success(ListedBy(clients))

ListingFailed(r, clients) ==
    /\ reply[r] = InternalServerError
    /\ raised[r] # {} /\ raised[r] \subseteq {clients[i] : i \in DOMAIN clients}

\* What the route makes of the answer of a client.
Response(v, name) ==
    IF ReadResource(v, Uri(v, name)) = Missing THEN ResourceNotFound
    ELSE Success(ReadResource(v, Uri(v, name)))

\* A reading waits for its client; one answered was answered by it, or has none.
ReadingGoesOn(r, v) == HasVerticalClient(v) /\ reply[r] = None /\ raised[r] = {}

ReadingIsAnswered(r, v, name) ==
    \/ ~HasVerticalClient(v) /\ reply[r] = VerticalNotFound
    \/ HasVerticalClient(v) /\ reply[r] = Response(v, name)
    \/ HasVerticalClient(v) /\ reply[r] = ResourceNotFound /\ raised[r] = {v}

\* What is known of a request follows from what was asked.
Consistent(r) ==
    /\ request[r] = None => Untouched(r)
    /\ \A v \in Choices : request[r] = Listing(v) =>
         LET clients == FilterVerticalClients(v) IN
         ListingGoesOn(r, clients) \/ ListingIsWhole(r, clients) \/ ListingFailed(r, clients)
    /\ \A v \in Asked, name \in AskedNames : request[r] = Reading(v, name) =>
         ReadingGoesOn(r, v) \/ ReadingIsAnswered(r, v, name)

IInv == Shapes /\ \A r \in Requests : Consistent(r)

-----------------------------------------------------------------------------
\* The clients that have a name are finitely many.
LEMMA NamesakesFinite ==
    ASSUME NEW v
    PROVE  /\ Clients \in Seq(ClientNames) /\ Len(Clients) \in Nat
           /\ DOMAIN Clients = 1..Len(Clients)
           /\ IsFiniteSet({i \in DOMAIN Clients : Clients[i] = v})
           /\ Cardinality({i \in DOMAIN Clients : Clients[i] = v}) \in Nat
<1>1. Clients \in Seq(DOMAIN ShippedTools)
  BY ClientsAssumption
<1>2. /\ Len(Clients) \in Nat /\ DOMAIN Clients = 1..Len(Clients)
      /\ Clients \in [1..Len(Clients) -> ClientNames]
  BY <1>1, LenProperties DEF ClientNames
<1>3. Clients \in Seq(ClientNames)
  BY <1>2
<1>4. IsFiniteSet(DOMAIN Clients)
  BY <1>2, FS_Interval
<1>5. IsFiniteSet({i \in DOMAIN Clients : Clients[i] = v})
  BY <1>4, FS_Subset
<1>. QED  BY <1>2, <1>3, <1>5, FS_CardinalityType

\* _filter_vertical_clients selects clients; a name that is given is the
\* name of all of them, and they are none only if no client has it.
LEMMA FilterSelects ==
    ASSUME NEW v \in Choices
    PROVE  LET clients == FilterVerticalClients(v) IN
           /\ clients \in Seq(ClientNames)
           /\ Len(clients) \in Nat /\ DOMAIN clients = 1..Len(clients)
           /\ \A i \in DOMAIN clients : clients[i] \in ClientNames /\ v \in {None, clients[i]}
<1>. DEFINE namesakes == {i \in DOMAIN Clients : Clients[i] = v}
            clients == FilterVerticalClients(v)
<1>1. CASE v = None
  <2>1. clients = Clients
    BY <1>1 DEF FilterVerticalClients
  <2>. QED  BY <1>1, <2>1, NamesakesFinite, ElementOfSeq
<1>2. CASE v # None
  <2>1. clients = [k \in 1..Cardinality(namesakes) |-> v] /\ Cardinality(namesakes) \in Nat
    BY <1>2, NamesakesFinite DEF FilterVerticalClients
  <2>2. Cardinality(namesakes) # 0 => v \in ClientNames
    <3>1. namesakes # {} => v \in ClientNames
      BY DEF ClientNames
    <3>. QED  BY <3>1, FS_EmptySet
  <2>. HIDE DEF namesakes, clients
  <2>3. clients \in [1..Cardinality(namesakes) -> ClientNames]
    BY <2>1, <2>2
  <2>4. clients \in Seq(ClientNames) /\ Len(clients) = Cardinality(namesakes)
    BY <2>1, <2>3
  <2>. QED  BY <2>1, <2>3, <2>4 DEF clients
<1>. QED  BY <1>1, <1>2

\* What a client answers is not None.
LEMMA ResponsesAreResponses ==
    ASSUME NEW v \in ClientNames, NEW name
    PROVE  Response(v, name) # None
<1>. DEFINE contents == ReadResource(v, Uri(v, name))
<1>1. contents \in {Manifest[v], RejectionGuidance[v], Missing}
  BY DEF ReadResource
<1>2. contents # Missing => Success(contents) # None
  BY <1>1, MessagesAssumption
<1>. QED  BY <1>2, MessagesAssumption DEF Response

\* Requests of different kinds, or for different resources, are different.
LEMMA RequestsDiffer ==
    /\ \A v, w : Listing(v) = Listing(w) => v = w
    /\ \A v, w, n : Listing(v) # Reading(w, n)
    /\ \A v, w, n, m : Reading(v, n) = Reading(w, m) => v = w /\ n = m
<1>1. ASSUME NEW v, NEW w, Listing(v) = Listing(w)  PROVE v = w
  <2>1. Listing(v).vertical = v /\ Listing(w).vertical = w
    BY DEF Listing
  <2>. QED  BY <1>1, <2>1
<1>2. ASSUME NEW v, NEW w, NEW n  PROVE Listing(v) # Reading(w, n)
  <2>1. Listing(v).route = "list" /\ Reading(w, n).route = "read"
    BY DEF Listing, Reading
  <2>. QED  BY <2>1
<1>3. ASSUME NEW v, NEW w, NEW n, NEW m, Reading(v, n) = Reading(w, m)
      PROVE  v = w /\ n = m
  <2>1. Reading(v, n).vertical = v /\ Reading(w, m).vertical = w
    BY DEF Reading
  <2>2. Reading(v, n).name = n /\ Reading(w, m).name = m
    BY DEF Reading
  <2>. QED  BY <1>3, <2>1, <2>2
<1>. QED  BY <1>1, <1>2, <1>3

\* No request is answered before it is made.
LEMMA IInvInit == Init => IInv
<1>. SUFFICES ASSUME Init PROVE IInv
  OBVIOUS
<1>1. Shapes
  BY DEF Init, Shapes
<1>2. ASSUME NEW r \in Requests  PROVE Consistent(r)
  <2>1. request[r] = None /\ Untouched(r)
    BY DEF Init, Untouched
  <2>2. \A v \in Choices : request[r] # Listing(v)
    BY <2>1, MessagesAssumption DEF Choices
  <2>3. \A v \in Asked, name \in AskedNames : request[r] # Reading(v, name)
    BY <2>1, MessagesAssumption
  <2>. QED  BY <2>1, <2>2, <2>3 DEF Consistent
<1>. QED  BY <1>1, <1>2 DEF IInv

\* A request of which a step says nothing.
Kept(r) == /\ request'[r] = request[r] /\ at'[r] = at[r] /\ found'[r] = found[r]
           /\ reply'[r] = reply[r] /\ raised'[r] = raised[r]

\* A step leaves the requests alone that it says nothing of.
LEMMA KeptIsConsistent ==
    ASSUME NEW r \in Requests, Consistent(r), Kept(r)
    PROVE  Consistent(r)'
BY DEF Consistent, Kept, Untouched, ListingGoesOn, ListingIsWhole, ListingFailed,
       ReadingGoesOn, ReadingIsAnswered, HasVerticalClient

\* What is to show of a listing after a step.
LEMMA ListingIsConsistent ==
    ASSUME NEW r, NEW v \in Choices, request'[r] = Listing(v),
           LET clients == FilterVerticalClients(v) IN
           ListingGoesOn(r, clients)' \/ ListingIsWhole(r, clients)' \/ ListingFailed(r, clients)'
    PROVE  Consistent(r)'
<1>1. request'[r] # None
  BY MessagesAssumption DEF Choices
<1>2. \A w \in Choices : request'[r] = Listing(w) => w = v
  BY RequestsDiffer
<1>3. \A w \in Asked, name \in AskedNames : request'[r] # Reading(w, name)
  BY RequestsDiffer
<1>. QED  BY <1>1, <1>2, <1>3 DEF Consistent

\* What is to show of a reading after a step.
LEMMA ReadingIsConsistent ==
    ASSUME NEW r, NEW v \in Asked, NEW name \in AskedNames, request'[r] = Reading(v, name),
           ReadingGoesOn(r, v)' \/ ReadingIsAnswered(r, v, name)'
    PROVE  Consistent(r)'
<1>1. request'[r] # None
  BY MessagesAssumption
<1>2. \A w \in Choices : request'[r] # Listing(w)
  BY RequestsDiffer
<1>3. \A w \in Asked, n \in AskedNames : request'[r] = Reading(w, n) => w = v /\ n = name
  BY RequestsDiffer
<1>. QED  BY <1>1, <1>2, <1>3 DEF Consistent

\* A request for a listing starts with the first client, or without any.
LEMMA ListingStarts ==
    ASSUME IInv, NEW r \in Requests, NEW v \in Choices, DebugVerticalResources(r, v)
    PROVE  IInv'
<1>. DEFINE clients == FilterVerticalClients(v)
<1>1. /\ request[r] = None /\ request' = [request EXCEPT ![r] = Listing(v)]
      /\ at' = at /\ found' = found /\ raised' = raised
      /\ clients = << >> => reply' = [reply EXCEPT ![r] = Success(<< >>)]
      /\ clients # << >> => reply' = reply
  BY DEF DebugVerticalResources, Returns
<1>2. Shapes'
  BY <1>1 DEF IInv, Shapes, Listings
<1>3. ASSUME NEW q \in Requests, q # r  PROVE Consistent(q)'
  BY <1>1, <1>3, KeptIsConsistent DEF IInv, Shapes, Kept
<1>4. Untouched(r) /\ request'[r] = Listing(v)
  BY <1>1 DEF IInv, Shapes, Consistent
<1>5. clients \in Seq(ClientNames) /\ Len(clients) \in Nat /\ DOMAIN clients = 1..Len(clients)
  BY FilterSelects
<1>. HIDE DEF clients
<1>6. ASSUME clients = << >>  PROVE ListingIsWhole(r, clients)'
  <2>1. ListedBy(clients) = << >>
    BY <1>6 DEF ListedBy
  <2>. QED  BY <1>1, <1>4, <1>6, <2>1 DEF IInv, Shapes, Untouched, ListingIsWhole
<1>7. ASSUME clients # << >>  PROVE ListingGoesOn(r, clients)'
  <2>1. Len(clients) >= 1
    BY <1>5, <1>7, EmptySeq
  <2>. QED  BY <1>1, <1>4, <1>5, <1>7, <2>1 DEF Untouched, ListingGoesOn
<1>8. Consistent(r)'
  BY <1>4, <1>6, <1>7, ListingIsConsistent DEF clients
<1>. QED  BY <1>2, <1>3, <1>8 DEF IInv

\* A request for a resource finds the client, or is answered.
LEMMA ReadingStarts ==
    ASSUME IInv, NEW r \in Requests, NEW v \in Asked, NEW name \in AskedNames,
           DebugVerticalResource(r, v, name)
    PROVE  IInv'
<1>1. /\ request[r] = None /\ request' = [request EXCEPT ![r] = Reading(v, name)]
      /\ at' = at /\ found' = found /\ raised' = raised
      /\ HasVerticalClient(v) => reply' = reply
      /\ ~HasVerticalClient(v) => reply' = [reply EXCEPT ![r] = VerticalNotFound]
  BY DEF DebugVerticalResource, Returns
<1>2. Shapes'
  BY <1>1 DEF IInv, Shapes, Readings
<1>3. ASSUME NEW q \in Requests, q # r  PROVE Consistent(q)'
  BY <1>1, <1>3, KeptIsConsistent DEF IInv, Shapes, Kept
<1>4. Untouched(r) /\ request'[r] = Reading(v, name)
  BY <1>1 DEF IInv, Shapes, Consistent
<1>5. HasVerticalClient(v) => ReadingGoesOn(r, v)'
  BY <1>1, <1>4 DEF Untouched, ReadingGoesOn, HasVerticalClient
<1>6. ~HasVerticalClient(v) => ReadingIsAnswered(r, v, name)'
  BY <1>1 DEF IInv, Shapes, ReadingIsAnswered, HasVerticalClient
<1>7. Consistent(r)'
  BY <1>4, <1>5, <1>6, ReadingIsConsistent
<1>. QED  BY <1>2, <1>3, <1>7 DEF IInv

\* A listing under way waits for one of the selected clients.
LEMMA OpenListing ==
    ASSUME IInv, NEW r \in Requests, IsListing(r)
    PROVE  \E v \in Choices :
              LET clients == FilterVerticalClients(v) IN
              /\ request[r] = Listing(v) /\ ListingGoesOn(r, clients)
              /\ Selected(r) = clients /\ Awaited(r) = clients[at[r]]
<1>1. request[r] \in Listings
  <2>1. \A v, name : Reading(v, name).route # "list"
    BY DEF Reading
  <2>. QED  BY <2>1 DEF IInv, Shapes, IsListing, Open, Readings
<1>2. PICK v \in Choices : request[r] = Listing(v)
  BY <1>1 DEF Listings
<1>. DEFINE clients == FilterVerticalClients(v)
<1>3. Selected(r) = clients
  BY <1>2 DEF Selected, Listing
<1>4. Awaited(r) = clients[at[r]]
  <2>1. ~IsReading(r)
    BY DEF IsListing, IsReading
  <2>. QED  BY <1>3, <2>1 DEF Awaited
<1>5. ListingGoesOn(r, clients)
  <2>1. reply[r] = None
    BY DEF IsListing, Open
  <2>2. None # Success(ListedBy(clients)) /\ None # InternalServerError
    BY MessagesAssumption DEF Choices
  <2>. QED  BY <1>2, <2>1, <2>2 DEF IInv, Consistent, ListingIsWhole, ListingFailed
<1>. QED  BY <1>2, <1>3, <1>4, <1>5

\* A reading under way waits for its vertical.
LEMMA OpenReading ==
    ASSUME IInv, NEW r \in Requests, IsReading(r)
    PROVE  \E v \in Asked, name \in AskedNames :
              /\ request[r] = Reading(v, name) /\ ReadingGoesOn(r, v)
              /\ Awaited(r) = v /\ v \in ClientNames
<1>1. request[r] \in Readings
  <2>1. \A v : Listing(v).route # "read"
    BY DEF Listing
  <2>. QED  BY <2>1 DEF IInv, Shapes, IsReading, Open, Listings
<1>2. PICK v \in Asked, name \in AskedNames : request[r] = Reading(v, name)
  BY <1>1 DEF Readings
<1>3. Awaited(r) = v
  BY <1>2 DEF Awaited, Reading, IsListing, IsReading
<1>4. HasVerticalClient(v) => v \in ClientNames
  BY DEF HasVerticalClient, ClientNames
<1>5. ReadingGoesOn(r, v)
  <2>1. reply[r] = None
    BY DEF IsReading, Open
  <2>2. v \in ClientNames => None # Response(v, name)
    BY ResponsesAreResponses
  <2>3. None \notin {VerticalNotFound, ResourceNotFound}
    BY MessagesAssumption
  <2>. QED  BY <1>2, <1>4, <2>1, <2>2, <2>3 DEF IInv, Consistent, ReadingIsAnswered
<1>. QED  BY <1>2, <1>3, <1>4, <1>5 DEF ReadingGoesOn

\* What the awaited client lists comes next in the listing, which is whole
\* after the last client.
LEMMA ListedStep ==
    ASSUME IInv, NEW r \in Requests, ResourcesListed(r)
    PROVE  IInv'
<1>. PICK v \in Choices :
        LET clients == FilterVerticalClients(v) IN
        /\ request[r] = Listing(v) /\ ListingGoesOn(r, clients)
        /\ Selected(r) = clients /\ Awaited(r) = clients[at[r]]
  BY OpenListing DEF ResourcesListed
<1>. DEFINE clients == FilterVerticalClients(v)
<1>1. /\ request[r] = Listing(v) /\ ListingGoesOn(r, clients)
      /\ request' = request /\ raised' = raised
      /\ found' = [found EXCEPT ![r] = Append(@, Listed(clients[at[r]]))]
      /\ at[r] = Len(clients) =>
            at' = at /\ reply' = [reply EXCEPT ![r] = Success(found'[r])]
      /\ at[r] # Len(clients) => at' = [at EXCEPT ![r] = @ + 1] /\ reply' = reply
  BY DEF ResourcesListed, Returns
<1>2. /\ clients \in Seq(ClientNames) /\ Len(clients) \in Nat /\ DOMAIN clients = 1..Len(clients)
      /\ \A i \in DOMAIN clients : clients[i] \in ClientNames
  BY FilterSelects
<1>. HIDE DEF clients
<1>. DEFINE Entries == {Listed(name) : name \in ClientNames}
            entry == Listed(clients[at[r]])
<1>3. at[r] \in 1..Len(clients) /\ at[r] \in Nat /\ entry \in Entries
  BY <1>1, <1>2 DEF ListingGoesOn
<1>4. found[r] \in Seq(Entries) /\ Len(found[r]) = at[r] - 1
  BY <1>1 DEF IInv, Shapes, ListingGoesOn
<1>. HIDE DEF Entries, entry
<1>5. /\ Append(found[r], entry) \in Seq(Entries) /\ found'[r] = Append(found[r], entry)
      /\ Len(found'[r]) = at[r]
      /\ \A i \in 1..(at[r] - 1) : found'[r][i] = found[r][i]
      /\ found'[r][at[r]] = entry
  BY <1>1, <1>3, <1>4, AppendProperties DEF IInv, Shapes, entry
<1>6. \A i \in 1..at[r] : found'[r][i] = Listed(clients[i])
  BY <1>1, <1>3, <1>5 DEF ListingGoesOn, entry
<1>7. Shapes'
  <2>1. found' \in [Requests -> Seq(Entries)]
    BY <1>1, <1>5 DEF IInv, Shapes, Entries, entry
  <2>2. at' \in [Requests -> Nat]
    BY <1>1, <1>3 DEF IInv, Shapes
  <2>. QED  BY <1>1, <2>1, <2>2 DEF IInv, Shapes, Entries
<1>8. ASSUME NEW q \in Requests, q # r  PROVE Consistent(q)'
  BY <1>1, <1>8, KeptIsConsistent DEF IInv, Shapes, Kept
<1>9. ASSUME at[r] = Len(clients)  PROVE ListingIsWhole(r, clients)'
  <2>1. found'[r] \in [1..Len(clients) -> Entries]
    BY <1>5, <1>9, LenProperties
  <2>2. found'[r] = ListedBy(clients)
    BY <1>2, <1>6, <1>9, <2>1 DEF ListedBy
  <2>. QED  BY <1>1, <1>9, <2>2 DEF IInv, Shapes, ListingGoesOn, ListingIsWhole
<1>10. ASSUME at[r] # Len(clients)  PROVE ListingGoesOn(r, clients)'
  <2>1. at'[r] = at[r] + 1 /\ at'[r] \in 1..Len(clients)
    BY <1>1, <1>2, <1>3, <1>10 DEF IInv, Shapes
  <2>. QED  BY <1>1, <1>3, <1>5, <1>6, <1>10, <2>1, SMTT(30) DEF ListingGoesOn
<1>11. Consistent(r)'
  BY <1>1, <1>9, <1>10, ListingIsConsistent DEF clients
<1>. QED  BY <1>7, <1>8, <1>11 DEF IInv

\* A client that raises is one of the selected ones, and ends the listing.
LEMMA ListingRaisesStep ==
    ASSUME IInv, NEW r \in Requests, ListingRaises(r)
    PROVE  IInv'
<1>. PICK v \in Choices :
        LET clients == FilterVerticalClients(v) IN
        /\ request[r] = Listing(v) /\ ListingGoesOn(r, clients)
        /\ Selected(r) = clients /\ Awaited(r) = clients[at[r]]
  BY OpenListing DEF ListingRaises
<1>. DEFINE clients == FilterVerticalClients(v)
<1>1. /\ request[r] = Listing(v) /\ ListingGoesOn(r, clients)
      /\ request' = request /\ at' = at /\ found' = found
      /\ raised' = [raised EXCEPT ![r] = @ \cup {clients[at[r]]}]
      /\ reply' = [reply EXCEPT ![r] = InternalServerError]
  BY DEF ListingRaises, Returns
<1>2. DOMAIN clients = 1..Len(clients)
  BY FilterSelects
<1>. HIDE DEF clients
<1>3. Shapes'
  BY <1>1 DEF IInv, Shapes
<1>4. ASSUME NEW q \in Requests, q # r  PROVE Consistent(q)'
  BY <1>1, <1>4, KeptIsConsistent DEF IInv, Shapes, Kept
<1>5. ListingFailed(r, clients)'
  BY <1>1, <1>2 DEF IInv, Shapes, ListingGoesOn, ListingFailed
<1>6. Consistent(r)'
  BY <1>1, <1>5, ListingIsConsistent DEF clients
<1>. QED  BY <1>3, <1>4, <1>6 DEF IInv

\* A reading is answered by its vertical, in either way.
LEMMA ReadingStep ==
    ASSUME IInv, NEW r \in Requests, ResourceRead(r) \/ ReadingRaises(r)
    PROVE  IInv'
<1>1. PICK v \in Asked, name \in AskedNames :
        /\ request[r] = Reading(v, name) /\ ReadingGoesOn(r, v)
        /\ Awaited(r) = v /\ v \in ClientNames
  BY OpenReading DEF ResourceRead, ReadingRaises
<1>2. /\ request' = request /\ at' = at /\ found' = found
      /\ \/ raised' = raised /\ reply' = [reply EXCEPT ![r] = Response(v, name)]
         \/ /\ raised' = [raised EXCEPT ![r] = @ \cup {v}]
            /\ reply' = [reply EXCEPT ![r] = ResourceNotFound]
  <2>1. request[r].vertical = v /\ request[r].name = name
    BY <1>1 DEF Reading
  <2>. QED  BY <1>1, <2>1 DEF ResourceRead, ReadingRaises, Returns, Response
<1>3. Shapes'
  BY <1>2 DEF IInv, Shapes
<1>4. ASSUME NEW q \in Requests, q # r  PROVE Consistent(q)'
  BY <1>2, <1>4, KeptIsConsistent DEF IInv, Shapes, Kept
<1>5. ReadingIsAnswered(r, v, name)'
  BY <1>1, <1>2 DEF IInv, Shapes, ReadingGoesOn, ReadingIsAnswered, HasVerticalClient
<1>6. Consistent(r)'
  BY <1>1, <1>2, <1>5, ReadingIsConsistent
<1>. QED  BY <1>3, <1>4, <1>6 DEF IInv

\* Every step keeps the invariant.
LEMMA IInvStep == IInv /\ [Next]_vars => IInv'
<1>. SUFFICES ASSUME IInv, [Next]_vars PROVE IInv'
  OBVIOUS
<1>1. ASSUME NEW r \in Requests, NEW v \in Asked \cup {None}, DebugVerticalResources(r, v)
      PROVE  IInv'
  BY <1>1, ListingStarts DEF Choices
<1>2. ASSUME NEW r \in Requests, NEW v \in Asked, NEW name \in AskedNames,
             DebugVerticalResource(r, v, name)
      PROVE  IInv'
  BY <1>2, ReadingStarts
<1>3. ASSUME NEW r \in Requests, ClientAnswers(r)
      PROVE  IInv'
  BY <1>3, ListedStep, ListingRaisesStep, ReadingStep DEF ClientAnswers
<1>4. CASE UNCHANGED vars
  <2>1. Shapes'
    BY <1>4 DEF vars, IInv, Shapes
  <2>2. ASSUME NEW q \in Requests  PROVE Consistent(q)'
    BY <1>4, KeptIsConsistent DEF vars, IInv, Kept
  <2>. QED  BY <2>1, <2>2 DEF IInv
<1>. QED  BY <1>1, <1>2, <1>3, <1>4 DEF Next

\* A request is unmade, under way with a client of its own, or answered by
\* what the clients it waited for did.
THEOREM Invariance == Spec => []IInv
BY IInvInit, IInvStep, PTL DEF Spec

-----------------------------------------------------------------------------
\* The k-th selected client is the k-th one that was wanted.
LEMMA FilterKeepsOrder ==
    ASSUME NEW v \in Choices
    PROVE  LET clients == FilterVerticalClients(v)
               wanted(n) == {i \in 1..n : v \in {None, Clients[i]}}
           IN /\ Len(clients) = Cardinality(wanted(Len(Clients)))
              /\ \A i \in wanted(Len(Clients)) :
                    /\ Cardinality(wanted(i)) \in 1..Len(clients)
                    /\ clients[Cardinality(wanted(i))] = Clients[i]
<1>. DEFINE clients == FilterVerticalClients(v)
            wanted(n) == {i \in 1..n : v \in {None, Clients[i]}}
<1>1. Len(Clients) \in Nat /\ DOMAIN Clients = 1..Len(Clients)
  BY NamesakesFinite
<1>2. CASE v = None
  <2>1. clients = Clients
    BY <1>2 DEF FilterVerticalClients
  <2>2. ASSUME NEW n \in Nat  PROVE Cardinality(wanted(n)) = n
    <3>1. wanted(n) = 1..n
      BY <1>2
    <3>2. Cardinality(1..n) = n
      BY FS_Interval
    <3>. QED  BY <3>1, <3>2
  <2>. QED  BY <1>1, <2>1, <2>2
<1>3. CASE v # None
  <2>1. wanted(Len(Clients)) = {i \in DOMAIN Clients : Clients[i] = v}
    BY <1>1, <1>3
  <2>2. IsFiniteSet(wanted(Len(Clients))) /\ Cardinality(wanted(Len(Clients))) \in Nat
    BY <2>1, NamesakesFinite
  <2>3. clients = [k \in 1..Cardinality(wanted(Len(Clients))) |-> v]
    BY <1>3, <2>1 DEF FilterVerticalClients
  <2>4. Len(clients) = Cardinality(wanted(Len(Clients)))
    BY <2>2, <2>3
  <2>5. ASSUME NEW i \in wanted(Len(Clients))
        PROVE  /\ Cardinality(wanted(i)) \in 1..Len(clients)
               /\ clients[Cardinality(wanted(i))] = Clients[i]
    <3>1. /\ IsFiniteSet(wanted(i)) /\ Cardinality(wanted(i)) \in Nat
          /\ Cardinality(wanted(i)) <= Cardinality(wanted(Len(Clients)))
      <4>1. wanted(i) \subseteq wanted(Len(Clients))
        BY <1>1
      <4>2. IsFiniteSet(wanted(i))
        BY <2>2, <4>1, FS_Subset
      <4>3. Cardinality(wanted(i)) <= Cardinality(wanted(Len(Clients)))
        BY <2>2, <4>1, FS_Subset
      <4>. QED  BY <4>2, <4>3, FS_CardinalityType
    <3>2. Cardinality(wanted(i)) # 0
      <4>1. i \in wanted(i)
        BY <1>1
      <4>. QED  BY <3>1, <4>1, FS_EmptySet
    <3>3. Clients[i] = v
      BY <1>3
    <3>. HIDE DEF wanted, clients
    <3>. QED  BY <2>2, <2>3, <2>4, <3>1, <3>2, <3>3
  <2>. QED  BY <2>4, <2>5
<1>. QED  BY <1>2, <1>3

\* The invariant makes every answered listing whole, or failed for a reason.
LEMMA IInvWhole == IInv => WholeListing
<1>. SUFFICES ASSUME IInv, NEW r \in Requests, reply[r] # None, request[r].route = "list"
     PROVE  LET Wanted(name) == request[r].vertical \in {None, name}
                WantedUpTo(n) == {i \in 1..n : Wanted(Clients[i])}
            IN IF raised[r] = {}
               THEN /\ Answered(r, 200)
                    /\ DOMAIN reply[r].body = 1..Cardinality(WantedUpTo(Len(Clients)))
                    /\ \A i \in WantedUpTo(Len(Clients)) :
                          reply[r].body[Cardinality(WantedUpTo(i))] = Listed(Clients[i])
               ELSE /\ Answered(r, 500)
                    /\ \A v \in raised[r] : Wanted(v)
  BY DEF WholeListing
<1>1. PICK v \in Choices : request[r] = Listing(v)
  <2>1. request[r] # None
    BY DEF IInv, Consistent, Untouched
  <2>2. \A w, name : Reading(w, name).route # "list"
    BY DEF Reading
  <2>. QED  BY <2>1, <2>2 DEF IInv, Shapes, Listings, Readings
<1>2. request[r].vertical = v
  BY <1>1 DEF Listing
<1>. DEFINE clients == FilterVerticalClients(v)
            wanted(n) == {i \in 1..n : v \in {None, Clients[i]}}
<1>3. ListingIsWhole(r, clients) \/ ListingFailed(r, clients)
  BY <1>1 DEF IInv, Consistent, ListingGoesOn
<1>4. /\ DOMAIN clients = 1..Cardinality(wanted(Len(Clients)))
      /\ \A i \in DOMAIN clients : v \in {None, clients[i]}
      /\ \A i \in wanted(Len(Clients)) :
            /\ Cardinality(wanted(i)) \in DOMAIN clients
            /\ clients[Cardinality(wanted(i))] = Clients[i]
  BY FilterSelects, FilterKeepsOrder
<1>. HIDE DEF clients, wanted
<1>5. ASSUME raised[r] = {}
      PROVE  /\ Answered(r, 200)
             /\ DOMAIN reply[r].body = 1..Cardinality(wanted(Len(Clients)))
             /\ \A i \in wanted(Len(Clients)) :
                   reply[r].body[Cardinality(wanted(i))] = Listed(Clients[i])
  <2>1. reply[r] = Success(ListedBy(clients))
    BY <1>3, <1>5 DEF ListingIsWhole, ListingFailed
  <2>2. Answered(r, 200) /\ reply[r].body = ListedBy(clients)
    BY <2>1 DEF Answered, Success
  <2>. QED  BY <1>4, <2>2 DEF ListedBy
<1>6. ASSUME raised[r] # {}
      PROVE  Answered(r, 500) /\ \A w \in raised[r] : v \in {None, w}
  <2>1. ListingFailed(r, clients)
    BY <1>3, <1>6 DEF ListingIsWhole
  <2>2. InternalServerError.status = 500
    BY DEF InternalServerError, HTTPException
  <2>3. Answered(r, 500)
    BY <2>1, <2>2 DEF Answered, ListingFailed
  <2>. QED  BY <1>4, <2>1, <2>3 DEF ListingFailed
<1>. QED  BY <1>2, <1>5, <1>6 DEF wanted

\* A listing has, in their order, the resources of all clients it was asked
\* for, or it fails because one of them raised.
THEOREM ListingsAreWhole == Spec => []WholeListing
BY Invariance, IInvWhole, PTL

\* What a server lists it also reads.
LEMMA ListedIsRead ==
    ASSUME NEW v \in ClientNames, NEW w, NEW name,
           NEW j \in DOMAIN ListResources(v), <<w, name>> = ListResources(v)[j]
    PROVE  w = v /\ Response(v, name) = Success(ReadResource(v, <<v, name>>))
<1>1. w = v /\ name \in {"manifest", "rejection-guidance"}
  BY DEF ListResources, ResourceNames
<1>2. v \in DOMAIN Manifest
  <2>1. DOMAIN ShippedTools = DOMAIN Manifest
    BY DEF ShippedTools, Manifest
  <2>. QED  BY <2>1, ClientsAssumption, ElementOfSeq, LenProperties DEF ClientNames
<1>3. ReadResource(v, <<v, name>>) \in {Manifest[v], RejectionGuidance[v]}
  BY <1>1 DEF ReadResource
<1>4. ReadResource(v, <<v, name>>) # Missing
  BY <1>2, <1>3, MissingAssumption
<1>. QED  BY <1>1, <1>4 DEF Response, Uri

\* The invariant makes every listed resource one that a reading finds.
LEMMA IInvReadable == IInv => ListedIsReadable
<1>. SUFFICES ASSUME IInv, NEW l \in Requests, NEW r \in Requests,
                     Answered(l, 200), request[l].route = "list",
                     reply[r] # None, request[r].route = "read",
                     NEW i \in DOMAIN reply[l].body
     PROVE  LET entry == reply[l].body[i]
                named == <<request[r].vertical, request[r].name>>
            IN  /\ entry.vertical = request[r].vertical => reply[r] # VerticalNotFound
                /\ named \in {entry.resources[j] : j \in DOMAIN entry.resources}
                   => \/ reply[r] = Success(ReadResource(entry.vertical, named))
                      \/ entry.vertical \in raised[r]
  BY DEF ListedIsReadable
<1>1. PICK u \in Choices : request[l] = Listing(u)
  <2>1. request[l] # None
    BY DEF IInv, Consistent, Untouched, Answered
  <2>2. \A w, name : Reading(w, name).route # "list"
    BY DEF Reading
  <2>. QED  BY <2>1, <2>2 DEF IInv, Shapes, Listings, Readings
<1>2. PICK v \in Asked, name \in AskedNames : request[r] = Reading(v, name)
  <2>1. request[r] # None
    BY DEF IInv, Consistent, Untouched
  <2>2. \A w : Listing(w).route # "read"
    BY DEF Listing
  <2>. QED  BY <2>1, <2>2 DEF IInv, Shapes, Listings, Readings
<1>. DEFINE clients == FilterVerticalClients(u)
<1>3. PICK w \in ClientNames : reply[l].body[i] = Listed(w)
  <2>1. ListingIsWhole(l, clients)
    <3>1. InternalServerError.status # 200
      BY DEF InternalServerError, HTTPException
    <3>. QED  BY <1>1, <3>1 DEF IInv, Consistent, ListingGoesOn, ListingFailed, Answered
  <2>2. reply[l].body = ListedBy(clients)
    BY <2>1 DEF ListingIsWhole, Success
  <2>3. i \in DOMAIN clients /\ reply[l].body[i] = Listed(clients[i])
    BY <2>2 DEF ListedBy
  <2>. QED  BY <2>3, FilterSelects
<1>4. ReadingIsAnswered(r, v, name)
  BY <1>2 DEF IInv, Consistent, ReadingGoesOn
<1>5. request[r].vertical = v /\ request[r].name = name
  BY <1>2 DEF Reading
<1>6. reply[l].body[i].vertical = w /\ reply[l].body[i].resources = ListResources(w)
  BY <1>3 DEF Listed
<1>7. ASSUME w = v  PROVE reply[r] # VerticalNotFound
  <2>1. HasVerticalClient(v)
    BY <1>7 DEF HasVerticalClient, ClientNames
  <2>2. ResourceNotFound # VerticalNotFound
    <3>1. /\ ResourceNotFound.detail = "Resource not found."
          /\ VerticalNotFound.detail = "Vertical not found."
      BY DEF ResourceNotFound, VerticalNotFound, HTTPException
    <3>. QED  BY <3>1
  <2>3. \A body : Success(body) # VerticalNotFound
    <3>1. \A body : Success(body).status = 200
      BY DEF Success
    <3>2. VerticalNotFound.status = 404
      BY DEF VerticalNotFound, HTTPException
    <3>. QED  BY <3>1, <3>2
  <2>. QED  BY <1>4, <2>1, <2>2, <2>3 DEF ReadingIsAnswered, Response
<1>8. ASSUME NEW j \in DOMAIN ListResources(w), <<v, name>> = ListResources(w)[j]
      PROVE  reply[r] = Success(ReadResource(w, <<v, name>>)) \/ w \in raised[r]
  <2>1. v = w /\ Response(w, name) = Success(ReadResource(w, <<w, name>>))
    BY <1>8, ListedIsRead
  <2>2. HasVerticalClient(v)
    BY <2>1 DEF HasVerticalClient, ClientNames
  <2>. QED  BY <1>4, <2>1, <2>2 DEF ReadingIsAnswered
<1>. QED  BY <1>5, <1>6, <1>7, <1>8

\* A resource that one request was shown another can read, unless its vertical
\* raises, and no vertical that was listed is unknown.
THEOREM ListedCanBeRead == Spec => []ListedIsReadable
BY Invariance, IInvReadable, PTL
=============================================================================
