----------------------------- MODULE Dazwischen -----------------------------
(***************************************************************************)
(* The whole proxy as main.py composes it: the catalog built from what the *)
(* verticals list with the default mappings, and then clients that list    *)
(* the tools and call one, over /v1/mcp or over the sandbox's routes, with *)
(* or without a vertical filter, answered by the verticals' own handlers.  *)
(*                                                                         *)
(* No handler of a vertical awaits anything, so a call is one step here;   *)
(* Proxy has the calls that overlap.                                       *)
(***************************************************************************)
EXTENDS Catalog, Verdicts

CONSTANTS
    Sessions,       \* clients; each lists once and then calls once (bound)
    Surfaces,       \* the surface and the vertical a client may name
    CalledNames,    \* tool names a client may call
    ArgumentSets,   \* arguments a client may send
    StripLower,     \* a query's vertical -> its text stripped and lower-cased
    Blank           \* the empty text

ASSUME SurfacesAssumption ==
    \A surface \in Surfaces : DOMAIN surface = {"kind", "vertical"}

\* main.py makes one client of each vertical.
ASSUME OneClientEach ==
    /\ \A i, j \in DOMAIN Clients : Clients[i] = Clients[j] => i = j
    /\ None \notin Verticals

\* The clients are of the shipped verticals, and each lists its tools: in any
\* order and any number of times, with any version, but as safe if it is.
ASSUME ShippedListings ==
    \A l \in Listings, k \in DOMAIN Clients :
        LET shipped == ShippedTools[Clients[k]] IN
        /\ Clients[k] \in DOMAIN ShippedTools
        /\ l[k] # Unreachable =>
             /\ \A d \in DOMAIN l[k] : \E j \in DOMAIN shipped :
                   /\ l[k][d].name = shipped[j].name
                   /\ l[k][d].input_schema = shipped[j].input_schema
                   /\ shipped[j].safe => l[k][d].safe = TRUE
             /\ \A j \in DOMAIN shipped : \E d \in DOMAIN l[k] : l[k][d].name = shipped[j].name

\* Whatever JSON has may be sent, a fraction being a float; a float takes at
\* least five digits.
ASSUME ArgumentsAssumption ==
    /\ FloatMax \in Int /\ FloatMax >= 99999
    /\ \A arguments \in ArgumentSets : \A key \in DOMAIN arguments :
          /\ arguments[key] # Missing
          /\ arguments[key].kind = "number" => arguments[key].n \in Int
          /\ arguments[key].kind = "fraction" => arguments[key].n \in Int
                                                /\ arguments[key].n < FloatMax

RefusalCodes == {"TOOL_NOT_FOUND", "UPSTREAM_ERROR", "INVALID_ARGUMENTS",
                 "VERTICAL_UNAVAILABLE"}
ASSUME NoneIsNoCode == None \notin RefusalCodes

VARIABLES
    surface,    \* session -> how it reaches the proxy, None before it does
    view,       \* session -> the tools it was listed
    call,       \* session -> the name and the arguments it called with
    told,       \* session -> the result of its call
    ran         \* ghost: session -> the handler run for its call, or None

sessionVars == <<surface, view, call, told, ran>>

-----------------------------------------------------------------------------
(* What main.py puts together.                                             *)

Mapped(n) == [public_name |-> n, description |-> n, public_version |-> "1.0"]

DEFAULT_APPROVED_PUBLIC_MAPPINGS ==
    [k \in Keys |->
        CASE k = <<"mobility", "search", "1.0">> -> Mapped("search_mobility_options")
          [] k = <<"internet", "check_availability", "1.0">> ->
                Mapped("compare_internet_plans")
          [] k = <<"insurance", "quote", "1.0">> -> Mapped("compare_insurance_offers")
          [] OTHER -> None]

\* create_catalog_registry_from_mcp_clients gives the builder no mappings.
ASSUME DefaultsInForce ==
    /\ DefaultMappings = DEFAULT_APPROVED_PUBLIC_MAPPINGS
    /\ ApprovedMappings = None
    /\ \A n \in {"search_mobility_options", "compare_internet_plans",
                "compare_insurance_offers"} : Mapped(n) # None

\* The vertical filter of a list or a call: _extract_vertical_filter for MCP,
\* the vertical parameter as it is for the sandbox.
FilterOf(s) ==
    LET vertical == surface[s].vertical IN
    IF surface[s].kind = "sandbox" \/ vertical = None THEN vertical
    ELSE IF StripLower[vertical] = Blank THEN None ELSE StripLower[vertical]

RouteOf(name) == IF name \in PublicNames THEN GetRoute(name) ELSE None
ToolOf(name) == IF name \in PublicNames THEN GetTool(name) ELSE None

\* jsonschema.validate with the keywords the shipped schemas use; 1.0 is the
\* integer 1, and a fraction is above a minimum if its integer part is not below.
KindsOf(type) ==
    CASE type = "string"  -> {"text"}
      [] type = "integer" -> {"number"}
      [] type = "number"  -> {"number", "fraction"}

ValidValue(value, schema) ==
    /\ value.kind \in KindsOf(ValueAt(schema, "type").text)
    /\ "minimum" \in KeysOf(schema) => value.n >= ValueAt(schema, "minimum").n
    /\ "enum" \in KeysOf(schema) => \E i \in DOMAIN ValueAt(schema, "enum").items :
                                        value = ValueAt(schema, "enum").items[i]

ValidArguments(arguments, schema) ==
    LET properties == ValueAt(schema, "properties")
        required == ValueAt(schema, "required").items
    IN  /\ \A i \in DOMAIN required : required[i].text \in DOMAIN arguments
        /\ DOMAIN arguments \subseteq KeysOf(properties)
        /\ \A key \in DOMAIN arguments :
               ValidValue(arguments[key], ValueAt(properties, key))

TooLarge(arguments) ==
    \E key \in DOMAIN arguments : arguments[key].kind = "number" /\ arguments[key].n > FloatMax

\* Mutant: the handler of a call does not look at the filter.
BlockedNever(s, name) == FALSE

Blocked(s, name) ==
    /\ FilterOf(s) # None
    /\ RouteOf(name) = None \/ RouteOf(name).vertical # FilterOf(s)

\* Why the proxy does not send a call on, None if it does.
RefusalCode(s, name, arguments) ==
    IF Blocked(s, name) \/ ToolOf(name) = None THEN "TOOL_NOT_FOUND"
    ELSE IF RouteOf(name) = None THEN "UPSTREAM_ERROR"
    ELSE IF ~ValidArguments(arguments, ToolOf(name).input_schema) THEN "INVALID_ARGUMENTS"
    ELSE IF \A i \in DOMAIN Clients : Clients[i] # RouteOf(name).vertical
         THEN "VERTICAL_UNAVAILABLE"
    ELSE None

\* The argumentTemplate of the sandbox page, and a mutant: an argument is
\* named as the vertical named it before.
PlanArgumentsOld == [address |-> Text("Main Street 1"), zip |-> Text("80331")]

PlanArguments ==
    [address |-> Text("Main Street 1"), postal_code |-> Text("80331"),
     desired_speed_mbps |-> Number(100)]

ArgumentTemplate ==
    [search_mobility_options |->
        [origin |-> Text("Munich"), destination |-> Text("Berlin"),
         date |-> Text("2026-06-01"), passengers |-> Number(1)],
     compare_internet_plans |-> PlanArguments,
     compare_insurance_offers |->
        [product_type |-> Text("travel"), coverage_amount_eur |-> Number(10000),
         customer_age |-> Number(35)]]

\* Mutant: the report's results other than those of the validator are missed.
NonconformingCounts(v) ==
    Cardinality({i \in DOMAIN results :
                    results[i].vertical = v /\ results[i].code = "NONCONFORMING"})

\* The counts of tools on the verticals page.
AcceptedToolCounts(v) == Cardinality({i \in DOMAIN tools : RoutedTo(v, tools[i])})
RejectedToolCounts(v) ==
    Cardinality({i \in DOMAIN results : results[i].vertical = v /\ results[i].code # Accepted})

-----------------------------------------------------------------------------
SystemInit == /\ Init
              /\ surface = [s \in Sessions |-> None]
              /\ view = [s \in Sessions |-> None]
              /\ call = [s \in Sessions |-> None]
              /\ told = [s \in Sessions |-> None]
              /\ ran = [s \in Sessions |-> None]

\* The proxy accepts requests once the catalog is built.
Build == Next /\ UNCHANGED sessionVars

\* list_tools of the MCP server, or GET /debug/sandbox/tools.
ListToolsFor(s, reached) ==
    /\ Ready
    /\ surface[s] = None
    /\ surface' = [surface EXCEPT ![s] = reached]
    /\ view' = [view EXCEPT ![s] = ListTools(FilterOf(s)')]
    /\ UNCHANGED <<call, told, ran>>
    /\ UNCHANGED vars

Told(s, name, arguments, result, handler) ==
    /\ call' = [call EXCEPT ![s] = [name |-> name, arguments |-> arguments]]
    /\ told' = [told EXCEPT ![s] = result]
    /\ ran' = [ran EXCEPT ![s] = handler]
    /\ UNCHANGED <<surface, view>>
    /\ UNCHANGED vars

Refused(code) == [ok |-> FALSE, code |-> code]

Calling(s) == surface[s] # None /\ told[s] = None

Refuse(s, name, arguments) ==
    /\ Calling(s)
    /\ RefusalCode(s, name, arguments) # None
    /\ Told(s, name, arguments, Refused(RefusalCode(s, name, arguments)), None)

Invoke(s, name, arguments) ==
    /\ Calling(s)
    /\ RefusalCode(s, name, arguments) = None
    /\ LET route == RouteOf(name)
           reply == ShippedCall(route.vertical, route.upstream_tool, arguments)
       IN  Told(s, name, arguments,
                IF reply.is_error THEN Refused("UPSTREAM_ERROR")
                                  ELSE [ok |-> TRUE, data |-> reply],
                <<route.vertical, route.upstream_tool>>)

SystemNext ==
    \/ Build
    \/ \E s \in Sessions :
          \/ \E reached \in Surfaces : ListToolsFor(s, reached)
          \/ \E name \in CalledNames, arguments \in ArgumentSets :
                Refuse(s, name, arguments) \/ Invoke(s, name, arguments)

SystemSpec == SystemInit /\ [][SystemNext]_<<vars, sessionVars>>

-----------------------------------------------------------------------------
(* Properties                                                              *)

ListedTools(s) == {view[s][i] : i \in DOMAIN view[s]}

\* What a client is listed is what it may call: under one filter, a tool is
\* unknown to the call exactly if it was not listed, on either surface; the
\* listed schema decides which arguments are accepted; and an accepted call is
\* answered by the listed tool's vertical, the filter's if there is one, with
\* the arguments it was sent.  Only a number too large for a float makes an
\* accepted call fail.  (Two functions of two layers apply the filter.)
ListingTellsWhatIsCallable ==
    \A s \in Sessions : told[s] # None =>
        LET named == {tool \in ListedTools(s) : tool.name = call[s].name}
            sent == call[s].arguments
        IN  IF named = {} THEN told[s] = Refused("TOOL_NOT_FOUND")
            ELSE \E tool \in named :
              IF ~ValidArguments(sent, tool.input_schema)
              THEN told[s] = Refused("INVALID_ARGUMENTS")
              ELSE \/ TooLarge(sent) /\ told[s] = Refused("UPSTREAM_ERROR")
                   \/ /\ told[s].ok
                      /\ FilterOf(s) # None => told[s].data.vertical = FilterOf(s)
                      /\ \A key \in DOMAIN sent : told[s].data.query[key] = sent[key]

\* The guidance a vertical publishes about its tools is true of the catalog:
\* whatever the vertical attests, in whatever order it lists, the validator
\* itself rejects every tool the guidance names, and a tool it does not name
\* is rejected only as a duplicate or for its version; the manifest names the
\* tools listed.
RejectionGuidanceIsTrue ==
    Ready => \A k \in DOMAIN Clients :
        LET v == Clients[k]
            Rejected(codes) == {results[i].tool : i \in {j \in DOMAIN results :
                                   results[j].vertical = v /\ results[j].code \in codes}}
        IN  /\ Rejected({"NONCONFORMING"}) = RejectionGuidance[v]
            /\ \A i \in DOMAIN candidates :
                  /\ candidates[i].vertical = v
                  /\ candidates[i].upstream_tool \notin RejectionGuidance[v]
                  /\ candidates[i].internal_version = "1.0"
                  => results[i].code \in {Accepted, "DUPLICATE_PUBLIC_MAPPING"}
            /\ {listing[k][i].name : i \in DOMAIN listing[k]} = Manifest[v]

\* The verticals page accounts for every tool a vertical offers: its accepted
\* and its rejected tools, counted from the registry and from the report, add
\* up to the tools listed, and the accepted ones are those its filter shows.
ToolCountsAddUp ==
    Ready => \A k \in DOMAIN Clients :
        LET v == Clients[k] IN
        /\ AcceptedToolCounts(v) + RejectedToolCounts(v) = Len(listing[k])
        /\ AcceptedToolCounts(v) = Len(ListTools(v))

\* The sandbox page can be used as it comes: the arguments it fills in for a
\* listed tool make a call that succeeds.
SandboxTemplatesWork ==
    \A s \in Sessions :
        /\ told[s] # None
        /\ call[s].name \in {tool.name : tool \in ListedTools(s)}
        /\ call[s].arguments = ArgumentTemplate[call[s].name]
        => told[s].ok
=============================================================================
