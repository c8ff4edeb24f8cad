------------------------------ MODULE Verticals ------------------------------
(***************************************************************************)
(* The shipped verticals (app/vertical_mcp/mobility.py, internet.py,       *)
(* insurance.py): the tools, resources and replies of each.  A server      *)
(* keeps no state, so each is what its handlers return.                    *)
(*                                                                         *)
(* Of a name or a description only the words matter that the validator     *)
(* looks for; the others are left out as "..".                             *)
(***************************************************************************)
EXTENDS JsonTrees

CONSTANTS
    FloatMax,   \* the largest number that float() takes
    Missing     \* what dict.get returns for a key that is not there

Tool(name, description, input_schema, safe) ==
    [name |-> name, description |-> description, input_schema |-> input_schema,
     version |-> "1.0", safe |-> safe]

Described(type, description) ==
    Dict(<<Entry("type", Text(type)), Entry("description", Text(description))>>)

AtLeast(type, minimum) ==
    Dict(<<Entry("type", Text(type)), Entry("minimum", Number(minimum)),
           Entry("description", Text(".."))>>)

\* A schema of an object with these properties and no others.
Arguments(properties, required) ==
    Dict(<<Entry("type", Text("object")), Entry("properties", Dict(properties)),
           Entry("required", Texts(required)), Entry("additionalProperties", Other)>>)

\* The reply to a call, which echoes the arguments the tool knows; a handler
\* that raises makes the SDK answer with an error.
Reply(vertical, tool, query) ==
    [is_error |-> FALSE, vertical |-> vertical, upstream_tool |-> tool, query |-> query]
ErrorReply == [is_error |-> TRUE]

Given(arguments, key) == IF key \in DOMAIN arguments THEN arguments[key] ELSE Missing

Echo(arguments, keys) == [key \in keys |-> Given(arguments, key)]

-----------------------------------------------------------------------------
(* Mobility                                                                *)

SearchInput ==
    Arguments(<<Entry("origin", Described("string", "..")),
                Entry("destination", Described("string", "..")),
                Entry("date", Described("string", "..")),
                Entry("passengers", AtLeast("integer", 1))>>,
              <<"origin", "destination", "date">>)

BookInput ==
    Arguments(<<Entry("option_id", Described("string", ".. book ..")),
                Entry("payment_token", Described("string", ".. token .."))>>,
              <<"option_id", "payment_token">>)

MobilityTools ==
    <<Tool("search", "..", SearchInput, TRUE),
      Tool("book", ".. book .. commit ..", BookInput, FALSE)>>

Search(arguments) ==
    Reply("mobility", "search",
          [Echo(arguments, {"origin", "destination", "date", "passengers"})
             EXCEPT !.passengers = IF @ = Missing THEN Number(1) ELSE @])

MobilityCall(name, arguments) ==
    CASE name = "search" -> Search(arguments)
      [] name = "book"   -> Reply("mobility", "book", Echo(arguments, {"option_id"}))
      [] OTHER           -> ErrorReply

MobilityManifest == {"search", "book"}
MobilityRejectionGuidance == {"book"}

-----------------------------------------------------------------------------
(* Internet                                                                *)

CheckAvailabilityTool ==
    Tool("check_availability", "..",
         Arguments(<<Entry("address", Described("string", "..")),
                     Entry("postal_code", Described("string", "..")),
                     Entry("desired_speed_mbps", AtLeast("integer", 1))>>,
                   <<"address", "postal_code">>),
         TRUE)

OrderPlanTool ==
    Tool("order_plan", ".. order ..",
         Arguments(<<Entry("plan_id", Described("string", ".. order ..")),
                     Entry("customer_id", Described("string", ".. internal .. order ..")),
                     Entry("installation_date", Described("string", ".."))>>,
                   <<"plan_id", "customer_id", "installation_date">>),
         FALSE)

RunDiagnosticsCommandTool ==
    Tool("run_diagnostics_command", ".. raw internal diagnostics command ..",
         Arguments(<<Entry("device_id", Described("string", ".. internal ..")),
                     Entry("command", Described("string", ".. raw diagnostics command .."))>>,
                   <<"device_id", "command">>),
         TRUE)

InternetTools == <<CheckAvailabilityTool, OrderPlanTool, RunDiagnosticsCommandTool>>

InternetCall(name, arguments) ==
    CASE name = "check_availability" ->
            Reply("internet", name,
                  Echo(arguments, {"address", "postal_code", "desired_speed_mbps"}))
      [] name = "order_plan" ->
            Reply("internet", name,
                  Echo(arguments, {"plan_id", "customer_id", "installation_date"}))
      [] name = "run_diagnostics_command" ->
            Reply("internet", name, Echo(arguments, {"device_id", "command"}))
      [] OTHER -> ErrorReply

InternetManifest == {"check_availability", "order_plan", "run_diagnostics_command"}
InternetRejectionGuidance == {"order_plan", "run_diagnostics_command"}

-----------------------------------------------------------------------------
(* Insurance                                                               *)

QuoteProperties ==
    <<Entry("product_type", Dict(<<Entry("type", Text("string")),
                                   Entry("enum", Texts(<<"travel", "home", "car">>)),
                                   Entry("description", Text(".."))>>)),
      Entry("coverage_amount_eur", AtLeast("number", 1000)),
      Entry("customer_age", AtLeast("integer", 18))>>

QuoteRequired == <<"product_type", "coverage_amount_eur", "customer_age">>

QuoteInput(include_ssn) ==
    IF include_ssn
    THEN Arguments(Append(QuoteProperties,
                          Entry("ssn", Described("string", ".. social security .."))),
                   Append(QuoteRequired, "ssn"))
    ELSE Arguments(QuoteProperties, QuoteRequired)

BindPolicyTool ==
    Tool("bind_policy", ".. bind .. charge ..",
         Arguments(<<Entry("quote_id", Described("string", ".. bind ..")),
                     Entry("payment_token", Described("string", ".. token .."))>>,
                   <<"quote_id", "payment_token">>),
         FALSE)

InsuranceTools ==
    <<Tool("quote", "..", QuoteInput(FALSE), TRUE),
      BindPolicyTool,
      Tool("quote_with_ssn", ".. social security ..", QuoteInput(TRUE), TRUE)>>

\* x or 0, for an argument that is left out.
OrZero(value) == IF value = Missing THEN Number(0) ELSE value

\* float() and the product with a float convert an int of any size: they raise
\* if it is too large.  (The arguments are numbers: the router validates them.)
\* A product or a sum of floats that is too large is inf and raises nothing.
Fits(value) == value.n <= FloatMax

\* The premium is computed of the coverage and the age; the quotes themselves
\* are left out of the reply.
Quote(tool, arguments, keys) ==
    LET query == [Echo(arguments, keys) EXCEPT !.coverage_amount_eur = OrZero(@),
                                               !.customer_age = OrZero(@)] IN
    IF Fits(query.coverage_amount_eur) /\ Fits(query.customer_age)
    THEN Reply("insurance", tool, query)
    ELSE ErrorReply

InsuranceCall(name, arguments) ==
    LET keys == {"product_type", "coverage_amount_eur", "customer_age"} IN
    CASE name = "quote"          -> Quote(name, arguments, keys)
      [] name = "bind_policy"    -> Reply("insurance", name, Echo(arguments, {"quote_id"}))
      [] name = "quote_with_ssn" -> Quote(name, arguments, keys \cup {"ssn"})
      [] OTHER                   -> ErrorReply

InsuranceManifest == {"quote", "bind_policy", "quote_with_ssn"}
InsuranceRejectionGuidance == {"bind_policy", "quote_with_ssn"}

-----------------------------------------------------------------------------
(* The clients main.py makes: one per server, in this order.               *)

VerticalNames == <<"mobility", "internet", "insurance">>

ShippedTools == [mobility |-> MobilityTools, internet |-> InternetTools,
                 insurance |-> InsuranceTools]

ShippedCall(vertical, name, arguments) ==
    CASE vertical = "mobility"  -> MobilityCall(name, arguments)
      [] vertical = "internet"  -> InternetCall(name, arguments)
      [] vertical = "insurance" -> InsuranceCall(name, arguments)

Manifest == [mobility |-> MobilityManifest, internet |-> InternetManifest,
             insurance |-> InsuranceManifest]

RejectionGuidance ==
    [mobility |-> MobilityRejectionGuidance, internet |-> InternetRejectionGuidance,
     insurance |-> InsuranceRejectionGuidance]

ASSUME MissingAssumption ==
    \A v \in DOMAIN Manifest : Missing \notin {Manifest[v], RejectionGuidance[v]}

\* list_resources of each server, as <<vertical, name>>: the uri is
\* vertical://<vertical>/<name>.
ResourceNames == <<"manifest", "rejection-guidance">>

ListResources(vertical) == [i \in DOMAIN ResourceNames |-> <<vertical, ResourceNames[i]>>]

\* read_resource: what a resource contains, Missing if the server raises.
ReadResource(vertical, uri) ==
    CASE uri = <<vertical, "manifest">>           -> Manifest[vertical]
      [] uri = <<vertical, "rejection-guidance">> -> RejectionGuidance[vertical]
      [] OTHER                                    -> Missing
=============================================================================
