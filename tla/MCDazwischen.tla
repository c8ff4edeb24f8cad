---------------------------- MODULE MCDazwischen ----------------------------
(***************************************************************************)
(* The shipped verticals, each as it is, in the reverse order, with every  *)
(* tool attested safe, with a later version of its first tool, or listing  *)
(* its first tool twice; the validator's own terms; one client.            *)
(***************************************************************************)
EXTENDS Dazwischen, TLC

MCVerticals == {"mobility", "internet", "insurance"}

Shipped == UNION {{ShippedTools[v][i] : i \in DOMAIN ShippedTools[v]} : v \in MCVerticals}

MCTools == {tool.name : tool \in Shipped}
MCSchemas == {tool.input_schema : tool \in Shipped}
MCVersions == {"1.0", "2.0"}
MCPublicNames == {"search_mobility_options", "compare_internet_plans",
                  "compare_insurance_offers"}
MCPublicVersions == {"1.0"}
MCFloatMax == 100000

Variants(ts) ==
    {ts, [i \in DOMAIN ts |-> ts[Len(ts) + 1 - i]],
     [i \in DOMAIN ts |-> [ts[i] EXCEPT !.safe = TRUE]],
     [ts EXCEPT ![1].version = "2.0"], Append(ts, ts[1])}

MCListings == {<<a, b, c>> : a \in Variants(MobilityTools), b \in Variants(InternetTools),
                             c \in Variants(InsuranceTools)}

-----------------------------------------------------------------------------
\* The words of what has a word of a term; any other text is one word.
Split ==
    ".. book .." :> <<"book">>
    @@ ".. token .." :> <<"token">>
    @@ ".. book .. commit .." :> <<"book", " ", "..", " ", "commit">>
    @@ ".. order .." :> <<"order">>
    @@ ".. bind .." :> <<"bind">>
    @@ ".. bind .. charge .." :> <<"bind", " ", "..", " ", "charge">>
    @@ ".. internal .." :> <<"internal">>
    @@ ".. internal .. order .." :> <<"internal", " ", "..", " ", "order">>
    @@ ".. raw internal diagnostics command .." :>
        <<"raw", " ", "internal", " ", "diagnostics", " ", "command">>
    @@ ".. raw diagnostics command .." :>
        <<"raw", " ", "diagnostics", " ", "command">>
    @@ ".. social security .." :> <<"social", " ", "security">>
    @@ "order_plan" :> <<"order", "_", "plan">>
    @@ "payment_token" :> <<"payment", "_", "token">>
    @@ "run_diagnostics_command" :> <<"run", "_", "diagnostics", "_", "command">>
    @@ "bind_policy" :> <<"bind", "_", "policy">>
    @@ "quote_with_ssn" :> <<"quote", "_", "with", "_", "ssn">>

MCTexts ==
    DOMAIN Split \cup MCVerticals \cup MCTools \cup MCVersions
    \cup {"..", "type", "properties", "required", "additionalProperties", "description",
          "minimum", "enum", "object", "string", "integer", "number",
          "origin", "destination", "date", "passengers", "option_id",
          "address", "postal_code", "desired_speed_mbps", "plan_id", "customer_id",
          "installation_date", "device_id", "command", "product_type",
          "coverage_amount_eur", "customer_age", "travel", "home", "car", "ssn", "quote_id"}

MCWords == [t \in MCTexts |-> IF t \in DOMAIN Split THEN Split[t] ELSE <<t>>]

\* Every description of a tool is longer than 20 characters.
MCLength == [t \in MCTexts |-> 50]

MCNameTexts == MCVerticals \cup MCTools

\* The shipped schemas are well-formed.
MCCheckSchema(schema) == TRUE

MCValues == Within(MCSchemas, 7)
MCHeight == Heights(MCValues, 7)

\* The validator's verdict; what a candidate has besides is its tool's.
MCConforms(c) ==
    LET tool == CHOOSE tool \in Shipped : tool.name = c.upstream_tool IN
    IssuesOf(Judged(c.vertical, [tool EXCEPT !.input_schema = c.input_schema],
                    c.internal_version, c.safe_to_expose)) = << >>

-----------------------------------------------------------------------------
MCSurfaces ==
    {[kind |-> kind, vertical |-> v] :
        kind \in {"mcp", "sandbox"}, v \in {None, "internet", " Internet ", "payments", Blank}}

MCStripLower ==
    [v \in {"internet", " Internet ", "payments", Blank} |->
        IF v = " Internet " THEN "internet" ELSE v]

MCCalledNames == MCPublicNames \cup {"book", "check_availability"}

\* The templates, the required arguments alone, and what is wrong in one way.
MCArgumentSets ==
    LET trip == ArgumentTemplate.search_mobility_options
        profile == ArgumentTemplate.compare_insurance_offers
    IN  {ArgumentTemplate[n] : n \in MCPublicNames}
        \cup {[k \in DOMAIN trip \ {"passengers"} |-> trip[k]],
              [k \in DOMAIN trip \ {"date"} |-> trip[k]],
              [trip EXCEPT !.passengers = Number(0)],
              [profile EXCEPT !.product_type = Text("pet")],
              [trip EXCEPT !.passengers = Fraction(1)],
              [profile EXCEPT !.coverage_amount_eur = Fraction(999)],
              [profile EXCEPT !.coverage_amount_eur = Fraction(1000)],
              [profile EXCEPT !.coverage_amount_eur = Number(MCFloatMax + 1)],
              [profile EXCEPT !.customer_age = Text("35")]}
=============================================================================
