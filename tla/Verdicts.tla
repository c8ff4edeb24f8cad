------------------------------- MODULE Verdicts -------------------------------
(***************************************************************************)
(* The validator on the tools of the shipped verticals: its own terms, the *)
(* texts of the tools, and the verdict on a candidate (Conforms, which the *)
(* catalog leaves open) as what its nine checks find in it.                *)
(***************************************************************************)
EXTENDS CatalogData, Checks, Verticals

\* The terms of the validator, each as its words.
UnsafeActionTerms ==
    {<<"book">>, <<"buy">>, <<"purchase">>, <<"delete">>, <<"cancel">>, <<"pay">>,
     <<"charge">>, <<"order">>, <<"bind">>, <<"create", Underscore, "contract">>,
     <<"contract">>, <<"commit">>}

InternalLeakageTerms ==
    {<<"internal">>, <<"debug">>, <<"admin">>, <<"private">>, <<"database">>,
     <<"token">>, <<"secret">>, <<"hostname">>, <<"diagnostics">>,
     <<"diagnostics", Underscore, "command">>, <<"raw">>, <<"command">>,
     <<"device", Underscore, "logs">>}

SensitiveDataTerms ==
    {<<"ssn">>, <<"social", Underscore, "security">>, <<"social", Space, "security">>,
     <<"passport">>, <<"national", Underscore, "id">>}

ProhibitedSchemaKeys == {"$ref", "oneOf", "anyOf", "allOf"}

ASSUME TermsInForce ==
    /\ UNSAFE_ACTION_TERMS = UnsafeActionTerms
    /\ INTERNAL_LEAKAGE_TERMS = InternalLeakageTerms
    /\ SENSITIVE_DATA_TERMS = SensitiveDataTerms
    /\ PROHIBITED_SCHEMA_KEYS = ProhibitedSchemaKeys

-----------------------------------------------------------------------------
\* The words that terms begin with.
FirstWords == {term[1] : term \in UnsafeActionTerms \cup InternalLeakageTerms
                                  \cup SensitiveDataTerms}

\* Names of verticals and tools, keys and texts of schemas in which no term
\* begins.
PlainTexts ==
    {"..", "mobility", "internet", "insurance", "search", "check_availability", "quote",
     "type", "properties", "required", "additionalProperties", "description", "minimum",
     "enum", "object", "string", "integer", "number",
     "origin", "destination", "date", "passengers",
     "address", "postal_code", "desired_speed_mbps",
     "product_type", "coverage_amount_eur", "customer_age", "travel", "home", "car"}

\* What the texts of the shipped tools consist of.
ASSUME WordsOfTools ==
    /\ PlainTexts \subseteq Strings
    /\ \A text \in PlainTexts : Range(Words[text]) \cap FirstWords = {}
    /\ \A t \in {<<"book", <<"book">>>>,
                 <<"order_plan", <<"order", Underscore, "plan">>>>,
                 <<"run_diagnostics_command",
                   <<"run", Underscore, "diagnostics", Underscore, "command">>>>,
                 <<"bind_policy", <<"bind", Underscore, "policy">>>>,
                 <<"quote_with_ssn", <<"quote", Underscore, "with", Underscore, "ssn">>>>} :
          t[1] \in Strings /\ Words[t[1]] = t[2]

\* The shipped tools are in good form: it is for what they say that some of
\* them are rejected.
ASSUME ToolsAreInForm ==
    /\ Versions \subseteq VersionTexts \ BlankTexts
    /\ \A v \in DOMAIN ShippedTools : \A j \in DOMAIN ShippedTools[v] :
          LET tool == ShippedTools[v][j] IN
          /\ {v, tool.name} \subseteq NameTexts \ BlankTexts
          /\ tool.description \in Strings \ (BlankTexts \cup PlaceholderTexts)
          /\ Length[tool.description] >= 20
          /\ tool.input_schema \in Values
          /\ CheckSchema(tool.input_schema)

-----------------------------------------------------------------------------
\* A tool as a vertical attests it, as the catalog and as the validator see it.
Attested(v, tool, version, safe) ==
    [vertical |-> v, upstream_tool |-> tool.name, internal_version |-> version,
     safe_to_expose |-> safe, input_schema |-> tool.input_schema]

Judged(v, tool, version, safe) ==
    [vertical |-> v, upstream_tool |-> tool.name, description |-> tool.description,
     internal_version |-> version, safe_to_expose |-> safe,
     input_schema |-> tool.input_schema]

\* A candidate conforms if the checks find nothing in it.
ASSUME ConformsIsVerdict ==
    \A v \in DOMAIN ShippedTools : \A j \in DOMAIN ShippedTools[v] :
        \A version \in Versions, safe \in BOOLEAN :
            LET tool == ShippedTools[v][j] IN
            Conforms(Attested(v, tool, version, safe))
            <=> IssuesOf(Judged(v, tool, version, safe)) = << >>
=============================================================================
