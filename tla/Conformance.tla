----------------------------- MODULE Conformance -----------------------------
(***************************************************************************)
(* ToolConformanceValidator (app/validation/conformance.py): validate_all  *)
(* takes the candidates one after another; for each, nine checks append    *)
(* issues to one list, and it is accepted if the list stays empty.         *)
(***************************************************************************)
EXTENDS Checks

CONSTANT Batches    \* sequences of candidate tools to validate

ASSUME BatchesAssumption == \A batch \in Batches : batch \in Seq(CandidateTool)

VARIABLES
    candidates, \* the argument of validate_all
    at,         \* number of the check that runs next on the current candidate
    issues,     \* issues found so far in the current candidate, in order
    results     \* results of the candidates before it

vars == <<candidates, at, issues, results>>

-----------------------------------------------------------------------------
Init == candidates \in Batches /\ at = 1 /\ issues = << >> /\ results = << >>

Candidate == candidates[Len(results) + 1]

\* The k-th check runs on the current candidate and finds what is found.
Check(k, Found(_)) == /\ at = k
                      /\ Len(results) < Len(candidates)
                      /\ issues' = issues \o Found(Candidate)
                      /\ at' = k + 1
                      /\ UNCHANGED <<candidates, results>>

CheckRequiredFields         == Check(1, RequiredFields)
CheckIdentityFormat         == Check(2, IdentityFormat)
CheckVerticalAttestation    == Check(3, VerticalAttestation)
CheckUnsafeActions          == Check(4, UnsafeActions)
CheckInternalLeakage        == Check(5, InternalLeakage)
CheckSensitiveData          == Check(6, SensitiveData)
CheckDescriptionLength      == Check(7, DescriptionLength)
CheckDescriptionPlaceholder == Check(8, DescriptionPlaceholder)
CheckInputSchema            == Check(9, InputSchema)

ValidationResult ==
    [vertical |-> Candidate.vertical, tool |-> Candidate.upstream_tool,
     status |-> IF issues = << >> THEN "ACCEPTED" ELSE "REJECTED",
     reasons |-> issues]

\* validate_tool returns; validate_all goes on with a new list of issues.
Conclude == /\ at = 10
            /\ results' = Append(results, ValidationResult)
            /\ at' = 1
            /\ issues' = << >>
            /\ UNCHANGED candidates

Next == \/ CheckRequiredFields \/ CheckIdentityFormat \/ CheckVerticalAttestation
        \/ CheckUnsafeActions \/ CheckInternalLeakage \/ CheckSensitiveData
        \/ CheckDescriptionLength \/ CheckDescriptionPlaceholder \/ CheckInputSchema
        \/ Conclude

Spec == Init /\ [][Next]_vars

-----------------------------------------------------------------------------
\* A reference to check the validator against: the values nested in a value,
\* each with its path.
Nested(v) ==
    LET nested[w \in Values] ==
            {<<<< >>, w>>} \cup
            UNION {{<<<<i>> \o place[1], place[2]>> : place \in nested[Parts(w)[i]]} :
                   i \in DOMAIN Parts(w)}
    IN  nested[v]

\* Every place that has a key, as <<path of the dict, its key>>.
KeyPlaces(schema) ==
    UNION {{<<place[1], place[2].entries[i].key>> : i \in DOMAIN place[2].entries} :
           place \in {p \in Nested(schema) : p[2].kind = "dict"}}

ProhibitedPlaces(schema) == {p \in KeyPlaces(schema) : p[2] \in PROHIBITED_SCHEMA_KEYS}

TextsOf(c) ==
    {c.vertical, c.upstream_tool, c.description}
    \cup {p[2] : p \in KeyPlaces(c.input_schema)}
    \cup {p[2].text : p \in {q \in Nested(c.input_schema) : q[2].kind = "text"}}

\* A text mentions a term as whole words, with a hyphen or an underscore.
Mentions(text, term) ==
    \E start \in DOMAIN Words[text] :
        \A k \in DOMAIN term :
            /\ start + k - 1 \in DOMAIN Words[text]
            /\ LET word == Words[text][start + k - 1]
               IN  word = term[k] \/ (word = Hyphen /\ term[k] = Underscore)

Reasons(r, code) == {i \in DOMAIN r.reasons : r.reasons[i].code = code}

Accepted(c) == \E i \in DOMAIN results :
                   candidates[i] = c /\ results[i].status = "ACCEPTED"

-----------------------------------------------------------------------------
FieldsOfCodes ==
    {<<"MISSING_VERTICAL", "vertical">>, <<"INVALID_VERTICAL_NAME", "vertical">>,
     <<"MISSING_UPSTREAM_TOOL", "upstream_tool">>,
     <<"INVALID_UPSTREAM_TOOL_NAME", "upstream_tool">>,
     <<"UNSAFE_ACTION", "upstream_tool">>,
     <<"MISSING_INTERNAL_VERSION", "internal_version">>,
     <<"INVALID_INTERNAL_VERSION", "internal_version">>,
     <<"VERTICAL_MARKED_UNSAFE", "safe_to_expose">>,
     <<"MISSING_DESCRIPTION", "description">>, <<"INTERNAL_LEAKAGE", "description">>,
     <<"DESCRIPTION_TOO_SHORT", "description">>,
     <<"DESCRIPTION_PLACEHOLDER", "description">>,
     <<"MISSING_INPUT_SCHEMA", "input_schema">>,
     <<"SENSITIVE_DATA_COLLECTION", "input_schema">>,
     <<"INVALID_JSON_SCHEMA", "input_schema">>,
     <<"SCHEMA_COMPOSITION_NOT_ALLOWED", "input_schema">>,
     <<"SCHEMA_TOP_LEVEL_NOT_OBJECT", "input_schema.type">>,
     <<"SCHEMA_MISSING_PROPERTIES", "input_schema.properties">>,
     <<"SCHEMA_REQUIRED_NOT_LIST", "input_schema.required">>,
     <<"SCHEMA_REQUIRED_FIELD_INVALID", "input_schema.required">>,
     <<"SCHEMA_REQUIRED_FIELD_NOT_DEFINED", "input_schema.required">>}

\* Types: every issue names the field to fix, and a result is a verdict with
\* its reasons.
TypeOK ==
    LET Issues == {Issue(cf[1], cf[2]) : cf \in FieldsOfCodes} IN
    /\ candidates \in Batches
    /\ at \in 1..10
    /\ issues \in Seq(Issues)
    /\ Len(results) <= Len(candidates)
    /\ \A i \in DOMAIN results : results[i].reasons \in Seq(Issues)

\* An accepted tool is attested safe, has no prohibited key anywhere in its
\* schema, however deep in dicts and lists, and no text of it, in the schema or
\* outside, mentions a prohibited term.
AcceptedIsSafe ==
    \A i \in DOMAIN candidates : Accepted(candidates[i]) =>
        /\ candidates[i].safe_to_expose
        /\ ProhibitedPlaces(candidates[i].input_schema) = {}
        /\ \A text \in TextsOf(candidates[i]), term \in
               UNSAFE_ACTION_TERMS \cup INTERNAL_LEAKAGE_TERMS \cup SENSITIVE_DATA_TERMS :
                   ~Mentions(text, term)

\* An accepted tool can be called: its schema is a valid one of an object with
\* properties, and every argument it requires is among them.
AcceptedIsCallable ==
    \A i \in DOMAIN candidates : Accepted(candidates[i]) =>
        LET schema == candidates[i].input_schema
            keys == {p[2] : p \in {q \in KeyPlaces(schema) : q[1] = << >>}}
            propertyAt == {k \in DOMAIN schema.entries : schema.entries[k].key = "properties"}
            properties == {p[2] : p \in {q \in KeyPlaces(schema) :
                                            \E k \in propertyAt : q[1] = <<k>>}}
        IN  /\ CheckSchema(schema)
            /\ {"type", "properties"} \subseteq keys
            /\ properties # {}
            /\ "required" \in keys =>
                   {f.text : f \in Range(Get(schema, "required").items)} \subseteq properties

\* What is missing is reported as missing and as nothing else: no second
\* complaint about the format of an absent text or the parts of an absent
\* schema (test_missing_required_fields_are_reported_without_duplicate_format_errors).
MissingIsReportedOnce ==
    \A i \in DOMAIN results :
        LET codes == {reason.code : reason \in Range(results[i].reasons)} IN
        \A missing \in
            {<<"MISSING_VERTICAL", {"INVALID_VERTICAL_NAME"}>>,
             <<"MISSING_UPSTREAM_TOOL", {"INVALID_UPSTREAM_TOOL_NAME"}>>,
             <<"MISSING_INTERNAL_VERSION", {"INVALID_INTERNAL_VERSION"}>>,
             <<"MISSING_DESCRIPTION", {"DESCRIPTION_TOO_SHORT", "DESCRIPTION_PLACEHOLDER"}>>,
             <<"MISSING_INPUT_SCHEMA",
               {cf[1] : cf \in {f \in FieldsOfCodes :
                            f[2] \in {"input_schema.type", "input_schema.properties",
                                      "input_schema.required"}}}>>} :
            missing[1] \in codes => missing[2] \cap codes = {}

\* A rejection names every fault of the schema at once: one issue for each
\* place of a prohibited key, wherever it is, and one for each required field
\* that is not a property. An author who fixes what is reported is done.
EveryFaultIsReported ==
    \A i \in DOMAIN results :
        LET schema == candidates[i].input_schema
            required == Get(schema, "required")
            undefined == IF required.kind # "list" THEN {}
                         ELSE {k \in DOMAIN required.items :
                                 /\ required.items[k].kind = "text"
                                 /\ required.items[k].text \notin PropertyNames(schema)}
        IN  /\ Cardinality(Reasons(results[i], "SCHEMA_COMPOSITION_NOT_ALLOWED"))
               = Cardinality(ProhibitedPlaces(schema))
            /\ Cardinality(Reasons(results[i], "SCHEMA_REQUIRED_FIELD_NOT_DEFINED"))
               = Cardinality(undefined)

\* The verdict on a tool does not depend on what was validated before it: equal
\* candidates have equal results, and the i-th result is the i-th candidate's
\* (the builder pairs them by position).
VerdictsAreIndependent ==
    \A i, j \in DOMAIN results :
        /\ results[i].vertical = candidates[i].vertical
        /\ results[i].tool = candidates[i].upstream_tool
        /\ candidates[i] = candidates[j] => results[i] = results[j]

=============================================================================
