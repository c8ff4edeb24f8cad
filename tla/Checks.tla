-------------------------------- MODULE Checks --------------------------------
(***************************************************************************)
(* What the validator (app/validation/conformance.py) finds in a candidate *)
(* tool: the nine checks of validate_tool, each as the list of issues that *)
(* it appends.                                                             *)
(*                                                                         *)
(* A text is a string that is not looked into: the constants say which     *)
(* patterns it matches, how long it is and what words it consists of.      *)
(* A JSON value is a dict (a sequence of entries), a list, a text or       *)
(* something else.                                                         *)
(***************************************************************************)
EXTENDS JsonTrees, SequencesExt

CONSTANTS
    Values, Height,         \* the JSON values in their schemas; value -> depth
    Words,                  \* text -> its runs of letters and digits and the
                            \* separators between them, in lower case
    Length,                 \* text -> its length without outer blanks
    BlankTexts,             \* texts without any visible character
    NameTexts, VersionTexts,            \* texts matching _NAME_RE, _VERSION_RE
    PlaceholderTexts,       \* texts that contain a placeholder description
    UNSAFE_ACTION_TERMS, INTERNAL_LEAKAGE_TERMS, SENSITIVE_DATA_TERMS,
    PROHIBITED_SCHEMA_KEYS,
    CheckSchema(_)          \* Draft202012Validator.check_schema does not raise

Strings == DOMAIN Words

ASSUME TextsAssumption ==
    /\ BlankTexts \cup NameTexts \cup VersionTexts \cup PlaceholderTexts \subseteq Strings
    /\ \A text \in Strings : Words[text] \in Seq(Range(Words[text]))
    /\ Length \in [Strings -> Nat]

\* What stands between words.
Space == " "
Underscore == "_"
Hyphen == "-"

\* A hyphen in a text counts as an underscore; the terms have none.
ASSUME TermsAssumption ==
    \A term \in UNSAFE_ACTION_TERMS \cup INTERNAL_LEAKAGE_TERMS \cup SENSITIVE_DATA_TERMS :
        term \in Seq(Range(term)) /\ Hyphen \notin Range(term)

ASSUME ValuesAssumption == AreTrees(Values, Height, Strings)

\* What pydantic lets into a candidate.
CandidateTool ==
    [vertical : Strings, upstream_tool : Strings, description : Strings,
     internal_version : Strings, safe_to_expose : BOOLEAN,
     input_schema : {v \in Values : v.kind = "dict"}]

Issue(code, field) == [code |-> code, field |-> field]

\* The issues of one condition: a list with at most one element.
IssueIf(condition, code, field) ==
    IF condition THEN <<Issue(code, field)>> ELSE << >>

-----------------------------------------------------------------------------
\* What dict.get returns for a key that is not there.
Absent == [kind |-> "absent"]

Get(dict, key) ==
    LET found == {i \in DOMAIN dict.entries : dict.entries[i].key = key} IN
    IF found = {} THEN Absent ELSE dict.entries[CHOOSE i \in found : TRUE].value

HasText(text) == text \notin BlankTexts

\* Mutant: lists are not searched for texts.
SchemaTextOfDicts(v) ==
    LET texts[w \in Values] ==
            CASE w.kind = "dict" -> FlattenSeq([i \in DOMAIN w.entries |->
                     <<w.entries[i].key>> \o texts[w.entries[i].value]])
              [] w.kind = "text" -> <<w.text>>
              [] OTHER -> << >>
    IN  texts[v]

\* _schema_text_values: every key and every string, in document order.
SchemaTextValues(v) ==
    LET texts[w \in Values] ==
            CASE w.kind = "dict" -> FlattenSeq([i \in DOMAIN w.entries |->
                     <<w.entries[i].key>> \o texts[w.entries[i].value]])
              [] w.kind = "list" -> FlattenSeq([i \in DOMAIN w.items |-> texts[w.items[i]]])
              [] w.kind = "text" -> <<w.text>>
              [] OTHER -> << >>
    IN  texts[v]

\* Mutant: nothing is searched below a prohibited key.
FindTopmostKeys(v, prohibited) ==
    LET keys[w \in Values] ==
            CASE w.kind = "dict" -> FlattenSeq([i \in DOMAIN w.entries |->
                     IF w.entries[i].key \in prohibited THEN <<w.entries[i].key>>
                     ELSE keys[w.entries[i].value]])
              [] w.kind = "list" -> FlattenSeq([i \in DOMAIN w.items |-> keys[w.items[i]]])
              [] OTHER -> << >>
    IN  keys[v]

\* _find_schema_keys: every occurrence of a prohibited key, at any depth.
FindSchemaKeys(v, prohibited) ==
    LET keys[w \in Values] ==
            CASE w.kind = "dict" -> FlattenSeq([i \in DOMAIN w.entries |->
                     (IF w.entries[i].key \in prohibited THEN <<w.entries[i].key>> ELSE << >>)
                     \o keys[w.entries[i].value]])
              [] w.kind = "list" -> FlattenSeq([i \in DOMAIN w.items |-> keys[w.items[i]]])
              [] OTHER -> << >>
    IN  keys[v]

\* The texts of the candidate, joined by blanks.
CandidateText(c) ==
    LET texts == <<c.vertical, c.upstream_tool, c.description>>
                 \o SchemaTextValues(c.input_schema)
    IN  FlattenSeq([i \in DOMAIN texts |-> Words[texts[i]] \o <<Space>>])

\* A hyphen counts as an underscore; a term is found only between separators
\* (an underscore is one), which is at the borders of words.
FindTerms(words, terms) ==
    LET normalized == [i \in DOMAIN words |-> IF words[i] = Hyphen THEN Underscore ELSE words[i]] IN
    {term \in terms : \E i \in 0..(Len(words) - Len(term)) :
                          SubSeq(normalized, i + 1, i + Len(term)) = term}

-----------------------------------------------------------------------------
\* The nine checks: each gives the issues it finds in candidate c.
RequiredFields(c) ==
    IssueIf(~HasText(c.vertical), "MISSING_VERTICAL", "vertical")
    \o IssueIf(~HasText(c.upstream_tool), "MISSING_UPSTREAM_TOOL", "upstream_tool")
    \o IssueIf(~HasText(c.internal_version), "MISSING_INTERNAL_VERSION", "internal_version")
    \o IssueIf(~HasText(c.description), "MISSING_DESCRIPTION", "description")
    \o IssueIf(c.input_schema.entries = << >>, "MISSING_INPUT_SCHEMA", "input_schema")

\* Mutants: the field of another line; the format of a text that is missing.
IdentityFormatMisnamed(c) ==
    IssueIf(HasText(c.upstream_tool) /\ c.upstream_tool \notin NameTexts,
            "INVALID_UPSTREAM_TOOL_NAME", "vertical")

IdentityFormatUnguarded(c) ==
    IssueIf(c.upstream_tool \notin NameTexts, "INVALID_UPSTREAM_TOOL_NAME", "upstream_tool")

IdentityFormat(c) ==
    IssueIf(HasText(c.vertical) /\ c.vertical \notin NameTexts,
            "INVALID_VERTICAL_NAME", "vertical")
    \o IssueIf(HasText(c.upstream_tool) /\ c.upstream_tool \notin NameTexts,
               "INVALID_UPSTREAM_TOOL_NAME", "upstream_tool")
    \o IssueIf(HasText(c.internal_version) /\ c.internal_version \notin VersionTexts,
               "INVALID_INTERNAL_VERSION", "internal_version")

VerticalAttestation(c) ==
    IssueIf(~c.safe_to_expose, "VERTICAL_MARKED_UNSAFE", "safe_to_expose")

\* Mutant: a tool its vertical calls safe is not searched.
SensitiveDataUnlessAttested(c) ==
    IssueIf(~c.safe_to_expose /\ FindTerms(CandidateText(c), SENSITIVE_DATA_TERMS) # {},
            "SENSITIVE_DATA_COLLECTION", "input_schema")

UnsafeActions(c) == IssueIf(FindTerms(CandidateText(c), UNSAFE_ACTION_TERMS) # {},
                            "UNSAFE_ACTION", "upstream_tool")

InternalLeakage(c) == IssueIf(FindTerms(CandidateText(c), INTERNAL_LEAKAGE_TERMS) # {},
                              "INTERNAL_LEAKAGE", "description")

SensitiveData(c) == IssueIf(FindTerms(CandidateText(c), SENSITIVE_DATA_TERMS) # {},
                            "SENSITIVE_DATA_COLLECTION", "input_schema")

DescriptionLength(c) ==
    IssueIf(HasText(c.description) /\ Length[c.description] < 20,
            "DESCRIPTION_TOO_SHORT", "description")

DescriptionPlaceholder(c) ==
    IssueIf(HasText(c.description) /\ c.description \in PlaceholderTexts,
            "DESCRIPTION_PLACEHOLDER", "description")

\* Mutant: a dict of no properties is good enough.
HasAnyDict(schema) == Get(schema, "properties").kind = "dict"

HasProperties(schema) ==
    LET properties == Get(schema, "properties") IN
    properties.kind = "dict" /\ properties.entries # << >>

\* What a required field may name: nothing if the properties are unusable.
PropertyNames(schema) ==
    IF HasProperties(schema)
    THEN LET entries == Get(schema, "properties").entries
         IN  {entries[i].key : i \in DOMAIN entries}
    ELSE {}

RequiredIssues(schema) ==
    LET required == Get(schema, "required") IN
    IF required = Absent THEN << >>
    ELSE IF required.kind # "list"
    THEN <<Issue("SCHEMA_REQUIRED_NOT_LIST", "input_schema.required")>>
    ELSE FlattenSeq([i \in DOMAIN required.items |->
            LET field == required.items[i] IN
            IssueIf(field.kind # "text",
                    "SCHEMA_REQUIRED_FIELD_INVALID", "input_schema.required")
            \o IssueIf(field.kind = "text" /\ field.text \notin PropertyNames(schema),
                       "SCHEMA_REQUIRED_FIELD_NOT_DEFINED", "input_schema.required")])

CompositionIssues(schema) ==
    [i \in DOMAIN FindSchemaKeys(schema, PROHIBITED_SCHEMA_KEYS) |->
        Issue("SCHEMA_COMPOSITION_NOT_ALLOWED", "input_schema")]

IsTypeObject(v) == v.kind = "text" /\ v.text = "object"

InputSchema(c) ==
    LET schema == c.input_schema IN
    IF schema.entries = << >> THEN << >>
    ELSE IssueIf(~CheckSchema(schema), "INVALID_JSON_SCHEMA", "input_schema")
         \o IssueIf(~IsTypeObject(Get(schema, "type")),
                    "SCHEMA_TOP_LEVEL_NOT_OBJECT", "input_schema.type")
         \o IssueIf(~HasProperties(schema),
                    "SCHEMA_MISSING_PROPERTIES", "input_schema.properties")
         \o RequiredIssues(schema)
         \o CompositionIssues(schema)

\* What validate_tool finds, all checks together.
IssuesOf(c) ==
    RequiredFields(c) \o IdentityFormat(c) \o VerticalAttestation(c)
    \o UnsafeActions(c) \o InternalLeakage(c) \o SensitiveData(c)
    \o DescriptionLength(c) \o DescriptionPlaceholder(c) \o InputSchema(c)
=============================================================================
