---------------------------- MODULE MCConformance ----------------------------
(***************************************************************************)
(* The validator on a table of texts and on schemas built from it: every   *)
(* mixture of good and bad texts with a good schema, every mixture of      *)
(* schema parts with good texts, and batches of three in which a candidate *)
(* comes back after another.                                               *)
(***************************************************************************)
EXTENDS Conformance, TLC

MCBlankTexts == {"", " "}
MCNameTexts == {"mobility", "find_route", "book_club", "delete", "origin", "object", "string",
            "latest"}
MCVersionTexts == {"1.0"}
MCPlaceholderTexts == {"latest", "Lists the latest offers on a route."}

Key == {"type", "properties", "required", "items", "enum", "anyOf", "$ref"}

\* The words of the texts that are more than one word.
Split ==
    "" :> << >> @@ " " :> <<" ">>
    @@ "find_route" :> <<"find", "_", "route">>
    @@ "book_club" :> <<"book", "_", "club">>
    @@ "Book-Trip" :> <<"book", "-", "trip">>
    @@ "1.0" :> <<"1", ".", "0">>
    @@ "$ref" :> <<"$", "ref">>
    @@ "anyOf" :> <<"anyof">>
    @@ "Finds a bookable route." :> <<"finds", " ", "a", " ", "bookable", " ", "route", ".">>
    @@ "Needs a social-security number." :>
        <<"needs", " ", "a", " ", "social", "-", "security", " ", "number", ".">>
    @@ "Lists the latest offers on a route." :>
        <<"lists", " ", "the", " ", "latest", " ", "offers", " ", "on", " ", "a",
          " ", "route", ".">>
    @@ "Access token" :> <<"access", " ", "token">>

MCTexts == DOMAIN Split \cup MCNameTexts \cup Key
           \cup {"v1", "array", "unicorn", "Too short."}

MCWords == [t \in MCTexts |-> IF t \in DOMAIN Split THEN Split[t] ELSE <<t>>]

\* Only descriptions are measured.
MCLength == [t \in MCTexts |->
    IF t \in {"Finds a bookable route.", "Needs a social-security number.",
              "Lists the latest offers on a route."} THEN 23
    ELSE IF t \in MCBlankTexts THEN 0 ELSE 10]

MCUnsafe == {<<"book">>, <<"delete">>}
MCLeaking == {<<"token">>}
MCSensitive == {<<"social", "_", "security">>}
MCProhibited == {"anyOf", "$ref"}

-----------------------------------------------------------------------------
\* What the meta-schema asks of the keywords that occur here.
RECURSIVE MCCheckSchema(_)
MCCheckSchema(schema) ==
    LET type == Get(schema, "type")
        properties == Get(schema, "properties")
        required == Get(schema, "required")
        anyOf == Get(schema, "anyOf")
        items == Get(schema, "items")
        IsSchema(v) == v.kind = "dict" /\ MCCheckSchema(v)
    IN  /\ type = Absent \/ (type.kind = "text" /\ type.text \in {"object", "array", "string"})
        /\ properties = Absent \/ /\ properties.kind = "dict"
                                  /\ \A i \in DOMAIN properties.entries :
                                         IsSchema(properties.entries[i].value)
        /\ required = Absent \/ /\ required.kind = "list"
                                /\ \A i \in DOMAIN required.items : required.items[i].kind = "text"
                                /\ IsInjective(required.items)
        /\ anyOf = Absent \/ /\ anyOf.kind = "list" /\ anyOf.items # << >>
                             /\ \A i \in DOMAIN anyOf.items : IsSchema(anyOf.items[i])
        /\ items = Absent \/ IsSchema(items)

String == Dict(<<Entry("type", Text("string"))>>)
Reference == Dict(<<Entry("$ref", Text("string"))>>)

\* Schemas of one argument: plain, described by texts, with prohibited keys
\* below a list, below one another or beside one another, or no schema.
Arguments ==
    {String, Dict(<<Entry("type", Text("unicorn"))>>),
     Dict(<<Entry("enum", List(<<Text("string"), List(<<Text("Access token")>>)>>))>>),
     Dict(<<Entry("items", Reference), Entry("type", Text("array"))>>),
     Dict(<<Entry("anyOf", List(<<String, Dict(<<Entry("anyOf", List(<<Reference>>))>>)>>))>>),
     Dict(<<Entry("enum", List(<<Reference, Reference>>))>>)}

Maybe(key, values) == {<< >>} \cup {<<Entry(key, v)>> : v \in values}

Schemas ==
    {Dict(t \o p \o r) :
        t \in Maybe("type", {Text("object"), Text("array"), Other}),
        p \in Maybe("properties",
                  {Other, Dict(<< >>), Dict(<<Entry("delete", String)>>)}
                  \cup {Dict(<<Entry("origin", a)>>) : a \in Arguments}
                  \cup {Dict(<<Entry("origin", String), Entry("latest", a)>>) : a \in Arguments}),
        r \in Maybe("required",
                  {Text("origin"), List(<< >>), List(<<Text("origin")>>), List(<<Text("latest")>>),
                   List(<<Text("latest"), Other, Text("object")>>), List(<<Text("origin"), Text("origin")>>)})}

GoodSchema == Dict(<<Entry("type", Text("object")), Entry("properties", Dict(<<Entry("origin", String)>>)),
                  Entry("required", List(<<Text("origin")>>))>>)

Tool(v, u, d, ver, safe, schema) ==
    [vertical |-> v, upstream_tool |-> u, description |-> d, internal_version |-> ver,
     safe_to_expose |-> safe, input_schema |-> schema]

Good == Tool("mobility", "find_route", "Finds a bookable route.", "1.0", TRUE, GoodSchema)
Blank == Tool(" ", "", "", " ", TRUE, Dict(<< >>))
Faulty == [Good EXCEPT !.upstream_tool = "Book-Trip", !.safe_to_expose = FALSE]

MCBatches ==
    {<<Tool(v, u, d, ver, safe, GoodSchema)>> :
        v \in {"mobility", "book_club", " "}, u \in {"find_route", "Book-Trip", ""},
        d \in {"Finds a bookable route.", "Needs a social-security number.", "latest",
               "Lists the latest offers on a route.", "Too short.", " "},
        ver \in {"1.0", "v1", " "}, safe \in BOOLEAN}
    \cup {<<[Good EXCEPT !.input_schema = s]>> : s \in Schemas}
    \cup {<<a, b, a>> : a, b \in {Good, Blank, Faulty}}

MCValues == Within({batch[i].input_schema : batch \in MCBatches, i \in {1}}
                   \cup {Blank.input_schema}, 7)
MCHeight == Heights(MCValues, 7)
=============================================================================
