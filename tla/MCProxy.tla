------------------------------- MODULE MCProxy -------------------------------
(***************************************************************************)
(* Three requests over a registry as the tests build them: two served      *)
(* tools, one whose vertical has no client, one whose route is missing and *)
(* one whose schema jsonschema refuses.                                    *)
(***************************************************************************)
EXTENDS Proxy, TLC

CONSTANTS id1, c1       \* a client's request id and conversation id

MCToolNames == {"trips", "plans", "offers", "routeless", "broken"}

MCRoute(v, t) == [vertical |-> v, upstream_tool |-> t]

MCRoutes ==
    [n \in {"trips", "plans", "offers", "broken"} |->
        CASE n = "trips"  -> MCRoute("mobility", "search")
          [] n = "plans"  -> MCRoute("internet", "check_availability")
          [] n = "offers" -> MCRoute("insurance", "quote")
          [] n = "broken" -> MCRoute("mobility", "draft3")]

MCClients == {"mobility", "internet"}

MCArgumentCheck ==
    [na \in (MCToolNames \cup {"book"}) \X {"good", "bad"} |->
        IF na[1] = "broken" THEN "schema_error"
        ELSE IF na[2] = "good" THEN "valid" ELSE "invalid"]

\* The blank header is the only one that is not as it is stripped.
MCStrip == [t \in {id1, c1, Blank, " "} |-> IF t = " " THEN Blank ELSE t]

\* " Mobility " is the only spelling that is not its own normal form.
MCStripLower ==
    [v \in {"mobility", "internet", " Mobility ", Blank} |->
        IF v = " Mobility " THEN "mobility" ELSE v]

MCInput(surface, name, arguments, vertical, request_id, conversation_id) ==
    [surface |-> surface, name |-> name, arguments |-> arguments,
     vertical |-> vertical, request_id |-> request_id,
     conversation_id |-> conversation_id]

MCInputs ==
    {MCInput("mcp", "trips", "good", None, id1, c1),
     MCInput("mcp", "trips", "good", " Mobility ", Blank, " "),
     MCInput("mcp", "plans", "good", "mobility", None, c1),
     MCInput("mcp", "trips", "bad", None, id1, None),
     MCInput("mcp", "book", "good", Blank, None, None),
     MCInput("mcp", "broken", "good", None, None, c1),
     MCInput("sandbox", "plans", "good", "internet", id1, c1),
     MCInput("sandbox", "trips", "good", " Mobility ", Blank, Blank),
     MCInput("sandbox", "offers", "good", None, None, c1),
     MCInput("sandbox", "routeless", "good", None, None, None)}

SlotSymmetry == Permutations(Slots)
=============================================================================
