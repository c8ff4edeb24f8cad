-------------------------------- MODULE Proxy --------------------------------
(***************************************************************************)
(* Tool calls through the running proxy: the MCP adapter with its request  *)
(* context (app/mcp_server.py), the sandbox route (app/api/debug.py) and   *)
(* ToolRouter.invoke (app/routing/router.py), over a fixed catalog.        *)
(*                                                                         *)
(* All requests run on one event loop.  An action is one turn of it, from  *)
(* one await to the next: an MCP request is first seen by the middleware,  *)
(* which sets the context variables, and later by the call_tool handler;   *)
(* invoke runs to its end unless it awaits the vertical.  The replies of   *)
(* the verticals, and the SDK between middleware and handler, are the      *)
(* environment.                                                            *)
(***************************************************************************)
EXTENDS EventLog

CONSTANTS
    Slots,          \* requests of a behaviour; each slot is used once (bound)
    Inputs,         \* what a request may be
    ToolNames,      \* names for which the registry's get_tool has a tool
    Routes,         \* name -> [vertical, upstream_tool] for get_route
    Clients,        \* names of the configured vertical clients
    ArgumentCheck,  \* <<name, arguments>> -> "valid", "invalid", "schema_error"
    StripLower,     \* a query's vertical -> its text stripped and lower-cased
    Strip           \* the text of a header -> the text stripped

ASSUME InputsAssumption ==
    \A input \in Inputs :
        DOMAIN input = {"surface", "name", "arguments", "vertical",
                        "request_id", "conversation_id"}
        /\ input.surface \in {"mcp", "sandbox"}
ASSUME SlotsAssumption == None \notin Slots \cup Inputs
ASSUME RoutesAssumption ==
    \A n \in DOMAIN Routes :
        Routes[n] # None /\ DOMAIN Routes[n] = {"vertical", "upstream_tool"}

VARIABLES
    serving,    \* FALSE once the server shuts down
    input,      \* slot -> its request, None before it arrives
    pc,         \* slot -> where its task is
    context,    \* task context -> values of the three ContextVars
    frame,      \* slot -> the request metadata passed to invoke
    reply,      \* slot -> what the vertical replied
    answer,     \* slot -> the result sent back
    events,     \* the deque of the observability store
    history,    \* ghost: <<slot, event>> in the order recorded
    upstream    \* ghost: the calls made to verticals, in order

vars == <<serving, input, pc, context, frame, reply, answer, events, history, upstream>>

-----------------------------------------------------------------------------
\* Mutant: one context for all requests.
SharedContext(s) == CHOOSE t \in Slots : TRUE

\* The ContextVars of a request.  The server is stateless, so every request
\* has a task of its own, whose context is a copy of its middleware's.
ContextOf(s) == s

NoContext == [filter |-> None, request_id |-> None, conversation_id |-> None]

\* _extract_vertical_filter: a blank filter is no filter.
ExtractFilter(vertical) ==
    IF vertical = None \/ StripLower[vertical] = Blank THEN None
    ELSE StripLower[vertical]

\* _extract_header: a blank header is no header.
Header(text) ==
    IF text = None \/ Strip[text] = Blank THEN None ELSE Strip[text]

Mcp(s) == input[s].surface = "mcp"

\* The ids a request names: in headers of MCP, in the body of the sandbox.
NamedId(s) == IF Mcp(s) THEN Header(input[s].request_id) ELSE input[s].request_id

ConversationId(s) ==
    IF Mcp(s) THEN Header(input[s].conversation_id) ELSE input[s].conversation_id

\* A request that names no id, or an empty one, gets a fresh uuid, here its slot.
RequestId(s) == IF NamedId(s) \in {None, Blank} THEN s ELSE NamedId(s)

GetRoute(name) == IF name \in DOMAIN Routes THEN Routes[name] ELSE None

Success == [ok |-> TRUE, code |-> None]
Failure(code) == [ok |-> FALSE, code |-> code]

-----------------------------------------------------------------------------
Init == /\ serving = TRUE
        /\ input = [s \in Slots |-> None]
        /\ pc = [s \in Slots |-> "unused"]
        /\ context = [s \in Slots |-> NoContext]
        /\ frame = [s \in Slots |-> None]
        /\ reply = [s \in Slots |-> None]
        /\ answer = [s \in Slots |-> None]
        /\ events = << >>
        /\ history = << >>
        /\ upstream = << >>

\* The server accepts connections until it shuts down.
Arrive(s, request) ==
    /\ serving
    /\ pc[s] = "unused"
    /\ input' = [input EXCEPT ![s] = request]
    /\ pc' = [pc EXCEPT ![s] = "arrived"]
    /\ UNCHANGED <<serving, context, frame, reply, answer, events, history, upstream>>

\* RequestMetadataASGIMiddleware, up to the call of the inner app.
CaptureMetadata(s) ==
    /\ pc[s] = "arrived"
    /\ input[s].surface = "mcp"
    /\ context' = [context EXCEPT ![ContextOf(s)] =
                    [filter |-> ExtractFilter(input[s].vertical),
                     request_id |-> RequestId(s),
                     conversation_id |-> ConversationId(s)]]
    /\ pc' = [pc EXCEPT ![s] = "captured"]
    /\ UNCHANGED <<serving, input, frame, reply, answer, events, history, upstream>>

-----------------------------------------------------------------------------
\* The two handlers that call invoke: call_tool of the MCP server, which
\* reads the context, and debug_sandbox_invoke, which reads the body.
Handled(s) == pc[s] = "captured" \/ (pc[s] = "arrived" /\ ~Mcp(s))

Filter(s) == IF Mcp(s) THEN context[ContextOf(s)].filter ELSE input[s].vertical

Metadata(s) ==
    IF Mcp(s)
    THEN [request_id |-> context[ContextOf(s)].request_id,
          conversation_id |-> context[ContextOf(s)].conversation_id,
          source |-> "mcp"]
    ELSE [request_id |-> RequestId(s),
          conversation_id |-> ConversationId(s),
          source |-> "sandbox"]

Route(s) == GetRoute(input[s].name)

Blocked(s) ==
    Filter(s) # None /\ (Route(s) = None \/ Route(s).vertical # Filter(s))

\* The result goes back; the middleware resets the context on the way out.
Answer(s, result) ==
    /\ answer' = [answer EXCEPT ![s] = result]
    /\ pc' = [pc EXCEPT ![s] = "answered"]
    /\ context' = [context EXCEPT ![ContextOf(s)] = NoContext]

InvocationEvent(s, metadata, route, result) ==
    [request_id |-> metadata.request_id,
     conversation_id |-> metadata.conversation_id,
     source |-> metadata.source,
     public_tool_name |-> input[s].name,
     vertical |-> IF route = None THEN None ELSE route.vertical,
     upstream_tool |-> IF route = None THEN None ELSE route.upstream_tool,
     ok |-> result.ok,
     error_code |-> result.code]

\* Mutant: only successes are recorded.
RecordSuccessAndAnswer(s, metadata, route, result) ==
    LET event == InvocationEvent(s, metadata, route, result) IN
    /\ events' = IF result.ok THEN Recorded(events, event) ELSE events
    /\ history' = IF result.ok THEN Append(history, <<s, event>>) ELSE history
    /\ Answer(s, result)

\* _record_invocation and return: no await between the two.
RecordAndAnswer(s, metadata, route, result) ==
    LET event == InvocationEvent(s, metadata, route, result) IN
    /\ events' = Recorded(events, event)
    /\ history' = Append(history, <<s, event>>)
    /\ Answer(s, result)

\* A tool of another vertical is not found behind a vertical filter; the
\* router is not asked.
AnswerBlocked(s) ==
    /\ Handled(s) /\ Blocked(s)
    /\ Answer(s, Failure("TOOL_NOT_FOUND"))
    /\ UNCHANGED <<serving, input, frame, reply, events, history, upstream>>

Invoked(s) == Handled(s) /\ ~Blocked(s)

HasTool(s) == input[s].name \in ToolNames

Check(s) == ArgumentCheck[<<input[s].name, input[s].arguments>>]

Rejected(s, route, code) ==
    /\ RecordAndAnswer(s, Metadata(s), route, Failure(code))
    /\ UNCHANGED <<serving, input, frame, reply, upstream>>

InvokeUnknownTool(s) ==
    /\ Invoked(s) /\ ~HasTool(s)
    /\ Rejected(s, None, "TOOL_NOT_FOUND")

InvokeRouteMissing(s) ==
    /\ Invoked(s) /\ HasTool(s) /\ Route(s) = None
    /\ Rejected(s, None, "UPSTREAM_ERROR")

InvokeInvalidArguments(s) ==
    /\ Invoked(s) /\ HasTool(s) /\ Route(s) # None
    /\ Check(s) = "invalid"
    /\ Rejected(s, Route(s), "INVALID_ARGUMENTS")

\* jsonschema raises something other than ValidationError, for a schema the
\* draft it names rejects: it leaves invoke, unrecorded, and the SDK (or
\* FastAPI) makes an error of it.
SchemaErrorEscapes(s) ==
    /\ Invoked(s) /\ HasTool(s) /\ Route(s) # None
    /\ Check(s) = "schema_error"
    /\ Answer(s, Failure("EXCEPTION"))
    /\ UNCHANGED <<serving, input, frame, reply, events, history, upstream>>

\* Mutants: the arguments are not validated, or one call is made at a time.
CallableUnchecked(s) == Invoked(s) /\ HasTool(s) /\ Route(s) # None
CallableSerially(s) ==
    /\ Invoked(s) /\ HasTool(s) /\ Route(s) # None
    /\ Check(s) = "valid"
    /\ \A t \in Slots : pc[t] # "awaiting"

Callable(s) ==
    /\ Invoked(s) /\ HasTool(s) /\ Route(s) # None
    /\ Check(s) = "valid"

InvokeVerticalUnavailable(s) ==
    /\ Callable(s) /\ Route(s).vertical \notin Clients
    /\ Rejected(s, Route(s), "VERTICAL_UNAVAILABLE")

\* await vertical_client.call_tool(...): there is no timeout around it.
CallVertical(s) ==
    /\ Callable(s) /\ Route(s).vertical \in Clients
    /\ upstream' = Append(upstream,
          [slot |-> s, vertical |-> Route(s).vertical,
           upstream_tool |-> Route(s).upstream_tool,
           arguments |-> input[s].arguments])
    /\ frame' = [frame EXCEPT ![s] = Metadata(s)]
    /\ pc' = [pc EXCEPT ![s] = "awaiting"]
    /\ UNCHANGED <<serving, input, context, reply, answer, events, history>>

-----------------------------------------------------------------------------
Replies == {"structured", "unserializable", "unstructured", "is_error",
            "timeout", "raises"}

\* The environment: the await of the call is over.
VerticalReplies(s, r) ==
    /\ pc[s] = "awaiting"
    /\ reply' = [reply EXCEPT ![s] = r]
    /\ pc' = [pc EXCEPT ![s] = "replied"]
    /\ UNCHANGED <<serving, input, context, frame, answer, events, history, upstream>>

\* _extract_mcp_response, the except clauses and _is_normalizable_response.
ResultOf(r) ==
    CASE r = "timeout" -> Failure("UPSTREAM_TIMEOUT")
      [] r \in {"is_error", "raises"} -> Failure("UPSTREAM_ERROR")
      [] r \in {"unstructured", "unserializable"} ->
            Failure("MALFORMED_UPSTREAM_RESPONSE")
      [] OTHER -> Success

\* Mutant: a call that timed out is made again.
ResumeOrRetry(s) ==
    /\ pc[s] = "replied"
    /\ IF reply[s] = "timeout"
       THEN /\ upstream' = Append(upstream, 
                  upstream[CHOOSE i \in 1..Len(upstream) : upstream[i].slot = s])
            /\ pc' = [pc EXCEPT ![s] = "awaiting"]
            /\ UNCHANGED <<context, answer, events, history>>
       ELSE /\ RecordAndAnswer(s, frame[s], Route(s), ResultOf(reply[s]))
            /\ UNCHANGED upstream
    /\ UNCHANGED <<serving, input, frame, reply>>

Resume(s) ==
    /\ pc[s] = "replied"
    /\ RecordAndAnswer(s, frame[s], Route(s), ResultOf(reply[s]))
    /\ UNCHANGED <<serving, input, frame, reply, upstream>>

-----------------------------------------------------------------------------
Shutdown ==
    /\ serving
    /\ serving' = FALSE
    /\ UNCHANGED <<input, pc, context, frame, reply, answer, events, history, upstream>>

\* Mutant: the cancelled call is recorded as a failure.
CancelRecorded(s) ==
    /\ ~serving
    /\ pc[s] \in {"arrived", "captured", "awaiting", "replied"}
    /\ pc' = [pc EXCEPT ![s] = "cancelled"]
    /\ context' = [context EXCEPT ![ContextOf(s)] = NoContext]
    /\ LET event == InvocationEvent(s, Metadata(s), Route(s), Failure("UPSTREAM_ERROR")) IN
         /\ events' = Recorded(events, event)
         /\ history' = Append(history, <<s, event>>)
    /\ UNCHANGED <<serving, input, frame, reply, answer, upstream>>

\* At shutdown a task may be cancelled at the await it is suspended in:
\* CancelledError passes every except clause, so nothing is recorded.
Cancel(s) ==
    /\ ~serving
    /\ pc[s] \in {"arrived", "captured", "awaiting", "replied"}
    /\ pc' = [pc EXCEPT ![s] = "cancelled"]
    /\ context' = [context EXCEPT ![ContextOf(s)] = NoContext]
    /\ UNCHANGED <<serving, input, frame, reply, answer, events, history, upstream>>

\* The turns of the event loop for one request.
Turn(s) ==
    \/ CaptureMetadata(s) \/ AnswerBlocked(s)
    \/ InvokeUnknownTool(s) \/ InvokeRouteMissing(s)
    \/ InvokeInvalidArguments(s) \/ SchemaErrorEscapes(s)
    \/ InvokeVerticalUnavailable(s) \/ CallVertical(s) \/ Resume(s)

Next == \/ \E s \in Slots, request \in Inputs : Arrive(s, request)
        \/ \E s \in Slots : Turn(s)
        \/ \E s \in Slots, r \in Replies : VerticalReplies(s, r)
        \/ \E s \in Slots : Cancel(s)
        \/ Shutdown

Spec == Init /\ [][Next]_vars

\* The event loop runs every task that is ready; verticals owe it nothing.
FairSpec == Spec /\ \A s \in Slots : WF_vars(Turn(s))

-----------------------------------------------------------------------------
(* Properties                                                              *)

ErrorCodes == {"TOOL_NOT_FOUND", "UPSTREAM_ERROR", "INVALID_ARGUMENTS",
               "VERTICAL_UNAVAILABLE", "UPSTREAM_TIMEOUT",
               "MALFORMED_UPSTREAM_RESPONSE", "EXCEPTION"}

Results == {Success} \cup {Failure(code) : code \in ErrorCodes}

Stages == {"unused", "arrived", "captured", "awaiting", "replied",
           "answered", "cancelled"}

RequestIds == {i.request_id : i \in Inputs} \cup {Header(i.request_id) : i \in Inputs}
              \cup Slots \cup {None}
ConversationIds == {i.conversation_id : i \in Inputs}
                   \cup {Header(i.conversation_id) : i \in Inputs} \cup {None}
Filters == {ExtractFilter(i.vertical) : i \in Inputs} \cup {None}
RoutedVerticals == {Routes[n].vertical : n \in DOMAIN Routes}
RoutedTools == {Routes[n].upstream_tool : n \in DOMAIN Routes}

Contexts == [filter : Filters, request_id : RequestIds,
             conversation_id : ConversationIds]
Frames == [request_id : RequestIds, conversation_id : ConversationIds,
           source : {"mcp", "sandbox"}]
EventRecords == [request_id : RequestIds, conversation_id : ConversationIds,
                 source : {"mcp", "sandbox"},
                 public_tool_name : {i.name : i \in Inputs},
                 vertical : RoutedVerticals \cup {None},
                 upstream_tool : RoutedTools \cup {None},
                 ok : BOOLEAN, error_code : ErrorCodes \cup {None}]
Calls == [slot : Slots, vertical : RoutedVerticals, upstream_tool : RoutedTools,
          arguments : {i.arguments : i \in Inputs}]

ASSUME NoneAssumption == None \notin Frames \cup Results \cup Replies \cup ErrorCodes

\* The type of every variable, the bound of the event deque, and which of a
\* request's data exist at which stage of it.
TypeOK ==
    /\ serving \in BOOLEAN
    /\ input \in [Slots -> Inputs \cup {None}]
    /\ pc \in [Slots -> Stages]
    /\ context \in [Slots -> Contexts]
    /\ frame \in [Slots -> Frames \cup {None}]
    /\ reply \in [Slots -> Replies \cup {None}]
    /\ answer \in [Slots -> Results \cup {None}]
    /\ events \in Seq(EventRecords) /\ Len(events) <= MaxEvents
    /\ history \in Seq(Slots \X EventRecords)
    /\ upstream \in Seq(Calls)
    /\ \A s \in Slots :
          /\ input[s] = None <=> pc[s] = "unused"
          /\ answer[s] # None <=> pc[s] = "answered"
          /\ pc[s] = "captured" => input[s].surface = "mcp"
          /\ pc[s] \in {"awaiting", "replied"} => frame[s] # None
          /\ pc[s] = "replied" => reply[s] # None

\* The filter a request asks for, read off the request itself.
RequestedFilter(s) ==
    IF Mcp(s) THEN ExtractFilter(input[s].vertical) ELSE input[s].vertical

\* Vertical isolation: a request with a vertical filter never makes a call
\* to another vertical, whatever requests with other filters are in flight.
FilterIsolation ==
    \A i \in 1..Len(upstream) :
        LET s == upstream[i].slot IN
        RequestedFilter(s) # None => upstream[i].vertical = RequestedFilter(s)

\* Only curated calls leave the proxy: each is to the vertical and the tool
\* of the route of the public name asked for, of a configured client, with
\* the arguments of that very request, which its schema accepts.
OnlyCuratedCalls ==
    \A i \in 1..Len(upstream) :
        LET s == upstream[i].slot IN
        /\ input[s].name \in ToolNames \cap DOMAIN Routes
        /\ upstream[i].vertical = Routes[input[s].name].vertical
        /\ upstream[i].upstream_tool = Routes[input[s].name].upstream_tool
        /\ upstream[i].vertical \in Clients
        /\ upstream[i].arguments = input[s].arguments
        /\ Check(s) = "valid"

CallsOf(s) == {i \in 1..Len(upstream) : upstream[i].slot = s}

\* No request calls a vertical twice, and its answer tells whether it did: a
\* rejection by the proxy was never sent on, and a success, a timeout or a
\* malformed response always comes of exactly one call.
AnswerTellsOfTheCall ==
    \A s \in Slots :
        /\ Cardinality(CallsOf(s)) <= 1
        /\ answer[s] # None =>
            /\ answer[s].code \in {"TOOL_NOT_FOUND", "INVALID_ARGUMENTS",
                    "VERTICAL_UNAVAILABLE", "EXCEPTION"} => CallsOf(s) = {}
            /\ answer[s] = Success \/ answer[s].code \in {"UPSTREAM_TIMEOUT",
                    "MALFORMED_UPSTREAM_RESPONSE"} => CallsOf(s) # {}

RecordsOf(s) == {i \in 1..Len(history) : history[i][1] = s}

\* A request the router answered has left exactly one event, by the time it
\* is answered; one that was blocked, that escaped as an exception, was
\* cancelled or is still under way has left none.
RecordedOnceWhenAnswered ==
    \A s \in Slots :
        Cardinality(RecordsOf(s)) =
            IF /\ pc[s] = "answered"
               /\ answer[s].code # "EXCEPTION"
               /\ \/ RequestedFilter(s) = None
                  \/ Route(s) # None /\ Route(s).vertical = RequestedFilter(s)
            THEN 1 ELSE 0

\* An event says of its request what that request's client knows: the
\* outcome it was sent, under the tool name, request id, conversation and
\* surface it used, although other requests ran while it awaited its
\* vertical and set their own context.
EventTellsOfItsRequest ==
    \A i \in 1..Len(history) :
        LET s == history[i][1]
            event == history[i][2]
        IN /\ event.ok = answer[s].ok /\ event.error_code = answer[s].code
           /\ event.public_tool_name = input[s].name
           /\ event.request_id = RequestId(s)
           /\ event.conversation_id = ConversationId(s)
           /\ event.source = input[s].surface
           /\ CallsOf(s) # {} => event.vertical = upstream[CHOOSE k \in CallsOf(s) : TRUE].vertical

\* Only a vertical can keep a client waiting: every request gets answered,
\* cancelled or to the await of its vertical, and once that has replied it
\* is answered or cancelled, however many other requests hang.
OnlyVerticalsDelay ==
    \A s \in Slots :
        /\ pc[s] = "arrived" ~> pc[s] \in {"awaiting", "answered", "cancelled"}
        /\ pc[s] = "replied" ~> pc[s] \in {"answered", "cancelled"}

\* docs/review-runbook.md:133: "successful and failed calls are counted".
\* Every call answered with a safe error code has an event.
FailedCallsAreCounted ==
    \A s \in Slots :
        pc[s] = "answered" /\ answer[s].code \in ErrorCodes \ {"EXCEPTION"}
            => RecordsOf(s) # {}

-----------------------------------------------------------------------------
(* The proxy implements ToolCall.                                          *)

\* The filter a request asks for, read off the request itself.
FilterAsked(request) ==
    IF request.surface = "mcp" THEN ExtractFilter(request.vertical) ELSE request.vertical

FilteredOut(request) ==
    /\ FilterAsked(request) # None
    /\ \/ request.name \notin DOMAIN Routes
       \/ Routes[request.name].vertical # FilterAsked(request)

\* The call a request may be sent on as: that of its tool's route, if its
\* filter lets it through, its arguments are valid and the vertical is there.
PermittedCalls(request) ==
    IF /\ request.name \in ToolNames \cap DOMAIN Routes
       /\ ~FilteredOut(request)
       /\ Routes[request.name].vertical \in Clients
       /\ ArgumentCheck[<<request.name, request.arguments>>] = "valid"
    THEN {[vertical |-> Routes[request.name].vertical,
           upstream_tool |-> Routes[request.name].upstream_tool,
           arguments |-> request.arguments]}
    ELSE {}

\* What a client may be told without a call: why there was none.
RefusalsOf(request) ==
    IF PermittedCalls(request) # {} THEN {}
    ELSE {Failure(code) : code \in
            IF FilteredOut(request) \/ request.name \notin ToolNames THEN {"TOOL_NOT_FOUND"}
            ELSE IF request.name \notin DOMAIN Routes THEN {"UPSTREAM_ERROR"}
            ELSE CASE ArgumentCheck[<<request.name, request.arguments>>] = "invalid" ->
                         {"INVALID_ARGUMENTS"}
                   [] ArgumentCheck[<<request.name, request.arguments>>] = "schema_error" ->
                         {"EXCEPTION"}
                   [] OTHER -> {"VERTICAL_UNAVAILABLE"}}

\* What the router answered is recorded.
CountedResult(request, result) ==
    ~FilteredOut(request) /\ result.code # "EXCEPTION"

\* The calls made for a request, and the outcomes recorded for it, in order.
CallsMade(calls, s) ==
    LET own == {i \in 1..Len(calls) : calls[i].slot = s} IN
    [k \in 1..Cardinality(own) |->
        LET call == calls[Nth(own, k)] IN
        [vertical |-> call.vertical, upstream_tool |-> call.upstream_tool,
         arguments |-> call.arguments]]

OutcomesRecorded(records, s) ==
    LET own == {i \in 1..Len(records) : records[i][1] = s} IN
    [k \in 1..Cardinality(own) |->
        LET event == records[Nth(own, k)][2] IN
        [ok |-> event.ok, code |-> event.error_code]]

Promise == INSTANCE ToolCall WITH
    Asks      <- Inputs,
    Permitted <- PermittedCalls,
    Refusals  <- RefusalsOf,
    Outcomes  <- {ResultOf(r) : r \in Replies},
    Countable <- CountedResult,
    asked     <- input,
    sent      <- [s \in Slots |-> CallsMade(upstream, s)],
    told      <- answer,
    recorded  <- [s \in Slots |-> OutcomesRecorded(history, s)],
    dropped   <- {s \in Slots : pc[s] = "cancelled"}

\* Each request goes the way ToolCall says, whatever else is in flight: it is
\* sent at most once, before it is answered and only as the call its route and
\* its filter permit, it is refused only for the reason there is, and answer
\* and record come together or not at all.
ImplementsToolCall == Promise!Spec
=============================================================================
