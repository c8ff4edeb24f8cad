----------------------------- MODULE ProxyProofs -----------------------------
(***************************************************************************)
(* What Proxy guarantees for any number of concurrent requests, any        *)
(* catalog and any capacity of the event deque.                            *)
(***************************************************************************)
EXTENDS Proxy, DataProofs

\* A request that has arrived has one of the inputs.
LEMMA ArrivedInput ==
    ASSUME TypeOK, NEW s \in Slots, pc[s] # "unused"
    PROVE  /\ input[s] \in Inputs
           /\ input[s].surface \in {"mcp", "sandbox"}
BY InputsAssumption DEF TypeOK

\* The request id, of the request or fresh, is an id, and so is its conversation.
LEMMA RequestIdType ==
    ASSUME NEW s \in Slots, input[s] \in Inputs
    PROVE  RequestId(s) \in RequestIds /\ ConversationId(s) \in ConversationIds
BY DEF RequestId, NamedId, ConversationId, RequestIds, ConversationIds

\* The filter of any input is a filter.
LEMMA ExtractFilterType ==
    ASSUME NEW i \in Inputs
    PROVE  ExtractFilter(i.vertical) \in Filters
BY DEF Filters

\* The metadata passed to invoke is a frame.
LEMMA MetadataType ==
    ASSUME TypeOK, NEW s \in Slots, pc[s] # "unused"
    PROVE  Metadata(s) \in Frames
<1>1. input[s] \in Inputs
  BY ArrivedInput
<1>2. RequestId(s) \in RequestIds
  BY <1>1, RequestIdType
<1>3. ConversationId(s) \in ConversationIds
  BY <1>1, RequestIdType
<1>4. context[ContextOf(s)] \in Contexts
  BY DEF TypeOK, ContextOf
<1>5. /\ context[ContextOf(s)].request_id \in RequestIds
      /\ context[ContextOf(s)].conversation_id \in ConversationIds
  BY <1>4 DEF Contexts
<1>. QED  BY <1>2, <1>3, <1>5 DEF Metadata, Frames

\* A route of the registry names a routed vertical and tool.
LEMMA RouteType ==
    ASSUME NEW s \in Slots, Route(s) # None
    PROVE  /\ input[s].name \in DOMAIN Routes
           /\ Route(s) = Routes[input[s].name]
           /\ Route(s).vertical \in RoutedVerticals
           /\ Route(s).upstream_tool \in RoutedTools
BY DEF Route, GetRoute, RoutedVerticals, RoutedTools

\* The event made of a call's metadata, route and result.
LEMMA EventType ==
    ASSUME NEW s \in Slots, input[s] \in Inputs, NEW metadata \in Frames,
           NEW route \in {None, Route(s)}, NEW result \in Results
    PROVE  InvocationEvent(s, metadata, route, result) \in EventRecords
<1>1. /\ metadata.request_id \in RequestIds
      /\ metadata.conversation_id \in ConversationIds
      /\ metadata.source \in {"mcp", "sandbox"}
  BY DEF Frames
<1>2. /\ (IF route = None THEN None ELSE route.vertical) \in RoutedVerticals \cup {None}
      /\ (IF route = None THEN None ELSE route.upstream_tool) \in RoutedTools \cup {None}
  BY RouteType
<1>3. result.ok \in BOOLEAN /\ result.code \in ErrorCodes \cup {None}
  <2>1. CASE result = Success
    BY <2>1 DEF Success
  <2>2. ASSUME NEW code \in ErrorCodes, result = Failure(code)
        PROVE  result.ok \in BOOLEAN /\ result.code \in ErrorCodes
    BY <2>2 DEF Failure
  <2>. QED  BY <2>1, <2>2 DEF Results
<1>4. input[s].name \in {i.name : i \in Inputs}
  OBVIOUS
<1>. QED  BY <1>1, <1>2, <1>3, <1>4 DEF InvocationEvent, EventRecords

-----------------------------------------------------------------------------
\* The part of the type invariant that ties a request's data to its stage.
Stage(s) ==
    /\ input[s] = None <=> pc[s] = "unused"
    /\ answer[s] # None <=> pc[s] = "answered"
    /\ pc[s] = "captured" => input[s].surface = "mcp"
    /\ pc[s] \in {"awaiting", "replied"} => frame[s] # None
    /\ pc[s] = "replied" => reply[s] # None

\* Answering is well typed.
LEMMA AnswerType ==
    ASSUME TypeOK, NEW s \in Slots, NEW result \in Results, pc[s] # "unused",
           Answer(s, result), UNCHANGED <<input, frame, reply>>
    PROVE  /\ pc' \in [Slots -> Stages]
           /\ context' \in [Slots -> Contexts]
           /\ answer' \in [Slots -> Results \cup {None}]
           /\ \A t \in Slots : Stage(t)'
<1>1. NoContext \in Contexts
  BY DEF NoContext, Contexts, Filters, RequestIds, ConversationIds
<1>2. pc' \in [Slots -> Stages] /\ context' \in [Slots -> Contexts]
  BY <1>1 DEF Answer, TypeOK, Stages, ContextOf
<1>3. answer' \in [Slots -> Results \cup {None}]
  BY DEF Answer, TypeOK
<1>4. ASSUME NEW t \in Slots  PROVE Stage(t)'
  <2>1. CASE t = s
    <3>1. pc'[t] = "answered" /\ answer'[t] = result /\ result # None
      BY <2>1, NoneAssumption DEF Answer, TypeOK
    <3>. QED  BY <3>1, <2>1 DEF Stage, TypeOK
  <2>2. CASE t # s
    <3>1. pc'[t] = pc[t] /\ answer'[t] = answer[t]
      BY <2>2 DEF Answer, TypeOK
    <3>. QED  BY <3>1 DEF Stage, TypeOK
  <2>. QED  BY <2>1, <2>2
<1>. QED  BY <1>2, <1>3, <1>4

\* Recording and answering is well typed.
LEMMA RecordAndAnswerType ==
    ASSUME TypeOK, NEW s \in Slots, NEW metadata \in Frames,
           NEW route \in {None, Route(s)}, NEW result \in Results, pc[s] # "unused",
           RecordAndAnswer(s, metadata, route, result),
           UNCHANGED <<serving, input, frame, reply, upstream>>
    PROVE  TypeOK'
<1>1. input[s] \in Inputs
  BY ArrivedInput
<1>2. InvocationEvent(s, metadata, route, result) \in EventRecords
  BY <1>1, EventType
<1>3. events' \in Seq(EventRecords) /\ Len(events') <= MaxEvents
  BY <1>2, BoundedAppend, MaxEventsAssumption DEF Recorded, Pushed, RecordAndAnswer, TypeOK
<1>4. history' \in Seq(Slots \X EventRecords)
  BY <1>2 DEF RecordAndAnswer, TypeOK
<1>5. /\ pc' \in [Slots -> Stages]
      /\ context' \in [Slots -> Contexts]
      /\ answer' \in [Slots -> Results \cup {None}]
      /\ \A t \in Slots : Stage(t)'
  BY AnswerType DEF RecordAndAnswer
<1>. QED  BY <1>3, <1>4, <1>5 DEF TypeOK, Stage

\* A failure with one of the codes is a result.
LEMMA FailureType == \A code \in ErrorCodes : Failure(code) \in Results
BY DEF Results

-----------------------------------------------------------------------------
\* The initial values have their types.
LEMMA TypeInit == Init => TypeOK
<1>. SUFFICES ASSUME Init PROVE TypeOK
  OBVIOUS
<1>1. NoContext \in Contexts
  BY DEF NoContext, Contexts, Filters, RequestIds, ConversationIds
<1>2. Len(<< >>) <= MaxEvents
  BY MaxEventsAssumption
<1>. QED  BY <1>1, <1>2 DEF Init, TypeOK, Stages

\* Every step of the proxy and its environment keeps the types.
LEMMA TypeStep == TypeOK /\ [Next]_vars => TypeOK'
<1>. SUFFICES ASSUME TypeOK, [Next]_vars PROVE TypeOK'
  OBVIOUS
<1>1. ASSUME NEW s \in Slots, NEW request \in Inputs, Arrive(s, request)
      PROVE  TypeOK'
  BY <1>1, SlotsAssumption DEF Arrive, TypeOK, Stages
<1>2. ASSUME NEW s \in Slots, CaptureMetadata(s)  PROVE TypeOK'
  <2>1. input[s] \in Inputs
    BY <1>2, ArrivedInput DEF CaptureMetadata
  <2>2. [filter |-> ExtractFilter(input[s].vertical), request_id |-> RequestId(s),
         conversation_id |-> ConversationId(s)] \in Contexts
    BY <2>1, ExtractFilterType, RequestIdType DEF Contexts
  <2>3. context' \in [Slots -> Contexts]
    BY <1>2, <2>2 DEF CaptureMetadata, TypeOK, ContextOf
  <2>. QED  BY <1>2, <2>3 DEF CaptureMetadata, TypeOK, Stages
<1>3. ASSUME NEW s \in Slots, AnswerBlocked(s)  PROVE TypeOK'
  <2>1. Failure("TOOL_NOT_FOUND") \in Results /\ pc[s] # "unused"
    BY <1>3, FailureType DEF AnswerBlocked, Handled, ErrorCodes
  <2>. QED  BY <1>3, <2>1, AnswerType DEF AnswerBlocked, TypeOK, Stage
<1>4. ASSUME NEW s \in Slots, SchemaErrorEscapes(s)  PROVE TypeOK'
  <2>1. Failure("EXCEPTION") \in Results /\ pc[s] # "unused"
    BY <1>4, FailureType DEF SchemaErrorEscapes, Invoked, Handled, ErrorCodes
  <2>. QED  BY <1>4, <2>1, AnswerType DEF SchemaErrorEscapes, TypeOK, Stage
<1>5. ASSUME NEW s \in Slots, NEW route \in {None, Route(s)}, NEW code \in ErrorCodes,
             Invoked(s), Rejected(s, route, code)
      PROVE  TypeOK'
  <2>1. pc[s] # "unused"
    BY <1>5 DEF Invoked, Handled
  <2>. QED
    BY <1>5, <2>1, FailureType, MetadataType, RecordAndAnswerType DEF Rejected
<1>6. ASSUME NEW s \in Slots, CallVertical(s)  PROVE TypeOK'
  <2>1. pc[s] # "unused" /\ pc[s] # "answered"
    BY <1>6 DEF CallVertical, Callable, Invoked, Handled
  <2>2. input[s] \in Inputs /\ Metadata(s) \in Frames
    BY <2>1, ArrivedInput, MetadataType
  <2>3. Route(s) # None
    BY <1>6 DEF CallVertical, Callable
  <2>4. upstream' \in Seq(Calls)
    BY <1>6, <2>2, <2>3, RouteType DEF CallVertical, Calls, TypeOK
  <2>5. frame' \in [Slots -> Frames \cup {None}] /\ frame'[s] # None
    BY <1>6, <2>2, NoneAssumption DEF CallVertical, TypeOK
  <2>6. \A t \in Slots : t # s => frame'[t] = frame[t] /\ pc'[t] = pc[t]
    BY <1>6 DEF CallVertical, TypeOK
  <2>7. pc' \in [Slots -> Stages] /\ pc'[s] = "awaiting"
    BY <1>6 DEF CallVertical, TypeOK, Stages
  <2>. QED  BY <1>6, <2>1, <2>4, <2>5, <2>6, <2>7 DEF CallVertical, TypeOK
<1>7. ASSUME NEW s \in Slots, Resume(s)  PROVE TypeOK'
  <2>1. frame[s] \in Frames /\ reply[s] \in Replies /\ pc[s] # "unused"
    BY <1>7 DEF Resume, TypeOK
  <2>2. ResultOf(reply[s]) \in Results
    BY <2>1 DEF ResultOf, Replies, Results, ErrorCodes
  <2>. QED  BY <1>7, <2>1, <2>2, RecordAndAnswerType DEF Resume
<1>8. ASSUME NEW s \in Slots, NEW r \in Replies, VerticalReplies(s, r)
      PROVE  TypeOK'
  BY <1>8, NoneAssumption DEF VerticalReplies, TypeOK, Stages
<1>9. ASSUME NEW s \in Slots, Cancel(s)  PROVE TypeOK'
  <2>1. NoContext \in Contexts
    BY DEF NoContext, Contexts, Filters, RequestIds, ConversationIds
  <2>2. context' \in [Slots -> Contexts]
    BY <1>9, <2>1 DEF Cancel, TypeOK, ContextOf
  <2>. QED  BY <1>9, <2>2 DEF Cancel, TypeOK, Stages
<1>10. CASE Shutdown
  BY <1>10 DEF Shutdown, TypeOK
<1>11. ASSUME NEW s \in Slots, Turn(s)  PROVE TypeOK'
  BY <1>11, <1>2, <1>3, <1>4, <1>5, <1>6, <1>7
  DEF Turn, InvokeUnknownTool, InvokeRouteMissing, InvokeInvalidArguments,
      InvokeVerticalUnavailable, Callable, ErrorCodes
<1>12. CASE UNCHANGED vars
  BY <1>12 DEF vars, TypeOK
<1>. QED  BY <1>1, <1>8, <1>9, <1>10, <1>11, <1>12 DEF Next

\* Every variable keeps its type, and the event deque its bound, whatever
\* the requests in flight, the catalog and the replies of the verticals.
THEOREM TypeCorrect == Spec => []TypeOK
BY TypeInit, TypeStep, PTL DEF Spec

-----------------------------------------------------------------------------
(* The inductive invariant behind the safety properties: what a request's  *)
(* context and frame hold is its own, and what has been called and         *)
(* recorded for it is determined by its stage.                             *)

OwnFrame(s) ==
    [request_id |-> RequestId(s), conversation_id |-> ConversationId(s),
     source |-> input[s].surface]

OwnContext(s) ==
    [filter |-> ExtractFilter(input[s].vertical), request_id |-> RequestId(s),
     conversation_id |-> ConversationId(s)]

PassesFilter(s) ==
    \/ RequestedFilter(s) = None
    \/ Route(s) # None /\ Route(s).vertical = RequestedFilter(s)

OwnMetadata ==
    \A s \in Slots :
        /\ pc[s] = "captured" => context[s] = OwnContext(s)
        /\ pc[s] \in {"awaiting", "replied"} => frame[s] = OwnFrame(s)

MayCall(s) ==
    /\ PassesFilter(s)
    /\ input[s].name \in ToolNames \cap DOMAIN Routes
    /\ Route(s).vertical \in Clients
    /\ Check(s) = "valid"

Called(s) == \E i \in 1..Len(upstream) : upstream[i].slot = s

IsCallOf(call, s) ==
    /\ call.vertical = Route(s).vertical
    /\ call.upstream_tool = Route(s).upstream_tool
    /\ call.arguments = input[s].arguments

CallsAreOwn ==
    \A i \in 1..Len(upstream) :
        LET s == upstream[i].slot IN MayCall(s) /\ IsCallOf(upstream[i], s)

CallsAreSingle ==
    \A i, j \in 1..Len(upstream) : upstream[i].slot = upstream[j].slot => i = j

Uncalled == {"TOOL_NOT_FOUND", "INVALID_ARGUMENTS", "VERTICAL_UNAVAILABLE", "EXCEPTION"}
CalledOnly == {"UPSTREAM_TIMEOUT", "MALFORMED_UPSTREAM_RESPONSE"}

AnswerFitsCall(s) ==
    /\ answer[s].code \in Uncalled => ~Called(s)
    /\ answer[s] = Success \/ answer[s].code \in CalledOnly => Called(s)

CallsFitStage ==
    \A s \in Slots :
        /\ pc[s] \in {"unused", "arrived", "captured"} => ~Called(s)
        /\ pc[s] \in {"awaiting", "replied"} => Called(s)
        /\ pc[s] = "answered" => AnswerFitsCall(s)

HasRecord(s) == \E i \in 1..Len(history) : history[i][1] = s

IsEventOf(event, s) ==
    /\ event.ok = answer[s].ok
    /\ event.error_code = answer[s].code
    /\ event.public_tool_name = input[s].name
    /\ event.request_id = RequestId(s)
    /\ event.conversation_id = ConversationId(s)
    /\ event.source = input[s].surface
    /\ Called(s) => event.vertical = Route(s).vertical

RecordsAreOwn ==
    \A i \in 1..Len(history) : IsEventOf(history[i][2], history[i][1])

RecordsAreSingle ==
    \A i, j \in 1..Len(history) : history[i][1] = history[j][1] => i = j

RecordsFitStage ==
    \A s \in Slots :
        HasRecord(s) <=> /\ pc[s] = "answered"
                         /\ answer[s].code # "EXCEPTION"
                         /\ PassesFilter(s)

IInv == /\ TypeOK /\ OwnMetadata
        /\ CallsAreOwn /\ CallsAreSingle /\ CallsFitStage
        /\ RecordsAreOwn /\ RecordsAreSingle /\ RecordsFitStage

-----------------------------------------------------------------------------
\* What is said of a request's input stays so while the input does.
LEMMA Stable ==
    ASSUME NEW s \in Slots, input'[s] = input[s]
    PROVE  /\ RequestedFilter(s)' = RequestedFilter(s)
           /\ Route(s)' = Route(s)
           /\ Check(s)' = Check(s)
           /\ RequestId(s)' = RequestId(s)
           /\ ConversationId(s)' = ConversationId(s)
           /\ OwnFrame(s)' = OwnFrame(s)
           /\ OwnContext(s)' = OwnContext(s)
           /\ PassesFilter(s)' <=> PassesFilter(s)
           /\ MayCall(s)' <=> MayCall(s)
           /\ \A call : IsCallOf(call, s)' <=> IsCallOf(call, s)
<1>1. RequestedFilter(s)' = RequestedFilter(s)
  BY DEF RequestedFilter, Mcp, ExtractFilter
<1>2. Route(s)' = Route(s)
  BY DEF Route, GetRoute
<1>3. Check(s)' = Check(s)
  BY DEF Check
<1>4. RequestId(s)' = RequestId(s) /\ ConversationId(s)' = ConversationId(s)
  BY DEF RequestId, NamedId, ConversationId, Header, Mcp
<1>5. OwnFrame(s)' = OwnFrame(s)
  BY <1>4 DEF OwnFrame
<1>6. OwnContext(s)' = OwnContext(s)
  BY <1>4 DEF OwnContext, ExtractFilter
<1>7. PassesFilter(s)' <=> PassesFilter(s)
  BY <1>1, <1>2 DEF PassesFilter
<1>8. MayCall(s)' <=> MayCall(s)
  BY <1>2, <1>3, <1>7 DEF MayCall
<1>9. \A call : IsCallOf(call, s)' <=> IsCallOf(call, s)
  BY <1>2 DEF IsCallOf
<1>. QED  BY <1>1, <1>2, <1>3, <1>4, <1>5, <1>6, <1>7, <1>8, <1>9

\* The slot of a call and of a record is one of the slots.
LEMMA SlotTypes ==
    ASSUME TypeOK
    PROVE  /\ \A i \in 1..Len(upstream) : upstream[i].slot \in Slots
           /\ \A i \in 1..Len(history) : history[i][1] \in Slots
<1>1. \A i \in 1..Len(upstream) : upstream[i] \in Calls
  BY DEF TypeOK
<1>2. \A i \in 1..Len(history) : history[i] \in Slots \X EventRecords
  BY DEF TypeOK
<1>. QED  BY <1>1, <1>2 DEF Calls

\* While a request is under way or about to start, its handler sees the
\* request's own metadata and filter.
LEMMA HandlerSeesOwn ==
    ASSUME TypeOK, OwnMetadata, NEW s \in Slots, Handled(s)
    PROVE  /\ Metadata(s) = OwnFrame(s)
           /\ Filter(s) = RequestedFilter(s)
           /\ Blocked(s) <=> ~PassesFilter(s)
           /\ pc[s] \in {"arrived", "captured"}
<1>1. pc[s] \in {"arrived", "captured"} /\ input[s].surface \in {"mcp", "sandbox"}
  BY ArrivedInput DEF Handled
<1>2. CASE pc[s] = "captured"
  <2>1. Mcp(s) /\ context[ContextOf(s)] = OwnContext(s)
    BY <1>2 DEF TypeOK, OwnMetadata, Mcp, ContextOf
  <2>2. Metadata(s) = OwnFrame(s)
    BY <2>1 DEF Metadata, OwnFrame, OwnContext, Mcp
  <2>3. Filter(s) = RequestedFilter(s)
    BY <2>1 DEF Filter, RequestedFilter, OwnContext
  <2>. QED  BY <1>1, <2>2, <2>3 DEF Blocked, PassesFilter
<1>3. CASE pc[s] = "arrived"
  <2>1. ~Mcp(s)
    BY <1>3 DEF Handled
  <2>2. Metadata(s) = OwnFrame(s)
    BY <1>1, <2>1 DEF Metadata, OwnFrame, Mcp
  <2>3. Filter(s) = RequestedFilter(s)
    BY <2>1 DEF Filter, RequestedFilter
  <2>. QED  BY <1>1, <2>2, <2>3 DEF Blocked, PassesFilter
<1>. QED  BY <1>1, <1>2, <1>3

-----------------------------------------------------------------------------
\* Everything but what concerns request s is as it was.
OthersUnchanged(s) ==
    \A t \in Slots \ {s} :
        /\ input'[t] = input[t] /\ pc'[t] = pc[t] /\ answer'[t] = answer[t]
        /\ context'[t] = context[t] /\ frame'[t] = frame[t]

\* A step that calls no vertical and records nothing, and leaves its request
\* without a record, keeps the invariant.
LEMMA QuietStep ==
    ASSUME IInv, TypeOK', NEW s \in Slots,
           upstream' = upstream, history' = history, OthersUnchanged(s),
           input'[s] = input[s] \/ pc[s] = "unused",
           pc[s] # "answered",
           pc'[s] = "captured" => context'[s] = OwnContext(s)',
           pc'[s] \in {"awaiting", "replied"} => frame'[s] = OwnFrame(s)' /\ Called(s),
           pc'[s] \in {"unused", "arrived", "captured"} => ~Called(s),
           pc'[s] = "answered" =>
               /\ answer'[s].code \in Uncalled /\ answer'[s] # Success
               /\ ~Called(s)
               /\ answer'[s].code = "EXCEPTION" \/ ~PassesFilter(s)'
    PROVE  IInv'
<1>1. \A t \in Slots : (Called(t)' <=> Called(t)) /\ (HasRecord(t)' <=> HasRecord(t))
  BY DEF Called, HasRecord
<1>2. ~HasRecord(s) /\ (pc[s] = "unused" => ~Called(s))
  BY DEF IInv, RecordsFitStage, CallsFitStage
<1>3. OwnMetadata'
  <2>1. ASSUME NEW t \in Slots \ {s}
        PROVE  /\ pc'[t] = "captured" => context'[t] = OwnContext(t)'
               /\ pc'[t] \in {"awaiting", "replied"} => frame'[t] = OwnFrame(t)'
    BY <2>1, Stable DEF OthersUnchanged, IInv, OwnMetadata
  <2>. QED  BY <2>1 DEF OwnMetadata
<1>4. CallsAreOwn'
  <2>1. ASSUME NEW i \in 1..Len(upstream)
        PROVE  LET t == upstream[i].slot IN MayCall(t)' /\ IsCallOf(upstream[i], t)'
    <3>1. upstream[i].slot \in Slots /\ Called(upstream[i].slot)
      BY SlotTypes DEF IInv, Called
    <3>2. input'[upstream[i].slot] = input[upstream[i].slot]
      BY <3>1, <1>2 DEF OthersUnchanged
    <3>3. MayCall(upstream[i].slot) /\ IsCallOf(upstream[i], upstream[i].slot)
      BY DEF IInv, CallsAreOwn
    <3>. QED  BY <3>1, <3>2, <3>3, Stable
  <2>. QED  BY <2>1 DEF CallsAreOwn
<1>5. CallsAreSingle'
  BY DEF IInv, CallsAreSingle
<1>6. CallsFitStage'
  <2>1. ASSUME NEW t \in Slots \ {s}
        PROVE  /\ pc'[t] \in {"unused", "arrived", "captured"} => ~Called(t)'
               /\ pc'[t] \in {"awaiting", "replied"} => Called(t)'
               /\ pc'[t] = "answered" => AnswerFitsCall(t)'
    BY <2>1, <1>1 DEF OthersUnchanged, IInv, CallsFitStage, AnswerFitsCall
  <2>2. pc'[s] = "answered" => AnswerFitsCall(s)'
    BY <1>1 DEF AnswerFitsCall, Uncalled, CalledOnly
  <2>. QED  BY <2>1, <2>2, <1>1 DEF CallsFitStage
<1>7. RecordsAreOwn'
  <2>1. ASSUME NEW i \in 1..Len(history)
        PROVE  IsEventOf(history[i][2], history[i][1])'
    <3>1. history[i][1] \in Slots /\ HasRecord(history[i][1])
      BY SlotTypes DEF IInv, HasRecord
    <3>2. history[i][1] # s
      BY <3>1, <1>2
    <3>3. IsEventOf(history[i][2], history[i][1])
      BY DEF IInv, RecordsAreOwn
    <3>. QED  BY <3>1, <3>2, <3>3, <1>1, Stable DEF OthersUnchanged, IsEventOf
  <2>. QED  BY <2>1 DEF RecordsAreOwn
<1>8. RecordsAreSingle'
  BY DEF IInv, RecordsAreSingle
<1>9. RecordsFitStage'
  <2>1. ASSUME NEW t \in Slots \ {s}
        PROVE  HasRecord(t)' <=> /\ pc'[t] = "answered"
                                 /\ answer'[t].code # "EXCEPTION"
                                 /\ PassesFilter(t)'
    BY <2>1, <1>1, Stable DEF OthersUnchanged, IInv, RecordsFitStage
  <2>. QED  BY <2>1, <1>1, <1>2 DEF RecordsFitStage
<1>. QED  BY <1>3, <1>4, <1>5, <1>6, <1>7, <1>8, <1>9 DEF IInv

-----------------------------------------------------------------------------
\* A step that records a result and answers with it keeps the invariant, when
\* the metadata is the request's own and the result fits what was called.
LEMMA RecordStep ==
    ASSUME IInv, TypeOK', NEW s \in Slots, NEW route \in {None, Route(s)},
           NEW result \in Results,
           RecordAndAnswer(s, OwnFrame(s), route, result),
           UNCHANGED <<input, frame, upstream>>,
           pc[s] \in {"arrived", "captured", "awaiting", "replied"},
           PassesFilter(s), result.code # "EXCEPTION",
           Called(s) => route = Route(s) /\ Route(s) # None,
           result.code \in Uncalled => ~Called(s),
           result = Success \/ result.code \in CalledOnly => Called(s)
    PROVE  IInv'
<1>. DEFINE event == InvocationEvent(s, OwnFrame(s), route, result)
<1>1. /\ answer'[s] = result /\ pc'[s] = "answered"
      /\ \A t \in Slots \ {s} : /\ answer'[t] = answer[t] /\ pc'[t] = pc[t]
                                /\ context'[t] = context[t]
  BY DEF RecordAndAnswer, Answer, IInv, TypeOK, ContextOf
<1>2. /\ Len(history') = Len(history) + 1 /\ Len(history) \in Nat
      /\ \A i \in 1..Len(history) : history'[i] = history[i]
      /\ history'[Len(history) + 1] = <<s, event>>
  <2>1. history \in Seq(Slots \X EventRecords) /\ history' = Append(history, <<s, event>>)
    BY DEF RecordAndAnswer, IInv, TypeOK
  <2>. HIDE DEF event
  <2>. QED  BY <2>1, AppendElements
<1>3. \A t \in Slots : Called(t)' <=> Called(t)
  BY DEF Called
<1>4. ~HasRecord(s)
  BY DEF IInv, RecordsFitStage
<1>5. HasRecord(s)' /\ \A t \in Slots \ {s} : HasRecord(t)' <=> HasRecord(t)
  <2>. HIDE DEF event
  <2>1. history'[Len(history) + 1][1] = s /\ Len(history) + 1 \in 1..Len(history')
    BY <1>2
  <2>2. \A i \in 1..Len(history') : i = Len(history) + 1 \/ i \in 1..Len(history)
    BY <1>2
  <2>3. \A i \in 1..Len(history) : i \in 1..Len(history')
    BY <1>2
  <2>. QED  BY <1>2, <2>1, <2>2, <2>3 DEF HasRecord
<1>6. OwnMetadata'
  <2>1. ASSUME NEW t \in Slots \ {s}
        PROVE  /\ pc'[t] = "captured" => context'[t] = OwnContext(t)'
               /\ pc'[t] \in {"awaiting", "replied"} => frame'[t] = OwnFrame(t)'
    BY <2>1, <1>1, Stable DEF IInv, OwnMetadata
  <2>. QED  BY <2>1, <1>1 DEF OwnMetadata
<1>7. CallsAreOwn'
  <2>1. ASSUME NEW i \in 1..Len(upstream)
        PROVE  LET t == upstream[i].slot IN MayCall(t)' /\ IsCallOf(upstream[i], t)'
    <3>1. upstream[i].slot \in Slots
      BY SlotTypes DEF IInv
    <3>2. MayCall(upstream[i].slot) /\ IsCallOf(upstream[i], upstream[i].slot)
      BY DEF IInv, CallsAreOwn
    <3>. QED  BY <3>1, <3>2, Stable
  <2>. QED  BY <2>1 DEF CallsAreOwn
<1>8. CallsAreSingle'
  BY DEF IInv, CallsAreSingle
<1>9. CallsFitStage'
  <2>1. ASSUME NEW t \in Slots \ {s}
        PROVE  /\ pc'[t] \in {"unused", "arrived", "captured"} => ~Called(t)'
               /\ pc'[t] \in {"awaiting", "replied"} => Called(t)'
               /\ pc'[t] = "answered" => AnswerFitsCall(t)'
    BY <2>1, <1>1, <1>3 DEF IInv, CallsFitStage, AnswerFitsCall
  <2>2. AnswerFitsCall(s)'
    BY <1>1, <1>3 DEF AnswerFitsCall
  <2>. QED  BY <2>1, <2>2, <1>1 DEF CallsFitStage
<1>10. RecordsAreOwn'
  <2>1. ASSUME NEW i \in 1..Len(history), NEW e, NEW t,
               e = history[i][2], t = history[i][1]
        PROVE  IsEventOf(e, t)'
    <3>1. t \in Slots /\ HasRecord(t)
      BY <2>1, SlotTypes DEF IInv, HasRecord
    <3>2. t # s
      BY <3>1, <1>4
    <3>3. IsEventOf(e, t)
      BY <2>1 DEF IInv, RecordsAreOwn
    <3>. QED  BY <3>1, <3>2, <3>3, <1>1, <1>3, Stable DEF IsEventOf
  <2>2. ASSUME NEW e, e = event  PROVE IsEventOf(e, s)'
    BY <2>2, <1>1, <1>3, Stable DEF IsEventOf, InvocationEvent, OwnFrame
  <2>. HIDE DEF event
  <2>3. ASSUME NEW i \in 1..Len(history')
        PROVE  (IsEventOf(history[i][2], history[i][1]))'
    <3>1. CASE i \in 1..Len(history)
      <4>1. history'[i] = history[i]
        BY <3>1, <1>2
      <4>2. IsEventOf(history[i][2], history[i][1])'
        BY <3>1, <4>1, <2>1 DEF IsEventOf
      <4>. QED  BY <4>2
    <3>2. CASE i = Len(history) + 1
      BY <3>2, <1>2, <2>2 DEF IsEventOf
    <3>. QED  BY <3>1, <3>2, <1>2
  <2>. QED  BY <2>3 DEF RecordsAreOwn
<1>11. RecordsAreSingle'
  <2>. HIDE DEF event
  <2>1. \A i \in 1..Len(history) : history[i][1] # s
    BY <1>4 DEF HasRecord
  <2>2. \A i \in 1..Len(history') :
            \/ i = Len(history) + 1 /\ history'[i][1] = s
            \/ i \in 1..Len(history) /\ history'[i][1] = history[i][1]
    BY <1>2
  <2>. QED  BY <2>1, <2>2 DEF IInv, RecordsAreSingle
<1>12. RecordsFitStage'
  <2>1. ASSUME NEW t \in Slots \ {s}
        PROVE  HasRecord(t)' <=> /\ pc'[t] = "answered"
                                 /\ answer'[t].code # "EXCEPTION"
                                 /\ PassesFilter(t)'
    BY <2>1, <1>1, <1>5, Stable DEF IInv, RecordsFitStage
  <2>. QED  BY <2>1, <1>1, <1>5, Stable DEF RecordsFitStage
<1>. QED  BY <1>6, <1>7, <1>8, <1>9, <1>10, <1>11, <1>12 DEF IInv

\* A request the router accepts may be called for, and has not been.
LEMMA CallableMayCall ==
    ASSUME IInv, NEW s \in Slots, Callable(s), Route(s).vertical \in Clients
    PROVE  MayCall(s) /\ ~Called(s)
<1>1. Handled(s) /\ PassesFilter(s) /\ pc[s] \in {"arrived", "captured"}
  BY HandlerSeesOwn DEF IInv, Callable, Invoked
<1>2. input[s].name \in ToolNames \cap DOMAIN Routes
  BY RouteType DEF Callable, HasTool
<1>. QED  BY <1>1, <1>2 DEF MayCall, Callable, IInv, CallsFitStage

\* A call is logged last, as its request's, and for no other request.
LEMMA CallIsLogged ==
    ASSUME TypeOK, NEW s \in Slots, CallVertical(s)
    PROVE  /\ Len(upstream') = Len(upstream) + 1 /\ Len(upstream) \in Nat
           /\ \A i \in 1..Len(upstream) : upstream'[i] = upstream[i]
           /\ upstream'[Len(upstream) + 1] =
                 [slot |-> s, vertical |-> Route(s).vertical,
                  upstream_tool |-> Route(s).upstream_tool,
                  arguments |-> input[s].arguments]
           /\ Called(s)' /\ \A t \in Slots \ {s} : Called(t)' <=> Called(t)
<1>. DEFINE call == [slot |-> s, vertical |-> Route(s).vertical,
                     upstream_tool |-> Route(s).upstream_tool,
                     arguments |-> input[s].arguments]
<1>1. /\ Len(upstream') = Len(upstream) + 1 /\ Len(upstream) \in Nat
      /\ \A i \in 1..Len(upstream) : upstream'[i] = upstream[i]
      /\ upstream'[Len(upstream) + 1] = call
  <2>1. upstream \in Seq(Calls) /\ upstream' = Append(upstream, call)
    BY DEF CallVertical, TypeOK
  <2>. HIDE DEF call
  <2>. QED  BY <2>1, AppendElements
<1>2. Called(s)' /\ \A t \in Slots \ {s} : Called(t)' <=> Called(t)
  <2>1. call.slot = s
    OBVIOUS
  <2>. HIDE DEF call
  <2>2. Len(upstream) + 1 \in 1..Len(upstream')
    BY <1>1
  <2>3. \A i \in 1..Len(upstream') : i = Len(upstream) + 1 \/ i \in 1..Len(upstream)
    BY <1>1
  <2>4. \A i \in 1..Len(upstream) : i \in 1..Len(upstream')
    BY <1>1
  <2>. QED  BY <1>1, <2>1, <2>2, <2>3, <2>4 DEF Called
<1>. QED  BY <1>1, <1>2

\* Calling a vertical keeps the invariant.
LEMMA CallStep ==
    ASSUME IInv, TypeOK', NEW s \in Slots, CallVertical(s)
    PROVE  IInv'
<1>. DEFINE call == [slot |-> s, vertical |-> Route(s).vertical,
                     upstream_tool |-> Route(s).upstream_tool,
                     arguments |-> input[s].arguments]
<1>1. MayCall(s) /\ ~Called(s)
  BY CallableMayCall DEF CallVertical
<1>2. Handled(s) /\ pc[s] \in {"arrived", "captured"} /\ Metadata(s) = OwnFrame(s)
  BY HandlerSeesOwn DEF IInv, CallVertical, Callable, Invoked
<1>3. /\ pc'[s] = "awaiting" /\ frame'[s] = OwnFrame(s)
      /\ \A t \in Slots \ {s} : pc'[t] = pc[t] /\ frame'[t] = frame[t]
      /\ UNCHANGED <<input, context, answer, history>>
  BY <1>2 DEF CallVertical, IInv, TypeOK
<1>4. /\ Len(upstream') = Len(upstream) + 1 /\ Len(upstream) \in Nat
      /\ \A i \in 1..Len(upstream) : upstream'[i] = upstream[i]
      /\ upstream'[Len(upstream) + 1] = call
  BY CallIsLogged DEF IInv
<1>5. Called(s)' /\ \A t \in Slots \ {s} : Called(t)' <=> Called(t)
  BY CallIsLogged DEF IInv
<1>6. \A t \in Slots : HasRecord(t)' <=> HasRecord(t)
  BY <1>3 DEF HasRecord
<1>7. ~HasRecord(s)
  BY <1>2 DEF IInv, RecordsFitStage
<1>8. OwnMetadata'
  <2>1. ASSUME NEW t \in Slots \ {s}
        PROVE  /\ pc'[t] = "captured" => context'[t] = OwnContext(t)'
               /\ pc'[t] \in {"awaiting", "replied"} => frame'[t] = OwnFrame(t)'
    BY <2>1, <1>3, Stable DEF IInv, OwnMetadata
  <2>. QED  BY <2>1, <1>3, Stable DEF OwnMetadata
<1>9. CallsAreOwn'
  <2>1. ASSUME NEW i \in 1..Len(upstream), NEW t \in Slots, t = upstream[i].slot
        PROVE  MayCall(t)' /\ IsCallOf(upstream[i], t)
    BY <2>1, <1>3, Stable DEF IInv, CallsAreOwn
  <2>2. MayCall(s)'
    BY <1>1, <1>3, Stable
  <2>3. call.slot = s /\ IsCallOf(call, s)
    BY DEF IsCallOf
  <2>. HIDE DEF call
  <2>4. ASSUME NEW i \in 1..Len(upstream')
        PROVE  (LET t == upstream[i].slot IN MayCall(t) /\ IsCallOf(upstream[i], t))'
    <3>1. \E c, t : /\ c = upstream'[i] /\ t = c.slot /\ t \in Slots
                    /\ MayCall(t)' /\ IsCallOf(c, t)
      <4>1. CASE i \in 1..Len(upstream)
        BY <4>1, <1>4, <2>1, SlotTypes DEF IInv
      <4>2. CASE i = Len(upstream) + 1
        BY <4>2, <1>4, <2>2, <2>3
      <4>. QED  BY <4>1, <4>2, <1>4
    <3>2. PICK c, t : /\ c = upstream'[i] /\ t = c.slot /\ t \in Slots
                      /\ MayCall(t)' /\ IsCallOf(c, t)
      BY <3>1
    <3>3. IsCallOf(c, t)'
      BY <3>2, <1>3, Stable
    <3>. QED  BY <3>2, <3>3 DEF MayCall, IsCallOf
  <2>. QED  BY <2>4 DEF CallsAreOwn
<1>10. CallsAreSingle'
  <2>1. call.slot = s
    OBVIOUS
  <2>. HIDE DEF call
  <2>2. \A i \in 1..Len(upstream) : upstream[i].slot # s
    BY <1>1 DEF Called
  <2>3. \A i \in 1..Len(upstream') :
            \/ i = Len(upstream) + 1 /\ upstream'[i].slot = s
            \/ i \in 1..Len(upstream) /\ upstream'[i].slot = upstream[i].slot
    BY <1>4, <2>1
  <2>. QED  BY <2>2, <2>3 DEF IInv, CallsAreSingle
<1>11. CallsFitStage'
  <2>1. ASSUME NEW t \in Slots \ {s}
        PROVE  /\ pc'[t] \in {"unused", "arrived", "captured"} => ~Called(t)'
               /\ pc'[t] \in {"awaiting", "replied"} => Called(t)'
               /\ pc'[t] = "answered" => AnswerFitsCall(t)'
    BY <2>1, <1>3, <1>5 DEF IInv, CallsFitStage, AnswerFitsCall
  <2>. QED  BY <2>1, <1>3, <1>5 DEF CallsFitStage
<1>12. RecordsAreOwn'
  <2>1. ASSUME NEW i \in 1..Len(history)
        PROVE  IsEventOf(history[i][2], history[i][1])'
    <3>1. history[i][1] \in Slots /\ HasRecord(history[i][1])
      BY SlotTypes DEF IInv, HasRecord
    <3>2. history[i][1] # s
      BY <3>1, <1>7
    <3>3. IsEventOf(history[i][2], history[i][1])
      BY DEF IInv, RecordsAreOwn
    <3>. QED  BY <3>1, <3>2, <3>3, <1>3, <1>5, Stable DEF IsEventOf
  <2>. QED  BY <2>1, <1>3 DEF RecordsAreOwn
<1>13. RecordsAreSingle'
  BY <1>3 DEF IInv, RecordsAreSingle
<1>14. RecordsFitStage'
  <2>1. ASSUME NEW t \in Slots \ {s}
        PROVE  HasRecord(t)' <=> /\ pc'[t] = "answered"
                                 /\ answer'[t].code # "EXCEPTION"
                                 /\ PassesFilter(t)'
    BY <2>1, <1>3, <1>6, Stable DEF IInv, RecordsFitStage
  <2>. QED  BY <2>1, <1>3, <1>6, <1>7 DEF RecordsFitStage
<1>. QED  BY <1>8, <1>9, <1>10, <1>11, <1>12, <1>13, <1>14 DEF IInv

-----------------------------------------------------------------------------
\* The invariant holds before any request arrives.
LEMMA IInvInit == Init => IInv
<1>. SUFFICES ASSUME Init PROVE IInv
  OBVIOUS
<1>1. Len(upstream) = 0 /\ Len(history) = 0
  BY DEF Init
<1>2. \A s \in Slots : pc[s] = "unused"
  BY DEF Init
<1>3. \A s \in Slots : ~Called(s) /\ ~HasRecord(s)
  BY <1>1 DEF Called, HasRecord
<1>4. CallsAreOwn /\ CallsAreSingle /\ RecordsAreOwn /\ RecordsAreSingle
  BY <1>1 DEF CallsAreOwn, CallsAreSingle, RecordsAreOwn, RecordsAreSingle
<1>5. OwnMetadata /\ CallsFitStage /\ RecordsFitStage
  BY <1>2, <1>3 DEF OwnMetadata, CallsFitStage, RecordsFitStage
<1>. QED  BY <1>4, <1>5, TypeInit DEF IInv

\* A rejection by the router keeps the invariant.
LEMMA RejectedStep ==
    ASSUME IInv, TypeOK', NEW s \in Slots, NEW route \in {None, Route(s)},
           NEW code \in ErrorCodes, code # "EXCEPTION", code \notin CalledOnly,
           Invoked(s), Rejected(s, route, code)
    PROVE  IInv'
<1>1. /\ Metadata(s) = OwnFrame(s) /\ PassesFilter(s)
      /\ pc[s] \in {"arrived", "captured"}
  BY HandlerSeesOwn DEF IInv, Invoked
<1>2. ~Called(s)
  BY <1>1 DEF IInv, CallsFitStage
<1>3. /\ Failure(code) \in Results /\ Failure(code).code = code
      /\ Failure(code) # Success
  BY FailureType DEF Failure, Success
<1>. QED  BY <1>1, <1>2, <1>3, RecordStep DEF Rejected

\* The answer to a call that was made keeps the invariant.
LEMMA ResumeStep ==
    ASSUME IInv, TypeOK', NEW s \in Slots, Resume(s)
    PROVE  IInv'
<1>1. pc[s] = "replied" /\ reply[s] \in Replies /\ frame[s] = OwnFrame(s)
  BY DEF Resume, IInv, TypeOK, OwnMetadata
<1>2. Called(s)
  BY <1>1 DEF IInv, CallsFitStage
<1>3. MayCall(s)
  BY <1>2 DEF Called, IInv, CallsAreOwn
<1>4. PassesFilter(s) /\ Route(s) # None
  BY <1>3, RoutesAssumption DEF MayCall, Route, GetRoute
<1>5. /\ ResultOf(reply[s]) \in Results
      /\ ResultOf(reply[s]).code \notin Uncalled
  <2>1. \/ ResultOf(reply[s]) = Success
        \/ \E code \in {"UPSTREAM_TIMEOUT", "UPSTREAM_ERROR", "MALFORMED_UPSTREAM_RESPONSE"} :
               ResultOf(reply[s]) = Failure(code)
    BY <1>1 DEF ResultOf, Replies
  <2>2. Success.code = None /\ \A code : Failure(code).code = code
    BY DEF Success, Failure
  <2>3. None \notin Uncalled
    BY NoneAssumption DEF Uncalled, ErrorCodes
  <2>. QED  BY <2>1, <2>2, <2>3, FailureType DEF Results, Uncalled, ErrorCodes
<1>. QED  BY <1>1, <1>2, <1>4, <1>5, RecordStep DEF Resume, Uncalled

\* Every step of the proxy and its environment keeps the invariant.
LEMMA IInvStep == IInv /\ [Next]_vars => IInv'
<1>. SUFFICES ASSUME IInv, [Next]_vars PROVE IInv'
  OBVIOUS
<1>. TypeOK /\ TypeOK'
  BY TypeStep DEF IInv
<1>1. ASSUME NEW s \in Slots, NEW request \in Inputs, Arrive(s, request)
      PROVE  IInv'
  <2>1. pc'[s] = "arrived" /\ pc[s] = "unused" /\ OthersUnchanged(s)
    BY <1>1 DEF Arrive, OthersUnchanged, TypeOK
  <2>2. ~Called(s)
    BY <2>1 DEF IInv, CallsFitStage
  <2>. QED  BY <1>1, <2>1, <2>2, QuietStep DEF Arrive
<1>2. ASSUME NEW s \in Slots, CaptureMetadata(s)  PROVE IInv'
  <2>1. /\ pc'[s] = "captured" /\ pc[s] = "arrived" /\ OthersUnchanged(s)
        /\ context'[s] = OwnContext(s) /\ input' = input
    BY <1>2 DEF CaptureMetadata, OthersUnchanged, TypeOK, ContextOf, OwnContext
  <2>2. ~Called(s)
    BY <2>1 DEF IInv, CallsFitStage
  <2>. QED  BY <1>2, <2>1, <2>2, QuietStep, Stable DEF CaptureMetadata
<1>3. ASSUME NEW s \in Slots, AnswerBlocked(s)  PROVE IInv'
  <2>1. pc[s] \in {"arrived", "captured"} /\ ~PassesFilter(s)
    BY <1>3, HandlerSeesOwn DEF IInv, AnswerBlocked
  <2>2. /\ pc'[s] = "answered" /\ OthersUnchanged(s)
        /\ answer'[s] = Failure("TOOL_NOT_FOUND")
    BY <1>3 DEF AnswerBlocked, Answer, OthersUnchanged, TypeOK, ContextOf
  <2>3. answer'[s].code \in Uncalled /\ answer'[s] # Success
    BY <2>2 DEF Uncalled, Failure, Success
  <2>4. ~Called(s)
    BY <2>1 DEF IInv, CallsFitStage
  <2>. QED  BY <1>3, <2>1, <2>2, <2>3, <2>4, QuietStep, Stable DEF AnswerBlocked
<1>4. ASSUME NEW s \in Slots, SchemaErrorEscapes(s)  PROVE IInv'
  <2>1. pc[s] \in {"arrived", "captured"}
    BY <1>4, HandlerSeesOwn DEF IInv, SchemaErrorEscapes, Invoked
  <2>2. /\ pc'[s] = "answered" /\ OthersUnchanged(s)
        /\ answer'[s] = Failure("EXCEPTION")
    BY <1>4 DEF SchemaErrorEscapes, Answer, OthersUnchanged, TypeOK, ContextOf
  <2>3. /\ answer'[s].code \in Uncalled /\ answer'[s] # Success
        /\ answer'[s].code = "EXCEPTION"
    BY <2>2 DEF Uncalled, Failure, Success
  <2>4. ~Called(s)
    BY <2>1 DEF IInv, CallsFitStage
  <2>. QED  BY <1>4, <2>1, <2>2, <2>3, <2>4, QuietStep DEF SchemaErrorEscapes
<1>5. ASSUME NEW s \in Slots, NEW r \in Replies, VerticalReplies(s, r)
      PROVE  IInv'
  <2>1. /\ pc'[s] = "replied" /\ pc[s] = "awaiting" /\ OthersUnchanged(s)
        /\ input' = input /\ frame' = frame
    BY <1>5 DEF VerticalReplies, OthersUnchanged, TypeOK
  <2>2. Called(s) /\ frame[s] = OwnFrame(s)
    BY <2>1 DEF IInv, CallsFitStage, OwnMetadata
  <2>. QED  BY <1>5, <2>1, <2>2, QuietStep, Stable DEF VerticalReplies
<1>6. ASSUME NEW s \in Slots, Cancel(s)  PROVE IInv'
  <2>1. /\ pc'[s] = "cancelled" /\ pc[s] # "answered" /\ OthersUnchanged(s)
        /\ input' = input
    BY <1>6 DEF Cancel, OthersUnchanged, TypeOK, ContextOf
  <2>. QED  BY <1>6, <2>1, QuietStep DEF Cancel
<1>7. ASSUME UNCHANGED <<input, pc, context, frame, answer, history, upstream>>
      PROVE  IInv'
  <2>1. \A s \in Slots : /\ Called(s)' <=> Called(s)
                         /\ HasRecord(s)' <=> HasRecord(s)
    BY <1>7 DEF Called, HasRecord
  <2>2. OwnMetadata'
    BY <1>7, Stable DEF IInv, OwnMetadata
  <2>3. CallsAreOwn'
    BY <1>7, SlotTypes, Stable DEF IInv, CallsAreOwn
  <2>4. CallsFitStage'
    BY <1>7, <2>1 DEF IInv, CallsFitStage, AnswerFitsCall
  <2>5. RecordsAreOwn'
    BY <1>7, <2>1, SlotTypes, Stable DEF IInv, RecordsAreOwn, IsEventOf
  <2>6. RecordsFitStage'
    BY <1>7, <2>1, Stable DEF IInv, RecordsFitStage
  <2>7. CallsAreSingle' /\ RecordsAreSingle'
    BY <1>7 DEF IInv, CallsAreSingle, RecordsAreSingle
  <2>. QED  BY <2>2, <2>3, <2>4, <2>5, <2>6, <2>7 DEF IInv
<1>8. ASSUME NEW s \in Slots, Turn(s)  PROVE IInv'
  <2>1. CASE InvokeUnknownTool(s)
    BY <2>1, RejectedStep DEF InvokeUnknownTool, ErrorCodes, CalledOnly
  <2>2. CASE InvokeRouteMissing(s)
    BY <2>2, RejectedStep DEF InvokeRouteMissing, ErrorCodes, CalledOnly
  <2>3. CASE InvokeInvalidArguments(s)
    BY <2>3, RejectedStep DEF InvokeInvalidArguments, ErrorCodes, CalledOnly
  <2>4. CASE InvokeVerticalUnavailable(s)
    BY <2>4, RejectedStep
    DEF InvokeVerticalUnavailable, Callable, ErrorCodes, CalledOnly
  <2>. QED
    BY <1>8, <1>2, <1>3, <1>4, <2>1, <2>2, <2>3, <2>4, CallStep, ResumeStep DEF Turn
<1>. QED
  BY <1>1, <1>5, <1>6, <1>7, <1>8 DEF Next, Shutdown, vars

\* The invariant holds of every reachable state.
THEOREM Invariance == Spec => []IInv
BY IInvInit, IInvStep, PTL DEF Spec

-----------------------------------------------------------------------------
\* No request, whatever others are in flight, makes a call to a vertical
\* other than the one it asks for: context variables never leak.
THEOREM Isolation == Spec => []FilterIsolation
<1>1. IInv => FilterIsolation
  <2>. SUFFICES ASSUME IInv, NEW i \in 1..Len(upstream),
                       RequestedFilter(upstream[i].slot) # None
                PROVE  upstream[i].vertical = RequestedFilter(upstream[i].slot)
    BY DEF FilterIsolation
  <2>. QED  BY DEF IInv, CallsAreOwn, MayCall, PassesFilter, IsCallOf
<1>. QED  BY <1>1, Invariance, PTL

\* Every call that leaves the proxy is one the curated catalog routes, to a
\* configured client, with arguments its schema accepts.
THEOREM CuratedCallsOnly == Spec => []OnlyCuratedCalls
<1>1. IInv => OnlyCuratedCalls
  <2>. SUFFICES ASSUME IInv, NEW i \in 1..Len(upstream), NEW s, s = upstream[i].slot
                PROVE  /\ input[s].name \in ToolNames \cap DOMAIN Routes
                       /\ upstream[i].vertical = Routes[input[s].name].vertical
                       /\ upstream[i].upstream_tool = Routes[input[s].name].upstream_tool
                       /\ upstream[i].vertical \in Clients
                       /\ upstream[i].arguments = input[s].arguments
                       /\ Check(s) = "valid"
    BY DEF OnlyCuratedCalls
  <2>1. MayCall(s) /\ IsCallOf(upstream[i], s)
    BY DEF IInv, CallsAreOwn
  <2>. QED  BY <2>1 DEF MayCall, IsCallOf, Route, GetRoute
<1>. QED  BY <1>1, Invariance, PTL

FirstCallOf(s) == CHOOSE k \in CallsOf(s) : TRUE

TellsOf(event, s) ==
    /\ event.ok = answer[s].ok /\ event.error_code = answer[s].code
    /\ event.public_tool_name = input[s].name
    /\ event.request_id = RequestId(s)
    /\ event.conversation_id = ConversationId(s)
    /\ event.source = input[s].surface
    /\ CallsOf(s) # {} => event.vertical = upstream[FirstCallOf(s)].vertical

\* Every event tells of the request it was recorded for, in every
\* interleaving of requests: its outcome, ids, surface, tool and vertical.
THEOREM EventsTellOfTheirRequests == Spec => []EventTellsOfItsRequest
<1>1. ASSUME IInv, NEW i \in 1..Len(history), NEW s, s = history[i][1],
             NEW event, event = history[i][2]
      PROVE  TellsOf(event, s)
  <2>1. IsEventOf(event, s)
    BY <1>1 DEF IInv, RecordsAreOwn
  <2>2. ASSUME CallsOf(s) # {}, NEW k, k = FirstCallOf(s)
        PROVE  event.vertical = upstream[k].vertical
    <3>1. k \in CallsOf(s)
      BY <2>2 DEF FirstCallOf
    <3>2. k \in 1..Len(upstream) /\ upstream[k].slot = s
      BY <3>1 DEF CallsOf
    <3>3. IsCallOf(upstream[k], s) /\ Called(s)
      BY <1>1, <3>2 DEF IInv, CallsAreOwn, Called
    <3>. QED  BY <2>1, <3>3 DEF IsCallOf, IsEventOf
  <2>. QED  BY <2>1, <2>2 DEF IsEventOf, TellsOf
<1>2. IInv => EventTellsOfItsRequest
  <2>1. IInv => \A i \in 1..Len(history) : TellsOf(history[i][2], history[i][1])
    BY <1>1
  <2>2. (\A i \in 1..Len(history) : TellsOf(history[i][2], history[i][1]))
           => EventTellsOfItsRequest
    BY ZenonT(60) DEF EventTellsOfItsRequest, TellsOf, FirstCallOf
  <2>. QED  BY <2>1, <2>2
<1>. QED  BY <1>2, Invariance, PTL

-----------------------------------------------------------------------------
\* A set of which any two elements are equal has at most one.
LEMMA AtMostOne ==
    ASSUME NEW S, \A i, j \in S : i = j
    PROVE  Cardinality(S) = IF S = {} THEN 0 ELSE 1
<1>1. CASE S = {}
  BY <1>1, FS_EmptySet
<1>2. ASSUME NEW i \in S  PROVE Cardinality(S) = 1
  <2>1. S = {i}
    OBVIOUS
  <2>. QED  BY <2>1, FS_Singleton
<1>. QED  BY <1>1, <1>2

\* No request calls its vertical twice, and what its client is told of the
\* call agrees with whether there was one.
THEOREM AnswersTellOfTheCalls == Spec => []AnswerTellsOfTheCall
<1>1. IInv => AnswerTellsOfTheCall
  <2>. SUFFICES ASSUME IInv, NEW s \in Slots
                PROVE  /\ Cardinality(CallsOf(s)) <= 1
                       /\ answer[s] # None =>
                            /\ answer[s].code \in Uncalled => CallsOf(s) = {}
                            /\ answer[s] = Success \/ answer[s].code \in CalledOnly
                                 => CallsOf(s) # {}
    BY DEF AnswerTellsOfTheCall, Uncalled, CalledOnly
  <2>1. \A i, j \in CallsOf(s) : i = j
    BY DEF CallsOf, IInv, CallsAreSingle
  <2>2. Cardinality(CallsOf(s)) <= 1
    BY <2>1, AtMostOne
  <2>3. CallsOf(s) = {} <=> ~Called(s)
    BY DEF CallsOf, Called
  <2>4. answer[s] # None => AnswerFitsCall(s)
    BY DEF IInv, TypeOK, CallsFitStage
  <2>. QED  BY <2>2, <2>3, <2>4 DEF AnswerFitsCall
<1>. QED  BY <1>1, Invariance, PTL

\* A request answered by the router has exactly one event, any other none.
THEOREM RecordsAreExact == Spec => []RecordedOnceWhenAnswered
<1>1. IInv => RecordedOnceWhenAnswered
  <2>. SUFFICES ASSUME IInv, NEW s \in Slots
                PROVE  Cardinality(RecordsOf(s)) =
                         IF /\ pc[s] = "answered"
                            /\ answer[s].code # "EXCEPTION"
                            /\ PassesFilter(s)
                         THEN 1 ELSE 0
    BY DEF RecordedOnceWhenAnswered, PassesFilter
  <2>1. \A i, j \in RecordsOf(s) : i = j
    BY DEF RecordsOf, IInv, RecordsAreSingle
  <2>2. RecordsOf(s) = {} <=> ~HasRecord(s)
    BY DEF RecordsOf, HasRecord
  <2>. QED  BY <2>1, <2>2, AtMostOne DEF IInv, RecordsFitStage
<1>. QED  BY <1>1, Invariance, PTL

-----------------------------------------------------------------------------
(* Proxy implements ToolCall: every turn of the event loop is, for it, a   *)
(* step of the one request it serves, or none.  The invariant gives what   *)
(* ToolCall sees of a request from that request's stage and answer.        *)


\* The call that may be made for a request.
CallFor(s) == [vertical |-> Route(s).vertical,
               upstream_tool |-> Route(s).upstream_tool,
               arguments |-> input[s].arguments]

SentFor(s) == IF Called(s) THEN <<CallFor(s)>> ELSE << >>

RecordedFor(s) ==
    IF pc[s] = "answered" /\ CountedResult(input[s], answer[s])
    THEN <<answer[s]>> ELSE << >>

-----------------------------------------------------------------------------
\* The first and only element of a set of one index, in order.
LEMMA NthOfOne ==
    ASSUME NEW own, NEW i \in Nat, own = {i}
    PROVE  Cardinality(own) = 1 /\ Nth(own, 1) = i
<1>1. Cardinality(own) = 1
  BY FS_Singleton
<1>2. {j \in own : j <= i} = {i}
  OBVIOUS
<1>3. \E k \in own : Cardinality({j \in own : j <= k}) = 1
  BY <1>2, FS_Singleton
<1>. QED  BY <1>1, <1>3 DEF Nth

\* Of a log in which a request has at most one call, that call is what was
\* made for it.
LEMMA CallsMadeOne ==
    ASSUME NEW calls, NEW s, NEW call,
           \A i, j \in 1..Len(calls) : calls[i].slot = s /\ calls[j].slot = s => i = j,
           \A i \in 1..Len(calls) : calls[i].slot = s =>
               [vertical |-> calls[i].vertical,
                upstream_tool |-> calls[i].upstream_tool,
                arguments |-> calls[i].arguments] = call
    PROVE  CallsMade(calls, s) =
             IF \E i \in 1..Len(calls) : calls[i].slot = s THEN <<call>> ELSE << >>
<1>. DEFINE own == {i \in 1..Len(calls) : calls[i].slot = s}
            Made(i) == [vertical |-> calls[i].vertical,
                        upstream_tool |-> calls[i].upstream_tool,
                        arguments |-> calls[i].arguments]
<1>1. CallsMade(calls, s) = [k \in 1..Cardinality(own) |-> Made(Nth(own, k))]
  BY Zenon DEF CallsMade
<1>2. ASSUME NEW i \in 1..Len(calls), calls[i].slot = s
      PROVE  CallsMade(calls, s) = <<call>>
  <2>1. own = {i} /\ i \in Nat
    BY <1>2
  <2>2. Made(i) = call
    BY <1>2
  <2>. HIDE DEF own, Made
  <2>3. Cardinality(own) = 1 /\ Nth(own, 1) = i
    BY <2>1, NthOfOne
  <2>4. [k \in 1..1 |-> Made(Nth(own, k))] = <<call>>
    BY <2>2, <2>3
  <2>. QED  BY <1>1, <2>3, <2>4
<1>3. ASSUME ~\E i \in 1..Len(calls) : calls[i].slot = s
      PROVE  CallsMade(calls, s) = << >>
  <2>1. own = {}
    BY <1>3
  <2>. HIDE DEF own, Made
  <2>2. Cardinality(own) = 0
    BY <2>1, FS_EmptySet
  <2>3. [k \in 1..0 |-> Made(Nth(own, k))] = << >>
    OBVIOUS
  <2>. QED  BY <1>1, <2>2, <2>3
<1>. QED  BY <1>2, <1>3

\* Of a log in which a request has at most one event, its outcome is what was
\* recorded for it.
LEMMA OutcomesRecordedOne ==
    ASSUME NEW records, NEW s, NEW outcome,
           \A i, j \in 1..Len(records) : records[i][1] = s /\ records[j][1] = s => i = j,
           \A i \in 1..Len(records) : records[i][1] = s =>
               [ok |-> records[i][2].ok, code |-> records[i][2].error_code] = outcome
    PROVE  OutcomesRecorded(records, s) =
             IF \E i \in 1..Len(records) : records[i][1] = s THEN <<outcome>> ELSE << >>
<1>. DEFINE own == {i \in 1..Len(records) : records[i][1] = s}
            Told(i) == [ok |-> records[i][2].ok, code |-> records[i][2].error_code]
<1>1. OutcomesRecorded(records, s) = [k \in 1..Cardinality(own) |-> Told(Nth(own, k))]
  BY Zenon DEF OutcomesRecorded
<1>2. ASSUME NEW i \in 1..Len(records), records[i][1] = s
      PROVE  OutcomesRecorded(records, s) = <<outcome>>
  <2>1. own = {i} /\ i \in Nat
    BY <1>2
  <2>2. Told(i) = outcome
    BY <1>2
  <2>. HIDE DEF own, Told
  <2>3. Cardinality(own) = 1 /\ Nth(own, 1) = i
    BY <2>1, NthOfOne
  <2>4. [k \in 1..1 |-> Told(Nth(own, k))] = <<outcome>>
    BY <2>2, <2>3
  <2>. QED  BY <1>1, <2>3, <2>4
<1>3. ASSUME ~\E i \in 1..Len(records) : records[i][1] = s
      PROVE  OutcomesRecorded(records, s) = << >>
  <2>1. own = {}
    BY <1>3
  <2>. HIDE DEF own, Told
  <2>2. Cardinality(own) = 0
    BY <2>1, FS_EmptySet
  <2>3. [k \in 1..0 |-> Told(Nth(own, k))] = << >>
    OBVIOUS
  <2>. QED  BY <1>1, <2>2, <2>3
<1>. QED  BY <1>2, <1>3

-----------------------------------------------------------------------------
\* The predicates on a request that state ToolCall are those of the handlers.
LEMMA SameDecisions ==
    ASSUME NEW s \in Slots
    PROVE  /\ FilteredOut(input[s]) <=> ~PassesFilter(s)
           /\ PermittedCalls(input[s]) = IF MayCall(s) THEN {CallFor(s)} ELSE {}
<1>1. FilterAsked(input[s]) = RequestedFilter(s)
  BY DEF FilterAsked, RequestedFilter, Mcp
<1>2. /\ Route(s) = None <=> input[s].name \notin DOMAIN Routes
      /\ input[s].name \in DOMAIN Routes => Route(s) = Routes[input[s].name]
  BY RoutesAssumption DEF Route, GetRoute
<1>3. FilteredOut(input[s]) <=> ~PassesFilter(s)
  BY <1>1, <1>2 DEF FilteredOut, PassesFilter
<1>. QED
  BY <1>2, <1>3 DEF PermittedCalls, MayCall, Check, CallFor

\* A result is what its event says of it.
LEMMA ResultIsOutcome ==
    ASSUME NEW result \in Results
    PROVE  [ok |-> result.ok, code |-> result.code] = result
BY DEF Results, Success, Failure

\* What ToolCall sees of a request is determined by its stage and answer.
LEMMA Mapping ==
    IInv => \A s \in Slots : /\ CallsMade(upstream, s) = SentFor(s)
                             /\ OutcomesRecorded(history, s) = RecordedFor(s)
<1>. SUFFICES ASSUME IInv, NEW s \in Slots
              PROVE  /\ CallsMade(upstream, s) = SentFor(s)
                     /\ OutcomesRecorded(history, s) = RecordedFor(s)
  OBVIOUS
<1>1. CallsMade(upstream, s) = SentFor(s)
  <2>1. \A i, j \in 1..Len(upstream) :
           upstream[i].slot = s /\ upstream[j].slot = s => i = j
    BY DEF IInv, CallsAreSingle
  <2>2. \A i \in 1..Len(upstream) : upstream[i].slot = s =>
           [vertical |-> upstream[i].vertical,
            upstream_tool |-> upstream[i].upstream_tool,
            arguments |-> upstream[i].arguments] = CallFor(s)
    BY DEF IInv, CallsAreOwn, IsCallOf, CallFor
  <2>3. CallsMade(upstream, s) =
           IF \E i \in 1..Len(upstream) : upstream[i].slot = s
           THEN <<CallFor(s)>> ELSE << >>
    BY <2>1, <2>2, CallsMadeOne
  <2>. QED  BY <2>3 DEF SentFor, Called
<1>2. OutcomesRecorded(history, s) = RecordedFor(s)
  <2>1. \A i, j \in 1..Len(history) :
           history[i][1] = s /\ history[j][1] = s => i = j
    BY DEF IInv, RecordsAreSingle
  <2>2. HasRecord(s) => answer[s] \in Results
    BY DEF IInv, TypeOK, RecordsFitStage
  <2>3. \A i \in 1..Len(history) : history[i][1] = s =>
           [ok |-> history[i][2].ok, code |-> history[i][2].error_code] = answer[s]
    BY <2>2, ResultIsOutcome DEF IInv, RecordsAreOwn, IsEventOf, HasRecord
  <2>4. OutcomesRecorded(history, s) =
           IF \E i \in 1..Len(history) : history[i][1] = s
           THEN <<answer[s]>> ELSE << >>
    BY <2>1, <2>3, OutcomesRecordedOne
  <2>5. HasRecord(s) <=> pc[s] = "answered" /\ CountedResult(input[s], answer[s])
    BY SameDecisions DEF IInv, RecordsFitStage, CountedResult
  <2>. QED  BY <2>4, <2>5 DEF RecordedFor, HasRecord
<1>. QED  BY <1>1, <1>2
-----------------------------------------------------------------------------
Mapped == \A s \in Slots : /\ CallsMade(upstream, s) = SentFor(s)
                           /\ OutcomesRecorded(history, s) = RecordedFor(s)

\* Nothing that ToolCall sees of the requests other than s changes.
OthersStay(s) ==
    \A t \in Slots \ {s} : input'[t] = input[t] /\ pc'[t] = pc[t] /\ answer'[t] = answer[t]

\* A request under way is open.
LEMMA UnderWayIsOpen ==
    ASSUME IInv, NEW s \in Slots,
           pc[s] \in {"arrived", "captured", "awaiting", "replied"}
    PROVE  Promise!Open(s)
BY DEF IInv, TypeOK, Promise!Open

\* Answering a request with what its stage allows, recorded or not as the
\* invariant says, is ToolCall's step for that request.
LEMMA TellStep ==
    ASSUME IInv, Mapped, Mapped', NEW s \in Slots, NEW result \in Results,
           pc[s] \in {"arrived", "captured", "awaiting", "replied"},
           Answer(s, result), UNCHANGED <<input, upstream>>,
           result \in IF Called(s) THEN {ResultOf(r) : r \in Replies}
                                   ELSE RefusalsOf(input[s])
    PROVE  Promise!Next
<1>1. /\ pc'[s] = "answered" /\ answer'[s] = result
      /\ answer' = [answer EXCEPT ![s] = result]
      /\ \A t \in Slots \ {s} : pc'[t] = pc[t] /\ answer'[t] = answer[t]
  BY DEF Answer, IInv, TypeOK
<1>2. Promise!Open(s)
  BY UnderWayIsOpen
<1>3. input[s] \in Inputs
  BY ArrivedInput DEF IInv
<1>4. CallsMade(upstream, s) = << >> <=> ~Called(s)
  <2>1. CallsMade(upstream, s) = SentFor(s)
    BY DEF Mapped
  <2>2. <<CallFor(s)>> # << >>
    OBVIOUS
  <2>. QED  BY <2>1, <2>2 DEF SentFor
<1>5. result \in Promise!Results
  BY <1>3 DEF Promise!Results
<1>6. /\ \A t \in Slots \ {s} :
            OutcomesRecorded(history', t) = OutcomesRecorded(history, t)
      /\ OutcomesRecorded(history', s) =
            IF CountedResult(input[s], result) THEN <<result>> ELSE << >>
  <2>1. \A t \in Slots : OutcomesRecorded(history', t) =
           IF pc'[t] = "answered" /\ CountedResult(input[t], answer'[t])
           THEN <<answer'[t]>> ELSE << >>
    BY DEF Mapped, RecordedFor
  <2>2. \A t \in Slots : OutcomesRecorded(history, t) = RecordedFor(t)
    BY DEF Mapped
  <2>. QED  BY <1>1, <2>1, <2>2 DEF RecordedFor
<1>7. {t \in Slots : pc'[t] = "cancelled"} = {t \in Slots : pc[t] = "cancelled"}
  BY <1>1
<1>8. Promise!Tell(s, result)
  BY <1>1, <1>2, <1>4, <1>6, <1>7 DEF Promise!Tell
<1>. QED  BY <1>5, <1>8 DEF Promise!Next

\* A rejection tells the reason there is.
LEMMA RefusalStep ==
    ASSUME IInv, Mapped, Mapped', NEW s \in Slots, NEW code \in ErrorCodes,
           Handled(s), Answer(s, Failure(code)), UNCHANGED <<input, upstream>>,
           ~MayCall(s), Failure(code) \in RefusalsOf(input[s])
    PROVE  Promise!Next
<1>1. pc[s] \in {"arrived", "captured"}
  BY DEF Handled
<1>2. ~Called(s)
  BY <1>1 DEF IInv, CallsFitStage
<1>. QED  BY <1>1, <1>2, TellStep, FailureType

\* The reasons for which the handlers refuse a request are those of ToolCall.
LEMMA RefusalReasons ==
    ASSUME NEW s \in Slots
    PROVE  LET refusals == RefusalsOf(input[s]) IN
           /\ ~PassesFilter(s) => Failure("TOOL_NOT_FOUND") \in refusals
           /\ PassesFilter(s) =>
                /\ ~HasTool(s) => Failure("TOOL_NOT_FOUND") \in refusals
                /\ HasTool(s) /\ Route(s) = None => Failure("UPSTREAM_ERROR") \in refusals
                /\ HasTool(s) /\ Route(s) # None =>
                     /\ Check(s) = "invalid" =>
                          Failure("INVALID_ARGUMENTS") \in refusals
                     /\ Check(s) = "schema_error" => Failure("EXCEPTION") \in refusals
                     /\ Check(s) = "valid" /\ Route(s).vertical \notin Clients =>
                          Failure("VERTICAL_UNAVAILABLE") \in refusals
<1>1. Route(s) = None <=> input[s].name \notin DOMAIN Routes
  BY RoutesAssumption DEF Route, GetRoute
<1>2. PermittedCalls(input[s]) # {} <=> MayCall(s)
  BY SameDecisions
<1>. QED
  BY <1>1, <1>2, SameDecisions DEF RefusalsOf, MayCall, HasTool, Check

\* Every step is a step of ToolCall, or none.
LEMMA RefinementStep ==
    IInv /\ Mapped /\ Mapped' /\ [Next]_vars => [Promise!Next]_Promise!vars
<1>. SUFFICES ASSUME IInv, Mapped, Mapped', [Next]_vars
              PROVE  [Promise!Next]_Promise!vars
  OBVIOUS
<1>1. ASSUME NEW s \in Slots, NEW request \in Inputs, Arrive(s, request)
      PROVE  Promise!Next
  <2>1. /\ input[s] = None /\ pc'[s] = "arrived" /\ pc[s] = "unused"
        /\ \A t \in Slots \ {s} : pc'[t] = pc[t]
    BY <1>1 DEF Arrive, IInv, TypeOK
  <2>2. {t \in Slots : pc'[t] = "cancelled"} = {t \in Slots : pc[t] = "cancelled"}
    BY <2>1
  <2>3. Promise!Ask(s)
    BY <1>1, <2>1, <2>2 DEF Arrive, Promise!Ask
  <2>. QED  BY <2>3 DEF Promise!Next
<1>2. ASSUME NEW s \in Slots, Cancel(s)  PROVE Promise!Next
  <2>1. Promise!Open(s)
    BY <1>2, UnderWayIsOpen DEF Cancel
  <2>2. {t \in Slots : pc'[t] = "cancelled"} =
           {t \in Slots : pc[t] = "cancelled"} \cup {s}
    BY <1>2 DEF Cancel, IInv, TypeOK
  <2>3. Promise!Drop(s)
    BY <1>2, <2>1, <2>2 DEF Cancel, Promise!Drop
  <2>. QED  BY <2>3 DEF Promise!Next
<1>3. ASSUME NEW s \in Slots, CallVertical(s)  PROVE Promise!Next
  <2>1. MayCall(s) /\ ~Called(s) /\ pc[s] \in {"arrived", "captured"}
    BY <1>3, CallableMayCall DEF CallVertical, Callable, Invoked, Handled
  <2>2. Promise!Open(s) /\ CallsMade(upstream, s) = << >>
    BY <2>1, UnderWayIsOpen DEF Mapped, SentFor
  <2>3. CallFor(s) \in PermittedCalls(input[s])
    BY <2>1, SameDecisions
  <2>4. /\ Called(s)' /\ \A t \in Slots \ {s} : Called(t)' <=> Called(t)
    BY <1>3, CallIsLogged DEF IInv
  <2>5. \A t \in Slots : CallFor(t)' = CallFor(t)
    BY <1>3, Stable DEF CallVertical, CallFor
  <2>6. /\ CallsMade(upstream', s) = <<CallFor(s)>>
        /\ \A t \in Slots \ {s} : CallsMade(upstream', t) = CallsMade(upstream, t)
    BY <2>4, <2>5 DEF Mapped, SentFor
  <2>7. {t \in Slots : pc'[t] = "cancelled"} = {t \in Slots : pc[t] = "cancelled"}
    BY <1>3, <2>1 DEF CallVertical, IInv, TypeOK
  <2>8. UNCHANGED <<input, answer, history>>
    BY <1>3 DEF CallVertical
  <2>9. Promise!Send(s)
    BY <2>2, <2>3, <2>6, <2>7, <2>8 DEF Promise!Send
  <2>. QED  BY <2>9 DEF Promise!Next
<1>4. ASSUME NEW s \in Slots, Resume(s)  PROVE Promise!Next
  <2>1. /\ pc[s] = "replied" /\ reply[s] \in Replies
        /\ Answer(s, ResultOf(reply[s])) /\ UNCHANGED <<input, upstream>>
    BY <1>4 DEF Resume, RecordAndAnswer, IInv, TypeOK
  <2>2. Called(s)
    BY <2>1 DEF IInv, CallsFitStage
  <2>3. ResultOf(reply[s]) \in Results
    BY <2>1, FailureType DEF ResultOf, Replies, Results, ErrorCodes
  <2>. QED  BY <2>1, <2>2, <2>3, TellStep
<1>5. ASSUME NEW s \in Slots, AnswerBlocked(s)  PROVE Promise!Next
  <2>1. Handled(s) /\ ~PassesFilter(s)
    BY <1>5, HandlerSeesOwn DEF AnswerBlocked, IInv
  <2>2. ~MayCall(s) /\ Failure("TOOL_NOT_FOUND") \in RefusalsOf(input[s])
    BY <2>1, RefusalReasons DEF MayCall
  <2>. QED  BY <1>5, <2>1, <2>2, RefusalStep DEF AnswerBlocked, ErrorCodes
<1>6. ASSUME NEW s \in Slots,
             \/ InvokeUnknownTool(s) \/ InvokeRouteMissing(s)
             \/ InvokeInvalidArguments(s) \/ SchemaErrorEscapes(s)
             \/ InvokeVerticalUnavailable(s)
      PROVE  Promise!Next
  <2>1. Handled(s) /\ PassesFilter(s)
    BY <1>6, HandlerSeesOwn
    DEF InvokeUnknownTool, InvokeRouteMissing, InvokeInvalidArguments,
        SchemaErrorEscapes, InvokeVerticalUnavailable, Callable, Invoked, IInv
  <2>2. CASE InvokeUnknownTool(s)
    <3>1. ~MayCall(s)
      BY <2>2 DEF InvokeUnknownTool, HasTool, MayCall
    <3>2. Failure("TOOL_NOT_FOUND") \in RefusalsOf(input[s])
      BY <2>1, <2>2, RefusalReasons DEF InvokeUnknownTool
    <3>3. Answer(s, Failure("TOOL_NOT_FOUND")) /\ UNCHANGED <<input, upstream>>
      BY <2>2 DEF InvokeUnknownTool, Rejected, RecordAndAnswer
    <3>4. "TOOL_NOT_FOUND" \in ErrorCodes
      BY DEF ErrorCodes
    <3>. QED  BY <2>1, <3>1, <3>2, <3>3, <3>4, RefusalStep
  <2>3. CASE InvokeRouteMissing(s)
    <3>1. ~MayCall(s)
      BY <2>3, RoutesAssumption DEF InvokeRouteMissing, Route, GetRoute, MayCall
    <3>2. Failure("UPSTREAM_ERROR") \in RefusalsOf(input[s])
      BY <2>1, <2>3, RefusalReasons DEF InvokeRouteMissing
    <3>3. Answer(s, Failure("UPSTREAM_ERROR")) /\ UNCHANGED <<input, upstream>>
      BY <2>3 DEF InvokeRouteMissing, Rejected, RecordAndAnswer
    <3>4. "UPSTREAM_ERROR" \in ErrorCodes
      BY DEF ErrorCodes
    <3>. QED  BY <2>1, <3>1, <3>2, <3>3, <3>4, RefusalStep
  <2>4. CASE InvokeInvalidArguments(s)
    <3>1. ~MayCall(s)
      BY <2>4 DEF InvokeInvalidArguments, MayCall
    <3>2. Failure("INVALID_ARGUMENTS") \in RefusalsOf(input[s])
      BY <2>1, <2>4, RefusalReasons DEF InvokeInvalidArguments
    <3>3. Answer(s, Failure("INVALID_ARGUMENTS")) /\ UNCHANGED <<input, upstream>>
      BY <2>4 DEF InvokeInvalidArguments, Rejected, RecordAndAnswer
    <3>4. "INVALID_ARGUMENTS" \in ErrorCodes
      BY DEF ErrorCodes
    <3>. QED  BY <2>1, <3>1, <3>2, <3>3, <3>4, RefusalStep
  <2>5. CASE SchemaErrorEscapes(s)
    <3>1. ~MayCall(s)
      BY <2>5 DEF SchemaErrorEscapes, MayCall
    <3>2. Failure("EXCEPTION") \in RefusalsOf(input[s])
      BY <2>1, <2>5, RefusalReasons DEF SchemaErrorEscapes
    <3>3. Answer(s, Failure("EXCEPTION")) /\ UNCHANGED <<input, upstream>>
      BY <2>5 DEF SchemaErrorEscapes
    <3>4. "EXCEPTION" \in ErrorCodes
      BY DEF ErrorCodes
    <3>. QED  BY <2>1, <3>1, <3>2, <3>3, <3>4, RefusalStep
  <2>6. CASE InvokeVerticalUnavailable(s)
    <3>1. ~MayCall(s)
      BY <2>6 DEF InvokeVerticalUnavailable, Callable, MayCall
    <3>2. Failure("VERTICAL_UNAVAILABLE") \in RefusalsOf(input[s])
      BY <2>1, <2>6, RefusalReasons DEF InvokeVerticalUnavailable, Callable
    <3>3. Answer(s, Failure("VERTICAL_UNAVAILABLE")) /\ UNCHANGED <<input, upstream>>
      BY <2>6 DEF InvokeVerticalUnavailable, Rejected, RecordAndAnswer
    <3>4. "VERTICAL_UNAVAILABLE" \in ErrorCodes
      BY DEF ErrorCodes
    <3>. QED  BY <2>1, <3>1, <3>2, <3>3, <3>4, RefusalStep
  <2>. QED  BY <1>6, <2>2, <2>3, <2>4, <2>5, <2>6
<1>7. ASSUME UNCHANGED <<input, answer, history, upstream>>,
             {t \in Slots : pc'[t] = "cancelled"} = {t \in Slots : pc[t] = "cancelled"}
      PROVE  UNCHANGED Promise!vars
  BY <1>7 DEF Promise!vars
<1>8. ASSUME NEW s \in Slots, CaptureMetadata(s)  PROVE UNCHANGED Promise!vars
  BY <1>8, <1>7 DEF CaptureMetadata, IInv, TypeOK
<1>9. ASSUME NEW s \in Slots, NEW r \in Replies, VerticalReplies(s, r)
      PROVE  UNCHANGED Promise!vars
  BY <1>9, <1>7 DEF VerticalReplies, IInv, TypeOK
<1>10. CASE Shutdown \/ UNCHANGED vars
  BY <1>10, <1>7 DEF Shutdown, vars
<1>. QED
  BY <1>1, <1>2, <1>3, <1>4, <1>5, <1>6, <1>8, <1>9, <1>10 DEF Next, Turn

\* Before any request arrives ToolCall has seen none.
LEMMA RefinementInit == Init /\ Mapped => Promise!Init
<1>. SUFFICES ASSUME Init, Mapped PROVE Promise!Init
  OBVIOUS
<1>1. \A s \in Slots : pc[s] = "unused" /\ ~Called(s)
  BY DEF Init, Called
<1>2. \A s \in Slots : /\ CallsMade(upstream, s) = << >>
                       /\ OutcomesRecorded(history, s) = << >>
  BY <1>1 DEF Mapped, SentFor, RecordedFor
<1>3. {s \in Slots : pc[s] = "cancelled"} = {}
  BY <1>1
<1>. QED  BY <1>2, <1>3 DEF Init, Promise!Init

\* Whatever else is in flight, each request goes the way ToolCall says: it is
\* sent at most once, as the call its route and filter permit, refused only
\* for the reason there is, and answered and recorded in one step.
THEOREM Implementation == Spec => ImplementsToolCall
<1>1. IInv => Mapped
  BY Mapping DEF Mapped
<1>. QED
  BY <1>1, RefinementInit, RefinementStep, Invariance, PTL
  DEF Spec, ImplementsToolCall, Promise!Spec
=============================================================================
