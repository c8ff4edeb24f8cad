------------------------- MODULE ObservabilityStore -------------------------
(***************************************************************************)
(* The event store between the event loop, which records one event at the  *)
(* end of every invocation, and the debug routes, which Starlette runs in  *)
(* threads of a pool because they are plain functions.  Each list_events() *)
(* copies the deque under the lock, element by element; vertical_summary   *)
(* copies it twice and holds the lock in between for neither.              *)
(***************************************************************************)
EXTENDS EventLog

CONSTANTS
    Readers,        \* threads that run debug routes
    Kinds,          \* what an event may be: its fields but the timestamp
    Verticals,      \* names of the configured clients
    Limits,         \* values of the limit parameter of recent-failures
    Ids,            \* conversation ids a detail page asks for
    MaxRecorded     \* bound: events recorded in a behaviour

ASSUME StoreAssumption ==
    /\ None \notin Readers /\ MaxRecorded \in Nat /\ Limits \subseteq Int
    /\ {None, Unknown, Blank} \cap Verticals = {}
    /\ {None, Blank} \cap Ids = {}

VARIABLES
    events,     \* the deque
    lock,       \* the thread that holds it, None if it is free
    history,    \* ghost: every event ever recorded
    call,       \* reader -> the request it serves
    step,       \* reader -> "idle", "waiting", "copying" or "answered"
    copy,       \* reader -> the list being copied
    taken,      \* reader -> the lists copied so far by this request
    answer,     \* reader -> what it answered
    called,     \* ghost: reader -> Len(history) when the request came in
    returned    \* ghost: reader -> Len(history) when it was answered

readerVars == <<call, step, copy, taken, answer, called, returned>>
vars == <<events, lock, history, readerVars>>

Requests == [op : {"monitoring", "verticals", "conversations"}]
            \cup [op : {"failures"}, limit : Limits]
            \cup [op : {"detail"}, id : Ids]

CopiesNeeded(request) == IF request.op = "verticals" THEN 2 ELSE 1

Respond(request, lists) ==
    CASE request.op = "monitoring" -> MonitoringSummary(lists[1])
      [] request.op = "verticals" ->
            [v \in Verticals |-> HealthRow(lists[1], lists[2], v)]
      [] request.op = "conversations" -> ConversationSummaries(lists[1])
      [] request.op = "failures" -> RecentFailures(lists[1], request.limit)
      [] request.op = "detail" -> ConversationDetail(lists[1], request.id)

Event(kind, time) ==
    [vertical |-> kind.vertical, ok |-> kind.ok,
     conversation_id |-> kind.conversation_id, timestamp |-> time]

ASSUME EventAssumption ==
    \A kind \in Kinds, time \in 1..MaxRecorded : Event(kind, time) # None

Events == {Event(kind, time) : kind \in Kinds, time \in 1..MaxRecorded}

\* None is no detail of a conversation.
ASSUME DetailAssumption ==
    \A n \in 1..MaxEvents : \A own \in [1..n -> Events] : Detail(own) # None

-----------------------------------------------------------------------------
Init == /\ events = << >>
        /\ lock = None
        /\ history = << >>
        /\ call = [r \in Readers |-> None]
        /\ step = [r \in Readers |-> "idle"]
        /\ copy = [r \in Readers |-> << >>]
        /\ taken = [r \in Readers |-> << >>]
        /\ answer = [r \in Readers |-> None]
        /\ called = [r \in Readers |-> 0]
        /\ returned = [r \in Readers |-> 0]

\* Mutant: record() does not take the lock.
RecordUnlocked(kind) ==
    /\ Len(history) < MaxRecorded
    /\ LET event == Event(kind, Len(history) + 1) IN
         /\ events' = Recorded(events, event)
         /\ history' = Append(history, event)
    /\ UNCHANGED <<lock, readerVars>>

\* record(): the append is atomic for whoever takes the lock.
Record(kind) ==
    /\ Len(history) < MaxRecorded
    /\ lock = None
    /\ LET event == Event(kind, Len(history) + 1) IN
         /\ events' = Recorded(events, event)
         /\ history' = Append(history, event)
    /\ UNCHANGED <<lock, readerVars>>

Accept(r, request) ==
    /\ step[r] \in {"idle", "answered"}
    /\ call' = [call EXCEPT ![r] = request]
    /\ called' = [called EXCEPT ![r] = Len(history)]
    /\ copy' = [copy EXCEPT ![r] = << >>]
    /\ taken' = [taken EXCEPT ![r] = << >>]
    /\ UNCHANGED <<events, lock, history>>

Request(r, request) ==
    /\ ~(request.op = "failures" /\ request.limit <= 0)
    /\ Accept(r, request)
    /\ step' = [step EXCEPT ![r] = "waiting"]
    /\ answer' = [answer EXCEPT ![r] = None]
    /\ returned' = [returned EXCEPT ![r] = 0]

\* recent_failures returns an empty list before it looks at the events.
RequestNoFailures(r, request) ==
    /\ request.op = "failures" /\ request.limit <= 0
    /\ Accept(r, request)
    /\ step' = [step EXCEPT ![r] = "answered"]
    /\ answer' = [answer EXCEPT ![r] = << >>]
    /\ returned' = [returned EXCEPT ![r] = Len(history)]

Acquire(r) ==
    /\ step[r] = "waiting"
    /\ lock = None
    /\ lock' = r
    /\ step' = [step EXCEPT ![r] = "copying"]
    /\ UNCHANGED <<events, history, call, copy, taken, answer, called, returned>>

CopyNext(r) ==
    /\ step[r] = "copying"
    /\ Len(copy[r]) < Len(events)
    /\ copy' = [copy EXCEPT ![r] = Append(@, events[Len(@) + 1])]
    /\ UNCHANGED <<events, lock, history, call, step, taken, answer, called, returned>>

CopyDone(r) == step[r] = "copying" /\ Len(copy[r]) >= Len(events)

LastCopy(r) == Len(taken[r]) + 1 = CopiesNeeded(call[r])

\* list_events() returns and the request needs the events once more.
ReleaseAndCopyAgain(r) ==
    /\ CopyDone(r) /\ ~LastCopy(r)
    /\ lock' = None
    /\ taken' = [taken EXCEPT ![r] = Append(@, copy[r])]
    /\ copy' = [copy EXCEPT ![r] = << >>]
    /\ step' = [step EXCEPT ![r] = "waiting"]
    /\ UNCHANGED <<events, history, call, answer, called, returned>>

\* list_events() returns and the answer is computed from the copies.
ReleaseAndAnswer(r) ==
    /\ CopyDone(r) /\ LastCopy(r)
    /\ lock' = None
    /\ answer' = [answer EXCEPT ![r] = Respond(call[r], Append(taken[r], copy[r]))]
    /\ taken' = [taken EXCEPT ![r] = << >>]
    /\ copy' = [copy EXCEPT ![r] = << >>]
    /\ step' = [step EXCEPT ![r] = "answered"]
    /\ returned' = [returned EXCEPT ![r] = Len(history)]
    /\ UNCHANGED <<events, history, call, called>>

Next == \/ \E kind \in Kinds : Record(kind)
        \/ \E r \in Readers :
              \/ \E request \in Requests : Request(r, request)
              \/ \E request \in Requests : RequestNoFailures(r, request)
              \/ Acquire(r) \/ CopyNext(r)
              \/ ReleaseAndCopyAgain(r) \/ ReleaseAndAnswer(r)

Spec == Init /\ [][Next]_vars

-----------------------------------------------------------------------------
(* Properties                                                              *)

\* The type of every variable; the deque never exceeds its maxlen.
TypeOK ==
    /\ events \in Seq(Events) /\ Len(events) <= MaxEvents
    /\ lock \in Readers \cup {None}
    /\ history \in Seq(Events) /\ Len(history) <= MaxRecorded
    /\ call \in [Readers -> Requests \cup {None}]
    /\ step \in [Readers -> {"idle", "waiting", "copying", "answered"}]
    /\ copy \in [Readers -> Seq(Events)]
    /\ taken \in [Readers -> Seq(Seq(Events))]
    /\ DOMAIN answer = Readers
    /\ called \in [Readers -> 0..MaxRecorded]
    /\ returned \in [Readers -> 0..MaxRecorded]

\* The events retained once k events had been recorded.
Window(k) ==
    SubSeq(history, (IF k > MaxEvents THEN k - MaxEvents ELSE 0) + 1, k)

\* The store always holds exactly the most recent events, in record order:
\* eviction takes the oldest one and only when the deque is full.
RetainsLatest == events = Window(Len(history))

\* Reads are linearizable: whatever the threads do, the answer of a request
\* that copies the events once is the one computed from the store as it was
\* at some moment between the request and the answer.
AnswersAreOfOneMoment ==
    \A r \in Readers :
        step[r] = "answered" /\ CopiesNeeded(call[r]) = 1 =>
            \E k \in called[r]..returned[r] :
                answer[r] = Respond(call[r], <<Window(k)>>)

\* vertical_summary copies twice, so a row may contradict itself: green with
\* a last failure, or errors without one.  Only events recorded during the
\* request explain that: in the first case the failure had left the store by
\* the answer, in the second all counted errors came in meanwhile.
HealthRowsExplained ==
    \A r \in Readers, v \in Verticals :
        step[r] = "answered" /\ call[r].op = "verticals" =>
            LET row == answer[r][v] IN
            /\ row.last_failure # None /\ row.errors = 0 =>
                  row.last_failure.timestamp <= returned[r] - MaxEvents
            /\ row.last_failure = None =>
                  row.errors <= Cardinality(
                      {i \in (called[r] + 1)..returned[r] :
                          ~history[i].ok /\ history[i].vertical = v})

\* The rows of the monitoring summary, with the one for calls that were
\* routed to no vertical, account for every call of the global total.
TotalsAddUp ==
    \A r \in Readers :
        step[r] = "answered" /\ call[r].op = "monitoring" =>
            LET rows == answer[r].by_vertical
                total == answer[r].total
                Units(field) == UNION {{v} \X (1..rows[v][field]) : v \in DOMAIN rows}
            IN /\ total.calls = total.successes + total.errors
               /\ \A field \in {"calls", "successes", "errors"} :
                     Cardinality(Units(field)) = total[field]

\* recent_failures lists failures only, newest first, and leaves a retained
\* failure out only when the list is full of newer ones.
FailuresNewestFirst ==
    \A r \in Readers :
        step[r] = "answered" /\ call[r].op = "failures" =>
            LET list == answer[r] IN
            /\ \A i \in DOMAIN list : ~list[i].ok
            /\ \A i, j \in DOMAIN list :
                  i < j => list[i].timestamp > list[j].timestamp
            /\ Len(list) < call[r].limit =>
                  \A i \in DOMAIN history :
                      ~history[i].ok /\ i <= called[r] /\ i > returned[r] - MaxEvents
                          => \E j \in DOMAIN list : list[j] = history[i]

\* The detail page of a conversation shows its own events, oldest first, and
\* misses an event recorded before the request only if it was evicted by the
\* time of the answer; a conversation just listed is answered "not found" for
\* no other reason.
DetailMissesOnlyTheEvicted ==
    \A r \in Readers :
        step[r] = "answered" /\ call[r].op = "detail" =>
            LET list == IF answer[r] = None THEN << >> ELSE answer[r].events IN
            /\ \A i \in DOMAIN list : list[i].conversation_id = call[r].id
            /\ \A i, j \in DOMAIN list :
                  i < j => list[i].timestamp < list[j].timestamp
            /\ \A i \in (returned[r] - MaxEvents + 1)..called[r] :
                  i >= 1 /\ history[i].conversation_id = call[r].id
                      => \E j \in DOMAIN list : list[j] = history[i]
=============================================================================
