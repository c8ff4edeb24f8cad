------------------------------ MODULE EventLog ------------------------------
(***************************************************************************)
(* The bounded list of invocation events and what the observability pages  *)
(* compute from a copy of it (app/observability/store.py), as operators.   *)
(* An event is a record with at least the fields vertical, ok,             *)
(* conversation_id and timestamp; latencies are left out.                  *)
(***************************************************************************)
EXTENDS Picks, Deque

CONSTANTS
    MaxEvents,  \* maxlen of the deque
    Unknown,    \* the bucket of events that were routed to no vertical
    Blank,      \* the empty text, which counts as false
    None

ASSUME MaxEventsAssumption == MaxEvents \in Nat \ {0}

\* Mutants: a deque without maxlen, and one that refuses when it is full.
RecordedUnbounded(events, event) == Append(events, event)
RecordedIfRoom(events, event) ==
    IF Len(events) < MaxEvents THEN Append(events, event) ELSE events

\* record(): the deque of the store has maxlen MaxEvents.
Recorded(events, event) == Pushed(events, event, MaxEvents)

Count(events, Test(_)) == Cardinality({i \in DOMAIN events : Test(events[i])})

-----------------------------------------------------------------------------
Bucket(event) ==
    IF event.vertical \in {None, Blank} THEN Unknown ELSE event.vertical

\* Mutant: events without a vertical are left out.
RoutedBuckets(events) ==
    {Bucket(events[i]) : i \in {j \in DOMAIN events : events[j].vertical # None}}

Buckets(events) == {Bucket(events[i]) : i \in DOMAIN events}

Totals(events) ==
    [calls |-> Len(events),
     successes |-> Count(events, LAMBDA e : e.ok),
     errors |-> Count(events, LAMBDA e : ~e.ok)]

SummariesByVertical(events) ==
    [v \in Buckets(events) |->
        Totals(Picked(events, {i \in DOMAIN events : Bucket(events[i]) = v}))]

MonitoringSummary(events) ==
    [total |-> Totals(events), by_vertical |-> SummariesByVertical(events)]

-----------------------------------------------------------------------------
FailuresOf(events, v) ==
    {i \in DOMAIN events : ~events[i].ok /\ events[i].vertical = v}

LastFailure(events, v) ==
    LET failures == FailuresOf(events, v) IN
    IF failures = {} THEN None
    ELSE events[CHOOSE i \in failures : \A j \in failures : j <= i]

VerticalStatus(stats) ==
    CASE stats.calls = 0 \/ stats.errors = 0 -> "green"
      [] stats.errors > 0 /\ stats.errors = stats.calls -> "red"
      [] OTHER -> "yellow"

NoCalls == [calls |-> 0, successes |-> 0, errors |-> 0]

\* Mutant: the totals come of the first copy, the last failure of the second.
HealthRowSwapped(first, second, v) ==
    LET by_vertical == SummariesByVertical(first)
        stats == IF v \in DOMAIN by_vertical THEN by_vertical[v] ELSE NoCalls
    IN [calls |-> stats.calls, errors |-> stats.errors,
        last_failure |-> LastFailure(second, v), status |-> VerticalStatus(stats)]

\* One row of vertical_summary: the last failure is looked up in one copy of
\* the events, the totals in a second one.
HealthRow(first, second, v) ==
    LET by_vertical == SummariesByVertical(second)
        stats == IF v \in DOMAIN by_vertical THEN by_vertical[v] ELSE NoCalls
    IN [calls |-> stats.calls, errors |-> stats.errors,
        last_failure |-> LastFailure(first, v), status |-> VerticalStatus(stats)]

-----------------------------------------------------------------------------
\* Mutant: failures are listed oldest first.
InRecordOrder(s) == s

Reversed(s) == [i \in 1..Len(s) |-> s[Len(s) + 1 - i]]

RecentFailures(events, limit) ==
    LET latest == Reversed(events)
        failures == Picked(latest, {i \in DOMAIN latest : ~latest[i].ok}) IN
    IF limit <= 0 THEN << >>
    ELSE SubSeq(failures, 1, IF limit < Len(failures) THEN limit ELSE Len(failures))

Conversations(events) ==
    {events[i].conversation_id : i \in DOMAIN events} \ {None, Blank}

\* What _events_by_conversation has for an id, if anything.
ConversationEvents(events, c) ==
    Picked(events, {i \in DOMAIN events :
                       c \in Conversations(events) /\ events[i].conversation_id = c})

LastSeen(events) ==
    LET times == {events[i].timestamp : i \in DOMAIN events}
    IN CHOOSE t \in times : \A u \in times : u <= t

ConversationSummary(events) ==
    [calls |-> Len(events), errors |-> Totals(events).errors,
     vertical_counts |-> [v \in {events[i].vertical : i \in DOMAIN events} \ {None} |->
                             Count(events, LAMBDA e : e.vertical = v)],
     last_seen |-> LastSeen(events)]

ConversationSummaries(events) ==
    [c \in Conversations(events) |->
        ConversationSummary(ConversationEvents(events, c))]

Detail(own) == [summary |-> ConversationSummary(own), events |-> own]

\* Mutant: the detail leaves out events of no vertical, as the counts do.
RoutedConversationDetail(events, c) ==
    LET own == Picked(events, {i \in DOMAIN events : events[i].vertical # None
                                  /\ events[i].conversation_id = c}) IN
    IF own = << >> THEN None ELSE Detail(own)

ConversationDetail(events, c) ==
    LET own == ConversationEvents(events, c) IN
    IF own = << >> THEN None ELSE Detail(own)
=============================================================================
