---------------------- MODULE ObservabilityStoreProofs ----------------------
(***************************************************************************)
(* What the event store guarantees for any number of reader threads, any   *)
(* capacity of the deque and any number of events.                         *)
(***************************************************************************)
EXTENDS ObservabilityStore, DataProofs

(* What EventLog computes of a copy of the events.                         *)

\* The oldest of n events that the deque still holds.
Oldest(n) == (IF n > MaxEvents THEN n - MaxEvents ELSE 0) + 1

\* Recording keeps the deque the latest events: what it holds of n events,
\* with one more recorded, is what it holds of n + 1.
LEMMA RecordedIsLatest ==
    ASSUME NEW E, NEW h \in Seq(E), NEW e \in E
    PROVE  Recorded(SubSeq(h, Oldest(Len(h)), Len(h)), e)
             = SubSeq(Append(h, e), Oldest(Len(h) + 1), Len(h) + 1)
<1>1. Latest(h, MaxEvents) = SubSeq(h, Oldest(Len(h)), Len(h))
  BY DEF Latest, Oldest
<1>2. Latest(Append(h, e), MaxEvents) = SubSeq(Append(h, e), Oldest(Len(h) + 1), Len(h) + 1)
  BY AppendElements DEF Latest, Oldest
<1>. QED  BY <1>1, <1>2, PushedIsLatest, MaxEventsAssumption DEF Recorded

-----------------------------------------------------------------------------
\* The totals of picked events, as counts of their indices.
LEMMA PickedTotals ==
    ASSUME NEW s, NEW indices \in SUBSET Int, IsFiniteSet(indices)
    PROVE  /\ Totals(Picked(s, indices)).calls = Cardinality(indices)
           /\ Totals(Picked(s, indices)).successes = Cardinality({i \in indices : s[i].ok})
           /\ Totals(Picked(s, indices)).errors = Cardinality({i \in indices : ~s[i].ok})
<1>. DEFINE picked == Picked(s, indices)
            good == {i \in indices : s[i].ok}
            bad == {i \in indices : ~s[i].ok}
<1>1. /\ Len(picked) = Cardinality(indices) /\ DOMAIN picked = 1..Cardinality(indices)
      /\ \A k \in 1..Cardinality(indices) : picked[k] = s[Nth(indices, k)]
  BY PickedElements
<1>2. \A k \in 1..Cardinality(indices) : Nth(indices, k) \in indices
  BY NthHasRank
<1>. HIDE DEF picked
<1>3. /\ Totals(picked).calls = Len(picked)
      /\ Totals(picked).successes = Cardinality({k \in DOMAIN picked : picked[k].ok})
      /\ Totals(picked).errors = Cardinality({k \in DOMAIN picked : ~picked[k].ok})
  BY DEF Totals, Count
<1>4. {k \in DOMAIN picked : picked[k].ok}
        = {k \in 1..Cardinality(indices) : Nth(indices, k) \in good}
  BY <1>1, <1>2
<1>5. {k \in DOMAIN picked : ~picked[k].ok}
        = {k \in 1..Cardinality(indices) : Nth(indices, k) \in bad}
  BY <1>1, <1>2
<1>6. indices \cap good = good /\ indices \cap bad = bad
  OBVIOUS
<1>. HIDE DEF good, bad
<1>7. Totals(picked).successes = Cardinality(good) /\ Totals(picked).errors = Cardinality(bad)
  BY <1>3, <1>4, <1>5, <1>6, PickedCount
<1>. QED  BY <1>1, <1>3, <1>7 DEF picked, good, bad

\* The events of a bucket, the successes among them, and the errors.
CallsIn(s, v) == {i \in DOMAIN s : Bucket(s[i]) = v}
SuccessesIn(s, v) == {i \in DOMAIN s : Bucket(s[i]) = v /\ s[i].ok}
ErrorsIn(s, v) == {i \in DOMAIN s : Bucket(s[i]) = v /\ ~s[i].ok}

\* The events that a field of a bucket's row counts, and of the totals.
CountedIn(s, v, field) ==
    IF field = "calls" THEN CallsIn(s, v)
    ELSE IF field = "successes" THEN SuccessesIn(s, v) ELSE ErrorsIn(s, v)

Counted(s, field) ==
    {i \in DOMAIN s : field = "calls" \/ (IF s[i].ok THEN "successes" ELSE "errors") = field}

\* A row of the summary counts the events of its bucket.
LEMMA RowCounts ==
    ASSUME NEW E, NEW s \in Seq(E), NEW v \in Buckets(s)
    PROVE  /\ SummariesByVertical(s)[v].calls = Cardinality(CallsIn(s, v))
           /\ SummariesByVertical(s)[v].successes = Cardinality(SuccessesIn(s, v))
           /\ SummariesByVertical(s)[v].errors = Cardinality(ErrorsIn(s, v))
<1>1. SummariesByVertical(s)[v] = Totals(Picked(s, CallsIn(s, v)))
  BY DEF SummariesByVertical, CallsIn
<1>2. CallsIn(s, v) \in SUBSET Int /\ IsFiniteSet(CallsIn(s, v))
  BY IndicesType, FS_Subset DEF CallsIn
<1>3. /\ {i \in CallsIn(s, v) : s[i].ok} = SuccessesIn(s, v)
      /\ {i \in CallsIn(s, v) : ~s[i].ok} = ErrorsIn(s, v)
  BY DEF CallsIn, SuccessesIn, ErrorsIn
<1>4. /\ Totals(Picked(s, CallsIn(s, v))).calls = Cardinality(CallsIn(s, v))
      /\ Totals(Picked(s, CallsIn(s, v))).successes = Cardinality({i \in CallsIn(s, v) : s[i].ok})
      /\ Totals(Picked(s, CallsIn(s, v))).errors = Cardinality({i \in CallsIn(s, v) : ~s[i].ok})
  BY <1>2, PickedTotals
<1>. QED  BY <1>1, <1>3, <1>4

\* The rows of the summary add up to the totals.
LEMMA RowsAddUp ==
    ASSUME NEW E, NEW s \in Seq(E), NEW field \in {"calls", "successes", "errors"}
    PROVE  LET rows == SummariesByVertical(s) IN
           Cardinality(UNION {{v} \X (1..rows[v][field]) : v \in DOMAIN rows}) = Totals(s)[field]
<1>. DEFINE rows == SummariesByVertical(s)
            counted == Counted(s, field)
            group == [i \in counted |-> Bucket(s[i])]
            size == [v \in Buckets(s) |-> rows[v][field]]
<1>1. Totals(s)[field] = Cardinality(counted)
  <2>1. /\ Totals(s).calls = Len(s)
        /\ Totals(s).successes = Cardinality({i \in DOMAIN s : s[i].ok})
        /\ Totals(s).errors = Cardinality({i \in DOMAIN s : ~s[i].ok})
    BY DEF Totals, Count
  <2>2. CASE field = "calls"
    <3>1. counted = DOMAIN s
      BY <2>2 DEF Counted
    <3>. QED  BY <2>1, <2>2, <3>1, IndicesType
  <2>3. CASE field = "successes"
    <3>1. counted = {i \in DOMAIN s : s[i].ok}
      BY <2>3 DEF Counted
    <3>. QED  BY <2>1, <2>3, <3>1
  <2>4. CASE field = "errors"
    <3>1. counted = {i \in DOMAIN s : ~s[i].ok}
      BY <2>4 DEF Counted
    <3>. QED  BY <2>1, <2>4, <3>1
  <2>. QED  BY <2>2, <2>3, <2>4
<1>2. counted \in SUBSET Int /\ IsFiniteSet(counted)
  BY IndicesType, FS_Subset DEF Counted
<1>3. group \in [counted -> Buckets(s)]
  BY DEF Buckets, Counted
<1>4. ASSUME NEW v \in Buckets(s)  PROVE size[v] = Cardinality(Members(counted, group, v))
  <2>1. Members(counted, group, v) = CountedIn(s, v, field)
    BY DEF Members, Counted, CountedIn, CallsIn, SuccessesIn, ErrorsIn
  <2>2. size[v] = rows[v][field]
    OBVIOUS
  <2>. HIDE DEF size, group, counted, rows
  <2>3. rows[v][field] = Cardinality(CountedIn(s, v, field))
    BY RowCounts DEF CountedIn, rows
  <2>. QED  BY <2>1, <2>2, <2>3
<1>5. {{v} \X (1..rows[v][field]) : v \in DOMAIN rows} = {{v} \X (1..size[v]) : v \in Buckets(s)}
  BY DEF SummariesByVertical
<1>. HIDE DEF rows, counted, group, size
<1>6. Cardinality(UnitsOf(Buckets(s), size)) = Cardinality(counted)
  BY <1>2, <1>3, <1>4, CountByGroup
<1>7. Cardinality(UNION {{v} \X (1..rows[v][field]) : v \in DOMAIN rows}) = Totals(s)[field]
  BY <1>1, <1>5, <1>6 DEF UnitsOf
<1>. QED  BY <1>7 DEF rows

\* Every event is a success or an error.
LEMMA TotalsSplit ==
    ASSUME NEW E, NEW s \in Seq(E)
    PROVE  Totals(s).calls = Totals(s).successes + Totals(s).errors
<1>. DEFINE good == {i \in DOMAIN s : s[i].ok}
            bad == {i \in DOMAIN s : ~s[i].ok}
<1>1. /\ Totals(s).calls = Len(s) /\ Totals(s).successes = Cardinality(good)
      /\ Totals(s).errors = Cardinality(bad)
  BY DEF Totals, Count
<1>2. good \cup bad = DOMAIN s /\ good \cap bad = {}
  OBVIOUS
<1>3. IsFiniteSet(good) /\ IsFiniteSet(bad) /\ Cardinality(DOMAIN s) = Len(s)
  BY IndicesType, FS_Subset
<1>. HIDE DEF good, bad
<1>4. Cardinality(DOMAIN s) = Cardinality(good) + Cardinality(bad) - 0
  <2>1. Cardinality(good \cup bad)
          = Cardinality(good) + Cardinality(bad) - Cardinality(good \cap bad)
    BY <1>3, FS_Union
  <2>. QED  BY <1>2, <2>1, FS_EmptySet
<1>5. Cardinality(good) \in Nat /\ Cardinality(bad) \in Nat
  BY <1>3, FS_CardinalityType
<1>. QED  BY <1>1, <1>3, <1>4, <1>5

-----------------------------------------------------------------------------
\* The last failure of a vertical is one of its failures, if it has any.
LEMMA LastFailureIsFailure ==
    ASSUME NEW E, NEW s \in Seq(E), NEW v
    PROVE  /\ FailuresOf(s, v) = {} => LastFailure(s, v) = None
           /\ FailuresOf(s, v) # {} => \E i \in FailuresOf(s, v) : LastFailure(s, v) = s[i]
<1>. DEFINE failures == FailuresOf(s, v)
<1>1. failures \in SUBSET Int /\ IsFiniteSet(failures)
  BY IndicesType, FS_Subset DEF FailuresOf
<1>. HIDE DEF failures
<1>2. failures # {} => \E i \in failures : \A j \in failures : j <= i
  BY <1>1, GreatestIndex
<1>3. /\ failures = {} => LastFailure(s, v) = None
      /\ failures # {} =>
            LastFailure(s, v) = s[CHOOSE i \in failures : \A j \in failures : j <= i]
  BY DEF LastFailure, failures
<1>. QED  BY <1>2, <1>3 DEF failures

\* A row counts the errors of its bucket in the second copy, and shows the
\* last failure of the first one.
LEMMA HealthRowCounts ==
    ASSUME NEW E, NEW first, NEW second \in Seq(E), NEW v
    PROVE  /\ HealthRow(first, second, v).last_failure = LastFailure(first, v)
           /\ HealthRow(first, second, v).errors = Cardinality(ErrorsIn(second, v))
<1>. DEFINE row == HealthRow(first, second, v)
<1>1. DOMAIN SummariesByVertical(second) = Buckets(second)
  BY DEF SummariesByVertical
<1>2. row.last_failure = LastFailure(first, v)
  BY DEF HealthRow
<1>3. CASE v \in Buckets(second)
  <2>1. row.errors = SummariesByVertical(second)[v].errors
    BY <1>1, <1>3 DEF HealthRow
  <2>. QED  BY <1>2, <1>3, <2>1, RowCounts
<1>4. CASE v \notin Buckets(second)
  <2>1. row.errors = 0
    BY <1>1, <1>4 DEF HealthRow, NoCalls
  <2>2. ErrorsIn(second, v) = {}
    BY <1>4 DEF Buckets, ErrorsIn
  <2>. QED  BY <1>2, <2>1, <2>2, FS_EmptySet
<1>. QED  BY <1>3, <1>4

-----------------------------------------------------------------------------
\* pos tells where in s the failures of a list stand: from the last one back,
\* and each of them if the list is not full.
LatestFirst(list, s, limit, pos) ==
    /\ \A j \in DOMAIN list : list[j] = s[pos[j]] /\ ~s[pos[j]].ok
    /\ \A i, j \in DOMAIN list : i < j => pos[i] > pos[j]
    /\ Len(list) < limit =>
          \A i \in DOMAIN s : ~s[i].ok => \E j \in DOMAIN list : pos[j] = i

\* The recent failures stand in the log in the opposite order, and only a
\* full list leaves one out.
LEMMA RecentFailuresOfLog ==
    ASSUME NEW E, NEW s \in Seq(E), NEW limit \in Nat \ {0},
           NEW list, list = RecentFailures(s, limit)
    PROVE  \E pos \in [DOMAIN list -> DOMAIN s] : LatestFirst(list, s, limit, pos)
<1>. DEFINE latest == Reversed(s)
            failed == {i \in DOMAIN latest : ~latest[i].ok}
            m == Cardinality(failed)
            failures == Picked(latest, failed)
            n == IF limit < m THEN limit ELSE m
            pos == [j \in 1..n |-> Len(s) + 1 - Nth(failed, j)]
<1>1. DOMAIN s = 1..Len(s) /\ Len(s) \in Nat
  BY IndicesType
<1>2. /\ DOMAIN latest = 1..Len(s)
      /\ \A i \in 1..Len(s) : latest[i] = s[Len(s) + 1 - i] /\ Len(s) + 1 - i \in 1..Len(s)
  BY <1>1 DEF Reversed
<1>. HIDE DEF latest
<1>3. failed \in SUBSET Int /\ IsFiniteSet(failed) /\ m \in Nat
  <2>1. failed \in SUBSET 1..Len(s) /\ IsFiniteSet(1..Len(s))
    BY <1>1, <1>2, FS_Interval
  <2>. QED  BY <2>1, FS_Subset, FS_CardinalityType
<1>4. \A i \in failed : i \in 1..Len(s) /\ ~latest[i].ok
  BY <1>2
<1>5. \A i \in 1..Len(s) : ~latest[i].ok => i \in failed
  BY <1>2
<1>6. list = SubSeq(failures, 1, n)
  <2>1. list = IF limit <= 0 THEN << >>
               ELSE SubSeq(failures, 1, IF limit < Len(failures) THEN limit ELSE Len(failures))
    BY DEF RecentFailures, latest
  <2>2. Len(failures) = m
    BY <1>3, PickedElements
  <2>. HIDE DEF failures, m
  <2>. QED  BY <2>1, <2>2
<1>. HIDE DEF failed
<1>7. n \in Nat /\ n <= m /\ n <= limit
  BY <1>3
<1>8. \A j \in 1..m : /\ Nth(failed, j) \in failed
                      /\ failures[j] = latest[Nth(failed, j)]
  BY <1>3, NthHasRank, PickedElements
<1>9. Len(list) = n /\ DOMAIN list = 1..n /\ \A j \in 1..n : list[j] = failures[j]
  <2>. HIDE DEF n, m, failures
  <2>1. \A j \in 1..n : j \in 1..m
    BY <1>3, <1>7
  <2>2. list = [j \in 1..n |-> failures[j]]
    BY <1>6, <1>7
  <2>. QED  BY <1>7, <2>2
<1>10. ASSUME NEW j \in 1..n
       PROVE  /\ pos[j] \in DOMAIN s /\ pos[j] = Len(s) + 1 - Nth(failed, j)
              /\ list[j] = s[pos[j]] /\ ~s[pos[j]].ok
  <2>1. j \in 1..m
    BY <1>3, <1>7
  <2>. QED  BY <1>1, <1>2, <1>4, <1>8, <1>9, <2>1
<1>11. ASSUME NEW i \in 1..n, NEW j \in 1..n, i < j  PROVE pos[i] > pos[j]
  <2>1. i \in 1..m /\ j \in 1..m
    BY <1>3, <1>7
  <2>2. Nth(failed, i) < Nth(failed, j)
    BY <1>3, <1>11, <2>1, NthGrows
  <2>3. Nth(failed, i) \in 1..Len(s) /\ Nth(failed, j) \in 1..Len(s)
    BY <1>4, <1>8, <2>1
  <2>. QED  BY <1>1, <1>10, <2>2, <2>3
<1>12. ASSUME n < limit, NEW i \in DOMAIN s, ~s[i].ok  PROVE \E j \in 1..n : pos[j] = i
  <2>. DEFINE q == Len(s) + 1 - i
  <2>1. q \in 1..Len(s) /\ Len(s) + 1 - q = i
    BY <1>1
  <2>2. q \in failed
    BY <1>2, <1>5, <1>12, <2>1
  <2>3. Rank(failed, q) \in 1..m /\ Nth(failed, Rank(failed, q)) = q
    BY <1>3, <2>2, RankType, NthHasRank
  <2>4. n = m
    BY <1>3, <1>12
  <2>. HIDE DEF q
  <2>. QED  BY <1>10, <2>1, <2>3, <2>4
<1>. HIDE DEF n, pos, m
<1>13. pos \in [1..n -> DOMAIN s]
  BY <1>10 DEF pos
<1>14. LatestFirst(list, s, limit, pos)
  BY <1>9, <1>10, <1>11, <1>12 DEF LatestFirst
<1>15. pos \in [DOMAIN list -> DOMAIN s]
  BY <1>9, <1>13
<1>. QED  BY <1>14, <1>15

-----------------------------------------------------------------------------
\* An event recorded within the bound is an event.
LEMMA EventIsEvent ==
    ASSUME TypeOK, Len(history) < MaxRecorded, NEW kind \in Kinds
    PROVE  Event(kind, Len(history) + 1) \in Events
<1>1. Len(history) + 1 \in 1..MaxRecorded
  BY StoreAssumption DEF TypeOK
<1>. QED  BY <1>1 DEF Events

\* The initial values have their types.
LEMMA TypeInit == Init => TypeOK
BY MaxEventsAssumption, StoreAssumption DEF Init, TypeOK

\* Every step of the recorder and of the readers keeps the types.
LEMMA TypeStep == TypeOK /\ [Next]_vars => TypeOK'
<1>. SUFFICES ASSUME TypeOK, [Next]_vars PROVE TypeOK'
  OBVIOUS
<1>1. Len(history) \in 0..MaxRecorded
  BY StoreAssumption DEF TypeOK
<1>2. ASSUME NEW kind \in Kinds, Record(kind)  PROVE TypeOK'
  <2>. DEFINE event == Event(kind, Len(history) + 1)
  <2>1. event \in Events
    BY <1>2, EventIsEvent DEF Record
  <2>2. events' = Recorded(events, event) /\ history' = Append(history, event)
    BY <1>2 DEF Record
  <2>. HIDE DEF event
  <2>3. events' \in Seq(Events) /\ Len(events') <= MaxEvents
    BY <2>1, <2>2, BoundedAppend, MaxEventsAssumption DEF Recorded, Pushed, TypeOK
  <2>4. history' \in Seq(Events) /\ Len(history') <= MaxRecorded
    BY <1>2, <2>1, <2>2, StoreAssumption DEF TypeOK, Record
  <2>. QED  BY <1>2, <2>3, <2>4 DEF Record, readerVars, TypeOK
<1>3. ASSUME NEW r \in Readers, NEW request \in Requests, Request(r, request)
      PROVE  TypeOK'
  BY <1>1, <1>3, StoreAssumption, SMTT(30) DEF Request, Accept, TypeOK
<1>4. ASSUME NEW r \in Readers, NEW request \in Requests, RequestNoFailures(r, request)
      PROVE  TypeOK'
  BY <1>1, <1>4, StoreAssumption, SMTT(30) DEF RequestNoFailures, Accept, TypeOK
<1>5. ASSUME NEW r \in Readers, Acquire(r)  PROVE TypeOK'
  BY <1>5 DEF Acquire, TypeOK
<1>6. ASSUME NEW r \in Readers, CopyNext(r)  PROVE TypeOK'
  <2>1. copy[r] \in Seq(Events) /\ events \in Seq(Events)
    BY DEF TypeOK
  <2>2. Len(copy[r]) + 1 \in 1..Len(events)
    BY <1>6, <2>1 DEF CopyNext
  <2>3. Append(copy[r], events[Len(copy[r]) + 1]) \in Seq(Events)
    BY <2>1, <2>2
  <2>4. copy' \in [Readers -> Seq(Events)]
    BY <1>6, <2>3 DEF CopyNext, TypeOK
  <2>. QED  BY <1>6, <2>4 DEF CopyNext, TypeOK
<1>7. ASSUME NEW r \in Readers, ReleaseAndCopyAgain(r)  PROVE TypeOK'
  <2>1. taken[r] \in Seq(Seq(Events)) /\ copy[r] \in Seq(Events)
    BY DEF TypeOK
  <2>2. Append(taken[r], copy[r]) \in Seq(Seq(Events))
    BY <2>1
  <2>3. taken' \in [Readers -> Seq(Seq(Events))] /\ copy' \in [Readers -> Seq(Events)]
    BY <1>7, <2>2 DEF ReleaseAndCopyAgain, TypeOK
  <2>. QED  BY <1>7, <2>3 DEF ReleaseAndCopyAgain, TypeOK
<1>8. ASSUME NEW r \in Readers, ReleaseAndAnswer(r)  PROVE TypeOK'
  BY <1>1, <1>8, StoreAssumption DEF ReleaseAndAnswer, TypeOK
<1>9. CASE UNCHANGED vars
  BY <1>9 DEF vars, readerVars, TypeOK
<1>. QED  BY <1>2, <1>3, <1>4, <1>5, <1>6, <1>7, <1>8, <1>9 DEF Next

\* Every variable keeps its type, and the deque its bound.
THEOREM TypeCorrect == Spec => []TypeOK
BY TypeInit, TypeStep, PTL DEF Spec

-----------------------------------------------------------------------------
(* The inductive invariant: the thread that copies holds the lock, what it *)
(* has copied is how the deque begins, and the deque is the latest events. *)

HolderCopies == \A r \in Readers : step[r] = "copying" <=> lock = r

CopyIsPrefix ==
    \A r \in Readers :
        /\ step[r] = "waiting" => copy[r] = << >>
        /\ step[r] = "copying" =>
             /\ Len(copy[r]) <= Len(events)
             /\ \A i \in 1..Len(copy[r]) : copy[r][i] = events[i]

Single(r) == CopiesNeeded(call[r]) = 1

FirstCopy ==
    \A r \in Readers :
        step[r] \in {"waiting", "copying"} /\ Single(r) => taken[r] = << >>

CalledBefore == \A r \in Readers : called[r] <= Len(history)

Explained(r) ==
    /\ returned[r] <= Len(history)
    /\ \E k \in called[r]..returned[r] : answer[r] = Respond(call[r], <<Window(k)>>)

AnswersExplained ==
    \A r \in Readers : step[r] = "answered" /\ Single(r) => Explained(r)

IInv == /\ TypeOK /\ RetainsLatest
        /\ HolderCopies /\ CopyIsPrefix /\ FirstCopy
        /\ CalledBefore /\ AnswersExplained

\* The invariant holds of an empty store without requests.
LEMMA IInvInit == Init => IInv
<1>. SUFFICES ASSUME Init PROVE IInv
  OBVIOUS
<1>1. Window(Len(history)) = << >>
  <2>1. Len(history) = 0
    BY DEF Init
  <2>. QED  BY <2>1, MaxEventsAssumption, SubSeqEmpty DEF Window
<1>2. RetainsLatest
  BY <1>1 DEF Init, RetainsLatest
<1>3. HolderCopies
  BY StoreAssumption DEF Init, HolderCopies
<1>4. CopyIsPrefix /\ FirstCopy /\ CalledBefore /\ AnswersExplained
  BY DEF Init, CopyIsPrefix, FirstCopy, CalledBefore, AnswersExplained
<1>. QED  BY <1>2, <1>3, <1>4, TypeInit DEF IInv

\* Recording changes no window of the past.
LEMMA WindowStable ==
    ASSUME TypeOK, NEW kind \in Kinds, Record(kind), NEW k \in 0..Len(history)
    PROVE  Window(k)' = Window(k)
<1>. DEFINE event == Event(kind, Len(history) + 1)
<1>1. event \in Events /\ history' = Append(history, event)
  BY EventIsEvent DEF Record
<1>. HIDE DEF event
<1>2. history \in Seq(Events) /\ Len(history) \in Nat
  BY DEF TypeOK
<1>3. (IF k > MaxEvents THEN k - MaxEvents ELSE 0) + 1 \in 1..(k + 1)
  BY <1>2, MaxEventsAssumption
<1>. QED  BY <1>1, <1>2, <1>3, PartOfLonger DEF Window

\* Recording keeps the deque the window of the latest events.
LEMMA RecordRetains ==
    ASSUME TypeOK, RetainsLatest, NEW kind \in Kinds, Record(kind)
    PROVE  RetainsLatest'
<1>. DEFINE event == Event(kind, Len(history) + 1)
<1>1. /\ event \in Events /\ history' = Append(history, event)
      /\ events' = Recorded(events, event)
  BY EventIsEvent DEF Record
<1>. HIDE DEF event
<1>2. history \in Seq(Events) /\ Len(history') = Len(history) + 1
  BY <1>1, AppendElements DEF TypeOK
<1>3. events = SubSeq(history, Oldest(Len(history)), Len(history))
  BY DEF RetainsLatest, Window, Oldest
<1>4. events' = SubSeq(history', Oldest(Len(history) + 1), Len(history) + 1)
  BY <1>1, <1>2, <1>3, RecordedIsLatest
<1>. QED  BY <1>2, <1>4 DEF RetainsLatest, Window, Oldest

\* A step that leaves the store alone explains the answers it keeps.
LEMMA ExplainedStays ==
    ASSUME NEW r \in Readers, Explained(r), history' = history,
           called'[r] = called[r], returned'[r] = returned[r],
           call'[r] = call[r], answer'[r] = answer[r]
    PROVE  Explained(r)'
<1>1. \A k : Window(k)' = Window(k)
  BY DEF Window
<1>. QED  BY <1>1 DEF Explained

\* A completed copy is the deque, so the window of this very moment.
LEMMA CopyComplete ==
    ASSUME IInv, NEW r \in Readers, CopyDone(r)
    PROVE  copy[r] = Window(Len(history))
<1>1. copy[r] \in Seq(Events) /\ events \in Seq(Events)
  BY DEF IInv, TypeOK
<1>2. /\ Len(copy[r]) = Len(events)
      /\ \A i \in 1..Len(copy[r]) : copy[r][i] = events[i]
  BY <1>1 DEF IInv, CopyIsPrefix, CopyDone
<1>3. copy[r] = events
  BY <1>1, <1>2, SeqEqual
<1>. QED  BY <1>3 DEF IInv, RetainsLatest

\* A list of at most no failures is empty whatever the events are.
LEMMA NoFailuresAnswer ==
    ASSUME NEW request, request.op = "failures", request.limit <= 0, NEW window
    PROVE  Respond(request, <<window>>) = << >>
<1>1. Respond(request, <<window>>) = RecentFailures(<<window>>[1], request.limit)
  BY DEF Respond
<1>2. RecentFailures(<<window>>[1], request.limit) = << >>
  BY Zenon DEF RecentFailures
<1>. QED  BY <1>1, <1>2

\* A step does not touch reader r.
ReaderUnchanged(r) ==
    /\ step'[r] = step[r] /\ call'[r] = call[r] /\ copy'[r] = copy[r]
    /\ taken'[r] = taken[r] /\ answer'[r] = answer[r]
    /\ called'[r] = called[r] /\ returned'[r] = returned[r]

\* The part of the invariant that is about one reader.
ReaderInv(r) ==
    /\ step[r] = "copying" <=> lock = r
    /\ step[r] = "waiting" => copy[r] = << >>
    /\ step[r] = "copying" =>
         /\ Len(copy[r]) <= Len(events)
         /\ \A i \in 1..Len(copy[r]) : copy[r][i] = events[i]
    /\ step[r] \in {"waiting", "copying"} /\ Single(r) => taken[r] = << >>
    /\ called[r] <= Len(history)
    /\ step[r] = "answered" /\ Single(r) => Explained(r)

\* The invariant is about the store and about each reader by itself.
LEMMA ByReader ==
    IInv <=> TypeOK /\ RetainsLatest /\ \A r \in Readers : ReaderInv(r)
BY DEF IInv, HolderCopies, CopyIsPrefix, FirstCopy, CalledBefore, AnswersExplained,
       ReaderInv

\* The same of the next state.
LEMMA FromReaders ==
    ASSUME TypeOK', RetainsLatest', \A r \in Readers : ReaderInv(r)'
    PROVE  IInv'
BY DEF IInv, HolderCopies, CopyIsPrefix, FirstCopy, CalledBefore, AnswersExplained,
       ReaderInv

\* A reader that a step of another one does not touch stays as described.
LEMMA OtherReader ==
    ASSUME NEW r \in Readers, ReaderInv(r), ReaderUnchanged(r),
           lock' = r <=> lock = r,
           history' = history, events' = events
    PROVE  ReaderInv(r)'
<1>1. Single(r)' <=> Single(r)
  BY DEF ReaderUnchanged, Single, CopiesNeeded
<1>2. Explained(r) => Explained(r)'
  BY ExplainedStays DEF ReaderUnchanged
<1>. QED  BY <1>1, <1>2 DEF ReaderInv, ReaderUnchanged

\* Recording keeps the invariant: nobody copies meanwhile, and the moments
\* that explain answers stay as they were.
LEMMA RecordStep ==
    ASSUME IInv, TypeOK', NEW kind \in Kinds, Record(kind)
    PROVE  IInv'
<1>1. RetainsLatest'
  BY RecordRetains DEF IInv
<1>2. Len(history') = Len(history) + 1 /\ Len(history) \in Nat
  BY AppendElements DEF Record, IInv, TypeOK
<1>3. ASSUME NEW r \in Readers  PROVE ReaderInv(r)'
  <2>1. ReaderInv(r) /\ ReaderUnchanged(r) /\ lock' = lock /\ lock = None
    BY <1>3, ByReader DEF Record, readerVars, ReaderUnchanged
  <2>2. step[r] # "copying"
    BY <2>1, StoreAssumption DEF ReaderInv
  <2>3. Single(r)' <=> Single(r)
    BY <2>1 DEF ReaderUnchanged, Single, CopiesNeeded
  <2>4. called[r] \in Nat /\ returned[r] \in Nat
    BY StoreAssumption DEF IInv, TypeOK
  <2>5. ASSUME Explained(r)  PROVE Explained(r)'
    <3>1. PICK k \in called[r]..returned[r] : answer[r] = Respond(call[r], <<Window(k)>>)
      BY <2>5 DEF Explained
    <3>2. k \in 0..Len(history)
      BY <1>2, <2>4, <2>5, <3>1 DEF Explained
    <3>3. Window(k)' = Window(k)
      BY <3>2, WindowStable DEF IInv
    <3>4. answer'[r] = Respond(call'[r], <<Window(k)'>>)
      BY <2>1, <3>1, <3>3 DEF ReaderUnchanged
    <3>5. k \in called'[r]..returned'[r] /\ returned'[r] <= Len(history')
      BY <1>2, <2>1, <2>4, <2>5, <3>1 DEF ReaderUnchanged, Explained
    <3>. QED  BY <3>4, <3>5 DEF Explained
  <2>6. called'[r] <= Len(history')
    BY <1>2, <2>1, <2>4 DEF ReaderInv, ReaderUnchanged
  <2>. QED  BY <2>1, <2>2, <2>3, <2>5, <2>6 DEF ReaderInv, ReaderUnchanged
<1>. QED  BY <1>1, <1>3, FromReaders

\* A reader that answers is explained by the moment it released the lock.
LEMMA AnswerStep ==
    ASSUME IInv, TypeOK', NEW r \in Readers, ReleaseAndAnswer(r)
    PROVE  ReaderInv(r)'
<1>1. /\ step'[r] = "answered" /\ call'[r] = call[r] /\ lock' = None
      /\ called'[r] = called[r] /\ returned'[r] = Len(history)
      /\ answer'[r] = Respond(call[r], Append(taken[r], copy[r]))
      /\ history' = history
  BY DEF ReleaseAndAnswer, IInv, TypeOK
<1>2. ReaderInv(r) /\ step[r] = "copying" /\ copy[r] = Window(Len(history))
  BY ByReader, CopyComplete DEF ReleaseAndAnswer, CopyDone
<1>3. called[r] \in Nat /\ Len(history) \in Nat /\ called[r] <= Len(history)
  BY <1>2, StoreAssumption DEF IInv, TypeOK, ReaderInv
<1>4. Single(r)' <=> Single(r)
  BY <1>1 DEF Single, CopiesNeeded
<1>5. ASSUME Single(r)  PROVE Explained(r)'
  <2>1. taken[r] = << >>
    BY <1>2, <1>5 DEF ReaderInv
  <2>2. Append(taken[r], copy[r]) = <<Window(Len(history))>>
    BY <1>2, <2>1
  <2>3. \A k : Window(k)' = Window(k)
    BY <1>1 DEF Window
  <2>4. Len(history) \in called'[r]..returned'[r]
    BY <1>1, <1>3
  <2>5. answer'[r] = Respond(call'[r], <<Window(Len(history))>>)
    BY <1>1, <2>2
  <2>6. \E k \in called'[r]..returned'[r] :
            answer'[r] = Respond(call'[r], <<Window(k)'>>)
    BY <2>3, <2>4, <2>5
  <2>. QED  BY <1>1, <1>3, <2>6 DEF Explained
<1>. QED  BY <1>1, <1>3, <1>4, <1>5, StoreAssumption DEF ReaderInv

\* A step of one reader keeps the invariant if it keeps that reader's part,
\* the store, and the lock from everyone else.
LEMMA ReaderStep ==
    ASSUME IInv, TypeOK', NEW r \in Readers, ReaderInv(r)',
           history' = history, events' = events,
           \A q \in Readers \ {r} : ReaderUnchanged(q) /\ (lock' = q <=> lock = q)
    PROVE  IInv'
<1>1. ASSUME NEW q \in Readers  PROVE ReaderInv(q)'
  <2>1. CASE q = r
    BY <2>1
  <2>2. CASE q # r
    BY <2>2, ByReader, OtherReader
  <2>. QED  BY <2>1, <2>2
<1>2. RetainsLatest'
  BY DEF IInv, RetainsLatest, Window
<1>. QED  BY <1>1, <1>2, FromReaders

\* Lengths are numbers.
LEMMA LengthsType == TypeOK => Len(history) \in Nat /\ Len(events) \in Nat
BY DEF TypeOK

\* Every step keeps the invariant.
LEMMA IInvStep == IInv /\ [Next]_vars => IInv'
<1>. SUFFICES ASSUME IInv, [Next]_vars PROVE IInv'
  OBVIOUS
<1>. TypeOK /\ TypeOK'
  BY TypeStep DEF IInv
<1>0. /\ Len(history) \in Nat /\ Len(events) \in Nat
      /\ \A r \in Readers : ReaderInv(r)
  BY ByReader, LengthsType
<1>1. ASSUME NEW r \in Readers, NEW request \in Requests, Request(r, request)
      PROVE  IInv'
  <2>1. /\ step'[r] = "waiting" /\ copy'[r] = << >> /\ taken'[r] = << >>
        /\ called'[r] = Len(history) /\ history' = history /\ events' = events
        /\ lock' = lock
    BY <1>1 DEF Request, Accept, TypeOK
  <2>2. lock # r
    BY <1>0, <1>1 DEF ReaderInv, Request, Accept
  <2>3. ReaderInv(r)'
    BY <1>0, <2>1, <2>2 DEF ReaderInv
  <2>4. \A q \in Readers \ {r} : ReaderUnchanged(q)
    BY <1>1 DEF Request, Accept, TypeOK, ReaderUnchanged
  <2>. QED  BY <2>1, <2>3, <2>4, ReaderStep
<1>2. ASSUME NEW r \in Readers, NEW request \in Requests, RequestNoFailures(r, request)
      PROVE  IInv'
  <2>1. /\ step'[r] = "answered" /\ call'[r] = request /\ answer'[r] = << >>
        /\ called'[r] = Len(history) /\ returned'[r] = Len(history)
        /\ history' = history /\ events' = events /\ lock' = lock
    BY <1>2 DEF RequestNoFailures, Accept, TypeOK
  <2>2. lock # r
    BY <1>0, <1>2 DEF ReaderInv, RequestNoFailures, Accept
  <2>3. \A window : Respond(request, <<window>>) = << >>
    BY <1>2, NoFailuresAnswer DEF RequestNoFailures
  <2>4. \E k \in called'[r]..returned'[r] :
            answer'[r] = Respond(call'[r], <<Window(k)'>>)
    BY <1>0, <2>1, <2>3
  <2>5. Explained(r)'
    BY <1>0, <2>1, <2>4 DEF Explained
  <2>6. ReaderInv(r)'
    BY <1>0, <2>1, <2>2, <2>5 DEF ReaderInv
  <2>7. \A q \in Readers \ {r} : ReaderUnchanged(q)
    BY <1>2 DEF RequestNoFailures, Accept, TypeOK, ReaderUnchanged
  <2>. QED  BY <2>1, <2>6, <2>7, ReaderStep
<1>3. ASSUME NEW r \in Readers, Acquire(r)  PROVE IInv'
  <2>1. /\ step[r] = "waiting" /\ step'[r] = "copying" /\ lock' = r /\ lock = None
        /\ UNCHANGED <<events, history, call, copy, taken, answer, called, returned>>
    BY <1>3 DEF Acquire, TypeOK
  <2>2. Single(r)' <=> Single(r)
    BY <2>1 DEF Single, CopiesNeeded
  <2>3. Len(copy[r]) = 0 /\ (Single(r) => taken[r] = << >>)
    BY <1>0, <2>1 DEF ReaderInv
  <2>4. ReaderInv(r)'
    BY <1>0, <2>1, <2>2, <2>3 DEF ReaderInv
  <2>5. \A q \in Readers \ {r} : ReaderUnchanged(q) /\ (lock' = q <=> lock = q)
    BY <1>3, <2>1, StoreAssumption DEF Acquire, TypeOK, ReaderUnchanged
  <2>. QED  BY <2>1, <2>4, <2>5, ReaderStep
<1>4. ASSUME NEW r \in Readers, CopyNext(r)  PROVE IInv'
  <2>1. /\ step[r] = "copying" /\ Len(copy[r]) < Len(events)
        /\ copy'[r] = Append(copy[r], events[Len(copy[r]) + 1])
        /\ UNCHANGED <<events, lock, history, call, step, taken, answer, called, returned>>
    BY <1>4 DEF CopyNext, TypeOK
  <2>2. Single(r)' <=> Single(r)
    BY <2>1 DEF Single, CopiesNeeded
  <2>3. /\ Len(copy'[r]) = Len(copy[r]) + 1 /\ Len(copy[r]) \in Nat
        /\ \A i \in 1..Len(copy[r]) : copy'[r][i] = copy[r][i]
        /\ copy'[r][Len(copy[r]) + 1] = events[Len(copy[r]) + 1]
    BY <2>1, AppendElements DEF TypeOK
  <2>4. ASSUME NEW i \in 1..Len(copy'[r])  PROVE copy'[r][i] = events[i]
    <3>1. i \in 1..Len(copy[r]) \/ i = Len(copy[r]) + 1
      BY <2>3
    <3>. QED  BY <1>0, <2>1, <2>3, <3>1 DEF ReaderInv
  <2>5. ReaderInv(r)'
    BY <1>0, <2>1, <2>2, <2>3, <2>4 DEF ReaderInv
  <2>6. \A q \in Readers \ {r} : ReaderUnchanged(q)
    BY <1>4 DEF CopyNext, TypeOK, ReaderUnchanged
  <2>. QED  BY <2>1, <2>5, <2>6, ReaderStep
<1>5. ASSUME NEW r \in Readers, ReleaseAndCopyAgain(r)  PROVE IInv'
  <2>1. /\ step[r] = "copying" /\ step'[r] = "waiting" /\ copy'[r] = << >>
        /\ taken'[r] = Append(taken[r], copy[r]) /\ lock' = None
        /\ UNCHANGED <<events, history, call, answer, called, returned>>
    BY <1>5 DEF ReleaseAndCopyAgain, CopyDone, TypeOK
  <2>2. ~Single(r) /\ ~Single(r)'
    <3>1. Single(r) => Len(taken[r]) = 0
      BY <1>0, <2>1 DEF ReaderInv
    <3>2. ~Single(r)
      BY <1>5, <3>1 DEF ReleaseAndCopyAgain, LastCopy, Single
    <3>. QED  BY <2>1, <3>2 DEF Single, CopiesNeeded
  <2>3. ReaderInv(r)'
    BY <1>0, <2>1, <2>2, StoreAssumption DEF ReaderInv
  <2>4. \A q \in Readers \ {r} : ReaderUnchanged(q) /\ (lock' = q <=> lock = q)
    BY <1>0, <1>5, <2>1, StoreAssumption
    DEF ReleaseAndCopyAgain, TypeOK, ReaderUnchanged, ReaderInv
  <2>. QED  BY <2>1, <2>3, <2>4, ReaderStep
<1>6. ASSUME NEW r \in Readers, ReleaseAndAnswer(r)  PROVE IInv'
  <2>1. ReaderInv(r)'
    BY <1>6, AnswerStep
  <2>2. step[r] = "copying" /\ lock' = None /\ history' = history /\ events' = events
    BY <1>6 DEF ReleaseAndAnswer, CopyDone
  <2>3. \A q \in Readers \ {r} : ReaderUnchanged(q) /\ (lock' = q <=> lock = q)
    BY <1>0, <1>6, <2>2, StoreAssumption
    DEF ReleaseAndAnswer, TypeOK, ReaderUnchanged, ReaderInv
  <2>. QED  BY <2>1, <2>2, <2>3, ReaderStep
<1>7. CASE UNCHANGED vars
  <2>1. \A q \in Readers : ReaderInv(q)'
    BY <1>0, <1>7, OtherReader DEF vars, readerVars, ReaderUnchanged
  <2>2. RetainsLatest'
    BY <1>7 DEF IInv, RetainsLatest, Window, vars
  <2>. QED  BY <2>1, <2>2, FromReaders
<1>. QED
  BY <1>1, <1>2, <1>3, <1>4, <1>5, <1>6, <1>7, RecordStep DEF Next

\* The invariant holds of every reachable state.
THEOREM Invariance == Spec => []IInv
BY IInvInit, IInvStep, PTL DEF Spec

\* The store holds exactly the latest events, in record order.
THEOREM LatestRetained == Spec => []RetainsLatest
<1>1. IInv => RetainsLatest
  BY DEF IInv
<1>. QED  BY <1>1, Invariance, PTL

\* Every read that copies the events once is linearizable: its answer is the
\* one computed from the store at a moment between request and answer.
THEOREM Linearizable == Spec => []AnswersAreOfOneMoment
<1>1. IInv => AnswersAreOfOneMoment
  BY DEF IInv, AnswersExplained, Explained, Single, AnswersAreOfOneMoment
<1>. QED  BY <1>1, Invariance, PTL

-----------------------------------------------------------------------------
(* The rows of the verticals page are computed of two copies: each is the  *)
(* deque of a moment of the request, the second one of no earlier moment.  *)
(* And an event's timestamp says how many were recorded before it, so that *)
(* a moment tells which events the deque has.                              *)

Timed == \A i \in 1..Len(history) : history[i].timestamp = i

FirstOfTwo(r) ==
    \/ taken[r] = << >>
    \/ \E k \in called[r]..Len(history) : taken[r] = <<Window(k)>>

ExplainedByTwo(r) ==
    /\ returned[r] <= Len(history)
    /\ \E k \in called[r]..returned[r] : \E l \in k..returned[r] :
          answer[r] = Respond(call[r], <<Window(k), Window(l)>>)

TwoCopies(r) ==
    /\ step[r] # "idle" => call[r] \in Requests
    /\ step[r] \in {"waiting", "copying"} /\ ~Single(r) => FirstOfTwo(r)
    /\ step[r] = "answered" /\ ~Single(r) => ExplainedByTwo(r)

TInv == IInv /\ Timed /\ \A r \in Readers : TwoCopies(r)

\* The first of two copies, and the second.
LEMMA AppendToOne ==
    ASSUME NEW first, NEW second
    PROVE  Append(<<first>>, second) = <<first, second>>
<1>. DEFINE E == {first, second}
<1>1. <<first>> \in Seq(E) /\ <<first, second>> \in Seq(E)
  OBVIOUS
<1>2. Len(<<first>>) = 1 /\ Len(<<first, second>>) = 2
  OBVIOUS
<1>3. /\ Append(<<first>>, second) \in Seq(E) /\ Len(Append(<<first>>, second)) = 2
      /\ Append(<<first>>, second)[1] = first /\ Append(<<first>>, second)[2] = second
  <2>1. second \in E
    OBVIOUS
  <2>. QED  BY <1>1, <1>2, <2>1, AppendProperties
<1>4. \A i \in 1..2 : Append(<<first>>, second)[i] = <<first, second>>[i]
  BY <1>3
<1>. QED  BY <1>1, <1>2, <1>3, <1>4, SeqEqual

\* The numbers of events that a moment is given by.
LEMMA MomentsType ==
    ASSUME IInv, NEW r \in Readers
    PROVE  /\ called[r] \in Nat /\ returned[r] \in Nat /\ Len(history) \in Nat
           /\ called[r] <= Len(history)
BY StoreAssumption DEF IInv, TypeOK, CalledBefore

\* What the deque held at each moment of the past is what it held before.
PastKept ==
    /\ Len(history) <= Len(history')
    /\ \A k \in 0..Len(history) : Window(k)' = Window(k)

\* No step changes what the deque held at a moment of the past.
LEMMA PastIsKept ==
    ASSUME IInv, IInv', [Next]_vars
    PROVE  PastKept
<1>0. Len(history) \in Nat
  BY LengthsType DEF IInv
<1>1. ASSUME history' = history  PROVE PastKept
  BY <1>0, <1>1 DEF PastKept, Window
<1>2. ASSUME NEW kind \in Kinds, Record(kind)  PROVE PastKept
  <2>1. Len(history') = Len(history) + 1
    BY <1>2, AppendElements DEF Record, IInv, TypeOK
  <2>. QED  BY <1>0, <1>2, <2>1, WindowStable DEF PastKept, IInv
<1>3. history' = history \/ \E kind \in Kinds : Record(kind)
  BY DEF Next, vars, Request, RequestNoFailures, Accept, Acquire, CopyNext,
         ReleaseAndCopyAgain, ReleaseAndAnswer
<1>. QED  BY <1>1, <1>2, <1>3

\* A reader that a step does not touch stays as described.
LEMMA UntouchedTwoCopies ==
    ASSUME IInv, PastKept, NEW r \in Readers, TwoCopies(r), ReaderUnchanged(r)
    PROVE  TwoCopies(r)'
<1>0. /\ called[r] \in Nat /\ returned[r] \in Nat /\ Len(history) \in Nat
      /\ called[r] <= Len(history) /\ Len(history) <= Len(history')
  BY MomentsType DEF PastKept
<1>. USE DEF ReaderUnchanged
<1>1. Single(r)' <=> Single(r)
  BY DEF Single, CopiesNeeded
<1>2. ASSUME FirstOfTwo(r)  PROVE FirstOfTwo(r)'
  <2>1. CASE taken[r] = << >>
    BY <2>1 DEF FirstOfTwo
  <2>2. CASE taken[r] # << >>
    <3>1. PICK k \in called[r]..Len(history) : taken[r] = <<Window(k)>>
      BY <1>2, <2>2 DEF FirstOfTwo
    <3>2. k \in 0..Len(history) /\ k \in called'[r]..Len(history')
      BY <1>0 DEF IInv, TypeOK
    <3>3. taken'[r] = <<Window(k)'>>
      BY <3>1, <3>2 DEF PastKept
    <3>. QED  BY <3>2, <3>3 DEF FirstOfTwo
  <2>. QED  BY <2>1, <2>2
<1>3. ASSUME ExplainedByTwo(r)  PROVE ExplainedByTwo(r)'
  <2>1. PICK k \in called[r]..returned[r] : \E l \in k..returned[r] :
            answer[r] = Respond(call[r], <<Window(k), Window(l)>>)
    BY <1>3 DEF ExplainedByTwo
  <2>2. PICK l \in k..returned[r] : answer[r] = Respond(call[r], <<Window(k), Window(l)>>)
    BY <2>1
  <2>3. k \in 0..Len(history) /\ l \in 0..Len(history)
    BY <1>0, <1>3 DEF ExplainedByTwo
  <2>4. answer'[r] = Respond(call'[r], <<Window(k)', Window(l)'>>)
    BY <2>2, <2>3 DEF PastKept
  <2>5. returned'[r] <= Len(history')
    BY <1>0, <1>3, LengthsType DEF ExplainedByTwo, PastKept
  <2>. QED  BY <2>4, <2>5 DEF ExplainedByTwo
<1>. QED  BY <1>1, <1>2, <1>3 DEF TwoCopies

\* A request takes its first copy after it came in, and the second one, of
\* which it answers, after the first.
LEMMA TouchedTwoCopies ==
    ASSUME IInv, IInv', NEW r \in Readers, TwoCopies(r),
           \/ \E request \in Requests :
                 Request(r, request) \/ RequestNoFailures(r, request)
           \/ Acquire(r) \/ CopyNext(r) \/ ReleaseAndCopyAgain(r) \/ ReleaseAndAnswer(r)
    PROVE  TwoCopies(r)'
<1>0. /\ called[r] \in Nat /\ returned[r] \in Nat /\ Len(history) \in Nat
      /\ called[r] <= Len(history)
  BY MomentsType
<1>1. history' = history /\ \A k : Window(k)' = Window(k)
  BY DEF Request, RequestNoFailures, Accept, Acquire, CopyNext, ReleaseAndCopyAgain,
         ReleaseAndAnswer, Window
<1>2. ASSUME NEW request \in Requests, Request(r, request)  PROVE TwoCopies(r)'
  <2>1. step'[r] = "waiting" /\ taken'[r] = << >> /\ call'[r] = request
    BY <1>2 DEF Request, Accept, IInv, TypeOK
  <2>. QED  BY <1>2, <2>1 DEF TwoCopies, FirstOfTwo
<1>3. ASSUME NEW request \in Requests, RequestNoFailures(r, request)  PROVE TwoCopies(r)'
  <2>1. step'[r] = "answered" /\ call'[r] = request /\ request.op = "failures"
    BY <1>3 DEF RequestNoFailures, Accept, IInv, TypeOK
  <2>2. Single(r)'
    BY <2>1 DEF Single, CopiesNeeded
  <2>. QED  BY <2>1, <2>2 DEF TwoCopies
<1>4. ASSUME Acquire(r) \/ CopyNext(r)  PROVE TwoCopies(r)'
  <2>1. /\ step[r] \in {"waiting", "copying"} /\ step'[r] = "copying"
        /\ UNCHANGED <<call, taken, called>>
    BY <1>4 DEF Acquire, CopyNext, IInv, TypeOK
  <2>2. Single(r)' <=> Single(r)
    BY <2>1 DEF Single, CopiesNeeded
  <2>. QED  BY <1>1, <2>1, <2>2 DEF TwoCopies, FirstOfTwo
<1>5. CopyDone(r) => step[r] = "copying" /\ copy[r] = Window(Len(history))
  BY CopyComplete DEF CopyDone
<1>6. ASSUME ReleaseAndCopyAgain(r)  PROVE TwoCopies(r)'
  <2>1. /\ step[r] = "copying" /\ step'[r] = "waiting" /\ ~LastCopy(r)
        /\ taken'[r] = Append(taken[r], copy[r]) /\ UNCHANGED <<call, called>>
    BY <1>6 DEF ReleaseAndCopyAgain, CopyDone, IInv, TypeOK
  <2>2. ~Single(r)' <=> ~Single(r)
    BY <2>1 DEF Single, CopiesNeeded
  <2>3. ASSUME ~Single(r)  PROVE FirstOfTwo(r)'
    <3>1. CopiesNeeded(call[r]) = 2
      BY <2>3 DEF Single, CopiesNeeded
    <3>2. taken[r] = << >>
      <4>1. \A window : Len(<<window>>) = 1
        OBVIOUS
      <4>2. Len(taken[r]) # 1
        <5>1. Len(taken[r]) + 1 # 2
          BY <2>1, <3>1 DEF LastCopy
        <5>2. Len(taken[r]) \in Nat
          BY DEF IInv, TypeOK
        <5>3. \A n \in Nat : n + 1 # 2 => n # 1
          OBVIOUS
        <5>. QED  BY <5>1, <5>2, <5>3, Zenon
      <4>. QED  BY <2>1, <2>3, <4>1, <4>2 DEF TwoCopies, FirstOfTwo
    <3>3. taken'[r] = <<Window(Len(history))'>>
      BY <1>1, <1>5, <1>6, <2>1, <3>2 DEF ReleaseAndCopyAgain
    <3>4. Len(history) \in called'[r]..Len(history')
      BY <1>0, <1>1, <2>1
    <3>. QED  BY <1>1, <3>3, <3>4 DEF FirstOfTwo
  <2>. QED  BY <2>1, <2>2, <2>3 DEF TwoCopies
<1>7. ASSUME ReleaseAndAnswer(r)  PROVE TwoCopies(r)'
  <2>1. /\ step[r] = "copying" /\ step'[r] = "answered" /\ LastCopy(r)
        /\ answer'[r] = Respond(call[r], Append(taken[r], copy[r]))
        /\ returned'[r] = Len(history) /\ UNCHANGED <<call, called>>
    BY <1>7 DEF ReleaseAndAnswer, CopyDone, IInv, TypeOK
  <2>2. ~Single(r)' <=> ~Single(r)
    BY <2>1 DEF Single, CopiesNeeded
  <2>3. ASSUME ~Single(r)  PROVE ExplainedByTwo(r)'
    <3>1. CopiesNeeded(call[r]) = 2
      BY <2>3 DEF Single, CopiesNeeded
    <3>2. taken[r] # << >>
      BY <2>1, <3>1 DEF LastCopy
    <3>3. PICK k \in called[r]..Len(history) : taken[r] = <<Window(k)>>
      BY <2>1, <2>3, <3>2 DEF TwoCopies, FirstOfTwo
    <3>4. Append(taken[r], copy[r]) = <<Window(k), Window(Len(history))>>
      <4>1. copy[r] = Window(Len(history))
        BY <1>5, <1>7 DEF ReleaseAndAnswer
      <4>2. Append(<<Window(k)>>, copy[r]) = <<Window(k), copy[r]>>
        BY AppendToOne
      <4>. QED  BY <3>3, <4>1, <4>2
    <3>5. answer'[r] = Respond(call'[r], <<Window(k)', Window(Len(history))'>>)
      BY <1>1, <2>1, <3>4
    <3>6. k \in called'[r]..returned'[r] /\ Len(history) \in k..returned'[r]
      BY <1>0, <2>1
    <3>7. returned'[r] <= Len(history')
      BY <1>0, <1>1, <2>1
    <3>. QED  BY <1>1, <3>5, <3>6, <3>7 DEF ExplainedByTwo
  <2>. QED  BY <2>1, <2>2, <2>3 DEF TwoCopies
<1>. QED  BY <1>2, <1>3, <1>4, <1>6, <1>7

\* Every event is recorded with the time of its recording.
LEMMA TimedStep == TypeOK /\ Timed /\ [Next]_vars => Timed'
<1>. SUFFICES ASSUME TypeOK, Timed, [Next]_vars PROVE Timed'
  OBVIOUS
<1>1. ASSUME history' = history  PROVE Timed'
  BY <1>1 DEF Timed
<1>2. ASSUME NEW kind \in Kinds, Record(kind)  PROVE Timed'
  <2>. DEFINE event == Event(kind, Len(history) + 1)
  <2>1. history' = Append(history, event) /\ event.timestamp = Len(history) + 1
    BY <1>2 DEF Record, Event
  <2>. HIDE DEF event
  <2>2. /\ Len(history') = Len(history) + 1 /\ Len(history) \in Nat
        /\ \A i \in 1..Len(history) : history'[i] = history[i]
        /\ history'[Len(history) + 1] = event
    BY <2>1, AppendElements DEF TypeOK
  <2>. QED  BY <2>1, <2>2 DEF Timed
<1>3. history' = history \/ \E kind \in Kinds : Record(kind)
  BY DEF Next, vars, Request, RequestNoFailures, Accept, Acquire, CopyNext,
         ReleaseAndCopyAgain, ReleaseAndAnswer
<1>. QED  BY <1>1, <1>2, <1>3

\* A step touches no reader, or one.
LEMMA TouchesOne ==
    ASSUME TypeOK, [Next]_vars, NEW r \in Readers
    PROVE  \/ ReaderUnchanged(r)
           \/ \E request \in Requests :
                 Request(r, request) \/ RequestNoFailures(r, request)
           \/ Acquire(r) \/ CopyNext(r) \/ ReleaseAndCopyAgain(r) \/ ReleaseAndAnswer(r)
<1>1. ASSUME \/ \E kind \in Kinds : Record(kind)
             \/ UNCHANGED vars
      PROVE  ReaderUnchanged(r)
  BY <1>1 DEF Record, vars, readerVars, ReaderUnchanged
<1>2. ASSUME NEW q \in Readers, q # r,
             \/ \E request \in Requests :
                   Request(q, request) \/ RequestNoFailures(q, request)
             \/ Acquire(q) \/ CopyNext(q) \/ ReleaseAndCopyAgain(q) \/ ReleaseAndAnswer(q)
      PROVE  ReaderUnchanged(r)
  <2>. USE DEF TypeOK, ReaderUnchanged
  <2>1. ASSUME NEW request \in Requests,
               Request(q, request) \/ RequestNoFailures(q, request)
        PROVE  ReaderUnchanged(r)
    BY <1>2, <2>1 DEF Request, RequestNoFailures, Accept
  <2>2. ASSUME Acquire(q) \/ CopyNext(q)  PROVE ReaderUnchanged(r)
    BY <1>2, <2>2 DEF Acquire, CopyNext
  <2>3. ASSUME ReleaseAndCopyAgain(q) \/ ReleaseAndAnswer(q)  PROVE ReaderUnchanged(r)
    BY <1>2, <2>3 DEF ReleaseAndCopyAgain, ReleaseAndAnswer
  <2>. QED  BY <1>2, <2>1, <2>2, <2>3
<1>. QED  BY <1>1, <1>2 DEF Next

\* Every step keeps what is known of the two copies.
LEMMA TInvStep == TInv /\ [Next]_vars => TInv'
<1>. SUFFICES ASSUME TInv, [Next]_vars PROVE TInv'
  OBVIOUS
<1>1. IInv /\ IInv' /\ TypeOK /\ Timed'
  BY IInvStep, TimedStep DEF TInv, IInv
<1>2. PastKept
  BY <1>1, PastIsKept
<1>3. ASSUME NEW r \in Readers  PROVE TwoCopies(r)'
  BY <1>1, <1>2, TouchesOne, UntouchedTwoCopies, TouchedTwoCopies DEF TInv
<1>. QED  BY <1>1, <1>3 DEF TInv

\* The store and its readers, with what explains a row of two copies.
THEOREM TwoCopiesInvariance == Spec => []TInv
<1>1. Init => TInv
  BY IInvInit DEF Init, TInv, Timed, TwoCopies
<1>. QED  BY <1>1, TInvStep, PTL DEF Spec

-----------------------------------------------------------------------------
\* The window of a moment has the events Oldest(k) to k of the history.
LEMMA WindowElements ==
    ASSUME TInv, NEW k \in 0..Len(history)
    PROVE  /\ Window(k) \in Seq(Events) /\ Len(history) \in Nat
           /\ Oldest(k) \in 1..(k + 1)
           /\ DOMAIN Window(k) = 1..(k - Oldest(k) + 1)
           /\ \A i \in DOMAIN Window(k) :
                 /\ Oldest(k) + i - 1 \in Oldest(k)..k
                 /\ Window(k)[i] = history[Oldest(k) + i - 1]
                 /\ Window(k)[i] \in Events
                 /\ Window(k)[i].timestamp = Oldest(k) + i - 1
           /\ \A t \in Oldest(k)..k :
                 /\ t - Oldest(k) + 1 \in DOMAIN Window(k)
                 /\ Window(k)[t - Oldest(k) + 1] = history[t]
<1>1. history \in Seq(Events) /\ Len(history) \in Nat
  BY DEF TInv, IInv, TypeOK
<1>2. Oldest(k) \in 1..(k + 1)
  BY <1>1, MaxEventsAssumption DEF Oldest
<1>3. Window(k) = SubSeq(history, Oldest(k), k)
  BY DEF Window, Oldest
<1>4. Oldest(k) \in 1..(Len(history) + 1) /\ k \in (Oldest(k) - 1)..Len(history)
  BY <1>1, <1>2
<1>5. /\ Window(k) \in Seq(Events) /\ Len(Window(k)) = k - Oldest(k) + 1
      /\ \A i \in 1..(k - Oldest(k) + 1) : Window(k)[i] = history[Oldest(k) + i - 1]
  BY <1>1, <1>3, <1>4, PartElements
<1>6. DOMAIN Window(k) = 1..(k - Oldest(k) + 1)
  BY <1>5
<1>7. ASSUME NEW i \in DOMAIN Window(k)
      PROVE  /\ Oldest(k) + i - 1 \in Oldest(k)..k
             /\ Window(k)[i] = history[Oldest(k) + i - 1]
             /\ Window(k)[i] \in Events
             /\ Window(k)[i].timestamp = Oldest(k) + i - 1
  <2>1. Oldest(k) + i - 1 \in Oldest(k)..k /\ Oldest(k) + i - 1 \in 1..Len(history)
    BY <1>1, <1>2, <1>6
  <2>2. Window(k)[i] = history[Oldest(k) + i - 1]
    BY <1>5, <1>6
  <2>3. history[Oldest(k) + i - 1] \in Events
    BY <1>1, <2>1
  <2>. QED  BY <2>1, <2>2, <2>3 DEF TInv, Timed
<1>8. ASSUME NEW t \in Oldest(k)..k
      PROVE  /\ t - Oldest(k) + 1 \in DOMAIN Window(k)
             /\ Window(k)[t - Oldest(k) + 1] = history[t]
  <2>1. t - Oldest(k) + 1 \in 1..(k - Oldest(k) + 1) /\ Oldest(k) + (t - Oldest(k) + 1) - 1 = t
    BY <1>1, <1>2
  <2>2. Window(k)[t - Oldest(k) + 1] = history[Oldest(k) + (t - Oldest(k) + 1) - 1]
    BY <1>5, <2>1
  <2>. QED  BY <1>6, <2>1, <2>2
<1>. QED  BY <1>1, <1>2, <1>5, <1>6, <1>7, <1>8

\* An answer that copied once is explained by a window.
LEMMA AnswerOfWindow ==
    ASSUME TInv, NEW r \in Readers, step[r] = "answered", Single(r)
    PROVE  \E k \in 0..Len(history) :
              /\ called[r] <= k /\ k <= returned[r] /\ returned[r] \in Nat
              /\ answer[r] = Respond(call[r], <<Window(k)>>)
<1>1. Explained(r) /\ called[r] \in Nat /\ returned[r] \in Nat /\ Len(history) \in Nat
  BY MomentsType DEF TInv, IInv, AnswersExplained
<1>2. PICK k \in called[r]..returned[r] : answer[r] = Respond(call[r], <<Window(k)>>)
  BY <1>1 DEF Explained
<1>3. k \in 0..Len(history)
  BY <1>1 DEF Explained
<1>. QED  BY <1>1, <1>2, <1>3

\* The rows and the total of a monitoring summary are of the same window.
LEMMA TInvTotals == TInv => TotalsAddUp
<1>. SUFFICES ASSUME TInv, NEW r \in Readers, step[r] = "answered", call[r].op = "monitoring"
     PROVE  LET rows == answer[r].by_vertical
                total == answer[r].total
                Units(field) == UNION {{v} \X (1..rows[v][field]) : v \in DOMAIN rows}
            IN /\ total.calls = total.successes + total.errors
               /\ \A field \in {"calls", "successes", "errors"} :
                     Cardinality(Units(field)) = total[field]
  BY DEF TotalsAddUp
<1>1. PICK k \in 0..Len(history) : answer[r] = Respond(call[r], <<Window(k)>>)
  <2>1. Single(r)
    BY DEF Single, CopiesNeeded
  <2>. QED  BY <2>1, AnswerOfWindow
<1>. DEFINE window == Window(k)
<1>2. window \in Seq(Events)
  BY WindowElements
<1>. HIDE DEF window
<1>3. answer[r] = MonitoringSummary(window)
  BY <1>1 DEF Respond, window
<1>4. answer[r].by_vertical = SummariesByVertical(window) /\ answer[r].total = Totals(window)
  BY <1>3 DEF MonitoringSummary
<1>5. Totals(window).calls = Totals(window).successes + Totals(window).errors
  BY <1>2, TotalsSplit
<1>6. ASSUME NEW field \in {"calls", "successes", "errors"}
      PROVE  LET rows == SummariesByVertical(window) IN
             Cardinality(UNION {{v} \X (1..rows[v][field]) : v \in DOMAIN rows})
               = Totals(window)[field]
  BY <1>2, RowsAddUp
<1>. QED  BY <1>4, <1>5, <1>6

\* The totals of the monitoring summary are those of its rows.
THEOREM TotalsAgree == Spec => []TotalsAddUp
BY TwoCopiesInvariance, TInvTotals, PTL

\* A list of failures is a window's, newest first.
LEMMA TInvFailures == TInv => FailuresNewestFirst
<1>. SUFFICES ASSUME TInv, NEW r \in Readers, step[r] = "answered", call[r].op = "failures"
     PROVE  LET list == answer[r] IN
            /\ \A i \in DOMAIN list : ~list[i].ok
            /\ \A i, j \in DOMAIN list : i < j => list[i].timestamp > list[j].timestamp
            /\ Len(list) < call[r].limit =>
                  \A i \in DOMAIN history :
                      ~history[i].ok /\ i <= called[r] /\ i > returned[r] - MaxEvents
                          => \E j \in DOMAIN list : list[j] = history[i]
  BY DEF FailuresNewestFirst
<1>. DEFINE list == answer[r]
            limit == call[r].limit
<1>1. PICK k \in 0..Len(history) :
         /\ called[r] <= k /\ k <= returned[r] /\ returned[r] \in Nat
         /\ answer[r] = Respond(call[r], <<Window(k)>>)
  <2>1. Single(r)
    BY DEF Single, CopiesNeeded
  <2>. QED  BY <2>1, AnswerOfWindow
<1>2. limit \in Int
  <2>1. call[r] \in Requests
    BY DEF TInv, TwoCopies
  <2>2. call[r] \in [op : {"failures"}, limit : Limits]
    BY <2>1 DEF Requests
  <2>. QED  BY <2>2, StoreAssumption
<1>3. list = RecentFailures(Window(k), limit)
  BY <1>1 DEF Respond
<1>. DEFINE window == Window(k)
<1>4. /\ window \in Seq(Events) /\ Len(history) \in Nat /\ Oldest(k) \in 1..(k + 1)
      /\ DOMAIN window = 1..(k - Oldest(k) + 1)
      /\ \A i \in DOMAIN window : window[i].timestamp = Oldest(k) + i - 1
      /\ \A t \in Oldest(k)..k :
            /\ t - Oldest(k) + 1 \in DOMAIN window
            /\ window[t - Oldest(k) + 1] = history[t]
  BY WindowElements
<1>. HIDE DEF window, limit
<1>5. CASE limit <= 0
  <2>1. list = << >>
    BY <1>3, <1>5 DEF RecentFailures
  <2>2. DOMAIN list = {} /\ ~(Len(list) < limit)
    BY <1>2, <1>5, <2>1
  <2>. QED  BY <2>2 DEF limit
<1>6. CASE ~(limit <= 0)
  <2>1. limit \in Nat \ {0}
    BY <1>2, <1>6
  <2>2. list = RecentFailures(window, limit)
    BY <1>3 DEF window
  <2>. HIDE DEF list
  <2>0. \E pos \in [DOMAIN list -> DOMAIN window] : LatestFirst(list, window, limit, pos)
    BY <1>4, <2>1, <2>2, RecentFailuresOfLog
  <2>3. PICK pos \in [DOMAIN list -> DOMAIN window] :
          /\ \A j \in DOMAIN list : list[j] = window[pos[j]] /\ ~window[pos[j]].ok
          /\ \A i, j \in DOMAIN list : i < j => pos[i] > pos[j]
          /\ Len(list) < limit =>
                \A i \in DOMAIN window :
                    ~window[i].ok => \E j \in DOMAIN list : pos[j] = i
    BY <2>0 DEF LatestFirst
  <2>4. \A i \in DOMAIN list : ~list[i].ok
    BY <2>3
  <2>5. ASSUME NEW i \in DOMAIN list, NEW j \in DOMAIN list, i < j
        PROVE  list[i].timestamp > list[j].timestamp
    <3>1. pos[i] \in DOMAIN window /\ pos[j] \in DOMAIN window /\ pos[i] > pos[j]
      BY <2>3, <2>5
    <3>2. /\ list[i].timestamp = Oldest(k) + pos[i] - 1
          /\ list[j].timestamp = Oldest(k) + pos[j] - 1
      BY <1>4, <2>3, <3>1
    <3>. QED  BY <1>4, <3>1, <3>2
  <2>6. ASSUME Len(list) < limit, NEW i \in DOMAIN history,
               ~history[i].ok, i <= called[r], i > returned[r] - MaxEvents
        PROVE  \E j \in DOMAIN list : list[j] = history[i]
    <3>1. i \in 1..Len(history) /\ called[r] \in Nat
      BY MomentsType DEF TInv, IInv, TypeOK
    <3>2. k \in Nat /\ i \in Nat \ {0} /\ i <= k /\ i > k - MaxEvents
      <4>1. called[r] <= k /\ k <= returned[r] /\ returned[r] \in Nat
        BY <1>1
      <4>2. k \in Nat /\ i \in Nat \ {0}
        BY <1>4, <3>1
      <4>3. i <= called[r] /\ i > returned[r] - MaxEvents
        BY <2>6
      <4>. QED  BY <3>1, <4>1, <4>2, <4>3, MaxEventsAssumption
    <3>3. i \in Oldest(k)..k
      BY <3>2, MaxEventsAssumption DEF Oldest
    <3>4. i - Oldest(k) + 1 \in DOMAIN window /\ window[i - Oldest(k) + 1] = history[i]
      BY <1>4, <3>3
    <3>. QED  BY <2>3, <2>6, <3>4
  <2>. QED  BY <2>4, <2>5, <2>6 DEF list, limit
<1>. QED  BY <1>2, <1>5, <1>6

\* The recent failures are failures, newest first, and only a full list leaves
\* one out that the store has kept.
THEOREM FailuresInOrder == Spec => []FailuresNewestFirst
BY TwoCopiesInvariance, TInvFailures, PTL

-----------------------------------------------------------------------------
\* The events of a conversation are those of its id, in record order.
OwnInOrder(own, s, c, pos) ==
    /\ \A j \in DOMAIN own : own[j] = s[pos[j]] /\ own[j].conversation_id = c
    /\ \A i, j \in DOMAIN own : i < j => pos[i] < pos[j]
    /\ \A i \in DOMAIN s :
          s[i].conversation_id = c => \E j \in DOMAIN own : pos[j] = i

LEMMA ConversationEventsOfLog ==
    ASSUME NEW E, NEW s \in Seq(E), NEW c, c \notin {None, Blank},
           NEW own, own = ConversationEvents(s, c)
    PROVE  /\ \E pos \in [DOMAIN own -> DOMAIN s] : OwnInOrder(own, s, c, pos)
           /\ \E n \in 0..Len(s) : own \in [1..n -> E]
<1>. DEFINE mine == {i \in DOMAIN s : s[i].conversation_id = c}
            pos == [j \in DOMAIN own |-> Nth(mine, j)]
<1>1. mine \in SUBSET DOMAIN s /\ mine \in SUBSET Int /\ IsFiniteSet(mine)
  BY IndicesType, FS_Subset
<1>2. {i \in DOMAIN s : c \in Conversations(s) /\ s[i].conversation_id = c} = mine
  BY DEF Conversations
<1>3. own = Picked(s, mine)
  BY <1>2 DEF ConversationEvents
<1>4. \A i \in DOMAIN s : i \in mine <=> s[i].conversation_id = c
  OBVIOUS
<1>. HIDE DEF mine
<1>5. /\ DOMAIN own = 1..Cardinality(mine)
      /\ \A j \in DOMAIN own : own[j] = s[Nth(mine, j)]
  BY <1>1, <1>3, PickedElements
<1>6. /\ \A j \in DOMAIN own : Nth(mine, j) \in mine
      /\ \A i \in mine : Nth(mine, Rank(mine, i)) = i /\ Rank(mine, i) \in DOMAIN own
  BY <1>1, <1>5, NthHasRank, RankType
<1>7. pos \in [DOMAIN own -> DOMAIN s]
  BY <1>1, <1>6
<1>8. \A j \in DOMAIN own : own[j] = s[pos[j]] /\ own[j].conversation_id = c
  BY <1>1, <1>4, <1>5, <1>6
<1>9. ASSUME NEW i \in DOMAIN own, NEW j \in DOMAIN own, i < j  PROVE pos[i] < pos[j]
  BY <1>1, <1>5, <1>9, NthGrows
<1>10. ASSUME NEW i \in DOMAIN s, s[i].conversation_id = c
       PROVE  \E j \in DOMAIN own : pos[j] = i
  BY <1>4, <1>6, <1>10
<1>11. OwnInOrder(own, s, c, pos)
  BY <1>8, <1>9, <1>10 DEF OwnInOrder
<1>12. Cardinality(mine) \in 0..Len(s)
  <2>1. DOMAIN s = 1..Len(s) /\ Len(s) \in Nat
    OBVIOUS
  <2>2. IsFiniteSet(1..Len(s)) /\ Cardinality(1..Len(s)) = Len(s)
    BY <2>1, FS_Interval
  <2>3. Cardinality(mine) <= Cardinality(1..Len(s)) /\ Cardinality(mine) \in Nat
    BY <1>1, <2>1, <2>2, FS_Subset, FS_CardinalityType
  <2>. QED  BY <2>1, <2>2, <2>3
<1>13. own \in [1..Cardinality(mine) -> E]
  <2>1. own = [j \in 1..Cardinality(mine) |-> s[Nth(mine, j)]]
    BY <1>3 DEF Picked
  <2>2. \A j \in 1..Cardinality(mine) : s[Nth(mine, j)] \in E
    BY <1>1, <1>5, <1>6
  <2>. QED  BY <2>1, <2>2
<1>. QED  BY <1>7, <1>11, <1>12, <1>13

\* A detail is of one window, and shows all that the window has of its
\* conversation.
LEMMA TInvDetail == TInv => DetailMissesOnlyTheEvicted
<1>. SUFFICES ASSUME TInv, NEW r \in Readers, step[r] = "answered", call[r].op = "detail"
     PROVE  LET list == IF answer[r] = None THEN << >> ELSE answer[r].events IN
            /\ \A i \in DOMAIN list : list[i].conversation_id = call[r].id
            /\ \A i, j \in DOMAIN list : i < j => list[i].timestamp < list[j].timestamp
            /\ \A i \in (returned[r] - MaxEvents + 1)..called[r] :
                  i >= 1 /\ history[i].conversation_id = call[r].id
                      => \E j \in DOMAIN list : list[j] = history[i]
  BY DEF DetailMissesOnlyTheEvicted
<1>. DEFINE list == IF answer[r] = None THEN << >> ELSE answer[r].events
            c == call[r].id
<1>1. PICK k \in 0..Len(history) :
         /\ called[r] <= k /\ k <= returned[r] /\ returned[r] \in Nat
         /\ answer[r] = Respond(call[r], <<Window(k)>>)
  <2>1. Single(r)
    BY DEF Single, CopiesNeeded
  <2>. QED  BY <2>1, AnswerOfWindow
<1>2. c \in Ids /\ c \notin {None, Blank}
  <2>1. call[r] \in Requests
    BY DEF TInv, TwoCopies
  <2>2. call[r] \in [op : {"detail"}, id : Ids]
    BY <2>1 DEF Requests
  <2>. QED  BY <2>2, StoreAssumption
<1>. DEFINE window == Window(k)
            own == ConversationEvents(window, c)
<1>3. /\ window \in Seq(Events) /\ Len(history) \in Nat /\ Oldest(k) \in 1..(k + 1)
      /\ DOMAIN window = 1..(k - Oldest(k) + 1)
      /\ \A i \in DOMAIN window : window[i].timestamp = Oldest(k) + i - 1
      /\ \A t \in Oldest(k)..k :
            /\ t - Oldest(k) + 1 \in DOMAIN window
            /\ window[t - Oldest(k) + 1] = history[t]
  BY WindowElements
<1>4. answer[r] = ConversationDetail(window, c)
  BY <1>1 DEF Respond
<1>. HIDE DEF window, c
<1>5. list = own
  <2>1. CASE own = << >>
    BY <1>4, <2>1 DEF ConversationDetail
  <2>2. CASE own # << >>
    <3>1. Len(window) \in 0..MaxEvents
      BY <1>1, <1>3, MaxEventsAssumption DEF Oldest
    <3>2. PICK n \in 0..Len(window) : own \in [1..n -> Events]
      BY <1>2, <1>3, ConversationEventsOfLog
    <3>3. n \in 1..MaxEvents
      BY <2>2, <3>1, <3>2, MaxEventsAssumption
    <3>4. answer[r] = Detail(own)
      BY <1>4, <2>2 DEF ConversationDetail
    <3>5. answer[r] # None
      BY <3>2, <3>3, <3>4, DetailAssumption
    <3>6. answer[r].events = own
      BY <3>4 DEF Detail
    <3>. QED  BY <3>5, <3>6
  <2>. QED  BY <2>1, <2>2
<1>. HIDE DEF own, list
<1>6. PICK pos \in [DOMAIN list -> DOMAIN window] : OwnInOrder(list, window, c, pos)
  BY <1>2, <1>3, <1>5, ConversationEventsOfLog DEF own
<1>7. \A i \in DOMAIN list : list[i].conversation_id = c
  BY <1>6 DEF OwnInOrder
<1>8. ASSUME NEW i \in DOMAIN list, NEW j \in DOMAIN list, i < j
      PROVE  list[i].timestamp < list[j].timestamp
  <2>1. pos[i] \in DOMAIN window /\ pos[j] \in DOMAIN window /\ pos[i] < pos[j]
    BY <1>6, <1>8 DEF OwnInOrder
  <2>2. /\ list[i].timestamp = Oldest(k) + pos[i] - 1
        /\ list[j].timestamp = Oldest(k) + pos[j] - 1
    BY <1>3, <1>6, <2>1 DEF OwnInOrder
  <2>. QED  BY <1>3, <2>1, <2>2
<1>9. ASSUME NEW i \in (returned[r] - MaxEvents + 1)..called[r], i >= 1,
             history[i].conversation_id = c
      PROVE  \E j \in DOMAIN list : list[j] = history[i]
  <2>1. called[r] \in Nat /\ k \in Nat
    BY <1>3, MomentsType DEF TInv, IInv
  <2>2. i \in Nat /\ i <= k /\ i > k - MaxEvents
    BY <1>1, <1>9, <2>1, MaxEventsAssumption
  <2>3. i \in Oldest(k)..k
    BY <1>9, <2>1, <2>2, MaxEventsAssumption DEF Oldest
  <2>4. i - Oldest(k) + 1 \in DOMAIN window /\ window[i - Oldest(k) + 1] = history[i]
    BY <1>3, <2>3
  <2>. QED  BY <1>6, <1>9, <2>4 DEF OwnInOrder
<1>. QED  BY <1>7, <1>8, <1>9 DEF list, c

\* The detail of a conversation shows its events and no others, oldest first,
\* and misses what was recorded before the request only if it was evicted.
THEOREM DetailIsComplete == Spec => []DetailMissesOnlyTheEvicted
BY TInvDetail, TwoCopiesInvariance, PTL

-----------------------------------------------------------------------------
\* A row that shows a last failure and no errors, or errors and no failure,
\* does so because of what was recorded between its two copies.
LEMMA TInvHealth == TInv => HealthRowsExplained
<1>. SUFFICES ASSUME TInv, NEW r \in Readers, NEW v \in Verticals,
                     step[r] = "answered", call[r].op = "verticals"
     PROVE  LET row == answer[r][v] IN
            /\ row.last_failure # None /\ row.errors = 0 =>
                  row.last_failure.timestamp <= returned[r] - MaxEvents
            /\ row.last_failure = None =>
                  row.errors <= Cardinality(
                      {i \in (called[r] + 1)..returned[r] :
                          ~history[i].ok /\ history[i].vertical = v})
  BY DEF HealthRowsExplained
<1>. DEFINE row == answer[r][v]
            recent == {i \in (called[r] + 1)..returned[r] :
                          ~history[i].ok /\ history[i].vertical = v}
<1>1. ExplainedByTwo(r)
  <2>1. ~Single(r)
    BY DEF Single, CopiesNeeded
  <2>. QED  BY <2>1 DEF TInv, TwoCopies
<1>2. PICK k \in called[r]..returned[r] : \E l \in k..returned[r] :
         answer[r] = Respond(call[r], <<Window(k), Window(l)>>)
  BY <1>1 DEF ExplainedByTwo
<1>3. PICK l \in k..returned[r] : answer[r] = Respond(call[r], <<Window(k), Window(l)>>)
  BY <1>2
<1>4. /\ called[r] \in Nat /\ returned[r] \in Nat /\ Len(history) \in Nat
      /\ returned[r] <= Len(history)
  BY <1>1, MomentsType DEF TInv, ExplainedByTwo
<1>5. k \in 0..Len(history) /\ l \in 0..Len(history) /\ k \in Nat /\ l \in Nat /\ k <= l
  BY <1>4
<1>. DEFINE first == Window(k)
            second == Window(l)
<1>6. row = HealthRow(first, second, v)
  BY <1>3 DEF Respond
<1>7. /\ first \in Seq(Events) /\ Oldest(k) \in 1..(k + 1)
      /\ \A i \in DOMAIN first :
            /\ Oldest(k) + i - 1 \in Oldest(k)..k
            /\ first[i] = history[Oldest(k) + i - 1]
            /\ first[i] \in Events
            /\ first[i].timestamp = Oldest(k) + i - 1
      /\ \A t \in Oldest(k)..k :
            t - Oldest(k) + 1 \in DOMAIN first /\ first[t - Oldest(k) + 1] = history[t]
  BY <1>5, WindowElements
<1>8. /\ second \in Seq(Events) /\ Oldest(l) \in 1..(l + 1)
      /\ \A i \in DOMAIN second :
            /\ Oldest(l) + i - 1 \in Oldest(l)..l
            /\ second[i] = history[Oldest(l) + i - 1]
      /\ \A t \in Oldest(l)..l :
            t - Oldest(l) + 1 \in DOMAIN second /\ second[t - Oldest(l) + 1] = history[t]
  BY <1>5, WindowElements
<1>. HIDE DEF first, second, row
<1>9. /\ row.last_failure = LastFailure(first, v)
      /\ row.errors = Cardinality(ErrorsIn(second, v))
  BY <1>6, <1>8, HealthRowCounts
<1>10. IsFiniteSet(ErrorsIn(second, v)) /\ ErrorsIn(second, v) \in SUBSET DOMAIN second
  BY <1>8, IndicesType, FS_Subset DEF ErrorsIn
<1>11. \A event : Bucket(event) = v <=> event.vertical = v
  BY StoreAssumption DEF Bucket
<1>12. ASSUME row.last_failure # None, row.errors = 0
       PROVE  row.last_failure.timestamp <= returned[r] - MaxEvents
  <2>1. PICK i \in FailuresOf(first, v) : row.last_failure = first[i]
    BY <1>7, <1>9, <1>12, LastFailureIsFailure
  <2>2. i \in DOMAIN first /\ ~first[i].ok /\ first[i].vertical = v
    BY DEF FailuresOf
  <2>. DEFINE t == Oldest(k) + i - 1
  <2>3. /\ t \in Oldest(k)..k /\ first[i] = history[t]
        /\ row.last_failure.timestamp = t
    BY <1>7, <2>1, <2>2
  <2>. HIDE DEF t
  <2>4. ErrorsIn(second, v) = {}
    BY <1>9, <1>10, <1>12, FS_EmptySet
  <2>5. t \notin Oldest(l)..l
    <3>1. ASSUME t \in Oldest(l)..l  PROVE t - Oldest(l) + 1 \in ErrorsIn(second, v)
      BY <1>8, <1>11, <2>2, <2>3, <3>1 DEF ErrorsIn
    <3>. QED  BY <2>4, <3>1
  <2>6. t \in Int /\ t <= k /\ t >= 1
    BY <1>5, <1>7, <2>3
  <2>7. Oldest(l) \in Int /\ t < Oldest(l)
    BY <1>5, <1>8, <2>5, <2>6
  <2>8. Oldest(l) = l - MaxEvents + 1
    BY <1>5, <2>6, <2>7, MaxEventsAssumption DEF Oldest
  <2>9. l <= returned[r]
    BY <1>4, <1>5
  <2>10. t <= returned[r] - MaxEvents
    BY <1>4, <1>5, <2>6, <2>7, <2>8, <2>9, MaxEventsAssumption
  <2>. QED  BY <2>3, <2>10
<1>13. ASSUME row.last_failure = None
       PROVE  row.errors <= Cardinality(recent)
  <2>1. FailuresOf(first, v) = {}
    <3>1. \A event \in Events : event # None
      BY EventAssumption DEF Events
    <3>2. \A i \in FailuresOf(first, v) : first[i] # None
      BY <1>7, <3>1 DEF FailuresOf
    <3>3. ASSUME FailuresOf(first, v) # {}  PROVE FALSE
      <4>1. first \in Seq(Events)
        BY <1>7
      <4>2. \E i \in FailuresOf(first, v) : LastFailure(first, v) = first[i]
        BY <3>3, <4>1, LastFailureIsFailure
      <4>. QED  BY <1>9, <1>13, <3>2, <4>2
    <3>. QED  BY <3>3
  <2>. DEFINE f == [i \in ErrorsIn(second, v) |-> Oldest(l) + i - 1]
  <2>2. ASSUME NEW i \in ErrorsIn(second, v)  PROVE f[i] \in recent
    <3>. DEFINE t == Oldest(l) + i - 1
    <3>1. i \in DOMAIN second /\ Bucket(second[i]) = v /\ ~second[i].ok
      BY DEF ErrorsIn
    <3>2. t \in Oldest(l)..l /\ second[i] = history[t]
      BY <1>8, <3>1
    <3>3. ~history[t].ok /\ history[t].vertical = v
      BY <1>11, <3>1, <3>2
    <3>. HIDE DEF t
    <3>4. t \notin Oldest(k)..k
      <4>1. ASSUME t \in Oldest(k)..k
            PROVE  t - Oldest(k) + 1 \in FailuresOf(first, v)
        BY <1>7, <3>3, <4>1 DEF FailuresOf
      <4>. QED  BY <2>1, <4>1
    <3>5. Oldest(k) <= Oldest(l)
      BY <1>5, MaxEventsAssumption DEF Oldest
    <3>6. t \in (called[r] + 1)..returned[r]
      <4>1. t \in Int /\ Oldest(k) \in Int /\ Oldest(l) \in Int
        BY <1>5, <1>7, <1>8, <3>2
      <4>2. Oldest(l) <= t /\ t <= l
        BY <1>5, <3>2, <4>1
      <4>3. t > k
        BY <1>5, <3>4, <3>5, <4>1, <4>2
      <4>4. called[r] <= k /\ l <= returned[r]
        BY <1>4, <1>5
      <4>. QED  BY <1>4, <1>5, <4>1, <4>2, <4>3, <4>4
    <3>. QED  BY <3>3, <3>6 DEF t
  <2>3. \A i \in DOMAIN second : i \in Int
    BY <1>8, IndicesType
  <2>4. \A i, j \in ErrorsIn(second, v) : f[i] = f[j] => i = j
    BY <1>8, <1>10, <2>3, SMTT(30)
  <2>. HIDE DEF f
  <2>5. f \in Injection(ErrorsIn(second, v), recent)
    <3>1. f \in [ErrorsIn(second, v) -> recent]
      BY <2>2 DEF f
    <3>. QED  BY <2>4, <3>1 DEF Injection, IsInjective
  <2>6. IsFiniteSet(recent)
    <3>1. IsFiniteSet((called[r] + 1)..returned[r])
      <4>1. called[r] + 1 \in Int /\ returned[r] \in Int
        BY <1>4
      <4>. QED  BY <4>1, FS_Interval
    <3>. QED  BY <3>1, FS_Subset
  <2>. HIDE DEF recent
  <2>. QED  BY <1>9, <2>5, <2>6, FS_Injection
<1>. QED  BY <1>12, <1>13 DEF row

\* What looks inconsistent in a row of the verticals page came in, or left the
\* store, while the row was computed.
THEOREM HealthRowsAreExplained == Spec => []HealthRowsExplained
BY TwoCopiesInvariance, TInvHealth, PTL
=============================================================================
