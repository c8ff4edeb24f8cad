------------------------------ MODULE ToolCall ------------------------------
(***************************************************************************)
(* What the proxy promises of each tool call, with no surface, context or  *)
(* router in it.  A request that was asked is at most once sent to a       *)
(* vertical, as the one call it is permitted, and then gets at most one    *)
(* result; the result and its record are one step, and neither changes.    *)
(* A request may be dropped instead, sent or not, and leaves no record.    *)
(* What one request goes through changes nothing of another.               *)
(***************************************************************************)
EXTENDS Naturals

CONSTANTS
    Slots,          \* requests
    Asks,           \* what a request may be
    Permitted(_),   \* the calls a request may be sent on as
    Refusals(_),    \* the results a request may get unsent
    Outcomes,       \* the results a request may get once it was sent
    Countable(_, _),\* this result of this request is recorded
    None

VARIABLES
    asked,      \* slot -> its request, None before
    sent,       \* slot -> the calls made for it, in order
    told,       \* slot -> its result
    recorded,   \* slot -> the outcomes recorded for it, in order
    dropped     \* the requests given up

vars == <<asked, sent, told, recorded, dropped>>

Open(s) == asked[s] # None /\ told[s] = None /\ s \notin dropped

-----------------------------------------------------------------------------
Init == /\ asked = [s \in Slots |-> None]
        /\ sent = [s \in Slots |-> << >>]
        /\ told = [s \in Slots |-> None]
        /\ recorded = [s \in Slots |-> << >>]
        /\ dropped = {}

Ask(s) == /\ asked[s] = None
          /\ \E ask \in Asks : asked' = [asked EXCEPT ![s] = ask]
          /\ UNCHANGED <<sent, told, recorded, dropped>>

Send(s) == /\ Open(s)
           /\ sent[s] = << >>
           /\ \E call \in Permitted(asked[s]) : sent' = [sent EXCEPT ![s] = <<call>>]
           /\ UNCHANGED <<asked, told, recorded, dropped>>

Tell(s, result) ==
    /\ Open(s)
    /\ result \in IF sent[s] = << >> THEN Refusals(asked[s]) ELSE Outcomes
    /\ told' = [told EXCEPT ![s] = result]
    /\ recorded' = [recorded EXCEPT ![s] =
                       IF Countable(asked[s], result) THEN <<result>> ELSE << >>]
    /\ UNCHANGED <<asked, sent, dropped>>

Drop(s) == /\ Open(s)
           /\ dropped' = dropped \cup {s}
           /\ UNCHANGED <<asked, sent, told, recorded>>

Results == Outcomes \cup UNION {Refusals(ask) : ask \in Asks}

Next == \E s \in Slots : \/ Ask(s) \/ Send(s) \/ Drop(s)
                         \/ \E result \in Results : Tell(s, result)

Spec == Init /\ [][Next]_vars
=============================================================================
