------------------------------ MODULE Lifespan ------------------------------
(***************************************************************************)
(* The lifespan of one FastAPI app object (app/main.py): every startup     *)
(* makes a new generation of components and a new MCP session manager, but *)
(* routes are registered by the first startup only.  An app may be started *)
(* again after a shutdown or a failed startup, as a test client or an      *)
(* embedding server does.  A call is answered by a router and recorded, or *)
(* ends unrecorded (blocked by its vertical filter, cancelled, or escaped  *)
(* from the router), or is refused because the session manager behind the  *)
(* mounted app does not run.                                               *)
(***************************************************************************)
EXTENDS Integers, FiniteSets, Deque

CONSTANTS
    MaxEvents,  \* what a store retains: max_events
    MaxStarts,  \* bound: startups of the app
    MaxCalls    \* bound: tool calls of a behaviour

ASSUME BoundsAssumption ==
    /\ MaxEvents \in Nat \ {0}
    /\ MaxStarts \in Nat \ {0}
    /\ MaxCalls \in Nat

Generations == 1..MaxStarts
NoGeneration == 0

\* The surface a recorded call came in by: InvocationSource.
Sources == {"mcp", "sandbox"}

VARIABLES
    server,     \* "down", "starting" or "up"
    started,    \* startups begun: the number of the latest generation
    appState,   \* generation of app.state.catalog, router, ...
    mounted,    \* generation of the MCP app mounted at /v1
    debug,      \* generation the health, debug and sandbox routes close over
    registered, \* app.state.runtime_routes_registered
    manager,    \* generation -> "absent", "running" or "stopped"
    store,      \* generation -> the events its store retains
    routed,     \* ghost: every call a router answered, in order
    unrecorded, \* ghost: calls that ended without an event
    refused,    \* ghost: MCP calls that failed for want of a session manager
    completed   \* ghost: startups that succeeded

vars == <<server, started, appState, mounted, debug, registered, manager,
          store, routed, unrecorded, refused, completed>>

-----------------------------------------------------------------------------
Init == /\ server = "down"
        /\ started = 0
        /\ appState = NoGeneration
        /\ mounted = NoGeneration
        /\ debug = NoGeneration
        /\ registered = FALSE
        /\ manager = [g \in Generations |-> "absent"]
        /\ store = [g \in Generations |-> << >>]
        /\ routed = << >>
        /\ unrecorded = 0
        /\ refused = 0
        /\ completed = 0

\* lifespan() is entered: it makes the clients and awaits the catalog.
BeginStartup ==
    /\ server = "down"
    /\ started < MaxStarts
    /\ server' = "starting"
    /\ started' = started + 1
    /\ UNCHANGED <<appState, mounted, debug, registered, manager, store, routed,
                   unrecorded, refused, completed>>

\* Mutant: routes are registered before the catalog is built.
FailStartupRegistered ==
    /\ server = "starting"
    /\ server' = "down"
    /\ mounted' = IF registered THEN mounted ELSE started
    /\ debug' = IF registered THEN debug ELSE started
    /\ registered' = TRUE
    /\ UNCHANGED <<started, appState, manager, store, routed, unrecorded, refused,
                   completed>>

\* Building the catalog raised: the startup fails before anything is set.
FailStartup ==
    /\ server = "starting"
    /\ server' = "down"
    /\ UNCHANGED <<started, appState, mounted, debug, registered, manager, store,
                   routed, unrecorded, refused, completed>>

\* Mutants: the debug routes are never included, or outside of the guard.
RegisterMcpOnly ==
    /\ mounted' = IF registered THEN mounted ELSE started
    /\ registered' = TRUE
    /\ UNCHANGED debug
RegisterDebugEachTime ==
    /\ mounted' = IF registered THEN mounted ELSE started
    /\ registered' = TRUE
    /\ debug' = started

RegisterRoutes ==
    IF registered THEN UNCHANGED <<mounted, debug, registered>>
    ELSE /\ mounted' = started
         /\ debug' = started
         /\ registered' = TRUE

\* Mutant: the session manager of the mounted app is run again.
MountedManager == IF registered THEN mounted ELSE started

\* mcp_app.state.session_manager is the one this startup made.
ManagerToRun == started

\* The rest of the startup, up to the yield.
CompleteStartup ==
    /\ server = "starting"
    /\ appState' = started
    /\ RegisterRoutes
    /\ manager' = [manager EXCEPT ![ManagerToRun] = "running"]
    /\ server' = "up"
    /\ completed' = completed + 1
    /\ UNCHANGED <<started, store, routed, unrecorded, refused>>

\* Mutant: the session manager is left running.
ShutdownLeavesManager ==
    /\ server = "up"
    /\ server' = "down"
    /\ UNCHANGED <<started, appState, mounted, debug, registered, manager, store,
                   routed, unrecorded, refused, completed>>

\* Leaving session_manager.run() stops that manager for good.
Shutdown ==
    /\ server = "up"
    /\ server' = "down"
    /\ manager' = [manager EXCEPT ![started] = "stopped"]
    /\ UNCHANGED <<started, appState, mounted, debug, registered, store, routed,
                   unrecorded, refused, completed>>

-----------------------------------------------------------------------------
CallArrives == server = "up" /\ Len(routed) + unrecorded + refused < MaxCalls

\* The router of a generation answers, whatever the answer, and records it.
RouterAnswers(g, source) ==
    /\ store' = [store EXCEPT ![g] = Pushed(@, source, MaxEvents)]
    /\ routed' = Append(routed, source)
    /\ UNCHANGED <<server, started, appState, mounted, debug, registered,
                   manager, unrecorded, refused, completed>>

\* The vertical filter of the call blocks it before the router, or the call
\* leaves the router by an exception: it is cancelled, or its tool's schema is
\* none by the meta-schema that schema names.
EndsUnrecorded ==
    /\ unrecorded' = unrecorded + 1
    /\ UNCHANGED <<server, started, appState, mounted, debug, registered,
                   manager, store, routed, refused, completed>>

\* A call of /v1/mcp, by the router of the mounted generation.
McpCall ==
    /\ CallArrives
    /\ manager[mounted] = "running"
    /\ RouterAnswers(mounted, "mcp") \/ EndsUnrecorded

\* handle_request of a session manager that is not running raises.
McpCallRefused ==
    /\ CallArrives
    /\ manager[mounted] # "running"
    /\ refused' = refused + 1
    /\ UNCHANGED <<server, started, appState, mounted, debug, registered,
                   manager, store, routed, unrecorded, completed>>

\* POST /debug/sandbox/invoke, by the router the debug routes close over.
SandboxCall ==
    /\ CallArrives
    /\ RouterAnswers(debug, "sandbox") \/ EndsUnrecorded

Next == \/ BeginStartup \/ FailStartup \/ CompleteStartup \/ Shutdown
        \/ McpCall \/ McpCallRefused \/ SandboxCall

Spec == Init /\ [][Next]_vars

-----------------------------------------------------------------------------
(* Properties                                                              *)

\* The type of every variable.
TypeOK ==
    /\ server \in {"down", "starting", "up"}
    /\ started \in 0..MaxStarts
    /\ {appState, mounted, debug} \subseteq {NoGeneration} \cup Generations
    /\ registered \in BOOLEAN
    /\ manager \in [Generations -> {"absent", "running", "stopped"}]
    /\ store \in [Generations -> Seq(Sources)]
    /\ \A g \in Generations : Len(store[g]) <= MaxEvents
    /\ routed \in Seq(Sources) /\ Len(routed) <= MaxCalls
    /\ {unrecorded, refused} \subseteq 0..MaxCalls
    /\ completed \in 0..MaxStarts
    /\ server = "up" => mounted \in Generations /\ debug \in Generations

\* However often the app is started, and whichever startups failed, the
\* store behind the debug pages holds the latest calls that were answered by
\* a router, in order, whichever surface they came in by and whichever startup
\* they followed; no call that was blocked, cancelled or refused is there.
MonitoringCoversBothSurfaces ==
    debug # NoGeneration => store[debug] = Latest(routed, MaxEvents)

\* An app that is up runs exactly one session manager, the latest one made,
\* and one that is down or starting runs none.
OneManagerWhileUp ==
    {g \in Generations : manager[g] = "running"} =
        IF server = "up" THEN {started} ELSE {}

\* Startups that failed do no harm: the first one to succeed serves MCP, and
\* until a second one succeeds no call is refused.
FirstSuccessServes ==
    completed <= 1 => /\ refused = 0
                      /\ server = "up" => manager[mounted] = "running"

\* A session manager never runs a second time (its run() raises if entered
\* twice), and the mounted app never changes once calls can reach it.
NothingRunsTwice ==
    [][ /\ \A g \in Generations : manager[g] = "stopped" => manager'[g] = "stopped"
        /\ registered => mounted' = mounted /\ debug' = debug ]_vars

\* README.md:123, under "When the app is running, these are the useful
\* review URLs": "/v1/mcp  Public MCP endpoint".  While the app is up, the
\* session manager behind /v1/mcp runs.
McpServedWhileUp == server = "up" => manager[mounted] = "running"
=============================================================================
