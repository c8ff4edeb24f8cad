--------------------------- MODULE LifespanProofs ---------------------------
(***************************************************************************)
(* What Lifespan guarantees for any number of startups and calls: the      *)
(* invariant that relates the generation the routes were registered for to *)
(* the one whose session manager runs, and what follows from it.           *)
(***************************************************************************)
EXTENDS Lifespan, DataProofs, TLAPS

\* Only generations that were started have a session manager; the latest has
\* none while it starts, and runs its own, alone, while the app is up.
ManagersFollowStartups ==
    /\ \A g \in Generations : manager[g] # "absent" => g <= started
    /\ \A g \in Generations :
          manager[g] = "running" <=> server = "up" /\ g = started
    /\ server = "starting" => started >= 1 /\ manager[started] = "absent"
    /\ server = "up" => started >= 1

\* The routes belong to one generation, that of the first startup to succeed.
RoutesAreRegisteredOnce ==
    /\ mounted = debug
    /\ registered <=> mounted # NoGeneration
    /\ registered <=> completed >= 1
    /\ server = "up" => registered
    /\ completed <= started
    /\ server = "starting" => completed < started
    /\ completed <= 1 /\ server = "up" => mounted = started

\* Every call a router answered was recorded by that generation, none by
\* another, and none was refused by the first.
CallsAreRecordedThere ==
    /\ Len(routed) + unrecorded + refused <= MaxCalls
    /\ ~registered => routed = << >>
    /\ completed <= 1 => refused = 0
    /\ \A g \in Generations :
          store[g] = IF g = debug THEN Latest(routed, MaxEvents) ELSE << >>

\* The inductive invariant.
IInv == /\ TypeOK
        /\ ManagersFollowStartups /\ RoutesAreRegisteredOnce
        /\ CallsAreRecordedThere
-----------------------------------------------------------------------------
\* The invariant holds before the first startup.
LEMMA IInvInit == Init => IInv
<1>. SUFFICES ASSUME Init PROVE IInv
  OBVIOUS
<1>. USE BoundsAssumption DEF Init, Generations, NoGeneration
<1>1. TypeOK
  <2>1. /\ manager \in [Generations -> {"absent", "running", "stopped"}]
        /\ store \in [Generations -> Seq(Sources)]
        /\ \A g \in Generations : Len(store[g]) <= MaxEvents
    OBVIOUS
  <2>2. /\ {appState, mounted, debug} \subseteq {NoGeneration} \cup Generations
        /\ routed \in Seq(Sources) /\ Len(routed) <= MaxCalls
        /\ {unrecorded, refused} \subseteq 0..MaxCalls
    OBVIOUS
  <2>3. started \in 0..MaxStarts /\ completed \in 0..MaxStarts
    OBVIOUS
  <2>4. server = "down" /\ registered \in BOOLEAN
    OBVIOUS
  <2>. QED  BY <2>1, <2>2, <2>3, <2>4, Zenon DEF TypeOK
<1>2. ManagersFollowStartups
  BY DEF ManagersFollowStartups
<1>3. RoutesAreRegisteredOnce
  BY DEF RoutesAreRegisteredOnce
<1>4. CallsAreRecordedThere
  BY DEF CallsAreRecordedThere
<1>. QED  BY <1>1, <1>2, <1>3, <1>4 DEF IInv

\* Every step keeps the types.
LEMMA TypeStep == IInv /\ [Next]_vars => TypeOK'
<1>. SUFFICES ASSUME IInv, [Next]_vars PROVE TypeOK'
  OBVIOUS
<1>. USE BoundsAssumption DEF Generations, NoGeneration
<1>1. CASE BeginStartup
  BY <1>1 DEF BeginStartup, IInv, TypeOK
<1>2. CASE FailStartup
  BY <1>2 DEF FailStartup, IInv, TypeOK
<1>3. CASE CompleteStartup
  <2>1. started \in Generations /\ completed + 1 \in 0..MaxStarts
    BY <1>3 DEF CompleteStartup, IInv, TypeOK, ManagersFollowStartups,
                RoutesAreRegisteredOnce
  <2>2. manager' \in [Generations -> {"absent", "running", "stopped"}]
    BY <1>3, <2>1 DEF CompleteStartup, IInv, TypeOK
  <2>3. mounted' \in Generations /\ debug' \in Generations /\ registered' = TRUE
    BY <1>3, <2>1 DEF CompleteStartup, RegisterRoutes, IInv, TypeOK,
                      RoutesAreRegisteredOnce
  <2>. QED
    BY <1>3, <2>1, <2>2, <2>3 DEF CompleteStartup, IInv, TypeOK
<1>4. CASE Shutdown
  BY <1>4 DEF Shutdown, IInv, TypeOK
<1>5. ASSUME CallArrives, NEW g \in Generations, NEW source \in Sources,
             RouterAnswers(g, source)
      PROVE  TypeOK'
  <2>c. /\ routed \in Seq(Sources) /\ Len(routed) \in Nat
        /\ unrecorded \in Nat /\ refused \in Nat
        /\ Len(routed) + unrecorded + refused < MaxCalls
    BY <1>5 DEF CallArrives, IInv, TypeOK
  <2>r. routed' = Append(routed, source)
    BY <1>5 DEF RouterAnswers
  <2>1. routed' \in Seq(Sources) /\ Len(routed') <= MaxCalls
    BY <2>c, <2>r
  <2>. DEFINE pushed == Pushed(store[g], source, MaxEvents)
  <2>2. pushed \in Seq(Sources) /\ Len(pushed) <= MaxEvents
    BY BoundedAppend DEF Pushed, IInv, TypeOK
  <2>3. store' = [store EXCEPT ![g] = pushed]
    BY <1>5 DEF RouterAnswers
  <2>. HIDE DEF pushed
  <2>4. /\ store' \in [Generations -> Seq(Sources)]
        /\ \A h \in Generations : Len(store'[h]) <= MaxEvents
    BY <2>2, <2>3 DEF IInv, TypeOK
  <2>. QED  BY <1>5, <2>1, <2>4 DEF RouterAnswers, IInv, TypeOK
<1>u. CASE CallArrives /\ EndsUnrecorded
  <2>1. unrecorded + 1 \in 0..MaxCalls
    BY <1>u DEF CallArrives, IInv, TypeOK
  <2>. QED  BY <1>u, <2>1 DEF EndsUnrecorded, IInv, TypeOK
<1>6. CASE McpCall \/ SandboxCall
  <2>1. CallArrives /\ mounted \in Generations /\ debug \in Generations
    BY <1>6 DEF McpCall, SandboxCall, CallArrives, IInv, TypeOK
  <2>2. {"mcp", "sandbox"} \subseteq Sources
    BY DEF Sources
  <2>. QED  BY <1>5, <1>u, <1>6, <2>1, <2>2 DEF McpCall, SandboxCall
<1>7. CASE McpCallRefused
  BY <1>7 DEF McpCallRefused, CallArrives, IInv, TypeOK
<1>8. CASE UNCHANGED vars
  BY <1>8 DEF vars, IInv, TypeOK
<1>. QED
  BY <1>1, <1>2, <1>3, <1>4, <1>6, <1>7, <1>8 DEF Next

\* A startup that completes runs a session manager that never ran, and gives
\* the routes to its own generation unless an earlier startup did.
LEMMA CompleteStep == IInv /\ TypeOK' /\ CompleteStartup => IInv'
<1>. SUFFICES ASSUME IInv, TypeOK', CompleteStartup PROVE IInv'
  OBVIOUS
<1>1. /\ server = "starting" /\ server' = "up"
      /\ started \in Generations /\ started' = started
      /\ completed' = completed + 1 /\ completed \in Nat
      /\ UNCHANGED <<store, routed, unrecorded, refused>>
  BY DEF CompleteStartup, IInv, TypeOK, ManagersFollowStartups, Generations
<1>2. /\ manager'[started] = "running"
      /\ \A g \in Generations \ {started} : manager'[g] = manager[g]
  BY <1>1 DEF CompleteStartup, ManagerToRun, IInv, TypeOK
<1>3. /\ registered' = TRUE
      /\ registered => mounted' = mounted /\ debug' = debug
      /\ ~registered => mounted' = started /\ debug' = started
  BY DEF CompleteStartup, RegisterRoutes, IInv, TypeOK
<1>4. ManagersFollowStartups'
  BY <1>1, <1>2 DEF IInv, ManagersFollowStartups, Generations
<1>5. RoutesAreRegisteredOnce'
  BY <1>1, <1>3 DEF IInv, RoutesAreRegisteredOnce, Generations, NoGeneration
<1>6. CallsAreRecordedThere'
  <2>1. ASSUME NEW g \in Generations
        PROVE  store'[g] = IF g = debug' THEN Latest(routed', MaxEvents) ELSE << >>
    <3>1. CASE registered
      BY <1>1, <1>3, <3>1 DEF IInv, CallsAreRecordedThere
    <3>2. CASE ~registered
      <4>1. store[g] = << >> /\ routed = << >>
        BY <3>2 DEF IInv, CallsAreRecordedThere, RoutesAreRegisteredOnce,
                    Generations, NoGeneration
      <4>2. Latest(<< >>, MaxEvents) = << >>
        BY BoundsAssumption DEF Latest
      <4>. QED  BY <1>1, <4>1, <4>2
    <3>. QED  BY <3>1, <3>2
  <2>2. completed' <= 1 => refused' = 0
    BY <1>1 DEF IInv, CallsAreRecordedThere
  <2>. QED  BY <1>1, <1>3, <2>1, <2>2 DEF IInv, CallsAreRecordedThere
<1>. QED  BY <1>4, <1>5, <1>6 DEF IInv

\* A call that is answered is recorded by the generation of the routes.
LEMMA RoutedStep ==
    ASSUME IInv, TypeOK', CallArrives, NEW source \in Sources,
           RouterAnswers(debug, source)
    PROVE  IInv'
<1>1. /\ server = "up" /\ registered /\ debug \in Generations
      /\ routed \in Seq(Sources) /\ Len(routed) \in Nat
      /\ unrecorded \in Nat /\ refused \in Nat
      /\ Len(routed) + unrecorded + refused < MaxCalls
  BY DEF CallArrives, IInv, TypeOK, RoutesAreRegisteredOnce
<1>2. Pushed(Latest(routed, MaxEvents), source, MaxEvents)
        = Latest(Append(routed, source), MaxEvents)
  BY <1>1, BoundsAssumption, PushedIsLatest
<1>3. routed' = Append(routed, source) /\ Len(routed') = Len(routed) + 1
  BY <1>1 DEF RouterAnswers
<1>4. ASSUME NEW g \in Generations
      PROVE  store'[g] = IF g = debug THEN Latest(routed', MaxEvents) ELSE << >>
  BY <1>1, <1>2, <1>3 DEF RouterAnswers, IInv, TypeOK, CallsAreRecordedThere
<1>5. ManagersFollowStartups' /\ RoutesAreRegisteredOnce'
  BY DEF RouterAnswers, IInv, ManagersFollowStartups, RoutesAreRegisteredOnce
<1>6. /\ Len(routed') + unrecorded + refused <= MaxCalls
      /\ UNCHANGED <<registered, debug, completed, unrecorded, refused>>
  BY <1>1, <1>3, BoundsAssumption DEF RouterAnswers
<1>7. CallsAreRecordedThere'
  BY <1>1, <1>4, <1>6 DEF IInv, CallsAreRecordedThere
<1>. QED  BY <1>5, <1>7 DEF IInv

\* A call that ends unrecorded is in no store.
LEMMA UnrecordedStep ==
    ASSUME IInv, TypeOK', CallArrives, EndsUnrecorded
    PROVE  IInv'
<1>1. /\ Len(routed) \in Nat /\ unrecorded \in Nat /\ refused \in Nat
      /\ Len(routed) + unrecorded + refused < MaxCalls
  BY DEF CallArrives, IInv, TypeOK
<1>2. ManagersFollowStartups' /\ RoutesAreRegisteredOnce'
  BY DEF EndsUnrecorded, IInv, ManagersFollowStartups, RoutesAreRegisteredOnce
<1>3. CallsAreRecordedThere'
  BY <1>1, BoundsAssumption DEF EndsUnrecorded, IInv, CallsAreRecordedThere
<1>. QED  BY <1>2, <1>3 DEF IInv

\* Every step keeps the invariant.
LEMMA IInvStep == IInv /\ [Next]_vars => IInv'
<1>. SUFFICES ASSUME IInv, [Next]_vars PROVE IInv'
  OBVIOUS
<1>1. TypeOK'
  BY TypeStep
<1>2. CASE BeginStartup
  <2>1. started \in Nat /\ completed \in Nat
    BY DEF IInv, TypeOK
  <2>2. started + 1 \in Generations
    BY <1>2, <2>1, BoundsAssumption DEF BeginStartup, Generations
  <2>3. ManagersFollowStartups'
    BY <1>2, <2>1, <2>2
    DEF BeginStartup, IInv, TypeOK, ManagersFollowStartups, Generations
  <2>4. RoutesAreRegisteredOnce' /\ CallsAreRecordedThere'
    BY <1>2, <2>1 DEF BeginStartup, IInv, RoutesAreRegisteredOnce,
                      CallsAreRecordedThere
  <2>. QED  BY <1>1, <2>3, <2>4 DEF IInv
<1>3. CASE FailStartup
  BY <1>1, <1>3 DEF FailStartup, IInv, ManagersFollowStartups,
                    RoutesAreRegisteredOnce, CallsAreRecordedThere
<1>4. CASE CompleteStartup
  BY <1>1, <1>4, CompleteStep
<1>5. CASE Shutdown
  <2>1. /\ server = "up" /\ server' = "down" /\ started \in Generations
        /\ manager'[started] = "stopped"
        /\ \A g \in Generations \ {started} : manager'[g] = manager[g]
    BY <1>5 DEF Shutdown, IInv, TypeOK, ManagersFollowStartups, Generations
  <2>2. ManagersFollowStartups'
    BY <1>5, <2>1 DEF Shutdown, IInv, ManagersFollowStartups, Generations
  <2>3. RoutesAreRegisteredOnce' /\ CallsAreRecordedThere'
    BY <1>5, <2>1 DEF Shutdown, IInv, RoutesAreRegisteredOnce, CallsAreRecordedThere
  <2>. QED  BY <1>1, <2>2, <2>3 DEF IInv
<1>6. CASE McpCall \/ SandboxCall
  <2>1. CallArrives /\ mounted = debug /\ {"mcp", "sandbox"} \subseteq Sources
    BY <1>6 DEF McpCall, SandboxCall, IInv, RoutesAreRegisteredOnce, Sources
  <2>. QED
    BY <1>1, <1>6, <2>1, RoutedStep, UnrecordedStep DEF McpCall, SandboxCall
<1>7. CASE McpCallRefused
  \* A first success runs the mounted manager, so a second one came before.
  <2>1. /\ server = "up" /\ Len(routed) + unrecorded + refused < MaxCalls
        /\ Len(routed) \in Nat /\ unrecorded \in Nat /\ refused \in Nat
        /\ completed \in Nat /\ completed > 1
    BY <1>7 DEF McpCallRefused, CallArrives, IInv, TypeOK,
                ManagersFollowStartups, RoutesAreRegisteredOnce
  <2>2. ManagersFollowStartups' /\ RoutesAreRegisteredOnce'
    BY <1>7 DEF McpCallRefused, IInv, ManagersFollowStartups, RoutesAreRegisteredOnce
  <2>3. CallsAreRecordedThere'
    BY <1>7, <2>1, BoundsAssumption DEF McpCallRefused, IInv, CallsAreRecordedThere
  <2>. QED  BY <1>1, <2>2, <2>3 DEF IInv
<1>8. CASE UNCHANGED vars
  BY <1>1, <1>8 DEF vars, IInv, ManagersFollowStartups,
                    RoutesAreRegisteredOnce, CallsAreRecordedThere
<1>. QED
  BY <1>2, <1>3, <1>4, <1>5, <1>6, <1>7, <1>8 DEF Next

\* The invariant holds of every reachable state.
THEOREM Invariance == Spec => []IInv
BY IInvInit, IInvStep, PTL DEF Spec

-----------------------------------------------------------------------------
\* The variables keep their types, and routes are registered before a call.
THEOREM TypeCorrect == Spec => []TypeOK
<1>1. IInv => TypeOK
  BY DEF IInv
<1>. QED  BY <1>1, Invariance, PTL

\* However often the app starts and fails to, the store behind the debug pages
\* holds the latest calls that routers answered, over both surfaces, in order,
\* and none that was blocked, cancelled or refused.
THEOREM MonitoringIsComplete == Spec => []MonitoringCoversBothSurfaces
<1>1. IInv => MonitoringCoversBothSurfaces
  BY DEF IInv, TypeOK, CallsAreRecordedThere, MonitoringCoversBothSurfaces
<1>. QED  BY <1>1, Invariance, PTL

\* An app that is up runs the session manager of its latest startup and no
\* other; shutting it down leaves none running.
THEOREM OneManager == Spec => []OneManagerWhileUp
<1>1. IInv => OneManagerWhileUp
  BY DEF IInv, TypeOK, ManagersFollowStartups, OneManagerWhileUp, Generations
<1>. QED  BY <1>1, Invariance, PTL

\* Failed startups do no harm to the first that succeeds: its session manager
\* is the mounted one, and no call is refused before a second success.
THEOREM FirstServes == Spec => []FirstSuccessServes
<1>1. IInv => FirstSuccessServes
  BY DEF IInv, TypeOK, ManagersFollowStartups, RoutesAreRegisteredOnce,
         CallsAreRecordedThere, FirstSuccessServes
<1>. QED  BY <1>1, Invariance, PTL

\* No step runs a session manager that was stopped, and none remounts the app
\* once routes are registered.
THEOREM NoSecondRun == Spec => NothingRunsTwice
<1>. DEFINE Kept ==
       /\ \A g \in Generations : manager[g] = "stopped" => manager'[g] = "stopped"
       /\ registered => mounted' = mounted /\ debug' = debug
<1>1. IInv /\ [Next]_vars => [Kept]_vars
  <2>. SUFFICES ASSUME IInv, Next PROVE Kept
    OBVIOUS
  <2>1. CASE CompleteStartup
    <3>1. /\ manager[started] = "absent"
          /\ \A g \in Generations \ {started} : manager'[g] = manager[g]
      BY <2>1 DEF CompleteStartup, ManagerToRun, IInv, TypeOK, ManagersFollowStartups
    <3>. QED  BY <2>1, <3>1 DEF CompleteStartup, RegisterRoutes
  <2>2. CASE Shutdown
    BY <2>2 DEF Shutdown, IInv, TypeOK
  <2>3. CASE \/ BeginStartup \/ FailStartup \/ McpCall \/ McpCallRefused
             \/ SandboxCall
    BY <2>3 DEF BeginStartup, FailStartup, McpCall, McpCallRefused, SandboxCall,
                RouterAnswers, EndsUnrecorded
  <2>. QED  BY <2>1, <2>2, <2>3 DEF Next
<1>. QED  BY <1>1, Invariance, PTL DEF Spec, NothingRunsTwice
=============================================================================
