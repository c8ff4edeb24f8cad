# dazwischen: TLA+ specifications and proofs

dazwischen is one MCP server in front of several internal MCP "verticals"
(mobility, internet, insurance). At startup it collects the tools the verticals
offer, validates them and publishes a curated catalog; at run time it routes
tool calls to the verticals and keeps a bounded log of what happened, which
debug pages display. This directory holds TLA+ modules of that program, TLC
configurations that check them on small instances, and proofs that TLAPS checks
for every instance. Line numbers are those of the sources beside this directory.

## 1. The system

| Component | Source | State it keeps | Operations |
|---|---|---|---|
| Catalog builder | `app/catalog/builder.py` | during a build: candidates, results, tools, routes | list and adapt the tools of each client, validate, map, publish |
| Catalog registry | `app/catalog/registry.py` | two dicts over a finished snapshot, never written again | `get_tool`, `get_route`, `list_tools(vertical_filter)` |
| Conformance validator | `app/validation/conformance.py` | none | `validate_tool`: nine groups of checks |
| Vertical adapters | `app/vertical_mcp/adapters.py`, `base.py` | none | list and adapt tools, call a tool, list and read resources |
| Tool router | `app/routing/router.py` | none of its own | `invoke`: look up, validate, call, normalise, record |
| MCP adapter | `app/mcp_server.py` | three `ContextVar`s per request | middleware, `list_tools`, `call_tool` |
| Sandbox and debug routes | `app/api/debug.py` | none | invoke a tool; read catalog, report, events, resources |
| Observability store | `app/observability/store.py` | a `deque(maxlen)` and a `Lock` | `record`, five reading methods |
| Application lifespan | `app/main.py` | `app.state`, registered routes, a session manager per startup | startup, shutdown |
| Mock verticals | `app/vertical_mcp/{mobility,internet,insurance}.py` | none | static tools, resources and canned replies |
| UI pages | `app/api/ui.py`, `app/static/` | a page's own variables | fetch and render |

**Interactions.** `create_app`'s lifespan builds the catalog from the clients,
then a router over catalog, clients and store, then the MCP app over catalog and
router, and registers the debug routes over all of them. A call comes in through
`/v1/mcp` or `/debug/sandbox/invoke`; both apply a vertical filter and then call
`ToolRouter.invoke`, which awaits the vertical and records one event. The debug
routes are plain functions, so they run in threads of a pool and read the store
while the event loop writes to it.

**What is hard here.**

* Requests interleave at awaits. The MCP adapter keeps a request's filter and
  ids in context variables between two turns of the event loop.
* The store is the one object shared by threads; two of its methods are made of
  several steps, and `vertical_summary` copies the events twice.
* A vertical may fail, time out, answer nonsense or never answer; a call may be
  cancelled at shutdown after the vertical acted.
* Startup is a loop over several clients, each of which may fail, and then a
  loop over candidates that keeps four results in step.
* Requests for the verticals' resources await the verticals in turn.
* What is listed and what may be called are filtered in three places.
* A page's script starts loads that overlap and whose answers arrive in any order.
* Startup may happen more than once per app object, but routes are registered
  once.

The full list, with the line where each bites, is under `hazards` in
`PROJECT.json`.

**What makes each component correct.** *Builder and registry*: what is published
is a function of the listings alone (first conforming, mapped candidate of each
name), report, tools and routes tell one story, all or nothing. *Router and
adapters*: a filter isolates; only curated calls, at most once, leave the proxy;
each answered call has one event that tells the truth about it; only a
vertical delays; listing and calling agree. *Verticals*: what they publish about
their tools is true of the catalog. *Resource routes*: a listing is whole or
fails, and what it has can be read. *Pages*: a page with nothing under way can
be used and shows the latest. *Store*: it retains exactly the latest events and every read is
of one moment, or is explained by what happened meanwhile. *Lifespan*: one
session manager runs, and the debug pages cover what the routers answered.

## 2. The modules

| Module | Models | Kind |
|---|---|---|
| `CatalogData` | candidates, mappings, `_to_public_tool`, `_to_route`, what "eligible for a name" means | definitions |
| `CuratedCatalog` | the abstract promise: one step publishes under every name its first eligible candidate | abstract specification |
| `Catalog` | `build_from_mcp_clients`, `build_from_candidates`, adapter, registry | one action per await or loop branch; refines `CuratedCatalog` |
| `Checks` | the nine checks of `validate_tool` and the walks over a schema | operators |
| `Conformance` | `validate_all` and `validate_tool` | one action per check |
| `Verdicts` | the validator's own terms, the texts of the shipped tools, and `Conforms` as what the checks find in them | definitions and assumptions |
| `Deque` | `deque(maxlen)`: what `append` makes of it, and the latest of a history | operators of `EventLog` and `Lifespan` |
| `EventLog` | everything computed from a copy of the deque of events | operators |
| `ObservabilityStore` | `record` and the reading routes, with the lock and the copying loop | recorder and reader threads |
| `Proxy` | middleware, `call_tool`, sandbox route, `ToolRouter.invoke` | any number of concurrent requests |
| `ToolCall` | what the proxy promises of one call, with no surface or router in it | abstract specification; `Proxy` refines it |
| `JsonTrees` | JSON values as trees | definitions |
| `Verticals` | `mobility.py`, `internet.py`, `insurance.py`: tools, resources, replies | operators |
| `Dazwischen` | what `main.py` composes: verticals, validator, builder, registry, both surfaces | `Catalog` and `Verticals` composed with clients that list and call |
| `Resources` | the two resource routes over clients that answer, raise or delay | overlapping requests |
| `Pages` | `ui.py`, `common.js`, `conversations.html`, `sandbox.html` | one browser tab |
| `Lifespan` | `create_app.lifespan` over several startups | one app object |
| `Picks` | what a list comprehension with a condition makes of a list | operators of `EventLog` and `Catalog` |
| `ConformanceProofs`, `ProxyProofs`, `ObservabilityStoreProofs`, `LifespanProofs`, `ResourcesProofs`, `PagesProofs` | | theorems on the module of that name |
| `DazwischenProofs` | | theorems on `Catalog`, and on `Dazwischen`, which extends it |
| `DataProofs` | | lemmas on sequences, ranks of indices, counting, and the walks over JSON values |
| `MC*` | constants of the runs | model checking |

### Catalog

`listing` is what each client's `list_tools()` would return, or `Unreachable`;
it is chosen once, as the listing of an in-process server does not change.
`ListCandidateTools` is one iteration of `for client in clients` with its await;
`ListingRaises` is the same iteration when the client or the adapter raises
(`_required_meta` and the two type checks of `mcp_tool_to_candidate`),
which nothing catches. The loop over
candidates is one action per branch: `KeepRejection`, `RejectUnmapped`,
`RejectDuplicate`, `PublishCandidate`. The code runs that loop in one turn of the
event loop; modelling its iterations as steps shows the invariants of every
iteration, and the refinement of `CuratedCatalog` shows that together they
amount to one step. The validator's verdict is the parameter `Conforms`
(`Conformance` models how it comes about, and `Verdicts` says what it is for the
shipped tools). The
registry is read-only, so it is a set of operators over the snapshot. Two dicts
are built from it separately, and `GetTool` takes the last tool of a name as
`_tools_by_name` does. `Falsy` is Python's `or` on `None` and on an empty dict.

### Conformance

Each check is an operator of `Checks` that gives the issues it finds and an action
of `Conformance` that appends them; `Conclude` is the end of `validate_tool` and the next iteration of
`validate_all`. A schema is a tree of dicts, lists, texts and other values, and
the two walks over it are recursive, as in the code: each is a recursive function
on `Values`, the JSON values that occur. `Height` gives each value its depth; it
stands for the fact that parsed JSON is finite and does not contain itself, and
only the proofs use it. `CandidateTool` is what pydantic lets into a candidate.
Texts are opaque: constants say which of the validator's patterns
a text matches, its length, and the words and separators it consists of. The
boundary conditions of the regular expression of `_find_terms` then say that a
term is found at the borders of words, and the hyphen's replacement is modelled.
`CheckSchema` stands for jsonschema's meta-schema check, which is a library; the
run gives it what the meta-schema asks of the keywords that occur. The
properties are stated over a reference of their own, the set of all places of a
schema with their paths, and not over the walks.

### Proxy

An action is one turn of the event loop for one request, from one await to the
next. `pc` says where a request's task is:

    unused -> arrived -> captured -> awaiting -> replied -> answered
                 |          |           |           |
                 +----------+-----------+-----------+---> cancelled

`arrived -> captured` is the middleware (MCP only): it sets the context
variables. `captured -> ...`, or `arrived -> ...` for the sandbox, is the
handler and the part of `invoke` up to its await. Where `invoke` does not await,
the whole handler is one action, with the recording and the reset of the context
in it. `VerticalReplies` is the environment, `Resume` the rest of `invoke`.
`ContextOf(s) == s` says that each request runs in a context of its own: the
session manager is stateless, so it starts a task per request, whose context is
a copy of the middleware's. It is an operator so that the consequences of a
shared context can be checked (a mutant does).

`upstream` and `history` are ghost variables: the calls made and the events
recorded, each with the request it is of. The deque itself is `events`. A
request's payload, its arguments, is a model value that either is valid, is
invalid or makes jsonschema raise.

Deliberate details: the sandbox's filter is compared as it is, the MCP filter is
stripped and lower-cased first; the other headers are stripped and count as absent
when blank (`Header`), the ids in a sandbox request's body are taken as they are,
and a request without an id, or with an empty one, gets a fresh one; a blocked call is answered by the adapter and
never reaches the router; `SchemaErrorEscapes` is an exception other than
`ValidationError` leaving `invoke`; `InvokeRouteMissing` cannot happen with a
registry built by the builder (`RegistryAgrees`) but the tests build such a
registry, and so does the run.

`ToolCall` is what all this promises of one call: a request that was asked is at
most once sent, as a call it is permitted, gets at most one result, and result
and record are one step; or it is dropped without a record. The mapping (end of
`Proxy`) reads the ghosts per request: `sent` is the part of `upstream` that is
of the request, `recorded` that of `history`. What a request is permitted and
what it may be refused for are computed from the request, the catalog and the
filter alone, so the refinement says that nothing else in flight has a say.

### Verticals and Dazwischen

The servers of the verticals keep no state and their handlers do not await, so
they are operators: the tools each lists, with their schemas as trees, the
resources, and the reply to a call. Names and descriptions keep the words the
validator looks for and are otherwise `..`; of the canned replies the echo of the
query is kept, and the one way a valid call fails: `float()` of an int that is
too large (`insurance.py:153`).

`Dazwischen` composes `Catalog` with them, with the default mappings of the
builder, and lets clients list the tools and call one, each on either surface
and under any filter. `Verdicts` joins the validator to it: the terms are those of
`conformance.py:15-62`, and a candidate conforms exactly if `IssuesOf` finds
nothing in the tool it was made of. `ListToolsFor` is the listing of either surface, `Refuse`
a call that ends before a vertical is called, `Invoke` one that reaches the
handler. A call is one step here; `Proxy` has the interleavings. A run goes
from the tools as listed through the nine checks, the mapping and the registry
to the reply. `ran` is a ghost that tells which handler answered.

### Resources

A listing awaits the selected clients one after another and collects what they
list; an exception of one ends it with an error, since nothing catches it. A
reading awaits one client, whose every exception is answered as a resource that
is not found. Each await is a point where the other request runs.

### Pages

A pane is a button, an output and the loads begun from it. All three scripts do
the same: disable the button, say that they load, fetch, show the answer or the
error, enable the button. Entering Enter in an input starts a load whatever the
button says, except in the sandbox, where a form's disabled button blocks it.
`Handle` is the server's part of a load, so answers may be computed in one order
and arrive in another; `Follow` leaves a page, and what was under way with it.
Every pane's history of loads is kept, so that what is shown
can be compared with the latest. The sandbox asks for its tools when it opens; if
that fails (`ToolsFail`) or the catalog has none (`ToolsEmpty`) its button stays
disabled.

### ObservabilityStore

A reader thread serves one request after another: it waits for the lock, copies
the deque element by element, releases the lock, and then either answers or, for
`vertical_summary`, copies once more. `Record` is atomic for whoever respects
the lock. `history` is a ghost: every event ever recorded, so that "the store at
an earlier moment" is `Window(k)`, the last `MaxEvents` of the first `k` events.
Latencies are left out. The accepted and rejected tool counts of the health
rows do not change; they are in `Dazwischen`. An empty text (`Blank`) counts as
false: an event with an empty conversation id belongs to no conversation.

A conversation that was just listed may be answered "not found".
`DetailMissesOnlyTheEvicted` says that eviction is the only reason: what was
recorded before the request and not evicted by the answer is in the detail.

`Proxy` records in one step without the lock. `AnswersAreOfOneMoment` justifies
that: readers see the store as it was at one moment, whatever the threads do.

### Lifespan

Every startup makes a new *generation* of components. What matters is which
generation each thing belongs to: `app.state`, the MCP app mounted at `/v1`, the
debug routes, the running session manager. A manager that has stopped cannot be
run again (the SDK raises). Each generation has a store, a deque of the calls its
router recorded, by their surfaces. A call ends in one of three ways: a router
answers it and records it (`RouterAnswers`); it ends unrecorded
(`EndsUnrecorded`), because its vertical filter blocks it (`mcp_server.py:92`,
`debug.py:129`), it is cancelled, or an exception of jsonschema escapes the router
(`router.py:206`); or it is refused for want of a session manager. `routed` is a
ghost: all calls that routers answered, in order, however many were evicted.
`MonitoringCoversBothSurfaces` compares the store behind the debug pages with
the latest of `routed`. What `Proxy` finds of one call (a blocked call is not
recorded, a finding of section 4) is taken as given here.

## 3. The runs

| Run | Instance | Shows |
|---|---|---|
| `catalog` | two clients that list up to three and up to two of six descriptors, or are unreachable | report, tools and routes agree at every iteration; the registry's two dicts agree; no partial catalog; the loop implements the one-step catalog; startup ends |
| `conformance` | 448 schemas mixed from good and bad parts, 324 mixtures of texts, batches of three | what is accepted is safe at any depth and callable; what is missing is reported once; every fault is reported |
| `store` | two reader threads, a deque of two, three recorded events | the deque is the latest events; reads are of one moment; health rows contradict themselves only for events recorded meanwhile; totals add up; failures are newest first; a conversation's detail lacks only what was evicted |
| `proxy` | three requests of ten kinds, six replies, cancellation | isolation, only curated calls, at most one call, one event per answered call, which tells of it |
| `proxy_delay` | two requests, fair event-loop turns | only verticals delay; `Proxy` implements `ToolCall` |
| `system` | 125 combinations of what the shipped verticals list (as shipped, reversed, all attested safe, a later version, a tool twice), ten surfaces and filters, five names, twelve argument sets | listing and calling agree on both surfaces; the rejection guidance of the verticals and the tool counts of the verticals page are true; the sandbox's templates make calls that succeed |
| `resources` | two overlapping requests of eleven kinds (a listing, a reading, unknown verticals and resources), a vertical that may never answer | a listing is whole or fails; what is listed can be read; a slow vertical holds up only requests for it |
| `pages` | all pages, up to three loads of each pane in a visit | a settled pane is usable and shows the latest |
| `lifespan` | four startups, four calls, stores of two | one manager while up; the debug pages' store has the latest calls routers answered, over both surfaces, and no others; failed startups do no harm |
| `proxy_counted` | one request | **violated**: a call blocked by the filter is an error nobody counts |
| `lifespan_mcp` | two startups | **violated**: after a second startup the mounted MCP app has no running session manager |
| `pages_links` | the files of `app/static` | **violated**: a linked page has no file |

**Bounds.** *catalog*: three candidates of one client and two of another are
enough for a duplicate within a client, across clients, and for a third after
either. *conformance*: nesting goes two deep below lists and prohibited keys, so
that a walk that stops at either is seen; a batch of three lets a candidate come
back after another. *store*: a deque of two with three events lets an event be evicted
between any two steps of a request; two readers contend for the lock with each
other and with the recorder. *proxy*: each request is one slot, used once; three
in flight let two others run between any two turns of the first, and
`MaxEvents = 2` is below three, so the deque evicts. *lifespan*: a failed startup
before, between and after two successful ones needs four; four calls fill a store
of two and evict, with a call that ends unrecorded between. `SYMMETRY` is over the
slots of `proxy`, which is sound there because only invariants are checked and
no slot is named; `proxy_delay` does without. *system*: each variant changes one
vertical's listing in one way, and all combinations of them are taken; a client
lists once and calls once, since neither changes anything that a later call
reads (the store is `Proxy`'s). The largest number is 100000, one argument set
goes one above; fractions are on both sides of a minimum, and where an integer is
asked for. *resources*: two requests are enough for one to run between any
two awaits of the other, and for a listing and a reading of what it lists.
*pages*: three loads of a pane let the first be answered after the two others;
visits are not bounded. `CHECK_DEADLOCK FALSE` is set
where a behaviour ends: all slots used and the server down, no startups left
within the bound, a catalog built, a batch validated, every client or request
answered. The store's readers never stop asking, so
that run checks for deadlock.

**Fairness.** `Catalog!FairSpec` has weak fairness of the builder: in-process
clients answer and the loop has no other await. `Proxy!FairSpec` has weak
fairness of every request's `Turn`: asyncio runs every ready task. There is no
fairness of `VerticalReplies`: the code sets no timeout around the await of a
vertical, so a request may wait for ever, and the property says only that
nothing else makes it wait. `Cancel` and `Shutdown` may happen or not.
`Resources!FairSpec` has weak fairness of a request's next step while the client
it awaits is not one of `Delaying`: the in-process handlers have no await of
their own. A delaying client gets none, and the property asks nothing of a
listing of all verticals, which may wait for it.

## 4. The findings

* `proxy_counted`: the review runbook (`docs/review-runbook.md:133`) says that
  successful and failed calls are counted. A call answered `TOOL_NOT_FOUND`
  because of a vertical filter is not: `mcp_server.py:92` and `debug.py:129`
  answer it without the router, which is where events are recorded.
* `lifespan_mcp`: `main.py:68` registers routes once per app object, but
  `main.py:81` runs the session manager of the latest startup. After a second
  startup `/v1/mcp` is the first startup's app, whose manager has stopped.
  `README.md:119,123` lists the endpoint as available when the app runs.
* `pages_links`: `ui.py:39` serves `static/debug/vertical-resources.html`, which
  does not exist, so the page that `index.html:40` links to and describes is
  answered with an error.

Not findings of a run, but seen while modelling. Enter starts overlapping loads
(`common.js:64`), after which a pane may show the older answer; no text of the
repository speaks of it, and `ShowsTheLatest` excepts panes where it happened.
`debug.py:79` takes a conversation id as one segment of the path: an id with a
slash, which `X-Conversation-ID` and the sandbox accept and the conversations
page lists, is escaped by the page (`conversations.html:50`), unescaped by the
server before it matches, and found by no route.

## 5. What is proved

All proofs are checked by TLAPS for every value of the constants: any number of
requests, readers, clients or startups, any listings and mappings, any capacity
of the deque, any bound. Each `*Proofs` module follows one argument: an inductive
invariant `IInv` that adds to the properties what their steps rely on, a lemma
that the initial states have it, a lemma that every action keeps it, and the
properties as consequences. Each `IInv` was checked by TLC on the instance of
its run before it was proved (that of `Conformance` on some of its batches).

| Module | Theorem | Property of a run |
|---|---|---|
| `DazwischenProofs` (`Catalog`) | `TypeCorrect`, `ReportTells`, `RegistryAgreement`, `AllOrNothing` | `TypeOK`, `ReportTellsWhatIsPublished`, `RegistryAgrees`, `NoPartialCatalog` |
| | `Implementation` | `ImplementsCuratedCatalog` (refinement) |
| `DazwischenProofs` (`Dazwischen`) | `ListingIsCallable`, `CountsAddUp`, `TemplatesWork`, `GuidanceIsTrue` | the four of run `system` |
| `ProxyProofs` | `TypeCorrect`, `Isolation`, `CuratedCallsOnly`, `EventsTellOfTheirRequests`, `AnswersTellOfTheCalls`, `RecordsAreExact` | the six of run `proxy` |
| | `Implementation` | `ImplementsToolCall` (refinement) |
| `ObservabilityStoreProofs` | `TypeCorrect`, `LatestRetained`, `Linearizable`, `TotalsAgree`, `FailuresInOrder`, `HealthRowsAreExplained`, `DetailIsComplete` | the seven of run `store` |
| `LifespanProofs` | `TypeCorrect`, `MonitoringIsComplete`, `OneManager`, `FirstServes`, `NoSecondRun` | the five of run `lifespan`; `NothingRunsTwice` is an action property |
| `ConformanceProofs` | `TypeCorrect`, `AcceptedToolsAreSafe`, `AcceptedToolsAreCallable`, `NoSecondComplaint`, `RejectionsAreComplete` | the five of run `conformance` |
| | `NoVerdictDependsOnOthers` | none: `VerdictsAreIndependent` is proved only, as it follows from the invariant at once |
| `ResourcesProofs` | `ListingsAreWhole`, `ListedCanBeRead` | `WholeListing`, `ListedIsReadable` |
| `PagesProofs` | `SettledIsUsable`, `LatestIsShown` | `SettledPaneIsUsable`, `ShowsTheLatest` |

**Catalog.** That the registry agrees with the report at the end depends on every
iteration before. `RoutesAreFirst`, `ToolsAreFirst`, `FirstsHaveTools` and
`NamesAreSingle` say what the loop has published so far: one tool and one route
for each name that an eligible candidate was found for, and those of the first
one. `ResultsTell` says that results stand at their candidates' positions and
that their codes explain them.
`Collected` and `Phases` say how far the first loop has come and that the second
one starts when all clients were listed. The refinement maps the snapshot: as
long as the loop runs nothing is published, and when it ends `Promise` takes its
one step, because "the first eligible candidate of each name" is what the
invariant says of all candidates.

**Dazwischen.** Listing and calling are two functions of two layers that filter
by themselves. The invariant `SInv` is the catalog's with: each candidate is of
one tool of one client (`OfferedOnce`, `OfferedBySome`), a finished catalog never
changes, and each client's view and answer fit it (`SessionFits`). A name that
was not listed has no tool or a route to another vertical, and both end in
`TOOL_NOT_FOUND`; a name that was listed leads to the first candidate of that
name, whose schema is the listed one. The counts add up because each tool of a
vertical in the registry belongs to one accepted result and back (a bijection).
That a call's arguments, once its schema admits them, are answered and echoed by
the handler is proved tool by tool (`SearchHonours`, `CheckAvailabilityHonours`,
`QuoteHonours`) and gathered in `HandlersHonourSchemas`; `TemplatesWork` then only
has to show that the templates fit their tools' schemas.

`GuidanceIsTrue` goes from the texts of the tools to the report. A tool that the
guidance names has a word in its name that is a term by itself; searched texts
keep the words of each text in one piece, so the term is found wherever the name
stands among them (`WordIsFound`), and the check of that term makes an issue
(`TermToolIsRejected`). It does not matter then whether the tool is attested safe.
Of the three other tools all texts are plain: no term begins with a word of
theirs, nor with a separator, so none is found across a border of texts either
(`NothingMentioned`). That their schemas are plain is computed from the leaves up,
as the walks go (`PlainDict`, `PlainList`, `PlainLeaf`), and that they are in form
from what the checks ask (`ArgumentsInForm`). So a tool conforms exactly if the
guidance does not name it (`GuidanceIsVerdict`), and then version 1.0 of it is
mapped (`UnguidedIsMapped`). The rest is that the report tells of each candidate
and that each tool of each client is one.

**Proxy.** The safety properties are not inductive: that an event carries its own
request's id at the end depends on what sat in the context and in the frame of
`invoke` before. The invariant adds what a request's data are at each stage:

* `OwnMetadata`: between middleware and handler the context of a request holds
  that request's filter and ids; during the await, the frame holds its ids;
* `CallsAreOwn`, `CallsAreSingle`, `CallsFitStage`: each call is one its request
  may make, no request has two, and whether it has one follows from its stage
  and, once it is answered, from its answer;
* `RecordsAreOwn`, `RecordsAreSingle`, `RecordsFitStage`: the same for events.

Three lemmas carry the step: `QuietStep` for steps that neither call nor record,
`CallStep`, and `RecordStep` for every way of recording and answering. The
refinement of `ToolCall` rests on `Mapped`: because a request's calls and records
are single and follow from its stage, what the mapping collects of the ghosts is
a sequence with at most that one element, and every action is a step of
`ToolCall` or a stutter.

**Store.** The invariant says that the lock's holder is the thread that copies,
that what has been copied so far is a prefix of the deque (which cannot change
under the lock) and that the deque is the window of the latest events. A
completed copy is then the window at the moment of release, and since windows of
the past do not change when events are appended, an answer stays explained.
`vertical_summary` copies twice, so `TInv` adds that its answer is computed from
two windows of moments in order, and that an event bears the number it was
recorded under. `TotalsAgree` and `FailuresInOrder` need what the operators of
`EventLog` compute: `DataProofs` has the rank of an index among others as a
one-to-one function, so what is picked and what is counted can be compared
without induction; a sum over buckets is the size of a disjoint union
(`CountByGroup`). `HealthRowsAreExplained` counts the errors of two windows: if a
row shows a last failure but no errors, that failure has left the window, or the
other way round.

**Lifespan.** `RoutesAreRegisteredOnce` ties the mounted app and the debug routes
to the first startup that succeeds, `ManagersFollowStartups` the running manager
to the latest. `CallsAreRecordedThere` says that the store of that generation is
the latest of `routed` and every other store is empty; that a router's answer
keeps it is `PushedIsLatest` of `DataProofs`, the same lemma that proves
`LatestRetained`. Both surfaces record there because the mounted app and the debug
routes are of one generation.

**Conformance.** The invariant of the run is short: results are the verdicts on
their own candidates, and the issues at hand are those that the checks before
`at` find in the current one. What is hard is what the walks find, because a
schema may be nested to any depth and nothing bounds the number of places in it.
`TreeInduction` is induction on `Height`, stated of a set of values instead of a
predicate: a set that contains a value whenever it contains its parts contains
all. `TreeRecursion` and `OneRecursion` say that what is defined of a value by
what it gives for the parts exists and is unique, so that `TextsEquation`,
`KeysEquation` and `NestedEquation` may unfold the walks, and the reference, by
one level. Two inductions follow. `TextsAreComplete`: every key and text at any
place of a schema is among the texts that are searched; with `WordsInOnePiece`
(joining texts keeps each in one piece, so a term in one of them is found in the
whole) that is why `AcceptedIsSafe`. `PlacesAreCounted`: the keys reported and
the prohibited places, which have paths, correspond one to one; the step lays the
parts' correspondences one behind the other, as `FlattenSeq` does
(`FlattenPositions`). That is why `EveryFaultIsReported` counts right. Then there
is one lemma per check on what it reports and on when it reports nothing.

**Resources, Pages.** What a listing has found is what the clients before the
awaited one list, in order. Unless Enter made loads overlap, only the last load
of a pane can be under way.

**Assumptions.** The theorems use the named assumptions of the modules, which TLC
evaluates on every run: `None` (and `Missing`, `Unreachable`) is not one of the
proper values, nor is a conversation's detail (`DetailAssumption`); inputs, surfaces
and routes have their fields; the capacity of
the deque is positive and bounds are natural numbers; a client that answers lists
a sequence of descriptors that pydantic and the SDK have typed
(`ListingsAssumption`, for the validator `BatchesAssumption`); JSON values are
finite trees and the keys of a dict are distinct (`ValuesAssumption`); no
term has a hyphen, which is so of the three lists of `conformance.py:14-52`
(`TermsAssumption`); the tables of texts are of all texts (`TextsAssumption`);
the clients of `main.py` are one of each vertical
(`OneClientEach`). The verticals' own data enter as `MissingAssumption` and `MessagesAssumption` (no
resource is the marker of a missing one) and, for the composed system,
`ShippedListings` (a client of a shipped vertical lists the tools of that vertical
with the schemas it ships, in any order and any number of times, and attests the
safe ones as safe), `ArgumentsAssumption` (no argument is the marker of a
missing one, the integer part of a number is an integer and that of a fraction,
which is a float, below `FloatMax`, which is at least any number the schemas ask
for) and `DefaultsInForce` (the mappings are those of the code,
`main.py` passing no others). The validator enters the composed system with
`TermsInForce` (the terms are those of the code), `WordsOfTools` (what words the
names and texts of the tools consist of), `ToolsAreInForm` (the tools have names,
versions and descriptions of the form it asks for and schemas that jsonschema
admits) and `ConformsIsVerdict` (a candidate conforms if the checks find nothing in
it). The first three are facts about the code's own data; what a term search or a
walk makes of them is proved.

**The form of the model.** `list_tools` and the readers of the store filter lists.
`Picks` defines that by the ranks of the indices kept rather than by
`SelectSeq`, whose recursion no prover unfolds; the two give the same list.

**Only model-checked.** Liveness (`StartupEnds`, `OnlyVerticalsDelay`,
`SlowVerticalHoldsUpItsOwn`) is out of the prover's reach. Every other property
of a passing run has a theorem.

## 6. What is not modelled

* The splitting of texts into words is a table; regular expressions are not
  modelled, so what is proved of a term in a text is proved of words. In
  `Conformance` the lists of terms are parameters; `Verdicts` has those of the code.
* The debug routes that return the immutable catalog, its report or its versions
  as they are, and `/health`.
* Average latencies and a conversation's tool counts. The canned data of the
  verticals' replies beyond the echo of the query: a premium that is too large for
  a float is `inf` and makes no call fail in the router, and how the libraries of a
  surface write `inf` is theirs. A candidate's description in `Catalog` (it is in
  `Checks`) and its response schema. Wording and layout.
* Of the sandbox page the choice of a tool and the text of its arguments.
* `ToolRouter` without a store: `main.py` always passes one.
* The in-process clients never raise `TimeoutError` and hardly suspend; the
  modelled interleavings and the timeout are those of the asynchronous protocol
  in `base.py`, which the code is written against.

## 7. Plan

Done: A. catalog; B. store; C. proxy with its proofs and its refinement of
`ToolCall`; D. lifespan; E. conformance; F. verticals and the system composed of
them; G. resources; H. pages.

Done: the proofs of the safety of every component and of the composed system, and
of both refinements.

Left: average latencies with their rounding.
