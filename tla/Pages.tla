-------------------------------- MODULE Pages --------------------------------
(***************************************************************************)
(* The debug and sandbox pages (app/static) in one browser tab, and the    *)
(* routes that serve them (app/api/ui.py).  A page has panes: a button, an *)
(* output and the loads started from it.  A load disables the button and   *)
(* says "Loading", sends its request, and later shows the answer and       *)
(* enables the button again; it does not ask whether another load is under *)
(* way.  Answers arrive in any order.                                      *)
(***************************************************************************)
EXTENDS Integers, Sequences

CONSTANTS
    Files,      \* the pages that app/static has a file of
    MaxLoads,   \* bound on the loads of one pane during one visit
    None

ASSUME BoundAssumption == MaxLoads \in Nat

VARIABLES
    page,       \* the path of the page that is open
    status,     \* the status it was served with
    tools,      \* the sandbox's tools: "loading", "some", "empty" or "failed"
    disabled,   \* pane -> its button is disabled
    shown,      \* pane -> what its output displays
    loads,      \* pane -> the loads of this visit, in the order they began
    overlapped  \* ghost: pane -> Enter began a load while one was under way

vars == <<page, status, tools, disabled, shown, loads, overlapped>>

-----------------------------------------------------------------------------
(* The routes and the links between the pages.                             *)

DebugPages == {"catalog", "validation-report", "monitoring", "verticals",
               "vertical-resources", "recent-failures", "conversations"}
Paths == {"index", "sandbox"} \cup DebugPages

\* Every path has a file of its own; FileResponse raises if it is not there.
ServedStatus(path) == IF path \in Files THEN 200 ELSE 500

LinksOf(path) ==
    CASE path = "index"   -> {"sandbox"} \cup DebugPages
      [] path = "sandbox" -> {"index"} \cup (DebugPages \ {"vertical-resources"})
      [] OTHER            -> {"index", "sandbox"}

PanesOf(path) ==
    CASE path = "index"         -> {}
      [] path = "sandbox"       -> {"result"}
      [] path = "conversations" -> {"endpoint", "detail"}
      [] OTHER                  -> {"endpoint"}

Panes == {"endpoint", "detail", "result"}
Open == IF status = 200 THEN PanesOf(page) ELSE {}

\* The panes whose input starts a load at Enter, whatever their button says.
\* (Enter in the sandbox's form presses its button.)
EnterLoads(pane) == pane = "detail" \/ (pane = "endpoint" /\ page = "recent-failures")

-----------------------------------------------------------------------------
\* What an output displays: a text of the page's own, or what a load got.
Message == [kind |-> "message"]
Loading == [kind |-> "loading"]
Failure(n) == [kind |-> "failed", load |-> n]
Answer(n) == [kind |-> "answered", load |-> n]

\* One request whose answer is not displayed yet; answer is None until the
\* server has handled it.
NewLoad == [answer |-> None, ended |-> FALSE]

UnderWay(pane) == {n \in DOMAIN loads[pane] : ~loads[pane][n].ended}

\* The state of a page's scripts once they have run: common.js loads at once,
\* the sandbox asks for the tools.
OpenPage(path) ==
    LET panes == IF ServedStatus(path) = 200 THEN PanesOf(path) ELSE {} IN
    /\ page' = path
    /\ status' = ServedStatus(path)
    /\ tools' = "loading"
    /\ disabled' = [pane \in Panes |-> pane \in panes \ {"detail"}]
    /\ shown' = [pane \in Panes |-> IF pane = "endpoint" THEN Loading ELSE Message]
    /\ loads' = [pane \in Panes |->
                    IF pane = "endpoint" /\ pane \in panes
                    THEN <<NewLoad>> ELSE << >>]
    /\ overlapped' = [pane \in Panes |-> FALSE]

Init ==
    /\ page = "index" /\ status = ServedStatus("index") /\ tools = "loading"
    /\ disabled = [pane \in Panes |-> FALSE]
    /\ shown = [pane \in Panes |-> Message]
    /\ loads = [pane \in Panes |-> << >>]
    /\ overlapped = [pane \in Panes |-> FALSE]

\* A link is followed; from a page that is not there the visitor goes back.
Follow(path) ==
    /\ path \in IF status = 200 THEN LinksOf(page) ELSE {"index"}
    /\ OpenPage(path)

\* Mutant: a load leaves the button as it is.
BeginEnabled(pane) ==
    /\ Len(loads[pane]) < MaxLoads
    /\ loads' = [loads EXCEPT ![pane] = Append(@, NewLoad)]
    /\ shown' = [shown EXCEPT ![pane] = Loading]
    /\ UNCHANGED disabled

Begin(pane) ==
    /\ Len(loads[pane]) < MaxLoads
    /\ loads' = [loads EXCEPT ![pane] = Append(@, NewLoad)]
    /\ disabled' = [disabled EXCEPT ![pane] = TRUE]
    /\ shown' = [shown EXCEPT ![pane] = Loading]

\* A blank id and arguments that are no JSON are refused without a request.
Refuse(pane) ==
    /\ Len(loads[pane]) < MaxLoads
    /\ loads' = [loads EXCEPT ![pane] =
                    Append(@, [answer |-> Message, ended |-> TRUE])]
    /\ shown' = [shown EXCEPT ![pane] = Message]
    /\ UNCHANGED disabled

Load(pane) ==
    Begin(pane) \/ (pane \in {"detail", "result"} /\ Refuse(pane))

Click(pane) ==
    /\ pane \in Open
    /\ ~disabled[pane]
    /\ Load(pane)
    /\ UNCHANGED <<page, status, tools, overlapped>>

PressEnter(pane) ==
    /\ pane \in Open
    /\ EnterLoads(pane)
    /\ Load(pane)
    /\ overlapped' = [overlapped EXCEPT ![pane] = @ \/ UnderWay(pane) # {}]
    /\ UNCHANGED <<page, status, tools>>

\* The server handles a request, before the answer arrives.
Handle(pane, n) ==
    /\ pane \in Open
    /\ n \in UnderWay(pane)
    /\ loads[pane][n].answer = None
    /\ loads' = [loads EXCEPT ![pane][n].answer = Answer(n)]
    /\ UNCHANGED <<page, status, tools, disabled, shown, overlapped>>

\* Mutant: an error is shown and the button stays as it is.
EndDisabled(pane, n, answer) ==
    /\ loads' = [loads EXCEPT ![pane][n] = [@ EXCEPT !.answer = answer, !.ended = TRUE]]
    /\ shown' = [shown EXCEPT ![pane] = answer]
    /\ disabled' = [disabled EXCEPT ![pane] = @ /\ answer.kind = "failed"]
    /\ UNCHANGED <<page, status, tools, overlapped>>

End(pane, n, answer) ==
    /\ loads' = [loads EXCEPT ![pane][n] = [@ EXCEPT !.answer = answer, !.ended = TRUE]]
    /\ shown' = [shown EXCEPT ![pane] = answer]
    /\ disabled' = [disabled EXCEPT ![pane] = FALSE]
    /\ UNCHANGED <<page, status, tools, overlapped>>

\* An answer is displayed, with a status that is an error or not.
Display(pane, n) ==
    /\ pane \in Open
    /\ n \in UnderWay(pane)
    /\ loads[pane][n].answer # None
    /\ End(pane, n, loads[pane][n].answer)

\* fetch fails or the body cannot be read; handled by the server or not.
FetchFails(pane, n) ==
    /\ pane \in Open
    /\ n \in UnderWay(pane)
    /\ End(pane, n, Failure(n))

\* loadTools of the sandbox page.
ToolsLoaded ==
    /\ "result" \in Open /\ tools = "loading"
    /\ tools' = "some"
    /\ disabled' = [disabled EXCEPT !["result"] = FALSE]
    /\ UNCHANGED <<page, status, shown, loads, overlapped>>

\* The catalog has no tool: the description says so and no error is shown.
ToolsEmpty ==
    /\ "result" \in Open /\ tools = "loading"
    /\ tools' = "empty"
    /\ UNCHANGED <<page, status, disabled, shown, loads, overlapped>>

ToolsFail ==
    /\ "result" \in Open /\ tools = "loading"
    /\ tools' = "failed"
    /\ shown' = [shown EXCEPT !["result"] = Failure(0)]
    /\ UNCHANGED <<page, status, disabled, loads, overlapped>>

Progress(pane, n) == Handle(pane, n) \/ Display(pane, n) \/ FetchFails(pane, n)

Next ==
    \/ \E path \in Paths : Follow(path)
    \/ \E pane \in Panes :
          \/ Click(pane) \/ PressEnter(pane)
          \/ \E n \in 1..MaxLoads : Progress(pane, n)
    \/ ToolsLoaded \/ ToolsEmpty \/ ToolsFail

Spec == Init /\ [][Next]_vars

-----------------------------------------------------------------------------
(* Properties                                                              *)

Settled(pane) ==
    /\ pane \in Open
    /\ UnderWay(pane) = {}
    /\ pane = "result" => tools # "loading"

\* Whatever was clicked, typed and answered in whatever order, a pane with no
\* load under way can be used: its button is enabled and it no longer says that
\* it is loading.  Only a sandbox that got no tools, or none to choose from,
\* stays disabled.
SettledPaneIsUsable ==
    \A pane \in Panes : Settled(pane) =>
        /\ disabled[pane] <=> (pane = "result" /\ tools \in {"empty", "failed"})
        /\ shown[pane] # Loading

\* A settled pane shows what its last load got, and not what an older one got
\* that took longer, unless loads were begun by Enter while one was under way:
\* the button alone never lets two loads overlap.
ShowsTheLatest ==
    \A pane \in Panes :
        Settled(pane) /\ ~overlapped[pane] /\ loads[pane] # << >> =>
            shown[pane] = loads[pane][Len(loads[pane])].answer

\* index.html links to the page "Vertical resources", so it can be opened.
LinkedPagesOpen == status = 200
=============================================================================
