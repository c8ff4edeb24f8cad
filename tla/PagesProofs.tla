----------------------------- MODULE PagesProofs -----------------------------
(***************************************************************************)
(* What Pages guarantees for any number of loads and any order of clicks,  *)
(* keys, answers and failures: the invariant that ties what a pane shows   *)
(* and whether its button is enabled to the loads under way.               *)
(***************************************************************************)
EXTENDS Pages, SequenceTheorems, TLAPS

\* What a load may show, and the loads of a pane, under way or ended.
Answers == {Message} \cup {Failure(n) : n \in Nat} \cup {Answer(n) : n \in Nat}
Loads == [answer : Answers \cup {None}, ended : BOOLEAN]

TypeOK ==
    /\ page \in Paths /\ status \in {200, 500}
    /\ tools \in {"loading", "some", "empty", "failed"}
    /\ disabled \in [Panes -> BOOLEAN]
    /\ shown \in [Panes -> Answers \cup {Loading}]
    /\ loads \in [Panes -> Seq(Loads)]
    /\ overlapped \in [Panes -> BOOLEAN]

\* The sandbox has no tools yet, or never gets any.
WithoutTools(pane) == pane = "result" /\ tools # "some"

\* A pane says that it is loading, or has its button disabled, only on account
\* of a load under way, or for want of tools, and then it never had a load.
SaysWhatItDoes(pane) ==
    /\ shown[pane] = Loading => UnderWay(pane) # {}
    /\ disabled[pane] => UnderWay(pane) # {} \/ WithoutTools(pane)
    /\ WithoutTools(pane) => disabled[pane] /\ loads[pane] = << >>

\* Unless Enter made loads overlap, only the last load can be under way, its
\* button disabled, and its answer is what is shown once it ended.
LastIsShown(pane) ==
    LET last == Len(loads[pane]) IN
    ~overlapped[pane] =>
        /\ \A n \in UnderWay(pane) : n = last /\ disabled[pane]
        /\ UnderWay(pane) = {} /\ last > 0 => shown[pane] = loads[pane][last].answer

IInv == TypeOK /\ \A pane \in Open : SaysWhatItDoes(pane) /\ LastIsShown(pane)
-----------------------------------------------------------------------------
Good(pane) == SaysWhatItDoes(pane) /\ LastIsShown(pane)

\* A pane that a step leaves alone stays as good as it was.
LEMMA PaneStays ==
    ASSUME NEW pane, Good(pane), tools' = tools,
           disabled'[pane] = disabled[pane], shown'[pane] = shown[pane],
           loads'[pane] = loads[pane], overlapped'[pane] = overlapped[pane]
    PROVE  Good(pane)'
<1>1. UnderWay(pane)' = UnderWay(pane)
  BY DEF UnderWay
<1>. QED  BY <1>1 DEF Good, SaysWhatItDoes, WithoutTools, LastIsShown

\* The panes of a page and the loads of a pane have their types.
LEMMA PaneTypes ==
    ASSUME TypeOK
    PROVE  /\ Open \subseteq Panes
           /\ \A pane \in Panes :
                /\ loads[pane] \in Seq(Loads) /\ Len(loads[pane]) \in Nat
                /\ DOMAIN loads[pane] = 1..Len(loads[pane])
                /\ UnderWay(pane) \subseteq 1..Len(loads[pane])
                /\ \A n \in 1..Len(loads[pane]) : loads[pane][n] \in Loads
<1>1. Open \subseteq Panes
  BY DEF Open, PanesOf, Panes
<1>. QED  BY <1>1 DEF TypeOK, UnderWay

\* A load that begins, or is refused, is the last of its pane.
LEMMA AppendLoad ==
    ASSUME TypeOK, NEW pane \in Panes, NEW load \in Loads,
           loads' = [loads EXCEPT ![pane] = Append(@, load)]
    PROVE  LET last == Len(loads[pane]) + 1 IN
           /\ loads' \in [Panes -> Seq(Loads)]
           /\ Len(loads'[pane]) = last /\ loads'[pane][last] = load
           /\ load.ended => UnderWay(pane)' = UnderWay(pane)
           /\ ~load.ended => UnderWay(pane)' = UnderWay(pane) \cup {last}
           /\ \A other \in Panes \ {pane} : loads'[other] = loads[other]
<1>. DEFINE new == Append(loads[pane], load)
<1>1. /\ loads[pane] \in Seq(Loads) /\ Len(loads[pane]) \in Nat
      /\ DOMAIN loads[pane] = 1..Len(loads[pane])
  BY PaneTypes
<1>2. /\ new \in Seq(Loads) /\ Len(new) = Len(loads[pane]) + 1
      /\ DOMAIN new = 1..(Len(loads[pane]) + 1)
      /\ \A n \in 1..Len(loads[pane]) : new[n] = loads[pane][n]
      /\ new[Len(loads[pane]) + 1] = load
  BY <1>1
<1>3. loads'[pane] = new /\ \A other \in Panes \ {pane} : loads'[other] = loads[other]
  BY DEF TypeOK
<1>4. loads' \in [Panes -> Seq(Loads)]
  BY <1>2 DEF TypeOK
<1>. HIDE DEF new
<1>5. /\ load.ended => UnderWay(pane)' = UnderWay(pane)
      /\ ~load.ended => UnderWay(pane)' = UnderWay(pane) \cup {Len(loads[pane]) + 1}
  <2>1. UnderWay(pane)' = {n \in 1..(Len(loads[pane]) + 1) : ~new[n].ended}
    BY <1>2, <1>3 DEF UnderWay
  <2>2. UnderWay(pane) = {n \in 1..Len(loads[pane]) : ~loads[pane][n].ended}
    BY <1>1 DEF UnderWay
  <2>3. \A n : n \in 1..(Len(loads[pane]) + 1) <=>
                  n \in 1..Len(loads[pane]) \/ n = Len(loads[pane]) + 1
    BY <1>1
  <2>4. Len(loads[pane]) + 1 \notin 1..Len(loads[pane])
    BY <1>1
  <2>. QED  BY <2>1, <2>2, <2>3, <2>4, <1>2
<1>. QED  BY <1>2, <1>3, <1>4, <1>5

\* A load whose answer comes, or is displayed, keeps its place.
LEMMA EditLoad ==
    ASSUME TypeOK, NEW pane \in Panes, NEW n \in UnderWay(pane), NEW load \in Loads,
           loads' = [loads EXCEPT ![pane][n] = load]
    PROVE  /\ loads' \in [Panes -> Seq(Loads)]
           /\ Len(loads'[pane]) = Len(loads[pane]) /\ loads'[pane][n] = load
           /\ \A m \in 1..Len(loads[pane]) : m # n => loads'[pane][m] = loads[pane][m]
           /\ load.ended => UnderWay(pane)' = UnderWay(pane) \ {n}
           /\ ~load.ended => UnderWay(pane)' = UnderWay(pane)
           /\ \A other \in Panes \ {pane} : loads'[other] = loads[other]
<1>. DEFINE new == [loads[pane] EXCEPT ![n] = load]
<1>1. /\ loads[pane] \in Seq(Loads) /\ Len(loads[pane]) \in Nat
      /\ DOMAIN loads[pane] = 1..Len(loads[pane])
      /\ n \in 1..Len(loads[pane])
  BY PaneTypes
<1>2. /\ new \in Seq(Loads) /\ Len(new) = Len(loads[pane])
      /\ DOMAIN new = 1..Len(loads[pane]) /\ new[n] = load
      /\ \A m \in 1..Len(loads[pane]) : m # n => new[m] = loads[pane][m]
  BY <1>1
<1>3. loads'[pane] = new /\ \A other \in Panes \ {pane} : loads'[other] = loads[other]
  BY DEF TypeOK
<1>4. loads' \in [Panes -> Seq(Loads)]
  BY <1>2 DEF TypeOK
<1>. HIDE DEF new
<1>5. /\ load.ended => UnderWay(pane)' = UnderWay(pane) \ {n}
      /\ ~load.ended => UnderWay(pane)' = UnderWay(pane)
  <2>1. UnderWay(pane)' = {m \in 1..Len(loads[pane]) : ~new[m].ended}
    BY <1>2, <1>3 DEF UnderWay
  <2>2. UnderWay(pane) = {m \in 1..Len(loads[pane]) : ~loads[pane][m].ended}
    BY <1>1 DEF UnderWay
  <2>. QED  BY <2>1, <2>2, <1>2
<1>. QED  BY <1>2, <1>3, <1>4, <1>5

-----------------------------------------------------------------------------
\* A page that is opened has good panes.
LEMMA OpenStep ==
    ASSUME NEW path \in Paths, OpenPage(path)
    PROVE  IInv'
<1>1. NewLoad \in Loads /\ ~NewLoad.ended
  BY DEF NewLoad, Loads
<1>2. TypeOK'
  <2>1. <<NewLoad>> \in Seq(Loads) /\ << >> \in Seq(Loads)
    BY <1>1
  <2>2. loads' \in [Panes -> Seq(Loads)]
    BY <2>1 DEF OpenPage
  <2>3. shown' \in [Panes -> Answers \cup {Loading}]
    BY DEF OpenPage, Answers
  <2>. QED  BY <2>2, <2>3 DEF OpenPage, TypeOK, ServedStatus
<1>3. ASSUME NEW pane \in Open'  PROVE Good(pane)'
  <2>1. /\ pane \in Panes /\ pane \in PanesOf(path) /\ ServedStatus(path) = 200
        /\ tools' = "loading"
        /\ disabled'[pane] = (pane # "detail")
        /\ shown'[pane] = IF pane = "endpoint" THEN Loading ELSE Message
        /\ loads'[pane] = IF pane = "endpoint" THEN <<NewLoad>> ELSE << >>
    BY DEF Open, OpenPage, PanesOf, Panes, ServedStatus
  <2>2. CASE pane = "endpoint"
    <3>1. UnderWay(pane)' = {1} /\ Len(loads'[pane]) = 1
      BY <1>1, <2>1, <2>2 DEF UnderWay
    <3>. QED
      BY <2>1, <2>2, <3>1 DEF Good, SaysWhatItDoes, WithoutTools, LastIsShown
  <2>3. CASE pane # "endpoint"
    <3>1. UnderWay(pane)' = {} /\ Len(loads'[pane]) = 0
      BY <2>1, <2>3 DEF UnderWay
    <3>2. shown'[pane] # Loading
      BY <2>1, <2>3 DEF Message, Loading
    <3>3. LastIsShown(pane)'
      BY <3>1 DEF LastIsShown
    <3>4. disabled'[pane] <=> pane = "result"
      BY <2>1, <2>3 DEF Panes
    <3>5. loads'[pane] = << >>
      BY <2>1, <2>3
    <3>6. SaysWhatItDoes(pane)'
      BY <2>1, <3>1, <3>2, <3>4, <3>5 DEF SaysWhatItDoes, WithoutTools
    <3>. QED  BY <3>3, <3>6 DEF Good
  <2>. QED  BY <2>2, <2>3
<1>. QED  BY <1>2, <1>3 DEF IInv, Good

\* A load begun, or refused, by the button or by Enter keeps a pane good.
LEMMA LoadStep ==
    ASSUME IInv, NEW pane \in Open, ~WithoutTools(pane), Load(pane),
           UNCHANGED <<page, status, tools>>,
           overlapped' \in [Panes -> BOOLEAN],
           \A other \in Panes \ {pane} : overlapped'[other] = overlapped[other],
           ~overlapped'[pane] => ~overlapped[pane] /\ UnderWay(pane) = {}
    PROVE  IInv'
<1>. DEFINE last == Len(loads[pane]) + 1
            Refusal == [answer |-> Message, ended |-> TRUE]
<1>1. /\ pane \in Panes /\ Open' = Open /\ last \in Nat /\ last > 0
      /\ UnderWay(pane) \subseteq 1..Len(loads[pane]) /\ TypeOK /\ Good(pane)
      /\ ~WithoutTools(pane)'
  BY PaneTypes DEF IInv, Open, Good, WithoutTools
<1>2. CASE Begin(pane)
  <2>1. NewLoad \in Loads /\ ~NewLoad.ended
    BY DEF NewLoad, Loads
  <2>2. /\ loads' \in [Panes -> Seq(Loads)] /\ Len(loads'[pane]) = last
        /\ UnderWay(pane)' = UnderWay(pane) \cup {last}
        /\ \A other \in Panes \ {pane} : loads'[other] = loads[other]
    BY <1>1, <1>2, <2>1, AppendLoad DEF Begin
  <2>3. /\ disabled'[pane] = TRUE
        /\ \A other \in Panes \ {pane} : /\ disabled'[other] = disabled[other]
                                         /\ shown'[other] = shown[other]
    BY <1>1, <1>2 DEF Begin, TypeOK
  <2>4. Good(pane)'
    BY <1>1, <2>2, <2>3 DEF Good, SaysWhatItDoes, LastIsShown
  <2>5. TypeOK'
    BY <1>1, <1>2, <2>2 DEF Begin, TypeOK
  <2>. QED
    BY <1>1, <2>2, <2>3, <2>4, <2>5, PaneStays, PaneTypes DEF IInv, Good
<1>3. CASE Refuse(pane)
  <2>1. Refusal \in Loads /\ Refusal.ended /\ Refusal.answer = Message
    BY DEF Loads, Answers
  <2>. HIDE DEF Refusal
  <2>2. loads' = [loads EXCEPT ![pane] = Append(@, Refusal)]
    BY <1>3 DEF Refuse, Refusal
  <2>3. /\ loads' \in [Panes -> Seq(Loads)] /\ Len(loads'[pane]) = last
        /\ loads'[pane][last] = Refusal
        /\ UnderWay(pane)' = UnderWay(pane)
        /\ \A other \in Panes \ {pane} : loads'[other] = loads[other]
    BY <1>1, <2>1, <2>2, AppendLoad
  <2>4. /\ disabled' = disabled /\ shown'[pane] = Message /\ Message # Loading
        /\ \A other \in Panes \ {pane} : shown'[other] = shown[other]
    BY <1>1, <1>3 DEF Refuse, TypeOK, Message, Loading
  <2>5. Good(pane)'
    BY <1>1, <2>1, <2>3, <2>4 DEF Good, SaysWhatItDoes, LastIsShown
  <2>6. TypeOK'
    BY <1>1, <1>3, <2>3 DEF Refuse, TypeOK, Answers
  <2>. QED
    BY <1>1, <2>3, <2>4, <2>5, <2>6, PaneStays, PaneTypes DEF IInv, Good
<1>. QED  BY <1>2, <1>3 DEF Load

\* What ends a load, in whatever order loads end, keeps its pane good.
LEMMA EndStep ==
    ASSUME IInv, NEW pane \in Open, NEW n \in UnderWay(pane), NEW answer \in Answers,
           End(pane, n, answer)
    PROVE  IInv'
<1>. DEFINE load == [loads[pane][n] EXCEPT !.answer = answer, !.ended = TRUE]
<1>1. /\ pane \in Panes /\ Open' = Open /\ TypeOK /\ Good(pane)
      /\ Len(loads[pane]) \in Nat /\ n \in 1..Len(loads[pane])
      /\ loads[pane][n] \in Loads
  BY PaneTypes DEF IInv, Open, Good, End
<1>2. load \in Loads /\ load.ended /\ load.answer = answer
  BY <1>1 DEF Loads
<1>3. loads' = [loads EXCEPT ![pane][n] = load]
  BY DEF End
<1>. HIDE DEF load
<1>4. /\ loads' \in [Panes -> Seq(Loads)] /\ Len(loads'[pane]) = Len(loads[pane])
      /\ loads'[pane][n] = load
      /\ UnderWay(pane)' = UnderWay(pane) \ {n}
      /\ \A other \in Panes \ {pane} : loads'[other] = loads[other]
  BY <1>1, <1>2, <1>3, EditLoad
<1>5. /\ disabled'[pane] = FALSE /\ shown'[pane] = answer
      /\ \A other \in Panes \ {pane} : /\ disabled'[other] = disabled[other]
                                       /\ shown'[other] = shown[other]
      /\ UNCHANGED <<page, status, tools, overlapped>>
  BY <1>1 DEF End, TypeOK
<1>6. answer # Loading
  BY DEF Answers, Message, Failure, Answer, Loading
<1>7. ~WithoutTools(pane)'
  BY <1>1, <1>5 DEF Good, SaysWhatItDoes, WithoutTools
<1>8. Good(pane)'
  BY <1>1, <1>2, <1>4, <1>5, <1>6, <1>7 DEF Good, SaysWhatItDoes, LastIsShown
<1>9. TypeOK'
  BY <1>1, <1>4 DEF End, TypeOK
<1>. QED
  BY <1>1, <1>4, <1>5, <1>8, <1>9, PaneStays, PaneTypes DEF IInv, Good

\* Every step keeps the invariant.
LEMMA IInvStep == IInv /\ [Next]_vars => IInv'
<1>. SUFFICES ASSUME IInv, [Next]_vars PROVE IInv'
  OBVIOUS
<1>1. ASSUME NEW path \in Paths, Follow(path)  PROVE IInv'
  BY <1>1, OpenStep DEF Follow
<1>2. ASSUME NEW pane \in Panes, Click(pane)  PROVE IInv'
  <2>1. ~WithoutTools(pane) /\ (~overlapped[pane] => UnderWay(pane) = {})
    BY <1>2 DEF Click, IInv, SaysWhatItDoes, LastIsShown
  <2>. QED  BY <1>2, <2>1, LoadStep DEF Click, IInv, TypeOK
<1>3. ASSUME NEW pane \in Panes, PressEnter(pane)  PROVE IInv'
  <2>1. ~WithoutTools(pane)
    BY <1>3 DEF PressEnter, EnterLoads, WithoutTools
  <2>2. /\ overlapped' \in [Panes -> BOOLEAN]
        /\ overlapped'[pane] = (overlapped[pane] \/ UnderWay(pane) # {})
        /\ \A other \in Panes \ {pane} : overlapped'[other] = overlapped[other]
    BY <1>3 DEF PressEnter, IInv, TypeOK
  <2>. QED  BY <1>3, <2>1, <2>2, LoadStep DEF PressEnter
<1>4. ASSUME NEW pane \in Panes, NEW n \in 1..MaxLoads, Handle(pane, n)
      PROVE  IInv'
  <2>. DEFINE load == [loads[pane][n] EXCEPT !.answer = Answer(n)]
  <2>1. /\ pane \in Open /\ n \in UnderWay(pane) /\ Open' = Open /\ TypeOK
        /\ Len(loads[pane]) \in Nat /\ n \in 1..Len(loads[pane])
        /\ loads[pane][n] \in Loads /\ ~loads[pane][n].ended
    BY <1>4, PaneTypes DEF Handle, IInv, Open, UnderWay
  <2>2. load \in Loads /\ ~load.ended
    BY <2>1 DEF Loads, Answers
  <2>3. loads' = [loads EXCEPT ![pane][n] = load]
    BY <1>4 DEF Handle
  <2>. HIDE DEF load
  <2>4. /\ loads' \in [Panes -> Seq(Loads)] /\ Len(loads'[pane]) = Len(loads[pane])
        /\ UnderWay(pane)' = UnderWay(pane)
        /\ \A other \in Panes \ {pane} : loads'[other] = loads[other]
    BY <2>1, <2>2, <2>3, EditLoad
  <2>5. UNCHANGED <<page, status, tools, disabled, shown, overlapped>>
    BY <1>4 DEF Handle
  <2>6. Good(pane)'
    BY <2>1, <2>4, <2>5 DEF IInv, Good, SaysWhatItDoes, WithoutTools, LastIsShown
  <2>7. TypeOK'
    BY <2>4, <2>5 DEF IInv, TypeOK
  <2>. QED
    BY <2>1, <2>4, <2>5, <2>6, <2>7, PaneStays, PaneTypes DEF IInv, Good
<1>5. ASSUME NEW pane \in Panes, NEW n \in 1..MaxLoads,
             Display(pane, n) \/ FetchFails(pane, n)
      PROVE  IInv'
  <2>1. pane \in Open /\ n \in UnderWay(pane) /\ loads[pane][n] \in Loads
    BY <1>5, PaneTypes DEF Display, FetchFails, IInv
  <2>2. CASE Display(pane, n)
    <3>1. loads[pane][n].answer \in Answers
      BY <2>1, <2>2 DEF Display, Loads
    <3>. QED  BY <2>1, <2>2, <3>1, EndStep DEF Display
  <2>3. CASE FetchFails(pane, n)
    BY <2>1, <2>3, EndStep DEF FetchFails, Answers
  <2>. QED  BY <1>5, <2>2, <2>3
<1>6. CASE ToolsLoaded \/ ToolsEmpty \/ ToolsFail
  <2>1. /\ "result" \in Open /\ "result" \in Panes /\ tools = "loading"
        /\ Open' = Open /\ UNCHANGED <<page, status, loads, overlapped>>
        /\ disabled["result"] /\ loads["result"] = << >>
        /\ shown["result"] # Loading
    BY <1>6, PaneTypes
    DEF ToolsLoaded, ToolsEmpty, ToolsFail, IInv, Open, SaysWhatItDoes, WithoutTools, UnderWay
  <2>2. UnderWay("result")' = {} /\ Len(loads'["result"]) = 0
    BY <2>1 DEF UnderWay
  <2>3. Failure(0) # Loading /\ Failure(0) \in Answers
    BY DEF Failure, Loading, Answers
  <2>4. TypeOK'
    <3>1. CASE ToolsLoaded
      BY <3>1 DEF ToolsLoaded, IInv, TypeOK
    <3>2. CASE ToolsFail
      BY <3>2, <2>3 DEF ToolsFail, IInv, TypeOK
    <3>3. CASE ToolsEmpty
      BY <3>3 DEF ToolsEmpty, IInv, TypeOK
    <3>. QED  BY <1>6, <3>1, <3>2, <3>3
  <2>5. /\ tools' = "some" => ~disabled'["result"]
        /\ tools' # "some" => disabled'["result"]
        /\ shown'["result"] # Loading
        /\ \A other \in Panes \ {"result"} : /\ disabled'[other] = disabled[other]
                                             /\ shown'[other] = shown[other]
    BY <1>6, <2>1, <2>3 DEF ToolsLoaded, ToolsEmpty, ToolsFail, IInv, TypeOK
  <2>6. Good("result")'
    BY <2>1, <2>2, <2>5 DEF Good, SaysWhatItDoes, WithoutTools, LastIsShown
  <2>7. ASSUME NEW other \in Open \ {"result"}  PROVE Good(other)'
    <3>1. UnderWay(other)' = UnderWay(other) /\ other \in Panes
      BY <2>1, PaneTypes DEF UnderWay, IInv
    <3>. QED
      BY <3>1, <2>1, <2>5 DEF IInv, Good, SaysWhatItDoes, WithoutTools, LastIsShown
  <2>. QED  BY <2>1, <2>4, <2>6, <2>7 DEF IInv, Good
<1>7. CASE UNCHANGED vars
  <2>1. Open' = Open /\ TypeOK' /\ \A pane : UnderWay(pane)' = UnderWay(pane)
    BY <1>7 DEF vars, Open, IInv, TypeOK, UnderWay
  <2>. QED
    BY <1>7, <2>1 DEF vars, IInv, SaysWhatItDoes, WithoutTools, LastIsShown
<1>. QED
  BY <1>1, <1>2, <1>3, <1>4, <1>5, <1>6, <1>7 DEF Next, Progress

\* The index is open at first, and has no panes.
LEMMA IInvInit == Init => IInv
<1>. SUFFICES ASSUME Init PROVE IInv
  OBVIOUS
<1>1. Open = {}
  BY DEF Init, Open, PanesOf
<1>2. TypeOK
  <2>1. /\ loads \in [Panes -> Seq(Loads)] /\ shown \in [Panes -> Answers \cup {Loading}]
    BY DEF Init, Answers
  <2>. QED  BY <2>1 DEF Init, TypeOK, Paths, ServedStatus
<1>. QED  BY <1>1, <1>2 DEF IInv

\* Of every pane of the open page, in whatever order loads begin and end.
THEOREM Invariance == Spec => []IInv
BY IInvInit, IInvStep, PTL DEF Spec

-----------------------------------------------------------------------------
\* In whatever order loads are begun and end, a pane with none under way has
\* its button enabled, unless the sandbox has no tool, and says no "Loading".
THEOREM SettledIsUsable == Spec => []SettledPaneIsUsable
<1>1. IInv => SettledPaneIsUsable
  <2>. SUFFICES ASSUME IInv, NEW pane \in Panes, Settled(pane)
                PROVE  /\ disabled[pane] <=> (pane = "result" /\ tools \in {"empty", "failed"})
                       /\ shown[pane] # Loading
    BY DEF SettledPaneIsUsable
  <2>1. pane \in Open /\ UnderWay(pane) = {} /\ SaysWhatItDoes(pane)
    BY DEF Settled, IInv
  <2>. QED  BY <2>1 DEF Settled, SaysWhatItDoes, WithoutTools, IInv, TypeOK
<1>. QED  BY <1>1, Invariance, PTL

\* A settled pane shows what its last load got, unless Enter let loads overlap:
\* the button alone never does.
THEOREM LatestIsShown == Spec => []ShowsTheLatest
<1>1. IInv => ShowsTheLatest
  <2>. SUFFICES ASSUME IInv, NEW pane \in Panes, Settled(pane), ~overlapped[pane],
                       loads[pane] # << >>
                PROVE  shown[pane] = loads[pane][Len(loads[pane])].answer
    BY DEF ShowsTheLatest
  <2>1. pane \in Open /\ UnderWay(pane) = {} /\ LastIsShown(pane)
    BY DEF Settled, IInv
  <2>2. Len(loads[pane]) > 0
    BY PaneTypes, EmptySeq DEF IInv
  <2>. QED  BY <2>1, <2>2 DEF LastIsShown
<1>. QED  BY <1>1, Invariance, PTL
=============================================================================
