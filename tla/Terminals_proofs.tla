-------------------------- MODULE Terminals_proofs --------------------------
(* Proofs about Terminals.  Whatever the layout does, a disposal, a start and *)
(* an exit each write a session together with its job.                        *)
EXTENDS Terminals, Layout_proofs

\* What is kept of a registry record.
Agree(s) ==
  /\ s.session \in [Minted -> {"none", "alive", "clean", "failed"}]
  /\ s.job \in [Minted -> {"none", "running", "exited", "killed"}]
  /\ \A t \in Minted : s.job[t] = "running" <=> s.session[t] = "alive"

LEMMA DisposeAgrees ==
  ASSUME NEW s, Agree(s)
  PROVE  Agree(Dispose(s))
BY DEF Agree, Dispose, JobsKilled, Orphans

LEMMA EnsureAgrees ==
  ASSUME NEW s, Agree(s)
  PROVE  Agree(Ensure(s))
BY DEF Agree, Ensure, ToStart

LEMMA ReducedAgrees ==
  ASSUME NEW s, NEW l, Agree(s)
  PROVE  Agree(Reduced(s, l))
BY DEF Agree, Reduced

LEMMA DispatchAgrees ==
  ASSUME NEW s, NEW l, Agree(s)
  PROVE  Agree(Dispatch(s, l))
BY DisposeAgrees, EnsureAgrees, ReducedAgrees DEF Dispatch

LEMMA FanOutAgrees ==
  ASSUME NEW s, NEW t, NEW code, Agree(s)
  PROVE  Agree(ExitFanOut(s, t, code))
<1> DEFINE host    == CHOOSE p \in HostsOf(s.lay, t) : TRUE
           focused == s.lay.focus = host.pane
           left    == IF focused /\ host.active = t /\ typing
                      THEN Reduced(s, DropFull(s.lay)) ELSE s
           shrunk  == IF focused /\ left.lay.view = "full"
                      THEN Dispatch(left, DropFull(left.lay)) ELSE left
           closed  == Dispatch(shrunk, RemoveTab(shrunk.lay, host.pane, t))
<1>1. Agree(left)
  BY ReducedAgrees
<1>2. Agree(shrunk)
  <2> HIDE DEF left
  <2> QED BY <1>1, DispatchAgrees
<1>3. Agree(closed)
  <2> HIDE DEF shrunk
  <2> QED BY <1>2, DispatchAgrees
<1>4. ExitFanOut(s, t, code) =
        IF HostsOf(s.lay, t) = {} THEN s ELSE IF ClosesTab(code) THEN closed ELSE shrunk
  BY DEF ExitFanOut
<1> HIDE DEF closed, shrunk
<1> QED BY <1>2, <1>3, <1>4

TermInv == Agree(Now)

LEMMA BecomeAgrees ==
  ASSUME NEW s, Agree(s), Become(s)
  PROVE  TermInv'
BY DEF Agree, Become, TermInv, Now

LEMMA TermStep ==
  ASSUME TermInv, [TermNext]_termVars
  PROVE  TermInv'
<1> USE TermInv DEF TermInv
<1>1. CASE Spawn
  BY <1>1, DispatchAgrees, BecomeAgrees DEF Spawn
<1>2. CASE OpenStable
  BY <1>2, DispatchAgrees, BecomeAgrees DEF OpenStable
<1>3. CASE TerminalCommand
  BY <1>3, DispatchAgrees, BecomeAgrees DEF TerminalCommand
<1>4. CASE Activate
  BY <1>4 DEF Activate, Agree, Now
<1>5. CASE LeaveMode
  BY <1>5 DEF LeaveMode, Agree, Now
<1>6. CASE CloseDead
  BY <1>6, DispatchAgrees, BecomeAgrees DEF CloseDead
<1>7. CASE Rearrange
  BY <1>7, DispatchAgrees, BecomeAgrees DEF Rearrange
<1>8. CASE Exit
  <2>1. PICK t \in Minted, code \in Codes :
          /\ session[t] = "alive"
          /\ Become(ExitFanOut([lay |-> lay,
                      session |-> [session EXCEPT ![t] = IF code = 0 THEN "clean" ELSE "failed"],
                      job |-> [job EXCEPT ![t] = "exited"], dying |-> dying], t, code))
    BY <1>8 DEF Exit
  <2> DEFINE ended == [lay |-> lay,
                session |-> [session EXCEPT ![t] = IF code = 0 THEN "clean" ELSE "failed"],
                job |-> [job EXCEPT ![t] = "exited"], dying |-> dying]
  <2>2. Agree(ended)
    BY DEF Agree, Now
  <2> HIDE DEF ended
  <2> QED BY <2>1, <2>2, FanOutAgrees, BecomeAgrees DEF ended
<1>9. CASE StaleExit
  <2>1. PICK t \in Minted, code \in Codes :
          Become(ExitFanOut([lay |-> lay, session |-> session, job |-> job,
                             dying |-> [dying EXCEPT ![t] = @ - 1]], t, code))
    BY <1>9 DEF StaleExit
  <2> DEFINE heard == [lay |-> lay, session |-> session, job |-> job,
                       dying |-> [dying EXCEPT ![t] = @ - 1]]
  <2>2. Agree(heard)
    BY DEF Agree, Now
  <2> HIDE DEF heard
  <2> QED BY <2>1, <2>2, FanOutAgrees, BecomeAgrees DEF heard
<1>10. CASE UNCHANGED termVars
  BY <1>10 DEF termVars, Agree, Now
<1> QED
  BY <1>1, <1>2, <1>3, <1>4, <1>5, <1>6, <1>7, <1>8, <1>9, <1>10 DEF TermNext

\* The jobs overlay shows a terminal as running exactly while its process
\* lives, for any layout, any tabs and any order of exits.
THEOREM JobsAlwaysAgree == TermSpec => []JobsAgree
<1>1. TermInit => TermInv
  BY DEF TermInit, TermInv, Agree, Now
<1>2. TermInv => JobsAgree
  BY DEF TermInv, Agree, Now, JobsAgree
<1> QED BY <1>1, <1>2, TermStep, PTL DEF TermSpec

-----------------------------------------------------------------------------
(* No process outlives its tab.  A dispatch disposes what the layout no       *)
(* longer places and starts only what a placed pane shows, so that all there  *)
(* is to know of a gesture is that it leaves a layout of the reducer.         *)

Views == {"normal", "half", "full"}
Housed(s) ==
  /\ s.lay.view \in Views /\ s.lay \in Slices(s.lay.view)
  /\ \A t \in Minted : s.session[t] # "none" => t \in PlacedTabs(s.lay)
HousedInv == Housed(Now)

LEMMA PlainSlice ==
  ASSUME NEW v, NEW l \in Slices(v)
  PROVE  Plain(l) \in Slices(v) /\ Plain(l).cols = l.cols /\ Plain(l).view = v
<1> DEFINE r == [l EXCEPT !.undo = <<>>, !.redo = <<>>]
<1>1. r \in Slices(v)
  BY ClearUndoSlice
<1>2. r.cols = l.cols
  BY DEF Slices, Loose
<1>3. Plain(l) = [r EXCEPT !.dirty = FALSE]
  BY DEF Plain
<1> HIDE DEF r
<1>4. QED
  BY <1>1, <1>2, <1>3 DEF Slices, Loose

\* A pane shows one of its tabs, so what is shown is placed.
LEMMA ShownArePlaced ==
  ASSUME NEW v, NEW l \in Slices(v)
  PROVE  ShownTerminals(l) \subseteq PlacedTabs(l)
<1>1. \A p \in PanesOf(l.cols) : p.active \in TabsOf(p)
  BY SliceGrid, GoodPanes DEF GoodPane
<1>2. QED
  BY <1>1 DEF ShownTerminals, VisiblePanes, PlacedTabs

LEMMA DispatchHouses ==
  ASSUME NEW s, NEW v \in Views, NEW l \in Slices(v)
  PROVE  /\ Housed(Dispatch(s, l)) /\ Dispatch(s, l).lay = Plain(l)
         /\ Dispatch(s, l).lay.cols = l.cols /\ Dispatch(s, l).lay.view = v
<1> DEFINE r == Reduced(s, Plain(l))
           d == Dispose(r)
           e == Ensure(d)
<1>1. Plain(l) \in Slices(v) /\ Plain(l).cols = l.cols /\ Plain(l).view = v
  BY PlainSlice
<1>2. r.lay = Plain(l)
  BY DEF Reduced
<1> HIDE DEF r
<1>3. d.lay = r.lay /\ \A t \in Minted : d.session[t] # "none" => t \in PlacedTabs(r.lay)
  BY DEF Dispose, Orphans
<1> HIDE DEF d
<1>4. /\ e.lay = d.lay
      /\ \A t \in Minted : e.session[t] # "none" => t \in ShownTerminals(d.lay) \/ d.session[t] # "none"
  BY DEF Ensure, ToStart
<1>5. Dispatch(s, l) = e
  BY DEF Dispatch, d, r
<1> HIDE DEF e
<1>6. QED
  BY <1>1, <1>2, <1>3, <1>4, <1>5, ShownArePlaced DEF Housed

\* A change of the view moves nothing.
LEMMA ViewChange ==
  ASSUME NEW v, NEW l \in Slices(v), NEW w
  PROVE  LET r == [l EXCEPT !.view = w] IN r \in Slices(w) /\ r.cols = l.cols /\ r.view = w
BY DEF Slices, Loose

LEMMA DropFullSlice ==
  ASSUME NEW v \in Views, NEW l \in Slices(v)
  PROVE  /\ DropFull(l).view \in Views /\ DropFull(l) \in Slices(DropFull(l).view)
         /\ DropFull(l).cols = l.cols
<1>1. l.view = v
  BY DEF Slices, Loose
<1>2. DropFull(l) = [l EXCEPT !.view = IF v = "full" THEN "normal" ELSE v]
  BY <1>1 DEF DropFull
<1>3. QED
  BY <1>2, ViewChange DEF Views

LEMMA ReducedHouses ==
  ASSUME NEW s, Housed(s)
  PROVE  Housed(Reduced(s, DropFull(s.lay)))
BY DropFullSlice DEF Housed, Reduced, PlacedTabs

LEMMA FanOutHouses ==
  ASSUME NEW s, NEW t, NEW code, Housed(s)
  PROVE  Housed(ExitFanOut(s, t, code))
<1> DEFINE host    == CHOOSE p \in HostsOf(s.lay, t) : TRUE
           focused == s.lay.focus = host.pane
           left    == IF focused /\ host.active = t /\ typing
                      THEN Reduced(s, DropFull(s.lay)) ELSE s
           shrunk  == IF focused /\ left.lay.view = "full"
                      THEN Dispatch(left, DropFull(left.lay)) ELSE left
           closed  == Dispatch(shrunk, RemoveTab(shrunk.lay, host.pane, t))
<1>1. Housed(left) /\ left.lay.cols = s.lay.cols
  <2>1. Reduced(s, DropFull(s.lay)).lay.cols = s.lay.cols
    BY DropFullSlice DEF Housed, Reduced
  <2> QED BY <2>1, ReducedHouses
<1>2. Housed(shrunk) /\ shrunk.lay.cols = s.lay.cols
  <2> HIDE DEF left
  <2>1. /\ DropFull(left.lay).view \in Views
        /\ DropFull(left.lay) \in Slices(DropFull(left.lay).view)
        /\ DropFull(left.lay).cols = s.lay.cols
    BY <1>1, DropFullSlice DEF Housed
  <2>2. /\ Housed(Dispatch(left, DropFull(left.lay)))
        /\ Dispatch(left, DropFull(left.lay)).lay.cols = s.lay.cols
    BY <2>1, DispatchHouses
  <2> QED BY <1>1, <2>2
<1>3. ASSUME HostsOf(s.lay, t) # {} PROVE Housed(closed)
  <2>1. host \in PanesOf(s.lay.cols)
    BY <1>3 DEF HostsOf
  <2> HIDE DEF shrunk, host
  <2>2. host.pane \in PaneNames(shrunk.lay.cols)
    BY <1>2, <2>1 DEF PaneNames
  <2>3. RemoveTab(shrunk.lay, host.pane, t) \in Slices(shrunk.lay.view)
    BY <1>2, <2>2, RemoveTabSlice DEF Housed
  <2> QED BY <1>2, <2>3, DispatchHouses DEF Housed
<1>4. ExitFanOut(s, t, code) =
        IF HostsOf(s.lay, t) = {} THEN s ELSE IF ClosesTab(code) THEN closed ELSE shrunk
  BY DEF ExitFanOut
<1> HIDE DEF closed, shrunk
<1> QED BY <1>2, <1>3, <1>4

LEMMA BecomeHouses ==
  ASSUME NEW s, Housed(s), Become(s)
  PROVE  HousedInv'
BY DEF Housed, Become, HousedInv, Now, Arm, PlacedTabs

\* A minted tab shown, a pane focused, a layout gesture: each a dispatch, or two.
LEMMA OpeningHouses ==
  ASSUME HousedInv, Spawn \/ OpenStable \/ TerminalCommand \/ CloseDead
  PROVE  HousedInv'
<1> DEFINE v == lay.view
<1>1. v \in Views /\ lay \in Slices(v) /\ lay.focus \in PaneNames(lay.cols)
  BY DEF HousedInv, Housed, Now, Slices
<1>2. \A n \in ViewersOf(lay) : n \in PaneNames(lay.cols)
  BY <1>1 DEF ViewersOf, Details, PaneNames, PanesOf
<1>3. Minted \subseteq Ids /\ Stable \subseteq Ids
  BY TerminalsAssumption DEF Ids, Transient
<1> HIDE DEF v
<1>4. ASSUME NEW n \in PaneNames(lay.cols), NEW t \in Ids
      PROVE  LET d == Dispatch(Now, MintTab(lay, n, t))
             IN  Housed(d) /\ d.lay \in Slices(v) /\ n \in PaneNames(d.lay.cols)
  <2>1. MintTab(lay, n, t) \in Slices(v) /\ n \in PaneNames(MintTab(lay, n, t).cols)
    BY <1>1, <1>4, MintTabSlice
  <2> DEFINE l == MintTab(lay, n, t)
             d == Dispatch(Now, l)
  <2> HIDE DEF l
  <2>2. Housed(d) /\ d.lay.cols = l.cols /\ d.lay.view = v
    BY <1>1, <2>1, DispatchHouses DEF l
  <2>3. d.lay \in Slices(v) /\ n \in PaneNames(d.lay.cols)
    BY <2>1, <2>2 DEF Housed, l
  <2> QED BY <2>2, <2>3 DEF l
<1>5. CASE Spawn
  <2>1. PICK n \in ViewersOf(lay), t \in Minted \ (Stable \union lay.pool) :
          LET minted  == Dispatch(Now, MintTab(lay, n, t))
              focused == Dispatch(minted, WithFocus(minted.lay, n))
          IN Become(Dispatch(focused, FullView(focused.lay)))
    BY <1>5 DEF Spawn
  <2> DEFINE minted  == Dispatch(Now, MintTab(lay, n, t))
             focused == Dispatch(minted, WithFocus(minted.lay, n))
             shown   == Dispatch(focused, FullView(focused.lay))
  <2>2. Housed(minted) /\ minted.lay \in Slices(v) /\ n \in PaneNames(minted.lay.cols)
    BY <1>2, <1>3, <1>4
  <2> HIDE DEF minted
  <2>3. WithFocus(minted.lay, n) \in Slices(v)
    BY <2>2, WithFocusSlice, SliceGrid
  <2>4. Housed(focused)
    BY <1>1, <2>3, DispatchHouses
  <2> HIDE DEF focused
  <2>5. FullView(focused.lay) \in Slices("full")
    BY <2>4, ViewChange DEF Housed, FullView
  <2>6. Housed(shown)
    BY <2>5, DispatchHouses DEF Views
  <2>7. Become(shown)
    BY <2>1 DEF minted, focused
  <2> HIDE DEF shown
  <2> QED BY <2>6, <2>7, BecomeHouses
<1>6. CASE OpenStable
  <2>1. PICK n \in ViewersOf(lay), t \in Stable :
          LET minted == Dispatch(Now, MintTab(lay, n, t))
              shown  == Dispatch(minted, SetActiveTab(minted.lay, n, t))
          IN Become(Dispatch(shown, WithFocus(shown.lay, n)))
    BY <1>6 DEF OpenStable
  <2> DEFINE minted  == Dispatch(Now, MintTab(lay, n, t))
             shown   == Dispatch(minted, SetActiveTab(minted.lay, n, t))
             focused == Dispatch(shown, WithFocus(shown.lay, n))
  <2>2. Housed(minted) /\ minted.lay \in Slices(v) /\ n \in PaneNames(minted.lay.cols)
    BY <1>2, <1>3, <1>4
  <2> HIDE DEF minted
  <2>3. /\ SetActiveTab(minted.lay, n, t) \in Slices(v)
        /\ n \in PaneNames(SetActiveTab(minted.lay, n, t).cols)
    BY <2>2, SetActiveTabSlice
  <2>4. shown.lay \in Slices(v) /\ n \in PaneNames(shown.lay.cols)
    BY <1>1, <2>3, DispatchHouses DEF Housed
  <2> HIDE DEF shown
  <2>5. WithFocus(shown.lay, n) \in Slices(v)
    BY <2>4, WithFocusSlice, SliceGrid
  <2>6. Housed(focused)
    BY <1>1, <2>5, DispatchHouses
  <2>7. Become(focused)
    BY <2>1 DEF minted, shown
  <2> HIDE DEF focused
  <2> QED BY <2>6, <2>7, BecomeHouses
<1>7. CASE TerminalCommand
  <2>1. PICK t \in Minted : Become(Dispatch(Now, MintTab(lay, lay.focus, t)))
    BY <1>7 DEF TerminalCommand
  <2> DEFINE minted == Dispatch(Now, MintTab(lay, lay.focus, t))
  <2>2. Housed(minted) /\ Become(minted)
    BY <1>1, <1>3, <1>4, <2>1
  <2> HIDE DEF minted
  <2> QED BY <2>2, BecomeHouses
<1>8. CASE CloseDead
  <2>1. PICK t \in Minted : Become(Dispatch(Now, RemoveTab(lay, lay.focus, t)))
    BY <1>8 DEF CloseDead
  <2> DEFINE closed == Dispatch(Now, RemoveTab(lay, lay.focus, t))
  <2>2. Housed(closed) /\ Become(closed)
    BY <1>1, <2>1, RemoveTabSlice, DispatchHouses
  <2> HIDE DEF closed
  <2> QED BY <2>2, BecomeHouses
<1>9. QED
  BY <1>5, <1>6, <1>7, <1>8

LEMMA RearrangeHouses ==
  ASSUME HousedInv, Rearrange
  PROVE  HousedInv'
<1> DEFINE v == lay.view
<1>1. v \in Views /\ lay \in Slices(v)
  BY DEF HousedInv, Housed, Now
<1> HIDE DEF v
<1>2. ASSUME NEW w \in Views, NEW l \in Slices(w), Become(Dispatch(Now, l))
      PROVE  HousedInv'
  <2>1. Housed(Dispatch(Now, l))
    BY DispatchHouses
  <2> QED BY <1>2, <2>1, BecomeHouses
<1>3. ASSUME NEW n \in PaneNames(lay.cols) PROVE WithFocus(lay, n) \in Slices(v)
  BY <1>1, WithFocusSlice, SliceGrid
<1>4. ASSUME NEW p \in PanesOf(lay.cols), NEW t
      PROVE  SetActiveTab(WithFocus(lay, p.pane), p.pane, t) \in Slices(v)
  <2>1. p.pane \in PaneNames(lay.cols)
    BY DEF PaneNames
  <2>2. WithFocus(lay, p.pane) \in Slices(v) /\ WithFocus(lay, p.pane).cols = lay.cols
    BY <1>1, <2>1, WithFocusSlice, SliceGrid
  <2> QED BY <2>1, <2>2, SetActiveTabSlice
<1>5. ASSUME NEW w PROVE [lay EXCEPT !.view = w] \in Slices(w)
  BY <1>1, ViewChange
<1>6. ASSUME NEW i
      PROVE  PoolHide(lay, i) \in Slices(v) /\ PoolShow(lay, i, Len(lay.cols), AtEnd, FALSE) \in Slices(v)
  <2>1. Len(lay.cols) \in Nat \ {0} /\ AtEnd \in Nat
    <3>1. Details(lay.cols) # {} /\ lay.cols \in Seq(Seq(GoodPane))
      BY <1>1, SliceGrid DEF ViewerGrid, Grid
    <3>2. PICK a \in At(lay.cols) : TRUE
      BY <3>1 DEF Details
    <3> QED BY <3>1, <3>2 DEF At, AtEnd
  <2>2. ASSUME NEW skipUndo PROVE PoolShow(lay, i, Len(lay.cols), AtEnd, skipUndo) \in Slices(v)
    BY <1>1, <2>1, PoolShowSlice
  <2>3. PoolShow(lay, i, Len(lay.cols), AtEnd, FALSE) \in Slices(v)
    BY <2>2, Zenon
  <2> QED BY <1>1, <2>3, PoolHideSlice
<1>7. RestoreLayout(lay) \in Slices(v)
  BY <1>1, RestoreSlice
<1>8. \/ \E n \in PaneNames(lay.cols) : Become(Dispatch(Now, WithFocus(lay, n)))
      \/ \E p \in PanesOf(lay.cols) : \E t \in TabsOf(p) :
           Become(Dispatch(Now, SetActiveTab(WithFocus(lay, p.pane), p.pane, t)))
      \/ \E w \in {"normal", "full"} : Become(Dispatch(Now, [lay EXCEPT !.view = w]))
      \/ \E p \in PanesOf(lay.cols) : Become(Dispatch(Now, PoolHide(lay, IdOf(p))))
      \/ \E i \in ConfigIds :
           Become(Dispatch(Now, PoolShow(lay, i, Len(lay.cols), AtEnd, FALSE)))
      \/ Become(Dispatch(Now, RestoreLayout(lay)))
  BY DEF Rearrange
<1>9. CASE \E n \in PaneNames(lay.cols) : Become(Dispatch(Now, WithFocus(lay, n)))
  BY <1>1, <1>2, <1>3, <1>9
<1>10. CASE \E p \in PanesOf(lay.cols) : \E t \in TabsOf(p) :
              Become(Dispatch(Now, SetActiveTab(WithFocus(lay, p.pane), p.pane, t)))
  BY <1>1, <1>2, <1>4, <1>10
<1>11. CASE \E w \in {"normal", "full"} : Become(Dispatch(Now, [lay EXCEPT !.view = w]))
  BY <1>2, <1>5, <1>11 DEF Views
<1>12. CASE \E p \in PanesOf(lay.cols) : Become(Dispatch(Now, PoolHide(lay, IdOf(p))))
  BY <1>1, <1>2, <1>6, <1>12
<1>13. CASE \E i \in ConfigIds :
              Become(Dispatch(Now, PoolShow(lay, i, Len(lay.cols), AtEnd, FALSE)))
  BY <1>1, <1>2, <1>6, <1>13, Zenon
<1>14. CASE Become(Dispatch(Now, RestoreLayout(lay)))
  BY <1>1, <1>2, <1>7, <1>14
<1>15. QED
  BY <1>8, <1>9, <1>10, <1>11, <1>12, <1>13, <1>14, Zenon

LEMMA HousedStep ==
  ASSUME TermInv, HousedInv, [TermNext]_termVars
  PROVE  HousedInv'
<1>1. CASE Activate
  <2>1. /\ lay' = lay
        /\ \A t \in Minted : session'[t] # "none" => session[t] # "none"
    BY <1>1 DEF Activate, vars, TermInv, Agree, Now
  <2> QED BY <2>1 DEF HousedInv, Housed, Now, PlacedTabs
<1>2. CASE LeaveMode
  <2>1. lay' = DropFull(lay) /\ session' = session
    BY <1>2 DEF LeaveMode, Arm
  <2> QED BY <2>1, DropFullSlice DEF HousedInv, Housed, Now, PlacedTabs
<1>3. CASE Exit
  <2>1. PICK t \in Minted, code \in Codes :
          /\ session[t] = "alive"
          /\ Become(ExitFanOut([lay |-> lay,
                      session |-> [session EXCEPT ![t] = IF code = 0 THEN "clean" ELSE "failed"],
                      job |-> [job EXCEPT ![t] = "exited"], dying |-> dying], t, code))
    BY <1>3 DEF Exit
  <2> DEFINE ended == [lay |-> lay,
                session |-> [session EXCEPT ![t] = IF code = 0 THEN "clean" ELSE "failed"],
                job |-> [job EXCEPT ![t] = "exited"], dying |-> dying]
  <2>2. Housed(ended)
    BY <2>1 DEF HousedInv, Housed, Now, TermInv, Agree
  <2> HIDE DEF ended
  <2> QED BY <2>1, <2>2, FanOutHouses, BecomeHouses DEF ended
<1>4. CASE StaleExit
  <2>1. PICK t \in Minted, code \in Codes :
          Become(ExitFanOut([lay |-> lay, session |-> session, job |-> job,
                             dying |-> [dying EXCEPT ![t] = @ - 1]], t, code))
    BY <1>4 DEF StaleExit
  <2> DEFINE heard == [lay |-> lay, session |-> session, job |-> job,
                       dying |-> [dying EXCEPT ![t] = @ - 1]]
  <2>2. Housed(heard)
    BY DEF HousedInv, Housed, Now
  <2> HIDE DEF heard
  <2> QED BY <2>1, <2>2, FanOutHouses, BecomeHouses DEF heard
<1>5. CASE UNCHANGED termVars
  BY <1>5 DEF termVars, vars, HousedInv, Housed, Now, PlacedTabs
<1>6. QED
  BY <1>1, <1>2, <1>3, <1>4, <1>5, OpeningHouses, RearrangeHouses DEF TermNext

\* No process outlives its tab, however the tab left the layout: closed, hidden
\* with its pane, or restored away, also by the exit of another terminal.
THEOREM SessionsAlwaysPlaced == TermSpec => []SessionsPlaced
<1>1. TermInit => TermInv /\ HousedInv
  <2> SUFFICES ASSUME TermInit PROVE TermInv /\ HousedInv
    OBVIOUS
  <2>1. LayoutInv /\ lay.view \in Views
    BY InitLayoutInv DEF TermInit, LayoutInv, Views
  <2> QED BY <2>1 DEF TermInit, TermInv, Agree, HousedInv, Housed, Now, LayoutInv
<1>2. TermInv /\ HousedInv /\ [TermNext]_termVars => (TermInv /\ HousedInv)'
  BY TermStep, HousedStep
<1>3. HousedInv => SessionsPlaced
  BY DEF HousedInv, Housed, Now, SessionsPlaced
<1>4. QED
  BY <1>1, <1>2, <1>3, PTL DEF TermSpec

-----------------------------------------------------------------------------
(* A terminal on the screen has a process.  What the screen shows changes also *)
(* without a finalizer, when terminal mode is left; but every terminal that is *)
(* placed and pooled had its process started when it first came forward, and   *)
(* no arm of the reducer places one that was not.                              *)

Terminals(l) == {t \in Minted \intersect l.pool : t \in PlacedTabs(l)}

\* Every terminal has a session, but those of T that come forward later.
MannedBut(s, T) == \A t \in Terminals(s.lay) \ T : s.session[t] # "none"

\* The tabs of a grid and the pool are all there is to know of a layout.
LEMMA TabsOfSame ==
  ASSUME NEW l, NEW r, r.cols = l.cols, r.pool = l.pool
  PROVE  Terminals(r) = Terminals(l)
BY DEF Terminals, PlacedTabs

LEMMA FocusKeepsPool ==
  ASSUME NEW v, NEW l \in Loose(v)
  PROVE  /\ \A n : WithFocus(l, n).cols = l.cols /\ WithFocus(l, n).pool = l.pool
         /\ \A name : FocusByName(l, name).cols = l.cols /\ FocusByName(l, name).pool = l.pool
         /\ Clamp(l).cols = l.cols /\ Clamp(l).pool = l.pool
         /\ \A old : ClampAndFocus(old, l).cols = l.cols /\ ClampAndFocus(old, l).pool = l.pool
<1>1. \A n : WithFocus(l, n).cols = l.cols /\ WithFocus(l, n).pool = l.pool
  BY DEF WithFocus, Loose
<1>2. \A name : FocusByName(l, name).cols = l.cols /\ FocusByName(l, name).pool = l.pool
  BY <1>1 DEF FocusByName
<1>3. Clamp(l).cols = l.cols /\ Clamp(l).pool = l.pool
  BY DEF Clamp, Loose
<1>4. Clamp(l) \in Loose(v)
  BY ClampSlice, SliceGrid
<1>5. \A n : WithFocus(Clamp(l), n).cols = l.cols /\ WithFocus(Clamp(l), n).pool = l.pool
  BY <1>3, <1>4 DEF WithFocus, Loose
<1>6. \A old : ClampAndFocus(old, l).cols = l.cols /\ ClampAndFocus(old, l).pool = l.pool
  BY <1>3, <1>5 DEF ClampAndFocus
<1>7. QED
  BY <1>1, <1>2, <1>3, <1>6

LEMMA CommitKeepsPool ==
  ASSUME NEW v, NEW l \in Loose(v), NEW cols, NEW skipUndo
  PROVE  /\ Commit(l, cols, skipUndo).cols = cols /\ Commit(l, cols, skipUndo).pool = l.pool
         /\ CommitTransient(l, cols).cols = cols /\ CommitTransient(l, cols).pool = l.pool
<1> DEFINE k == IF skipUndo THEN l ELSE PushUndo(l)
<1>1. k \in Loose(v) /\ k.pool = l.pool
  BY PushUndoSlice DEF PushUndo, Loose
<1>2. Commit(l, cols, skipUndo) = [k EXCEPT !.cols = cols, !.dirty = TRUE]
  BY DEF Commit
<1> HIDE DEF k
<1>3. Commit(l, cols, skipUndo).cols = cols /\ Commit(l, cols, skipUndo).pool = l.pool
  BY <1>1, <1>2 DEF Loose
<1>4. CommitTransient(l, cols).cols = cols /\ CommitTransient(l, cols).pool = l.pool
  BY DEF CommitTransient, Loose
<1>5. QED
  BY <1>3, <1>4

\* A pane that gets the tabs q has, in place of its own.
LEMMA RetabTabs ==
  ASSUME NEW cols \in Grid, NEW a \in At(cols), NEW q \in GoodPane, NEW T,
         TabsOf(q) \subseteq TabsOf(PaneAt(cols, a)) \union T
  PROVE  UNION {TabsOf(p) : p \in PanesOf(SetPane(cols, a, q))}
           \subseteq (UNION {TabsOf(p) : p \in PanesOf(cols)}) \union T
<1>1. PanesOf(SetPane(cols, a, q)) = Others(cols, a) \union {q}
  BY SetPanePanes
<1>2. PanesOf(cols) = Others(cols, a) \union {PaneAt(cols, a)}
  BY PaneOrOther
<1>3. ASSUME NEW p \in Others(cols, a) \union {q}, NEW t \in TabsOf(p)
      PROVE  t \in (UNION {TabsOf(o) : o \in PanesOf(cols)}) \union T
  <2>1. t \in T \/ \E o \in PanesOf(cols) : t \in TabsOf(o)
    <3>1. CASE p = q
      <4>1. t \in TabsOf(PaneAt(cols, a)) \union T /\ PaneAt(cols, a) \in PanesOf(cols)
        BY <1>2, <1>3, <3>1
      <4> QED BY <4>1
    <3>2. CASE p \in Others(cols, a)
      <4>1. p \in PanesOf(cols) /\ t \in TabsOf(p)
        BY <1>2, <1>3, <3>2
      <4> QED BY <4>1
    <3> QED BY <1>3, <3>1, <3>2
  <2>2. ASSUME NEW o \in PanesOf(cols), t \in TabsOf(o)
        PROVE  t \in UNION {TabsOf(x) : x \in PanesOf(cols)}
    BY <2>2
  <2> QED BY <2>1, <2>2
<1>4. QED
  BY <1>1, <1>3

LEMMA SetActiveTabTabs ==
  ASSUME NEW v, NEW l \in Slices(v), NEW n \in PaneNames(l.cols), NEW t
  PROVE  LET r == SetActiveTab(l, n, t)
         IN  r.pool = l.pool /\ Terminals(r) \subseteq Terminals(l)
<1> DEFINE a == Where(l.cols, n)
           p == PaneAt(l.cols, a)
           q == [p EXCEPT !.active = t]
           next == CommitTransient(l, SetPane(l.cols, a, q))
<1>1. a \in At(l.cols) /\ p \in GoodPane /\ l.cols \in Grid /\ l \in Loose(v)
  BY WhereIn, SliceGrid, Places
<1>2. ASSUME t \in TabsOf(p) PROVE next \in Slices(v) /\ next.pool = l.pool /\ Terminals(next) \subseteq Terminals(l)
  <2>1. t \in Ids
    BY <1>1, <1>2 DEF GoodPane, PaneType, TabsOf, Range
  <2>2. q \in GoodPane /\ q.pane = p.pane /\ q.content = p.content /\ TabsOf(q) = TabsOf(p)
    BY <1>1, <1>2, <2>1 DEF GoodPane, PaneType, TabsOf
  <2> HIDE DEF q, a
  <2>3. next \in Slices(v)
    BY <1>1, <2>2, RetabSlice
  <2>4. next.cols = SetPane(l.cols, a, q) /\ next.pool = l.pool
    BY <1>1, CommitKeepsPool
  <2>5. TabsOf(q) \subseteq TabsOf(PaneAt(l.cols, a)) \union {}
    BY <2>2
  <2>6. PlacedTabs(next) \subseteq PlacedTabs(l) \union {}
    BY <1>1, <2>2, <2>4, <2>5, RetabTabs DEF PlacedTabs
  <2> HIDE DEF next
  <2> QED BY <2>3, <2>4, <2>6 DEF Terminals
<1>3. ASSUME t \in TabsOf(p)
      PROVE FocusByName(next, t).cols = next.cols /\ FocusByName(next, t).pool = next.pool
  BY <1>2, <1>3, SliceGrid, FocusKeepsPool
<1>4. SetActiveTab(l, n, t) =
        IF t \notin TabsOf(p) \/ p.active = t \/ t \notin l.pool THEN l
        ELSE IF l.focus = n THEN FocusByName(next, t) ELSE next
  BY DEF SetActiveTab
<1> HIDE DEF next, p
<1>5. ASSUME t \in TabsOf(p) PROVE Terminals(FocusByName(next, t)) \subseteq Terminals(l)
  BY <1>2, <1>3, <1>5, TabsOfSame
<1>6. QED
  BY <1>2, <1>3, <1>4, <1>5

\* A minted tab is the only one added, and the pane it was added to shows it.
Shows(l, n, t) == \E p \in PanesOf(l.cols) : p.pane = n /\ p.active = t

LEMMA MintTabTabs ==
  ASSUME NEW v, NEW l \in Slices(v), NEW n \in PaneNames(l.cols), NEW t \in Ids
  PROVE  LET r == MintTab(l, n, t)
         IN  /\ Terminals(r) \subseteq Terminals(l) \union {t}
             /\ t \in l.pool => r = l
             /\ t \notin l.pool => Shows(r, n, t) /\ t \in r.pool
<1> DEFINE a == Where(l.cols, n)
           p == PaneAt(l.cols, a)
           q == [p EXCEPT !.tabs = Append(@, t), !.active = t]
           k == [l EXCEPT !.pool = @ \union {t}]
           next == CommitTransient(k, SetPane(l.cols, a, q))
<1>1. a \in At(l.cols) /\ p \in GoodPane /\ p.pane = n /\ l.cols \in Grid
  BY WhereIn, SliceGrid, Places
<1>2. q \in GoodPane /\ q.pane = n /\ q.content = p.content /\ q.active = t /\ TabsOf(q) \subseteq TabsOf(p) \union {t}
  <2> HIDE DEF p
  <2> DEFINE ts == Append(p.tabs, t)
  <2>1. p.tabs \in Seq(Ids)
    BY <1>1 DEF GoodPane, PaneType
  <2>2. ts \in Seq(Ids) /\ Range(ts) = Range(p.tabs) \union {t}
    <3>1. /\ ts \in Seq(Ids) /\ Len(ts) = Len(p.tabs) + 1 /\ ts[Len(p.tabs) + 1] = t
          /\ \A j \in 1 .. Len(p.tabs) : ts[j] = p.tabs[j]
      BY <2>1, AppendProperties
    <3> HIDE DEF ts
    <3> QED BY <2>1, <3>1, LenProperties DEF Range
  <2>3. q = [p EXCEPT !.tabs = ts, !.active = t]
    OBVIOUS
  <2> HIDE DEF ts
  <2>4. q \in PaneType /\ q.tabs = ts /\ q.active = t /\ q.pane = p.pane /\ q.content = p.content
    BY <1>1, <2>2, <2>3 DEF GoodPane, PaneType
  <2> HIDE DEF q
  <2> QED BY <1>1, <2>2, <2>4 DEF GoodPane, TabsOf
<1>3. k \in Slices(v) /\ k.cols = l.cols /\ k.pool = l.pool \union {t}
  BY GrownPool DEF Slices, Loose
<1>4. /\ next \in Slices(v) /\ Terminals(next) \subseteq Terminals(l) \union {t}
      /\ Shows(next, n, t) /\ t \in next.pool
  <2> HIDE DEF q, a, k
  <2>1. next \in Slices(v)
    BY <1>1, <1>2, <1>3, RetabSlice
  <2>2. next.cols = SetPane(l.cols, a, q) /\ next.pool = l.pool \union {t}
    BY <1>3, SliceGrid, CommitKeepsPool
  <2>3. TabsOf(q) \subseteq TabsOf(PaneAt(l.cols, a)) \union {t}
    BY <1>2
  <2> DEFINE new == SetPane(l.cols, a, q)
  <2>4. PlacedTabs(next) \subseteq PlacedTabs(l) \union {t}
    <3>1. UNION {TabsOf(o) : o \in PanesOf(new)} \subseteq (UNION {TabsOf(o) : o \in PanesOf(l.cols)}) \union {t}
      BY <1>1, <1>2, <2>3, RetabTabs
    <3>2. next.cols = new
      BY <2>2
    <3> HIDE DEF new, next
    <3>3. PlacedTabs(next) = UNION {TabsOf(o) : o \in PanesOf(new)}
      BY <3>2 DEF PlacedTabs
    <3>4. PlacedTabs(l) = UNION {TabsOf(o) : o \in PanesOf(l.cols)}
      BY DEF PlacedTabs
    <3> QED BY <3>1, <3>3, <3>4
  <2>5. q \in PanesOf(next.cols)
    BY <1>1, <1>2, <2>2, SetPanePanes
  <2> HIDE DEF next
  <2> QED BY <1>2, <2>1, <2>2, <2>4, <2>5 DEF Terminals, Shows
<1>5. MintTab(l, n, t) = IF t \in l.pool THEN l
                         ELSE IF l.focus = n THEN FocusByName(next, t) ELSE next
  BY DEF MintTab
<1> HIDE DEF next
<1>6. FocusByName(next, t).cols = next.cols /\ FocusByName(next, t).pool = next.pool
  BY <1>4, SliceGrid, FocusKeepsPool
<1>7. /\ Terminals(FocusByName(next, t)) \subseteq Terminals(l) \union {t}
      /\ Shows(FocusByName(next, t), n, t) /\ t \in FocusByName(next, t).pool
  <2>1. Terminals(FocusByName(next, t)) = Terminals(next)
    BY <1>6, TabsOfSame
  <2> QED BY <1>4, <1>6, <2>1 DEF Shows
<1>8. QED
  BY <1>4, <1>5, <1>7

LEMMA RemoveTabTabs ==
  ASSUME NEW v, NEW l \in Slices(v), NEW n \in PaneNames(l.cols), NEW t
  PROVE  Terminals(RemoveTab(l, n, t)) \subseteq Terminals(l)
<1> DEFINE a    == Where(l.cols, n)
           p    == PaneAt(l.cols, a)
           at   == CHOOSE i \in DOMAIN p.tabs : p.tabs[i] = t
           left == RemoveAt(p.tabs, at)
           act  == IF p.active = t THEN left[IF at > Len(left) THEN Len(left) ELSE at]
                   ELSE p.active
           q    == [p EXCEPT !.tabs = left, !.active = act]
           k    == [l EXCEPT !.pool = @ \ {t}]
           next == IF t \in Transient THEN CommitTransient(k, SetPane(l.cols, a, q))
                   ELSE Commit(l, SetPane(l.cols, a, q), FALSE)
<1>1. a \in At(l.cols) /\ p \in GoodPane /\ l.cols \in Grid /\ l \in Loose(v)
  BY WhereIn, SliceGrid, Places
<1>2. ASSUME t \in TabsOf(p), Len(p.tabs) # 1
      PROVE next \in Loose(v) /\ Terminals(next) \subseteq Terminals(l)
  <2>1. q \in GoodPane /\ q.pane = p.pane /\ q.content = p.content /\ TabsOf(q) \subseteq TabsOf(p) \union {}
    BY <1>1, <1>2, TabRemoved
  <2> HIDE DEF q, at
  <2>2. /\ t \in Transient => k \in Loose(v) /\ k.cols = l.cols
        /\ t \in Transient => k.pool \subseteq l.pool
    BY ShrunkPool, SliceGrid DEF Slices, Loose
  <2> HIDE DEF k, a
  <2> DEFINE new == SetPane(l.cols, a, q)
  <2>3. new \in ViewerGrid
    BY <1>1, <2>1, SliceGrid, RetabGrid DEF p
  <2>4. UNION {TabsOf(o) : o \in PanesOf(new)} \subseteq PlacedTabs(l)
    BY <1>1, <2>1, RetabTabs DEF PlacedTabs, p
  <2> HIDE DEF new
  <2>5. ASSUME t \in Transient
         PROVE  CommitTransient(k, new) \in Loose(v) /\ Terminals(CommitTransient(k, new)) \subseteq Terminals(l)
    <3> DEFINE u == CommitTransient(k, new)
    <3>1. k \in Loose(v) /\ k.pool \subseteq l.pool
      BY <2>2, <2>5
    <3>2. u \in Loose(v) /\ u.cols = new
      BY <2>3, <3>1, CommitTransientSlice
    <3>3. u.pool = k.pool
      BY <3>1, CommitKeepsPool
    <3> HIDE DEF u
    <3>4. PlacedTabs(u) \subseteq PlacedTabs(l)
      BY <2>4, <3>2 DEF PlacedTabs
    <3>5. Terminals(u) \subseteq Terminals(l)
      BY <3>1, <3>3, <3>4 DEF Terminals
    <3> QED BY <3>2, <3>5 DEF u
  <2>6. Commit(l, new, FALSE) \in Loose(v) /\ Commit(l, new, FALSE).cols = new /\ Commit(l, new, FALSE).pool = l.pool
    <3>1. Commit(l, new, FALSE) \in Loose(v) /\ Commit(l, new, FALSE).cols = new
      BY <1>1, <2>3, CommitSlice, Zenon
    <3>2. \A skipUndo : Commit(l, new, skipUndo).pool = l.pool
      BY <1>1, CommitKeepsPool
    <3> QED BY <3>1, <3>2, Zenon
  <2>7. Terminals(Commit(l, new, FALSE)) \subseteq Terminals(l)
    BY <2>4, <2>6 DEF Terminals, PlacedTabs
  <2> QED BY <2>5, <2>6, <2>7 DEF new
<1>3. ASSUME next \in Loose(v)
      PROVE  Terminals(FocusByName(next, act)) = Terminals(next)
  <2> HIDE DEF next, act
  <2> QED BY <1>3, FocusKeepsPool, TabsOfSame
<1>4. RemoveTab(l, n, t) =
        IF t \notin TabsOf(p) \/ Len(p.tabs) = 1 \/ act \notin l.pool THEN l
        ELSE IF l.focus = n /\ p.active = t THEN FocusByName(next, act) ELSE next
  BY DEF RemoveTab
<1> HIDE DEF next, act, p
<1>5. QED
  BY <1>2, <1>3, <1>4

LEMMA PoolHideTabs ==
  ASSUME NEW v, NEW l \in Slices(v), NEW i
  PROVE  Terminals(PoolHide(l, i)) \subseteq Terminals(l)
<1> DEFINE at == {a \in At(l.cols) : IdOf(PaneAt(l.cols, a)) = i}
           a  == CHOOSE x \in at : TRUE
           kept == Without(l.cols, a)
           next == Commit(l, kept, FALSE)
<1>1. ASSUME at # {} PROVE PanesOf(kept) \subseteq PanesOf(l.cols)
  <2>1. a \in At(l.cols)
    BY <1>1
  <2> HIDE DEF a
  <2>2. QED
    BY <2>1, SliceGrid, WithoutPanes
<1>2. ASSUME at # {}, ~(Kind[i] = "detail" /\ Cardinality(Details(l.cols)) <= 1)
      PROVE  Terminals(ClampAndFocus(l, next)) \subseteq Terminals(l)
  <2>1. kept \in ViewerGrid
    BY <1>2, PoolHideKeepsViewer
  <2> HIDE DEF kept
  <2>2. next \in Loose(v) /\ next.cols = kept /\ next.pool = l.pool
    <3>1. next \in Loose(v)
      BY <2>1, SliceGrid, CommitSlice, Zenon
    <3>2. \A skipUndo : Commit(l, kept, skipUndo).cols = kept /\ Commit(l, kept, skipUndo).pool = l.pool
      BY SliceGrid, CommitKeepsPool
    <3>3. next.cols = kept /\ next.pool = l.pool
      BY <3>2, Zenon
    <3> QED BY <3>1, <3>3
  <2>3. Terminals(next) \subseteq Terminals(l)
    BY <1>1, <1>2, <2>2 DEF Terminals, PlacedTabs
  <2> HIDE DEF next
  <2>4. Terminals(ClampAndFocus(l, next)) = Terminals(next)
    BY <2>2, FocusKeepsPool, TabsOfSame
  <2> QED BY <2>3, <2>4
<1>3. PoolHide(l, i) =
        IF \/ i \notin l.pool
           \/ Kind[i] = "detail" /\ Cardinality(Details(l.cols)) <= 1
           \/ at = {}
        THEN l ELSE ClampAndFocus(l, next)
  BY DEF PoolHide
<1> HIDE DEF at, next
<1>4. QED
  BY <1>2, <1>3

\* What pool_show places is a configured pane, which is no terminal.
LEMMA PoolShowTabs ==
  ASSUME NEW v, NEW l \in Slices(v), NEW i \in ConfigIds, NEW c \in Nat \ {0}, NEW k \in Nat, NEW skipUndo
  PROVE  Terminals(PoolShow(l, i, c, k, skipUndo)) \subseteq Terminals(l)
<1> DEFINE end == Len(l.cols[c]) + 1
           at  == IF k = AtEnd \/ k > end THEN end ELSE k
           new == Insert(l.cols, c, at, Pane(i))
           next == Commit(l, new, skipUndo)
<1>1. ASSUME i \in l.pool, ~(c > Len(l.cols))
      PROVE  /\ new \in ViewerGrid
             /\ UNION {TabsOf(p) : p \in PanesOf(new)} \subseteq PlacedTabs(l) \union {i}
  <2>1. l.cols \in Grid /\ c \in 1 .. Len(l.cols) /\ Pane(i) \in GoodPane
    BY <1>1, SliceGrid, PaneIsGood DEF Grid
  <2>2. at \in 1 .. Len(l.cols[c]) + 1
    BY <2>1, Places DEF AtEnd
  <2> HIDE DEF at
  <2>3. new \in Grid /\ PanesOf(l.cols) \subseteq PanesOf(new) /\ PanesOf(new) \subseteq PanesOf(l.cols) \union {Pane(i)}
    BY <2>1, <2>2, InsertGrid, InsertPanes
  <2>4. TabsOf(Pane(i)) = {i}
    BY DEF TabsOf, Pane, Range
  <2> HIDE DEF new
  <2>5. new \in ViewerGrid
    BY <2>3, SliceGrid, KeepsPanes
  <2>6. ASSUME NEW p \in PanesOf(new), NEW t \in TabsOf(p) PROVE t \in PlacedTabs(l) \union {i}
    <3>1. CASE p = Pane(i)
      BY <2>4, <2>6, <3>1
    <3>2. CASE p \in PanesOf(l.cols)
      BY <2>6, <3>2 DEF PlacedTabs
    <3> QED BY <2>3, <3>1, <3>2
  <2> QED BY <2>5, <2>6
<1>2. i \notin Minted
  BY LayoutAssumption
<1>3. ASSUME i \in l.pool, ~(c > Len(l.cols))
      PROVE  Terminals(FocusByName(next, Kind[i])) \subseteq Terminals(l)
  <2> HIDE DEF new
  <2>1. next \in Loose(v)
    BY <1>1, <1>3, SliceGrid, CommitSlice, Zenon
  <2>2. next.cols = new /\ next.pool = l.pool
    BY SliceGrid, CommitKeepsPool
  <2> HIDE DEF next
  <2>3. PlacedTabs(next) \subseteq PlacedTabs(l) \union {i}
    BY <1>1, <1>3, <2>2 DEF PlacedTabs
  <2>4. Terminals(next) \subseteq Terminals(l)
    BY <1>2, <2>2, <2>3 DEF Terminals
  <2>5. Terminals(FocusByName(next, Kind[i])) = Terminals(next)
    BY <2>1, FocusKeepsPool, TabsOfSame
  <2> QED BY <2>4, <2>5
<1>4. PoolShow(l, i, c, k, skipUndo) =
        IF \/ i \notin l.pool \/ i \in Placed(l.cols) \/ c > Len(l.cols)
           \/ Kind[i] = "actions" /\ (HasActions(l.cols) \/ c # Len(l.cols))
        THEN l ELSE FocusByName(next, Kind[i])
  BY DEF PoolShow
<1> HIDE DEF next
<1>5. QED
  BY <1>3, <1>4

\* A restored layout starts from the configured pool.
LEMMA RestoreTabs ==
  ASSUME NEW v, NEW l \in Slices(v)
  PROVE  Terminals(RestoreLayout(l)) = {}
<1> DEFINE P == ConfigIds \union Seeds
           e == <<>>
           r == [l EXCEPT !.cols = InitCols, !.pool = P, !.dirty = FALSE, !.undo = e, !.redo = e]
<1>1. /\ e \in Seq(ViewerGrid) /\ Len(e) + Len(e) <= MaxUndo
      /\ P \in {Q \in SUBSET Ids : ConfigIds \subseteq Q}
  BY InitialPool, LayoutAssumption
<1>2. RestoreLayout(l) = Clamp(r)
  BY DEF RestoreLayout
<1> HIDE DEF P, e
<1>3. r \in Loose(v) /\ r.pool = P
  BY <1>1, InitColsGood DEF Slices, Loose
<1> HIDE DEF r
<1>4. Clamp(r).pool = P
  BY <1>3, FocusKeepsPool
<1>5. Minted \intersect P = {}
  BY LayoutAssumption DEF P
<1>6. QED
  BY <1>2, <1>4, <1>5 DEF Terminals

\* The finalizer starts what the new layout shows, and keeps what it places.
LEMMA DispatchMans ==
  ASSUME NEW s, NEW v \in Views, NEW l \in Slices(v), NEW T,
         MannedBut(s, T), Terminals(l) \subseteq Terminals(s.lay) \union T
  PROVE  LET d == Dispatch(s, l)
         IN  /\ d.lay.cols = l.cols /\ d.lay.pool = l.pool /\ d.lay.focus = l.focus /\ d.lay.view = v
             /\ d.lay \in Slices(v)
             /\ MannedBut(d, T)
             /\ \A t \in Minted : t \in ShownTerminals(l) => d.session[t] # "none"
<1> DEFINE r == Reduced(s, Plain(l))
           o == Dispose(r)
           e == Ensure(o)
<1>1. /\ Plain(l) \in Slices(v) /\ Plain(l).cols = l.cols /\ Plain(l).view = v
      /\ Plain(l).pool = l.pool /\ Plain(l).focus = l.focus
  BY PlainSlice DEF Plain, Slices, Loose
<1>2. r.lay = Plain(l) /\ r.session = s.session
  BY DEF Reduced
<1> HIDE DEF r
<1>3. o.lay = r.lay /\ \A t \in Minted : t \in PlacedTabs(r.lay) => o.session[t] = r.session[t]
  BY DEF Dispose, Orphans
<1> HIDE DEF o
<1>4. /\ e.lay = o.lay
      /\ \A t \in Minted : o.session[t] # "none" => e.session[t] # "none"
      /\ \A t \in Minted : t \in ShownTerminals(o.lay) => e.session[t] # "none"
  BY DEF Ensure, ToStart
<1>5. Dispatch(s, l) = e
  BY DEF Dispatch, o, r
<1> HIDE DEF e
<1>6. ShownTerminals(Plain(l)) = ShownTerminals(l)
  <2>1. Plain(l).view = l.view
    BY <1>1 DEF Slices, Loose
  <2> QED BY <1>1, <2>1 DEF ShownTerminals, VisiblePanes
<1>7. Terminals(Plain(l)) = Terminals(l)
  BY <1>1, TabsOfSame
<1>8. ASSUME NEW t \in Terminals(e.lay) \ T PROVE e.session[t] # "none"
  <2>1. t \in Terminals(s.lay) \ T /\ t \in Minted /\ t \in PlacedTabs(r.lay)
    BY <1>2, <1>3, <1>4, <1>7, <1>8 DEF Terminals
  <2>2. o.session[t] # "none"
    BY <1>2, <1>3, <2>1 DEF MannedBut
  <2> QED BY <1>4, <2>1, <2>2
<1>9. MannedBut(e, T)
  BY <1>8 DEF MannedBut
<1>10. QED
  BY <1>1, <1>2, <1>3, <1>4, <1>5, <1>6, <1>9

\* A terminal is in one place of the grid, and while it is there it is pooled.
Tidy(l) ==
  /\ \A a \in At(l.cols) : \A t \in Minted \intersect TabsOf(PaneAt(l.cols, a)) :
       /\ t \in l.pool
       /\ \A b \in At(l.cols) : t \in TabsOf(PaneAt(l.cols, b)) => a = b
  /\ \A p \in PanesOf(l.cols) : \A i, j \in DOMAIN p.tabs :
       p.tabs[i] = p.tabs[j] /\ p.tabs[i] \in Minted => i = j

Manned(s) == MannedBut(s, {}) /\ Tidy(s.lay)
MannedInv == Manned(Now)

LEMMA TidySame ==
  ASSUME NEW l, NEW r, Tidy(l), r.cols = l.cols, r.pool = l.pool
  PROVE  Tidy(r)
BY DEF Tidy

LEMMA SetActiveTabTidy ==
  ASSUME NEW v, NEW l \in Slices(v), NEW n \in PaneNames(l.cols), NEW t, Tidy(l)
  PROVE  Tidy(SetActiveTab(l, n, t))
<1> DEFINE a == Where(l.cols, n)
           p == PaneAt(l.cols, a)
           q == [p EXCEPT !.active = t]
           new == SetPane(l.cols, a, q)
           next == CommitTransient(l, new)
<1>1. a \in At(l.cols) /\ p \in GoodPane /\ l.cols \in Grid /\ l \in Loose(v)
  BY WhereIn, SliceGrid, Places
<1>2. ASSUME t \in TabsOf(p) PROVE next \in Slices(v) /\ Tidy(next)
  <2>1. t \in Ids
    BY <1>1, <1>2 DEF GoodPane, PaneType, TabsOf, Range
  <2>2. q \in GoodPane /\ q.pane = p.pane /\ q.content = p.content /\ q.tabs = p.tabs
    BY <1>1, <1>2, <2>1 DEF GoodPane, PaneType, TabsOf
  <2> HIDE DEF q
  <2>3. /\ At(new) = At(l.cols)
        /\ \A b \in At(l.cols) : PaneAt(new, b).tabs = PaneAt(l.cols, b).tabs
    <3> HIDE DEF a
    <3>1. \A b \in At(l.cols) : PaneAt(new, b) = IF b = a THEN q ELSE PaneAt(l.cols, b)
      BY <1>1, <2>2, SetPaneGrid
    <3> QED BY <1>1, <2>2, <3>1, SetPaneGrid
  <2>4. next \in Slices(v)
    <3> HIDE DEF a
    <3> QED BY <1>1, <2>2, RetabSlice
  <2> HIDE DEF new
  <2>5. next.cols = new /\ next.pool = l.pool
    BY <1>1, CommitKeepsPool
  <2> HIDE DEF next
  <2>6. \A b \in At(l.cols) : TabsOf(PaneAt(new, b)) = TabsOf(PaneAt(l.cols, b))
    BY <2>3 DEF TabsOf
  <2> QED BY <2>3, <2>4, <2>5, <2>6 DEF Tidy, PanesOf
<1>3. ASSUME t \in TabsOf(p) PROVE Tidy(FocusByName(next, t))
  <2> HIDE DEF next, p
  <2>1. FocusByName(next, t).cols = next.cols /\ FocusByName(next, t).pool = next.pool
    BY <1>2, <1>3, SliceGrid, FocusKeepsPool
  <2> QED BY <1>2, <1>3, <2>1, TidySame
<1>4. SetActiveTab(l, n, t) =
        IF t \notin TabsOf(p) \/ p.active = t \/ t \notin l.pool THEN l
        ELSE IF l.focus = n THEN FocusByName(next, t) ELSE next
  BY DEF SetActiveTab
<1> HIDE DEF next, p
<1>5. QED
  BY <1>2, <1>3, <1>4

\* A minted tab is new to the pool, so it was nowhere; the pane that gets it is
\* focused with it.
LEMMA MintTabTidy ==
  ASSUME NEW v, NEW l \in Slices(v), NEW n \in PaneNames(l.cols), NEW t \in Minted, Tidy(l)
  PROVE  LET r == MintTab(l, n, t)
         IN  /\ Tidy(r)
             /\ t \notin l.pool /\ l.focus = n => Shows(r, r.focus, t)
<1> DEFINE a == Where(l.cols, n)
           p == PaneAt(l.cols, a)
           ts == Append(p.tabs, t)
           q == [p EXCEPT !.tabs = ts, !.active = t]
           k == [l EXCEPT !.pool = @ \union {t}]
           new == SetPane(l.cols, a, q)
           next == CommitTransient(k, new)
<1>0. t \in Ids
  BY DEF Ids, Transient
<1>1. a \in At(l.cols) /\ p \in GoodPane /\ p.pane = n /\ l.cols \in Grid
  BY WhereIn, SliceGrid, Places
<1>2. /\ q \in GoodPane /\ q.pane = n /\ q.content = p.content /\ q.active = t /\ q.tabs = ts
      /\ TabsOf(q) = TabsOf(p) \union {t} /\ p.tabs \in Seq(Ids)
      /\ ts \in Seq(Ids) /\ Len(ts) = Len(p.tabs) + 1 /\ ts[Len(p.tabs) + 1] = t
      /\ \A j \in 1 .. Len(p.tabs) : ts[j] = p.tabs[j]
  <2> HIDE DEF p
  <2>1. p.tabs \in Seq(Ids)
    BY <1>1 DEF GoodPane, PaneType
  <2>2. /\ ts \in Seq(Ids) /\ Len(ts) = Len(p.tabs) + 1 /\ ts[Len(p.tabs) + 1] = t
        /\ \A j \in 1 .. Len(p.tabs) : ts[j] = p.tabs[j]
    BY <1>0, <2>1, AppendProperties
  <2> HIDE DEF ts
  <2>3. Range(ts) = Range(p.tabs) \union {t}
    BY <2>1, <2>2, LenProperties DEF Range
  <2>4. q \in PaneType /\ q.tabs = ts /\ q.active = t /\ q.pane = p.pane /\ q.content = p.content
    BY <1>0, <1>1, <2>2 DEF GoodPane, PaneType
  <2> HIDE DEF q
  <2> QED BY <1>1, <2>1, <2>2, <2>3, <2>4 DEF GoodPane, TabsOf
<1>3. k \in Slices(v) /\ k.cols = l.cols /\ k.pool = l.pool \union {t}
  BY <1>0, GrownPool DEF Slices, Loose
<1>4. /\ At(new) = At(l.cols)
      /\ \A b \in At(l.cols) : PaneAt(new, b) = IF b = a THEN q ELSE PaneAt(l.cols, b)
  <2> HIDE DEF q, a
  <2> QED BY <1>1, <1>2, SetPaneGrid
<1>5. next \in Slices(v) /\ next.cols = new /\ next.pool = l.pool \union {t}
  <2> HIDE DEF q, a, k
  <2>1. next \in Slices(v)
    BY <1>1, <1>2, <1>3, RetabSlice
  <2> QED BY <1>3, <2>1, SliceGrid, CommitKeepsPool
<1> HIDE DEF q, ts, p, new, k, a, next
<1>6. ASSUME t \notin l.pool PROVE \A b \in At(l.cols) : t \notin TabsOf(PaneAt(l.cols, b))
  BY <1>6 DEF Tidy
<1>7. ASSUME t \notin l.pool PROVE Tidy(next)
  <2>1. \A b \in At(l.cols) : TabsOf(PaneAt(new, b)) =
          IF b = a THEN TabsOf(PaneAt(l.cols, b)) \union {t} ELSE TabsOf(PaneAt(l.cols, b))
    BY <1>2, <1>4 DEF p
  <2>2. ASSUME NEW b \in At(l.cols), NEW x \in Minted \intersect TabsOf(PaneAt(new, b))
        PROVE  x \in next.pool /\ \A d \in At(l.cols) : x \in TabsOf(PaneAt(new, d)) => b = d
    <3>1. CASE x = t
      BY <1>5, <1>6, <1>7, <2>1, <2>2, <3>1
    <3>2. CASE x # t
      BY <1>5, <2>1, <2>2, <3>2 DEF Tidy
    <3> QED BY <3>1, <3>2
  <2>3. ASSUME NEW b \in At(l.cols), NEW i \in DOMAIN PaneAt(new, b).tabs, NEW j \in DOMAIN PaneAt(new, b).tabs,
               PaneAt(new, b).tabs[i] = PaneAt(new, b).tabs[j], PaneAt(new, b).tabs[i] \in Minted
        PROVE  i = j
    <3>1. CASE b # a
      BY <1>4, <2>3, <3>1 DEF Tidy, PanesOf
    <3>2. CASE b = a
      <4>1. \A m \in 1 .. Len(p.tabs) : p.tabs[m] # t
        BY <1>1, <1>2, <1>6, <1>7, LenProperties DEF TabsOf, Range, p
      <4>2. /\ i \in 1 .. Len(p.tabs) + 1 /\ j \in 1 .. Len(p.tabs) + 1 /\ ts[i] = ts[j] /\ ts[i] \in Minted
            /\ Len(p.tabs) \in Nat
        BY <1>2, <1>4, <2>3, <3>2, LenProperties
      <4>3. CASE i = Len(p.tabs) + 1 \/ j = Len(p.tabs) + 1
        BY <1>2, <4>1, <4>2, <4>3
      <4>4. CASE i \in 1 .. Len(p.tabs) /\ j \in 1 .. Len(p.tabs)
        <5>1. p.tabs[i] = p.tabs[j] /\ p.tabs[i] \in Minted /\ p \in PanesOf(l.cols)
          BY <1>1, <1>2, <4>2, <4>4 DEF PanesOf, p
        <5> QED BY <1>2, <4>4, <5>1, LenProperties DEF Tidy
      <4> QED BY <4>2, <4>3, <4>4
    <3> QED BY <3>1, <3>2
  <2> QED BY <1>4, <1>5, <2>2, <2>3 DEF Tidy, PanesOf
<1>8. MintTab(l, n, t) = IF t \in l.pool THEN l
                         ELSE IF l.focus = n THEN FocusByName(next, t) ELSE next
  BY DEF MintTab, next, k, new, q, ts, p, a
<1>9. FocusByName(next, t).cols = next.cols /\ FocusByName(next, t).pool = next.pool
  BY <1>5, SliceGrid, FocusKeepsPool
<1>10. ASSUME t \notin l.pool PROVE Tidy(FocusByName(next, t))
  BY <1>7, <1>9, <1>10, TidySame
<1>11. ASSUME t \notin l.pool PROVE Shows(FocusByName(next, t), FocusByName(next, t).focus, t)
  <2> DEFINE wears == {b \in At(next.cols) : t \in {KindOf(PaneAt(next.cols, b)), IdOf(PaneAt(next.cols, b))}}
             holds == {b \in At(next.cols) : t \in TabsOf(PaneAt(next.cols, b))}
  <2>1. next.cols \in Grid
    BY <1>5, SliceGrid
  <2>2. ASSUME NEW b \in wears PROVE PaneAt(next.cols, b).active = t
    <3>1. PaneAt(next.cols, b) \in GoodPane
      BY <2>1, Places
    <3>2. KindOf(PaneAt(next.cols, b)) # t
      BY <3>1, TerminalsAssumption DEF GoodPane, PaneType, KindOf
    <3>3. PaneAt(next.cols, b).content => PaneAt(next.cols, b).pane # t
      BY <3>1, TerminalsAssumption DEF GoodPane
    <3> QED BY <3>2, <3>3 DEF IdOf
  <2>3. holds = {a}
    BY <1>1, <1>2, <1>4, <1>5, <1>6, <1>11
  <2>4. \A b \in holds : PaneAt(next.cols, b).active = t
    BY <1>1, <1>2, <1>4, <1>5, <2>3
  <2>5. \A at \in SUBSET At(next.cols) : at # {} => FirstOf(next.cols, at) \in {PaneAt(next.cols, b) : b \in at}
    BY <2>1, FirstOfAmong
  <2>6. ASSUME NEW at \in {wears, holds}, at # {}
        PROVE  /\ WithFocus(next, FirstOf(next.cols, at).pane).focus = FirstOf(next.cols, at).pane
               /\ FirstOf(next.cols, at) \in PanesOf(next.cols)
               /\ FirstOf(next.cols, at).active = t
    <3>1. at \in SUBSET At(next.cols) /\ \A b \in at : PaneAt(next.cols, b).active = t
      BY <2>2, <2>4
    <3> HIDE DEF wears, holds
    <3>2. PICK b \in at : FirstOf(next.cols, at) = PaneAt(next.cols, b)
      BY <2>5, <2>6, <3>1
    <3>3. \A m : WithFocus(next, m).focus = m
      BY <1>5 DEF WithFocus, Slices, Loose
    <3> QED BY <3>1, <3>2, <3>3 DEF PanesOf
  <2>7. FocusByName(next, t) = IF wears # {} THEN WithFocus(next, FirstOf(next.cols, wears).pane)
                               ELSE IF holds # {} THEN WithFocus(next, FirstOf(next.cols, holds).pane)
                               ELSE next
    BY DEF FocusByName
  <2> HIDE DEF wears
  <2>8. holds # {}
    BY <2>3
  <2> HIDE DEF holds
  <2> QED BY <1>9, <2>6, <2>7, <2>8 DEF Shows
<1>12. QED
  BY <1>7, <1>8, <1>10, <1>11

\* A removed tab was in that place only: it is in no pane after, and out of the pool.
LEMMA RemoveTabTidy ==
  ASSUME NEW v, NEW l \in Slices(v), NEW n \in PaneNames(l.cols), NEW t \in Minted, Tidy(l)
  PROVE  Tidy(RemoveTab(l, n, t))
<1> DEFINE a    == Where(l.cols, n)
           p    == PaneAt(l.cols, a)
           at   == CHOOSE i \in DOMAIN p.tabs : p.tabs[i] = t
           left == RemoveAt(p.tabs, at)
           act  == IF p.active = t THEN left[IF at > Len(left) THEN Len(left) ELSE at]
                   ELSE p.active
           q    == [p EXCEPT !.tabs = left, !.active = act]
           k    == [l EXCEPT !.pool = @ \ {t}]
           new  == SetPane(l.cols, a, q)
           next == IF t \in Transient THEN CommitTransient(k, new) ELSE Commit(l, new, FALSE)
<1>1. a \in At(l.cols) /\ p \in GoodPane /\ l.cols \in Grid /\ t \in Transient
  BY WhereIn, SliceGrid, Places DEF Transient
<1>2. ASSUME t \in TabsOf(p), Len(p.tabs) # 1
      PROVE next \in Slices(v) /\ Tidy(next)
  <2>1. /\ q \in GoodPane /\ q.pane = p.pane /\ q.content = p.content
        /\ TabsOf(q) \subseteq TabsOf(p)
        /\ at \in 1 .. Len(p.tabs) /\ p.tabs[at] = t
        /\ p.tabs \in Seq(Ids) /\ q.tabs \in Seq(Ids) /\ Len(q.tabs) = Len(p.tabs) - 1
        /\ \A j \in 1 .. Len(q.tabs) :
             q.tabs[j] = IF j < at THEN p.tabs[j] ELSE p.tabs[j + 1]
    BY <1>1, <1>2, TabRemoved
  <2> HIDE DEF q, at
  <2>2. /\ At(new) = At(l.cols)
        /\ \A b \in At(l.cols) : PaneAt(new, b) = IF b = a THEN q ELSE PaneAt(l.cols, b)
    <3> HIDE DEF a
    <3> QED BY <1>1, <2>1, SetPaneGrid
  <2>3. k \in Slices(v) /\ k.cols = l.cols /\ k.pool = l.pool \ {t}
    BY <1>1, ShrunkPool DEF Slices, Loose
  <2>4. next \in Slices(v) /\ next.cols = new /\ next.pool = l.pool \ {t}
    <3> HIDE DEF k, a
    <3>1. CommitTransient(k, new) \in Slices(v)
      BY <1>1, <2>1, <2>3, RetabSlice DEF p
    <3>2. CommitTransient(k, new).cols = new /\ CommitTransient(k, new).pool = l.pool \ {t}
      BY <2>3, SliceGrid, CommitKeepsPool
    <3> QED BY <1>1, <3>1, <3>2
  <2> HIDE DEF new, next, k, a
  <2>5. \A b \in At(l.cols) : t \in TabsOf(PaneAt(l.cols, b)) => b = a
    BY <1>1, <1>2 DEF Tidy, p
  \* Places of the shorter pane, in the pane it was.
  <2> DEFINE from(j) == IF j < at THEN j ELSE j + 1
  <2>6. \A j \in 1 .. Len(q.tabs) : /\ from(j) \in 1 .. Len(p.tabs) /\ from(j) # at
                                    /\ q.tabs[j] = p.tabs[from(j)]
    <3>1. Len(p.tabs) \in Nat /\ at \in Nat
      BY <2>1
    <3> QED BY <2>1, <3>1
  <2>7. \A i, j \in 1 .. Len(q.tabs) : from(i) = from(j) => i = j
    BY <2>1
  <2> HIDE DEF from
  <2>8. \A i, j \in 1 .. Len(p.tabs) : p.tabs[i] = p.tabs[j] /\ p.tabs[i] \in Minted => i = j
    <3>1. p \in PanesOf(l.cols)
      BY <1>1 DEF PanesOf, p
    <3> QED BY <2>1, <3>1, LenProperties DEF Tidy
  <2>9. t \notin TabsOf(q)
    <3>1. \A j \in 1 .. Len(q.tabs) : q.tabs[j] # t
      BY <2>1, <2>6, <2>8
    <3> QED BY <2>1, <3>1, LenProperties DEF TabsOf, Range
  <2>10. ASSUME NEW b \in At(l.cols), NEW x \in Minted \intersect TabsOf(PaneAt(new, b))
         PROVE  x \in next.pool /\ \A d \in At(l.cols) : x \in TabsOf(PaneAt(new, d)) => b = d
    <3>1. \A d \in At(l.cols) : TabsOf(PaneAt(new, d)) \subseteq TabsOf(PaneAt(l.cols, d))
      BY <2>1, <2>2 DEF p
    <3>2. x # t
      BY <2>2, <2>5, <2>9, <2>10
    <3> QED BY <2>4, <2>10, <3>1, <3>2 DEF Tidy
  <2>11. ASSUME NEW b \in At(l.cols), NEW i \in DOMAIN PaneAt(new, b).tabs, NEW j \in DOMAIN PaneAt(new, b).tabs,
                PaneAt(new, b).tabs[i] = PaneAt(new, b).tabs[j], PaneAt(new, b).tabs[i] \in Minted
         PROVE  i = j
    <3>1. CASE b # a
      BY <2>2, <2>11, <3>1 DEF Tidy, PanesOf
    <3>2. CASE b = a
      <4>1. i \in 1 .. Len(q.tabs) /\ j \in 1 .. Len(q.tabs) /\ q.tabs[i] = q.tabs[j] /\ q.tabs[i] \in Minted
        BY <2>1, <2>2, <2>11, <3>2, LenProperties
      <4> QED BY <2>6, <2>7, <2>8, <4>1
    <3> QED BY <3>1, <3>2
  <2> QED BY <2>2, <2>4, <2>10, <2>11 DEF Tidy, PanesOf
<1>3. ASSUME next \in Slices(v), Tidy(next)
      PROVE  Tidy(FocusByName(next, act))
  <2> HIDE DEF next, act
  <2>1. FocusByName(next, act).cols = next.cols /\ FocusByName(next, act).pool = next.pool
    BY <1>3, SliceGrid, FocusKeepsPool
  <2> QED BY <1>3, <2>1, TidySame
<1>4. RemoveTab(l, n, t) =
        IF t \notin TabsOf(p) \/ Len(p.tabs) = 1 \/ act \notin l.pool THEN l
        ELSE IF l.focus = n /\ p.active = t THEN FocusByName(next, act) ELSE next
  BY DEF RemoveTab
<1> HIDE DEF next, act, p
<1>5. QED
  BY <1>2, <1>3, <1>4

LEMMA PoolHideTidy ==
  ASSUME NEW v, NEW l \in Slices(v), NEW i, Tidy(l)
  PROVE  Tidy(PoolHide(l, i))
<1> DEFINE at == {a \in At(l.cols) : IdOf(PaneAt(l.cols, a)) = i}
           a  == CHOOSE x \in at : TRUE
           kept == Without(l.cols, a)
           next == Commit(l, kept, FALSE)
<1>1. ASSUME at # {}, ~(Kind[i] = "detail" /\ Cardinality(Details(l.cols)) <= 1)
      PROVE  Tidy(ClampAndFocus(l, next))
  <2>1. kept \in ViewerGrid
    BY <1>1, PoolHideKeepsViewer
  <2>2. PICK f : Moved(kept, At(kept), l.cols, f)
    <3>1. a \in At(l.cols)
      BY <1>1
    <3> HIDE DEF a
    <3> QED BY <3>1, SliceGrid, WithoutPlaces
  <2> HIDE DEF kept
  <2>3. next \in Loose(v) /\ next.cols = kept /\ next.pool = l.pool
    <3>1. next \in Loose(v)
      BY <2>1, SliceGrid, CommitSlice, Zenon
    <3>2. \A skipUndo : Commit(l, kept, skipUndo).cols = kept /\ Commit(l, kept, skipUndo).pool = l.pool
      BY SliceGrid, CommitKeepsPool
    <3>3. next.cols = kept /\ next.pool = l.pool
      BY <3>2, Zenon
    <3> QED BY <3>1, <3>3
  <2> HIDE DEF next
  <2>4. Tidy(next)
    BY <2>2, <2>3 DEF Tidy, PanesOf, Moved
  <2>5. ClampAndFocus(l, next).cols = next.cols /\ ClampAndFocus(l, next).pool = next.pool
    BY <2>3, FocusKeepsPool
  <2> QED BY <2>4, <2>5, TidySame
<1>2. PoolHide(l, i) =
        IF \/ i \notin l.pool
           \/ Kind[i] = "detail" /\ Cardinality(Details(l.cols)) <= 1
           \/ at = {}
        THEN l ELSE ClampAndFocus(l, next)
  BY DEF PoolHide
<1> HIDE DEF at, next
<1>3. QED
  BY <1>1, <1>2

LEMMA PoolShowTidy ==
  ASSUME NEW v, NEW l \in Slices(v), NEW i \in ConfigIds, NEW c \in Nat \ {0}, NEW k \in Nat,
         NEW skipUndo, Tidy(l)
  PROVE  Tidy(PoolShow(l, i, c, k, skipUndo))
<1> DEFINE end == Len(l.cols[c]) + 1
           at  == IF k = AtEnd \/ k > end THEN end ELSE k
           new == Insert(l.cols, c, at, Pane(i))
           next == Commit(l, new, skipUndo)
<1>1. TabsOf(Pane(i)) \intersect Minted = {} /\ \A j \in DOMAIN Pane(i).tabs : Pane(i).tabs[j] \notin Minted
  BY LayoutAssumption DEF TabsOf, Pane, Range
<1>2. ASSUME i \in l.pool, ~(c > Len(l.cols))
      PROVE  Tidy(FocusByName(next, Kind[i]))
  <2>1. l.cols \in Grid /\ c \in 1 .. Len(l.cols) /\ Pane(i) \in GoodPane
    BY <1>2, SliceGrid, PaneIsGood DEF Grid
  <2>2. at \in 1 .. Len(l.cols[c]) + 1
    BY <2>1, Places DEF AtEnd
  <2> HIDE DEF at
  <2>3. new \in ViewerGrid
    BY <2>1, <2>2, SliceGrid, InsertGrid, KeepsPanes
  <2>4. (\E f : Moved(new, At(new) \ {<<c, at>>}, l.cols, f)) /\ PaneAt(new, <<c, at>>) = Pane(i)
    BY <2>1, <2>2, InsertPlaces
  <2>5. PICK f : Moved(new, At(new) \ {<<c, at>>}, l.cols, f)
    BY <2>4
  <2> HIDE DEF new
  <2>6. next \in Loose(v)
    BY <2>3, SliceGrid, CommitSlice, Zenon
  <2>7. next.cols = new /\ next.pool = l.pool
    BY SliceGrid, CommitKeepsPool
  <2> HIDE DEF next
  <2>8. Tidy(next)
    BY <1>1, <2>4, <2>5, <2>7 DEF Tidy, PanesOf, Moved
  <2>9. FocusByName(next, Kind[i]).cols = next.cols /\ FocusByName(next, Kind[i]).pool = next.pool
    BY <2>6, FocusKeepsPool
  <2> QED BY <2>8, <2>9, TidySame
<1>3. PoolShow(l, i, c, k, skipUndo) =
        IF \/ i \notin l.pool \/ i \in Placed(l.cols) \/ c > Len(l.cols)
           \/ Kind[i] = "actions" /\ (HasActions(l.cols) \/ c # Len(l.cols))
        THEN l ELSE FocusByName(next, Kind[i])
  BY DEF PoolShow
<1> HIDE DEF next
<1>4. QED
  BY <1>2, <1>3

\* The grid of the configuration holds no terminal.
LEMMA InitTidy ==
  ASSUME NEW l, l.cols = InitCols
  PROVE  Tidy(l)
<1>1. \A p \in PanesOf(InitCols) : \A i \in DOMAIN p.tabs : p.tabs[i] \notin Minted
  BY TerminalsAssumption DEF TabsOf, Range
<1>2. QED
  BY <1>1, TerminalsAssumption DEF Tidy, PanesOf

LEMMA RestoreTidy ==
  ASSUME NEW v, NEW l \in Slices(v)
  PROVE  Tidy(RestoreLayout(l))
<1> DEFINE P == ConfigIds \union Seeds
           e == <<>>
           r == [l EXCEPT !.cols = InitCols, !.pool = P, !.dirty = FALSE, !.undo = e, !.redo = e]
<1>1. /\ e \in Seq(ViewerGrid) /\ Len(e) + Len(e) <= MaxUndo
      /\ P \in {Q \in SUBSET Ids : ConfigIds \subseteq Q}
  BY InitialPool, LayoutAssumption
<1>2. RestoreLayout(l) = Clamp(r)
  BY DEF RestoreLayout
<1> HIDE DEF P, e
<1>3. r \in Loose(v) /\ r.cols = InitCols
  BY <1>1, InitColsGood DEF Slices, Loose
<1> HIDE DEF r
<1>4. Clamp(r).cols = InitCols
  BY <1>3, FocusKeepsPool
<1>5. QED
  BY <1>2, <1>4, InitTidy

\* What is shown in the pane that is focused, or in the normal view, is on the screen.
LEMMA ShownIsOnScreen ==
  ASSUME NEW l, NEW n, NEW t \in Minted \intersect l.pool, Shows(l, n, t), l.view = "full" => l.focus = n
  PROVE  t \in ShownTerminals(l)
BY DEF Shows, ShownTerminals, VisiblePanes

LEMMA BecomeMans ==
  ASSUME NEW s, Manned(s), Become(s)
  PROVE  MannedInv'
BY DEF Manned, MannedBut, Become, MannedInv, Now, Arm, Terminals, PlacedTabs, Tidy

\* A dispatch of a Msg that places no other terminal.
LEMMA DispatchKeepsManned ==
  ASSUME NEW s, NEW v \in Views, NEW l \in Slices(v),
         Manned(s), Terminals(l) \subseteq Terminals(s.lay), Tidy(l)
  PROVE  /\ Manned(Dispatch(s, l)) /\ Dispatch(s, l).lay \in Slices(v)
         /\ Dispatch(s, l).lay.cols = l.cols /\ Dispatch(s, l).lay.pool = l.pool
<1> DEFINE d == Dispatch(s, l)
<1>1. Terminals(l) \subseteq Terminals(s.lay) \union {}
  OBVIOUS
<1>2. /\ d.lay.cols = l.cols /\ d.lay.pool = l.pool /\ d.lay \in Slices(v) /\ MannedBut(d, {})
  BY <1>1, DispatchMans DEF Manned
<1> HIDE DEF d
<1>3. Tidy(d.lay)
  BY <1>2, TidySame
<1>4. QED
  BY <1>2, <1>3 DEF Manned, d

\* The tab that an opening mints is the last to get its session: at the latest
\* when its pane is focused.
Opening(s, v, n, t) ==
  /\ s.lay \in Slices(v) /\ n \in PaneNames(s.lay.cols)
  /\ MannedBut(s, {t}) /\ Tidy(s.lay)
  /\ Manned(s) \/ (Shows(s.lay, n, t) /\ t \in s.lay.pool)

LEMMA MintMans ==
  ASSUME NEW s, NEW v \in Views, s.lay \in Slices(v), Manned(s),
         NEW n \in PaneNames(s.lay.cols), NEW t \in Minted
  PROVE  LET d == Dispatch(s, MintTab(s.lay, n, t))
         IN  Opening(d, v, n, t) /\ (s.lay.focus = n => Manned(d))
<1> DEFINE l == MintTab(s.lay, n, t)
           d == Dispatch(s, l)
<1>1. t \in Ids /\ MannedBut(s, {t}) /\ Tidy(s.lay)
  BY DEF Ids, Transient, Manned, MannedBut
<1>2. l \in Slices(v) /\ PaneNames(l.cols) = PaneNames(s.lay.cols)
  BY <1>1, MintTabSlice
<1>3. /\ Terminals(l) \subseteq Terminals(s.lay) \union {t}
      /\ t \in s.lay.pool => l = s.lay
      /\ t \notin s.lay.pool => Shows(l, n, t) /\ t \in l.pool
  BY <1>1, MintTabTabs
<1>4. Tidy(l) /\ (t \notin s.lay.pool /\ s.lay.focus = n => Shows(l, l.focus, t))
  BY <1>1, MintTabTidy
<1> HIDE DEF l
<1>5. /\ d.lay.cols = l.cols /\ d.lay.pool = l.pool /\ d.lay \in Slices(v) /\ MannedBut(d, {t})
      /\ \A x \in Minted : x \in ShownTerminals(l) => d.session[x] # "none"
  BY <1>1, <1>2, <1>3, DispatchMans
<1>6. t \in s.lay.pool => Manned(d)
  <2> SUFFICES ASSUME t \in s.lay.pool PROVE Manned(d)
    OBVIOUS
  <2>1. Terminals(l) \subseteq Terminals(s.lay)
    BY <1>3
  <2> QED BY <1>2, <1>4, <2>1, DispatchKeepsManned
<1> HIDE DEF d
<1>7. Tidy(d.lay)
  BY <1>4, <1>5, TidySame
<1>8. s.lay.focus = n /\ t \notin s.lay.pool => Manned(d)
  <2> SUFFICES ASSUME s.lay.focus = n, t \notin s.lay.pool PROVE Manned(d)
    OBVIOUS
  <2>1. t \in ShownTerminals(l)
    BY <1>3, <1>4, ShownIsOnScreen
  <2> QED BY <1>5, <1>7, <2>1 DEF Manned, MannedBut
<1>9. t \notin s.lay.pool => Shows(d.lay, n, t) /\ t \in d.lay.pool
  BY <1>3, <1>5 DEF Shows
<1>10. QED
  BY <1>2, <1>5, <1>6, <1>7, <1>8, <1>9 DEF d, l, Opening

\* The tab is brought forward, if it was not.
LEMMA ShowMans ==
  ASSUME NEW s, NEW v \in Views, NEW n, NEW t \in Minted, Opening(s, v, n, t)
  PROVE  Opening(Dispatch(s, SetActiveTab(s.lay, n, t)), v, n, t)
<1> DEFINE l == SetActiveTab(s.lay, n, t)
           d == Dispatch(s, l)
           a == Where(s.lay.cols, n)
           p == PaneAt(s.lay.cols, a)
           q == [p EXCEPT !.active = t]
           next == CommitTransient(s.lay, SetPane(s.lay.cols, a, q))
<1>1. /\ s.lay \in Slices(v) /\ n \in PaneNames(s.lay.cols)
      /\ MannedBut(s, {t}) /\ Tidy(s.lay)
  BY DEF Opening
<1>2. /\ l \in Slices(v) /\ n \in PaneNames(l.cols)
      /\ l.pool = s.lay.pool /\ Terminals(l) \subseteq Terminals(s.lay) /\ Tidy(l)
  BY <1>1, SetActiveTabSlice, SetActiveTabTabs, SetActiveTabTidy
<1>3. Shows(s.lay, n, t) => Shows(l, n, t)
  <2>1. a \in At(s.lay.cols) /\ p \in GoodPane /\ p.pane = n /\ s.lay.cols \in Grid /\ s.lay \in Loose(v)
    BY <1>1, WhereIn, SliceGrid, Places
  <2>2. ASSUME t \in TabsOf(p) PROVE Shows(next, n, t) /\ next \in Loose(v)
    <3>1. t \in Ids
      BY DEF Ids, Transient
    <3>2. q \in GoodPane /\ q.pane = n /\ q.content = p.content /\ q.active = t
      BY <2>1, <2>2, <3>1 DEF GoodPane, PaneType, TabsOf
    <3> HIDE DEF q, a
    <3>3. next.cols = SetPane(s.lay.cols, a, q) /\ next \in Slices(v)
      BY <1>1, <2>1, <3>2, RetabSlice, CommitKeepsPool DEF p
    <3>4. q \in PanesOf(next.cols)
      BY <2>1, <3>2, <3>3, SetPanePanes
    <3> QED BY <3>2, <3>3, <3>4, SliceGrid DEF Shows
  <2>3. l = IF t \notin TabsOf(p) \/ p.active = t \/ t \notin s.lay.pool THEN s.lay
            ELSE IF s.lay.focus = n THEN FocusByName(next, t) ELSE next
    BY DEF SetActiveTab
  <2> HIDE DEF next, p, l
  <2>4. ASSUME t \in TabsOf(p) PROVE FocusByName(next, t).cols = next.cols
    BY <2>2, <2>4, FocusKeepsPool
  <2> QED BY <2>2, <2>3, <2>4 DEF Shows
<1> HIDE DEF l
<1>4. Terminals(l) \subseteq Terminals(s.lay) \union {t}
  BY <1>2
<1>5. /\ d.lay.cols = l.cols /\ d.lay.pool = l.pool /\ d.lay \in Slices(v) /\ MannedBut(d, {t})
  BY <1>1, <1>2, <1>4, DispatchMans
<1>6. Manned(s) => Manned(d)
  BY <1>2, DispatchKeepsManned
<1> HIDE DEF d
<1>7. Tidy(d.lay)
  BY <1>2, <1>5, TidySame
<1>8. Shows(s.lay, n, t) /\ t \in s.lay.pool => Shows(d.lay, n, t) /\ t \in d.lay.pool
  BY <1>2, <1>3, <1>5 DEF Shows
<1>9. QED
  BY <1>2, <1>5, <1>6, <1>7, <1>8 DEF Opening, d, l

\* In the focused pane it is on the screen, whatever the view, and is started.
LEMMA FocusMans ==
  ASSUME NEW s, NEW v \in Views, NEW n, NEW t \in Minted, Opening(s, v, n, t)
  PROVE  LET d == Dispatch(s, WithFocus(s.lay, n)) IN Manned(d) /\ d.lay \in Slices(v)
<1> DEFINE l == WithFocus(s.lay, n)
           d == Dispatch(s, l)
<1>1. /\ s.lay \in Slices(v) /\ n \in PaneNames(s.lay.cols)
      /\ MannedBut(s, {t}) /\ Tidy(s.lay)
  BY DEF Opening
<1>2. l \in Slices(v) /\ l.cols = s.lay.cols /\ l.pool = s.lay.pool /\ l.focus = n
  BY <1>1, WithFocusSlice, SliceGrid, FocusKeepsPool DEF WithFocus, Slices, Loose
<1> HIDE DEF l
<1>3. Terminals(l) = Terminals(s.lay) /\ Tidy(l)
  BY <1>1, <1>2, TabsOfSame, TidySame
<1>4. Terminals(l) \subseteq Terminals(s.lay) \union {t}
  BY <1>3
<1>5. /\ d.lay.cols = l.cols /\ d.lay.pool = l.pool /\ d.lay \in Slices(v) /\ MannedBut(d, {t})
      /\ \A x \in Minted : x \in ShownTerminals(l) => d.session[x] # "none"
  BY <1>1, <1>2, <1>4, DispatchMans
<1>6. Manned(s) => Manned(d)
  BY <1>2, <1>3, DispatchKeepsManned
<1> HIDE DEF d
<1>7. Tidy(d.lay)
  BY <1>3, <1>5, TidySame
<1>8. ASSUME Shows(s.lay, n, t), t \in s.lay.pool PROVE Manned(d)
  <2>1. t \in ShownTerminals(l)
    <3>1. Shows(l, n, t) /\ t \in l.pool
      BY <1>2, <1>8 DEF Shows
    <3> QED BY <1>2, <3>1, ShownIsOnScreen
  <2> QED BY <1>5, <1>7, <2>1 DEF Manned, MannedBut
<1>9. QED
  BY <1>5, <1>6, <1>8 DEF Opening, d, l

LEMMA OpeningMans ==
  ASSUME HousedInv, MannedInv, Spawn \/ OpenStable \/ TerminalCommand \/ CloseDead
  PROVE  MannedInv'
<1> DEFINE v == lay.view
<1>1. v \in Views /\ lay \in Slices(v) /\ lay.focus \in PaneNames(lay.cols) /\ Manned(Now) /\ Now.lay = lay
  BY DEF HousedInv, Housed, MannedInv, Now, Slices
<1>2. \A n \in ViewersOf(lay) : n \in PaneNames(lay.cols)
  BY <1>1 DEF ViewersOf, Details, PaneNames, PanesOf
<1>3. Stable \subseteq Minted
  BY TerminalsAssumption
<1> HIDE DEF v
<1>4. ASSUME NEW n \in PaneNames(lay.cols), NEW t \in Minted
      PROVE  LET d == Dispatch(Now, MintTab(lay, n, t))
             IN  Opening(d, v, n, t) /\ (lay.focus = n => Manned(d))
  BY <1>1, MintMans
<1>5. CASE Spawn
  <2>1. PICK n \in ViewersOf(lay), t \in Minted \ (Stable \union lay.pool) :
          LET minted  == Dispatch(Now, MintTab(lay, n, t))
              focused == Dispatch(minted, WithFocus(minted.lay, n))
          IN Become(Dispatch(focused, FullView(focused.lay)))
    BY <1>5 DEF Spawn
  <2> DEFINE minted  == Dispatch(Now, MintTab(lay, n, t))
             focused == Dispatch(minted, WithFocus(minted.lay, n))
             full    == FullView(focused.lay)
             shown   == Dispatch(focused, full)
  <2>2. Opening(minted, v, n, t) /\ t \in Minted
    BY <1>2, <1>4
  <2> HIDE DEF minted
  <2>3. Manned(focused) /\ focused.lay \in Slices(v)
    BY <1>1, <2>2, FocusMans
  <2> HIDE DEF focused
  <2>4. full \in Slices("full") /\ full.cols = focused.lay.cols /\ full.pool = focused.lay.pool
    BY <2>3, ViewChange DEF FullView, Slices, Loose
  <2> HIDE DEF full
  <2>5. Terminals(full) \subseteq Terminals(focused.lay) /\ Tidy(full)
    BY <2>3, <2>4, TabsOfSame, TidySame DEF Manned
  <2>6. "full" \in Views
    BY DEF Views
  <2>7. Manned(shown)
    BY <2>3, <2>4, <2>5, <2>6, DispatchKeepsManned
  <2>8. Become(shown)
    BY <2>1 DEF minted, focused, full
  <2> HIDE DEF shown
  <2> QED BY <2>7, <2>8, BecomeMans
<1>6. CASE OpenStable
  <2>1. PICK n \in ViewersOf(lay), t \in Stable :
          LET minted == Dispatch(Now, MintTab(lay, n, t))
              shown  == Dispatch(minted, SetActiveTab(minted.lay, n, t))
          IN Become(Dispatch(shown, WithFocus(shown.lay, n)))
    BY <1>6 DEF OpenStable
  <2> DEFINE minted  == Dispatch(Now, MintTab(lay, n, t))
             shown   == Dispatch(minted, SetActiveTab(minted.lay, n, t))
             focused == Dispatch(shown, WithFocus(shown.lay, n))
  <2>2. Opening(minted, v, n, t) /\ t \in Minted
    BY <1>2, <1>3, <1>4
  <2> HIDE DEF minted
  <2>3. Opening(shown, v, n, t)
    BY <1>1, <2>2, ShowMans
  <2> HIDE DEF shown
  <2>4. Manned(focused)
    BY <1>1, <2>2, <2>3, FocusMans
  <2>5. Become(focused)
    BY <2>1 DEF minted, shown
  <2> HIDE DEF focused
  <2> QED BY <2>4, <2>5, BecomeMans
<1>7. CASE TerminalCommand
  <2>1. PICK t \in Minted : Become(Dispatch(Now, MintTab(lay, lay.focus, t)))
    BY <1>7 DEF TerminalCommand
  <2> DEFINE minted == Dispatch(Now, MintTab(lay, lay.focus, t))
  <2>2. Manned(minted) /\ Become(minted)
    BY <1>1, <1>4, <2>1
  <2> HIDE DEF minted
  <2> QED BY <2>2, BecomeMans
<1>8. CASE CloseDead
  <2>1. PICK t \in Minted : Become(Dispatch(Now, RemoveTab(lay, lay.focus, t)))
    BY <1>8 DEF CloseDead
  <2> DEFINE l == RemoveTab(lay, lay.focus, t)
             closed == Dispatch(Now, l)
  <2>2. l \in Slices(v) /\ Terminals(l) \subseteq Terminals(lay) /\ Tidy(l)
    BY <1>1, RemoveTabSlice, RemoveTabTabs, RemoveTabTidy DEF Manned
  <2>3. Become(closed)
    BY <2>1
  <2> HIDE DEF l
  <2>4. Manned(closed)
    BY <1>1, <2>2, DispatchKeepsManned
  <2> HIDE DEF closed
  <2> QED BY <2>3, <2>4, BecomeMans
<1>9. QED
  BY <1>5, <1>6, <1>7, <1>8

LEMMA RearrangeMans ==
  ASSUME HousedInv, MannedInv, Rearrange
  PROVE  MannedInv'
<1> DEFINE v == lay.view
<1>1. v \in Views /\ lay \in Slices(v) /\ Manned(Now) /\ Now.lay = lay /\ Tidy(lay)
  BY DEF HousedInv, Housed, MannedInv, Manned, Now
<1> HIDE DEF v
<1> DEFINE Fits(w, l) == l \in Slices(w) /\ Terminals(l) \subseteq Terminals(lay) /\ Tidy(l)
<1>2. ASSUME NEW w \in Views, NEW l, Fits(w, l), Become(Dispatch(Now, l))
      PROVE  MannedInv'
  <2>1. Manned(Dispatch(Now, l))
    BY <1>1, <1>2, DispatchKeepsManned
  <2> QED BY <1>2, <2>1, BecomeMans
<1>3. ASSUME NEW n \in PaneNames(lay.cols) PROVE Fits(v, WithFocus(lay, n))
  <2> DEFINE l == WithFocus(lay, n)
  <2>1. l \in Slices(v) /\ l.cols = lay.cols /\ l.pool = lay.pool
    BY <1>1, WithFocusSlice, SliceGrid, FocusKeepsPool
  <2> HIDE DEF l
  <2>2. Terminals(l) = Terminals(lay) /\ Tidy(l)
    BY <1>1, <2>1, TabsOfSame, TidySame
  <2> QED BY <2>1, <2>2 DEF l
<1>4. ASSUME NEW p \in PanesOf(lay.cols), NEW t
      PROVE  Fits(v, SetActiveTab(WithFocus(lay, p.pane), p.pane, t))
  <2> DEFINE l == WithFocus(lay, p.pane)
             r == SetActiveTab(l, p.pane, t)
  <2>1. p.pane \in PaneNames(lay.cols)
    BY DEF PaneNames
  <2>2. Fits(v, l) /\ l.cols = lay.cols
    BY <1>1, <1>3, <2>1, SliceGrid, FocusKeepsPool
  <2> HIDE DEF l
  <2>3. r \in Slices(v) /\ Terminals(r) \subseteq Terminals(l) /\ Tidy(r)
    BY <2>1, <2>2, SetActiveTabSlice, SetActiveTabTabs, SetActiveTabTidy
  <2> HIDE DEF r
  <2> QED BY <2>2, <2>3 DEF r, l
<1>5. ASSUME NEW w PROVE Fits(w, [lay EXCEPT !.view = w])
  <2> DEFINE l == [lay EXCEPT !.view = w]
  <2>1. l \in Slices(w) /\ l.cols = lay.cols /\ l.pool = lay.pool
    BY <1>1, ViewChange DEF Slices, Loose
  <2> HIDE DEF l
  <2>2. Terminals(l) = Terminals(lay) /\ Tidy(l)
    BY <1>1, <2>1, TabsOfSame, TidySame
  <2> QED BY <2>1, <2>2 DEF l
<1>6. ASSUME NEW i PROVE Fits(v, PoolHide(lay, i))
  BY <1>1, PoolHideSlice, PoolHideTabs, PoolHideTidy
<1>7. ASSUME NEW i \in ConfigIds PROVE Fits(v, PoolShow(lay, i, Len(lay.cols), AtEnd, FALSE))
  <2>1. Len(lay.cols) \in Nat \ {0} /\ AtEnd \in Nat
    <3>1. Details(lay.cols) # {} /\ lay.cols \in Seq(Seq(GoodPane))
      BY <1>1, SliceGrid DEF ViewerGrid, Grid
    <3>2. PICK a \in At(lay.cols) : TRUE
      BY <3>1 DEF Details
    <3> QED BY <3>1, <3>2 DEF At, AtEnd
  <2>2. \A skipUndo : Fits(v, PoolShow(lay, i, Len(lay.cols), AtEnd, skipUndo))
    BY <1>1, <2>1, PoolShowSlice, PoolShowTabs, PoolShowTidy
  <2> HIDE DEF Fits
  <2> QED BY <2>2, Zenon
<1>8. Fits(v, RestoreLayout(lay))
  BY <1>1, RestoreSlice, RestoreTabs, RestoreTidy
<1> HIDE DEF Fits
<1>9. \/ \E n \in PaneNames(lay.cols) : Become(Dispatch(Now, WithFocus(lay, n)))
      \/ \E p \in PanesOf(lay.cols) : \E t \in TabsOf(p) :
           Become(Dispatch(Now, SetActiveTab(WithFocus(lay, p.pane), p.pane, t)))
      \/ \E w \in {"normal", "full"} : Become(Dispatch(Now, [lay EXCEPT !.view = w]))
      \/ \E p \in PanesOf(lay.cols) : Become(Dispatch(Now, PoolHide(lay, IdOf(p))))
      \/ \E i \in ConfigIds :
           Become(Dispatch(Now, PoolShow(lay, i, Len(lay.cols), AtEnd, FALSE)))
      \/ Become(Dispatch(Now, RestoreLayout(lay)))
  BY DEF Rearrange
<1>10. CASE \E n \in PaneNames(lay.cols) : Become(Dispatch(Now, WithFocus(lay, n)))
  BY <1>1, <1>2, <1>3, <1>10
<1>11. CASE \E p \in PanesOf(lay.cols) : \E t \in TabsOf(p) :
              Become(Dispatch(Now, SetActiveTab(WithFocus(lay, p.pane), p.pane, t)))
  BY <1>1, <1>2, <1>4, <1>11
<1>12. CASE \E w \in {"normal", "full"} : Become(Dispatch(Now, [lay EXCEPT !.view = w]))
  BY <1>2, <1>5, <1>12 DEF Views
<1>13. CASE \E p \in PanesOf(lay.cols) : Become(Dispatch(Now, PoolHide(lay, IdOf(p))))
  BY <1>1, <1>2, <1>6, <1>13
<1>14. CASE \E i \in ConfigIds :
              Become(Dispatch(Now, PoolShow(lay, i, Len(lay.cols), AtEnd, FALSE)))
  BY <1>1, <1>2, <1>7, <1>14, Zenon
<1>15. CASE Become(Dispatch(Now, RestoreLayout(lay)))
  BY <1>1, <1>2, <1>8, <1>15
<1>16. QED
  BY <1>9, <1>10, <1>11, <1>12, <1>13, <1>14, <1>15, Zenon

\* The exit of a process: the view it drops and the tab it closes place nothing.
LEMMA FanOutMans ==
  ASSUME NEW s, NEW t \in Minted, NEW code, Housed(s), Manned(s)
  PROVE  Manned(ExitFanOut(s, t, code))
<1> DEFINE host    == CHOOSE p \in HostsOf(s.lay, t) : TRUE
           focused == s.lay.focus = host.pane
           dropped == DropFull(s.lay)
           left    == IF focused /\ host.active = t /\ typing
                      THEN Reduced(s, dropped) ELSE s
           again   == DropFull(left.lay)
           shrunk  == IF focused /\ left.lay.view = "full"
                      THEN Dispatch(left, again) ELSE left
           rest    == RemoveTab(shrunk.lay, host.pane, t)
           closed  == Dispatch(shrunk, rest)
<1>0. \A x : x.lay.view \in Views /\ x.lay \in Slices(x.lay.view) =>
        LET l == DropFull(x.lay)
        IN  l.view \in Views /\ l \in Slices(l.view) /\ l.cols = x.lay.cols /\ l.pool = x.lay.pool
  <2> SUFFICES ASSUME NEW x, x.lay.view \in Views, x.lay \in Slices(x.lay.view)
               PROVE LET l == DropFull(x.lay)
                     IN  l.view \in Views /\ l \in Slices(l.view) /\ l.cols = x.lay.cols /\ l.pool = x.lay.pool
    OBVIOUS
  <2>1. DropFull(x.lay).pool = x.lay.pool
    BY DEF DropFull, Slices, Loose
  <2> QED BY <2>1, DropFullSlice
<1>1. /\ Manned(left) /\ left.lay.view \in Views /\ left.lay \in Slices(left.lay.view)
      /\ left.lay.cols = s.lay.cols
  <2>1. /\ dropped.view \in Views /\ dropped \in Slices(dropped.view)
        /\ dropped.cols = s.lay.cols /\ dropped.pool = s.lay.pool
    BY <1>0 DEF Housed
  <2> HIDE DEF dropped
  <2>2. Terminals(dropped) = Terminals(s.lay) /\ Tidy(dropped)
    BY <2>1, TabsOfSame, TidySame DEF Manned
  <2>3. Manned(Reduced(s, dropped)) /\ Reduced(s, dropped).lay = dropped
    BY <2>2 DEF Manned, MannedBut, Reduced
  <2> QED BY <2>1, <2>3 DEF Housed
<1> HIDE DEF left
<1>2. /\ Manned(shrunk) /\ shrunk.lay.view \in Views /\ shrunk.lay \in Slices(shrunk.lay.view)
      /\ shrunk.lay.cols = s.lay.cols
  <2>1. /\ again.view \in Views /\ again \in Slices(again.view)
        /\ again.cols = left.lay.cols /\ again.pool = left.lay.pool
    BY <1>0, <1>1
  <2> HIDE DEF again
  <2>2. Terminals(again) \subseteq Terminals(left.lay) /\ Tidy(again)
    BY <1>1, <2>1, TabsOfSame, TidySame DEF Manned
  <2> DEFINE d == Dispatch(left, again)
  <2>3. Manned(d) /\ d.lay \in Slices(again.view) /\ d.lay.cols = again.cols
    BY <1>1, <2>1, <2>2, DispatchKeepsManned
  <2> HIDE DEF d
  <2>4. d.lay.view = again.view
    BY <2>3 DEF Slices, Loose
  <2> QED BY <1>1, <2>1, <2>3, <2>4 DEF d
<1>3. ASSUME HostsOf(s.lay, t) # {} PROVE Manned(closed)
  <2>1. host \in PanesOf(s.lay.cols)
    BY <1>3 DEF HostsOf
  <2> HIDE DEF shrunk, host
  <2>2. host.pane \in PaneNames(shrunk.lay.cols)
    BY <1>2, <2>1 DEF PaneNames
  <2>3. rest \in Slices(shrunk.lay.view) /\ Terminals(rest) \subseteq Terminals(shrunk.lay) /\ Tidy(rest)
    BY <1>2, <2>2, RemoveTabSlice, RemoveTabTabs, RemoveTabTidy DEF Manned
  <2> HIDE DEF rest
  <2> QED BY <1>2, <2>3, DispatchKeepsManned
<1>4. ExitFanOut(s, t, code) =
        IF HostsOf(s.lay, t) = {} THEN s ELSE IF ClosesTab(code) THEN closed ELSE shrunk
  BY DEF ExitFanOut, left
<1> HIDE DEF closed, shrunk
<1>5. QED
  BY <1>2, <1>3, <1>4

LEMMA MannedStep ==
  ASSUME TermInv, HousedInv, MannedInv, [TermNext]_termVars
  PROVE  MannedInv'
<1>1. CASE Activate
  <2>1. /\ lay' = lay
        /\ \A t \in Minted : session[t] # "none" => session'[t] # "none"
    BY <1>1 DEF Activate, vars, TermInv, Agree, Now
  <2> QED BY <2>1 DEF MannedInv, Manned, MannedBut, Now, Terminals, PlacedTabs, Tidy
<1>2. CASE LeaveMode
  <2>1. lay' = DropFull(lay) /\ session' = session
    BY <1>2 DEF LeaveMode, Arm
  <2>2. lay'.cols = lay.cols /\ lay'.pool = lay.pool
    BY <2>1 DEF HousedInv, Housed, Now, DropFull, Slices, Loose
  <2> QED BY <2>1, <2>2 DEF MannedInv, Manned, MannedBut, Now, Terminals, PlacedTabs, Tidy
<1>3. CASE Exit
  <2>1. PICK t \in Minted, code \in Codes :
          /\ session[t] = "alive"
          /\ Become(ExitFanOut([lay |-> lay,
                      session |-> [session EXCEPT ![t] = IF code = 0 THEN "clean" ELSE "failed"],
                      job |-> [job EXCEPT ![t] = "exited"], dying |-> dying], t, code))
    BY <1>3 DEF Exit
  <2> DEFINE ended == [lay |-> lay,
                session |-> [session EXCEPT ![t] = IF code = 0 THEN "clean" ELSE "failed"],
                job |-> [job EXCEPT ![t] = "exited"], dying |-> dying]
  <2>2. Housed(ended)
    BY <2>1 DEF HousedInv, Housed, Now, TermInv, Agree
  <2>3. Manned(ended)
    BY <2>1 DEF MannedInv, Manned, MannedBut, Now, TermInv, Agree
  <2> HIDE DEF ended
  <2> QED BY <2>1, <2>2, <2>3, FanOutMans, BecomeMans DEF ended
<1>4. CASE StaleExit
  <2>1. PICK t \in Minted, code \in Codes :
          Become(ExitFanOut([lay |-> lay, session |-> session, job |-> job,
                             dying |-> [dying EXCEPT ![t] = @ - 1]], t, code))
    BY <1>4 DEF StaleExit
  <2> DEFINE heard == [lay |-> lay, session |-> session, job |-> job,
                       dying |-> [dying EXCEPT ![t] = @ - 1]]
  <2>2. Housed(heard) /\ Manned(heard)
    BY DEF HousedInv, Housed, MannedInv, Manned, MannedBut, Now
  <2> HIDE DEF heard
  <2> QED BY <2>1, <2>2, FanOutMans, BecomeMans DEF heard
<1>5. CASE UNCHANGED termVars
  BY <1>5 DEF termVars, vars, MannedInv, Manned, MannedBut, Now, Terminals, PlacedTabs, Tidy
<1>6. QED
  BY <1>1, <1>2, <1>3, <1>4, <1>5, OpeningMans, RearrangeMans DEF TermNext

\* A terminal on the screen has a process behind it, dead or alive: whatever
\* brought its tab forward, and also when the view changed without a finalizer.
THEOREM ScreenAlwaysManned == TermSpec => []VisibleHasSession
<1>1. TermInit => TermInv /\ HousedInv /\ MannedInv
  <2> SUFFICES ASSUME TermInit PROVE TermInv /\ HousedInv /\ MannedInv
    OBVIOUS
  <2>1. LayoutInv /\ lay.view \in Views
    BY InitLayoutInv DEF TermInit, LayoutInv, Views
  <2>2. lay.cols = InitCols /\ lay.pool = ConfigIds \union Seeds
    BY DEF TermInit, Init, InitLayout
  <2>3. Terminals(lay) = {}
    BY <2>2, LayoutAssumption DEF Terminals
  <2>4. MannedInv
    BY <2>2, <2>3, InitTidy DEF MannedInv, Manned, MannedBut, Now
  <2> QED BY <2>1, <2>4 DEF TermInit, TermInv, Agree, HousedInv, Housed, Now, LayoutInv
<1>2. TermInv /\ HousedInv /\ MannedInv /\ [TermNext]_termVars => (TermInv /\ HousedInv /\ MannedInv)'
  BY TermStep, HousedStep, MannedStep
<1>3. HousedInv /\ MannedInv => VisibleHasSession
  <2> SUFFICES ASSUME HousedInv, MannedInv PROVE VisibleHasSession
    OBVIOUS
  <2>1. lay \in Slices(lay.view)
    BY DEF HousedInv, Housed, Now
  <2>2. ShownTerminals(lay) \subseteq Terminals(lay)
    BY <2>1, ShownArePlaced DEF ShownTerminals, Terminals
  <2> QED BY <2>2 DEF MannedInv, Manned, MannedBut, Now, VisibleHasSession
<1>4. QED
  BY <1>1, <1>2, <1>3, PTL DEF TermSpec

=============================================================================
