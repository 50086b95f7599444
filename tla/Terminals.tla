----------------------------- MODULE Terminals -----------------------------
(***************************************************************************)
(* Embedded terminals: the PTY sessions of io/terminal.js, their jobs, and *)
(* terminal mode, over the layout slice whose reducer arms they use.       *)
(*                                                                         *)
(* A session is keyed by its tab.  The layout decides what exists: when a  *)
(* dispatch ends, finalizeDispatch disposes the session of a tab that is   *)
(* no longer placed, and starts one for a terminal that became visible.    *)
(* A disposed process is killed, and its exit is heard later, under the id *)
(* of the tab it had.  Free-config and the half view are left out.         *)
(***************************************************************************)
EXTENDS Layout

CONSTANTS
  Stable,     \* the terminals opened under an id of their own, reused
  MaxDying    \* bound: killed processes of a tab whose exit is not heard yet

VARIABLES
  session,    \* sessions: none, alive, or the way the process ended
  job,        \* status of the newest job of a terminal
  dying,      \* killed processes whose exit is to come, by tab
  typing      \* model.modes.terminalMode

termVars == <<vars, session, job, dying, typing>>

\* A terminal is minted under an id of its own, which no configured pane has for
\* a tab and no panel type for a name (nextTransientPoolId, term-...).
ASSUME TerminalsAssumption ==
  /\ Stable \subseteq Minted /\ MaxDying \in Nat
  /\ \A t \in Minted : Kind[t] = "terminal"
  /\ \A i \in Ids : Kind[i] \notin Minted
  /\ \A p \in PanesOf(InitCols) : TabsOf(p) \intersect Minted = {}

-----------------------------------------------------------------------------
(* What the layout places. *)

PlacedTabs(l) == UNION {TabsOf(p) : p \in PanesOf(l.cols)}
HostsOf(l, t) == {p \in PanesOf(l.cols) : t \in TabsOf(p)}
FocusedPane(l) == PaneAt(l.cols, Where(l.cols, l.focus))

\* visibleBoundsFor: the focused pane alone in the full view.
VisiblePanes(l) ==
  {p \in PanesOf(l.cols) : l.view = "full" => p.pane = l.focus}

\* The terminals the finalizer looks after: the active tab of a visible pane,
\* when the pool still has its entry.
ShownTerminals(l) ==
  {t \in Minted \intersect l.pool : \E p \in VisiblePanes(l) : p.active = t}

-----------------------------------------------------------------------------
(* The registry.  s is the layout with the sessions, their jobs and the     *)
(* exits to come; an operator maps it to the next one.                      *)

Now == [lay |-> lay, session |-> session, job |-> job, dying |-> dying]

\* The sessions whose tab is no longer placed.
Orphans_Unpooled(s) == {t \in Minted : s.session[t] # "none" /\ t \notin s.lay.pool}
Orphans_OffScreen(s) == {t \in Minted : s.session[t] # "none" /\ t \notin ShownTerminals(s.lay)}
Orphans(s) == {t \in Minted : s.session[t] # "none" /\ t \notin PlacedTabs(s.lay)}

JobsKilled_Forgotten(jobs, live) == jobs
JobsKilled(jobs, live) == [t \in Minted |-> IF t \in live THEN "killed" ELSE jobs[t]]

\* destroySession of the orphans: a live process is killed and its job closed;
\* the job of one that ended keeps its status.
Dispose(s) ==
  LET gone == Orphans(s)
      live == {t \in gone : s.session[t] = "alive"}
  IN [lay |-> s.lay,
      session |-> [t \in Minted |-> IF t \in gone THEN "none" ELSE s.session[t]],
      job |-> JobsKilled(s.job, live),
      dying |-> [t \in Minted |-> IF t \in live THEN s.dying[t] + 1 ELSE s.dying[t]]]

\* ensureSession of the terminals on the screen that have none.
ToStart(s) == {t \in ShownTerminals(s.lay) : s.session[t] = "none"}
Ensure(s) ==
  [lay |-> s.lay,
   session |-> [t \in Minted |-> IF t \in ToStart(s) THEN "alive" ELSE s.session[t]],
   job |-> [t \in Minted |-> IF t \in ToStart(s) THEN "running" ELSE s.job[t]],
   dying |-> s.dying]

\* A layout Msg that left the slice l, and finalizeDispatch.  Nothing here reads
\* the undo stack or the unsaved mark.
Plain(l) == [l EXCEPT !.undo = <<>>, !.redo = <<>>, !.dirty = FALSE]
Reduced(s, l) == [lay |-> l, session |-> s.session, job |-> s.job, dying |-> s.dying]
Dispatch(s, l) == Ensure(Dispose(Reduced(s, Plain(l))))

ClosesTab(code) == code = 0

\* _handlePaneExit, of the pane that has the tab now: leave terminal mode if
\* its user was in there, drop the full view, and close the tab of a process
\* that ended cleanly.
ExitFanOut(s, t, code) ==
  LET host    == CHOOSE p \in HostsOf(s.lay, t) : TRUE
      focused == s.lay.focus = host.pane
      left    == IF focused /\ host.active = t /\ typing
                 THEN Reduced(s, DropFull(s.lay)) ELSE s
      shrunk  == IF focused /\ left.lay.view = "full"
                 THEN Dispatch(left, DropFull(left.lay)) ELSE left
  IN IF HostsOf(s.lay, t) = {} THEN s
     ELSE IF ClosesTab(code) THEN Dispatch(shrunk, RemoveTab(shrunk.lay, host.pane, t)) ELSE shrunk

LeavesMode(l, t) == \E p \in HostsOf(l, t) : p.pane = l.focus /\ p.active = t

-----------------------------------------------------------------------------
(* Gestures and events. *)

Become(s) ==
  /\ Arm(s.lay) /\ session' = s.session /\ job' = s.job /\ dying' = s.dying
  /\ \A t \in Minted : dying'[t] <= MaxDying

TermInit ==
  /\ Init /\ typing = FALSE
  /\ session = [t \in Minted |-> "none"] /\ job = [t \in Minted |-> "none"]
  /\ dying = [t \in Minted |-> 0]

\* A spawn action, or a file in the editor: a fresh tab in the viewer, focused
\* and in full view.  It runs off a queue, so also while the user types.
Spawn ==
  /\ \E n \in ViewersOf(lay), t \in Minted \ (Stable \union lay.pool) :
       LET minted  == Dispatch(Now, MintTab(lay, n, t))
           focused == Dispatch(minted, WithFocus(minted.lay, n))
       IN Become(Dispatch(focused, FullView(focused.lay)))
  /\ typing' = TRUE

\* A terminal of the configuration, or a shell in a container: the tab is
\* minted once, and brought forward when it is asked for again.
OpenStable ==
  /\ \E n \in ViewersOf(lay), t \in Stable :
       LET minted == Dispatch(Now, MintTab(lay, n, t))
           shown  == Dispatch(minted, SetActiveTab(minted.lay, n, t))
       IN Become(Dispatch(shown, WithFocus(shown.lay, n)))
  /\ typing' = TRUE

\* :terminal, in the focused pane.
TerminalCommand ==
  /\ ~typing
  /\ \E t \in Minted \ (Stable \union lay.pool) :
       Become(Dispatch(Now, MintTab(lay, lay.focus, t)))
  /\ UNCHANGED typing

\* Enter on a focused terminal: a dead session starts again first.
Activate ==
  LET t == FocusedPane(lay).active
  IN /\ ~typing /\ t \in Minted
     /\ IF session[t] \in {"clean", "failed"}
        THEN /\ session' = [session EXCEPT ![t] = "alive"]
             /\ job' = [job EXCEPT ![t] = "running"]
        ELSE UNCHANGED <<session, job>>
     /\ typing' = TRUE
     /\ UNCHANGED <<vars, dying>>

\* Ctrl+\, and a key when the focused pane has no live terminal: terminal_exit
\* drops the full view, and no finalizer runs.
LeaveMode ==
  /\ typing /\ typing' = FALSE
  /\ Arm(DropFull(lay))
  /\ UNCHANGED <<session, job, dying>>

\* x closes a dead terminal.
CloseDead ==
  LET t == FocusedPane(lay).active
  IN /\ ~typing /\ t \in Minted /\ session[t] \in {"clean", "failed"}
     /\ Become(Dispatch(Now, RemoveTab(lay, lay.focus, t)))
     /\ UNCHANGED typing

\* The layout gestures: focus, tab, view, hide, show, restore.
Rearrange ==
  /\ ~typing
  /\ \/ \E n \in PaneNames(lay.cols) : Become(Dispatch(Now, WithFocus(lay, n)))
     \/ \E p \in PanesOf(lay.cols) : \E t \in TabsOf(p) :
          Become(Dispatch(Now, SetActiveTab(WithFocus(lay, p.pane), p.pane, t)))
     \/ \E v \in {"normal", "full"} : Become(Dispatch(Now, [lay EXCEPT !.view = v]))
     \/ \E p \in PanesOf(lay.cols) : Become(Dispatch(Now, PoolHide(lay, IdOf(p))))
     \/ \E i \in ConfigIds :
          Become(Dispatch(Now, PoolShow(lay, i, Len(lay.cols), AtEnd, FALSE)))
     \/ Become(Dispatch(Now, RestoreLayout(lay)))
  /\ UNCHANGED typing

Codes == {0, 1}

\* The process of a session ends.
Exit ==
  \E t \in Minted, code \in Codes :
    /\ session[t] = "alive"
    /\ LET how   == IF code = 0 THEN "clean" ELSE "failed"
           ended == [lay |-> lay, session |-> [session EXCEPT ![t] = how],
                     job |-> [job EXCEPT ![t] = "exited"], dying |-> dying]
       IN Become(ExitFanOut(ended, t, code))
    /\ typing' = (typing /\ ~LeavesMode(lay, t))

\* The exit of a process that was killed is heard: its session is gone, and the
\* handler knows the tab by its id only.
StaleExit ==
  \E t \in Minted, code \in Codes :
    /\ dying[t] > 0
    /\ LET heard == [lay |-> lay, session |-> session, job |-> job,
                     dying |-> [dying EXCEPT ![t] = @ - 1]]
       IN Become(ExitFanOut(heard, t, code))
    /\ typing' = (typing /\ ~LeavesMode(lay, t))

TermNext ==
  \/ Spawn \/ OpenStable \/ TerminalCommand \/ Activate \/ LeaveMode
  \/ CloseDead \/ Rearrange \/ Exit \/ StaleExit

TermSpec == TermInit /\ [][TermNext]_termVars

-----------------------------------------------------------------------------
(* Properties. *)

\* The type invariant.
TermTypeOK ==
  /\ session \in [Minted -> {"none", "alive", "clean", "failed"}]
  /\ job \in [Minted -> {"none", "running", "exited", "killed"}]
  /\ dying \in [Minted -> 0 .. MaxDying] /\ typing \in BOOLEAN
  /\ lay.view \in {"normal", "full"} /\ lay.focus \in PaneNames(lay.cols)

\* No process outlives its tab: a session is that of a tab in the layout,
\* however the tab left - closed, hidden with its pane, or restored away.
SessionsPlaced == \A t \in Minted : session[t] # "none" => t \in PlacedTabs(lay)

\* The jobs overlay tells the truth: a terminal is a running job while its
\* process lives, and not after, whoever ended it.
JobsAgree == \A t \in Minted : job[t] = "running" <=> session[t] = "alive"

\* A terminal on the screen has a process behind it, dead or alive, also when
\* the view changed without a finalizer.
VisibleHasSession == \A t \in ShownTerminals(lay) : session[t] # "none"

\* A terminal that ended cleanly is closed, in whatever pane and view its exit
\* found it.
CleanCloses == \A t \in Minted : session[t] # "clean"

\* A killed process has no say in what its tab became: its exit closes nothing.
StaleExitIgnored == [][StaleExit => lay'.cols = lay.cols]_termVars

=============================================================================
