------------------------------- MODULE Layout -------------------------------
(***************************************************************************)
(* The window manager: the layout slice and its reducer                    *)
(* (panel/layout.js), over the pool / pane / arrange leaves (leaves/wm)    *)
(* and the free-config editor (leaves/free-config).                        *)
(*                                                                         *)
(* The slice is one record, lay, and an arm of the reducer is an operator  *)
(* from slices to slices, as in the code; an action is a user gesture or   *)
(* an outside event, with every arm its Cmds run before the next input.    *)
(*                                                                         *)
(* cols is the grid: a sequence of columns, each a sequence of panes.  A   *)
(* pane is a slot with tabs; a tab is named by its pool id, a pane by the  *)
(* pool id it was built from.  The pool is what can be placed: the ids of  *)
(* the configuration, and the transient ids minted at run time.  Widths,   *)
(* heights, collapsed marks, hotkeys and titles are one edit that moves no *)
(* pane (Reshape); the half-view slots and the viewer last used are left   *)
(* out; the Info and Transcript tabs of a viewer are one tab, SeedOf.      *)
(***************************************************************************)
EXTENDS Integers, Sequences, FiniteSets, SequencesExt

CONSTANTS
  ConfigIds,   \* pool ids the configuration declares
  Minted,      \* pool ids of the tabs minted at run time
  SeedOf,      \* [viewer ids -> the seeded tab of the slot]
  Kind,        \* the panel type of every id
  InitCols,    \* the grid rebuildLayoutFromConfig makes
  TabHosts,    \* bound: panes in which a run opens tabs
  Draggable,   \* bound: what a run drags, panes of the grid and pool entries
  MaxUndo,     \* MAX_UNDO of free-config-core.js
  MaxColumns   \* bound: columns a run may add up to

VARIABLES
  lay,         \* the layout slice
  freeConfig,  \* model.modes.freeConfigMode
  drag         \* slice.freeConfig.drag: a pane or a pool entry held by the mouse

vars == <<lay, freeConfig, drag>>

Viewers == {i \in ConfigIds : Kind[i] = "detail"}
Seeds == {SeedOf[v] : v \in Viewers}
Transient == Minted \union Seeds
Ids == ConfigIds \union Transient

ASSUME LayoutAssumption ==
  /\ DOMAIN SeedOf = Viewers /\ DOMAIN Kind = Ids
  /\ Minted \intersect (ConfigIds \union Seeds) = {}
  /\ Seeds \intersect ConfigIds = {}
  /\ MaxUndo \in Nat \ {0} /\ MaxColumns \in Nat \ {0}

-----------------------------------------------------------------------------
(* Panes and the grid. *)

\* wrapAsPane: a pool entry placed as a pane of its own.
Pane(i) == [pane |-> i, content |-> Kind[i] = "detail",
            tabs |-> <<i>>, active |-> i]

\* A content slot keeps the identity of its entry; any other pane wears the
\* identity of its active tab (_rebuildLegacyFields).
IdOf(p) == IF p.content THEN p.pane ELSE p.active
KindOf(p) == IF p.content THEN "detail" ELSE Kind[p.active]

At(cols) == UNION {{c} \X DOMAIN cols[c] : c \in DOMAIN cols}
PaneAt(cols, a) == cols[a[1]][a[2]]
PanesOf(cols) == {PaneAt(cols, a) : a \in At(cols)}
PaneNames(cols) == {p.pane : p \in PanesOf(cols)}
TabsOf(p) == Range(p.tabs)

\* placedIds: every tab of every pane, and the identity of the pane.
Placed(cols) == UNION {TabsOf(p) \union {IdOf(p)} : p \in PanesOf(cols)}
Details(cols) == {a \in At(cols) : PaneAt(cols, a).content}
HasActions(cols) == \E p \in PanesOf(cols) : KindOf(p) = "actions"

\* findPaneLocation, for a pane of the grid.
Where(cols, n) == CHOOSE a \in At(cols) : PaneAt(cols, a).pane = n

\* Grid order: by column, then by place.
NotAfter(a, b) == a[1] < b[1] \/ (a[1] = b[1] /\ a[2] <= b[2])
FirstOf(cols, at) == PaneAt(cols, CHOOSE a \in at : \A b \in at : NotAfter(a, b))
FirstPane(cols) == FirstOf(cols, At(cols)).pane

\* What the schema and the seeding of content slots guarantee at boot: panes
\* that show one of their tabs, and a viewer among them.
PaneType == [pane : Ids, content : BOOLEAN, tabs : Seq(Ids), active : Ids]

ASSUME InitColsAssumption ==
  /\ InitCols \in Seq(Seq(PaneType))
  /\ \A p \in PanesOf(InitCols) :
       p.active \in TabsOf(p) /\ (p.content => Kind[p.pane] = "detail")
  /\ Details(InitCols) # {}

SetPane(cols, a, p) == [cols EXCEPT ![a[1]][a[2]] = p]
Without(cols, a) == [cols EXCEPT ![a[1]] = RemoveAt(@, a[2])]
Insert(cols, c, k, p) == [cols EXCEPT ![c] = InsertAt(@, k, p)]

-----------------------------------------------------------------------------
(* Helpers of the reducer. *)

\* _withFocus, given a pane.
WithFocus(l, n) == [l EXCEPT !.focus = n]

\* _withFocus, given a panel type or a pool id: the first pane that wears it,
\* else the first that holds it as a tab (_resolvePaneIdForFocus).
FocusByName(l, name) ==
  LET wears == {a \in At(l.cols) : name \in {KindOf(PaneAt(l.cols, a)), IdOf(PaneAt(l.cols, a))}}
      holds == {a \in At(l.cols) : name \in TabsOf(PaneAt(l.cols, a))}
  IN IF wears # {} THEN WithFocus(l, FirstOf(l.cols, wears).pane)
     ELSE IF holds # {} THEN WithFocus(l, FirstOf(l.cols, holds).pane) ELSE l

\* clampSelected: a focus that is no longer placed falls to the first pane.
Clamp(l) == IF l.focus \in PaneNames(l.cols) THEN l
            ELSE [l EXCEPT !.focus = FirstPane(l.cols)]

ClampAndFocus_Kept(old, l) == l
ClampAndFocus(old, l) ==
  LET n == Clamp(l) IN IF n.focus # old.focus THEN WithFocus(n, n.focus) ELSE n

LastOf(s) == SubSeq(s, IF Len(s) > MaxUndo THEN Len(s) - MaxUndo + 1 ELSE 1, Len(s))

PushUndo(l) == [l EXCEPT !.undo = LastOf(Append(@, l.cols)), !.redo = <<>>]

\* _commitArrange: a structural edit, and a tab switched or minted.
Commit(l, cols, skipUndo) ==
  [(IF skipUndo THEN l ELSE PushUndo(l)) EXCEPT !.cols = cols, !.dirty = TRUE]
CommitTransient(l, cols) == [l EXCEPT !.cols = cols]

-----------------------------------------------------------------------------
(* The arms of the reducer.  A refused Msg returns the slice it was given. *)

SetActiveTab(l, n, t) ==
  LET a == Where(l.cols, n)
      p == PaneAt(l.cols, a)
      next == CommitTransient(l, SetPane(l.cols, a, [p EXCEPT !.active = t]))
  IN IF t \notin TabsOf(p) \/ p.active = t \/ t \notin l.pool THEN l
     ELSE IF l.focus = n THEN FocusByName(next, t) ELSE next

\* mint_tab: refused on an id the pool already has; the tab is shown, and the
\* focus follows only in a slot that has it.
MintTab(l, n, t) ==
  LET a == Where(l.cols, n)
      grown == [PaneAt(l.cols, a) EXCEPT !.tabs = Append(@, t), !.active = t]
      next == CommitTransient([l EXCEPT !.pool = @ \union {t}],
                              SetPane(l.cols, a, grown))
  IN IF t \in l.pool THEN l
     ELSE IF l.focus = n THEN FocusByName(next, t) ELSE next

\* remove_tab: never the last tab of a slot; the tab at its place comes
\* forward if it was shown; a transient entry leaves the pool, and only the
\* removal of a configured tab is an edit of the layout.
RemoveTab(l, n, t) ==
  LET a    == Where(l.cols, n)
      p    == PaneAt(l.cols, a)
      at   == CHOOSE i \in DOMAIN p.tabs : p.tabs[i] = t
      left == RemoveAt(p.tabs, at)
      act  == IF p.active = t THEN left[IF at > Len(left) THEN Len(left) ELSE at]
              ELSE p.active
      cols == SetPane(l.cols, a, [p EXCEPT !.tabs = left, !.active = act])
      next == IF t \in Transient
              THEN CommitTransient([l EXCEPT !.pool = @ \ {t}], cols)
              ELSE Commit(l, cols, FALSE)
  IN IF t \notin TabsOf(p) \/ Len(p.tabs) = 1 \/ act \notin l.pool THEN l
     ELSE IF l.focus = n /\ p.active = t THEN FocusByName(next, act) ELSE next

PoolHide_AnyViewer(l, i) ==
  LET at == {a \in At(l.cols) : IdOf(PaneAt(l.cols, a)) = i}
  IN IF i \notin l.pool \/ at = {} THEN l
     ELSE ClampAndFocus(l, Commit(l, Without(l.cols, CHOOSE a \in at : TRUE), FALSE))
PoolHide(l, i) ==
  LET at == {a \in At(l.cols) : IdOf(PaneAt(l.cols, a)) = i}
      a  == CHOOSE x \in at : TRUE
  IN IF \/ i \notin l.pool
        \/ Kind[i] = "detail" /\ Cardinality(Details(l.cols)) <= 1
        \/ at = {}
     THEN l
     ELSE ClampAndFocus(l, Commit(l, Without(l.cols, a), FALSE))

\* pool_show into column c, at place k or at its tail.
AtEnd == 0
PoolShow(l, i, c, k, skipUndo) ==
  LET end == Len(l.cols[c]) + 1
      at  == IF k = AtEnd \/ k > end THEN end ELSE k
  IN IF \/ i \notin l.pool \/ i \in Placed(l.cols) \/ c > Len(l.cols)
        \/ Kind[i] = "actions" /\ (HasActions(l.cols) \/ c # Len(l.cols))
     THEN l
     ELSE FocusByName(Commit(l, Insert(l.cols, c, at, Pane(i)), skipUndo), Kind[i])

PoolShowNewColumn(l, i, position) ==
  IF \/ i \notin l.pool \/ i \in Placed(l.cols)
     \/ Kind[i] = "actions" \/ position > Len(l.cols) + 1
  THEN l
  ELSE FocusByName(Commit(l, InsertAt(l.cols, position, <<Pane(i)>>), FALSE), Kind[i])

AddColumn(l, position) == Commit(l, InsertAt(l.cols, position, <<>>), FALSE)

RemoveColumn(l, c) ==
  IF Len(l.cols) <= 1 \/ l.cols[c] # <<>> THEN l
  ELSE ClampAndFocus(l, Commit(l, RemoveAt(l.cols, c), FALSE))

\* panel_collapse_toggle, and a width, a height or a title that changes: an
\* edit that leaves the panes where they are.
Reshape(l) == Commit(l, l.cols, FALSE)

\* pool_swap_by_id: pick an entry for a pane.  An entry placed elsewhere
\* trades slots with it; a hidden one replaces it, unless it holds more tabs.
PoolSwapById(l, n, i) ==
  LET a    == Where(l.cols, n)
      p    == PaneAt(l.cols, a)
      from == {x \in At(l.cols) : IdOf(PaneAt(l.cols, x)) = i}
      b    == CHOOSE x \in from : TRUE
      cols == IF from # {}
              THEN SetPane(SetPane(l.cols, a, PaneAt(l.cols, b)), b, p)
              ELSE SetPane(l.cols, a, Pane(i))
  IN IF \/ KindOf(p) = "actions"
        \/ p.content /\ Cardinality(Details(l.cols)) <= 1
        \/ i \notin l.pool \/ Kind[i] = "detail"
        \/ Kind[i] = "actions" /\ a[1] # Len(l.cols)
        \/ i = IdOf(p) \/ IdOf(p) \notin l.pool
        \/ from = {} /\ Len(p.tabs) > 1
     THEN l
     ELSE FocusByName(Commit(l, cols, FALSE), Kind[i])

\* set_arrange as :restore-layout sends it, then free_config_clear_undo.
RestoreLayout(l) ==
  Clamp([l EXCEPT !.cols = InitCols, !.pool = ConfigIds \union Seeds,
                  !.dirty = FALSE, !.undo = <<>>, !.redo = <<>>])

\* view_set full and view_drop_full_to_normal: the program's own changes of the
\* view, which free-config does not refuse.
FullView(l) == [l EXCEPT !.view = "full"]
DropFull(l) == [l EXCEPT !.view = IF @ = "full" THEN "normal" ELSE @]

\* The undo stack holds grids only: the pool is not restored.
Undo(l) ==
  IF l.undo = <<>> THEN l
  ELSE Clamp([l EXCEPT !.cols = Last(l.undo), !.undo = Front(@),
                       !.redo = Append(@, l.cols), !.dirty = TRUE])

Redo(l) ==
  IF l.redo = <<>> THEN l
  ELSE Clamp([l EXCEPT !.cols = Last(l.redo), !.redo = Front(@),
                       !.undo = Append(@, l.cols), !.dirty = TRUE])

-----------------------------------------------------------------------------
(* Dragging.  A target is computed, and found valid, when the mouse moves;  *)
(* it is applied to the grid there is when the button is released.          *)

NoDrag == [from |-> "none"]
NoTarget == [to |-> "none"]

IsActions(l, i) == i \in l.pool /\ Kind[i] = "actions"
IsLastViewer(l, a) == PaneAt(l.cols, a).content /\ Cardinality(Details(l.cols)) <= 1

\* newColumnZoneAt: the left edge and the gaps, never the right edge.
NewColumns(l) == {[to |-> "column", at |-> k] :
                    k \in {j \in DOMAIN l.cols : Len(l.cols) < MaxColumns}}
Inserts(l, pinned) ==
  UNION {{[to |-> "insert", col |-> c, at |-> k] : k \in 1 .. Len(l.cols[c]) + 1} :
           c \in {x \in DOMAIN l.cols : pinned => x = Len(l.cols)}}

\* validateTarget, validateNewColumn: only the actions pane is bound to a place.
GridTargets(l, n, kind) ==
  LET pinned == kind = "actions"
      from   == {a \in At(l.cols) : PaneAt(l.cols, a).pane = n}
      last(a) == a[1] = Len(l.cols)
      swaps  == {a \in At(l.cols) :
                   \/ a \in from
                   \/ /\ pinned => last(a)
                      /\ KindOf(PaneAt(l.cols, a)) = "actions" => \E b \in from : last(b)}
  IN Inserts(l, pinned)
     \union {[to |-> "swap", col |-> a[1], at |-> a[2],
              occupant |-> PaneAt(l.cols, a).pane] : a \in swaps}
     \union IF pinned THEN {} ELSE NewColumns(l)

\* validateInsert, validateReplace, validatePoolNewColumn.
PoolTargets(l, i) ==
  LET pinned == IsActions(l, i)
  IN Inserts(l, pinned)
     \union {[to |-> "replace", col |-> a[1], occupant |-> IdOf(PaneAt(l.cols, a))] :
               a \in {x \in At(l.cols) : /\ ~IsLastViewer(l, x)
                                         /\ pinned => x[1] = Len(l.cols)}}
     \union IF pinned THEN {} ELSE NewColumns(l)

\* panelListItems that may be picked: the last viewer is essential.
PanelListItems(l) ==
  (l.pool \intersect {IdOf(PaneAt(l.cols, a)) : a \in {x \in At(l.cols) : ~IsLastViewer(l, x)}})
  \union {i \in l.pool \ Transient : \A p \in PanesOf(l.cols) : IdOf(p) # i}

\* A column a drag left empty goes away, unless it is the only one.
DropEmpty(cols, c) == IF cols[c] = <<>> /\ Len(cols) > 1 THEN RemoveAt(cols, c) ELSE cols

\* applyInsert.
Inserted(cols, a, c, k) ==
  LET p    == PaneAt(cols, a)
      into(s, j) == InsertAt(s, IF j > Len(s) THEN Len(s) + 1 ELSE j, p)
  IN IF a[1] = c
     THEN [cols EXCEPT ![c] = into(RemoveAt(@, a[2]), IF a[2] < k THEN k - 1 ELSE k)]
     ELSE DropEmpty([Without(cols, a) EXCEPT ![c] = into(@, k)], a[1])

\* applySwap.
Swapped(cols, a, b) == SetPane(SetPane(cols, a, PaneAt(cols, b)), b, PaneAt(cols, a))

\* applyNewColumn.
InNewColumn(cols, a, position) ==
  LET left == Without(cols, a)
      base == DropEmpty(left, a[1])
      k    == IF Len(base) < Len(cols) /\ a[1] < position THEN position - 1 ELSE position
  IN InsertAt(base, IF k > Len(base) THEN Len(base) + 1 ELSE k, <<PaneAt(cols, a)>>)

\* applyDrop: the grid of the drop, the old one if the drop finds no place.
ApplyDrop(cols, a, t) ==
  CASE t.to = "insert" -> Inserted(cols, a, t.col, t.at)
    [] t.to = "column" -> InNewColumn(cols, a, t.at)
    [] t.to = "swap"   -> IF <<t.col, t.at>> \in At(cols)
                          THEN Swapped(cols, a, <<t.col, t.at>>) ELSE cols

\* mouseRelease: one undo entry, the drop, and the focus to the first pane of
\* the dragged type.
MouseRelease(l, d) ==
  LET from == {a \in At(l.cols) : PaneAt(l.cols, a).pane = d.what}
      done == from # {} /\ (d.target.to = "swap" =>
                              <<d.target.col, d.target.at>> \in At(l.cols) \ from)
      cols == IF done THEN ApplyDrop(l.cols, CHOOSE a \in from : TRUE, d.target) ELSE l.cols
      same == {a \in At(cols) : KindOf(PaneAt(cols, a)) = d.kind}
      next == [PushUndo(l) EXCEPT !.cols = cols, !.dirty = @ \/ done]
  IN IF \/ d.target.to = "none"
        \/ d.target.to = "swap" /\ d.target.occupant = d.what
     THEN l
     ELSE IF same = {} THEN Clamp(next)
     ELSE [next EXCEPT !.focus = FirstOf(cols, same).pane]

\* poolDragRelease: a replacement hides the occupant and shows the source, and
\* the second hop adds no undo entry.
PoolDragRelease_TwoEntries(l, d) ==
  LET t == d.target
  IN CASE t.to = "none"    -> l
       [] t.to = "insert"  -> PoolShow(l, d.what, t.col, t.at, FALSE)
       [] t.to = "column"  -> PoolShowNewColumn(l, d.what, t.at)
       [] t.to = "replace" -> PoolShow(PoolHide(l, t.occupant), d.what, t.col, AtEnd, FALSE)
PoolDragRelease(l, d) ==
  LET t == d.target
  IN CASE t.to = "none"    -> l
       [] t.to = "insert"  -> PoolShow(l, d.what, t.col, t.at, FALSE)
       [] t.to = "column"  -> PoolShowNewColumn(l, d.what, t.at)
       [] t.to = "replace" -> PoolShow(PoolHide(l, t.occupant), d.what, t.col, AtEnd, TRUE)

-----------------------------------------------------------------------------
(* Gestures and events.  A modal owns the keyboard and the mouse, so what   *)
(* free-config does not offer is out of reach while it is on; what a run, a *)
(* process or a terminal does of itself is not.                             *)

InitLayout ==
  [cols |-> InitCols, pool |-> ConfigIds \union Seeds, focus |-> FirstPane(InitCols),
   view |-> "normal", dirty |-> FALSE, undo |-> <<>>, redo |-> <<>>]

Init == lay = InitLayout /\ freeConfig = FALSE /\ drag = NoDrag

Arm(l) == lay' = l /\ UNCHANGED <<freeConfig, drag>>
Panes == PaneNames(lay.cols)

\* resolveViewerPaneId: the focused viewer, else one of the others.
ViewersOf(l) ==
  LET vs == {PaneAt(l.cols, a).pane : a \in Details(l.cols)}
  IN IF l.focus \in vs THEN {l.focus} ELSE vs

FocusSet == ~freeConfig /\ \E n \in Panes : Arm(WithFocus(lay, n))

\* activate_tab: the slot is focused, then the tab comes forward.
ActivateTab ==
  /\ ~freeConfig
  /\ \E a \in At(lay.cols) : \E t \in TabsOf(PaneAt(lay.cols, a)) :
       LET n == PaneAt(lay.cols, a).pane IN Arm(SetActiveTab(WithFocus(lay, n), n, t))

\* :terminal mints in the focused pane, a file or a shell in the viewer.  An
\* undo can leave a tab whose entry is gone: a run opens no second one there.
OpenTab ==
  /\ ~freeConfig
  /\ \E n \in ({lay.focus} \union ViewersOf(lay)) \intersect TabHosts, t \in Minted :
       /\ t \notin TabsOf(PaneAt(lay.cols, Where(lay.cols, n)))
       /\ Arm(MintTab(lay, n, t))

\* A run shows its output: a terminal, or the tab of its action, minted when
\* there is none, and else brought forward; the Transcript, which is there.  A
\* terminal is focused, and one spawned anew fills the screen.  Runs are deferred
\* (setImmediate), so the editor may have opened meanwhile.
RunShows ==
  \E n \in ViewersOf(lay) \intersect TabHosts :
    LET old == TabsOf(PaneAt(lay.cols, Where(lay.cols, n)))
        shown(t) == SetActiveTab(MintTab(lay, n, t), n, t)
    IN \/ \E t \in {x \in Minted : x \in lay.pool \/ x \notin old} :
            \/ Arm(shown(t))
            \/ Arm(WithFocus(shown(t), n))
            \/ t \notin lay.pool /\ Arm(FullView(WithFocus(shown(t), n)))
       \/ \E t \in Seeds : Arm(SetActiveTab(lay, n, t))

\* The process of a minted tab exits, at any time: the focused pane leaves the
\* full view, and with code 0 the tab is closed (_handlePaneExit).
TabExits ==
  \E n \in Panes, t \in Minted \intersect lay.pool :
    LET l == IF lay.focus = n THEN DropFull(lay) ELSE lay
    IN /\ t \in TabsOf(PaneAt(lay.cols, Where(lay.cols, n)))
       /\ Arm(l) \/ Arm(RemoveTab(l, n, t))

\* :hide, the close button, a pick in the panel list.
HidePane ==
  /\ drag = NoDrag
  /\ \E p \in PanesOf(lay.cols) : Arm(PoolHide(lay, IdOf(p)))

\* :show, a pick in the panel list.
ShowPane ==
  /\ drag = NoDrag
  /\ \E i \in ConfigIds : Arm(PoolShow(lay, i, Len(lay.cols), AtEnd, FALSE))

\* The collapse widget, anywhere; widths, heights and titles in free-config.
ReshapePane ==
  /\ freeConfig \/ \E p \in PanesOf(lay.cols) : ~p.content
  /\ Arm(Reshape(lay))

\* The pane menu: what another pane wears, or what no pane holds.
SwapPane ==
  /\ ~freeConfig /\ lay.view = "normal"
  /\ \E n \in Panes, i \in lay.pool :
       /\ i \notin Placed(lay.cols) \/ \E p \in PanesOf(lay.cols) : IdOf(p) = i
       /\ Arm(PoolSwapById(lay, n, i))

ColumnCommand ==
  /\ ~freeConfig
  /\ \/ /\ Len(lay.cols) < MaxColumns
        /\ \E k \in 1 .. Len(lay.cols) + 1 : Arm(AddColumn(lay, k))
     \/ \E c \in DOMAIN lay.cols : Arm(RemoveColumn(lay, c))

RestoreCommand == ~freeConfig /\ Arm(RestoreLayout(lay))
SaveCommand == ~freeConfig /\ Arm([lay EXCEPT !.dirty = FALSE])

\* view_expand and view_shrink, which free-config refuses.
ViewKey ==
  /\ ~freeConfig
  /\ \E v \in IF lay.view = "half" THEN {"normal", "full"} ELSE {"half"} :
       Arm([lay EXCEPT !.view = v])

\* terminal_exit: Ctrl+\, or a key for a terminal that is dead or not there.
TerminalExit == Arm(DropFull(lay))

\* free_config_enter, refused outside the normal view.
FcEnter ==
  /\ ~freeConfig /\ lay.view = "normal"
  /\ lay' = [Clamp(lay) EXCEPT !.undo = <<>>, !.redo = <<>>]
  /\ freeConfig' = TRUE /\ drag' = NoDrag

FcExit ==
  /\ freeConfig
  /\ lay' = [WithFocus(lay, lay.focus) EXCEPT !.undo = <<>>, !.redo = <<>>]
  /\ freeConfig' = FALSE /\ drag' = NoDrag

\* navSelect: the cursor moves in grid order.
FcNav ==
  LET at == At(lay.cols)
  IN /\ freeConfig
     /\ \E a, b \in at :
          /\ a # b /\ PaneAt(lay.cols, a).pane = lay.focus
          /\ \A x \in at \ {a, b} : NotAfter(x, a) <=> NotAfter(x, b)
          /\ Arm([lay EXCEPT !.focus = PaneAt(lay.cols, b).pane])

\* reorderWithin, moveColumn: the focused pane goes one place up or down, or
\* to the tail of the column beside it.
FcMove ==
  LET a == Where(lay.cols, lay.focus)
      p == PaneAt(lay.cols, a)
      moved(cols) == Clamp(Commit(lay, cols, FALSE))
  IN /\ freeConfig
     /\ \/ \E k \in {a[2] - 1, a[2] + 1} \intersect DOMAIN lay.cols[a[1]] :
             Arm(moved(Swapped(lay.cols, a, <<a[1], k>>)))
        \/ \E c \in {a[1] - 1, a[1] + 1} \intersect DOMAIN lay.cols :
             /\ KindOf(p) = "actions" => c = Len(lay.cols)
             /\ Arm(moved([Without(lay.cols, a) EXCEPT ![c] = Append(@, p)]))

FcUndo == freeConfig /\ (Arm(Undo(lay)) \/ Arm(Redo(lay)))

\* mousePress on a pane, or on an entry of the panel list.
DragPress ==
  /\ freeConfig /\ drag.from # "pool"
  /\ \/ \E p \in PanesOf(lay.cols) :
          /\ <<"grid", p.pane>> \in Draggable
          /\ lay' = [lay EXCEPT !.focus = p.pane]
          /\ drag' = [from |-> "grid", what |-> p.pane, kind |-> KindOf(p), target |-> NoTarget]
     \/ /\ drag = NoDrag /\ lay' = lay
        /\ \E i \in {j \in PanelListItems(lay) : <<"pool", j>> \in Draggable} :
             drag' = [from |-> "pool", what |-> i, kind |-> Kind[i], target |-> NoTarget]
  /\ UNCHANGED freeConfig

DragTargets ==
  {NoTarget} \union IF drag.from = "grid" THEN GridTargets(lay, drag.what, drag.kind)
                    ELSE PoolTargets(lay, drag.what)

DragMotion ==
  /\ drag # NoDrag
  /\ \E t \in DragTargets : drag' = [drag EXCEPT !.target = t]
  /\ UNCHANGED <<lay, freeConfig>>

\* A pane dropped in a column that is gone makes the reducer throw: the Msg is
\* dropped, and the drag stays.
DragRelease ==
  /\ drag # NoDrag /\ (drag.target.to = "column" => Len(lay.cols) < MaxColumns)
  /\ drag.from = "grid" /\ drag.target.to = "insert" => drag.target.col <= Len(lay.cols)
  /\ lay' = IF drag.from = "grid" THEN MouseRelease(lay, drag) ELSE PoolDragRelease(lay, drag)
  /\ drag' = NoDrag
  /\ UNCHANGED freeConfig

Next ==
  \/ FocusSet \/ ActivateTab \/ OpenTab \/ RunShows \/ TabExits
  \/ HidePane \/ ShowPane \/ ReshapePane \/ SwapPane
  \/ ColumnCommand \/ RestoreCommand \/ SaveCommand \/ ViewKey \/ TerminalExit
  \/ FcEnter \/ FcExit \/ FcNav \/ FcMove \/ FcUndo
  \/ DragPress \/ DragMotion \/ DragRelease

Spec == Init /\ [][Next]_vars

-----------------------------------------------------------------------------
(* Properties. *)

\* Which tab comes before which.
InOrder(tabs) == UNION {{<<tabs[i], tabs[j]>> : j \in i .. Len(tabs)} : i \in DOMAIN tabs}

\* What the file keeps of a pane, and what an edit of the layout changes: the
\* configured tabs, in their order, and the place.
Kept(p) == [pane |-> p.pane, tabs |-> InOrder(p.tabs) \intersect (ConfigIds \X ConfigIds)]
Shape(cols) == [c \in DOMAIN cols |-> [k \in DOMAIN cols[c] |-> Kept(cols[c][k])]]

Edited == lay'.cols # lay.cols /\ Shape(lay'.cols) # Shape(lay.cols)

\* The type invariant.
TypeOK ==
  /\ lay.cols \in Seq(Seq(PaneType))
  /\ lay.pool \subseteq Ids /\ ConfigIds \subseteq lay.pool
  /\ lay.view \in {"normal", "half", "full"} /\ lay.dirty \in BOOLEAN
  /\ Len(lay.undo) + Len(lay.redo) <= MaxUndo
  /\ \A p \in PanesOf(lay.cols) : p.active \in TabsOf(p)
  /\ freeConfig \in BOOLEAN /\ (drag # NoDrag => freeConfig)

\* Whatever is hidden, replaced, swapped, dragged, undone or redone, also onto
\* a grid that changed under the drag, a viewer is on the screen: the guards of
\* pool_hide, validateReplace and pool_swap_by_id are all there is to keep it.
ViewerRemains == Details(lay.cols) # {}

\* The focused pane is placed, however it left: the arms that remove a pane
\* clamp the focus each by its own call.
FocusPlaced == lay.focus \in PaneNames(lay.cols)

\* A configured entry is in one place of the grid, under one pane, whichever of
\* its tabs a pane wears when it is hidden, shown or swapped.
PlacedOnce ==
  /\ \A a, b \in At(lay.cols) :
       a # b => /\ PaneAt(lay.cols, a).pane # PaneAt(lay.cols, b).pane
                /\ TabsOf(PaneAt(lay.cols, a)) \intersect TabsOf(PaneAt(lay.cols, b))
                     \subseteq Transient
  /\ \A p \in PanesOf(lay.cols) : Len(SelectSeq(p.tabs, LAMBDA t : t \in ConfigIds))
                                   = Cardinality(TabsOf(p) \intersect ConfigIds)

\* A drop that replaces a pane is one gesture of two hops, and only the first
\* adds an undo entry: it does not when the occupant is no longer there to hide.
HideRefused ==
  /\ drag # NoDrag /\ drag.target.to = "replace"
  /\ PoolHide(lay, drag.target.occupant) = lay

\* In free-config a gesture that changes the layout can be taken back by one
\* undo, and an undo by one redo, drops and their second hops included.
GestureUndoable ==
  [][freeConfig /\ freeConfig' /\ Edited =>
       \/ lay'.undo # <<>> /\ Last(lay'.undo) = lay.cols
       \/ lay'.redo # <<>> /\ Last(lay'.redo) = lay.cols
       \/ HideRefused]_vars

\* No edit is lost without the unsaved mark: a step that changes what the file
\* keeps sets it, only a restored layout clears it with the change; and viewing
\* - a tab opened, closed or brought forward - never sets it.
DirtyTracksEdits ==
  [][/\ Edited => lay'.dirty \/ lay'.cols = InitCols
     /\ lay'.dirty /\ ~lay.dirty => lay'.undo # lay.undo \/ lay'.cols = lay.cols \/ Edited]_vars

\* What :save-layout would write.  A cell drops the tabs the pool calls
\* transient, and falls back to the identity of the pane; with neither it is
\* the word undefined.
Written(p) ==
  LET drop == {i \in lay.pool : i \in Transient}
      kept == TabsOf(p) \ drop
  IN IF kept # {} THEN kept ELSE IF IdOf(p) \in drop THEN {"undefined"} ELSE {IdOf(p)}
Declared == {i \in lay.pool : i \notin Transient}

\* A session-only tab never leaks into the saved layout: every id a cell names
\* is declared by the panels block written with it.
SavedIdsDeclared ==
  ~freeConfig => UNION {Written(p) : p \in PanesOf(lay.cols)} \subseteq Declared

=============================================================================
