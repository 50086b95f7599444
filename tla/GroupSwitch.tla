----------------------------- MODULE GroupSwitch ----------------------------
(* The group tree, the panes that follow the current group, and the jumplist:  *)
(* panel/navigator/groups.js, leaves/wm/nav.js, the routing of panel/route.js, *)
(* the nav_capture / nav_restore effects and the gestures that reach them.     *)
(*                                                                             *)
(* A gesture is one outermost dispatch: its cascade of Msgs runs to the end,   *)
(* then flushNavCapture records where it left the user.  The layout is fixed:  *)
(* one groups, one containers and one actions pane and the content slot.       *)
EXTENDS Integers, Sequences, FiniteSets, SequencesExt

CONSTANTS Order,         \* group names in config order
          Parent,        \* [group -> its parent, or Root]
          Root,
          Quick,         \* the groups pinned with quick: true
          ContainersOf,  \* [group -> sequence of container names]
          ActionsOf,     \* [group -> sequence of action keys]
          Focusable,     \* the panes a focus key reaches
          Cap

Groups == Range(Order)
NoFilter == ""
Tabs == {"info", "transcript"}   \* the position tabs of the content slot

ASSUME GroupsAssumption ==
  /\ Parent \in [Groups -> Groups \cup {Root}]
  /\ Root \notin Groups
  /\ Quick \subseteq Groups
  /\ Order \in Seq(Groups) /\ Order # <<>>
  /\ Parent[Order[1]] = Root   \* a group comes before its children
  /\ DOMAIN ContainersOf = Groups /\ DOMAIN ActionsOf = Groups
  /\ \A g \in Groups : /\ ContainersOf[g] \in Seq(Range(ContainersOf[g]))
                       /\ ActionsOf[g] \in Seq(Range(ActionsOf[g]))
  /\ Focusable \subseteq {"pane-groups", "pane-containers", "pane-actions", "slot"}
  /\ Cap \in Nat \ {0}

VARIABLES expanded,      \* slice.expanded of the groups pane
          list,          \* slice.list: the rows the groups pane shows
          quickTab,      \* slice.tab = 'quick'
          nav,           \* [instance -> its nav entry]
          currentGroup,  \* model.currentGroup
          focus,         \* layout slice.focus
          slotTab,       \* the active tab of the content slot
          ring           \* model.nav

vars == <<expanded, list, quickTab, nav, currentGroup, focus, slotTab, ring>>

-----------------------------------------------------------------------------
(* Instances and addresses (panel/route.js).  Every placed pane has its own    *)
(* instance; docker is also a service, whose kind-global slot is registered    *)
(* first and so is the primary of the Component name.  An address that is no   *)
(* instance falls back to the primary of the Component that owns it.           *)
Kinds == {"groups", "containers", "actions"}

PaneOf == [groups |-> "pane-groups", containers |-> "pane-containers",
           actions |-> "pane-actions"]
Component == [groups |-> "groups", containers |-> "docker", actions |-> "actions"]
Primary == [groups |-> "pane-groups", docker |-> "docker", actions |-> "pane-actions"]

Instances == Range(PaneOf) \cup {"docker"}
KindOf(pane) == CHOOSE k \in Kinds : PaneOf[k] = pane

ByKind(kind) == Primary[Component[kind]]     \* sliceForPane(kind), arm 2
ByComponent(name) == Primary[name]           \* _dispatchMsgInner, Component form

FreshNav == [cursor |-> 0, multi |-> {}, filter |-> NoFilter]

-----------------------------------------------------------------------------
(* The tree (leaves/tree, recomputeList).                                      *)
Children(g) == {c \in Groups : Parent[c] = g}
Branches == {g \in Groups : Children(g) # {}}

VisibleIn(ex) ==
  LET visible[g \in Groups] == Parent[g] = Root \/ (Parent[g] \in ex /\ visible[Parent[g]])
  IN  {g \in Groups : visible[g]}

(* The elements of a sequence that are in a set.                               *)
Filtered(seq, kept) ==
  LET at == {i \in DOMAIN seq : seq[i] \in kept}
  IN  [n \in 1 .. Cardinality(at) |-> seq[CHOOSE i \in at : Cardinality(at \cap (1 .. i)) = n]]

RowsOf(ex, quick) ==
  Filtered(Order, IF quick THEN Quick ELSE VisibleIn(ex))

IndexIn(seq, x) == (CHOOSE i \in DOMAIN seq : seq[i] = x) - 1

(* resolveCursor: the row of the current group or of its nearest ancestor on   *)
(* screen, else row 0; the group switches to that row.                         *)
ResolvedCursor(rows) ==
  LET climb[g \in Groups] == IF g \in Range(rows) \/ Parent[g] = Root THEN g ELSE climb[Parent[g]]
      near == climb[currentGroup]
  IN  IF near \in Range(rows) THEN IndexIn(rows, near) ELSE 0

(* What a pane lists, as its own filter leaves it: api.getItems.               *)
RawRows(kind, group) ==
  IF kind = "containers" THEN ContainersOf[group] ELSE ActionsOf[group]

Listed(kind, group, filter) ==
  IF kind = "groups" THEN list
  ELSE LET rows == RawRows(kind, group)
       IN  Filtered(rows, IF filter = NoFilter THEN Range(rows) ELSE {filter})

ItemsIn(kind, inst) == Listed(kind, currentGroup, nav[inst].filter)

HasItem(kind, inst) == nav[inst].cursor < Len(ItemsIn(kind, inst))
ItemAt(kind, inst) == ItemsIn(kind, inst)[nav[inst].cursor + 1]

-----------------------------------------------------------------------------
(* The cascade of a group change: the current group, then the per-group panes, *)
(* addressed by the name of the Component that owns each.                      *)
ResetKinds == {"actions", "containers"}      \* RESET_GROUP_PANELS
ResetOwners == {ByComponent(Component[k]) : k \in ResetKinds}

ResetGroupContext(n) == [i \in Instances |-> IF i \in ResetOwners THEN FreshNav ELSE n[i]]

(* groups_selected / _cascadeCmds end in the same block: nothing when the      *)
(* group stays, otherwise set_current_group and reset_group_context.           *)
GroupChange(group, moved) ==
  /\ currentGroup' = group
  /\ nav' = IF group = currentGroup THEN moved ELSE ResetGroupContext(moved)

(* showSelectedInfo: the slot turns to Info when the focused pane has a row    *)
(* under its cursor; the content slot itself has none.                         *)
YanksToInfo(pane) == pane # "slot" /\ HasItem(KindOf(pane), pane)

-----------------------------------------------------------------------------
(* nav_capture and nav_restore.  The location is read by the KIND of the       *)
(* focused pane, and the cursor is written back through the same address.      *)
NoTab == "none"
NoSel == [kind |-> "none", id |-> "none"]

Here ==
  [group |-> currentGroup,
   focus |-> focus,
   tab   |-> IF focus = "slot" THEN slotTab ELSE NoTab,
   sel   |-> IF focus = "slot" THEN NoSel
             ELSE LET k == KindOf(focus) IN
                  IF HasItem(k, ByKind(k)) THEN [kind |-> k, id |-> ItemAt(k, ByKind(k))] ELSE NoSel]

NamesOf(listing) == UNION {Range(listing[g]) : g \in Groups}
Located ==
  [group : Groups, focus : Range(PaneOf) \cup {"slot"}, tab : Tabs \cup {NoTab},
   sel : {NoSel} \cup [kind : Kinds, id : Groups \cup NamesOf(ContainersOf) \cup NamesOf(ActionsOf)]]

Nav == INSTANCE NavHistory WITH Locations <- Located

(* flushNavCapture: one record per gesture, of where it ended.                 *)
Capture(dirty) == ring' = IF dirty THEN Nav!Push(ring, Here') ELSE ring

(* The four coordinates in the order nav_restore resolves them.  set_cursor    *)
(* stays out of the groups cascade, and every write is stamped noCapture.      *)
RestoreTo(loc, missing, tab) ==
  /\ UNCHANGED <<expanded, list, quickTab>>
  /\ currentGroup' = loc.group
  /\ focus' = loc.focus
  /\ LET inst == ByKind(loc.sel.kind)
         items == Listed(loc.sel.kind, loc.group, nav[inst].filter)
         index == IF loc.sel.id \in Range(items) THEN IndexIn(items, loc.sel.id) ELSE missing
     IN  nav' = IF loc.sel = NoSel THEN nav ELSE [nav EXCEPT ![inst].cursor = index]
  /\ slotTab' = IF tab # NoTab THEN tab
                ELSE IF loc.sel # NoSel /\ YanksToInfo(focus)' THEN "info" ELSE slotTab

Restore_NoTab(loc) == RestoreTo(loc, 0, NoTab)            \* mutant
Restore(loc) == RestoreTo(loc, 0, loc.tab)

-----------------------------------------------------------------------------
Boot == Order[1]    \* initState: the first visible row

Init ==
  /\ expanded = {}
  /\ list = RowsOf({}, FALSE)
  /\ quickTab = FALSE
  /\ nav = [i \in Instances |-> FreshNav]
  /\ currentGroup = Boot
  /\ focus = "pane-groups"
  /\ slotTab = "info"
  /\ ring = Nav!Push(Nav!Empty, Here)

(* navSelect on the groups pane, focused or under the wheel.                   *)
SelectGroup(i) ==
  /\ i \in 0 .. Len(list) - 1
  /\ GroupChange(list[i + 1], [nav EXCEPT !["pane-groups"].cursor = i])
  /\ slotTab' = IF YanksToInfo(focus) THEN "info" ELSE slotTab
  /\ UNCHANGED <<expanded, list, quickTab, focus>>
  /\ Capture(currentGroup' # currentGroup)

(* Enter on a branch row, and [ ] on the groups pane: the list changes shape,  *)
(* the cursor finds the current group or its nearest visible ancestor, and the *)
(* group follows the cursor.                                                   *)
Moved(rows, quick) ==
  LET tree == nav["pane-groups"]
  IN  [nav EXCEPT !["pane-groups"] =
         [cursor |-> ResolvedCursor(rows), filter |-> tree.filter,
          multi  |-> IF quick # quickTab THEN {} ELSE tree.multi]]

Reshaped(ex, quick, rows, group) ==
  /\ expanded' = ex
  /\ quickTab' = quick
  /\ list' = rows
  /\ GroupChange(group, Moved(rows, quick))
  /\ slotTab' = "info"
  /\ UNCHANGED focus
  /\ Capture(currentGroup' # currentGroup)

Reshape_KeepsGroup(ex, quick) == Reshaped(ex, quick, RowsOf(ex, quick), currentGroup)   \* mutant
Reshape(ex, quick) ==
  LET rows == RowsOf(ex, quick)
  IN  Reshaped(ex, quick, rows, rows[ResolvedCursor(rows) + 1])

ToggleBranch ==
  /\ focus = "pane-groups"
  /\ HasItem("groups", focus)
  /\ LET g == ItemAt("groups", focus) IN
       /\ g \in Branches
       /\ Reshape(IF g \in expanded THEN expanded \ {g} ELSE expanded \cup {g}, quickTab)

SwitchGroupsTab ==
  /\ focus = "pane-groups"
  /\ Quick # {}
  /\ Reshape(expanded, ~quickTab)

(* j / k in the focused containers or actions pane; the wheel over one that is *)
(* not focused moves its cursor and leaves the content slot alone.             *)
MoveCursor(kind, i) ==
  /\ nav' = [nav EXCEPT ![PaneOf[kind]].cursor = i]
  /\ slotTab' = IF focus = PaneOf[kind] THEN "info" ELSE slotTab
  /\ UNCHANGED <<expanded, list, quickTab, currentGroup, focus, ring>>

FocusOn(pane, dirty) ==
  /\ pane \in Focusable
  /\ focus' = pane
  /\ slotTab' = IF YanksToInfo(pane) THEN "info" ELSE slotTab
  /\ UNCHANGED <<expanded, list, quickTab, nav, currentGroup>>
  /\ Capture(dirty)

FocusPane(pane) == FocusOn(pane, pane # focus)

ToggleMultiSel ==
  /\ focus # "slot"
  /\ LET k == KindOf(focus)
         id == ItemAt(k, focus)
     IN  /\ HasItem(k, focus)
         /\ nav' = [nav EXCEPT ![focus].multi = IF id \in @ THEN @ \ {id} ELSE @ \cup {id}]
  /\ UNCHANGED <<expanded, list, quickTab, currentGroup, focus, slotTab, ring>>

(* Escape clears a selection it can see: the count is read by kind, the clear  *)
(* goes to the focused pane.                                                   *)
Escape ==
  /\ focus # "slot"
  /\ nav[ByKind(KindOf(focus))].multi # {}
  /\ nav' = [nav EXCEPT ![focus].multi = {}]
  /\ UNCHANGED <<expanded, list, quickTab, currentGroup, focus, slotTab, ring>>

(* A filter session in the focused pane, opened and committed with the text x. *)
CommitFilter(kind, x) ==
  /\ focus = PaneOf[kind]
  /\ nav' = [nav EXCEPT ![focus] = [cursor |-> 0, multi |-> {}, filter |-> x]]
  /\ UNCHANGED <<expanded, list, quickTab, currentGroup, focus, ring>>
  /\ slotTab' = IF YanksToInfo(focus)' THEN "info" ELSE slotTab

(* The action palette and repeat_run switch to the group of what they run and  *)
(* dispatch nothing else here.                                                 *)
RunIn(g, dirty) ==
  /\ currentGroup' = g
  /\ UNCHANGED <<expanded, list, quickTab, nav, focus, slotTab>>
  /\ Capture(dirty)

RunElsewhere_Unrecorded(g) == RunIn(g, FALSE)   \* mutant
RunElsewhere(g) == RunIn(g, g # currentGroup)

(* jobs_activate: the job's group, its tab in the slot, and the focus on it.   *)
ActivateJob(g) ==
  /\ "slot" \in Focusable
  /\ currentGroup' = g
  /\ slotTab' = "transcript"
  /\ focus' = "slot"
  /\ UNCHANGED <<expanded, list, quickTab, nav>>
  /\ Capture(g # currentGroup \/ focus # "slot")

ShowTab(t) ==
  /\ "slot" \in Focusable
  /\ slotTab' = t
  /\ UNCHANGED <<expanded, list, quickTab, nav, currentGroup, focus, ring>>

Travel(dir) ==
  /\ Nav!CanStep(ring, dir)
  /\ ring' = Nav!Step(ring, dir)
  /\ Restore(Nav!At(ring, ring.cursor + dir))

NavBack == Travel(-1)
NavForward == Travel(1)

TreeGesture == (\E i \in DOMAIN list : SelectGroup(i - 1)) \/ ToggleBranch \/ SwitchGroupsTab

PaneGesture ==
  \E k \in {"containers", "actions"} :
     \/ \E i \in DOMAIN ItemsIn(k, PaneOf[k]) : MoveCursor(k, i - 1)
     \/ \E x \in {NoFilter} \cup Range(RawRows(k, currentGroup)) : CommitFilter(k, x)

Next ==
  \/ TreeGesture
  \/ PaneGesture
  \/ \E p \in Focusable : FocusPane(p)
  \/ ToggleMultiSel
  \/ Escape
  \/ \E g \in Groups : RunElsewhere(g) \/ ActivateJob(g)
  \/ \E t \in Tabs : ShowTab(t)
  \/ NavBack
  \/ NavForward

Spec == Init /\ [][Next]_vars

-----------------------------------------------------------------------------
(* selectedOrFocused('containers'): what :stop, :start and :restart act on.    *)
OperandIn(inst) ==
  IF nav[inst].multi # {} THEN Range(ItemsIn("containers", inst)) \cap nav[inst].multi
  ELSE IF HasItem("containers", inst) THEN {ItemAt("containers", inst)} ELSE {}

BulkOperand == OperandIn(ByKind("containers"))

-----------------------------------------------------------------------------
(* Every variable keeps its type, and the jumplist its shape.                  *)
TypeOK ==
  /\ expanded \subseteq Groups
  /\ list \in Seq(Groups)
  /\ quickTab \in BOOLEAN
  /\ DOMAIN nav = Instances
  /\ \A i \in Instances : nav[i].cursor \in Nat
  /\ currentGroup \in Groups
  /\ focus \in Range(PaneOf) \cup {"slot"}
  /\ slotTab \in Tabs
  /\ Nav!RingOK

(* The jumplist's cursor is on a record of the place the user is in: whatever  *)
(* moved the group or the focus, through any cascade, was recorded.            *)
RingTracksHere ==
  LET top == Nav!At(ring, ring.cursor)
  IN  ring.cursor >= 0 /\ top.group = currentGroup /\ top.focus = focus

(* No back or forward is lost on the user: two neighbours in the jumplist      *)
(* differ in their group or in their focus, never only in the row under the    *)
(* cursor, though that row is part of a record and of the dedupe of push.      *)
EveryStepMoves ==
  \A i \in 1 .. Len(ring.history) - 1 :
     \/ ring.history[i].group # ring.history[i + 1].group
     \/ ring.history[i].focus # ring.history[i + 1].focus

(* A back or a forward lands where the record says: in its group and pane, on  *)
(* its tab, and on its row when that row is still listed.                      *)
TravelLands ==
  [][\A dir \in {-1, 1} : Travel(dir) =>
       \E loc \in {Nav!At(ring, ring.cursor + dir)} :
         /\ currentGroup' = loc.group
         /\ focus' = loc.focus
         /\ loc.tab # NoTab => slotTab' = loc.tab
         /\ loc.sel # NoSel /\ loc.sel.id \in Range(ItemsIn(loc.sel.kind, ByKind(loc.sel.kind)))'
              => Here'.sel = loc.sel]_vars

(* After a gesture on the tree the row under its cursor is the current group,  *)
(* however the list changed shape under it: collapsing a branch over the       *)
(* current group selects the branch, a tab without it selects another group.   *)
TreeShowsGroup ==
  [][TreeGesture => list'[nav'["pane-groups"].cursor + 1] = currentGroup']_vars

(* A group change made in the tree starts the actions pane over, and a gesture *)
(* that keeps the group leaves its cursor, selection and filter alone.         *)
ActionsStartOver ==
  [][TreeGesture => nav'["pane-actions"] =
       IF currentGroup' = currentGroup THEN nav["pane-actions"] ELSE FreshNav]_vars

(* docker.js says of the bulk commands that each works on the multi-selected   *)
(* set or the single focused row: the rows the user sees in the pane.          *)
BulkActsOnSelection == focus = "pane-containers" => BulkOperand = OperandIn(focus)
=============================================================================
