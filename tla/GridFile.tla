------------------------------ MODULE GridFile ------------------------------
(***************************************************************************)
(* The `layout:` and `panels:` blocks of a configuration, and what         *)
(* parseLayout makes of them (js/parser/index.js, js/parser/schema.js):    *)
(* the grid of panes the window manager starts from (module Layout), with  *)
(* the hotkeys of the panes.  A run writes a layout, column by column and  *)
(* cell by cell, and loads it; or loads a configuration that has none.     *)
(*                                                                         *)
(* A definition named X_Suffix is a faulty variant of X; see Streams.      *)
(***************************************************************************)
EXTENDS Integers, Sequences, FiniteSets, Functions

CONSTANTS
  PoolKind,    \* [ids of `panels:` -> their type]
  LeftPool,    \* LEFT_HOTKEY_POOL
  RightPool,   \* RIGHT_HOTKEY_POOL
  Cells,       \* cells a run writes: [tabs, active, hotkey ("" when none), collapsed]
  MaxWritten,  \* bound: columns of a layout
  MaxCells     \* bound: cells of a layout

\* A pool names each of its keys once and no key of the other; a cell that the
\* schema lets pass opens on one of its tabs.
ASSUME GridAssumption ==
  /\ LeftPool \in Seq(Range(LeftPool) \ {""}) /\ RightPool \in Seq(Range(RightPool) \ {""})
  /\ IsInjective(LeftPool) /\ IsInjective(RightPool)
  /\ Range(LeftPool) \cap Range(RightPool) = {}
  /\ \A cell \in Cells : cell.tabs \in Seq(Range(cell.tabs)) /\ cell.active \in Range(cell.tabs)

VARIABLE
  grid         \* [written: the columns of the file, state, panes: the columns loaded,
               \*  pool: ids that can be placed -> their type]

\* hotkeyPoolForColumn: the columns in between have none.
HotkeyPoolForColumn(c, n) == IF c = 1 THEN LeftPool ELSE IF c = n THEN RightPool ELSE <<>>

\* The members of a set of numbers of which there are n up to them: one, or none.
Nth(free, n) == {k \in free : Cardinality({m \in free : m <= k}) = n}

\* Cell i of a column is dealt a key after so many of the cells up to it.
Asks(cell) == cell.hotkey # ""
Dealt(column, i) == Cardinality({j \in 1..i : ~Asks(column[j])})

\* assignHotkeys: the keys a cell asks for, then those of the pool that nobody
\* in the column asked for, in order; "" when the pool is used up.
AssignHotkeys_PoolAsIs(column, pool) ==
  LET next(i) == Nth(DOMAIN pool, Dealt(column, i))
  IN  [i \in DOMAIN column |->
         IF Asks(column[i]) THEN column[i].hotkey
         ELSE IF next(i) = {} THEN "" ELSE pool[CHOOSE n \in next(i) : TRUE]]

AssignHotkeys(column, pool) ==
  LET free == {n \in DOMAIN pool : \A i \in DOMAIN column : column[i].hotkey # pool[n]}
      next(i) == Nth(free, Dealt(column, i))
  IN  [i \in DOMAIN column |->
         IF Asks(column[i]) THEN column[i].hotkey
         ELSE IF next(i) = {} THEN "" ELSE pool[CHOOSE n \in next(i) : TRUE]]

\* The places of a grid, and the places of the tabs in its cells.
Sites(columns) == UNION {{c} \X DOMAIN columns[c] : c \in DOMAIN columns}
CellAt(columns, a) == columns[a[1]][a[2]]
TabSites(columns) == UNION {{a} \X DOMAIN CellAt(columns, a).tabs : a \in Sites(columns)}
TabAt(columns, e) == CellAt(columns, e[1]).tabs[e[2]]

\* A tab in two cells, or in one cell twice.
TabTwice(columns) ==
  \E e, f \in TabSites(columns) : e # f /\ TabAt(columns, e) = TabAt(columns, f)

\* assignHotkeys refuses a key two cells of a column ask for; after it, a key
\* may stand for one pane of the whole grid.
KeysOf(columns) ==
  [c \in DOMAIN columns |->
     AssignHotkeys(columns[c], HotkeyPoolForColumn(c, Len(columns)))]

KeyTwice(keys) ==
  \E a, b \in Sites(keys) : a # b /\ CellAt(keys, a) # "" /\ CellAt(keys, a) = CellAt(keys, b)

KeysClash(columns) == KeyTwice(KeysOf(columns))

\* The keys the cells of a file ask for, or the panes of a grid have.
HotkeysIn(columns) ==
  [c \in DOMAIN columns |-> [i \in DOMAIN columns[c] |-> columns[c][i].hotkey]]

\* buildPlacedPane: a pane is named after the tab it opens on, and the one that
\* shows a viewer plays the role of the content.
PlacedPane(cell, key) ==
  [pane |-> cell.active, tabs |-> cell.tabs, active |-> cell.active, hotkey |-> key,
   collapsed |-> cell.collapsed, content |-> PoolKind[cell.active] = "detail"]

TabsOfKind(columns, kind) == {e \in TabSites(columns) : PoolKind[TabAt(columns, e)] = kind}

\* parseLayout, with what validateLayout refuses before it.
Refused(columns) ==
  \/ Sites(columns) = {}
  \/ \E e \in TabSites(columns) : TabAt(columns, e) \notin DOMAIN PoolKind
  \/ TabTwice(columns)
  \/ KeysClash(columns)
  \/ \E a \in Sites(columns) :
       LET cell == CellAt(columns, a) IN
       \/ PoolKind[cell.active] = "detail" /\ cell.collapsed
       \/ Len(cell.tabs) > 1 /\ \E t \in Range(cell.tabs) : PoolKind[t] = "detail"
  \/ TabsOfKind(columns, "detail") = {}
  \/ \E e, f \in TabsOfKind(columns, "actions") : e # f
  \/ \E e \in TabsOfKind(columns, "actions") : e[1][1] < Len(columns)

WriteColumn ==
  /\ grid.state = "writing" /\ Len(grid.written) < MaxWritten
  /\ grid' = [grid EXCEPT !.written = Append(@, <<>>)]

WriteCell(cell) ==
  /\ grid.state = "writing" /\ grid.written # <<>> /\ Cardinality(Sites(grid.written)) < MaxCells
  /\ grid' = [grid EXCEPT !.written[Len(grid.written)] = Append(@, cell)]

\* parse with a layout block.
LoadLayout ==
  /\ grid.state = "writing" /\ grid.written # <<>>
  /\ grid' =
       IF Refused(grid.written) THEN [grid EXCEPT !.state = "refused"]
       ELSE [grid EXCEPT
               !.state = "placed", !.pool = PoolKind,
               !.panes = [c \in DOMAIN grid.written |->
                            [i \in DOMAIN grid.written[c] |->
                               PlacedPane(grid.written[c][i], KeysOf(grid.written)[c][i])]]]

\* defaultLayout: the navigators the configuration has something for, and the
\* actions over the viewer; what `panels:` declares can be placed later.
DefaultPane(id, key) ==
  [pane |-> id, tabs |-> <<id>>, active |-> id, hotkey |-> key, collapsed |-> FALSE,
   content |-> id = "detail"]

LoadDefault(hasContainers, hasFiles) ==
  /\ grid.state = "writing" /\ grid.written = <<>>
  /\ LET ids == (IF hasContainers THEN <<"containers">> ELSE <<>>) \o <<"groups">>
                \o (IF hasFiles THEN <<"files">> ELSE <<>>)
         key == <<"1", "2", "3">>
         own == Range(ids) \cup {"actions", "detail"}
     IN  grid' = [grid EXCEPT
                    !.state = "placed",
                    !.pool = [id \in own \cup DOMAIN PoolKind |->
                                IF id \in own THEN id ELSE PoolKind[id]],
                    !.panes = << [i \in DOMAIN ids |-> DefaultPane(ids[i], key[i])],
                                 << DefaultPane("actions", "7"), DefaultPane("detail", "8") >> >>]

GridInit == grid = [written |-> <<>>, state |-> "writing", panes |-> <<>>, pool |-> <<>>]

GridNext ==
  \/ WriteColumn \/ LoadLayout
  \/ \E cell \in Cells : WriteCell(cell)
  \/ \E hasContainers, hasFiles \in BOOLEAN : LoadDefault(hasContainers, hasFiles)

-----------------------------------------------------------------------------
(* Properties. *)

\* Every grid that loads is one the window manager can start from, which checks
\* none of it again: every tab is of the pool and stands in one place only, no
\* two panes share a name or a hotkey, and a pane opens on one of its tabs;
\* there is a viewer, and a pane that shows one has the role of the content, is
\* never collapsed and holds nothing else; and the actions, if any, are in the
\* last column (parseLayout; panel/layout.js, module Layout, InitColsAssumption).
GridUsable ==
  grid.state = "placed" =>
    LET at == Sites(grid.panes)
        Pane(a) == CellAt(grid.panes, a)
    IN  /\ ~TabTwice(grid.panes) /\ \A a, b \in at : Pane(a).pane = Pane(b).pane => a = b
        /\ ~KeyTwice(HotkeysIn(grid.panes))
        /\ \E a \in at : Pane(a).content
        /\ \A a \in at :
             /\ Pane(a).active \in Range(Pane(a).tabs) /\ Range(Pane(a).tabs) \subseteq DOMAIN grid.pool
             /\ Pane(a).content <=> grid.pool[Pane(a).active] = "detail"
             /\ Pane(a).content => ~Pane(a).collapsed /\ Len(Pane(a).tabs) = 1
             /\ (\E t \in Range(Pane(a).tabs) : grid.pool[t] = "actions") => a[1] = Len(grid.panes)

\* And the keys are dealt out without a quarrel of their own: a layout whose
\* cells ask for different keys, none of them from the pool of another column,
\* is never refused for its hotkeys (assignHotkeys).
KeysDealOut ==
  LET asked == HotkeysIn(grid.written)
      foreign(c) == UNION {Range(HotkeyPoolForColumn(d, Len(grid.written))) :
                             d \in DOMAIN grid.written \ {c}}
  IN  (/\ grid.state = "refused" /\ ~KeyTwice(asked)
       /\ \A a \in Sites(asked) : CellAt(asked, a) \notin foreign(a[1]))
      => ~KeysClash(grid.written)

\* What a layout file promises the window manager, and its writer.
GridSound == GridUsable /\ KeysDealOut
=============================================================================
