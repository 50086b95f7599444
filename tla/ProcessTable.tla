---------------------------- MODULE ProcessTable ----------------------------
(***************************************************************************)
(* The table of processes, its tree and the signals sent from it           *)
(* (js/panel/monitor/table.js, js/leaves/tree/tree.js,                     *)
(* js/leaves/proc/kill-signals.js).  The rows are live: a sync of the      *)
(* metrics adds, drops, re-parents and re-sorts them at any time, and the  *)
(* frame that shows it comes 50 ms later.  The cursor is an index into the *)
(* rows and is not moved by a sync; a click is a row of the last frame; a  *)
(* menu is a pid.                                                          *)
(*                                                                         *)
(* The pane is `killable', has a `tree:' and the focus; its one numeric    *)
(* column is the load.  A pid is a number, and Object.keys yields numeric  *)
(* keys in ascending order.  Every gesture is a chunk of its own, painted  *)
(* when it is over.  The column a fold marker is drawn at is left out.     *)
(*                                                                         *)
(* A definition named X_Suffix is a faulty variant of X; see Streams.      *)
(***************************************************************************)
EXTENDS Integers, Sequences, FiniteSets, SequencesExt

CONSTANTS Pids,        \* the processes there may be
          MaxLoad,     \* loads are 1..MaxLoad, 0 is a value that is not finite
          FirstSync,   \* the sample of each process that the first sync brings
          Matching,    \* the processes the filter finds
          DataRows,    \* dataH: the rows below the sticky header
          MaxSyncs,    \* Bound: syncs after the first
          MaxGestures  \* Bound: what the user does, but for answering a menu

Samples == [parent : {0} \cup Pids, load : 0..MaxLoad]
Tables == UNION {[ps -> Samples] : ps \in SUBSET Pids}

ASSUME TableAssumption ==
  /\ Pids \subseteq Nat \ {0} /\ MaxLoad \in Nat /\ Matching \subseteq Pids
  /\ FirstSync \in Tables
  /\ DataRows \in Nat \ {0} /\ MaxSyncs \in Nat /\ MaxGestures \in Nat

VARIABLES
  procs,     \* model.metrics[topic]: the latest sample of every process
  table,     \* the slice: [tree, folded, cursor, scroll, filter, sort]
  drawn,     \* what the last paint drew: [rows, sel, from, marks]
  menu,      \* [kind, pid, aim]: the open menu, and the pid its opener pointed at
  typing,    \* filterMode
  sent,      \* the last signal: [pid, aim]
  syncs, gestures

tableVars == <<procs, table, drawn, menu, typing, sent, syncs, gestures>>

\* An aim of 0: the frame the user pointed at was not that of the model.
NoMenu == [kind |-> "none", pid |-> 0, aim |-> 0]

-----------------------------------------------------------------------------
\* The order of the rows.  A value that is not finite sinks, either way.
Weight(m, p, sort) == IF m[p].load = 0 /\ sort = "up" THEN MaxLoad + 1 ELSE m[p].load

SortedKeys(m, sort) ==
  SetToSortSeq(DOMAIN m, LAMBDA p, q :
    LET v == Weight(m, p, sort)
        w == Weight(m, q, sort)
    IN  CASE sort = "none" \/ v = w -> p < q
          [] sort = "up" -> v < w
          [] sort = "down" -> v > w)

\* Who each row is below: 0 for a root, as one whose parent is itself, or no row.
ParentOf(m) ==
  [p \in DOMAIN m |-> IF m[p].parent \in DOMAIN m \ {p} THEN m[p].parent ELSE 0]

\* Every row above p, and 0 when they lead to a root.
Above(par, p) ==
  LET up[n \in 0..Cardinality(DOMAIN par)] ==
        IF n = 0 THEN {par[p]} ELSE up[n - 1] \cup {par[q] : q \in up[n - 1] \ {0}}
  IN  up[Cardinality(DOMAIN par)]

\* The first row of a cycle in the order is made a root, after the others.
BreakCycles(order, par) ==
  FoldLeft(LAMBDA f, p : IF 0 \in Above(f.par, p) THEN f
                         ELSE [par |-> [f.par EXCEPT ![p] = 0], roots |-> Append(f.roots, p)],
           [par |-> par, roots |-> SelectSeq(order, LAMBDA p : par[p] = 0)], order)

ChildrenOf(order, par, p) == SelectSeq(order, LAMBDA c : par[c] = p)

OrderDfs(order, forest) ==
  LET tree[n \in 0..Len(order), p \in DOMAIN forest.par] ==
        LET kids == ChildrenOf(order, forest.par, p)
        IN  <<p>> \o (IF n = 0 THEN <<>> ELSE FlattenSeq([i \in DOMAIN kids |-> tree[n - 1, kids[i]]]))
  IN  FlattenSeq([i \in DOMAIN forest.roots |-> tree[Len(order), forest.roots[i]]])

ForestOf(t, m) == BreakCycles(SortedKeys(m, t.sort), ParentOf(m))

\* The tree with what is below a folded row left out.
TreeRows(t, m) ==
  LET forest == ForestOf(t, m)
  IN  SelectSeq(OrderDfs(SortedKeys(m, t.sort), forest), LAMBDA p : Above(forest.par, p) \cap t.folded = {})

TreeActive(t) == t.tree /\ ~t.filter

ItemsOf(t, m) ==
  IF TreeActive(t) THEN TreeRows(t, m)
  ELSE IF t.filter THEN SelectSeq(SortedKeys(m, t.sort), LAMBDA p : p \in Matching)
  ELSE SortedKeys(m, t.sort)

-----------------------------------------------------------------------------
\* Indices are those of the code, from 0.
Within(i, rows) == IF i > Len(rows) - 1 THEN Len(rows) - 1 ELSE IF i < 0 THEN 0 ELSE i

\* The row of the cursor, which a list that shrank may have left behind; 0 for none.
Highlighted(t, m) ==
  LET rows == ItemsOf(t, m) IN IF rows = <<>> THEN 0 ELSE rows[Within(t.cursor, rows) + 1]

\* The scroll that has row sel in a window of h rows.
Scrolled(scroll, sel, h) ==
  IF sel < scroll THEN sel ELSE IF sel >= scroll + h THEN sel - h + 1 ELSE scroll

\* render: its own clamp, below the header; then the markers of the rows drawn.
Render(t, m) ==
  LET rows == ItemsOf(t, m)
      sel == Within(t.cursor, rows)
      most == IF Len(rows) > DataRows THEN Len(rows) - DataRows ELSE 0
      scroll == Scrolled(t.scroll, sel, DataRows)
      from == IF scroll > most THEN most ELSE scroll
      par == ForestOf(t, m).par
  IN  IF rows = <<>> THEN [rows |-> <<>>, sel |-> 0, from |-> 0, marks |-> {}]
      ELSE [rows |-> rows, sel |-> sel, from |-> from,
            marks |-> IF ~TreeActive(t) THEN {}
                      ELSE {i \in from..(from + DataRows - 1) :
                              i < Len(rows) /\ \E c \in DOMAIN m : par[c] = rows[i + 1]}]

\* _rowIndexAt: row y of the inside of the pane, below the header of the last frame.
\* A frame without rows had no header, and nothing to scroll.
RowIndexAt(y) ==
  CASE drawn.rows = <<>> -> y + table.scroll
    [] drawn.rows # <<>> /\ y = 0 -> -1
    [] drawn.rows # <<>> /\ y > 0 -> y - 1 + drawn.from

HitRow(y) == RowIndexAt(y) \in 0..(Len(ItemsOf(table, procs)) - 1)
Pointed(y) == ItemsOf(table, procs)[RowIndexAt(y) + 1]

\* What the user means: the row of the last frame, if that was the model's.
IsFresh == drawn = Render(table, procs)
AimedRow(y) == IF IsFresh /\ RowIndexAt(y) + 1 \in DOMAIN drawn.rows
               THEN drawn.rows[RowIndexAt(y) + 1] ELSE 0
AimedHighlight == IF IsFresh /\ drawn.rows # <<>> THEN drawn.rows[drawn.sel + 1] ELSE 0

-----------------------------------------------------------------------------
TableInit ==
  /\ procs = FirstSync
  /\ \E sort \in {"none", "down"} :    \* the `sort:' of the pane
       table = [tree |-> TRUE, folded |-> {}, cursor |-> 0, scroll |-> 0, filter |-> FALSE, sort |-> sort]
  /\ drawn = Render(table, procs)
  /\ menu = NoMenu /\ typing = FALSE /\ sent = [pid |-> 0, aim |-> 0]
  /\ syncs = 0 /\ gestures = 0

\* metrics_synced: what one sync brings differs in a row; the frame is scheduled.
MetricsSynced ==
  /\ syncs < MaxSyncs /\ syncs' = syncs + 1
  /\ \E p \in Pids :
       \/ p \in DOMAIN procs /\ procs' = [q \in DOMAIN procs \ {p} |-> procs[q]]
       \/ \E s \in Samples : procs' = [q \in DOMAIN procs \cup {p} |-> IF q = p THEN s ELSE procs[q]]
  /\ UNCHANGED <<table, drawn, menu, typing, sent, gestures>>

TableFrame ==
  /\ drawn' = Render(table, procs)
  /\ UNCHANGED <<procs, table, menu, typing, sent, syncs, gestures>>

\* No menu owns the input, nor does the filter.
InTable == gestures < MaxGestures /\ menu = NoMenu
Listening == InTable /\ ~typing /\ UNCHANGED <<menu, typing>>

\* A gesture on the table, which gives it the slice t, and is painted.
Gesture(t) ==
  /\ gestures' = gestures + 1 /\ table' = t /\ drawn' = Render(t, procs)
  /\ UNCHANGED <<procs, sent, syncs>>

\* set_cursor, and the scroll the finalizer gives the pane, without its header.
CursorAt(t, i) == [t EXCEPT !.cursor = i, !.scroll = Scrolled(@, i, DataRows + 1)]

\* moveSel: from the row that is highlighted.
KeyMoves ==
  /\ Listening
  /\ LET rows == ItemsOf(table, procs)
         sel == IF table.cursor < Len(rows) THEN table.cursor ELSE Len(rows) - 1
     IN  /\ rows # <<>>
         /\ \E i \in {Within(sel - 1, rows), Within(sel + 1, rows)} \ {sel} : Gesture(CursorAt(table, i))

\* Pages, ends and the wheel: from the index the cursor has.
Jumps ==
  /\ Listening
  /\ LET rows == ItemsOf(table, procs)
         steps == {-DataRows - 1, -1, 1, DataRows + 1}
     IN  /\ rows # <<>>
         /\ \E i \in ({0, Len(rows) - 1} \cup {Within(table.cursor + d, rows) : d \in steps}) \ {table.cursor} :
              Gesture(CursorAt(table, i))

\* t, and the chip of the top border.
ToggleMode == Listening /\ Gesture([table EXCEPT !.tree = ~@])

ToggleFold(t, p) == [t EXCEPT !.folded = IF p \in @ THEN @ \ {p} ELSE @ \cup {p}]

\* z, while the tree shows.
KeyFold ==
  /\ Listening /\ TreeActive(table)
  /\ LET p == Highlighted(table, procs) IN p # 0 /\ Gesture(ToggleFold(table, p))

\* A press on a fold marker of the last frame folds the row it was drawn for.
PressMarker == Listening /\ \E i \in drawn.marks : Gesture(ToggleFold(table, drawn.rows[i + 1]))

\* A press on a row selects it.
PressRow(y) == Listening /\ HitRow(y) /\ Gesture(CursorAt(table, RowIndexAt(y)))

\* The chip of the top border: the column or none; turned round, if there is one.
SortNext(sort) == IF sort = "none" THEN "up" ELSE "none"
SortReverse(sort) == CASE sort = "none" -> "none" [] sort = "up" -> "down" [] sort = "down" -> "up"
SortChip ==
  /\ Listening
  /\ \E s \in {SortNext(table.sort), SortReverse(table.sort)} \ {table.sort} : Gesture([table EXCEPT !.sort = s])

\* The filter is typed into the dialog, and filters when it is committed.
FilterOpens == InTable /\ ~typing /\ typing' = TRUE /\ Gesture(table) /\ UNCHANGED menu
FilterTyped == InTable /\ typing /\ Gesture(CursorAt(table, 0)) /\ UNCHANGED <<menu, typing>>
FilterDone ==
  /\ InTable /\ typing /\ typing' = FALSE /\ UNCHANGED menu
  /\ \E keep \in BOOLEAN : Gesture([table EXCEPT !.filter = keep, !.cursor = 0, !.scroll = 0])

-----------------------------------------------------------------------------
\* The signals.  The menu is for one pid, and for none that must not be signalled.
IsSignalable(pid) == pid > 1

SignalMenu(pid, aim) ==
  IF IsSignalable(pid) THEN [kind |-> "signals", pid |-> pid, aim |-> aim] ELSE NoMenu

Asks == InTable /\ ~typing /\ UNCHANGED typing /\ Gesture(table)

\* K, and the chip of the bottom border.
KeyKill ==
  /\ Asks
  /\ LET p == Highlighted(table, procs) IN p # 0 /\ menu' = SignalMenu(p, AimedHighlight)

\* The context menu of a row offers Kill.
RightClick(y) == Asks /\ HitRow(y) /\ menu' = [kind |-> "context", pid |-> Pointed(y), aim |-> AimedRow(y)]

Answers == UNCHANGED <<procs, table, typing, syncs, gestures>> /\ drawn' = Render(table, procs)

\* pane_item_action: the item of the row of the menu goes to the pane.
PickKill == menu.kind = "context" /\ menu' = SignalMenu(menu.pid, menu.aim) /\ Answers /\ UNCHANGED sent

PickSignal_AtCursor ==
  /\ menu.kind = "signals" /\ menu' = NoMenu /\ Answers
  /\ sent' = [pid |-> Highlighted(table, procs), aim |-> menu.aim]

\* kill_signal.
PickSignal ==
  /\ menu.kind = "signals" /\ menu' = NoMenu /\ Answers
  /\ sent' = [pid |-> menu.pid, aim |-> menu.aim]

CloseMenu == menu # NoMenu /\ menu' = NoMenu /\ Answers /\ UNCHANGED sent

TableNext ==
  \/ MetricsSynced \/ TableFrame
  \/ KeyMoves \/ Jumps \/ ToggleMode \/ KeyFold \/ PressMarker \/ SortChip
  \/ FilterOpens \/ FilterTyped \/ FilterDone
  \/ \E y \in 0..DataRows : PressRow(y) \/ RightClick(y)
  \/ KeyKill \/ PickKill \/ PickSignal \/ CloseMenu

-----------------------------------------------------------------------------
(* Properties.                                                             *)

\* A signal goes to the process that was highlighted, or under the pointer, when
\* the menu was asked for, however the rows were sorted, folded, filtered and
\* synced since; and never to init (table.js:222).  Out of it: a menu asked for
\* in the 50 ms before a frame shows a sync.
SignalIsAimed ==
  /\ sent.aim # 0 => sent.pid = sent.aim
  /\ sent.pid # 1

\* The same with no exception.  It does not hold (README, section 5).
SignalIsSeen == [][menu = NoMenu /\ menu' # NoMenu => menu'.pid = menu'.aim]_tableVars

\* The tree of any table of processes, parent cycles included (tree.js:35):
\* unfolded it has every row once; a row that leads to a root follows its parent,
\* with only rows below the same parent in between; siblings are in the order of
\* the flat list; and a row is missing only below a folded one.  A row below a
\* cycle may be torn off its parent instead (README, section 5).
TreeIsWhole(t, m) ==
  LET order == SortedKeys(m, t.sort)
      rows == TreeRows(t, m)
      par == ParentOf(m)
      at(s, p) == CHOOSE i \in DOMAIN s : s[i] = p
      shown == {rows[i] : i \in DOMAIN rows}
      sound == {p \in DOMAIN m : 0 \in Above(par, p)}
  IN  /\ Len(rows) = Cardinality(shown)
      /\ \A p \in DOMAIN m \ shown : Above(par, p) \cap t.folded # {}
      /\ \A p \in sound \cap shown : par[p] # 0 =>
           /\ par[p] \in shown \ t.folded /\ at(rows, par[p]) < at(rows, p)
           /\ \A i \in (at(rows, par[p]) + 1)..at(rows, p) : par[p] \in Above(par, rows[i])
           /\ \A q \in sound \cap shown :
                par[q] = par[p] /\ at(order, q) < at(order, p) => at(rows, q) < at(rows, p)
=============================================================================
