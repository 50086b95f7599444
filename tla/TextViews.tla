----------------------------- MODULE TextViews ------------------------------
(***************************************************************************)
(* Selecting and searching text that is still being written                *)
(* (panel/text-view/text-view.js, leaves/text, panel/select-view.js and    *)
(* the mouse of dispatch/control/input.js).  The output of an action is a  *)
(* ring of lines in the slice of its tab; a selection is a pair of indices *)
(* into it.  The mouse aims at what was painted last, the Msgs it sends    *)
(* act on the slice, and lines arrive and fall off in between.             *)
(*                                                                         *)
(* Lines are numbered as they are made, even ones match the search term,   *)
(* and every line has two columns.  Every pane is on the screen, its       *)
(* height may change, and keys may reach any of them (the focus is in      *)
(* Layout).  The spinner row below a running action is left out, and so is *)
(* the mode of `output: append', which no configuration reaches.           *)
(*                                                                         *)
(* A definition named X_Suffix is a faulty variant of X; see Streams.      *)
(***************************************************************************)
EXTENDS Integers, FiniteSets, Sequences, SequencesExt

CONSTANTS Tabs,          \* text-view instances
          Columns,       \* panes
          ColumnOf,      \* the pane each tab belongs to
          Tall,          \* the inner heights a pane may have
          Seeds,         \* per tab, the lines it opens with
          RingCap,       \* slice.cap
          MaxLineId,     \* Bound: lines ever made
          MaxGestures    \* Bound: inputs, and what else is not output

SeedLines == UNION {Range(Seeds[t]) : t \in Tabs}

ASSUME TextAssumption ==
  /\ ColumnOf \in [Tabs -> Columns] /\ \A c \in Columns : \E t \in Tabs : ColumnOf[t] = c
  /\ "" \notin Tabs \cup Columns
  /\ Tall \subseteq Nat /\ \E h \in Tall : \A g \in Tall : g <= h
  /\ Seeds \in [Tabs -> Seq(Nat)]
  /\ \A t \in Tabs : \A i, j \in DOMAIN Seeds[t] : i < j => Seeds[t][i] < Seeds[t][j]
  /\ IsFiniteSet(SeedLines) /\ SeedLines = 1..Cardinality(SeedLines)
  /\ RingCap \in Nat \ {0}

VARIABLES
  views,      \* per tab, its slice: [lines, scroll, sel, search]
  front,      \* per pane, its active tab
  tall,       \* per pane, its inner height
  drawn,      \* per pane, what the last paint recorded: [of, lines, scroll, window]
  armed,      \* _armedSelect, and whether its line and its press are still what they were
  held,       \* the button is down
  veiled,     \* a dialog owns the input
  seeking,    \* detailSearchMode, and the pane it is for ("" when off)
  register,   \* the last text pushed, and what the user had chosen
  marks,      \* per tab, the lines the user set the ends of its selection to
  made,       \* lines made so far
  gestures    \* counted by MaxGestures

textVars == <<views, front, tall, drawn, armed, held, veiled, seeking, register, marks, made, gestures>>

NoArm == [pane |-> "", of |-> "", line |-> 0, col |-> 0, id |-> 0, slipped |-> FALSE, stale |-> FALSE]
NoMarks == [from |-> 0, to |-> 0, odd |-> FALSE]
NoSearch == [term |-> FALSE, typing |-> FALSE, active |-> FALSE, idx |-> 0]
At(line, col) == [line |-> line, col |-> col]
\* The cursor of the keyboard (`at') counts only while a selection is active:
\* beginning one stamps it.
NoSelection == [kind |-> "none", anchor |-> At(0, 0), cursor |-> At(0, 0), at |-> At(0, 0)]

Floor(n) == IF n < 0 THEN 0 ELSE n
Clamped(n, top) == IF n > top THEN Floor(top) ELSE Floor(n)
Bottom(s, h) == Floor(Len(s.lines) - h)
IsSelecting(s) == s.sel.kind # "none"

-----------------------------------------------------------------------------
\* The shared selection machine, on the slice of a content pane.
Begun(s, line, col, kind) ==
  LET c == At(Clamped(line, Len(s.lines) - 1), col)
  IN  [s EXCEPT !.sel = [kind |-> kind, anchor |-> c, cursor |-> c, at |-> c]]

Extended(s, line, col) ==
  IF IsSelecting(s) THEN [s EXCEPT !.sel.cursor = At(Clamped(line, Len(s.lines) - 1), col)] ELSE s

Deselected(s) == [s EXCEPT !.sel = NoSelection]

\* The lines a selection covers, 0 for one that is not there.
SelectedText(lines, sel) ==
  LET first == IF sel.anchor.line < sel.cursor.line THEN sel.anchor.line ELSE sel.cursor.line
      last == IF sel.anchor.line < sel.cursor.line THEN sel.cursor.line ELSE sel.anchor.line
  IN  [i \in 1..(last - first + 1) |-> IF first + i <= Len(lines) THEN lines[first + i] ELSE 0]
IsText(text) == text \notin {<<>>, <<0>>}

MovedTo(s, line, col, h) ==
  [s EXCEPT !.sel.at = At(line, col), !.sel.cursor = At(line, col),
            !.scroll = IF line < @ THEN line ELSE IF line >= @ + h THEN line - h + 1 ELSE @]

Moved(s, down, right, h) ==
  IF s.lines = <<>> THEN s
  ELSE MovedTo(s, Clamped(s.sel.at.line + down, Len(s.lines) - 1), Clamped(s.sel.at.col + right, 1), h)

Scrolled(s, to, h) == [s EXCEPT !.scroll = Clamped(to, Bottom(s, h))]

-----------------------------------------------------------------------------
IsHit(line) == line % 2 = 0

\* The members of a set of numbers, in increasing order.
Ranked(at) == [n \in 1..Cardinality(at) |-> CHOOSE i \in at : Cardinality({j \in at : j <= i}) = n]

\* Search.  The matches are derived from the lines; the slice keeps an index
\* into them.
Matches(lines, term) ==
  IF term THEN Ranked({i \in 0..(Len(lines) - 1) : IsHit(lines[i + 1])}) ELSE <<>>

ToMatch(s, h, term) ==
  LET found == Matches(s.lines, term)
      line == found[s.search.idx + 1]
  IN  IF s.search.idx >= Len(found) \/ line \in s.scroll..(s.scroll + h - 1) THEN s
      ELSE Scrolled(s, line - (h \div 2), h)

NextMatch(s, h, term) ==
  LET n == Len(Matches(s.lines, term))
  IN  IF n = 0 THEN s
      ELSE ToMatch([s EXCEPT !.search.idx = IF @ < n THEN (@ + 1) % n ELSE 0], h, term)

PreviousMatch(s, h, term) ==
  LET n == Len(Matches(s.lines, term))
  IN  IF n = 0 THEN s
      ELSE ToMatch([s EXCEPT !.search.idx = ((IF @ < n THEN @ ELSE 1) - 1 + n) % n], h, term)

SearchEntered(s) == [s EXCEPT !.search.typing = s.search.term, !.search.idx = 0]
SearchTyped(s, typing) == [s EXCEPT !.search.typing = typing, !.search.idx = 0]
SearchCancelled(s) ==
  [s EXCEPT !.search = [@ EXCEPT !.typing = FALSE, !.idx = 0, !.active = s.search.active /\ s.search.term]]
SearchCommitted(s, h) ==
  LET found == Matches(s.lines, s.search.typing) # <<>>
      next == [s EXCEPT !.search = [@ EXCEPT !.term = s.search.typing, !.idx = 0, !.active = found]]
  IN  IF found THEN ToMatch(next, h, TRUE) ELSE next
SearchCleared(s) == [s EXCEPT !.search = NoSearch]

-----------------------------------------------------------------------------
\* Lines arrive at the tail; the ring drops from the front, and every index
\* the slice holds moves with its line.
Shifted(c, n) == At(Floor(c.line - n), c.col)

AppendLines_SelectionStays(s, added, h) ==
  LET all == s.lines \o added
      dropped == Floor(Len(all) - RingCap)
      kept == SubSeq(all, dropped + 1, Len(all))
  IN  [s EXCEPT !.lines = kept,
                !.scroll = IF @ >= Bottom(s, h) THEN Floor(Len(kept) - h) ELSE Floor(@ - dropped)]

AppendLines(s, added, h) ==
  LET all == s.lines \o added
      dropped == Floor(Len(all) - RingCap)
      kept == SubSeq(all, dropped + 1, Len(all))
  IN  [s EXCEPT !.lines = kept,
                !.scroll = IF @ >= Bottom(s, h) THEN Floor(Len(kept) - h) ELSE Floor(@ - dropped),
                !.sel = IF IsSelecting(s)
                        THEN [kind |-> s.sel.kind, anchor |-> Shifted(s.sel.anchor, dropped),
                              cursor |-> Shifted(s.sel.cursor, dropped), at |-> Shifted(s.sel.at, dropped)]
                        ELSE @]

-----------------------------------------------------------------------------
\* What a paint records for the mouse (recordContent).
Capture(vs, fr, tl) ==
  [c \in Columns |->
     LET s == vs[fr[c]]
     IN  [of |-> fr[c], lines |-> s.lines, scroll |-> s.scroll,
          window |-> SubSeq(s.lines, s.scroll + 1, Clamped(s.scroll + tl[c], Len(s.lines)))]]

Repaint == drawn' = Capture(views', front', tall')

\* The content under a row of the screen, as painted: none on the frame or
\* below the last line, unless the row is pinned to the nearest one.
ContentRow(c, row, pinned) ==
  LET rows == Len(drawn[c].window)
      at == IF pinned THEN Clamped(row, rows - 1) ELSE row
  IN  IF at \in 0..(rows - 1) THEN {at} ELSE {}
PointedLine(c, row) == drawn[c].scroll + row
PointedId(c, row) == drawn[c].window[row + 1]

\* The paint is of this tab, and nothing fell off since.
Fresh(c) == drawn[c].of = front[c] /\ IsPrefix(drawn[c].lines, views[front[c]].lines)

\* The lines of a tab between the two the user set.
ChosenText(t) ==
  LET m == marks[t]
      lines == views[t].lines
      at == Ranked({i \in DOMAIN lines : lines[i] \in m.from..m.to \cup m.to..m.from})
  IN  [n \in DOMAIN at |-> lines[at[n]]]

\* The selection of a pane, read in the lines the last paint recorded.
PaintedText(c) ==
  IF IsSelecting(views[front[c]]) THEN SelectedText(drawn[c].lines, views[front[c]].sel)
  ELSE <<>>

Pushed(t, text, odd) ==
  register' = [text |-> text, chosen |-> IF odd THEN text ELSE ChosenText(t)]

Counts == gestures < MaxGestures /\ gestures' = gestures + 1
Listens == ~veiled /\ seeking = ""

-----------------------------------------------------------------------------
TextInit ==
  /\ views = [t \in Tabs |-> [lines |-> Seeds[t], scroll |-> 0, sel |-> NoSelection, search |-> NoSearch]]
  /\ front = [c \in Columns |-> CHOOSE t \in Tabs : ColumnOf[t] = c]
  /\ tall = [c \in Columns |-> CHOOSE h \in Tall : \A g \in Tall : g <= h]
  /\ drawn = Capture(views, front, tall)
  /\ armed = NoArm /\ held = FALSE /\ veiled = FALSE /\ seeking = ""
  /\ register = [text |-> <<>>, chosen |-> <<>>]
  /\ marks = [t \in Tabs |-> NoMarks]
  /\ made = Cardinality(SeedLines)
  /\ gestures = 0

ActiveSelections == {t \in Tabs : front[ColumnOf[t]] = t /\ IsSelecting(views[t])}

\* A line a press was armed on has another index now, or is gone.
Slipped(t) == IF armed.of = t THEN [armed EXCEPT !.slipped = TRUE] ELSE armed

\* Output reaches a tab, shown or not; the frame that shows it comes later.
Printed(t) ==
  \E n \in 1..2 :
    /\ made + n <= MaxLineId /\ made' = made + n
    /\ LET s == AppendLines(views[t], [i \in 1..n |-> made + i], tall[ColumnOf[t]])
           kept == {s.lines[i] : i \in 1..Len(s.lines)}
       IN  /\ views' = [views EXCEPT ![t] = s]
           /\ armed' = IF IsPrefix(views[t].lines, s.lines) THEN armed ELSE Slipped(t)
           /\ marks' = [marks EXCEPT ![t].odd = @ \/ (IsSelecting(s) /\ marks[t].from \notin kept
                                                                     /\ marks[t].to \notin kept)]
    /\ UNCHANGED <<front, tall, drawn, held, veiled, seeking, register, gestures>>

\* The action runs again: its tab starts over.
Reseeded(t) ==
  /\ Counts /\ made < MaxLineId /\ made' = made + 1
  /\ views' = [views EXCEPT ![t] = [lines |-> <<made + 1>>, scroll |-> 0, sel |-> NoSelection, search |-> NoSearch]]
  /\ marks' = [marks EXCEPT ![t] = NoMarks]
  /\ armed' = Slipped(t)
  /\ UNCHANGED <<front, tall, drawn, held, veiled, seeking, register>>

\* The content of an opened file replaces its placeholder.
Replaced(t) ==
  /\ Counts
  /\ \E n \in 0..1 :
       /\ made + n <= MaxLineId /\ made' = made + n
       /\ views' = [views EXCEPT ![t].lines = [i \in 1..n |-> made + i], ![t].scroll = 0]
  /\ marks' = [marks EXCEPT ![t].odd = IsSelecting(views[t])]
  /\ armed' = Slipped(t)
  /\ UNCHANGED <<front, tall, drawn, held, veiled, seeking, register>>

Frame ==
  /\ UNCHANGED <<views, front, tall, armed, held, veiled, seeking, register, marks, made, gestures>>
  /\ Repaint

ShowTab(t) ==
  /\ Counts /\ front[ColumnOf[t]] # t
  /\ front' = [front EXCEPT ![ColumnOf[t]] = t]
  /\ UNCHANGED <<views, tall, drawn, armed, held, veiled, seeking, register, marks, made>>

Heightened(c) ==
  /\ Counts
  /\ \E h \in Tall \ {tall[c]} : tall' = [tall EXCEPT ![c] = h]
  /\ UNCHANGED <<views, front, armed, held, veiled, seeking, register, marks, made>>
  /\ Repaint

Veiled ==
  /\ Counts /\ veiled' = ~veiled
  /\ UNCHANGED <<views, front, tall, drawn, armed, held, seeking, register, marks, made>>

\* Another group: every selection goes, of hidden tabs too.
SelectCancelAll ==
  /\ Counts
  /\ views' = [t \in Tabs |-> Deselected(views[t])]
  /\ marks' = [t \in Tabs |-> NoMarks]
  /\ UNCHANGED <<front, tall, drawn, armed, held, veiled, seeking, register, made>>

-----------------------------------------------------------------------------
\* The mouse.  A press cancels the selections of the active tabs and arms one
\* on selectable content; what owns the input or its border glyphs take it
\* before that, and leave an old arm alone.
MousePress(c) ==
  /\ Counts /\ ~held /\ held' = TRUE /\ Listens
  /\ views' = [t \in Tabs |-> IF t \in ActiveSelections THEN Deselected(views[t]) ELSE views[t]]
  /\ marks' = [t \in Tabs |-> IF t \in ActiveSelections THEN NoMarks ELSE marks[t]]
  /\ \E row \in 0..(tall[c] - 1) :
       armed' = IF ContentRow(c, row, FALSE) = {} THEN NoArm
                ELSE [pane |-> c, of |-> front[c], line |-> PointedLine(c, row), col |-> 0,
                      id |-> PointedId(c, row), slipped |-> ~Fresh(c), stale |-> FALSE]
  /\ UNCHANGED <<front, tall, veiled, seeking, register, made>>
  /\ Repaint

PressTaken ==
  /\ Counts /\ ~held /\ held' = TRUE
  /\ armed' = IF armed = NoArm THEN NoArm ELSE [armed EXCEPT !.stale = TRUE]
  /\ UNCHANGED <<views, front, tall, drawn, veiled, seeking, register, marks, made>>

\* The gesture is no longer the one that armed: another press, or another tab.
Strayed == armed.stale \/ armed.of # front[armed.pane]

\* The first motion begins the selection at the arm, and each extends it, of
\* the armed pane whatever pane the pointer is over.
Motion ==
  /\ Counts /\ held /\ Listens /\ armed # NoArm
  /\ \E row \in 0..(tall[armed.pane] - 1), col \in 0..1 :
       LET c == armed.pane
           t == front[c]
           begins == ~IsSelecting(views[t])
           s == IF begins THEN Begun(views[t], armed.line, armed.col, "char") ELSE views[t]
           from == IF begins THEN [from |-> armed.id, to |-> armed.id, odd |-> armed.slipped] ELSE marks[t]
           hit == ContentRow(c, row, TRUE)
       IN  /\ views' = [views EXCEPT ![t] =
                          IF hit = {} THEN s ELSE Extended(s, PointedLine(c, CHOOSE r \in hit : TRUE), col)]
           /\ marks' = [marks EXCEPT ![t] =
                          [from |-> from.from, odd |-> from.odd \/ Strayed \/ ~Fresh(c),
                           to |-> IF hit = {} THEN from.to ELSE PointedId(c, CHOOSE r \in hit : TRUE)]]
  /\ UNCHANGED <<front, tall, armed, held, veiled, seeking, register, made>>
  /\ Repaint

\* A drag is copied, from the content recorded by the last paint, and stays
\* highlighted; a click leaves nothing.
Release ==
  /\ held /\ held' = FALSE
  /\ UNCHANGED <<front, tall, veiled, seeking, made, gestures>>
  /\ IF ~Listens \/ armed = NoArm
     THEN UNCHANGED <<views, drawn, armed, register, marks>>
     ELSE LET c == armed.pane
              t == front[c]
              sel == views[t].sel
              text == IF sel.anchor = sel.cursor THEN <<>> ELSE PaintedText(c)
          IN  /\ armed' = NoArm
              /\ IF ~IsSelecting(views[t])
                 THEN UNCHANGED <<views, drawn, register, marks>>
                 ELSE /\ IF IsText(text)
                         THEN Pushed(t, text, marks[t].odd \/ Strayed \/ ~Fresh(c)) /\ UNCHANGED <<views, marks>>
                         ELSE /\ views' = [views EXCEPT ![t] = Deselected(@)]
                              /\ marks' = [marks EXCEPT ![t] = NoMarks]
                              /\ UNCHANGED register
                      /\ Repaint

\* The menu of a right click offers the selection of the pane under it, or
\* else the one of another pane, as the click found it.
SelectedPanes(c) == IF IsText(PaintedText(c)) THEN {c} ELSE {d \in Columns : IsText(PaintedText(d))}
CopySelection(c) ==
  /\ Counts /\ Listens /\ ~held
  /\ \E d \in SelectedPanes(c) :
       Pushed(front[d], PaintedText(d), marks[front[d]].odd \/ ~Fresh(d))
  /\ UNCHANGED <<views, front, tall, armed, held, veiled, seeking, marks, made>>
  /\ Repaint

\* The wheel over a pane, or a page or an end key in it.
Scroll(c) ==
  /\ Counts /\ Listens
  /\ \E to \in {0, views[front[c]].scroll - 1, views[front[c]].scroll + 1, RingCap} :
       views' = [views EXCEPT ![front[c]] = Scrolled(@, to, tall[c])]
  /\ views' # views
  /\ UNCHANGED <<front, tall, armed, held, veiled, seeking, register, marks, made>>
  /\ Repaint

-----------------------------------------------------------------------------
\* The keys a content pane claims.
KeyOf(c) == Counts /\ Listens /\ UNCHANGED <<front, tall, armed, held, veiled, made>> /\ Repaint
InView(c, s) == views' = [views EXCEPT ![front[c]] = s]

KeySlash(c) ==
  /\ InView(c, SearchEntered(views[front[c]])) /\ seeking' = c
  /\ KeyOf(c) /\ UNCHANGED <<register, marks>>

KeyMatch(c) ==
  LET s == views[front[c]]
  IN  /\ s.search.active
      /\ \E u \in {NextMatch(s, tall[c], s.search.term), PreviousMatch(s, tall[c], s.search.term)}
                  \cup (IF IsSelecting(s) THEN {} ELSE {SearchCleared(s)}) : InView(c, u)
      /\ KeyOf(c) /\ UNCHANGED <<seeking, register, marks>>

\* v and V: off when that kind is on, else begun at the top of the view.
KeyVisual(c, kind) ==
  LET t == front[c]
      s == views[t]
      top == IF s.scroll < Len(s.lines) THEN s.lines[s.scroll + 1] ELSE 0
  IN  /\ IF s.sel.kind = kind
         THEN InView(c, Deselected(s)) /\ marks' = [marks EXCEPT ![t] = NoMarks]
         ELSE /\ InView(c, Begun(s, s.scroll, 0, kind))
              /\ marks' = [marks EXCEPT ![t] = [from |-> top, to |-> top, odd |-> top = 0]]
      /\ KeyOf(c) /\ UNCHANGED <<seeking, register>>

KeyYank(c) ==
  LET t == front[c]
      text == SelectedText(views[t].lines, views[t].sel)
  IN  /\ IsSelecting(views[t])
      /\ InView(c, Deselected(views[t])) /\ marks' = [marks EXCEPT ![t] = NoMarks]
      /\ IF IsText(text) THEN Pushed(t, text, marks[t].odd) ELSE UNCHANGED register
      /\ KeyOf(c) /\ UNCHANGED seeking

KeyEscape(c) ==
  /\ IsSelecting(views[front[c]])
  /\ InView(c, Deselected(views[front[c]])) /\ marks' = [marks EXCEPT ![front[c]] = NoMarks]
  /\ KeyOf(c) /\ UNCHANGED <<seeking, register>>

\* j, k, h, l, 0 and $ move the cursor while a selection is active.
KeyMove(c) ==
  LET t == front[c]
      s == views[t]
  IN  /\ IsSelecting(s)
      /\ \E d \in {<<1, 0>>, <<-1, 0>>, <<0, -1>>, <<0, 1>>} :
           LET u == Moved(s, d[1], d[2], tall[c])
           IN  /\ InView(c, u)
               /\ marks' = [marks EXCEPT ![t].to =
                              IF u.lines = <<>> THEN @ ELSE u.lines[u.sel.cursor.line + 1]]
      /\ KeyOf(c) /\ UNCHANGED <<seeking, register>>

-----------------------------------------------------------------------------
\* The keys while the term is typed; they reach the tab that is active then.
SearchKey ==
  /\ Counts /\ seeking # "" /\ ~veiled
  /\ LET c == seeking
         s == views[front[c]]
     IN  \/ /\ \E u \in {SearchTyped(s, TRUE), SearchTyped(s, FALSE), NextMatch(s, tall[c], s.search.typing),
                         PreviousMatch(s, tall[c], s.search.typing)} : InView(c, u)
            /\ UNCHANGED seeking
         \/ /\ \E u \in {SearchCancelled(s), SearchCommitted(s, tall[c])} : InView(c, u)
            /\ seeking' = ""
  /\ UNCHANGED <<front, tall, armed, held, veiled, register, marks, made>>
  /\ Repaint

TextNext ==
  \/ \E t \in Tabs : Printed(t) \/ Reseeded(t) \/ Replaced(t) \/ ShowTab(t)
  \/ \E c \in Columns : \/ Heightened(c) \/ MousePress(c) \/ CopySelection(c) \/ Scroll(c) \/ KeySlash(c) \/ KeyMatch(c)
                        \/ KeyVisual(c, "char") \/ KeyVisual(c, "line")
                        \/ KeyYank(c) \/ KeyEscape(c) \/ KeyMove(c)
  \/ Frame \/ Veiled \/ SelectCancelAll \/ PressTaken \/ Motion \/ Release \/ SearchKey
TextSpec == TextInit /\ [][TextNext]_textVars

-----------------------------------------------------------------------------
\* What a drag or a yank copies is the lines the user put its two ends on and
\* those between them, as far as the ring still holds them, whatever arrived,
\* was dropped, scrolled or selected elsewhere meanwhile.  Out of it: lines
\* that fall off between a press and its first motion, or between a paint and
\* the event aimed at it; a selection that fell off whole, or whose content
\* was replaced; and a gesture whose press was not the one that armed, or
\* whose pane shows another tab.
PushedIsChosen == register.text = register.chosen
=============================================================================
