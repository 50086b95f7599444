------------------------------- MODULE Paint --------------------------------
(***************************************************************************)
(* From the model to the screen (render/paint.js,                          *)
(* leaves/render/painter.js and leaves/infra/render-queue.js).  A frame is *)
(* composed as markup and only what differs from the previous markup is    *)
(* written.  The grid of a terminal is written past that cache, straight   *)
(* to the screen, with a row cache per session of its own; the frame holds *)
(* blanks there.  So neither cache knows what the other wrote, and every   *)
(* way a cell changes hands needs a rule that repaints it.                 *)
(*                                                                         *)
(* The screen is three rows of two columns: a side pane, and a content     *)
(* pane whose tab is a text or a terminal.  Its interior is the two lower  *)
(* rows, or one of them when the pane is short and an empty pane is below  *)
(* it.  The dialogs cover the middle row.                                  *)
(*                                                                         *)
(* A definition named X_Suffix is a faulty variant of X; see Streams.      *)
(***************************************************************************)
EXTENDS Naturals, FiniteSets, Sequences, SequencesExt

CONSTANTS Ptys,          \* terminal tabs
          Contents,      \* what a row of a text or of a terminal may hold
          MaxChanges     \* Bound: Msgs, sizes, ends and outputs

\* "text" is the tab that is no terminal; a row shows something.
ASSUME PaintAssumption == "text" \notin Ptys /\ Contents # {}

Rows == 1..3
Spots == Rows \X {"side", "body"}
Blank == <<"blank", "">>
Unwritten == <<"", "">>          \* a row of the previous frame that was invalidated

VARIABLES
  shown,     \* the model: [tab, text, theme, dialog, short, size, tint]
  pty,       \* [Ptys -> [live, rows]]: the sessions, and what their screens hold
  frame,     \* _frame: [prev, size, theme, tint, force]
  surfaces,  \* [painted, last, cache]: the terminals of the previous overlay pass, the
             \* rows they covered, and prevFrame with prevW and prevH of each session
  glass,     \* [Spots -> <<what, theme, tinted>>]
  pending,   \* _renderPending
  changes,   \* changes so far
  odd        \* history: a cell changed hands with no rule for it (README, section 5)
paintVars == <<shown, pty, frame, surfaces, glass, pending, changes, odd>>

NoCache == [rows |-> <<>>, dims |-> {}]

PaintInit ==
  /\ shown = [tab |-> "text", text |-> CHOOSE s \in Contents : TRUE, theme |-> "dark",
              dialog |-> FALSE, short |-> FALSE, size |-> "wide", tint |-> FALSE]
  /\ pty = [t \in Ptys |-> [live |-> FALSE, rows |-> [r \in 2..3 |-> CHOOSE s \in Contents : TRUE]]]
  /\ frame = [prev |-> [c \in Spots |-> Unwritten], size |-> "none", theme |-> "none",
              tint |-> FALSE, force |-> TRUE]
  /\ surfaces = [painted |-> {}, last |-> [t \in Ptys |-> {}], cache |-> [t \in Ptys |-> NoCache]]
  /\ glass = [c \in Spots |-> <<Blank, "none", FALSE>>]
  /\ pending = TRUE /\ changes = 0 /\ odd = FALSE

-----------------------------------------------------------------------------
\* The interior of the content pane, and the terminals that paint in it.
Interior(m) == IF m.short THEN {2} ELSE {2, 3}
VisibleSurfaces(m, ps) == {t \in Ptys : m.tab = t /\ ps[t].live}

\* composeRects, composeRows: the frame without the dialogs.
Composed(m) ==
  [c \in Spots |->
     CASE c[2] = "side" -> <<"side", "">>
       [] c[2] = "body" /\ c[1] = 1 -> <<"strip", m.tab>>
       [] c = <<2, "body">> /\ m.tab = "text" -> <<"text", m.text>>
       [] OTHER -> Blank]

\* paintActive: the dialogs, spliced into the frame.
Spliced(rows, m) ==
  [c \in Spots |-> IF m.dialog /\ c[1] = 2 THEN <<"dialog", "">> ELSE rows[c]]
NewRows(m) == Spliced(Composed(m), m)

\* The vanish rule: the rows that a terminal covered, and no longer does, are
\* rewritten from the frame.
Reclaimed_Never(f, m, ps) == f
Reclaimed(f, m, ps) ==
  LET gone == UNION {surfaces.last[t] : t \in surfaces.painted \ VisibleSurfaces(m, ps)}
  IN  [f EXCEPT !.prev = [c \in Spots |-> IF c[1] \in gone THEN Unwritten ELSE @[c]]]

\* Whatever changes the look of unchanged markup forces the whole frame.
Forced(f, m) ==
  \/ f.force
  \/ f.theme # "none" /\ f.theme # m.theme
  \/ f.tint # m.tint
  \/ f.size # m.size

\* paintFrame: everything, or the cells that differ; a highlight rewrites the
\* row that holds one.
PaintedFrame(f, m) ==
  LET new == NewRows(m)
      changed == {c \in Spots : new[c] # f.prev[c]}
      written == IF Forced(f, m) THEN Spots
                 ELSE IF m.tint THEN {c \in Spots : \E d \in changed : d[1] = c[1]}
                 ELSE changed
  IN  [c \in Spots |-> IF c \in written
                       THEN <<new[c], m.theme, m.tint /\ ~Forced(f, m)>> ELSE glass[c]]

\* renderTerminalOverlay: a surface that appeared, changed its size, or was
\* cleared with the screen is written in full, the others by row.
SurfaceForced(m, t, all) ==
  all \/ t \notin surfaces.painted \/ surfaces.cache[t].dims # Interior(m)
SurfaceRows(m, ps, t, all) ==
  {r \in Interior(m) : SurfaceForced(m, t, all)
                         \/ r \notin DOMAIN surfaces.cache[t].rows
                         \/ surfaces.cache[t].rows[r] # ps[t].rows[r]}
Overlaid(scr, m, ps, all) ==
  [c \in Spots |->
     IF c[2] = "body" /\ \E t \in VisibleSurfaces(m, ps) : c[1] \in SurfaceRows(m, ps, t, all)
     THEN <<<<"pty", ps[m.tab].rows[c[1]]>>, m.tab, FALSE>> ELSE scr[c]]
SurfacesAfter(m, ps) ==
  LET now == VisibleSurfaces(m, ps)
  IN  [painted |-> now,
       last |-> [t \in Ptys |-> IF t \in now THEN Interior(m) ELSE {}],
       cache |-> [t \in Ptys |->
                    IF t \in now THEN [rows |-> [r \in Interior(m) |-> ps[t].rows[r]],
                                       dims |-> Interior(m)]
                    ELSE IF ps[t].live THEN surfaces.cache[t] ELSE NoCache]]

\* Where no rule covers a write: a dialog over a terminal, a terminal pane that
\* shrank, the row of a terminal rewritten with a highlight, and an overlay pass
\* of its own that comes ahead of the frame: it forgets a terminal that is no
\* longer shown, and paints one that the frame then blanks.
Over(m, ps) == m.dialog /\ VisibleSurfaces(m, ps) # {}
Uncovered(m, ps) ==
  \/ \E t \in surfaces.painted \cap VisibleSurfaces(m, ps) :
       ~(surfaces.last[t] \subseteq Interior(m))
  \/ m.tint /\ VisibleSurfaces(m, ps) # {}
Ahead(m, ps) ==
  \/ surfaces.painted # VisibleSurfaces(m, ps)
  \/ \E t \in surfaces.painted : surfaces.last[t] # Interior(m)

\* render: one frame of the model m and the sessions ps.
Render(m, ps, f0) ==
  LET f == Reclaimed(f0, m, ps)
      full == Forced(f, m)
  IN  /\ glass' = Overlaid(PaintedFrame(f, m), m, ps, full)
      /\ frame' = [prev |-> NewRows(m), size |-> m.size, theme |-> m.theme,
                   tint |-> m.tint, force |-> FALSE]
      /\ surfaces' = SurfacesAfter(m, ps)
      /\ odd' = (Over(m, ps) \/ (~full /\ (odd \/ Uncovered(m, ps))))

\* forceFullRepaint: the next frame is written in full.
ForceFull(f) == [f EXCEPT !.prev = [c \in Spots |-> Unwritten], !.force = TRUE]

-----------------------------------------------------------------------------
\* What a Msg can do to the model, and whether it asks for a full repaint.  The
\* finalizer spawns the session of a tab that is shown.
Changes(m) ==
  {<<[m EXCEPT !.text = s], FALSE>> : s \in Contents}
  \cup {<<[m EXCEPT !.tab = t], FALSE>> : t \in Ptys \cup {"text"}}
  \cup {<<[m EXCEPT !.dialog = ~@], full>> : full \in BOOLEAN}
  \cup {<<[m EXCEPT !.short = ~@], full>> : full \in BOOLEAN}
  \cup {<<[m EXCEPT !.theme = t], FALSE>> : t \in {"dark", "light"}}
  \cup {<<[m EXCEPT !.tint = ~@], FALSE>>}
Spawned(ps, m) ==
  [t \in Ptys |-> IF t = m.tab THEN [ps[t] EXCEPT !.live = TRUE] ELSE ps[t]]

\* A Msg that no key brought: the paint comes with the timer.
MsgApplied ==
  /\ changes + 1 <= MaxChanges /\ changes' = changes + 1
  /\ \E ch \in Changes(shown) :
       LET m == ch[1]
           ps == Spawned(pty, m)
       IN  /\ shown' = m /\ pty' = ps
           /\ frame' = IF ch[2] THEN ForceFull(frame) ELSE frame
           /\ pending' = TRUE
           /\ UNCHANGED <<surfaces, glass, odd>>

\* A chunk of two keys: their paints are one, at the end of the batch; a full
\* repaint asked for in between is not put off with them.
BatchForced(f, full) == IF full THEN ForceFull(f) ELSE f
Chunk ==
  /\ changes + 2 <= MaxChanges /\ changes' = changes + 2
  /\ \E one \in Changes(shown) : \E two \in Changes(one[1]) :
       LET m == two[1]
           ps == Spawned(Spawned(pty, one[1]), m)
           f == BatchForced(frame, one[2] \/ two[2])
       IN  /\ shown' = m /\ pty' = ps
           /\ Render(m, ps, f)
           /\ pending' \in {pending, TRUE}

\* The session of a tab ends with the tab, or starts anew under the same id.
SessionEnds ==
  /\ changes + 1 <= MaxChanges /\ changes' = changes + 1
  /\ \E t \in Ptys : \E again \in BOOLEAN :
       /\ pty[t].live
       /\ again => shown.tab = t
       /\ shown' = [shown EXCEPT !.tab = IF @ = t /\ ~again THEN "text" ELSE @]
       /\ pty' = [pty EXCEPT ![t].live = again]
       /\ surfaces' = [surfaces EXCEPT !.cache[t] = NoCache]
       /\ pending' = TRUE
       /\ UNCHANGED <<frame, glass, odd>>

\* Output of a child is painted at once, past the queue; the poll repeats it.
PtyOutput ==
  /\ changes + 1 <= MaxChanges /\ changes' = changes + 1
  /\ \E t \in Ptys : \E r \in 2..3 : \E s \in Contents :
       /\ pty[t].live
       /\ pty' = [pty EXCEPT ![t].rows[r] = s]
       /\ glass' = Overlaid(glass, shown, pty', FALSE)
       /\ surfaces' = SurfacesAfter(shown, pty')
       /\ odd' = (odd \/ Over(shown, pty) \/ Ahead(shown, pty))
       /\ UNCHANGED <<shown, frame, pending>>
OverlayPoll ==
  /\ VisibleSurfaces(shown, pty) # {}
  /\ glass' = Overlaid(glass, shown, pty, FALSE)
  /\ surfaces' = SurfacesAfter(shown, pty)
  /\ odd' = (odd \/ Over(shown, pty) \/ Ahead(shown, pty))
  /\ UNCHANGED <<changes, shown, pty, frame, pending>>

RenderTimer ==
  /\ pending /\ pending' = FALSE
  /\ Render(shown, pty, frame)
  /\ UNCHANGED <<changes, shown, pty>>

\* The terminal emulator reflows what it shows; the repaint comes with the timer.
\* A size that is back before the timer forces nothing.
Resized ==
  /\ changes + 1 <= MaxChanges /\ changes' = changes + 1
  /\ shown' = [shown EXCEPT !.size = IF @ = "wide" THEN "narrow" ELSE "wide"]
  /\ glass' = [c \in Spots |-> <<<<"reflowed", "">>, "none", FALSE>>]
  /\ pending' = TRUE
  /\ odd' = (odd \/ frame.size = shown'.size)
  /\ UNCHANGED <<pty, frame, surfaces>>

\* SIGCONT: a shell wrote on the screen; repaint at once, in full.
Resumed ==
  /\ Render(shown, pty, ForceFull(frame))
  /\ UNCHANGED <<changes, shown, pty, pending>>

PaintNext ==
  \/ MsgApplied \/ Chunk \/ SessionEnds \/ PtyOutput \/ OverlayPoll \/ RenderTimer
  \/ Resized \/ Resumed
PaintSpec == PaintInit /\ [][PaintNext]_paintVars

-----------------------------------------------------------------------------
\* What each cell should show.
Expected(c) ==
  IF c[2] = "body" /\ c[1] \in Interior(shown) /\ VisibleSurfaces(shown, pty) # {}
  THEN <<<<"pty", pty[shown.tab].rows[c[1]]>>, shown.tab>>
  ELSE <<NewRows(shown)[c], shown.theme>>

\* When no repaint is on its way the screen shows the model and the terminals
\* as they are, in the colours of the theme and with no highlight left over:
\* whatever was shown, written by either side, or repainted before.
ScreenIsCurrent ==
  ~pending /\ ~odd =>
    \A c \in Spots : /\ <<glass[c][1], glass[c][2]>> = Expected(c)
                     /\ ~shown.tint => ~glass[c][3]
=============================================================================
