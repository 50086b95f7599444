--------------------------- MODULE Front_proofs ----------------------------
(***************************************************************************)
(* Proofs about the components that stand at the front of the program:     *)
(* the painting (Paint), the configuration and its grid (Config,           *)
(* GridFile), the bytes of the keyboard (InputChunks), the modes that the  *)
(* keys go to (InputModes), and the sessions that are recorded and shown   *)
(* again (Replay).                                                         *)
(***************************************************************************)
EXTENDS Config, GridFile, InputChunks, InputModes, Paint, Replay,
        FiniteSetTheorems, SequenceTheorems, WellFoundedInduction, NaturalsInduction, TLAPS

-----------------------------------------------------------------------------
(* Induction, over a stretch of numbers.                                       *)
LEMMA Least ==
  ASSUME NEW T, T \subseteq Nat, T # {}
  PROVE  \E n \in T : \A m \in T : n <= m
<1>1. IsWellFoundedOn(OpToRel(<, Nat), Nat)
  BY NatLessThanWellFounded
<1>2. PICK n \in T : \A m \in T : ~ (<<m, n>> \in OpToRel(<, Nat))
  BY <1>1, WFMin, Zenon
<1>3. ASSUME NEW m \in T PROVE n <= m
  <2>1. m \in Nat /\ n \in Nat
    OBVIOUS
  <2>2. m < n => <<m, n>> \in OpToRel(<, Nat)
    BY <2>1 DEF OpToRel
  <2>3. ~ (m < n)
    BY <1>2, <2>2, Zenon
  <2>4. QED
    BY <2>1, <2>3
<1>4. QED
  BY <1>3

LEMMA Stretch ==
  ASSUME NEW i \in Nat, NEW j \in Nat, NEW T, i \in T, \A k \in i .. j - 1 : k \in T => k + 1 \in T
  PROVE  \A k \in i .. j : k \in T
<1> DEFINE Out == {k \in i .. j : k \notin T}
<1>1. ASSUME Out # {} PROVE FALSE
  <2>1. Out \subseteq Nat
    OBVIOUS
  <2>2. PICK n \in Out : \A m \in Out : n <= m
    BY <1>1, <2>1, Least
  <2>3. n \in i .. j /\ n # i /\ n - 1 \in i .. j - 1
    BY <2>2
  <2>4. n - 1 \in T
    BY <2>2, <2>3
  <2>5. QED
    BY <2>2, <2>3, <2>4
<1>2. QED
  BY <1>1

(* A function on 0..n that is given step by step exists.                       *)
Stepwise(n, S, b, F) == \E g \in [0 .. n -> S] : g[0] = b /\ \A k \in 1 .. n : g[k] = F[<<k, g[k - 1]>>]

LEMMA StepByStep ==
  ASSUME NEW n \in Nat, NEW S, NEW b \in S, NEW F \in [(1 .. n) \X S -> S]
  PROVE  Stepwise(n, S, b, F)
<1> DEFINE Upto(m, g) == g \in [0 .. m -> S] /\ g[0] = b /\ \A k \in 1 .. m : g[k] = F[<<k, g[k - 1]>>]
           T == {m \in 0 .. n : \E g : Upto(m, g)}
<1>1. 0 \in T
  <2>1. Upto(0, [k \in 0 .. 0 |-> b])
    OBVIOUS
  <2> HIDE DEF Upto
  <2>2. QED
    BY <2>1
<1>2. ASSUME NEW m \in 0 .. n - 1, m \in T PROVE m + 1 \in T
  <2>1. PICK g : Upto(m, g)
    BY <1>2
  <2> DEFINE h == [k \in 0 .. m + 1 |-> IF k = m + 1 THEN F[<<m + 1, g[m]>>] ELSE g[k]]
  <2>2. g[m] \in S /\ F[<<m + 1, g[m]>>] \in S /\ g \in [0 .. m -> S] /\ m \in Nat
    BY <2>1
  <2>3. h \in [0 .. m + 1 -> S]
    BY <2>2
  <2>4. h[m + 1] = F[<<m + 1, g[m]>>] /\ \A k \in 0 .. m : h[k] = g[k]
    BY <2>2
  <2> HIDE DEF h
  <2>5. h[0] = b
    BY <2>1, <2>2, <2>4
  <2>6. ASSUME NEW k \in 1 .. m + 1 PROVE h[k] = F[<<k, h[k - 1]>>]
    <3>1. CASE k = m + 1
      <4>1. k - 1 = m /\ h[m] = g[m]
        BY <2>2, <2>4, <3>1
      <4>2. QED
        BY <2>4, <3>1, <4>1
    <3>2. CASE k # m + 1
      <4>1. k \in 1 .. m /\ h[k] = g[k] /\ h[k - 1] = g[k - 1]
        BY <2>2, <2>4, <3>2
      <4>2. QED
        BY <2>1, <4>1
    <3>3. QED
      BY <3>1, <3>2
  <2>7. Upto(m + 1, h)
    BY <2>3, <2>5, <2>6
  <2> HIDE DEF Upto
  <2>8. m + 1 \in 0 .. n
    BY <2>2
  <2>9. QED
    BY <2>7, <2>8
<1> HIDE DEF T
<1>3. \A k \in 0 .. n : k \in T
  BY <1>1, <1>2, Stretch
<1>4. QED
  BY <1>3 DEF T, Stepwise

(* Lists, and the entries of a list that stand at some places.                 *)
LEMMA SeqIsList ==
  ASSUME NEW A, NEW s \in Seq(A)
  PROVE  IsList(s) /\ DOMAIN s = 1 .. Len(s) /\ \A i \in DOMAIN s : s[i] \in A
<1>1. Len(s) \in Nat /\ s \in [1 .. Len(s) -> A]
  BY LenProperties
<1>2. \A i \in DOMAIN s : s[i] \in {s[j] : j \in DOMAIN s}
  OBVIOUS
<1>3. s \in [1 .. Len(s) -> {s[j] : j \in DOMAIN s}]
  BY <1>1, <1>2
<1>4. s \in Seq({s[j] : j \in DOMAIN s})
  BY <1>1, <1>3, SeqDef
<1>5. QED
  BY <1>1, <1>4 DEF IsList

LEMMA ListIsSeq ==
  ASSUME NEW s, IsList(s), NEW A, \A i \in DOMAIN s : s[i] \in A
  PROVE  s \in Seq(A)
<1>1. s \in Seq({s[i] : i \in DOMAIN s})
  BY DEF IsList
<1>2. {s[i] : i \in DOMAIN s} \subseteq A
  OBVIOUS
<1>3. \A B : s \in Seq(B) /\ B \subseteq A => s \in Seq(A)
  OBVIOUS
<1>4. QED
  BY <1>1, <1>2, <1>3

LEMMA EntriesIn ==
  ASSUME NEW A, NEW list \in Seq(A), NEW places
  PROVE  EntriesAt(list, places) \in Seq(A)
<1> DEFINE n == Len(list)
           Took(f, k) == IF k = 0 THEN <<>>
                         ELSE IF k \in places THEN Append(f[k - 1], list[k]) ELSE f[k - 1]
           F == [q \in (1 .. n) \X Seq(A) |->
                   IF q[1] \in places THEN Append(q[2], list[q[1]]) ELSE q[2]]
           f == CHOOSE f : f = [k \in 0 .. n |-> Took(f, k)]
<1>1. n \in Nat /\ <<>> \in Seq(A) /\ \A k \in 1 .. n : list[k] \in A
  BY LenProperties, ElementOfSeq
<1>2. F \in [(1 .. n) \X Seq(A) -> Seq(A)]
  BY <1>1
<1>3. PICK g \in [0 .. n -> Seq(A)] : g[0] = <<>> /\ \A k \in 1 .. n : g[k] = F[<<k, g[k - 1]>>]
  <2> HIDE DEF F, n
  <2>1. Stepwise(n, Seq(A), <<>>, F)
    BY <1>1, <1>2, StepByStep
  <2>2. QED
    BY <2>1 DEF Stepwise
<1>4. EntriesAt(list, places) = f[n]
  BY DEF EntriesAt
<1> HIDE DEF n
<1>5. \A k \in 0 .. n : g[k] = Took(g, k)
  <2>1. ASSUME NEW k \in 1 .. n PROVE g[k] = Took(g, k)
    <3>1. <<k, g[k - 1]>> \in (1 .. n) \X Seq(A)
      BY <1>1, <1>3
    <3>2. QED
      BY <1>3, <3>1
  <2>2. g[0] = Took(g, 0)
    BY <1>3
  <2> HIDE DEF Took
  <2>3. QED
    BY <1>1, <2>1, <2>2
<1>6. g = [k \in 0 .. n |-> Took(g, k)]
  <2> HIDE DEF Took
  <2>1. QED
    BY <1>3, <1>5
<1>7. f = [k \in 0 .. n |-> Took(f, k)]
  BY Zenon, <1>6
<1> HIDE DEF f
<1>8. \A k \in 0 .. n : f[k] = Took(f, k)
  <2> HIDE DEF Took
  <2>1. QED
    BY <1>7
<1>9. \A k \in 0 .. n : f[k] \in Seq(A)
  <2> DEFINE T == {k \in 0 .. n : f[k] \in Seq(A)}
  <2>1. 0 \in T
    <3>1. 0 \in 0 .. n /\ f[0] = Took(f, 0)
      BY <1>1, <1>8
    <3>2. f[0] = <<>>
      BY <3>1
    <3>3. QED
      BY <1>1, <3>1, <3>2
  <2>2. ASSUME NEW k \in 0 .. n - 1, k \in T PROVE k + 1 \in T
    <3>1. k + 1 \in 1 .. n /\ k + 1 - 1 = k /\ f[k] \in Seq(A) /\ list[k + 1] \in A
      BY <1>1, <2>2
    <3>2. f[k + 1] = IF k + 1 \in places THEN Append(f[k], list[k + 1]) ELSE f[k]
      BY <1>1, <1>8, <3>1
    <3>3. f[k + 1] \in Seq(A)
      BY <3>1, <3>2
    <3>4. QED
      BY <1>1, <3>1, <3>3
  <2> HIDE DEF T
  <2>3. \A k \in 0 .. n : k \in T
    BY <1>1, <2>1, <2>2, Stretch
  <2>4. QED
    BY <2>3 DEF T
<1>10. QED
  BY <1>1, <1>4, <1>9

-----------------------------------------------------------------------------
(***************************************************************************)
(* Painting.  ScreenIsCurrent is about a screen with no repaint on its     *)
(* way; the invariant says what the caches know of the screen meanwhile.   *)
(***************************************************************************)
Views == [tab: Ptys \cup {"text"}, text: Contents, theme: {"dark", "light"},
          dialog: BOOLEAN, short: BOOLEAN, size: {"wide", "narrow"}, tint: BOOLEAN]
Sessions == [Ptys -> [live: BOOLEAN, rows: [2..3 -> Contents]]]

PaintTyped ==
  /\ shown \in Views
  /\ pty \in Sessions
  /\ frame = [prev |-> frame.prev, size |-> frame.size, theme |-> frame.theme,
              tint |-> frame.tint, force |-> frame.force]
  /\ frame.force \in BOOLEAN
  /\ surfaces = [painted |-> surfaces.painted, last |-> surfaces.last,
                 cache |-> [t \in Ptys |-> surfaces.cache[t]]]
  /\ surfaces.painted \subseteq Ptys
  /\ odd \in BOOLEAN

\* The next frame is written in full, whatever it holds.
Outdated == frame.force \/ frame.size # shown.size

\* With no repaint on its way, the caches are those of the model and the
\* terminals as they are.
FrameCurrent ==
  ~pending =>
    /\ frame = [prev |-> NewRows(shown), size |-> shown.size, theme |-> shown.theme,
                tint |-> shown.tint, force |-> FALSE]
    /\ surfaces.painted = VisibleSurfaces(shown, pty)
    /\ \A t \in surfaces.painted:
         /\ surfaces.last[t] = Interior(shown)
         /\ surfaces.cache[t].dims = Interior(shown)
         /\ \A r \in Interior(shown): surfaces.cache[t].rows[r] = pty[t].rows[r]

\* Before the first frame everything is to be written.
ThemeKnown == frame.theme = "none" => frame.force

\* The overlay pass paints one terminal, and remembers where.
OnePainted == \A t, u \in surfaces.painted: t = u
CachesTell ==
  \A t \in surfaces.painted:
    surfaces.cache[t].dims # {} =>
      /\ surfaces.cache[t].dims = surfaces.last[t]
      /\ DOMAIN surfaces.cache[t].rows = surfaces.last[t]

\* What a cell shows is what the cache of its writer says: of a painted
\* terminal, over a blank of the frame, or of the frame.
ShowsRow(cell, row, t) == cell[1] = <<"pty", row>> /\ cell[2] = t /\ ~cell[3]
Spans(t, c) == c[2] = "body" /\ c[1] \in surfaces.last[t]
CellAgrees(c) ==
  /\ \A t \in surfaces.painted: Spans(t, c) =>
       /\ frame.prev[c] = Blank
       /\ surfaces.cache[t].dims # {} =>
            ShowsRow(glass[c], surfaces.cache[t].rows[c[1]], t)
  /\ (\A t \in surfaces.painted: ~Spans(t, c)) =>
       /\ glass[c][1] = frame.prev[c] /\ glass[c][2] = frame.theme
       /\ glass[c][3] => frame.tint
GlassAgrees == ~odd /\ ~Outdated => \A c \in Spots: CellAgrees(c)

PaintInv ==
  /\ PaintTyped
  /\ FrameCurrent
  /\ ThemeKnown
  /\ OnePainted
  /\ CachesTell
  /\ GlassAgrees

-----------------------------------------------------------------------------
\* What the rows of a frame can be: none is the mark of an invalidated row, and
\* where a terminal shows and no dialog does, the frame is blank.
LEMMA FrameRows ==
  ASSUME NEW m \in Views
  PROVE  /\ \A c \in Spots: NewRows(m)[c] # Unwritten
         /\ m.tab # "text" /\ ~m.dialog =>
              \A c \in Spots: c[2] = "body" /\ c[1] \in {2, 3} => NewRows(m)[c] = Blank
<1>1. \A c \in Spots: NewRows(m)[c] = IF m.dialog /\ c[1] = 2 THEN <<"dialog", "">> ELSE Composed(m)[c]
  BY DEF NewRows, Spliced
<1>2. ASSUME NEW c \in Spots
      PROVE  /\ c[2] = "side" => Composed(m)[c] = <<"side", "">>
             /\ c[2] = "body" /\ c[1] = 1 => Composed(m)[c] = <<"strip", m.tab>>
             /\ c = <<2, "body">> /\ m.tab = "text" => Composed(m)[c] = <<"text", m.text>>
             /\ c[2] = "body" /\ c[1] # 1 /\ ~(c = <<2, "body">> /\ m.tab = "text")
                  => Composed(m)[c] = Blank
             /\ c[2] \in {"side", "body"}
  <2>1. c[2] \in {"side", "body"}
    BY DEF Spots
  <2>2. Composed(m)[c] =
          CASE c[2] = "side" -> <<"side", "">>
            [] c[2] = "body" /\ c[1] = 1 -> <<"strip", m.tab>>
            [] c = <<2, "body">> /\ m.tab = "text" -> <<"text", m.text>>
            [] OTHER -> Blank
    BY DEF Composed
  <2>0. c[2] = "side" => c # <<2, "body">> /\ c[2] # "body"
    OBVIOUS
  <2>3. c[2] = "side" => Composed(m)[c] = <<"side", "">>
    BY <2>2, <2>0
  <2>4. c[2] = "body" /\ c[1] = 1 => Composed(m)[c] = <<"strip", m.tab>>
    BY <2>2
  <2>5. c = <<2, "body">> /\ m.tab = "text" => Composed(m)[c] = <<"text", m.text>>
    BY <2>2
  <2>6. c[2] = "body" /\ c[1] # 1 /\ ~(c = <<2, "body">> /\ m.tab = "text")
          => Composed(m)[c] = Blank
    BY <2>2
  <2>7. QED
    BY <2>1, <2>3, <2>4, <2>5, <2>6
<1>3. \A x: /\ <<"side", x>> # Unwritten /\ <<"strip", x>> # Unwritten
            /\ <<"text", x>> # Unwritten /\ <<"dialog", x>> # Unwritten
            /\ <<"blank", x>> # Unwritten
  BY DEF Unwritten
<1>4. \A c \in Spots: NewRows(m)[c] # Unwritten
  <2> SUFFICES ASSUME NEW c \in Spots PROVE Composed(m)[c] # Unwritten
    BY <1>1, <1>3
  <2>1. CASE c[2] = "side"
    BY <2>1, <1>2, <1>3
  <2>2. CASE c[2] = "body" /\ c[1] = 1
    BY <2>2, <1>2, <1>3
  <2>3. CASE c = <<2, "body">> /\ m.tab = "text"
    BY <2>3, <1>2, <1>3
  <2>4. CASE c[2] = "body" /\ c[1] # 1 /\ ~(c = <<2, "body">> /\ m.tab = "text")
    BY <2>4, <1>2, <1>3 DEF Blank
  <2>5. QED
    BY <2>1, <2>2, <2>3, <2>4, <1>2
<1>5. ASSUME m.tab # "text", ~m.dialog, NEW c \in Spots, c[2] = "body", c[1] \in {2, 3}
      PROVE  NewRows(m)[c] = Blank
  <2>1. Composed(m)[c] = Blank
    <3>1. c[2] = "body" /\ c[1] # 1 /\ ~(c = <<2, "body">> /\ m.tab = "text")
      BY <1>5
    <3>2. QED
      BY <1>2, <3>1
  <2>2. QED
    BY <1>1, <1>5, <2>1
<1>6. QED
  BY <1>4, <1>5

\* At most the terminal of the shown tab is visible.
LEMMA VisibleIsTab ==
  ASSUME NEW m \in Views, NEW ps \in Sessions, NEW t \in VisibleSurfaces(m, ps)
  PROVE  t \in Ptys /\ t = m.tab /\ m.tab # "text" /\ VisibleSurfaces(m, ps) = {m.tab}
BY PaintAssumption DEF VisibleSurfaces

LEMMA InteriorRows ==
  ASSUME NEW m \in Views
  PROVE  Interior(m) \subseteq {2, 3} /\ Interior(m) # {} /\ Interior(m) \subseteq Rows
BY DEF Interior, Rows

\* What the overlay pass remembers.
LEMMA SurfacesRemember ==
  ASSUME NEW m \in Views, NEW ps \in Sessions, surfaces' = SurfacesAfter(m, ps)
  PROVE  /\ surfaces'.painted = VisibleSurfaces(m, ps)
         /\ surfaces'.painted \subseteq Ptys
         /\ surfaces' = [painted |-> surfaces'.painted, last |-> surfaces'.last,
                         cache |-> [t \in Ptys |-> surfaces'.cache[t]]]
         /\ OnePainted' /\ CachesTell'
         /\ \A t \in surfaces'.painted:
              /\ surfaces'.last[t] = Interior(m)
              /\ surfaces'.cache[t].dims = Interior(m)
              /\ \A r \in Interior(m): surfaces'.cache[t].rows[r] = ps[t].rows[r]
<1>1. PICK now: now = VisibleSurfaces(m, ps)
  OBVIOUS
<1>2. now \subseteq Ptys /\ \A t, u \in now: t = u
  BY <1>1 DEF VisibleSurfaces
<1>3. surfaces' = [painted |-> now,
                   last |-> [t \in Ptys |-> IF t \in now THEN Interior(m) ELSE {}],
                   cache |-> [t \in Ptys |->
                     IF t \in now THEN [rows |-> [r \in Interior(m) |-> ps[t].rows[r]],
                                        dims |-> Interior(m)]
                     ELSE IF ps[t].live THEN surfaces.cache[t] ELSE NoCache]]
  BY <1>1 DEF SurfacesAfter
<1>4. PICK last, cache:
        /\ surfaces' = [painted |-> now, last |-> last, cache |-> cache]
        /\ last = [t \in Ptys |-> IF t \in now THEN Interior(m) ELSE {}]
        /\ cache = [t \in Ptys |->
                      IF t \in now THEN [rows |-> [r \in Interior(m) |-> ps[t].rows[r]],
                                         dims |-> Interior(m)]
                      ELSE IF ps[t].live THEN surfaces.cache[t] ELSE NoCache]
  BY <1>3
<1>a. cache = [t \in Ptys |-> cache[t]]
  BY <1>4
<1>b. ASSUME NEW t \in now
      PROVE  /\ last[t] = Interior(m)
             /\ cache[t] = [rows |-> [r \in Interior(m) |-> ps[t].rows[r]], dims |-> Interior(m)]
  BY <1>2, <1>4
<1>5. \A t \in now: /\ surfaces'.last[t] = Interior(m)
                    /\ surfaces'.cache[t].dims = Interior(m)
                    /\ DOMAIN surfaces'.cache[t].rows = Interior(m)
                    /\ \A r \in Interior(m): surfaces'.cache[t].rows[r] = ps[t].rows[r]
  <2>1. surfaces'.last = last /\ surfaces'.cache = cache
    BY <1>4
  <2>2. ASSUME NEW t \in now
        PROVE  /\ last[t] = Interior(m)
               /\ cache[t].dims = Interior(m)
               /\ DOMAIN cache[t].rows = Interior(m)
               /\ \A r \in Interior(m): cache[t].rows[r] = ps[t].rows[r]
    <3>1. /\ last[t] = Interior(m)
          /\ cache[t] = [rows |-> [r \in Interior(m) |-> ps[t].rows[r]], dims |-> Interior(m)]
      BY <1>b
    <3>2. QED
      BY <3>1
  <2>3. QED
    BY <2>1, <2>2
<1>6. /\ surfaces'.painted = now
      /\ surfaces' = [painted |-> surfaces'.painted, last |-> surfaces'.last,
                      cache |-> [t \in Ptys |-> surfaces'.cache[t]]]
  <2>1. surfaces'.painted = now /\ surfaces'.last = last /\ surfaces'.cache = cache
    BY <1>4
  <2>2. QED
    BY <1>4, <1>a, <2>1
<1>7. OnePainted' /\ CachesTell'
  BY <1>2, <1>5, <1>6 DEF OnePainted, CachesTell
<1>8. QED
  BY <1>1, <1>2, <1>5, <1>6, <1>7

\* What paintFrame does to a cell: it is written, or as it was. Everything is
\* written in a full frame, and what differs from the previous frame in any.
LEMMA FrameWrites ==
  ASSUME NEW m \in Views, NEW f, NEW c \in Spots
  PROVE  /\ \/ PaintedFrame(f, m)[c] = glass[c]
            \/ /\ PaintedFrame(f, m)[c][1] = NewRows(m)[c]
               /\ PaintedFrame(f, m)[c][2] = m.theme
               /\ PaintedFrame(f, m)[c][3] => m.tint
         /\ Forced(f, m) \/ NewRows(m)[c] # f.prev[c] =>
              /\ PaintedFrame(f, m)[c][1] = NewRows(m)[c]
              /\ PaintedFrame(f, m)[c][2] = m.theme
              /\ PaintedFrame(f, m)[c][3] => m.tint
         /\ ~Forced(f, m) /\ NewRows(m)[c] = f.prev[c] /\ ~m.tint =>
              PaintedFrame(f, m)[c] = glass[c]
<1>1. PICK changed: changed = {d \in Spots: NewRows(m)[d] # f.prev[d]}
  OBVIOUS
<1>2. PICK written: written = IF Forced(f, m) THEN Spots
                              ELSE IF m.tint THEN {d \in Spots: \E e \in changed: e[1] = d[1]}
                              ELSE changed
  OBVIOUS
<1>3. PICK look: look = (m.tint /\ ~Forced(f, m))
  OBVIOUS
<1>4. PaintedFrame(f, m)[c] = IF c \in written THEN <<NewRows(m)[c], m.theme, look>> ELSE glass[c]
  BY <1>1, <1>2, <1>3 DEF PaintedFrame
<1>5. look => m.tint
  BY <1>3
<1>6. c \in written =>
        /\ PaintedFrame(f, m)[c][1] = NewRows(m)[c]
        /\ PaintedFrame(f, m)[c][2] = m.theme
        /\ PaintedFrame(f, m)[c][3] => m.tint
  <2> SUFFICES ASSUME c \in written
               PROVE  /\ PaintedFrame(f, m)[c][1] = NewRows(m)[c]
                      /\ PaintedFrame(f, m)[c][2] = m.theme
                      /\ PaintedFrame(f, m)[c][3] => m.tint
    OBVIOUS
  <2>1. PaintedFrame(f, m)[c] = <<NewRows(m)[c], m.theme, look>>
    BY <1>4
  <2>2. QED
    BY <2>1, <1>5
<1>7. Forced(f, m) \/ NewRows(m)[c] # f.prev[c] => c \in written
  BY <1>1, <1>2
<1>8. ~Forced(f, m) /\ NewRows(m)[c] = f.prev[c] /\ ~m.tint => c \notin written
  BY <1>1, <1>2
<1>9. c \notin written => PaintedFrame(f, m)[c] = glass[c]
  BY <1>4
<1>10. QED
  BY <1>6, <1>7, <1>8, <1>9

\* What the overlay pass does to a cell: out of the interior of the visible
\* terminal it leaves it alone; in it, it shows the terminal's row, written now
\* or, if its cache has that row, before.
LEMMA OverlayLeaves ==
  ASSUME NEW m \in Views, NEW ps \in Sessions, NEW scr, NEW all, NEW c \in Spots,
         glass' = Overlaid(scr, m, ps, all),
         ~(c[2] = "body" /\ c[1] \in Interior(m) /\ VisibleSurfaces(m, ps) # {})
  PROVE  glass'[c] = scr[c]
<1>0. PICK no: no = FALSE
  OBVIOUS
<1>1. glass'[c] =
        IF c[2] = "body" /\ \E t \in VisibleSurfaces(m, ps): c[1] \in SurfaceRows(m, ps, t, all)
        THEN <<<<"pty", ps[m.tab].rows[c[1]]>>, m.tab, no>> ELSE scr[c]
  BY <1>0 DEF Overlaid
<1>2. \A t \in VisibleSurfaces(m, ps): SurfaceRows(m, ps, t, all) \subseteq Interior(m)
  BY DEF SurfaceRows
<1>3. QED
  BY <1>1, <1>2

LEMMA OverlayWrites ==
  ASSUME NEW m \in Views, NEW ps \in Sessions, NEW scr, NEW all, NEW c \in Spots,
         glass' = Overlaid(scr, m, ps, all),
         NEW t \in VisibleSurfaces(m, ps), c[2] = "body", c[1] \in Interior(m)
  PROVE  \/ ShowsRow(glass'[c], ps[t].rows[c[1]], t)
         \/ /\ glass'[c] = scr[c]
            /\ ~SurfaceForced(m, t, all)
            /\ surfaces.cache[t].rows[c[1]] = ps[t].rows[c[1]]
<1>0. PICK no: no = FALSE
  OBVIOUS
<1>1. glass'[c] =
        IF c[2] = "body" /\ \E u \in VisibleSurfaces(m, ps): c[1] \in SurfaceRows(m, ps, u, all)
        THEN <<<<"pty", ps[m.tab].rows[c[1]]>>, m.tab, no>> ELSE scr[c]
  BY <1>0 DEF Overlaid
<1>2. t = m.tab /\ VisibleSurfaces(m, ps) = {t}
  BY VisibleIsTab
<1>3. CASE c[1] \in SurfaceRows(m, ps, t, all)
  <2>1. glass'[c] = <<<<"pty", ps[t].rows[c[1]]>>, t, no>>
    BY <1>1, <1>2, <1>3
  <2>2. QED
    BY <1>0, <2>1 DEF ShowsRow
<1>4. CASE c[1] \notin SurfaceRows(m, ps, t, all)
  <2>1. glass'[c] = scr[c]
    BY <1>1, <1>2, <1>4
  <2>2. QED
    BY <1>4, <2>1 DEF SurfaceRows
<1>5. QED
  BY <1>3, <1>4

\* An overlay pass of its own keeps the caches right, unless it comes ahead of
\* the frame or under a dialog (PtyOutput, OverlayPoll).
LEMMA PassAgrees ==
  ASSUME PaintInv, NEW ps \in Sessions, \A t \in Ptys: ps[t].live = pty[t].live,
         pty' = ps, shown' = shown, frame' = frame, pending' = pending,
         NEW all, glass' = Overlaid(glass, shown, ps, all),
         surfaces' = SurfacesAfter(shown, ps),
         odd' = (odd \/ Over(shown, pty) \/ Ahead(shown, pty))
  PROVE  PaintInv'
<1> PaintTyped /\ shown \in Views
  BY DEF PaintInv, PaintTyped
<1>0. PICK V: V = VisibleSurfaces(shown, ps)
  OBVIOUS
<1>1. V = VisibleSurfaces(shown, pty)
  BY <1>0 DEF VisibleSurfaces
<1>2. /\ surfaces'.painted = V
      /\ \A t \in V: /\ surfaces'.last[t] = Interior(shown)
                     /\ surfaces'.cache[t].dims = Interior(shown)
                     /\ \A r \in Interior(shown): surfaces'.cache[t].rows[r] = ps[t].rows[r]
  BY <1>0, SurfacesRemember
<1>3. OnePainted' /\ CachesTell'
  BY SurfacesRemember
<1>4. PaintTyped'
  <2>1. /\ surfaces' = [painted |-> surfaces'.painted, last |-> surfaces'.last,
                        cache |-> [t \in Ptys |-> surfaces'.cache[t]]]
        /\ surfaces'.painted \subseteq Ptys
    BY SurfacesRemember
  <2>2. odd' \in BOOLEAN
    OBVIOUS
  <2>3. QED
    BY <2>1, <2>2 DEF PaintTyped
<1>5. FrameCurrent'
  BY <1>0, <1>2 DEF PaintInv, FrameCurrent
<1>6. ThemeKnown'
  BY DEF PaintInv, ThemeKnown
<1>7. ASSUME ~odd', ~Outdated', NEW c \in Spots PROVE CellAgrees(c)'
  <2>1. /\ ~odd /\ ~Outdated
        /\ surfaces.painted = V /\ \A t \in V: surfaces.last[t] = Interior(shown)
    BY <1>1, <1>7 DEF Ahead, Outdated
  <2>2. CellAgrees(c)
    BY <2>1 DEF PaintInv, GlassAgrees
  <2>3. Interior(shown) # {}
    BY InteriorRows
  <2>4. ASSUME NEW t \in V, c[2] = "body", c[1] \in Interior(shown)
        PROVE  /\ frame.prev[c] = Blank
               /\ ShowsRow(glass'[c], surfaces'.cache[t].rows[c[1]], t)
    <3>1. Spans(t, c)
      BY <2>1, <2>4 DEF Spans
    <3>2. /\ frame.prev[c] = Blank
          /\ surfaces.cache[t].dims # {} =>
               ShowsRow(glass[c], surfaces.cache[t].rows[c[1]], t)
      BY <2>1, <2>2, <3>1 DEF CellAgrees
    <3>3. surfaces'.cache[t].rows[c[1]] = ps[t].rows[c[1]]
      BY <1>2, <2>4
    <3>4. \/ ShowsRow(glass'[c], ps[t].rows[c[1]], t)
          \/ /\ glass'[c] = glass[c]
             /\ ~SurfaceForced(shown, t, all)
             /\ surfaces.cache[t].rows[c[1]] = ps[t].rows[c[1]]
      <4>1. t \in VisibleSurfaces(shown, ps)
        BY <1>0
      <4>2. QED
        BY <4>1, <2>4, OverlayWrites
    <3>5. ~SurfaceForced(shown, t, all) => surfaces.cache[t].dims # {}
      BY <2>3 DEF SurfaceForced
    <3>6. QED
      BY <3>2, <3>3, <3>4, <3>5
  <2>5. ASSUME ~(c[2] = "body" /\ c[1] \in Interior(shown) /\ V # {})
        PROVE  /\ glass'[c][1] = frame.prev[c] /\ glass'[c][2] = frame.theme
               /\ glass'[c][3] => frame.tint
    <3>1. \A t \in surfaces.painted: ~Spans(t, c)
      BY <2>1, <2>5 DEF Spans
    <3>2. glass'[c] = glass[c]
      BY <1>0, <2>5, OverlayLeaves
    <3>3. QED
      BY <2>2, <3>1, <3>2 DEF CellAgrees
  <2>6. QED
    BY <1>2, <2>4, <2>5 DEF CellAgrees, Spans
<1>8. GlassAgrees'
  BY <1>7 DEF GlassAgrees
<1>9. QED
  BY <1>3, <1>4, <1>5, <1>6, <1>8 DEF PaintInv

\* A frame leaves the caches right, whatever was shown before it: cells that
\* changed hands are reclaimed or forced, or else recorded in odd (render).
LEMMA RenderAgrees ==
  ASSUME PaintInv, NEW m \in Views, NEW ps \in Sessions, m.size = shown.size,
         shown' = m, pty' = ps, NEW f0, f0 \in {frame, ForceFull(frame)},
         Render(m, ps, f0)
  PROVE  PaintInv'
<1> PaintTyped /\ shown \in Views
  BY DEF PaintInv, PaintTyped
<1>0. PICK V: V = VisibleSurfaces(m, ps)
  OBVIOUS
<1>f. PICK f: f = Reclaimed(f0, m, ps)
  OBVIOUS
<1>a. PICK full: full = Forced(f, m)
  BY DEF Forced
<1>b. /\ glass' = Overlaid(PaintedFrame(f, m), m, ps, full)
      /\ frame' = [prev |-> NewRows(m), size |-> m.size, theme |-> m.theme,
                   tint |-> m.tint, force |-> FALSE]
      /\ surfaces' = SurfacesAfter(m, ps)
      /\ odd' = (Over(m, ps) \/ (~full /\ (odd \/ Uncovered(m, ps))))
  BY <1>f, <1>a DEF Render
<1>c. glass' = Overlaid(PaintedFrame(f, m), m, ps, full)
  BY <1>b
<1>1. /\ frame'.prev = NewRows(m) /\ frame'.size = m.size /\ frame'.theme = m.theme
      /\ frame'.tint = m.tint /\ frame'.force = FALSE
  BY <1>b
<1>2. /\ surfaces'.painted = V
      /\ \A t \in V: /\ surfaces'.last[t] = Interior(m)
                     /\ surfaces'.cache[t].dims = Interior(m)
                     /\ \A r \in Interior(m): surfaces'.cache[t].rows[r] = ps[t].rows[r]
  BY <1>0, <1>b, SurfacesRemember
<1>3. OnePainted' /\ CachesTell'
  BY <1>b, SurfacesRemember
<1>4. PaintTyped'
  <2>1. /\ surfaces' = [painted |-> surfaces'.painted, last |-> surfaces'.last,
                        cache |-> [t \in Ptys |-> surfaces'.cache[t]]]
        /\ surfaces'.painted \subseteq Ptys
    BY <1>b, SurfacesRemember
  <2>2. odd' \in BOOLEAN
    BY <1>b
  <2>3. frame' = [prev |-> frame'.prev, size |-> frame'.size, theme |-> frame'.theme,
                  tint |-> frame'.tint, force |-> frame'.force] /\ frame'.force \in BOOLEAN
    BY <1>b, <1>1
  <2>4. QED
    BY <2>1, <2>2, <2>3 DEF PaintTyped
<1>5. FrameCurrent'
  BY <1>0, <1>b, <1>2 DEF FrameCurrent
<1>6. ThemeKnown'
  BY <1>1 DEF ThemeKnown, Views
<1>g. /\ f0.size = frame.size /\ f0.theme = frame.theme /\ f0.tint = frame.tint
      /\ f0 = [prev |-> f0.prev, size |-> f0.size, theme |-> f0.theme,
               tint |-> f0.tint, force |-> f0.force]
  BY DEF PaintTyped, ForceFull
<1>7. /\ f.force = f0.force /\ f.size = frame.size /\ f.theme = frame.theme
      /\ f.tint = frame.tint
  BY <1>f, <1>g DEF Reclaimed
<1>8. ~full => /\ ~Outdated /\ f0 = frame
               /\ frame.theme = m.theme /\ frame.tint = m.tint
  <2> SUFFICES ASSUME ~full PROVE /\ ~Outdated /\ f0 = frame
                                  /\ frame.theme = m.theme /\ frame.tint = m.tint
    OBVIOUS
  <2>1. /\ ~f.force /\ (f.theme # "none" => f.theme = m.theme)
        /\ f.tint = m.tint /\ f.size = m.size
    BY <1>a DEF Forced
  <2>2. f0 = frame
    <3>1. f0 = ForceFull(frame) => f0.force = TRUE
      BY DEF ForceFull, PaintTyped
    <3>2. QED
      BY <1>7, <2>1, <3>1
  <2>3. frame.theme # "none"
    BY <1>7, <2>1, <2>2 DEF PaintInv, ThemeKnown
  <2>4. QED
    BY <1>7, <2>1, <2>2, <2>3 DEF Outdated
<1>9. ASSUME ~odd', NEW c \in Spots PROVE CellAgrees(c)'
  <2>1. ~Over(m, ps) /\ (full \/ (~odd /\ ~Uncovered(m, ps)))
    BY <1>b, <1>9
  <2>2. ~full => CellAgrees(c)
    BY <1>8, <2>1 DEF PaintInv, GlassAgrees
  <2>3. Interior(m) # {} /\ Interior(m) \subseteq {2, 3}
    BY InteriorRows
  <2>4. PICK gone: gone = UNION {surfaces.last[t] : t \in surfaces.painted \ V}
    OBVIOUS
  <2>5. f.prev[c] = IF c[1] \in gone THEN Unwritten ELSE f0.prev[c]
    <3>1. "prev" \in DOMAIN f0
      BY <1>g
    <3>2. QED
      BY <1>0, <1>f, <2>4, <3>1 DEF Reclaimed
  <2>6. NewRows(m)[c] # Unwritten
    BY FrameRows
  <2>7. ASSUME NEW t \in V, c[2] = "body", c[1] \in Interior(m)
        PROVE  /\ NewRows(m)[c] = Blank
               /\ ShowsRow(glass'[c], surfaces'.cache[t].rows[c[1]], t)
    <3>1. t = m.tab /\ m.tab # "text" /\ V = {t} /\ t \in Ptys
      BY <1>0, VisibleIsTab
    <3>2. ~m.dialog
      BY <1>0, <2>1, <3>1 DEF Over
    <3>3. NewRows(m)[c] = Blank
      BY <2>3, <2>7, <3>1, <3>2, FrameRows
    <3>4. surfaces'.cache[t].rows[c[1]] = ps[t].rows[c[1]]
      BY <1>2, <2>7
    <3>5. \/ ShowsRow(glass'[c], ps[t].rows[c[1]], t)
          \/ /\ glass'[c] = PaintedFrame(f, m)[c]
             /\ ~SurfaceForced(m, t, full)
             /\ surfaces.cache[t].rows[c[1]] = ps[t].rows[c[1]]
      <4>1. t \in VisibleSurfaces(m, ps)
        BY <1>0
      <4>2. QED
        BY <1>c, <4>1, <2>7, OverlayWrites
    <3>6. ASSUME glass'[c] = PaintedFrame(f, m)[c], ~SurfaceForced(m, t, full),
                 surfaces.cache[t].rows[c[1]] = ps[t].rows[c[1]]
          PROVE  ShowsRow(glass'[c], ps[t].rows[c[1]], t)
      <4>1. ~full /\ t \in surfaces.painted /\ surfaces.cache[t].dims = Interior(m)
        BY <3>6 DEF SurfaceForced
      <4>2. surfaces.last[t] = Interior(m)
        BY <2>3, <4>1 DEF PaintInv, CachesTell
      <4>3. Spans(t, c)
        BY <2>7, <4>2 DEF Spans
      <4>4. /\ frame.prev[c] = Blank
            /\ ShowsRow(glass[c], surfaces.cache[t].rows[c[1]], t)
        BY <2>2, <2>3, <4>1, <4>3 DEF CellAgrees
      <4>5. gone = {}
        <5>1. surfaces.painted \ V = {}
          BY <3>1, <4>1 DEF PaintInv, OnePainted
        <5>2. QED
          BY <2>4, <5>1
      <4>6. f.prev[c] = NewRows(m)[c]
        BY <1>8, <2>5, <3>3, <4>1, <4>4, <4>5
      <4>7. ~m.tint
        BY <1>0, <2>1, <3>1, <4>1 DEF Uncovered
      <4>8. PaintedFrame(f, m)[c] = glass[c]
        BY <1>a, <4>1, <4>6, <4>7, FrameWrites
      <4>9. QED
        BY <3>6, <4>4, <4>8
    <3>7. QED
      BY <3>3, <3>4, <3>5, <3>6
  <2>8. ASSUME ~(c[2] = "body" /\ c[1] \in Interior(m) /\ V # {})
        PROVE  /\ glass'[c][1] = NewRows(m)[c] /\ glass'[c][2] = m.theme
               /\ glass'[c][3] => m.tint
    <3>1. glass'[c] = PaintedFrame(f, m)[c]
      BY <1>0, <1>c, <2>8, OverlayLeaves
    <3>2. CASE full \/ NewRows(m)[c] # f.prev[c]
      BY <1>a, <3>1, <3>2, FrameWrites
    <3>3. CASE ~full /\ NewRows(m)[c] = f.prev[c]
      <4>1. c[1] \notin gone /\ frame.prev[c] = NewRows(m)[c]
        BY <1>8, <2>5, <2>6, <3>3
      <4>2. ASSUME NEW t \in surfaces.painted, Spans(t, c) PROVE FALSE
        <5>1. t \in V
          BY <2>4, <4>1, <4>2 DEF Spans
        <5>2. surfaces.last[t] \subseteq Interior(m)
          BY <1>0, <2>1, <3>3, <5>1 DEF Uncovered
        <5>3. QED
          BY <2>8, <4>2, <5>1, <5>2 DEF Spans
      <4>3. /\ glass[c][1] = frame.prev[c] /\ glass[c][2] = frame.theme
            /\ glass[c][3] => frame.tint
        BY <2>2, <3>3, <4>2 DEF CellAgrees
      <4>4. \/ PaintedFrame(f, m)[c] = glass[c]
            \/ /\ PaintedFrame(f, m)[c][1] = NewRows(m)[c]
               /\ PaintedFrame(f, m)[c][2] = m.theme
               /\ PaintedFrame(f, m)[c][3] => m.tint
        BY FrameWrites
      <4>5. QED
        BY <1>8, <3>1, <3>3, <4>1, <4>3, <4>4
    <3>4. QED
      BY <3>2, <3>3
  <2>9. QED
    BY <1>1, <1>2, <2>7, <2>8 DEF CellAgrees, Spans
<1>10. GlassAgrees'
  BY <1>9 DEF GlassAgrees
<1>11. QED
  BY <1>3, <1>4, <1>5, <1>6, <1>10 DEF PaintInv

-----------------------------------------------------------------------------
\* What a Msg makes of the model is a model of the same size, and the sessions
\* it spawns are sessions.
LEMMA FirstOf2 ==
  ASSUME NEW x, NEW y
  PROVE  <<x, y>>[1] = x
OBVIOUS

LEMMA ChangesKeep ==
  ASSUME NEW m \in Views, NEW ch \in Changes(m)
  PROVE  ch[1] \in Views /\ ch[1].size = m.size
<1> DEFINE Texts == {<<[m EXCEPT !.text = s], FALSE>> : s \in Contents}
           Tabs == {<<[m EXCEPT !.tab = t], FALSE>> : t \in Ptys \cup {"text"}}
           Dialogs == {<<[m EXCEPT !.dialog = ~@], full>> : full \in BOOLEAN}
           Shorts == {<<[m EXCEPT !.short = ~@], full>> : full \in BOOLEAN}
           Themes == {<<[m EXCEPT !.theme = t], FALSE>> : t \in {"dark", "light"}}
           Tints == {<<[m EXCEPT !.tint = ~@], FALSE>>}
<1>1. CASE ch \in Texts
  <2>1. PICK s \in Contents: ch = <<[m EXCEPT !.text = s], FALSE>>
    BY <1>1, Zenon
  <2>2. ch[1] = [m EXCEPT !.text = s]
    BY <2>1, FirstOf2, Zenon
  <2>3. QED
    BY <2>2 DEF Views
<1>2. CASE ch \in Tabs
  <2>1. PICK t \in Ptys \cup {"text"}: ch = <<[m EXCEPT !.tab = t], FALSE>>
    BY <1>2, Zenon
  <2>2. ch[1] = [m EXCEPT !.tab = t]
    BY <2>1, FirstOf2, Zenon
  <2>3. QED
    BY <2>2 DEF Views
<1>3. CASE ch \in Dialogs
  <2>1. ch[1] = [m EXCEPT !.dialog = ~m.dialog]
    BY <1>3, FirstOf2, Zenon
  <2>2. QED
    BY <2>1 DEF Views
<1>4. CASE ch \in Shorts
  <2>1. ch[1] = [m EXCEPT !.short = ~m.short]
    BY <1>4, FirstOf2, Zenon
  <2>2. QED
    BY <2>1 DEF Views
<1>5. CASE ch \in Themes
  <2>1. PICK t \in {"dark", "light"}: ch = <<[m EXCEPT !.theme = t], FALSE>>
    BY <1>5, Zenon
  <2>2. ch[1] = [m EXCEPT !.theme = t]
    BY <2>1, FirstOf2, Zenon
  <2>3. QED
    BY <2>2 DEF Views
<1>6. CASE ch \in Tints
  <2>1. ch[1] = [m EXCEPT !.tint = ~m.tint]
    BY <1>6, FirstOf2, Zenon
  <2>2. QED
    BY <2>1 DEF Views
<1>7. ch \in Texts \cup Tabs \cup Dialogs \cup Shorts \cup Themes \cup Tints
  BY Zenon DEF Changes
<1> HIDE DEF Texts, Tabs, Dialogs, Shorts, Themes, Tints
<1>8. QED
  BY <1>1, <1>2, <1>3, <1>4, <1>5, <1>6, <1>7

LEMMA SpawnedSessions ==
  ASSUME NEW m, NEW ps \in Sessions
  PROVE  Spawned(ps, m) \in Sessions
BY DEF Spawned, Sessions

\* The initial state satisfies the invariant.
LEMMA PaintInitInv == PaintInit => PaintInv
<1> SUFFICES ASSUME PaintInit PROVE PaintInv
  OBVIOUS
<1>1. (CHOOSE s \in Contents: TRUE) \in Contents
  BY PaintAssumption
<1>2. /\ shown \in Views /\ pty \in Sessions /\ pending = TRUE /\ odd = FALSE
      /\ surfaces.painted = {} /\ frame.force = TRUE
  BY <1>1 DEF PaintInit, Views, Sessions
<1>3. PaintTyped
  <2>1. frame = [prev |-> frame.prev, size |-> frame.size, theme |-> frame.theme,
                 tint |-> frame.tint, force |-> frame.force]
    BY DEF PaintInit
  <2>2. surfaces = [painted |-> surfaces.painted, last |-> surfaces.last,
                    cache |-> [t \in Ptys |-> surfaces.cache[t]]]
    BY DEF PaintInit
  <2>3. QED
    BY <1>2, <2>1, <2>2 DEF PaintTyped
<1>4. QED
  BY <1>2, <1>3 DEF PaintInv, FrameCurrent, ThemeKnown, OnePainted, CachesTell, GlassAgrees,
                    Outdated

\* While neither the screen nor a cache changes, what they say of each other
\* stays true.
LEMMA CachesStay ==
  ASSUME PaintInv, shown' \in Views, shown'.size = shown.size, pty' \in Sessions,
         frame' \in {frame, ForceFull(frame)}, pending' = TRUE,
         UNCHANGED <<surfaces, glass, odd>>
  PROVE  PaintInv'
<1> PaintTyped
  BY DEF PaintInv
<1>1. /\ frame' = [prev |-> frame'.prev, size |-> frame'.size, theme |-> frame'.theme,
                   tint |-> frame'.tint, force |-> frame'.force]
      /\ frame'.force \in BOOLEAN /\ frame'.theme = frame.theme /\ frame'.size = frame.size
      /\ frame'.force \/ frame' = frame
  BY DEF PaintTyped, ForceFull
<1>2. PaintTyped'
  BY <1>1 DEF PaintTyped
<1>3. FrameCurrent'
  BY DEF FrameCurrent
<1>4. ThemeKnown' /\ OnePainted' /\ CachesTell'
  BY <1>1 DEF PaintInv, ThemeKnown, OnePainted, CachesTell
<1>5. GlassAgrees'
  <2> SUFFICES ASSUME ~odd', ~Outdated', NEW c \in Spots PROVE CellAgrees(c)'
    BY DEF GlassAgrees
  <2>1. frame' = frame /\ ~odd /\ ~Outdated
    BY <1>1 DEF Outdated
  <2>2. CellAgrees(c)
    BY <2>1 DEF PaintInv, GlassAgrees
  <2>3. QED
    BY <2>1, <2>2 DEF CellAgrees, Spans, ShowsRow
<1>6. QED
  BY <1>2, <1>3, <1>4, <1>5 DEF PaintInv

LEMMA SessionEndsKeeps ==
  ASSUME PaintInv, SessionEnds
  PROVE  PaintInv'
<1> PaintTyped
  BY DEF PaintInv
<1>1. PICK t \in Ptys, again \in BOOLEAN:
        /\ shown' = [shown EXCEPT !.tab = IF @ = t /\ ~again THEN "text" ELSE @]
        /\ pty' = [pty EXCEPT ![t].live = again]
        /\ surfaces' = [surfaces EXCEPT !.cache[t] = NoCache]
        /\ pending' = TRUE
        /\ UNCHANGED <<frame, glass, odd>>
  BY DEF SessionEnds
<1>2. shown' \in Views /\ shown'.size = shown.size
  BY <1>1 DEF PaintTyped, Views
<1>3. pty' \in Sessions
  BY <1>1 DEF PaintTyped, Sessions
<1>4. /\ surfaces'.painted = surfaces.painted /\ surfaces'.last = surfaces.last
      /\ surfaces'.cache = [u \in Ptys |-> IF u = t THEN NoCache ELSE surfaces.cache[u]]
      /\ surfaces' = [painted |-> surfaces'.painted, last |-> surfaces'.last,
                      cache |-> surfaces'.cache]
  BY <1>1 DEF PaintTyped
<1>5. PaintTyped'
  <2>1. surfaces'.cache = [u \in Ptys |-> surfaces'.cache[u]]
    BY <1>4
  <2>2. QED
    BY <1>1, <1>2, <1>3, <1>4, <2>1 DEF PaintTyped
<1>6. FrameCurrent' /\ ThemeKnown' /\ OnePainted'
  BY <1>1, <1>4 DEF PaintInv, FrameCurrent, ThemeKnown, OnePainted
<1>7. \A u \in surfaces.painted:
        surfaces'.cache[u].dims # {} => surfaces'.cache[u] = surfaces.cache[u]
  <2>1. NoCache.dims = {}
    BY DEF NoCache
  <2>2. QED
    BY <1>4, <2>1 DEF PaintTyped
<1>8. CachesTell'
  BY <1>4, <1>7 DEF PaintInv, CachesTell
<1>9. GlassAgrees'
  <2> SUFFICES ASSUME ~odd', ~Outdated', NEW c \in Spots PROVE CellAgrees(c)'
    BY DEF GlassAgrees
  <2>1. ~odd /\ ~Outdated
    BY <1>1, <1>2 DEF Outdated
  <2>2. CellAgrees(c)
    BY <2>1 DEF PaintInv, GlassAgrees
  <2>3. QED
    BY <1>1, <1>4, <1>7, <2>2 DEF CellAgrees, Spans
<1>10. QED
  BY <1>5, <1>6, <1>8, <1>9 DEF PaintInv

\* Every step keeps the invariant.
LEMMA PaintNextInv ==
  ASSUME PaintInv, [PaintNext]_paintVars
  PROVE  PaintInv'
<1> PaintTyped /\ shown \in Views /\ pty \in Sessions
  BY DEF PaintInv, PaintTyped
<1>1. ASSUME MsgApplied PROVE PaintInv'
  <2>1. PICK ch \in Changes(shown):
          /\ shown' = ch[1] /\ pty' = Spawned(pty, ch[1])
          /\ frame' = IF ch[2] THEN ForceFull(frame) ELSE frame
          /\ pending' = TRUE
          /\ UNCHANGED <<surfaces, glass, odd>>
    BY <1>1 DEF MsgApplied
  <2>2. /\ shown' \in Views /\ shown'.size = shown.size /\ pty' \in Sessions
        /\ frame' \in {frame, ForceFull(frame)}
    BY <2>1, ChangesKeep, SpawnedSessions
  <2>3. QED
    BY <2>1, <2>2, CachesStay
<1>2. ASSUME Chunk PROVE PaintInv'
  <2>1. PICK one \in Changes(shown): \E two \in Changes(one[1]):
          LET m == two[1]
              ps == Spawned(Spawned(pty, one[1]), m)
              f == BatchForced(frame, one[2] \/ two[2])
          IN  shown' = m /\ pty' = ps /\ Render(m, ps, f)
    BY <1>2 DEF Chunk
  <2>2. PICK two \in Changes(one[1]):
          LET m == two[1]
              ps == Spawned(Spawned(pty, one[1]), m)
              f == BatchForced(frame, one[2] \/ two[2])
          IN  shown' = m /\ pty' = ps /\ Render(m, ps, f)
    BY <2>1
  <2>3. PICK m: m = two[1]
    OBVIOUS
  <2>4. PICK ps: ps = Spawned(Spawned(pty, one[1]), m)
    OBVIOUS
  <2>5. PICK f: f = BatchForced(frame, one[2] \/ two[2])
    OBVIOUS
  <2>6. shown' = m /\ pty' = ps /\ Render(m, ps, f)
    BY <2>2, <2>3, <2>4, <2>5
  <2>7. m \in Views /\ m.size = shown.size
    BY <2>3, ChangesKeep
  <2>8. ps \in Sessions
    BY <2>4, SpawnedSessions
  <2>9. f \in {frame, ForceFull(frame)}
    BY <2>5 DEF BatchForced
  <2>10. QED
    BY <2>6, <2>7, <2>8, <2>9, RenderAgrees
<1>3. ASSUME SessionEnds PROVE PaintInv'
  BY <1>3, SessionEndsKeeps
<1>4. ASSUME PtyOutput PROVE PaintInv'
  <2>1. PICK all: all = FALSE
    OBVIOUS
  <2>2. PICK t \in Ptys, r \in 2..3, s \in Contents:
          /\ pty' = [pty EXCEPT ![t].rows[r] = s]
          /\ glass' = Overlaid(glass, shown, pty', all)
          /\ surfaces' = SurfacesAfter(shown, pty')
          /\ odd' = (odd \/ Over(shown, pty) \/ Ahead(shown, pty))
          /\ UNCHANGED <<shown, frame, pending>>
    BY <1>4, <2>1 DEF PtyOutput
  <2>3. PICK ps: ps = [pty EXCEPT ![t].rows[r] = s]
    OBVIOUS
  <2>4. ps \in Sessions /\ \A u \in Ptys: ps[u].live = pty[u].live
    BY <2>3 DEF Sessions
  <2>5. QED
    BY <2>2, <2>3, <2>4, PassAgrees
<1>5. ASSUME OverlayPoll PROVE PaintInv'
  <2>1. PICK all: all = FALSE
    OBVIOUS
  <2>2. PICK ps: ps = pty
    OBVIOUS
  <2>3. /\ glass' = Overlaid(glass, shown, ps, all)
        /\ surfaces' = SurfacesAfter(shown, ps)
        /\ odd' = (odd \/ Over(shown, pty) \/ Ahead(shown, pty))
        /\ pty' = ps /\ UNCHANGED <<shown, frame, pending>>
    BY <1>5, <2>1, <2>2 DEF OverlayPoll
  <2>4. QED
    BY <2>2, <2>3, PassAgrees
<1>6. ASSUME RenderTimer \/ Resumed PROVE PaintInv'
  <2>1. PICK m, ps, f: m = shown /\ ps = pty /\ f \in {frame, ForceFull(frame)}
                       /\ Render(m, ps, f) /\ shown' = m /\ pty' = ps
    BY <1>6 DEF RenderTimer, Resumed
  <2>2. QED
    BY <2>1, RenderAgrees
<1>7. ASSUME Resized PROVE PaintInv'
  <2>1. /\ shown' = [shown EXCEPT !.size = IF @ = "wide" THEN "narrow" ELSE "wide"]
        /\ pending' = TRUE /\ odd' = (odd \/ frame.size = shown'.size)
        /\ UNCHANGED <<pty, frame, surfaces>>
    BY <1>7 DEF Resized
  <2>2. shown' \in Views
    BY <2>1 DEF Views
  <2>3. odd' \in BOOLEAN /\ (~odd' => Outdated')
    BY <2>1 DEF Outdated
  <2>4. PaintTyped'
    BY <2>1, <2>2, <2>3 DEF PaintTyped
  <2>5. FrameCurrent' /\ ThemeKnown' /\ OnePainted' /\ CachesTell'
    BY <2>1 DEF PaintInv, FrameCurrent, ThemeKnown, OnePainted, CachesTell
  <2>6. GlassAgrees'
    BY <2>3 DEF GlassAgrees
  <2>7. QED
    BY <2>4, <2>5, <2>6 DEF PaintInv
<1>8. ASSUME UNCHANGED paintVars PROVE PaintInv'
  BY <1>8 DEF paintVars, PaintInv, PaintTyped, FrameCurrent, ThemeKnown, OnePainted,
              CachesTell, GlassAgrees, Outdated, CellAgrees, Spans
<1>9. QED
  BY <1>1, <1>2, <1>3, <1>4, <1>5, <1>6, <1>7, <1>8 DEF PaintNext

-----------------------------------------------------------------------------
\* The caches of the frame and of the terminals hold what the screen shows, in
\* every behaviour.
THEOREM PaintInvariance == PaintSpec => []PaintInv
<1>1. PaintInit => PaintInv
  BY PaintInitInv
<1>2. PaintInv /\ [PaintNext]_paintVars => PaintInv'
  BY PaintNextInv
<1>3. QED
  BY <1>1, <1>2, PTL DEF PaintSpec

\* With no repaint on its way the screen shows the model and the terminals as
\* they are, for any number of terminals, whatever was written by either side
\* before (paintFrame, renderTerminalOverlay).
THEOREM ScreenAlwaysCurrent == PaintSpec => []ScreenIsCurrent
<1>1. PaintInv => ScreenIsCurrent
  <2> SUFFICES ASSUME PaintInv, ~pending, ~odd, NEW c \in Spots
               PROVE  /\ <<glass[c][1], glass[c][2]>> = Expected(c)
                      /\ ~shown.tint => ~glass[c][3]
    BY DEF ScreenIsCurrent
  <2>1. PICK V: V = VisibleSurfaces(shown, pty)
    OBVIOUS
  <2>2. shown \in Views /\ pty \in Sessions
    BY DEF PaintInv, PaintTyped
  <2>3. /\ frame = [prev |-> NewRows(shown), size |-> shown.size, theme |-> shown.theme,
                    tint |-> shown.tint, force |-> FALSE]
        /\ surfaces.painted = V
        /\ \A t \in V: /\ surfaces.last[t] = Interior(shown)
                       /\ surfaces.cache[t].dims = Interior(shown)
                       /\ \A r \in Interior(shown): surfaces.cache[t].rows[r] = pty[t].rows[r]
    BY <2>1 DEF PaintInv, FrameCurrent
  <2>4. /\ frame.prev = NewRows(shown) /\ frame.theme = shown.theme
        /\ frame.tint = shown.tint /\ ~Outdated
    BY <2>3 DEF Outdated
  <2>5. CellAgrees(c)
    BY <2>4 DEF PaintInv, GlassAgrees
  <2>6. CASE c[2] = "body" /\ c[1] \in Interior(shown) /\ V # {}
    <3>1. PICK t \in V: TRUE
      BY <2>6
    <3>2. t = shown.tab
      BY <2>1, <2>2, VisibleIsTab
    <3>3. ShowsRow(glass[c], surfaces.cache[t].rows[c[1]], t)
      BY <2>3, <2>5, <2>6, <3>1 DEF CellAgrees, Spans
    <3>4. glass[c][1] = <<"pty", pty[t].rows[c[1]]>> /\ glass[c][2] = t /\ ~glass[c][3]
      BY <2>3, <2>6, <3>3 DEF ShowsRow
    <3>5. Expected(c) = <<<<"pty", pty[t].rows[c[1]]>>, t>>
      BY <2>1, <2>6, <3>2 DEF Expected
    <3>6. QED
      BY <3>4, <3>5
  <2>7. CASE ~(c[2] = "body" /\ c[1] \in Interior(shown) /\ V # {})
    <3>1. \A t \in surfaces.painted: ~Spans(t, c)
      BY <2>3, <2>7 DEF Spans
    <3>2. glass[c][1] = NewRows(shown)[c] /\ glass[c][2] = shown.theme
      BY <2>4, <2>5, <3>1 DEF CellAgrees
    <3>3. glass[c][3] => shown.tint
      BY <2>4, <2>5, <3>1 DEF CellAgrees
    <3>4. Expected(c) = <<NewRows(shown)[c], shown.theme>>
      BY <2>1, <2>7 DEF Expected
    <3>5. QED
      BY <3>2, <3>3, <3>4
  <2>8. QED
    BY <2>6, <2>7
<1>2. QED
  BY <1>1, PaintInvariance, PTL

-----------------------------------------------------------------------------
(***************************************************************************)
(* Layering.  The groups of the project are those of its own file and of   *)
(* the splits merged so far, an entry as the first of them says.           *)
(***************************************************************************)
LoadFields == {"phase", "why", "splits", "visits", "ports", "dropped", "warned", "config", "outputs",
               "unbound", "declared", "bound"}

Says(L, i, g, e) == g \in DOMAIN L[i] /\ e \in DOMAIN L[i][g]

\* The groups are those of the first n layers.
LayeredOver(groups, L, n) ==
  /\ \A i \in 1..n : DOMAIN L[i] \subseteq DOMAIN groups
  /\ \A i \in 1..n : \A g \in DOMAIN L[i] : \A e \in DOMAIN L[i][g] :
       e[1] \in Mergeable => e \in DOMAIN groups[g]
  /\ \A g \in DOMAIN groups : \A e \in DOMAIN groups[g] :
       \E i \in 1..n : /\ Says(L, i, g, e) /\ groups[g][e] = L[i][g][e]
                       /\ \A j \in 1..(i - 1) : ~Says(L, j, g, e)

GroupsOf == [i \in DOMAIN Layers |-> Layers[i].groups]
Merged == Len(file.splits) - Len(load.splits)

ConfigInv ==
  /\ file \in Documents
  /\ project = [f \in DocumentFields |-> project[f]]
  /\ project.settings = file.settings /\ project.form = file.form
  /\ load = [f \in LoadFields |-> load[f]]
  /\ load.splits \in Seq(DOMAIN Splits) /\ Len(load.splits) <= Len(file.splits)
  /\ \A i \in 1..Len(load.splits) : load.splits[i] = file.splits[Merged + i]
  /\ load.phase \notin {"merging", "failed"} => load.splits = <<>>
  /\ LayeredOver(project.groups, GroupsOf, Merged + 1)
  /\ load.phase \in {"binding", "ready"} =>
       \A s \in DOMAIN file.settings \ {"quick_keys"} : load.config[s] = Spoken(s)

\* Merging one more layer.
LEMMA MergeLayers ==
  ASSUME NEW L, NEW n \in Nat, NEW main, NEW plugin,
         main = [f \in DocumentFields |-> main[f]],
         LayeredOver(main.groups, L, n), L[n + 1] = plugin.groups
  PROVE  LayeredOver(MergePluginInto(main, plugin).groups, L, n + 1)
<1>1. PICK mine: mine = main.groups
  OBVIOUS
<1>2. PICK theirs: theirs = plugin.groups
  OBVIOUS
<1>3. PICK after: after = MergePluginInto(main, plugin).groups
  OBVIOUS
<1>4. after = [g \in DOMAIN mine \cup DOMAIN theirs |->
                 CASE g \notin DOMAIN theirs -> mine[g]
                   [] g \notin DOMAIN mine -> theirs[g]
                   [] OTHER -> MergedGroup(mine[g], theirs[g])]
  <2>1. "groups" \in DocumentFields /\ "actions" \in DocumentFields
    BY DEF DocumentFields
  <2>2. QED
    BY <2>1, <1>1, <1>2, <1>3 DEF MergePluginInto
<1>5. DOMAIN after = DOMAIN mine \cup DOMAIN theirs
  BY <1>4
<1>6. \A g \in DOMAIN after:
        /\ g \notin DOMAIN theirs => after[g] = mine[g]
        /\ g \in DOMAIN theirs /\ g \notin DOMAIN mine => after[g] = theirs[g]
        /\ g \in DOMAIN theirs /\ g \in DOMAIN mine => after[g] = MergedGroup(mine[g], theirs[g])
  BY <1>4
<1>7. LayeredOver(mine, L, n) /\ L[n + 1] = theirs
  BY <1>1, <1>2
<1>8. ASSUME NEW g \in DOMAIN mine, g \in DOMAIN theirs
       PROVE  /\ DOMAIN after[g] = DOMAIN mine[g] \cup Brought(theirs[g])
              /\ \A e \in DOMAIN mine[g] : after[g][e] = mine[g][e]
              /\ \A e \in Brought(theirs[g]) \ DOMAIN mine[g] : after[g][e] = theirs[g][e]
  <2>1. after[g] = MergedGroup(mine[g], theirs[g])
    BY <1>8, <1>5, <1>6
  <2>2. QED
    BY <2>1 DEF MergedGroup
<1>9. ASSUME NEW g \in DOMAIN after, g \notin DOMAIN mine \/ g \notin DOMAIN theirs
       PROVE  after[g] = IF g \in DOMAIN mine THEN mine[g] ELSE theirs[g]
  BY <1>9, <1>5, <1>6
<1>10. ASSUME NEW i \in 1..(n + 1) PROVE i \in 1..n \/ i = n + 1
  OBVIOUS
<1>11. ASSUME NEW i \in 1..(n + 1) PROVE DOMAIN L[i] \subseteq DOMAIN after
  <2>1. CASE i \in 1..n
    BY <2>1, <1>5, <1>7 DEF LayeredOver
  <2>2. CASE i = n + 1
    BY <2>2, <1>5, <1>7
  <2>3. QED
    BY <1>10, <2>1, <2>2
<1>12. ASSUME NEW g \in DOMAIN mine PROVE DOMAIN mine[g] \subseteq DOMAIN after[g]
  BY <1>5, <1>8, <1>9
<1>13. ASSUME NEW i \in 1..(n + 1), NEW g \in DOMAIN L[i], NEW e \in DOMAIN L[i][g],
              e[1] \in Mergeable
       PROVE  e \in DOMAIN after[g]
  <2>1. CASE i \in 1..n
    BY <2>1, <1>7, <1>12, <1>13 DEF LayeredOver
  <2>2. CASE i = n + 1
    BY <2>2, <1>5, <1>7, <1>13, <1>8, <1>9 DEF Brought
  <2>3. QED
    BY <1>10, <2>1, <2>2
<1>14. ASSUME NEW g \in DOMAIN after, NEW e \in DOMAIN after[g]
       PROVE  \E i \in 1..(n + 1) : /\ Says(L, i, g, e) /\ after[g][e] = L[i][g][e]
                                    /\ \A j \in 1..(i - 1) : ~Says(L, j, g, e)
  <2>1. CASE g \in DOMAIN mine /\ e \in DOMAIN mine[g]
    <3>1. after[g][e] = mine[g][e]
      BY <2>1, <1>8, <1>9
    <3>2. PICK i \in 1..n : /\ Says(L, i, g, e) /\ mine[g][e] = L[i][g][e]
                            /\ \A j \in 1..(i - 1) : ~Says(L, j, g, e)
      BY <2>1, <1>7 DEF LayeredOver
    <3>3. i \in 1..(n + 1)
      OBVIOUS
    <3>4. QED
      BY <3>1, <3>2, <3>3
  <2>2. CASE ~(g \in DOMAIN mine /\ e \in DOMAIN mine[g])
    <3>1. g \in DOMAIN theirs /\ e \in DOMAIN theirs[g]
      BY <2>2, <1>5, <1>8, <1>9 DEF Brought
    <3>2. after[g][e] = theirs[g][e] /\ (g \in DOMAIN mine => e[1] \in Mergeable)
      BY <2>2, <3>1, <1>5, <1>8, <1>9 DEF Brought
    <3>3. ASSUME NEW j \in 1..n PROVE ~Says(L, j, g, e)
      BY <2>2, <3>2, <1>7 DEF LayeredOver, Says
    <3>4. Says(L, n + 1, g, e) /\ after[g][e] = L[n + 1][g][e]
      BY <3>1, <3>2, <1>7 DEF Says
    <3>5. n + 1 \in 1..(n + 1) /\ 1..((n + 1) - 1) = 1..n
      OBVIOUS
    <3>6. QED
      BY <3>3, <3>4, <3>5
  <2>3. QED
    BY <2>1, <2>2
<1>15. LayeredOver(after, L, n + 1)
  BY <1>11, <1>13, <1>14 DEF LayeredOver
<1>16. QED
  BY <1>3, <1>15

LEMMA ConfigInitInv == ConfigInit => ConfigInv
<1> SUFFICES ASSUME ConfigInit PROVE ConfigInv
  OBVIOUS
<1>1. file \in Documents /\ project = file
  BY DEF ConfigInit
<1>2. /\ project = [f \in DocumentFields |-> project[f]] /\ file.splits \in Seq(DOMAIN Splits)
  BY <1>1, ConfigAssumption
<1>3. load = [f \in LoadFields |-> load[f]] /\ load.splits = file.splits
  BY DEF ConfigInit, LoadFields
<1>4. load.phase \in {"merging", "failed"}
  BY DEF ConfigInit
<1>5. Merged = 0
  BY <1>2, <1>3 DEF Merged
<1>6. GroupsOf[1] = project.groups
  <2>1. Len(file.splits) \in Nat /\ DOMAIN file.splits = 1..Len(file.splits)
    BY <1>2
  <2>2. Layers = <<file>> \o [i \in 1..Len(file.splits) |-> Splits[file.splits[i]]]
    BY <2>1 DEF Layers
  <2>3. DOMAIN Layers = 1..(1 + Len(file.splits)) /\ Layers[1] = file
    BY <2>1, <2>2
  <2>4. QED
    BY <2>1, <2>3, <1>1 DEF GroupsOf
<1>7. LayeredOver(project.groups, GroupsOf, Merged + 1)
  BY <1>5, <1>6 DEF LayeredOver, Says
<1>8. QED
  BY <1>1, <1>2, <1>3, <1>4, <1>5, <1>7 DEF ConfigInv

\* What a step leaves alone of the merging keeps its part of the invariant.
LEMMA LayersStay ==
  ASSUME ConfigInv, file' = file, project'.groups = project.groups,
         load'.splits = load.splits
  PROVE  /\ Merged' = Merged /\ GroupsOf' = GroupsOf
         /\ LayeredOver(project'.groups, GroupsOf', Merged' + 1)
<1>1. Merged' = Merged /\ GroupsOf' = GroupsOf
  BY DEF Merged, GroupsOf, Layers
<1>2. QED
  BY <1>1 DEF ConfigInv

\* The settings in force once the layers are merged.
LEMMA LayerSpeaks ==
  ASSUME ConfigInv, Layer, load'.phase = "binding", NEW s \in DOMAIN file.settings \ {"quick_keys"}
  PROVE  load'.config[s] = Spoken(s)
<1>1. PICK merged : /\ merged = IF Honoured(user) THEN MergeGlobal(project, user) ELSE project
                    /\ load'.config = Assembled(merged)
  BY DEF Layer, ConfigInv, LoadFields, Failed
<1>2. merged.settings[s] = Spoken(s) /\ merged.form = file.form
      /\ DOMAIN merged.settings = DOMAIN file.settings
  <2>1. CASE Honoured(user)
    BY <2>1, <1>1 DEF MergeGlobal, ConfigInv, DocumentFields, Spoken
  <2>2. CASE ~Honoured(user)
    BY <2>2, <1>1 DEF ConfigInv, Spoken
  <2>3. QED
    BY <2>1, <2>2
<1>3. s \in Returned
  BY ConfigAssumption DEF ConfigInv
<1>4. QED
  BY <1>1, <1>2, <1>3 DEF Assembled

\* The steps that merge nothing.
LEMMA NoMergeKeeps ==
  ASSUME ConfigInv, UNCHANGED <<file, user>>,
         project' = [f \in DocumentFields |-> project'[f]],
         project'.settings = project.settings, project'.form = project.form,
         project'.groups = project.groups,
         load' = [f \in LoadFields |-> load'[f]], load'.splits = load.splits,
         load'.phase \notin {"merging", "failed"} => load.splits = <<>>,
         load'.phase \in {"binding", "ready"} =>
           \A s \in DOMAIN file.settings \ {"quick_keys"} : load'.config[s] = Spoken(s)
  PROVE  ConfigInv'
<1>1. ASSUME NEW s PROVE Spoken(s)' = Spoken(s)
  BY DEF Spoken, Honoured
<1>2. load'.phase \in {"binding", "ready"} =>
           \A s \in DOMAIN file'.settings \ {"quick_keys"} : load'.config[s] = Spoken(s)'
  BY <1>1
<1>3. (Merged' = Merged /\ GroupsOf' = GroupsOf)
         /\ LayeredOver(project'.groups, GroupsOf', Merged' + 1)
  BY LayersStay
<1>4. QED
  BY <1>2, <1>3 DEF ConfigInv

LEMMA ConfigNextInv == ConfigInv /\ [ConfigNext]_configVars => ConfigInv'
<1> SUFFICES ASSUME ConfigInv, [ConfigNext]_configVars PROVE ConfigInv'
  OBVIOUS
<1> USE DEF LoadFields, Failed
<1>1. ASSUME MergeSplit PROVE ConfigInv'
  <2>1. PICK plugin: plugin = Splits[Head(load.splits)]
    OBVIOUS
  <2>2. CASE plugin.read # "ok"
    <3>1. load' = Failed(load, plugin.read) /\ project' = project /\ file' = file /\ user' = user
      BY <1>1, <2>1, <2>2 DEF MergeSplit
    <3>2. QED
      BY <3>1, NoMergeKeeps DEF ConfigInv
  <2>3. CASE plugin.read = "ok"
    <3>1. /\ project' = MergePluginInto(project, plugin) /\ load' = [load EXCEPT !.splits = Tail(@)]
          /\ file' = file /\ user' = user /\ load.phase = "merging" /\ load.splits # <<>>
      BY <1>1, <2>1, <2>3 DEF MergeSplit
    <3>2. /\ project' = [f \in DocumentFields |-> project'[f]]
          /\ project'.settings = project.settings /\ project'.form = project.form
      BY <3>1 DEF ConfigInv, MergePluginInto, DocumentFields
    <3>3. load' = [f \in LoadFields |-> load'[f]] /\ load'.splits = Tail(load.splits)
          /\ load'.phase = "merging"
      BY <3>1 DEF ConfigInv
    <3>4. file.splits \in Seq(DOMAIN Splits)
      BY ConfigAssumption DEF ConfigInv
    <3>5. /\ load'.splits \in Seq(DOMAIN Splits) /\ Len(load'.splits) = Len(load.splits) - 1
          /\ Len(load.splits) \in Nat /\ Len(load.splits) > 0 /\ Len(file.splits) \in Nat
          /\ \A i \in 1..Len(load'.splits) : load'.splits[i] = load.splits[i + 1]
      BY <3>1, <3>3, <3>4 DEF ConfigInv
    <3>6. Merged \in Nat /\ Merged' = Merged + 1 /\ GroupsOf' = GroupsOf
      BY <3>1, <3>5 DEF Merged, GroupsOf, Layers, ConfigInv
    <3>7. \A i \in 1..Len(load'.splits) : load'.splits[i] = file'.splits[Merged' + i]
      <4>1. ASSUME NEW i \in 1..Len(load'.splits)
            PROVE  load'.splits[i] = file.splits[(Merged + 1) + i]
        <5>1. i + 1 \in 1..Len(load.splits)
          BY <3>5
        <5>2. Merged + (i + 1) = (Merged + 1) + i
          BY <3>5, <3>6
        <5>3. QED
          BY <5>1, <5>2, <3>5 DEF ConfigInv
      <4>2. QED
        BY <4>1, <3>1, <3>6
    <3>8. GroupsOf[Merged + 2] = plugin.groups
      <4>1. DOMAIN file.splits = 1..Len(file.splits) /\ Merged + 1 \in 1..Len(file.splits)
        BY <3>4, <3>5 DEF Merged, ConfigInv
      <4>2. Head(load.splits) = file.splits[Merged + 1]
        BY <3>5, <3>1 DEF ConfigInv
      <4>3. Layers = <<file>> \o [i \in 1..Len(file.splits) |-> Splits[file.splits[i]]]
        BY <4>1 DEF Layers
      <4>4. Merged + 2 \in DOMAIN Layers /\ Layers[Merged + 2] = Splits[file.splits[Merged + 1]]
        BY <4>1, <4>3, <3>5, <3>6
      <4>5. QED
        BY <4>2, <4>4, <2>1 DEF GroupsOf
    <3>9. LayeredOver(project'.groups, GroupsOf, Merged + 2)
      <4>1. LayeredOver(project.groups, GroupsOf, Merged + 1) /\ Merged + 1 \in Nat
            /\ GroupsOf[(Merged + 1) + 1] = plugin.groups /\ (Merged + 1) + 1 = Merged + 2
        BY <3>6, <3>8 DEF ConfigInv
      <4>2. project = [f \in DocumentFields |-> project[f]]
        BY DEF ConfigInv
      <4>3. LayeredOver(MergePluginInto(project, plugin).groups, GroupsOf, (Merged + 1) + 1)
        BY <4>1, <4>2, MergeLayers
      <4>4. QED
        BY <4>1, <4>3, <3>1
    <3>10. LayeredOver(project'.groups, GroupsOf', Merged' + 1)
      <4>1. Merged' + 1 = Merged + 2
        BY <3>6
      <4>2. QED
        BY <4>1, <3>6, <3>9
    <3>11. file' \in Documents /\ project'.settings = file'.settings /\ project'.form = file'.form
      BY <3>1, <3>2 DEF ConfigInv
    <3>12. Len(load'.splits) <= Len(file'.splits)
      BY <3>1, <3>5 DEF ConfigInv
    <3>13. QED
      BY <3>2, <3>3, <3>5, <3>7, <3>10, <3>11, <3>12 DEF ConfigInv
  <2>4. QED
    BY <2>2, <2>3
<1>2. ASSUME ValidateSections PROVE ConfigInv'
  BY <1>2, NoMergeKeeps DEF ValidateSections, ConfigInv
<1>3. ASSUME ValidateAction PROVE ConfigInv'
  BY <1>3, NoMergeKeeps DEF ValidateAction, Visiting, ConfigInv
<1>10. ASSUME ValidatePort PROVE ConfigInv'
  BY <1>10, NoMergeKeeps DEF ValidatePort, Visiting, ConfigInv, DocumentFields
<1>4. ASSUME ValidateGroups PROVE ConfigInv'
  BY <1>4, NoMergeKeeps DEF ValidateGroups, ConfigInv
<1>5. ASSUME Layer PROVE ConfigInv'
  <2>1. load'.phase \in {"failed", "binding"} /\ load' = [f \in LoadFields |-> load'[f]]
        /\ load'.splits = load.splits /\ load.phase = "layering" /\ UNCHANGED <<file, project, user>>
    BY <1>5 DEF Layer, ConfigInv
  <2>2. load'.phase \in {"binding", "ready"} =>
           \A s \in DOMAIN file.settings \ {"quick_keys"} : load'.config[s] = Spoken(s)
    BY <2>1, <1>5, LayerSpeaks
  <2>3. QED
    BY <2>1, <2>2, NoMergeKeeps DEF ConfigInv
<1>6. ASSUME Bind PROVE ConfigInv'
  BY <1>6, NoMergeKeeps DEF Bind, ConfigInv
<1>7. ASSUME Ready PROVE ConfigInv'
  BY <1>7, NoMergeKeeps DEF Ready, ConfigInv
<1>8. ASSUME UNCHANGED configVars PROVE ConfigInv'
  BY <1>8, NoMergeKeeps DEF configVars, ConfigInv
<1>9. QED
  BY <1>1, <1>2, <1>3, <1>4, <1>5, <1>6, <1>7, <1>8, <1>10 DEF ConfigNext

\* The first layer that says something of an entry is the one that counts.
LEMMA InvLayered == ConfigInv => Layered
<1> SUFFICES ASSUME ConfigInv, load.phase \in {"binding", "ready"} PROVE Layered
  BY DEF Layered
<1>1. load.splits = <<>> /\ file.splits \in Seq(DOMAIN Splits)
  BY ConfigAssumption DEF ConfigInv
<1>2. Len(file.splits) \in Nat /\ Merged = Len(file.splits)
  BY <1>1 DEF Merged
<1>3. DOMAIN Layers = 1..(Merged + 1)
  BY <1>1, <1>2 DEF Layers
<1>4. ASSUME NEW g \in DOMAIN project.groups, NEW e \in DOMAIN project.groups[g]
      PROVE  project.groups[g][e] = FirstOf(g, e)
  <2> DEFINE says == {i \in DOMAIN Layers : g \in DOMAIN Layers[i].groups
                                            /\ e \in DOMAIN Layers[i].groups[g]}
  <2>1. PICK i \in 1..(Merged + 1) : /\ Says(GroupsOf, i, g, e)
                                     /\ project.groups[g][e] = GroupsOf[i][g][e]
                                     /\ \A j \in 1..(i - 1) : ~Says(GroupsOf, j, g, e)
    BY DEF ConfigInv, LayeredOver
  <2>2. \A j \in 1..(Merged + 1) : GroupsOf[j] = Layers[j].groups
    BY <1>3 DEF GroupsOf
  <2>3. i \in says /\ \A j \in says : i <= j
    BY <2>1, <2>2, <1>2, <1>3 DEF Says
  <2>4. \A k \in says : (\A j \in says : k <= j) => k = i
    BY <2>3, <1>2, <1>3
  <2>5. (CHOOSE k \in says : \A j \in says : k <= j) = i
    BY <2>3, <2>4
  <2>6. QED
    BY <2>1, <2>2, <2>5 DEF FirstOf
<1>5. ASSUME NEW i \in DOMAIN Layers, NEW g \in DOMAIN Layers[i].groups
      PROVE  /\ g \in DOMAIN project.groups
             /\ \A e \in DOMAIN Layers[i].groups[g] : e[1] \in Mergeable => e \in DOMAIN project.groups[g]
  <2>1. i \in 1..(Merged + 1) /\ GroupsOf[i] = Layers[i].groups
    BY <1>3 DEF GroupsOf
  <2>2. QED
    BY <2>1 DEF ConfigInv, LayeredOver
<1>6. QED
  BY <1>4, <1>5 DEF Layered, ConfigInv

THEOREM ConfigInvariance == ConfigSpec => []ConfigInv
<1>1. ConfigInv /\ [ConfigNext]_configVars => ConfigInv'
  BY ConfigNextInv
<1>2. QED
  BY ConfigInitInv, <1>1, PTL DEF ConfigSpec

THEOREM ConfigAlwaysLayered == ConfigSpec => []Layered
BY ConfigInvariance, InvLayered, PTL

-----------------------------------------------------------------------------
(***************************************************************************)
(* Usable ports.  A declaration that was normalised is one every port it   *)
(* serves can use, and normalising it again for another port keeps it so.  *)
(***************************************************************************)
Channels == {"choices", "choices_cmd", "choices_fn"}

\* What a normalised declaration is, whichever port it serves.
CellGood(d) ==
  /\ Cardinality(Channels \cap DOMAIN d) <= 1 /\ \A k \in DOMAIN d \ {"depends_on"} : d[k] # "bad"
  /\ Is(d, "choices", "items") \/ ~Has(d, "choices")
  /\ {"choices_labeled", "choices_timeout"} \cap DOMAIN d = {} \/ Has(d, "choices_cmd")
  /\ Has(d, "depends_on") => ~Has(d, "choices")
  /\ Is(d, "sensitive", "true") => Is(d, "remember", "false")

Fits(d, me, siblings) == Has(d, "depends_on") => d["depends_on"] \subseteq siblings \ {me}

\* n says no more than d, but for remember.
Narrower(n, d) ==
  /\ DOMAIN n \subseteq DOMAIN d \cup {"remember"}
  /\ Is(n, "variadic", "true") => Is(d, "variadic", "true")
  /\ Has(n, "depends_on") => Has(d, "depends_on") /\ n["depends_on"] \subseteq d["depends_on"]

LEMMA NormalisedGood ==
  ASSUME NEW d, Declaration(d), ~Clashes(d), NEW me, NEW siblings
  PROVE  /\ Declaration(Normalised(d, me, siblings)) /\ CellGood(Normalised(d, me, siblings))
         /\ Fits(Normalised(d, me, siblings), me, siblings)
         /\ Narrower(Normalised(d, me, siblings), d)
<1> USE DEF Has, Is
\* What each of the passes leaves, in the order they run.
<1>1. PICK p1 : p1 = Flagged(d)
  OBVIOUS
<1>2. /\ p1 = [k \in DOMAIN p1 |-> p1[k]] /\ DOMAIN p1 \subseteq DOMAIN d \cup {"remember"}
      /\ \A k \in DOMAIN p1 \ {"remember"} : p1[k] = d[k]
      /\ \A k \in {"remember", "sensitive", "default"} \cap DOMAIN p1 : p1[k] # "bad"
      /\ Is(p1, "sensitive", "true") => Is(p1, "remember", "false")
      /\ DOMAIN d \ {"remember", "sensitive", "default"} \subseteq DOMAIN p1
  <2> DEFINE t == Without(d, {k \in {"remember", "sensitive", "default"} : Is(d, k, "bad")})
  <2>1. /\ t = [k \in DOMAIN t |-> t[k]] /\ DOMAIN t \subseteq DOMAIN d /\ \A k \in DOMAIN t : t[k] = d[k]
        /\ \A k \in {"remember", "sensitive", "default"} \cap DOMAIN t : t[k] # "bad"
        /\ DOMAIN d \ {"remember", "sensitive", "default"} \subseteq DOMAIN t
    BY DEF Without
  <2>2. p1 = IF ~Is(t, "sensitive", "true") THEN t
             ELSE [k \in DOMAIN t \cup {"remember"} |-> IF k = "remember" THEN "false" ELSE t[k]]
    BY <1>1 DEF Flagged
  <2> HIDE DEF t
  <2>3. CASE ~Is(t, "sensitive", "true")
    BY <2>1, <2>2, <2>3
  <2>4. CASE Is(t, "sensitive", "true")
    BY <2>1, <2>2, <2>4
  <2>5. QED
    BY <2>3, <2>4
<1>3. PICK p2 : p2 = Listed(p1)
  OBVIOUS
<1>4. /\ p2 = [k \in DOMAIN p2 |-> p2[k]]
      /\ DOMAIN p1 \ {"choices"} \subseteq DOMAIN p2 /\ DOMAIN p2 \subseteq DOMAIN p1
      /\ \A k \in DOMAIN p2 \ {"choices"} : p2[k] = p1[k]
      /\ Has(p2, "choices") => p2["choices"] = "items"
  <2>1. CASE ~Has(p1, "choices")
    BY <2>1, <1>2, <1>3 DEF Listed
  <2>2. CASE Is(p1, "choices", "list")
    BY <2>2, <1>2, <1>3 DEF Listed
  <2>3. CASE Has(p1, "choices") /\ ~Is(p1, "choices", "list")
    BY <2>3, <1>2, <1>3 DEF Listed, Without
  <2>4. QED
    BY <2>1, <2>2, <2>3
<1>5. PICK p3 : p3 = Channelled(p2)
  OBVIOUS
<1>6. /\ p3 = [k \in DOMAIN p3 |-> p3[k]] /\ DOMAIN p3 \subseteq DOMAIN p2
      /\ \A k \in DOMAIN p3 : p3[k] = p2[k]
      /\ \A k \in {"choices_fn", "choices_cmd", "choices_labeled", "choices_timeout"} \cap DOMAIN p3 :
           p3[k] # "bad"
  BY <1>5 DEF Channelled, Without
<1>7. PICK p4 : p4 = Attached(p3)
  OBVIOUS
<1>8. /\ p4 = [k \in DOMAIN p4 |-> p4[k]] /\ DOMAIN p4 \subseteq DOMAIN p3
      /\ \A k \in DOMAIN p4 : p4[k] = p3[k]
      /\ {"choices_labeled", "choices_timeout"} \cap DOMAIN p4 = {} \/ Has(p4, "choices_cmd")
      /\ DOMAIN p3 \ {"choices_labeled", "choices_timeout"} \subseteq DOMAIN p4
  BY <1>6, <1>7 DEF Attached, Without
<1>9. PICK n : n = Depending(p4, me, siblings)
  OBVIOUS
<1>10. /\ n = [k \in DOMAIN n |-> n[k]]
       /\ DOMAIN p4 \ {"depends_on"} \subseteq DOMAIN n /\ DOMAIN n \subseteq DOMAIN p4
       /\ \A k \in DOMAIN n \ {"depends_on"} : n[k] = p4[k]
       /\ Has(n, "depends_on") =>
            /\ ~Has(n, "choices") /\ n["depends_on"] = (p4["depends_on"] \cap siblings) \ {me}
  <2>1. CASE ~Has(p4, "depends_on")
    <3>1. n = p4
      BY <2>1, <1>9 DEF Depending
    <3>2. QED
      BY <3>1, <2>1, <1>8
  <2>2. CASE Has(p4, "depends_on") /\ (Has(p4, "choices") \/ "not a list" \in p4["depends_on"])
    BY <2>2, <1>8, <1>9 DEF Depending, Without
  <2>3. CASE Has(p4, "depends_on") /\ ~(Has(p4, "choices") \/ "not a list" \in p4["depends_on"])
    BY <2>3, <1>8, <1>9 DEF Depending
  <2>4. QED
    BY <2>1, <2>2, <2>3
<1>11. n = Normalised(d, me, siblings)
  BY <1>1, <1>3, <1>5, <1>7, <1>9 DEF Normalised
\* Together.
<1>12. DOMAIN n \subseteq DOMAIN d \cup {"remember"} /\ DOMAIN n \subseteq PortKeys
  BY <1>2, <1>4, <1>6, <1>8, <1>10 DEF Declaration, PortKeys
<1>13. \A k \in DOMAIN n \ {"remember", "choices", "depends_on"} : k \in DOMAIN d /\ n[k] = d[k]
  BY <1>2, <1>4, <1>6, <1>8, <1>10
<1>14. Declaration(n)
  BY <1>10, <1>12, <1>13 DEF Declaration
<1>15. \A k \in DOMAIN n \ {"depends_on"} : n[k] # "bad"
  <2>1. ASSUME NEW k \in DOMAIN n, k # "depends_on" PROVE n[k] # "bad"
    <3>1. /\ k \in PortKeys \ {"depends_on"} /\ n[k] = p4[k] /\ n[k] = p3[k] /\ n[k] = p2[k]
          /\ k \in DOMAIN p3 /\ k \in DOMAIN p2 /\ k \in DOMAIN p1
      <4>1. k \in PortKeys /\ k \in DOMAIN p4 /\ n[k] = p4[k]
        BY <2>1, <1>12, <1>10
      <4>2. k \in DOMAIN p3 /\ p4[k] = p3[k]
        BY <4>1, <1>8
      <4>3. k \in DOMAIN p2 /\ p3[k] = p2[k] /\ k \in DOMAIN p1
        BY <4>2, <1>6, <1>4
      <4>4. QED
        BY <2>1, <4>1, <4>2, <4>3
    <3>2. CASE k = "choices"
      BY <3>1, <3>2, <1>4
    <3>3. CASE k \in {"remember", "sensitive", "default"}
      BY <3>1, <3>3, <1>2, <1>4
    <3>4. CASE k \in {"choices_fn", "choices_cmd", "choices_labeled", "choices_timeout"}
      BY <3>1, <3>4, <1>6
    <3>5. CASE k = "variadic"
      BY <2>1, <3>5, <1>13 DEF Clashes
    <3>6. QED
      BY <3>1, <3>2, <3>3, <3>4, <3>5 DEF PortKeys
  <2>2. QED
    BY <2>1
<1>16. Cardinality(Channels \cap DOMAIN n) <= 1
  <2>1. \A j, k \in Channels \cap DOMAIN n : j = k
    <3>1. Channels \cap DOMAIN n \subseteq DOMAIN d
      BY <1>12 DEF Channels
    <3>2. "choices_fn" \in DOMAIN n => d["choices_fn"] = "ok"
      BY <1>13, <1>15 DEF Declaration
    <3>3. QED
      BY <3>1, <3>2 DEF Clashes, Channels
  <2>2. PICK k : Channels \cap DOMAIN n \subseteq {k}
    BY <2>1
  <2>3. Cardinality({k}) = 1 /\ IsFiniteSet({k})
    BY FS_Singleton
  <2>4. Cardinality(Channels \cap DOMAIN n) <= Cardinality({k})
    BY <2>2, <2>3, FS_Subset
  <2>5. QED
    BY <2>3, <2>4
<1>17. Is(n, "choices", "items") \/ ~Has(n, "choices")
  BY <1>4, <1>6, <1>8, <1>10
<1>18. {"choices_labeled", "choices_timeout"} \cap DOMAIN n = {} \/ Has(n, "choices_cmd")
  BY <1>8, <1>10
<1>19. Is(n, "sensitive", "true") => Is(n, "remember", "false")
  <2>1. "remember" \in DOMAIN p1 => "remember" \in DOMAIN p2
    BY <1>4
  <2>2. "remember" \in DOMAIN p2 => "remember" \in DOMAIN p3
    BY <1>6, <1>4, <1>2, <1>5 DEF Channelled, Without
  <2>3. "remember" \in DOMAIN p3 => "remember" \in DOMAIN p4 /\ "remember" \in DOMAIN n
    BY <1>8, <1>10
  <2>4. "sensitive" \in DOMAIN n => "sensitive" \in DOMAIN p1 /\ n["sensitive"] = p1["sensitive"]
    BY <1>4, <1>6, <1>8, <1>10
  <2>5. "remember" \in DOMAIN n => n["remember"] = p1["remember"]
    BY <1>4, <1>6, <1>8, <1>10
  <2>6. QED
    BY <2>1, <2>2, <2>3, <2>4, <2>5, <1>2
<1>20. Has(n, "depends_on") => Has(d, "depends_on") /\ n["depends_on"] = (d["depends_on"] \cap siblings) \ {me}
  BY <1>2, <1>4, <1>6, <1>8, <1>10
<1>21. CellGood(n)
  BY <1>10, <1>15, <1>16, <1>17, <1>18, <1>19 DEF CellGood
<1>22. Fits(n, me, siblings)
  BY <1>20 DEF Fits
<1>23. Narrower(n, d)
  BY <1>12, <1>13, <1>20 DEF Narrower
<1>24. QED
  BY <1>11, <1>14, <1>21, <1>22, <1>23

\* The first n inputs of an action are usable; an action that was visited.
UsableUpTo(act, heap, n) ==
  \A j \in 1 .. n : /\ CellGood(heap[act.in[j].cell])
                    /\ Fits(heap[act.in[j].cell], act.in[j].name, NamesIn(act.in))

Settled(act, heap) == UsableUpTo(act, heap, Len(act.in)) /\ VariadicOK(act.in, heap)

KeysOK(s) == IsList(s) /\ BindingsOK(s)

PortsInv ==
  /\ user \in Users
  /\ project.heap = [c \in DOMAIN project.heap |-> project.heap[c]]
  /\ DOMAIN project.heap = DOMAIN file.heap
  /\ \A c \in DOMAIN project.heap : Declaration(project.heap[c])
  /\ ActionsIn(project.actions, project.heap) /\ IsList(project.keys)
  /\ load.visits \in 0 .. Len(project.actions) /\ load.ports \in Nat
  /\ load.phase = "merging" => load.visits = 0 /\ load.ports = 0
  /\ \A i \in 1 .. load.visits : Settled(project.actions[i], project.heap)
  /\ load.visits < Len(project.actions) =>
       load.ports <= Len(Visited.in) /\ UsableUpTo(Visited, project.heap, load.ports)
  /\ project.form = "yaml" =>
       /\ load.phase \in {"validating", "layering", "binding", "ready"} => BindingsOK(project.keys)
       /\ load.phase \in {"layering", "binding", "ready"} =>
            /\ load.visits = Len(project.actions)
            /\ \A w \in project.wires : WireOK(project.actions, w)
       /\ KeysOK(load.declared) /\ KeysOK(load.unbound)

LEMMA NarrowerKeeps ==
  ASSUME NEW heap, NEW act, IsList(act.in), \A j \in DOMAIN act.in : act.in[j].cell \in DOMAIN heap,
         NEW c \in DOMAIN heap, NEW n, CellGood(n), Narrower(n, heap[c]),
         NEW after, after = [heap EXCEPT ![c] = n]
  PROVE  /\ \A k \in 0 .. Len(act.in) : UsableUpTo(act, heap, k) => UsableUpTo(act, after, k)
         /\ Settled(act, heap) => Settled(act, after)
<1>1. Len(act.in) \in Nat /\ DOMAIN act.in = 1 .. Len(act.in)
  BY SeqIsList DEF IsList
<1>2. \A j \in DOMAIN act.in :
         after[act.in[j].cell] = IF act.in[j].cell = c THEN n ELSE heap[act.in[j].cell]
  OBVIOUS
<1>3. ASSUME NEW k \in 0 .. Len(act.in), UsableUpTo(act, heap, k) PROVE UsableUpTo(act, after, k)
  <2>1. ASSUME NEW j \in 1 .. k
        PROVE  /\ CellGood(after[act.in[j].cell])
               /\ Fits(after[act.in[j].cell], act.in[j].name, NamesIn(act.in))
    <3>1. j \in DOMAIN act.in
      BY <1>1
    <3>2. CellGood(heap[act.in[j].cell]) /\ Fits(heap[act.in[j].cell], act.in[j].name, NamesIn(act.in))
      BY <1>3 DEF UsableUpTo
    <3>3. CASE act.in[j].cell = c
      <4>1. after[act.in[j].cell] = n /\ Fits(heap[c], act.in[j].name, NamesIn(act.in))
        BY <1>2, <3>1, <3>2, <3>3
      <4>2. Fits(n, act.in[j].name, NamesIn(act.in))
        BY <4>1 DEF Fits, Narrower
      <4>3. QED
        BY <4>1, <4>2
    <3>4. CASE act.in[j].cell # c
      BY <1>2, <3>1, <3>2, <3>4
    <3>5. QED
      BY <3>3, <3>4
  <2>2. QED
    BY <2>1 DEF UsableUpTo
<1>4. ASSUME VariadicOK(act.in, heap) PROVE VariadicOK(act.in, after)
  <2>1. ASSUME NEW i \in DOMAIN act.in, Is(after[act.in[i].cell], "variadic", "true")
        PROVE  i = Len(act.in) /\ DOMAIN after[act.in[i].cell] \cap Banned = {}
    <3>1. Is(heap[act.in[i].cell], "variadic", "true")
      BY <2>1, <1>2 DEF Narrower
    <3>2. i = Len(act.in) /\ DOMAIN heap[act.in[i].cell] \cap Banned = {}
      BY <1>4, <3>1 DEF VariadicOK
    <3>3. DOMAIN after[act.in[i].cell] \subseteq DOMAIN heap[act.in[i].cell] \cup {"remember"}
      BY <1>2 DEF Narrower
    <3>4. QED
      BY <3>2, <3>3 DEF Banned
  <2>2. QED
    BY <2>1 DEF VariadicOK
<1>5. Len(act.in) \in 0 .. Len(act.in)
  BY <1>1
<1>6. QED
  BY <1>3, <1>4, <1>5 DEF Settled

LEMMA MergedActions ==
  ASSUME NEW heap, NEW main, main = [f \in DocumentFields |-> main[f]], NEW plugin,
         ActionsIn(main.actions, heap), ActionsIn(plugin.actions, heap)
  PROVE  ActionsIn(MergePluginInto(main, plugin).actions, heap)
<1> DEFINE mine == main.actions
           theirs == plugin.actions
           added == EntriesAt(theirs, {j \in DOMAIN theirs :
                                         \A i \in DOMAIN mine : mine[i].name # theirs[j].name})
           A == {mine[i] : i \in DOMAIN mine} \cup {theirs[i] : i \in DOMAIN theirs}
<1>1. \A a \in A : IsList(a.in) /\ \A j \in DOMAIN a.in : a.in[j].cell \in DOMAIN heap
  BY DEF ActionsIn
<1>2. IsList(mine) /\ IsList(theirs)
  BY DEF ActionsIn
<1>3. mine \in Seq(A) /\ theirs \in Seq(A)
  <2>1. (\A i \in DOMAIN mine : mine[i] \in A) /\ \A i \in DOMAIN theirs : theirs[i] \in A
    OBVIOUS
  <2> HIDE DEF A, mine, theirs
  <2>2. QED
    BY <1>2, <2>1, ListIsSeq
<1>4. MergePluginInto(main, plugin).actions = mine \o added
  BY DEF MergePluginInto, DocumentFields
<1> HIDE DEF A
<1>5. added \in Seq(A)
  BY <1>3, EntriesIn
<1> HIDE DEF added, mine, theirs
<1>6. mine \o added \in Seq(A)
  BY <1>3, <1>5
<1>7. IsList(mine \o added) /\ \A i \in DOMAIN (mine \o added) : (mine \o added)[i] \in A
  BY <1>6, SeqIsList
<1>8. QED
  BY <1>1, <1>4, <1>7 DEF ActionsIn

\* Lists of bindings that have one target each.
OneTarget(A) == \A b \in A : Cardinality(b.targets) = 1

LEMMA KeysFrom ==
  ASSUME NEW A, OneTarget(A), NEW s \in Seq(A)
  PROVE  KeysOK(s)
<1>1. IsList(s) /\ \A i \in DOMAIN s : s[i] \in A
  BY SeqIsList
<1>2. QED
  BY <1>1 DEF KeysOK, BindingsOK, OneTarget

LEMMA BothKeys ==
  ASSUME NEW s, NEW t, KeysOK(s), KeysOK(t)
  PROVE  \E A : OneTarget(A) /\ s \in Seq(A) /\ t \in Seq(A)
<1> DEFINE A == {s[i] : i \in DOMAIN s} \cup {t[i] : i \in DOMAIN t}
<1>1. OneTarget(A)
  BY DEF OneTarget, KeysOK, BindingsOK
<1>2. IsList(s) /\ IsList(t)
  BY DEF KeysOK
<1>3. (\A i \in DOMAIN s : s[i] \in A) /\ \A i \in DOMAIN t : t[i] \in A
  OBVIOUS
<1> HIDE DEF A
<1>4. s \in Seq(A) /\ t \in Seq(A)
  BY <1>2, <1>3, ListIsSeq
<1>5. QED
  BY <1>1, <1>4

LEMMA JoinedKeys ==
  ASSUME NEW s, NEW t, KeysOK(s), KeysOK(t)
  PROVE  KeysOK(s \o t)
<1>1. PICK A : OneTarget(A) /\ s \in Seq(A) /\ t \in Seq(A)
  BY BothKeys
<1>2. s \o t \in Seq(A)
  BY <1>1
<1>3. QED
  BY <1>1, <1>2, KeysFrom

LEMMA BoundKeys ==
  ASSUME NEW s, NEW t, KeysOK(s), KeysOK(t), t # <<>>
  PROVE  KeysOK(Append(s, Head(t))) /\ KeysOK(Tail(t))
<1>1. PICK A : OneTarget(A) /\ s \in Seq(A) /\ t \in Seq(A)
  BY BothKeys
<1>2. Append(s, Head(t)) \in Seq(A) /\ Tail(t) \in Seq(A)
  BY <1>1
<1>3. QED
  BY <1>1, <1>2, KeysFrom

LEMMA MergedKeys ==
  ASSUME NEW doc, doc = [f \in DocumentFields |-> doc[f]], NEW u, KeysOK(doc.keys), KeysOK(u.keys)
  PROVE  KeysOK(MergeGlobal(doc, u).keys)
<1> DEFINE mine == doc.keys
           theirs == u.keys
           own(b) == {i \in DOMAIN mine : mine[i].spelled = b.spelled}
           kept == EntriesAt(mine, {j \in DOMAIN mine :
                                      \A i \in DOMAIN theirs : theirs[i].spelled # mine[j].spelled})
           replaced == [i \in DOMAIN theirs |->
                          IF own(theirs[i]) = {} THEN theirs[i]
                          ELSE mine[CHOOSE j \in own(theirs[i]) : TRUE]]
<1>1. MergeGlobal(doc, u).keys = replaced \o kept
  BY DEF MergeGlobal, DocumentFields
<1>2. PICK A : OneTarget(A) /\ mine \in Seq(A) /\ theirs \in Seq(A)
  BY BothKeys
<1>3. kept \in Seq(A)
  BY <1>2, EntriesIn
<1>4. replaced \in Seq(A)
  <2>1. /\ DOMAIN theirs = 1 .. Len(theirs) /\ Len(theirs) \in Nat
        /\ (\A i \in DOMAIN theirs : theirs[i] \in A) /\ \A i \in DOMAIN mine : mine[i] \in A
    BY <1>2, SeqIsList, LenProperties
  <2>2. ASSUME NEW i \in DOMAIN theirs
        PROVE  (IF own(theirs[i]) = {} THEN theirs[i]
                ELSE mine[CHOOSE j \in own(theirs[i]) : TRUE]) \in A
    <3>1. CASE own(theirs[i]) = {}
      BY <2>1, <3>1
    <3>2. CASE own(theirs[i]) # {}
      <4>1. (CHOOSE j \in own(theirs[i]) : TRUE) \in own(theirs[i])
        BY <3>2
      <4>2. (CHOOSE j \in own(theirs[i]) : TRUE) \in DOMAIN mine
        BY <4>1
      <4>3. QED
        BY <2>1, <3>2, <4>2
    <3>3. QED
      BY <3>1, <3>2
  <2> HIDE DEF own, mine
  <2>3. replaced \in [1 .. Len(theirs) -> A]
    BY <2>1, <2>2
  <2>4. QED
    BY <2>1, <2>3, SeqDef
<1> HIDE DEF kept, replaced
<1>5. replaced \o kept \in Seq(A)
  BY <1>3, <1>4
<1>6. QED
  BY <1>1, <1>2, <1>5, KeysFrom

LEMMA PortsInitInv == ConfigInit => PortsInv
<1> SUFFICES ASSUME ConfigInit PROVE PortsInv
  OBVIOUS
<1>1. file \in Documents /\ project = file /\ user \in Users
  BY DEF ConfigInit
<1>2. /\ project.heap = [c \in DOMAIN project.heap |-> project.heap[c]]
      /\ \A c \in DOMAIN project.heap : Declaration(project.heap[c])
      /\ ActionsIn(project.actions, project.heap) /\ IsList(project.keys)
  BY <1>1, ConfigAssumption
<1>3. load.visits = 0 /\ load.ports = 0 /\ load.phase \in {"merging", "failed"}
  BY DEF ConfigInit
<1>4. Len(project.actions) \in Nat
  BY <1>2, LenProperties DEF ActionsIn, IsList
<1>5. load.visits < Len(project.actions) => load.ports <= Len(Visited.in)
  <2>1. ASSUME load.visits < Len(project.actions) PROVE Len(Visited.in) \in Nat
    <3>1. 1 \in DOMAIN project.actions
      BY <2>1, <1>2, <1>3, <1>4, SeqIsList DEF ActionsIn, IsList
    <3>2. IsList(Visited.in)
      BY <3>1, <1>2, <1>3 DEF ActionsIn, Visited
    <3>3. QED
      BY <3>2, LenProperties DEF IsList
  <2>2. QED
    BY <2>1, <1>3
<1>6. UsableUpTo(Visited, project.heap, load.ports)
  BY <1>3 DEF UsableUpTo
<1>7. KeysOK(load.declared) /\ KeysOK(load.unbound)
  <2>1. load.declared = <<>> /\ load.unbound = <<>> /\ <<>> \in Seq({}) /\ OneTarget({})
    BY DEF ConfigInit, OneTarget
  <2>2. QED
    BY <2>1, KeysFrom
<1>8. QED
  BY <1>1, <1>2, <1>3, <1>4, <1>5, <1>6, <1>7 DEF PortsInv

\* The steps that leave the project as it is.
LEMMA PortsStay ==
  ASSUME PortsInv, UNCHANGED <<file, project, user>>,
         load'.visits = load.visits, load'.ports = load.ports,
         load'.phase = "merging" => load.phase = "merging",
         project.form = "yaml" =>
           /\ load'.phase \in {"validating", "layering", "binding", "ready"} => BindingsOK(project.keys)
           /\ load'.phase \in {"layering", "binding", "ready"} =>
                /\ load.visits = Len(project.actions)
                /\ \A w \in project.wires : WireOK(project.actions, w)
           /\ KeysOK(load'.declared) /\ KeysOK(load'.unbound)
  PROVE  PortsInv'
<1>1. Visited' = Visited
  BY DEF Visited
<1>2. QED
  BY <1>1 DEF PortsInv

LEMMA PortSteps ==
  ASSUME ConfigInv, PortsInv, ValidatePort
  PROVE  PortsInv'
<1>1. /\ load.phase = "validating" /\ load.visits < Len(project.actions) /\ load.ports < Len(Visited.in)
      /\ UNCHANGED <<file, user>>
  BY DEF ValidatePort, Visiting
<1> DEFINE p == Visited.in[load.ports + 1]
           d == project.heap[p.cell]
           n == Normalised(d, p.name, NamesIn(Visited.in))
<1>2. /\ load = [f \in LoadFields |-> load[f]] /\ project = [f \in DocumentFields |-> project[f]]
  BY DEF ConfigInv
<1>3. CASE ~ActionOK(Visited) \/ Clashes(d)
  <2>1. load' = Failed(load, "schema") /\ project' = project
    BY <1>3 DEF ValidatePort
  <2>2. /\ load'.visits = load.visits /\ load'.ports = load.ports /\ load'.phase = "failed"
        /\ load'.declared = load.declared /\ load'.unbound = load.unbound
    BY <2>1, <1>2 DEF Failed, LoadFields
  <2>3. QED
    BY <2>1, <2>2, <1>1, PortsStay DEF PortsInv
<1>4. CASE ~(~ActionOK(Visited) \/ Clashes(d))
  <2>1. /\ project' = [project EXCEPT !.heap[p.cell] = n]
        /\ load'.ports = load.ports + 1 /\ load'.visits = load.visits /\ load'.phase = load.phase
        /\ load'.declared = load.declared /\ load'.unbound = load.unbound
    BY <1>4, <1>2 DEF ValidatePort, LoadFields
  <2>2. /\ project'.heap = [project.heap EXCEPT ![p.cell] = n]
        /\ project'.actions = project.actions /\ project'.keys = project.keys
        /\ project'.form = project.form /\ project'.wires = project.wires
    BY <2>1, <1>2 DEF DocumentFields
  <2>3. /\ Len(project.actions) \in Nat /\ DOMAIN project.actions = 1 .. Len(project.actions)
        /\ load.visits \in Nat /\ load.visits + 1 \in DOMAIN project.actions /\ load.ports \in Nat
    BY <1>1, SeqIsList, LenProperties DEF PortsInv, ActionsIn, IsList
  <2>4. /\ IsList(Visited.in) /\ \A j \in DOMAIN Visited.in : Visited.in[j].cell \in DOMAIN project.heap
    BY <2>3 DEF PortsInv, ActionsIn, Visited
  <2>5. /\ Len(Visited.in) \in Nat /\ DOMAIN Visited.in = 1 .. Len(Visited.in)
        /\ load.ports + 1 \in DOMAIN Visited.in
    BY <2>3, <2>4, <1>1, SeqIsList, LenProperties DEF IsList
  <2>6. p.cell \in DOMAIN project.heap /\ Declaration(d)
    BY <2>4, <2>5 DEF PortsInv
  <2>7. /\ Declaration(n) /\ CellGood(n) /\ Fits(n, p.name, NamesIn(Visited.in)) /\ Narrower(n, d)
    BY <2>6, <1>4, NormalisedGood
  <2> HIDE DEF n
  <2>8. Visited' = Visited
    BY <2>1, <2>2 DEF Visited
  <2>9. /\ project'.heap = [c \in DOMAIN project'.heap |-> project'.heap[c]]
        /\ DOMAIN project'.heap = DOMAIN project.heap
        /\ \A c \in DOMAIN project'.heap : Declaration(project'.heap[c])
        /\ project'.heap[p.cell] = n
    BY <2>2, <2>6, <2>7 DEF PortsInv
  <2>10. ActionsIn(project'.actions, project'.heap) /\ IsList(project'.keys)
    BY <2>2, <2>9 DEF PortsInv, ActionsIn
  <2>11. ASSUME NEW i \in 1 .. load.visits PROVE Settled(project.actions[i], project'.heap)
    <3>1. i \in DOMAIN project.actions
      BY <2>3
    <3>2. /\ IsList(project.actions[i].in)
          /\ \A j \in DOMAIN project.actions[i].in : project.actions[i].in[j].cell \in DOMAIN project.heap
          /\ Settled(project.actions[i], project.heap)
      BY <3>1 DEF PortsInv, ActionsIn
    <3>3. QED
      BY <3>2, <2>2, <2>6, <2>7, NarrowerKeeps
  <2>12. UsableUpTo(Visited, project'.heap, load.ports)
    <3>1. UsableUpTo(Visited, project.heap, load.ports) /\ load.ports \in 0 .. Len(Visited.in)
      BY <1>1, <2>3, <2>5 DEF PortsInv
    <3> HIDE DEF p, d
    <3>2. QED
      BY <3>1, <2>2, <2>4, <2>6, <2>7, NarrowerKeeps DEF d
  <2>13. UsableUpTo(Visited, project'.heap, load.ports + 1)
    <3>1. ASSUME NEW j \in 1 .. load.ports + 1
          PROVE  /\ CellGood(project'.heap[Visited.in[j].cell])
                 /\ Fits(project'.heap[Visited.in[j].cell], Visited.in[j].name, NamesIn(Visited.in))
      <4>1. CASE j = load.ports + 1
        BY <4>1, <2>7, <2>9
      <4>2. CASE j # load.ports + 1
        <5>1. j \in 1 .. load.ports
          BY <4>2, <2>3
        <5>2. QED
          BY <5>1, <2>12 DEF UsableUpTo
      <4>3. QED
        BY <4>1, <4>2
    <3>2. QED
      BY <3>1 DEF UsableUpTo
  <2>14. load.ports + 1 <= Len(Visited.in) /\ load.ports + 1 \in Nat
    BY <2>3, <2>5
  <2> HIDE DEF p, d
  <2>15. \A i \in 1 .. load'.visits : Settled(project'.actions[i], project'.heap)
    BY <2>1, <2>2, <2>11
  <2>16. /\ load'.ports \in Nat /\ load'.ports <= Len(Visited'.in)
         /\ UsableUpTo(Visited', project'.heap, load'.ports)
    BY <2>1, <2>8, <2>13, <2>14
  <2>17. DOMAIN project'.heap = DOMAIN file'.heap
    BY <2>9, <1>1 DEF PortsInv
  <2>18. load'.visits \in 0 .. Len(project'.actions) /\ user' \in Users
    BY <2>1, <2>2, <1>1 DEF PortsInv
  <2>19. BindingsOK(project.keys) \/ project.form # "yaml"
    BY <1>1 DEF PortsInv
  <2>20. QED
    BY <2>1, <2>2, <2>9, <2>10, <2>15, <2>16, <2>17, <2>18, <2>19, <1>1 DEF PortsInv
<1>5. QED
  BY <1>3, <1>4

LEMMA ActionSteps ==
  ASSUME ConfigInv, PortsInv, ValidateAction
  PROVE  PortsInv'
<1>1. /\ load.phase = "validating" /\ load.visits < Len(project.actions) /\ load.ports = Len(Visited.in)
      /\ UNCHANGED <<file, project, user>>
  BY DEF ValidateAction, Visiting
<1>2. load = [f \in LoadFields |-> load[f]]
  BY DEF ConfigInv
<1>3. CASE ~(ActionOK(Visited) /\ VariadicOK(Visited.in, project.heap))
  <2>1. load' = Failed(load, "schema")
    BY <1>3 DEF ValidateAction
  <2>2. /\ load'.visits = load.visits /\ load'.ports = load.ports /\ load'.phase = "failed"
        /\ load'.declared = load.declared /\ load'.unbound = load.unbound
    BY <2>1, <1>2 DEF Failed, LoadFields
  <2>3. QED
    BY <2>2, <1>1, PortsStay DEF PortsInv
<1>4. CASE ActionOK(Visited) /\ VariadicOK(Visited.in, project.heap)
  <2>1. /\ load'.visits = load.visits + 1 /\ load'.ports = 0 /\ load'.phase = load.phase
        /\ load'.declared = load.declared /\ load'.unbound = load.unbound
    BY <1>4, <1>2 DEF ValidateAction, LoadFields
  <2>2. /\ Len(project.actions) \in Nat /\ DOMAIN project.actions = 1 .. Len(project.actions)
        /\ load.visits \in Nat /\ load.visits + 1 \in 0 .. Len(project.actions)
    BY <1>1, SeqIsList, LenProperties DEF PortsInv, ActionsIn, IsList
  <2>3. Settled(Visited, project.heap)
    BY <1>1, <1>4 DEF PortsInv, Settled
  <2>4. ASSUME NEW i \in 1 .. load.visits + 1 PROVE Settled(project.actions[i], project.heap)
    <3>1. CASE i = load.visits + 1
      BY <2>3, <3>1 DEF Visited
    <3>2. CASE i # load.visits + 1
      <4>1. i \in 1 .. load.visits
        BY <3>2, <2>2
      <4>2. QED
        BY <4>1 DEF PortsInv
    <3>3. QED
      BY <3>1, <3>2
  <2>5. load.visits + 1 < Len(project.actions) =>
          0 <= Len(Visited'.in) /\ UsableUpTo(Visited', project'.heap, 0)
    <3>1. ASSUME load.visits + 1 < Len(project.actions) PROVE Len(Visited'.in) \in Nat
      <4>1. load'.visits + 1 \in DOMAIN project.actions /\ Visited' = project.actions[load'.visits + 1]
        BY <3>1, <2>1, <2>2, <1>1 DEF Visited
      <4>2. IsList(Visited'.in)
        BY <4>1 DEF PortsInv, ActionsIn
      <4>3. QED
        BY <4>2, LenProperties DEF IsList
    <3>2. QED
      BY <3>1 DEF UsableUpTo
  <2>6. QED
    BY <1>1, <2>1, <2>2, <2>4, <2>5 DEF PortsInv
<1>5. QED
  BY <1>3, <1>4

LEMMA SplitSteps ==
  ASSUME ConfigInv, PortsInv, MergeSplit
  PROVE  PortsInv'
<1>1. load.phase = "merging" /\ load.splits # <<>> /\ UNCHANGED <<file, user>>
  BY DEF MergeSplit
<1>2. /\ load = [f \in LoadFields |-> load[f]] /\ project = [f \in DocumentFields |-> project[f]]
      /\ load.splits \in Seq(DOMAIN Splits)
  BY DEF ConfigInv
<1>3. PICK plugin : plugin = Splits[Head(load.splits)]
  OBVIOUS
<1>4. CASE plugin.read # "ok"
  <2>1. load' = Failed(load, plugin.read) /\ project' = project
    BY <1>3, <1>4 DEF MergeSplit
  <2>2. /\ load'.visits = load.visits /\ load'.ports = load.ports /\ load'.phase = "failed"
        /\ load'.declared = load.declared /\ load'.unbound = load.unbound
    BY <2>1, <1>2 DEF Failed, LoadFields
  <2>3. QED
    BY <2>1, <2>2, <1>1, PortsStay DEF PortsInv
<1>5. CASE plugin.read = "ok"
  <2>1. project' = MergePluginInto(project, plugin) /\ load' = [load EXCEPT !.splits = Tail(@)]
    BY <1>3, <1>5 DEF MergeSplit
  <2>2. /\ load'.visits = 0 /\ load'.ports = 0 /\ load'.phase = "merging"
        /\ load'.declared = load.declared /\ load'.unbound = load.unbound
    BY <2>1, <1>1, <1>2 DEF LoadFields, PortsInv
  <2>3. /\ project'.heap = project.heap /\ project'.keys = project.keys
        /\ project'.form = project.form
    BY <2>1, <1>2 DEF MergePluginInto, DocumentFields
  <2>4. Head(load.splits) = file.splits[Merged + 1] /\ Merged + 1 \in DOMAIN file.splits
    <3>1. file.splits \in Seq(DOMAIN Splits) /\ Len(load.splits) <= Len(file.splits)
      BY ConfigAssumption DEF ConfigInv
    <3>2. Len(load.splits) \in Nat /\ Len(load.splits) > 0 /\ Len(file.splits) \in Nat
          /\ DOMAIN file.splits = 1 .. Len(file.splits)
      BY <1>1, <1>2, <3>1
    <3>3. Head(load.splits) = load.splits[1] /\ 1 \in 1 .. Len(load.splits)
      BY <1>1, <1>2, <3>2
    <3>4. load.splits[1] = file.splits[Merged + 1]
      BY <3>3 DEF ConfigInv
    <3>5. Merged + 1 \in 1 .. Len(file.splits)
      <4>1. \A m, k \in Nat : 0 < m /\ m <= k => (k - m) + 1 \in 1 .. k
        OBVIOUS
      <4>2. QED
        BY <4>1, <3>1, <3>2 DEF Merged
    <3>6. QED
      BY <3>2, <3>3, <3>4, <3>5
  <2>5. ActionsIn(plugin.actions, project.heap)
    <3>1. ActionsIn(plugin.actions, file.heap)
      BY <1>3, <2>4, ConfigAssumption DEF ConfigInv
    <3>2. QED
      BY <3>1 DEF ActionsIn, PortsInv
  <2>6. ActionsIn(project'.actions, project'.heap)
    BY <1>2, <2>1, <2>3, <2>5, MergedActions DEF PortsInv
  <2>7. Len(project'.actions) \in Nat
        /\ DOMAIN project'.actions = 1 .. Len(project'.actions)
    BY <2>6, SeqIsList, LenProperties DEF ActionsIn, IsList
  <2>8. 0 < Len(project'.actions) => 0 <= Len(Visited'.in) /\ UsableUpTo(Visited', project'.heap, 0)
    <3>1. ASSUME 0 < Len(project'.actions) PROVE Len(Visited'.in) \in Nat
      <4>1. 1 \in DOMAIN project'.actions /\ Visited' = project'.actions[1]
        BY <3>1, <2>2, <2>7 DEF Visited
      <4>2. IsList(Visited'.in)
        BY <4>1, <2>6 DEF ActionsIn
      <4>3. QED
        BY <4>2, LenProperties DEF IsList
    <3>2. QED
      BY <3>1 DEF UsableUpTo
  <2>9. QED
    BY <1>1, <2>2, <2>3, <2>6, <2>7, <2>8 DEF PortsInv
<1>6. QED
  BY <1>4, <1>5

LEMMA LayerSteps ==
  ASSUME ConfigInv, PortsInv, Layer
  PROVE  PortsInv'
<1>1. load.phase = "layering" /\ UNCHANGED <<file, project, user>>
  BY DEF Layer
<1>2. load = [f \in LoadFields |-> load[f]] /\ project = [f \in DocumentFields |-> project[f]]
  BY DEF ConfigInv
<1>3. PICK merged : merged = IF Honoured(user) THEN MergeGlobal(project, user) ELSE project
  OBVIOUS
<1>4. /\ load'.visits = load.visits /\ load'.ports = load.ports /\ load'.phase \in {"failed", "binding"}
      /\ load'.declared = load.declared /\ load'.unbound \in {load.unbound, merged.keys}
  BY <1>2, <1>3 DEF Layer, Failed, LoadFields
<1>5. ASSUME project.form = "yaml" PROVE KeysOK(merged.keys)
  <2>1. KeysOK(project.keys)
    BY <1>1, <1>5 DEF PortsInv, KeysOK
  <2>2. CASE Honoured(user)
    <3>1. KeysOK(user.keys)
      BY <2>2, ConfigAssumption DEF PortsInv, KeysOK, Honoured
    <3>2. QED
      BY <1>2, <1>3, <2>1, <2>2, <3>1, MergedKeys
  <2>3. CASE ~Honoured(user)
    BY <1>3, <2>1, <2>3
  <2>4. QED
    BY <2>2, <2>3
<1>6. QED
  BY <1>1, <1>4, <1>5, PortsStay DEF PortsInv

LEMMA PortsNextInv == ConfigInv /\ PortsInv /\ [ConfigNext]_configVars => PortsInv'
<1> SUFFICES ASSUME ConfigInv, PortsInv, [ConfigNext]_configVars PROVE PortsInv'
  OBVIOUS
<1>1. load = [f \in LoadFields |-> load[f]]
  BY DEF ConfigInv
<1>2. ASSUME ValidateSections PROVE PortsInv'
  <2>1. /\ UNCHANGED <<file, project, user>> /\ load.phase = "merging"
        /\ load' = IF project.form = "json" THEN [load EXCEPT !.phase = "layering"]
                   ELSE IF SectionsOK(project) THEN [load EXCEPT !.phase = "validating"]
                   ELSE Failed(load, "schema")
    BY <1>2 DEF ValidateSections
  <2>2. /\ load'.visits = load.visits /\ load'.ports = load.ports
        /\ load'.declared = load.declared /\ load'.unbound = load.unbound
    BY <1>1, <2>1 DEF Failed, LoadFields
  <2>3. /\ load'.phase \in {"layering", "validating", "failed"}
        /\ load'.phase = "layering" => project.form = "json"
        /\ load'.phase = "validating" => SectionsOK(project)
    BY <1>1, <2>1 DEF Failed, LoadFields
  <2>4. SectionsOK(project) => BindingsOK(project.keys)
    BY DEF SectionsOK
  <2>5. QED
    BY <2>1, <2>2, <2>3, <2>4, PortsStay DEF PortsInv
<1>3. ASSUME ValidateGroups PROVE PortsInv'
  <2>1. /\ UNCHANGED <<file, project, user>> /\ load.phase = "validating"
        /\ load.visits = Len(project.actions)
        /\ load'.visits = load.visits /\ load'.ports = load.ports
        /\ load'.declared = load.declared /\ load'.unbound = load.unbound
        /\ load'.phase \in {"layering", "failed"}
        /\ load'.phase = "layering" => \A w \in project.wires : WireOK(project.actions, w)
    BY <1>1, <1>3 DEF ValidateGroups, Failed, LoadFields
  <2>2. QED
    BY <2>1, PortsStay DEF PortsInv
<1>4. ASSUME Bind PROVE PortsInv'
  <2>1. /\ UNCHANGED <<file, project, user>> /\ load.phase = "binding" /\ load.unbound # <<>>
    BY <1>4 DEF Bind
  <2>2. CASE Blocked(load.bound, Head(load.unbound).seq)
    <3>1. /\ load'.visits = load.visits /\ load'.ports = load.ports
          /\ load'.declared = load.declared /\ load'.unbound = load.unbound
          /\ load'.phase = "failed"
      BY <1>1, <1>4, <2>2 DEF Bind, Failed, LoadFields
    <3>2. QED
      BY <2>1, <3>1, PortsStay DEF PortsInv
  <2>3. CASE ~Blocked(load.bound, Head(load.unbound).seq)
    <3>1. /\ load'.visits = load.visits /\ load'.ports = load.ports /\ load'.phase = load.phase
          /\ load'.declared = Append(load.declared, Head(load.unbound))
          /\ load'.unbound = Tail(load.unbound)
      BY <1>1, <1>4, <2>3 DEF Bind, LoadFields
    <3>2. project.form = "yaml" => KeysOK(load'.declared) /\ KeysOK(load'.unbound)
      BY <2>1, <3>1, BoundKeys DEF PortsInv
    <3>3. QED
      BY <2>1, <3>1, <3>2, PortsStay DEF PortsInv
  <2>4. QED
    BY <2>2, <2>3
<1>5. ASSUME Ready PROVE PortsInv'
  <2>1. /\ UNCHANGED <<file, project, user>> /\ load.phase = "binding"
        /\ load'.visits = load.visits /\ load'.ports = load.ports
        /\ load'.declared = load.declared /\ load'.unbound = load.unbound
        /\ load'.unbound = load.unbound /\ load'.phase = "ready"
    BY <1>1, <1>5 DEF Ready, LoadFields
  <2>2. QED
    BY <2>1, PortsStay DEF PortsInv
<1>6. ASSUME UNCHANGED configVars PROVE PortsInv'
  <2>1. UNCHANGED <<file, project, user, load>>
    BY <1>6 DEF configVars
  <2>2. QED
    BY <2>1, PortsStay DEF PortsInv
<1>7. QED
  BY <1>2, <1>3, <1>4, <1>5, <1>6, SplitSteps, PortSteps, ActionSteps, LayerSteps DEF ConfigNext

\* What a form or a host reads of a configuration that was accepted.
LEMMA InvUsable == ConfigInv /\ PortsInv => AcceptedIsUsable
<1> SUFFICES ASSUME ConfigInv, PortsInv, Validated PROVE AcceptedIsUsable
  BY DEF AcceptedIsUsable
<1>1. project.form = "yaml" /\ load.phase \in {"layering", "binding", "ready"}
  BY DEF ConfigInv, Validated
<1>2. /\ load.visits = Len(project.actions) /\ DOMAIN project.actions = 1 .. Len(project.actions)
      /\ \A w \in project.wires : WireOK(project.actions, w)
  BY <1>1, SeqIsList DEF PortsInv, ActionsIn, IsList
<1>3. ASSUME NEW i \in DOMAIN project.actions, NEW p \in InputsOf(project.actions[i])
      PROVE  Usable(project.actions[i], p)
  <2> DEFINE act == project.actions[i]
             d == project.heap[p.cell]
  <2>1. Settled(act, project.heap) /\ DOMAIN act.in = 1 .. Len(act.in)
    BY <1>2, SeqIsList DEF PortsInv, ActionsIn, IsList
  <2>2. PICK j \in DOMAIN act.in : p = act.in[j]
    BY DEF InputsOf
  <2>3. CellGood(d) /\ Fits(d, p.name, NamesIn(act.in))
    BY <2>1, <2>2 DEF Settled, UsableUpTo
  <2>4. Is(d, "variadic", "true") => p = act.in[Len(act.in)] /\ DOMAIN d \cap Banned = {}
    BY <2>1, <2>2 DEF Settled, VariadicOK
  <2> HIDE DEF act, d
  <2>5. Usable(act, p)
    BY <2>3, <2>4 DEF Usable, CellGood, Fits, Channels, d
  <2>6. QED
    BY <2>5 DEF act
<1>4. BindingsOK(load.declared \o load.unbound)
  <2>1. KeysOK(load.declared) /\ KeysOK(load.unbound)
    BY <1>1 DEF PortsInv
  <2>2. QED
    BY <2>1, JoinedKeys DEF KeysOK
<1>5. QED
  BY <1>2, <1>3, <1>4 DEF AcceptedIsUsable

THEOREM PortsInvariance == ConfigSpec => []PortsInv
<1>1. ConfigInv /\ PortsInv /\ [ConfigNext]_configVars => PortsInv'
  BY PortsNextInv
<1>2. QED
  BY ConfigInvariance, PortsInitInv, <1>1, PTL DEF ConfigSpec

THEOREM ConfigAlwaysUsable == ConfigSpec => []AcceptedIsUsable
BY ConfigInvariance, PortsInvariance, InvUsable, PTL

-----------------------------------------------------------------------------
(***************************************************************************)
(* Modes.  At most one mode of the chain is on, a title being edited in    *)
(* free-config excepted: each opens from the panes or as another closes.   *)
(***************************************************************************)
ChainSet == {"confirm", "title", "freeConfig", "menu", "filter", "copy", "search",
             "register", "prefix", "cmd", "field", "form", "paneMenu", "palette",
             "jobs", "diag", "agent"}
Staged == {"confirm", "menu", "copy", "cmd"}
UiFields == {"modes", "focus", "tab", "filtered", "picking", "list", "nested", "busy",
             "staged", "cmd", "due"}
Dues == {"do_run", "run_action"} \X Actions

ModesOn(u) == u.modes \cap ChainSet

UiGood(u) ==
  /\ u = [f \in UiFields |-> u[f]]
  /\ u.modes \subseteq ChainSet \cup {"terminal", "listSelect"}
  /\ \A m, n \in ModesOn(u) : m = n \/ {m, n} = {"title", "freeConfig"}
  /\ \A m \in Staged : m \in u.modes => u.staged = m
  /\ u.cmd \in Actions \cup {NoCommand}
  /\ u.due \in Seq(Dues)

\* No mode of the chain is on.
UiFree(u) == UiGood(u) /\ ModesOn(u) = {}

UiInv == UiGood(ui)

-----------------------------------------------------------------------------
(* The chain. *)

LEMMA ChainMembers ==
  /\ DOMAIN Chain = 1..17
  /\ \A i \in 1..17 : Chain[i] \in ChainSet
  /\ \A m \in ChainSet : \E i \in 1..17 : Chain[i] = m
  /\ Chain[2] = "title" /\ Chain[3] = "freeConfig"
  /\ \A i \in 1..17 : Chain[i] = "freeConfig" => i = 3
BY DEF Chain, ChainSet

LEMMA ActiveIsOn ==
  ASSUME NEW u
  PROVE  ChainActive(u) <=> ModesOn(u) # {}
BY ChainMembers DEF ChainActive, ModesOn

\* The first mode of the chain that is on.
LEMMA FirstIsOn ==
  ASSUME NEW u, ChainActive(u)
  PROVE  /\ FirstMode(u) \in ModesOn(u)
         /\ {"title", "freeConfig"} \subseteq u.modes => FirstMode(u) # "freeConfig"
<1> DEFINE on == {i \in 1..17 : Chain[i] \in u.modes}
<1>1. on # {} /\ on \subseteq 1..17
  BY ChainMembers DEF ChainActive
<1>2. PICK i \in on : \A j \in on : ~(j < i)
  <2> HIDE DEF on
  <2> SUFFICES ASSUME \A i \in on : \E j \in on : j < i PROVE FALSE
    OBVIOUS
  <2>1. \A i \in on : i > 4
    BY <1>1
  <2>2. \A i \in on : i > 8
    BY <1>1, <2>1
  <2>3. \A i \in on : i > 12
    BY <1>1, <2>2
  <2>4. \A i \in on : i > 16
    BY <1>1, <2>3
  <2>5. PICK i \in on : TRUE
    BY <1>1
  <2>6. PICK j \in on : j < i
    OBVIOUS
  <2> QED
    BY <1>1, <2>4, <2>6
<1>3. \A j \in on : ~(j < i)
  BY <1>2
<1>4. i \in DOMAIN Chain /\ Chain[i] \in u.modes /\ \A j \in 1..(i - 1) : Chain[j] \notin u.modes
  BY <1>3, ChainMembers
<1>5. PICK k : k = CHOOSE n \in DOMAIN Chain : /\ Chain[n] \in u.modes
                                              /\ \A j \in 1..(n - 1) : Chain[j] \notin u.modes
  OBVIOUS
<1>6. k \in DOMAIN Chain /\ Chain[k] \in u.modes /\ \A j \in 1..(k - 1) : Chain[j] \notin u.modes
  BY <1>4, <1>5
<1>7. FirstMode(u) = Chain[k]
  BY <1>5 DEF FirstMode
<1>8. QED
  BY <1>6, <1>7, ChainMembers DEF ModesOn

LEMMA OthersAlone ==
  ASSUME NEW u, UiGood(u), NEW m \in ModesOn(u), m \notin {"title", "freeConfig"}
  PROVE  ModesOn(u) = {m}
<1>1. \A n \in ModesOn(u) : m = n
  <2>1. ASSUME NEW n \in ModesOn(u), {m, n} = {"title", "freeConfig"} PROVE FALSE
    BY <2>1
  <2>2. QED
    BY <2>1 DEF UiGood
<1>2. QED
  BY <1>1

\* It is the only one, but for a title that is edited.
LEMMA FirstAlone ==
  ASSUME NEW u, UiGood(u), ChainActive(u)
  PROVE  \/ ModesOn(u) = {FirstMode(u)}
         \/ FirstMode(u) = "title" /\ ModesOn(u) = {"title", "freeConfig"}
<1>1. FirstMode(u) \in ModesOn(u)
  BY FirstIsOn
<1>2. CASE \A m \in ModesOn(u) : m = FirstMode(u)
  BY <1>1, <1>2
<1>3. CASE \E m \in ModesOn(u) : m # FirstMode(u)
  <2>1. {"title", "freeConfig"} \subseteq ModesOn(u) /\ FirstMode(u) \in {"title", "freeConfig"}
    BY <1>1, <1>3 DEF UiGood
  <2>2. FirstMode(u) = "title"
    BY <2>1, FirstIsOn DEF ModesOn
  <2>3. \A m \in ModesOn(u) : m \in {"title", "freeConfig"}
    BY <1>1, <2>2 DEF UiGood
  <2>4. QED
    BY <2>1, <2>2, <2>3
<1>4. QED
  BY <1>2, <1>3

-----------------------------------------------------------------------------
(* Opening and closing. *)

\* What is neither a mode nor a command does not matter.
LEMMA SameModes ==
  ASSUME NEW u, UiGood(u), NEW v,
         v = [f \in UiFields |-> v[f]], v.modes = u.modes, v.staged = u.staged,
         v.cmd \in Actions \cup {NoCommand}, v.due \in Seq(Dues)
  PROVE  UiGood(v) /\ ModesOn(v) = ModesOn(u)
BY DEF UiGood, ModesOn

LEMMA OpenGood ==
  ASSUME NEW u, UiFree(u), NEW m \in ChainSet
  PROVE  /\ UiGood(Staging(u, m)) /\ ModesOn(Staging(u, m)) = {m}
         /\ m \notin Staged => UiGood(Entered(u, m)) /\ ModesOn(Entered(u, m)) = {m}
<1> USE DEF UiFields
<1>1. /\ Entered(u, m) = [f \in UiFields |-> Entered(u, m)[f]]
      /\ Entered(u, m).modes = u.modes \cup {m} /\ Entered(u, m).staged = u.staged
      /\ Entered(u, m).cmd = u.cmd /\ Entered(u, m).due = u.due
  BY DEF UiFree, UiGood, Entered
<1>2. /\ Staging(u, m) = [f \in UiFields |-> Staging(u, m)[f]]
      /\ Staging(u, m).modes = u.modes \cup {m} /\ Staging(u, m).staged = m
      /\ Staging(u, m).cmd = u.cmd /\ Staging(u, m).due = u.due
  BY <1>1 DEF Staging
<1>3. (u.modes \cup {m}) \cap ChainSet = {m}
  BY DEF UiFree, ModesOn
<1>4. u.modes \cap Staged = {}
  BY DEF UiFree, ModesOn, Staged, ChainSet
<1>5. UiGood(Staging(u, m)) /\ ModesOn(Staging(u, m)) = {m}
  BY <1>2, <1>3, <1>4 DEF UiFree, UiGood, ModesOn
<1>6. ASSUME m \notin Staged PROVE UiGood(Entered(u, m)) /\ ModesOn(Entered(u, m)) = {m}
  BY <1>1, <1>3, <1>4, <1>6 DEF UiFree, UiGood, ModesOn
<1>7. QED
  BY <1>5, <1>6

LEMMA CloseFree ==
  ASSUME NEW u, UiGood(u), NEW m, ModesOn(u) = {m}
  PROVE  UiFree(Left(u, m)) /\ UiFree(Unstaged(u, m))
<1> USE DEF UiFields
<1>1. /\ Left(u, m) = [f \in UiFields |-> Left(u, m)[f]]
      /\ Left(u, m).modes = u.modes \ {m} /\ Left(u, m).staged = u.staged
      /\ Left(u, m).cmd = u.cmd /\ Left(u, m).due = u.due
  BY DEF UiGood, Left
<1>2. /\ Unstaged(u, m) = [f \in UiFields |-> Unstaged(u, m)[f]]
      /\ Unstaged(u, m).modes = u.modes \ {m} /\ Unstaged(u, m).staged = "none"
      /\ Unstaged(u, m).cmd = u.cmd /\ Unstaged(u, m).due = u.due
  BY <1>1 DEF Unstaged
<1>3. (u.modes \ {m}) \cap ChainSet = {}
  BY DEF ModesOn
<1>4. (u.modes \ {m}) \cap Staged = {}
  BY <1>3 DEF Staged, ChainSet
<1>5. QED
  BY <1>1, <1>2, <1>3, <1>4 DEF UiFree, UiGood, ModesOn

\* Leaving terminal mode, or the selection of a list, or entering them.
LEMMA AsideGood ==
  ASSUME NEW u, UiGood(u), NEW m \in {"terminal", "listSelect"}
  PROVE  /\ UiGood(Entered(u, m)) /\ ModesOn(Entered(u, m)) = ModesOn(u)
         /\ UiGood(Left(u, m)) /\ ModesOn(Left(u, m)) = ModesOn(u)
<1> USE DEF UiFields
<1>1. /\ Entered(u, m) = [f \in UiFields |-> Entered(u, m)[f]]
      /\ Entered(u, m).modes = u.modes \cup {m} /\ Entered(u, m).staged = u.staged
      /\ Entered(u, m).cmd = u.cmd /\ Entered(u, m).due = u.due
      /\ Left(u, m) = [f \in UiFields |-> Left(u, m)[f]]
      /\ Left(u, m).modes = u.modes \ {m} /\ Left(u, m).staged = u.staged
      /\ Left(u, m).cmd = u.cmd /\ Left(u, m).due = u.due
  BY DEF UiGood, Left, Entered
<1>2. (u.modes \cup {m}) \cap ChainSet = u.modes \cap ChainSet
      /\ (u.modes \ {m}) \cap ChainSet = u.modes \cap ChainSet
  BY DEF ChainSet
<1>3. m \notin Staged
  BY DEF Staged
<1>4. QED
  BY <1>1, <1>2, <1>3 DEF UiGood, ModesOn

-----------------------------------------------------------------------------
(* What a mode can lead to. *)

LEMMA PortsAskedGood ==
  ASSUME NEW u, UiGood(u), NEW c \in Actions, c.ports # "none"
  PROVE  UiGood(PortsAsked(u, c))
<1> USE DEF UiFields
<1>1. CASE ChainActive(u)
  BY <1>1 DEF PortsAsked
<1>2. CASE ~ChainActive(u)
  <2>1. c.ports \in ChainSet \ Staged
    BY DEF Actions, ChainSet, Staged
  <2>2. PICK w : w = Entered(u, c.ports)
    OBVIOUS
  <2>3. UiGood(w)
    BY <1>2, <2>1, <2>2, ActiveIsOn, OpenGood DEF UiFree
  <2>4. PICK v : v = PortsAsked(u, c)
    OBVIOUS
  <2>5. v = [w EXCEPT !.cmd = [c EXCEPT !.ports = "none"], !.picking = FALSE, !.filtered = FALSE]
    BY <1>2, <2>2, <2>4 DEF PortsAsked
  <2>6. [c EXCEPT !.ports = "none"] \in Actions
    BY DEF Actions
  <2>7. /\ v = [f \in UiFields |-> v[f]] /\ v.modes = w.modes /\ v.staged = w.staged
        /\ v.cmd \in Actions \cup {NoCommand} /\ v.due \in Seq(Dues)
    BY <2>3, <2>5, <2>6 DEF UiGood
  <2>8. UiGood(v)
    BY <2>3, <2>7, SameModes
  <2>9. QED
    BY <2>4, <2>8
<1>3. QED
  BY <1>1, <1>2

LEMMA RunStartedGood ==
  ASSUME NEW u, UiGood(u), NEW c \in Actions
  PROVE  UiGood(RunStarted(u, c))
<1> USE DEF UiFields
<1>1. CASE c.ports # "none"
  BY <1>1, PortsAskedGood DEF RunStarted
<1>2. CASE c.ports = "none" /\ c.spawns
  <2>1. PICK w : w = Entered(u, "terminal")
    OBVIOUS
  <2>2. UiGood(w)
    BY <2>1, AsideGood
  <2>3. PICK v : v = RunStarted(u, c)
    OBVIOUS
  <2>4. v = [w EXCEPT !.focus = "viewer", !.tab = "term"]
    BY <1>2, <2>1, <2>3 DEF RunStarted
  <2>5. /\ v = [f \in UiFields |-> v[f]] /\ v.modes = w.modes /\ v.staged = w.staged
        /\ v.cmd \in Actions \cup {NoCommand} /\ v.due \in Seq(Dues)
    BY <2>2, <2>4 DEF UiGood
  <2>6. QED
    BY <2>2, <2>3, <2>5, SameModes
<1>3. CASE c.ports = "none" /\ ~c.spawns
  <2>1. PICK v : v = RunStarted(u, c)
    OBVIOUS
  <2>2. v = [u EXCEPT !.tab = "text"]
    BY <1>3, <2>1 DEF RunStarted
  <2>3. /\ v = [f \in UiFields |-> v[f]] /\ v.modes = u.modes /\ v.staged = u.staged
        /\ v.cmd \in Actions \cup {NoCommand} /\ v.due \in Seq(Dues)
    BY <2>2 DEF UiGood
  <2>4. QED
    BY <2>1, <2>3, SameModes
<1>4. QED
  BY <1>1, <1>2, <1>3

\* A change of the command a dialog is about, or of the runs waiting.
LEMMA CommandKeeps ==
  ASSUME NEW u, UiGood(u), NEW c \in Actions \cup {NoCommand}
  PROVE  /\ UiGood([u EXCEPT !.cmd = c])
         /\ ModesOn([u EXCEPT !.cmd = c]) = ModesOn(u)
         /\ [u EXCEPT !.cmd = c].cmd = c
<1> USE DEF UiFields
<1>1. PICK v : v = [u EXCEPT !.cmd = c]
  OBVIOUS
<1>2. /\ v = [f \in UiFields |-> v[f]] /\ v.modes = u.modes /\ v.staged = u.staged
      /\ v.cmd \in Actions \cup {NoCommand} /\ v.due \in Seq(Dues) /\ v.cmd = c
  BY <1>1 DEF UiGood
<1>3. UiGood(v) /\ ModesOn(v) = ModesOn(u)
  BY <1>2, SameModes
<1>4. QED
  BY <1>1, <1>2, <1>3

LEMMA LaterKeeps ==
  ASSUME NEW u, UiGood(u), NEW c \in Actions \cup {NoCommand}, NEW what \in {"do_run", "run_action"}
  PROVE  UiGood(Later(u, what, c)) /\ ModesOn(Later(u, what, c)) = ModesOn(u)
<1> USE DEF UiFields
<1>1. CASE c = NoCommand
  BY <1>1 DEF Later
<1>2. CASE c \in Actions /\ c # NoCommand
  <2>1. PICK v : v = Later(u, what, c)
    OBVIOUS
  <2>2. PICK one : one = <<what, c>>
    OBVIOUS
  <2>3. one \in Dues
    BY <1>2, <2>2 DEF Dues
  <2>4. v = [u EXCEPT !.due = Append(u.due, one)]
    BY <1>2, <2>1, <2>2 DEF Later
  <2>5. Append(u.due, one) \in Seq(Dues)
    BY <2>3 DEF UiGood
  <2>6. /\ v = [f \in UiFields |-> v[f]] /\ v.modes = u.modes /\ v.staged = u.staged
        /\ v.cmd \in Actions \cup {NoCommand} /\ v.due \in Seq(Dues)
    BY <2>4, <2>5 DEF UiGood
  <2>7. QED
    BY <2>1, <2>6, SameModes
<1>3. QED
  BY <1>1, <1>2

LEMMA ConfirmEnteredGood ==
  ASSUME NEW u, UiGood(u), NEW c \in Actions
  PROVE  UiGood(ConfirmEntered(u, c))
<1>1. CASE ChainActive(u)
  BY <1>1 DEF ConfirmEntered
<1>2. CASE ~ChainActive(u)
  <2>1. "confirm" \in ChainSet
    BY DEF ChainSet
  <2>2. UiGood(Staging(u, "confirm"))
    BY <1>2, <2>1, ActiveIsOn, OpenGood DEF UiFree
  <2>3. QED
    BY <1>2, <2>2, CommandKeeps DEF ConfirmEntered
<1>3. QED
  BY <1>1, <1>2

LEMMA RunAskedGood ==
  ASSUME NEW u, UiGood(u), NEW c \in Actions
  PROVE  UiGood(RunAsked(u, c))
<1>1. PICK d : d = [c EXCEPT !.confirm = FALSE]
  OBVIOUS
<1>2. d \in Actions
  BY <1>1 DEF Actions
<1>3. CASE c.confirm
  BY <1>1, <1>2, <1>3, ConfirmEnteredGood DEF RunAsked
<1>4. CASE ~c.confirm
  BY <1>4, RunStartedGood DEF RunAsked
<1>5. QED
  BY <1>3, <1>4

LEMMA ArgsEditedGood ==
  ASSUME NEW u, UiGood(u), NEW c \in Actions
  PROVE  UiGood(ArgsEdited(u, c))
<1>1. [c EXCEPT !.ports = "form"] \in Actions /\ [c EXCEPT !.ports = "form"].ports # "none"
  BY DEF Actions
<1>2. QED
  BY <1>1, PortsAskedGood DEF ArgsEdited

\* What only the panes tell apart.
LEMMA PaneKeeps ==
  ASSUME NEW u, UiGood(u), NEW x
  PROVE  /\ UiGood([u EXCEPT !.focus = x]) /\ ModesOn([u EXCEPT !.focus = x]) = ModesOn(u)
         /\ UiGood([u EXCEPT !.tab = x]) /\ ModesOn([u EXCEPT !.tab = x]) = ModesOn(u)
         /\ UiGood([u EXCEPT !.filtered = x]) /\ ModesOn([u EXCEPT !.filtered = x]) = ModesOn(u)
         /\ UiGood([u EXCEPT !.picking = x]) /\ ModesOn([u EXCEPT !.picking = x]) = ModesOn(u)
         /\ UiGood([u EXCEPT !.list = x]) /\ ModesOn([u EXCEPT !.list = x]) = ModesOn(u)
         /\ UiGood([u EXCEPT !.nested = x]) /\ ModesOn([u EXCEPT !.nested = x]) = ModesOn(u)
         /\ UiGood([u EXCEPT !.busy = x]) /\ ModesOn([u EXCEPT !.busy = x]) = ModesOn(u)
<1> USE DEF UiFields
<1>1. ASSUME NEW f \in {"focus", "tab", "filtered", "picking", "list", "nested", "busy"}
      PROVE  UiGood([u EXCEPT ![f] = x]) /\ ModesOn([u EXCEPT ![f] = x]) = ModesOn(u)
  <2>1. PICK v : v = [u EXCEPT ![f] = x]
    OBVIOUS
  <2>2. /\ v = [g \in UiFields |-> v[g]] /\ v.modes = u.modes /\ v.staged = u.staged
        /\ v.cmd \in Actions \cup {NoCommand} /\ v.due \in Seq(Dues)
    BY <2>1 DEF UiGood
  <2>3. QED
    BY <2>1, <2>2, SameModes
<1>2. QED
  BY <1>1

LEMMA MenuOpenedGood ==
  ASSUME NEW u, UiFree(u), NEW x
  PROVE  UiGood(MenuOpened(u, x)) /\ ModesOn(MenuOpened(u, x)) = {"menu"}
<1>1. PICK w : w = Staging(u, "menu")
  OBVIOUS
<1>2. UiGood(w) /\ ModesOn(w) = {"menu"}
  BY <1>1, OpenGood DEF ChainSet
<1>3. MenuOpened(u, x) = [w EXCEPT !.nested = x]
  BY <1>1 DEF MenuOpened
<1>4. UiGood([w EXCEPT !.nested = x]) /\ ModesOn([w EXCEPT !.nested = x]) = ModesOn(w)
  BY <1>2, PaneKeeps, Zenon
<1>5. QED
  BY <1>2, <1>3, <1>4

LEMMA NowFree ==
  ASSUME NEW u, UiFree(u), NEW v, UiGood(v), ModesOn(v) = ModesOn(u)
  PROVE  UiFree(v)
BY DEF UiFree

LEMMA PaletteGood ==
  ASSUME NEW u, UiGood(u)
  PROVE  /\ UiFree(u) => UiGood(PaletteUpdate(u, "open")) /\ ModesOn(PaletteUpdate(u, "open")) = {"palette"}
         /\ ModesOn(u) = {"palette"} => /\ UiFree(PaletteUpdate(u, "close"))
                                        /\ UiFree(PaletteUpdate(u, "pick"))
         /\ UiGood(PaletteUpdate(u, "filter")) /\ ModesOn(PaletteUpdate(u, "filter")) = ModesOn(u)
         /\ UiGood(PaletteUpdate(u, "clear")) /\ ModesOn(PaletteUpdate(u, "clear")) = ModesOn(u)
<1>1. PICK no : no = FALSE
  OBVIOUS
<1>2. PICK yes : yes = TRUE
  OBVIOUS
<1>3. /\ PaletteUpdate(u, "open") = [Entered(u, "palette") EXCEPT !.filtered = no]
      /\ PaletteUpdate(u, "close") = [Left(u, "palette") EXCEPT !.filtered = no]
      /\ PaletteUpdate(u, "pick") = [Left(u, "palette") EXCEPT !.filtered = no]
      /\ PaletteUpdate(u, "filter") = [u EXCEPT !.filtered = yes]
      /\ PaletteUpdate(u, "clear") = [u EXCEPT !.filtered = no]
  BY <1>1, <1>2 DEF PaletteUpdate
<1>4. ASSUME UiFree(u)
      PROVE  UiGood(PaletteUpdate(u, "open")) /\ ModesOn(PaletteUpdate(u, "open")) = {"palette"}
  <2>1. PICK w : w = Entered(u, "palette")
    OBVIOUS
  <2>2. UiGood(w) /\ ModesOn(w) = {"palette"}
    BY <1>4, <2>1, OpenGood DEF ChainSet, Staged
  <2>3. UiGood([w EXCEPT !.filtered = no]) /\ ModesOn([w EXCEPT !.filtered = no]) = ModesOn(w)
    BY <2>2, PaneKeeps, Zenon
  <2>4. QED
    BY <2>1, <2>2, <2>3, <1>3
<1>5. ASSUME ModesOn(u) = {"palette"}
      PROVE  UiFree(PaletteUpdate(u, "close")) /\ UiFree(PaletteUpdate(u, "pick"))
  <2>1. PICK w : w = Left(u, "palette")
    OBVIOUS
  <2>2. UiFree(w)
    BY <1>5, <2>1, CloseFree
  <2>3. UiGood([w EXCEPT !.filtered = no]) /\ ModesOn([w EXCEPT !.filtered = no]) = ModesOn(w)
    BY <2>2, PaneKeeps, Zenon DEF UiFree
  <2>4. QED
    BY <2>1, <2>2, <2>3, <1>3 DEF UiFree
<1>6. /\ UiGood([u EXCEPT !.filtered = no]) /\ ModesOn([u EXCEPT !.filtered = no]) = ModesOn(u)
      /\ UiGood([u EXCEPT !.filtered = yes]) /\ ModesOn([u EXCEPT !.filtered = yes]) = ModesOn(u)
  BY PaneKeeps, Zenon
<1>7. QED
  BY <1>3, <1>4, <1>5, <1>6

LEMMA FreeConfigEnteredGood ==
  ASSUME NEW u, UiFree(u), NEW v \in FreeConfigEntered(u)
  PROVE  UiGood(v)
<1>1. PICK x \in BOOLEAN : v = [Entered(u, "freeConfig") EXCEPT !.list = x]
  BY Zenon DEF FreeConfigEntered
<1>2. UiGood(Entered(u, "freeConfig"))
  BY OpenGood DEF ChainSet, Staged
<1>3. QED
  BY <1>1, <1>2, PaneKeeps

LEMMA VerbsGood ==
  ASSUME NEW u, UiFree(u), NEW v \in Verbs(u)
  PROVE  UiGood(v)
<1>1. UiGood(u)
  BY DEF UiFree
<1>2. CASE v \in {u, Entered(u, "jobs"), Entered(u, "diag"), [u EXCEPT !.focus = "viewer"],
                  [u EXCEPT !.focus = "list"]}
  <2>1. {"jobs", "diag"} \subseteq ChainSet \ Staged
    BY DEF ChainSet, Staged
  <2>2. UiGood(Entered(u, "jobs")) /\ UiGood(Entered(u, "diag"))
    BY <2>1, OpenGood
  <2>3. UiGood([u EXCEPT !.focus = "viewer"]) /\ UiGood([u EXCEPT !.focus = "list"])
    BY <1>1, PaneKeeps, Zenon
  <2>4. QED
    BY <1>1, <1>2, <2>2, <2>3, Zenon
<1>3. CASE v \in FreeConfigEntered(u)
  BY <1>3, FreeConfigEnteredGood
<1>4. CASE v \in {RunAsked(u, c) : c \in Commands}
  <2>1. PICK c \in Commands : v = RunAsked(u, c)
    BY <1>4
  <2>2. c \in Actions
    BY CommandsAssumption
  <2>3. QED
    BY <1>1, <2>1, <2>2, RunAskedGood
<1>5. CASE v \in {ArgsEdited(u, c) : c \in {d \in Commands : d.ports # "none"}}
  <2>1. PICK c \in Commands : v = ArgsEdited(u, c)
    BY <1>5
  <2>2. c \in Actions
    BY CommandsAssumption
  <2>3. QED
    BY <1>1, <2>1, <2>2, ArgsEditedGood
<1>6. CASE v \in {[u EXCEPT !.tab = t] : t \in {"text", "agent", "term"}}
  <2>1. PICK t \in {"text", "agent", "term"} : v = [u EXCEPT !.tab = t]
    BY <1>6
  <2>2. UiGood([u EXCEPT !.tab = t])
    BY <1>1, PaneKeeps, Zenon
  <2>3. QED
    BY <2>1, <2>2
<1>7. QED
  BY <1>2, <1>3, <1>4, <1>5, <1>6, Zenon DEF Verbs

-----------------------------------------------------------------------------
(* One key in each mode. *)

LEMMA ConfirmKeyGood ==
  ASSUME NEW u, UiGood(u), ModesOn(u) = {"confirm"}, NEW k \in Keys, NEW v \in ConfirmKey(u, k)
  PROVE  UiGood(v) /\ (k = "esc" => UiFree(v))
<1>1. UiFree(Unstaged(u, "confirm"))
  BY CloseFree
<1>2. UiFree([Unstaged(u, "confirm") EXCEPT !.cmd = NoCommand])
  BY <1>1, CommandKeeps DEF UiFree
<1>3. u.cmd \in Actions \cup {NoCommand}
  BY DEF UiGood
<1>4. UiGood(Later([Unstaged(u, "confirm") EXCEPT !.cmd = NoCommand], "do_run", u.cmd))
  BY <1>2, <1>3, LaterKeeps DEF UiFree
<1>5. QED
  BY <1>2, <1>4 DEF ConfirmKey, UiFree

LEMMA TitleLeft ==
  ASSUME NEW u, UiGood(u), "title" \in ModesOn(u)
  PROVE  UiGood(Left(u, "title")) /\ ModesOn(Left(u, "title")) \subseteq {"freeConfig"}
<1> USE DEF UiFields
<1>1. CASE ModesOn(u) = {"title"}
  BY <1>1, CloseFree DEF UiFree
<1>2. CASE ModesOn(u) # {"title"}
  <2>1. ModesOn(u) = {"title", "freeConfig"}
    <3>1. \A m \in ModesOn(u) : m \in {"title", "freeConfig"}
      BY DEF UiGood
    <3>2. QED
      BY <1>2, <3>1
  <2>2. PICK v : v = Left(u, "title")
    OBVIOUS
  <2>3. /\ v = [f \in UiFields |-> v[f]] /\ v.modes = u.modes \ {"title"} /\ v.staged = u.staged
        /\ v.cmd = u.cmd /\ v.due = u.due
    BY <2>2 DEF Left, UiGood
  <2>4. ModesOn(v) = {"freeConfig"}
    BY <2>1, <2>3 DEF ModesOn
  <2>5. UiGood(v)
    BY <2>3, <2>4 DEF UiGood
  <2>6. QED
    BY <2>2, <2>4, <2>5
<1>3. QED
  BY <1>1, <1>2

LEMMA FreeConfigLeft ==
  ASSUME NEW u, UiGood(u), ModesOn(u) = {"freeConfig"}
  PROVE  UiFree(FreeConfigExited(u))
<1> USE DEF UiFields
<1>1. PICK w : w = Left(u, "freeConfig")
  OBVIOUS
<1>2. UiFree(w)
  BY <1>1, CloseFree
<1>3. PICK v : v = Left(w, "title")
  OBVIOUS
<1>4. "title" \notin w.modes
  BY <1>2 DEF UiFree, ModesOn, ChainSet
<1>5. /\ v = [f \in UiFields |-> v[f]] /\ v.modes = w.modes /\ v.staged = w.staged
      /\ v.cmd = w.cmd /\ v.due = w.due
  <2>1. w = [f \in UiFields |-> w[f]] /\ w.modes \ {"title"} = w.modes
    BY <1>2, <1>4 DEF UiFree, UiGood
  <2>2. QED
    BY <1>3, <2>1 DEF Left
<1>6. UiFree(v)
  BY <1>2, <1>5, SameModes DEF UiFree, UiGood
<1>7. PICK no : no = FALSE
  OBVIOUS
<1>8. FreeConfigExited(u) = [v EXCEPT !.list = no]
  BY <1>1, <1>3, <1>7 DEF FreeConfigExited
<1>9. UiGood([v EXCEPT !.list = no]) /\ ModesOn([v EXCEPT !.list = no]) = ModesOn(v)
  BY <1>6, PaneKeeps, Zenon DEF UiFree
<1>10. QED
  BY <1>6, <1>8, <1>9 DEF UiFree

\* A title is edited over free-config.
LEMMA TitleOver ==
  ASSUME NEW u, UiGood(u), ModesOn(u) = {"freeConfig"}
  PROVE  UiGood(Entered(u, "title"))
<1> USE DEF UiFields
<1>1. PICK v : v = Entered(u, "title")
  OBVIOUS
<1>2. /\ v = [f \in UiFields |-> v[f]] /\ v.modes = u.modes \cup {"title"} /\ v.staged = u.staged
      /\ v.cmd = u.cmd /\ v.due = u.due
  BY <1>1 DEF Entered, UiGood
<1>3. ModesOn(v) = {"title", "freeConfig"}
  BY <1>2 DEF ModesOn, ChainSet
<1>4. "title" \in ChainSet /\ "title" \notin Staged
  BY DEF ChainSet, Staged
<1>5. UiGood(v)
  BY <1>2, <1>3, <1>4 DEF UiGood
<1>6. QED
  BY <1>1, <1>5

LEMMA FreeConfigKeyGood ==
  ASSUME NEW u, UiGood(u), ModesOn(u) = {"freeConfig"}, NEW k \in Keys, NEW v \in FreeConfigKey(u, k)
  PROVE  UiGood(v)
<1>1. PICK no : no = FALSE
  OBVIOUS
<1>2. PICK yes : yes = TRUE
  OBVIOUS
<1>3. v \in {u, [u EXCEPT !.list = no], [u EXCEPT !.list = yes], FreeConfigExited(u), Entered(u, "title")}
  BY <1>1, <1>2 DEF FreeConfigKey
<1>4. UiGood([u EXCEPT !.list = no]) /\ UiGood([u EXCEPT !.list = yes])
  BY PaneKeeps, Zenon
<1>5. UiGood(FreeConfigExited(u)) /\ UiGood(Entered(u, "title"))
  BY FreeConfigLeft, TitleOver DEF UiFree
<1>6. QED
  BY <1>3, <1>4, <1>5, Zenon

LEMMA MenuKeyGood ==
  ASSUME NEW u, UiGood(u), ModesOn(u) = {"menu"}, NEW k \in Keys, NEW v \in MenuKey(u, k)
  PROVE  UiGood(v) /\ (k = "esc" => UiFree(v))
<1>1. PICK no : no = FALSE
  OBVIOUS
<1>2. PICK yes : yes = TRUE
  OBVIOUS
<1>3. PICK shut : shut = [Unstaged(u, "menu") EXCEPT !.nested = no]
  OBVIOUS
<1>4. UiFree(shut)
  <2>1. UiFree(Unstaged(u, "menu"))
    BY CloseFree
  <2>2. QED
    BY <2>1, <1>3, PaneKeeps, Zenon DEF UiFree
<1>5. UiGood(MenuBack(u))
  <2>1. UiFree(Unstaged(u, "menu"))
    BY CloseFree
  <2>2. PICK w : w = MenuOpened(u, no)
    OBVIOUS
  <2>3. UiGood(w)
    <3> USE DEF UiFields
    <3>1. "menu" \in u.modes /\ u.modes \cup {"menu"} = u.modes
      BY DEF ModesOn
    <3>2. \A m \in Staged : m \in u.modes => m = "menu"
      BY DEF ModesOn, Staged, ChainSet
    <3>3. PICK x : x = Staging(u, "menu")
      OBVIOUS
    <3>4. /\ x = [f \in UiFields |-> x[f]] /\ x.modes = u.modes /\ x.staged = "menu"
          /\ x.cmd = u.cmd /\ x.due = u.due
      BY <3>1, <3>3 DEF Staging, Entered, UiGood
    <3>5. UiGood(x)
      BY <3>2, <3>4 DEF UiGood, ModesOn
    <3>6. w = [x EXCEPT !.nested = no]
      BY <2>2, <3>3 DEF MenuOpened
    <3>7. QED
      BY <3>5, <3>6, PaneKeeps, Zenon
  <2>4. MenuBack(u) \in {w, Unstaged(u, "menu")}
    BY <2>2, <1>1 DEF MenuBack
  <2>5. QED
    BY <2>1, <2>3, <2>4 DEF UiFree
<1>6. UiGood(Entered(shut, "filter"))
  BY <1>4, OpenGood DEF ChainSet, Staged
<1>7. UiGood(MenuOpened(shut, yes))
  BY <1>4, MenuOpenedGood
<1>8. CASE k = "esc"
  BY <1>1, <1>3, <1>4, <1>8 DEF MenuKey, UiFree
<1>9. CASE k # "esc"
  <2>1. v \in Verbs(shut) \cup {u, MenuBack(u), Entered(shut, "filter"), MenuOpened(shut, yes)}
    BY <1>1, <1>2, <1>3, <1>9 DEF MenuKey
  <2>2. QED
    BY <2>1, <1>4, <1>5, <1>6, <1>7, <1>9, VerbsGood
<1>10. QED
  BY <1>8, <1>9

\* A mode that a key only closes.
LEMMA PlainKeysGood ==
  ASSUME NEW u, UiGood(u), NEW m, ModesOn(u) = {m}, NEW k \in Keys, NEW v,
         \/ m = "filter" /\ v \in FilterKey(u, k)
         \/ m = "copy" /\ v \in CopyKey(u, k)
         \/ m = "search" /\ v \in SearchKey(u, k)
         \/ m = "register" /\ v \in RegisterKey(u, k)
         \/ m = "diag" /\ v \in DiagKey(u, k)
         \/ m = "agent" /\ v \in AgentKey(u, k)
  PROVE  UiGood(v) /\ (v = u \/ UiFree(v))
<1>1. m \in u.modes
  BY DEF ModesOn
<1>2. v \in {u, Left(u, m), Unstaged(u, m)}
  BY <1>1 DEF FilterKey, CopyKey, SearchKey, RegisterKey, DiagKey, AgentKey, ModeCleared
<1>3. QED
  BY <1>2, CloseFree DEF UiFree

LEMMA PrefixKeyGood ==
  ASSUME NEW u, UiGood(u), ModesOn(u) = {"prefix"}, NEW k \in Keys, NEW v \in PrefixKey(u, k)
  PROVE  UiGood(v)
<1>1. UiFree(Left(u, "prefix"))
  BY CloseFree
<1>2. v \in {u, Left(u, "prefix")} \cup Verbs(Left(u, "prefix"))
  BY DEF PrefixKey
<1>3. QED
  BY <1>1, <1>2, VerbsGood DEF UiFree

LEMMA CmdKeyGood ==
  ASSUME NEW u, UiGood(u), ModesOn(u) = {"cmd"}, NEW k \in Keys, NEW v \in CmdKey(u, k)
  PROVE  UiGood(v)
<1>1. UiFree(Unstaged(u, "cmd"))
  BY CloseFree
<1>2. UiGood(Entered(Unstaged(u, "cmd"), "filter"))
  BY <1>1, OpenGood DEF ChainSet, Staged
<1>3. v \in {u, Unstaged(u, "cmd"), Entered(Unstaged(u, "cmd"), "filter")}
              \cup Verbs(Unstaged(u, "cmd"))
  BY DEF CmdKey
<1>4. QED
  BY <1>1, <1>2, <1>3, VerbsGood DEF UiFree

LEMMA FieldKeyGood ==
  ASSUME NEW u, UiGood(u), ModesOn(u) = {"field"}, NEW k \in Keys, NEW v \in FieldKey(u, k)
  PROVE  UiGood(v) /\ (k = "esc" => UiFree(v))
<1>1. PICK shut : shut = [Left(u, "field") EXCEPT !.cmd = NoCommand]
  OBVIOUS
<1>2. UiFree(Left(u, "field"))
  BY CloseFree
<1>3. UiFree(shut)
  BY <1>1, <1>2, CommandKeeps DEF UiFree
<1>4. UiGood(Later(shut, "do_run", u.cmd))
  <2>1. u.cmd \in Actions \cup {NoCommand}
    BY DEF UiGood
  <2>2. QED
    BY <1>3, <2>1, LaterKeeps DEF UiFree
<1>5. CASE k = "esc"
  BY <1>1, <1>3, <1>5 DEF FieldKey, UiFree
<1>6. CASE k # "esc"
  BY <1>1, <1>4, <1>6 DEF FieldKey
<1>7. QED
  BY <1>5, <1>6

LEMMA FormFieldsGood ==
  ASSUME NEW u, UiGood(u), ModesOn(u) = {"form"}, NEW k \in Keys, NEW v \in FormFields(u, k)
  PROVE  UiGood(v) /\ (k = "esc" => UiFree(v))
<1>1. PICK shut : shut = [Left(u, "form") EXCEPT !.cmd = NoCommand]
  OBVIOUS
<1>2. UiFree(Left(u, "form"))
  BY CloseFree
<1>3. UiFree(shut)
  BY <1>1, <1>2, CommandKeeps DEF UiFree
<1>4. UiGood(Later(shut, "do_run", u.cmd)) /\ UiGood(Later(shut, "run_action", u.cmd))
  <2>1. u.cmd \in Actions \cup {NoCommand}
    BY DEF UiGood
  <2>2. QED
    BY <1>3, <2>1, LaterKeeps DEF UiFree
<1>5. PICK no : no = FALSE
  OBVIOUS
<1>6. PICK yes : yes = TRUE
  OBVIOUS
<1>7. UiGood([u EXCEPT !.picking = yes, !.filtered = no])
  <2>1. PICK w : w = [u EXCEPT !.picking = yes]
    OBVIOUS
  <2>2. UiGood([u EXCEPT !.picking = yes])
    BY PaneKeeps, Zenon
  <2>3. UiGood([w EXCEPT !.filtered = no])
    BY <2>1, <2>2, PaneKeeps, Zenon
  <2>4. [w EXCEPT !.filtered = no] = [u EXCEPT !.picking = yes, !.filtered = no]
    BY <2>1
  <2>5. QED
    BY <2>3, <2>4
<1>8. CASE k = "esc"
  BY <1>1, <1>3, <1>8 DEF FormFields, UiFree
<1>9. CASE k # "esc"
  <2>1. v \in {u, Later(shut, "do_run", u.cmd), Later(shut, "run_action", u.cmd),
               [u EXCEPT !.picking = yes, !.filtered = no]}
    BY <1>1, <1>5, <1>6, <1>9 DEF FormFields
  <2>2. QED
    BY <2>1, <1>4, <1>7, <1>9
<1>10. QED
  BY <1>8, <1>9

LEMMA Unpicked ==
  ASSUME NEW u, UiGood(u), NEW no, no = FALSE
  PROVE  /\ UiGood([u EXCEPT !.picking = no, !.filtered = no])
         /\ ModesOn([u EXCEPT !.picking = no, !.filtered = no]) = ModesOn(u)
<1>1. PICK w : w = [u EXCEPT !.picking = no]
  OBVIOUS
<1>2. UiGood([u EXCEPT !.picking = no]) /\ ModesOn([u EXCEPT !.picking = no]) = ModesOn(u)
  BY PaneKeeps, Zenon
<1>3. UiGood(w) /\ ModesOn(w) = ModesOn(u)
  BY <1>1, <1>2
<1>4. UiGood([w EXCEPT !.filtered = no]) /\ ModesOn([w EXCEPT !.filtered = no]) = ModesOn(w)
  BY <1>3, PaneKeeps, Zenon
<1>5. [w EXCEPT !.filtered = no] = [u EXCEPT !.picking = no, !.filtered = no]
  BY <1>1
<1>6. QED
  BY <1>3, <1>4, <1>5

LEMMA FormKeyGood ==
  ASSUME NEW u, UiGood(u), ModesOn(u) = {"form"}, NEW k \in Keys, NEW v \in FormKey(u, k)
  PROVE  UiGood(v)
<1>1. PICK no : no = FALSE
  OBVIOUS
<1>2. PICK yes : yes = TRUE
  OBVIOUS
<1>3. PICK unpicked : unpicked = [u EXCEPT !.picking = no, !.filtered = no]
  OBVIOUS
<1>4. UiGood(unpicked) /\ ModesOn(unpicked) = {"form"}
  BY <1>1, <1>3, Unpicked
<1>5. UiGood([u EXCEPT !.filtered = no]) /\ UiGood([u EXCEPT !.filtered = yes])
  BY PaneKeeps, Zenon
<1>6. \/ v \in FormFields(u, k)
      \/ v \in FormFields(unpicked, k)
      \/ v \in {u, unpicked, [u EXCEPT !.filtered = no], [u EXCEPT !.filtered = yes]}
  BY <1>1, <1>2, <1>3 DEF FormKey, Keys
<1>7. QED
  BY <1>4, <1>5, <1>6, FormFieldsGood

LEMMA PaneMenuPickedGood ==
  ASSUME NEW u, UiFree(u), NEW v \in PaneMenuPicked(u)
  PROVE  UiFree(v)
<1>1. CASE v \in {u} \cup {[u EXCEPT !.focus = "list"]}
  <2>1. UiGood([u EXCEPT !.focus = "list"]) /\ ModesOn([u EXCEPT !.focus = "list"]) = ModesOn(u)
    BY PaneKeeps, Zenon DEF UiFree
  <2>2. QED
    BY <1>1, <2>1 DEF UiFree
<1>2. CASE v \in {[u EXCEPT !.focus = "viewer", !.tab = t] : t \in {"text", "agent", "term"}}
  <2>1. PICK t \in {"text", "agent", "term"} : v = [u EXCEPT !.focus = "viewer", !.tab = t]
    BY <1>2
  <2>2. PICK w : w = [u EXCEPT !.focus = "viewer"]
    OBVIOUS
  <2>3. UiGood([u EXCEPT !.focus = "viewer"]) /\ ModesOn([u EXCEPT !.focus = "viewer"]) = ModesOn(u)
    BY PaneKeeps, Zenon DEF UiFree
  <2>4. UiGood(w) /\ ModesOn(w) = ModesOn(u)
    BY <2>2, <2>3
  <2>5. UiGood([w EXCEPT !.tab = t]) /\ ModesOn([w EXCEPT !.tab = t]) = ModesOn(w)
    BY <2>4, PaneKeeps, Zenon
  <2>6. v = [w EXCEPT !.tab = t]
    BY <2>1, <2>2
  <2>7. QED
    BY <2>4, <2>5, <2>6 DEF UiFree
<1>3. QED
  BY <1>1, <1>2, Zenon DEF PaneMenuPicked

LEMMA PaneMenuKeyGood ==
  ASSUME NEW u, UiGood(u), ModesOn(u) = {"paneMenu"}, NEW k \in Keys, NEW v \in PaneMenuKey(u, k)
  PROVE  UiGood(v) /\ (k = "esc" => UiFree(v))
<1>1. PICK shut : shut = ModeCleared(u, "paneMenu")
  OBVIOUS
<1>2. UiFree(shut)
  BY <1>1, CloseFree DEF ModeCleared, ModesOn
<1>3. \/ k # "esc" /\ v \in {u, shut}
      \/ k # "esc" /\ v \in PaneMenuPicked(shut)
      \/ v = shut
  BY <1>1 DEF PaneMenuKey
<1>4. QED
  BY <1>2, <1>3, PaneMenuPickedGood DEF UiFree

LEMMA JobsKeyGood ==
  ASSUME NEW u, UiGood(u), ModesOn(u) = {"jobs"}, NEW k \in Keys, NEW v \in JobsKey(u, k)
  PROVE  UiGood(v) /\ (k = "esc" => UiFree(v))
<1>1. UiFree(Left(u, "jobs"))
  BY CloseFree
<1>2. \/ k # "esc" /\ v = u
      \/ k # "esc" /\ v \in PaneMenuPicked(Left(u, "jobs"))
      \/ v = Left(u, "jobs")
  BY DEF JobsKey
<1>3. QED
  BY <1>1, <1>2, PaneMenuPickedGood DEF UiFree

LEMMA PaletteKeyGood ==
  ASSUME NEW u, UiGood(u), ModesOn(u) = {"palette"}, NEW k \in Keys, NEW v \in PaletteKey(u, k)
  PROVE  UiGood(v)
<1>1. UiGood(PaletteUpdate(u, "close")) /\ UiGood(PaletteUpdate(u, "clear"))
      /\ UiGood(PaletteUpdate(u, "filter")) /\ UiGood(PaletteUpdate(u, "pick"))
  BY PaletteGood DEF UiFree
<1>2. ASSUME NEW c \in Commands PROVE UiGood(RunAsked(PaletteUpdate(u, "pick"), c))
  <2>1. c \in Actions
    BY CommandsAssumption
  <2>2. QED
    BY <2>1, <1>1, RunAskedGood
<1>3. \/ v \in {u, PaletteUpdate(u, "close"), PaletteUpdate(u, "clear"), PaletteUpdate(u, "filter")}
      \/ v \in {RunAsked(PaletteUpdate(u, "pick"), c) : c \in Commands}
  BY DEF PaletteKey
<1>4. QED
  BY <1>1, <1>2, <1>3

\* Whatever the key, and whatever the mode that gets it.
LEMMA ModeKeyGood ==
  ASSUME NEW u, UiGood(u), ChainActive(u), NEW k \in Keys, NEW v \in ModeKey(u, FirstMode(u), k)
  PROVE  UiGood(v)
<1>1. PICK m : m = FirstMode(u)
  OBVIOUS
<1>2. m \in ChainSet /\ m \in ModesOn(u) /\ v \in ModeKey(u, m, k)
  BY <1>1, FirstIsOn DEF ModesOn
<1>3. CASE m = "title"
  <2>1. v \in {u, Left(u, "title")}
    BY <1>2, <1>3 DEF ModeKey, TitleKey
  <2>2. QED
    BY <2>1, <1>2, <1>3, TitleLeft
<1>4. CASE m # "title"
  <2>1. ModesOn(u) = {m}
    BY <1>1, <1>4, FirstAlone
  <2>2. CASE m = "confirm"
    BY <2>1, <2>2, <1>2, ConfirmKeyGood DEF ModeKey
  <2>3. CASE m = "freeConfig"
    BY <2>1, <2>3, <1>2, FreeConfigKeyGood DEF ModeKey
  <2>4. CASE m = "menu"
    BY <2>1, <2>4, <1>2, MenuKeyGood DEF ModeKey
  <2>5. CASE m \in {"filter", "copy", "search", "register", "diag", "agent"}
    <3>1. \/ m = "filter" /\ v \in FilterKey(u, k)
          \/ m = "copy" /\ v \in CopyKey(u, k)
          \/ m = "search" /\ v \in SearchKey(u, k)
          \/ m = "register" /\ v \in RegisterKey(u, k)
          \/ m = "diag" /\ v \in DiagKey(u, k)
          \/ m = "agent" /\ v \in AgentKey(u, k)
      BY <2>5, <1>2 DEF ModeKey
    <3>2. QED
      BY <2>1, <3>1, PlainKeysGood
  <2>6. CASE m = "prefix"
    BY <2>1, <2>6, <1>2, PrefixKeyGood DEF ModeKey
  <2>7. CASE m = "cmd"
    BY <2>1, <2>7, <1>2, CmdKeyGood DEF ModeKey
  <2>8. CASE m = "field"
    BY <2>1, <2>8, <1>2, FieldKeyGood DEF ModeKey
  <2>9. CASE m = "form"
    BY <2>1, <2>9, <1>2, FormKeyGood DEF ModeKey
  <2>10. CASE m = "paneMenu"
    BY <2>1, <2>10, <1>2, PaneMenuKeyGood DEF ModeKey
  <2>11. CASE m = "palette"
    BY <2>1, <2>11, <1>2, PaletteKeyGood DEF ModeKey
  <2>12. CASE m = "jobs"
    BY <2>1, <2>12, <1>2, JobsKeyGood DEF ModeKey
  <2>13. QED
    BY <1>2, <1>4, <2>2, <2>3, <2>4, <2>5, <2>6, <2>7, <2>8, <2>9, <2>10, <2>11, <2>12
       DEF ChainSet
<1>5. QED
  BY <1>3, <1>4

-----------------------------------------------------------------------------
(* The steps. *)

LEMMA UiInitGood == UiInit => UiInv
<1> SUFFICES ASSUME UiInit PROVE UiInv
  OBVIOUS
<1>1. /\ ui = [f \in UiFields |-> ui[f]] /\ ui.modes = {} /\ ui.cmd = NoCommand /\ ui.due = <<>>
  BY DEF UiInit, UiFields
<1>2. ModesOn(ui) = {} /\ ui.due \in Seq(Dues)
  BY <1>1, EmptySeq DEF ModesOn
<1>3. QED
  BY <1>1, <1>2 DEF UiInv, UiGood

LEMMA ClearedGood ==
  ASSUME NEW u, UiGood(u), ChainActive(u)
  PROVE  UiGood(ModeCleared(u, FirstMode(u)))
<1> USE DEF UiFields
<1>1. PICK m : m = FirstMode(u)
  OBVIOUS
<1>2. m \in ModesOn(u) /\ ModeCleared(u, m) = Unstaged(u, m)
  BY <1>1, FirstIsOn DEF ModesOn, ModeCleared
<1>3. CASE ModesOn(u) = {m}
  BY <1>1, <1>2, <1>3, CloseFree DEF UiFree
<1>4. CASE ModesOn(u) # {m}
  <2>1. m = "title" /\ ModesOn(u) = {"title", "freeConfig"}
    BY <1>1, <1>4, FirstAlone
  <2>2. PICK w : w = Left(u, "title")
    OBVIOUS
  <2>3. UiGood(w) /\ ModesOn(w) \subseteq {"freeConfig"}
    BY <1>2, <2>1, <2>2, TitleLeft
  <2>4. PICK v : v = Unstaged(u, "title")
    OBVIOUS
  <2>5. v = [w EXCEPT !.staged = "none"]
    BY <2>2, <2>4 DEF Unstaged
  <2>6. /\ v = [f \in UiFields |-> v[f]] /\ v.modes = w.modes /\ v.cmd = w.cmd /\ v.due = w.due
    BY <2>3, <2>5 DEF UiGood
  <2>7. w.modes \cap Staged = {}
    BY <2>3 DEF ModesOn, Staged, ChainSet
  <2>8. UiGood(v)
    BY <2>3, <2>6, <2>7 DEF UiGood, ModesOn
  <2>9. QED
    BY <1>1, <1>2, <2>1, <2>4, <2>8
<1>5. QED
  BY <1>3, <1>4

LEMMA UiNextGood == UiInv /\ [UiNext]_ui => UiInv'
<1> SUFFICES ASSUME UiGood(ui), [UiNext]_ui PROVE UiGood(ui')
  BY DEF UiInv
<1>1. ASSUME KeyInMode PROVE UiGood(ui')
  BY <1>1, ModeKeyGood DEF KeyInMode
<1>2. ASSUME HandlerThrows PROVE UiGood(ui')
  BY <1>2, ClearedGood DEF HandlerThrows
<1>3. ASSUME Idle PROVE UiFree(ui)
  BY <1>3, ActiveIsOn DEF Idle, UiFree
<1>4. ASSUME KeyOpens PROVE UiGood(ui')
  <2>1. UiFree(ui)
    BY <1>3, <1>4 DEF KeyOpens
  <2>2. PICK no : no = FALSE
    OBVIOUS
  <2>3. \/ \E m \in {"prefix", "register", "paneMenu", "filter", "search"} : ui' = Entered(ui, m)
        \/ ui' = PaletteUpdate(ui, "open")
        \/ \E m \in {"cmd", "copy"} : ui' = Staging(ui, m)
        \/ ui' = MenuOpened(ui, no)
    BY <1>4, <2>2 DEF KeyOpens
  <2>4. CASE \E m \in {"prefix", "register", "paneMenu", "filter", "search"} : ui' = Entered(ui, m)
    <3>1. PICK m \in {"prefix", "register", "paneMenu", "filter", "search"} : ui' = Entered(ui, m)
      BY <2>4
    <3>2. m \in ChainSet \ Staged
      BY DEF ChainSet, Staged
    <3>3. QED
      BY <2>1, <3>1, <3>2, OpenGood
  <2>5. CASE ui' = PaletteUpdate(ui, "open")
    BY <2>1, <2>5, PaletteGood
  <2>6. CASE \E m \in {"cmd", "copy"} : ui' = Staging(ui, m)
    BY <2>1, <2>6, OpenGood DEF ChainSet
  <2>7. CASE ui' = MenuOpened(ui, no)
    BY <2>1, <2>7, MenuOpenedGood
  <2>8. QED
    BY <2>3, <2>4, <2>5, <2>6, <2>7
<1>5. ASSUME ListSelects PROVE UiGood(ui')
  BY <1>5, AsideGood DEF ListSelects
<1>6. ASSUME FocusMoves PROVE UiGood(ui')
  <2>1. PICK x : ui' = [ui EXCEPT !.focus = x] \/ ui' = [ui EXCEPT !.tab = x]
    BY <1>6 DEF FocusMoves
  <2>2. UiGood([ui EXCEPT !.focus = x]) /\ UiGood([ui EXCEPT !.tab = x])
    BY PaneKeeps, Zenon
  <2>3. QED
    BY <2>1, <2>2
<1>7. ASSUME Activates PROVE UiGood(ui')
  <2>1. UiFree(ui)
    BY <1>3, <1>7 DEF Activates
  <2>2. \/ \E c \in Commands : ui' \in {RunAsked(ui, c), Later(ui, "run_action", c)}
        \/ ui' = Entered(ui, "agent")
        \/ ui' = Entered(ui, "terminal")
    BY <1>7 DEF Activates
  <2>3. UiGood(Entered(ui, "agent")) /\ UiGood(Entered(ui, "terminal"))
    BY <2>1, OpenGood, AsideGood DEF ChainSet, Staged
  <2>4. ASSUME NEW c \in Commands
        PROVE  UiGood(RunAsked(ui, c)) /\ UiGood(Later(ui, "run_action", c))
    <3>1. c \in Actions
      BY CommandsAssumption
    <3>2. QED
      BY <3>1, RunAskedGood, LaterKeeps
  <2>5. QED
    BY <2>2, <2>3, <2>4
<1>8. ASSUME RunTicks PROVE UiGood(ui')
  <2>1. PICK what : what = Head(ui.due)[1]
    OBVIOUS
  <2>2. PICK c : c = Head(ui.due)[2]
    OBVIOUS
  <2>3. PICK u : u = [ui EXCEPT !.due = Tail(ui.due)]
    OBVIOUS
  <2>4. ui.due # <<>> /\ ui' = IF what = "do_run" THEN RunStarted(u, c) ELSE RunAsked(u, c)
    BY <1>8, <2>1, <2>2, <2>3 DEF RunTicks
  <2>5. Head(ui.due) \in Dues /\ Tail(ui.due) \in Seq(Dues)
    BY <2>4 DEF UiGood
  <2>6. c \in Actions
    BY <2>2, <2>5 DEF Dues
  <2>7. /\ u = [f \in UiFields |-> u[f]] /\ u.modes = ui.modes /\ u.staged = ui.staged
        /\ u.cmd \in Actions \cup {NoCommand} /\ u.due \in Seq(Dues)
    BY <2>3, <2>5 DEF UiGood, UiFields
  <2>8. UiGood(u)
    BY <2>7, SameModes
  <2>9. QED
    BY <2>4, <2>6, <2>8, RunStartedGood, RunAskedGood
<1>9. ASSUME TerminalLeft PROVE UiGood(ui')
  BY <1>9, AsideGood DEF TerminalLeft
<1>10. ASSUME SessionExits PROVE UiGood(ui')
  <2>1. PICK w : w = IF ui.focus = "viewer" THEN Left(ui, "terminal") ELSE ui
    OBVIOUS
  <2>2. UiGood(w)
    BY <2>1, AsideGood
  <2>3. PICK t : ui' = [w EXCEPT !.tab = t]
    BY <1>10, <2>1 DEF SessionExits
  <2>4. UiGood([w EXCEPT !.tab = t])
    BY <2>2, PaneKeeps, Zenon
  <2>5. QED
    BY <2>3, <2>4
<1>11. ASSUME AgentTurns PROVE UiGood(ui')
  <2>1. PICK x : x = ~ui.busy
    OBVIOUS
  <2>2. UiGood([ui EXCEPT !.busy = x])
    BY PaneKeeps, Zenon
  <2>3. QED
    BY <1>11, <2>1, <2>2 DEF AgentTurns
<1>12. ASSUME Clicks PROVE UiGood(ui')
  <2>1. CASE ~ChainActive(ui) /\ \E pane \in {"list", "viewer"} :
               ui' = Entered([ui EXCEPT !.focus = IF pane = "viewer" THEN pane ELSE @], "paneMenu")
    <3>1. PICK x : ui' = Entered([ui EXCEPT !.focus = x], "paneMenu")
      BY <2>1
    <3>2. UiGood([ui EXCEPT !.focus = x]) /\ ModesOn([ui EXCEPT !.focus = x]) = ModesOn(ui)
      BY PaneKeeps, Zenon
    <3>3. UiFree([ui EXCEPT !.focus = x])
      BY <2>1, <3>2, ActiveIsOn DEF UiFree
    <3>4. QED
      BY <3>1, <3>3, OpenGood DEF ChainSet, Staged
  <2>2. CASE /\ "paneMenu" \in ui.modes
             /\ ui' \in {ModeCleared(ui, "paneMenu")} \cup PaneMenuPicked(ModeCleared(ui, "paneMenu"))
    <3>1. ModesOn(ui) = {"paneMenu"}
      BY <2>2, OthersAlone DEF ModesOn, ChainSet
    <3>2. UiFree(ModeCleared(ui, "paneMenu"))
      BY <2>2, <3>1, CloseFree DEF ModeCleared
    <3>3. QED
      BY <2>2, <3>2, PaneMenuPickedGood DEF UiFree
  <2>3. CASE "menu" \in ui.modes /\ ui' \in MenuKey(ui, "esc") \cup MenuKey(ui, "return")
    <3>1. ModesOn(ui) = {"menu"}
      BY <2>3, OthersAlone DEF ModesOn, ChainSet
    <3>2. QED
      BY <2>3, <3>1, MenuKeyGood DEF Keys
  <2>4. QED
    BY <1>12, <2>1, <2>2, <2>3 DEF Clicks
<1>13. CASE UNCHANGED ui
  BY <1>13
<1>14. QED
  BY <1>1, <1>2, <1>4, <1>5, <1>6, <1>7, <1>8, <1>9, <1>10, <1>11, <1>12, <1>13 DEF UiNext

\* One dialog at a time, on top and in hand.
LEMMA UiInvOneModal == UiInv => OneModal
<1> SUFFICES ASSUME UiGood(ui) PROVE OneModal
  BY DEF UiInv
<1>1. /\ DOMAIN ZIndex \subseteq ChainSet \ {"title"} /\ ModalOverlays \subseteq DOMAIN ZIndex
      /\ "freeConfig" \in DOMAIN ZIndex
  BY DEF ZIndex, ModalOverlays, ChainSet
<1>2. ASSUME NEW m \in Painted(ui), NEW n \in Painted(ui) PROVE m = n
  <2>1. m \in ModesOn(ui) /\ n \in ModesOn(ui) /\ m # "title" /\ n # "title"
    BY <1>1 DEF ModesOn, Painted
  <2>2. CASE m = "freeConfig" /\ n = "freeConfig"
    BY <2>2
  <2>3. CASE m # "freeConfig"
    BY <2>1, <2>3, OthersAlone
  <2>4. CASE n # "freeConfig"
    BY <2>1, <2>4, OthersAlone
  <2>5. QED
    BY <2>2, <2>3, <2>4
<1>3. Cardinality(ui.modes \cap ModalOverlays) <= 1
  <2>1. CASE ui.modes \cap ModalOverlays = {}
    BY <2>1, FS_EmptySet
  <2>2. CASE ui.modes \cap ModalOverlays # {}
    <3>1. PICK m : ui.modes \cap ModalOverlays = {m}
      BY <2>2, <1>1, <1>2 DEF Painted
    <3>2. QED
      BY <3>1, FS_Singleton
  <2>3. QED
    BY <2>1, <2>2
<1>4. ASSUME Painted(ui) # {} PROVE FirstMode(ui) = OnTop(ui) \/ "title" \in ui.modes
  <2>1. PICK m : Painted(ui) = {m}
    BY <1>2, <1>4
  <2>2. m \in ModesOn(ui) /\ ChainActive(ui)
    BY <1>1, <2>1, ActiveIsOn DEF Painted, ModesOn
  <2>3. OnTop(ui) = m
    <3>1. ZIndex[m] \in Nat
      BY <2>1 DEF Painted, ZIndex
    <3>2. QED
      BY <2>1, <3>1 DEF OnTop
  <2>4. CASE "title" \notin ui.modes
    BY <2>2, <2>3, <2>4, FirstAlone DEF ModesOn
  <2>5. QED
    BY <2>4
<1>5. QED
  BY <1>3, <1>4 DEF OneModal, UiGood, Staged

THEOREM ModesInvariance == UiSpec => []UiInv
BY UiInitGood, UiNextGood, PTL DEF UiSpec

THEOREM OneModalAlways == UiSpec => []OneModal
BY ModesInvariance, UiInvOneModal, PTL

-----------------------------------------------------------------------------
(***************************************************************************)
(* The way out.  What one, two and three times Esc lead out of.            *)
(***************************************************************************)
Out1(u) ==
  /\ UiGood(u)
  /\ ModesOn(u) # {} =>
       \E m \in ChainSet : /\ ModesOn(u) = {m}
                           /\ m = "agent" => ~u.busy
                           /\ m = "search" => Focused(u) \in {"text", "agent"}
                           /\ m = "palette" => ~u.filtered
                           /\ m = "form" => ~u.picking
                           /\ m = "freeConfig" => ~u.list
Out2(u) ==
  \/ Out1(u)
  \/ /\ UiGood(u)
     /\ \/ ModesOn(u) \in {{"palette"}, {"freeConfig"}}
        \/ ModesOn(u) = {"form"} /\ ~u.filtered
        \/ ModesOn(u) = {"title", "freeConfig"} /\ ~u.list
Out3(u) ==
  \/ Out2(u)
  \/ UiGood(u) /\ ModesOn(u) \in {{"form"}, {"title", "freeConfig"}}

LEMMA EscIs ==
  ASSUME NEW u, ChainActive(u), NEW x, ModeKey(u, FirstMode(u), "esc") = {x}
  PROVE  Esc(u) = x
BY DEF Esc

LEMMA FreeStays ==
  ASSUME NEW u, UiGood(u), ModesOn(u) = {}
  PROVE  Esc(u) = u
BY ActiveIsOn DEF Esc

LEMMA OutOfOne ==
  ASSUME NEW u, Out1(u)
  PROVE  UiFree(Esc(u))
<1>1. CASE ModesOn(u) = {}
  BY <1>1, FreeStays DEF Out1, UiFree
<1>2. CASE ModesOn(u) # {}
  <2>1. PICK m \in ChainSet : /\ ModesOn(u) = {m}
                              /\ m = "agent" => ~u.busy
                              /\ m = "search" => Focused(u) \in {"text", "agent"}
                              /\ m = "palette" => ~u.filtered
                              /\ m = "form" => ~u.picking
                              /\ m = "freeConfig" => ~u.list
    BY <1>2 DEF Out1
  <2>2. UiGood(u) /\ ChainActive(u) /\ FirstMode(u) = m
    BY <2>1, ActiveIsOn, FirstIsOn DEF Out1
  <2>3. "esc" \in Keys
    BY DEF Keys
  <2>4. m \in u.modes
    BY <2>1 DEF ModesOn
  <2>5. UiFree(Left(u, m)) /\ UiFree(Unstaged(u, m))
    BY <2>1, <2>2, CloseFree
  <2>6. CASE m \in {"title", "filter", "copy", "search", "register", "prefix", "cmd", "jobs",
                    "diag", "agent", "paneMenu"}
    <3>1. PICK x \in {Left(u, m), Unstaged(u, m)} : ModeKey(u, m, "esc") = {x}
      BY <2>1, <2>4, <2>6 DEF ModeKey, TitleKey, FilterKey, CopyKey, SearchKey, RegisterKey,
           PrefixKey, CmdKey, JobsKey, DiagKey, AgentKey, PaneMenuKey, ModeCleared
    <3>2. QED
      BY <2>2, <2>5, <3>1, EscIs
  <2>7. CASE m = "confirm"
    <3>1. PICK x : ModeKey(u, m, "esc") = {x} /\ x \in ConfirmKey(u, "esc")
      BY <2>7 DEF ModeKey, ConfirmKey
    <3>2. UiFree(x)
      BY <2>1, <2>2, <2>3, <2>7, <3>1, ConfirmKeyGood
    <3>3. QED
      BY <2>2, <3>1, <3>2, EscIs
  <2>8. CASE m = "menu"
    <3>1. PICK x : ModeKey(u, m, "esc") = {x} /\ x \in MenuKey(u, "esc")
      BY <2>8 DEF ModeKey, MenuKey
    <3>2. UiFree(x)
      BY <2>1, <2>2, <2>3, <2>8, <3>1, MenuKeyGood
    <3>3. QED
      BY <2>2, <3>1, <3>2, EscIs
  <2>9. CASE m = "field"
    <3>1. PICK x : ModeKey(u, m, "esc") = {x} /\ x \in FieldKey(u, "esc")
      BY <2>9 DEF ModeKey, FieldKey
    <3>2. UiFree(x)
      BY <2>1, <2>2, <2>3, <2>9, <3>1, FieldKeyGood
    <3>3. QED
      BY <2>2, <3>1, <3>2, EscIs
  <2>10. CASE m = "form"
    <3>1. PICK x : ModeKey(u, m, "esc") = {x} /\ x \in FormFields(u, "esc")
      BY <2>1, <2>10 DEF ModeKey, FormKey, FormFields
    <3>2. UiFree(x)
      BY <2>1, <2>2, <2>3, <2>10, <3>1, FormFieldsGood
    <3>3. QED
      BY <2>2, <3>1, <3>2, EscIs
  <2>11. CASE m = "palette"
    <3>1. ModeKey(u, m, "esc") = {PaletteUpdate(u, "close")}
      BY <2>1, <2>11 DEF ModeKey, PaletteKey
    <3>2. UiFree(PaletteUpdate(u, "close"))
      BY <2>1, <2>2, <2>11, PaletteGood
    <3>3. QED
      BY <2>2, <3>1, <3>2, EscIs
  <2>12. CASE m = "freeConfig"
    <3>1. ModeKey(u, m, "esc") = {FreeConfigExited(u)}
      BY <2>1, <2>12 DEF ModeKey, FreeConfigKey
    <3>2. UiFree(FreeConfigExited(u))
      BY <2>1, <2>2, <2>12, FreeConfigLeft
    <3>3. QED
      BY <2>2, <3>1, <3>2, EscIs
  <2>13. QED
    BY <2>6, <2>7, <2>8, <2>9, <2>10, <2>11, <2>12 DEF ChainSet
<1>3. QED
  BY <1>1, <1>2

LEMMA FreeIsOut ==
  ASSUME NEW u, UiFree(u)
  PROVE  Out1(u)
BY DEF UiFree, Out1

LEMMA OutOfTwo ==
  ASSUME NEW u, Out2(u)
  PROVE  Out1(Esc(u))
<1>1. CASE Out1(u)
  BY <1>1, OutOfOne, FreeIsOut
<1>2. CASE UiGood(u) /\ ~Out1(u)
  <2>1. PICK no : no = FALSE
    OBVIOUS
  <2>2. CASE ModesOn(u) = {"palette"}
    <3>1. ChainActive(u) /\ FirstMode(u) = "palette"
      BY <2>2, ActiveIsOn, FirstIsOn
    <3>2. u.filtered
      BY <1>2, <2>2 DEF Out1, ChainSet
    <3>3. PICK v : v = PaletteUpdate(u, "clear")
      OBVIOUS
    <3>4. Esc(u) = v
      BY <3>1, <3>2, <3>3, EscIs DEF ModeKey, PaletteKey
    <3>5. UiGood(v) /\ ModesOn(v) = {"palette"}
      BY <1>2, <2>2, <3>3, PaletteGood
    <3>6. ~v.filtered
      <4>1. v = [u EXCEPT !.filtered = no]
        BY <2>1, <3>3 DEF PaletteUpdate
      <4>2. v.filtered = no
        BY <1>2, <4>1 DEF UiGood, UiFields
      <4>3. QED
        BY <2>1, <4>2
    <3>7. QED
      BY <3>4, <3>5, <3>6 DEF Out1, ChainSet
  <2>3. CASE ModesOn(u) = {"freeConfig"}
    <3>1. ChainActive(u) /\ FirstMode(u) = "freeConfig"
      BY <2>3, ActiveIsOn, FirstIsOn
    <3>2. u.list
      BY <1>2, <2>3 DEF Out1, ChainSet
    <3>3. PICK v : v = [u EXCEPT !.list = no]
      OBVIOUS
    <3>4. Esc(u) = v
      BY <2>1, <3>1, <3>2, <3>3, EscIs DEF ModeKey, FreeConfigKey
    <3>5. UiGood([u EXCEPT !.list = no]) /\ ModesOn([u EXCEPT !.list = no]) = ModesOn(u)
      BY <1>2, PaneKeeps, Zenon
    <3>6. v.list = no
      BY <1>2, <3>3 DEF UiGood, UiFields
    <3>7. QED
      BY <2>1, <2>3, <3>3, <3>4, <3>5, <3>6 DEF Out1, ChainSet
  <2>4. CASE ModesOn(u) = {"form"} /\ ~u.filtered
    <3>1. ChainActive(u) /\ FirstMode(u) = "form"
      BY <2>4, ActiveIsOn, FirstIsOn
    <3>2. u.picking
      BY <1>2, <2>4 DEF Out1, ChainSet
    <3>3. PICK v : v = [u EXCEPT !.picking = no, !.filtered = no]
      OBVIOUS
    <3>4. Esc(u) = v
      BY <2>1, <2>4, <3>1, <3>2, <3>3, EscIs DEF ModeKey, FormKey
    <3>5. UiGood(v) /\ ModesOn(v) = ModesOn(u)
      BY <1>2, <2>1, <3>3, Unpicked
    <3>6. v.picking = no
      BY <1>2, <3>3 DEF UiGood, UiFields
    <3>7. QED
      BY <2>1, <2>4, <3>4, <3>5, <3>6 DEF Out1, ChainSet
  <2>5. CASE ModesOn(u) = {"title", "freeConfig"} /\ ~u.list
    <3>1. "title" \in ModesOn(u) /\ {"title", "freeConfig"} \subseteq u.modes
      BY <2>5 DEF ModesOn
    <3>2. ChainActive(u) /\ FirstMode(u) = "title"
      BY <2>5, <3>1, ActiveIsOn, FirstIsOn
    <3>3. Esc(u) = Left(u, "title")
      BY <3>2, EscIs DEF ModeKey, TitleKey
    <3>4. UiGood(Left(u, "title")) /\ ModesOn(Left(u, "title")) \subseteq {"freeConfig"}
      BY <1>2, <3>1, TitleLeft
    <3>5. Left(u, "title").list = u.list
      BY <1>2 DEF Left, UiGood, UiFields
    <3>6. ModesOn(Left(u, "title")) # {} => ModesOn(Left(u, "title")) = {"freeConfig"}
      BY <3>4
    <3>7. ~Left(u, "title").list
      BY <2>5, <3>5
    <3>8. QED
      BY <3>3, <3>4, <3>6, <3>7 DEF Out1, ChainSet
  <2>6. QED
    BY <1>2, <2>2, <2>3, <2>4, <2>5 DEF Out2
<1>3. QED
  BY <1>1, <1>2 DEF Out2

LEMMA OutOfThree ==
  ASSUME NEW u, Out3(u)
  PROVE  Out2(Esc(u))
<1>1. CASE Out2(u)
  BY <1>1, OutOfTwo DEF Out2
<1>2. CASE UiGood(u) /\ ~Out2(u)
  <2>1. PICK no : no = FALSE
    OBVIOUS
  <2>2. CASE ModesOn(u) = {"form"}
    <3>1. ChainActive(u) /\ FirstMode(u) = "form"
      BY <2>2, ActiveIsOn, FirstIsOn
    <3>2. u.filtered /\ u.picking
      BY <1>2, <2>2 DEF Out2, Out1, ChainSet
    <3>3. PICK v : v = [u EXCEPT !.filtered = no]
      OBVIOUS
    <3>4. Esc(u) = v
      BY <2>1, <3>1, <3>2, <3>3, EscIs DEF ModeKey, FormKey
    <3>5. UiGood([u EXCEPT !.filtered = no]) /\ ModesOn([u EXCEPT !.filtered = no]) = ModesOn(u)
      BY <1>2, PaneKeeps, Zenon
    <3>6. v.filtered = no
      BY <1>2, <3>3 DEF UiGood, UiFields
    <3>7. QED
      BY <2>1, <2>2, <3>3, <3>4, <3>5, <3>6 DEF Out2
  <2>3. CASE ModesOn(u) = {"title", "freeConfig"}
    <3>1. "title" \in ModesOn(u) /\ {"title", "freeConfig"} \subseteq u.modes
      BY <2>3 DEF ModesOn
    <3>2. ChainActive(u) /\ FirstMode(u) = "title"
      BY <2>3, <3>1, ActiveIsOn, FirstIsOn
    <3>3. Esc(u) = Left(u, "title")
      BY <3>2, EscIs DEF ModeKey, TitleKey
    <3>4. UiGood(Left(u, "title")) /\ ModesOn(Left(u, "title")) \subseteq {"freeConfig"}
      BY <1>2, <3>1, TitleLeft
    <3>5. CASE ModesOn(Left(u, "title")) = {}
      BY <3>3, <3>4, <3>5 DEF Out2, Out1
    <3>6. CASE ModesOn(Left(u, "title")) # {}
      BY <3>3, <3>4, <3>6 DEF Out2
    <3>7. QED
      BY <3>5, <3>6
  <2>4. QED
    BY <1>2, <2>2, <2>3 DEF Out3
<1>3. QED
  BY <1>1, <1>2 DEF Out3

LEMMA UiInvEscLeadsOut == UiInv => EscLeadsOut
<1> SUFFICES ASSUME UiGood(ui), ~SearchLost PROVE EscLeadsOut
  BY DEF UiInv, EscLeadsOut
<1>1. PICK no : no = FALSE
  OBVIOUS
<1>2. PICK w : w = Left(ui, "terminal")
  OBVIOUS
<1>3. UiGood(w) /\ ModesOn(w) = ModesOn(ui)
  BY <1>2, AsideGood
<1>4. PICK u : u = [w EXCEPT !.busy = no]
  OBVIOUS
<1>5. UiGood([w EXCEPT !.busy = no]) /\ ModesOn([w EXCEPT !.busy = no]) = ModesOn(w)
  BY <1>3, PaneKeeps, Zenon
<1>6. UiGood(u) /\ ModesOn(u) = ModesOn(ui)
  BY <1>3, <1>4, <1>5
<1>7. /\ u = [ui EXCEPT !.modes = @ \ {"terminal"}, !.busy = FALSE]
      /\ u.busy = no /\ u.focus = ui.focus /\ u.tab = ui.tab
  BY <1>1, <1>2, <1>4 DEF Left, UiGood, UiFields
<1>8. "search" \in ModesOn(u) => Focused(u) \in {"text", "agent"}
  BY <1>6, <1>7 DEF SearchLost, Focused, ModesOn
<1>9. Out3(u)
  <2>1. CASE ModesOn(u) = {}
    <3>1. Out1(u)
      BY <1>6, <2>1 DEF Out1
    <3>2. QED
      BY <3>1 DEF Out3, Out2
  <2>2. CASE ModesOn(u) = {"title", "freeConfig"}
    BY <1>6, <2>2 DEF Out3
  <2>3. CASE ModesOn(u) # {} /\ ModesOn(u) # {"title", "freeConfig"}
    <3>1. PICK m \in ChainSet : ModesOn(u) = {m}
      <4>1. ChainActive(u)
        BY <2>3, ActiveIsOn
      <4>2. ModesOn(u) = {FirstMode(u)}
        BY <4>1, <2>3, <1>6, FirstAlone
      <4>3. FirstMode(u) \in ChainSet
        BY <4>2 DEF ModesOn
      <4>4. QED
        BY <4>2, <4>3
    <3>2. CASE m \in {"palette", "freeConfig"}
      BY <1>6, <3>1, <3>2 DEF Out3, Out2
    <3>3. CASE m = "form"
      BY <1>6, <3>1, <3>3 DEF Out3
    <3>4. CASE m \notin {"palette", "freeConfig", "form"}
      <4>1. m = "agent" => ~u.busy
        BY <1>1, <1>7
      <4>2. m = "search" => Focused(u) \in {"text", "agent"}
        BY <1>8, <3>1
      <4>3. Out1(u)
        <5>1. m = "palette" => ~u.filtered
          BY <3>4
        <5>2. m = "form" => ~u.picking
          BY <3>4
        <5>3. m = "freeConfig" => ~u.list
          BY <3>4
        <5>4. QED
          BY <1>6, <3>1, <4>1, <4>2, <5>1, <5>2, <5>3, Zenon DEF Out1
      <4>4. QED
        BY <4>3 DEF Out3, Out2
    <3>5. QED
      BY <3>2, <3>3, <3>4
  <2>4. QED
    BY <2>1, <2>2, <2>3
<1>10. UiFree(Esc(Esc(Esc(u))))
  BY <1>9, OutOfThree, OutOfTwo, OutOfOne
<1>11. QED
  BY <1>7, <1>10, ActiveIsOn DEF EscLeadsOut, UiFree

THEOREM EscAlwaysLeadsOut == UiSpec => []EscLeadsOut
BY ModesInvariance, UiInvEscLeadsOut, PTL

-----------------------------------------------------------------------------
(***************************************************************************)
(* The grid.  A layout file that is not refused is one the window manager  *)
(* can start from, and the keys of a column are dealt one after the other: *)
(* a cell that asks for none gets the next one that nobody asked for.      *)
(***************************************************************************)
GridSpec == GridInit /\ [][GridNext]_grid

\* The second half of GridSound says of a file what it says of the grid.
DealtOut(columns) ==
  LET asked == HotkeysIn(columns)
      foreign(c) == UNION {Range(HotkeyPoolForColumn(d, Len(columns))) : d \in DOMAIN columns \ {c}}
  IN  (~KeyTwice(asked) /\ \A a \in Sites(asked) : CellAt(asked, a) \notin foreign(a[1]))
      => ~KeysClash(columns)

GridInv ==
  /\ grid.written \in Seq(Seq(Cells)) /\ grid.state \in {"writing", "refused", "placed"}
  /\ grid = [written |-> grid.written, state |-> grid.state, panes |-> grid.panes, pool |-> grid.pool]
  /\ GridUsable

(* What is looked up: places of cells and of tabs.                             *)
LEMMA SiteOf ==
  ASSUME NEW S, NEW columns \in Seq(Seq(S))
  PROVE  /\ \A a \in Sites(columns) :
              /\ a = <<a[1], a[2]>> /\ a[1] \in 1 .. Len(columns) /\ a[2] \in 1 .. Len(columns[a[1]])
              /\ CellAt(columns, a) \in S
         /\ \A c \in DOMAIN columns : \A i \in DOMAIN columns[c] :
              <<c, i>> \in Sites(columns) /\ CellAt(columns, <<c, i>>) = columns[c][i]
         /\ DOMAIN columns = 1 .. Len(columns) /\ Len(columns) \in Nat
         /\ \A c \in DOMAIN columns : /\ columns[c] \in Seq(S) /\ Len(columns[c]) \in Nat
                                      /\ DOMAIN columns[c] = 1 .. Len(columns[c])
<1>1. DOMAIN columns = 1 .. Len(columns) /\ Len(columns) \in Nat
  OBVIOUS
<1>2. ASSUME NEW c \in DOMAIN columns
      PROVE  columns[c] \in Seq(S) /\ Len(columns[c]) \in Nat /\ DOMAIN columns[c] = 1 .. Len(columns[c])
  <2>1. columns[c] \in Seq(S)
    BY ElementOfSeq, <1>1
  <2>2. QED
    BY <2>1
<1>3. ASSUME NEW a \in Sites(columns)
      PROVE  /\ a = <<a[1], a[2]>> /\ a[1] \in 1 .. Len(columns) /\ a[2] \in 1 .. Len(columns[a[1]])
             /\ CellAt(columns, a) \in S
  <2>1. PICK c \in DOMAIN columns : a \in {c} \X DOMAIN columns[c]
    BY DEF Sites
  <2>2. a = <<a[1], a[2]>> /\ a[1] = c /\ a[2] \in 1 .. Len(columns[c])
    BY <1>2, <2>1
  <2>3. columns[c][a[2]] \in S
    BY <1>2, <2>2, ElementOfSeq
  <2>4. QED
    BY <1>1, <2>2, <2>3 DEF CellAt
<1>4. ASSUME NEW c \in DOMAIN columns, NEW i \in DOMAIN columns[c]
      PROVE  <<c, i>> \in Sites(columns) /\ CellAt(columns, <<c, i>>) = columns[c][i]
  BY DEF Sites, CellAt
<1>5. QED
  BY <1>1, <1>2, <1>3, <1>4

(* Two cells that ask for no key are dealt theirs one after the other.         *)
LEMMA CountsApart ==
  ASSUME NEW i \in Nat, NEW j \in Nat, i < j, NEW A \in SUBSET (1 .. i), NEW B \in SUBSET (1 .. j),
         A \subseteq B, j \in B
  PROVE  Cardinality(A) # Cardinality(B)
<1>1. IsFiniteSet(1 .. j) /\ IsFiniteSet(1 .. i)
  BY FS_Interval
<1>2. A \cup {j} \subseteq B /\ j \notin A
  OBVIOUS
<1>4. IsFiniteSet(A) /\ IsFiniteSet(B)
  BY <1>1, FS_Subset
<1>5. Cardinality(A \cup {j}) = Cardinality(A) + 1 /\ IsFiniteSet(A \cup {j})
  BY <1>2, <1>4, FS_AddElement
<1>6. Cardinality(A \cup {j}) <= Cardinality(B)
  BY <1>2, <1>4, FS_Subset
<1>7. Cardinality(A) \in Nat /\ Cardinality(B) \in Nat
  BY <1>4, FS_CardinalityType
<1>8. QED
  BY <1>5, <1>6, <1>7

LEMMA DealtApart ==
  ASSUME NEW S, NEW column \in Seq(S), NEW i \in DOMAIN column, NEW j \in DOMAIN column, i # j,
         ~Asks(column[i]), ~Asks(column[j])
  PROVE  Dealt(column, i) # Dealt(column, j)
<1> DEFINE T == {k \in DOMAIN column : ~Asks(column[k])}
<1>1. i \in T /\ j \in T /\ T \in SUBSET (1 .. Len(column)) /\ Len(column) \in Nat
  BY LenProperties
<1>2. \A m \in T : Dealt(column, m) = Cardinality({k \in T : k <= m})
  <2>1. ASSUME NEW m \in T PROVE {k \in 1 .. m : ~Asks(column[k])} = {k \in T : k <= m}
    <3>1. m \in 1 .. Len(column) /\ DOMAIN column = 1 .. Len(column) /\ Len(column) \in Nat
      BY <1>1, LenProperties
    <3>2. \A k : k \in 1 .. m <=> k \in DOMAIN column /\ k <= m
      BY <3>1
    <3>3. QED
      BY Zenon, <3>2
  <2>2. QED
    BY <2>1 DEF Dealt
<1> HIDE DEF T
<1>3. ASSUME NEW k \in T, NEW m \in T, k < m
      PROVE  Cardinality({l \in T : l <= k}) # Cardinality({l \in T : l <= m})
  <2> DEFINE A == {l \in T : l <= k}
             B == {l \in T : l <= m}
  <2>1. k \in Nat /\ m \in Nat /\ A \in SUBSET (1 .. k) /\ B \in SUBSET (1 .. m) /\ A \subseteq B /\ m \in B
    BY <1>1, <1>3
  <2> HIDE DEF A, B
  <2>2. Cardinality(A) # Cardinality(B)
    BY <1>3, <2>1, CountsApart
  <2>3. QED
    BY <2>2 DEF A, B
<1>4. QED
  <2>1. i \in T /\ j \in T /\ (i < j \/ j < i)
    BY <1>1
  <2>2. QED
    BY <1>2, <1>3, <2>1

(* A cell gets the key it asks for, or one of the pool that no cell asks for   *)
(* and that is the next when it is dealt, or none.                             *)
FromPool(column, pool, i, n) ==
  LET free == {m \in DOMAIN pool : \A j \in DOMAIN column : column[j].hotkey # pool[m]}
  IN  /\ n \in free /\ AssignHotkeys(column, pool)[i] = pool[n]
      /\ Cardinality({m \in free : m <= n}) = Dealt(column, i)

LEMMA KeyGot ==
  ASSUME NEW S, NEW column \in Seq(S), NEW K, NEW pool \in Seq(K), NEW i \in DOMAIN column
  PROVE  \/ Asks(column[i]) /\ AssignHotkeys(column, pool)[i] = column[i].hotkey
         \/ ~Asks(column[i]) /\ AssignHotkeys(column, pool)[i] = ""
         \/ ~Asks(column[i]) /\ \E n \in DOMAIN pool : FromPool(column, pool, i, n)
<1> DEFINE free == {n \in DOMAIN pool : \A j \in DOMAIN column : column[j].hotkey # pool[n]}
           next == Nth(free, Dealt(column, i))
           key == AssignHotkeys(column, pool)[i]
<1>1. key = IF Asks(column[i]) THEN column[i].hotkey
            ELSE IF next = {} THEN "" ELSE pool[CHOOSE n \in next : TRUE]
  BY DEF AssignHotkeys
<1>2. ASSUME ~Asks(column[i]), next # {}
      PROVE  \E n \in DOMAIN pool : FromPool(column, pool, i, n)
  <2> DEFINE n == CHOOSE n \in next : TRUE
  <2>1. n \in next /\ key = pool[n]
    BY <1>1, <1>2
  <2> HIDE DEF n
  <2>2. n \in free /\ Cardinality({m \in free : m <= n}) = Dealt(column, i)
    BY <2>1 DEF Nth
  <2>3. FromPool(column, pool, i, n) /\ n \in DOMAIN pool
    BY <2>1, <2>2 DEF FromPool
  <2>4. QED
    BY <2>3
<1>3. QED
  BY <1>1, <1>2

LEMMA KeysApart ==
  ASSUME NEW S, NEW column \in Seq(S), NEW K, NEW pool \in Seq(K), IsInjective(pool),
         NEW i \in DOMAIN column, NEW j \in DOMAIN column, i # j,
         AssignHotkeys(column, pool)[i] # "",
         AssignHotkeys(column, pool)[i] = AssignHotkeys(column, pool)[j]
  PROVE  Asks(column[i]) /\ column[i].hotkey = column[j].hotkey
<1> DEFINE Ident(k) == AssignHotkeys(column, pool)[k]
           Pooled(k) == ~Asks(column[k]) /\ \E n \in DOMAIN pool : FromPool(column, pool, k, n)
           Asked(k) == Asks(column[k]) /\ Ident(k) = column[k].hotkey
<1>1. \A k \in DOMAIN column : Asked(k) \/ Pooled(k) \/ Ident(k) = ""
  BY KeyGot
<1>2. ASSUME NEW k \in DOMAIN column, NEW l \in DOMAIN column, Asked(k), Pooled(l), Ident(k) = Ident(l) PROVE FALSE
  BY <1>2 DEF FromPool
<1>3. ASSUME Pooled(i), Pooled(j) PROVE FALSE
  <2>1. PICK n \in DOMAIN pool : FromPool(column, pool, i, n)
    BY <1>3
  <2>2. PICK o \in DOMAIN pool : FromPool(column, pool, j, o)
    BY <1>3
  <2>3. pool[n] = pool[o]
    BY <2>1, <2>2 DEF FromPool
  <2>4. n = o
    BY Zenon, <2>3 DEF IsInjective
  <2>5. Dealt(column, i) = Dealt(column, j)
    BY Zenon, <2>1, <2>2, <2>4 DEF FromPool
  <2>6. QED
    BY <1>3, <2>5, DealtApart
<1>4. QED
  <2>1. Ident(i) # "" /\ Ident(i) = Ident(j)
    OBVIOUS
  <2> HIDE DEF Pooled
  <2>2. Asked(i) /\ Asked(j)
    BY <1>1, <1>2, <1>3, <2>1
  <2>3. QED
    BY <2>1, <2>2

(* The keys of a grid stand where its cells do.                                *)
LEMMA HotkeyAt ==
  ASSUME NEW columns
  PROVE  /\ Sites(HotkeysIn(columns)) = Sites(columns)
         /\ \A a \in Sites(columns) : CellAt(HotkeysIn(columns), a) = CellAt(columns, a).hotkey
<1>1. DOMAIN HotkeysIn(columns) = DOMAIN columns
  BY Zenon DEF HotkeysIn
<1>2. ASSUME NEW c \in DOMAIN columns
      PROVE  HotkeysIn(columns)[c] = [i \in DOMAIN columns[c] |-> columns[c][i].hotkey]
  BY Zenon, <1>2 DEF HotkeysIn
<1>3. ASSUME NEW c \in DOMAIN columns PROVE DOMAIN HotkeysIn(columns)[c] = DOMAIN columns[c]
  BY <1>2
<1>4. \A c \in DOMAIN columns : {c} \X DOMAIN HotkeysIn(columns)[c] = {c} \X DOMAIN columns[c]
  BY <1>3
<1>5. Sites(HotkeysIn(columns)) = Sites(columns)
  BY <1>1, <1>4 DEF Sites
<1>6. ASSUME NEW a \in Sites(columns) PROVE CellAt(HotkeysIn(columns), a) = CellAt(columns, a).hotkey
  <2>1. PICK c \in DOMAIN columns : a \in {c} \X DOMAIN columns[c]
    BY DEF Sites
  <2>2. a[1] = c /\ a[2] \in DOMAIN columns[c]
    BY <2>1
  <2>3. HotkeysIn(columns)[c] = [i \in DOMAIN columns[c] |-> columns[c][i].hotkey]
    BY <1>2
  <2>4. HotkeysIn(columns)[c][a[2]] = columns[c][a[2]].hotkey
    BY Zenon, <2>2, <2>3
  <2>5. QED
    BY Zenon, <2>2, <2>4 DEF CellAt
<1>7. QED
  BY <1>5, <1>6

(* The pools: no key twice, none of another column's.                          *)
LEMMA PoolsGood ==
  ASSUME NEW n \in Nat, NEW c \in 1 .. n
  PROVE  /\ HotkeyPoolForColumn(c, n) \in Seq(Range(HotkeyPoolForColumn(c, n)) \ {""})
         /\ IsInjective(HotkeyPoolForColumn(c, n))
         /\ \A d \in 1 .. n : d # c => Range(HotkeyPoolForColumn(c, n)) \cap Range(HotkeyPoolForColumn(d, n)) = {}
<1>1. IsInjective(<<>>) /\ Range(<<>>) = {} /\ <<>> \in Seq(Range(<<>>) \ {""})
  BY DEF IsInjective, Range
<1>2. ASSUME NEW d \in 1 .. n
      PROVE  \/ d = 1 /\ HotkeyPoolForColumn(d, n) = LeftPool
             \/ d # 1 /\ d = n /\ HotkeyPoolForColumn(d, n) = RightPool
             \/ HotkeyPoolForColumn(d, n) = <<>>
  BY DEF HotkeyPoolForColumn
<1>3. /\ HotkeyPoolForColumn(c, n) \in Seq(Range(HotkeyPoolForColumn(c, n)) \ {""})
      /\ IsInjective(HotkeyPoolForColumn(c, n))
  <2> DEFINE Good(p) == p \in Seq(Range(p) \ {""}) /\ IsInjective(p)
  <2>1. Good(LeftPool) /\ Good(RightPool) /\ Good(<<>>)
    BY Zenon, <1>1, GridAssumption
  <2> HIDE DEF Good
  <2>2. HotkeyPoolForColumn(c, n) = LeftPool \/ HotkeyPoolForColumn(c, n) = RightPool
        \/ HotkeyPoolForColumn(c, n) = <<>>
    BY <1>2
  <2>3. Good(HotkeyPoolForColumn(c, n))
    BY <2>1, <2>2
  <2>4. QED
    BY Zenon, <2>3 DEF Good
<1>4. ASSUME NEW d \in 1 .. n, d # c
      PROVE  Range(HotkeyPoolForColumn(c, n)) \cap Range(HotkeyPoolForColumn(d, n)) = {}
  <2>1. \/ HotkeyPoolForColumn(c, n) = <<>> \/ HotkeyPoolForColumn(d, n) = <<>>
        \/ HotkeyPoolForColumn(c, n) = LeftPool /\ HotkeyPoolForColumn(d, n) = RightPool
        \/ HotkeyPoolForColumn(c, n) = RightPool /\ HotkeyPoolForColumn(d, n) = LeftPool
    BY <1>2, <1>4
  <2> DEFINE p == HotkeyPoolForColumn(c, n)
             q == HotkeyPoolForColumn(d, n)
  <2> HIDE DEF p, q
  <2>2. p = <<>> \/ q = <<>> \/ (p = LeftPool /\ q = RightPool) \/ (p = RightPool /\ q = LeftPool)
    BY <2>1 DEF p, q
  <2>3. Range(LeftPool) \cap Range(RightPool) = {} /\ Range(RightPool) \cap Range(LeftPool) = {}
    BY Zenon, GridAssumption
  <2>4. CASE p = <<>> \/ q = <<>>
    <3>1. Range(p) = {} \/ Range(q) = {}
      BY Zenon, <1>1, <2>4
    <3>2. QED
      BY Zenon, <3>1 DEF p, q
  <2>5. CASE (p = LeftPool /\ q = RightPool) \/ (p = RightPool /\ q = LeftPool)
    BY Zenon, <2>3, <2>5 DEF p, q
  <2>6. QED
    BY <2>2, <2>4, <2>5
<1>5. QED
  BY <1>3, <1>4

(* The second half of GridSound: keys that differ where they are asked for and *)
(* keep out of the other columns' pools are dealt without a clash.             *)
LEMMA KeysAlwaysDealt ==
  ASSUME NEW columns \in Seq(Seq(Cells)) PROVE DealtOut(columns)
<1> DEFINE N == Len(columns)
           Pool(c) == HotkeyPoolForColumn(c, N)
           Ident(a) == AssignHotkeys(columns[a[1]], Pool(a[1]))[a[2]]
           Asked(a) == CellAt(columns, a).hotkey
<1>1. /\ \A a \in Sites(columns) : /\ a = <<a[1], a[2]>> /\ a[1] \in 1 .. N /\ a[2] \in DOMAIN columns[a[1]]
                                   /\ columns[a[1]] \in Seq(Cells)
      /\ DOMAIN columns = 1 .. N /\ N \in Nat
  BY SiteOf
<1>2. Sites(KeysOf(columns)) = Sites(columns) /\ \A a \in Sites(columns) : CellAt(KeysOf(columns), a) = Ident(a)
  <2>1. \A c \in DOMAIN columns : DOMAIN KeysOf(columns)[c] = DOMAIN columns[c]
    BY DEF KeysOf, AssignHotkeys
  <2>2. DOMAIN KeysOf(columns) = DOMAIN columns
    BY DEF KeysOf
  <2>3. Sites(KeysOf(columns)) = Sites(columns)
    BY <2>1, <2>2 DEF Sites
  <2>4. \A a \in Sites(columns) : CellAt(KeysOf(columns), a) = Ident(a)
    BY <1>1 DEF CellAt, KeysOf
  <2>5. QED
    BY <2>3, <2>4
<1>3. Sites(HotkeysIn(columns)) = Sites(columns)
      /\ \A a \in Sites(columns) : CellAt(HotkeysIn(columns), a) = Asked(a)
  BY HotkeyAt
<1> DEFINE Foreign(c) == UNION {Range(Pool(d)) : d \in DOMAIN columns \ {c}}
<1>4. \A a \in Sites(columns) : Ident(a) # "" =>
        \/ Asks(CellAt(columns, a)) /\ Ident(a) = Asked(a)
        \/ ~Asks(CellAt(columns, a)) /\ Ident(a) \in Range(Pool(a[1]))
  <2>1. ASSUME NEW a \in Sites(columns), Ident(a) # ""
        PROVE  \/ Asks(CellAt(columns, a)) /\ Ident(a) = Asked(a)
               \/ ~Asks(CellAt(columns, a)) /\ Ident(a) \in Range(Pool(a[1]))
    <3> DEFINE column == columns[a[1]]
               pool == Pool(a[1])
    <3>1. column \in Seq(Cells) /\ a[2] \in DOMAIN column /\ CellAt(columns, a) = column[a[2]]
      BY <1>1, <2>1 DEF CellAt
    <3>2. pool \in Seq(Range(pool) \ {""})
      BY <1>1, <2>1, PoolsGood
    <3> HIDE DEF column, pool
    <3>3. \/ Asks(column[a[2]]) /\ AssignHotkeys(column, pool)[a[2]] = column[a[2]].hotkey
          \/ ~Asks(column[a[2]]) /\ AssignHotkeys(column, pool)[a[2]] = ""
          \/ ~Asks(column[a[2]]) /\ \E n \in DOMAIN pool : FromPool(column, pool, a[2], n)
      BY <3>1, <3>2, KeyGot
    <3>4. Ident(a) = AssignHotkeys(column, pool)[a[2]]
      BY DEF column, pool
    <3>5. ASSUME NEW n \in DOMAIN pool, FromPool(column, pool, a[2], n) PROVE Ident(a) \in Range(Pool(a[1]))
      BY <3>4, <3>5 DEF FromPool, Range, pool
    <3>6. QED
      BY <2>1, <3>1, <3>3, <3>4, <3>5
  <2>2. QED
    BY <2>1
<1>5. ASSUME ~KeyTwice(HotkeysIn(columns)),
             \A a \in Sites(columns) : Asked(a) \notin Foreign(a[1]),
             NEW a \in Sites(columns), NEW b \in Sites(columns), a # b, Ident(a) # "", Ident(a) = Ident(b)
      PROVE  FALSE
  <2> HIDE DEF Pool, Ident
  <2>1. \A e, f \in Sites(columns) : e # f /\ Asked(e) # "" => Asked(e) # Asked(f)
    BY <1>3, <1>5 DEF KeyTwice
  <2>2. CASE a[1] = b[1]
    <3> DEFINE column == columns[a[1]]
               pool == Pool(a[1])
    <3>1. column \in Seq(Cells) /\ a[2] \in DOMAIN column /\ b[2] \in DOMAIN column /\ a[2] # b[2]
      <4>1. a = <<a[1], a[2]>> /\ b = <<a[1], b[2]>>
        BY <1>1, <2>2
      <4>2. QED
        BY <1>1, <1>5, <2>2, <4>1
    <3>2. pool \in Seq(Range(pool) \ {""}) /\ IsInjective(pool)
      BY <1>1, PoolsGood DEF Pool
    <3>3. Ident(a) = AssignHotkeys(column, pool)[a[2]] /\ Ident(b) = AssignHotkeys(column, pool)[b[2]]
      BY <2>2 DEF Ident
    <3>4. Asked(a) = column[a[2]].hotkey /\ Asked(b) = column[b[2]].hotkey
      BY <2>2 DEF CellAt
    <3> HIDE DEF column, pool
    <3>5. AssignHotkeys(column, pool)[a[2]] # "" /\ AssignHotkeys(column, pool)[a[2]] = AssignHotkeys(column, pool)[b[2]]
      BY <1>5, <3>3
    <3>6. Asks(column[a[2]]) /\ column[a[2]].hotkey = column[b[2]].hotkey
      BY <3>1, <3>2, <3>5, KeysApart
    <3>7. QED
      BY <1>5, <2>1, <3>4, <3>6 DEF Asks
  <2>3. CASE a[1] # b[1]
    <3>1. /\ a[1] \in DOMAIN columns /\ b[1] \in DOMAIN columns
          /\ Range(Pool(a[1])) \cap Range(Pool(b[1])) = {}
      BY <1>1, <2>3, PoolsGood DEF Pool
    <3>2. Range(Pool(b[1])) \subseteq Foreign(a[1]) /\ Range(Pool(a[1])) \subseteq Foreign(b[1])
      BY <2>3, <3>1
    <3>3. \A e \in {a, b} : Asks(CellAt(columns, e)) => Asked(e) # ""
      BY DEF Asks
    <3>4. /\ (Asks(CellAt(columns, a)) /\ Ident(a) = Asked(a)) \/ Ident(a) \in Range(Pool(a[1]))
          /\ (Asks(CellAt(columns, b)) /\ Ident(b) = Asked(b)) \/ Ident(b) \in Range(Pool(b[1]))
      <4> HIDE DEF Asked
      <4>1. Ident(a) # "" /\ Ident(b) # ""
        BY <1>5
      <4>2. QED
        BY <1>4, <4>1
    <3> HIDE DEF Asked, Foreign
    <3>5. Asked(a) \notin Range(Pool(b[1])) /\ Asked(b) \notin Range(Pool(a[1]))
      BY <1>5, <3>2
    <3>6. QED
      BY <1>5, <2>1, <3>1, <3>3, <3>4, <3>5
  <2>4. QED
    BY <2>2, <2>3
<1>6. KeysClash(columns) =>
        \E a, b \in Sites(columns) : a # b /\ Ident(a) # "" /\ Ident(a) = Ident(b)
  <2> HIDE DEF Ident
  <2>1. QED
    BY <1>2 DEF KeysClash, KeyTwice
<1>7. (\A a \in Sites(HotkeysIn(columns)) : CellAt(HotkeysIn(columns), a) \notin Foreign(a[1]))
        => \A a \in Sites(columns) : Asked(a) \notin Foreign(a[1])
  <2> HIDE DEF Foreign
  <2>1. QED
    BY <1>3
<1>8. QED
  <2> HIDE DEF Ident, Asked
  <2>1. QED
    BY <1>5, <1>6, <1>7 DEF DealtOut

-----------------------------------------------------------------------------
(* A file that is not refused.                                                 *)
UsableGrid(panes, pool) ==
  /\ ~TabTwice(panes) /\ ~KeyTwice(HotkeysIn(panes))
  /\ \A a, b \in Sites(panes) : CellAt(panes, a).pane = CellAt(panes, b).pane => a = b
  /\ \E a \in Sites(panes) : CellAt(panes, a).content
  /\ \A a \in Sites(panes) :
       LET p == CellAt(panes, a)
       IN  /\ p.active \in Range(p.tabs) /\ Range(p.tabs) \subseteq DOMAIN pool
           /\ p.content <=> pool[p.active] = "detail"
           /\ p.content => ~p.collapsed /\ Len(p.tabs) = 1
           /\ (\E t \in Range(p.tabs) : pool[t] = "actions") => a[1] = Len(panes)

LEMMA UsableIs == GridUsable <=> (grid.state = "placed" => UsableGrid(grid.panes, grid.pool))
BY DEF GridUsable, UsableGrid

LEMMA LoadedUsable ==
  ASSUME NEW columns \in Seq(Seq(Cells)), ~Refused(columns)
  PROVE  UsableGrid([c \in DOMAIN columns |->
                       [i \in DOMAIN columns[c] |-> PlacedPane(columns[c][i], KeysOf(columns)[c][i])]],
                    PoolKind)
<1> DEFINE panes == [c \in DOMAIN columns |->
                       [i \in DOMAIN columns[c] |-> PlacedPane(columns[c][i], KeysOf(columns)[c][i])]]
<1>1. /\ \A a \in Sites(columns) : /\ a = <<a[1], a[2]>> /\ a[1] \in 1 .. Len(columns)
                                   /\ a[2] \in DOMAIN columns[a[1]] /\ CellAt(columns, a) \in Cells
      /\ DOMAIN columns = 1 .. Len(columns) /\ Len(columns) \in Nat
  BY SiteOf
<1>2. /\ DOMAIN panes = DOMAIN columns /\ \A c \in DOMAIN columns : DOMAIN panes[c] = DOMAIN columns[c]
      /\ Len(panes) = Len(columns)
  BY <1>1
<1>3. Sites(panes) = Sites(columns)
  <2> HIDE DEF panes
  <2>1. QED
    BY <1>2 DEF Sites
<1>4. \A a \in Sites(columns) :
        CellAt(panes, a) = PlacedPane(CellAt(columns, a), CellAt(KeysOf(columns), a))
  BY <1>1 DEF CellAt
<1> HIDE DEF panes
<1>5. \A a \in Sites(columns) :
        /\ CellAt(panes, a).pane = CellAt(columns, a).active
        /\ CellAt(panes, a).active = CellAt(columns, a).active
        /\ CellAt(panes, a).tabs = CellAt(columns, a).tabs
        /\ CellAt(panes, a).hotkey = CellAt(KeysOf(columns), a)
        /\ CellAt(panes, a).collapsed = CellAt(columns, a).collapsed
        /\ CellAt(panes, a).content = (PoolKind[CellAt(columns, a).active] = "detail")
  BY <1>4 DEF PlacedPane
<1>6. \A a \in Sites(columns) :
        LET cell == CellAt(columns, a)
        IN  /\ Len(cell.tabs) \in Nat /\ DOMAIN cell.tabs = 1 .. Len(cell.tabs)
            /\ \E k \in DOMAIN cell.tabs : cell.tabs[k] = cell.active
  <2>1. ASSUME NEW a \in Sites(columns)
        PROVE  LET cell == CellAt(columns, a)
               IN  /\ Len(cell.tabs) \in Nat /\ DOMAIN cell.tabs = 1 .. Len(cell.tabs)
                   /\ \E k \in DOMAIN cell.tabs : cell.tabs[k] = cell.active
    <3> DEFINE cell == CellAt(columns, a)
    <3>1. cell \in Cells
      BY <1>1
    <3> HIDE DEF cell
    <3>2. cell.tabs \in Seq(Range(cell.tabs)) /\ cell.active \in Range(cell.tabs)
      BY Zenon, <3>1, GridAssumption
    <3>3. Len(cell.tabs) \in Nat /\ DOMAIN cell.tabs = 1 .. Len(cell.tabs)
      BY <3>2, LenProperties
    <3>4. \E k \in DOMAIN cell.tabs : cell.tabs[k] = cell.active
      BY Zenon, <3>2 DEF Range
    <3>5. QED
      BY <3>3, <3>4 DEF cell
  <2>2. QED
    BY <2>1
<1>7. TabSites(panes) = TabSites(columns)
  BY <1>3, <1>5 DEF TabSites
<1>8. \A e \in TabSites(columns) :
        /\ e = <<e[1], e[2]>> /\ e[1] \in Sites(columns) /\ e[2] \in DOMAIN CellAt(columns, e[1]).tabs
        /\ TabAt(panes, e) = TabAt(columns, e)
  BY <1>5 DEF TabSites, TabAt
<1>9. \A a \in Sites(columns) : \A k \in DOMAIN CellAt(columns, a).tabs :
        <<a, k>> \in TabSites(columns) /\ TabAt(columns, <<a, k>>) = CellAt(columns, a).tabs[k]
  BY DEF TabSites, TabAt
<1>10. ~TabTwice(columns) /\ ~KeysClash(columns)
  BY Zenon DEF Refused
<1>11. ~TabTwice(panes)
  BY <1>7, <1>8, <1>10 DEF TabTwice
<1>12. ~KeyTwice(HotkeysIn(panes))
  <2>1. /\ DOMAIN KeysOf(columns) = DOMAIN columns
        /\ \A c \in DOMAIN columns : DOMAIN KeysOf(columns)[c] = DOMAIN columns[c]
    BY DEF KeysOf, AssignHotkeys
  <2>2. Sites(KeysOf(columns)) = Sites(columns)
    BY <2>1 DEF Sites
  <2>3. \A a \in Sites(columns) : CellAt(HotkeysIn(panes), a) = CellAt(KeysOf(columns), a)
    BY <1>3, <1>5, HotkeyAt
  <2>4. QED
    BY <1>3, <1>10, <2>2, <2>3, HotkeyAt DEF KeysClash, KeyTwice
<1>13. ASSUME NEW a \in Sites(panes), NEW b \in Sites(panes), CellAt(panes, a).pane = CellAt(panes, b).pane
       PROVE  a = b
  <2>1. a \in Sites(columns) /\ b \in Sites(columns) /\ CellAt(columns, a).active = CellAt(columns, b).active
    BY <1>3, <1>5, <1>13
  <2>2. PICK k \in DOMAIN CellAt(columns, a).tabs : CellAt(columns, a).tabs[k] = CellAt(columns, a).active
    BY <1>6, <2>1
  <2>3. PICK l \in DOMAIN CellAt(columns, b).tabs : CellAt(columns, b).tabs[l] = CellAt(columns, b).active
    BY <1>6, <2>1
  <2>4. /\ <<a, k>> \in TabSites(columns) /\ <<b, l>> \in TabSites(columns)
        /\ TabAt(columns, <<a, k>>) = TabAt(columns, <<b, l>>)
    BY <1>9, <2>1, <2>2, <2>3
  <2>5. <<a, k>> = <<b, l>>
    BY <1>10, <2>4 DEF TabTwice
  <2>6. QED
    BY <2>5
<1>14. ASSUME NEW a \in Sites(columns)
       PROVE  LET cell == CellAt(columns, a)
              IN  /\ \A t \in Range(cell.tabs) :
                       /\ t \in DOMAIN PoolKind
                       /\ PoolKind[t] = "detail" => Len(cell.tabs) = 1 /\ cell.active = t
                       /\ PoolKind[t] = "actions" => a[1] = Len(columns)
                  /\ cell.active \in Range(cell.tabs)
                  /\ PoolKind[cell.active] = "detail" => ~cell.collapsed
  <2> DEFINE cell == CellAt(columns, a)
  <2>1. ASSUME NEW t \in Range(cell.tabs)
        PROVE  /\ t \in DOMAIN PoolKind
               /\ PoolKind[t] = "detail" => Len(cell.tabs) = 1 /\ cell.active = t
               /\ PoolKind[t] = "actions" => a[1] = Len(columns)
    <3>1. PICK k \in DOMAIN cell.tabs : cell.tabs[k] = t
      BY <2>1 DEF Range
    <3>2. <<a, k>> \in TabSites(columns) /\ TabAt(columns, <<a, k>>) = t
      BY <1>9, <3>1
    <3>3. t \in DOMAIN PoolKind
      BY <3>2 DEF Refused
    <3>4. ASSUME PoolKind[t] = "detail" PROVE Len(cell.tabs) = 1 /\ cell.active = t
      <4>0. ~(Len(cell.tabs) > 1 /\ \E u \in Range(cell.tabs) : PoolKind[u] = "detail")
        BY DEF Refused
      <4>1. ~(Len(cell.tabs) > 1)
        BY Zenon, <2>1, <3>4, <4>0
      <4>2. PICK l \in DOMAIN cell.tabs : cell.tabs[l] = cell.active
        BY <1>6
      <4>3. Len(cell.tabs) \in Nat /\ DOMAIN cell.tabs = 1 .. Len(cell.tabs)
        BY <1>6
      <4> DEFINE n == Len(cell.tabs)
      <4>4. n = 1 /\ k = l
        <5>1. n \in Nat /\ k \in 1 .. n /\ l \in 1 .. n /\ ~(n > 1)
          BY Zenon, <4>1, <4>3
        <5> HIDE DEF n
        <5>2. QED
          BY <5>1
      <4>5. QED
        BY <3>1, <4>2, <4>4
    <3>5. ASSUME PoolKind[t] = "actions" PROVE a[1] = Len(columns)
      <4>1. <<a, k>> \in TabsOfKind(columns, "actions") /\ <<a, k>>[1] = a
        BY <3>2, <3>5 DEF TabsOfKind
      <4>2. ~(<<a, k>>[1][1] < Len(columns))
        BY <4>1 DEF Refused
      <4>3. a[1] \in 1 .. Len(columns) /\ Len(columns) \in Nat
        BY <1>1
      <4>4. QED
        BY <4>1, <4>2, <4>3
    <3>6. QED
      BY <3>3, <3>4, <3>5
  <2>2. cell.active \in Range(cell.tabs)
    BY <1>6 DEF Range
  <2>3. PoolKind[cell.active] = "detail" => ~cell.collapsed
    BY DEF Refused
  <2>4. QED
    BY <2>1, <2>2, <2>3
<1>15. \E a \in Sites(panes) : CellAt(panes, a).content
  <2>1. PICK e \in TabSites(columns) : PoolKind[TabAt(columns, e)] = "detail"
    BY DEF Refused, TabsOfKind
  <2>2. e[1] \in Sites(columns) /\ TabAt(columns, e) \in Range(CellAt(columns, e[1]).tabs)
    BY <1>8 DEF TabAt, Range
  <2>3. CellAt(columns, e[1]).active = TabAt(columns, e)
    BY <1>14, <2>1, <2>2
  <2>4. QED
    BY <1>3, <1>5, <2>1, <2>2, <2>3
<1>16. ASSUME NEW a \in Sites(panes)
       PROVE  LET p == CellAt(panes, a)
              IN  /\ p.active \in Range(p.tabs) /\ Range(p.tabs) \subseteq DOMAIN PoolKind
                  /\ p.content <=> PoolKind[p.active] = "detail"
                  /\ p.content => ~p.collapsed /\ Len(p.tabs) = 1
                  /\ (\E t \in Range(p.tabs) : PoolKind[t] = "actions") => a[1] = Len(panes)
  BY <1>2, <1>3, <1>5, <1>14
<1>17. QED
  BY <1>11, <1>12, <1>13, <1>15, <1>16 DEF UsableGrid, panes

(* Two lists without a repetition, joined.                                     *)
LEMMA Joined ==
  ASSUME NEW S, NEW s \in Seq(S), NEW t \in Seq(S), IsInjective(s), IsInjective(t),
         \A i \in DOMAIN s, j \in DOMAIN t : s[i] # t[j]
  PROVE  /\ s \o t \in Seq(S) /\ Len(s \o t) = Len(s) + Len(t) /\ IsInjective(s \o t)
         /\ \A k \in DOMAIN (s \o t) : \/ \E i \in DOMAIN s : (s \o t)[k] = s[i]
                                      \/ \E j \in DOMAIN t : (s \o t)[k] = t[j]
<1> DEFINE st == s \o t
<1>1. /\ st \in Seq(S) /\ Len(st) = Len(s) + Len(t)
      /\ \A i \in 1 .. Len(s) + Len(t) : st[i] = IF i <= Len(s) THEN s[i] ELSE t[i - Len(s)]
  BY ConcatProperties
<1>2. /\ Len(s) \in Nat /\ DOMAIN s = 1 .. Len(s) /\ Len(t) \in Nat /\ DOMAIN t = 1 .. Len(t)
  BY LenProperties
<1> HIDE DEF st
<1>3. DOMAIN st = 1 .. Len(s) + Len(t)
  BY <1>1
<1>4. ASSUME NEW k \in DOMAIN st
      PROVE  \/ k <= Len(s) /\ k \in DOMAIN s /\ st[k] = s[k]
             \/ ~(k <= Len(s)) /\ k - Len(s) \in DOMAIN t /\ st[k] = t[k - Len(s)]
  BY <1>1, <1>2, <1>3
<1>5. ASSUME NEW k \in DOMAIN st, NEW l \in DOMAIN st, st[k] = st[l] PROVE k = l
  <2>1. k \in Int /\ l \in Int /\ Len(s) \in Int
    BY <1>2, <1>3
  <2>2. \A i, j \in DOMAIN s : s[i] = s[j] => i = j
    BY Zenon DEF IsInjective
  <2>3. \A i, j \in DOMAIN t : t[i] = t[j] => i = j
    BY Zenon DEF IsInjective
  <2>4. QED
    BY <1>4, <1>5, <2>1, <2>2, <2>3
<1>6. IsInjective(st)
  BY Zenon, <1>5 DEF IsInjective
<1>7. QED
  BY <1>1, <1>4, <1>6 DEF st

(* The default layout.                                                         *)
LEMMA DefaultUsable ==
  ASSUME NEW ids \in Seq({"containers", "groups", "files"}), IsInjective(ids), NEW key \in Seq({"1", "2", "3"}),
         IsInjective(key), Len(ids) <= Len(key)
  PROVE  LET own == Range(ids) \cup {"actions", "detail"}
         IN  UsableGrid(<< [i \in DOMAIN ids |-> DefaultPane(ids[i], key[i])],
                           << DefaultPane("actions", "7"), DefaultPane("detail", "8") >> >>,
                        [id \in own \cup DOMAIN PoolKind |-> IF id \in own THEN id ELSE PoolKind[id]])
<1> DEFINE own == Range(ids) \cup {"actions", "detail"}
           pool == [id \in own \cup DOMAIN PoolKind |-> IF id \in own THEN id ELSE PoolKind[id]]
           left == [i \in DOMAIN ids |-> DefaultPane(ids[i], key[i])]
           right == << DefaultPane("actions", "7"), DefaultPane("detail", "8") >>
           panes == << left, right >>
           Id(a) == IF a[1] = 1 THEN ids[a[2]] ELSE IF a[2] = 1 THEN "actions" ELSE "detail"
           Ident(a) == IF a[1] = 1 THEN key[a[2]] ELSE IF a[2] = 1 THEN "7" ELSE "8"
<1>1. /\ Len(ids) \in Nat /\ DOMAIN ids = 1 .. Len(ids) /\ Len(key) \in Nat /\ DOMAIN key = 1 .. Len(key)
      /\ \A i \in 1 .. Len(ids) : ids[i] \in {"containers", "groups", "files"} /\ i \in 1 .. Len(key)
      /\ \A i \in 1 .. Len(key) : key[i] \in {"1", "2", "3"}
      /\ \A i, j \in 1 .. Len(ids) : i # j => ids[i] # ids[j] /\ key[i] # key[j]
  BY DEF IsInjective
<1>2. /\ DOMAIN panes = {1, 2} /\ Len(panes) = 2 /\ panes[1] = left /\ panes[2] = right
      /\ DOMAIN left = 1 .. Len(ids) /\ DOMAIN right = {1, 2}
      /\ \A i \in 1 .. Len(ids) : left[i] = DefaultPane(ids[i], key[i])
      /\ right[1] = DefaultPane("actions", "7") /\ right[2] = DefaultPane("detail", "8")
  BY <1>1
<1> HIDE DEF left, right
<1>3. /\ \A a \in Sites(panes) : /\ a = <<a[1], a[2]>> /\ a[1] \in {1, 2}
                                /\ a[2] \in (IF a[1] = 1 THEN 1 .. Len(ids) ELSE {1, 2})
                                /\ CellAt(panes, a) = DefaultPane(Id(a), Ident(a))
      /\ <<2, 2>> \in Sites(panes) /\ CellAt(panes, <<2, 2>>) = DefaultPane("detail", "8")
  BY <1>2 DEF Sites, CellAt
<1> HIDE DEF panes
<1>4. \A a \in Sites(panes) :
        /\ CellAt(panes, a).pane = Id(a) /\ CellAt(panes, a).tabs = <<Id(a)>> /\ CellAt(panes, a).active = Id(a)
        /\ CellAt(panes, a).hotkey = Ident(a) /\ ~CellAt(panes, a).collapsed
        /\ CellAt(panes, a).content = (Id(a) = "detail")
  BY <1>3 DEF DefaultPane
<1>5. \A a \in Sites(panes) : /\ Id(a) \in own /\ pool[Id(a)] = Id(a) /\ Id(a) \in DOMAIN pool
                              /\ Id(a) = "actions" => a[1] = 2
  BY <1>1, <1>3 DEF Range
<1>6. ASSUME NEW a \in Sites(panes), NEW b \in Sites(panes), Id(a) = Id(b) \/ Ident(a) = Ident(b) PROVE a = b
  <2>1. a[1] = b[1] /\ a[2] = b[2]
    BY <1>1, <1>3, <1>6
  <2>2. QED
    BY <1>3, <2>1
<1> HIDE DEF Id, Ident
<1>7. ~TabTwice(panes)
  <2>1. \A e \in TabSites(panes) : e = <<e[1], 1>> /\ e[1] \in Sites(panes) /\ TabAt(panes, e) = Id(e[1])
    BY <1>4 DEF TabSites, TabAt
  <2>2. QED
    BY <1>6, <2>1 DEF TabTwice
<1>8. ~KeyTwice(HotkeysIn(panes))
  <2>1. /\ Sites(HotkeysIn(panes)) = Sites(panes)
        /\ \A a \in Sites(panes) : CellAt(HotkeysIn(panes), a) = CellAt(panes, a).hotkey
    BY Zenon, HotkeyAt
  <2>2. \A a \in Sites(panes) : CellAt(HotkeysIn(panes), a) = Ident(a)
    BY <1>4, <2>1
  <2>3. QED
    BY Zenon, <1>6, <2>1, <2>2 DEF KeyTwice
<1>9. \A a, b \in Sites(panes) : CellAt(panes, a).pane = CellAt(panes, b).pane => a = b
  BY <1>4, <1>6
<1>10. \E a \in Sites(panes) : CellAt(panes, a).content
  <2>1. CellAt(panes, <<2, 2>>).content = ("detail" = "detail")
    BY <1>3 DEF DefaultPane
  <2>2. QED
    BY <1>3, <2>1
<1>11. \A a \in Sites(panes) : Range(CellAt(panes, a).tabs) = {Id(a)} /\ Len(CellAt(panes, a).tabs) = 1
  <2>1. \A id : Range(<<id>>) = {id} /\ Len(<<id>>) = 1
    BY DEF Range
  <2>2. QED
    BY <1>4, <2>1
<1>12. Len(panes) = 2
  BY <1>2
<1> HIDE DEF pool
<1>13. UsableGrid(panes, pool)
  <2>1. ASSUME NEW a \in Sites(panes)
        PROVE  LET p == CellAt(panes, a)
               IN  /\ p.active \in Range(p.tabs) /\ Range(p.tabs) \subseteq DOMAIN pool
                   /\ p.content <=> pool[p.active] = "detail"
                   /\ p.content => ~p.collapsed /\ Len(p.tabs) = 1
                   /\ (\E t \in Range(p.tabs) : pool[t] = "actions") => a[1] = Len(panes)
    <3> DEFINE p == CellAt(panes, a)
               id == Id(a)
    <3>1. /\ p.active = id /\ ~p.collapsed /\ p.content = (id = "detail")
          /\ Range(p.tabs) = {id} /\ Len(p.tabs) = 1
      BY <1>4, <1>11
    <3>2. pool[id] = id /\ id \in DOMAIN pool /\ (id = "actions" => a[1] = Len(panes))
      BY <1>5, <1>12
    <3> HIDE DEF p, id
    <3>3. QED
      BY <3>1, <3>2 DEF p
  <2>2. QED
    BY Zenon, <1>7, <1>8, <1>9, <1>10, <2>1 DEF UsableGrid
<1>14. QED
  BY Zenon, <1>13 DEF panes, pool, left, right

(* The steps of a run.                                                         *)
LEMMA GridPlaced ==
  ASSUME NEW g, DOMAIN g = {"written", "state", "panes", "pool"}, NEW panes, NEW pool
  PROVE  [g EXCEPT !.state = "placed", !.pool = pool, !.panes = panes]
           = [written |-> g.written, state |-> "placed", panes |-> panes, pool |-> pool]
<1> DEFINE h == [g EXCEPT !.state = "placed", !.pool = pool, !.panes = panes]
           r == [written |-> g.written, state |-> "placed", panes |-> panes, pool |-> pool]
           new == [f \in DOMAIN g |-> IF f = "panes" THEN panes ELSE IF f = "pool" THEN pool
                                      ELSE IF f = "state" THEN "placed" ELSE g[f]]
<1>1. h = new
  OBVIOUS
<1>2. r = new
  OBVIOUS
<1>3. QED
  BY <1>1, <1>2

LEMMA GridInvInit == GridInit => GridInv
BY DEF GridInit, GridInv, GridUsable

LEMMA GridInvStep == GridInv /\ [GridNext]_grid => GridInv'
<1> SUFFICES ASSUME GridInv, [GridNext]_grid PROVE GridInv'
  OBVIOUS
<1> DEFINE layout == grid.written
<1>1. /\ layout \in Seq(Seq(Cells)) /\ grid.state \in {"writing", "refused", "placed"}
      /\ grid = [written |-> layout, state |-> grid.state, panes |-> grid.panes, pool |-> grid.pool]
  BY DEF GridInv
<1>1a. DOMAIN grid = {"written", "state", "panes", "pool"}
  BY <1>1
<1> HIDE DEF layout
<1>2. ASSUME NEW written \in Seq(Seq(Cells)), NEW state \in {"writing", "refused", "placed"}, NEW panes, NEW pool,
             grid' = [written |-> written, state |-> state, panes |-> panes, pool |-> pool],
             state = "placed" => UsableGrid(panes, pool)
      PROVE  GridInv'
  <2>1. grid'.state = "placed" => UsableGrid(grid'.panes, grid'.pool)
    BY <1>2
  <2>2. GridUsable'
    BY <2>1 DEF GridUsable, UsableGrid
  <2>3. QED
    BY <1>2, <2>2 DEF GridInv
<1>3. CASE WriteColumn
  <2>1. /\ grid.state = "writing"
        /\ grid' = [written |-> Append(layout, <<>>), state |-> "writing", panes |-> grid.panes, pool |-> grid.pool]
    BY <1>1, <1>3 DEF WriteColumn, layout
  <2>2. Append(layout, <<>>) \in Seq(Seq(Cells))
    BY <1>1
  <2>3. QED
    BY <1>2, <2>1, <2>2
<1>4. ASSUME NEW cell \in Cells, WriteCell(cell) PROVE GridInv'
  <2> DEFINE more == [layout EXCEPT ![Len(layout)] = Append(@, cell)]
  <2>1. /\ grid.state = "writing" /\ layout # <<>>
        /\ grid' = [written |-> more, state |-> "writing", panes |-> grid.panes, pool |-> grid.pool]
    BY <1>1, <1>4 DEF WriteCell, layout
  <2>2. Len(layout) \in 1 .. Len(layout) /\ layout[Len(layout)] \in Seq(Cells)
    BY <1>1, <2>1, SiteOf, EmptySeq
  <2>3. Append(layout[Len(layout)], cell) \in Seq(Cells)
    BY <1>4, <2>2
  <2>4. more \in Seq(Seq(Cells))
    BY <1>1, <2>2, <2>3, ExceptSeq
  <2> HIDE DEF more
  <2>5. QED
    BY <1>2, <2>1, <2>4
<1>5. CASE LoadLayout
  <2> DEFINE placed == [c \in DOMAIN layout |->
                          [i \in DOMAIN layout[c] |-> PlacedPane(layout[c][i], KeysOf(layout)[c][i])]]
  <2>1. CASE Refused(layout)
    <3>1. grid' = [written |-> layout, state |-> "refused", panes |-> grid.panes, pool |-> grid.pool]
      BY <1>1, <1>5, <2>1 DEF LoadLayout, layout
    <3>2. QED
      BY <1>1, <1>2, <3>1
  <2>2. CASE ~Refused(layout)
    <3>1. grid' = [written |-> layout, state |-> "placed", panes |-> placed, pool |-> PoolKind]
      <4>1. grid' = [grid EXCEPT !.state = "placed", !.pool = PoolKind, !.panes = placed]
        BY Zenon, <1>5, <2>2 DEF LoadLayout, layout
      <4> HIDE DEF placed
      <4>2. [grid EXCEPT !.state = "placed", !.pool = PoolKind, !.panes = placed]
              = [written |-> grid.written, state |-> "placed", panes |-> placed, pool |-> PoolKind]
        BY Zenon, <1>1a, GridPlaced
      <4>3. QED
        BY Zenon, <4>1, <4>2 DEF layout
    <3>2. UsableGrid(placed, PoolKind)
      BY <1>1, <2>2, LoadedUsable
    <3> HIDE DEF placed
    <3>3. QED
      BY <1>1, <1>2, <3>1, <3>2
  <2>3. QED
    BY <2>1, <2>2
<1>6. ASSUME NEW hasContainers \in BOOLEAN, NEW hasFiles \in BOOLEAN, LoadDefault(hasContainers, hasFiles)
      PROVE  GridInv'
  <2> DEFINE ids == (IF hasContainers THEN <<"containers">> ELSE <<>>) \o <<"groups">>
                    \o (IF hasFiles THEN <<"files">> ELSE <<>>)
             key == <<"1", "2", "3">>
             own == Range(ids) \cup {"actions", "detail"}
             pool == [id \in own \cup DOMAIN PoolKind |-> IF id \in own THEN id ELSE PoolKind[id]]
             panes == << [i \in DOMAIN ids |-> DefaultPane(ids[i], key[i])],
                         << DefaultPane("actions", "7"), DefaultPane("detail", "8") >> >>
  <2>1. key \in Seq({"1", "2", "3"}) /\ IsInjective(key) /\ Len(key) = 3
    <3>1. DOMAIN key = {1, 2, 3} /\ key[1] = "1" /\ key[2] = "2" /\ key[3] = "3"
      OBVIOUS
    <3>2. key \in Seq({"1", "2", "3"}) /\ Len(key) = 3
      OBVIOUS
    <3> HIDE DEF key
    <3>3. QED
      BY <3>1, <3>2 DEF IsInjective
  <2>2. ids \in Seq({"containers", "groups", "files"}) /\ IsInjective(ids) /\ Len(ids) <= 3
    <3> DEFINE ID == {"containers", "groups", "files"}
               first == IF hasContainers THEN <<"containers">> ELSE <<>>
               middle == <<"groups">>
               last == IF hasFiles THEN <<"files">> ELSE <<>>
    <3>1. /\ first \in Seq(ID) /\ Len(first) \in {0, 1} /\ \A i \in DOMAIN first : i = 1 /\ first[i] = "containers"
          /\ middle \in Seq(ID) /\ Len(middle) = 1 /\ \A i \in DOMAIN middle : i = 1 /\ middle[i] = "groups"
          /\ last \in Seq(ID) /\ Len(last) \in {0, 1} /\ \A i \in DOMAIN last : i = 1 /\ last[i] = "files"
      <4>1. ASSUME NEW x \in ID
            PROVE  /\ <<x>> \in Seq(ID) /\ Len(<<x>>) = 1 /\ \A i \in DOMAIN <<x>> : i = 1 /\ <<x>>[i] = x
                   /\ <<>> \in Seq(ID) /\ Len(<<>>) = 0 /\ DOMAIN <<>> = {}
        OBVIOUS
      <4>2. "containers" \in ID /\ "groups" \in ID /\ "files" \in ID
        OBVIOUS
      <4> HIDE DEF ID
      <4>3. first = <<"containers">> \/ first = <<>>
        OBVIOUS
      <4>4. last = <<"files">> \/ last = <<>>
        OBVIOUS
      <4> HIDE DEF first, last
      <4>5. /\ first \in Seq(ID) /\ Len(first) \in {0, 1} /\ \A i \in DOMAIN first : i = 1 /\ first[i] = "containers"
        <5>1. CASE first = <<"containers">>
          <6>1. /\ <<"containers">> \in Seq(ID) /\ Len(<<"containers">>) = 1
                /\ \A i \in DOMAIN <<"containers">> : i = 1 /\ <<"containers">>[i] = "containers"
            BY <4>1, <4>2
          <6>2. QED
            BY <5>1, <6>1
        <5>2. CASE first = <<>>
          <6>1. <<>> \in Seq(ID) /\ Len(<<>>) = 0 /\ DOMAIN <<>> = {}
            BY <4>1, <4>2
          <6>2. QED
            BY <5>2, <6>1
        <5>3. QED
          BY <4>3, <5>1, <5>2
      <4>6. /\ last \in Seq(ID) /\ Len(last) \in {0, 1} /\ \A i \in DOMAIN last : i = 1 /\ last[i] = "files"
        <5>1. CASE last = <<"files">>
          <6>1. /\ <<"files">> \in Seq(ID) /\ Len(<<"files">>) = 1
                /\ \A i \in DOMAIN <<"files">> : i = 1 /\ <<"files">>[i] = "files"
            BY <4>1, <4>2
          <6>2. QED
            BY <5>1, <6>1
        <5>2. CASE last = <<>>
          <6>1. <<>> \in Seq(ID) /\ Len(<<>>) = 0 /\ DOMAIN <<>> = {}
            BY <4>1, <4>2
          <6>2. QED
            BY <5>2, <6>1
        <5>3. QED
          BY <4>4, <5>1, <5>2
      <4>7. QED
        BY <4>1, <4>2, <4>5, <4>6
    <3> HIDE DEF ID, first, middle, last
    <3>2. IsInjective(first) /\ IsInjective(middle) /\ IsInjective(last)
      BY <3>1 DEF IsInjective
    <3> DEFINE both == first \o middle
    <3>3. /\ both \in Seq(ID) /\ Len(both) = Len(first) + 1 /\ IsInjective(both)
          /\ \A k \in DOMAIN both : both[k] \in {"containers", "groups"}
      BY <3>1, <3>2, Joined
    <3> HIDE DEF both
    <3>4. both \o last \in Seq(ID) /\ Len(both \o last) = Len(both) + Len(last) /\ IsInjective(both \o last)
      BY <3>1, <3>2, <3>3, Joined
    <3>5. ids = both \o last
      BY DEF both, first, middle, last
    <3> HIDE DEF ids
    <3>6. Len(first) \in 0 .. 1 /\ Len(last) \in 0 .. 1
      BY <3>1
    <3>7. ids \in Seq(ID) /\ IsInjective(ids) /\ Len(ids) = Len(both) + Len(last)
      BY <3>4, <3>5
    <3>8. Len(ids) <= 3
      <4>1. Len(both) = Len(first) + 1
        BY <3>3
      <4>2. Len(ids) = Len(both) + Len(last)
        BY <3>7
      <4>3. \A a, b \in 0 .. 1 : a + 1 + b <= 3
        OBVIOUS
      <4>4. Len(ids) = Len(first) + 1 + Len(last)
        BY Zenon, <4>1, <4>2
      <4>5. QED
        BY Zenon, <3>6, <4>3, <4>4
    <3>9. ids \in Seq(ID) /\ IsInjective(ids) /\ Len(ids) <= 3
      BY <3>7, <3>8
    <3>10. QED
      BY <3>9 DEF ID
  <2>3. grid' = [grid EXCEPT !.state = "placed", !.pool = pool, !.panes = panes]
    BY Zenon, <1>6 DEF LoadDefault
  <2> HIDE DEF ids, key
  <2>4. UsableGrid(panes, pool)
    BY <2>1, <2>2, DefaultUsable
  <2> HIDE DEF pool, panes
  <2>5. grid' = [written |-> layout, state |-> "placed", panes |-> panes, pool |-> pool]
    <3>1. [grid EXCEPT !.state = "placed", !.pool = pool, !.panes = panes]
            = [written |-> grid.written, state |-> "placed", panes |-> panes, pool |-> pool]
      BY Zenon, <1>1a, GridPlaced
    <3>2. QED
      BY Zenon, <2>3, <3>1 DEF layout
  <2>6. QED
    BY <1>1, <1>2, <2>4, <2>5
<1>7. CASE UNCHANGED grid
  BY <1>7 DEF GridInv, GridUsable
<1>8. QED
  BY <1>3, <1>4, <1>5, <1>6, <1>7 DEF GridNext

(* The grid a configuration starts the window manager with is one it can use,  *)
(* whatever layout the file writes, and keys that do not quarrel are never     *)
(* refused.                                                                    *)
THEOREM GridAlwaysSound == GridSpec => []GridSound
<1>1. GridInv => GridSound
  <2>1. grid.written \in Seq(Seq(Cells)) => DealtOut(grid.written)
    BY KeysAlwaysDealt
  <2>2. DealtOut(grid.written) => KeysDealOut
    BY Zenon DEF DealtOut, KeysDealOut
  <2>3. QED
    BY <2>1, <2>2 DEF GridInv, GridSound
<1>2. QED
  BY GridInvInit, GridInvStep, <1>1, PTL DEF GridSpec

-----------------------------------------------------------------------------
(***************************************************************************)
(* Replay.  What a frame shows is what the recorded program had, for logs  *)
(* a running program has recorded: they start with a checkpoint.           *)
(***************************************************************************)
Models == Seq(Changing)
Screens == [Terms -> Int]
Shots == [model : Models, screens : Screens]
Stores == [model : Models, screens : Screens, ptys : SUBSET Terms]
LogEntries ==
  [kind : Msgs, m : AllMsgs] \cup [kind : TermEvents, id : Terms]
    \cup [kind : {"checkpoint"}, model : Models, screens : Screens]

(* w is what the program had after each entry of the log.                      *)
Recording(log, w) ==
  /\ log \in Seq(LogEntries) /\ w \in Seq(Shots) /\ Len(w) = Len(log)
  /\ log # <<>> => log[1].kind = "checkpoint"
  /\ \A k \in 1 .. Len(log) : log[k].kind = "checkpoint" => log[k].model = w[k].model
  /\ \A k \in 2 .. Len(log) :
       /\ log[k].kind \in Msgs => w[k].model = Reduce(w[k - 1].model, log[k].m)
       /\ log[k].kind \in TermEvents => w[k].model = w[k - 1].model

(* The greatest and the least of a set of numbers.                             *)
LEMMA GreatestUpTo ==
  ASSUME NEW n \in Nat, NEW T, T \subseteq 0 .. n, T # {}
  PROVE  Max(T) \in T /\ \A m \in T : m <= Max(T)
<1> DEFINE R == {n - m : m \in T}
<1>1. R \subseteq Nat /\ R # {}
  <2>1. \A m \in T : n - m \in Nat
    OBVIOUS
  <2>2. QED
    BY <2>1
<1>2. PICK r \in R : \A q \in R : r <= q
  BY <1>1, Least
<1>3. PICK x \in T : r = n - x
  BY <1>2
<1>4. \A m \in T : x >= m
  <2>1. ASSUME NEW m \in T PROVE x >= m
    <3>1. r <= n - m /\ m \in Int /\ x \in Int
      BY <1>2
    <3>2. QED
      BY <1>3, <3>1
  <2>2. QED
    BY <2>1
<1>5. Max(T) \in T /\ \A m \in T : Max(T) >= m
  BY Zenon, <1>4 DEF Max
<1>6. QED
  BY <1>5

LEMMA LeastOf ==
  ASSUME NEW T, T \subseteq Nat, T # {}
  PROVE  Min(T) \in T /\ \A m \in T : Min(T) <= m
<1>1. PICK x \in T : \A m \in T : x <= m
  BY Least
<1>2. QED
  BY Zenon, <1>1 DEF Min

(* One entry; and a fold, entry by entry.                                      *)
LEMMA EntryKeeps ==
  ASSUME NEW st \in Stores, NEW e \in LogEntries, e.kind \in Lanes
  PROVE  /\ ApplyEntry(st, e) \in Stores
         /\ e.kind \in Msgs => ApplyEntry(st, e).model = Reduce(st.model, e.m)
         /\ e.kind \in TermEvents => ApplyEntry(st, e).model = st.model
<1>1. CASE e.kind \in Msgs
  <2>1. ApplyEntry(st, e) = [st EXCEPT !.model = Reduce(@, e.m)]
    BY <1>1 DEF ApplyEntry, Msgs
  <2>2. Reduce(st.model, e.m) \in Models
    BY DEF Reduce, Stores, Models
  <2>3. QED
    BY <1>1, <2>1, <2>2 DEF Stores, Msgs, TermEvents
<1>2. CASE e.kind \in TermEvents
  <2>1. e.id \in Terms
    BY <1>2 DEF LogEntries, TermEvents, Msgs
  <2>2. \/ ApplyEntry(st, e) = [st EXCEPT !.screens[e.id] = IF @ = NoScreen THEN 0 ELSE @]
        \/ ApplyEntry(st, e) = [st EXCEPT !.screens[e.id] = IF @ = NoScreen THEN @ ELSE @ + 1]
    BY <1>2 DEF ApplyEntry, TermEvents
  <2>3. QED
    BY <1>2, <2>1, <2>2 DEF Stores, Screens, Msgs, TermEvents, NoScreen
<1>3. QED
  BY <1>1, <1>2 DEF Lanes

LEMMA FoldSteps ==
  ASSUME NEW log \in Seq(LogEntries), NEW lanes \in SUBSET Lanes, NEW st \in Stores, NEW i \in Nat,
         NEW j \in 0 .. Len(log)
  PROVE  /\ Fold(log, lanes, st, i, j) \in Stores
         /\ j <= i => Fold(log, lanes, st, i, j) = st
         /\ j > i => Fold(log, lanes, st, i, j) =
                       IF log[j].kind \in lanes THEN ApplyEntry(Fold(log, lanes, st, i, j - 1), log[j])
                       ELSE Fold(log, lanes, st, i, j - 1)
<1> DEFINE n == Len(log)
           Step1(f, k) == IF k <= i THEN st
                          ELSE IF log[k].kind \in lanes THEN ApplyEntry(f[k - 1], log[k]) ELSE f[k - 1]
           F == [p \in (1 .. n) \X Stores |->
                   IF p[1] <= i THEN st
                   ELSE IF log[p[1]].kind \in lanes THEN ApplyEntry(p[2], log[p[1]]) ELSE p[2]]
           f == CHOOSE f : f = [k \in 0 .. n |-> Step1(f, k)]
<1>1. n \in Nat /\ DOMAIN log = 1 .. n /\ \A k \in 1 .. n : log[k] \in LogEntries
  BY LenProperties, ElementOfSeq
<1>2. F \in [(1 .. n) \X Stores -> Stores]
  <2>1. ASSUME NEW p \in (1 .. n) \X Stores
        PROVE  (IF p[1] <= i THEN st
                ELSE IF log[p[1]].kind \in lanes THEN ApplyEntry(p[2], log[p[1]]) ELSE p[2]) \in Stores
    <3>1. p[1] \in 1 .. n /\ p[2] \in Stores /\ log[p[1]] \in LogEntries
      BY <1>1
    <3>2. log[p[1]].kind \in lanes => ApplyEntry(p[2], log[p[1]]) \in Stores
      BY <3>1, EntryKeeps
    <3>3. QED
      BY <3>1, <3>2
  <2>2. QED
    BY <2>1
<1> HIDE DEF n
<1>3. PICK g \in [0 .. n -> Stores] : g[0] = st /\ \A k \in 1 .. n : g[k] = F[<<k, g[k - 1]>>]
  <2> HIDE DEF F
  <2>1. Stepwise(n, Stores, st, F)
    BY <1>1, <1>2, StepByStep
  <2>2. QED
    BY <2>1 DEF Stepwise
<1>4. \A k \in 0 .. n : g[k] = Step1(g, k)
  <2>1. ASSUME NEW k \in 1 .. n PROVE g[k] = Step1(g, k)
    <3>1. <<k, g[k - 1]>> \in (1 .. n) \X Stores
      BY <1>1, <1>3
    <3>2. QED
      BY <1>3, <3>1
  <2>2. g[0] = Step1(g, 0)
    BY <1>3
  <2>3. QED
    BY <1>1, <2>1, <2>2
<1>5. g = [k \in 0 .. n |-> Step1(g, k)]
  <2> HIDE DEF Step1
  <2>1. QED
    BY <1>3, <1>4
<1>6. f = [k \in 0 .. n |-> Step1(f, k)]
  BY Zenon, <1>5
<1>7. \A k \in 0 .. n : Fold(log, lanes, st, i, k) = f[k]
  BY DEF Fold, n
<1> HIDE DEF f
<1>8. \A k \in 0 .. n : f[k] = Step1(f, k)
  <2> HIDE DEF Step1
  <2>1. QED
    BY <1>6
<1>9. \A k \in 0 .. n : f[k] \in Stores
  <2> DEFINE T == {k \in 0 .. n : f[k] \in Stores}
  <2>1. 0 \in T
    BY <1>1, <1>8
  <2>2. ASSUME NEW k \in 0 .. n - 1, k \in T PROVE k + 1 \in T
    <3>1. /\ k + 1 \in 1 .. n /\ k + 1 - 1 = k /\ f[k] \in Stores /\ log[k + 1] \in LogEntries
      BY <1>1, <2>2
    <3>2. log[k + 1].kind \in lanes => ApplyEntry(f[k], log[k + 1]) \in Stores
      BY <3>1, EntryKeeps
    <3>3. f[k + 1] = Step1(f, k + 1)
      BY <1>1, <1>8, <3>1
    <3>4. f[k + 1] \in Stores
      BY <3>1, <3>2, <3>3
    <3>5. QED
      BY <1>1, <3>1, <3>4
  <2> HIDE DEF T
  <2>3. \A k \in 0 .. n : k \in T
    BY <1>1, <2>1, <2>2, Stretch
  <2>4. QED
    BY <2>3 DEF T
<1>10. j \in 0 .. n /\ (j > i => j - 1 \in 0 .. n)
  BY <1>1 DEF n
<1>11. QED
  BY <1>7, <1>8, <1>9, <1>10

(* What a log says of its entries.                                             *)
LEMMA LogAt ==
  ASSUME NEW log, NEW w, Recording(log, w)
  PROVE  /\ Len(log) \in Nat /\ DOMAIN log = 1 .. Len(log)
         /\ \A k \in 1 .. Len(log) :
              /\ log[k] \in LogEntries /\ log[k].kind \in Lanes \cup {"checkpoint"}
              /\ w[k] \in Shots /\ w[k].model \in Models
              /\ log[k].kind = "checkpoint" =>
                   log[k].model = w[k].model /\ log[k].model \in Models /\ log[k].screens \in Screens
              /\ log[k].kind \in TermEvents => log[k].id \in Terms
<1>1. log \in Seq(LogEntries) /\ w \in Seq(Shots) /\ Len(w) = Len(log)
  BY DEF Recording
<1>2. Len(log) \in Nat /\ DOMAIN log = 1 .. Len(log)
  BY <1>1, LenProperties
<1>3. ASSUME NEW k \in 1 .. Len(log)
      PROVE  /\ log[k] \in LogEntries /\ log[k].kind \in Lanes \cup {"checkpoint"}
             /\ w[k] \in Shots /\ w[k].model \in Models
             /\ log[k].kind = "checkpoint" =>
                  log[k].model = w[k].model /\ log[k].model \in Models /\ log[k].screens \in Screens
             /\ log[k].kind \in TermEvents => log[k].id \in Terms
  <2>1. log[k] \in LogEntries /\ w[k] \in Shots
    BY <1>1, ElementOfSeq
  <2>2. log[k].kind \in Lanes \cup {"checkpoint"}
    BY <2>1 DEF LogEntries, Lanes
  <2>3. w[k].model \in Models
    BY <2>1 DEF Shots
  <2>4. log[k].kind = "checkpoint" => log[k].model \in Models /\ log[k].screens \in Screens
    BY <2>1 DEF LogEntries, Msgs, TermEvents
  <2>5. log[k].kind \in TermEvents => log[k].id \in Terms
    BY <2>1 DEF LogEntries, Msgs, TermEvents
  <2>6. log[k].kind = "checkpoint" => log[k].model = w[k].model
    BY DEF Recording
  <2>7. QED
    BY <2>1, <2>2, <2>3, <2>4, <2>5, <2>6
<1>4. QED
  BY <1>2, <1>3

(* A fold that starts exact stays so, while no checkpoint tells of a gap.      *)
NoGap(log, w, i, j) == \A k \in i + 1 .. j : log[k].kind = "checkpoint" => w[k].model = w[k - 1].model

LEMMA FoldExact ==
  ASSUME NEW log, NEW w, Recording(log, w), NEW lanes, lanes = Msgs \/ lanes = Lanes, NEW st \in Stores,
         NEW i \in 1 .. Len(log), NEW j \in i .. Len(log), st.model = w[i].model, NoGap(log, w, i, j)
  PROVE  Fold(log, lanes, st, i, j).model = w[j].model
<1> DEFINE At1(k) == Fold(log, lanes, st, i, k)
           T == {k \in i .. j : At1(k).model = w[k].model}
<1>1. /\ log \in Seq(LogEntries) /\ lanes \in SUBSET Lanes /\ i \in Nat /\ j \in Nat /\ Len(log) \in Nat
      /\ i .. j \subseteq 1 .. Len(log) /\ Msgs \subseteq lanes
  BY LogAt DEF Recording, Lanes
<1>2. \A k \in 0 .. Len(log) :
        /\ At1(k) \in Stores
        /\ k <= i => At1(k) = st
        /\ k > i => At1(k) = IF log[k].kind \in lanes THEN ApplyEntry(At1(k - 1), log[k]) ELSE At1(k - 1)
  BY <1>1, FoldSteps
<1> HIDE DEF At1
<1>3. i \in T
  BY <1>1, <1>2
<1>4. ASSUME NEW k \in i .. j - 1, k \in T PROVE k + 1 \in T
  <2>1. /\ k + 1 \in 2 .. Len(log) /\ k + 1 \in i + 1 .. j /\ k + 1 - 1 = k /\ k + 1 > i
        /\ k \in 0 .. Len(log) /\ k + 1 \in 0 .. Len(log) /\ k + 1 \in 1 .. Len(log)
    BY <1>1, <1>4
  <2>2. At1(k + 1) = IF log[k + 1].kind \in lanes THEN ApplyEntry(At1(k), log[k + 1]) ELSE At1(k)
    BY <1>2, <2>1
  <2>3. At1(k).model = w[k].model /\ At1(k) \in Stores
    BY <1>2, <1>4, <2>1
  <2>4. log[k + 1] \in LogEntries /\ log[k + 1].kind \in Lanes \cup {"checkpoint"}
    BY <2>1, LogAt
  <2>5. log[k + 1].kind = "checkpoint" => w[k + 1].model = w[k].model
    BY <2>1 DEF NoGap
  <2>6. /\ log[k + 1].kind \in Msgs => w[k + 1].model = Reduce(w[k].model, log[k + 1].m)
        /\ log[k + 1].kind \in TermEvents => w[k + 1].model = w[k].model
    BY <2>1 DEF Recording
  <2>7. /\ log[k + 1].kind \in Msgs => ApplyEntry(At1(k), log[k + 1]).model = Reduce(At1(k).model, log[k + 1].m)
        /\ log[k + 1].kind \in TermEvents => ApplyEntry(At1(k), log[k + 1]).model = At1(k).model
    BY <2>3, <2>4, EntryKeeps DEF Lanes
  <2>8. At1(k + 1).model = w[k + 1].model
    <3>1. CASE log[k + 1].kind \in Msgs
      BY <1>1, <2>2, <2>3, <2>6, <2>7, <3>1
    <3>2. CASE log[k + 1].kind \in TermEvents
      BY <2>2, <2>3, <2>6, <2>7, <3>2
    <3>3. CASE log[k + 1].kind = "checkpoint"
      <4>1. log[k + 1].kind \notin lanes
        BY <1>1, <3>3 DEF Lanes, Msgs, TermEvents
      <4>2. QED
        BY <2>2, <2>3, <2>5, <3>3, <4>1
    <3>4. QED
      BY <2>4, <3>1, <3>2, <3>3 DEF Lanes
  <2>9. QED
    BY <1>4, <2>1, <2>8
<1> HIDE DEF T
<1>5. \A k \in i .. j : k \in T
  BY <1>1, <1>3, <1>4, Stretch
<1>6. j \in T
  BY <1>1, <1>5
<1>7. QED
  BY <1>6 DEF T, At1

(* The checkpoint a seek starts from.                                          *)
LEMMA CheckpointBefore ==
  ASSUME NEW log, NEW w, Recording(log, w), NEW t \in 1 .. Len(log)
  PROVE  LET cp == LastCheckpoint(log, t)
         IN  /\ cp \in 1 .. t /\ cp \in Checkpoints(log)
             /\ \A k \in cp + 1 .. t : log[k].kind # "checkpoint"
<1> DEFINE C == {0} \cup {i \in Checkpoints(log) : i <= t}
<1>1. Len(log) \in Nat /\ DOMAIN log = 1 .. Len(log)
  BY LogAt
<1>2. C \subseteq 0 .. t /\ C # {} /\ t \in Nat
  BY <1>1 DEF Checkpoints
<1>3. 1 \in C
  <2>1. log # <<>>
    BY <1>1
  <2>2. log[1].kind = "checkpoint"
    BY <2>1 DEF Recording
  <2>3. QED
    BY <1>1, <2>2 DEF Checkpoints
<1> HIDE DEF C
<1>4. Max(C) \in C /\ \A m \in C : m <= Max(C)
  BY <1>2, GreatestUpTo
<1>5. LastCheckpoint(log, t) = Max(C)
  BY DEF LastCheckpoint, C
<1> DEFINE cp == Max(C)
<1>6. cp \in Checkpoints(log) /\ cp \in 1 .. t
  BY <1>1, <1>2, <1>3, <1>4 DEF C, Checkpoints
<1>7. ASSUME NEW k \in cp + 1 .. t PROVE log[k].kind # "checkpoint"
  <2>1. k \in 1 .. Len(log) /\ k <= t /\ ~(k <= cp)
    BY <1>1, <1>6
  <2>2. k \notin C
    BY <1>4, <2>1
  <2>3. QED
    BY <1>1, <2>1, <2>2 DEF C, Checkpoints
<1>8. QED
  BY <1>5, <1>6, <1>7

LEMMA GridsKeep ==
  ASSUME NEW st \in Stores, NEW grids \in Screens
  PROVE  RestoreGrids(st, grids) \in Stores /\ RestoreGrids(st, grids).model = st.model
BY DEF RestoreGrids, Stores, Screens

LEMMA CheckpointRestored ==
  ASSUME NEW st \in Stores, NEW e, e.model \in Models, e.screens \in Screens
  PROVE  RestoreCheckpoint(st, e) \in Stores /\ RestoreCheckpoint(st, e).model = e.model
<1> DEFINE r == RestoreGrids(st, e.screens)
<1>1. r \in Stores
  BY GridsKeep
<1>2. RestoreCheckpoint(st, e) = [r EXCEPT !.model = e.model]
  BY DEF RestoreCheckpoint
<1> HIDE DEF r
<1>3. QED
  BY <1>1, <1>2 DEF Stores

(* A seek is exact, whatever was shown.                                        *)
LEMMA SeekIsExact ==
  ASSUME NEW log, NEW w, Recording(log, w), NEW st \in Stores, NEW t \in 1 .. Len(log)
  PROVE  ReplayTo(log, st, t) \in Stores /\ ReplayTo(log, st, t).model = w[t].model
<1> DEFINE cp == LastCheckpoint(log, t)
           low == RestoreCheckpoint(st, log[cp])
<1>1. /\ cp \in 1 .. t /\ cp \in Checkpoints(log)
      /\ \A k \in cp + 1 .. t : log[k].kind # "checkpoint"
  BY CheckpointBefore
<1>2. Len(log) \in Nat /\ DOMAIN log = 1 .. Len(log) /\ cp \in 1 .. Len(log) /\ t \in cp .. Len(log)
      /\ cp \in Nat /\ t \in 0 .. Len(log)
  BY <1>1, LogAt
<1>3. /\ log[cp].kind = "checkpoint" /\ log[cp].model = w[cp].model
      /\ log[cp].model \in Models /\ log[cp].screens \in Screens
  BY <1>1, <1>2, LogAt DEF Checkpoints
<1>4. ReplayTo(log, st, t) = Fold(log, Lanes, low, cp, t)
  BY <1>1 DEF ReplayTo, Advance
<1> HIDE DEF cp
<1>5. low \in Stores /\ low.model = w[cp].model
  BY <1>3, CheckpointRestored
<1> HIDE DEF low
<1>6. NoGap(log, w, cp, t)
  BY <1>1 DEF NoGap
<1>7. Fold(log, Lanes, low, cp, t).model = w[t].model
  BY <1>2, <1>5, <1>6, FoldExact
<1>8. Fold(log, Lanes, low, cp, t) \in Stores
  BY <1>2, <1>5, FoldSteps DEF Recording
<1>9. QED
  BY <1>4, <1>7, <1>8

(* Reverse play: a base below the frame, with no checkpoint between the two.  *)
Rungs == [idx : Nat, hi : Int, model : Models]

LEMMA ReverseIsExact ==
  ASSUME NEW log, NEW w, Recording(log, w), NEW st \in Stores, NEW t \in 1 .. Len(log), NEW b \in Rungs,
         b.idx \in 1 .. t, b.model = w[b.idx].model, \A k \in b.idx + 1 .. t : log[k].kind # "checkpoint"
  PROVE  ReverseTo(log, st, t, b) \in Stores /\ ReverseTo(log, st, t, b).model = w[t].model
<1> DEFINE cp == LastCheckpoint(log, t)
           low == RestoreGrids(st, log[cp].screens)
           fed == Fold(log, TermEvents, low, cp, t)
           at == [fed EXCEPT !.model = b.model]
<1>1. cp \in 1 .. t /\ cp \in Checkpoints(log)
  BY CheckpointBefore
<1>2. Len(log) \in Nat /\ DOMAIN log = 1 .. Len(log) /\ cp \in 1 .. Len(log) /\ cp \in Nat
      /\ t \in 0 .. Len(log) /\ log \in Seq(LogEntries) /\ TermEvents \in SUBSET Lanes
      /\ Msgs \in SUBSET Lanes
  BY <1>1, LogAt DEF Recording, Lanes
<1>3. log[cp].screens \in Screens
  BY <1>1, <1>2, LogAt DEF Checkpoints
<1>4. ReverseTo(log, st, t, b) = Fold(log, Msgs, at, b.idx, t)
  <2>1. cp # 0
    BY <1>2
  <2>2. QED
    BY Zenon, <2>1 DEF ReverseTo, FoldMsgs
<1> HIDE DEF cp
<1>5. low \in Stores
  BY <1>3, GridsKeep
<1> HIDE DEF low
<1>6. fed \in Stores
  BY <1>2, <1>5, FoldSteps
<1> HIDE DEF fed
<1>7. at \in Stores /\ at.model = w[b.idx].model
  BY <1>6 DEF Rungs, Stores
<1> HIDE DEF at
<1>8. NoGap(log, w, b.idx, t)
  BY DEF NoGap
<1>9. b.idx \in 1 .. Len(log) /\ t \in b.idx .. Len(log) /\ b.idx \in Nat
  BY <1>2
<1>10. Fold(log, Msgs, at, b.idx, t).model = w[t].model
  BY <1>7, <1>8, <1>9, FoldExact
<1>11. Fold(log, Msgs, at, b.idx, t) \in Stores
  BY <1>2, <1>7, <1>9, FoldSteps
<1>12. QED
  BY <1>4, <1>10, <1>11

(* The stretch between two checkpoints that holds a frame.                    *)
LEMMA Larger ==
  ASSUME NEW a \in Int, NEW b \in Int
  PROVE  Max({a, b}) = IF a >= b THEN a ELSE b
<1> DEFINE m == IF a >= b THEN a ELSE b
<1>1. m \in {a, b} /\ \A y \in {a, b} : m >= y
  OBVIOUS
<1>2. Max({a, b}) \in {a, b} /\ \A y \in {a, b} : Max({a, b}) >= y
  BY Zenon, <1>1 DEF Max
<1>3. QED
  BY <1>2

LEMMA Smaller ==
  ASSUME NEW a \in Int, NEW b \in Int
  PROVE  Min({a, b}) = IF a <= b THEN a ELSE b
<1> DEFINE m == IF a <= b THEN a ELSE b
<1>1. m \in {a, b} /\ \A y \in {a, b} : m =< y
  OBVIOUS
<1>2. Min({a, b}) \in {a, b} /\ \A y \in {a, b} : Min({a, b}) =< y
  BY Zenon, <1>1 DEF Min
<1>3. QED
  BY <1>2

LEMMA Between ==
  ASSUME NEW log, NEW w, Recording(log, w), NEW t \in 1 .. Len(log)
  PROVE  /\ Lo(log, t) \in 1 .. t /\ Hi(log, t) \in t .. Len(log)
         /\ \A k \in Lo(log, t) + 1 .. Hi(log, t) : log[k].kind # "checkpoint"
<1> DEFINE A == {1} \cup {i \in Checkpoints(log) : i <= t}
           B == {Len(log)} \cup {i - 1 : i \in {j \in Checkpoints(log) : j > t}}
<1>1. Len(log) \in Nat /\ DOMAIN log = 1 .. Len(log) /\ t \in Nat
  BY LogAt
<1>2. A \subseteq 0 .. t /\ A # {} /\ \A m \in A : m \in 1 .. t
  BY <1>1 DEF Checkpoints
<1>3. B \subseteq Nat /\ B # {} /\ Len(log) \in B /\ \A m \in B : m >= t
  BY <1>1 DEF Checkpoints
<1>4. \A k \in 1 .. Len(log) : log[k].kind = "checkpoint" => k \in A \/ k - 1 \in B
  BY <1>1 DEF Checkpoints
<1>5. Lo(log, t) = Max(A) /\ Hi(log, t) = Min(B)
  BY DEF Lo, Hi
<1> HIDE DEF A, B
<1>6. Max(A) \in A /\ \A m \in A : m <= Max(A)
  BY <1>1, <1>2, GreatestUpTo
<1>7. Min(B) \in B /\ \A m \in B : Min(B) <= m
  BY <1>3, LeastOf
<1>8. Max(A) \in 1 .. t /\ Min(B) \in t .. Len(log)
  <2>1. Max(A) \in 1 .. t
    BY <1>2, <1>6
  <2>2. Min(B) \in Nat /\ Min(B) >= t /\ Min(B) <= Len(log)
    BY <1>3, <1>7
  <2>3. QED
    BY <1>1, <2>1, <2>2
<1>9. ASSUME NEW k \in Max(A) + 1 .. Min(B) PROVE log[k].kind # "checkpoint"
  <2>1. k \in 1 .. Len(log) /\ ~(k <= Max(A)) /\ ~(Min(B) <= k - 1)
    BY <1>1, <1>8
  <2>2. QED
    BY <1>4, <1>6, <1>7, <2>1
<1>10. QED
  BY <1>5, <1>8, <1>9

(* Every rung of a ladder is exact and reaches to the end of its stretch.      *)
LadderGood(ladder, log, w) ==
  /\ ladder \in SUBSET Rungs
  /\ \A b \in ladder :
       /\ b.idx \in 1 .. Len(log) /\ b.hi <= Len(log) /\ b.model = w[b.idx].model
       /\ \A k \in b.idx + 1 .. b.hi : log[k].kind # "checkpoint"
  /\ \A b, c \in ladder : b.hi = c.hi

LEMMA LadderIsExact ==
  ASSUME NEW log, NEW w, Recording(log, w), NEW st \in Stores, NEW t \in 1 .. Len(log)
  PROVE  /\ LadderGood(Ladder(log, st, t), log, w) /\ Covers(Ladder(log, st, t), t)
<1> DEFINE lo == Lo(log, t)
           hi == Hi(log, t)
           step == Max({1, (hi - lo + ReverseBases - 1) \div ReverseBases})
           start == ReplayTo(log, st, lo)
           Rung(k) == Min({hi, lo + k * step})
           Made(i) == [idx |-> i, hi |-> hi, model |-> FoldMsgs(log, start, lo, i).model]
           ladder == {Made(i) : i \in {Rung(k) : k \in 0 .. ReverseBases}}
<1>1. /\ lo \in 1 .. t /\ hi \in t .. Len(log)
      /\ \A k \in lo + 1 .. hi : log[k].kind # "checkpoint"
  BY Between
<1>2. /\ Len(log) \in Nat /\ log \in Seq(LogEntries) /\ lo \in 1 .. Len(log) /\ lo \in Nat /\ hi \in Nat
      /\ hi <= Len(log) /\ lo <= t /\ t <= hi /\ t \in Nat /\ Msgs \in SUBSET Lanes
  BY <1>1, LogAt DEF Recording, Lanes
<1>3. Ladder(log, st, t) = ladder
  BY DEF Ladder
<1>4. start \in Stores /\ start.model = w[lo].model
  BY <1>2, SeekIsExact
<1>5. step \in Nat
  <2> DEFINE q == (hi - lo + ReverseBases - 1) \div ReverseBases
  <2>1. q \in Int
    BY <1>2, ReplayAssumption
  <2> HIDE DEF q
  <2>2. QED
    BY <2>1, Larger DEF q
<1> HIDE DEF lo, hi, step, start
<1>6. ASSUME NEW k \in 0 .. ReverseBases PROVE Rung(k) \in lo .. hi
  <2>1. k * step \in Nat
    BY <1>5, ReplayAssumption
  <2>2. lo + k * step \in Int /\ lo + k * step >= lo
    BY <1>2, <2>1
  <2>3. QED
    BY <1>2, <2>2, Smaller
<1>7. 0 \in 0 .. ReverseBases /\ Rung(0) = lo
  <2>1. 0 * step = 0
    BY <1>5
  <2>2. QED
    BY <1>2, <2>1, Smaller, ReplayAssumption
<1> HIDE DEF Rung
<1>8. ASSUME NEW i \in lo .. hi
      PROVE  /\ Made(i) \in Rungs /\ Made(i).idx = i /\ Made(i).hi = hi /\ Made(i).model = w[i].model
  <2>1. i \in lo .. Len(log) /\ i \in 0 .. Len(log) /\ i \in Nat
    BY <1>2
  <2>2. NoGap(log, w, lo, i)
    BY <1>1, <1>2 DEF NoGap, lo, hi
  <2>3. Fold(log, Msgs, start, lo, i).model = w[i].model
    BY <1>2, <1>4, <2>1, <2>2, FoldExact
  <2>4. Fold(log, Msgs, start, lo, i) \in Stores
    BY <1>2, <1>4, <2>1, FoldSteps
  <2>5. QED
    BY <1>2, <2>1, <2>3, <2>4 DEF FoldMsgs, Rungs, Stores
<1> HIDE DEF Made
<1>9. \A b \in ladder : \E i \in lo .. hi : b = Made(i)
  BY <1>6
<1>10. Made(lo) \in ladder
  BY <1>7
<1> HIDE DEF ladder
<1>11. LadderGood(ladder, log, w)
  <2>1. ladder \in SUBSET Rungs
    BY <1>8, <1>9
  <2>2. ASSUME NEW b \in ladder
        PROVE  /\ b.idx \in 1 .. Len(log) /\ b.hi = hi /\ b.model = w[b.idx].model
               /\ \A k \in b.idx + 1 .. b.hi : log[k].kind # "checkpoint"
    <3>1. PICK i \in lo .. hi : b = Made(i)
      BY <1>9
    <3>2. b.idx = i /\ b.hi = hi /\ b.model = w[i].model
      BY <1>8, <3>1
    <3>3. \A k \in i + 1 .. hi : k \in lo + 1 .. hi
      BY <1>2, <3>1
    <3>4. i \in 1 .. Len(log)
      BY <1>2, <3>1
    <3>5. \A k \in lo + 1 .. hi : log[k].kind # "checkpoint"
      BY <1>1 DEF lo, hi
    <3>6. QED
      BY <3>2, <3>3, <3>4, <3>5
  <2>3. QED
    BY <1>2, <2>1, <2>2 DEF LadderGood
<1>12. Covers(ladder, t)
  <2>1. Made(lo).idx <= t /\ t <= Made(lo).hi
    BY <1>2, <1>8
  <2>2. QED
    BY <1>10, <2>1 DEF Covers
<1>13. QED
  BY <1>3, <1>11, <1>12

LEMMA BaseBelow ==
  ASSUME NEW log, NEW w, NEW ladder, LadderGood(ladder, log, w), NEW t \in Nat, Covers(ladder, t)
  PROVE  LET b == Base(ladder, t)
         IN  /\ b \in ladder /\ b.idx \in 1 .. t /\ t <= b.hi
<1> DEFINE below == {b \in ladder : b.idx <= t}
           T == {b.idx : b \in below}
           Best(b) == b \in ladder /\ b.idx <= t /\ \A c \in ladder : c.idx <= t => c.idx <= b.idx
<1>1. \A b \in ladder : b.idx \in Nat /\ b.idx >= 1 /\ b.hi \in Int
  BY DEF LadderGood, Rungs
<1>2. PICK c \in ladder : c.idx <= t /\ t <= c.hi
  BY DEF Covers
<1>3. T \subseteq 0 .. t /\ T # {}
  <2>1. \A d \in below : d.idx \in 0 .. t
    BY <1>1
  <2>2. c \in below
    BY <1>2
  <2> HIDE DEF below
  <2>3. QED
    BY <2>1, <2>2
<1> HIDE DEF T
<1>4. Max(T) \in T /\ \A m \in T : m <= Max(T)
  BY <1>3, GreatestUpTo
<1>5. PICK b \in below : b.idx = Max(T)
  BY <1>4 DEF T
<1>6. Best(b)
  BY <1>4, <1>5 DEF T
<1>7. Best(Base(ladder, t))
  BY Zenon, <1>6 DEF Base
<1>8. Base(ladder, t).hi = c.hi
  BY <1>2, <1>7 DEF LadderGood
<1>9. QED
  BY <1>1, <1>2, <1>7, <1>8

LEMMA LadderServes ==
  ASSUME NEW log, NEW w, Recording(log, w), NEW s, s.log = log, LadderGood(s.ladder, log, w),
         NEW st \in Stores, NEW t \in 1 .. Len(log)
  PROVE  /\ LadderGood(LadderFor(s, st, t), log, w)
         /\ LET b == Base(LadderFor(s, st, t), t)
            IN  b \in Rungs /\ b.idx \in 1 .. t /\ b.model = w[b.idx].model
                /\ \A k \in b.idx + 1 .. t : log[k].kind # "checkpoint"
         /\ AfterLadder(s, st, t) \in Stores
<1> DEFINE ladder == LadderFor(s, st, t)
           b == Base(ladder, t)
           lo == Lo(log, t)
           hi == Hi(log, t)
<1>1. Len(log) \in Nat /\ t \in Nat
  BY LogAt
<1>2. LadderGood(ladder, log, w) /\ Covers(ladder, t)
  BY LadderIsExact DEF LadderFor
<1>3. b \in ladder /\ b.idx \in 1 .. t /\ t <= b.hi
  <2> HIDE DEF ladder
  <2>1. QED
    BY <1>1, <1>2, BaseBelow
<1> HIDE DEF ladder
<1> HIDE DEF b
<1>4. /\ b \in Rungs /\ b.model = w[b.idx].model /\ b.hi \in Int
      /\ \A k \in b.idx + 1 .. b.hi : log[k].kind # "checkpoint"
  BY <1>2, <1>3 DEF LadderGood, Rungs
<1>5. \A k \in b.idx + 1 .. t : k \in b.idx + 1 .. b.hi
  BY <1>1, <1>3, <1>4
<1>6. AfterLadder(s, st, t) \in Stores
  <2> DEFINE low == ReplayTo(log, st, lo)
  <2>1. lo \in 1 .. t /\ hi \in t .. Len(log)
    BY Between
  <2>2. lo \in 1 .. Len(log) /\ hi \in 0 .. Len(log) /\ lo \in Nat
    BY <1>1, <2>1
  <2>3. low \in Stores
    BY <2>2, SeekIsExact
  <2> HIDE DEF low
  <2>4. Fold(log, Msgs, low, lo, hi) \in Stores
    BY <2>2, <2>3, FoldSteps DEF Recording, Lanes
  <2>5. AfterLadder(s, st, t) = IF Covers(s.ladder, t) THEN st ELSE Fold(log, Msgs, low, lo, hi)
    BY DEF AfterLadder, FoldMsgs, low
  <2>6. QED
    BY <2>4, <2>5
<1>7. QED
  BY <1>2, <1>3, <1>4, <1>5, <1>6 DEF b, ladder

(* What is shown.                                                              *)
LEMMA PanelKeepsFrame ==
  ASSUME NEW log, NEW w, Recording(log, w), NEW s, s.log = log, NEW st \in Stores, NEW idx \in 1 .. Len(log)
  PROVE  /\ Recomputed(s, st, idx) \in Stores
         /\ Recomputed(s, st, idx) = st \/ Recomputed(s, st, idx).model = w[idx].model
<1> DEFINE lo == Lo(log, idx)
           low == ReplayTo(log, st, lo)
           before == Fold(log, Msgs, low, lo, Max({lo, idx - 1}))
<1>1. Len(log) \in Nat /\ idx \in Nat /\ lo \in 1 .. idx
  BY LogAt, Between
<1>2. lo \in 1 .. Len(log) /\ lo \in Nat /\ Max({lo, idx - 1}) \in 0 .. Len(log)
  BY <1>1, Larger
<1>3. low \in Stores
  BY <1>2, SeekIsExact
<1>4. Recomputed(s, st, idx) = st \/ Recomputed(s, st, idx) = ReplayTo(log, before, idx)
  BY Zenon DEF Recomputed, FoldMsgs
<1> HIDE DEF low
<1>5. before \in Stores
  BY <1>2, <1>3, FoldSteps DEF Recording, Lanes
<1> HIDE DEF before
<1>6. QED
  BY <1>4, <1>5, SeekIsExact

LEMMA ClampedIn ==
  ASSUME NEW s, Len(s.log) \in Nat, Len(s.log) >= 1, NEW t \in Int
  PROVE  ClampIdx(s, t) \in 1 .. Len(s.log)
<1> DEFINE n == Len(s.log)
           x == Min({n, t})
<1>1. n \in Int /\ n >= 1
  OBVIOUS
<1>2. ClampIdx(s, t) = Max({1, x})
  BY DEF ClampIdx
<1> HIDE DEF n
<1>3. x \in Int /\ x <= n
  BY <1>1, Smaller
<1> HIDE DEF x
<1>4. Max({1, x}) = IF 1 >= x THEN 1 ELSE x
  BY <1>3, Larger
<1>5. QED
  BY <1>1, <1>2, <1>3, <1>4 DEF n

(* Where a search leads, and what it leaves in the stores.                     *)
LEMMA NextFound ==
  ASSUME NEW log, NEW w, Recording(log, w), NEW st \in Stores, NEW start \in 1 .. Len(log)
  PROVE  NextChange(log, st, start).st \in Stores /\ NextChange(log, st, start).to \in Nat
<1> DEFINE end == Min({Len(log), start + ScanCap})
           at == ReplayTo(log, st, start)
           hits == {i \in start + 1 .. end : log[i].kind \in Msgs
                                              /\ Advance(log, at, start, i).model # Advance(log, at, start, i - 1).model}
           to == IF hits = {} THEN end ELSE Min(hits)
<1>1. Len(log) \in Nat /\ start \in Nat /\ log \in Seq(LogEntries) /\ Lanes \in SUBSET Lanes
  BY LogAt DEF Recording
<1>2. end \in 0 .. Len(log)
  <2>1. Len(log) \in Int /\ start + ScanCap \in Int /\ start + ScanCap >= 0
    BY <1>1, ReplayAssumption
  <2>2. end = IF Len(log) <= start + ScanCap THEN Len(log) ELSE start + ScanCap
    BY <2>1, Smaller
  <2>3. QED
    BY <1>1, <2>1, <2>2
<1>3. at \in Stores
  BY SeekIsExact
<1>4. /\ NextChange(log, st, start).st = Fold(log, Lanes, at, start, to)
      /\ NextChange(log, st, start).to = IF hits = {} THEN start ELSE Min(hits)
  BY DEF NextChange, Advance
<1>5. hits \subseteq start + 1 .. end
  OBVIOUS
<1> HIDE DEF hits, at, end
<1>6. hits # {} => Min(hits) \in start + 1 .. end
  <2>1. hits \subseteq Nat
    BY <1>1, <1>2, <1>5
  <2>2. QED
    BY <1>5, <2>1, LeastOf
<1>7. to \in 0 .. Len(log) /\ (hits # {} => Min(hits) \in Nat)
  BY <1>1, <1>2, <1>6
<1> HIDE DEF to
<1>8. Fold(log, Lanes, at, start, to) \in Stores
  BY <1>1, <1>3, <1>7, FoldSteps
<1>9. QED
  BY <1>1, <1>4, <1>7, <1>8

Searches == [st : Stores, to : Nat]

LEMMA ProbeKeeps ==
  ASSUME NEW log, NEW w, Recording(log, w), NEW acc \in Searches, NEW i \in 1 .. Len(log)
  PROVE  Probe(log, acc, i) \in Searches
<1> DEFINE lo == Lo(log, i)
           after == ReplayTo(log, acc.st, i)
           low == ReplayTo(log, after, lo)
           before == Fold(log, Msgs, low, lo, Max({lo, i - 1}))
<1>1. Len(log) \in Nat /\ i \in Nat /\ lo \in 1 .. i /\ acc.st \in Stores
  BY LogAt, Between DEF Searches
<1>2. lo \in 1 .. Len(log) /\ lo \in Nat /\ Max({lo, i - 1}) \in 0 .. Len(log)
  BY <1>1, Larger
<1>3. after \in Stores
  BY <1>1, SeekIsExact
<1>4. \/ Probe(log, acc, i) = acc
      \/ Probe(log, acc, i) = [acc EXCEPT !.to = 1]
      \/ Probe(log, acc, i) = [st |-> before, to |-> IF after.model # before.model THEN i ELSE 0]
  BY Zenon DEF Probe, FoldMsgs
<1> HIDE DEF after
<1>5. low \in Stores
  BY <1>2, <1>3, SeekIsExact
<1> HIDE DEF low
<1>6. before \in Stores
  BY <1>2, <1>5, FoldSteps DEF Recording, Lanes
<1> HIDE DEF before
<1>7. QED
  BY <1>1, <1>4, <1>6 DEF Searches

LEMMA PrevFound ==
  ASSUME NEW log, NEW w, Recording(log, w), NEW st \in Stores, NEW start \in 1 .. Len(log)
  PROVE  PrevChange(log, st, start).st \in Stores /\ PrevChange(log, st, start).to \in Nat
<1> DEFINE n == Min({start - 1, ScanCap})
           b == [st |-> st, to |-> 0]
           Found(f, k) == IF k = 0 THEN b ELSE Probe(log, f[k - 1], start - k)
           F == [p \in (1 .. n) \X Searches |-> Probe(log, p[2], start - p[1])]
           f == CHOOSE f : f = [k \in 0 .. n |-> Found(f, k)]
<1>1. Len(log) \in Nat /\ start \in Nat
  BY LogAt
<1>2. n \in Nat /\ n <= start - 1
  <2>1. start - 1 \in Int /\ start - 1 >= 0 /\ ScanCap \in Int /\ ScanCap >= 0
    BY <1>1, ReplayAssumption
  <2>2. n = IF start - 1 <= ScanCap THEN start - 1 ELSE ScanCap
    BY <2>1, Smaller
  <2>3. QED
    BY <2>1, <2>2
<1> HIDE DEF n
<1>3. \A k \in 1 .. n : start - k \in 1 .. Len(log)
  BY <1>1, <1>2
<1>4. F \in [(1 .. n) \X Searches -> Searches]
  <2>1. ASSUME NEW p \in (1 .. n) \X Searches PROVE Probe(log, p[2], start - p[1]) \in Searches
    <3>1. p[1] \in 1 .. n /\ p[2] \in Searches
      OBVIOUS
    <3>2. start - p[1] \in 1 .. Len(log)
      BY <1>3, <3>1
    <3>3. QED
      BY <3>1, <3>2, ProbeKeeps
  <2>2. QED
    BY <2>1
<1>5. b \in Searches
  BY DEF Searches
<1> HIDE DEF b
<1>6. PICK g \in [0 .. n -> Searches] : g[0] = b /\ \A k \in 1 .. n : g[k] = F[<<k, g[k - 1]>>]
  <2> HIDE DEF F
  <2>1. Stepwise(n, Searches, b, F)
    BY <1>2, <1>4, <1>5, StepByStep
  <2>2. QED
    BY <2>1 DEF Stepwise
<1>7. \A k \in 0 .. n : g[k] = Found(g, k)
  <2>1. ASSUME NEW k \in 1 .. n PROVE g[k] = Found(g, k)
    <3>1. <<k, g[k - 1]>> \in (1 .. n) \X Searches /\ k # 0
      BY <1>2, <1>6
    <3>2. QED
      BY <1>6, <3>1
  <2>2. g[0] = Found(g, 0)
    BY <1>6
  <2>3. QED
    BY <1>2, <2>1, <2>2
<1>8. g = [k \in 0 .. n |-> Found(g, k)]
  <2> HIDE DEF Found
  <2>1. QED
    BY <1>6, <1>7
<1>9. f = [k \in 0 .. n |-> Found(f, k)]
  BY Zenon, <1>8
<1>10. PrevChange(log, st, start) = [f[n] EXCEPT !.to = IF @ = 0 THEN start ELSE @]
  BY DEF PrevChange, n, b
<1> HIDE DEF f
<1>11. \A k \in 0 .. n : f[k] = Found(f, k)
  <2> HIDE DEF Found
  <2>1. QED
    BY <1>9
<1> DEFINE T == {k \in 0 .. n : f[k] \in Searches}
<1>12. 0 \in T
  BY <1>2, <1>5, <1>11
<1>13. ASSUME NEW k \in 0 .. n - 1, k \in T PROVE k + 1 \in T
  <2>1. k + 1 \in 1 .. n /\ k + 1 - 1 = k /\ k + 1 # 0 /\ f[k] \in Searches /\ k + 1 \in 0 .. n
    BY <1>2, <1>13
  <2>2. f[k + 1] = Probe(log, f[k], start - (k + 1))
    BY <1>11, <2>1
  <2>3. f[k + 1] \in Searches
    BY <1>3, <2>1, <2>2, ProbeKeeps
  <2>4. QED
    BY <2>1, <2>3
<1> HIDE DEF T
<1>14. \A k \in 0 .. n : k \in T
  BY <1>2, <1>12, <1>13, Stretch
<1>15. f[n] \in Searches
  BY <1>2, <1>14 DEF T
<1>16. QED
  BY <1>1, <1>10, <1>15 DEF Searches

-----------------------------------------------------------------------------
(* A scrubber over a recording, and what a move of it does to the stores.      *)
Scrubs ==
  [open : BOOLEAN, log : Seq(LogEntries), idx : Nat, due : BOOLEAN, playing : {"no", "fwd", "rev"},
   panel : BOOLEAN, diffAt : Nat, ladder : SUBSET Rungs,
   live : Shots \cup {[model |-> <<>>, screens |-> <<>>]}]

OpenAt(s, log, w, live) ==
  /\ s \in Scrubs /\ s.open
  /\ s.log = log /\ s.live = live
  /\ s.idx \in 1 .. Len(log)
  /\ LadderGood(s.ladder, log, w)

(* From frame i and the stores a to frame j and the stores b.                *)
Exact(log, w, i, a, j, b) ==
  \/ j < i /\ b.model = w[j].model
  \/ /\ j >= i
     /\ (a.model = w[i].model /\ NoGap(log, w, i, j)) => b.model = w[j].model

LEMMA ScrubShown ==
  ASSUME NEW s \in Scrubs, NEW idx \in Nat
  PROVE  LET q == [s EXCEPT !.idx = idx, !.diffAt = IF s.panel THEN idx ELSE @]
         IN  /\ q \in Scrubs /\ q.open = s.open /\ q.log = s.log /\ q.live = s.live
             /\ q.ladder = s.ladder /\ q.idx = idx
BY DEF Scrubs

LEMMA ShownThere ==
  ASSUME NEW log, NEW w, NEW live, Recording(log, w), NEW s, OpenAt(s, log, w, live), NEW st \in Stores,
         NEW idx \in 1 .. Len(log), ShowAt(s, st, idx)
  PROVE  /\ OpenAt(scrub', log, w, live) /\ scrub'.idx = idx
         /\ store' \in Stores /\ (store' = st \/ store'.model = w[idx].model)
<1>1. store' = Recomputed(s, st, idx) /\ s.log = log
  BY DEF ShowAt, OpenAt
<1>2. store' \in Stores /\ (store' = st \/ store'.model = w[idx].model)
  BY <1>1, PanelKeepsFrame
<1>3. idx \in Nat
  BY LogAt
<1>4. /\ scrub' \in Scrubs /\ scrub'.open = s.open /\ scrub'.log = s.log /\ scrub'.live = s.live
      /\ scrub'.ladder = s.ladder /\ scrub'.idx = idx
  BY <1>3, ScrubShown DEF ShowAt, OpenAt
<1>5. QED
  BY <1>2, <1>4 DEF OpenAt

LEMMA MovedThere ==
  ASSUME NEW log, NEW w, NEW live, Recording(log, w), NEW s, OpenAt(s, log, w, live), NEW st \in Stores,
         NEW to \in Int, MoveTo(s, st, to)
  PROVE  /\ OpenAt(scrub', log, w, live) /\ store' \in Stores
         /\ Exact(log, w, s.idx, st, scrub'.idx, store')
<1> DEFINE t == ClampIdx(s, to)
           shot == IF t > s.idx THEN Advance(log, st, s.idx, t) ELSE ReplayTo(log, st, t)
<1>1. Len(log) \in Nat /\ s.log = log /\ s.idx \in 1 .. Len(log)
  BY LogAt DEF OpenAt
<1>2. t \in 1 .. Len(log)
  <2>1. Len(log) >= 1
    BY <1>1
  <2>2. QED
    BY <1>1, <2>1, ClampedIn
<1>3. IF t = s.idx THEN store' = st /\ scrub' = s ELSE ShowAt(s, shot, t)
  BY <1>1 DEF MoveTo
<1> HIDE DEF t
<1>4. CASE t = s.idx
  <2>1. store' = st /\ scrub' = s
    BY <1>3, <1>4
  <2>2. QED
    BY <1>1, <2>1 DEF Exact
<1>5. CASE t > s.idx
  <2>1. /\ t # s.idx /\ t \in s.idx .. Len(log) /\ s.idx \in Nat /\ t \in 0 .. Len(log)
        /\ log \in Seq(LogEntries) /\ Lanes \in SUBSET Lanes
    BY <1>1, <1>2, <1>5 DEF Recording
  <2>2. shot = Fold(log, Lanes, st, s.idx, t)
    BY <1>5 DEF Advance
  <2> HIDE DEF shot
  <2>3. shot \in Stores
    BY <2>1, <2>2, FoldSteps
  <2>4. st.model = w[s.idx].model /\ NoGap(log, w, s.idx, t) => shot.model = w[t].model
    BY <1>1, <2>1, <2>2, FoldExact
  <2>5. /\ OpenAt(scrub', log, w, live) /\ scrub'.idx = t
        /\ store' \in Stores /\ (store' = shot \/ store'.model = w[t].model)
    BY <1>2, <1>3, <2>1, <2>3, ShownThere
  <2>6. QED
    BY <2>1, <2>4, <2>5 DEF Exact
<1>6. CASE t < s.idx
  <2>1. t # s.idx /\ shot = ReplayTo(log, st, t)
    BY <1>1, <1>2, <1>6
  <2> HIDE DEF shot
  <2>2. shot \in Stores /\ shot.model = w[t].model
    BY <1>2, <2>1, SeekIsExact
  <2>3. /\ OpenAt(scrub', log, w, live) /\ scrub'.idx = t
        /\ store' \in Stores /\ (store' = shot \/ store'.model = w[t].model)
    BY <1>2, <1>3, <2>1, <2>2, ShownThere
  <2>4. QED
    BY <1>6, <2>2, <2>3 DEF Exact
<1>7. QED
  BY <1>1, <1>2, <1>4, <1>5, <1>6

LEMMA PausedToo ==
  ASSUME NEW log, NEW w, NEW live, NEW s, OpenAt(s, log, w, live)
  PROVE  OpenAt(Paused(s), log, w, live) /\ Paused(s).idx = s.idx /\ Paused(s).log = s.log
BY DEF OpenAt, Paused, Scrubs

(* The keys and the clock.                                                     *)
Moving ==
  /\ scrub.open /\ UNCHANGED <<rec, buf, was, life, stray>>
  /\ OpenAt(scrub', buf, was, life) /\ store' \in Stores
  /\ Exact(buf, was, scrub.idx, store, scrub'.idx, store')

LEMMA CheckpointKeyMoves ==
  ASSUME Recording(buf, was), OpenAt(scrub, buf, was, life), store \in Stores,
         NEW d \in {-1, 1}, SeekToCheckpoint(d)
  PROVE  Moving
<1> DEFINE cps == Checkpoints(buf)
           here == Max({Min(cps)} \cup {i \in cps : i <= scrub.idx})
           up == {i \in cps : i < here}
           down == {i \in cps : i > here}
           to == IF d < 0 THEN Max({Min(cps)} \cup up) ELSE Min({Max(cps)} \cup down)
<1>1. Len(buf) \in Nat /\ scrub.log = buf /\ scrub.open
  BY LogAt DEF OpenAt
<1>2. cps \subseteq 0 .. Len(buf) /\ cps \subseteq Nat
  BY <1>1, LogAt DEF Checkpoints
<1>3. Key /\ cps # {} /\ MoveTo(scrub, store, to)
  BY <1>1, Zenon DEF SeekToCheckpoint
<1> HIDE DEF cps, here
<1>4. Min(cps) \in cps /\ Max(cps) \in cps
  BY <1>1, <1>2, <1>3, LeastOf, GreatestUpTo
<1>5. up \subseteq cps /\ down \subseteq cps
  OBVIOUS
<1> HIDE DEF up, down
<1>6. Max({Min(cps)} \cup up) \in Int
  <2> DEFINE A == {Min(cps)} \cup up
  <2>1. A \subseteq 0 .. Len(buf) /\ A # {}
    BY <1>2, <1>4, <1>5
  <2> HIDE DEF A
  <2>2. Max(A) \in A
    BY <1>1, <2>1, GreatestUpTo
  <2>3. QED
    BY <2>1, <2>2 DEF A
<1>7. Min({Max(cps)} \cup down) \in Int
  <2> DEFINE A == {Max(cps)} \cup down
  <2>1. A \subseteq Nat /\ A # {}
    BY <1>2, <1>4, <1>5
  <2> HIDE DEF A
  <2>2. Min(A) \in A
    BY <2>1, LeastOf
  <2>3. QED
    BY <2>1, <2>2 DEF A
<1>8. to \in Int
  BY <1>6, <1>7
<1> HIDE DEF to
<1>9. QED
  BY <1>1, <1>3, <1>8, MovedThere DEF Moving, Key

LEMMA StepKeyMoves ==
  ASSUME Recording(buf, was), OpenAt(scrub, buf, was, life), store \in Stores,
         NEW d \in {-1, 1}, StepSeq(d)
  PROVE  Moving
<1>1. scrub.idx + d \in Int /\ scrub.open
  BY LogAt DEF OpenAt
<1>2. OpenAt(Paused(scrub), buf, was, life) /\ Paused(scrub).idx = scrub.idx
  BY PausedToo
<1>3. Key /\ MoveTo(Paused(scrub), store, scrub.idx + d)
  BY DEF StepSeq
<1>4. QED
  BY <1>1, <1>2, <1>3, MovedThere DEF Moving, Key

LEMMA EndKeyMoves ==
  ASSUME Recording(buf, was), OpenAt(scrub, buf, was, life), store \in Stores,
         NEW t \in DOMAIN scrub.log, SeekTo(t)
  PROVE  Moving
<1>1. t \in Int /\ scrub.open
  BY LogAt DEF OpenAt
<1>2. QED
  BY <1>1, MovedThere DEF Moving, Key, SeekTo

LEMMA SearchMoves ==
  ASSUME Recording(buf, was), OpenAt(scrub, buf, was, life), store \in Stores,
         NEW d \in {-1, 1}, SeekToNextChange(d)
  PROVE  Moving
<1> DEFINE i == scrub.idx
           found == IF d > 0 THEN NextChange(buf, store, i) ELSE PrevChange(buf, store, i)
           st == ReplayTo(buf, found.st, i)
<1>1. i \in 1 .. Len(buf) /\ scrub.open /\ scrub.log = buf
  BY DEF OpenAt
<1>2. found.st \in Stores /\ found.to \in Nat
  BY <1>1, NextFound, PrevFound
<1>3. Key /\ MoveTo(Paused(scrub), st, found.to)
  BY <1>1 DEF SeekToNextChange
<1> HIDE DEF found
<1>4. st \in Stores /\ st.model = was[i].model
  BY <1>1, <1>2, SeekIsExact
<1>5. OpenAt(Paused(scrub), buf, was, life) /\ Paused(scrub).idx = i
  BY PausedToo
<1> HIDE DEF st
<1>6. found.to \in Int
  BY <1>2
<1>7. OpenAt(scrub', buf, was, life) /\ store' \in Stores /\ Exact(buf, was, i, st, scrub'.idx, store')
  BY <1>3, <1>4, <1>5, <1>6, MovedThere
<1>8. Exact(buf, was, i, store, scrub'.idx, store')
  BY <1>4, <1>7 DEF Exact
<1>9. QED
  BY <1>1, <1>3, <1>7, <1>8 DEF Moving, Key

LEMMA PanelMoves ==
  ASSUME Recording(buf, was), OpenAt(scrub, buf, was, life), store \in Stores, ToggleDiffPanel
  PROVE  Moving
<1>1. Len(buf) \in Nat /\ scrub.idx \in 1 .. Len(buf) /\ scrub.open
  BY LogAt DEF OpenAt
<1>2. Key
  BY DEF ToggleDiffPanel
<1>3. CASE scrub.panel
  <2>1. scrub' = [scrub EXCEPT !.panel = FALSE, !.diffAt = 0] /\ store' = store
    BY <1>3 DEF ToggleDiffPanel
  <2>2. OpenAt(scrub', buf, was, life) /\ scrub'.idx = scrub.idx
    BY <2>1 DEF OpenAt, Scrubs
  <2>3. QED
    BY <1>1, <1>2, <2>1, <2>2 DEF Moving, Exact, Key
<1>4. CASE ~scrub.panel
  <2> DEFINE on == [scrub EXCEPT !.panel = TRUE]
  <2>1. ShowAt(on, store, scrub.idx)
    BY <1>4 DEF ToggleDiffPanel
  <2>2. OpenAt(on, buf, was, life)
    BY DEF OpenAt, Scrubs
  <2> HIDE DEF on
  <2>3. /\ OpenAt(scrub', buf, was, life) /\ scrub'.idx = scrub.idx
        /\ store' \in Stores /\ (store' = store \/ store'.model = was[scrub.idx].model)
    BY <1>1, <2>1, <2>2, ShownThere
  <2>4. QED
    BY <1>1, <1>2, <2>3 DEF Moving, Exact, Key
<1>5. QED
  BY <1>3, <1>4

LEMMA PlayMoves ==
  ASSUME Recording(buf, was), OpenAt(scrub, buf, was, life), store \in Stores,
         NEW dir \in {"fwd", "rev"}, Play(dir)
  PROVE  Moving
<1>1. Len(buf) \in Nat /\ scrub.idx \in 1 .. Len(buf) /\ scrub.open
  BY LogAt DEF OpenAt
<1>2. OpenAt(scrub', buf, was, life) /\ scrub'.idx = scrub.idx
  BY DEF OpenAt, Scrubs, Play, LadderGood
<1>3. QED
  BY <1>1, <1>2 DEF Moving, Exact, Key, Play

LEMMA FirstFrame ==
  ASSUME Recording(buf, was), OpenAt(scrub, buf, was, life), store \in Stores, Reconstruct
  PROVE  Moving
<1>1. Len(buf) \in Nat /\ scrub.idx \in 1 .. Len(buf) /\ scrub.open /\ scrub.log = buf
  BY LogAt DEF OpenAt
<1>2. OpenAt(scrub', buf, was, life) /\ scrub'.idx = scrub.idx
  BY DEF OpenAt, Scrubs, Reconstruct
<1>3. store' \in Stores /\ store'.model = was[scrub.idx].model
  BY <1>1, SeekIsExact DEF Reconstruct
<1>4. QED
  BY <1>1, <1>2, <1>3 DEF Moving, Exact, Reconstruct

LEMMA TickMoves ==
  ASSUME Recording(buf, was), OpenAt(scrub, buf, was, life), store \in Stores,
         NEW t \in DOMAIN scrub.log, Tick(t)
  PROVE  Moving
<1> DEFINE i == scrub.idx
           fwd == scrub.playing = "fwd"
           halts == IF fwd THEN t = Len(buf) ELSE t = 1
           after == IF halts THEN Paused(scrub) ELSE scrub
           ladder == LadderFor(scrub, store, t)
           from == [after EXCEPT !.ladder = IF fwd THEN @ ELSE ladder]
           shot == IF fwd THEN Advance(buf, store, i, t)
                   ELSE ReverseTo(buf, AfterLadder(scrub, store, t), t, Base(ladder, t))
<1>1. Len(buf) \in Nat /\ i \in 1 .. Len(buf) /\ scrub.open /\ scrub.log = buf /\ t \in 1 .. Len(buf)
  BY LogAt DEF OpenAt
<1>2. /\ t \in IF fwd THEN i .. Len(buf) ELSE 1 .. i
      /\ IF t = i THEN store' = store /\ scrub' = after ELSE ShowAt(from, shot, t)
      /\ UNCHANGED <<rec, buf, was, life, stray>>
  BY <1>1 DEF Tick
<1>3. OpenAt(after, buf, was, life) /\ after.idx = i
  BY PausedToo
<1> HIDE DEF after
<1>4. CASE t = i
  BY <1>1, <1>2, <1>3, <1>4 DEF Moving, Exact
<1>5. CASE t # i /\ fwd
  <2>1. from = after
    BY <1>3, <1>5 DEF OpenAt, Scrubs
  <2>2. /\ t \in i .. Len(buf) /\ t > i /\ i \in Nat /\ t \in 0 .. Len(buf)
        /\ buf \in Seq(LogEntries) /\ Lanes \in SUBSET Lanes
    BY <1>1, <1>2, <1>5 DEF Recording
  <2>3. shot = Fold(buf, Lanes, store, i, t)
    BY <1>5 DEF Advance
  <2>4. ShowAt(after, shot, t)
    BY <1>2, <1>5, <2>1
  <2> HIDE DEF shot, from, fwd
  <2>5. shot \in Stores
    BY <2>2, <2>3, FoldSteps
  <2>6. store.model = was[i].model /\ NoGap(buf, was, i, t) => shot.model = was[t].model
    <3>1. Recording(buf, was) /\ store \in Stores /\ i \in 1 .. Len(buf)
      BY <1>1
    <3>2. ASSUME store.model = was[i].model, NoGap(buf, was, i, t)
          PROVE  Fold(buf, Lanes, store, i, t).model = was[t].model
      BY <3>1, <3>2, <2>2, FoldExact
    <3>3. QED
      BY <2>3, <3>2
  <2>7. /\ OpenAt(scrub', buf, was, life) /\ scrub'.idx = t
        /\ store' \in Stores /\ (store' = shot \/ store'.model = was[t].model)
    <3>1. t \in 1 .. Len(buf) /\ Recording(buf, was)
      BY <1>1, <2>2
    <3>2. QED
      BY <3>1, <1>3, <2>4, <2>5, ShownThere
  <2>8. QED
    BY <1>1, <1>2, <2>2, <2>6, <2>7 DEF Moving, Exact
<1>6. CASE t # i /\ ~fwd
  <2> DEFINE b == Base(ladder, t)
  <2>1. LadderGood(scrub.ladder, buf, was)
    BY DEF OpenAt
  <2>2. /\ LadderGood(ladder, buf, was)
        /\ b \in Rungs /\ b.idx \in 1 .. t /\ b.model = was[b.idx].model
        /\ \A k \in b.idx + 1 .. t : buf[k].kind # "checkpoint"
        /\ AfterLadder(scrub, store, t) \in Stores
    BY <1>1, <2>1, LadderServes
  <2>3. shot = ReverseTo(buf, AfterLadder(scrub, store, t), t, b)
    BY <1>6
  <2>4. from = [after EXCEPT !.ladder = ladder]
    BY <1>3, <1>6 DEF OpenAt, Scrubs
  <2>5. ShowAt(from, shot, t) /\ t < i
    BY <1>1, <1>2, <1>6
  <2> HIDE DEF shot, from, fwd, b, ladder
  <2>6. shot \in Stores /\ shot.model = was[t].model
    BY <1>1, <2>2, <2>3, ReverseIsExact
  <2>7. OpenAt(from, buf, was, life)
    BY <1>3, <2>2, <2>4 DEF OpenAt, Scrubs, LadderGood
  <2>8. /\ OpenAt(scrub', buf, was, life) /\ scrub'.idx = t
        /\ store' \in Stores /\ (store' = shot \/ store'.model = was[t].model)
    BY <1>1, <2>5, <2>6, <2>7, ShownThere
  <2>9. QED
    BY <1>1, <1>2, <2>5, <2>6, <2>8 DEF Moving, Exact
<1>7. QED
  BY <1>4, <1>5, <1>6

(* The log grows by what the recorder writes, and is cut when it is loaded.    *)
LEMMA OneMore ==
  ASSUME NEW log, NEW w, Recording(log, w), NEW e \in LogEntries, NEW x \in Shots,
         log = <<>> => e.kind = "checkpoint",
         e.kind = "checkpoint" => e.model = x.model,
         log # <<>> => /\ e.kind \in Msgs => x.model = Reduce(w[Len(w)].model, e.m)
                       /\ e.kind \in TermEvents => x.model = w[Len(w)].model
  PROVE  /\ Recording(log \o <<e>>, w \o <<x>>)
         /\ log \o <<e>> # <<>> /\ (w \o <<x>>)[Len(w \o <<x>>)] = x
<1> DEFINE n == Len(log)
           q == log \o <<e>>
           v == w \o <<x>>
<1>1. log \in Seq(LogEntries) /\ w \in Seq(Shots) /\ Len(w) = n
  BY DEF Recording
<1>2. n \in Nat /\ (log # <<>> <=> n > 0)
  BY <1>1, LenProperties, EmptySeq
<1>3. /\ q \in Seq(LogEntries) /\ Len(q) = n + 1 /\ q # <<>> /\ q[n + 1] = e
      /\ \A k \in 1 .. n : q[k] = log[k]
  <2>1. q = Append(log, e)
    BY <1>1, AppendIsConcat
  <2>2. QED
    BY <1>1, <2>1, AppendProperties
<1>4. /\ v \in Seq(Shots) /\ Len(v) = n + 1 /\ v[n + 1] = x
      /\ \A k \in 1 .. n : v[k] = w[k]
  <2>1. v = Append(w, x)
    BY <1>1, AppendIsConcat
  <2>2. QED
    BY <1>1, <2>1, AppendProperties
<1> HIDE DEF q, v
<1>5. \A k \in 1 .. n + 1 : k \in 1 .. n \/ k = n + 1
  BY <1>2
<1>6. q[1].kind = "checkpoint"
  <2>1. CASE log = <<>>
    BY <1>2, <1>3, <2>1
  <2>2. CASE log # <<>>
    <3>1. 1 \in 1 .. n /\ log[1].kind = "checkpoint"
      BY <1>2, <2>2 DEF Recording
    <3>2. QED
      BY <1>3, <3>1
  <2>3. QED
    BY <2>1, <2>2
<1>7. \A k \in 1 .. n + 1 : q[k].kind = "checkpoint" => q[k].model = v[k].model
  BY <1>3, <1>4, <1>5 DEF Recording
<1>8. ASSUME NEW k \in 2 .. n + 1
      PROVE  /\ q[k].kind \in Msgs => v[k].model = Reduce(v[k - 1].model, q[k].m)
             /\ q[k].kind \in TermEvents => v[k].model = v[k - 1].model
  <2>1. CASE k \in 2 .. n
    <3>1. k \in 1 .. n /\ k - 1 \in 1 .. n
      BY <1>2, <2>1
    <3>2. /\ log[k].kind \in Msgs => w[k].model = Reduce(w[k - 1].model, log[k].m)
          /\ log[k].kind \in TermEvents => w[k].model = w[k - 1].model
      BY <2>1 DEF Recording
    <3>3. QED
      BY <1>3, <1>4, <3>1, <3>2
  <2>2. CASE k = n + 1
    <3>1. k - 1 = n /\ n \in 1 .. n /\ log # <<>>
      BY <1>2, <2>2
    <3>2. q[k] = e /\ v[k] = x /\ v[k - 1] = w[Len(w)]
      BY <1>1, <1>3, <1>4, <2>2, <3>1
    <3>3. QED
      BY <3>1, <3>2
  <2>3. QED
    BY <1>2, <2>1, <2>2
<1>9. Recording(q, v)
  BY <1>3, <1>4, <1>6, <1>7, <1>8 DEF Recording
<1>10. QED
  BY <1>3, <1>4, <1>9 DEF q, v

LEMMA CutAt ==
  ASSUME NEW log, NEW w, Recording(log, w), NEW n \in 1 .. Len(log)
  PROVE  /\ Recording(SubSeq(log, 1, n), SubSeq(w, 1, n))
         /\ Len(SubSeq(log, 1, n)) = n
<1> DEFINE q == SubSeq(log, 1, n)
           v == SubSeq(w, 1, n)
<1>1. log \in Seq(LogEntries) /\ w \in Seq(Shots) /\ Len(w) = Len(log) /\ Len(log) \in Nat /\ log # <<>>
  BY LogAt, EmptySeq DEF Recording
<1>2. \A k \in 1 .. n : log[k] \in LogEntries /\ w[k] \in Shots
  BY <1>1, ElementOfSeq
<1>3. q \in Seq(LogEntries) /\ Len(q) = n /\ \A k \in 1 .. n : q[k] = log[k]
  BY <1>1, <1>2, SubSeqProperties
<1>4. v \in Seq(Shots) /\ Len(v) = n /\ \A k \in 1 .. n : v[k] = w[k]
  BY <1>1, <1>2, SubSeqProperties
<1> HIDE DEF q, v
<1>5. 1 \in 1 .. n /\ \A k \in 2 .. n : k \in 1 .. n /\ k - 1 \in 1 .. n /\ k \in 2 .. Len(log)
  BY <1>1
<1>6. q[1].kind = "checkpoint"
  BY <1>1, <1>3, <1>5 DEF Recording
<1>7. \A k \in 1 .. n : q[k].kind = "checkpoint" => q[k].model = v[k].model
  BY <1>1, <1>3, <1>4 DEF Recording
<1>8. ASSUME NEW k \in 2 .. n
      PROVE  /\ q[k].kind \in Msgs => v[k].model = Reduce(v[k - 1].model, q[k].m)
             /\ q[k].kind \in TermEvents => v[k].model = v[k - 1].model
  BY <1>3, <1>4, <1>5 DEF Recording
<1>9. QED
  BY <1>3, <1>4, <1>6, <1>7, <1>8 DEF Recording, q, v

(* What holds of the program, its recorder and its scrubber in every state.    *)
ReplayInv ==
  /\ store \in Stores /\ life \in Shots /\ rec \in [on : BOOLEAN, since : Nat] /\ scrub \in Scrubs
  /\ stray \in Nat
  /\ Recording(buf, was)
  /\ rec.on => ~scrub.open /\ buf # <<>> /\ was[Len(was)].model = store.model
  /\ scrub.open => OpenAt(scrub, buf, was, life)
  /\ ~scrub.open => store.model = life.model /\ store.screens = life.screens

LEMMA ReplayStarts == ASSUME ~FromBoot, ReplayInit PROVE ReplayInv
<1>1. <<>> \in Models /\ <<>> \in Seq(LogEntries) /\ <<>> \in Seq(Shots) /\ Len(<<>>) = 0
  BY EmptySeq DEF Models
<1>2. Recording(<<>>, <<>>)
  BY <1>1 DEF Recording
<1>3. store \in Stores /\ life \in Shots /\ store.model = life.model /\ store.screens = life.screens
  BY <1>1 DEF ReplayInit, Stores, Shots, Screens, NoScreen
<1>4. rec \in [on : BOOLEAN, since : Nat] /\ ~rec.on
  <2>1. FromBoot = FALSE
    BY ReplayAssumption
  <2>2. QED
    BY <2>1 DEF ReplayInit
<1>5. scrub \in Scrubs /\ ~scrub.open
  BY <1>1 DEF ReplayInit, Shut, Scrubs
<1>6. QED
  BY <1>2, <1>3, <1>4, <1>5 DEF ReplayInv, ReplayInit

LEMMA MovingKeeps == ASSUME ReplayInv, Moving PROVE ReplayInv'
<1>1. scrub' \in Scrubs /\ scrub'.open /\ ~rec.on
  BY DEF ReplayInv, Moving, OpenAt
<1>2. QED
  BY <1>1 DEF ReplayInv, Moving

LEMMA DispatchKeeps ==
  ASSUME ReplayInv, NEW m \in AllMsgs, NEW lane, Dispatch(m, lane)
  PROVE  ReplayInv'
<1> DEFINE new == Reduce(store.model, m)
           st == [store EXCEPT !.model = Reduce(@, m)]
           due == lane = "comp" /\ rec.since + 1 >= Cadence
           entry == [kind |-> "msg", m |-> m]
           shot == [model |-> st.model, screens |-> st.screens]
<1>1. store \in Stores /\ life \in Shots /\ rec.since \in Nat /\ rec.on \in BOOLEAN
  BY DEF ReplayInv
<1>2. new \in Models /\ st \in Stores /\ st.model = new /\ st.screens = store.screens
  <2>1. new \in Models
    BY <1>1 DEF Reduce, Stores, Models
  <2>2. QED
    BY <1>1, <2>1 DEF Stores
<1>3. /\ store' = st /\ scrub' = scrub
      /\ life' = IF scrub.open THEN life ELSE [life EXCEPT !.model = Reduce(@, m)]
      /\ rec' = [rec EXCEPT !.since = IF ~rec.on THEN @ ELSE IF due THEN 0 ELSE @ + 1]
      /\ IF rec.on THEN Recorded(<<entry>> \o IF due THEN <<Snapshot(st)>> ELSE <<>>, st)
                   ELSE UNCHANGED <<buf, was>>
  BY DEF Dispatch
<1> HIDE DEF due
<1>4. rec' \in [on : BOOLEAN, since : Nat] /\ rec'.on = rec.on /\ stray' \in Nat
  <2>1. stray' \in Nat
    BY DEF ReplayInv, Dispatch
  <2>2. QED
    BY <1>1, <1>3, <2>1 DEF ReplayInv
<1>5. /\ life' \in Shots
      /\ scrub.open => life' = life
      /\ ~scrub.open => life'.model = Reduce(life.model, m) /\ life'.screens = life.screens
  <2>1. Reduce(life.model, m) \in Models
    BY <1>1 DEF Reduce, Shots, Models
  <2>2. QED
    BY <1>1, <1>3, <2>1 DEF Shots
<1> HIDE DEF new
<1>6. ~scrub.open => store'.model = life'.model /\ store'.screens = life'.screens
  BY <1>2, <1>3, <1>5 DEF ReplayInv, new
<1>7. shot \in Shots /\ shot.model = new /\ entry \in LogEntries /\ entry.kind \in Msgs /\ entry.m = m
  BY <1>1, <1>2 DEF Shots, Stores, LogEntries, Msgs
<1>8. Snapshot(st) \in LogEntries /\ Snapshot(st).kind = "checkpoint" /\ Snapshot(st).model = new
  BY <1>1, <1>2 DEF Stores, LogEntries, Snapshot
<1>9. CASE ~rec.on
  BY <1>2, <1>3, <1>4, <1>5, <1>6, <1>9 DEF ReplayInv
<1>10. CASE rec.on
  <2>1. /\ Recording(buf, was) /\ ~scrub.open /\ buf # <<>> /\ was[Len(was)].model = store.model
    BY <1>10 DEF ReplayInv
  <2>2. entry.kind # "checkpoint" /\ entry.kind \notin TermEvents
    BY DEF TermEvents
  <2>3. shot.model = Reduce(was[Len(was)].model, entry.m)
    BY <1>7, <2>1 DEF new
  <2> DEFINE buf1 == buf \o <<entry>>
             was1 == was \o <<shot>>
  <2> HIDE DEF entry
  <2>4. Recording(buf1, was1) /\ buf1 # <<>> /\ was1[Len(was1)] = shot
    <3> HIDE DEF shot
    <3>1. QED
      BY <1>7, <2>1, <2>2, <2>3, OneMore
  <2>5. CASE ~due
    <3>1. buf' = buf1 /\ was' = was1
      <4>1. <<entry>> \o <<>> = <<entry>> /\ [k \in 1 .. Len(<<entry>>) |-> shot] = <<shot>>
        OBVIOUS
      <4>2. QED
        BY <1>3, <1>10, <2>5, <4>1 DEF Recorded
    <3>2. Recording(buf', was') /\ buf' # <<>> /\ was'[Len(was')].model = store'.model
      BY <1>2, <1>3, <1>7, <2>4, <3>1
    <3>3. QED
      BY <1>2, <1>3, <1>4, <1>5, <1>6, <2>1, <3>2 DEF ReplayInv
  <2>6. CASE due
    <3> DEFINE c == Snapshot(st)
    <3>1. buf' = buf1 \o <<c>> /\ was' = was1 \o <<shot>>
      <4>1. buf' = buf \o (<<entry>> \o <<c>>) /\ was' = was \o [k \in 1 .. Len(<<entry>> \o <<c>>) |-> shot]
        BY <1>3, <1>10, <2>6 DEF Recorded
      <4>2. [k \in 1 .. Len(<<entry>> \o <<c>>) |-> shot] = <<shot>> \o <<shot>>
        <5> HIDE DEF c, shot
        <5>1. QED
          OBVIOUS
      <4>3. /\ buf \in Seq(LogEntries) /\ <<entry>> \in Seq(LogEntries) /\ <<c>> \in Seq(LogEntries)
            /\ was \in Seq(Shots) /\ <<shot>> \in Seq(Shots)
        BY <1>7, <1>8, <2>1 DEF Recording
      <4> HIDE DEF c, shot
      <4>4. QED
        BY <4>1, <4>2, <4>3, ConcatAssociative
    <3>2. c \in LogEntries /\ c.kind = "checkpoint" /\ c.kind \notin Msgs \cup TermEvents /\ c.model = shot.model
      BY <1>7, <1>8 DEF Msgs, TermEvents
    <3> HIDE DEF c, buf1, was1
    <3>3. Recording(buf', was') /\ buf' # <<>> /\ was'[Len(was')] = shot
      <4> HIDE DEF shot
      <4>1. QED
        BY <1>7, <2>4, <3>1, <3>2, OneMore
    <3>4. Recording(buf', was') /\ buf' # <<>> /\ was'[Len(was')].model = store'.model
      BY <1>2, <1>3, <1>7, <3>3
    <3>5. QED
      BY <1>2, <1>3, <1>4, <1>5, <1>6, <2>1, <3>4 DEF ReplayInv
  <2>7. QED
    BY <2>5, <2>6
<1>11. QED
  BY <1>1, <1>9, <1>10

LEMMA TerminalKeeps ==
  ASSUME ReplayInv, NEW id \in Terms, NEW ev \in {"spawn", "out", "kill"}, Terminal(id, ev)
  PROVE  ReplayInv'
<1> DEFINE st == CASE ev = "spawn" -> [store EXCEPT !.screens[id] = 0, !.ptys = @ \cup {id}]
                   [] ev = "out" -> [store EXCEPT !.screens[id] = @ + 1]
                   [] ev = "kill" -> [store EXCEPT !.screens[id] = NoScreen, !.ptys = @ \ {id}]
           entry == [kind |-> ev, id |-> id]
           shot == [model |-> st.model, screens |-> st.screens]
<1>1. store \in Stores /\ life \in Shots /\ rec.since \in Nat /\ rec.on \in BOOLEAN
  BY DEF ReplayInv
<1>2. st \in Stores /\ st.model = store.model
  <2>1. CASE ev = "spawn"
    <3> DEFINE scr == [store.screens EXCEPT ![id] = 0]
    <3>1. st = [store EXCEPT !.screens = scr, !.ptys = @ \cup {id}]
      BY <2>1
    <3>2. scr \in Screens
      BY <1>1 DEF Stores, Screens
    <3> HIDE DEF st, scr
    <3>3. QED
      BY <1>1, <3>1, <3>2 DEF Stores
  <2>2. CASE ev = "out"
    <3>1. st = [store EXCEPT !.screens[id] = @ + 1]
      BY <2>2
    <3> HIDE DEF st
    <3>2. QED
      BY <1>1, <3>1 DEF Stores, Screens
  <2>3. CASE ev = "kill"
    <3> DEFINE scr == [store.screens EXCEPT ![id] = NoScreen]
    <3>1. st = [store EXCEPT !.screens = scr, !.ptys = @ \ {id}]
      BY <2>3
    <3>2. scr \in Screens
      BY <1>1 DEF Stores, Screens, NoScreen
    <3> HIDE DEF st, scr
    <3>3. QED
      BY <1>1, <3>1, <3>2 DEF Stores
  <2>4. QED
    BY <2>1, <2>2, <2>3
<1>3. /\ store' = st /\ scrub' = scrub
      /\ life' = IF scrub.open THEN life ELSE [life EXCEPT !.screens = st.screens]
      /\ IF rec.on /\ ev # "kill"
         THEN Recorded(<<entry>>, st) /\ rec' = [rec EXCEPT !.since = @ + 1]
         ELSE UNCHANGED <<buf, was, rec>>
  BY Zenon DEF Terminal
<1> HIDE DEF st
<1>4. rec' \in [on : BOOLEAN, since : Nat] /\ rec'.on = rec.on /\ stray' \in Nat
  <2>1. stray' \in Nat
    BY DEF ReplayInv, Terminal
  <2>2. QED
    BY <1>1, <1>3, <2>1 DEF ReplayInv
<1>5. /\ life' \in Shots
      /\ scrub.open => life' = life
      /\ ~scrub.open => store'.model = life'.model /\ store'.screens = life'.screens
  BY <1>1, <1>2, <1>3 DEF Shots, Stores, ReplayInv
<1>6. CASE ~(rec.on /\ ev # "kill")
  BY <1>2, <1>3, <1>4, <1>5, <1>6 DEF ReplayInv
<1>7. CASE rec.on /\ ev # "kill"
  <2>1. /\ Recording(buf, was) /\ ~scrub.open /\ buf # <<>> /\ was[Len(was)].model = store.model
    BY <1>7 DEF ReplayInv
  <2>2. shot \in Shots /\ shot.model = store.model
    BY <1>2 DEF Shots, Stores
  <2>3. entry \in LogEntries /\ entry.kind # "checkpoint" /\ entry.kind \notin Msgs
    BY <1>7 DEF LogEntries, TermEvents, Msgs
  <2>4. buf' = buf \o <<entry>> /\ was' = was \o <<shot>>
    <3>1. [k \in 1 .. Len(<<entry>>) |-> shot] = <<shot>>
      OBVIOUS
    <3>2. QED
      BY <1>3, <1>7, <3>1 DEF Recorded
  <2> HIDE DEF entry
  <2>5. Recording(buf', was') /\ buf' # <<>> /\ was'[Len(was')] = shot
    <3> HIDE DEF shot
    <3>1. QED
      BY <2>1, <2>2, <2>3, <2>4, OneMore
  <2>6. was'[Len(was')].model = store'.model
    BY <1>2, <1>3, <2>2, <2>5
  <2>7. QED
    BY <1>2, <1>3, <1>4, <1>5, <2>1, <2>5, <2>6 DEF ReplayInv
<1>8. QED
  BY <1>6, <1>7

LEMMA SaveKeeps == ASSUME ReplayInv, RecordSave PROVE ReplayInv'
<1> DEFINE c == Snapshot(store)
           shot == [model |-> store.model, screens |-> store.screens]
<1>1. store \in Stores /\ Recording(buf, was) /\ ~scrub.open
  BY DEF ReplayInv, RecordSave
<1>2. c \in LogEntries /\ c.kind = "checkpoint" /\ c.model = store.model /\ c.kind \notin Msgs \cup TermEvents
  BY <1>1 DEF Stores, LogEntries, Snapshot, Msgs, TermEvents
<1>3. shot \in Shots /\ shot.model = store.model
  BY <1>1 DEF Shots, Stores
<1>4. buf' = buf \o <<c>> /\ was' = was \o <<shot>>
  <2>1. [k \in 1 .. Len(<<c>>) |-> shot] = <<shot>>
    OBVIOUS
  <2>2. QED
    BY <2>1 DEF RecordSave, Recorded
<1> HIDE DEF c, shot
<1>5. Recording(buf', was') /\ buf' # <<>> /\ was'[Len(was')] = shot
  BY <1>1, <1>2, <1>3, <1>4, OneMore
<1>6. QED
  BY <1>3, <1>5 DEF ReplayInv, RecordSave

LEMMA StopKeeps == ASSUME ReplayInv, RecordStop PROVE ReplayInv'
<1>1. rec' \in [on : BOOLEAN, since : Nat] /\ ~rec'.on
  BY DEF ReplayInv, RecordStop
<1>2. QED
  BY <1>1 DEF ReplayInv, RecordStop

LEMMA EnterKeeps == ASSUME ReplayInv, NEW n \in 1 .. Len(buf), Enter(n) PROVE ReplayInv'
<1>1. /\ Recording(buf', was') /\ Len(buf') = n /\ n \in Nat /\ ~scrub.open
  BY CutAt DEF ReplayInv, Enter
<1>2. rec' \in [on : BOOLEAN, since : Nat] /\ ~rec'.on
  BY DEF ReplayInv, Enter
<1>3. [model |-> store.model, screens |-> store.screens] = life
  BY <1>1 DEF ReplayInv, Shots
<1>4. /\ scrub' \in Scrubs /\ scrub'.open /\ scrub'.log = buf' /\ scrub'.idx = n
      /\ scrub'.live = life /\ scrub'.ladder = {}
  <2>1. buf' \in Seq(LogEntries) /\ life \in Shots
    BY <1>1 DEF Recording, ReplayInv
  <2>2. scrub' = [Shut EXCEPT !.open = TRUE, !.log = buf', !.idx = n, !.due = TRUE, !.live = life]
    BY <1>3 DEF Enter
  <2>3. QED
    BY <1>1, <2>1, <2>2 DEF Shut, Scrubs
<1>5. OpenAt(scrub', buf', was', life)
  BY <1>1, <1>4 DEF OpenAt, LadderGood
<1>6. QED
  BY <1>1, <1>2, <1>4, <1>5 DEF ReplayInv, Enter

LEMMA ExitKeeps == ASSUME ReplayInv, Exit PROVE ReplayInv'
<1>1. scrub.live = life /\ life \in Shots
  BY DEF ReplayInv, OpenAt, Exit
<1>2. store' \in Stores /\ store'.model = life.model /\ store'.screens = life.screens
  BY <1>1 DEF Exit, RestoreLive, Stores, Shots
<1>3. scrub' \in Scrubs /\ ~scrub'.open
  <2>1. <<>> \in Seq(LogEntries)
    BY EmptySeq
  <2>2. QED
    BY <2>1 DEF Exit, Shut, Scrubs
<1>4. ~rec.on
  BY DEF ReplayInv, Exit
<1>5. QED
  BY <1>1, <1>2, <1>3, <1>4 DEF ReplayInv, Exit

LEMMA ReplayStep == ASSUME ReplayInv, ReplayNext PROVE ReplayInv'
<1>1. scrub.open => OpenAt(scrub, buf, was, life) /\ Recording(buf, was) /\ store \in Stores
  BY DEF ReplayInv
<1>2. ASSUME NEW m \in AllMsgs, NEW lane \in {"root", "comp"}, Dispatch(m, lane) PROVE ReplayInv'
  BY <1>2, DispatchKeeps
<1>3. ASSUME NEW id \in Terms, NEW ev \in {"spawn", "out", "kill"}, Terminal(id, ev) PROVE ReplayInv'
  BY <1>3, TerminalKeeps
<1>4. ASSUME NEW n \in 1 .. Len(buf), Enter(n) PROVE ReplayInv'
  BY <1>4, EnterKeeps
<1>5. CASE Reconstruct
  BY <1>1, <1>5, FirstFrame, MovingKeeps DEF Reconstruct
<1>6. ASSUME NEW d \in {-1, 1}, SeekToCheckpoint(d) PROVE ReplayInv'
  BY <1>1, <1>6, CheckpointKeyMoves, MovingKeeps DEF SeekToCheckpoint, Key
<1>7. ASSUME NEW d \in {-1, 1}, StepSeq(d) PROVE ReplayInv'
  BY <1>1, <1>7, StepKeyMoves, MovingKeeps DEF StepSeq, Key
<1>8. ASSUME NEW d \in {-1, 1}, SeekToNextChange(d) PROVE ReplayInv'
  BY <1>1, <1>8, SearchMoves, MovingKeeps DEF SeekToNextChange, Key
<1>9. ASSUME NEW t \in DOMAIN scrub.log, SeekTo(t) PROVE ReplayInv'
  BY <1>1, <1>9, EndKeyMoves, MovingKeeps DEF SeekTo, Key
<1>10. ASSUME NEW t \in DOMAIN scrub.log, Tick(t) PROVE ReplayInv'
  <2>1. scrub.open
    BY <1>10 DEF Tick
  <2>2. QED
    BY <1>1, <1>10, <2>1, TickMoves, MovingKeeps
<1>11. CASE ToggleDiffPanel
  BY <1>1, <1>11, PanelMoves, MovingKeeps DEF ToggleDiffPanel, Key
<1>12. ASSUME NEW dir \in {"fwd", "rev"}, Play(dir) PROVE ReplayInv'
  BY <1>1, <1>12, PlayMoves, MovingKeeps DEF Play, Key
<1>13. QED
  BY <1>2, <1>3, <1>4, <1>5, <1>6, <1>7, <1>8, <1>9, <1>10, <1>11, <1>12,
     SaveKeeps, StopKeeps, ExitKeeps DEF ReplayNext

(* Of two frames of an open scrubber, the later one is exact.                  *)
Lands ==
  scrub.open /\ scrub'.open /\ ~scrub'.due /\ was' = was =>
    LET i == scrub.idx
        j == scrub'.idx
    IN  \/ j < i /\ store'.model = was[j].model
        \/ /\ j >= i
           /\ (store.model = was[i].model /\ Unbroken(scrub.log, i, j))
                => store'.model = was[j].model
        \/ stray' # stray

LEMMA MovingLands == ASSUME ReplayInv, Moving PROVE Lands
<1>1. scrub.log = buf
  BY DEF ReplayInv, Moving, OpenAt
<1>2. QED
  BY <1>1 DEF Lands, Moving, Exact, Unbroken, NoGap

LEMMA StepLands == ASSUME ReplayInv, ReplayNext PROVE Lands
<1>1. scrub.open => OpenAt(scrub, buf, was, life) /\ Recording(buf, was) /\ store \in Stores /\ ~rec.on /\ stray \in Nat
  BY DEF ReplayInv
<1>2. ASSUME NEW m \in AllMsgs, NEW lane \in {"root", "comp"}, Dispatch(m, lane) PROVE Lands
  BY <1>1, <1>2 DEF Lands, Dispatch
<1>3. ASSUME NEW id \in Terms, NEW ev \in {"spawn", "out", "kill"}, Terminal(id, ev) PROVE Lands
  BY <1>1, <1>3 DEF Lands, Terminal
<1>4. ASSUME NEW n \in 1 .. Len(buf), Enter(n) PROVE Lands
  BY <1>4 DEF Lands, Enter
<1>5. CASE Reconstruct
  BY <1>1, <1>5, FirstFrame, MovingLands DEF Reconstruct
<1>6. ASSUME NEW d \in {-1, 1}, SeekToCheckpoint(d) PROVE Lands
  BY <1>1, <1>6, CheckpointKeyMoves, MovingLands DEF SeekToCheckpoint, Key
<1>7. ASSUME NEW d \in {-1, 1}, StepSeq(d) PROVE Lands
  BY <1>1, <1>7, StepKeyMoves, MovingLands DEF StepSeq, Key
<1>8. ASSUME NEW d \in {-1, 1}, SeekToNextChange(d) PROVE Lands
  BY <1>1, <1>8, SearchMoves, MovingLands DEF SeekToNextChange, Key
<1>9. ASSUME NEW t \in DOMAIN scrub.log, SeekTo(t) PROVE Lands
  BY <1>1, <1>9, EndKeyMoves, MovingLands DEF SeekTo, Key
<1>10. ASSUME NEW t \in DOMAIN scrub.log, Tick(t) PROVE Lands
  <2>1. scrub.open
    BY <1>10 DEF Tick
  <2>2. QED
    BY <1>1, <1>10, <2>1, TickMoves, MovingLands
<1>11. CASE ToggleDiffPanel
  BY <1>1, <1>11, PanelMoves, MovingLands DEF ToggleDiffPanel, Key
<1>12. ASSUME NEW dir \in {"fwd", "rev"}, Play(dir) PROVE Lands
  BY <1>1, <1>12, PlayMoves, MovingLands DEF Play, Key
<1>13. CASE RecordSave
  BY <1>13 DEF Lands, RecordSave
<1>14. CASE RecordStop
  BY <1>1, <1>14 DEF Lands, RecordStop
<1>15. CASE Exit
  BY <1>15 DEF Lands, Exit, Shut
<1>16. QED
  BY <1>2, <1>3, <1>4, <1>5, <1>6, <1>7, <1>8, <1>9, <1>10, <1>11, <1>12, <1>13, <1>14, <1>15
  DEF ReplayNext

LEMMA ReplayAlwaysInv == ASSUME ~FromBoot PROVE ReplaySpec => []ReplayInv
<1>1. ReplayInit => ReplayInv
  BY ReplayStarts
<1>2. ASSUME ReplayInv, [ReplayNext]_replayVars PROVE ReplayInv'
  <2>1. CASE ReplayNext
    BY <1>2, <2>1, ReplayStep
  <2>2. CASE UNCHANGED replayVars
    BY <1>2, <2>2 DEF ReplayInv, replayVars
  <2>3. QED
    BY <1>2, <2>1, <2>2
<1>3. QED
  BY <1>1, <1>2, PTL DEF ReplaySpec

(* For every session, recorded with any cadence, cut short or resumed, and     *)
(* however the keys of its scrubber and the clocks of its playback follow each *)
(* other: every frame shows the model the program had there, and leaving the   *)
(* scrubber gives the program back.                                            *)
THEOREM ReplayAlwaysExact ==
  ASSUME ~FromBoot
  PROVE  ReplaySpec => ReplayExact
<1>1. ReplaySpec => []ReplayInv
  BY ReplayAlwaysInv
<1>2. ReplayInv => LiveComesBack
  BY DEF ReplayInv, LiveComesBack
<1>3. ASSUME ReplayInv, [ReplayNext]_replayVars
      PROVE  [Lands]_replayVars
  BY <1>3, StepLands
<1>4. ReplaySpec => [][Lands]_replayVars
  BY <1>1, <1>3, PTL DEF ReplaySpec
<1>5. ReplaySpec => []LiveComesBack
  BY <1>1, <1>2, PTL
<1>6. [][Lands]_replayVars => SeekExact
  BY PTL DEF SeekExact, Lands
<1>7. QED
  BY <1>4, <1>5, <1>6 DEF ReplayExact

(* The rest of the type invariant comes with it.                               *)
THEOREM ReplayAlwaysTyped ==
  ASSUME ~FromBoot
  PROVE  ReplaySpec => []ReplayTypeOK
<1>1. ReplayInv => ReplayTypeOK
  BY DEF ReplayInv, ReplayTypeOK, Stores, Models, Screens, Recording, Scrubs, OpenAt
<1>2. QED
  BY <1>1, ReplayAlwaysInv, PTL

-----------------------------------------------------------------------------
(* The chunks of the keyboard.  A handler that is in the middle of a chunk is  *)
(* where the reference is that heard all but what is still Coming.             *)
Told == Units \cup {"keys", "term", "flush"} \cup SessionKinds
Whats == {"key", "drop", "exit", "scroll", "pty", "paste"}
ChunkLogs == Seq(Whats \X Seq(Units))
KeyModes == {"keys", "term"}
Ats == {"plain", "lead", "paste"}
Refs == [mode : KeyModes, session : SessionKinds, at : Ats, text : Seq(Units),
         log : ChunkLogs, turned : Nat]
Handlers == [mode : KeyModes, session : SessionKinds, carry : Seq(Units), paste : Seq(Units),
             log : ChunkLogs, turned : Nat, odd : BOOLEAN, walk : Walks, left : Seq(Units)]

Ref(mode, session, at, text, log, turned) ==
  [mode |-> mode, session |-> session, at |-> at, text |-> text, log |-> log, turned |-> turned]
Seen(st) == Ref(st.mode, st.session, IF st.paste # <<>> THEN "paste" ELSE "plain",
                SubSeq(st.paste, 3, Len(st.paste)), st.log, st.turned)
Coming(st) == IF st.walk \in {"none", "data"} THEN st.carry \o st.left ELSE st.left \o st.carry
Added(log, what, units) == Append(log, <<what, units>>)

LEMMA RefIs ==
  ASSUME NEW r \in Refs
  PROVE  /\ r = Ref(r.mode, r.session, r.at, r.text, r.log, r.turned)
         /\ r.mode \in KeyModes /\ r.session \in SessionKinds /\ r.at \in Ats
         /\ r.text \in Seq(Units) /\ r.log \in ChunkLogs /\ r.turned \in Nat
  BY SMTT(30) DEF Refs, Ref

LEMMA RefOf ==
  ASSUME NEW mode \in KeyModes, NEW session \in SessionKinds, NEW at \in Ats, NEW text \in Seq(Units),
         NEW log \in ChunkLogs, NEW turned \in Nat
  PROVE  LET r == Ref(mode, session, at, text, log, turned)
         IN  /\ r \in Refs
             /\ r.mode = mode /\ r.session = session /\ r.at = at /\ r.text = text
             /\ r.log = log /\ r.turned = turned
  BY SMTT(30) DEF Refs, Ref

LEMMA ChunkUnits ==
  /\ Lead \in Units /\ Open \in Units /\ Close \in Units /\ KeyK \in Units
  /\ Activate \in Units /\ Fs \in Units /\ Page \in Units /\ Wheel \in Units
  /\ Units \subseteq Told /\ "flush" \in Told /\ KeyModes \subseteq Told /\ SessionKinds \subseteq Told
  /\ Ends \subseteq Units /\ Lead \notin Ends /\ Open \in Ends
  /\ "keys" \in KeyModes /\ "term" \in KeyModes /\ "plain" \in SessionKinds
  /\ "plain" \in Ats /\ "lead" \in Ats /\ "paste" \in Ats
  BY DEF Told, Units, Ends, Lead, Open, Close, KeyK, Activate, Fs, Page, Wheel, KeyModes, SessionKinds, Ats

LEMMA AddedKeeps ==
  ASSUME NEW log \in ChunkLogs, NEW what \in Whats, NEW units \in Seq(Units)
  PROVE  Added(log, what, units) \in ChunkLogs
<1> DEFINE S == Whats \X Seq(Units)
<1>1. <<what, units>> \in S
  OBVIOUS
<1> HIDE DEF S
<1>2. log \in Seq(S) => Append(log, <<what, units>>) \in Seq(S)
  BY <1>1, AppendProperties
<1>3. QED
  BY <1>2 DEF ChunkLogs, S, Added

LEMMA WhatIs ==
  "key" \in Whats /\ "drop" \in Whats /\ "exit" \in Whats /\ "scroll" \in Whats
  /\ "pty" \in Whats /\ "paste" \in Whats
  BY DEF Whats

LEMMA Tokens ==
  ASSUME NEW u \in Units
  PROVE  <<u>> \in Seq(Units) /\ <<Lead, u>> \in Seq(Units)
  BY ChunkUnits

(* The fields of a reference, replaced one or two at a time.                   *)
LEMMA RefMode ==
  ASSUME NEW r \in Refs, NEW mode \in KeyModes
  PROVE  [r EXCEPT !.mode = mode] = Ref(mode, r.session, r.at, r.text, r.log, r.turned)
  BY SMTT(30) DEF Refs, Ref

LEMMA RefSession ==
  ASSUME NEW r \in Refs, NEW session \in SessionKinds
  PROVE  [r EXCEPT !.session = session] = Ref(r.mode, session, r.at, r.text, r.log, r.turned)
  BY SMTT(30) DEF Refs, Ref

LEMMA RefAt ==
  ASSUME NEW r \in Refs, NEW at \in Ats
  PROVE  [r EXCEPT !.at = at] = Ref(r.mode, r.session, at, r.text, r.log, r.turned)
  BY SMTT(30) DEF Refs, Ref

LEMMA RefText ==
  ASSUME NEW r \in Refs, NEW text \in Seq(Units)
  PROVE  [r EXCEPT !.text = text] = Ref(r.mode, r.session, r.at, text, r.log, r.turned)
  BY SMTT(30) DEF Refs, Ref

LEMMA RefAtText ==
  ASSUME NEW r \in Refs, NEW at \in Ats, NEW text \in Seq(Units)
  PROVE  [r EXCEPT !.at = at, !.text = text] = Ref(r.mode, r.session, at, text, r.log, r.turned)
<1> DEFINE s == [r EXCEPT !.at = at]
<1>1. s = Ref(r.mode, r.session, at, r.text, r.log, r.turned)
  BY RefAt
<1>2. s \in Refs /\ s.mode = r.mode /\ s.session = r.session /\ s.at = at /\ s.log = r.log /\ s.turned = r.turned
  BY <1>1, RefIs, RefOf
<1>3. [r EXCEPT !.at = at, !.text = text] = [s EXCEPT !.text = text]
  BY Zenon
<1> HIDE DEF s
<1>4. QED
  BY <1>2, <1>3, RefText

LEMMA RefLog ==
  ASSUME NEW r \in Refs, NEW log \in ChunkLogs
  PROVE  [r EXCEPT !.log = log] = Ref(r.mode, r.session, r.at, r.text, log, r.turned)
  BY SMTT(30) DEF Refs, Ref

LEMMA RefTurned ==
  ASSUME NEW r \in Refs, NEW turned \in Nat
  PROVE  [r EXCEPT !.turned = turned] = Ref(r.mode, r.session, r.at, r.text, r.log, turned)
  BY SMTT(30) DEF Refs, Ref

LEMMA LoggedRef ==
  ASSUME NEW r \in Refs, NEW what \in Whats, NEW units \in Seq(Units)
  PROVE  LET s == Logged(r, what, units)
         IN  /\ s = Ref(r.mode, r.session, r.at, r.text, Added(r.log, what, units), r.turned)
             /\ s \in Refs
             /\ s.mode = r.mode /\ s.session = r.session /\ s.at = r.at /\ s.text = r.text
             /\ s.log = Added(r.log, what, units) /\ s.turned = r.turned
<1> DEFINE log == Added(r.log, what, units)
<1>1. Logged(r, what, units) = [r EXCEPT !.log = log]
  BY DEF Logged, Refs, Added
<1>2. log \in ChunkLogs
  BY AddedKeeps, RefIs
<1> HIDE DEF log
<1>3. [r EXCEPT !.log = log] = Ref(r.mode, r.session, r.at, r.text, log, r.turned)
  BY <1>2, RefLog
<1>4. QED
  BY <1>1, <1>2, <1>3, RefIs, RefOf DEF log

(* What one event does, to a handler and to a reference: on the keyboard, and   *)
(* in terminal mode.                                                           *)
Unbound == {<<Lead>>, <<Lead, Page>>, <<Lead, Close>>}
KeyLog(log, tok) == Added(log, IF tok \in Unbound THEN "drop" ELSE "key", tok)
KeyedMode(mode, tok) == IF tok = <<Activate>> THEN "term" ELSE mode
Started(session, tok) == IF tok = <<Activate>> /\ session = "dead" THEN "plain" ELSE session

Piped(tok) == [i \in 1 .. Len(tok) |-> <<"pty", <<tok[i]>>>>]
Exits(session, tok) == tok = <<Fs>> \/ session = "dead"
Turns(session, tok) == ~ Exits(session, tok) /\ tok = <<Lead, Wheel>> /\ session = "plain"
TermLog(session, log, tok) ==
  IF Exits(session, tok) THEN Added(log, "exit", tok)
  ELSE IF tok = <<Lead, Page>> THEN Added(log, "scroll", tok)
  ELSE IF Turns(session, tok) THEN log ELSE log \o Piped(tok)
TermMode(mode, session, tok) == IF Exits(session, tok) THEN "keys" ELSE mode
TermTurned(session, turned, tok) == IF Turns(session, tok) THEN turned + 1 ELSE turned

LEMMA PipedKeeps ==
  ASSUME NEW log \in ChunkLogs, NEW tok \in Seq(Units)
  PROVE  log \o Piped(tok) \in ChunkLogs
<1> DEFINE S == Whats \X Seq(Units)
<1>1. Len(tok) \in Nat /\ \A i \in 1 .. Len(tok) : tok[i] \in Units
  BY LenProperties, ElementOfSeq
<1>2. \A i \in 1 .. Len(tok) : <<"pty", <<tok[i]>>>> \in S
  BY <1>1, WhatIs, Tokens
<1> HIDE DEF S
<1>3. Piped(tok) \in [1 .. Len(tok) -> S]
  BY <1>2 DEF Piped
<1>4. Piped(tok) \in Seq(S)
  BY <1>1, <1>3, SeqDef
<1>5. log \in Seq(S) => log \o Piped(tok) \in Seq(S)
  BY <1>4, ConcatProperties
<1>6. QED
  BY <1>5 DEF ChunkLogs, S

LEMMA EventEffects ==
  ASSUME NEW mode \in KeyModes, NEW session \in SessionKinds, NEW log \in ChunkLogs, NEW turned \in Nat,
         NEW tok \in Seq(Units)
  PROVE  /\ KeyLog(log, tok) \in ChunkLogs /\ KeyedMode(mode, tok) \in KeyModes
         /\ Started(session, tok) \in SessionKinds
         /\ TermLog(session, log, tok) \in ChunkLogs /\ TermMode(mode, session, tok) \in KeyModes
         /\ TermTurned(session, turned, tok) \in Nat
<1>1. KeyLog(log, tok) \in ChunkLogs
  BY AddedKeeps, WhatIs DEF KeyLog
<1>2. TermLog(session, log, tok) \in ChunkLogs
  BY AddedKeeps, PipedKeeps, WhatIs DEF TermLog
<1>3. KeyedMode(mode, tok) \in KeyModes /\ TermMode(mode, session, tok) \in KeyModes
  BY ChunkUnits DEF KeyedMode, TermMode
<1>4. Started(session, tok) \in SessionKinds
  BY ChunkUnits DEF Started
<1>5. TermTurned(session, turned, tok) \in Nat
  BY DEF TermTurned
<1>6. QED
  BY <1>1, <1>2, <1>3, <1>4, <1>5

LEMMA DispatchedRef ==
  ASSUME NEW r \in Refs, NEW tok \in Seq(Units)
  PROVE  Dispatched(r, tok) = Ref(KeyedMode(r.mode, tok), Started(r.session, tok), r.at, r.text,
                                  KeyLog(r.log, tok), r.turned)
<1> DEFINE s == Logged(r, "key", tok)
           m == KeyedMode(r.mode, tok)
           session == Started(r.session, tok)
<1>1. s \in Refs /\ s.mode = r.mode /\ s.session = r.session /\ s.at = r.at /\ s.text = r.text
      /\ s.log = Added(r.log, "key", tok) /\ s.turned = r.turned
      /\ s = Ref(r.mode, r.session, r.at, r.text, Added(r.log, "key", tok), r.turned)
  BY LoggedRef, WhatIs
<1>2. m \in KeyModes /\ session \in SessionKinds
  BY RefIs, EventEffects
<1>3. <<Activate>> \notin Unbound
  BY DEF Unbound, Activate, Lead
<1>4. CASE tok \in Unbound
  <2>1. Dispatched(r, tok) = Logged(r, "drop", tok)
    BY <1>4 DEF Dispatched, Unbound
  <2>2. tok # <<Activate>>
    BY <1>3, <1>4
  <2>3. KeyLog(r.log, tok) = Added(r.log, "drop", tok) /\ m = r.mode /\ session = r.session
    BY <1>4, <2>2 DEF KeyLog, KeyedMode, Started
  <2> HIDE DEF m, session
  <2>4. QED
    BY <2>1, <2>3, LoggedRef, WhatIs DEF m, session
<1>5. CASE tok \notin Unbound /\ tok = <<Activate>>
  <2>1. Dispatched(r, tok)
          = [s EXCEPT !.mode = "term", !.session = IF @ = "dead" THEN "plain" ELSE @]
    BY <1>3, <1>5, Zenon DEF Dispatched, Unbound
  <2>2. m = "term" /\ session = IF s.session = "dead" THEN "plain" ELSE s.session
    BY <1>1, <1>5 DEF KeyedMode, Started
  <2> HIDE DEF s, m, session
  <2> DEFINE a == [s EXCEPT !.mode = m]
  <2>3. Dispatched(r, tok) = [a EXCEPT !.session = session]
    BY <1>1, <2>1, <2>2 DEF Refs
  <2>4. a = Ref(m, s.session, s.at, s.text, s.log, s.turned)
    BY <1>1, <1>2, RefMode
  <2> HIDE DEF a
  <2>5. a \in Refs /\ a.mode = m /\ a.at = s.at /\ a.text = s.text /\ a.log = s.log /\ a.turned = s.turned
    BY <1>1, <1>2, <2>4, RefIs, RefOf
  <2>6. Dispatched(r, tok) = Ref(m, session, s.at, s.text, s.log, s.turned)
    BY <1>2, <2>3, <2>5, RefSession
  <2>7. KeyLog(r.log, tok) = Added(r.log, "key", tok)
    BY <1>5 DEF KeyLog
  <2>8. QED
    BY <1>1, <2>6, <2>7 DEF m, session
<1>6. CASE tok \notin Unbound /\ tok # <<Activate>>
  <2>1. Dispatched(r, tok) = s
    BY <1>6, Zenon DEF Dispatched, Unbound
  <2>2. KeyLog(r.log, tok) = Added(r.log, "key", tok) /\ m = r.mode /\ session = r.session
    BY <1>6 DEF KeyLog, KeyedMode, Started
  <2> HIDE DEF s, m, session
  <2>3. QED
    BY <1>1, <2>1, <2>2 DEF m, session
<1>7. QED
  BY <1>4, <1>5, <1>6

LEMMA TermTokenRef ==
  ASSUME NEW r \in Refs, NEW tok \in Seq(Units)
  PROVE  TermToken(r, tok) = Ref(TermMode(r.mode, r.session, tok), r.session, r.at, r.text,
                                 TermLog(r.session, r.log, tok), TermTurned(r.session, r.turned, tok))
<1>1. <<Fs>> # <<Lead, Page>> /\ <<Fs>> # <<Lead, Wheel>> /\ <<Lead, Page>> # <<Lead, Wheel>>
  BY DEF Fs, Page, Wheel
<1>2. CASE Exits(r.session, tok)
  <2> DEFINE s == Logged(r, "exit", tok)
  <2>1. s \in Refs /\ s.session = r.session /\ s.at = r.at /\ s.text = r.text
        /\ s.log = Added(r.log, "exit", tok) /\ s.turned = r.turned
    BY LoggedRef, WhatIs
  <2>2. TermToken(r, tok) = [s EXCEPT !.mode = "keys"]
    BY <1>2, Zenon DEF TermToken, Exits
  <2> HIDE DEF s
  <2>3. [s EXCEPT !.mode = "keys"] = Ref("keys", s.session, s.at, s.text, s.log, s.turned)
    BY <2>1, ChunkUnits, RefMode
  <2>4. /\ TermMode(r.mode, r.session, tok) = "keys" /\ TermLog(r.session, r.log, tok) = Added(r.log, "exit", tok)
        /\ TermTurned(r.session, r.turned, tok) = r.turned
    BY <1>2 DEF TermMode, TermLog, TermTurned, Turns
  <2>5. QED
    BY <2>1, <2>2, <2>3, <2>4
<1>3. CASE ~ Exits(r.session, tok) /\ tok = <<Lead, Page>>
  <2>1. TermToken(r, tok) = Logged(r, "scroll", tok)
    BY <1>3, Zenon DEF TermToken, Exits
  <2>2. /\ TermMode(r.mode, r.session, tok) = r.mode /\ TermLog(r.session, r.log, tok) = Added(r.log, "scroll", tok)
        /\ TermTurned(r.session, r.turned, tok) = r.turned
    BY <1>1, <1>3 DEF TermMode, TermLog, TermTurned, Turns
  <2>3. QED
    BY <2>1, <2>2, LoggedRef, WhatIs
<1>4. CASE ~ Exits(r.session, tok) /\ tok # <<Lead, Page>> /\ Turns(r.session, tok)
  <2>1. TermToken(r, tok) = [r EXCEPT !.turned = @ + 1]
    BY <1>4, Zenon DEF TermToken, Exits, Turns
  <2> DEFINE turned == r.turned + 1
  <2>2. turned \in Nat /\ TermToken(r, tok) = [r EXCEPT !.turned = turned]
    BY <2>1, RefIs DEF Refs
  <2>3. /\ TermMode(r.mode, r.session, tok) = r.mode /\ TermLog(r.session, r.log, tok) = r.log
        /\ TermTurned(r.session, r.turned, tok) = turned
    BY <1>4 DEF TermMode, TermLog, TermTurned
  <2> HIDE DEF turned
  <2>4. QED
    BY <2>2, <2>3, RefTurned
<1>5. CASE ~ Exits(r.session, tok) /\ tok # <<Lead, Page>> /\ ~ Turns(r.session, tok)
  <2> DEFINE log == r.log \o Piped(tok)
  <2>1. TermToken(r, tok) = [r EXCEPT !.log = @ \o [i \in 1 .. Len(tok) |-> <<"pty", <<tok[i]>>>>]]
    BY <1>5, Zenon DEF TermToken, Exits, Turns
  <2>2. TermToken(r, tok) = [r EXCEPT !.log = log] /\ log \in ChunkLogs
    BY <2>1, RefIs, PipedKeeps DEF Refs, Piped
  <2>3. /\ TermMode(r.mode, r.session, tok) = r.mode /\ TermLog(r.session, r.log, tok) = log
        /\ TermTurned(r.session, r.turned, tok) = r.turned
    BY <1>5 DEF TermMode, TermLog, TermTurned
  <2> HIDE DEF log
  <2>4. QED
    BY <2>2, <2>3, RefLog
<1>6. QED
  BY <1>2, <1>3, <1>4, <1>5

(* The reference, an event at a time.                                          *)
LEMMA RefTokenIs ==
  ASSUME NEW r \in Refs, NEW tok \in Seq(Units)
  PROVE  /\ r.mode = "term" =>
              RefToken(r, tok) = Ref(TermMode(r.mode, r.session, tok), r.session, r.at, r.text,
                                     TermLog(r.session, r.log, tok), TermTurned(r.session, r.turned, tok))
         /\ r.mode = "keys" /\ tok # <<Lead, Open>> =>
              RefToken(r, tok) = Ref(KeyedMode(r.mode, tok), Started(r.session, tok), r.at, r.text,
                                     KeyLog(r.log, tok), r.turned)
         /\ r.mode = "keys" /\ tok = <<Lead, Open>> =>
              RefToken(r, tok) = Ref("keys", r.session, "paste", r.text, r.log, r.turned)
         /\ RefToken(r, tok) \in Refs
         /\ r.mode = "term" \/ tok # <<Lead, Open>> =>
              RefToken(r, tok).at = r.at /\ RefToken(r, tok).text = r.text
<1>1. /\ r.mode \in KeyModes /\ r.session \in SessionKinds /\ r.at \in Ats
      /\ r.text \in Seq(Units) /\ r.log \in ChunkLogs /\ r.turned \in Nat
  BY RefIs
<1>2. /\ KeyLog(r.log, tok) \in ChunkLogs /\ KeyedMode(r.mode, tok) \in KeyModes
      /\ Started(r.session, tok) \in SessionKinds
      /\ TermLog(r.session, r.log, tok) \in ChunkLogs /\ TermMode(r.mode, r.session, tok) \in KeyModes
      /\ TermTurned(r.session, r.turned, tok) \in Nat
  BY <1>1, EventEffects
<1>3. CASE r.mode = "term"
  <2>1. RefToken(r, tok) = TermToken(r, tok)
    BY <1>3 DEF RefToken
  <2>2. RefToken(r, tok) = Ref(TermMode(r.mode, r.session, tok), r.session, r.at, r.text,
                               TermLog(r.session, r.log, tok), TermTurned(r.session, r.turned, tok))
    BY <2>1, TermTokenRef
  <2>3. RefToken(r, tok) \in Refs /\ RefToken(r, tok).at = r.at /\ RefToken(r, tok).text = r.text
    BY <1>1, <1>2, <2>2, RefOf
  <2>4. QED
    BY <1>3, <2>2, <2>3
<1>4. CASE r.mode = "keys" /\ tok # <<Lead, Open>>
  <2>1. RefToken(r, tok) = Dispatched(r, tok)
    BY <1>4 DEF RefToken
  <2>2. RefToken(r, tok) = Ref(KeyedMode(r.mode, tok), Started(r.session, tok), r.at, r.text,
                               KeyLog(r.log, tok), r.turned)
    BY <2>1, DispatchedRef
  <2>3. RefToken(r, tok) \in Refs /\ RefToken(r, tok).at = r.at /\ RefToken(r, tok).text = r.text
    BY <1>1, <1>2, <2>2, RefOf
  <2>4. QED
    BY <1>4, <2>2, <2>3
<1>5. CASE r.mode = "keys" /\ tok = <<Lead, Open>>
  <2>1. RefToken(r, tok) = [r EXCEPT !.at = "paste"]
    BY <1>5 DEF RefToken
  <2>2. RefToken(r, tok) = Ref("keys", r.session, "paste", r.text, r.log, r.turned)
    BY <1>5, <2>1, ChunkUnits, RefAt
  <2>3. RefToken(r, tok) \in Refs
    BY <1>1, <2>2, ChunkUnits, RefOf
  <2>4. QED
    BY <1>5, <2>2, <2>3
<1>6. QED
  BY <1>1, <1>3, <1>4, <1>5 DEF KeyModes

(* What one unit does to the reference.                                        *)
LEMMA StepIsUnit ==
  ASSUME NEW r \in Refs, NEW u \in Units
  PROVE  RefStep(r, u) = RefUnit(r, u)
  BY DEF RefStep, Units, Ends, SessionKinds, Lead, Open, Close, KeyK, Activate, Fs, Page, Wheel

LEMMA UnitInPaste ==
  ASSUME NEW r \in Refs, r.at = "paste", NEW u \in Units
  PROVE  /\ u = Close /\ r.text # <<>> /\ Last(r.text) = Lead =>
              RefStep(r, u) = Ref(r.mode, r.session, "plain", <<>>, Added(r.log, "paste", Front(r.text)), r.turned)
         /\ ~ (u = Close /\ r.text # <<>> /\ Last(r.text) = Lead) =>
              RefStep(r, u) = Ref(r.mode, r.session, "paste", Append(r.text, u), r.log, r.turned)
         /\ RefStep(r, u) \in Refs
<1>1. RefStep(r, u) = RefUnit(r, u)
  BY StepIsUnit
<1>2. /\ r.mode \in KeyModes /\ r.session \in SessionKinds
      /\ r.text \in Seq(Units) /\ r.log \in ChunkLogs /\ r.turned \in Nat
  BY RefIs
<1>3. CASE u = Close /\ r.text # <<>> /\ Last(r.text) = Lead
  <2> DEFINE s == Logged(r, "paste", Front(r.text))
             none == <<>>
  <2>1. Front(r.text) \in Seq(Units)
    BY <1>2, <1>3 DEF Front
  <2>2. s \in Refs /\ s.mode = r.mode /\ s.session = r.session
        /\ s.log = Added(r.log, "paste", Front(r.text)) /\ s.turned = r.turned
    BY <2>1, LoggedRef, WhatIs
  <2> HIDE DEF s
  <2>3. RefUnit(r, u) = [s EXCEPT !.at = "plain", !.text = none]
    BY <1>3, Zenon DEF RefUnit, s
  <2>4. none \in Seq(Units)
    OBVIOUS
  <2> HIDE DEF none
  <2>5. [s EXCEPT !.at = "plain", !.text = none] = Ref(s.mode, s.session, "plain", none, s.log, s.turned)
    BY <2>2, <2>4, ChunkUnits, RefAtText
  <2>6. Ref(s.mode, s.session, "plain", none, s.log, s.turned) \in Refs
    BY <2>2, <2>4, ChunkUnits, RefIs, RefOf
  <2>7. QED
    BY <1>1, <1>3, <2>2, <2>3, <2>5, <2>6 DEF none
<1>4. CASE ~ (u = Close /\ r.text # <<>> /\ Last(r.text) = Lead)
  <2> DEFINE text == Append(r.text, u)
  <2>1. text \in Seq(Units)
    BY <1>2
  <2>2. RefUnit(r, u) = [r EXCEPT !.text = text]
    BY <1>4 DEF RefUnit, Refs
  <2> HIDE DEF text
  <2>3. [r EXCEPT !.text = text] = Ref(r.mode, r.session, "paste", text, r.log, r.turned)
    BY <2>1, RefText
  <2>4. Ref(r.mode, r.session, "paste", text, r.log, r.turned) \in Refs
    BY <1>2, <2>1, ChunkUnits, RefOf
  <2>5. QED
    BY <1>1, <1>4, <2>2, <2>3, <2>4 DEF text
<1>5. QED
  BY <1>3, <1>4

(* At neither: a Lead is remembered, any other unit is an event.                *)
AtLead(r) == Ref(r.mode, r.session, "lead", r.text, r.log, r.turned)

LEMMA AtLeadIs ==
  ASSUME NEW r \in Refs, r.at = "plain"
  PROVE  LET l == AtLead(r)
         IN  /\ l \in Refs /\ l.at = "lead" /\ l.mode = r.mode
             /\ [l EXCEPT !.at = "plain"] = r
<1> DEFINE l == AtLead(r)
<1>1. /\ r.mode \in KeyModes /\ r.session \in SessionKinds
      /\ r.text \in Seq(Units) /\ r.log \in ChunkLogs /\ r.turned \in Nat
  BY RefIs
<1>2. /\ l \in Refs /\ l.mode = r.mode /\ l.session = r.session /\ l.at = "lead" /\ l.text = r.text
      /\ l.log = r.log /\ l.turned = r.turned
  BY <1>1, ChunkUnits, RefOf DEF AtLead
<1> HIDE DEF l
<1>3. [l EXCEPT !.at = "plain"] = Ref(l.mode, l.session, "plain", l.text, l.log, l.turned)
  BY <1>2, ChunkUnits, RefAt
<1>4. r = Ref(r.mode, r.session, "plain", r.text, r.log, r.turned)
  BY RefIs
<1>5. QED
  BY <1>2, <1>3, <1>4 DEF l

LEMMA UnitAtPlain ==
  ASSUME NEW r \in Refs, r.at = "plain", NEW u \in Units
  PROVE  /\ u = Lead => RefStep(r, u) = AtLead(r)
         /\ u # Lead => RefStep(r, u) = RefToken(r, <<u>>)
         /\ RefStep(r, u) \in Refs
<1>1. RefStep(r, u) = RefUnit(r, u) /\ <<u>> \in Seq(Units)
  BY StepIsUnit, Tokens
<1>2. LeadEnded(r) = r
  BY DEF LeadEnded
<1>3. CASE u = Lead
  <2>1. RefUnit(r, u) = [r EXCEPT !.at = "lead"]
    BY <1>2, <1>3 DEF RefUnit
  <2>2. QED
    BY <1>1, <1>3, <2>1, ChunkUnits, RefAt, AtLeadIs DEF AtLead
<1>4. CASE u # Lead
  <2>1. RefUnit(r, u) = RefToken(r, <<u>>)
    BY <1>2, <1>4 DEF RefUnit
  <2>2. QED
    BY <1>1, <1>4, <2>1, RefTokenIs
<1>5. QED
  BY <1>3, <1>4

(* At a Lead: an end makes it an event; another Lead, a unit that is no end, or *)
(* a flush lets it go, as if it had been an event of its own.                   *)
LEMMA LeadCompleted ==
  ASSUME NEW r \in Refs, r.at = "plain", NEW u \in Ends
  PROVE  RefStep(RefStep(r, Lead), u) = RefToken(r, <<Lead, u>>)
<1> DEFINE l == AtLead(r)
<1>1. RefStep(r, Lead) = l /\ u \in Units
  BY ChunkUnits, UnitAtPlain
<1>2. l \in Refs /\ l.at = "lead" /\ [l EXCEPT !.at = "plain"] = r
  BY AtLeadIs
<1> HIDE DEF l
<1>3. RefStep(l, u) = RefUnit(l, u)
  BY <1>1, <1>2, StepIsUnit
<1>4. RefUnit(l, u) = RefToken([l EXCEPT !.at = "plain"], <<Lead, u>>)
  BY <1>2 DEF RefUnit
<1>5. QED
  BY <1>1, <1>2, <1>3, <1>4

LEMMA LeadLetsGo ==
  ASSUME NEW r \in Refs, r.at = "plain", NEW u \in (Units \ Ends) \cup {"flush"}
  PROVE  /\ u # "flush" => RefStep(RefStep(r, Lead), u) = RefStep(RefToken(r, <<Lead>>), u)
         /\ u = "flush" => RefStep(RefStep(r, Lead), u) = RefToken(r, <<Lead>>)
         /\ RefStep(RefStep(r, Lead), u) \in Refs
<1> DEFINE l == AtLead(r)
           q == RefToken(r, <<Lead>>)
<1>1. RefStep(r, Lead) = l
  BY ChunkUnits, UnitAtPlain
<1>2. l \in Refs /\ l.at = "lead" /\ [l EXCEPT !.at = "plain"] = r
  BY AtLeadIs
<1> HIDE DEF l
<1>3. LeadEnded(l) = q
  BY <1>2, Zenon DEF LeadEnded
<1>4. q \in Refs /\ q.at = "plain"
  <2>1. <<Lead>> \in Seq(Units) /\ <<Lead>> # <<Lead, Open>>
    BY ChunkUnits, Tokens
  <2>2. QED
    BY <2>1, RefTokenIs
<1> HIDE DEF q
<1>5. LeadEnded(q) = q
  BY <1>4 DEF LeadEnded
<1>6. CASE u = "flush"
  <2>1. RefStep(l, "flush") = LeadEnded(l)
    BY DEF RefStep, SessionKinds
  <2>2. QED
    BY <1>1, <1>3, <1>4, <1>6, <2>1 DEF q
<1>7. CASE u # "flush"
  <2>1. u \in Units /\ u \notin Ends
    BY <1>7
  <2>2. RefStep(l, u) = RefUnit(l, u) /\ RefStep(q, u) = RefUnit(q, u)
    BY <1>2, <1>4, <2>1, StepIsUnit
  <2>3. RefUnit(l, u) = IF u = Lead THEN [q EXCEPT !.at = "lead"] ELSE RefToken(q, <<u>>)
    BY <1>2, <1>3, <2>1, Zenon DEF RefUnit
  <2>4. RefUnit(q, u) = IF u = Lead THEN [q EXCEPT !.at = "lead"] ELSE RefToken(q, <<u>>)
    BY <1>4, <1>5, <2>1, Zenon DEF RefUnit
  <2>5. RefStep(q, u) \in Refs
    BY <1>4, <2>1, UnitAtPlain
  <2>6. QED
    BY <1>1, <1>7, <2>2, <2>3, <2>4, <2>5 DEF q
<1>8. QED
  BY <1>6, <1>7

LEMMA StepOfMode ==
  ASSUME NEW r \in Refs, NEW mode \in KeyModes
  PROVE  RefStep(r, mode) = Ref(mode, r.session, r.at, r.text, r.log, r.turned)
<1>1. RefStep(r, mode) = [r EXCEPT !.mode = mode]
  BY DEF RefStep, KeyModes, SessionKinds
<1>2. QED
  BY <1>1, RefMode

LEMMA StepOfSession ==
  ASSUME NEW r \in Refs, NEW session \in SessionKinds
  PROVE  RefStep(r, session) = Ref(r.mode, session, r.at, r.text, r.log, r.turned)
<1>1. RefStep(r, session) = [r EXCEPT !.session = session]
  BY DEF RefStep, SessionKinds
<1>2. QED
  BY <1>1, RefSession

LEMMA StepKeeps ==
  ASSUME NEW r \in Refs, NEW u \in Told
  PROVE  RefStep(r, u) \in Refs
<1>1. CASE u \in KeyModes
  BY <1>1, StepOfMode, RefIs, RefOf
<1>2. CASE u \in SessionKinds
  BY <1>2, StepOfSession, RefIs, RefOf
<1>3. CASE u \in Units \/ u = "flush"
  <2>1. CASE r.at = "paste"
    <3>1. CASE u = "flush"
      <4>1. RefStep(r, u) = LeadEnded(r)
        BY <3>1 DEF RefStep, SessionKinds
      <4>2. LeadEnded(r) = r
        BY <2>1 DEF LeadEnded
      <4>3. QED
        BY <4>1, <4>2
    <3>2. QED
      BY <1>3, <2>1, <3>1, UnitInPaste
  <2>2. CASE r.at = "plain"
    <3>1. CASE u = "flush"
      <4>1. RefStep(r, u) = LeadEnded(r)
        BY <3>1 DEF RefStep, SessionKinds
      <4>2. LeadEnded(r) = r
        BY <2>2 DEF LeadEnded
      <4>3. QED
        BY <4>1, <4>2
    <3>2. QED
      BY <1>3, <2>2, <3>1, UnitAtPlain
  <2>3. CASE r.at = "lead"
    <3> DEFINE p == Ref(r.mode, r.session, "plain", r.text, r.log, r.turned)
    <3>1. /\ p \in Refs /\ p.at = "plain" /\ p.mode = r.mode /\ p.session = r.session /\ p.text = r.text
          /\ p.log = r.log /\ p.turned = r.turned
      BY RefIs, RefOf, ChunkUnits
    <3> HIDE DEF p
    <3>2. AtLead(p) = r
      BY <2>3, <3>1, RefIs DEF AtLead
    <3>3. RefStep(p, Lead) = r
      BY <3>1, <3>2, ChunkUnits, UnitAtPlain
    <3>4. CASE u \in Ends
      <4>1. RefStep(r, u) = RefToken(p, <<Lead, u>>) /\ <<Lead, u>> \in Seq(Units)
        BY <3>1, <3>3, <3>4, ChunkUnits, Tokens, LeadCompleted
      <4>2. QED
        BY <3>1, <4>1, RefTokenIs
    <3>5. CASE u \notin Ends
      BY <1>3, <3>1, <3>3, <3>5, LeadLetsGo
    <3>6. QED
      BY <3>4, <3>5
  <2>4. QED
    BY <2>1, <2>2, <2>3, RefIs DEF Ats
<1>4. QED
  BY <1>1, <1>2, <1>3 DEF Told, KeyModes
(* A run of the reference over a sequence: where it is after each unit.        *)
Traces(g, r, units) == g[0] = r /\ \A k \in 1 .. Len(units) : g[k] = RefStep(g[k - 1], units[k])
Traced(g, r, units) ==
  /\ g \in [0 .. Len(units) -> Refs]
  /\ Traces(g, r, units)
  /\ g[Len(units)] = RefAfter(r, units)

LEMMA TraceExists ==
  ASSUME NEW r \in Refs, NEW units \in Seq(Told)
  PROVE  \E g : Traced(g, r, units)
<1> DEFINE n == Len(units)
           F == [q \in (1 .. n) \X Refs |-> RefStep(q[2], units[q[1]])]
           Step1(h, i) == IF i = 0 THEN r ELSE RefStep(h[i - 1], units[i])
           at == CHOOSE h : h = [i \in 0 .. n |-> Step1(h, i)]
<1>1. n \in Nat /\ \A k \in 1 .. n : units[k] \in Told
  BY LenProperties, ElementOfSeq
<1>2. F \in [(1 .. n) \X Refs -> Refs]
  <2>1. ASSUME NEW q \in (1 .. n) \X Refs PROVE RefStep(q[2], units[q[1]]) \in Refs
    BY <1>1, StepKeeps
  <2>2. QED
    BY <2>1
<1> HIDE DEF n
<1>3. PICK g \in [0 .. n -> Refs] : g[0] = r /\ \A k \in 1 .. n : g[k] = F[<<k, g[k - 1]>>]
  <2> HIDE DEF F
  <2>1. Stepwise(n, Refs, r, F)
    BY <1>1, <1>2, StepByStep
  <2>2. QED
    BY <2>1 DEF Stepwise
<1>4. \A k \in 0 .. n : g[k] = Step1(g, k)
  <2>1. ASSUME NEW k \in 1 .. n PROVE g[k] = Step1(g, k)
    <3>1. <<k, g[k - 1]>> \in (1 .. n) \X Refs
      BY <1>1, <1>3
    <3>2. QED
      BY <1>3, <3>1
  <2>2. g[0] = Step1(g, 0)
    BY <1>3
  <2>3. QED
    BY <1>1, <2>1, <2>2
<1>5. g = [k \in 0 .. n |-> Step1(g, k)]
  <2> HIDE DEF Step1
  <2>1. QED
    BY <1>3, <1>4
<1>6. at = [k \in 0 .. n |-> Step1(at, k)]
  BY Zenon, <1>5
<1>7. RefAfter(r, units) = at[n]
  BY DEF RefAfter, n
<1> HIDE DEF at
<1>8. \A k \in 0 .. n : at[k] = Step1(at, k)
  <2> HIDE DEF Step1
  <2>1. QED
    BY <1>6
<1>9. \A k \in 0 .. n : at[k] = g[k]
  <2> DEFINE T == {k \in 0 .. n : at[k] = g[k]}
  <2>1. 0 \in T
    BY <1>1, <1>3, <1>8
  <2>2. ASSUME NEW k \in 0 .. n - 1, k \in T PROVE k + 1 \in T
    <3>1. k + 1 \in 0 .. n /\ k + 1 # 0 /\ k + 1 - 1 = k /\ at[k] = g[k]
      BY <1>1, <2>2
    <3>2. at[k + 1] = Step1(at, k + 1) /\ g[k + 1] = Step1(g, k + 1)
      BY <1>4, <1>8, <3>1
    <3>3. at[k + 1] = g[k + 1]
      BY <3>1, <3>2
    <3>4. QED
      BY <3>1, <3>3
  <2> HIDE DEF T
  <2>3. \A k \in 0 .. n : k \in T
    BY <1>1, <2>1, <2>2, Stretch
  <2>4. QED
    BY <2>3 DEF T
<1>10. \A k \in 1 .. n : g[k] = RefStep(g[k - 1], units[k])
  BY <1>1, <1>4
<1>11. Traced(g, r, units)
  BY <1>1, <1>3, <1>7, <1>9, <1>10 DEF Traced, Traces, n
<1>12. QED
  BY <1>11

LEMMA RefAfterKeeps ==
  ASSUME NEW r \in Refs, NEW units \in Seq(Told)
  PROVE  RefAfter(r, units) \in Refs
<1>1. PICK g : Traced(g, r, units)
  BY TraceExists
<1>2. Len(units) \in 0 .. Len(units)
  BY LenProperties
<1>3. QED
  BY <1>1, <1>2 DEF Traced

LEMMA RefAfterNone ==
  ASSUME NEW r \in Refs
  PROVE  RefAfter(r, <<>>) = r
<1>1. <<>> \in Seq(Told) /\ Len(<<>>) = 0
  OBVIOUS
<1>2. PICK g : Traced(g, r, <<>>)
  BY <1>1, TraceExists
<1>3. QED
  BY <1>1, <1>2 DEF Traced, Traces

LEMMA RefAfterOne ==
  ASSUME NEW r \in Refs, NEW u \in Told
  PROVE  RefAfter(r, <<u>>) = RefStep(r, u)
<1>1. <<u>> \in Seq(Told) /\ Len(<<u>>) = 1 /\ <<u>>[1] = u
  OBVIOUS
<1>2. PICK g : Traced(g, r, <<u>>)
  BY <1>1, TraceExists
<1>3. QED
  BY <1>1, <1>2 DEF Traced, Traces

(* What was heard in two pieces was heard.                                      *)
LEMMA RefAfterConcat ==
  ASSUME NEW r \in Refs, NEW s \in Seq(Told), NEW t \in Seq(Told)
  PROVE  RefAfter(r, s \o t) = RefAfter(RefAfter(r, s), t)
<1> DEFINE m == Len(s)
           n == Len(t)
           mid == RefAfter(r, s)
           both == s \o t
<1>1. m \in Nat /\ n \in Nat /\ both \in Seq(Told) /\ Len(both) = m + n
      /\ (\A k \in 1 .. m : both[k] = s[k]) /\ (\A k \in 1 .. n : both[m + k] = t[k])
  BY LenProperties, ConcatProperties
<1> HIDE DEF both
<1>2. mid \in Refs
  BY RefAfterKeeps
<1>3. PICK f : Traced(f, r, both)
  BY <1>1, TraceExists
<1>4. PICK g : Traced(g, r, s)
  BY TraceExists
<1> HIDE DEF mid
<1>5. PICK h : Traced(h, mid, t)
  BY <1>2, TraceExists
<1>6. /\ f[0] = r /\ \A k \in 1 .. m + n : f[k] = RefStep(f[k - 1], both[k])
      /\ f[m + n] = RefAfter(r, both)
  BY <1>1, <1>3 DEF Traced, Traces
<1>7. /\ g[0] = r /\ \A k \in 1 .. m : g[k] = RefStep(g[k - 1], s[k])
      /\ g[m] = mid
  BY <1>4 DEF Traced, Traces, mid
<1>8. /\ h[0] = mid /\ \A k \in 1 .. n : h[k] = RefStep(h[k - 1], t[k])
      /\ h[n] = RefAfter(mid, t)
  BY <1>5 DEF Traced, Traces
<1> HIDE DEF m, n
<1>9. f[m] = mid
  <2> DEFINE T == {k \in 0 .. m : f[k] = g[k]}
  <2>1. 0 \in T
    BY <1>1, <1>6, <1>7
  <2>2. ASSUME NEW k \in 0 .. m - 1, k \in T PROVE k + 1 \in T
    <3>1. k + 1 \in 1 .. m /\ k + 1 \in 1 .. m + n /\ k + 1 - 1 = k /\ f[k] = g[k]
      BY <1>1, <2>2
    <3>2. f[k + 1] = RefStep(f[k + 1 - 1], both[k + 1]) /\ g[k + 1] = RefStep(g[k + 1 - 1], s[k + 1])
      BY <1>6, <1>7, <3>1
    <3>3. both[k + 1] = s[k + 1]
      BY <1>1, <3>1
    <3>4. f[k + 1] = g[k + 1]
      BY <3>1, <3>2, <3>3
    <3>5. QED
      BY <1>1, <3>1, <3>4
  <2> HIDE DEF T
  <2>3. \A k \in 0 .. m : k \in T
    BY <1>1, <2>1, <2>2, Stretch
  <2>4. m \in T
    BY <1>1, <2>3
  <2>5. QED
    BY <1>7, <2>4 DEF T
<1>10. f[m + n] = h[n]
  <2> DEFINE T == {k \in 0 .. n : f[m + k] = h[k]}
  <2>1. 0 \in T
    BY <1>1, <1>8, <1>9
  <2>2. ASSUME NEW k \in 0 .. n - 1, k \in T PROVE k + 1 \in T
    <3>1. k + 1 \in 1 .. n /\ m + (k + 1) \in 1 .. m + n /\ k + 1 - 1 = k
          /\ m + (k + 1) - 1 = m + k /\ f[m + k] = h[k]
      BY <1>1, <2>2
    <3>2. PICK j \in 1 .. m + n : j = m + (k + 1)
      BY <3>1
    <3>3. f[j] = RefStep(f[j - 1], both[j]) /\ h[k + 1] = RefStep(h[k + 1 - 1], t[k + 1])
      BY <1>6, <1>8, <3>1
    <3>4. both[j] = t[k + 1] /\ j - 1 = m + k
      BY <1>1, <3>1, <3>2
    <3>5. f[j] = h[k + 1]
      BY <3>1, <3>3, <3>4
    <3>6. QED
      BY <1>1, <3>1, <3>2, <3>5
  <2> HIDE DEF T
  <2>3. \A k \in 0 .. n : k \in T
    BY <1>1, <2>1, <2>2, Stretch
  <2>4. n \in T
    BY <1>1, <2>3
  <2>5. QED
    BY <2>4 DEF T
<1>11. QED
  BY <1>6, <1>8, <1>10 DEF mid, both

LEMMA RefAfterAppend ==
  ASSUME NEW r \in Refs, NEW s \in Seq(Told), NEW u \in Told
  PROVE  RefAfter(r, Append(s, u)) = RefStep(RefAfter(r, s), u)
<1>1. <<u>> \in Seq(Told) /\ Append(s, u) = s \o <<u>>
  BY AppendIsConcat
<1>2. RefAfter(r, s) \in Refs
  BY RefAfterKeeps
<1>3. RefAfter(r, s \o <<u>>) = RefAfter(RefAfter(r, s), <<u>>)
  BY <1>1, RefAfterConcat, Zenon
<1>4. RefAfter(RefAfter(r, s), <<u>>) = RefStep(RefAfter(r, s), u)
  BY <1>2, RefAfterOne, Zenon
<1>5. QED
  BY <1>1, <1>3, <1>4, Zenon

LEMMA UnitsTold ==
  ASSUME NEW s \in Seq(Units)
  PROVE  s \in Seq(Told)
<1>1. Units \subseteq Told
  BY ChunkUnits
<1> HIDE DEF Told
<1>2. QED
  BY <1>1

(* Parts of a chunk.                                                            *)
LEMMA Cut ==
  ASSUME NEW s \in Seq(Units), NEW m \in 1 .. Len(s) + 1, NEW n \in m - 1 .. Len(s)
  PROVE  /\ SubSeq(s, m, n) \in Seq(Units) /\ Len(SubSeq(s, m, n)) = n - m + 1
         /\ \A i \in 1 .. n - m + 1 : SubSeq(s, m, n)[i] = s[m + i - 1]
<1>1. Len(s) \in Nat /\ m \in Int /\ n \in Int
  BY LenProperties
<1>2. \A i \in m .. n : s[i] \in Units
  BY <1>1, ElementOfSeq
<1>3. /\ SubSeq(s, m, n) \in Seq(Units)
      /\ Len(SubSeq(s, m, n)) = IF m <= n THEN n - m + 1 ELSE 0
      /\ \A i \in 1 .. n - m + 1 : SubSeq(s, m, n)[i] = s[m + i - 1]
  BY <1>1, <1>2, SubSeqProperties
<1>4. QED
  BY <1>1, <1>3

LEMMA PiecesJoin ==
  ASSUME NEW s \in Seq(Units), NEW t \in Seq(Units), NEW u \in Seq(Units)
  PROVE  (s \o t) \o u = s \o (t \o u)
  BY ConcatAssociative

LEMMA CutGrows ==
  ASSUME NEW s \in Seq(Units), NEW m \in 1 .. Len(s), NEW n \in m - 1 .. Len(s) - 1
  PROVE  SubSeq(s, m, n + 1) = Append(SubSeq(s, m, n), s[n + 1])
<1>1. Len(s) \in Nat /\ m \in Nat /\ n \in Int /\ n + 1 \in m .. Len(s) /\ n + 1 - 1 = n
  BY LenProperties
<1>2. SubSeq(s, m, n + 1) = SubSeq(s, m, n + 1 - 1) \o << s[n + 1] >>
  BY <1>1, SubSeqRecursiveSecond
<1>3. SubSeq(s, m, n) \in Seq(Units)
  BY <1>1, Cut
<1>4. s[n + 1] \in Units
  BY <1>1, ElementOfSeq
<1>5. Append(SubSeq(s, m, n), s[n + 1]) = SubSeq(s, m, n) \o << s[n + 1] >>
  BY <1>3, <1>4, AppendIsConcat
<1>6. QED
  BY <1>1, <1>2, <1>5

(* A paste, up to a place no closing marker comes before.                       *)
PasteAt(r, text) == Ref(r.mode, r.session, "paste", text, r.log, r.turned)
PasteDone(r, text) == Ref(r.mode, r.session, "plain", <<>>, Added(r.log, "paste", text), r.turned)

LEMMA PasteAtIs ==
  ASSUME NEW r \in Refs, NEW text \in Seq(Units)
  PROVE  LET p == PasteAt(r, text)
         IN  /\ p \in Refs /\ p.mode = r.mode /\ p.session = r.session /\ p.at = "paste" /\ p.text = text
             /\ p.log = r.log /\ p.turned = r.turned
  BY RefIs, RefOf, ChunkUnits DEF PasteAt

LEMMA PasteOpens ==
  ASSUME NEW r \in Refs, r.mode = "keys", r.at = "plain", r.text = <<>>,
         NEW all \in Seq(Units), Len(all) > 1, all[1] = Lead, all[2] = Open,
         NEW k \in 2 .. Len(all), \A i \in Closings(all) : i >= k
  PROVE  RefAfter(r, SubSeq(all, 1, k)) = PasteAt(r, SubSeq(all, 3, k))
<1> DEFINE T == {j \in 2 .. k : RefAfter(r, SubSeq(all, 1, j)) = PasteAt(r, SubSeq(all, 3, j))}
<1>1. Len(all) \in Nat /\ k \in Nat /\ \A j \in 1 .. Len(all) : all[j] \in Units
  BY LenProperties, ElementOfSeq
<1>2. 2 \in T
  <2>1. SubSeq(all, 1, 0) = <<>> /\ SubSeq(all, 3, 2) = <<>>
    BY SubSeqEmpty
  <2>2. /\ SubSeq(all, 1, 0 + 1) = Append(SubSeq(all, 1, 0), all[0 + 1])
        /\ SubSeq(all, 1, 1 + 1) = Append(SubSeq(all, 1, 1), all[1 + 1])
    BY <1>1, CutGrows
  <2>3. Lead \in Told /\ Open \in Told /\ <<>> \in Seq(Told) /\ Open \in Ends
    BY ChunkUnits
  <2>4. SubSeq(all, 1, 1) \in Seq(Told)
    BY <1>1, Cut, UnitsTold
  <2>5. SubSeq(all, 1, 1) = Append(<<>>, Lead) /\ SubSeq(all, 1, 2) = Append(SubSeq(all, 1, 1), Open)
    <3>1. 0 + 1 = 1 /\ 1 + 1 = 2
      OBVIOUS
    <3>2. QED
      BY <2>1, <2>2, <3>1, Zenon
  <2>6. RefAfter(r, SubSeq(all, 1, 2)) = RefStep(RefStep(r, Lead), Open)
    <3>1. RefAfter(r, Append(SubSeq(all, 1, 1), Open)) = RefStep(RefAfter(r, SubSeq(all, 1, 1)), Open)
      BY <2>3, <2>4, RefAfterAppend, Zenon
    <3>2. RefAfter(r, Append(<<>>, Lead)) = RefStep(RefAfter(r, <<>>), Lead)
      BY <2>3, RefAfterAppend, Zenon
    <3>3. RefAfter(r, <<>>) = r
      BY RefAfterNone, Zenon
    <3>4. QED
      BY <2>5, <3>1, <3>2, <3>3, Zenon
  <2>7. RefStep(RefStep(r, Lead), Open) = RefToken(r, <<Lead, Open>>)
    BY <2>3, LeadCompleted
  <2>8. RefToken(r, <<Lead, Open>>) = PasteAt(r, r.text)
    <3>1. <<Lead, Open>> \in Seq(Units)
      BY ChunkUnits, Tokens
    <3>2. QED
      BY <3>1, RefTokenIs DEF PasteAt
  <2>9. RefAfter(r, SubSeq(all, 1, 2)) = PasteAt(r, SubSeq(all, 3, 2))
    BY <2>1, <2>6, <2>7, <2>8
  <2>10. QED
    BY <1>1, <2>9
<1>3. ASSUME NEW j \in 2 .. k - 1, j \in T PROVE j + 1 \in T
  <2> DEFINE text == SubSeq(all, 3, j)
             u == all[j + 1]
             p == PasteAt(r, text)
  <2>1. j \in Nat /\ j >= 2 /\ j + 1 <= k /\ j + 1 <= Len(all)
    BY <1>1
  <2>2. text \in Seq(Units) /\ Len(text) = j - 2 /\ \A i \in 1 .. j - 2 : text[i] = all[3 + i - 1]
    BY <1>1, <2>1, Cut
  <2>3. SubSeq(all, 1, j + 1) = Append(SubSeq(all, 1, j), u) /\ SubSeq(all, 3, j + 1) = Append(text, u)
    BY <1>1, <2>1, CutGrows
  <2>4. u \in Units /\ u \in Told
    BY <1>1, <2>1, ChunkUnits
  <2>5. SubSeq(all, 1, j) \in Seq(Told)
    BY <1>1, <2>1, Cut, UnitsTold
  <2>6. RefAfter(r, SubSeq(all, 1, j)) = p
    BY <1>3
  <2> HIDE DEF text, u
  <2>7. /\ p \in Refs /\ p.mode = r.mode /\ p.session = r.session /\ p.at = "paste" /\ p.text = text
        /\ p.log = r.log /\ p.turned = r.turned
    BY <2>2, PasteAtIs
  <2>8. ~ (u = Close /\ text # <<>> /\ Last(text) = Lead)
    <3>1. ASSUME u = Close, text # <<>>, Last(text) = Lead PROVE FALSE
      <4>1. j - 2 \in 1 .. j - 2
        BY <2>1, <2>2, <3>1
      <4>2. Last(text) = text[j - 2] /\ text[j - 2] = all[j]
        BY <2>1, <2>2, <4>1 DEF Last
      <4>3. j \in Closings(all)
        BY <1>1, <2>1, <3>1, <4>2 DEF Closings, u
      <4>4. QED
        BY <2>1, <4>3
    <3>2. QED
      BY <3>1
  <2> HIDE DEF p
  <2>9. RefStep(p, u) = Ref(p.mode, p.session, "paste", Append(p.text, u), p.log, p.turned)
    BY <2>4, <2>7, <2>8, UnitInPaste
  <2>10. RefAfter(r, Append(SubSeq(all, 1, j), u)) = RefStep(p, u)
    BY <2>4, <2>5, <2>6, RefAfterAppend
  <2>11. RefAfter(r, SubSeq(all, 1, j + 1)) = PasteAt(r, SubSeq(all, 3, j + 1))
    BY <2>3, <2>7, <2>9, <2>10 DEF PasteAt
  <2>12. QED
    BY <1>1, <2>1, <2>11
<1> HIDE DEF T
<1>4. \A j \in 2 .. k : j \in T
  BY <1>1, <1>2, <1>3, Stretch
<1>5. k \in T
  BY <1>1, <1>4
<1>6. QED
  BY <1>5 DEF T

(* The first closing marker ends it.                                           *)
LEMMA PasteCloses ==
  ASSUME NEW r \in Refs, r.mode = "keys", r.at = "plain", r.text = <<>>,
         NEW all \in Seq(Units), Len(all) > 1, all[1] = Lead, all[2] = Open,
         NEW at \in Closings(all), \A i \in Closings(all) : at <= i
  PROVE  /\ at \in 3 .. Len(all) - 1
         /\ RefAfter(r, SubSeq(all, 1, at + 1)) = PasteDone(r, SubSeq(all, 3, at - 1))
<1> DEFINE text == SubSeq(all, 3, at)
           p == PasteAt(r, text)
<1>1. Len(all) \in Nat /\ \A j \in 1 .. Len(all) : all[j] \in Units
  BY LenProperties, ElementOfSeq
<1>2. at \in 1 .. Len(all) - 1 /\ all[at] = Lead /\ all[at + 1] = Close
  BY DEF Closings
<1>3. at # 1 /\ at # 2
  BY <1>2 DEF Lead, Open, Close
<1>4. at \in 3 .. Len(all) - 1 /\ at \in 2 .. Len(all) /\ at \in Nat
  BY <1>1, <1>2, <1>3
<1>5. \A i \in Closings(all) : i >= at
  BY <1>1, <1>4 DEF Closings
<1>6. RefAfter(r, SubSeq(all, 1, at)) = p
  BY <1>4, <1>5, PasteOpens
<1>7. text \in Seq(Units) /\ Len(text) = at - 2 /\ \A i \in 1 .. at - 2 : text[i] = all[3 + i - 1]
  BY <1>1, <1>4, Cut
<1>8. Last(text) = Lead /\ text # <<>>
  <2>1. at - 2 \in 1 .. at - 2
    BY <1>4
  <2>2. text[at - 2] = all[at]
    BY <1>4, <1>7, <2>1
  <2>3. QED
    BY <1>2, <1>7, <2>1, <2>2 DEF Last
<1>9. Front(text) = SubSeq(all, 3, at - 1)
  <2>1. text = Append(SubSeq(all, 3, at - 1), all[at])
    <3>1. at - 1 \in 3 - 1 .. Len(all) - 1 /\ at - 1 + 1 = at /\ 3 \in 1 .. Len(all)
      BY <1>1, <1>4
    <3>2. QED
      BY <3>1, CutGrows
  <2>2. SubSeq(all, 3, at - 1) \in Seq(Units) /\ all[at] \in Units
    BY <1>1, <1>4, Cut
  <2> DEFINE q == SubSeq(all, 3, at - 1)
  <2> HIDE DEF q, text
  <2>3. Front(Append(q, all[at])) = q
    <3>1. q \in Seq(Units) /\ Len(q) \in Nat
      BY <2>2 DEF q
    <3>2. Len(Append(q, all[at])) = Len(q) + 1 /\ \A i \in 1 .. Len(q) : Append(q, all[at])[i] = q[i]
      BY <2>2, <3>1
    <3>3. QED
      BY <3>1, <3>2 DEF Front
  <2>4. QED
    BY <2>1, <2>3 DEF q
<1> HIDE DEF text
<1>10. /\ p \in Refs /\ p.mode = r.mode /\ p.session = r.session /\ p.at = "paste" /\ p.text = text
       /\ p.log = r.log /\ p.turned = r.turned
  BY <1>7, PasteAtIs
<1> HIDE DEF p
<1>11. RefStep(p, Close) = PasteDone(r, Front(text))
  BY <1>8, <1>10, ChunkUnits, UnitInPaste DEF PasteDone
<1>12. SubSeq(all, 1, at + 1) = Append(SubSeq(all, 1, at), all[at + 1])
  BY <1>1, <1>4, CutGrows
<1>13. SubSeq(all, 1, at) \in Seq(Told) /\ Close \in Told
  BY <1>1, <1>4, Cut, UnitsTold, ChunkUnits
<1>14. RefAfter(r, Append(SubSeq(all, 1, at), Close)) = RefStep(p, Close)
  BY <1>6, <1>13, RefAfterAppend
<1>15. QED
  BY <1>2, <1>4, <1>9, <1>11, <1>12, <1>14

(* The handler.                                                                 *)
Made(h, mode, session, carry, paste, log, turned, isOdd, walk, left) ==
  /\ h \in Handlers
  /\ h.mode = mode /\ h.session = session /\ h.carry = carry /\ h.paste = paste /\ h.log = log
  /\ h.turned = turned /\ h.odd = isOdd /\ h.walk = walk /\ h.left = left

LEMMA HandlerIs ==
  ASSUME NEW st \in Handlers
  PROVE  /\ st.mode \in KeyModes /\ st.session \in SessionKinds
         /\ st.carry \in Seq(Units) /\ st.paste \in Seq(Units)
         /\ st.log \in ChunkLogs /\ st.turned \in Nat /\ st.odd \in BOOLEAN
         /\ st.walk \in Walks /\ st.left \in Seq(Units)
  BY SMTT(30) DEF Handlers

(* The handler with some of its fields replaced, as the parsers do.             *)
LEMMA MadeWalk ==
  ASSUME NEW st \in Handlers, NEW walk \in Walks
  PROVE  Made([st EXCEPT !.walk = walk], st.mode, st.session, st.carry, st.paste, st.log, st.turned, st.odd, walk, st.left)
  BY SMTT(30) DEF Handlers, Made

LEMMA MadeMode ==
  ASSUME NEW st \in Handlers, NEW mode \in KeyModes
  PROVE  Made([st EXCEPT !.mode = mode], mode, st.session, st.carry, st.paste, st.log, st.turned, st.odd, st.walk, st.left)
  BY SMTT(30) DEF Handlers, Made

LEMMA MadeSession ==
  ASSUME NEW st \in Handlers, NEW session \in SessionKinds
  PROVE  Made([st EXCEPT !.session = session], st.mode, session, st.carry, st.paste, st.log, st.turned, st.odd, st.walk, st.left)
  BY SMTT(30) DEF Handlers, Made

LEMMA MadeLog ==
  ASSUME NEW st \in Handlers, NEW log \in ChunkLogs
  PROVE  Made([st EXCEPT !.log = log], st.mode, st.session, st.carry, st.paste, log, st.turned, st.odd, st.walk, st.left)
  BY SMTT(30) DEF Handlers, Made

LEMMA MadeTurned ==
  ASSUME NEW st \in Handlers, NEW turned \in Nat
  PROVE  Made([st EXCEPT !.turned = turned], st.mode, st.session, st.carry, st.paste, st.log, turned, st.odd, st.walk, st.left)
  BY SMTT(30) DEF Handlers, Made

LEMMA MadeCarry ==
  ASSUME NEW st \in Handlers, NEW carry \in Seq(Units)
  PROVE  Made([st EXCEPT !.carry = carry], st.mode, st.session, carry, st.paste, st.log, st.turned, st.odd, st.walk, st.left)
  BY SMTT(30) DEF Handlers, Made

LEMMA MadePaste ==
  ASSUME NEW st \in Handlers, NEW paste \in Seq(Units)
  PROVE  Made([st EXCEPT !.paste = paste], st.mode, st.session, st.carry, paste, st.log, st.turned, st.odd, st.walk, st.left)
  BY SMTT(30) DEF Handlers, Made

LEMMA MadeLeft ==
  ASSUME NEW st \in Handlers, NEW left \in Seq(Units)
  PROVE  Made([st EXCEPT !.left = left], st.mode, st.session, st.carry, st.paste, st.log, st.turned, st.odd, st.walk, left)
  BY SMTT(30) DEF Handlers, Made

LEMMA MadeOdd ==
  ASSUME NEW st \in Handlers, NEW isOdd \in BOOLEAN
  PROVE  Made([st EXCEPT !.odd = isOdd], st.mode, st.session, st.carry, st.paste, st.log, st.turned, isOdd, st.walk, st.left)
  BY SMTT(30) DEF Handlers, Made

LEMMA MadeLogged ==
  ASSUME NEW st \in Handlers, NEW what \in Whats, NEW units \in Seq(Units)
  PROVE  Made(Logged(st, what, units), st.mode, st.session, st.carry, st.paste, Added(st.log, what, units), st.turned, st.odd, st.walk, st.left)
<1> DEFINE log == Added(st.log, what, units)
<1>1. log \in ChunkLogs
  BY HandlerIs, AddedKeeps
<1>2. Logged(st, what, units) = [st EXCEPT !.log = log]
  BY DEF Logged, Added, Handlers
<1> HIDE DEF log
<1>3. Made([st EXCEPT !.log = log], st.mode, st.session, st.carry, st.paste, log, st.turned, st.odd, st.walk, st.left)
  BY <1>1, MadeLog
<1>4. QED
  BY <1>2, <1>3 DEF log


LEMMA MadeModeSession ==
  ASSUME NEW st \in Handlers, NEW mode \in KeyModes, NEW session \in SessionKinds
  PROVE  Made([st EXCEPT !.mode = mode, !.session = session], mode, session, st.carry, st.paste, st.log, st.turned, st.odd, st.walk, st.left)
<1> DEFINE a == [st EXCEPT !.mode = mode]
           b == [a EXCEPT !.session = session]
<1>1. Made(a, mode, st.session, st.carry, st.paste, st.log, st.turned, st.odd, st.walk, st.left)
  BY MadeMode
<1>2. [st EXCEPT !.mode = mode, !.session = session] = b
  BY Zenon
<1> HIDE DEF a
<1>3. Made(b, a.mode, session, a.carry, a.paste, a.log, a.turned, a.odd, a.walk, a.left)
  BY <1>1, MadeSession DEF Made
<1> HIDE DEF b
<1>4. QED
  BY <1>1, <1>2, <1>3 DEF Made

LEMMA MadeLeftOdd ==
  ASSUME NEW st \in Handlers, NEW left \in Seq(Units), NEW isOdd \in BOOLEAN
  PROVE  Made([st EXCEPT !.left = left, !.odd = isOdd], st.mode, st.session, st.carry, st.paste, st.log, st.turned, isOdd, st.walk, left)
<1> DEFINE a == [st EXCEPT !.left = left]
           b == [a EXCEPT !.odd = isOdd]
<1>1. Made(a, st.mode, st.session, st.carry, st.paste, st.log, st.turned, st.odd, st.walk, left)
  BY MadeLeft
<1>2. [st EXCEPT !.left = left, !.odd = isOdd] = b
  BY Zenon
<1> HIDE DEF a
<1>3. Made(b, a.mode, a.session, a.carry, a.paste, a.log, a.turned, isOdd, a.walk, a.left)
  BY <1>1, MadeOdd DEF Made
<1> HIDE DEF b
<1>4. QED
  BY <1>1, <1>2, <1>3 DEF Made

LEMMA MadeWalkLeft ==
  ASSUME NEW st \in Handlers, NEW walk \in Walks, NEW left \in Seq(Units)
  PROVE  Made([st EXCEPT !.walk = walk, !.left = left], st.mode, st.session, st.carry, st.paste, st.log, st.turned, st.odd, walk, left)
<1> DEFINE a == [st EXCEPT !.walk = walk]
           b == [a EXCEPT !.left = left]
<1>1. Made(a, st.mode, st.session, st.carry, st.paste, st.log, st.turned, st.odd, walk, st.left)
  BY MadeWalk
<1>2. [st EXCEPT !.walk = walk, !.left = left] = b
  BY Zenon
<1> HIDE DEF a
<1>3. Made(b, a.mode, a.session, a.carry, a.paste, a.log, a.turned, a.odd, a.walk, left)
  BY <1>1, MadeLeft DEF Made
<1> HIDE DEF b
<1>4. QED
  BY <1>1, <1>2, <1>3 DEF Made

LEMMA MadeLeftWalk ==
  ASSUME NEW st \in Handlers, NEW left \in Seq(Units), NEW walk \in Walks
  PROVE  Made([st EXCEPT !.left = left, !.walk = walk], st.mode, st.session, st.carry, st.paste, st.log, st.turned, st.odd, walk, left)
<1> DEFINE a == [st EXCEPT !.left = left]
           b == [a EXCEPT !.walk = walk]
<1>1. Made(a, st.mode, st.session, st.carry, st.paste, st.log, st.turned, st.odd, st.walk, left)
  BY MadeLeft
<1>2. [st EXCEPT !.left = left, !.walk = walk] = b
  BY Zenon
<1> HIDE DEF a
<1>3. Made(b, a.mode, a.session, a.carry, a.paste, a.log, a.turned, a.odd, walk, a.left)
  BY <1>1, MadeWalk DEF Made
<1> HIDE DEF b
<1>4. QED
  BY <1>1, <1>2, <1>3 DEF Made

LEMMA MadeWalkLeftPaste ==
  ASSUME NEW st \in Handlers, NEW walk \in Walks, NEW left \in Seq(Units), NEW paste \in Seq(Units)
  PROVE  Made([st EXCEPT !.walk = walk, !.left = left, !.paste = paste], st.mode, st.session, st.carry, paste, st.log, st.turned, st.odd, walk, left)
<1> DEFINE a == [st EXCEPT !.walk = walk, !.left = left]
           b == [a EXCEPT !.paste = paste]
<1>1. Made(a, st.mode, st.session, st.carry, st.paste, st.log, st.turned, st.odd, walk, left)
  BY MadeWalkLeft
<1>2. [st EXCEPT !.walk = walk, !.left = left, !.paste = paste] = b
  BY Zenon
<1> HIDE DEF a
<1>3. Made(b, a.mode, a.session, a.carry, paste, a.log, a.turned, a.odd, a.walk, a.left)
  BY <1>1, MadePaste DEF Made
<1> HIDE DEF b
<1>4. QED
  BY <1>1, <1>2, <1>3 DEF Made

LEMMA MadeWalkLeftCarry ==
  ASSUME NEW st \in Handlers, NEW walk \in Walks, NEW left \in Seq(Units), NEW carry \in Seq(Units)
  PROVE  Made([st EXCEPT !.walk = walk, !.left = left, !.carry = carry], st.mode, st.session, carry, st.paste, st.log, st.turned, st.odd, walk, left)
<1> DEFINE a == [st EXCEPT !.walk = walk, !.left = left]
           b == [a EXCEPT !.carry = carry]
<1>1. Made(a, st.mode, st.session, st.carry, st.paste, st.log, st.turned, st.odd, walk, left)
  BY MadeWalkLeft
<1>2. [st EXCEPT !.walk = walk, !.left = left, !.carry = carry] = b
  BY Zenon
<1> HIDE DEF a
<1>3. Made(b, a.mode, a.session, carry, a.paste, a.log, a.turned, a.odd, a.walk, a.left)
  BY <1>1, MadeCarry DEF Made
<1> HIDE DEF b
<1>4. QED
  BY <1>1, <1>2, <1>3 DEF Made

LEMMA MadeWalkCarryLeft ==
  ASSUME NEW st \in Handlers, NEW walk \in Walks, NEW carry \in Seq(Units), NEW left \in Seq(Units)
  PROVE  Made([st EXCEPT !.walk = walk, !.carry = carry, !.left = left], st.mode, st.session, carry, st.paste, st.log, st.turned, st.odd, walk, left)
<1>1. Made([st EXCEPT !.walk = walk, !.left = left, !.carry = carry], st.mode, st.session, carry, st.paste, st.log, st.turned, st.odd, walk, left)
  BY MadeWalkLeftCarry
<1>2. [st EXCEPT !.walk = walk, !.carry = carry, !.left = left] = [st EXCEPT !.walk = walk, !.left = left, !.carry = carry]
  BY DEF Handlers
<1>3. QED
  BY <1>1, <1>2

LEMMA MadeModeSessionOdd ==
  ASSUME NEW st \in Handlers, NEW mode \in KeyModes, NEW session \in SessionKinds, NEW isOdd \in BOOLEAN
  PROVE  Made([st EXCEPT !.mode = mode, !.session = session, !.odd = isOdd], mode, session, st.carry, st.paste, st.log, st.turned, isOdd, st.walk, st.left)
<1> DEFINE a == [st EXCEPT !.mode = mode, !.session = session]
           b == [a EXCEPT !.odd = isOdd]
<1>1. Made(a, mode, session, st.carry, st.paste, st.log, st.turned, st.odd, st.walk, st.left)
  BY MadeModeSession
<1>2. [st EXCEPT !.mode = mode, !.session = session, !.odd = isOdd] = b
  BY Zenon
<1> HIDE DEF a
<1>3. Made(b, a.mode, a.session, a.carry, a.paste, a.log, a.turned, isOdd, a.walk, a.left)
  BY <1>1, MadeOdd DEF Made
<1> HIDE DEF b
<1>4. QED
  BY <1>1, <1>2, <1>3 DEF Made

(* The first event of what is left, and the rest.                               *)
LEMMA EventCut ==
  ASSUME NEW s \in Seq(Units), s # <<>>
  PROVE  /\ FirstEvent(s) \in Seq(Units) /\ OtherEvents(s) \in Seq(Units)
         /\ Len(FirstEvent(s)) = EventLen(s) /\ EventLen(s) \in 1 .. Len(s)
         /\ s = FirstEvent(s) \o OtherEvents(s)
         /\ s[1] \in Units
         /\ \/ \E u \in Ends : FirstEvent(s) = <<Lead, u>>
            \/ /\ FirstEvent(s) = <<s[1]>>
               /\ s[1] = Lead /\ OtherEvents(s) # <<>> => OtherEvents(s)[1] \in Units \ Ends
         /\ OtherEvents(s) # <<>> => Last(OtherEvents(s)) = Last(s)
         /\ FirstEvent(s) = <<s[1]>> /\ OtherEvents(s) = <<>> => Last(s) = s[1]
<1> DEFINE n == EventLen(s)
           tok == SubSeq(s, 1, n)
           rest == SubSeq(s, n + 1, Len(s))
<1>1. Len(s) \in Nat /\ Len(s) >= 1 /\ \A i \in 1 .. Len(s) : s[i] \in Units
  BY LenProperties, ElementOfSeq, EmptySeq
<1>2. n \in 1 .. Len(s) /\ n \in {1, 2}
  BY <1>1 DEF EventLen
<1>3. /\ tok \in Seq(Units) /\ Len(tok) = n /\ \A i \in 1 .. n : tok[i] = s[i]
  <2>1. tok \in Seq(Units) /\ Len(tok) = n - 1 + 1 /\ \A i \in 1 .. n - 1 + 1 : tok[i] = s[1 + i - 1]
    BY <1>1, <1>2, Cut
  <2> HIDE DEF tok, n
  <2>2. QED
    BY <1>2, <2>1
<1>4. /\ rest \in Seq(Units) /\ Len(rest) = Len(s) - n /\ \A i \in 1 .. Len(s) - n : rest[i] = s[n + i]
  <2>1. n + 1 \in 1 .. Len(s) + 1 /\ Len(s) \in n + 1 - 1 .. Len(s)
    BY <1>1, <1>2
  <2>2. rest \in Seq(Units) /\ Len(rest) = Len(s) - (n + 1) + 1
        /\ \A i \in 1 .. Len(s) - (n + 1) + 1 : rest[i] = s[n + 1 + i - 1]
    BY <2>1, Cut
  <2> HIDE DEF rest, n
  <2>3. QED
    BY <1>1, <1>2, <2>2
<1>5. s = tok \o rest
  <2>1. 1 \in 1 .. Len(s) + 1 /\ n \in 1 - 1 .. Len(s) /\ Len(s) \in n .. Len(s)
    BY <1>1, <1>2
  <2>2. tok \o rest = SubSeq(s, 1, Len(s))
    BY <2>1, ConcatAdjacentSubSeq
  <2>3. QED
    BY <2>2, SubSeqFull
<1>6. n = 2 => s[1] = Lead /\ s[2] \in Ends
  BY DEF EventLen
<1>7. n = 1 /\ s[1] = Lead /\ Len(s) > 1 => s[2] \notin Ends
  BY DEF EventLen
<1>8. tok = FirstEvent(s) /\ rest = OtherEvents(s)
  BY DEF FirstEvent, OtherEvents
<1>0. Len(FirstEvent(s)) = EventLen(s) /\ EventLen(s) \in 1 .. Len(s)
  BY <1>2, <1>3, <1>8
<1> HIDE DEF n, tok, rest
<1>9. rest # <<>> => Last(rest) = Last(s)
  <2>1. ASSUME rest # <<>> PROVE Last(rest) = Last(s)
    <3>1. Len(s) - n \in 1 .. Len(s) - n /\ n + (Len(s) - n) = Len(s)
      BY <1>1, <1>2, <1>4, <2>1
    <3>2. rest[Len(s) - n] = s[Len(s)]
      BY <1>4, <3>1
    <3>3. QED
      BY <1>4, <3>2 DEF Last
  <2>2. QED
    BY <2>1
<1>10. CASE n = 1
  <2>1. tok = <<s[1]>>
    BY <1>3, <1>10
  <2>2. s[1] = Lead /\ rest # <<>> => rest[1] \in Units \ Ends
    <3>1. ASSUME s[1] = Lead, rest # <<>> PROVE rest[1] \in Units \ Ends
      <4>1. 1 \in 1 .. Len(s) - n /\ Len(s) > 1 /\ n + 1 = 2
        BY <1>1, <1>4, <1>10, <3>1
      <4>2. rest[1] = s[2]
        BY <1>4, <4>1
      <4>3. QED
        BY <1>1, <1>7, <1>10, <3>1, <4>1, <4>2
    <3>2. QED
      BY <3>1
  <2>3. rest = <<>> => Last(s) = s[1]
    BY <1>1, <1>4, <1>10 DEF Last
  <2>4. s[1] \in Units /\ FirstEvent(s) \in Seq(Units) /\ OtherEvents(s) \in Seq(Units)
    BY <1>1, <1>3, <1>4, <1>8
  <2>5. s = FirstEvent(s) \o OtherEvents(s) /\ (OtherEvents(s) # <<>> => Last(OtherEvents(s)) = Last(s))
    BY <1>5, <1>8, <1>9
  <2>6. /\ FirstEvent(s) = <<s[1]>>
        /\ s[1] = Lead /\ OtherEvents(s) # <<>> => OtherEvents(s)[1] \in Units \ Ends
        /\ OtherEvents(s) = <<>> => Last(s) = s[1]
    BY <1>8, <2>1, <2>2, <2>3
  <2>7. QED
    BY <1>0, <2>4, <2>5, <2>6, Zenon
<1>11. CASE n = 2
  <2>1. tok = <<Lead, s[2]>> /\ s[2] \in Ends
    BY <1>3, <1>6, <1>11
  <2>2. tok # <<s[1]>>
    BY <1>3, <1>11
  <2>3. \E u \in Ends : tok = <<Lead, u>>
    BY <2>1
  <2>4. FirstEvent(s) # <<s[1]>> /\ \E u \in Ends : FirstEvent(s) = <<Lead, u>>
    BY <1>8, <2>2, <2>3
  <2>5. s[1] \in Units /\ FirstEvent(s) \in Seq(Units) /\ OtherEvents(s) \in Seq(Units)
    BY <1>1, <1>3, <1>4, <1>8
  <2>6. s = FirstEvent(s) \o OtherEvents(s) /\ (OtherEvents(s) # <<>> => Last(OtherEvents(s)) = Last(s))
    BY <1>5, <1>8, <1>9
  <2>7. QED
    BY <1>0, <2>4, <2>5, <2>6, Zenon
<1>12. QED
  BY <1>2, <1>10, <1>11

(* A chunk is what its tokens are made of and the partial behind them.          *)
LEMMA WholeAndCarry ==
  ASSUME NEW s \in Seq(Units)
  PROVE  /\ Whole(s) \in Seq(Units) /\ Carry(s) \in Seq(Units) /\ Carry(s) \in {<<>>, <<Lead>>}
         /\ Whole(s) \o Carry(s) = s
         /\ Carry(s) = <<>> /\ Whole(s) # <<>> => Last(Whole(s)) # Lead
<1>1. CASE Partial(s)
  <2>1. PICK q \in Seq(Units), u \in Units : s = Append(q, u)
    BY <1>1, SequenceEmptyOrAppend DEF Partial
  <2>2. Len(q) \in Nat /\ Len(s) = Len(q) + 1 /\ s[Len(q) + 1] = u
        /\ \A i \in 1 .. Len(q) : s[i] = q[i]
    BY <2>1, LenProperties, AppendProperties
  <2>3. u = Lead
    BY <1>1, <2>2 DEF Partial, Last
  <2>4. Front(s) = q
    BY <2>2 DEF Front
  <2>5. s = q \o <<Lead>>
    BY <2>1, <2>3, AppendIsConcat
  <2>6. Whole(s) = q /\ Carry(s) = <<Lead>>
    BY <1>1, <2>4 DEF Whole, Carry
  <2>7. <<Lead>> \in Seq(Units) /\ <<Lead>> # <<>>
    BY ChunkUnits
  <2>8. QED
    BY <2>5, <2>6, <2>7
<1>2. CASE ~Partial(s)
  <2>1. Whole(s) = s /\ Carry(s) = <<>> /\ <<>> \in Seq(Units)
    BY <1>2 DEF Whole, Carry
  <2>2. s \o <<>> = s
    BY ConcatEmptySeq
  <2>3. QED
    BY <1>2, <2>1, <2>2 DEF Partial
<1>3. QED
  BY <1>1, <1>2

(* What a handler is between the steps, besides where it is in what was heard.  *)
PasteOK(st) ==
  /\ st.mode = "keys" /\ st.carry = <<>> /\ st.walk \in {"none", "data"}
  /\ Len(st.paste) > 1 /\ st.paste[1] = Lead /\ st.paste[2] = Open
  /\ Closings(st.paste) = {}
Shape(st) ==
  /\ st.carry \in {<<>>, <<Lead>>}
  /\ st.walk = "none" => st.left = <<>>
  /\ st.walk # "keys" /\ st.mode = "term" => st.carry = <<>>
  /\ st.walk = "terminal" => st.mode = "term"
  /\ st.walk = "keys" /\ st.left # <<>> /\ Last(st.left) = Lead => st.carry # <<>>
  /\ st.paste # <<>> => PasteOK(st)
Position(st) == RefAfter(Seen(st), Coming(st))

Plain(mode, session, log, turned) == Ref(mode, session, "plain", <<>>, log, turned)
PlainOf(st) == Plain(st.mode, st.session, st.log, st.turned)

LEMMA PlainIs ==
  ASSUME NEW mode \in KeyModes, NEW session \in SessionKinds, NEW log \in ChunkLogs, NEW turned \in Nat
  PROVE  LET r == Plain(mode, session, log, turned)
         IN  /\ r \in Refs
             /\ r.mode = mode /\ r.session = session /\ r.at = "plain" /\ r.text = <<>>
             /\ r.log = log /\ r.turned = turned
<1> DEFINE none == <<>>
           r == Ref(mode, session, "plain", none, log, turned)
<1>1. "plain" \in Ats /\ none \in Seq(Units)
  BY ChunkUnits
<1> HIDE DEF none
<1>2. /\ r \in Refs
      /\ r.mode = mode /\ r.session = session /\ r.at = "plain" /\ r.text = none
      /\ r.log = log /\ r.turned = turned
  BY <1>1, RefOf
<1>3. QED
  BY <1>2 DEF Plain, none

LEMMA PlainOfIs ==
  ASSUME NEW st \in Handlers
  PROVE  LET r == PlainOf(st)
         IN  /\ r \in Refs
             /\ r.mode = st.mode /\ r.session = st.session /\ r.at = "plain" /\ r.text = <<>>
             /\ r.log = st.log /\ r.turned = st.turned
  BY HandlerIs, PlainIs DEF PlainOf

LEMMA SeenPlain ==
  ASSUME NEW st \in Handlers, st.paste = <<>>
  PROVE  Seen(st) = PlainOf(st)
<1>1. SubSeq(<<>>, 3, Len(<<>>)) = <<>>
  BY SubSeqEmpty
<1>2. QED
  BY <1>1 DEF Seen, Plain, PlainOf

LEMMA SeenPasting ==
  ASSUME NEW st \in Handlers, st.paste # <<>>, PasteOK(st)
  PROVE  Seen(st) = RefAfter(PlainOf(st), st.paste)
<1> DEFINE r == PlainOf(st)
           k == Len(st.paste)
<1>1. st.paste \in Seq(Units)
  BY HandlerIs
<1>2. /\ r \in Refs /\ r.mode = "keys" /\ r.session = st.session /\ r.at = "plain" /\ r.text = <<>>
      /\ r.log = st.log /\ r.turned = st.turned
  BY PlainOfIs DEF PasteOK
<1>3. k \in 2 .. k /\ k > 1 /\ st.paste[1] = Lead /\ st.paste[2] = Open /\ Closings(st.paste) = {}
  BY <1>1, LenProperties DEF PasteOK
<1> HIDE DEF r
<1>4. RefAfter(r, SubSeq(st.paste, 1, k)) = PasteAt(r, SubSeq(st.paste, 3, k))
  BY <1>1, <1>2, <1>3, PasteOpens
<1>5. SubSeq(st.paste, 1, k) = st.paste
  BY <1>1, SubSeqFull
<1>6. Seen(st) = Ref("keys", st.session, "paste", SubSeq(st.paste, 3, k), st.log, st.turned)
  BY DEF Seen, PasteOK
<1>7. QED
  BY <1>2, <1>4, <1>5, <1>6 DEF PasteAt, r

LEMMA SeenIs ==
  ASSUME NEW st \in Handlers
  PROVE  LET r == Seen(st)
         IN  /\ r \in Refs
             /\ r.mode = st.mode /\ r.session = st.session /\ r.at = IF st.paste # <<>> THEN "paste" ELSE "plain"
             /\ r.log = st.log /\ r.turned = st.turned
<1> DEFINE text == SubSeq(st.paste, 3, Len(st.paste))
           at == IF st.paste # <<>> THEN "paste" ELSE "plain"
<1>0. /\ st.mode \in KeyModes /\ st.session \in SessionKinds /\ st.paste \in Seq(Units)
      /\ st.log \in ChunkLogs /\ st.turned \in Nat
  BY HandlerIs
<1>1. text \in Seq(Units)
  <2>1. Len(st.paste) \in Int /\ 3 \in Int /\ \A i \in 3 .. Len(st.paste) : st.paste[i] \in Units
    BY <1>0
  <2>2. QED
    BY <2>1, SubSeqProperties
<1>2. at \in Ats
  BY ChunkUnits
<1>3. Seen(st) = Ref(st.mode, st.session, at, text, st.log, st.turned)
  BY DEF Seen
<1> HIDE DEF text, at
<1>4. QED
  BY <1>0, <1>1, <1>2, <1>3, RefOf DEF at

LEMMA ComingIs ==
  ASSUME NEW st \in Handlers
  PROVE  /\ Coming(st) \in Seq(Units) /\ Coming(st) \in Seq(Told)
         /\ st.carry = <<>> => Coming(st) = st.left
         /\ st.left = <<>> => Coming(st) = st.carry
<1>1. st.carry \in Seq(Units) /\ st.left \in Seq(Units)
  BY HandlerIs
<1>2. st.carry \o st.left \in Seq(Units) /\ st.left \o st.carry \in Seq(Units)
  BY <1>1
<1>3. Coming(st) \in Seq(Units)
  BY <1>2 DEF Coming
<1>4. \A s \in Seq(Units) : s \o <<>> = s /\ <<>> \o s = s
  BY ConcatEmptySeq
<1>5. st.carry = <<>> => Coming(st) = st.left
  BY <1>1, <1>4 DEF Coming
<1>6. st.left = <<>> => Coming(st) = st.carry
  BY <1>1, <1>4 DEF Coming
<1>7. QED
  BY <1>3, <1>5, <1>6, UnitsTold

(* An event does to the handler what it does to the reference.                   *)
LEMMA MadeDispatched ==
  ASSUME NEW st \in Handlers, NEW tok \in Seq(Units)
  PROVE  Made(Dispatched(st, tok), KeyedMode(st.mode, tok), Started(st.session, tok), st.carry, st.paste,
              KeyLog(st.log, tok), st.turned, st.odd, st.walk, st.left)
<1> DEFINE s == Logged(st, "key", tok)
           m == KeyedMode(st.mode, tok)
           session == Started(st.session, tok)
<1>0. st.mode \in KeyModes /\ st.session \in SessionKinds /\ m \in KeyModes /\ session \in SessionKinds
  BY HandlerIs, EventEffects
<1>1. Made(s, st.mode, st.session, st.carry, st.paste, Added(st.log, "key", tok), st.turned, st.odd, st.walk, st.left)
  BY MadeLogged, WhatIs
<1>2. <<Activate>> \notin Unbound
  BY DEF Unbound, Activate, Lead
<1>3. CASE tok \in Unbound
  <2>1. Dispatched(st, tok) = Logged(st, "drop", tok)
    BY <1>3 DEF Dispatched, Unbound
  <2>2. KeyLog(st.log, tok) = Added(st.log, "drop", tok) /\ m = st.mode /\ session = st.session
    BY <1>2, <1>3 DEF KeyLog, KeyedMode, Started
  <2> HIDE DEF m, session
  <2>3. QED
    BY <2>1, <2>2, MadeLogged, WhatIs DEF m, session
<1>4. CASE tok \notin Unbound /\ tok = <<Activate>>
  <2>1. Dispatched(st, tok)
          = [s EXCEPT !.mode = "term", !.session = IF @ = "dead" THEN "plain" ELSE @]
    BY <1>2, <1>4, Zenon DEF Dispatched, Unbound
  <2>2. m = "term" /\ session = (IF s.session = "dead" THEN "plain" ELSE s.session)
    BY <1>1, <1>4 DEF KeyedMode, Started, Made
  <2> HIDE DEF s, m, session
  <2> DEFINE a == [s EXCEPT !.mode = m]
             d == [a EXCEPT !.session = session]
  <2>3. Dispatched(st, tok) = d
    <3>1. s \in Handlers
      BY <1>1 DEF Made
    <3>2. QED
      BY <2>1, <2>2, <3>1 DEF Handlers
  <2>4. Made(d, m, session, s.carry, s.paste, s.log, s.turned, s.odd, s.walk, s.left)
    <3>1. Made(a, m, s.session, s.carry, s.paste, s.log, s.turned, s.odd, s.walk, s.left)
      BY <1>0, <1>1, MadeMode DEF Made
    <3> HIDE DEF a
    <3>2. Made(d, a.mode, session, a.carry, a.paste, a.log, a.turned, a.odd, a.walk, a.left)
      BY <1>0, <3>1, MadeSession DEF Made
    <3> HIDE DEF d
    <3>3. QED
      BY <3>1, <3>2 DEF Made
  <2>5. KeyLog(st.log, tok) = Added(st.log, "key", tok)
    BY <1>4 DEF KeyLog
  <2> HIDE DEF d
  <2>6. Made(d, m, session, st.carry, st.paste, KeyLog(st.log, tok), st.turned, st.odd, st.walk, st.left)
    BY <1>1, <2>4, <2>5 DEF Made
  <2>7. QED
    BY <2>3, <2>6, Zenon DEF m, session
<1>5. CASE tok \notin Unbound /\ tok # <<Activate>>
  <2>1. Dispatched(st, tok) = s
    BY <1>5, Zenon DEF Dispatched, Unbound
  <2>2. KeyLog(st.log, tok) = Added(st.log, "key", tok) /\ m = st.mode /\ session = st.session
    BY <1>5 DEF KeyLog, KeyedMode, Started
  <2> HIDE DEF s, m, session
  <2>3. QED
    BY <1>1, <2>1, <2>2 DEF m, session
<1>6. QED
  BY <1>3, <1>4, <1>5

LEMMA MadeTermToken ==
  ASSUME NEW st \in Handlers, NEW tok \in Seq(Units)
  PROVE  Made(TermToken(st, tok), TermMode(st.mode, st.session, tok), st.session, st.carry, st.paste,
              TermLog(st.session, st.log, tok), TermTurned(st.session, st.turned, tok),
              st.odd, st.walk, st.left)
<1>1. <<Fs>> # <<Lead, Page>> /\ <<Fs>> # <<Lead, Wheel>> /\ <<Lead, Page>> # <<Lead, Wheel>>
  BY DEF Fs, Page, Wheel
<1>2. CASE Exits(st.session, tok)
  <2> DEFINE s == Logged(st, "exit", tok)
             e == [s EXCEPT !.mode = "keys"]
  <2>1. Made(s, st.mode, st.session, st.carry, st.paste, Added(st.log, "exit", tok), st.turned, st.odd, st.walk, st.left)
    BY MadeLogged, WhatIs
  <2>2. TermToken(st, tok) = e
    BY <1>2, Zenon DEF TermToken, Exits
  <2> HIDE DEF s
  <2>3. Made(e, "keys", s.session, s.carry, s.paste, s.log, s.turned, s.odd, s.walk, s.left)
    BY <2>1, ChunkUnits, MadeMode DEF Made
  <2>4. /\ TermMode(st.mode, st.session, tok) = "keys" /\ TermLog(st.session, st.log, tok) = Added(st.log, "exit", tok)
        /\ TermTurned(st.session, st.turned, tok) = st.turned
    BY <1>2 DEF TermMode, TermLog, TermTurned, Turns
  <2> HIDE DEF e
  <2>5. QED
    BY <2>1, <2>2, <2>3, <2>4 DEF Made
<1>3. CASE ~ Exits(st.session, tok) /\ tok = <<Lead, Page>>
  <2>1. TermToken(st, tok) = Logged(st, "scroll", tok)
    BY <1>3, Zenon DEF TermToken, Exits
  <2>2. /\ TermMode(st.mode, st.session, tok) = st.mode
        /\ TermLog(st.session, st.log, tok) = Added(st.log, "scroll", tok)
        /\ TermTurned(st.session, st.turned, tok) = st.turned
    BY <1>1, <1>3 DEF TermMode, TermLog, TermTurned, Turns
  <2>3. QED
    BY <2>1, <2>2, MadeLogged, WhatIs
<1>4. CASE ~ Exits(st.session, tok) /\ tok # <<Lead, Page>> /\ Turns(st.session, tok)
  <2>1. TermToken(st, tok) = [st EXCEPT !.turned = @ + 1]
    BY <1>4, Zenon DEF TermToken, Exits, Turns
  <2> DEFINE turned == st.turned + 1
  <2>2. turned \in Nat /\ TermToken(st, tok) = [st EXCEPT !.turned = turned]
    BY <2>1, HandlerIs DEF Handlers
  <2>3. /\ TermMode(st.mode, st.session, tok) = st.mode /\ TermLog(st.session, st.log, tok) = st.log
        /\ TermTurned(st.session, st.turned, tok) = turned
    BY <1>4 DEF TermMode, TermLog, TermTurned
  <2> HIDE DEF turned
  <2>4. QED
    BY <2>2, <2>3, MadeTurned
<1>5. CASE ~ Exits(st.session, tok) /\ tok # <<Lead, Page>> /\ ~ Turns(st.session, tok)
  <2> DEFINE log == st.log \o Piped(tok)
  <2>1. TermToken(st, tok) = [st EXCEPT !.log = @ \o [i \in 1 .. Len(tok) |-> <<"pty", <<tok[i]>>>>]]
    BY <1>5, Zenon DEF TermToken, Exits, Turns
  <2>2. TermToken(st, tok) = [st EXCEPT !.log = log] /\ log \in ChunkLogs
    BY <2>1, HandlerIs, PipedKeeps DEF Handlers, Piped
  <2>3. /\ TermMode(st.mode, st.session, tok) = st.mode /\ TermLog(st.session, st.log, tok) = log
        /\ TermTurned(st.session, st.turned, tok) = st.turned
    BY <1>5 DEF TermMode, TermLog, TermTurned
  <2> HIDE DEF log
  <2>4. QED
    BY <2>2, <2>3, MadeLog
<1>6. QED
  BY <1>2, <1>3, <1>4, <1>5

(* The rest of a chunk as a chunk of its own: nothing is heard, nothing lost.    *)
LEMMA ReemittedGoesOn ==
  ASSUME NEW st \in Handlers
  PROVE  LET next == Reemitted(st)
         IN  /\ next \in Handlers /\ next.odd = st.odd
             /\ st.paste = <<>> /\ st.walk \in {"terminal", "keys"} => Shape(next) /\ Position(next) = Position(st)
<1> DEFINE next == Reemitted(st)
           all == st.left \o st.carry
           none == <<>>
<1>0. st.carry \in Seq(Units) /\ st.left \in Seq(Units)
  BY HandlerIs
<1>1. all \in Seq(Units) /\ "data" \in Walks /\ none \in Seq(Units)
  BY <1>0 DEF Walks
<1>2. next = [st EXCEPT !.walk = "data", !.left = all, !.carry = none]
  BY DEF Reemitted, Handlers
<1> HIDE DEF all, none, next
<1>3. Made(next, st.mode, st.session, none, st.paste, st.log, st.turned, st.odd, "data", all)
  BY <1>1, <1>2, MadeWalkLeftCarry
<1>4. ASSUME st.paste = <<>>, st.walk \in {"terminal", "keys"} PROVE Shape(next) /\ Position(next) = Position(st)
  <2>1. Shape(next)
    BY <1>3, <1>4 DEF Shape, none, Made
  <2>2. Seen(next) = Seen(st)
    BY <1>3, <1>4 DEF Seen, Made
  <2>3. Coming(st) = all
    BY <1>4 DEF Coming, all
  <2>4. Coming(next) = all
    BY <1>3, ComingIs DEF Made, none
  <2>5. QED
    BY <2>1, <2>2, <2>3, <2>4 DEF Position
<1>5. QED
  BY <1>3, <1>4 DEF next, Made

(* A token is heard as one event.                                               *)
LEMMA RefAfterFirst ==
  ASSUME NEW r \in Refs, NEW s \in Seq(Units), s # <<>>
  PROVE  RefAfter(r, s) = RefAfter(RefStep(r, s[1]), SubSeq(s, 2, Len(s)))
<1> DEFINE q == SubSeq(s, 2, Len(s))
<1>1. Len(s) \in Nat /\ Len(s) >= 1 /\ s[1] \in Units
  BY LenProperties, ElementOfSeq, EmptySeq
<1>2. s = <<s[1]>> \o q
  <2>1. 1 \in 1 .. Len(s) /\ Len(s) \in 1 .. Len(s) /\ 1 + 1 = 2
    BY <1>1
  <2>2. SubSeq(s, 1, Len(s)) = <<s[1]>> \o SubSeq(s, 1 + 1, Len(s))
    BY <2>1, SubSeqRecursiveFirst
  <2>3. SubSeq(s, 1, Len(s)) = s
    BY SubSeqFull
  <2>4. QED
    BY <2>1, <2>2, <2>3
<1>3. q \in Seq(Units)
  <2>1. 2 \in 1 .. Len(s) + 1 /\ Len(s) \in 2 - 1 .. Len(s)
    BY <1>1
  <2>2. QED
    BY <2>1, Cut
<1>4. <<s[1]>> \in Seq(Told) /\ q \in Seq(Told) /\ s[1] \in Told
  BY <1>1, <1>3, Tokens, UnitsTold, ChunkUnits
<1> HIDE DEF q
<1>5. RefAfter(r, <<s[1]>> \o q) = RefAfter(RefAfter(r, <<s[1]>>), q)
  BY <1>4, RefAfterConcat, Zenon
<1>6. RefAfter(r, <<s[1]>>) = RefStep(r, s[1])
  BY <1>4, RefAfterOne, Zenon
<1>7. QED
  BY <1>2, <1>5, <1>6, Zenon DEF q

LEMMA TokenHeard ==
  ASSUME NEW r \in Refs, r.at = "plain", NEW tok \in Seq(Units), NEW more \in Seq(Units),
         \/ \E u \in Ends : tok = <<Lead, u>>
         \/ \E u \in Units : tok = <<u>> /\ (u = Lead => more # <<>> /\ more[1] \in Units \ Ends)
  PROVE  RefAfter(r, tok \o more) = RefAfter(RefToken(r, tok), more)
<1>1. tok \in Seq(Told) /\ more \in Seq(Told)
  BY UnitsTold
<1>2. RefAfter(r, tok \o more) = RefAfter(RefAfter(r, tok), more)
  BY <1>1, RefAfterConcat, Zenon
<1>3. CASE \E u \in Ends : tok = <<Lead, u>>
  <2>1. PICK u \in Ends : tok = <<Lead, u>>
    BY <1>3
  <2>2. <<Lead>> \in Seq(Told) /\ Lead \in Told /\ u \in Told
    BY ChunkUnits
  <2>3. tok = Append(<<Lead>>, u)
    BY <2>1
  <2>4. RefAfter(r, <<Lead>>) = RefStep(r, Lead)
    BY <2>2, RefAfterOne
  <2>5. RefAfter(r, Append(<<Lead>>, u)) = RefStep(RefStep(r, Lead), u)
    BY <2>2, <2>4, RefAfterAppend
  <2>6. RefStep(RefStep(r, Lead), u) = RefToken(r, <<Lead, u>>)
    BY LeadCompleted
  <2>7. QED
    BY <1>2, <2>1, <2>3, <2>5, <2>6
<1>4. CASE \E u \in Units : tok = <<u>> /\ (u = Lead => more # <<>> /\ more[1] \in Units \ Ends)
  <2>1. PICK u \in Units : tok = <<u>> /\ (u = Lead => more # <<>> /\ more[1] \in Units \ Ends)
    BY <1>4
  <2>2. RefAfter(r, tok) = RefStep(r, u)
    BY <2>1, ChunkUnits, RefAfterOne
  <2>3. CASE u # Lead
    BY <1>2, <2>1, <2>2, <2>3, UnitAtPlain
  <2>4. CASE u = Lead
    <3> DEFINE x == more[1]
               q == SubSeq(more, 2, Len(more))
               d == RefToken(r, <<Lead>>)
               l == RefStep(r, Lead)
    <3>1. more # <<>> /\ x \in Units \ Ends /\ x # "flush"
      <4>1. more # <<>> /\ x \in Units \ Ends
        BY <2>1, <2>4
      <4>2. "flush" \notin Units
        BY DEF Units, Ends, KeyK, Open, Close, Page, Wheel, Activate, Fs, Lead
      <4>3. QED
        BY <4>1, <4>2
    <3>2. d \in Refs /\ l \in Refs
      BY ChunkUnits, Tokens, RefTokenIs, StepKeeps
    <3>3. RefStep(l, x) = RefStep(d, x)
      BY <3>1, LeadLetsGo
    <3> HIDE DEF d, l
    <3>4. RefAfter(l, more) = RefAfter(RefStep(l, x), q)
      BY <3>1, <3>2, RefAfterFirst
    <3>5. RefAfter(d, more) = RefAfter(RefStep(d, x), q)
      BY <3>1, <3>2, RefAfterFirst
    <3>6. QED
      BY <1>2, <2>1, <2>2, <2>4, <3>3, <3>4, <3>5 DEF d, l
  <2>5. QED
    BY <2>3, <2>4
<1>5. QED
  BY <1>3, <1>4

(* One event on the keyboard ladder.                                            *)
LEMMA KeysGoOn ==
  ASSUME NEW st \in Handlers, st.walk = "keys"
  PROVE  LET next == AtKeys(st)
         IN  /\ next \in Handlers /\ next.odd = st.odd
             /\ Shape(st) => Shape(next) /\ Position(next) = Position(st)
<1> DEFINE tok == FirstEvent(st.left)
           rest == OtherEvents(st.left)
           next == AtKeys(st)
           Ended == st.left = <<>> /\ (st.mode = "keys" \/ st.carry = <<>>)
           Hands == st.mode = "term" \/ tok = <<Lead, Open>>
<1>0. /\ st.mode \in KeyModes /\ st.session \in SessionKinds /\ st.carry \in Seq(Units) /\ st.paste \in Seq(Units)
      /\ st.log \in ChunkLogs /\ st.odd \in BOOLEAN /\ st.walk \in Walks /\ st.left \in Seq(Units)
  BY HandlerIs
<1>1. Shape(st) => st.paste = <<>>
  BY DEF Shape, PasteOK
<1>2. CASE Ended
  <2>1. next = [st EXCEPT !.walk = "none"] /\ "none" \in Walks
    BY <1>2, Zenon DEF AtKeys, Walks
  <2> HIDE DEF next
  <2>2. Made(next, st.mode, st.session, st.carry, st.paste, st.log, st.turned, st.odd, "none", st.left)
    BY <2>1, MadeWalk
  <2>3. ASSUME Shape(st) PROVE Shape(next) /\ Position(next) = Position(st)
    <3>1. Shape(next)
      BY <1>0, <1>1, <1>2, <2>2, <2>3 DEF Shape, KeyModes, Made
    <3>2. Seen(next) = Seen(st)
      BY <2>2 DEF Seen, Made
    <3>3. Coming(st) = st.carry /\ Coming(next) = st.carry
      BY <1>2, <2>2, ComingIs DEF Made
    <3>4. QED
      BY <3>1, <3>2, <3>3 DEF Position
  <2>4. QED
    BY <2>2, <2>3 DEF next, Made
<1>3. CASE ~Ended /\ Hands
  <2>1. next = Reemitted(st)
    BY <1>3, Zenon DEF AtKeys
  <2>2. QED
    BY <1>1, <2>1, ReemittedGoesOn
<1>4. CASE ~Ended /\ ~Hands
  <2> DEFINE inner == [st EXCEPT !.left = rest]
  <2>1. next = Dispatched(inner, tok)
    BY <1>4, Zenon DEF AtKeys
  <2>2. st.mode = "keys" /\ st.left # <<>> /\ tok # <<Lead, Open>>
    BY <1>0, <1>4 DEF KeyModes
  <2>3. /\ tok \in Seq(Units) /\ rest \in Seq(Units) /\ st.left = tok \o rest /\ st.left[1] \in Units
        /\ \/ \E u \in Ends : tok = <<Lead, u>>
           \/ /\ tok = <<st.left[1]>>
              /\ st.left[1] = Lead /\ rest # <<>> => rest[1] \in Units \ Ends
        /\ rest # <<>> => Last(rest) = Last(st.left)
        /\ tok = <<st.left[1]>> /\ rest = <<>> => Last(st.left) = st.left[1]
    BY <1>0, <2>2, EventCut
  <2> HIDE DEF tok, rest, next
  <2>4. Made(inner, st.mode, st.session, st.carry, st.paste, st.log, st.turned, st.odd, st.walk, rest)
    BY <2>3, MadeLeft
  <2> HIDE DEF inner
  <2> DEFINE m == KeyedMode(st.mode, tok)
             session == Started(st.session, tok)
             log == KeyLog(st.log, tok)
  <2>5. Made(next, KeyedMode(inner.mode, tok), Started(inner.session, tok), inner.carry, inner.paste,
             KeyLog(inner.log, tok), inner.turned, inner.odd, inner.walk, inner.left)
    BY <2>1, <2>3, <2>4, MadeDispatched DEF Made
  <2>6. Made(next, m, session, st.carry, st.paste, log, st.turned, st.odd, "keys", rest)
    BY <2>4, <2>5 DEF Made
  <2>7. ASSUME Shape(st) PROVE Shape(next) /\ Position(next) = Position(st)
    <3> DEFINE r == PlainOf(st)
               more == rest \o st.carry
    <3>1. Shape(next)
      <4> HIDE DEF m, session, log
      <4>1. QED
        BY <1>1, <2>2, <2>3, <2>6, <2>7 DEF Shape, Made
    <3>2. /\ r \in Refs /\ r.mode = "keys" /\ r.session = st.session /\ r.at = "plain" /\ r.text = <<>>
          /\ r.log = st.log /\ r.turned = st.turned
      BY <2>2, PlainOfIs
    <3>3. Seen(st) = r
      BY <1>1, <2>7, SeenPlain
    <3>4. Seen(next) = RefToken(r, tok)
      <4> HIDE DEF r
      <4>1. Seen(next) = PlainOf(next)
        BY <1>1, <2>6, <2>7, SeenPlain DEF Made
      <4>2. PlainOf(next) = Plain(m, session, log, st.turned)
        BY <2>6 DEF PlainOf, Made
      <4>3. RefToken(r, tok) = Ref(KeyedMode(r.mode, tok), Started(r.session, tok), r.at, r.text,
                                   KeyLog(r.log, tok), r.turned)
        BY <2>2, <2>3, <3>2, RefTokenIs
      <4>4. RefToken(r, tok) = Plain(m, session, log, st.turned)
        BY <2>2, <3>2, <4>3 DEF Plain
      <4>5. QED
        BY <4>1, <4>2, <4>4
    <3>5. Coming(st) = tok \o more /\ Coming(next) = more /\ more \in Seq(Units)
      <4>1. Coming(st) = (tok \o rest) \o st.carry
        <5>1. Coming(st) = st.left \o st.carry
          BY DEF Coming
        <5>2. st.left = tok \o rest
          BY <2>3
        <5>3. QED
          BY <5>1, <5>2
      <4>2. (tok \o rest) \o st.carry = tok \o more
        <5>1. tok \in Seq(Units) /\ rest \in Seq(Units) /\ st.carry \in Seq(Units)
          BY <1>0, <2>3
        <5>2. QED
          BY <5>1, PiecesJoin
      <4>3. Coming(next) = more
        BY <2>6 DEF Coming, Made
      <4>4. more \in Seq(Units)
        BY <1>0, <2>3, ConcatProperties
      <4>5. QED
        BY <4>1, <4>2, <4>3, <4>4
    <3>6. \/ \E u \in Ends : tok = <<Lead, u>>
          \/ \E u \in Units : tok = <<u>> /\ (u = Lead => more # <<>> /\ more[1] \in Units \ Ends)
      <4>1. CASE \E u \in Ends : tok = <<Lead, u>>
        BY <4>1
      <4>2. CASE tok = <<st.left[1]>>
        <5>1. CASE st.left[1] # Lead
          BY <2>3, <4>2, <5>1
        <5>2. CASE st.left[1] = Lead /\ rest # <<>>
          <6>1. rest[1] \in Units \ Ends
            <7>1. \A u \in Ends : tok # <<Lead, u>>
              BY <4>2
            <7>2. QED
              BY <2>3, <5>2, <7>1
          <6>2. 1 \in 1 .. Len(rest) /\ Len(rest) \in Nat /\ Len(st.carry) \in Nat /\ 1 <= Len(rest)
            BY <1>0, <2>3, <5>2, LenProperties, EmptySeq
          <6>3. more[1] = rest[1] /\ Len(more) > 0
            BY <1>0, <2>3, <6>2, ConcatProperties
          <6>4. more # <<>> /\ more[1] \in Units \ Ends /\ st.left[1] \in Units
            BY <2>3, <6>1, <6>3
          <6>5. QED
            BY <4>2, <6>4, Zenon
        <5>3. CASE st.left[1] = Lead /\ rest = <<>>
          <6>1. Last(st.left) = Lead
            BY <2>3, <4>2, <5>3
          <6>2. st.carry = <<Lead>>
            BY <2>2, <2>7, <6>1 DEF Shape
          <6>3. more = <<Lead>>
            BY <1>0, <5>3, <6>2, ConcatEmptySeq
          <6>4. more # <<>> /\ more[1] \in Units \ Ends /\ st.left[1] \in Units
            <7>1. <<Lead>> # <<>> /\ <<Lead>>[1] = Lead /\ st.left[1] \in Units
              BY <2>3
            <7> HIDE DEF more
            <7>2. QED
              BY <6>3, <7>1, ChunkUnits
          <6>5. QED
            BY <4>2, <6>4, Zenon
        <5>4. QED
          BY <5>1, <5>2, <5>3
      <4>3. QED
        BY <2>3, <4>1, <4>2
    <3> HIDE DEF r, more
    <3>7. RefAfter(r, tok \o more) = RefAfter(RefToken(r, tok), more)
      BY <2>3, <3>2, <3>5, <3>6, TokenHeard
    <3>8. QED
      BY <3>1, <3>3, <3>4, <3>5, <3>7 DEF Position
  <2>8. QED
    BY <2>6, <2>7 DEF next, Made
<1>5. QED
  BY <1>2, <1>3, <1>4

(* A piece that is dropped whole holds its first event.                          *)
LEMMA PieceIs ==
  ASSUME NEW s \in Seq(Units), s # <<>>
  PROVE  PieceLen(s) \in EventLen(s) .. Len(s)
<1> DEFINE C == Controls(s)
           least == CHOOSE i \in C : \A j \in C : i <= j
<1>1. Len(s) \in Nat /\ EventLen(s) \in 1 .. Len(s) /\ EventLen(s) \in {1, 2}
  BY EventCut, LenProperties DEF EventLen
<1>2. CASE 1 \in C
  BY <1>1, <1>2 DEF PieceLen
<1>3. CASE 1 \notin C /\ C = {}
  BY <1>1, <1>3 DEF PieceLen
<1>4. CASE 1 \notin C /\ C # {}
  <2>1. C \subseteq 1 .. Len(s) /\ C \subseteq Nat
    BY DEF Controls
  <2>2. PieceLen(s) = least - 1
    BY <1>4 DEF PieceLen
  <2>3. least \in C
    <3>1. \E n \in C : \A m \in C : n <= m
      BY <1>4, <2>1, Least
    <3> HIDE DEF C
    <3>2. QED
      BY <3>1
  <2> HIDE DEF least
  <2>4. EventLen(s) = 2 => least # 2
    <3>1. ASSUME EventLen(s) = 2, 2 \in C PROVE FALSE
      <4>1. s[2] \in Ends
        BY <3>1 DEF EventLen
      <4>2. s[2] = Fs \/ s[2] = Lead
        BY <3>1 DEF Controls
      <4>3. QED
        BY <4>1, <4>2, ChunkUnits DEF Ends, KeyK, Open, Close, Page, Wheel, Fs
    <3> HIDE DEF C
    <3>2. QED
      BY <2>3, <3>1
  <2>5. least # 1
    BY <1>4, <2>3
  <2>6. least \in 1 .. Len(s)
    BY <2>1, <2>3
  <2> HIDE DEF C
  <2>7. QED
    BY <1>1, <2>2, <2>4, <2>5, <2>6
<1>5. QED
  BY <1>2, <1>3, <1>4

(* One event in terminal mode, or a piece that a dead terminal drops.            *)
LEMMA TerminalGoesOn ==
  ASSUME NEW st \in Handlers, st.walk = "terminal"
  PROVE  LET next == InTerminal(st)
         IN  /\ next \in Handlers /\ (st.odd => next.odd)
             /\ ~ next.odd /\ Shape(st) =>
                  /\ Shape(next)
                  /\ Position(next) = IF st.left = <<Lead>> THEN RefStep(Position(st), "flush")
                                      ELSE Position(st)
<1> DEFINE tok == FirstEvent(st.left)
           n == IF st.session = "dead" THEN PieceLen(st.left) ELSE Len(tok)
           rest == SubSeq(st.left, n + 1, Len(st.left))
           isOdd == st.odd \/ n > Len(tok)
           done == TermToken(st, tok)
           a == [done EXCEPT !.left = rest, !.odd = @ \/ n > Len(tok)]
           next == InTerminal(st)
           r == PlainOf(st)
           m == TermMode(st.mode, st.session, tok)
           log == TermLog(st.session, st.log, tok)
           turned == TermTurned(st.session, st.turned, tok)
<1>0. /\ st.mode \in KeyModes /\ st.session \in SessionKinds /\ st.carry \in Seq(Units) /\ st.paste \in Seq(Units)
      /\ st.log \in ChunkLogs /\ st.odd \in BOOLEAN /\ st.walk \in Walks /\ st.left \in Seq(Units)
  BY HandlerIs
<1>1. Shape(st) => st.paste = <<>> /\ st.mode = "term" /\ st.carry = <<>>
  BY DEF Shape, PasteOK
<1>2. next = IF st.left = <<>> THEN [st EXCEPT !.walk = "none"]
             ELSE IF a.mode = "term" THEN a
             ELSE IF a.left = <<>> THEN [a EXCEPT !.walk = "none"] ELSE Reemitted(a)
  BY Zenon DEF InTerminal
<1>3. "none" \in Walks
  BY DEF Walks
<1>4. CASE st.left = <<>>
  <2>1. next = [st EXCEPT !.walk = "none"]
    BY <1>2, <1>4
  <2> HIDE DEF next
  <2>2. Made(next, st.mode, st.session, st.carry, st.paste, st.log, st.turned, st.odd, "none", st.left)
    BY <1>3, <2>1, MadeWalk
  <2>3. ASSUME Shape(st) PROVE Shape(next) /\ Position(next) = Position(st)
    <3>1. Shape(next)
      BY <1>1, <1>4, <2>2, <2>3 DEF Shape, Made
    <3>2. Seen(next) = Seen(st)
      BY <2>2 DEF Seen, Made
    <3>3. Coming(st) = st.carry /\ Coming(next) = st.carry
      BY <1>4, <2>2, ComingIs DEF Made
    <3>4. QED
      BY <3>1, <3>2, <3>3 DEF Position
  <2>4. st.left # <<Lead>>
    BY <1>4
  <2>5. QED
    BY <2>2, <2>3, <2>4 DEF next, Made
<1>5. CASE st.left # <<>>
  <2>1. /\ tok \in Seq(Units) /\ OtherEvents(st.left) \in Seq(Units)
        /\ Len(tok) = EventLen(st.left) /\ EventLen(st.left) \in 1 .. Len(st.left)
        /\ st.left = tok \o OtherEvents(st.left)
    BY <1>0, <1>5, EventCut
  <2>2. n \in Nat /\ n >= Len(tok) /\ n <= Len(st.left) /\ Len(tok) \in Nat /\ Len(st.left) \in Nat
    <3>1. PieceLen(st.left) \in EventLen(st.left) .. Len(st.left)
      BY <1>0, <1>5, PieceIs
    <3>2. Len(st.left) \in Nat
      BY <1>0, LenProperties
    <3> HIDE DEF tok
    <3>3. QED
      BY <2>1, <3>1, <3>2
  <2>3. n = Len(tok) => rest = OtherEvents(st.left)
    <3> HIDE DEF n, tok
    <3>1. QED
      BY <2>1 DEF OtherEvents
  <2>4. rest \in Seq(Units)
    <3> HIDE DEF n
    <3>1. n + 1 \in 1 .. Len(st.left) + 1 /\ Len(st.left) \in n + 1 - 1 .. Len(st.left)
      BY <2>2
    <3>2. QED
      BY <1>0, <3>1, Cut
  <2>5. isOdd \in BOOLEAN /\ (isOdd <=> st.odd \/ n > Len(tok))
    OBVIOUS
  <2>6. Made(done, m, st.session, st.carry, st.paste, log, turned, st.odd, st.walk, st.left)
    BY <2>1, MadeTermToken
  <2> HIDE DEF done, m, log, turned
  <2> DEFINE noted == [done EXCEPT !.left = rest, !.odd = isOdd]
  <2>7. a = noted
    <3> HIDE DEF n, tok, rest
    <3>1. done \in Handlers /\ done.odd = st.odd
      BY <2>6 DEF Made
    <3> DEFINE both == done.odd \/ n > Len(tok)
    <3>2. a = [done EXCEPT !.left = rest, !.odd = both]
      BY <3>1 DEF Handlers
    <3>3. both = isOdd
      BY <3>1
    <3> HIDE DEF both, isOdd, a
    <3>4. QED
      BY <3>2, <3>3, Zenon
  <2> HIDE DEF tok, n, rest, isOdd, a
  <2>8. Made(noted, done.mode, done.session, done.carry, done.paste, done.log, done.turned, isOdd, done.walk, rest)
    <3>1. done \in Handlers
      BY <2>6 DEF Made
    <3>2. isOdd \in BOOLEAN
      BY <2>5
    <3>3. QED
      BY <2>4, <3>1, <3>2, MadeLeftOdd
  <2> HIDE DEF noted
  <2>9. Made(a, m, st.session, st.carry, st.paste, log, turned, isOdd, "terminal", rest)
    BY <2>6, <2>7, <2>8 DEF Made
  <2>10. ASSUME Shape(st) PROVE Seen(a) = RefToken(r, tok)
    <3>1. /\ r \in Refs /\ r.mode = "term" /\ r.session = st.session /\ r.at = "plain" /\ r.text = <<>>
          /\ r.log = st.log /\ r.turned = st.turned
      BY <1>1, <2>10, PlainOfIs
    <3> HIDE DEF r
    <3>2. RefToken(r, tok) = Ref(TermMode(r.mode, r.session, tok), r.session, r.at, r.text,
                                 TermLog(r.session, r.log, tok), TermTurned(r.session, r.turned, tok))
      BY <2>1, <3>1, RefTokenIs
    <3>3. RefToken(r, tok) = Plain(m, st.session, log, turned)
      BY <1>1, <2>10, <3>1, <3>2 DEF Plain, m, log, turned
    <3>4. Seen(a) = PlainOf(a)
      BY <1>1, <2>9, <2>10, SeenPlain DEF Made
    <3>5. PlainOf(a) = Plain(m, st.session, log, turned)
      BY <2>9 DEF PlainOf, Made
    <3>6. QED
      BY <3>3, <3>4, <3>5
  (* Unless a piece of more than one event was dropped.                           *)
  <2>11. ASSUME Shape(st), ~ isOdd
         PROVE  /\ st.left # <<Lead>> => Position(a) = Position(st)
                /\ st.left = <<Lead>> => Position(a) = RefStep(Position(st), "flush") /\ rest = <<>>
    <3>1. rest = OtherEvents(st.left)
      BY <2>2, <2>3, <2>5, <2>11
    <3>2. st.left = tok \o rest /\ Coming(st) = st.left
      BY <1>1, <2>1, <2>11, <3>1, ComingIs
    <3>3. Coming(a) = rest
      BY <1>1, <2>9, <2>11, ComingIs DEF Made
    <3>4. Seen(st) = r /\ r \in Refs /\ r.at = "plain"
      BY <1>1, <2>11, SeenPlain, PlainOfIs
    <3>5. Position(st) = RefAfter(r, tok \o rest) /\ Position(a) = RefAfter(RefToken(r, tok), rest)
      BY <2>10, <2>11, <3>2, <3>3, <3>4 DEF Position
    <3> HIDE DEF r
    <3>6. /\ st.left[1] \in Units
          /\ \/ \E u \in Ends : tok = <<Lead, u>>
             \/ /\ tok = <<st.left[1]>>
                /\ st.left[1] = Lead /\ rest # <<>> => rest[1] \in Units \ Ends
      BY <1>0, <1>5, <3>1, EventCut DEF tok
    <3>7. CASE st.left # <<Lead>>
      <4>1. \/ \E u \in Ends : tok = <<Lead, u>>
            \/ \E u \in Units : tok = <<u>> /\ (u = Lead => rest # <<>> /\ rest[1] \in Units \ Ends)
        <5>1. CASE \E u \in Ends : tok = <<Lead, u>>
          BY <5>1
        <5>2. CASE /\ tok = <<st.left[1]>>
                   /\ st.left[1] = Lead /\ rest # <<>> => rest[1] \in Units \ Ends
          <6>1. st.left[1] = Lead => rest # <<>>
            <7>1. ASSUME st.left[1] = Lead, rest = <<>> PROVE FALSE
              <8>1. tok = <<Lead>> /\ tok \o <<>> = tok
                BY <2>1, <5>2, <7>1, ConcatEmptySeq
              <8>2. QED
                BY <3>2, <3>7, <7>1, <8>1
            <7>2. QED
              BY <7>1
          <6>2. QED
            BY <3>6, <5>2, <6>1
        <5>3. QED
          BY <3>6, <5>1, <5>2
      <4>2. RefAfter(r, tok \o rest) = RefAfter(RefToken(r, tok), rest)
        BY <2>1, <2>4, <3>4, <4>1, TokenHeard
      <4>3. QED
        BY <3>5, <3>7, <4>2
    <3>8. CASE st.left = <<Lead>>
      <4>1. Len(st.left) = 1 /\ st.left[1] = Lead
        BY <3>8
      <4>2. tok = <<Lead>> /\ rest = <<>>
        <5>1. EventLen(st.left) = 1
          BY <4>1 DEF EventLen
        <5>2. tok = SubSeq(st.left, 1, 1) /\ rest = SubSeq(st.left, 2, 1)
          BY <3>1, <4>1, <5>1 DEF tok, FirstEvent, OtherEvents
        <5>3. SubSeq(st.left, 1, 1) = st.left /\ SubSeq(st.left, 2, 1) = <<>>
          <6>1. SubSeq(st.left, 1, Len(st.left)) = st.left
            BY <1>0, SubSeqFull
          <6>2. SubSeq(st.left, 2, 1) = <<>>
            BY SubSeqEmpty
          <6>3. QED
            BY <4>1, <6>1, <6>2
        <5>4. QED
          BY <3>8, <5>2, <5>3
      <4>3. RefAfter(r, <<Lead>>) = RefStep(r, Lead)
        BY <3>4, ChunkUnits, RefAfterOne
      <4>4. RefStep(RefStep(r, Lead), "flush") = RefToken(r, <<Lead>>)
        BY <3>4, LeadLetsGo
      <4>5. RefToken(r, <<Lead>>) \in Refs
        BY <3>4, ChunkUnits, Tokens, RefTokenIs
      <4>6. RefAfter(RefToken(r, <<Lead>>), <<>>) = RefToken(r, <<Lead>>)
        BY <4>5, RefAfterNone
      <4>7. Position(st) = RefAfter(r, <<Lead>>)
        BY <3>2, <3>5, <3>8
      <4>8. QED
        BY <3>5, <3>8, <4>2, <4>3, <4>4, <4>6, <4>7
    <3>9. QED
      BY <3>7, <3>8
  <2> HIDE DEF next, r
  <2>12. CASE a.mode = "term"
    <3>1. next = a
      BY <1>2, <1>5, <2>12
    <3>2. ASSUME Shape(st) PROVE Shape(next)
      BY <1>1, <2>9, <2>12, <3>1, <3>2 DEF Shape, Made
    <3>3. QED
      BY <2>5, <2>9, <2>11, <3>1, <3>2 DEF Made, next
  <2>13. CASE a.mode # "term" /\ rest = <<>>
    <3>1. next = [a EXCEPT !.walk = "none"]
      BY <1>2, <1>5, <2>9, <2>13 DEF Made
    <3>2. Made(next, a.mode, a.session, a.carry, a.paste, a.log, a.turned, a.odd, "none", a.left)
      BY <1>3, <2>9, <3>1, MadeWalk DEF Made
    <3>3. ASSUME Shape(st) PROVE Shape(next) /\ Position(next) = Position(a)
      <4>1. Shape(next)
        BY <1>1, <2>9, <2>13, <3>2, <3>3 DEF Shape, Made
      <4>2. Seen(next) = Seen(a)
        BY <3>2 DEF Seen, Made
      <4>3. Coming(a) = a.carry /\ Coming(next) = a.carry
        BY <2>9, <2>13, <3>2, ComingIs DEF Made
      <4>4. QED
        BY <4>1, <4>2, <4>3 DEF Position
    <3>4. QED
      BY <2>5, <2>9, <2>11, <3>2, <3>3 DEF Made, next
  <2>14. CASE a.mode # "term" /\ rest # <<>>
    <3>1. next = Reemitted(a)
      BY <1>2, <1>5, <2>9, <2>14 DEF Made
    <3>2. /\ next \in Handlers /\ next.odd = a.odd
          /\ a.paste = <<>> => Shape(next) /\ Position(next) = Position(a)
      BY <2>9, <3>1, ReemittedGoesOn DEF Made
    <3>3. QED
      BY <1>1, <2>5, <2>9, <2>11, <2>14, <3>2 DEF Made, next
  <2>15. QED
    BY <2>12, <2>13, <2>14
<1>6. QED
  BY <1>4, <1>5

Gathered(st) == st.paste \o st.left
Behind(units) == SubSeq(units, FirstClosing(units) + 2, Len(units))
Text(units) == SubSeq(units, 3, FirstClosing(units) - 1)

LEMMA FirstClosingIs ==
  ASSUME NEW s \in Seq(Units), Closings(s) # {}
  PROVE  /\ FirstClosing(s) \in Closings(s) /\ \A i \in Closings(s) : FirstClosing(s) <= i
         /\ FirstClosing(s) \in 1 .. Len(s) - 1
         /\ Behind(s) \in Seq(Units) /\ Text(s) \in Seq(Units)
<1>1. Closings(s) \subseteq 1 .. Len(s) - 1 /\ Closings(s) \subseteq Nat
  BY DEF Closings
<1>2. \E n \in Closings(s) : \A m \in Closings(s) : n <= m
  BY <1>1, Least
<1>3. FirstClosing(s) \in Closings(s) /\ \A i \in Closings(s) : FirstClosing(s) <= i
  BY <1>2 DEF FirstClosing
<1> DEFINE at == FirstClosing(s)
<1>4. at \in 1 .. Len(s) - 1
  BY <1>1, <1>3
<1> HIDE DEF at
<1>5. SubSeq(s, at + 2, Len(s)) \in Seq(Units)
  <2>1. at + 2 \in 1 .. Len(s) + 1 /\ Len(s) \in at + 2 - 1 .. Len(s)
    BY <1>4
  <2>2. QED
    BY <2>1, Cut
<1>6. SubSeq(s, 3, at - 1) \in Seq(Units)
  <2>1. CASE at - 1 < 3
    <3>1. SubSeq(s, 3, at - 1) = <<>>
      <4>1. at - 1 \in Int /\ 3 \in Int
        BY <1>4
      <4>2. QED
        BY <2>1, <4>1, SubSeqEmpty
    <3>2. <<>> \in Seq(Units)
      BY EmptySeq
    <3>3. QED
      BY <3>1, <3>2
  <2>2. CASE ~ (at - 1 < 3)
    <3>1. 3 \in 1 .. Len(s) + 1 /\ at - 1 \in 3 - 1 .. Len(s)
      BY <1>4, <2>2
    <3>2. QED
      BY <3>1, Cut
  <2>3. QED
    BY <2>1, <2>2
<1>7. QED
  BY <1>3, <1>4, <1>5, <1>6 DEF at, Behind, Text

LEMMA AccumulatedIs ==
  ASSUME NEW st \in Handlers
  PROVE  LET all == Gathered(st)
             next == Accumulated(st)
         IN  /\ all \in Seq(Units)
             /\ Len(all) > PasteMax =>
                  Made(next, st.mode, st.session, st.carry, <<>>, st.log, st.turned, TRUE, "none", <<>>)
             /\ ~ (Len(all) > PasteMax) /\ Closings(all) = {} =>
                  Made(next, st.mode, st.session, st.carry, all, st.log, st.turned, st.odd, "none", <<>>)
             /\ ~ (Len(all) > PasteMax) /\ Closings(all) # {} =>
                  Made(next, st.mode, st.session, st.carry, <<>>, Added(st.log, "paste", Text(all)), st.turned,
                       st.odd, IF Behind(all) = <<>> THEN "none" ELSE "data", Behind(all))
<1> DEFINE all == Gathered(st)
           none == <<>>
           rest == [st EXCEPT !.walk = "none", !.left = none, !.paste = none]
           over == Len(all) > PasteMax
           text == Text(all)
           tail == Behind(all)
           walk == IF tail = none THEN "none" ELSE "data"
<1>1. /\ all \in Seq(Units) /\ none \in Seq(Units) /\ "none" \in Walks /\ "data" \in Walks
  BY HandlerIs DEF Gathered, Walks
<1>2. Accumulated(st) =
        IF over THEN [rest EXCEPT !.odd = TRUE]
        ELSE IF Closings(all) = {} THEN [rest EXCEPT !.paste = all]
        ELSE [Logged(rest, "paste", text) EXCEPT !.left = tail, !.walk = walk]
  BY Zenon DEF Accumulated, Gathered, Text, Behind
<1> HIDE DEF all, over, text, tail
<1> HIDE DEF none
<1>3. Made(rest, st.mode, st.session, st.carry, none, st.log, st.turned, st.odd, "none", none)
  BY <1>1, MadeWalkLeftPaste
<1> HIDE DEF rest
<1>4. rest \in Handlers
  BY <1>3 DEF Made
<1>5. over => Made(Accumulated(st), st.mode, st.session, st.carry, none, st.log, st.turned, TRUE, "none", none)
  <2> DEFINE a == [rest EXCEPT !.odd = TRUE]
  <2>1. Made(a, rest.mode, rest.session, rest.carry, rest.paste, rest.log, rest.turned, TRUE, rest.walk, rest.left)
    BY <1>4, MadeOdd
  <2>2. over => Accumulated(st) = a
    BY <1>2
  <2> HIDE DEF a
  <2>3. QED
    BY <1>3, <2>1, <2>2 DEF Made
<1>6. ~ over /\ Closings(all) = {} =>
        Made(Accumulated(st), st.mode, st.session, st.carry, all, st.log, st.turned, st.odd, "none", none)
  <2> DEFINE a == [rest EXCEPT !.paste = all]
  <2>1. Made(a, rest.mode, rest.session, rest.carry, all, rest.log, rest.turned, rest.odd, rest.walk, rest.left)
    BY <1>1, <1>4, MadePaste
  <2>2. ~ over /\ Closings(all) = {} => Accumulated(st) = a
    BY <1>2
  <2> HIDE DEF a
  <2>3. QED
    BY <1>3, <2>1, <2>2 DEF Made
<1>7. ~ over /\ Closings(all) # {} =>
        Made(Accumulated(st), st.mode, st.session, st.carry, none, Added(st.log, "paste", text), st.turned,
             st.odd, walk, tail)
  <2>1. SUFFICES ASSUME ~ over, Closings(all) # {}
                 PROVE  Made(Accumulated(st), st.mode, st.session, st.carry, none, Added(st.log, "paste", text),
                             st.turned, st.odd, walk, tail)
    OBVIOUS
  <2>2. tail \in Seq(Units) /\ text \in Seq(Units) /\ walk \in Walks
    BY <1>1, <2>1, FirstClosingIs DEF tail, text
  <2> DEFINE logged == Logged(rest, "paste", text)
             a == [logged EXCEPT !.left = tail, !.walk = walk]
  <2>3. Accumulated(st) = a
    BY <1>2, <2>1
  <2> HIDE DEF walk
  <2>4. Made(logged, rest.mode, rest.session, rest.carry, rest.paste, Added(rest.log, "paste", text),
             rest.turned, rest.odd, rest.walk, rest.left)
    BY <1>4, <2>2, MadeLogged, WhatIs
  <2> HIDE DEF logged
  <2>5. logged \in Handlers
    BY <2>4 DEF Made
  <2>6. Made(a, logged.mode, logged.session, logged.carry, logged.paste, logged.log,
             logged.turned, logged.odd, walk, tail)
    BY <2>2, <2>5, MadeLeftWalk
  <2> HIDE DEF a
  <2>7. QED
    BY <1>3, <2>3, <2>4, <2>6 DEF Made
<1>8. QED
  BY <1>1, <1>5, <1>6, <1>7 DEF none, over, text, tail, all

(* A paste goes on, or is closed: the reference goes through the same units.    *)
LEMMA GatheredHeard ==
  ASSUME NEW st \in Handlers, st.walk = "data", st.mode = "keys", st.carry = <<>>, Shape(st),
         st.paste # <<>> \/ (Len(st.left) > 1 /\ st.left[1] = Lead /\ st.left[2] = Open)
  PROVE  LET all == Gathered(st)
         IN  /\ all \in Seq(Units) /\ Len(all) > 1 /\ all[1] = Lead /\ all[2] = Open
             /\ Position(st) = RefAfter(PlainOf(st), all)
<1> DEFINE all == Gathered(st)
           r == PlainOf(st)
<1>0. st.carry \in Seq(Units) /\ st.paste \in Seq(Units) /\ st.left \in Seq(Units)
  BY HandlerIs
<1>1. r \in Refs
  BY PlainOfIs
<1>2. Coming(st) = st.left
  BY ComingIs
<1>3. CASE st.paste = <<>>
  <2>1. all = st.left
    <3>1. all = <<>> \o st.left
      BY <1>3 DEF Gathered
    <3>2. QED
      BY <1>0, <3>1, ConcatEmptySeq
  <2>2. Seen(st) = r
    BY <1>3, SeenPlain
  <2> HIDE DEF all, r
  <2>3. QED
    BY <1>0, <1>2, <1>3, <2>1, <2>2 DEF Position, all, r
<1>4. CASE st.paste # <<>>
  <2>1. PasteOK(st)
    BY <1>4 DEF Shape
  <2>2. Seen(st) = RefAfter(r, st.paste)
    BY <1>4, <2>1, SeenPasting
  <2>3. st.paste \in Seq(Told) /\ st.left \in Seq(Told)
    BY <1>0, UnitsTold
  <2> DEFINE paste == st.paste
             left == st.left
  <2>4. paste \in Seq(Units) /\ left \in Seq(Units) /\ Len(paste) > 1 /\ paste[1] = Lead /\ paste[2] = Open
    BY <1>0, <2>1 DEF PasteOK
  <2> HIDE DEF r
  <2>5. Position(st) = RefAfter(r, paste \o left)
    BY <1>1, <1>2, <2>2, <2>3, RefAfterConcat DEF Position
  <2> HIDE DEF paste, left
  <2>6. /\ paste \o left \in Seq(Units) /\ Len(paste \o left) = Len(paste) + Len(left)
        /\ \A i \in 1 .. Len(paste) : (paste \o left)[i] = paste[i]
    BY <2>4, ConcatProperties
  <2>7. Len(paste) \in Nat /\ Len(left) \in Nat
    BY <2>4, LenProperties
  <2>8. 1 \in 1 .. Len(paste) /\ 2 \in 1 .. Len(paste) /\ Len(paste \o left) > 1
    BY <2>4, <2>6, <2>7
  <2>9. all = paste \o left
    BY DEF Gathered, paste, left
  <2> HIDE DEF all
  <2>10. QED
    BY <2>4, <2>5, <2>6, <2>8, <2>9 DEF all, r
<1>5. QED
  BY <1>3, <1>4

LEMMA AccumulatedGoesOn ==
  ASSUME NEW st \in Handlers, st.walk = "data"
  PROVE  LET next == Accumulated(st)
         IN  /\ next \in Handlers /\ (st.odd => next.odd)
             /\ /\ ~ next.odd /\ Shape(st) /\ st.mode = "keys" /\ st.carry = <<>>
                /\ st.paste # <<>> \/ (Len(st.left) > 1 /\ st.left[1] = Lead /\ st.left[2] = Open)
                => Shape(next) /\ Position(next) = Position(st)
<1> DEFINE all == Gathered(st)
           next == Accumulated(st)
           r == PlainOf(st)
           over == Len(all) > PasteMax
           none == <<>>
           opens == Len(st.left) > 1 /\ st.left[1] = Lead /\ st.left[2] = Open
<1>1. /\ all \in Seq(Units)
      /\ over => Made(next, st.mode, st.session, st.carry, none, st.log, st.turned, TRUE, "none", none)
      /\ ~ over /\ Closings(all) = {} =>
           Made(next, st.mode, st.session, st.carry, all, st.log, st.turned, st.odd, "none", none)
      /\ ~ over /\ Closings(all) # {} =>
           Made(next, st.mode, st.session, st.carry, none, Added(st.log, "paste", Text(all)), st.turned,
                st.odd, IF Behind(all) = none THEN "none" ELSE "data", Behind(all))
  BY AccumulatedIs
<1>2. none \in Seq(Units)
  OBVIOUS
<1>3. r \in Refs /\ r.mode = st.mode /\ r.session = st.session /\ r.at = "plain" /\ r.text = <<>>
      /\ r.log = st.log /\ r.turned = st.turned
  BY PlainOfIs
<1>4. Shape(st) /\ st.mode = "keys" /\ st.carry = <<>> /\ (st.paste # <<>> \/ opens) =>
        /\ Len(all) > 1 /\ all[1] = Lead /\ all[2] = Open
        /\ Position(st) = RefAfter(r, all)
  BY GatheredHeard
<1> HIDE DEF all, next, r, over, opens, none
<1>5. CASE over
  <2>1. Made(next, st.mode, st.session, st.carry, none, st.log, st.turned, TRUE, "none", none)
    BY <1>1, <1>5
  <2>2. QED
    BY <2>1 DEF next, Made
<1>6. CASE ~ over /\ Closings(all) = {}
  <2>1. Made(next, st.mode, st.session, st.carry, all, st.log, st.turned, st.odd, "none", none)
    BY <1>1, <1>6
  <2>2. ASSUME Shape(st), st.mode = "keys", st.carry = <<>>, st.paste # <<>> \/ opens
        PROVE  Shape(next) /\ Position(next) = Position(st)
    <3>1. Len(all) > 1 /\ all[1] = Lead /\ all[2] = Open /\ Position(st) = RefAfter(r, all)
      BY <1>4, <2>2
    <3>2. PasteOK(next)
      BY <1>6, <2>1, <2>2, <3>1 DEF PasteOK, Made
    <3>3. Shape(next)
      BY <2>1, <2>2, <3>2 DEF Shape, none, Made
    <3>4. all # <<>>
      BY <3>1
    <3>5. Seen(next) = RefAfter(PlainOf(next), all)
      BY <2>1, <3>2, <3>4, SeenPasting DEF Made
    <3>6. PlainOf(next) = r
      BY <2>1 DEF PlainOf, Made, r
    <3>7. Coming(next) = <<>>
      BY <2>1, <2>2, ComingIs DEF Made, none
    <3>8. RefAfter(r, all) \in Refs
      BY <1>1, <1>3, UnitsTold, RefAfterKeeps
    <3>9. QED
      BY <3>1, <3>3, <3>5, <3>6, <3>7, <3>8, RefAfterNone DEF Position
  <2>3. QED
    BY <2>1, <2>2 DEF next, opens, Made
<1>7. CASE ~ over /\ Closings(all) # {}
  <2> DEFINE at == FirstClosing(all)
             tail == Behind(all)
             log == Added(st.log, "paste", Text(all))
             walk == IF tail = none THEN "none" ELSE "data"
  <2>1. Made(next, st.mode, st.session, st.carry, none, log, st.turned, st.odd, walk, tail)
    BY <1>1, <1>7
  <2>2. /\ at \in Closings(all) /\ \A i \in Closings(all) : at <= i
        /\ at \in 1 .. Len(all) - 1 /\ tail \in Seq(Units) /\ Text(all) \in Seq(Units)
    BY <1>1, <1>7, FirstClosingIs
  <2>3. tail = SubSeq(all, at + 2, Len(all)) /\ Text(all) = SubSeq(all, 3, at - 1)
    BY DEF Behind, Text
  <2> HIDE DEF at, tail, log
  <2>4. ASSUME Shape(st), st.mode = "keys", st.carry = <<>>, st.paste # <<>> \/ opens
        PROVE  Shape(next) /\ Position(next) = Position(st)
    <3> DEFINE head == SubSeq(all, 1, at + 1)
               p == PlainOf(next)
    <3>1. Len(all) > 1 /\ all[1] = Lead /\ all[2] = Open /\ Position(st) = RefAfter(r, all)
      BY <1>4, <2>4
    <3>2. Shape(next)
      BY <2>1, <2>4 DEF Shape, none, Made
    <3>3. RefAfter(r, head) = PasteDone(r, SubSeq(all, 3, at - 1))
      BY <1>1, <1>3, <2>2, <2>4, <3>1, PasteCloses
    <3>4. RefAfter(r, head) = p
      BY <1>3, <2>1, <2>3, <3>3 DEF Plain, PlainOf, PasteDone, log, Made
    <3>5. head \o tail = all /\ head \in Seq(Units)
      <4>1. 1 \in 1 .. Len(all) + 1 /\ at + 1 \in 1 - 1 .. Len(all) /\ Len(all) \in at + 1 .. Len(all)
        BY <1>1, <2>2, LenProperties
      <4>2. head \o SubSeq(all, at + 1 + 1, Len(all)) = SubSeq(all, 1, Len(all))
        BY <1>1, <4>1, ConcatAdjacentSubSeq
      <4>3. SubSeq(all, 1, Len(all)) = all
        BY <1>1, SubSeqFull
      <4>4. at + 1 + 1 = at + 2
        BY <2>2
      <4>5. head \in Seq(Units)
        BY <1>1, <4>1, Cut
      <4>6. QED
        BY <2>3, <4>2, <4>3, <4>4, <4>5
    <3> HIDE DEF head
    <3>6. head \in Seq(Told) /\ tail \in Seq(Told)
      BY <2>2, <3>5, UnitsTold
    <3> HIDE DEF p
    <3>7. Position(st) = RefAfter(p, tail)
      BY <1>3, <3>1, <3>4, <3>5, <3>6, RefAfterConcat
    <3>8. Seen(next) = p
      BY <2>1, SeenPlain DEF none, Made, p
    <3>9. Coming(next) = tail
      BY <2>1, <2>4, ComingIs DEF Made
    <3>10. QED
      BY <3>2, <3>7, <3>8, <3>9 DEF Position
  <2>5. QED
    BY <2>1, <2>4 DEF next, opens, Made
<1>8. QED
  BY <1>5, <1>6, <1>7

(* The data event: the chunk goes to the parser of the mode, or of the paste.   *)
LEMMA HandledGoesOn ==
  ASSUME NEW st \in Handlers, st.walk = "data"
  PROVE  LET next == Handled(st)
         IN  /\ next \in Handlers /\ (st.odd => next.odd)
             /\ ~ next.odd /\ Shape(st) => Shape(next) /\ Position(next) = Position(st)
<1> DEFINE next == Handled(st)
           opens == Len(st.left) > 1 /\ st.left[1] = Lead /\ st.left[2] = Open
           joined == st.carry \o st.left
           noted == [st EXCEPT !.odd = @ \/ st.carry # <<>>]
           keyed == [st EXCEPT !.walk = "keys", !.carry = Carry(joined), !.left = Whole(joined)]
<1>0. /\ st.mode \in KeyModes /\ st.carry \in Seq(Units) /\ st.paste \in Seq(Units)
      /\ st.odd \in BOOLEAN /\ st.left \in Seq(Units)
  BY HandlerIs
<1>1. "none" \in Walks /\ "terminal" \in Walks /\ "keys" \in Walks
  BY DEF Walks
<1>2. next = IF st.mode = "term" THEN [st EXCEPT !.walk = "terminal"]
             ELSE IF st.paste # <<>> \/ opens THEN Accumulated(noted) ELSE keyed
  BY Zenon DEF Handled
<1>3. st.mode = "keys" \/ st.mode = "term"
  BY <1>0 DEF KeyModes
<1>4. CASE st.mode = "term"
  <2>1. next = [st EXCEPT !.walk = "terminal"]
    BY <1>2, <1>4
  <2> HIDE DEF next
  <2>2. Made(next, st.mode, st.session, st.carry, st.paste, st.log, st.turned, st.odd, "terminal", st.left)
    BY <1>1, <2>1, MadeWalk
  <2>3. ASSUME Shape(st) PROVE Shape(next) /\ Position(next) = Position(st)
    <3>1. st.carry = <<>> /\ st.paste = <<>>
      BY <1>4, <2>3 DEF Shape, PasteOK
    <3>2. Shape(next)
      BY <1>4, <2>2, <3>1 DEF Shape, Made
    <3>3. Seen(next) = Seen(st)
      BY <2>2 DEF Seen, Made
    <3>4. Coming(next) = st.left /\ Coming(st) = st.left
      BY <2>2, <3>1, ComingIs DEF Made
    <3>5. QED
      BY <3>2, <3>3, <3>4 DEF Position
  <2>4. QED
    BY <2>2, <2>3 DEF next, Made
<1>5. CASE st.mode = "keys" /\ (st.paste # <<>> \/ opens)
  <2> DEFINE isOdd == st.odd \/ st.carry # <<>>
  <2>1. next = Accumulated(noted)
    BY <1>2, <1>5
  <2>2. noted = [st EXCEPT !.odd = isOdd] /\ isOdd \in BOOLEAN /\ (isOdd <=> st.odd \/ st.carry # <<>>)
    OBVIOUS
  <2> HIDE DEF isOdd, noted, next
  <2>3. Made(noted, st.mode, st.session, st.carry, st.paste, st.log, st.turned, isOdd, st.walk, st.left)
    BY <2>2, MadeOdd
  <2>4. /\ next \in Handlers /\ (noted.odd => next.odd)
        /\ /\ ~ next.odd /\ Shape(noted) /\ noted.mode = "keys" /\ noted.carry = <<>>
           /\ noted.paste # <<>> \/ (Len(noted.left) > 1 /\ noted.left[1] = Lead /\ noted.left[2] = Open)
           => Shape(next) /\ Position(next) = Position(noted)
    <3>1. noted \in Handlers /\ noted.walk = "data"
      BY <2>3 DEF Made
    <3>2. QED
      BY <2>1, <3>1, AccumulatedGoesOn
  <2>5. st.odd => next.odd
    BY <2>2, <2>3, <2>4 DEF Made
  <2>6. ASSUME ~ next.odd, Shape(st) PROVE Shape(next) /\ Position(next) = Position(st)
    <3>1. noted.carry = <<>>
      BY <2>2, <2>3, <2>4, <2>6 DEF Made
    <3>2. Shape(noted)
      <4>1. st.paste # <<>> => PasteOK(noted)
        BY <2>3, <2>6 DEF Shape, PasteOK, Made
      <4>2. QED
        BY <2>3, <2>6, <4>1 DEF Shape, Made
    <3>3. Position(noted) = Position(st)
      BY <2>3 DEF Position, Seen, Coming, Made
    <3>4. noted.mode = "keys" /\ (noted.paste # <<>> \/ (Len(noted.left) > 1 /\ noted.left[1] = Lead /\ noted.left[2] = Open))
      BY <1>5, <2>3 DEF opens, Made
    <3>5. QED
      BY <2>4, <2>6, <3>1, <3>2, <3>3, <3>4
  <2>7. QED
    BY <2>4, <2>5, <2>6 DEF next
<1>6. CASE st.mode = "keys" /\ ~ (st.paste # <<>> \/ opens)
  <2> DEFINE carry == Carry(joined)
             whole == Whole(joined)
  <2>1. /\ whole \in Seq(Units) /\ carry \in Seq(Units) /\ carry \in {<<>>, <<Lead>>}
        /\ whole \o carry = joined
        /\ carry = <<>> /\ whole # <<>> => Last(whole) # Lead
    <3>1. joined \in Seq(Units)
      BY <1>0
    <3> HIDE DEF joined
    <3>2. QED
      BY <3>1, WholeAndCarry
  <2>2. next = keyed
    BY <1>2, <1>6
  <2> HIDE DEF carry, whole, next
  <2>3. keyed = [st EXCEPT !.walk = "keys", !.carry = carry, !.left = whole]
    BY DEF carry, whole
  <2> HIDE DEF keyed
  <2>4. Made(next, st.mode, st.session, carry, st.paste, st.log, st.turned, st.odd, "keys", whole)
    BY <1>1, <2>1, <2>2, <2>3, MadeWalkCarryLeft
  <2>5. ASSUME Shape(st) PROVE Shape(next) /\ Position(next) = Position(st)
    <3>1. st.paste = <<>>
      BY <1>6
    <3>2. Shape(next)
      BY <1>6, <2>1, <2>4, <3>1 DEF Shape, Made
    <3>3. Seen(next) = Seen(st)
      BY <2>4 DEF Seen, Made
    <3>4. Coming(next) = whole \o carry /\ Coming(st) = joined
      BY <2>4 DEF Coming, Made
    <3>5. QED
      BY <2>1, <3>2, <3>3, <3>4 DEF Position
  <2>6. QED
    BY <2>4, <2>5 DEF next, Made
<1>7. QED
  BY <1>3, <1>4, <1>5, <1>6

-----------------------------------------------------------------------------
(* Between two chunks: at a carried partial, in a paste, or at neither.          *)
Where(st) == IF st.carry # <<>> THEN "lead" ELSE IF st.paste # <<>> THEN "paste" ELSE "plain"
Rest(st) == Ref(st.mode, st.session, Where(st), SubSeq(st.paste, 3, Len(st.paste)), st.log, st.turned)

LEMMA RestIs ==
  ASSUME NEW st \in Handlers, Shape(st), st.walk = "none"
  PROVE  /\ Position(st) = Rest(st) /\ Rest(st) \in Refs
         /\ st.carry # <<>> =>
              /\ st.carry = <<Lead>> /\ st.paste = <<>> /\ st.mode = "keys" /\ st.left = <<>>
              /\ Position(st) = RefStep(PlainOf(st), Lead)
<1>0. st.mode \in KeyModes /\ st.left = <<>> /\ st.carry \in {<<>>, <<Lead>>}
  BY HandlerIs DEF Shape
<1>1. Coming(st) = st.carry /\ Seen(st) \in Refs
  BY <1>0, ComingIs, SeenIs
<1>2. CASE st.carry = <<>>
  <2>1. Position(st) = Seen(st)
    BY <1>1, <1>2, RefAfterNone DEF Position
  <2>2. Seen(st) = Rest(st)
    BY <1>2 DEF Seen, Rest, Where
  <2>3. QED
    BY <1>1, <1>2, <2>1, <2>2
<1>3. CASE st.carry # <<>>
  <2> DEFINE r == PlainOf(st)
  <2>1. st.carry = <<Lead>> /\ st.paste = <<>> /\ st.mode = "keys"
    BY <1>0, <1>3 DEF Shape, PasteOK, KeyModes
  <2>2. /\ r \in Refs /\ r.mode = st.mode /\ r.session = st.session /\ r.at = "plain" /\ r.text = <<>>
        /\ r.log = st.log /\ r.turned = st.turned
    BY PlainOfIs
  <2>3. Seen(st) = r
    BY <2>1, SeenPlain
  <2> HIDE DEF r
  <2>4. Position(st) = RefStep(r, Lead)
    BY <1>1, <2>1, <2>2, <2>3, ChunkUnits, RefAfterOne DEF Position
  <2>5. RefStep(r, Lead) = AtLead(r) /\ RefStep(r, Lead) \in Refs
    BY <2>2, ChunkUnits, UnitAtPlain
  <2>6. SubSeq(<<>>, 3, Len(<<>>)) = <<>>
    BY SubSeqEmpty
  <2>7. Rest(st) = AtLead(r)
    BY <1>3, <2>1, <2>2, <2>6 DEF Rest, Where, AtLead
  <2>8. QED
    BY <1>0, <2>1, <2>4, <2>5, <2>7 DEF r
<1>4. QED
  BY <1>2, <1>3

(* The invariant: unless a case is odd, the reference, led from what the handler *)
(* has seen through what it still holds, stands where the uncut stream leads it. *)
ChunkTyped == input \in Handlers /\ wire \in Seq(Units) /\ heard \in Seq(Told)
ChunkInv == ~ input.odd => Shape(input) /\ Position(input) = Reference(heard)

LEMMA Ref0Is == Ref0 = Plain("keys", "plain", <<>>, 0) /\ Ref0 \in Refs
<1> DEFINE none == <<>>
<1>1. none \in ChunkLogs
  BY DEF ChunkLogs
<1>2. Ref0 = Plain("keys", "plain", none, 0)
  BY DEF Ref0, Ref, Plain
<1> HIDE DEF none
<1>3. Plain("keys", "plain", none, 0) \in Refs
  BY <1>1, ChunkUnits, PlainIs
<1>4. QED
  BY <1>2, <1>3 DEF none

LEMMA ChunkInit ==
  ASSUME InputInit
  PROVE  ChunkTyped /\ ChunkInv
<1> DEFINE none == <<>>
<1>1. /\ input = [mode |-> "keys", session |-> "plain", carry |-> none, paste |-> none,
                  log |-> none, turned |-> 0, odd |-> FALSE, walk |-> "none", left |-> none]
      /\ wire = none /\ heard = none
  BY DEF InputInit
<1>2. /\ none \in Seq(Units) /\ none \in ChunkLogs /\ none \in Seq(Told) /\ "keys" \in KeyModes
      /\ "none" \in Walks /\ "plain" \in SessionKinds
  BY DEF ChunkLogs, KeyModes, Walks, SessionKinds
<1> HIDE DEF none
<1>3. Made(input, "keys", "plain", none, none, none, 0, FALSE, "none", none)
  BY <1>1, <1>2 DEF Handlers, Made
<1>4. ChunkTyped
  BY <1>1, <1>2, <1>3 DEF ChunkTyped, Made
<1>5. Shape(input)
  BY <1>3 DEF Shape, none, Made
<1>6. Seen(input) = Ref0 /\ Coming(input) = none
  BY <1>3, SeenPlain, ComingIs, Ref0Is DEF none, Made, PlainOf
<1>7. QED
  BY <1>1, <1>4, <1>5, <1>6 DEF ChunkInv, Position, Reference

(* A step of a parser goes on.                                                   *)
LEMMA ParserKeeps ==
  ASSUME ChunkTyped, ChunkInv, ChunkTaken \/ KeysTake
  PROVE  ChunkTyped' /\ ChunkInv'
<1> DEFINE GoesOn(next) == /\ next \in Handlers /\ (input.odd => next.odd)
                           /\ ~ next.odd /\ Shape(input) => Shape(next) /\ Position(next) = Position(input)
<1>0. input \in Handlers
  BY DEF ChunkTyped
<1>1. wire' = wire /\ heard' = heard
  BY DEF ChunkTaken, KeysTake
<1>2. GoesOn(input')
  <2>1. CASE ChunkTaken
    <3>1. input.walk = "data" /\ input' = Handled(input)
      BY <2>1 DEF ChunkTaken
    <3>2. GoesOn(Handled(input))
      BY <1>0, <3>1, HandledGoesOn
    <3> HIDE DEF GoesOn
    <3>3. QED
      BY <3>1, <3>2
  <2>2. CASE KeysTake
    <3>1. input.walk = "keys" /\ input' = AtKeys(input)
      BY <2>2 DEF KeysTake
    <3>2. GoesOn(AtKeys(input))
      BY <1>0, <3>1, KeysGoOn
    <3> HIDE DEF GoesOn
    <3>3. QED
      BY <3>1, <3>2
  <2> HIDE DEF GoesOn
  <2>3. QED
    BY <2>1, <2>2
<1>3. ChunkTyped'
  BY <1>1, <1>2 DEF ChunkTyped
<1>4. ASSUME ~ input'.odd PROVE Shape(input') /\ Position(input') = Reference(heard')
  <2>1. Shape(input) /\ Position(input) = Reference(heard)
    BY <1>2, <1>4 DEF ChunkInv
  <2>2. QED
    BY <1>1, <1>2, <1>4, <2>1
<1>5. QED
  BY <1>3, <1>4 DEF ChunkInv

(* In terminal mode, a partial at the end of the chunk is let go of.             *)
LEMMA TerminalWalkKeeps ==
  ASSUME ChunkTyped, ChunkInv, TerminalTakes
  PROVE  ChunkTyped' /\ ChunkInv'
<1> DEFINE next == InTerminal(input)
           flushes == input.left = <<Lead>>
<1>0. input \in Handlers /\ wire \in Seq(Units) /\ heard \in Seq(Told)
  BY DEF ChunkTyped
<1>1. /\ input.walk = "terminal" /\ input' = next /\ wire' = wire
      /\ heard' = IF flushes THEN Append(heard, "flush") ELSE heard
  BY DEF TerminalTakes
<1>2. /\ next \in Handlers /\ (input.odd => next.odd)
      /\ ~ next.odd /\ Shape(input) =>
           /\ Shape(next)
           /\ Position(next) = IF flushes THEN RefStep(Position(input), "flush") ELSE Position(input)
  BY <1>0, <1>1, TerminalGoesOn
<1> HIDE DEF next, flushes
<1>3. "flush" \in Told
  BY ChunkUnits
<1>4. heard' \in Seq(Told)
  BY <1>0, <1>1, <1>3
<1>5. Reference(heard') = IF flushes THEN RefStep(Reference(heard), "flush") ELSE Reference(heard)
  <2>1. Reference(Append(heard, "flush")) = RefStep(Reference(heard), "flush")
    BY <1>0, <1>3, Ref0Is, RefAfterAppend DEF Reference
  <2>2. QED
    BY <1>1, <2>1
<1>6. ChunkTyped'
  BY <1>0, <1>1, <1>2, <1>4 DEF ChunkTyped
<1>7. ASSUME ~ next.odd PROVE Shape(next) /\ Position(next) = Reference(heard')
  <2>1. Shape(input) /\ Position(input) = Reference(heard)
    BY <1>2, <1>7 DEF ChunkInv
  <2>2. QED
    BY <1>2, <1>5, <1>7, <2>1
<1>8. QED
  BY <1>1, <1>6, <1>7 DEF ChunkInv

(* What is read is handed over whole.                                            *)
LEMMA ReadsKeep ==
  ASSUME ChunkTyped, ChunkInv, Reads
  PROVE  ChunkTyped' /\ ChunkInv'
<1>0. input \in Handlers /\ wire \in Seq(Units) /\ heard \in Seq(Told)
  BY DEF ChunkTyped
<1>1. PICK n \in {Len(wire) - 1, Len(wire)} \ {-1, 0} :
        /\ wire' = SubSeq(wire, n + 1, Len(wire))
        /\ input' = [input EXCEPT !.walk = "data", !.left = SubSeq(wire, 1, n)]
        /\ heard' = heard \o SubSeq(wire, 1, n)
  BY DEF Reads
<1> DEFINE chunk == SubSeq(wire, 1, n)
           rest == SubSeq(wire, n + 1, Len(wire))
           next == input'
<1>2. chunk \in Seq(Units) /\ rest \in Seq(Units)
  <2>1. Len(wire) \in Nat
    BY <1>0, LenProperties
  <2>2. n \in 1 .. Len(wire)
    BY <1>1, <2>1
  <2>3. 1 \in 1 .. Len(wire) + 1 /\ n \in 1 - 1 .. Len(wire)
        /\ n + 1 \in 1 .. Len(wire) + 1 /\ Len(wire) \in n + 1 - 1 .. Len(wire)
    BY <2>1, <2>2
  <2>4. QED
    BY <1>0, <2>3, Cut
<1>3. chunk \in Seq(Told)
  BY <1>2, UnitsTold
<1> HIDE DEF chunk, rest
<1>4. /\ wire' = rest /\ heard' = heard \o chunk /\ input.walk = "none"
      /\ next = [input EXCEPT !.walk = "data", !.left = chunk]
  BY <1>1 DEF chunk, rest, Reads, BetweenChunks
<1> HIDE DEF next
<1>5. Made(next, input.mode, input.session, input.carry, input.paste, input.log, input.turned, input.odd, "data", chunk)
  <2>1. "data" \in Walks
    BY DEF Walks
  <2>2. QED
    BY <1>0, <1>2, <1>4, <2>1, MadeWalkLeft
<1>6. ChunkTyped'
  <2>1. heard \o chunk \in Seq(Told)
    BY <1>0, <1>3
  <2>2. QED
    BY <1>2, <1>4, <1>5, <2>1 DEF ChunkTyped, Made, next
<1>7. ASSUME ~ next.odd PROVE Shape(next) /\ Position(next) = Reference(heard')
  <2>1. Shape(input) /\ Position(input) = Reference(heard)
    BY <1>5, <1>7 DEF ChunkInv, Made
  <2>2. Shape(next)
    <3>1. input.paste # <<>> => PasteOK(next)
      BY <1>5, <2>1 DEF Shape, PasteOK, Made
    <3>2. QED
      BY <1>4, <1>5, <2>1, <3>1 DEF Shape, Made
  <2> DEFINE carry == input.carry
             seen == Seen(input)
  <2>3. carry \in Seq(Units) /\ carry \in Seq(Told) /\ seen \in Refs
    BY <1>0, HandlerIs, UnitsTold, SeenIs
  <2>4. Coming(input) = carry
    BY <1>0, <1>4, <2>1, ComingIs DEF Shape
  <2>5. Coming(next) = carry \o chunk /\ Seen(next) = seen
    BY <1>5 DEF Coming, Seen, Made
  <2>6. Position(next) = RefAfter(seen, carry \o chunk) /\ Reference(heard) = RefAfter(seen, carry)
    BY <2>1, <2>4, <2>5 DEF Position
  <2> HIDE DEF carry, seen
  <2>7. RefAfter(seen, carry \o chunk) = RefAfter(RefAfter(seen, carry), chunk)
    BY <1>3, <2>3, RefAfterConcat
  <2>8. RefAfter(Ref0, heard \o chunk) = RefAfter(RefAfter(Ref0, heard), chunk)
    BY <1>0, <1>3, Ref0Is, RefAfterConcat
  <2>9. QED
    BY <1>4, <2>2, <2>6, <2>7, <2>8 DEF Reference
<1>8. QED
  BY <1>6, <1>7 DEF next, ChunkInv

LEMMA FlushKeeps ==
  ASSUME ChunkTyped, ChunkInv, CarryFlushed
  PROVE  ChunkTyped' /\ ChunkInv'
<1> DEFINE none == <<>>
           logged == Logged(input, "drop", input.carry)
           log == Added(input.log, "drop", input.carry)
           next == input'
<1>0. input \in Handlers /\ wire \in Seq(Units) /\ heard \in Seq(Told)
  BY DEF ChunkTyped
<1>1. /\ input.walk = "none" /\ input.carry # <<>> /\ next = [logged EXCEPT !.carry = none]
      /\ heard' = Append(heard, "flush") /\ wire' = wire
  BY DEF CarryFlushed, Quiet, BetweenChunks
<1>2. none \in Seq(Units) /\ "flush" \in Told
  BY ChunkUnits
<1>3. Made(logged, input.mode, input.session, input.carry, input.paste, log, input.turned, input.odd, input.walk, input.left)
  BY <1>0, HandlerIs, WhatIs, MadeLogged
<1> HIDE DEF logged, log, next, none
<1>4. logged \in Handlers
  BY <1>3 DEF Made
<1>5. Made(next, logged.mode, logged.session, none, logged.paste, logged.log, logged.turned, logged.odd, logged.walk, logged.left)
  BY <1>1, <1>2, <1>4, MadeCarry
<1>6. Made(next, input.mode, input.session, none, input.paste, log, input.turned, input.odd, input.walk, input.left)
  BY <1>3, <1>5 DEF Made
<1>7. ChunkTyped'
  <2>1. Append(heard, "flush") \in Seq(Told)
    BY <1>0, <1>2
  <2>2. QED
    BY <1>0, <1>1, <1>6, <2>1 DEF ChunkTyped, next, Made
<1>8. ASSUME ~ next.odd PROVE Shape(next) /\ Position(next) = Reference(heard')
  <2> DEFINE r == PlainOf(input)
  <2>1. Shape(input) /\ Position(input) = Reference(heard)
    BY <1>6, <1>8 DEF ChunkInv, Made
  <2>2. /\ input.carry = <<Lead>> /\ input.paste = <<>> /\ input.mode = "keys" /\ input.left = <<>>
        /\ Position(input) = RefStep(r, Lead)
    BY <1>0, <1>1, <2>1, RestIs
  <2>3. Shape(next)
    BY <1>1, <1>6, <2>2 DEF Shape, none, Made
  <2>4. /\ r \in Refs /\ r.mode = "keys" /\ r.session = input.session /\ r.at = "plain" /\ r.text = <<>>
        /\ r.log = input.log /\ r.turned = input.turned
    BY <1>0, <2>2, PlainOfIs
  <2> HIDE DEF r
  <2>5. RefStep(RefStep(r, Lead), "flush") = RefToken(r, <<Lead>>)
    BY <2>4, LeadLetsGo
  <2>6. RefToken(r, <<Lead>>) = Ref(KeyedMode(r.mode, <<Lead>>), Started(r.session, <<Lead>>), r.at, r.text,
                                    KeyLog(r.log, <<Lead>>), r.turned)
    <3>1. <<Lead>> \in Seq(Units) /\ <<Lead>> # <<Lead, Open>>
      BY ChunkUnits, Tokens
    <3>2. QED
      BY <2>4, <3>1, RefTokenIs
  <2>7. KeyedMode(r.mode, <<Lead>>) = r.mode /\ Started(r.session, <<Lead>>) = r.session
        /\ KeyLog(r.log, <<Lead>>) = log
    <3>1. <<Lead>> # <<Activate>> /\ <<Lead>> \in Unbound
      BY DEF Lead, Activate, Unbound
    <3>2. QED
      BY <2>2, <2>4, <3>1 DEF KeyedMode, Started, KeyLog, log
  <2>8. RefToken(r, <<Lead>>) = PlainOf(next)
    BY <1>6, <2>2, <2>4, <2>6, <2>7 DEF PlainOf, Plain, Made
  <2>9. Reference(heard') = RefStep(Reference(heard), "flush")
    BY <1>0, <1>1, <1>2, Ref0Is, RefAfterAppend DEF Reference
  <2>10. Position(next) = PlainOf(next)
    <3>1. next \in Handlers /\ next.paste = <<>> /\ next.left = <<>> /\ next.carry = <<>>
      BY <1>6, <2>2 DEF Made, none
    <3>2. Seen(next) = PlainOf(next) /\ Coming(next) = <<>> /\ Seen(next) \in Refs
      BY <3>1, SeenPlain, ComingIs, SeenIs
    <3>3. QED
      BY <3>2, RefAfterNone DEF Position
  <2>11. QED
    BY <2>1, <2>2, <2>3, <2>5, <2>8, <2>9, <2>10 DEF r
<1>9. QED
  BY <1>7, <1>8 DEF next, ChunkInv

(* A change of mode with nothing pending, or of session, is a step of both.      *)
LEMMA FlipKeeps ==
  ASSUME ChunkTyped, ChunkInv, ModeFlips
  PROVE  ChunkTyped' /\ ChunkInv'
<1>0. input \in Handlers /\ wire \in Seq(Units) /\ heard \in Seq(Told)
  BY DEF ChunkTyped
<1>1. PICK mode \in {"keys", "term"}, session \in SessionKinds :
        /\ input' = [input EXCEPT
             !.mode = mode, !.session = session,
             !.odd = @ \/ (mode # input.mode /\ (input.carry # <<>> \/ input.paste # <<>>))]
        /\ heard' = heard \o <<mode, session>>
  BY DEF ModeFlips
<1> DEFINE next == input'
           isOdd == input.odd \/ (mode # input.mode /\ (input.carry # <<>> \/ input.paste # <<>>))
           told == <<mode, session>>
<1>2. input.walk = "none" /\ wire' = wire
  BY DEF ModeFlips, Quiet, BetweenChunks
<1>3. mode \in KeyModes /\ mode \in Told /\ session \in Told
  BY ChunkUnits DEF KeyModes
<1>4. input.odd \in BOOLEAN
  BY <1>0, HandlerIs
<1>5. isOdd \in BOOLEAN /\ (isOdd <=> input.odd \/ (mode # input.mode /\ (input.carry # <<>> \/ input.paste # <<>>)))
  BY <1>4
<1>6. next = [input EXCEPT !.mode = mode, !.session = session, !.odd = isOdd]
  BY <1>0, <1>1 DEF Handlers
<1>7. heard' = heard \o told
  BY <1>1
<1> HIDE DEF next, isOdd
<1>8. Made(next, mode, session, input.carry, input.paste, input.log, input.turned, isOdd, input.walk, input.left)
  BY <1>0, <1>3, <1>5, <1>6, MadeModeSessionOdd
<1>9. told \in Seq(Told) /\ told = Append(<<mode>>, session) /\ <<mode>> \in Seq(Told)
  BY <1>3
<1> HIDE DEF told
<1>10. heard \o told \in Seq(Told)
  BY <1>0, <1>9
<1>11. ChunkTyped'
  BY <1>0, <1>2, <1>7, <1>8, <1>10 DEF ChunkTyped, next, Made
<1>12. ASSUME ~ next.odd PROVE Shape(next) /\ Position(next) = Reference(heard')
  <2>1. ~ isOdd /\ ~ input.odd /\ (mode = input.mode \/ (input.carry = <<>> /\ input.paste = <<>>))
    BY <1>5, <1>8, <1>12 DEF Made
  <2>2. Shape(input) /\ Position(input) = Reference(heard)
    BY <2>1 DEF ChunkInv
  <2>3. Shape(next)
    <3>1. input.paste # <<>> => PasteOK(next)
      BY <1>8, <2>1, <2>2 DEF Shape, PasteOK, Made
    <3>2. QED
      BY <1>2, <1>8, <2>1, <2>2, <3>1 DEF Shape, Made
  <2> DEFINE p == Rest(input)
             q == Ref(mode, p.session, p.at, p.text, p.log, p.turned)
  <2>4. Position(input) = p /\ p \in Refs
    BY <1>0, <1>2, <2>2, RestIs
  <2>5. Position(next) = Rest(next)
    BY <1>2, <1>8, <2>3, RestIs DEF Made
  <2>6. Rest(next) = Ref(mode, session, p.at, p.text, p.log, p.turned)
    BY <1>8 DEF Rest, Where, Ref, Made
  <2> HIDE DEF p
  <2>7. RefStep(p, mode) = q
    BY <1>3, <2>4, StepOfMode
  <2>8. q \in Refs /\ q.mode = mode /\ q.at = p.at /\ q.text = p.text /\ q.log = p.log /\ q.turned = p.turned
    <3>1. /\ p.session \in SessionKinds /\ p.at \in Ats
          /\ p.text \in Seq(Units) /\ p.log \in ChunkLogs /\ p.turned \in Nat
      BY <2>4, RefIs
    <3>2. mode \in KeyModes
      BY <1>3
    <3>3. QED
      BY <3>1, <3>2, RefOf
  <2> HIDE DEF q
  <2>9. RefStep(q, session) = Ref(mode, session, p.at, p.text, p.log, p.turned)
    BY <2>8, StepOfSession
  <2>10. RefAfter(p, told) = RefStep(q, session)
    <3>1. RefAfter(p, <<mode>>) = q
      BY <1>3, <2>4, <2>7, RefAfterOne
    <3>2. RefAfter(p, Append(<<mode>>, session)) = RefStep(RefAfter(p, <<mode>>), session)
      BY <1>3, <1>9, <2>4, RefAfterAppend
    <3>3. QED
      BY <1>9, <3>1, <3>2
  <2>11. RefAfter(Ref0, heard \o told) = RefAfter(RefAfter(Ref0, heard), told)
    BY <1>0, <1>9, Ref0Is, RefAfterConcat
  <2>12. QED
    BY <1>7, <2>2, <2>3, <2>4, <2>5, <2>6, <2>9, <2>10, <2>11 DEF Reference
<1>13. QED
  BY <1>11, <1>12 DEF next, ChunkInv

LEMMA SendsKeep ==
  ASSUME ChunkTyped, ChunkInv, Sends
  PROVE  ChunkTyped' /\ ChunkInv'
<1>0. input \in Handlers /\ wire \in Seq(Units) /\ heard \in Seq(Told)
  BY DEF ChunkTyped
<1>1. PICK e \in Events : wire' = wire \o e
  BY DEF Sends
<1>2. input' = input /\ heard' = heard
  BY DEF Sends
<1>3. e \in Seq(Units)
  <2>1. (\E u \in Units : e = <<u>>) \/ (\E u \in Units : e = <<Lead, u>>)
    BY <1>1, ChunkUnits DEF Events
  <2>2. QED
    BY <2>1, Tokens
<1>4. wire' \in Seq(Units)
  BY <1>0, <1>1, <1>3
<1>5. QED
  BY <1>0, <1>2, <1>4 DEF ChunkTyped, ChunkInv

(* Once a chunk is done, what the handler shows is what the reference shows.     *)
LEMMA ChunksFit ==
  ASSUME ChunkTyped, ChunkInv
  PROVE  ChunksDontMatter
<1>1. SUFFICES ASSUME BetweenChunks, ~ input.odd
               PROVE  LET r == Reference(heard)
                      IN  /\ input.log = r.log /\ input.turned = r.turned
                          /\ input.mode = r.mode /\ input.session = r.session
                          /\ (input.carry # <<>>) = (r.at = "lead")
                          /\ (input.paste # <<>>) = (r.at = "paste")
  BY DEF ChunksDontMatter
<1>0. input \in Handlers /\ input.walk = "none" /\ Shape(input) /\ Position(input) = Reference(heard)
  BY <1>1 DEF ChunkTyped, ChunkInv, BetweenChunks
<1> DEFINE r == Reference(heard)
<1>2. r = Rest(input) /\ (input.carry # <<>> => input.paste = <<>>)
  BY <1>0, RestIs
<1> HIDE DEF r
<1>3. /\ r.log = input.log /\ r.turned = input.turned /\ r.mode = input.mode /\ r.session = input.session
      /\ r.at = Where(input)
  BY <1>2 DEF Rest, Ref
<1>4. (input.carry # <<>>) = (r.at = "lead") /\ (input.paste # <<>>) = (r.at = "paste")
  BY <1>2, <1>3 DEF Where
<1>5. QED
  BY <1>3, <1>4 DEF r

(* However the reads cut the stream, every key, every byte for the child, every *)
(* scroll and every paste is what the uncut stream says, in its order, and as   *)
(* many turns of the wheel scroll (input.js 983-1337).  A partial that ends a   *)
(* chunk in terminal mode is not held back, and the uncut stream is told so.    *)
(* Excepted are four cases: a paste over the cap; a paste that opens a chunk    *)
(* behind a carried partial; a change of mode between two chunks while a carry  *)
(* or a paste is pending; a dead terminal that drops more than the first event  *)
(* of a chunk.                                                                  *)
THEOREM ChunksNeverMatter == InputSpec => []ChunksDontMatter
<1>1. InputInit => ChunkTyped /\ ChunkInv
  BY ChunkInit
<1>2. ChunkTyped /\ ChunkInv /\ [InputNext]_inputVars => ChunkTyped' /\ ChunkInv'
  <2>1. SUFFICES ASSUME ChunkTyped, ChunkInv, [InputNext]_inputVars PROVE ChunkTyped' /\ ChunkInv'
    OBVIOUS
  <2>2. CASE Sends
    BY <2>1, <2>2, SendsKeep
  <2>3. CASE Reads
    BY <2>1, <2>3, ReadsKeep
  <2>4. CASE ChunkTaken \/ KeysTake
    BY <2>1, <2>4, ParserKeeps
  <2>5. CASE TerminalTakes
    BY <2>1, <2>5, TerminalWalkKeeps
  <2>6. CASE CarryFlushed
    BY <2>1, <2>6, FlushKeeps
  <2>7. CASE ModeFlips
    BY <2>1, <2>7, FlipKeeps
  <2>8. CASE UNCHANGED inputVars
    BY <2>1, <2>8 DEF inputVars, ChunkTyped, ChunkInv
  <2>9. QED
    BY <2>1, <2>2, <2>3, <2>4, <2>5, <2>6, <2>7, <2>8 DEF InputNext
<1>3. ChunkTyped /\ ChunkInv => ChunksDontMatter
  BY ChunksFit
<1>4. QED
  BY <1>1, <1>2, <1>3, PTL DEF InputSpec
=============================================================================
