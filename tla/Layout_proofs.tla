--------------------------- MODULE Layout_proofs ---------------------------
(* Proofs about Layout: the type invariant, a viewer on every grid, the focus *)
(* on a placed pane, and a gesture of the editor that can be taken back.      *)
(* Every arm of the reducer maps slices to slices; what an arm does to the    *)
(* panes is a lemma about the operator it uses.                               *)
EXTENDS Layout, FiniteSetTheorems, SequenceTheorems, WellFoundedInduction, TLAPS

\* What every pane of a grid is.
GoodPane == {p \in PaneType : /\ p.active \in TabsOf(p)
                              /\ p.content => Kind[p.pane] = "detail"}
Grid == Seq(Seq(GoodPane))
ViewerGrid == {g \in Grid : Details(g) # {}}

-----------------------------------------------------------------------------
(* Sequences. *)

LEMMA InsertAtShape ==
  ASSUME NEW S, NEW s \in Seq(S), NEW i \in 1 .. Len(s) + 1, NEW e \in S
  PROVE  /\ InsertAt(s, i, e) \in Seq(S)
         /\ Len(InsertAt(s, i, e)) = Len(s) + 1
         /\ \A j \in 1 .. Len(s) + 1 :
              InsertAt(s, i, e)[j] = IF j < i THEN s[j] ELSE IF j = i THEN e ELSE s[j - 1]
<1> DEFINE left  == SubSeq(s, 1, i - 1)
           right == SubSeq(s, i, Len(s))
           head  == left \o <<e>>
<1>1. left \in Seq(S) /\ Len(left) = i - 1 /\ \A j \in 1 .. i - 1 : left[j] = s[j]
  BY SubSeqProperties
<1>2. /\ right \in Seq(S) /\ Len(right) = Len(s) - i + 1
      /\ \A j \in 1 .. Len(s) - i + 1 : right[j] = s[i + j - 1]
  BY SubSeqProperties
<1>3. InsertAt(s, i, e) = head \o right
  BY DEF InsertAt
<1> HIDE DEF left, right
<1>4. /\ head \in Seq(S) /\ Len(head) = i
      /\ \A j \in 1 .. i : head[j] = IF j < i THEN s[j] ELSE e
  BY <1>1, ConcatProperties
<1> DEFINE t == head \o right
<1> HIDE DEF head
<1>5. /\ t \in Seq(S) /\ Len(t) = Len(head) + Len(right)
      /\ \A j \in 1 .. Len(head) + Len(right) :
           t[j] = IF j <= Len(head) THEN head[j] ELSE right[j - Len(head)]
  BY <1>2, <1>4, ConcatProperties
<1> HIDE DEF t
<1>6. ASSUME NEW j \in 1 .. Len(s) + 1
      PROVE  t[j] = IF j < i THEN s[j] ELSE IF j = i THEN e ELSE s[j - 1]
  <2>1. ASSUME j <= i PROVE t[j] = IF j < i THEN s[j] ELSE e
    BY <1>2, <1>4, <1>5, <2>1
  <2>2. ASSUME j > i PROVE t[j] = s[j - 1]
    <3>1. right[j - i] = s[j - 1]
      BY <1>2, <2>2
    <3> QED BY <1>2, <1>4, <1>5, <2>2, <3>1
  <2>3. j <= i \/ j > i
    OBVIOUS
  <2> QED BY <2>1, <2>2, <2>3
<1>7. InsertAt(s, i, e) = t
  BY <1>3 DEF t
<1>8. QED
  BY <1>2, <1>4, <1>5, <1>6, <1>7

LEMMA RemoveAtShape ==
  ASSUME NEW S, NEW s \in Seq(S), NEW i \in 1 .. Len(s)
  PROVE  /\ RemoveAt(s, i) \in Seq(S)
         /\ Len(RemoveAt(s, i)) = Len(s) - 1
         /\ \A j \in 1 .. Len(s) - 1 :
              RemoveAt(s, i)[j] = IF j < i THEN s[j] ELSE s[j + 1]
<1> DEFINE left  == SubSeq(s, 1, i - 1)
           right == SubSeq(s, i + 1, Len(s))
<1>1. left \in Seq(S) /\ Len(left) = i - 1 /\ \A j \in 1 .. i - 1 : left[j] = s[j]
  BY SubSeqProperties
<1>2. /\ right \in Seq(S) /\ Len(right) = Len(s) - i
      /\ \A j \in 1 .. Len(s) - i : right[j] = s[i + j]
  BY SubSeqProperties
<1>3. RemoveAt(s, i) = left \o right
  BY DEF RemoveAt
<1> HIDE DEF left, right
<1> DEFINE t == left \o right
<1>4. /\ t \in Seq(S) /\ Len(t) = Len(left) + Len(right)
      /\ \A j \in 1 .. Len(left) + Len(right) :
           t[j] = IF j <= Len(left) THEN left[j] ELSE right[j - Len(left)]
  BY <1>1, <1>2, ConcatProperties
<1> HIDE DEF t
<1>5. ASSUME NEW j \in 1 .. Len(s) - 1
      PROVE  t[j] = IF j < i THEN s[j] ELSE s[j + 1]
  <2>0. j \in 1 .. Len(left) + Len(right) /\ Len(left) = i - 1
    BY <1>1, <1>2
  <2>1. ASSUME j < i PROVE t[j] = s[j]
    <3>1. j <= Len(left)
      BY <2>0, <2>1
    <3>2. t[j] = left[j]
      BY <1>4, <2>0, <3>1
    <3> QED BY <1>1, <2>1, <3>2
  <2>2. ASSUME j >= i PROVE t[j] = s[j + 1]
    <3>1. right[j - (i - 1)] = s[j + 1]
      BY <1>2, <2>2
    <3>2. ~(j <= Len(left))
      BY <2>0, <2>2
    <3> QED BY <1>4, <2>0, <3>1, <3>2
  <2>3. j < i \/ j >= i
    OBVIOUS
  <2> QED BY <2>1, <2>2, <2>3
<1>6. RemoveAt(s, i) = t
  BY <1>3 DEF t
<1>7. QED
  BY <1>1, <1>2, <1>4, <1>5, <1>6

\* What stays, and what comes in.
LEMMA InsertAtKeeps ==
  ASSUME NEW S, NEW s \in Seq(S), NEW i \in 1 .. Len(s) + 1, NEW e \in S,
         NEW k \in 1 .. Len(s)
  PROVE  \E j \in 1 .. Len(InsertAt(s, i, e)) : InsertAt(s, i, e)[j] = s[k]
<1> DEFINE t == InsertAt(s, i, e)
<1>1. /\ t \in Seq(S) /\ Len(t) = Len(s) + 1
      /\ \A j \in 1 .. Len(s) + 1 : t[j] = IF j < i THEN s[j] ELSE IF j = i THEN e ELSE s[j - 1]
  BY InsertAtShape
<1> HIDE DEF t
<1>2. \E j \in 1 .. Len(t) : t[j] = s[k]
  <2>1. CASE k < i
    BY <1>1, <2>1
  <2>2. CASE k >= i
    <3>1. k + 1 \in 1 .. Len(t) /\ t[k + 1] = s[k]
      BY <1>1, <2>2
    <3> QED BY <3>1
  <2> QED BY <2>1, <2>2
<1>3. QED
  BY <1>2 DEF t

LEMMA InsertAtPuts ==
  ASSUME NEW S, NEW s \in Seq(S), NEW i \in 1 .. Len(s) + 1, NEW e \in S
  PROVE  i \in 1 .. Len(InsertAt(s, i, e)) /\ InsertAt(s, i, e)[i] = e
BY InsertAtShape

LEMMA RemoveAtKeeps ==
  ASSUME NEW S, NEW s \in Seq(S), NEW i \in 1 .. Len(s)
  PROVE  /\ RemoveAt(s, i) \in Seq(S) /\ Len(RemoveAt(s, i)) = Len(s) - 1
         /\ \A k \in 1 .. Len(s) :
              k # i => \E j \in 1 .. Len(RemoveAt(s, i)) : RemoveAt(s, i)[j] = s[k]
<1> DEFINE t == RemoveAt(s, i)
<1>1. /\ t \in Seq(S) /\ Len(t) = Len(s) - 1
      /\ \A j \in 1 .. Len(s) - 1 : t[j] = IF j < i THEN s[j] ELSE s[j + 1]
  BY RemoveAtShape
<1> HIDE DEF t
<1>2. ASSUME NEW k \in 1 .. Len(s), k # i PROVE \E j \in 1 .. Len(t) : t[j] = s[k]
  <2>1. CASE k < i
    BY <1>1, <2>1
  <2>2. CASE k > i
    <3>1. k - 1 \in 1 .. Len(t) /\ t[k - 1] = s[k]
      BY <1>1, <2>2
    <3> QED BY <3>1
  <2> QED BY <1>2, <2>1, <2>2
<1> QED BY <1>1, <1>2 DEF t

-----------------------------------------------------------------------------
(* Grids: the places, the panes, and what an edit keeps of them. *)

\* The panes at every place but one.
Others(cols, a) == {PaneAt(cols, b) : b \in At(cols) \ {a}}

LEMMA Places ==
  ASSUME NEW cols \in Grid
  PROVE  /\ \A a \in At(cols) : /\ a[1] \in 1 .. Len(cols) /\ a[2] \in 1 .. Len(cols[a[1]])
                                /\ a = <<a[1], a[2]>>
                                /\ PaneAt(cols, a) \in GoodPane
         /\ \A c \in 1 .. Len(cols) :
              /\ cols[c] \in Seq(GoodPane)
              /\ \A k \in 1 .. Len(cols[c]) : /\ <<c, k>> \in At(cols)
                                              /\ PaneAt(cols, <<c, k>>) = cols[c][k]
<1>1. /\ DOMAIN cols = 1 .. Len(cols)
      /\ \A c \in 1 .. Len(cols) : cols[c] \in Seq(GoodPane)
  BY DEF Grid
<1>2. \A c \in 1 .. Len(cols) : /\ DOMAIN cols[c] = 1 .. Len(cols[c])
                                /\ \A k \in 1 .. Len(cols[c]) : cols[c][k] \in GoodPane
  BY <1>1
<1>3. ASSUME NEW a \in At(cols)
      PROVE  /\ a[1] \in 1 .. Len(cols) /\ a[2] \in 1 .. Len(cols[a[1]])
             /\ a = <<a[1], a[2]>> /\ PaneAt(cols, a) \in GoodPane
  <2>1. PICK c \in 1 .. Len(cols) : a \in {c} \X DOMAIN cols[c]
    BY <1>1 DEF At
  <2>2. a = <<a[1], a[2]>> /\ a[1] = c /\ a[2] \in 1 .. Len(cols[c])
    BY <1>2, <2>1
  <2> QED BY <1>2, <2>2 DEF PaneAt
<1>4. ASSUME NEW c \in 1 .. Len(cols), NEW k \in 1 .. Len(cols[c])
      PROVE  <<c, k>> \in At(cols) /\ PaneAt(cols, <<c, k>>) = cols[c][k]
  BY <1>1, <1>2 DEF At, PaneAt
<1>5. QED
  BY <1>1, <1>3, <1>4

LEMMA PanesIn ==
  ASSUME NEW cols \in Grid, NEW p
  PROVE  p \in PanesOf(cols) <=>
           \E c \in 1 .. Len(cols) : \E k \in 1 .. Len(cols[c]) : cols[c][k] = p
<1>1. ASSUME p \in PanesOf(cols)
      PROVE  \E c \in 1 .. Len(cols) : \E k \in 1 .. Len(cols[c]) : cols[c][k] = p
  <2>1. PICK a \in At(cols) : p = PaneAt(cols, a)
    BY <1>1 DEF PanesOf
  <2> QED BY <2>1, Places DEF PaneAt
<1>2. ASSUME NEW c \in 1 .. Len(cols), NEW k \in 1 .. Len(cols[c]), cols[c][k] = p
      PROVE  p \in PanesOf(cols)
  <2>1. <<c, k>> \in At(cols) /\ PaneAt(cols, <<c, k>>) = p
    BY <1>2, Places
  <2> QED BY <2>1 DEF PanesOf
<1>3. QED
  BY <1>1, <1>2

LEMMA GoodPanes ==
  ASSUME NEW cols \in Grid
  PROVE  PanesOf(cols) \subseteq GoodPane
BY Places DEF PanesOf

\* A viewer is a pane, at some place.
LEMMA HasViewer ==
  ASSUME NEW cols \in Grid
  PROVE  Details(cols) # {} <=> \E p \in PanesOf(cols) : p.content
BY DEF Details, PanesOf

\* What cannot be hidden, replaced or swapped away.
LEMMA AnotherViewer ==
  ASSUME NEW cols \in ViewerGrid, NEW a \in At(cols),
         PaneAt(cols, a).content => ~(Cardinality(Details(cols)) <= 1)
  PROVE  \E p \in Others(cols, a) : p.content
<1>1. CASE Details(cols) \subseteq {a}
  <2>1. Details(cols) = {a}
    BY <1>1 DEF ViewerGrid
  <2>2. PaneAt(cols, a).content
    BY <2>1 DEF Details
  <2>3. Cardinality({a}) = 1
    BY FS_Singleton
  <2> QED BY <2>1, <2>2, <2>3
<1>2. CASE ~(Details(cols) \subseteq {a})
  BY <1>2 DEF Details, Others
<1>3. QED
  BY <1>1, <1>2

LEMMA SetColumn ==
  ASSUME NEW cols \in Grid, NEW c \in 1 .. Len(cols), NEW col \in Seq(GoodPane)
  PROVE  LET new == [cols EXCEPT ![c] = col]
         IN /\ new \in Grid /\ Len(new) = Len(cols) /\ new[c] = col
            /\ \A d \in 1 .. Len(cols) : d # c => new[d] = cols[d]
<1> DEFINE new == [cols EXCEPT ![c] = col]
<1>1. new \in Seq(Seq(GoodPane)) /\ Len(new) = Len(cols)
  BY ExceptSeq DEF Grid
<1>2. new[c] = col /\ \A d \in 1 .. Len(cols) : d # c => new[d] = cols[d]
  BY DEF Grid
<1>3. QED
  BY <1>1, <1>2 DEF Grid

LEMMA SetPaneGrid ==
  ASSUME NEW cols \in Grid, NEW a \in At(cols), NEW p \in GoodPane
  PROVE  /\ SetPane(cols, a, p) \in Grid
         /\ Len(SetPane(cols, a, p)) = Len(cols)
         /\ At(SetPane(cols, a, p)) = At(cols)
         /\ \A b \in At(cols) :
              PaneAt(SetPane(cols, a, p), b) = IF b = a THEN p ELSE PaneAt(cols, b)
<1> DEFINE col == [cols[a[1]] EXCEPT ![a[2]] = p]
           new == [cols EXCEPT ![a[1]] = col]
<1>1. /\ a[1] \in 1 .. Len(cols) /\ a[2] \in 1 .. Len(cols[a[1]])
      /\ a = <<a[1], a[2]>> /\ cols[a[1]] \in Seq(GoodPane)
  BY Places
<1>2. /\ col \in Seq(GoodPane) /\ Len(col) = Len(cols[a[1]])
      /\ \A k \in 1 .. Len(cols[a[1]]) : col[k] = IF k = a[2] THEN p ELSE cols[a[1]][k]
  BY <1>1, ExceptSeq
<1>3. SetPane(cols, a, p) = new
  BY DEF SetPane
<1> HIDE DEF col
<1>4. /\ new \in Grid /\ Len(new) = Len(cols) /\ new[a[1]] = col
      /\ \A d \in 1 .. Len(cols) : d # a[1] => new[d] = cols[d]
  BY <1>1, <1>2, SetColumn
<1> HIDE DEF new
<1>5. At(new) = At(cols)
  <2>1. \A c \in 1 .. Len(cols) : Len(new[c]) = Len(cols[c])
    BY <1>2, <1>4
  <2>2. ASSUME NEW b PROVE b \in At(new) <=> b \in At(cols)
    BY <1>4, <2>1, Places
  <2> QED BY <2>2
<1>6. ASSUME NEW b \in At(cols) PROVE PaneAt(new, b) = IF b = a THEN p ELSE PaneAt(cols, b)
  <2>1. b[1] \in 1 .. Len(cols) /\ b[2] \in 1 .. Len(cols[b[1]]) /\ b = <<b[1], b[2]>>
    BY Places
  <2>2. CASE b[1] # a[1]
    BY <1>4, <2>1, <2>2 DEF PaneAt
  <2>3. CASE b[1] = a[1]
    <3>1. b[2] = a[2] <=> b = a
      BY <1>1, <2>1, <2>3
    <3> QED BY <1>2, <1>4, <2>1, <2>3, <3>1 DEF PaneAt
  <2> QED BY <2>2, <2>3
<1>7. QED
  BY <1>3, <1>4, <1>5, <1>6

LEMMA SetPanePanes ==
  ASSUME NEW cols \in Grid, NEW a \in At(cols), NEW p \in GoodPane
  PROVE  PanesOf(SetPane(cols, a, p)) = Others(cols, a) \union {p}
BY SetPaneGrid DEF PanesOf, Others

LEMMA WithoutGrid ==
  ASSUME NEW cols \in Grid, NEW a \in At(cols)
  PROVE  /\ Without(cols, a) \in Grid /\ Len(Without(cols, a)) = Len(cols)
         /\ Others(cols, a) \subseteq PanesOf(Without(cols, a))
<1> DEFINE col == RemoveAt(cols[a[1]], a[2])
           new == [cols EXCEPT ![a[1]] = col]
<1>1. /\ a[1] \in 1 .. Len(cols) /\ a[2] \in 1 .. Len(cols[a[1]])
      /\ a = <<a[1], a[2]>> /\ cols[a[1]] \in Seq(GoodPane)
  BY Places
<1>2. /\ col \in Seq(GoodPane)
      /\ \A k \in 1 .. Len(cols[a[1]]) : k # a[2] => \E j \in 1 .. Len(col) : col[j] = cols[a[1]][k]
  BY <1>1, RemoveAtKeeps
<1>3. Without(cols, a) = new
  BY DEF Without
<1> HIDE DEF col
<1>4. /\ new \in Grid /\ Len(new) = Len(cols) /\ new[a[1]] = col
      /\ \A d \in 1 .. Len(cols) : d # a[1] => new[d] = cols[d]
  BY <1>1, <1>2, SetColumn
<1> HIDE DEF new
<1>5. ASSUME NEW b \in At(cols), b # a PROVE PaneAt(cols, b) \in PanesOf(new)
  <2>1. b[1] \in 1 .. Len(cols) /\ b[2] \in 1 .. Len(cols[b[1]]) /\ b = <<b[1], b[2]>>
    BY Places
  <2>2. CASE b[1] # a[1]
    BY <1>4, <2>1, <2>2, PanesIn DEF PaneAt
  <2>3. CASE b[1] = a[1]
    <3>1. b[2] # a[2]
      BY <1>1, <1>5, <2>1, <2>3
    <3>2. PICK j \in 1 .. Len(col) : col[j] = cols[a[1]][b[2]]
      BY <1>2, <2>1, <2>3, <3>1
    <3> QED BY <1>1, <1>4, <2>3, <3>2, PanesIn DEF PaneAt
  <2> QED BY <2>2, <2>3
<1>6. QED
  BY <1>3, <1>4, <1>5 DEF Others

\* A pane taken away leaves no other ones than there were.
LEMMA WithoutPanes ==
  ASSUME NEW cols \in Grid, NEW a \in At(cols)
  PROVE  PanesOf(Without(cols, a)) \subseteq PanesOf(cols)
<1> DEFINE col == RemoveAt(cols[a[1]], a[2])
           new == [cols EXCEPT ![a[1]] = col]
<1>1. a[1] \in 1 .. Len(cols) /\ a[2] \in 1 .. Len(cols[a[1]]) /\ cols[a[1]] \in Seq(GoodPane)
  BY Places
<1>2. /\ col \in Seq(GoodPane) /\ Len(col) = Len(cols[a[1]]) - 1
      /\ \A j \in 1 .. Len(col) : \E k \in 1 .. Len(cols[a[1]]) : col[j] = cols[a[1]][k]
  <2>1. /\ col \in Seq(GoodPane) /\ Len(col) = Len(cols[a[1]]) - 1
        /\ \A j \in 1 .. Len(cols[a[1]]) - 1 :
             col[j] = IF j < a[2] THEN cols[a[1]][j] ELSE cols[a[1]][j + 1]
    BY <1>1, RemoveAtShape
  <2> HIDE DEF col
  <2>2. ASSUME NEW j \in 1 .. Len(col) PROVE \E k \in 1 .. Len(cols[a[1]]) : col[j] = cols[a[1]][k]
    BY <1>1, <2>1
  <2> QED BY <2>1, <2>2
<1>3. Without(cols, a) = new
  BY DEF Without
<1> HIDE DEF col
<1>4. /\ new \in Grid /\ Len(new) = Len(cols) /\ new[a[1]] = col
      /\ \A d \in 1 .. Len(cols) : d # a[1] => new[d] = cols[d]
  BY <1>1, <1>2, SetColumn
<1> HIDE DEF new
<1>5. ASSUME NEW p \in PanesOf(new) PROVE p \in PanesOf(cols)
  <2>1. PICK c \in 1 .. Len(cols) : \E k \in 1 .. Len(new[c]) : new[c][k] = p
    BY <1>4, PanesIn
  <2>2. CASE c # a[1]
    BY <1>4, <2>1, <2>2, PanesIn
  <2>3. CASE c = a[1]
    <3>1. PICK j \in 1 .. Len(col) : col[j] = p
      BY <1>4, <2>1, <2>3
    <3>2. PICK k \in 1 .. Len(cols[a[1]]) : cols[a[1]][k] = p
      BY <1>2, <3>1
    <3> QED BY <1>1, <3>2, PanesIn
  <2> QED BY <2>2, <2>3
<1>6. QED
  BY <1>3, <1>5

\* The places S of the grid new hold panes that were elsewhere in cols.
Moved(new, S, cols, f) ==
  /\ \A b \in S : f[b] \in At(cols) /\ PaneAt(new, b) = PaneAt(cols, f[b])
  /\ \A b, d \in S : f[b] = f[d] => b = d

\* The places that are left are as many of the old ones, and no place has two panes.
LEMMA WithoutPlaces ==
  ASSUME NEW cols \in Grid, NEW a \in At(cols)
  PROVE  LET new == Without(cols, a)
         IN  \E f : Moved(new, At(new), cols, f)
<1> DEFINE col == RemoveAt(cols[a[1]], a[2])
           new == [cols EXCEPT ![a[1]] = col]
           f == [b \in At(new) |-> IF b[1] = a[1] /\ ~(b[2] < a[2]) THEN <<b[1], b[2] + 1>> ELSE b]
<1>1. /\ a[1] \in 1 .. Len(cols) /\ a[2] \in 1 .. Len(cols[a[1]]) /\ cols[a[1]] \in Seq(GoodPane)
      /\ a = <<a[1], a[2]>>
  BY Places
<1>2. /\ col \in Seq(GoodPane) /\ Len(col) = Len(cols[a[1]]) - 1
      /\ \A j \in 1 .. Len(cols[a[1]]) - 1 :
           col[j] = IF j < a[2] THEN cols[a[1]][j] ELSE cols[a[1]][j + 1]
  BY <1>1, RemoveAtShape
<1>3. Without(cols, a) = new
  BY DEF Without
<1> HIDE DEF col
<1>4. /\ new \in Grid /\ Len(new) = Len(cols) /\ new[a[1]] = col
      /\ \A d \in 1 .. Len(cols) : d # a[1] => new[d] = cols[d]
  BY <1>1, <1>2, SetColumn
<1> HIDE DEF new
<1>5. ASSUME NEW b \in At(new)
      PROVE  f[b] \in At(cols) /\ f[b] # a /\ PaneAt(new, b) = PaneAt(cols, f[b])
  <2>1. b[1] \in 1 .. Len(cols) /\ b[2] \in 1 .. Len(new[b[1]]) /\ b = <<b[1], b[2]>>
    BY <1>4, Places
  <2>2. CASE b[1] # a[1]
    <3>1. f[b] = b /\ new[b[1]] = cols[b[1]]
      BY <1>4, <2>1, <2>2
    <3> QED BY <2>1, <2>2, <3>1, Places DEF PaneAt
  <2>3. CASE b[1] = a[1] /\ b[2] < a[2]
    <3>1. f[b] = b /\ b[2] \in 1 .. Len(cols[a[1]]) /\ new[b[1]][b[2]] = cols[a[1]][b[2]]
      BY <1>1, <1>2, <1>4, <2>1, <2>3
    <3> QED BY <1>1, <2>1, <2>3, <3>1, Places DEF PaneAt
  <2>4. CASE b[1] = a[1] /\ ~(b[2] < a[2])
    <3>1. /\ f[b] = <<a[1], b[2] + 1>> /\ b[2] + 1 \in 1 .. Len(cols[a[1]])
          /\ new[b[1]][b[2]] = cols[a[1]][b[2] + 1]
      BY <1>1, <1>2, <1>4, <2>1, <2>4
    <3>2. f[b] \in At(cols)
      BY <1>1, <3>1, Places
    <3>3. f[b] # a
      BY <1>1, <2>1, <2>4, <3>1
    <3> QED BY <3>1, <3>2, <3>3 DEF PaneAt
  <2> QED BY <2>2, <2>3, <2>4
<1>6. ASSUME NEW b \in At(new), NEW d \in At(new), f[b] = f[d] PROVE b = d
  <2>1. /\ b[1] \in 1 .. Len(cols) /\ b[2] \in Nat /\ b = <<b[1], b[2]>>
        /\ d[1] \in 1 .. Len(cols) /\ d[2] \in Nat /\ d = <<d[1], d[2]>>
    BY <1>4, Places
  <2>2. /\ f[b] = IF b[1] = a[1] /\ ~(b[2] < a[2]) THEN <<b[1], b[2] + 1>> ELSE <<b[1], b[2]>>
        /\ f[d] = IF d[1] = a[1] /\ ~(d[2] < a[2]) THEN <<d[1], d[2] + 1>> ELSE <<d[1], d[2]>>
    BY <2>1
  <2>3. a[2] \in Nat
    BY <1>1
  <2> QED BY <1>6, <2>1, <2>2, <2>3
<1>7. Moved(new, At(new), cols, f)
  BY <1>5, <1>6 DEF Moved
<1> HIDE DEF f
<1>8. QED
  BY <1>3, <1>7

LEMMA InsertPlaces ==
  ASSUME NEW cols \in Grid, NEW c \in 1 .. Len(cols), NEW k \in 1 .. Len(cols[c]) + 1,
         NEW p \in GoodPane
  PROVE  LET new == Insert(cols, c, k, p)
         IN  /\ \E f : Moved(new, At(new) \ {<<c, k>>}, cols, f)
             /\ PaneAt(new, <<c, k>>) = p
<1> DEFINE col == InsertAt(cols[c], k, p)
           new == [cols EXCEPT ![c] = col]
           rest == At(new) \ {<<c, k>>}
           f == [b \in rest |-> IF b[1] = c /\ b[2] > k THEN <<c, b[2] - 1>> ELSE b]
<1>1. cols[c] \in Seq(GoodPane) /\ Len(cols[c]) \in Nat
  BY Places
<1>2. /\ col \in Seq(GoodPane) /\ Len(col) = Len(cols[c]) + 1
      /\ \A j \in 1 .. Len(cols[c]) + 1 :
           col[j] = IF j < k THEN cols[c][j] ELSE IF j = k THEN p ELSE cols[c][j - 1]
  <2>1. cols[c] \in Seq(GoodPane)
    BY <1>1
  <2> QED BY <2>1, InsertAtShape
<1>3. Insert(cols, c, k, p) = new
  BY DEF Insert
<1> HIDE DEF col
<1>4. /\ new \in Grid /\ Len(new) = Len(cols) /\ new[c] = col
      /\ \A d \in 1 .. Len(cols) : d # c => new[d] = cols[d]
  BY <1>2, SetColumn
<1> HIDE DEF new
<1>5. ASSUME NEW b \in rest PROVE f[b] \in At(cols) /\ PaneAt(new, b) = PaneAt(cols, f[b])
  <2>1. /\ b[1] \in 1 .. Len(cols) /\ b[2] \in 1 .. Len(new[b[1]]) /\ b = <<b[1], b[2]>>
        /\ b[1] = c => b[2] # k
    BY <1>4, Places
  <2>2. CASE b[1] # c
    <3>1. f[b] = b /\ new[b[1]] = cols[b[1]]
      BY <1>4, <2>1, <2>2
    <3> QED BY <2>1, <2>2, <3>1, Places DEF PaneAt
  <2>3. CASE b[1] = c /\ b[2] < k
    <3>1. f[b] = b /\ b[2] \in 1 .. Len(cols[c]) /\ new[c][b[2]] = cols[c][b[2]]
      BY <1>1, <1>2, <1>4, <2>1, <2>3
    <3> QED BY <1>1, <2>1, <2>3, <3>1, Places DEF PaneAt
  <2>4. CASE b[1] = c /\ b[2] > k
    <3>1. f[b] = <<c, b[2] - 1>> /\ b[2] - 1 \in 1 .. Len(cols[c]) /\ new[c][b[2]] = cols[c][b[2] - 1]
      BY <1>1, <1>2, <1>4, <2>1, <2>4
    <3>2. f[b] \in At(cols)
      BY <3>1, Places
    <3> QED BY <2>4, <3>1, <3>2 DEF PaneAt
  <2> QED BY <2>1, <2>2, <2>3, <2>4
<1>6. ASSUME NEW b \in rest, NEW d \in rest, f[b] = f[d] PROVE b = d
  <2>1. /\ b[2] \in Nat /\ b = <<b[1], b[2]>> /\ (b[1] = c => b[2] # k)
        /\ d[2] \in Nat /\ d = <<d[1], d[2]>> /\ (d[1] = c => d[2] # k)
    BY <1>4, Places
  <2>2. /\ f[b] = IF b[1] = c /\ b[2] > k THEN <<b[1], b[2] - 1>> ELSE <<b[1], b[2]>>
        /\ f[d] = IF d[1] = c /\ d[2] > k THEN <<d[1], d[2] - 1>> ELSE <<d[1], d[2]>>
    BY <2>1
  <2> QED BY <1>6, <2>1, <2>2
<1>7. PaneAt(new, <<c, k>>) = p
  BY <1>1, <1>2, <1>4 DEF PaneAt
<1>8. Moved(new, rest, cols, f)
  BY <1>5, <1>6 DEF Moved
<1> HIDE DEF f
<1>9. QED
  BY <1>3, <1>7, <1>8

\* An inserted pane is the only one added.
LEMMA InsertPanes ==
  ASSUME NEW cols \in Grid, NEW c \in 1 .. Len(cols), NEW k \in 1 .. Len(cols[c]) + 1,
         NEW p \in GoodPane
  PROVE  PanesOf(Insert(cols, c, k, p)) \subseteq PanesOf(cols) \union {p}
<1> DEFINE col == InsertAt(cols[c], k, p)
           new == [cols EXCEPT ![c] = col]
<1>1. cols[c] \in Seq(GoodPane)
  BY Places
<1>2. /\ col \in Seq(GoodPane)
      /\ \A j \in 1 .. Len(col) : col[j] = p \/ \E m \in 1 .. Len(cols[c]) : col[j] = cols[c][m]
  <2>1. /\ col \in Seq(GoodPane) /\ Len(col) = Len(cols[c]) + 1
        /\ \A j \in 1 .. Len(cols[c]) + 1 :
             col[j] = IF j < k THEN cols[c][j] ELSE IF j = k THEN p ELSE cols[c][j - 1]
    BY <1>1, InsertAtShape
  <2> HIDE DEF col
  <2>2. ASSUME NEW j \in 1 .. Len(col)
        PROVE  col[j] = p \/ \E m \in 1 .. Len(cols[c]) : col[j] = cols[c][m]
    BY <1>1, <2>1
  <2> QED BY <2>1, <2>2
<1>3. Insert(cols, c, k, p) = new
  BY DEF Insert
<1> HIDE DEF col
<1>4. /\ new \in Grid /\ Len(new) = Len(cols) /\ new[c] = col
      /\ \A d \in 1 .. Len(cols) : d # c => new[d] = cols[d]
  BY <1>2, SetColumn
<1> HIDE DEF new
<1>5. ASSUME NEW q \in PanesOf(new) PROVE q \in PanesOf(cols) \union {p}
  <2>1. PICK d \in 1 .. Len(cols) : \E m \in 1 .. Len(new[d]) : new[d][m] = q
    BY <1>4, PanesIn
  <2>2. CASE d # c
    BY <1>4, <2>1, <2>2, PanesIn
  <2>3. CASE d = c
    BY <1>2, <1>4, <2>1, <2>3, PanesIn
  <2> QED BY <2>2, <2>3
<1>6. QED
  BY <1>3, <1>5

LEMMA InsertGrid ==
  ASSUME NEW cols \in Grid, NEW c \in 1 .. Len(cols), NEW k \in 1 .. Len(cols[c]) + 1,
         NEW p \in GoodPane
  PROVE  /\ Insert(cols, c, k, p) \in Grid /\ Len(Insert(cols, c, k, p)) = Len(cols)
         /\ PanesOf(cols) \union {p} \subseteq PanesOf(Insert(cols, c, k, p))
<1> DEFINE col == InsertAt(cols[c], k, p)
           new == [cols EXCEPT ![c] = col]
<1>1. cols[c] \in Seq(GoodPane)
  BY Places
<1>2. /\ col \in Seq(GoodPane)
      /\ \A m \in 1 .. Len(cols[c]) : \E j \in 1 .. Len(col) : col[j] = cols[c][m]
      /\ \E j \in 1 .. Len(col) : col[j] = p
  <2>1. col \in Seq(GoodPane)
    BY <1>1, InsertAtShape
  <2>2. ASSUME NEW m \in 1 .. Len(cols[c]) PROVE \E j \in 1 .. Len(col) : col[j] = cols[c][m]
    <3>1. ASSUME NEW s \in Seq(GoodPane), NEW i \in 1 .. Len(s) + 1, NEW n \in 1 .. Len(s)
          PROVE  \E j \in 1 .. Len(InsertAt(s, i, p)) : InsertAt(s, i, p)[j] = s[n]
      BY InsertAtKeeps
    <3> QED BY <1>1, <3>1, Zenon
  <2>3. k \in 1 .. Len(col) /\ col[k] = p
    BY <1>1, InsertAtPuts
  <2> QED BY <2>1, <2>2, <2>3
<1>3. Insert(cols, c, k, p) = new
  BY DEF Insert
<1> HIDE DEF col
<1>4. /\ new \in Grid /\ Len(new) = Len(cols) /\ new[c] = col
      /\ \A d \in 1 .. Len(cols) : d # c => new[d] = cols[d]
  BY <1>2, SetColumn
<1> HIDE DEF new
<1>5. ASSUME NEW q \in PanesOf(cols) PROVE q \in PanesOf(new)
  <2>1. PICK d \in 1 .. Len(cols) : \E m \in 1 .. Len(cols[d]) : cols[d][m] = q
    BY PanesIn
  <2>2. CASE d # c
    BY <1>4, <2>1, <2>2, PanesIn
  <2>3. CASE d = c
    BY <1>2, <1>4, <2>1, <2>3, PanesIn
  <2> QED BY <2>2, <2>3
<1>6. p \in PanesOf(new)
  BY <1>2, <1>4, PanesIn
<1>7. QED
  BY <1>3, <1>4, <1>5, <1>6

LEMMA InsertColumnGrid ==
  ASSUME NEW cols \in Grid, NEW k \in 1 .. Len(cols) + 1, NEW col \in Seq(GoodPane)
  PROVE  /\ InsertAt(cols, k, col) \in Grid
         /\ PanesOf(cols) \subseteq PanesOf(InsertAt(cols, k, col))
         /\ \A m \in 1 .. Len(col) : col[m] \in PanesOf(InsertAt(cols, k, col))
<1> DEFINE new == InsertAt(cols, k, col)
<1>1. /\ new \in Grid
      /\ \A c \in 1 .. Len(cols) : \E d \in 1 .. Len(new) : new[d] = cols[c]
      /\ \E d \in 1 .. Len(new) : new[d] = col
  <2>1. cols \in Seq(Seq(GoodPane))
    BY DEF Grid
  <2>2. new \in Grid
    BY <2>1, InsertAtShape DEF Grid
  <2>3. ASSUME NEW c \in 1 .. Len(cols) PROVE \E d \in 1 .. Len(new) : new[d] = cols[c]
    BY <2>1, InsertAtKeeps
  <2>4. k \in 1 .. Len(new) /\ new[k] = col
    BY <2>1, InsertAtPuts
  <2> HIDE DEF new
  <2> QED BY <2>2, <2>3, <2>4
<1> HIDE DEF new
<1>2. ASSUME NEW q \in PanesOf(cols) PROVE q \in PanesOf(new)
  <2>1. PICK c \in 1 .. Len(cols) : \E m \in 1 .. Len(cols[c]) : cols[c][m] = q
    BY PanesIn
  <2>2. PICK d \in 1 .. Len(new) : new[d] = cols[c]
    BY <1>1
  <2> QED BY <1>1, <2>1, <2>2, PanesIn
<1>3. ASSUME NEW m \in 1 .. Len(col) PROVE col[m] \in PanesOf(new)
  BY <1>1, PanesIn
<1>4. QED
  BY <1>1, <1>2, <1>3 DEF new

LEMMA RemoveColumnGrid ==
  ASSUME NEW cols \in Grid, NEW c \in 1 .. Len(cols), cols[c] = <<>>
  PROVE  /\ RemoveAt(cols, c) \in Grid /\ Len(RemoveAt(cols, c)) = Len(cols) - 1
         /\ PanesOf(cols) \subseteq PanesOf(RemoveAt(cols, c))
<1> DEFINE new == RemoveAt(cols, c)
<1>1. /\ new \in Grid /\ Len(new) = Len(cols) - 1
      /\ \A d \in 1 .. Len(cols) : d # c => \E e \in 1 .. Len(new) : new[e] = cols[d]
  BY RemoveAtKeeps DEF Grid
<1> HIDE DEF new
<1>2. ASSUME NEW q \in PanesOf(cols) PROVE q \in PanesOf(new)
  <2>1. PICK d \in 1 .. Len(cols) : \E m \in 1 .. Len(cols[d]) : cols[d][m] = q
    BY PanesIn
  <2>2. d # c
    BY <2>1
  <2>3. PICK e \in 1 .. Len(new) : new[e] = cols[d]
    BY <1>1, <2>2
  <2> QED BY <1>1, <2>1, <2>3, PanesIn
<1>3. QED
  BY <1>1, <1>2 DEF new

-----------------------------------------------------------------------------
(* Slices: in view v, with a viewer on the grid and on every grid of the undo *)
(* and the redo stack; Slices(v) also has its focus on a pane of the grid.    *)

Loose(v) ==
  {l \in [cols : ViewerGrid, pool : {P \in SUBSET Ids : ConfigIds \subseteq P},
          focus : Ids, view : {v}, dirty : BOOLEAN,
          undo : Seq(ViewerGrid), redo : Seq(ViewerGrid)] :
     Len(l.undo) + Len(l.redo) <= MaxUndo}
Slices(v) == {l \in Loose(v) : l.focus \in PaneNames(l.cols)}

\* The first place in grid order exists: the order is well-founded.
LEMMA FirstOfAmong ==
  ASSUME NEW cols \in Grid, NEW at \in SUBSET At(cols), at # {}
  PROVE  FirstOf(cols, at) \in {PaneAt(cols, b) : b \in at}
<1> DEFINE Less == OpToRel(<, Nat)
           Lex  == LexPairOrdering(Less, Less, Nat, Nat)
<1>1. IsWellFoundedOn(Lex, Nat \X Nat)
  BY NatLessThanWellFounded, WFLexPairOrdering
<1>2. at \subseteq Nat \X Nat
  BY Places
<1>3. PICK a \in at : \A b \in at : ~(<<b, a>> \in Lex)
  <2> HIDE DEF Lex
  <2> QED BY <1>1, <1>2, WFMin
<1>4. \A b \in at : NotAfter(a, b)
  <2>1. ASSUME NEW b \in at PROVE NotAfter(a, b)
    <3>1. /\ a[1] \in Nat /\ a[2] \in Nat /\ b[1] \in Nat /\ b[2] \in Nat
          /\ a \in Nat \X Nat /\ b \in Nat \X Nat
      BY <1>2
    <3>2. b[1] < a[1] => <<b[1], a[1]>> \in Less
      BY <3>1 DEF OpToRel
    <3>3. b[2] < a[2] => <<b[2], a[2]>> \in Less
      BY <3>1 DEF OpToRel
    <3> HIDE DEF Less
    <3>4. /\ ~(<<b[1], a[1]>> \in Less)
          /\ b[1] = a[1] => ~(<<b[2], a[2]>> \in Less)
      BY <1>3, <3>1 DEF LexPairOrdering
    <3> QED BY <3>1, <3>2, <3>3, <3>4 DEF NotAfter
  <2> QED BY <2>1
<1>5. (CHOOSE x \in at : \A b \in at : NotAfter(x, b)) \in at
  BY <1>4
<1>6. QED
  BY <1>5 DEF FirstOf

LEMMA FirstOfIn ==
  ASSUME NEW cols \in Grid, NEW at \in SUBSET At(cols), at # {}
  PROVE  FirstOf(cols, at) \in PanesOf(cols)
BY FirstOfAmong DEF PanesOf

LEMMA FirstPaneIn ==
  ASSUME NEW cols \in ViewerGrid
  PROVE  FirstPane(cols) \in PaneNames(cols)
<1>1. cols \in Grid /\ At(cols) # {}
  BY DEF ViewerGrid, Details
<1>2. FirstOf(cols, At(cols)) \in PanesOf(cols)
  BY <1>1, FirstOfIn
<1>3. QED
  BY <1>2 DEF FirstPane, PaneNames

LEMMA NamesAreIds ==
  ASSUME NEW cols \in Grid
  PROVE  PaneNames(cols) \subseteq Ids
BY GoodPanes DEF PaneNames, GoodPane, PaneType

LEMMA ClampSlice ==
  ASSUME NEW v, NEW l \in Loose(v)
  PROVE  Clamp(l) \in Slices(v) /\ Clamp(l).cols = l.cols
<1>1. l.cols \in ViewerGrid /\ l.cols \in Grid
  BY DEF Loose, ViewerGrid
<1>2. FirstPane(l.cols) \in PaneNames(l.cols) /\ FirstPane(l.cols) \in Ids
  BY <1>1, FirstPaneIn, NamesAreIds
<1>3. QED
  BY <1>2 DEF Clamp, Slices, Loose

LEMMA WithFocusSlice ==
  ASSUME NEW v, NEW l \in Loose(v), NEW n \in PaneNames(l.cols)
  PROVE  WithFocus(l, n) \in Slices(v) /\ WithFocus(l, n).cols = l.cols
<1>1. n \in Ids
  BY NamesAreIds DEF Loose, ViewerGrid
<1>2. QED
  BY <1>1 DEF WithFocus, Slices, Loose

LEMMA ClampAndFocusSlice ==
  ASSUME NEW v, NEW l \in Loose(v), NEW old
  PROVE  ClampAndFocus(old, l) \in Slices(v)
<1>1. Clamp(l) \in Slices(v)
  BY ClampSlice
<1>2. WithFocus(Clamp(l), Clamp(l).focus) \in Slices(v)
  BY <1>1, WithFocusSlice DEF Slices
<1>3. QED
  BY <1>1, <1>2 DEF ClampAndFocus

\* The pane with a name is found among those that wear it, or hold it.
LEMMA FocusByNameSlice ==
  ASSUME NEW v, NEW l \in Loose(v), NEW name,
         \/ l \in Slices(v)
         \/ \E p \in PanesOf(l.cols) : KindOf(p) = name
  PROVE  FocusByName(l, name) \in Slices(v)
<1> DEFINE wears == {a \in At(l.cols) : name \in {KindOf(PaneAt(l.cols, a)), IdOf(PaneAt(l.cols, a))}}
           holds == {a \in At(l.cols) : name \in TabsOf(PaneAt(l.cols, a))}
<1>1. l.cols \in Grid
  BY DEF Loose, ViewerGrid
<1>2. ASSUME NEW at \in SUBSET At(l.cols), at # {}
      PROVE  WithFocus(l, FirstOf(l.cols, at).pane) \in Slices(v)
  <2>1. FirstOf(l.cols, at).pane \in PaneNames(l.cols)
    BY <1>1, <1>2, FirstOfIn DEF PaneNames
  <2> QED BY <2>1, WithFocusSlice
<1>3. wears \in SUBSET At(l.cols) /\ holds \in SUBSET At(l.cols)
  OBVIOUS
<1>4. ASSUME wears = {} PROVE l \in Slices(v)
  BY <1>4 DEF PanesOf
<1>5. FocusByName(l, name) = IF wears # {} THEN WithFocus(l, FirstOf(l.cols, wears).pane)
                             ELSE IF holds # {} THEN WithFocus(l, FirstOf(l.cols, holds).pane)
                             ELSE l
  BY DEF FocusByName
<1> HIDE DEF wears, holds
<1>6. QED
  BY <1>2, <1>3, <1>4, <1>5

LEMMA FocusByNameCols ==
  ASSUME NEW v, NEW l \in Loose(v), NEW name
  PROVE  FocusByName(l, name).cols = l.cols
<1>1. \A n : WithFocus(l, n).cols = l.cols
  BY DEF WithFocus, Loose
<1>2. QED
  BY <1>1 DEF FocusByName

LEMMA LastOfShape ==
  ASSUME NEW S, NEW s \in Seq(S)
  PROVE  LastOf(s) \in Seq(S) /\ Len(LastOf(s)) <= MaxUndo
<1> DEFINE m == IF Len(s) > MaxUndo THEN Len(s) - MaxUndo + 1 ELSE 1
<1>1. MaxUndo \in Nat \ {0}
  BY LayoutAssumption
<1>2. m \in 1 .. Len(s) + 1 /\ Len(s) - m + 1 <= MaxUndo
  BY <1>1
<1>3. LastOf(s) = SubSeq(s, m, Len(s))
  BY DEF LastOf
<1> HIDE DEF m
<1>4. /\ SubSeq(s, m, Len(s)) \in Seq(S)
      /\ Len(SubSeq(s, m, Len(s))) = IF m <= Len(s) THEN Len(s) - m + 1 ELSE 0
  BY <1>2, SubSeqProperties
<1>5. QED
  BY <1>1, <1>2, <1>3, <1>4

LEMMA PushUndoSlice ==
  ASSUME NEW v, NEW l \in Loose(v)
  PROVE  /\ PushUndo(l) \in Loose(v)
         /\ PushUndo(l).cols = l.cols /\ PushUndo(l).focus = l.focus
<1> DEFINE u == LastOf(Append(l.undo, l.cols))
<1>1. Append(l.undo, l.cols) \in Seq(ViewerGrid)
  BY DEF Loose
<1>2. u \in Seq(ViewerGrid) /\ Len(u) <= MaxUndo
  BY <1>1, LastOfShape
<1> DEFINE e == <<>>
<1>3. PushUndo(l) = [l EXCEPT !.undo = u, !.redo = e]
  BY DEF PushUndo
<1> HIDE DEF u
<1>4. Len(u) + Len(e) <= MaxUndo /\ e \in Seq(ViewerGrid)
  BY <1>2, LayoutAssumption
<1> HIDE DEF e
<1>5. QED
  BY <1>2, <1>3, <1>4 DEF Loose

LEMMA CommitSlice ==
  ASSUME NEW v, NEW l \in Loose(v), NEW cols \in ViewerGrid, NEW skipUndo
  PROVE  /\ Commit(l, cols, skipUndo) \in Loose(v)
         /\ Commit(l, cols, skipUndo).cols = cols
         /\ Commit(l, cols, skipUndo).focus = l.focus
<1> DEFINE k == IF skipUndo THEN l ELSE PushUndo(l)
<1>1. k \in Loose(v) /\ k.focus = l.focus
  BY PushUndoSlice
<1>2. Commit(l, cols, skipUndo) = [k EXCEPT !.cols = cols, !.dirty = TRUE]
  BY DEF Commit
<1> HIDE DEF k
<1>3. QED
  BY <1>1, <1>2 DEF Loose

LEMMA CommitFocused ==
  ASSUME NEW v, NEW l \in Loose(v), NEW cols \in ViewerGrid, NEW skipUndo,
         l.focus \in PaneNames(cols)
  PROVE  Commit(l, cols, skipUndo) \in Slices(v)
BY CommitSlice DEF Slices

LEMMA CommitTransientSlice ==
  ASSUME NEW v, NEW l \in Loose(v), NEW cols \in ViewerGrid
  PROVE  LET r == CommitTransient(l, cols)
         IN  r \in Loose(v) /\ r.cols = cols /\ r.focus = l.focus
BY DEF CommitTransient, Loose

\* Where the panes stay, the focus and a viewer stay.
LEMMA KeepsPanes ==
  ASSUME NEW cols \in ViewerGrid, NEW new \in Grid, PanesOf(cols) \subseteq PanesOf(new)
  PROVE  new \in ViewerGrid /\ PaneNames(cols) \subseteq PaneNames(new)
BY HasViewer DEF ViewerGrid, PaneNames

LEMMA CommitKeeps ==
  ASSUME NEW v, NEW l \in Slices(v), NEW skipUndo,
         NEW cols \in Grid, PanesOf(l.cols) \subseteq PanesOf(cols)
  PROVE  Commit(l, cols, skipUndo) \in Slices(v)
<1>1. l \in Loose(v) /\ l.cols \in ViewerGrid
  BY DEF Slices, Loose
<1>2. cols \in ViewerGrid /\ PaneNames(l.cols) \subseteq PaneNames(cols)
  BY <1>1, KeepsPanes
<1>3. QED
  BY <1>1, <1>2, CommitSlice DEF Slices

-----------------------------------------------------------------------------
(* The arms that work on the tabs of one pane. *)

LEMMA WhereIn ==
  ASSUME NEW cols, NEW n \in PaneNames(cols)
  PROVE  Where(cols, n) \in At(cols) /\ PaneAt(cols, Where(cols, n)).pane = n
BY DEF Where, PaneNames, PanesOf

LEMMA RetabGrid ==
  ASSUME NEW cols \in ViewerGrid, NEW a \in At(cols), NEW p \in GoodPane,
         p.pane = PaneAt(cols, a).pane, p.content = PaneAt(cols, a).content
  PROVE  SetPane(cols, a, p) \in ViewerGrid /\ PaneNames(SetPane(cols, a, p)) = PaneNames(cols)
<1> DEFINE new == SetPane(cols, a, p)
<1>1. /\ cols \in Grid /\ new \in Grid /\ At(new) = At(cols)
      /\ \A b \in At(cols) : PaneAt(new, b) = IF b = a THEN p ELSE PaneAt(cols, b)
  BY SetPaneGrid DEF ViewerGrid
<1> HIDE DEF new
<1>2. \A b \in At(cols) : /\ PaneAt(new, b).pane = PaneAt(cols, b).pane
                          /\ PaneAt(new, b).content = PaneAt(cols, b).content
  BY <1>1
<1>3. Details(new) = Details(cols)
  BY <1>1, <1>2 DEF Details
<1>4. PaneNames(new) = PaneNames(cols)
  BY <1>1, <1>2 DEF PaneNames, PanesOf
<1>5. QED
  BY <1>1, <1>3, <1>4 DEF ViewerGrid, new

\* A pane that gets other tabs keeps the slice.
LEMMA RetabSlice ==
  ASSUME NEW v, NEW l \in Slices(v), NEW a \in At(l.cols), NEW p \in GoodPane,
         p.pane = PaneAt(l.cols, a).pane, p.content = PaneAt(l.cols, a).content
  PROVE  /\ CommitTransient(l, SetPane(l.cols, a, p)) \in Slices(v)
         /\ Commit(l, SetPane(l.cols, a, p), FALSE) \in Slices(v)
<1>1. l \in Loose(v) /\ l.cols \in ViewerGrid
  BY DEF Slices, Loose
<1>2. /\ SetPane(l.cols, a, p) \in ViewerGrid
      /\ l.focus \in PaneNames(SetPane(l.cols, a, p))
  BY <1>1, RetabGrid DEF Slices
<1> DEFINE new == SetPane(l.cols, a, p)
<1> HIDE DEF new
<1>3. CommitTransient(l, new) \in Slices(v)
  BY <1>1, <1>2, CommitTransientSlice DEF Slices, new
<1>4. Commit(l, new, FALSE) \in Slices(v)
  BY <1>1, <1>2, CommitFocused, Zenon DEF new
<1>5. QED
  BY <1>3, <1>4 DEF new

LEMMA SliceGrid ==
  ASSUME NEW v, NEW l \in Slices(v)
  PROVE  /\ l \in Loose(v) /\ l.cols \in ViewerGrid /\ l.cols \in Grid
         /\ l.pool \subseteq Ids /\ ConfigIds \subseteq l.pool
BY DEF Slices, Loose, ViewerGrid

LEMMA SetActiveTabSlice ==
  ASSUME NEW v, NEW l \in Slices(v), NEW n \in PaneNames(l.cols), NEW t
  PROVE  /\ SetActiveTab(l, n, t) \in Slices(v)
         /\ PaneNames(SetActiveTab(l, n, t).cols) = PaneNames(l.cols)
<1> DEFINE a == Where(l.cols, n)
           p == PaneAt(l.cols, a)
           q == [p EXCEPT !.active = t]
           next == CommitTransient(l, SetPane(l.cols, a, q))
<1>1. a \in At(l.cols) /\ p \in GoodPane
  BY WhereIn, SliceGrid, Places
<1>2. ASSUME t \in TabsOf(p)
      PROVE  next \in Slices(v) /\ PaneNames(next.cols) = PaneNames(l.cols)
  <2>1. t \in Ids
    BY <1>1, <1>2 DEF GoodPane, PaneType, TabsOf, Range
  <2>2. q \in GoodPane /\ q.pane = p.pane /\ q.content = p.content
    BY <1>1, <1>2, <2>1 DEF GoodPane, PaneType, TabsOf
  <2> HIDE DEF q, a
  <2>3. next \in Slices(v)
    BY <1>1, <2>2, RetabSlice
  <2>4. next.cols = SetPane(l.cols, a, q)
    BY SliceGrid DEF CommitTransient, Loose
  <2> QED BY <1>1, <2>2, <2>3, <2>4, RetabGrid, SliceGrid
<1>3. ASSUME next \in Slices(v)
      PROVE  FocusByName(next, t) \in Slices(v) /\ FocusByName(next, t).cols = next.cols
  BY <1>3, SliceGrid, FocusByNameSlice, FocusByNameCols
<1>4. SetActiveTab(l, n, t) =
        IF t \notin TabsOf(p) \/ p.active = t \/ t \notin l.pool THEN l
        ELSE IF l.focus = n THEN FocusByName(next, t) ELSE next
  BY DEF SetActiveTab
<1> HIDE DEF next
<1>5. QED
  BY <1>2, <1>3, <1>4

LEMMA GrownPool ==
  ASSUME NEW v, NEW l \in Slices(v), NEW t \in Ids
  PROVE  LET r == [l EXCEPT !.pool = @ \union {t}] IN r \in Slices(v) /\ r.cols = l.cols
BY DEF Slices, Loose

LEMMA ShrunkPool ==
  ASSUME NEW v, NEW l \in Slices(v), NEW t \in Transient
  PROVE  LET r == [l EXCEPT !.pool = @ \ {t}] IN r \in Slices(v) /\ r.cols = l.cols
<1>1. t \notin ConfigIds
  BY LayoutAssumption DEF Transient
<1>2. QED
  BY <1>1 DEF Slices, Loose

LEMMA MintTabSlice ==
  ASSUME NEW v, NEW l \in Slices(v), NEW n \in PaneNames(l.cols), NEW t \in Ids
  PROVE  /\ MintTab(l, n, t) \in Slices(v)
         /\ PaneNames(MintTab(l, n, t).cols) = PaneNames(l.cols)
<1> DEFINE a == Where(l.cols, n)
           p == PaneAt(l.cols, a)
           q == [p EXCEPT !.tabs = Append(@, t), !.active = t]
           k == [l EXCEPT !.pool = @ \union {t}]
           next == CommitTransient(k, SetPane(l.cols, a, q))
<1>1. a \in At(l.cols) /\ p \in GoodPane
  BY WhereIn, SliceGrid, Places
<1>2. q \in GoodPane /\ q.pane = p.pane /\ q.content = p.content
  <2> HIDE DEF p
  <2>1. /\ p.tabs \in Seq(Ids) /\ Append(p.tabs, t) \in Seq(Ids)
        /\ t \in Range(Append(p.tabs, t))
    <3>1. p.tabs \in Seq(Ids)
      BY <1>1 DEF GoodPane, PaneType
    <3>2. /\ Append(p.tabs, t) \in Seq(Ids) /\ Len(p.tabs) + 1 \in DOMAIN Append(p.tabs, t)
          /\ Append(p.tabs, t)[Len(p.tabs) + 1] = t
      BY <3>1
    <3> QED BY <3>1, <3>2 DEF Range
  <2> DEFINE ts == Append(p.tabs, t)
  <2>2. q = [p EXCEPT !.tabs = ts, !.active = t]
    OBVIOUS
  <2> HIDE DEF ts
  <2>3. ts \in Seq(Ids) /\ t \in Range(ts)
    BY <2>1 DEF ts
  <2>4. q \in PaneType /\ q.tabs = ts /\ q.active = t /\ q.pane = p.pane /\ q.content = p.content
    BY <1>1, <2>2, <2>3 DEF GoodPane, PaneType
  <2> HIDE DEF q
  <2> QED BY <1>1, <2>3, <2>4 DEF GoodPane, TabsOf
<1>3. k \in Slices(v) /\ k.cols = l.cols
  BY GrownPool
<1>4. next \in Slices(v) /\ PaneNames(next.cols) = PaneNames(l.cols)
  <2> HIDE DEF q, a, k
  <2>1. next \in Slices(v)
    BY <1>1, <1>2, <1>3, RetabSlice
  <2>2. next.cols = SetPane(l.cols, a, q)
    BY <1>3, SliceGrid DEF CommitTransient, Loose
  <2> QED BY <1>1, <1>2, <2>1, <2>2, RetabGrid, SliceGrid
<1>5. MintTab(l, n, t) = IF t \in l.pool THEN l
                         ELSE IF l.focus = n THEN FocusByName(next, t) ELSE next
  BY DEF MintTab
<1> HIDE DEF next
<1>6. FocusByName(next, t) \in Slices(v) /\ FocusByName(next, t).cols = next.cols
  BY <1>4, SliceGrid, FocusByNameSlice, FocusByNameCols
<1>7. QED
  BY <1>4, <1>5, <1>6

\* The pane remove_tab leaves shows one of the tabs that remain.
LEMMA TabRemoved ==
  ASSUME NEW p \in GoodPane, NEW t \in TabsOf(p), Len(p.tabs) # 1
  PROVE  LET at   == CHOOSE i \in DOMAIN p.tabs : p.tabs[i] = t
             left == RemoveAt(p.tabs, at)
             act  == IF p.active = t THEN left[IF at > Len(left) THEN Len(left) ELSE at]
                     ELSE p.active
             q    == [p EXCEPT !.tabs = left, !.active = act]
         IN  /\ q \in GoodPane /\ q.pane = p.pane /\ q.content = p.content
             /\ TabsOf(q) \subseteq TabsOf(p)
             /\ at \in 1 .. Len(p.tabs) /\ p.tabs[at] = t
             /\ p.tabs \in Seq(Ids) /\ q.tabs \in Seq(Ids) /\ Len(q.tabs) = Len(p.tabs) - 1
             /\ \A j \in 1 .. Len(q.tabs) :
                  q.tabs[j] = IF j < at THEN p.tabs[j] ELSE p.tabs[j + 1]
<1> DEFINE at   == CHOOSE i \in DOMAIN p.tabs : p.tabs[i] = t
           left == RemoveAt(p.tabs, at)
           act  == IF p.active = t THEN left[IF at > Len(left) THEN Len(left) ELSE at]
                   ELSE p.active
           q    == [p EXCEPT !.tabs = left, !.active = act]
<1>1. p.tabs \in Seq(Ids) /\ p.active \in Range(p.tabs)
  BY DEF GoodPane, PaneType, TabsOf
<1>2. at \in 1 .. Len(p.tabs) /\ p.tabs[at] = t
  BY <1>1 DEF TabsOf, Range
<1> HIDE DEF at
<1>3. /\ left \in Seq(Ids) /\ Len(left) = Len(p.tabs) - 1
      /\ \A i \in 1 .. Len(p.tabs) :
           i # at => \E j \in 1 .. Len(left) : left[j] = p.tabs[i]
  BY <1>1, <1>2, RemoveAtKeeps
<1>4. \A j \in 1 .. Len(p.tabs) - 1 : left[j] = IF j < at THEN p.tabs[j] ELSE p.tabs[j + 1]
  BY <1>1, <1>2, RemoveAtShape
<1> HIDE DEF left
<1>5. Range(left) \subseteq Range(p.tabs)
  <2>1. \A j \in 1 .. Len(left) : \E i \in 1 .. Len(p.tabs) : left[j] = p.tabs[i]
    <3>1. Len(p.tabs) \in Nat /\ Len(left) = Len(p.tabs) - 1
      BY <1>1, <1>3
    <3> SUFFICES ASSUME NEW j \in 1 .. Len(left) PROVE \E i \in 1 .. Len(p.tabs) : left[j] = p.tabs[i]
      OBVIOUS
    <3>2. left[j] \in {p.tabs[j], p.tabs[j + 1]} /\ j \in 1 .. Len(p.tabs) /\ j + 1 \in 1 .. Len(p.tabs)
      BY <1>4, <3>1
    <3> QED BY <3>2
  <2> QED BY <1>1, <1>3, <2>1, LenProperties DEF Range
<1>6. act \in Range(left)
  <2>1. CASE p.active = t
    <3> DEFINE m == IF at > Len(left) THEN Len(left) ELSE at
    <3>1. Len(left) \in Nat \ {0} /\ at \in Nat \ {0}
      BY <1>1, <1>2, <1>3
    <3>2. m \in 1 .. Len(left)
      BY <3>1
    <3>3. act = left[m]
      BY <2>1
    <3> HIDE DEF m, act
    <3> QED BY <1>3, <3>2, <3>3 DEF Range
  <2>2. CASE p.active # t
    <3>1. PICK i \in 1 .. Len(p.tabs) : p.tabs[i] = p.active
      BY <1>1 DEF Range
    <3>2. PICK j \in 1 .. Len(left) : left[j] = p.active
      BY <1>2, <1>3, <2>2, <3>1
    <3> QED BY <1>3, <2>2, <3>2 DEF Range
  <2> QED BY <2>1, <2>2
<1>7. act \in Ids
  BY <1>3, <1>6 DEF Range
<1> HIDE DEF act
<1>8. q \in PaneType /\ q.tabs = left /\ q.active = act /\ q.pane = p.pane /\ q.content = p.content
  BY <1>3, <1>7 DEF GoodPane, PaneType
<1> HIDE DEF q
<1>9. q \in GoodPane /\ TabsOf(q) \subseteq TabsOf(p)
  BY <1>5, <1>6, <1>8 DEF GoodPane, TabsOf
<1>10. QED
  BY <1>1, <1>2, <1>3, <1>4, <1>8, <1>9 DEF q, act, left, at

\* The tab at the place of the removed one comes forward.
LEMMA RemoveTabSlice ==
  ASSUME NEW v, NEW l \in Slices(v), NEW n \in PaneNames(l.cols), NEW t
  PROVE  RemoveTab(l, n, t) \in Slices(v)
<1> DEFINE a    == Where(l.cols, n)
           p    == PaneAt(l.cols, a)
           at   == CHOOSE i \in DOMAIN p.tabs : p.tabs[i] = t
           left == RemoveAt(p.tabs, at)
           act  == IF p.active = t THEN left[IF at > Len(left) THEN Len(left) ELSE at]
                   ELSE p.active
           q    == [p EXCEPT !.tabs = left, !.active = act]
           k    == [l EXCEPT !.pool = @ \ {t}]
           next == IF t \in Transient THEN CommitTransient(k, SetPane(l.cols, a, q))
                   ELSE Commit(l, SetPane(l.cols, a, q), FALSE)
<1>1. a \in At(l.cols) /\ p \in GoodPane
  BY WhereIn, SliceGrid, Places
<1>2. ASSUME t \in TabsOf(p), Len(p.tabs) # 1 PROVE next \in Slices(v)
  <2>1. q \in GoodPane /\ q.pane = p.pane /\ q.content = p.content
    BY <1>1, <1>2, TabRemoved
  <2> HIDE DEF q
  <2>2. t \in Transient => k \in Slices(v) /\ k.cols = l.cols
    BY ShrunkPool
  <2> HIDE DEF k, a
  <2>3. /\ t \in Transient => CommitTransient(k, SetPane(l.cols, a, q)) \in Slices(v)
        /\ Commit(l, SetPane(l.cols, a, q), FALSE) \in Slices(v)
    BY <1>1, <2>1, <2>2, RetabSlice DEF p
  <2> QED BY <2>3
<1>3. ASSUME next \in Slices(v) PROVE FocusByName(next, act) \in Slices(v)
  <2> HIDE DEF next, act
  <2> QED BY <1>3, SliceGrid, FocusByNameSlice
<1>4. RemoveTab(l, n, t) =
        IF t \notin TabsOf(p) \/ Len(p.tabs) = 1 \/ act \notin l.pool THEN l
        ELSE IF l.focus = n /\ p.active = t THEN FocusByName(next, act) ELSE next
  BY DEF RemoveTab
<1> HIDE DEF next, act
<1>5. QED
  BY <1>2, <1>3, <1>4

-----------------------------------------------------------------------------
(* The arms that place and take panes. *)

LEMMA PaneIsGood ==
  ASSUME NEW i \in Ids
  PROVE  Pane(i) \in GoodPane /\ Pane(i).pane = i /\ KindOf(Pane(i)) = Kind[i]
<1>1. <<i>> \in Seq(Ids) /\ i \in Range(<<i>>)
  BY DEF Range
<1>2. QED
  BY <1>1 DEF Pane, GoodPane, PaneType, TabsOf, KindOf

\* What the guard of pool_hide is for: a viewer is left.
LEMMA PoolHideKeepsViewer ==
  ASSUME NEW v, NEW l \in Slices(v), NEW i,
         {a \in At(l.cols) : IdOf(PaneAt(l.cols, a)) = i} # {},
         ~(Kind[i] = "detail" /\ Cardinality(Details(l.cols)) <= 1)
  PROVE  Without(l.cols, CHOOSE a \in {x \in At(l.cols) : IdOf(PaneAt(l.cols, x)) = i} : TRUE) \in ViewerGrid
<1> DEFINE at == {a \in At(l.cols) : IdOf(PaneAt(l.cols, a)) = i}
           a  == CHOOSE x \in at : TRUE
           kept == Without(l.cols, a)
<1>1. a \in At(l.cols) /\ IdOf(PaneAt(l.cols, a)) = i
  OBVIOUS
<1> HIDE DEF a
<1>2. PaneAt(l.cols, a).content => Kind[i] = "detail"
  BY <1>1, SliceGrid, Places DEF IdOf, GoodPane
<1>3. \E p \in Others(l.cols, a) : p.content
  BY <1>1, <1>2, SliceGrid, AnotherViewer
<1>4. kept \in Grid /\ Others(l.cols, a) \subseteq PanesOf(kept)
  BY <1>1, SliceGrid, WithoutGrid
<1>5. kept \in ViewerGrid
  BY <1>3, <1>4, HasViewer DEF ViewerGrid
<1>6. QED
  BY <1>5 DEF a

LEMMA PoolHideSlice ==
  ASSUME NEW v, NEW l \in Slices(v), NEW i
  PROVE  PoolHide(l, i) \in Slices(v)
<1> DEFINE at == {a \in At(l.cols) : IdOf(PaneAt(l.cols, a)) = i}
           a  == CHOOSE x \in at : TRUE
           kept == Without(l.cols, a)
<1>1. ASSUME at # {}, ~(Kind[i] = "detail" /\ Cardinality(Details(l.cols)) <= 1)
      PROVE  kept \in ViewerGrid
  BY <1>1, PoolHideKeepsViewer
<1>2. ASSUME kept \in ViewerGrid
      PROVE  ClampAndFocus(l, Commit(l, kept, FALSE)) \in Slices(v)
  <2> HIDE DEF kept
  <2>1. Commit(l, kept, FALSE) \in Loose(v)
    BY <1>2, SliceGrid, CommitSlice, Zenon
  <2> QED BY <2>1, ClampAndFocusSlice
<1>3. PoolHide(l, i) =
        IF \/ i \notin l.pool
           \/ Kind[i] = "detail" /\ Cardinality(Details(l.cols)) <= 1
           \/ at = {}
        THEN l ELSE ClampAndFocus(l, Commit(l, kept, FALSE))
  BY DEF PoolHide
<1> HIDE DEF at, kept
<1>4. QED
  BY <1>1, <1>2, <1>3

\* A pane of the kind is placed, and the focus goes to one.
LEMMA FocusPlacedKind ==
  ASSUME NEW v, NEW l \in Slices(v), NEW skipUndo, NEW cols \in Grid, NEW name,
         PanesOf(l.cols) \subseteq PanesOf(cols)
  PROVE  FocusByName(Commit(l, cols, skipUndo), name) \in Slices(v)
<1>1. Commit(l, cols, skipUndo) \in Slices(v)
  BY CommitKeeps
<1>2. QED
  BY <1>1, SliceGrid, FocusByNameSlice

LEMMA PoolShowSlice ==
  ASSUME NEW v, NEW l \in Slices(v), NEW i, NEW c \in Nat \ {0}, NEW k \in Nat, NEW skipUndo
  PROVE  PoolShow(l, i, c, k, skipUndo) \in Slices(v)
<1> DEFINE end == Len(l.cols[c]) + 1
           at  == IF k = AtEnd \/ k > end THEN end ELSE k
           new == Insert(l.cols, c, at, Pane(i))
<1>1. ASSUME i \in l.pool, ~(c > Len(l.cols))
      PROVE  new \in Grid /\ PanesOf(l.cols) \subseteq PanesOf(new)
  <2>1. l.cols \in Grid /\ c \in 1 .. Len(l.cols) /\ Pane(i) \in GoodPane
    BY <1>1, SliceGrid, PaneIsGood DEF Grid
  <2>2. at \in 1 .. Len(l.cols[c]) + 1
    BY <2>1, Places DEF AtEnd
  <2> HIDE DEF at
  <2> QED BY <2>1, <2>2, InsertGrid
<1>2. PoolShow(l, i, c, k, skipUndo) =
        IF \/ i \notin l.pool \/ i \in Placed(l.cols) \/ c > Len(l.cols)
           \/ Kind[i] = "actions" /\ (HasActions(l.cols) \/ c # Len(l.cols))
        THEN l ELSE FocusByName(Commit(l, new, skipUndo), Kind[i])
  BY DEF PoolShow
<1> HIDE DEF new
<1>3. QED
  BY <1>1, <1>2, FocusPlacedKind

LEMMA PoolShowNewColumnSlice ==
  ASSUME NEW v, NEW l \in Slices(v), NEW i, NEW position \in Nat \ {0}
  PROVE  PoolShowNewColumn(l, i, position) \in Slices(v)
<1> DEFINE new == InsertAt(l.cols, position, <<Pane(i)>>)
<1>1. ASSUME i \in l.pool, ~(position > Len(l.cols) + 1)
      PROVE  new \in Grid /\ PanesOf(l.cols) \subseteq PanesOf(new)
  <2>1. /\ l.cols \in Grid /\ position \in 1 .. Len(l.cols) + 1
        /\ <<Pane(i)>> \in Seq(GoodPane)
    BY <1>1, SliceGrid, PaneIsGood DEF Grid
  <2> QED BY <2>1, InsertColumnGrid
<1>2. PoolShowNewColumn(l, i, position) =
        IF \/ i \notin l.pool \/ i \in Placed(l.cols)
           \/ Kind[i] = "actions" \/ position > Len(l.cols) + 1
        THEN l ELSE FocusByName(Commit(l, new, FALSE), Kind[i])
  BY DEF PoolShowNewColumn
<1> HIDE DEF new
<1>3. QED
  BY <1>1, <1>2, FocusPlacedKind, Zenon

LEMMA AddColumnSlice ==
  ASSUME NEW v, NEW l \in Slices(v), NEW position \in 1 .. Len(l.cols) + 1
  PROVE  AddColumn(l, position) \in Slices(v)
<1>1. /\ InsertAt(l.cols, position, <<>>) \in Grid
      /\ PanesOf(l.cols) \subseteq PanesOf(InsertAt(l.cols, position, <<>>))
  <2>1. l.cols \in Grid /\ <<>> \in Seq(GoodPane)
    BY SliceGrid
  <2> QED BY <2>1, InsertColumnGrid
<1>2. QED
  BY <1>1, CommitKeeps, Zenon DEF AddColumn

LEMMA RemoveColumnSlice ==
  ASSUME NEW v, NEW l \in Slices(v), NEW c \in 1 .. Len(l.cols)
  PROVE  RemoveColumn(l, c) \in Slices(v)
<1>1. ASSUME l.cols[c] = <<>>
      PROVE  ClampAndFocus(l, Commit(l, RemoveAt(l.cols, c), FALSE)) \in Slices(v)
  <2> DEFINE new == RemoveAt(l.cols, c)
  <2>1. new \in Grid /\ PanesOf(l.cols) \subseteq PanesOf(new)
    BY <1>1, SliceGrid, RemoveColumnGrid
  <2> HIDE DEF new
  <2>2. Commit(l, new, FALSE) \in Loose(v)
    BY <2>1, CommitKeeps, SliceGrid, Zenon
  <2> QED BY <2>2, ClampAndFocusSlice DEF new
<1>2. QED
  BY <1>1 DEF RemoveColumn

LEMMA ReshapeSlice ==
  ASSUME NEW v, NEW l \in Slices(v)
  PROVE  Reshape(l) \in Slices(v)
BY SliceGrid, CommitKeeps, Zenon DEF Reshape

LEMMA SwapGrid ==
  ASSUME NEW cols \in Grid, NEW a \in At(cols), NEW b \in At(cols)
  PROVE  Swapped(cols, a, b) \in Grid /\ PanesOf(cols) \subseteq PanesOf(Swapped(cols, a, b))
<1> DEFINE mid == SetPane(cols, a, PaneAt(cols, b))
           new == SetPane(mid, b, PaneAt(cols, a))
<1>1. PaneAt(cols, a) \in GoodPane /\ PaneAt(cols, b) \in GoodPane
  BY Places
<1>2. /\ mid \in Grid /\ At(mid) = At(cols)
      /\ \A x \in At(cols) : PaneAt(mid, x) = IF x = a THEN PaneAt(cols, b) ELSE PaneAt(cols, x)
  BY <1>1, SetPaneGrid
<1> HIDE DEF mid
<1>3. /\ new \in Grid /\ At(new) = At(cols)
      /\ \A x \in At(cols) : PaneAt(new, x) = IF x = b THEN PaneAt(cols, a) ELSE PaneAt(mid, x)
  BY <1>1, <1>2, SetPaneGrid
<1>4. Swapped(cols, a, b) = new
  BY DEF Swapped, mid
<1> HIDE DEF new
<1>5. ASSUME NEW x \in At(cols) PROVE \E y \in At(new) : PaneAt(new, y) = PaneAt(cols, x)
  <2>1. CASE x = a
    BY <1>3, <2>1
  <2>2. CASE x = b
    <3>1. PaneAt(new, a) = PaneAt(cols, b)
      BY <1>2, <1>3
    <3> QED BY <1>3, <2>2, <3>1
  <2>3. CASE x # a /\ x # b
    BY <1>2, <1>3, <2>3
  <2> QED BY <2>1, <2>2, <2>3
<1>6. QED
  BY <1>3, <1>4, <1>5 DEF PanesOf

LEMMA PoolSwapSlice ==
  ASSUME NEW v, NEW l \in Slices(v), NEW n \in PaneNames(l.cols), NEW i
  PROVE  PoolSwapById(l, n, i) \in Slices(v)
<1> DEFINE a    == Where(l.cols, n)
           p    == PaneAt(l.cols, a)
           from == {x \in At(l.cols) : IdOf(PaneAt(l.cols, x)) = i}
           b    == CHOOSE x \in from : TRUE
           trade == Swapped(l.cols, a, b)
           alone == SetPane(l.cols, a, Pane(i))
<1>1. a \in At(l.cols) /\ l.cols \in Grid /\ l.cols \in ViewerGrid
  BY WhereIn, SliceGrid
<1>2. ASSUME from # {}
      PROVE  FocusByName(Commit(l, trade, FALSE), Kind[i]) \in Slices(v)
  <2>1. b \in At(l.cols)
    BY <1>2
  <2> HIDE DEF b, a
  <2>2. trade \in Grid /\ PanesOf(l.cols) \subseteq PanesOf(trade)
    BY <1>1, <2>1, SwapGrid
  <2> HIDE DEF trade
  <2> QED BY <2>2, FocusPlacedKind, Zenon
<1>3. ASSUME i \in l.pool, Kind[i] # "detail",
             ~(p.content /\ Cardinality(Details(l.cols)) <= 1), NEW skipUndo
      PROVE  FocusByName(Commit(l, alone, skipUndo), Kind[i]) \in Slices(v)
  <2>1. Pane(i) \in GoodPane /\ KindOf(Pane(i)) = Kind[i]
    BY <1>3, SliceGrid, PaneIsGood
  <2>2. \E q \in Others(l.cols, a) : q.content
    BY <1>1, <1>3, AnotherViewer
  <2> HIDE DEF a
  <2>3. alone \in Grid /\ PanesOf(alone) = Others(l.cols, a) \union {Pane(i)}
    BY <1>1, <2>1, SetPaneGrid, SetPanePanes
  <2> HIDE DEF alone
  <2>4. alone \in ViewerGrid
    BY <2>2, <2>3, HasViewer DEF ViewerGrid
  <2>5. /\ Commit(l, alone, skipUndo) \in Loose(v)
        /\ Commit(l, alone, skipUndo).cols = alone
    BY <2>4, SliceGrid, CommitSlice
  <2>6. \E q \in PanesOf(Commit(l, alone, skipUndo).cols) : KindOf(q) = Kind[i]
    BY <2>1, <2>3, <2>5
  <2> QED BY <2>5, <2>6, FocusByNameSlice
<1>4. PoolSwapById(l, n, i) =
        IF \/ KindOf(p) = "actions"
           \/ p.content /\ Cardinality(Details(l.cols)) <= 1
           \/ i \notin l.pool \/ Kind[i] = "detail"
           \/ Kind[i] = "actions" /\ a[1] # Len(l.cols)
           \/ i = IdOf(p) \/ IdOf(p) \notin l.pool
           \/ from = {} /\ Len(p.tabs) > 1
        THEN l
        ELSE FocusByName(Commit(l, IF from # {} THEN trade ELSE alone, FALSE), Kind[i])
  BY DEF PoolSwapById, Swapped
<1> HIDE DEF from, trade, alone, p
<1>5. ASSUME i \in l.pool, Kind[i] # "detail",
             ~(p.content /\ Cardinality(Details(l.cols)) <= 1)
      PROVE  FocusByName(Commit(l, alone, FALSE), Kind[i]) \in Slices(v)
  BY <1>3, <1>5, Zenon
<1>6. QED
  BY <1>2, <1>4, <1>5

-----------------------------------------------------------------------------
(* Restore, undo and redo. *)

LEMMA InitColsGood == InitCols \in ViewerGrid
<1>1. \A c \in DOMAIN InitCols : \A k \in DOMAIN InitCols[c] : InitCols[c][k] \in PanesOf(InitCols)
  <2>1. ASSUME NEW c \in DOMAIN InitCols, NEW k \in DOMAIN InitCols[c]
        PROVE  InitCols[c][k] \in PanesOf(InitCols)
    <3>1. <<c, k>> \in At(InitCols) /\ PaneAt(InitCols, <<c, k>>) = InitCols[c][k]
      BY DEF At, PaneAt
    <3> QED BY <3>1 DEF PanesOf
  <2> QED BY <2>1
<1>2. \A c \in DOMAIN InitCols : InitCols[c] \in Seq(PaneType)
  BY InitColsAssumption
<1>3. ASSUME NEW c \in DOMAIN InitCols PROVE InitCols[c] \in Seq(GoodPane)
  <2>1. \A k \in 1 .. Len(InitCols[c]) : InitCols[c][k] \in GoodPane
    BY <1>1, <1>2, InitColsAssumption DEF GoodPane
  <2> QED BY <1>2, <2>1
<1>4. InitCols \in Grid
  BY <1>3, InitColsAssumption DEF Grid
<1>5. QED
  BY <1>4, InitColsAssumption DEF ViewerGrid

LEMMA InitialPool == ConfigIds \union Seeds \in {P \in SUBSET Ids : ConfigIds \subseteq P}
BY DEF Ids, Transient

LEMMA RestoreSlice ==
  ASSUME NEW v, NEW l \in Slices(v)
  PROVE  RestoreLayout(l) \in Slices(v)
<1> DEFINE P == ConfigIds \union Seeds
           e == <<>>
           r == [l EXCEPT !.cols = InitCols, !.pool = P, !.dirty = FALSE, !.undo = e, !.redo = e]
<1>1. /\ e \in Seq(ViewerGrid) /\ Len(e) + Len(e) <= MaxUndo
      /\ P \in {Q \in SUBSET Ids : ConfigIds \subseteq Q}
  BY InitialPool, LayoutAssumption
<1>2. RestoreLayout(l) = Clamp(r)
  BY DEF RestoreLayout
<1> HIDE DEF P, e
<1>3. r \in Loose(v)
  BY <1>1, InitColsGood DEF Slices, Loose
<1>4. QED
  BY <1>2, <1>3, ClampSlice

LEMMA FrontLast ==
  ASSUME NEW S, NEW s \in Seq(S), s # <<>>
  PROVE  Front(s) \in Seq(S) /\ Len(Front(s)) = Len(s) - 1 /\ Last(s) \in S
<1>1. Len(s) \in Nat \ {0} /\ \A i \in 1 .. Len(s) - 1 : s[i] \in S
  OBVIOUS
<1> DEFINE n == Len(s) - 1
<1>0. n \in Nat /\ \A i \in 1 .. n : s[i] \in S
  BY <1>1
<1> HIDE DEF n
<1>2. /\ SubSeq(s, 1, n) \in Seq(S)
      /\ Len(SubSeq(s, 1, n)) = n
  BY <1>0, SubSeqProperties
<1>3. s[Len(s)] \in S
  BY <1>1
<1>4. QED
  BY <1>2, <1>3 DEF Front, Last, n

LEMMA UndoSlice ==
  ASSUME NEW v, NEW l \in Slices(v)
  PROVE  Undo(l) \in Slices(v)
<1> DEFINE c == Last(l.undo)
           u == Front(l.undo)
           w == Append(l.redo, l.cols)
           r == [l EXCEPT !.cols = c, !.undo = u, !.redo = w, !.dirty = TRUE]
<1>1. ASSUME l.undo # <<>> PROVE r \in Loose(v)
  <2>1. /\ c \in ViewerGrid /\ u \in Seq(ViewerGrid) /\ Len(u) = Len(l.undo) - 1
    BY <1>1, FrontLast DEF Slices, Loose
  <2>2. w \in Seq(ViewerGrid) /\ Len(w) = Len(l.redo) + 1
    BY DEF Slices, Loose
  <2>3. Len(u) + Len(w) <= MaxUndo
    BY <2>1, <2>2, LayoutAssumption DEF Slices, Loose
  <2> HIDE DEF c, u, w
  <2> QED BY <2>1, <2>2, <2>3 DEF Slices, Loose
<1>2. Undo(l) = IF l.undo = <<>> THEN l ELSE Clamp(r)
  BY DEF Undo
<1> HIDE DEF r
<1>3. QED
  BY <1>1, <1>2, ClampSlice

LEMMA RedoSlice ==
  ASSUME NEW v, NEW l \in Slices(v)
  PROVE  Redo(l) \in Slices(v)
<1> DEFINE c == Last(l.redo)
           u == Front(l.redo)
           w == Append(l.undo, l.cols)
           r == [l EXCEPT !.cols = c, !.redo = u, !.undo = w, !.dirty = TRUE]
<1>1. ASSUME l.redo # <<>> PROVE r \in Loose(v)
  <2>1. /\ c \in ViewerGrid /\ u \in Seq(ViewerGrid) /\ Len(u) = Len(l.redo) - 1
    BY <1>1, FrontLast DEF Slices, Loose
  <2>2. w \in Seq(ViewerGrid) /\ Len(w) = Len(l.undo) + 1
    BY DEF Slices, Loose
  <2>3. Len(w) + Len(u) <= MaxUndo
    BY <2>1, <2>2, LayoutAssumption DEF Slices, Loose
  <2> HIDE DEF c, u, w
  <2> QED BY <2>1, <2>2, <2>3 DEF Slices, Loose
<1>2. Redo(l) = IF l.redo = <<>> THEN l ELSE Clamp(r)
  BY DEF Redo
<1> HIDE DEF r
<1>3. QED
  BY <1>1, <1>2, ClampSlice

-----------------------------------------------------------------------------
(* Drops: whatever the grid is when the button is released, no pane is lost. *)

LEMMA PaneOrOther ==
  ASSUME NEW cols \in Grid, NEW a \in At(cols)
  PROVE  PanesOf(cols) = Others(cols, a) \union {PaneAt(cols, a)}
BY DEF PanesOf, Others

LEMMA DropEmptyGrid ==
  ASSUME NEW cols \in Grid, NEW c \in 1 .. Len(cols)
  PROVE  DropEmpty(cols, c) \in Grid /\ PanesOf(cols) \subseteq PanesOf(DropEmpty(cols, c))
BY RemoveColumnGrid DEF DropEmpty

LEMMA InsertedGrid ==
  ASSUME NEW cols \in Grid, NEW a \in At(cols), NEW c \in 1 .. Len(cols), NEW k \in Nat \ {0}
  PROVE  Inserted(cols, a, c, k) \in Grid /\ PanesOf(cols) \subseteq PanesOf(Inserted(cols, a, c, k))
<1> DEFINE p == PaneAt(cols, a)
           w == Without(cols, a)
           m == IF a[1] = c /\ a[2] < k THEN k - 1 ELSE k
           j == IF m > Len(w[c]) THEN Len(w[c]) + 1 ELSE m
           new == Insert(w, c, j, p)
<1>1. /\ a[1] \in 1 .. Len(cols) /\ a[2] \in 1 .. Len(cols[a[1]]) /\ p \in GoodPane
      /\ DOMAIN cols = 1 .. Len(cols)
  BY Places DEF Grid
<1>2. w \in Grid /\ Len(w) = Len(cols) /\ Others(cols, a) \subseteq PanesOf(w)
  BY WithoutGrid
<1>3. m \in Nat \ {0} /\ w[c] \in Seq(GoodPane)
  BY <1>1, <1>2, Places
<1>4. j \in 1 .. Len(w[c]) + 1
  <2> HIDE DEF m, w
  <2> QED BY <1>3
<1>5. new \in Grid /\ Len(new) = Len(cols) /\ PanesOf(cols) \subseteq PanesOf(new)
  <2> HIDE DEF j, w, p
  <2>1. new \in Grid /\ Len(new) = Len(w) /\ PanesOf(w) \union {p} \subseteq PanesOf(new)
    BY <1>1, <1>2, <1>4, InsertGrid
  <2>2. PanesOf(cols) = Others(cols, a) \union {p}
    BY PaneOrOther DEF p
  <2> QED BY <1>2, <2>1, <2>2
<1>6. CASE a[1] = c
  <2>1. w[c] = RemoveAt(cols[c], a[2])
    BY <1>1, <1>6 DEF Without
  <2>2. Inserted(cols, a, c, k) = [cols EXCEPT ![c] = InsertAt(w[c], j, p)]
    BY <1>6, <2>1 DEF Inserted
  <2>3. new = [cols EXCEPT ![c] = InsertAt(w[c], j, p)]
    BY <1>1, <1>6 DEF Insert, Without
  <2> QED BY <1>5, <2>2, <2>3
<1>7. CASE a[1] # c
  <2>1. Inserted(cols, a, c, k) = DropEmpty(new, a[1])
    BY <1>7 DEF Inserted, Insert
  <2> HIDE DEF new
  <2> QED BY <1>1, <1>5, <2>1, DropEmptyGrid
<1>8. QED
  BY <1>6, <1>7

LEMMA InNewColumnGrid ==
  ASSUME NEW cols \in Grid, NEW a \in At(cols), NEW position \in Nat \ {0}
  PROVE  /\ InNewColumn(cols, a, position) \in Grid
         /\ PanesOf(cols) \subseteq PanesOf(InNewColumn(cols, a, position))
<1> DEFINE p == PaneAt(cols, a)
           left == Without(cols, a)
           base == DropEmpty(left, a[1])
           k == IF Len(base) < Len(cols) /\ a[1] < position THEN position - 1 ELSE position
           j == IF k > Len(base) THEN Len(base) + 1 ELSE k
           col == <<p>>
           new == InsertAt(base, j, col)
<1>1. a[1] \in 1 .. Len(cols) /\ p \in GoodPane /\ Len(cols) \in Nat
  BY Places DEF Grid
<1>2. left \in Grid /\ Len(left) = Len(cols) /\ Others(cols, a) \subseteq PanesOf(left)
  BY WithoutGrid
<1>3. base \in Grid /\ Others(cols, a) \subseteq PanesOf(base)
  <2> HIDE DEF left
  <2> QED BY <1>1, <1>2, DropEmptyGrid
<1> HIDE DEF base, p
<1>4. Len(base) \in Nat
  BY <1>3 DEF Grid
<1>5. k \in Nat \ {0}
  BY <1>1, <1>4
<1> HIDE DEF k
<1>6. j \in 1 .. Len(base) + 1
  BY <1>4, <1>5
<1>7. col \in Seq(GoodPane) /\ Len(col) = 1 /\ col[1] = p
  BY <1>1
<1> HIDE DEF j, col
<1>8. /\ new \in Grid /\ PanesOf(base) \subseteq PanesOf(new)
      /\ \A m \in 1 .. Len(col) : col[m] \in PanesOf(new)
  BY <1>3, <1>6, <1>7, InsertColumnGrid
<1>9. p \in PanesOf(new)
  BY <1>7, <1>8
<1>10. PanesOf(cols) = Others(cols, a) \union {p}
  BY PaneOrOther DEF p
<1>11. InNewColumn(cols, a, position) = new
  BY DEF InNewColumn, new, j, k, base, col, p
<1> HIDE DEF new
<1>12. QED
  BY <1>3, <1>8, <1>9, <1>10, <1>11

PanelKinds == {"detail"} \union {Kind[i] : i \in Ids}
Positions == Nat \ {0}
InsertTargets  == [to : {"insert"}, col : Positions, at : Positions]
SwapTargets    == [to : {"swap"}, col : Positions, at : Positions, occupant : Ids]
ColumnTargets  == [to : {"column"}, at : Positions]
ReplaceTargets == [to : {"replace"}, col : Positions, occupant : Ids]
ForGrid == {NoTarget} \union InsertTargets \union SwapTargets \union ColumnTargets
ForPool == {NoTarget} \union InsertTargets \union ColumnTargets \union ReplaceTargets

GridDrags == [from : {"grid"}, what : Ids, kind : PanelKinds, target : ForGrid]
PoolDrags == [from : {"pool"}, what : Ids, kind : PanelKinds, target : ForPool]

LEMMA PaneFacts ==
  ASSUME NEW cols \in Grid, NEW a \in At(cols)
  PROVE  /\ PaneAt(cols, a).pane \in Ids /\ IdOf(PaneAt(cols, a)) \in Ids
         /\ KindOf(PaneAt(cols, a)) \in PanelKinds
         /\ a[1] \in Positions /\ a[2] \in Positions
<1>1. PaneAt(cols, a) \in PaneType /\ a[1] \in Positions /\ a[2] \in Positions
  BY Places DEF GoodPane, Positions
<1>2. QED
  BY <1>1 DEF PaneType, IdOf, KindOf, PanelKinds

LEMMA InsertsType ==
  ASSUME NEW v, NEW l \in Slices(v), NEW pinned
  PROVE  Inserts(l, pinned) \subseteq InsertTargets /\ NewColumns(l) \subseteq ColumnTargets
<1>1. DOMAIN l.cols \subseteq Positions /\ \A c \in DOMAIN l.cols : Len(l.cols[c]) \in Nat
  BY SliceGrid, Places DEF Grid, Positions
<1>2. QED
  BY <1>1 DEF Inserts, NewColumns, InsertTargets, ColumnTargets, Positions

LEMMA GridTargetsType ==
  ASSUME NEW v, NEW l \in Slices(v), NEW n, NEW kind
  PROVE  GridTargets(l, n, kind) \subseteq ForGrid
<1>1. \A a \in At(l.cols) :
        [to |-> "swap", col |-> a[1], at |-> a[2], occupant |-> PaneAt(l.cols, a).pane] \in SwapTargets
  BY SliceGrid, PaneFacts DEF SwapTargets
<1>2. /\ Inserts(l, kind = "actions") \subseteq InsertTargets
      /\ NewColumns(l) \subseteq ColumnTargets
  BY InsertsType, Zenon
<1>3. QED
  BY <1>1, <1>2 DEF GridTargets, ForGrid

LEMMA PoolTargetsType ==
  ASSUME NEW v, NEW l \in Slices(v), NEW i
  PROVE  PoolTargets(l, i) \subseteq ForPool
<1>1. \A a \in At(l.cols) :
        [to |-> "replace", col |-> a[1], occupant |-> IdOf(PaneAt(l.cols, a))] \in ReplaceTargets
  BY SliceGrid, PaneFacts DEF ReplaceTargets
<1>2. /\ Inserts(l, IsActions(l, i)) \subseteq InsertTargets
      /\ NewColumns(l) \subseteq ColumnTargets
  BY InsertsType, Zenon
<1>3. QED
  BY <1>1, <1>2 DEF PoolTargets, ForPool

LEMMA ApplyDropGrid ==
  ASSUME NEW cols \in Grid, NEW a \in At(cols), NEW t \in ForGrid, t.to # "none",
         t.to = "insert" => t.col <= Len(cols)
  PROVE  ApplyDrop(cols, a, t) \in Grid /\ PanesOf(cols) \subseteq PanesOf(ApplyDrop(cols, a, t))
<1>1. CASE t \in InsertTargets
  <2>1. t.to = "insert" /\ t.col \in 1 .. Len(cols) /\ t.at \in Nat \ {0}
    BY <1>1 DEF InsertTargets, Positions, Grid
  <2>2. ApplyDrop(cols, a, t) = Inserted(cols, a, t.col, t.at)
    BY <2>1 DEF ApplyDrop
  <2> QED BY <2>1, <2>2, InsertedGrid
<1>2. CASE t \in ColumnTargets
  <2>1. t.to = "column" /\ t.at \in Nat \ {0}
    BY <1>2 DEF ColumnTargets, Positions
  <2>2. ApplyDrop(cols, a, t) = InNewColumn(cols, a, t.at)
    BY <2>1 DEF ApplyDrop
  <2> QED BY <2>1, <2>2, InNewColumnGrid
<1>3. CASE t \in SwapTargets
  <2>1. t.to = "swap"
    BY <1>3 DEF SwapTargets
  <2>2. ApplyDrop(cols, a, t) = IF <<t.col, t.at>> \in At(cols)
                                THEN Swapped(cols, a, <<t.col, t.at>>) ELSE cols
    BY <2>1 DEF ApplyDrop
  <2> QED BY <2>2, SwapGrid
<1>4. t # NoTarget
  BY DEF NoTarget
<1>5. QED
  BY <1>1, <1>2, <1>3, <1>4 DEF ForGrid

LEMMA MouseReleaseSlice ==
  ASSUME NEW v, NEW l \in Slices(v), NEW d \in GridDrags,
         d.target.to = "insert" => d.target.col <= Len(l.cols)
  PROVE  MouseRelease(l, d) \in Slices(v)
<1> DEFINE from == {a \in At(l.cols) : PaneAt(l.cols, a).pane = d.what}
           done == /\ from # {}
                   /\ d.target.to = "swap" => <<d.target.col, d.target.at>> \in At(l.cols) \ from
           cols == IF done THEN ApplyDrop(l.cols, CHOOSE a \in from : TRUE, d.target) ELSE l.cols
           same == {a \in At(cols) : KindOf(PaneAt(cols, a)) = d.kind}
           k    == PushUndo(l)
           mark == k.dirty \/ done
           next == [k EXCEPT !.cols = cols, !.dirty = mark]
<1>1. ASSUME d.target.to # "none" PROVE cols \in Grid /\ PanesOf(l.cols) \subseteq PanesOf(cols)
  <2>1. d.target \in ForGrid
    BY DEF GridDrags
  <2>2. done => (CHOOSE a \in from : TRUE) \in At(l.cols)
    OBVIOUS
  <2> HIDE DEF from
  <2> QED BY <1>1, <2>1, <2>2, SliceGrid, ApplyDropGrid
<1>2. k \in Loose(v) /\ mark \in BOOLEAN
  BY SliceGrid, PushUndoSlice
<1>3. MouseRelease(l, d) =
        IF \/ d.target.to = "none"
           \/ d.target.to = "swap" /\ d.target.occupant = d.what
        THEN l
        ELSE IF same = {} THEN Clamp(next)
        ELSE [next EXCEPT !.focus = FirstOf(cols, same).pane]
  BY DEF MouseRelease
<1> HIDE DEF cols, k, mark
<1>4. ASSUME d.target.to # "none"
      PROVE  next \in Loose(v) /\ next.cols = cols /\ cols \in Grid
  <2>1. cols \in ViewerGrid
    BY <1>1, <1>4, SliceGrid, KeepsPanes
  <2> QED BY <1>2, <2>1 DEF Loose, ViewerGrid
<1> HIDE DEF next
<1>5. ASSUME d.target.to # "none", same # {}
      PROVE  [next EXCEPT !.focus = FirstOf(cols, same).pane] \in Slices(v)
  <2>1. FirstOf(cols, same).pane \in PaneNames(cols)
    BY <1>4, <1>5, FirstOfIn DEF PaneNames
  <2>2. WithFocus(next, FirstOf(cols, same).pane) \in Slices(v)
    BY <1>4, <1>5, <2>1, WithFocusSlice
  <2> QED BY <2>2 DEF WithFocus
<1> HIDE DEF same
<1>6. QED
  BY <1>3, <1>4, <1>5, ClampSlice

LEMMA PoolDragReleaseSlice ==
  ASSUME NEW v, NEW l \in Slices(v), NEW d \in PoolDrags
  PROVE  PoolDragRelease(l, d) \in Slices(v)
<1> DEFINE t == d.target
<1>1. t \in ForPool
  BY DEF PoolDrags
<1>2. CASE t = NoTarget
  BY <1>2 DEF PoolDragRelease, NoTarget
<1>3. CASE t \in InsertTargets
  <2>1. t.to = "insert" /\ t.col \in Nat \ {0} /\ t.at \in Nat
    BY <1>3 DEF InsertTargets, Positions
  <2>2. PoolDragRelease(l, d) = PoolShow(l, d.what, t.col, t.at, FALSE)
    BY <2>1 DEF PoolDragRelease
  <2> QED BY <2>1, <2>2, PoolShowSlice, Zenon
<1>4. CASE t \in ColumnTargets
  <2>1. t.to = "column" /\ t.at \in Nat \ {0}
    BY <1>4 DEF ColumnTargets, Positions
  <2>2. PoolDragRelease(l, d) = PoolShowNewColumn(l, d.what, t.at)
    BY <2>1 DEF PoolDragRelease
  <2> QED BY <2>1, <2>2, PoolShowNewColumnSlice
<1>5. CASE t \in ReplaceTargets
  <2>1. t.to = "replace" /\ t.col \in Nat \ {0} /\ AtEnd \in Nat
    BY <1>5 DEF ReplaceTargets, Positions, AtEnd
  <2>2. PoolDragRelease(l, d) =
          PoolShow(PoolHide(l, t.occupant), d.what, t.col, AtEnd, TRUE)
    BY <2>1 DEF PoolDragRelease
  <2>3. PoolHide(l, t.occupant) \in Slices(v)
    BY PoolHideSlice
  <2> QED BY <2>1, <2>2, <2>3, PoolShowSlice, Zenon
<1>6. QED
  BY <1>1, <1>2, <1>3, <1>4, <1>5 DEF ForPool

-----------------------------------------------------------------------------
(* The invariant: the slice is good in its view, and a drag is one of the     *)
(* editor's.                                                                  *)

LayoutInv ==
  /\ lay.view \in {"normal", "half", "full"} /\ lay \in Slices(lay.view)
  /\ freeConfig \in BOOLEAN
  /\ drag \in {NoDrag} \union GridDrags \union PoolDrags
  /\ drag # NoDrag => freeConfig

LEMMA InitLayoutInv == Init => LayoutInv
<1> SUFFICES ASSUME Init PROVE LayoutInv
  OBVIOUS
<1> DEFINE e == <<>>
<1>1. lay = [cols |-> InitCols, pool |-> ConfigIds \union Seeds, focus |-> FirstPane(InitCols),
             view |-> "normal", dirty |-> FALSE, undo |-> e, redo |-> e]
  BY DEF Init, InitLayout
<1>2. /\ InitCols \in ViewerGrid /\ FirstPane(InitCols) \in PaneNames(InitCols)
      /\ FirstPane(InitCols) \in Ids
  BY InitColsGood, FirstPaneIn, NamesAreIds DEF ViewerGrid
<1>3. e \in Seq(ViewerGrid) /\ Len(e) + Len(e) <= MaxUndo
  BY LayoutAssumption
<1> HIDE DEF e
<1>4. lay \in Slices("normal") /\ lay.view = "normal"
  BY <1>1, <1>2, <1>3, InitialPool DEF Slices, Loose
<1>5. QED
  BY <1>4 DEF Init, LayoutInv

\* A gesture that is one arm of the reducer, or several.
LEMMA ArmStep ==
  ASSUME LayoutInv, NEW l \in Slices(lay.view), Arm(l)
  PROVE  LayoutInv'
<1>1. l.view = lay.view
  BY DEF Slices, Loose
<1>2. QED
  BY <1>1 DEF LayoutInv, Arm

\* One that changes the view as well.
LEMMA ViewStep ==
  ASSUME LayoutInv, NEW v \in {"normal", "half", "full"}, NEW l \in Slices(v), Arm(l)
  PROVE  LayoutInv'
<1>1. l.view = v
  BY DEF Slices, Loose
<1>2. QED
  BY <1>1 DEF LayoutInv, Arm

LEMMA ViewSlice ==
  ASSUME NEW v, NEW l \in Slices(v), NEW w
  PROVE  LET r == [l EXCEPT !.view = w] IN r \in Slices(w) /\ r.cols = l.cols
BY DEF Slices, Loose

LEMMA DroppedSlice ==
  ASSUME NEW v \in {"normal", "half", "full"}, NEW l \in Slices(v)
  PROVE  \E w \in {"normal", "half", "full"} : DropFull(l) \in Slices(w) /\ DropFull(l).cols = l.cols
<1> DEFINE w == IF v = "full" THEN "normal" ELSE v
<1>1. l.view = v
  BY DEF Slices, Loose
<1>2. DropFull(l) = [l EXCEPT !.view = w]
  BY <1>1 DEF DropFull
<1>3. w \in {"normal", "half", "full"}
  OBVIOUS
<1> HIDE DEF w
<1>4. QED
  BY <1>2, <1>3, ViewSlice

LEMMA FocusedOrViewers ==
  ASSUME NEW n \in {lay.focus} \union ViewersOf(lay), LayoutInv
  PROVE  n \in PaneNames(lay.cols)
BY DEF ViewersOf, LayoutInv, Slices, Details, PaneNames, PanesOf

LEMMA PaneNamed ==
  ASSUME NEW cols, NEW a \in At(cols)
  PROVE  PaneAt(cols, a).pane \in PaneNames(cols)
BY DEF PaneNames, PanesOf

\* What the editor does on the way in and out.
LEMMA ClearUndoSlice ==
  ASSUME NEW v, NEW l \in Slices(v)
  PROVE  [l EXCEPT !.undo = <<>>, !.redo = <<>>] \in Slices(v)
<1> DEFINE e == <<>>
<1>1. e \in Seq(ViewerGrid) /\ Len(e) + Len(e) <= MaxUndo
  BY LayoutAssumption
<1> HIDE DEF e
<1>2. [l EXCEPT !.undo = e, !.redo = e] \in Slices(v)
  BY <1>1 DEF Slices, Loose
<1>3. QED
  BY <1>2 DEF e

LEMMA ViewingSteps ==
  ASSUME LayoutInv, FocusSet \/ ActivateTab \/ OpenTab
  PROVE  LayoutInv'
<1>1. lay \in Slices(lay.view) /\ lay \in Loose(lay.view)
  BY DEF LayoutInv, Slices
<1>2. CASE FocusSet
  <2>1. PICK n \in PaneNames(lay.cols) : Arm(WithFocus(lay, n))
    BY <1>2 DEF FocusSet, Panes
  <2> QED BY <1>1, <2>1, WithFocusSlice, ArmStep
<1>3. CASE ActivateTab
  <2>1. PICK a \in At(lay.cols) : \E t \in TabsOf(PaneAt(lay.cols, a)) :
          LET n == PaneAt(lay.cols, a).pane IN Arm(SetActiveTab(WithFocus(lay, n), n, t))
    BY <1>3 DEF ActivateTab
  <2> DEFINE n == PaneAt(lay.cols, a).pane
  <2>2. PICK t : Arm(SetActiveTab(WithFocus(lay, n), n, t))
    BY <2>1
  <2>3. n \in PaneNames(lay.cols)
    BY PaneNamed
  <2> HIDE DEF n
  <2>4. WithFocus(lay, n) \in Slices(lay.view) /\ n \in PaneNames(WithFocus(lay, n).cols)
    BY <1>1, <2>3, WithFocusSlice
  <2>5. SetActiveTab(WithFocus(lay, n), n, t) \in Slices(lay.view)
    BY <2>4, SetActiveTabSlice
  <2> QED BY <2>2, <2>5, ArmStep
<1>4. CASE OpenTab
  <2>1. PICK n \in {lay.focus} \union ViewersOf(lay), t \in Minted : Arm(MintTab(lay, n, t))
    BY <1>4 DEF OpenTab
  <2>2. n \in PaneNames(lay.cols) /\ t \in Ids
    BY FocusedOrViewers DEF Ids, Transient
  <2> QED BY <1>1, <2>1, <2>2, MintTabSlice, ArmStep
<1>5. QED
  BY <1>2, <1>3, <1>4

\* What a run shows: a tab minted or brought forward, focused or not.
LEMMA ShownSlice ==
  ASSUME NEW v, NEW l \in Slices(v), NEW n \in PaneNames(l.cols), NEW t \in Ids
  PROVE  LET s == SetActiveTab(MintTab(l, n, t), n, t)
         IN  s \in Slices(v) /\ n \in PaneNames(s.cols) /\ WithFocus(s, n) \in Slices(v)
<1> DEFINE m == MintTab(l, n, t)
           s == SetActiveTab(m, n, t)
<1>1. m \in Slices(v) /\ n \in PaneNames(m.cols)
  BY MintTabSlice
<1> HIDE DEF m
<1>2. s \in Slices(v) /\ n \in PaneNames(s.cols)
  BY <1>1, SetActiveTabSlice
<1> HIDE DEF s
<1>3. WithFocus(s, n) \in Slices(v)
  BY <1>2, WithFocusSlice DEF Slices
<1>4. QED
  BY <1>2, <1>3 DEF s, m

\* What comes of itself: a run that shows its output, a process that exits, a
\* terminal that is left; and the keys of the view.
LEMMA RunningSteps ==
  ASSUME LayoutInv, RunShows \/ TabExits \/ ViewKey \/ TerminalExit
  PROVE  LayoutInv'
<1>1. lay \in Slices(lay.view) /\ lay.view \in {"normal", "half", "full"}
  BY DEF LayoutInv
<1>2. CASE RunShows
  <2>1. PICK n \in ViewersOf(lay) :
          \/ \E t \in Minted :
               LET s == SetActiveTab(MintTab(lay, n, t), n, t)
               IN  Arm(s) \/ Arm(WithFocus(s, n)) \/ Arm(FullView(WithFocus(s, n)))
          \/ \E t \in Seeds : Arm(SetActiveTab(lay, n, t))
    BY <1>2 DEF RunShows
  <2>2. n \in PaneNames(lay.cols)
    BY FocusedOrViewers
  <2>3. ASSUME NEW t \in Minted,
               LET s == SetActiveTab(MintTab(lay, n, t), n, t)
               IN  Arm(s) \/ Arm(WithFocus(s, n)) \/ Arm(FullView(WithFocus(s, n)))
        PROVE  LayoutInv'
    <3> DEFINE s == SetActiveTab(MintTab(lay, n, t), n, t)
    <3>1. t \in Ids
      BY DEF Ids, Transient
    <3>2. s \in Slices(lay.view) /\ WithFocus(s, n) \in Slices(lay.view)
      BY <1>1, <2>2, <3>1, ShownSlice
    <3>3. Arm(s) \/ Arm(WithFocus(s, n)) \/ Arm(FullView(WithFocus(s, n)))
      BY <2>3
    <3> HIDE DEF s
    <3>4. FullView(WithFocus(s, n)) \in Slices("full")
      BY <3>2, ViewSlice DEF FullView
    <3> QED BY <3>2, <3>3, <3>4, ArmStep, ViewStep
  <2>4. ASSUME NEW t, Arm(SetActiveTab(lay, n, t)) PROVE LayoutInv'
    BY <1>1, <2>2, <2>4, SetActiveTabSlice, ArmStep
  <2> QED BY <2>1, <2>3, <2>4
<1>3. CASE TabExits
  <2>1. PICK n \in PaneNames(lay.cols), t \in Minted, l \in {lay, DropFull(lay)} :
          Arm(l) \/ Arm(RemoveTab(l, n, t))
    BY <1>3 DEF TabExits, Panes
  <2>2. PICK w \in {"normal", "half", "full"} : l \in Slices(w) /\ l.cols = lay.cols
    BY <1>1, DroppedSlice
  <2>3. RemoveTab(l, n, t) \in Slices(w)
    BY <2>2, RemoveTabSlice
  <2> QED BY <2>1, <2>2, <2>3, ViewStep
<1>4. CASE ViewKey
  <2>1. PICK v \in {"normal", "half", "full"} : Arm([lay EXCEPT !.view = v])
    BY <1>4 DEF ViewKey
  <2>2. [lay EXCEPT !.view = v] \in Slices(v)
    BY <1>1, ViewSlice
  <2> QED BY <2>1, <2>2, ViewStep
<1>5. CASE TerminalExit
  BY <1>1, <1>5, DroppedSlice, ViewStep DEF TerminalExit
<1>6. QED
  BY <1>2, <1>3, <1>4, <1>5

LEMMA ArrangingSteps ==
  ASSUME LayoutInv,
         HidePane \/ ShowPane \/ ReshapePane \/ SwapPane \/ ColumnCommand
           \/ RestoreCommand \/ SaveCommand
  PROVE  LayoutInv'
<1>1. lay \in Slices(lay.view)
  BY DEF LayoutInv
<1>2. CASE HidePane
  <2>1. PICK p : Arm(PoolHide(lay, IdOf(p)))
    BY <1>2 DEF HidePane
  <2> QED BY <1>1, <2>1, PoolHideSlice, ArmStep
<1>3. CASE ShowPane
  <2>1. PICK i : Arm(PoolShow(lay, i, Len(lay.cols), AtEnd, FALSE))
    BY <1>3 DEF ShowPane
  <2>2. Len(lay.cols) \in Nat \ {0} /\ AtEnd \in Nat
    <3>1. lay.cols \in Grid /\ At(lay.cols) # {}
      BY <1>1, SliceGrid DEF ViewerGrid, Details
    <3>2. Len(lay.cols) # 0
      BY <3>1, Places
    <3> QED BY <3>1, <3>2 DEF Grid, AtEnd
  <2>3. PoolShow(lay, i, Len(lay.cols), AtEnd, FALSE) \in Slices(lay.view)
    BY <1>1, <2>2, PoolShowSlice, Zenon
  <2> QED BY <2>1, <2>3, ArmStep, Zenon
<1>4. CASE ReshapePane
  BY <1>1, <1>4, ReshapeSlice, ArmStep DEF ReshapePane
<1>5. CASE SwapPane
  <2>1. PICK n \in PaneNames(lay.cols), i \in lay.pool : Arm(PoolSwapById(lay, n, i))
    BY <1>5 DEF SwapPane, Panes
  <2> QED BY <1>1, <2>1, PoolSwapSlice, ArmStep
<1>6. CASE ColumnCommand
  <2>1. CASE \E k \in 1 .. Len(lay.cols) + 1 : Arm(AddColumn(lay, k))
    BY <1>1, <2>1, AddColumnSlice, ArmStep
  <2>2. CASE \E c \in DOMAIN lay.cols : Arm(RemoveColumn(lay, c))
    <3>1. DOMAIN lay.cols = 1 .. Len(lay.cols)
      BY <1>1, SliceGrid DEF Grid
    <3> QED BY <1>1, <2>2, <3>1, RemoveColumnSlice, ArmStep
  <2> QED BY <1>6, <2>1, <2>2 DEF ColumnCommand
<1>7. CASE RestoreCommand
  BY <1>1, <1>7, RestoreSlice, ArmStep DEF RestoreCommand
<1>8. CASE SaveCommand
  <2>1. [lay EXCEPT !.dirty = FALSE] \in Slices(lay.view)
    BY <1>1 DEF Slices, Loose
  <2> QED BY <1>8, <2>1, ArmStep DEF SaveCommand
<1>9. QED
  BY <1>2, <1>3, <1>4, <1>5, <1>6, <1>7, <1>8

LEMMA AppendGrid ==
  ASSUME NEW cols \in Grid, NEW c \in 1 .. Len(cols), NEW p \in GoodPane
  PROVE  LET new == [cols EXCEPT ![c] = Append(@, p)]
         IN  new \in Grid /\ PanesOf(cols) \union {p} \subseteq PanesOf(new)
<1> DEFINE col == Append(cols[c], p)
           new == [cols EXCEPT ![c] = col]
<1>1. cols[c] \in Seq(GoodPane)
  BY Places
<1>2. /\ col \in Seq(GoodPane) /\ Len(col) = Len(cols[c]) + 1 /\ Len(cols[c]) \in Nat
      /\ \A k \in 1 .. Len(cols[c]) : col[k] = cols[c][k]
      /\ col[Len(cols[c]) + 1] = p
  BY <1>1, AppendProperties
<1> HIDE DEF col
<1>3. /\ new \in Grid /\ Len(new) = Len(cols) /\ new[c] = col
      /\ \A d \in 1 .. Len(cols) : d # c => new[d] = cols[d]
  BY <1>2, SetColumn
<1> HIDE DEF new
<1>4. ASSUME NEW q \in PanesOf(cols) PROVE q \in PanesOf(new)
  <2>1. PICK d \in 1 .. Len(cols) : \E m \in 1 .. Len(cols[d]) : cols[d][m] = q
    BY PanesIn
  <2>2. PICK m \in 1 .. Len(cols[d]) : cols[d][m] = q
    BY <2>1
  <2>3. m \in 1 .. Len(new[d]) /\ new[d][m] = q
    BY <1>2, <1>3, <2>2
  <2> QED BY <1>3, <2>3, PanesIn
<1>5. p \in PanesOf(new)
  BY <1>2, <1>3, PanesIn
<1>6. QED
  BY <1>3, <1>4, <1>5 DEF new, col

LEMMA EditorSteps ==
  ASSUME LayoutInv, FcEnter \/ FcExit \/ FcNav \/ FcMove \/ FcUndo
  PROVE  LayoutInv'
<1>1. lay \in Slices(lay.view) /\ lay \in Loose(lay.view)
  BY DEF LayoutInv, Slices
<1>2. CASE FcEnter
  <2>1. lay' \in Slices(lay.view) /\ lay.view = "normal"
    BY <1>1, <1>2, ClampSlice, ClearUndoSlice DEF FcEnter
  <2> QED BY <1>2, <2>1 DEF FcEnter, LayoutInv, Slices, Loose
<1>3. CASE FcExit
  <2>1. WithFocus(lay, lay.focus) \in Slices(lay.view)
    BY <1>1, WithFocusSlice DEF Slices
  <2>2. lay' \in Slices(lay.view)
    BY <1>3, <2>1, ClearUndoSlice DEF FcExit
  <2> QED BY <1>3, <2>2 DEF FcExit, LayoutInv, Slices, Loose
<1>4. CASE FcNav
  <2>1. PICK b \in At(lay.cols) : Arm([lay EXCEPT !.focus = PaneAt(lay.cols, b).pane])
    BY <1>4 DEF FcNav
  <2>2. WithFocus(lay, PaneAt(lay.cols, b).pane) \in Slices(lay.view)
    BY <1>1, PaneNamed, WithFocusSlice
  <2> QED BY <2>1, <2>2, ArmStep DEF WithFocus
<1>5. CASE FcMove
  <2> DEFINE a == Where(lay.cols, lay.focus)
             p == PaneAt(lay.cols, a)
             moved(cols) == Clamp(Commit(lay, cols, FALSE))
  <2>1. /\ a \in At(lay.cols) /\ lay.cols \in Grid /\ p \in GoodPane
        /\ a[1] \in 1 .. Len(lay.cols) /\ a = <<a[1], a[2]>>
        /\ DOMAIN lay.cols = 1 .. Len(lay.cols)
        /\ DOMAIN lay.cols[a[1]] = 1 .. Len(lay.cols[a[1]])
    BY <1>1, SliceGrid, WhereIn, Places DEF Slices, Grid
  <2>2. ASSUME NEW cols \in Grid, PanesOf(lay.cols) \subseteq PanesOf(cols), Arm(moved(cols))
        PROVE  LayoutInv'
    <3>1. Commit(lay, cols, FALSE) \in Slices(lay.view)
      BY <1>1, <2>2, CommitKeeps, Zenon
    <3>2. moved(cols) \in Slices(lay.view)
      BY <3>1, ClampSlice DEF Slices
    <3> QED BY <2>2, <3>2, ArmStep
  <2> HIDE DEF moved, a, p
  <2>3. ASSUME NEW k \in DOMAIN lay.cols[a[1]], Arm(moved(Swapped(lay.cols, a, <<a[1], k>>)))
        PROVE  LayoutInv'
    <3>1. <<a[1], k>> \in At(lay.cols)
      BY <2>1, Places
    <3> QED BY <2>1, <2>2, <2>3, <3>1, SwapGrid
  <2>4. ASSUME NEW c \in DOMAIN lay.cols,
               Arm(moved([Without(lay.cols, a) EXCEPT ![c] = Append(@, p)]))
        PROVE  LayoutInv'
    <3> DEFINE w == Without(lay.cols, a)
               new == [w EXCEPT ![c] = Append(@, p)]
    <3>1. w \in Grid /\ Len(w) = Len(lay.cols) /\ Others(lay.cols, a) \subseteq PanesOf(w)
      BY <2>1, WithoutGrid
    <3> HIDE DEF w
    <3>2. new \in Grid /\ PanesOf(w) \union {p} \subseteq PanesOf(new)
      BY <2>1, <3>1, AppendGrid
    <3>3. PanesOf(lay.cols) = Others(lay.cols, a) \union {p}
      BY <2>1, PaneOrOther DEF p
    <3>4. Arm(moved(new))
      BY <2>4 DEF w
    <3> HIDE DEF new
    <3> QED BY <2>2, <3>1, <3>2, <3>3, <3>4
  <2>5. \/ \E k \in DOMAIN lay.cols[a[1]] : Arm(moved(Swapped(lay.cols, a, <<a[1], k>>)))
        \/ \E c \in DOMAIN lay.cols :
              Arm(moved([Without(lay.cols, a) EXCEPT ![c] = Append(@, p)]))
    BY <1>5 DEF FcMove, moved, a, p
  <2> QED BY <2>3, <2>4, <2>5
<1>6. CASE FcUndo
  BY <1>1, <1>6, UndoSlice, RedoSlice, ArmStep DEF FcUndo
<1>7. QED
  BY <1>2, <1>3, <1>4, <1>5, <1>6

LEMMA DragSteps ==
  ASSUME LayoutInv, DragPress \/ DragMotion \/ DragRelease
  PROVE  LayoutInv'
<1>1. lay \in Slices(lay.view) /\ lay.view \in {"normal", "half", "full"}
  BY DEF LayoutInv
<1>2. ASSUME lay' \in Slices(lay.view), freeConfig' = freeConfig, freeConfig,
             drag' \in {NoDrag} \union GridDrags \union PoolDrags
      PROVE  LayoutInv'
  BY <1>1, <1>2 DEF LayoutInv, Slices, Loose
<1>3. CASE DragPress
  <2>1. ASSUME NEW q \in PanesOf(lay.cols), lay' = [lay EXCEPT !.focus = q.pane],
               drag' = [from |-> "grid", what |-> q.pane, kind |-> KindOf(q), target |-> NoTarget]
        PROVE  LayoutInv'
    <3>1. q.pane \in Ids /\ KindOf(q) \in PanelKinds /\ q.pane \in PaneNames(lay.cols)
      BY <1>1, SliceGrid, PaneFacts DEF PanesOf, PaneNames
    <3>2. lay' \in Slices(lay.view)
      BY <1>1, <2>1, <3>1, SliceGrid, WithFocusSlice DEF WithFocus
    <3>3. drag' \in GridDrags
      BY <2>1, <3>1 DEF GridDrags, ForGrid
    <3> QED BY <1>2, <1>3, <3>2, <3>3 DEF DragPress
  <2>2. ASSUME lay' = lay, NEW i \in PanelListItems(lay),
               drag' = [from |-> "pool", what |-> i, kind |-> Kind[i], target |-> NoTarget]
        PROVE  LayoutInv'
    <3>1. i \in Ids
      BY <1>1, SliceGrid DEF PanelListItems
    <3>2. drag' \in PoolDrags
      BY <2>2, <3>1 DEF PoolDrags, ForPool, PanelKinds
    <3> QED BY <1>1, <1>2, <1>3, <2>2, <3>2 DEF DragPress
  <2> QED BY <1>3, <2>1, <2>2 DEF DragPress
<1>4. CASE DragMotion
  <2>1. PICK t \in DragTargets : drag' = [drag EXCEPT !.target = t]
    BY <1>4 DEF DragMotion
  <2>2. drag # NoDrag /\ lay' = lay /\ freeConfig' = freeConfig /\ freeConfig
    BY <1>4 DEF DragMotion, LayoutInv
  <2>3. CASE drag \in GridDrags
    <3>1. drag.from = "grid"
      BY <2>3 DEF GridDrags
    <3>2. t \in ForGrid
      BY <1>1, <2>1, <3>1, GridTargetsType DEF DragTargets, ForGrid
    <3>3. drag' \in GridDrags
      BY <2>1, <2>3, <3>2 DEF GridDrags
    <3> QED BY <1>1, <1>2, <2>2, <3>3
  <2>4. CASE drag \in PoolDrags
    <3>1. drag.from # "grid"
      BY <2>4 DEF PoolDrags
    <3>2. t \in ForPool
      BY <1>1, <2>1, <3>1, PoolTargetsType DEF DragTargets, ForPool
    <3>3. drag' \in PoolDrags
      BY <2>1, <2>4, <3>2 DEF PoolDrags
    <3> QED BY <1>1, <1>2, <2>2, <3>3
  <2> QED BY <2>2, <2>3, <2>4 DEF LayoutInv
<1>5. CASE DragRelease
  <2>1. /\ drag # NoDrag /\ drag' = NoDrag /\ freeConfig' = freeConfig /\ freeConfig
        /\ (drag.from = "grid" /\ drag.target.to = "insert") => drag.target.col <= Len(lay.cols)
        /\ lay' = IF drag.from = "grid" THEN MouseRelease(lay, drag) ELSE PoolDragRelease(lay, drag)
    BY <1>5 DEF DragRelease, LayoutInv
  <2>2. CASE drag \in GridDrags
    <3>1. drag.from = "grid"
      BY <2>2 DEF GridDrags
    <3> QED BY <1>1, <1>2, <2>1, <2>2, <3>1, MouseReleaseSlice
  <2>3. CASE drag \in PoolDrags
    <3>1. drag.from # "grid"
      BY <2>3 DEF PoolDrags
    <3> QED BY <1>1, <1>2, <2>1, <2>3, <3>1, PoolDragReleaseSlice
  <2> QED BY <2>1, <2>2, <2>3 DEF LayoutInv
<1>6. QED
  BY <1>3, <1>4, <1>5

LEMMA NextLayoutInv == LayoutInv /\ [Next]_vars => LayoutInv'
<1> SUFFICES ASSUME LayoutInv, [Next]_vars PROVE LayoutInv'
  OBVIOUS
<1>1. CASE Next
  BY <1>1, ViewingSteps, RunningSteps, ArrangingSteps, EditorSteps, DragSteps DEF Next
<1>2. CASE UNCHANGED vars
  BY <1>2 DEF vars, LayoutInv
<1>3. QED
  BY <1>1, <1>2

-----------------------------------------------------------------------------
(* What follows. *)

\* The strengthening: every slice is a slice of its view with a viewer and a
\* placed focus, on the grid and on every grid undo or redo may bring back, and
\* a drag is one the editor can hold.
THEOREM LayoutInvariance == Spec => []LayoutInv
BY InitLayoutInv, NextLayoutInv, PTL DEF Spec

\* The slice keeps its shape, and every pane shows one of its tabs: whatever an
\* arm removes, hides, swaps or brings back, no pane is left on a tab it lost.
THEOREM LayoutTypeCorrect == Spec => []TypeOK
<1>1. LayoutInv => TypeOK
  <2> SUFFICES ASSUME LayoutInv PROVE TypeOK
    OBVIOUS
  <2> DEFINE v == lay.view
  <2>1. lay \in Loose(v)
    BY DEF LayoutInv, Slices
  <2>2. lay.cols \in Grid /\ lay.pool \in {P \in SUBSET Ids : ConfigIds \subseteq P}
        /\ lay.dirty \in BOOLEAN /\ lay.undo \in Seq(ViewerGrid) /\ lay.redo \in Seq(ViewerGrid)
        /\ Len(lay.undo) + Len(lay.redo) <= MaxUndo
    BY <2>1 DEF Loose, ViewerGrid
  <2>3. lay.cols \in Seq(Seq(PaneType))
    <3>1. GoodPane \subseteq PaneType
      BY DEF GoodPane
    <3>2. Seq(GoodPane) \subseteq Seq(PaneType)
      BY <3>1
    <3> QED BY <2>2, <3>2 DEF Grid
  <2>4. \A p \in PanesOf(lay.cols) : p.active \in TabsOf(p)
    BY <2>2, GoodPanes DEF GoodPane
  <2> QED BY <2>2, <2>3, <2>4 DEF LayoutInv, TypeOK
<1>2. QED
  BY <1>1, LayoutInvariance, PTL

\* A viewer is always on the screen: no order of hides, replaces, swaps, drags,
\* undos and redos leaves the application without one.
THEOREM ViewerAlwaysRemains == Spec => []ViewerRemains
<1>1. LayoutInv => ViewerRemains
  BY DEF LayoutInv, Slices, Loose, ViewerGrid, ViewerRemains
<1>2. QED
  BY <1>1, LayoutInvariance, PTL

\* The focus is always on a placed pane, however the pane it was on left.
THEOREM FocusAlwaysPlaced == Spec => []FocusPlaced
<1>1. LayoutInv => FocusPlaced
  BY DEF LayoutInv, Slices, FocusPlaced
<1>2. QED
  BY <1>1, LayoutInvariance, PTL

-----------------------------------------------------------------------------
(* Undo.  A gesture of the editor that changes what the file keeps leaves the *)
(* old grid on top of the undo stack, or of the redo stack.                   *)

SliceFields == {"cols", "pool", "focus", "view", "dirty", "undo", "redo"}
Takes(l, m) == m.undo # <<>> /\ Last(m.undo) = l.cols
Returns(l, m) == m.redo # <<>> /\ Last(m.redo) = l.cols

LEMMA OnTop ==
  ASSUME NEW S, NEW s \in Seq(S), NEW e \in S
  PROVE  /\ Append(s, e) # <<>> /\ Last(Append(s, e)) = e
         /\ LastOf(Append(s, e)) # <<>> /\ Last(LastOf(Append(s, e))) = e
<1> DEFINE t == Append(s, e)
           n == Len(t)
           m == IF n > MaxUndo THEN n - MaxUndo + 1 ELSE 1
<1>1. MaxUndo \in Nat \ {0}
  BY LayoutAssumption
<1>2. t \in Seq(S) /\ n = Len(s) + 1 /\ t[n] = e /\ Len(s) \in Nat
  OBVIOUS
<1>3. m \in 1 .. n
  BY <1>1, <1>2
<1>4. LastOf(t) = SubSeq(t, m, n)
  BY DEF LastOf
<1> HIDE DEF m, t
<1>5. /\ SubSeq(t, m, n) \in Seq(S) /\ Len(SubSeq(t, m, n)) = n - m + 1
      /\ SubSeq(t, m, n)[n - m + 1] = t[n]
  BY <1>2, <1>3, SubSeqProperties
<1>6. t # <<>> /\ Last(t) = e
  BY <1>2 DEF Last
<1>7. LastOf(t) # <<>> /\ Last(LastOf(t)) = e
  <2> DEFINE w == LastOf(t)
  <2>1. w \in Seq(S) /\ Len(w) = n - m + 1 /\ w[n - m + 1] = e
    BY <1>2, <1>4, <1>5
  <2> HIDE DEF w
  <2>2. Len(w) > 0 /\ w[Len(w)] = e
    BY <1>2, <1>3, <2>1
  <2>3. w # <<>> /\ Last(w) = e
    BY <2>1, <2>2 DEF Last
  <2>4. QED
    BY <2>3 DEF w
<1>8. QED
  BY <1>6, <1>7 DEF t

\* What an arm may do after the commit leaves the stacks as they are.
LEMMA FocusKeepsStacks ==
  ASSUME NEW l, DOMAIN l = SliceFields, NEW x
  PROVE  /\ WithFocus(l, x).undo = l.undo /\ WithFocus(l, x).redo = l.redo
         /\ WithFocus(l, x).cols = l.cols /\ DOMAIN WithFocus(l, x) = SliceFields
BY DEF WithFocus, SliceFields

LEMMA ClampKeepsStacks ==
  ASSUME NEW l, DOMAIN l = SliceFields
  PROVE  /\ Clamp(l).undo = l.undo /\ Clamp(l).redo = l.redo
         /\ Clamp(l).cols = l.cols /\ DOMAIN Clamp(l) = SliceFields
BY DEF Clamp, SliceFields

LEMMA ClampAndFocusKeepsStacks ==
  ASSUME NEW l, DOMAIN l = SliceFields, NEW old
  PROVE  /\ ClampAndFocus(old, l).undo = l.undo /\ ClampAndFocus(old, l).cols = l.cols
         /\ DOMAIN ClampAndFocus(old, l) = SliceFields
<1> DEFINE n == Clamp(l)
<1>1. n.undo = l.undo /\ n.cols = l.cols /\ DOMAIN n = SliceFields
  BY ClampKeepsStacks
<1>2. ClampAndFocus(old, l) = IF n.focus # old.focus THEN WithFocus(n, n.focus) ELSE n
  BY DEF ClampAndFocus
<1> HIDE DEF n
<1>3. QED
  BY <1>1, <1>2, FocusKeepsStacks

LEMMA ByNameKeepsStacks ==
  ASSUME NEW l, DOMAIN l = SliceFields, NEW name
  PROVE  /\ FocusByName(l, name).undo = l.undo /\ FocusByName(l, name).cols = l.cols
         /\ DOMAIN FocusByName(l, name) = SliceFields
<1>1. \E x : FocusByName(l, name) = WithFocus(l, x) \/ FocusByName(l, name) = l
  BY DEF FocusByName
<1>2. QED
  BY <1>1, FocusKeepsStacks

LEMMA SliceDomain ==
  ASSUME NEW v, NEW l \in Slices(v)
  PROVE  /\ DOMAIN l = SliceFields /\ l.cols \in ViewerGrid
         /\ l.undo \in Seq(ViewerGrid) /\ l.redo \in Seq(ViewerGrid)
BY DEF Slices, Loose, SliceFields

LEMMA PushTakes ==
  ASSUME NEW v, NEW l \in Slices(v)
  PROVE  Takes(l, PushUndo(l)) /\ DOMAIN PushUndo(l) = SliceFields
<1> DEFINE u == LastOf(Append(l.undo, l.cols))
<1>1. u # <<>> /\ Last(u) = l.cols
  BY SliceDomain, OnTop
<1> HIDE DEF u
<1>2. PushUndo(l) = [l EXCEPT !.undo = u, !.redo = <<>>]
  BY DEF PushUndo, u
<1>3. PushUndo(l).undo = u /\ DOMAIN PushUndo(l) = SliceFields
  BY <1>2, SliceDomain DEF SliceFields
<1>4. QED
  BY <1>1, <1>3 DEF Takes

LEMMA CommitTakes ==
  ASSUME NEW v, NEW l \in Slices(v), NEW cols
  PROVE  Takes(l, Commit(l, cols, FALSE)) /\ DOMAIN Commit(l, cols, FALSE) = SliceFields
<1> DEFINE p == PushUndo(l)
<1>1. Takes(l, p) /\ DOMAIN p = SliceFields
  BY PushTakes
<1>2. Commit(l, cols, FALSE) = [p EXCEPT !.cols = cols, !.dirty = TRUE]
  BY DEF Commit
<1> HIDE DEF p
<1>3. QED
  BY <1>1, <1>2 DEF Takes, SliceFields

LEMMA CommitSkips ==
  ASSUME NEW l, DOMAIN l = SliceFields, NEW cols
  PROVE  Commit(l, cols, TRUE).undo = l.undo /\ DOMAIN Commit(l, cols, TRUE) = SliceFields
BY DEF Commit, SliceFields

-----------------------------------------------------------------------------
(* The arms. *)

LEMMA PoolHideTakes ==
  ASSUME NEW v, NEW l \in Slices(v), NEW i
  PROVE  PoolHide(l, i) = l \/ Takes(l, PoolHide(l, i))
<1>1. PICK cols : PoolHide(l, i) = l \/ PoolHide(l, i) = ClampAndFocus(l, Commit(l, cols, FALSE))
  BY DEF PoolHide
<1> DEFINE k == Commit(l, cols, FALSE)
<1>2. Takes(l, k) /\ DOMAIN k = SliceFields
  BY CommitTakes
<1> HIDE DEF k
<1>3. ClampAndFocus(l, k).undo = k.undo
  BY <1>2, ClampAndFocusKeepsStacks
<1>4. QED
  BY <1>1, <1>2, <1>3 DEF Takes, k

LEMMA CommitByNameTakes ==
  ASSUME NEW v, NEW l \in Slices(v), NEW cols, NEW name
  PROVE  Takes(l, FocusByName(Commit(l, cols, FALSE), name))
<1> DEFINE k == Commit(l, cols, FALSE)
<1>2. Takes(l, k) /\ DOMAIN k = SliceFields
  BY CommitTakes
<1> HIDE DEF k
<1>3. FocusByName(k, name).undo = k.undo
  BY <1>2, ByNameKeepsStacks
<1>4. QED
  BY <1>2, <1>3 DEF Takes, k

LEMMA PoolShowTakes ==
  ASSUME NEW v, NEW l \in Slices(v), NEW i, NEW c, NEW k
  PROVE  PoolShow(l, i, c, k, FALSE) = l \/ Takes(l, PoolShow(l, i, c, k, FALSE))
<1>1. PICK cols : \/ PoolShow(l, i, c, k, FALSE) = l
                  \/ PoolShow(l, i, c, k, FALSE) = FocusByName(Commit(l, cols, FALSE), Kind[i])
  BY DEF PoolShow
<1>2. QED
  BY <1>1, CommitByNameTakes

LEMMA PoolShowSkips ==
  ASSUME NEW l, DOMAIN l = SliceFields, NEW i, NEW c, NEW k
  PROVE  PoolShow(l, i, c, k, TRUE).undo = l.undo
<1>1. PICK cols : \/ PoolShow(l, i, c, k, TRUE) = l
                  \/ PoolShow(l, i, c, k, TRUE) = FocusByName(Commit(l, cols, TRUE), Kind[i])
  BY DEF PoolShow
<1> DEFINE m == Commit(l, cols, TRUE)
<1>2. m.undo = l.undo /\ DOMAIN m = SliceFields
  BY CommitSkips
<1> HIDE DEF m
<1>3. FocusByName(m, Kind[i]).undo = m.undo
  BY <1>2, ByNameKeepsStacks
<1>4. QED
  BY <1>1, <1>2, <1>3 DEF m

LEMMA PoolShowNewColumnTakes ==
  ASSUME NEW v, NEW l \in Slices(v), NEW i, NEW position
  PROVE  \/ PoolShowNewColumn(l, i, position) = l
         \/ Takes(l, PoolShowNewColumn(l, i, position))
<1>1. PICK cols : \/ PoolShowNewColumn(l, i, position) = l
                  \/ PoolShowNewColumn(l, i, position) = FocusByName(Commit(l, cols, FALSE), Kind[i])
  BY DEF PoolShowNewColumn
<1>2. QED
  BY <1>1, CommitByNameTakes

\* A drop on the grid pushes the old grid before it finds its place.
LEMMA MouseReleaseTakes ==
  ASSUME NEW v, NEW l \in Slices(v), NEW d
  PROVE  MouseRelease(l, d) = l \/ Takes(l, MouseRelease(l, d))
<1> DEFINE p == PushUndo(l)
<1>1. Takes(l, p) /\ DOMAIN p = SliceFields
  BY PushTakes
<1>2. PICK cols, done, f :
        LET next == [p EXCEPT !.cols = cols, !.dirty = p.dirty \/ done]
        IN  \/ MouseRelease(l, d) = l
            \/ MouseRelease(l, d) = Clamp(next)
            \/ MouseRelease(l, d) = [next EXCEPT !.focus = f]
  BY DEF MouseRelease
<1> HIDE DEF p
<1> DEFINE next == [p EXCEPT !.cols = cols, !.dirty = p.dirty \/ done]
<1>3. Takes(l, next) /\ DOMAIN next = SliceFields
  BY <1>1 DEF Takes, SliceFields
<1>4. MouseRelease(l, d) = l \/ MouseRelease(l, d) = Clamp(next) \/ MouseRelease(l, d) = [next EXCEPT !.focus = f]
  BY <1>2
<1> HIDE DEF next
<1>5. Takes(l, Clamp(next)) /\ Takes(l, [next EXCEPT !.focus = f])
  BY <1>3, ClampKeepsStacks DEF Takes, SliceFields
<1>6. QED
  BY <1>4, <1>5

\* A replacement is two hops, the second without an entry of its own.
LEMMA PoolDragReleaseTakes ==
  ASSUME NEW v, NEW l \in Slices(v), NEW d \in PoolDrags,
         d.target.to = "replace" => PoolHide(l, d.target.occupant) # l
  PROVE  PoolDragRelease(l, d) = l \/ Takes(l, PoolDragRelease(l, d))
<1> DEFINE t == d.target
<1>1. t.to \in {"none", "insert", "column", "replace"}
  BY DEF PoolDrags, ForPool, NoTarget, InsertTargets, ColumnTargets, ReplaceTargets
<1>2. CASE t.to = "none"
  BY <1>2 DEF PoolDragRelease
<1>3. CASE t.to = "insert"
  BY <1>3, PoolShowTakes DEF PoolDragRelease
<1>4. CASE t.to = "column"
  BY <1>4, PoolShowNewColumnTakes DEF PoolDragRelease
<1>5. CASE t.to = "replace"
  <2> DEFINE h == PoolHide(l, t.occupant)
  <2>1. PoolDragRelease(l, d) = PoolShow(h, d.what, t.col, AtEnd, TRUE)
    BY <1>5 DEF PoolDragRelease
  <2>2. h \in Slices(v) /\ h # l
    BY <1>5, PoolHideSlice
  <2>3. Takes(l, h)
    BY <2>2, PoolHideTakes
  <2> HIDE DEF h
  <2>4. PoolShow(h, d.what, t.col, AtEnd, TRUE).undo = h.undo
    BY <2>2, SliceDomain, PoolShowSkips
  <2>5. QED
    BY <2>1, <2>3, <2>4 DEF Takes
<1>6. QED
  BY <1>1, <1>2, <1>3, <1>4, <1>5

\* Undo and redo hand the grid to each other.
LEMMA UndoReturns ==
  ASSUME NEW v, NEW l \in Slices(v)
  PROVE  /\ Undo(l) = l \/ Returns(l, Undo(l))
         /\ Redo(l) = l \/ Takes(l, Redo(l))
<1> DEFINE r == Append(l.redo, l.cols)
           u == Append(l.undo, l.cols)
           m == [l EXCEPT !.cols = Last(l.undo), !.undo = Front(@), !.redo = r, !.dirty = TRUE]
           n == [l EXCEPT !.cols = Last(l.redo), !.redo = Front(@), !.undo = u, !.dirty = TRUE]
<1>1. /\ r # <<>> /\ Last(r) = l.cols /\ u # <<>> /\ Last(u) = l.cols
      /\ DOMAIN l = SliceFields
  BY SliceDomain, OnTop
<1>2. /\ Undo(l) = l \/ Undo(l) = Clamp(m)
      /\ Redo(l) = l \/ Redo(l) = Clamp(n)
  BY DEF Undo, Redo
<1> HIDE DEF r, u
<1>3. Returns(l, m) /\ Takes(l, n) /\ DOMAIN m = SliceFields /\ DOMAIN n = SliceFields
  BY <1>1 DEF Returns, Takes, SliceFields
<1> HIDE DEF m, n
<1>4. Returns(l, Clamp(m)) /\ Takes(l, Clamp(n))
  BY <1>3, ClampKeepsStacks DEF Returns, Takes
<1>5. QED
  BY <1>2, <1>4

-----------------------------------------------------------------------------
(* A minted tab that goes is no edit: the file keeps nothing of it. *)

LEMMA OrderWithout ==
  ASSUME NEW s \in Seq(Ids), NEW i \in 1 .. Len(s), s[i] \notin ConfigIds
  PROVE  InOrder(RemoveAt(s, i)) \intersect (ConfigIds \X ConfigIds)
         = InOrder(s) \intersect (ConfigIds \X ConfigIds)
<1> DEFINE r == RemoveAt(s, i)
           Pairs(q) == {e \in ConfigIds \X ConfigIds : \E j, k \in 1 .. Len(q) : j <= k /\ e = <<q[j], q[k]>>}
<1>1. /\ r \in Seq(Ids) /\ Len(r) = Len(s) - 1
      /\ \A j \in 1 .. Len(s) - 1 : r[j] = IF j < i THEN s[j] ELSE s[j + 1]
  BY RemoveAtShape
<1>2. ASSUME NEW q \in Seq(Ids)
      PROVE  InOrder(q) \intersect (ConfigIds \X ConfigIds) = Pairs(q)
  <2>1. DOMAIN q = 1 .. Len(q) /\ Len(q) \in Nat
    OBVIOUS
  <2>2. ASSUME NEW e PROVE e \in InOrder(q) <=> \E j, k \in 1 .. Len(q) : j <= k /\ e = <<q[j], q[k]>>
    <3>1. e \in InOrder(q) <=> \E j \in DOMAIN q : e \in {<<q[j], q[k]>> : k \in j .. Len(q)}
      BY DEF InOrder
    <3>2. \A j \in 1 .. Len(q) : \A k : k \in j .. Len(q) <=> k \in 1 .. Len(q) /\ j <= k
      BY <2>1
    <3>3. QED
      BY <2>1, <3>1, <3>2, Zenon
  <2>3. QED
    BY <2>2
<1> HIDE DEF r
<1>3. ASSUME NEW e \in Pairs(r) PROVE e \in Pairs(s)
  <2>1. PICK j, k \in 1 .. Len(r) : j <= k /\ e = <<r[j], r[k]>>
    OBVIOUS
  <2> DEFINE up(x) == IF x < i THEN x ELSE x + 1
  <2>2. /\ up(j) \in 1 .. Len(s) /\ up(k) \in 1 .. Len(s) /\ up(j) <= up(k)
        /\ r[j] = s[up(j)] /\ r[k] = s[up(k)]
    BY <1>1, <2>1
  <2> HIDE DEF up
  <2>3. QED
    BY <2>1, <2>2
<1>4. ASSUME NEW e \in Pairs(s) PROVE e \in Pairs(r)
  <2>1. PICK j, k \in 1 .. Len(s) : j <= k /\ e = <<s[j], s[k]>>
    OBVIOUS
  <2>2. j # i /\ k # i
    BY <2>1
  <2> DEFINE down(x) == IF x < i THEN x ELSE x - 1
  <2>3. /\ down(j) \in 1 .. Len(r) /\ down(k) \in 1 .. Len(r) /\ down(j) <= down(k)
        /\ r[down(j)] = s[j] /\ r[down(k)] = s[k]
    BY <1>1, <2>1, <2>2
  <2> HIDE DEF down
  <2>4. QED
    BY <2>1, <2>3
<1>5. Pairs(r) = Pairs(s)
  <2> HIDE DEF Pairs
  <2> QED BY <1>3, <1>4, Zenon DEF Pairs
<1> HIDE DEF Pairs
<1>6. QED
  BY <1>1, <1>2, <1>5 DEF r

\* A pane put where one was that the file keeps as the same.
LEMMA SameShape ==
  ASSUME NEW cols \in Grid, NEW a \in At(cols), NEW q, Kept(q) = Kept(PaneAt(cols, a))
  PROVE  Shape(SetPane(cols, a, q)) = Shape(cols)
<1> DEFINE new == SetPane(cols, a, q)
<1>1. a[1] \in DOMAIN cols /\ a[2] \in DOMAIN cols[a[1]]
  BY Places DEF At
<1>2. /\ DOMAIN new = DOMAIN cols
      /\ \A c \in DOMAIN cols : /\ DOMAIN new[c] = DOMAIN cols[c]
                                /\ \A j \in DOMAIN cols[c] : Kept(new[c][j]) = Kept(cols[c][j])
  BY <1>1 DEF SetPane, PaneAt
<1> HIDE DEF new
<1>3. QED
  BY <1>2 DEF Shape, new

LEMMA MintedGoes ==
  ASSUME NEW v, NEW l \in Slices(v), NEW n \in PaneNames(l.cols), NEW t \in Minted
  PROVE  Shape(RemoveTab(l, n, t).cols) = Shape(l.cols)
<1> DEFINE a    == Where(l.cols, n)
           p    == PaneAt(l.cols, a)
           at   == CHOOSE i \in DOMAIN p.tabs : p.tabs[i] = t
           left == RemoveAt(p.tabs, at)
           act  == IF p.active = t THEN left[IF at > Len(left) THEN Len(left) ELSE at]
                   ELSE p.active
           q    == [p EXCEPT !.tabs = left, !.active = act]
           k    == [l EXCEPT !.pool = @ \ {t}]
           next == CommitTransient(k, SetPane(l.cols, a, q))
<1>1. a \in At(l.cols) /\ p \in GoodPane /\ t \in Transient /\ t \notin ConfigIds /\ l.cols \in Grid
  BY WhereIn, SliceGrid, Places, LayoutAssumption DEF Transient
<1>2. ASSUME t \in TabsOf(p)
      PROVE  q.pane = p.pane /\ Kept(q) = Kept(p)
  <2>1. p.tabs \in Seq(Ids) /\ p.tabs = [j \in 1 .. Len(p.tabs) |-> p.tabs[j]]
    BY <1>1 DEF GoodPane, PaneType
  <2>2. at \in 1 .. Len(p.tabs) /\ p.tabs[at] = t
    BY <1>2, <2>1 DEF TabsOf, Range
  <2>3. q.pane = p.pane /\ q.tabs = left
    BY <1>1 DEF GoodPane, PaneType
  <2>4. InOrder(left) \intersect (ConfigIds \X ConfigIds) = InOrder(p.tabs) \intersect (ConfigIds \X ConfigIds)
    <3> HIDE DEF at
    <3> QED BY <1>1, <2>1, <2>2, OrderWithout
  <2> HIDE DEF q, left
  <2>5. QED
    BY <2>3, <2>4 DEF Kept
<1>3. ASSUME t \in TabsOf(p) PROVE Shape(SetPane(l.cols, a, q)) = Shape(l.cols)
  <2> HIDE DEF q
  <2> QED BY <1>1, <1>2, <1>3, SameShape
<1>4. PICK no : no = FALSE
  OBVIOUS
<1>5. \/ RemoveTab(l, n, t) = l
      \/ t \in TabsOf(p) /\ (RemoveTab(l, n, t) = next \/ RemoveTab(l, n, t) = FocusByName(next, act))
  BY <1>1 DEF RemoveTab
<1>6. next.cols = SetPane(l.cols, a, q) /\ DOMAIN next = SliceFields
  <2> HIDE DEF q, a
  <2> QED BY SliceDomain DEF CommitTransient, SliceFields
<1> HIDE DEF next, q
<1>7. FocusByName(next, act).cols = next.cols
  BY <1>6, ByNameKeepsStacks
<1>8. QED
  BY <1>3, <1>5, <1>6, <1>7

LEMMA OrderAppended ==
  ASSUME NEW s \in Seq(Ids), NEW t \in Ids \ ConfigIds
  PROVE  InOrder(Append(s, t)) \intersect (ConfigIds \X ConfigIds)
         = InOrder(s) \intersect (ConfigIds \X ConfigIds)
<1> DEFINE g == Append(s, t)
           e == Len(s) + 1
           r == RemoveAt(g, e)
<1>1. g \in Seq(Ids) /\ Len(g) = e /\ e \in 1 .. Len(g) /\ g[e] = t /\ e - 1 = Len(s)
  OBVIOUS
<1>2. \A j \in 1 .. Len(s) : g[j] = s[j]
  OBVIOUS
<1> HIDE DEF g, e
<1>3. /\ r \in Seq(Ids) /\ Len(r) = Len(s)
      /\ \A j \in 1 .. Len(s) : r[j] = g[j]
  <2>1. /\ r \in Seq(Ids) /\ Len(r) = Len(g) - 1
        /\ \A j \in 1 .. Len(g) - 1 : r[j] = IF j < e THEN g[j] ELSE g[j + 1]
    BY <1>1, RemoveAtShape
  <2>2. \A j \in 1 .. Len(s) : j < e
    BY DEF e
  <2> QED BY <1>1, <2>1, <2>2
<1>4. r = s
  <2> HIDE DEF r
  <2> QED BY <1>2, <1>3
<1>5. InOrder(r) \intersect (ConfigIds \X ConfigIds) = InOrder(g) \intersect (ConfigIds \X ConfigIds)
  BY <1>1, OrderWithout
<1>6. QED
  BY <1>4, <1>5 DEF g

LEMMA ShownKeepsShape ==
  ASSUME NEW v, NEW l \in Slices(v), NEW n \in PaneNames(l.cols), NEW t
  PROVE  Shape(SetActiveTab(l, n, t).cols) = Shape(l.cols)
<1> DEFINE a == Where(l.cols, n)
           p == PaneAt(l.cols, a)
           q == [p EXCEPT !.active = t]
           next == CommitTransient(l, SetPane(l.cols, a, q))
<1>1. a \in At(l.cols) /\ p \in GoodPane /\ l.cols \in Grid
  BY WhereIn, SliceGrid, Places
<1>2. Kept(q) = Kept(p)
  BY <1>1 DEF GoodPane, PaneType, Kept
<1>3. next.cols = SetPane(l.cols, a, q) /\ DOMAIN next = SliceFields
  <2> HIDE DEF q, a
  <2> QED BY SliceDomain DEF CommitTransient, SliceFields
<1>4. SetActiveTab(l, n, t) = l \/ SetActiveTab(l, n, t) = next \/ SetActiveTab(l, n, t) = FocusByName(next, t)
  BY DEF SetActiveTab
<1> HIDE DEF next, q, a
<1>5. FocusByName(next, t).cols = next.cols
  BY <1>3, ByNameKeepsStacks
<1>6. QED
  BY <1>1, <1>2, <1>3, <1>4, <1>5, SameShape

LEMMA MintedComes ==
  ASSUME NEW v, NEW l \in Slices(v), NEW n \in PaneNames(l.cols), NEW t \in Minted
  PROVE  Shape(MintTab(l, n, t).cols) = Shape(l.cols)
<1> DEFINE a == Where(l.cols, n)
           p == PaneAt(l.cols, a)
           q == [p EXCEPT !.tabs = Append(@, t), !.active = t]
           k == [l EXCEPT !.pool = @ \union {t}]
           next == CommitTransient(k, SetPane(l.cols, a, q))
<1>1. a \in At(l.cols) /\ p \in GoodPane /\ l.cols \in Grid
  BY WhereIn, SliceGrid, Places
<1>2. t \in Ids \ ConfigIds
  BY LayoutAssumption DEF Ids, Transient
<1>3. Kept(q) = Kept(p)
  <2>1. p.tabs \in Seq(Ids) /\ q.pane = p.pane /\ q.tabs = Append(p.tabs, t)
    BY <1>1 DEF GoodPane, PaneType
  <2> HIDE DEF q, p
  <2>2. InOrder(Append(p.tabs, t)) \intersect (ConfigIds \X ConfigIds)
        = InOrder(p.tabs) \intersect (ConfigIds \X ConfigIds)
    BY <1>2, <2>1, OrderAppended
  <2> QED BY <2>1, <2>2 DEF Kept
<1>4. next.cols = SetPane(l.cols, a, q) /\ DOMAIN next = SliceFields
  <2> HIDE DEF q, a
  <2> QED BY SliceDomain DEF CommitTransient, SliceFields
<1>5. MintTab(l, n, t) = l \/ MintTab(l, n, t) = next \/ MintTab(l, n, t) = FocusByName(next, t)
  BY DEF MintTab
<1> HIDE DEF next, q, a
<1>6. FocusByName(next, t).cols = next.cols
  BY <1>4, ByNameKeepsStacks
<1>7. QED
  BY <1>1, <1>3, <1>4, <1>5, <1>6, SameShape

\* What a run shows, and what it leaves behind, is nothing the file keeps.
LEMMA RunsKeepShape ==
  ASSUME LayoutInv, RunShows \/ TabExits \/ TerminalExit
  PROVE  Shape(lay'.cols) = Shape(lay.cols)
<1>1. lay \in Slices(lay.view) /\ lay.view \in {"normal", "half", "full"}
  BY DEF LayoutInv
<1>2. CASE RunShows
  <2>1. PICK n \in ViewersOf(lay) :
          \/ \E t \in Minted :
               LET s == SetActiveTab(MintTab(lay, n, t), n, t)
               IN  Arm(s) \/ Arm(WithFocus(s, n)) \/ Arm(FullView(WithFocus(s, n)))
          \/ \E t \in Seeds : Arm(SetActiveTab(lay, n, t))
    BY <1>2 DEF RunShows
  <2>2. n \in PaneNames(lay.cols)
    BY FocusedOrViewers
  <2>3. ASSUME NEW t \in Minted,
               LET s == SetActiveTab(MintTab(lay, n, t), n, t)
               IN  Arm(s) \/ Arm(WithFocus(s, n)) \/ Arm(FullView(WithFocus(s, n)))
        PROVE  Shape(lay'.cols) = Shape(lay.cols)
    <3> DEFINE m == MintTab(lay, n, t)
               s == SetActiveTab(m, n, t)
    <3>1. /\ m \in Slices(lay.view) /\ n \in PaneNames(m.cols)
          /\ Shape(m.cols) = Shape(lay.cols)
      <4>1. t \in Ids
        BY DEF Ids, Transient
      <4> QED BY <1>1, <2>2, <4>1, MintTabSlice, MintedComes
    <3>2. Arm(s) \/ Arm(WithFocus(s, n)) \/ Arm(FullView(WithFocus(s, n)))
      BY <2>3
    <3> HIDE DEF m
    <3>3. s \in Slices(lay.view) /\ Shape(s.cols) = Shape(lay.cols)
      BY <3>1, SetActiveTabSlice, ShownKeepsShape
    <3> HIDE DEF s
    <3>4. DOMAIN s = SliceFields
      BY <3>3, SliceDomain
    <3>5. WithFocus(s, n).cols = s.cols /\ DOMAIN WithFocus(s, n) = SliceFields
      BY <3>4, FocusKeepsStacks
    <3>6. FullView(WithFocus(s, n)).cols = s.cols
      BY <3>5 DEF FullView, SliceFields
    <3> QED BY <3>2, <3>3, <3>5, <3>6 DEF Arm
  <2>4. ASSUME NEW t, Arm(SetActiveTab(lay, n, t)) PROVE Shape(lay'.cols) = Shape(lay.cols)
    BY <1>1, <2>2, <2>4, ShownKeepsShape DEF Arm
  <2> QED BY <2>1, <2>3, <2>4
<1>3. CASE TabExits
  <2>1. PICK n \in PaneNames(lay.cols), t \in Minted, l \in {lay, DropFull(lay)} :
          Arm(l) \/ Arm(RemoveTab(l, n, t))
    BY <1>3 DEF TabExits, Panes
  <2>2. PICK w \in {"normal", "half", "full"} : l \in Slices(w) /\ l.cols = lay.cols
    BY <1>1, DroppedSlice
  <2>3. Shape(RemoveTab(l, n, t).cols) = Shape(l.cols)
    BY <2>2, MintedGoes
  <2> QED BY <2>1, <2>2, <2>3 DEF Arm
<1>4. CASE TerminalExit
  BY <1>1, <1>4, DroppedSlice DEF TerminalExit, Arm
<1>5. QED
  BY <1>2, <1>3, <1>4

-----------------------------------------------------------------------------
(* The property. *)

LEMMA ArmUndoable ==
  ASSUME NEW m, Arm(m), Shape(m.cols) = Shape(lay.cols) \/ Takes(lay, m) \/ Returns(lay, m) \/ m = lay, Edited
  PROVE  \/ lay'.undo # <<>> /\ Last(lay'.undo) = lay.cols
         \/ lay'.redo # <<>> /\ Last(lay'.redo) = lay.cols
BY DEF Arm, Takes, Returns, Edited

LEMMA EditsUndoable ==
  ASSUME LayoutInv, Next, freeConfig, freeConfig', Edited
  PROVE  \/ lay'.undo # <<>> /\ Last(lay'.undo) = lay.cols
         \/ lay'.redo # <<>> /\ Last(lay'.redo) = lay.cols
         \/ HideRefused
<1> DEFINE Held == \/ lay'.undo # <<>> /\ Last(lay'.undo) = lay.cols
                   \/ lay'.redo # <<>> /\ Last(lay'.redo) = lay.cols
<1>1. lay \in Slices(lay.view) /\ DOMAIN lay = SliceFields
  BY SliceDomain DEF LayoutInv
<1>2. ASSUME NEW m, Arm(m), Shape(m.cols) = Shape(lay.cols) \/ Takes(lay, m) \/ Returns(lay, m) \/ m = lay
      PROVE  Held
  BY <1>2, ArmUndoable
<1> HIDE DEF Held
<1>3. CASE RunShows \/ TabExits \/ TerminalExit
  BY <1>3, RunsKeepShape DEF Edited
<1>4. CASE HidePane
  BY <1>1, <1>2, <1>4, PoolHideTakes DEF HidePane, Held
<1>5. CASE ShowPane
  <2>1. PICK i \in ConfigIds : Arm(PoolShow(lay, i, Len(lay.cols), AtEnd, FALSE))
    BY <1>5 DEF ShowPane
  <2>2. QED
    BY <1>1, <1>2, <2>1, PoolShowTakes DEF Held
<1>6. CASE ReshapePane
  BY <1>1, <1>2, <1>6, CommitTakes DEF ReshapePane, Reshape, Held
<1>7. CASE FcNav
  <2>1. PICK f : Arm([lay EXCEPT !.focus = f])
    BY <1>7 DEF FcNav
  <2>2. [lay EXCEPT !.focus = f].cols = lay.cols
    BY <1>1 DEF SliceFields
  <2>3. QED
    BY <1>2, <2>1, <2>2 DEF Held
<1>8. CASE FcMove
  <2>1. PICK cols : Arm(Clamp(Commit(lay, cols, FALSE)))
    BY <1>8 DEF FcMove
  <2> DEFINE k == Commit(lay, cols, FALSE)
  <2>2. Takes(lay, k) /\ DOMAIN k = SliceFields
    BY <1>1, CommitTakes
  <2> HIDE DEF k
  <2>3. Takes(lay, Clamp(k))
    BY <2>2, ClampKeepsStacks DEF Takes
  <2>4. QED
    BY <1>2, <2>1, <2>3 DEF Held, k
<1>9. CASE FcUndo
  BY <1>1, <1>2, <1>9, UndoReturns DEF FcUndo, Held
<1>10. CASE DragPress
  <2>1. PICK f : lay' = [lay EXCEPT !.focus = f] \/ lay' = lay
    BY <1>10 DEF DragPress
  <2>2. lay'.cols = lay.cols
    BY <1>1, <2>1 DEF SliceFields
  <2>3. QED
    BY <2>2 DEF Edited
<1>11. CASE DragMotion
  BY <1>11 DEF DragMotion, Edited
<1>12. CASE DragRelease
  <2>1. /\ drag # NoDrag /\ drag \in GridDrags \union PoolDrags
        /\ lay' = IF drag.from = "grid" THEN MouseRelease(lay, drag) ELSE PoolDragRelease(lay, drag)
    BY <1>12 DEF DragRelease, LayoutInv
  <2>2. ASSUME lay' = lay \/ Takes(lay, lay') PROVE Held
    BY <2>2 DEF Held, Takes, Edited
  <2>3. CASE drag \in GridDrags
    <3>1. drag.from = "grid"
      BY <2>3 DEF GridDrags
    <3>2. QED
      BY <1>1, <2>1, <2>2, <3>1, MouseReleaseTakes DEF Held
  <2>4. CASE drag \in PoolDrags
    <3>1. drag.from # "grid"
      BY <2>4 DEF PoolDrags
    <3>2. CASE drag.target.to = "replace" => PoolHide(lay, drag.target.occupant) # lay
      BY <1>1, <2>1, <2>2, <2>4, <3>1, <3>2, PoolDragReleaseTakes DEF Held
    <3>3. CASE ~(drag.target.to = "replace" => PoolHide(lay, drag.target.occupant) # lay)
      BY <2>1, <3>3 DEF HideRefused
    <3>4. QED
      BY <3>2, <3>3
  <2>5. QED
    BY <2>1, <2>3, <2>4
<1>13. CASE FocusSet \/ ActivateTab \/ OpenTab \/ SwapPane \/ ColumnCommand \/ RestoreCommand
            \/ SaveCommand \/ ViewKey \/ FcEnter
  BY <1>13 DEF FocusSet, ActivateTab, OpenTab, SwapPane, ColumnCommand, RestoreCommand,
               SaveCommand, ViewKey, FcEnter
<1>14. CASE FcExit
  BY <1>14 DEF FcExit
<1>15. QED
  BY <1>3, <1>4, <1>5, <1>6, <1>7, <1>8, <1>9, <1>10, <1>11, <1>12, <1>13, <1>14 DEF Next, Held

\* In the editor a change of the layout can be taken back: the grid it changed
\* is on top of the undo stack, or of the redo stack after an undo, whatever the
\* change was made of.
THEOREM GesturesAlwaysUndoable == Spec => GestureUndoable
<1>1. LayoutInv /\ [Next]_vars =>
        [freeConfig /\ freeConfig' /\ Edited =>
            \/ lay'.undo # <<>> /\ Last(lay'.undo) = lay.cols
            \/ lay'.redo # <<>> /\ Last(lay'.redo) = lay.cols
            \/ HideRefused]_vars
  BY EditsUndoable DEF vars
<1>2. QED
  BY <1>1, LayoutInvariance, PTL DEF Spec, GestureUndoable
=============================================================================
