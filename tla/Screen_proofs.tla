---------------------------- MODULE Screen_proofs ----------------------------
(* Proofs about three of the components that follow the screen: the sources    *)
(* that run beside the program, the table of processes with its signals, and   *)
(* the group navigator with its jumplist.                                      *)
EXTENDS Subscriptions, ProcessTable, GroupSwitch, FiniteSetTheorems, SequenceTheorems, WellFoundedInduction, TLAPS

-----------------------------------------------------------------------------
(* The table of processes.                                                     *)

TableSpec == TableInit /\ [][TableNext]_tableVars

(* A pid that is not the one pointed at only ever comes of a frame that is not *)
(* the model's, and a menu of signals is never opened on init.                 *)
AimedInv ==
  /\ menu.aim # 0 => menu.pid = menu.aim
  /\ menu.kind = "signals" => menu.pid # 1
  /\ SignalIsAimed

LEMMA SignalMenuSound ==
  ASSUME NEW pid, NEW aim, aim # 0 => pid = aim
  PROVE  LET m == SignalMenu(pid, aim)
         IN  (m.aim # 0 => m.pid = m.aim) /\ (m.kind = "signals" => m.pid # 1)
<1>1. IsSignalable(pid) => pid # 1
  BY DEF IsSignalable
<1>2. QED
  BY <1>1 DEF SignalMenu, NoMenu

(* A frame that is the model's shows the rows of the model, and has the row    *)
(* the model highlights.                                                       *)
LEMMA FreshFrame ==
  ASSUME IsFresh, drawn.rows # <<>>
  PROVE  drawn.rows = ItemsOf(table, procs) /\ drawn.sel = Within(table.cursor, ItemsOf(table, procs))
BY DEF IsFresh, Render

LEMMA HighlightIsAimed ==
  ASSUME AimedHighlight # 0
  PROVE  Highlighted(table, procs) = AimedHighlight
BY FreshFrame DEF AimedHighlight, Highlighted

LEMMA RowIsAimed ==
  ASSUME NEW y, AimedRow(y) # 0
  PROVE  Pointed(y) = AimedRow(y)
<1>1. IsFresh /\ RowIndexAt(y) + 1 \in DOMAIN drawn.rows /\ AimedRow(y) = drawn.rows[RowIndexAt(y) + 1]
  BY DEF AimedRow
<1>2. drawn.rows # <<>>
  BY <1>1
<1>3. QED
  BY <1>1, <1>2, FreshFrame DEF Pointed

(* A signal goes to the process that was highlighted, or under the pointer,    *)
(* when its menu was asked for, in whatever order frames, samples, folds,      *)
(* sorts, filters and gestures come; and never to init (table.js:222).         *)
THEOREM SignalsAlwaysAimed == TableSpec => []SignalIsAimed
<1>1. TableInit => AimedInv
  BY DEF TableInit, AimedInv, SignalIsAimed, NoMenu
<1>2. AimedInv /\ [TableNext]_tableVars => AimedInv'
  <2> SUFFICES ASSUME AimedInv, [TableNext]_tableVars PROVE AimedInv'
    OBVIOUS
  <2>1. CASE UNCHANGED <<menu, sent>>
    BY <2>1 DEF AimedInv, SignalIsAimed
  <2>2. CASE KeyKill
    BY <2>2, SignalMenuSound, HighlightIsAimed DEF KeyKill, Asks, Gesture, AimedInv, SignalIsAimed
  <2>3. ASSUME NEW y \in 0..DataRows, RightClick(y) PROVE AimedInv'
    BY <2>3, RowIsAimed DEF RightClick, Asks, Gesture, AimedInv, SignalIsAimed
  <2>4. CASE PickKill
    BY <2>4, SignalMenuSound DEF PickKill, AimedInv, SignalIsAimed
  <2>5. CASE PickSignal
    BY <2>5 DEF PickSignal, NoMenu, AimedInv, SignalIsAimed
  <2>6. CASE CloseMenu
    BY <2>6 DEF CloseMenu, NoMenu, AimedInv, SignalIsAimed
  <2>7. CASE UNCHANGED tableVars
    BY <2>7, <2>1 DEF tableVars
  <2>8. CASE MetricsSynced \/ TableFrame \/ KeyMoves \/ Jumps \/ ToggleMode \/ KeyFold
             \/ PressMarker \/ SortChip \/ FilterOpens \/ FilterTyped \/ FilterDone
    BY <2>8, <2>1 DEF MetricsSynced, TableFrame, KeyMoves, Jumps, ToggleMode, KeyFold, PressMarker,
       SortChip, FilterOpens, FilterTyped, FilterDone, Listening, Gesture
  <2>9. ASSUME NEW y \in 0..DataRows, PressRow(y) PROVE AimedInv'
    BY <2>9, <2>1 DEF PressRow, Listening, Gesture
  <2>10. QED
    BY <2>2, <2>3, <2>4, <2>5, <2>6, <2>7, <2>8, <2>9 DEF TableNext
<1>3. AimedInv => SignalIsAimed
  BY DEF AimedInv
<1>4. QED
  BY <1>1, <1>2, <1>3, PTL DEF TableSpec
-----------------------------------------------------------------------------
(* The sources that run beside the program.                                    *)

SubsSpec == SubsInit /\ [][SubsNext]_subsVars

(* What the gate remembers differs from the screen in nothing a source depends *)
(* on but the focus, and what is live follows from what it remembers.          *)
GateAgrees(s, se, l) ==
  /\ s \in Screen /\ l \subseteq Keys
  /\ se = <<>> => l = {}
  /\ se # <<>> =>
       /\ se \in Screen
       /\ se.placed = s.placed /\ se.view = s.view /\ se.slot = s.slot
       /\ se.streaming = s.streaming /\ se.refresh = s.refresh
       /\ se.overlay = "none" <=> s.overlay = "none"
       /\ l = DesiredSubs(se)

(* The mirrors, the topic they follow and the window that is wanted of it,     *)
(* while the source is live or not: a live one has the one mirror.             *)
MirrorsServe(ms, t, want, on) ==
  /\ t \in Topic
  /\ ~on => ms = <<>> /\ t.window = 0
  /\ on => LET m == ms[1]
           IN  /\ ms = <<m>> /\ m \in Mirror /\ m.window = want /\ t.window = want
               /\ t.published > m.since /\ t.mirrored < t.published => m.timer

(* All streams but the last one of a live source were told to stop, and wait   *)
(* for their process to be gone; that one runs or waits for its timer.         *)
CurrentStreams == {[proc |-> "up", timer |-> FALSE, stopped |-> FALSE],
                   [proc |-> "none", timer |-> TRUE, stopped |-> FALSE]}
KilledStreams == {[proc |-> "killed", timer |-> FALSE, stopped |-> TRUE]}

StreamsServe(toks, on) ==
  /\ toks \in Seq(Stream)
  /\ on => toks # <<>>
  /\ \A i \in 1..Len(toks) :
       toks[i] \in IF on /\ i = Len(toks) THEN CurrentStreams ELSE KilledStreams

SubsInv ==
  /\ GateAgrees(screen, seen, live)
  /\ MirrorsServe(mirrors, topic, Wanted(screen), <<"mirror">> \in live)
  /\ mirrors \in Seq(Mirror)
  /\ StreamsServe(streams, <<"docker-events">> \in live)

(* What is said of a set of numbers by its least element, and so by induction. *)
LEMMA LeastNumber ==
  ASSUME NEW T, T \subseteq Nat, T # {}
  PROVE  \E n \in T : \A m \in T : n <= m
<1>1. IsWellFoundedOn(OpToRel(<, Nat), Nat)
  BY NatLessThanWellFounded
<1>2. PICK n \in T : \A m \in T : ~ (<<m, n>> \in OpToRel(<, Nat))
  BY <1>1, WFMin, Zenon
<1>3. ASSUME NEW m \in T PROVE n <= m
  <2>1. m \in Nat /\ n \in Nat
    OBVIOUS
  <2>2. m < n => <<m, n>> \in OpToRel(<, Nat)
    BY <2>1 DEF OpToRel
  <2>3. ~ (m < n)
    BY <1>2, <2>2, Zenon
  <2>4. QED
    BY <2>1, <2>3
<1>4. QED
  BY <1>3

LEMMA SetInduction ==
  ASSUME NEW T, T \subseteq Nat, 0 \in T, \A n \in T : n + 1 \in T
  PROVE  T = Nat
<1>1. SUFFICES ASSUME Nat \ T # {} PROVE FALSE
  OBVIOUS
<1>2. PICK n \in Nat \ T : \A m \in Nat \ T : n <= m
  BY <1>1, LeastNumber
<1>3. n # 0 /\ n - 1 \in Nat
  BY <1>2
<1>4. n - 1 \in T
  BY <1>2, <1>3
<1>5. n \in T
  BY <1>4, <1>3
<1>6. QED
  BY <1>5

(* The widest window is one of those that are asked for, or 0.                 *)
LEMMA WidestIsOne ==
  ASSUME NEW placed
  PROVE  LET asked == {Window[p] : p \in Monitors \cap placed} \cup {0}
         IN  Max(asked) \in asked /\ \A w \in asked : Max(asked) >= w
<1> DEFINE Asked(T) == {Window[p] : p \in T} \cup {0}
           HasMax(T) == \E x \in Asked(T) : \A w \in Asked(T) : x >= w
           Sizes == {n \in Nat : \A T \in SUBSET Monitors : Cardinality(T) = n => HasMax(T)}
<1>1. \A T \in SUBSET Monitors : IsFiniteSet(T) /\ Cardinality(T) \in Nat
  BY SubsAssumption, FS_Subset, FS_CardinalityType
<1>2. 0 \in Sizes
  BY <1>1, FS_EmptySet
<1>3. ASSUME NEW n \in Sizes PROVE n + 1 \in Sizes
  <2>1. ASSUME NEW T \in SUBSET Monitors, Cardinality(T) = n + 1 PROVE HasMax(T)
    <3>1. PICK p : p \in T
      BY <2>1, <1>3, FS_EmptySet
    <3>2. Cardinality(T \ {p}) = n
      <4>1. n \in Nat /\ IsFiniteSet(T)
        BY <1>1
      <4>2. Cardinality(T \ {p}) = Cardinality(T) - 1
        BY <3>1, <4>1, FS_RemoveElement
      <4>3. QED
        BY <2>1, <4>1, <4>2
    <3>3. HasMax(T \ {p})
      BY <3>2
    <3>4. PICK x \in Asked(T \ {p}) : \A w \in Asked(T \ {p}) : x >= w
      BY <3>3
    <3>5. \A q \in T : Window[q] \in Nat
      BY SubsAssumption
    <3>6. Asked(T) = Asked(T \ {p}) \cup {Window[p]}
      BY <3>1
    <3>7. CASE Window[p] >= x
      BY <3>1, <3>4, <3>5, <3>6, <3>7
    <3>8. CASE ~(Window[p] >= x)
      BY <3>1, <3>4, <3>5, <3>6, <3>8
    <3>9. QED
      BY <3>7, <3>8
  <2>2. QED
    BY <2>1, <1>3
<1>4. Sizes = Nat
  <2> HIDE DEF Sizes
  <2>1. Sizes \subseteq Nat
    BY DEF Sizes
  <2>2. QED
    BY <1>2, <1>3, <2>1, SetInduction
<1>5. HasMax(Monitors \cap placed)
  <2>1. Monitors \cap placed \in SUBSET Monitors
    OBVIOUS
  <2>2. QED
    BY <1>1, <1>4, <2>1
<1>6. QED
  BY <1>5 DEF Max

LEMMA MaxOfWindows ==
  /\ \A n \in Nat : Max({n} \cup {0}) = n
  /\ Max({} \cup {0}) = 0
  /\ \A n, k \in Nat : Max({n, k} \cup {0}) \in Nat
<1>1. ASSUME NEW n \in Nat PROVE Max({n} \cup {0}) = n
  <2>1. n \in {n} \cup {0} /\ \A y \in {n} \cup {0} : n >= y
    OBVIOUS
  <2>2. \A x \in {n} \cup {0} : (\A y \in {n} \cup {0} : x >= y) => x = n
    OBVIOUS
  <2>3. QED
    BY <2>1, <2>2 DEF Max
<1>2. ASSUME NEW n \in Nat, NEW k \in Nat PROVE Max({n, k} \cup {0}) \in Nat
  <2>1. \E x \in {n, k} \cup {0} : \A y \in {n, k} \cup {0} : x >= y
    <3>1. CASE n >= k
      BY <3>1
    <3>2. CASE ~(n >= k)
      BY <3>2
    <3>3. QED
      BY <3>1, <3>2
  <2>2. QED
    BY <2>1 DEF Max
<1>3. Max({} \cup {0}) = 0
  <2>1. {} \cup {0} = {0} \cup {0}
    OBVIOUS
  <2>2. QED
    BY <1>1, <2>1
<1>4. QED
  BY <1>1, <1>2, <1>3

LEMMA MinOfTwo ==
  ASSUME NEW a \in Nat, NEW b \in Nat
  PROVE  Min({a, b}) = IF a <= b THEN a ELSE b
<1>1. CASE a <= b
  BY <1>1 DEF Min
<1>2. CASE ~(a <= b)
  BY <1>2 DEF Min
<1>3. QED
  BY <1>1, <1>2

LEMMA WantedType ==
  ASSUME NEW s
  PROVE  Wanted(s) \in Nat
<1>1. \A p \in Monitors : Window[p] \in Nat
  BY SubsAssumption
<1>2. Wanted(s) \in {Window[p] : p \in Monitors \cap s.placed} \cup {0}
  BY WidestIsOne DEF Wanted
<1>3. QED
  BY <1>1, <1>2

(* Sequences of at most two.                                                   *)
LEMMA ShortSequences ==
  /\ \A m : Tail(<<m>>) = <<>> /\ Append(<<>>, m) = <<m>>
  /\ \A m, k : Tail(<<m, k>>) = <<k>> /\ Append(<<m>>, k) = <<m, k>>
  /\ Range(<<>>) = {}
  /\ \A m : Range(<<m>>) = {m}
  /\ \A m, k : Range(<<m, k>>) = {m, k}
<1>1. ASSUME NEW m PROVE Tail(<<m>>) = <<>> /\ Append(<<>>, m) = <<m>>
  <2>1. <<m>> \in Seq({m}) /\ <<m>> # <<>> /\ Len(<<m>>) = 1
    OBVIOUS
  <2>2. Tail(<<m>>) \in Seq({m}) /\ Len(Tail(<<m>>)) = 0
    BY <2>1, HeadTailProperties
  <2>3. Tail(<<m>>) = <<>>
    BY <2>2, EmptySeq
  <2>4. QED
    BY <2>3
<1>2. ASSUME NEW m, NEW k PROVE Tail(<<m, k>>) = <<k>> /\ Append(<<m>>, k) = <<m, k>>
  <2>1. /\ <<m, k>> \in Seq({m, k}) /\ <<m, k>> # <<>> /\ Len(<<m, k>>) = 2
        /\ <<k>> \in Seq({m, k}) /\ Len(<<k>>) = 1 /\ <<m, k>>[2] = k
    OBVIOUS
  <2>2. Tail(<<m, k>>) \in Seq({m, k}) /\ Len(Tail(<<m, k>>)) = 1 /\ Tail(<<m, k>>)[1] = k
    BY <2>1, HeadTailProperties
  <2>3. \A i \in 1..1 : Tail(<<m, k>>)[i] = <<k>>[i]
    BY <2>2
  <2>4. Tail(<<m, k>>) = <<k>>
    BY <2>1, <2>2, <2>3, SeqEqual
  <2>5. <<m>> \in Seq({m, k}) /\ Len(<<m>>) = 1 /\ <<m>>[1] = m
    OBVIOUS
  <2>6. /\ Append(<<m>>, k) \in Seq({m, k}) /\ Len(Append(<<m>>, k)) = 2
        /\ Append(<<m>>, k)[1] = m /\ Append(<<m>>, k)[2] = k
    BY <2>5, AppendProperties
  <2>7. \A i \in 1..2 : Append(<<m>>, k)[i] = <<m, k>>[i]
    BY <2>6
  <2>8. Append(<<m>>, k) = <<m, k>>
    BY <2>1, <2>6, <2>7, SeqEqual
  <2>9. QED
    BY <2>4, <2>8
<1>3. QED
  BY <1>1, <1>2 DEF Range

(* A trimmed topic retains no more than its window.                            *)
LEMMA TrimmedTopic ==
  ASSUME NEW t \in Topic, NEW w \in Nat
  PROVE  LET u == Trimmed([t EXCEPT !.window = w])
         IN  /\ u \in Topic /\ u.window = w /\ u.published = t.published
             /\ u.mirrored = t.mirrored /\ u.retained = Min({t.retained, w})
<1>1. t.retained \in Nat /\ Min({t.retained, w}) \in Nat
  BY MinOfTwo DEF Topic
<1>2. Trimmed([t EXCEPT !.window = w]) = [t EXCEPT !.window = w, !.retained = Min({t.retained, w})]
  BY DEF Trimmed, Topic
<1>3. QED
  BY <1>1, <1>2 DEF Topic

LEMMA WindowOfNone ==
  ASSUME NEW t \in Topic
  PROVE  RecomputeWindow(t, <<>>) = [t EXCEPT !.window = 0]
<1>1. {m.window : m \in Range(<<>>)} = {}
  BY ShortSequences
<1>2. QED
  BY <1>1, MaxOfWindows DEF RecomputeWindow

LEMMA WindowOfOne ==
  ASSUME NEW t \in Topic, NEW m \in Mirror
  PROVE  RecomputeWindow(t, <<m>>) = [t EXCEPT !.window = m.window]
<1>1. {x.window : x \in Range(<<m>>)} = {m.window} /\ m.window \in Nat
  BY ShortSequences DEF Mirror
<1>2. QED
  BY <1>1, MaxOfWindows DEF RecomputeWindow

LEMMA WindowOfTwo ==
  ASSUME NEW t \in Topic, NEW m \in Mirror, NEW k \in Mirror
  PROVE  \E w \in Nat : RecomputeWindow(t, <<m, k>>) = [t EXCEPT !.window = w]
<1>1. {x.window : x \in Range(<<m, k>>)} = {m.window, k.window} /\ m.window \in Nat /\ k.window \in Nat
  BY ShortSequences DEF Mirror
<1>2. QED
  BY <1>1, MaxOfWindows DEF RecomputeWindow

(* What starting, stopping and restarting a mirror make of the mirrors.        *)
States == [screen : Screen, seen : Screen \cup {<<>>}, live : SUBSET Keys, mirrors : Seq(Mirror),
           streams : Seq(Stream), topic : Topic]

SameSources(st, u) ==
  u \in States /\ u.screen = st.screen /\ u.seen = st.seen /\ u.live = st.live /\ u.streams = st.streams

LEMMA MirrorStarts ==
  ASSUME NEW st \in States, NEW want, MirrorsServe(st.mirrors, st.topic, want, FALSE)
  PROVE  LET u == StartMirror(st)
         IN  /\ SameSources(st, u) /\ MirrorsServe(u.mirrors, u.topic, Wanted(st.screen), TRUE)
             /\ u.topic.retained = st.topic.retained
<1> DEFINE m == [window |-> Wanted(st.screen), timer |-> FALSE, since |-> st.topic.published]
           t == [st.topic EXCEPT !.window = Wanted(st.screen)]
           u == StartMirror(st)
<1>1. m \in Mirror /\ st.mirrors = <<>> /\ st.topic \in Topic /\ t \in Topic
  BY WantedType DEF MirrorsServe, Mirror, Topic
<1>2. Append(st.mirrors, m) = <<m>> /\ RecomputeWindow(st.topic, <<m>>) = t
  <2>1. RecomputeWindow(st.topic, <<m>>) = [st.topic EXCEPT !.window = m.window]
    BY <1>1, WindowOfOne
  <2>2. QED
    BY <1>1, <2>1, ShortSequences
<1>3. <<m>> \in Seq(Mirror)
  BY <1>1
<1>4. u.mirrors = <<m>> /\ u.topic = t /\ SameSources(st, u)
  BY <1>1, <1>2, <1>3 DEF StartMirror, States, SameSources
<1>5. MirrorsServe(<<m>>, t, Wanted(st.screen), TRUE) /\ t.retained = st.topic.retained
  BY <1>1, WantedType DEF MirrorsServe, Topic
<1>6. QED
  BY <1>4, <1>5

LEMMA MirrorStops ==
  ASSUME NEW st \in States, NEW want, MirrorsServe(st.mirrors, st.topic, want, TRUE), NEW other
  PROVE  LET u == StopMirror(st)
         IN  SameSources(st, u) /\ MirrorsServe(u.mirrors, u.topic, other, FALSE)
<1> DEFINE t == Trimmed([st.topic EXCEPT !.window = 0])
           u == StopMirror(st)
<1>1. st.mirrors = <<st.mirrors[1]>> /\ st.topic \in Topic
  BY DEF MirrorsServe
<1>2. Tail(st.mirrors) = <<>> /\ RecomputeWindow(st.topic, <<>>) = [st.topic EXCEPT !.window = 0]
  BY <1>1, ShortSequences, WindowOfNone
<1>3. t \in Topic /\ t.window = 0
  BY <1>1, TrimmedTopic
<1>4. u.mirrors = <<>> /\ u.topic = t /\ SameSources(st, u)
  BY <1>1, <1>2, <1>3, EmptySeq DEF StopMirror, States, SameSources
<1>5. QED
  BY <1>3, <1>4 DEF MirrorsServe

LEMMA MirrorRestarts ==
  ASSUME NEW st \in States, NEW want, MirrorsServe(st.mirrors, st.topic, want, TRUE)
  PROVE  LET u == Restarted(st)
         IN  /\ SameSources(st, u) /\ MirrorsServe(u.mirrors, u.topic, Wanted(st.screen), TRUE)
             /\ u.topic.retained = Min({st.topic.retained, Wanted(st.screen)})
<1> DEFINE m == st.mirrors[1]
           k == [window |-> Wanted(st.screen), timer |-> FALSE, since |-> st.topic.published]
           t == Trimmed([st.topic EXCEPT !.window = Wanted(st.screen)])
           v == StartMirror(st)
           u == StopMirror(v)
<1>1. m \in Mirror /\ st.mirrors = <<m>> /\ st.topic \in Topic /\ k \in Mirror /\ k.window = Wanted(st.screen)
  BY WantedType DEF MirrorsServe, Mirror, Topic
<1>2. PICK w \in Nat : RecomputeWindow(st.topic, <<m, k>>) = [st.topic EXCEPT !.window = w]
  BY <1>1, WindowOfTwo
<1>3. Append(st.mirrors, k) = <<m, k>> /\ Tail(<<m, k>>) = <<k>>
  <2>1. Append(<<m>>, k) = <<m, k>> /\ Tail(<<m, k>>) = <<k>>
    BY ShortSequences
  <2> HIDE DEF m, k
  <2>2. QED
    BY <1>1, <2>1
<1>4. [st.topic EXCEPT !.window = w] \in Topic /\ <<m, k>> \in Seq(Mirror) /\ <<k>> \in Seq(Mirror)
  BY <1>1 DEF Topic
<1>5. SameSources(st, v) /\ v.mirrors = <<m, k>> /\ v.topic = [st.topic EXCEPT !.window = w]
  BY <1>1, <1>2, <1>3, <1>4 DEF StartMirror, States, SameSources
<1>6. RecomputeWindow(v.topic, <<k>>) = [st.topic EXCEPT !.window = Wanted(st.screen)]
  <2>1. RecomputeWindow(v.topic, <<k>>) = [v.topic EXCEPT !.window = k.window]
    BY <1>1, <1>4, <1>5, WindowOfOne
  <2>2. [[st.topic EXCEPT !.window = w] EXCEPT !.window = k.window] = [st.topic EXCEPT !.window = Wanted(st.screen)]
    BY <1>1 DEF Topic
  <2>3. QED
    BY <2>1, <2>2, <1>5
<1>7. t \in Topic /\ t.window = Wanted(st.screen) /\ t.published = st.topic.published
      /\ t.retained = Min({st.topic.retained, Wanted(st.screen)})
  BY <1>1, TrimmedTopic, WantedType
<1> HIDE DEF t, k, m
<1>8. SameSources(v, u) /\ u.mirrors = <<k>> /\ u.topic = t
  <2>1. v \in States /\ Tail(v.mirrors) = <<k>>
    BY <1>3, <1>5 DEF SameSources
  <2>2. Trimmed(RecomputeWindow(v.topic, Tail(v.mirrors))) = t
    BY <1>6, <2>1 DEF t
  <2> HIDE DEF v
  <2>3. QED
    BY <1>4, <1>7, <2>1, <2>2 DEF StopMirror, States, SameSources
<1>9. MirrorsServe(<<k>>, t, Wanted(st.screen), TRUE)
  <2>1. k.since = st.topic.published /\ t.published \in Nat
    BY <1>7 DEF Topic, k
  <2>2. ~(t.published > k.since)
    BY <1>7, <2>1
  <2>3. <<k>>[1] = k
    OBVIOUS
  <2>4. QED
    BY <1>1, <1>7, <2>2, <2>3 DEF MirrorsServe
<1>10. SameSources(st, u)
  BY <1>5, <1>8 DEF SameSources
<1>11. QED
  BY <1>7, <1>8, <1>9, <1>10 DEF Restarted

(* What becomes of the streams.                                                *)
LEMMA RemoveAtProperties ==
  ASSUME NEW S, NEW s \in Seq(S), NEW i \in 1..Len(s)
  PROVE  /\ RemoveAt(s, i) \in Seq(S) /\ Len(RemoveAt(s, i)) = Len(s) - 1
         /\ \A j \in 1..(Len(s) - 1) : RemoveAt(s, i)[j] = s[IF j < i THEN j ELSE j + 1]
<1> DEFINE before == SubSeq(s, 1, i - 1)
           after == SubSeq(s, i + 1, Len(s))
<1>1. Len(s) \in Nat /\ i \in Int /\ 1 <= i /\ i <= Len(s)
  BY LenProperties
<1>2. before \in Seq(S) /\ Len(before) = i - 1 /\ \A j \in 1..(i - 1) : before[j] = s[j]
  <2>1. \A j \in 1..(i - 1) : s[j] \in S
    BY <1>1, ElementOfSeq
  <2>2. QED
    BY <1>1, <2>1, SubSeqProperties
<1>3. /\ after \in Seq(S) /\ Len(after) = Len(s) - i
      /\ \A j \in 1..(Len(s) - i) : after[j] = s[i + j]
  <2>1. \A j \in (i + 1)..Len(s) : s[j] \in S
    BY <1>1, ElementOfSeq
  <2>2. QED
    BY <1>1, <2>1, SubSeqProperties
<1> HIDE DEF before, after
<1>4. /\ before \o after \in Seq(S) /\ Len(before \o after) = Len(s) - 1
      /\ \A j \in 1..(Len(s) - 1) : (before \o after)[j] = IF j <= i - 1 THEN before[j] ELSE after[j - (i - 1)]
  <2>1. /\ before \o after \in Seq(S) /\ Len(before \o after) = (i - 1) + (Len(s) - i)
        /\ \A j \in 1..((i - 1) + (Len(s) - i)) :
             (before \o after)[j] = IF j <= i - 1 THEN before[j] ELSE after[j - (i - 1)]
    <3>1. /\ before \o after \in Seq(S) /\ Len(before \o after) = Len(before) + Len(after)
          /\ \A j \in 1..(Len(before) + Len(after)) :
               (before \o after)[j] = IF j <= Len(before) THEN before[j] ELSE after[j - Len(before)]
      BY <1>2, <1>3, ConcatProperties, Zenon
    <3>2. QED
      BY <1>2, <1>3, <3>1
  <2>2. (i - 1) + (Len(s) - i) = Len(s) - 1
    BY <1>1
  <2>3. QED
    BY <2>1, <2>2
<1>5. ASSUME NEW j \in 1..(Len(s) - 1) PROVE (before \o after)[j] = s[IF j < i THEN j ELSE j + 1]
  <2>1. CASE j < i
    BY <1>1, <1>2, <1>4, <2>1
  <2>2. CASE ~(j < i)
    <3>1. j - (i - 1) \in 1..(Len(s) - i)
      BY <1>1, <2>2
    <3>2. after[j - (i - 1)] = s[i + (j - (i - 1))]
      BY <1>3, <3>1
    <3>3. i + (j - (i - 1)) = j + 1
      BY <1>1
    <3>4. QED
      BY <1>1, <1>4, <2>2, <3>2, <3>3
  <2>3. QED
    BY <2>1, <2>2
<1>6. QED
  BY <1>4, <1>5 DEF RemoveAt, before, after

\* A killed stream whose process is gone leaves the others as they are.
LEMMA KilledGoes ==
  ASSUME NEW toks, NEW on, StreamsServe(toks, on), NEW i \in 1..Len(toks), on => i # Len(toks)
  PROVE  StreamsServe(RemoveAt(toks, i), on)
<1>1. Len(toks) \in Nat
  BY LenProperties DEF StreamsServe
<1>2. /\ RemoveAt(toks, i) \in Seq(Stream) /\ Len(RemoveAt(toks, i)) = Len(toks) - 1
      /\ \A j \in 1..(Len(toks) - 1) : RemoveAt(toks, i)[j] = toks[IF j < i THEN j ELSE j + 1]
  BY RemoveAtProperties DEF StreamsServe
<1>3. on => RemoveAt(toks, i) # <<>>
  BY <1>1, <1>2, EmptySeq
<1>4. ASSUME NEW j \in 1..(Len(toks) - 1)
      PROVE RemoveAt(toks, i)[j] \in IF on /\ j = Len(toks) - 1 THEN CurrentStreams ELSE KilledStreams
  BY <1>1, <1>2 DEF StreamsServe
<1>5. QED
  BY <1>2, <1>3, <1>4 DEF StreamsServe

\* The one stream of a live source changes, or another one that was killed.
LEMMA StreamChanges ==
  ASSUME NEW toks, NEW on, StreamsServe(toks, on), NEW i \in 1..Len(toks),
         NEW tok \in IF on /\ i = Len(toks) THEN CurrentStreams ELSE KilledStreams
  PROVE  StreamsServe([toks EXCEPT ![i] = tok], on)
<1>1. tok \in Stream
  <2>1. CurrentStreams \subseteq Stream /\ KilledStreams \subseteq Stream
    BY DEF CurrentStreams, KilledStreams, Stream
  <2>2. QED
    BY <2>1
<1>2. /\ [toks EXCEPT ![i] = tok] \in Seq(Stream) /\ Len([toks EXCEPT ![i] = tok]) = Len(toks)
      /\ \A j \in 1..Len(toks) : [toks EXCEPT ![i] = tok][j] = IF j = i THEN tok ELSE toks[j]
  BY <1>1, ExceptSeq DEF StreamsServe
<1>3. [toks EXCEPT ![i] = tok] # <<>>
  BY <1>2, EmptySeq
<1>4. \A j \in 1..Len(toks) :
        [toks EXCEPT ![i] = tok][j] \in IF on /\ j = Len(toks) THEN CurrentStreams ELSE KilledStreams
  <2>1. ASSUME NEW j \in 1..Len(toks), j # i
        PROVE [toks EXCEPT ![i] = tok][j] \in IF on /\ j = Len(toks) THEN CurrentStreams ELSE KilledStreams
    <3>1. [toks EXCEPT ![i] = tok][j] = toks[j]
      BY <1>2, <2>1
    <3>2. toks[j] \in IF on /\ j = Len(toks) THEN CurrentStreams ELSE KilledStreams
      BY DEF StreamsServe
    <3>3. QED
      BY <3>1, <3>2
  <2>2. [toks EXCEPT ![i] = tok][i] \in IF on /\ i = Len(toks) THEN CurrentStreams ELSE KilledStreams
    BY <1>2
  <2>3. QED
    BY <2>1, <2>2
<1> HIDE DEF StreamsServe
<1>5. QED
  BY <1>2, <1>3, <1>4, Zenon DEF StreamsServe

LEMMA StreamStarts ==
  ASSUME NEW toks, StreamsServe(toks, FALSE), NEW throws \in BOOLEAN
  PROVE  StreamsServe(Append(toks, Launched(NoStream, throws)), TRUE)
<1>1. Launched(NoStream, throws) \in CurrentStreams /\ Launched(NoStream, throws) \in Stream
  BY DEF Launched, NoStream, CurrentStreams, Stream
<1>2. toks \in Seq(Stream) /\ Len(toks) \in Nat
  BY LenProperties DEF StreamsServe
<1>3. QED
  BY <1>1, <1>2, AppendProperties DEF StreamsServe

LEMMA StreamStops ==
  ASSUME NEW toks, StreamsServe(toks, TRUE)
  PROVE  StreamsServe(StopLast(toks), FALSE)
<1> DEFINE n == Len(toks)
           tok == StopStream(toks[n])
           told == [toks EXCEPT ![n] = tok]
<1>1. toks \in Seq(Stream) /\ n \in Nat /\ n > 0
  BY EmptySeq, LenProperties DEF StreamsServe
<1>2. toks[n] \in CurrentStreams
  BY <1>1 DEF StreamsServe
<1>3. tok \in Stream /\ tok.stopped /\ ~tok.timer /\ (tok.proc = "none" \/ tok \in KilledStreams)
  <2>1. toks[n] \in Stream /\ toks[n].proc \in {"up", "none"}
    BY <1>1, <1>2 DEF CurrentStreams, Stream
  <2>2. /\ tok \in Stream /\ tok.stopped = TRUE /\ tok.timer = FALSE
        /\ tok.proc = IF toks[n].proc = "up" THEN "killed" ELSE toks[n].proc
    BY <2>1 DEF StopStream, Stream
  <2> HIDE DEF tok
  <2>3. tok = [proc |-> tok.proc, timer |-> FALSE, stopped |-> TRUE]
    BY <2>2 DEF Stream
  <2>4. QED
    BY <2>1, <2>2, <2>3 DEF KilledStreams
<1> HIDE DEF tok
<1>4. /\ told \in Seq(Stream) /\ Len(told) = n
      /\ \A j \in 1..n : told[j] = IF j = n THEN tok ELSE toks[j]
  BY <1>1, <1>3, ExceptSeq
<1> HIDE DEF told
<1>5. CASE tok.proc = "none"
  <2>1. Swept(told, n) = RemoveAt(told, n)
    BY <1>1, <1>3, <1>4, <1>5 DEF Swept
  <2>2. /\ RemoveAt(told, n) \in Seq(Stream) /\ Len(RemoveAt(told, n)) = n - 1
        /\ \A j \in 1..(n - 1) : RemoveAt(told, n)[j] = told[IF j < n THEN j ELSE j + 1]
    <3>1. n \in 1..Len(told)
      BY <1>1, <1>4
    <3>2. QED
      BY <1>4, <3>1, RemoveAtProperties
  <2>3. \A j \in 1..(n - 1) : RemoveAt(told, n)[j] \in KilledStreams
    <3>1. \A j \in 1..(n - 1) : RemoveAt(told, n)[j] = toks[j]
      BY <1>1, <1>4, <2>2
    <3>2. \A j \in 1..(n - 1) : toks[j] \in KilledStreams
      BY <1>1 DEF StreamsServe
    <3>3. QED
      BY <3>1, <3>2
  <2>4. StreamsServe(RemoveAt(told, n), FALSE)
    BY <2>2, <2>3 DEF StreamsServe
  <2>5. QED
    BY <1>4, <2>1, <2>4 DEF StopLast, told, tok
<1>6. CASE tok.proc # "none"
  <2>1. Swept(told, n) = told
    BY <1>1, <1>4, <1>6 DEF Swept
  <2>2. StreamsServe(told, FALSE)
    <3>1. \A j \in 1..n : told[j] \in KilledStreams
      BY <1>1, <1>3, <1>4, <1>6 DEF StreamsServe
    <3>2. QED
      BY <1>4, <3>1 DEF StreamsServe
  <2>3. QED
    BY <1>4, <2>1, <2>2 DEF StopLast, told, tok
<1>7. QED
  BY <1>5, <1>6

(* What a reconcile makes of them.                                             *)
Serves(st, want) ==
  /\ st \in States
  /\ MirrorsServe(st.mirrors, st.topic, want, <<"mirror">> \in st.live)
  /\ StreamsServe(st.streams, <<"docker-events">> \in st.live)

LEMMA UndesiredStops ==
  ASSUME NEW st, NEW want, Serves(st, want)
  PROVE  LET u == StopUndesired(st)
         IN  /\ Serves(u, want) /\ u.screen = st.screen /\ u.seen = st.seen
             /\ u.live = st.live \cap DesiredSubs(st.screen)
             /\ <<"mirror">> \in u.live => u.topic = st.topic
<1> DEFINE gone == st.live \ DesiredSubs(st.screen)
           v == IF <<"mirror">> \in gone THEN StopMirror(st) ELSE st
           u == StopUndesired(st)
<1>1. SameSources(st, v) /\ MirrorsServe(v.mirrors, v.topic, want, <<"mirror">> \in st.live \ gone)
      /\ (<<"mirror">> \notin gone => v.topic = st.topic)
  <2>1. CASE <<"mirror">> \in gone
    <3>1. MirrorsServe(st.mirrors, st.topic, want, TRUE)
      BY <2>1 DEF Serves, MirrorsServe
    <3>2. SameSources(st, StopMirror(st))
          /\ MirrorsServe(StopMirror(st).mirrors, StopMirror(st).topic, want, FALSE)
      BY <3>1, MirrorStops DEF Serves
    <3>3. v = StopMirror(st) /\ <<"mirror">> \notin st.live \ gone
      BY <2>1
    <3> HIDE DEF v, gone
    <3>4. QED
      BY <2>1, <3>2, <3>3 DEF MirrorsServe
  <2>2. CASE <<"mirror">> \notin gone
    BY <2>2 DEF Serves, SameSources
  <2>3. QED
    BY <2>1, <2>2
<1>2. LET toks == IF <<"docker-events">> \in gone THEN StopLast(st.streams) ELSE st.streams
      IN  StreamsServe(toks, <<"docker-events">> \in st.live \ gone)
  <2>1. CASE <<"docker-events">> \in gone
    <3>1. StreamsServe(st.streams, TRUE)
      BY <2>1 DEF Serves, StreamsServe
    <3>2. StreamsServe(StopLast(st.streams), FALSE)
      BY <3>1, StreamStops
    <3>3. <<"docker-events">> \notin st.live \ gone
      BY <2>1
    <3> HIDE DEF gone
    <3>4. QED
      BY <2>1, <3>2, <3>3 DEF StreamsServe
  <2>2. CASE <<"docker-events">> \notin gone
    BY <2>2 DEF Serves
  <2>3. QED
    BY <2>1, <2>2
<1> DEFINE toks == IF <<"docker-events">> \in gone THEN StopLast(st.streams) ELSE st.streams
<1>3. u = [v EXCEPT !.live = @ \ gone,
                    !.streams = IF <<"docker-events">> \in gone THEN StopLast(@) ELSE @]
  BY DEF StopUndesired
<1>4. v.live = st.live /\ v.streams = st.streams /\ v \in States /\ v.screen = st.screen /\ v.seen = st.seen
  BY <1>1 DEF SameSources
<1>5. toks \in Seq(Stream)
  BY <1>2 DEF StreamsServe
<1> HIDE DEF v, toks
<1>6. /\ u \in States /\ u.live = st.live \ gone /\ u.streams = toks /\ u.mirrors = v.mirrors
      /\ u.topic = v.topic /\ u.screen = v.screen /\ u.seen = v.seen
  BY <1>3, <1>4, <1>5 DEF States, toks
<1>7. Serves(u, want)
  BY <1>1, <1>2, <1>6 DEF Serves, toks
<1>8. QED
  BY <1>1, <1>4, <1>6, <1>7

LEMMA DesiredStarts ==
  ASSUME NEW st, NEW want, Serves(st, want), st.live \subseteq DesiredSubs(st.screen),
         DesiredSubs(st.screen) \subseteq Keys, NEW throws \in BOOLEAN
  PROVE  LET u == StartDesired(st, throws)
         IN  /\ Serves(u, Wanted(st.screen)) /\ u.screen = st.screen /\ u.seen = st.seen
             /\ u.live = DesiredSubs(st.screen)
             /\ u.topic.retained \in {st.topic.retained, Min({st.topic.retained, Wanted(st.screen)})}
<1> DEFINE new == DesiredSubs(st.screen) \ st.live
           v == IF <<"mirror">> \in new THEN StartMirror(st)
                ELSE IF <<"mirror">> \in st.live /\ Last(st.mirrors).window # Wanted(st.screen)
                     THEN Restarted(st) ELSE st
           toks == IF <<"docker-events">> \in new THEN Append(st.streams, Launched(NoStream, throws)) ELSE st.streams
           u == StartDesired(st, throws)
<1>1. /\ SameSources(st, v)
      /\ MirrorsServe(v.mirrors, v.topic, Wanted(st.screen), <<"mirror">> \in DesiredSubs(st.screen))
      /\ v.topic.retained \in {st.topic.retained, Min({st.topic.retained, Wanted(st.screen)})}
  <2>1. CASE <<"mirror">> \in new
    <3>1. MirrorsServe(st.mirrors, st.topic, want, FALSE) /\ <<"mirror">> \in DesiredSubs(st.screen)
      BY <2>1 DEF Serves, MirrorsServe
    <3>2. /\ SameSources(st, StartMirror(st))
          /\ MirrorsServe(StartMirror(st).mirrors, StartMirror(st).topic, Wanted(st.screen), TRUE)
          /\ StartMirror(st).topic.retained = st.topic.retained
      BY <3>1, MirrorStarts DEF Serves
    <3>3. v = StartMirror(st)
      BY <2>1
    <3> HIDE DEF v
    <3>4. QED
      BY <3>1, <3>2, <3>3 DEF MirrorsServe
  <2>2. CASE <<"mirror">> \in st.live /\ Last(st.mirrors).window # Wanted(st.screen)
    <3>1. MirrorsServe(st.mirrors, st.topic, want, TRUE) /\ <<"mirror">> \in DesiredSubs(st.screen)
      BY <2>2 DEF Serves, MirrorsServe
    <3>2. /\ SameSources(st, Restarted(st))
          /\ MirrorsServe(Restarted(st).mirrors, Restarted(st).topic, Wanted(st.screen), TRUE)
          /\ Restarted(st).topic.retained = Min({st.topic.retained, Wanted(st.screen)})
      BY <3>1, MirrorRestarts DEF Serves
    <3>3. v = Restarted(st)
      BY <2>2
    <3> HIDE DEF v
    <3>4. QED
      BY <3>1, <3>2, <3>3 DEF MirrorsServe
  <2>3. CASE <<"mirror">> \in st.live /\ Last(st.mirrors).window = Wanted(st.screen)
    <3>1. Len(st.mirrors) = 1
      BY <2>3 DEF Serves, MirrorsServe
    <3>2. Last(st.mirrors) = st.mirrors[1]
      BY <3>1 DEF Last
    <3>3. MirrorsServe(st.mirrors, st.topic, Wanted(st.screen), TRUE)
      BY <2>3, <3>2 DEF Serves, MirrorsServe
    <3>4. v = st
      BY <2>3
    <3>5. <<"mirror">> \in DesiredSubs(st.screen)
      BY <2>3
    <3> HIDE DEF v
    <3>6. QED
      BY <3>3, <3>4, <3>5 DEF Serves, SameSources, MirrorsServe
  <2>4. CASE <<"mirror">> \notin DesiredSubs(st.screen)
    <3>1. v = st
      BY <2>4
    <3>2. MirrorsServe(st.mirrors, st.topic, Wanted(st.screen), FALSE)
      BY <2>4 DEF Serves, MirrorsServe
    <3> HIDE DEF v
    <3>3. QED
      BY <2>4, <3>1, <3>2 DEF Serves, SameSources, MirrorsServe
  <2>5. QED
    BY <2>1, <2>2, <2>3, <2>4
<1>2. StreamsServe(toks, <<"docker-events">> \in DesiredSubs(st.screen))
  <2>1. CASE <<"docker-events">> \in new
    <3>1. StreamsServe(st.streams, FALSE) /\ <<"docker-events">> \in DesiredSubs(st.screen)
      BY <2>1 DEF Serves, StreamsServe
    <3>2. StreamsServe(Append(st.streams, Launched(NoStream, throws)), TRUE)
      BY <3>1, StreamStarts
    <3>3. toks = Append(st.streams, Launched(NoStream, throws))
      BY <2>1
    <3> HIDE DEF toks
    <3>4. QED
      BY <3>1, <3>2, <3>3 DEF StreamsServe
  <2>2. CASE <<"docker-events">> \notin new
    BY <2>2 DEF Serves
  <2>3. QED
    BY <2>1, <2>2
<1>3. u = [v EXCEPT !.live = @ \cup new,
                    !.streams = IF <<"docker-events">> \in new
                                THEN Append(@, Launched(NoStream, throws)) ELSE @]
  BY DEF StartDesired
<1>4. v.live = st.live /\ v.streams = st.streams /\ v \in States /\ v.screen = st.screen /\ v.seen = st.seen
  BY <1>1 DEF SameSources
<1>5. toks \in Seq(Stream) /\ st.live \cup new = DesiredSubs(st.screen)
  BY <1>2 DEF StreamsServe
<1> HIDE DEF v
<1>6. /\ u \in States /\ u.live = st.live \cup new /\ u.streams = toks /\ u.mirrors = v.mirrors
      /\ u.topic = v.topic /\ u.screen = v.screen /\ u.seen = v.seen
  BY <1>3, <1>4, <1>5 DEF States
<1> HIDE DEF toks, new
<1>7. Serves(u, Wanted(st.screen))
  BY <1>1, <1>2, <1>5, <1>6 DEF Serves
<1>8. QED
  BY <1>1, <1>4, <1>5, <1>6, <1>7

(* Which sources are wanted.                                                   *)
LEMMA DesiredKeys ==
  ASSUME NEW s \in Screen
  PROVE  /\ DesiredSubs(s) \subseteq Keys
         /\ <<"mirror">> \in DesiredSubs(s) <=> Wanted(s) > 0
<1>1. s.refresh \in Refreshes /\ Wanted(s) \in Nat
  BY WantedType DEF Screen
<1>2. DesiredSubs(s) \subseteq Keys
  BY <1>1 DEF DesiredSubs, Keys
<1>3. <<"mirror">> \in DesiredSubs(s) <=> Wanted(s) > 0
  BY <1>1 DEF DesiredSubs
<1>4. QED
  BY <1>2, <1>3

LEMMA ScreenIsSome == <<>> \notin Screen
<1>1. SUFFICES ASSUME <<>> \in Screen PROVE FALSE
  OBVIOUS
<1>2. DOMAIN <<>> = {} /\ "placed" \in DOMAIN <<>>
  BY <1>1 DEF Screen
<1>3. QED
  BY <1>2

LEMMA WantedOfPlaced ==
  ASSUME NEW s, NEW r, s.placed = r.placed
  PROVE  Wanted(s) = Wanted(r)
BY DEF Wanted

(* What a source depends on, but for the focus.                                *)
LEMMA DesiredOfGate ==
  ASSUME NEW s, NEW se, NEW l, GateAgrees(s, se, l), se # <<>>
  PROVE  DesiredSubs(se) = DesiredSubs([s EXCEPT !.focus = se.focus]) /\ Wanted(se) = Wanted(s)
<1> DEFINE r == [s EXCEPT !.focus = se.focus]
<1>1. s \in Screen /\ se \in Screen
  BY DEF GateAgrees
<1>2. /\ r.placed = se.placed /\ r.view = se.view /\ r.slot = se.slot /\ r.focus = se.focus
      /\ r.streaming = se.streaming /\ r.refresh = se.refresh /\ (r.overlay = "none" <=> se.overlay = "none")
  BY <1>1 DEF GateAgrees, Screen
<1> HIDE DEF r
<1>3. TerminalOnScreen(r) = TerminalOnScreen(se)
  BY <1>2 DEF TerminalOnScreen
<1>4. Wanted(r) = Wanted(se) /\ Wanted(se) = Wanted(s)
  BY <1>2, WantedOfPlaced DEF GateAgrees
<1>5. DesiredSubs(r) = DesiredSubs(se)
  BY <1>2, <1>3, <1>4 DEF DesiredSubs
<1>6. QED
  BY <1>4, <1>5 DEF r

(* After a reconcile the sources are those the screen wants; a topic somebody  *)
(* still wants keeps what is wanted of it.                                     *)
Kept(t, t1, want) == t1.retained \in {t.retained, Min({t.retained, want})}

LEMMA ReconcileServes ==
  ASSUME SubsInv, NEW s \in Screen, NEW throws \in BOOLEAN
  PROVE  LET u == Reconcile(Now(s), throws)
         IN  /\ u.screen = s /\ GateAgrees(s, u.seen, u.live) /\ u.seen = s
             /\ Serves(u, Wanted(s))
             /\ Wanted(screen) > 0 /\ Wanted(s) > 0 => Kept(topic, u.topic, Wanted(s))
<1> DEFINE u == Reconcile(Now(s), throws)
<1>1. /\ Now(s) \in States /\ Serves(Now(s), Wanted(screen))
      /\ Now(s).screen = s /\ Now(s).seen = seen /\ Now(s).live = live /\ Now(s).topic = topic
      /\ Now(s).mirrors = mirrors /\ Now(s).streams = streams
  BY DEF SubsInv, Now, States, Serves, GateAgrees, MirrorsServe, StreamsServe
<1>2. CASE Unchanged(Now(s))
  <2>1. u = Now(s) /\ seen # <<>> /\ seen = s
    BY <1>1, <1>2 DEF Reconcile, Unchanged, Gate
  <2>2. live = DesiredSubs(s) /\ Wanted(s) = Wanted(screen) /\ live \subseteq Keys
    BY <2>1, WantedOfPlaced DEF SubsInv, GateAgrees
  <2>3. GateAgrees(s, s, live)
    BY <2>1, <2>2 DEF GateAgrees
  <2>4. u.screen = s /\ u.seen = s /\ u.live = live /\ u.topic = topic /\ Serves(u, Wanted(s))
    BY <1>1, <2>1, <2>2
  <2>5. Kept(topic, u.topic, Wanted(s))
    BY <2>4 DEF Kept
  <2>6. QED
    BY <2>3, <2>4, <2>5, Zenon
<1>3. CASE ~Unchanged(Now(s))
  <2> DEFINE st == [Now(s) EXCEPT !.seen = s]
             v == StopUndesired(st)
  <2>1. /\ Serves(st, Wanted(screen)) /\ st.screen = s /\ st.seen = s /\ st.live = live /\ st.topic = topic
    BY <1>1 DEF Serves, States
  <2>2. u = StartDesired(v, throws)
    BY <1>1, <1>3 DEF Reconcile
  <2> HIDE DEF st
  <2>3. /\ Serves(v, Wanted(screen)) /\ v.screen = s /\ v.seen = s /\ v.live = live \cap DesiredSubs(s)
        /\ <<"mirror">> \in v.live => v.topic = topic
    BY <2>1, UndesiredStops
  <2> HIDE DEF v
  <2>4. v.live \subseteq DesiredSubs(v.screen) /\ DesiredSubs(v.screen) \subseteq Keys
    BY <2>3, DesiredKeys
  <2>5. /\ Serves(u, Wanted(s)) /\ u.screen = s /\ u.seen = s /\ u.live = DesiredSubs(s)
        /\ u.topic.retained \in {v.topic.retained, Min({v.topic.retained, Wanted(s)})}
    <3>1. LET x == StartDesired(v, throws)
          IN  /\ Serves(x, Wanted(v.screen)) /\ x.screen = v.screen /\ x.seen = v.seen
              /\ x.live = DesiredSubs(v.screen)
              /\ x.topic.retained \in {v.topic.retained, Min({v.topic.retained, Wanted(v.screen)})}
      BY <2>3, <2>4, DesiredStarts
    <3> HIDE DEF u
    <3>2. QED
      BY <2>2, <2>3, <3>1
  <2>6. ASSUME Wanted(screen) > 0, Wanted(s) > 0 PROVE v.topic = topic
    <3>1. CASE <<"mirror">> \in live
      BY <2>3, <2>6, <3>1, DesiredKeys
    <3>2. CASE <<"mirror">> \notin live
      <4>1. seen = <<>>
        <5>1. SUFFICES ASSUME seen # <<>> PROVE FALSE
          OBVIOUS
        <5>2. live = DesiredSubs(seen) /\ seen \in Screen /\ Wanted(seen) = Wanted(screen)
          BY <5>1, WantedOfPlaced DEF SubsInv, GateAgrees
        <5>3. QED
          BY <2>6, <3>2, <5>2, DesiredKeys
      <4>2. live = {}
        BY <4>1 DEF SubsInv, GateAgrees
      <4>3. StopUndesired(st).topic = st.topic
        <5>1. st \in States /\ st.live \ DesiredSubs(st.screen) = {}
          BY <2>1, <4>2 DEF Serves
        <5>2. QED
          BY <5>1 DEF StopUndesired, States
      <4>4. QED
        BY <2>1, <4>3 DEF v
    <3>3. QED
      BY <3>1, <3>2
  <2>7. GateAgrees(s, s, u.live)
    BY <2>5, DesiredKeys, ScreenIsSome DEF GateAgrees
  <2>8. Wanted(screen) > 0 /\ Wanted(s) > 0 => Kept(topic, u.topic, Wanted(s))
    BY <2>5, <2>6, Zenon DEF Kept
  <2>9. GateAgrees(s, u.seen, u.live)
    BY <2>5, <2>7, Zenon
  <2>10. QED
    BY <2>5, <2>8, <2>9, Zenon
<1>4. QED
  BY <1>2, <1>3

(* What a gesture does to the screen.                                          *)
LEMMA DispatchServes ==
  ASSUME SubsInv, NEW s \in Screen, Dispatched(s)
  PROVE  /\ SubsInv' /\ Wanted(screen') = Wanted(s)
         /\ Wanted(screen) > 0 /\ Wanted(screen') > 0 => Kept(topic, topic', Wanted(screen'))
<1>1. PICK throws \in BOOLEAN : Becomes(Reconcile(Now(s), throws))
  BY DEF Dispatched
<1> DEFINE u == Reconcile(Now(s), throws)
<1>2. /\ u.screen = s /\ GateAgrees(s, u.seen, u.live) /\ u.seen = s
      /\ Serves(u, Wanted(s))
      /\ Wanted(screen) > 0 /\ Wanted(s) > 0 => Kept(topic, u.topic, Wanted(s))
  BY ReconcileServes
<1>3. /\ screen' = u.screen /\ seen' = u.seen /\ live' = u.live /\ mirrors' = u.mirrors
      /\ streams' = u.streams /\ topic' = u.topic
  BY <1>1 DEF Becomes
<1> HIDE DEF u
<1>4. /\ MirrorsServe(mirrors', topic', Wanted(s), <<"mirror">> \in live')
      /\ StreamsServe(streams', <<"docker-events">> \in live') /\ mirrors' \in Seq(Mirror)
  BY <1>2, <1>3 DEF Serves, States
<1>5. screen' = s /\ GateAgrees(screen', seen', live')
  BY <1>2, <1>3
<1>6. QED
  BY <1>2, <1>3, <1>4, <1>5 DEF SubsInv

(* A change of the screen that the root dispatch does not reconcile is one of  *)
(* the focus, or of one overlay for another.                                   *)
SameButFocus(s, r) ==
  /\ s.placed = r.placed /\ s.view = r.view /\ s.slot = r.slot
  /\ s.streaming = r.streaming /\ s.refresh = r.refresh
  /\ s.overlay = "none" <=> r.overlay = "none"

LEMMA ApplyServes ==
  ASSUME SubsInv, NEW s \in Screen, Applied(s), ~FinalizesRoot(s) => SameButFocus(s, screen)
  PROVE  /\ SubsInv'
         /\ Wanted(screen) > 0 /\ Wanted(screen') > 0 => Kept(topic, topic', Wanted(screen'))
<1>1. CASE FinalizesRoot(s)
  BY <1>1, DispatchServes DEF Applied
<1>2. CASE ~FinalizesRoot(s)
  <2>1. /\ screen' = s /\ seen' = seen /\ live' = live /\ mirrors' = mirrors
        /\ streams' = streams /\ topic' = topic
    BY <1>2 DEF Applied, Becomes, Now
  <2>2. Wanted(s) = Wanted(screen)
    BY <1>2, WantedOfPlaced DEF SameButFocus
  <2>3. GateAgrees(s, seen, live)
    BY <1>2 DEF SubsInv, GateAgrees, SameButFocus
  <2>4. QED
    BY <2>1, <2>2, <2>3 DEF SubsInv, Kept
<1>3. QED
  BY <1>1, <1>2

LEMMA SubsInit_Serves == SubsInit => SubsInv
<1> SUFFICES ASSUME SubsInit PROVE SubsInv
  OBVIOUS
<1>1. Min(Refreshes) \in Refreshes
  <2>1. \E x \in Refreshes : \A y \in Refreshes : x <= y
    BY LeastNumber, SubsAssumption
  <2>2. QED
    BY <2>1 DEF Min
<1>2. screen \in Screen
  <2>1. PICK ps \in {{}, {"terminal"}} :
          screen = [placed |-> {"groups"} \cup ps, view |-> "normal", focus |-> "groups", slot |-> "none",
                    overlay |-> "none", streaming |-> FALSE, refresh |-> Min(Refreshes)]
    BY DEF SubsInit
  <2>2. {"groups"} \cup ps \in SUBSET Panes
    BY DEF Panes
  <2>3. QED
    BY <1>1, <2>1, <2>2 DEF Screen, CanFocus
<1>3. topic \in Topic /\ topic.window = 0 /\ mirrors = <<>> /\ streams = <<>> /\ live = {} /\ seen = <<>>
  BY DEF SubsInit, Topic
<1>4. MirrorsServe(mirrors, topic, Wanted(screen), <<"mirror">> \in live)
  BY <1>3 DEF MirrorsServe
<1>5. StreamsServe(streams, <<"docker-events">> \in live)
  BY <1>3, EmptySeq DEF StreamsServe
<1>6. QED
  BY <1>2, <1>3, <1>4, <1>5, EmptySeq DEF SubsInv, GateAgrees

(* The gestures.                                                               *)
SampleKept ==
  Wanted(screen) > 0 /\ Wanted(screen') > 0 /\ ~quit' =>
    topic'.retained >= Min({topic.retained, Wanted(screen')})

LEMMA KeptIsEnough ==
  ASSUME SubsInv, Wanted(screen) > 0 /\ Wanted(screen') > 0 => Kept(topic, topic', Wanted(screen'))
  PROVE  SampleKept
<1>1. topic.retained \in Nat /\ Wanted(screen') \in Nat
  BY WantedType DEF SubsInv, MirrorsServe, Topic
<1>2. QED
  BY <1>1, MinOfTwo DEF Kept, SampleKept

LEMMA GesturesServe ==
  ASSUME SubsInv,
         \/ ShowPane \/ HidePane \/ SetFocus \/ SetView \/ ViewPlacePane \/ FocusCommand
         \/ ToggleOverlay \/ JobsSynced \/ StepRefresh
  PROVE  SubsInv' /\ SampleKept
<1>1. screen \in Screen
  BY DEF SubsInv, GateAgrees
<1>2. CASE ShowPane
  <2>1. PICK p \in Panes \ screen.placed : Dispatched([screen EXCEPT !.placed = @ \cup {p}])
    BY <1>2 DEF ShowPane
  <2>2. [screen EXCEPT !.placed = @ \cup {p}] \in Screen
    BY <1>1 DEF Screen
  <2>3. QED
    BY <2>1, <2>2, DispatchServes, KeptIsEnough
<1>3. CASE HidePane
  <2>1. PICK p \in screen.placed \ {"groups"} :
          Dispatched([screen EXCEPT !.placed = @ \ {p}, !.focus = IF @ = p THEN "groups" ELSE @])
    BY <1>3 DEF HidePane
  <2>2. [screen EXCEPT !.placed = @ \ {p}, !.focus = IF @ = p THEN "groups" ELSE @] \in Screen
    BY <1>1 DEF Screen, CanFocus
  <2>3. QED
    BY <2>1, <2>2, DispatchServes, KeptIsEnough
<1>4. CASE SetFocus
  <2>1. PICK p \in CanFocus \cap screen.placed : Dispatched([screen EXCEPT !.focus = p])
    BY <1>4 DEF SetFocus
  <2>2. [screen EXCEPT !.focus = p] \in Screen
    BY <1>1 DEF Screen
  <2>3. QED
    BY <2>1, <2>2, DispatchServes, KeptIsEnough
<1>5. CASE SetView
  <2>1. PICK v \in {"normal", "half", "full"} : Dispatched([screen EXCEPT !.view = v])
    BY <1>5 DEF SetView
  <2>2. [screen EXCEPT !.view = v] \in Screen
    BY <1>1 DEF Screen
  <2>3. QED
    BY <2>1, <2>2, DispatchServes, KeptIsEnough
<1>6. CASE ViewPlacePane
  <2>1. PICK p \in CanFocus \cap screen.placed : Dispatched([screen EXCEPT !.slot = p, !.focus = p])
    BY <1>6 DEF ViewPlacePane
  <2>2. [screen EXCEPT !.slot = p, !.focus = p] \in Screen
    BY <1>1 DEF Screen
  <2>3. QED
    BY <2>1, <2>2, DispatchServes, KeptIsEnough
<1>7. CASE FocusCommand
  <2>1. PICK p \in CanFocus \cap screen.placed : Applied([screen EXCEPT !.focus = p])
    BY <1>7 DEF FocusCommand
  <2>2. [screen EXCEPT !.focus = p] \in Screen /\ SameButFocus([screen EXCEPT !.focus = p], screen)
    BY <1>1 DEF Screen, SameButFocus
  <2>3. QED
    BY <2>1, <2>2, ApplyServes, KeptIsEnough
<1>8. CASE ToggleOverlay
  <2>1. PICK o \in {"none"} \cup Overlays : Applied([screen EXCEPT !.overlay = o])
    BY <1>8 DEF ToggleOverlay
  <2>2. [screen EXCEPT !.overlay = o] \in Screen
    BY <1>1 DEF Screen
  <2>3. ~FinalizesRoot([screen EXCEPT !.overlay = o]) => SameButFocus([screen EXCEPT !.overlay = o], screen)
    BY <1>1 DEF FinalizesRoot, SameButFocus, Screen
  <2>4. QED
    BY <2>1, <2>2, <2>3, ApplyServes, KeptIsEnough
<1>9. CASE JobsSynced
  <2>1. Applied([screen EXCEPT !.streaming = ~@])
    BY <1>9 DEF JobsSynced
  <2>2. [screen EXCEPT !.streaming = ~@] \in Screen
    BY <1>1 DEF Screen
  <2>3. FinalizesRoot([screen EXCEPT !.streaming = ~@])
    BY <1>1 DEF FinalizesRoot, Screen
  <2>4. QED
    BY <2>1, <2>2, <2>3, ApplyServes, KeptIsEnough
<1>10. CASE StepRefresh
  <2>1. PICK r \in Refreshes : Dispatched([screen EXCEPT !.refresh = r])
    BY <1>10 DEF StepRefresh
  <2>2. [screen EXCEPT !.refresh = r] \in Screen
    BY <1>1 DEF Screen
  <2>3. QED
    BY <2>1, <2>2, DispatchServes, KeptIsEnough
<1>11. QED
  BY <1>2, <1>3, <1>4, <1>5, <1>6, <1>7, <1>8, <1>9, <1>10

(* Teardown, and the events.                                                   *)
LEMMA TeardownServes ==
  ASSUME SubsInv, Teardown
  PROVE  SubsInv' /\ SampleKept
<1> DEFINE st == Now(screen)
           u == IF <<"mirror">> \in live THEN StopMirror(st) ELSE st
<1>1. /\ st \in States /\ st.screen = screen /\ st.seen = seen /\ st.live = live /\ st.topic = topic
      /\ st.mirrors = mirrors /\ st.streams = streams
  BY DEF SubsInv, Now, States, GateAgrees, MirrorsServe, StreamsServe
<1>2. screen' = screen /\ seen' = <<>> /\ live' = {} /\ mirrors' = u.mirrors /\ topic' = u.topic
      /\ streams' = IF <<"docker-events">> \in live THEN StopLast(streams) ELSE streams
  BY DEF Teardown
<1>3. MirrorsServe(u.mirrors, u.topic, Wanted(screen), FALSE) /\ u.mirrors \in Seq(Mirror)
  <2>1. CASE <<"mirror">> \in live
    <3>1. MirrorsServe(st.mirrors, st.topic, Wanted(screen), TRUE)
      BY <1>1, <2>1 DEF SubsInv, MirrorsServe
    <3>2. SameSources(st, StopMirror(st))
          /\ MirrorsServe(StopMirror(st).mirrors, StopMirror(st).topic, Wanted(screen), FALSE)
      BY <1>1, <3>1, MirrorStops
    <3>3. u = StopMirror(st)
      BY <2>1
    <3> HIDE DEF u, st
    <3>4. QED
      BY <3>2, <3>3 DEF SameSources, States
  <2>2. CASE <<"mirror">> \notin live
    <3>1. u = st
      BY <2>2
    <3> HIDE DEF u, st
    <3>2. QED
      BY <1>1, <2>2, <3>1 DEF SubsInv, MirrorsServe
  <2>3. QED
    BY <2>1, <2>2
<1>4. StreamsServe(streams', FALSE)
  <2>1. CASE <<"docker-events">> \in live
    <3>1. StreamsServe(streams, TRUE)
      BY <2>1 DEF SubsInv, StreamsServe
    <3>2. QED
      BY <1>2, <2>1, <3>1, StreamStops
  <2>2. CASE <<"docker-events">> \notin live
    BY <1>2, <2>2 DEF SubsInv, StreamsServe
  <2>3. QED
    BY <2>1, <2>2
<1> HIDE DEF u
<1>5. GateAgrees(screen', seen', live')
  BY <1>2 DEF SubsInv, GateAgrees
<1>6. MirrorsServe(mirrors', topic', Wanted(screen'), <<"mirror">> \in live') /\ mirrors' \in Seq(Mirror)
  BY <1>2, <1>3 DEF MirrorsServe
<1>7. StreamsServe(streams', <<"docker-events">> \in live')
  BY <1>2, <1>4 DEF StreamsServe
<1>8. quit'
  BY DEF Teardown
<1>9. QED
  BY <1>5, <1>6, <1>7, <1>8 DEF SubsInv, SampleKept

LEMMA SubscribedMirror ==
  ASSUME SubsInv, mirrors # <<>>
  PROVE  /\ <<"mirror">> \in live /\ mirrors = <<mirrors[1]>> /\ mirrors[1] \in Mirror /\ Len(mirrors) = 1
         /\ mirrors[1].window = Wanted(screen) /\ topic.window = Wanted(screen) /\ topic \in Topic
<1>1. <<"mirror">> \in live
  BY DEF SubsInv, MirrorsServe
<1>2. mirrors = <<mirrors[1]>> /\ mirrors[1] \in Mirror
  BY <1>1 DEF SubsInv, MirrorsServe
<1>3. Len(mirrors) = 1
  BY <1>2
<1>4. QED
  BY <1>1, <1>2, <1>3 DEF SubsInv, MirrorsServe

LEMMA PublishServes ==
  ASSUME SubsInv, Publish
  PROVE  SubsInv' /\ SampleKept
<1>1. mirrors # <<>>
  BY DEF SubsInv, MirrorsServe, Publish
<1> DEFINE m == mirrors[1]
           m1 == [m EXCEPT !.timer = TRUE]
<1>2. /\ <<"mirror">> \in live /\ m \in Mirror /\ Len(mirrors) = 1 /\ DOMAIN mirrors = 1..1
      /\ m.window = Wanted(screen) /\ topic.window = Wanted(screen) /\ topic \in Topic
  BY <1>1, SubscribedMirror, LenProperties DEF SubsInv
<1>3. m1 \in Mirror /\ m1.window = m.window /\ m1.timer /\ m1.since = m.since
  BY <1>2 DEF Mirror
<1>4. mirrors' = <<m1>>
  <2>1. mirrors' = [i \in 1..1 |-> Scheduled(mirrors[i], topic)]
    BY <1>2 DEF Publish
  <2>2. Scheduled(mirrors[1], topic) = m1
    BY DEF Scheduled, m1, m
  <2> HIDE DEF m1
  <2>3. QED
    BY <2>1, <2>2
<1>5. /\ topic' \in Topic /\ topic'.window = topic.window
      /\ topic'.retained = Min({topic.retained + 1, topic.window})
  <2>1. topic.retained \in Nat /\ topic.window \in Nat /\ topic.published \in Nat
    BY <1>2 DEF Topic
  <2>2. Min({topic.retained + 1, topic.window}) \in Nat
    BY <2>1, MinOfTwo
  <2> DEFINE kept == Min({topic.retained + 1, topic.window})
             count == topic.published + 1
  <2>3. topic' = [topic EXCEPT !.published = count, !.retained = kept]
    BY DEF Publish
  <2>4. kept \in Nat /\ count \in Nat
    BY <2>1, <2>2
  <2> HIDE DEF kept, count
  <2>5. topic' \in Topic /\ topic'.window = topic.window /\ topic'.retained = kept
    BY <1>2, <2>1, <2>3, <2>4 DEF Topic
  <2>6. QED
    BY <2>5 DEF kept
<1>6. UNCHANGED <<screen, seen, live, streams>>
  BY DEF Publish
<1> HIDE DEF m1, m
<1>7. MirrorsServe(mirrors', topic', Wanted(screen'), <<"mirror">> \in live')
  <2>1. mirrors'[1] = m1
    BY <1>4
  <2>2. QED
    BY <1>2, <1>3, <1>4, <1>5, <1>6, <2>1 DEF MirrorsServe
<1>8. mirrors' \in Seq(Mirror)
  BY <1>3, <1>4
<1>9. SampleKept
  <2>1. topic.retained \in Nat /\ topic.window \in Nat /\ Wanted(screen') = topic.window
    BY <1>2, <1>6 DEF Topic
  <2>2. QED
    BY <1>5, <2>1, MinOfTwo DEF SampleKept
<1>10. QED
  BY <1>6, <1>7, <1>8, <1>9 DEF SubsInv

LEMMA SampleServes ==
  ASSUME SubsInv, NEW i \in DOMAIN mirrors, Sample(i)
  PROVE  SubsInv' /\ SampleKept
<1>1. mirrors # <<>>
  OBVIOUS
<1> DEFINE m == mirrors[1]
           m1 == [m EXCEPT !.timer = FALSE]
<1>2. /\ <<"mirror">> \in live /\ m \in Mirror /\ Len(mirrors) = 1 /\ DOMAIN mirrors = 1..1
      /\ m.window = Wanted(screen) /\ topic.window = Wanted(screen) /\ topic \in Topic
  BY <1>1, SubscribedMirror, LenProperties DEF SubsInv
<1>3. m1 \in Mirror /\ m1.window = m.window
  BY <1>2 DEF Mirror
<1>4. mirrors' = <<m1>>
  <2>1. i = 1
    BY <1>2
  <2>2. mirrors' = [mirrors EXCEPT ![1] = m1]
    BY <2>1 DEF Sample
  <2> HIDE DEF m1, m
  <2>3. mirrors' \in Seq(Mirror) /\ Len(mirrors') = 1 /\ mirrors'[1] = m1
    BY <1>2, <1>3, <2>2, ExceptSeq DEF SubsInv
  <2>4. mirrors' = [j \in 1..1 |-> m1]
    BY <2>3
  <2>5. QED
    BY <2>4
<1>5. /\ topic' \in Topic /\ topic'.window = topic.window /\ topic'.retained = topic.retained
      /\ topic'.published = topic.published /\ topic'.mirrored = topic.published
  BY <1>2 DEF Sample, Topic
<1>6. UNCHANGED <<screen, seen, live, streams>>
  BY DEF Sample
<1> HIDE DEF m1, m
<1>7. MirrorsServe(mirrors', topic', Wanted(screen'), <<"mirror">> \in live')
  <2>1. mirrors'[1] = m1 /\ topic.published \in Nat
    BY <1>2, <1>4 DEF Topic
  <2>2. QED
    BY <1>2, <1>3, <1>4, <1>5, <1>6, <2>1 DEF MirrorsServe
<1>8. mirrors' \in Seq(Mirror)
  BY <1>3, <1>4
<1>9. SampleKept
  <2>1. topic.retained \in Nat /\ topic.window \in Nat /\ Wanted(screen') = topic.window
    BY <1>2, <1>6 DEF Topic
  <2>2. QED
    BY <1>5, <2>1, MinOfTwo DEF SampleKept
<1>10. QED
  BY <1>6, <1>7, <1>8, <1>9 DEF SubsInv

\* A stream whose timer fires, or whose pipe closes: a current one stays current, and
\* of a killed one nothing is left.
LEMMA StreamFires ==
  ASSUME NEW toks, NEW on, StreamsServe(toks, on), NEW i \in 1..Len(toks), NEW tok \in Stream,
         on /\ i = Len(toks) => tok \in CurrentStreams,
         ~(on /\ i = Len(toks)) => tok.stopped /\ ~tok.timer /\ tok.proc = "none"
  PROVE  StreamsServe(Swept([toks EXCEPT ![i] = tok], i), on)
<1> DEFINE fired == [toks EXCEPT ![i] = tok]
<1>1. toks \in Seq(Stream)
      /\ fired \in Seq(Stream) /\ Len(fired) = Len(toks) /\ fired[i] = tok
      /\ \A j \in 1..Len(toks) : fired[j] = IF j = i THEN tok ELSE toks[j]
  BY ExceptSeq DEF StreamsServe
<1>2. CASE on /\ i = Len(toks)
  <2>1. StreamsServe(fired, on)
    BY <1>2, StreamChanges
  <2>2. ~tok.stopped
    BY <1>2 DEF CurrentStreams
  <2> HIDE DEF fired
  <2>3. Swept(fired, i) = fired
    BY <1>1, <2>2 DEF Swept
  <2>4. QED
    BY <2>1, <2>3 DEF fired
<1>3. CASE ~(on /\ i = Len(toks))
  <2>1. Swept(fired, i) = RemoveAt(fired, i)
    <3> HIDE DEF fired
    <3>1. QED
      BY <1>1, <1>3 DEF Swept
  <2>2. RemoveAt(fired, i) = RemoveAt(toks, i)
    <3> HIDE DEF fired
    <3>1. /\ fired \in Seq(Stream) /\ Len(fired) = Len(toks)
          /\ i \in 1..Len(fired)
      BY <1>1
    <3>2. /\ RemoveAt(fired, i) \in Seq(Stream) /\ Len(RemoveAt(fired, i)) = Len(toks) - 1
          /\ \A j \in 1..(Len(toks) - 1) : RemoveAt(fired, i)[j] = fired[IF j < i THEN j ELSE j + 1]
      BY <3>1, RemoveAtProperties
    <3>3. /\ RemoveAt(toks, i) \in Seq(Stream) /\ Len(RemoveAt(toks, i)) = Len(toks) - 1
          /\ \A j \in 1..(Len(toks) - 1) : RemoveAt(toks, i)[j] = toks[IF j < i THEN j ELSE j + 1]
      BY <1>1, RemoveAtProperties
    <3>4. Len(toks) \in Nat
      BY <1>1, LenProperties
    <3>5. \A j \in 1..(Len(toks) - 1) : RemoveAt(fired, i)[j] = RemoveAt(toks, i)[j]
      BY <1>1, <3>2, <3>3, <3>4
    <3>6. QED
      BY <3>2, <3>3, <3>5, SeqEqual
  <2>3. StreamsServe(RemoveAt(toks, i), on)
    BY <1>3, KilledGoes
  <2>4. QED
    BY <2>1, <2>2, <2>3
<1>4. QED
  BY <1>2, <1>3

LEMMA StreamEventsServe ==
  ASSUME SubsInv, NEW i \in DOMAIN streams, Relaunch(i) \/ CloseStream(i)
  PROVE  SubsInv' /\ SampleKept
<1> DEFINE on == <<"docker-events">> \in live
           tok == streams[i]
<1>1. /\ StreamsServe(streams, on) /\ streams \in Seq(Stream) /\ i \in 1..Len(streams) /\ tok \in Stream
      /\ Len(streams) \in Nat
  BY LenProperties, ElementOfSeq DEF SubsInv, StreamsServe
<1>2. tok \in IF on /\ i = Len(streams) THEN CurrentStreams ELSE KilledStreams
  BY <1>1 DEF StreamsServe
<1>3. UNCHANGED <<screen, seen, live, mirrors, topic, quit>>
  BY DEF Relaunch, CloseStream
<1>4. StreamsServe(streams', on)
  <2>1. CASE Relaunch(i)
    <3> DEFINE awake == [tok EXCEPT !.timer = FALSE]
    <3>1. PICK throws \in BOOLEAN :
            streams' = Swept([streams EXCEPT ![i] = IF awake.stopped THEN awake ELSE Launched(awake, throws)], i)
      BY <2>1 DEF Relaunch
    <3>2. tok.timer
      BY <2>1 DEF Relaunch
    <3>3. on /\ i = Len(streams) /\ tok.proc = "none" /\ tok.stopped = FALSE
      BY <1>2, <3>2 DEF CurrentStreams, KilledStreams
    <3>4. awake = NoStream
      <4>1. awake \in Stream /\ awake.proc = "none" /\ awake.timer = FALSE /\ awake.stopped = FALSE
        BY <1>1, <3>3 DEF Stream
      <4> HIDE DEF awake
      <4>2. QED
        BY <4>1 DEF NoStream, Stream
    <3>5. Launched(NoStream, throws) \in CurrentStreams /\ Launched(NoStream, throws) \in Stream /\ ~NoStream.stopped
      BY DEF Launched, NoStream, CurrentStreams, Stream
    <3> HIDE DEF awake
    <3>6. streams' = Swept([streams EXCEPT ![i] = Launched(NoStream, throws)], i)
      BY <3>1, <3>4, <3>5
    <3>7. QED
      BY <1>1, <3>3, <3>5, <3>6, StreamFires
  <2>2. CASE CloseStream(i)
    <3>1. PICK spawned \in BOOLEAN : streams' = Swept([streams EXCEPT ![i] = PipeClosed(tok, spawned)], i)
      BY <1>1, <2>2 DEF CloseStream
    <3>2. tok.proc # "none"
      BY <2>2 DEF CloseStream
    <3> DEFINE closed == PipeClosed(tok, spawned)
    <3>3. CASE on /\ i = Len(streams)
      <4>1. tok.proc = "up" /\ tok.stopped = FALSE
        BY <1>2, <3>2, <3>3 DEF CurrentStreams
      <4>2. closed \in Stream /\ closed.proc = "none" /\ closed.timer = TRUE /\ closed.stopped = FALSE
        BY <1>1, <4>1 DEF PipeClosed, Stream
      <4> HIDE DEF closed
      <4>3. closed \in CurrentStreams
        BY <4>2 DEF CurrentStreams, Stream
      <4>4. StreamsServe(Swept([streams EXCEPT ![i] = closed], i), on)
        BY <1>1, <3>3, <4>2, <4>3, StreamFires
      <4>5. QED
        BY <3>1, <4>4 DEF closed
    <3>4. CASE ~(on /\ i = Len(streams))
      <4>1. tok.proc = "killed" /\ tok.timer = FALSE /\ tok.stopped = TRUE
        BY <1>2, <3>4 DEF KilledStreams
      <4>2. closed \in Stream /\ closed.stopped = TRUE /\ closed.timer = FALSE /\ closed.proc = "none"
        BY <1>1, <4>1 DEF PipeClosed, Stream
      <4>3. closed \in Stream /\ closed.stopped /\ ~closed.timer /\ closed.proc = "none"
        BY <4>2
      <4> HIDE DEF closed, on, tok
      <4>4. StreamsServe(Swept([streams EXCEPT ![i] = closed], i), on)
        BY <1>1, <3>4, <4>3, StreamFires
      <4>5. QED
        BY <3>1, <4>4 DEF closed
    <3>5. QED
      BY <3>3, <3>4
  <2>3. QED
    BY <2>1, <2>2
<1>5. StreamsServe(streams', <<"docker-events">> \in live')
  BY <1>3, <1>4 DEF StreamsServe
<1>6. SubsInv'
  BY <1>3, <1>5 DEF SubsInv, MirrorsServe, GateAgrees
<1>7. SampleKept
  <2>1. topic.retained \in Nat /\ Wanted(screen') \in Nat /\ topic' = topic
    BY <1>3, WantedType DEF SubsInv, MirrorsServe, Topic
  <2>2. QED
    BY <2>1, MinOfTwo DEF SampleKept
<1>8. QED
  BY <1>6, <1>7

LEMMA SubsInvStep ==
  ASSUME SubsInv, [SubsNext]_subsVars
  PROVE  SubsInv' /\ (UNCHANGED subsVars \/ SampleKept)
<1>1. CASE ShowPane \/ HidePane \/ SetFocus \/ SetView \/ ViewPlacePane \/ FocusCommand
           \/ ToggleOverlay \/ JobsSynced \/ StepRefresh
  BY <1>1, GesturesServe
<1>2. CASE Teardown
  BY <1>2, TeardownServes
<1>3. CASE Publish
  BY <1>3, PublishServes
<1>4. ASSUME NEW i \in DOMAIN mirrors, Sample(i) PROVE SubsInv' /\ SampleKept
  BY <1>4, SampleServes
<1>5. ASSUME NEW i \in DOMAIN streams, Relaunch(i) \/ CloseStream(i) PROVE SubsInv' /\ SampleKept
  BY <1>5, StreamEventsServe
<1>6. CASE UNCHANGED subsVars
  BY <1>6 DEF subsVars, SubsInv, GateAgrees, MirrorsServe, StreamsServe
<1>7. QED
  BY <1>1, <1>2, <1>3, <1>4, <1>5, <1>6 DEF SubsNext

(* What the invariant implies.                                                 *)
LEMMA SubsAreDesired == SubsInv => LiveIsDesired
<1> SUFFICES ASSUME SubsInv, seen # <<>> PROVE live = DesiredSubs([screen EXCEPT !.focus = seen.focus])
  BY DEF LiveIsDesired
<1>1. GateAgrees(screen, seen, live) /\ live = DesiredSubs(seen)
  BY DEF SubsInv, GateAgrees
<1>2. QED
  BY <1>1, DesiredOfGate

LEMMA SubsStreamOnce == SubsInv => StreamOnce
<1> SUFFICES ASSUME SubsInv PROVE StreamOnce
  OBVIOUS
<1> DEFINE on == <<"docker-events">> \in live
<1>1. /\ streams \in Seq(Stream) /\ Len(streams) \in Nat /\ DOMAIN streams = 1..Len(streams)
      /\ (on => streams # <<>>)
  BY LenProperties DEF SubsInv, StreamsServe
<1>2. \A i \in 1..Len(streams) :
        streams[i] \in IF on /\ i = Len(streams) THEN CurrentStreams ELSE KilledStreams
  BY DEF SubsInv, StreamsServe
<1>3. ASSUME NEW i \in DOMAIN streams, streams[i].proc = "up" \/ streams[i].timer
      PROVE i = Len(streams) /\ on /\ ~(streams[i].proc = "up" /\ streams[i].timer)
  <2>1. streams[i] \notin KilledStreams
    BY <1>3 DEF KilledStreams
  <2>2. on /\ i = Len(streams) /\ streams[i] \in CurrentStreams
    BY <1>1, <1>2, <2>1
  <2>3. QED
    BY <2>2 DEF CurrentStreams
<1>4. ASSUME on PROVE streams # <<>> /\ (Last(streams).proc = "up" \/ Last(streams).timer)
  <2>1. Len(streams) \in 1..Len(streams)
    BY <1>1, <1>4, EmptySeq
  <2>2. Last(streams) \in CurrentStreams
    BY <1>2, <1>4, <2>1 DEF Last
  <2>3. QED
    BY <1>1, <1>4, <2>2 DEF CurrentStreams
<1>5. QED
  BY <1>3, <1>4 DEF StreamOnce

LEMMA SubsMonitorsServed == SubsInv => MonitorsServed
<1> SUFFICES ASSUME SubsInv PROVE MonitorsServed
  OBVIOUS
<1>1. ASSUME seen # <<>> PROVE topic.window = Wanted(screen)
  <2>1. <<"mirror">> \in live <=> Wanted(screen) > 0
    <3>1. live = DesiredSubs(seen) /\ seen.placed = screen.placed
      BY <1>1 DEF SubsInv, GateAgrees
    <3>2. Wanted(seen) = Wanted(screen)
      BY <3>1, WantedOfPlaced
    <3>3. <<"mirror">> \in DesiredSubs(seen) <=> Wanted(seen) > 0
      <4>1. seen \in Screen
        BY <1>1 DEF SubsInv, GateAgrees
      <4>2. QED
        BY <4>1, DesiredKeys
    <3>4. QED
      BY <3>1, <3>2, <3>3
  <2>2. Wanted(screen) \in Nat
    BY WantedType
  <2>3. QED
    BY <2>1, <2>2 DEF SubsInv, MirrorsServe
<1>2. ASSUME <<"mirror">> \in live, topic.published > Last(mirrors).since, topic.mirrored < topic.published
      PROVE Last(mirrors).timer
  <2>1. mirrors # <<>> /\ mirrors = <<mirrors[1]>>
    BY <1>2 DEF SubsInv, MirrorsServe
  <2>2. Len(mirrors) = 1
    BY <2>1, SubscribedMirror
  <2>3. QED
    BY <1>2, <2>2 DEF SubsInv, MirrorsServe, Last
<1>3. QED
  BY <1>1, <1>2 DEF MonitorsServed

LEMMA SubsAlwaysServe == SubsSpec => []SubsInv
<1>1. SubsInv /\ [SubsNext]_subsVars => SubsInv'
  BY SubsInvStep
<1>2. QED
  BY SubsInit_Serves, <1>1, PTL DEF SubsSpec

(* Whatever the dispatches, and whichever of them the reconcile skips, the     *)
(* live sources are those the model wants.                                     *)
THEOREM SubsLiveIsDesired == SubsSpec => []LiveIsDesired
BY SubsAlwaysServe, SubsAreDesired, PTL

(* Whichever way the docker events process ends, and however often the pane    *)
(* comes and goes, at most one runs that nobody told to stop, and a wanted one *)
(* runs or waits for its timer.                                                *)
THEOREM StreamRunsOnce == SubsSpec => []StreamOnce
BY SubsAlwaysServe, SubsStreamOnce, PTL

(* For every set of monitor panes and their windows, the hub retains what the  *)
(* widest asks for, and the model gets what was published.                     *)
THEOREM MonitorsAlwaysServed == SubsSpec => []MonitorsServed
BY SubsAlwaysServe, SubsMonitorsServed, PTL

(* While a monitor stays on the screen, no reconcile costs it a sample that    *)
(* it still wants: a new mirror subscribes before the old one leaves.          *)
THEOREM SamplesAlwaysKept == SubsSpec => SamplesKept
<1>1. SubsInv /\ [SubsNext]_subsVars => [SampleKept]_subsVars
  BY SubsInvStep
<1>2. QED
  BY SubsAlwaysServe, <1>1, PTL DEF SubsSpec, SamplesKept, SampleKept

-----------------------------------------------------------------------------
(* The group navigator: the rows it lists.                                     *)

LEMMA PositionsFinite ==
  ASSUME NEW m \in Nat, NEW at \in SUBSET (1 .. m)
  PROVE  IsFiniteSet(at) /\ Cardinality(at) \in Nat
<1>1. 1 \in Int /\ m \in Int
  OBVIOUS
<1>2. IsFiniteSet(1 .. m)
  BY <1>1, FS_Interval
<1>3. IsFiniteSet(at)
  BY <1>2, FS_Subset
<1>4. QED
  BY <1>3, FS_CardinalityType

\* The n-th of a set of positions is one of them.
LEMMA PositionCounted ==
  ASSUME NEW m \in Nat, NEW at \in SUBSET (1 .. m), NEW n \in 1 .. Cardinality(at)
  PROVE  \E i \in at : Cardinality(at \cap (1 .. i)) = n
<1> DEFINE upto(i) == at \cap (1 .. i)
           enough == {i \in 0 .. m : n <= Cardinality(upto(i))}
<1>1. IsFiniteSet(at) /\ Cardinality(at) \in Nat
  BY PositionsFinite
<1>2. ASSUME NEW i PROVE IsFiniteSet(upto(i)) /\ Cardinality(upto(i)) \in Nat
  <2>1. \A T \in SUBSET (1 .. m) : IsFiniteSet(T) /\ Cardinality(T) \in Nat
    BY PositionsFinite
  <2>2. upto(i) \in SUBSET (1 .. m)
    OBVIOUS
  <2> HIDE DEF upto
  <2>3. QED
    BY <2>1, <2>2
<1>3. upto(m) = at /\ upto(0) = {}
  <2>1. at \cap (1 .. m) = at
    OBVIOUS
  <2>2. 1 .. 0 = {}
    OBVIOUS
  <2>3. QED
    BY <2>1, <2>2
<1>4. n \in Nat /\ n # 0 /\ n <= Cardinality(upto(m)) /\ Cardinality(upto(0)) = 0
  BY <1>1, <1>3, FS_EmptySet
<1>5. ASSUME NEW i \in 1 .. m
      PROVE  /\ i \in at => upto(i) = upto(i - 1) \cup {i} /\ i \notin upto(i - 1)
             /\ i \notin at => upto(i) = upto(i - 1)
  <2>1. 1 .. i = (1 .. (i - 1)) \cup {i} /\ i \notin 1 .. (i - 1)
    OBVIOUS
  <2>2. QED
    BY <2>1
<1> HIDE DEF upto
<1>6. enough \subseteq Nat /\ enough # {}
  BY <1>4
<1>7. PICK i \in enough : \A j \in enough : i <= j
  BY <1>6, LeastNumber
<1>8. i \in 1 .. m /\ i - 1 \in 0 .. m
  BY <1>4, <1>7
<1>9. Cardinality(upto(i - 1)) < n /\ n <= Cardinality(upto(i))
  <2>1. i - 1 \notin enough
    BY <1>7, <1>8
  <2>2. QED
    BY <1>2, <1>4, <1>7, <1>8, <2>1
<1>10. i \in at
  BY <1>2, <1>4, <1>5, <1>8, <1>9
<1>11. Cardinality(upto(i)) = Cardinality(upto(i - 1)) + 1
  BY <1>2, <1>5, <1>8, <1>10, FS_AddElement
<1>12. Cardinality(upto(i)) = n
  BY <1>2, <1>4, <1>9, <1>11
<1>13. QED
  BY <1>10, <1>12 DEF upto

LEMMA FilteredRows ==
  ASSUME NEW S, NEW seq \in Seq(S), NEW kept
  PROVE  LET rows == Filtered(seq, kept)
         IN  /\ rows \in Seq(S \cap kept)
             /\ \A i \in DOMAIN seq : seq[i] \in kept => Len(rows) > 0
<1> DEFINE at == {i \in DOMAIN seq : seq[i] \in kept}
           place(n) == CHOOSE i \in at : Cardinality(at \cap (1 .. i)) = n
           rows == Filtered(seq, kept)
<1>1. Len(seq) \in Nat /\ DOMAIN seq = 1 .. Len(seq) /\ \A i \in DOMAIN seq : seq[i] \in S
  BY LenProperties
<1>2. at \in SUBSET (1 .. Len(seq)) /\ \A i \in at : seq[i] \in S \cap kept
  BY <1>1
<1>3. rows = [n \in 1 .. Cardinality(at) |-> seq[place(n)]]
  BY DEF Filtered
<1> HIDE DEF at, rows
<1>4. IsFiniteSet(at) /\ Cardinality(at) \in Nat
  BY <1>1, <1>2, PositionsFinite
<1>5. ASSUME NEW n \in 1 .. Cardinality(at) PROVE place(n) \in at
  <2>1. \E i \in at : Cardinality(at \cap (1 .. i)) = n
    BY <1>1, <1>2, PositionCounted
  <2>2. QED
    BY <2>1
<1> HIDE DEF place
<1>6. rows \in [1 .. Cardinality(at) -> S \cap kept]
  BY <1>2, <1>3, <1>5
<1>7. rows \in Seq(S \cap kept)
  BY <1>4, <1>6, SeqDef
<1>8. Len(rows) = Cardinality(at)
  BY <1>4, <1>6
<1>9. ASSUME NEW i \in DOMAIN seq, seq[i] \in kept PROVE Len(rows) > 0
  <2>1. at # {}
    BY <1>9 DEF at
  <2>2. Cardinality(at) # 0
    BY <1>4, <2>1, FS_EmptySet
  <2>3. QED
    BY <1>4, <1>8, <2>2
<1>10. QED
  BY <1>7, <1>9 DEF rows

\* A group without a parent is on the list, however the tree is folded.
LEMMA TopIsVisible ==
  ASSUME NEW ex, NEW g \in Groups, Parent[g] = Root
  PROVE  g \in VisibleIn(ex)
<1> DEFINE shows(f, h) == Parent[h] = Root \/ (Parent[h] \in ex /\ f[Parent[h]])
           closed(X) == \A h \in Groups : Parent[h] = Root \/ (Parent[h] \in ex /\ Parent[h] \in X) => h \in X
           least == {h \in Groups : \A X \in SUBSET Groups : closed(X) => h \in X}
           v == CHOOSE f : f = [h \in Groups |-> shows(f, h)]
<1>1. Parent \in [Groups -> Groups \cup {Root}] /\ Root \notin Groups
  BY GroupsAssumption
<1>2. closed(least)
  <2> SUFFICES ASSUME NEW h \in Groups, Parent[h] = Root \/ (Parent[h] \in ex /\ Parent[h] \in least),
                      NEW X \in SUBSET Groups, closed(X)
               PROVE  h \in X
    OBVIOUS
  <2>1. CASE Parent[h] = Root
    BY <2>1
  <2>2. CASE Parent[h] \in ex /\ Parent[h] \in least
    BY <2>2
  <2>3. QED
    BY <2>1, <2>2
<1>3. ASSUME NEW h \in least PROVE Parent[h] = Root \/ (Parent[h] \in ex /\ Parent[h] \in least)
  <2> DEFINE Y == {k \in least : Parent[k] = Root \/ (Parent[k] \in ex /\ Parent[k] \in least)}
  <2>1. Y \in SUBSET Groups
    OBVIOUS
  <2>2. closed(Y)
    BY <1>2
  <2>3. h \in Y
    BY <2>1, <2>2
  <2>4. QED
    BY <2>3
<1> HIDE DEF least
<1>4. \E f : f = [h \in Groups |-> shows(f, h)]
  <2> DEFINE f == [h \in Groups |-> h \in least]
  <2>1. ASSUME NEW h \in Groups PROVE (h \in least) = shows(f, h)
    <3>1. Parent[h] \in Groups \/ Parent[h] = Root
      BY <1>1
    <3>2. CASE Parent[h] = Root
      BY <1>2, <3>2
    <3>3. CASE Parent[h] \in Groups
      <4>1. f[Parent[h]] = (Parent[h] \in least)
        BY <3>3
      <4>2. Parent[h] # Root
        BY <1>1, <3>3
      <4>3. (h \in least) <=> (Parent[h] \in ex /\ Parent[h] \in least)
        BY <1>2, <1>3, <4>2
      <4>4. shows(f, h) <=> (Parent[h] \in ex /\ Parent[h] \in least)
        BY <4>1, <4>2
      <4>5. shows(f, h) \in BOOLEAN /\ (h \in least) \in BOOLEAN
        OBVIOUS
      <4>6. QED
        BY <4>3, <4>4, <4>5
    <3>4. QED
      BY <3>1, <3>2, <3>3
  <2>2. f = [h \in Groups |-> shows(f, h)]
    BY <2>1
  <2>3. QED
    BY <2>2
<1>5. v = [h \in Groups |-> shows(v, h)]
  BY <1>4
<1>6. VisibleIn(ex) = {h \in Groups : v[h]}
  BY DEF VisibleIn
<1> HIDE DEF v
<1>7. v[g]
  BY <1>5
<1>8. QED
  BY <1>6, <1>7

-----------------------------------------------------------------------------
(* The state of the navigator.                                                 *)

Names == Groups \cup NamesOf(ContainersOf) \cup NamesOf(ActionsOf)
NavEntry == [cursor : Nat, multi : SUBSET Names, filter : {NoFilter} \cup Names]
ListPanes == {"pane-groups", "pane-containers", "pane-actions"}

\* There is always a row to be on.
GroupsTyped ==
  /\ expanded \subseteq Groups /\ list \in Seq(Groups) /\ quickTab \in BOOLEAN
  /\ list # <<>> /\ (quickTab => Quick # {})
  /\ nav \in [Instances -> NavEntry] /\ currentGroup \in Groups
  /\ focus \in ListPanes \cup {"slot"} /\ slotTab \in Tabs

\* A record of the jumplist names a row of the pane that it is of.
Places == {loc \in Located : loc.sel # NoSel => loc.focus # "slot" /\ loc.sel.kind = KindOf(loc.focus)}
PlaceRings == {r \in [history : Seq(Places), cursor : Int] :
                 Len(r.history) <= Cap /\ r.cursor \in -1 .. Len(r.history) - 1}

Differs(a, b) == a.group # b.group \/ a.focus # b.focus

GroupsInv == GroupsTyped /\ ring \in PlaceRings /\ RingTracksHere /\ EveryStepMoves

LEMMA Addresses ==
  /\ Range(PaneOf) = ListPanes /\ Instances = ListPanes \cup {"docker"}
  /\ KindOf("pane-groups") = "groups" /\ KindOf("pane-containers") = "containers" /\ KindOf("pane-actions") = "actions"
  /\ ByKind("groups") = "pane-groups" /\ ByKind("containers") = "docker" /\ ByKind("actions") = "pane-actions"
<1>1. /\ DOMAIN PaneOf = Kinds /\ PaneOf["groups"] = "pane-groups"
      /\ PaneOf["containers"] = "pane-containers" /\ PaneOf["actions"] = "pane-actions"
  BY DEF PaneOf, Kinds
<1>2. Range(PaneOf) = ListPanes
  BY <1>1 DEF Range, Kinds, ListPanes
<1>3. /\ KindOf("pane-groups") = "groups" /\ KindOf("pane-containers") = "containers"
      /\ KindOf("pane-actions") = "actions"
  <2>1. \A k \in Kinds : k = "groups" \/ k = "containers" \/ k = "actions"
    BY DEF Kinds
  <2>2. /\ \A k \in Kinds : PaneOf[k] = "pane-groups" => k = "groups"
        /\ \A k \in Kinds : PaneOf[k] = "pane-containers" => k = "containers"
        /\ \A k \in Kinds : PaneOf[k] = "pane-actions" => k = "actions"
    BY <1>1, <2>1
  <2>3. "groups" \in Kinds /\ "containers" \in Kinds /\ "actions" \in Kinds
    BY DEF Kinds
  <2>4. KindOf("pane-groups") = "groups"
    BY <1>1, <2>2, <2>3 DEF KindOf
  <2>5. KindOf("pane-containers") = "containers"
    BY <1>1, <2>2, <2>3 DEF KindOf
  <2>6. KindOf("pane-actions") = "actions"
    BY <1>1, <2>2, <2>3 DEF KindOf
  <2>7. QED
    BY <2>4, <2>5, <2>6
<1>4. /\ ByKind("groups") = "pane-groups" /\ ByKind("containers") = "docker"
      /\ ByKind("actions") = "pane-actions"
  BY DEF ByKind, Primary, Component
<1>5. QED
  BY <1>2, <1>3, <1>4 DEF Instances

LEMMA PanesOfKinds ==
  /\ \A p \in ListPanes : KindOf(p) \in Kinds /\ p \in Instances
  /\ \A k \in Kinds : ByKind(k) \in Instances /\ PaneOf[k] \in ListPanes
<1>1. \A p \in ListPanes : KindOf(p) \in Kinds /\ p \in Instances
  BY Addresses DEF ListPanes, Kinds
<1>2. \A k \in Kinds : ByKind(k) \in Instances
  BY Addresses DEF ListPanes, Kinds
<1>3. \A k \in Kinds : PaneOf[k] \in ListPanes
  BY DEF PaneOf, ListPanes, Kinds
<1>4. QED
  BY <1>1, <1>2, <1>3

\* What a pane lists, given the rows of the tree.
RowsAmong(rows, kind, group, filter) ==
  IF kind = "groups" THEN rows
  ELSE Filtered(RawRows(kind, group), IF filter = NoFilter THEN Range(RawRows(kind, group)) ELSE {filter})

LEMMA RowsTyped ==
  ASSUME NEW rows \in Seq(Groups), NEW kind \in Kinds, NEW group \in Groups, NEW filter
  PROVE  RowsAmong(rows, kind, group, filter) \in Seq(Names)
<1>1. CASE kind = "groups"
  <2>1. Groups \subseteq Names
    BY DEF Names
  <2>2. QED
    BY <1>1, <2>1, SeqMonotonic DEF RowsAmong
<1>2. CASE kind # "groups"
  <2> DEFINE raw == RawRows(kind, group)
             kept == IF filter = NoFilter THEN Range(raw) ELSE {filter}
  <2>1. raw = ContainersOf[group] \/ raw = ActionsOf[group]
    BY DEF RawRows
  <2>2. raw \in Seq(Range(raw)) /\ Range(raw) \subseteq Names
    BY <2>1, GroupsAssumption DEF Names, NamesOf
  <2>3. RowsAmong(rows, kind, group, filter) = Filtered(raw, kept)
    BY <1>2 DEF RowsAmong
  <2> HIDE DEF raw, kept
  <2>4. Filtered(raw, kept) \in Seq(Range(raw) \cap kept)
    BY <2>2, FilteredRows
  <2>5. Range(raw) \cap kept \subseteq Names
    BY <2>2
  <2>6. QED
    BY <2>3, <2>4, <2>5, SeqMonotonic
<1>3. QED
  BY <1>1, <1>2

\* Where an element is in a sequence.
LEMMA IndexFound ==
  ASSUME NEW S, NEW seq \in Seq(S), NEW x \in Range(seq)
  PROVE  IndexIn(seq, x) \in Nat /\ IndexIn(seq, x) < Len(seq) /\ seq[IndexIn(seq, x) + 1] = x
<1>1. Len(seq) \in Nat /\ DOMAIN seq = 1 .. Len(seq)
  BY LenProperties
<1>2. \E i \in DOMAIN seq : seq[i] = x
  BY DEF Range
<1> DEFINE i == CHOOSE i \in DOMAIN seq : seq[i] = x
<1>3. i \in DOMAIN seq /\ seq[i] = x
  BY <1>2
<1>4. IndexIn(seq, x) = i - 1
  BY DEF IndexIn
<1> HIDE DEF i
<1>5. i \in Nat /\ i - 1 \in Nat /\ i - 1 < Len(seq) /\ i - 1 + 1 = i
  BY <1>1, <1>3
<1>6. QED
  BY <1>3, <1>4, <1>5

\* The row under a cursor.
LEMMA RowUnder ==
  ASSUME NEW S, NEW seq \in Seq(S), NEW c \in Nat, c < Len(seq)
  PROVE  seq[c + 1] \in S
<1>1. Len(seq) \in Nat
  BY LenProperties
<1>2. c + 1 \in 1 .. Len(seq)
  BY <1>1
<1>3. QED
  BY <1>2, ElementOfSeq

LEMMA ItemTyped ==
  ASSUME GroupsTyped, NEW kind \in Kinds, NEW inst \in Instances
  PROVE  /\ ItemsIn(kind, inst) \in Seq(Names)
         /\ HasItem(kind, inst) => ItemAt(kind, inst) \in Names
         /\ kind = "groups" /\ HasItem(kind, inst) => ItemAt(kind, inst) \in Groups
<1>1. nav[inst] \in NavEntry /\ nav[inst].cursor \in Nat
  BY DEF GroupsTyped, NavEntry
<1>2. ItemsIn(kind, inst) = RowsAmong(list, kind, currentGroup, nav[inst].filter)
  BY DEF ItemsIn, Listed, RowsAmong
<1>3. ItemsIn(kind, inst) \in Seq(Names)
  BY <1>2, RowsTyped DEF GroupsTyped
<1>4. kind = "groups" => ItemsIn(kind, inst) \in Seq(Groups)
  BY DEF ItemsIn, Listed, GroupsTyped
<1>5. QED
  BY <1>1, <1>3, <1>4, RowUnder DEF HasItem, ItemAt

LEMMA HereIsPlace == GroupsTyped => Here \in Places
<1> SUFFICES ASSUME GroupsTyped PROVE Here \in Places
  OBVIOUS
<1> DEFINE k == KindOf(focus)
           tab == IF focus = "slot" THEN slotTab ELSE NoTab
           sel == IF focus = "slot" THEN NoSel
                  ELSE IF HasItem(k, ByKind(k)) THEN [kind |-> k, id |-> ItemAt(k, ByKind(k))] ELSE NoSel
<1>1. Here = [group |-> currentGroup, focus |-> focus, tab |-> tab, sel |-> sel]
  BY DEF Here
<1>2. currentGroup \in Groups /\ focus \in ListPanes \cup {"slot"} /\ slotTab \in Tabs
  BY DEF GroupsTyped
<1>3. sel \in {NoSel} \cup [kind : Kinds, id : Names] /\ (sel # NoSel => focus # "slot" /\ sel.kind = k)
  <2>1. CASE sel = NoSel
    BY <2>1
  <2>2. CASE sel # NoSel
    <3>1. focus # "slot" /\ HasItem(k, ByKind(k)) /\ sel = [kind |-> k, id |-> ItemAt(k, ByKind(k))]
      BY <2>2
    <3>2. k \in Kinds /\ ByKind(k) \in Instances
      BY <1>2, <3>1, PanesOfKinds
    <3>3. ItemAt(k, ByKind(k)) \in Names
      BY <3>1, <3>2, ItemTyped
    <3> HIDE DEF k, sel
    <3>4. QED
      BY <3>1, <3>2, <3>3
  <2>3. QED
    BY <2>1, <2>2
<1>4. tab \in Tabs \cup {NoTab}
  BY <1>2
<1> HIDE DEF tab, sel
<1>5. Here \in Located
  BY <1>1, <1>2, <1>3, <1>4, Addresses DEF Located, Names
<1>6. Here.sel = sel /\ Here.focus = focus
  BY <1>1
<1>7. QED
  BY <1>3, <1>5, <1>6 DEF Places

-----------------------------------------------------------------------------
(* The jumplist.                                                               *)

\* What stays of a sequence under the cap.
Dropped(n) == IF n > Cap THEN n - Cap ELSE 0

LEMMA DroppedIs ==
  ASSUME NEW n \in Nat, n # 0
  PROVE  /\ Dropped(n) \in Nat /\ n - Dropped(n) \in Nat /\ n - Dropped(n) # 0 /\ n - Dropped(n) <= Cap
         /\ n > Cap => n - Cap = Dropped(n)
         /\ ~(n > Cap) => Dropped(n) = 0
<1>1. Cap \in Nat /\ Cap # 0
  BY GroupsAssumption
<1>2. QED
  BY <1>1 DEF Dropped

LEMMA NewestKept ==
  ASSUME NEW S, NEW seq \in Seq(S), Len(seq) # 0
  PROVE  LET d == Dropped(Len(seq))
         IN  /\ Nav!Newest(seq) \in Seq(S) /\ Len(Nav!Newest(seq)) = Len(seq) - d
             /\ \A i \in 1 .. Len(seq) - d : Nav!Newest(seq)[i] = seq[i + d]
<1> DEFINE n == Len(seq)
           d == Dropped(n)
<1>1. n \in Nat
  BY LenProperties
<1>2. /\ d \in Nat /\ n - d \in Nat /\ n - d # 0
      /\ n > Cap => n - Cap = d
      /\ ~(n > Cap) => d = 0
  BY <1>1, DroppedIs
<1>3. Nav!Newest(seq) = IF n > Cap THEN SubSeq(seq, n - Cap + 1, n) ELSE seq
  BY DEF Nav!Newest
<1>4. \A i \in 1 .. n : seq[i] \in S
  BY ElementOfSeq
<1> HIDE DEF d
<1>5. CASE n > Cap
  <2> DEFINE a == d + 1
  <2>1. Nav!Newest(seq) = SubSeq(seq, a, n)
    BY <1>2, <1>3, <1>5
  <2>2. /\ a \in Int /\ n \in Int /\ a <= n /\ n - a + 1 = n - d
        /\ \A i \in a .. n : i \in 1 .. n
        /\ \A i \in 1 .. n - d : a + i - 1 = i + d
    BY <1>1, <1>2
  <2> HIDE DEF a, n
  <2>3. \A i \in a .. n : seq[i] \in S
    BY <1>4, <2>2
  <2>4. /\ SubSeq(seq, a, n) \in Seq(S)
        /\ Len(SubSeq(seq, a, n)) = IF a <= n THEN n - a + 1 ELSE 0
        /\ \A i \in 1 .. n - a + 1 : SubSeq(seq, a, n)[i] = seq[a + i - 1]
    BY <2>2, <2>3, SubSeqProperties
  <2>5. QED
    BY <2>1, <2>2, <2>4 DEF n, d
<1>6. CASE ~(n > Cap)
  <2>1. Nav!Newest(seq) = seq /\ d = 0
    BY <1>2, <1>3, <1>6
  <2>2. n - 0 = n /\ \A i \in 1 .. n : i + 0 = i
    BY <1>1
  <2>3. QED
    BY <2>1, <2>2 DEF d
<1>7. QED
  BY <1>5, <1>6

\* The places up to the c-th, and one more.
LEMMA ExtendedBy ==
  ASSUME NEW h \in Seq(Places), NEW c \in Int, c >= -1, c + 1 <= Len(h), NEW loc \in Places
  PROVE  LET full == Append(SubSeq(h, 1, c + 1), loc)
         IN  /\ full \in Seq(Places) /\ Len(full) = c + 2 /\ full[c + 2] = loc
             /\ \A i \in 1 .. c + 1 : full[i] = h[i]
<1> DEFINE b == c + 1
           behind == SubSeq(h, 1, b)
           full == Append(behind, loc)
<1>1. b \in Nat /\ b <= Len(h) /\ Len(h) \in Nat /\ b + 1 = c + 2
  BY LenProperties
<1>2. full = Append(SubSeq(h, 1, c + 1), loc)
  OBVIOUS
<1> HIDE DEF b
<1>3. /\ behind \in Seq(Places) /\ Len(behind) = b /\ \A i \in 1 .. b : behind[i] = h[i]
  <2>1. \A i \in 1 .. b : h[i] \in Places
    BY <1>1, ElementOfSeq
  <2>2. 1 \in Int /\ b \in Int /\ (IF 1 <= b THEN b - 1 + 1 ELSE 0) = b
        /\ b - 1 + 1 = b /\ \A i \in 1 .. b : 1 + i - 1 = i
    BY <1>1
  <2>3. /\ behind \in Seq(Places) /\ Len(behind) = IF 1 <= b THEN b - 1 + 1 ELSE 0
        /\ \A i \in 1 .. b - 1 + 1 : behind[i] = h[1 + i - 1]
    BY <2>1, <2>2, SubSeqProperties
  <2>4. QED
    BY <2>2, <2>3
<1> HIDE DEF behind
<1>4. /\ full \in Seq(Places) /\ Len(full) = b + 1 /\ full[b + 1] = loc
      /\ \A i \in 1 .. b : full[i] = h[i]
  BY <1>3, AppendProperties
<1> HIDE DEF full
<1>5. QED
  BY <1>1, <1>2, <1>4 DEF b

\* What is recorded: the place, after as many of those behind it as there is room
\* for.
LEMMA PushedRing ==
  ASSUME NEW r \in PlaceRings, NEW loc \in Places, ~Nav!IsCurrent(r, loc)
  PROVE  LET p == Nav!Push(r, loc)
             n == Len(p.history)
         IN  /\ p \in PlaceRings /\ n \in Nat /\ n # 0 /\ p.cursor = n - 1 /\ p.history[n] = loc
             /\ \E drop \in Nat :
                  /\ n + drop = r.cursor + 2
                  /\ \A i \in 1 .. n - 1 : i + drop \in 1 .. r.cursor + 1 /\ p.history[i] = r.history[i + drop]
<1>1. PICK h \in Seq(Places), c \in Int : h = r.history /\ c = r.cursor /\ c \in -1 .. Len(h) - 1
  BY DEF PlaceRings
<1>2. c >= -1 /\ c + 1 <= Len(h)
  <2>1. Len(h) \in Nat
    BY LenProperties
  <2>2. QED
    BY <1>1, <2>1
<1>3. PICK full : full = Append(SubSeq(h, 1, c + 1), loc)
  OBVIOUS
<1>4. /\ full \in Seq(Places) /\ Len(full) = c + 2 /\ full[c + 2] = loc
      /\ \A i \in 1 .. c + 1 : full[i] = h[i]
  BY <1>2, <1>3, ExtendedBy
<1>5. PICK m \in Nat : m = c + 2 /\ m # 0 /\ m - 1 = c + 1 /\ Len(full) = m
  BY <1>2, <1>4
<1>6. PICK kept : kept = Nav!Newest(full)
  OBVIOUS
<1>7. Nav!Push(r, loc) = [history |-> kept, cursor |-> Len(kept) - 1]
  BY <1>1, <1>3, <1>6 DEF Nav!Push, Nav!Extended
<1>8. PICK drop \in Nat : /\ m - drop \in Nat /\ m - drop # 0 /\ m - drop <= Cap
                          /\ kept \in Seq(Places) /\ Len(kept) = m - drop
                          /\ \A i \in 1 .. m - drop : kept[i] = full[i + drop]
  <2>1. Len(full) # 0
    BY <1>5
  <2>2. /\ kept \in Seq(Places) /\ Len(kept) = m - Dropped(m)
        /\ \A i \in 1 .. m - Dropped(m) : kept[i] = full[i + Dropped(m)]
    BY <1>4, <1>5, <1>6, <2>1, NewestKept
  <2>3. Dropped(m) \in Nat /\ m - Dropped(m) \in Nat /\ m - Dropped(m) # 0 /\ m - Dropped(m) <= Cap
    BY <1>5, DroppedIs
  <2>4. QED
    BY <2>2, <2>3
<1>9. PICK n \in Nat : n = m - drop /\ n # 0 /\ n <= Cap /\ n + drop = m
  BY <1>8
<1>10. \A i \in 1 .. n - 1 : i \in 1 .. n /\ i + drop \in 1 .. m - 1
  BY <1>9
<1>11. /\ kept \in Seq(Places) /\ Len(kept) = n /\ kept[n] = loc
       /\ \A i \in 1 .. n - 1 : i + drop \in 1 .. c + 1 /\ kept[i] = h[i + drop]
  <2>1. n \in 1 .. n
    BY <1>9
  <2>2. kept[n] = full[m]
    BY <1>8, <1>9, <2>1
  <2>3. \A i \in 1 .. n - 1 : i + drop \in 1 .. c + 1 /\ kept[i] = full[i + drop]
    BY <1>5, <1>8, <1>9, <1>10
  <2>4. QED
    BY <1>4, <1>5, <1>8, <1>9, <2>2, <2>3
<1>12. PICK p : p = [history |-> kept, cursor |-> n - 1] /\ p = Nav!Push(r, loc)
  BY <1>7, <1>11
<1>13. p.history = kept /\ p.cursor = n - 1
  BY <1>12
<1>14. p \in PlaceRings
  <2>1. n - 1 \in Int /\ n - 1 \in -1 .. n - 1
    BY <1>9
  <2>2. QED
    BY <1>9, <1>11, <1>12, <1>13, <2>1 DEF PlaceRings
<1>15. n + drop = r.cursor + 2
  BY <1>1, <1>5, <1>9
<1>16. QED
  BY <1>1, <1>9, <1>11, <1>12, <1>13, <1>14, <1>15

Moves(h) == \A i \in 1 .. Len(h) - 1 : Differs(h[i], h[i + 1])

\* A record of another place keeps the jumplist one whose every step moves the user.
LEMMA PushMoves ==
  ASSUME NEW r \in PlaceRings, Moves(r.history), NEW loc \in Places,
         r.cursor >= 0 => Differs(Nav!At(r, r.cursor), loc)
  PROVE  LET p == Nav!Push(r, loc)
         IN  p \in PlaceRings /\ Moves(p.history) /\ p.cursor >= 0 /\ Nav!At(p, p.cursor) = loc
<1>1. ~Nav!IsCurrent(r, loc)
  BY DEF Nav!IsCurrent, Differs
<1> DEFINE p == Nav!Push(r, loc)
           n == Len(p.history)
           c == r.cursor
           h == r.history
<1>2. /\ p \in PlaceRings /\ n \in Nat /\ n # 0 /\ p.cursor = n - 1 /\ p.history[n] = loc
      /\ \E drop \in Nat :
           /\ n + drop = c + 2
           /\ \A i \in 1 .. n - 1 : i + drop \in 1 .. c + 1 /\ p.history[i] = h[i + drop]
  BY <1>1, PushedRing
<1>3. c \in Int /\ c + 1 <= Len(h) /\ Len(h) \in Nat
  <2>1. h \in Seq(Places) /\ c \in Int /\ c \in -1 .. Len(h) - 1
    BY DEF PlaceRings
  <2>2. Len(h) \in Nat
    BY <2>1, LenProperties
  <2> HIDE DEF h, c
  <2>3. QED
    BY <2>1, <2>2
<1>4. c >= 0 => Differs(h[c + 1], loc)
  BY DEF Nav!At
<1>5. \A i \in 1 .. Len(h) - 1 : Differs(h[i], h[i + 1])
  BY DEF Moves
<1> HIDE DEF p, n, c, h
<1>6. PICK drop \in Nat : /\ n + drop = c + 2
                          /\ \A i \in 1 .. n - 1 : i + drop \in 1 .. c + 1 /\ p.history[i] = h[i + drop]
  BY <1>2
<1>7. ASSUME NEW i \in 1 .. n - 1 PROVE Differs(p.history[i], p.history[i + 1])
  <2>1. i + drop \in 1 .. c + 1 /\ p.history[i] = h[i + drop]
    BY <1>6
  <2>2. CASE i + 1 = n
    <3>1. i + drop = c + 1 /\ c >= 0
      BY <1>2, <1>3, <1>6, <2>1, <2>2
    <3>2. QED
      BY <1>2, <1>4, <2>1, <2>2, <3>1
  <2>3. CASE i + 1 # n
    <3>1. i + 1 \in 1 .. n - 1 /\ i + 1 + drop = i + drop + 1
      BY <1>2, <2>3
    <3>2. p.history[i + 1] = h[i + drop + 1] /\ i + drop + 1 \in 1 .. c + 1
      BY <1>6, <3>1
    <3>3. i + drop \in 1 .. Len(h) - 1
      BY <1>3, <2>1, <3>2
    <3>4. QED
      BY <1>5, <2>1, <3>2, <3>3
  <2>4. QED
    BY <2>2, <2>3
<1>8. p.cursor >= 0 /\ Nav!At(p, p.cursor) = loc
  <2>1. n - 1 >= 0 /\ n - 1 + 1 = n
    BY <1>2
  <2>2. QED
    BY <1>2, <2>1 DEF Nav!At
<1>9. Moves(p.history)
  BY <1>7 DEF Moves, n
<1>10. QED
  BY <1>2, <1>8, <1>9 DEF p

-----------------------------------------------------------------------------
(* The gestures.                                                               *)

\* A nav entry with its cursor moved.
LEMMA CursorSet ==
  ASSUME NEW n \in [Instances -> NavEntry], NEW i \in Instances, NEW c \in Nat,
         NEW moved, moved = [n EXCEPT ![i].cursor = c]
  PROVE  /\ moved \in [Instances -> NavEntry] /\ moved[i].cursor = c /\ moved[i].filter = n[i].filter
         /\ \A j \in Instances \ {i} : moved[j] = n[j]
<1>1. PICK e \in NavEntry : e = n[i]
  OBVIOUS
<1>2. PICK f : f = [e EXCEPT !.cursor = c]
  OBVIOUS
<1>3. f \in NavEntry /\ f.cursor = c /\ f.filter = e.filter
  BY <1>2 DEF NavEntry
<1>4. moved = [n EXCEPT ![i] = f]
  BY <1>1, <1>2
<1>5. QED
  BY <1>1, <1>3, <1>4

LEMMA FreshIsEntry == FreshNav \in NavEntry
BY DEF FreshNav, NavEntry

LEMMA GroupChanges ==
  ASSUME NEW group \in Groups, NEW moved \in [Instances -> NavEntry], GroupChange(group, moved)
  PROVE  /\ currentGroup' = group /\ nav' \in [Instances -> NavEntry]
         /\ nav'["pane-groups"] = moved["pane-groups"]
         /\ nav'["pane-actions"] = IF currentGroup' = currentGroup THEN moved["pane-actions"] ELSE FreshNav
<1>1. currentGroup' = group /\ nav' = IF group = currentGroup THEN moved ELSE ResetGroupContext(moved)
  BY DEF GroupChange
<1>2. /\ "pane-groups" \in Instances /\ "pane-actions" \in Instances
      /\ "pane-groups" \notin ResetOwners /\ "pane-actions" \in ResetOwners
  <2>1. ResetOwners = {"pane-actions", "docker"}
    BY DEF ResetOwners, ResetKinds, ByComponent, Component, Primary
  <2>2. QED
    BY <2>1, Addresses DEF ListPanes
<1>3. ResetGroupContext(moved) \in [Instances -> NavEntry]
  BY FreshIsEntry DEF ResetGroupContext
<1>4. /\ ResetGroupContext(moved)["pane-groups"] = moved["pane-groups"]
      /\ ResetGroupContext(moved)["pane-actions"] = FreshNav
  BY <1>2 DEF ResetGroupContext
<1>5. QED
  BY <1>1, <1>3, <1>4

\* What a gesture ends with: the place it left the user in is recorded if it is
\* another group or pane.
LEMMA CaptureKeeps ==
  ASSUME GroupsInv, GroupsTyped', Capture(currentGroup' # currentGroup \/ focus' # focus)
  PROVE  GroupsInv'
<1> DEFINE moves == currentGroup' # currentGroup \/ focus' # focus
<1>1. ring \in PlaceRings /\ RingTracksHere /\ EveryStepMoves
  BY DEF GroupsInv
<1>2. Moves(ring.history)
  BY <1>1 DEF EveryStepMoves, Moves, Differs
<1>3. ring.cursor >= 0 /\ Nav!At(ring, ring.cursor).group = currentGroup /\ Nav!At(ring, ring.cursor).focus = focus
  BY <1>1 DEF RingTracksHere
<1>4. Here' \in Places
  <2>1. GroupsTyped => Here \in Places
    BY HereIsPlace
  <2>2. (GroupsTyped => Here \in Places)'
    BY HereIsPlace, PTL
  <2>3. QED
    BY <2>2
<1>5. Here'.group = currentGroup' /\ Here'.focus = focus'
  BY DEF Here
<1>6. CASE moves
  <2>1. ring' = Nav!Push(ring, Here')
    BY <1>6 DEF Capture
  <2>2. Differs(Nav!At(ring, ring.cursor), Here')
    BY <1>3, <1>5, <1>6 DEF Differs
  <2>3. /\ ring' \in PlaceRings /\ Moves(ring'.history) /\ ring'.cursor >= 0
        /\ Nav!At(ring', ring'.cursor) = Here'
    BY <1>1, <1>2, <1>4, <2>1, <2>2, PushMoves
  <2>4. RingTracksHere'
    BY <1>5, <2>3 DEF RingTracksHere
  <2>5. EveryStepMoves'
    BY <2>3 DEF EveryStepMoves, Moves, Differs
  <2>6. QED
    BY <2>3, <2>4, <2>5 DEF GroupsInv
<1>7. CASE ~moves
  <2>1. ring' = ring /\ currentGroup' = currentGroup /\ focus' = focus
    BY <1>7 DEF Capture
  <2>2. RingTracksHere' /\ EveryStepMoves'
    BY <1>1, <2>1 DEF RingTracksHere, EveryStepMoves, Nav!At
  <2>3. QED
    BY <1>1, <2>1, <2>2 DEF GroupsInv
<1>8. QED
  BY <1>6, <1>7

\* A gesture that records nothing stays in its group and pane.
LEMMA StillKeeps ==
  ASSUME GroupsInv, GroupsTyped', UNCHANGED <<ring, currentGroup, focus>>
  PROVE  GroupsInv'
<1>1. Capture(currentGroup' # currentGroup \/ focus' # focus)
  BY DEF Capture
<1>2. QED
  BY <1>1, CaptureKeeps

LEMMA SelectGroupKeeps ==
  ASSUME GroupsInv, NEW i \in Nat, SelectGroup(i)
  PROVE  GroupsInv'
<1>1. GroupsTyped /\ list \in Seq(Groups) /\ nav \in [Instances -> NavEntry] /\ i \in 0 .. Len(list) - 1
  BY DEF GroupsInv, GroupsTyped, SelectGroup
<1>2. Len(list) \in Nat /\ i < Len(list)
  BY <1>1, LenProperties
<1>3. PICK g \in Groups : g = list[i + 1]
  BY <1>1, <1>2, RowUnder
<1>4. PICK moved : moved = [nav EXCEPT !["pane-groups"].cursor = i]
  OBVIOUS
<1>5. moved \in [Instances -> NavEntry]
  <2>1. "pane-groups" \in Instances
    BY Addresses DEF ListPanes
  <2>2. QED
    BY <1>1, <1>4, <2>1, CursorSet
<1>6. GroupChange(g, moved)
  BY <1>3, <1>4 DEF SelectGroup
<1>7. currentGroup' = g /\ nav' \in [Instances -> NavEntry]
  BY <1>5, <1>6, GroupChanges
<1>8. /\ slotTab' = "info" \/ slotTab' = slotTab
      /\ UNCHANGED <<expanded, list, quickTab, focus>>
      /\ Capture(currentGroup' # currentGroup)
  BY DEF SelectGroup
<1>9. GroupsTyped'
  BY <1>1, <1>7, <1>8 DEF GroupsTyped, Tabs
<1>10. Capture(currentGroup' # currentGroup \/ focus' # focus)
  BY <1>8 DEF Capture
<1>11. QED
  BY <1>9, <1>10, CaptureKeeps

LEMMA RowsOfTree ==
  ASSUME NEW ex, NEW quick \in BOOLEAN, quick => Quick # {}
  PROVE  RowsOf(ex, quick) \in Seq(Groups) /\ Len(RowsOf(ex, quick)) > 0
<1> DEFINE kept == IF quick THEN Quick ELSE VisibleIn(ex)
<1>1. Order \in Seq(Groups) /\ Order # <<>> /\ Parent[Order[1]] = Root /\ Quick \subseteq Groups
  BY GroupsAssumption
<1>2. Groups = Range(Order)
  BY DEF Groups
<1>3. 1 \in DOMAIN Order
  BY <1>1, EmptySeq, LenProperties
<1>4. \E i \in DOMAIN Order : Order[i] \in kept
  <2>1. CASE quick
    <3>1. PICK g \in Groups : g \in Quick
      BY <1>1, <2>1
    <3>2. QED
      BY <1>2, <2>1, <3>1 DEF Range
  <2>2. CASE ~quick
    <3>1. Order[1] \in Groups
      BY <1>2, <1>3 DEF Range
    <3>2. Order[1] \in VisibleIn(ex)
      BY <1>1, <3>1, TopIsVisible
    <3>3. QED
      BY <1>3, <2>2, <3>2
  <2>3. QED
    BY <2>1, <2>2
<1>5. RowsOf(ex, quick) = Filtered(Order, kept)
  BY DEF RowsOf
<1> HIDE DEF kept
<1>6. /\ Filtered(Order, kept) \in Seq(Groups \cap kept)
      /\ \A i \in DOMAIN Order : Order[i] \in kept => Len(Filtered(Order, kept)) > 0
  BY <1>1, FilteredRows
<1>7. Filtered(Order, kept) \in Seq(Groups)
  BY <1>6, SeqMonotonic
<1>8. QED
  BY <1>4, <1>5, <1>6, <1>7

LEMMA CursorResolved ==
  ASSUME NEW rows \in Seq(Groups), Len(rows) > 0
  PROVE  ResolvedCursor(rows) \in Nat /\ ResolvedCursor(rows) < Len(rows)
<1>1. ResolvedCursor(rows) = 0 \/ \E x \in Range(rows) : ResolvedCursor(rows) = IndexIn(rows, x)
  BY DEF ResolvedCursor
<1>2. \A x \in Range(rows) : IndexIn(rows, x) \in Nat /\ IndexIn(rows, x) < Len(rows)
  BY IndexFound
<1>3. QED
  BY <1>1, <1>2

LEMMA ReshapeKeeps ==
  ASSUME GroupsInv, NEW ex \in SUBSET Groups, NEW quick \in BOOLEAN, quick => Quick # {}, Reshape(ex, quick)
  PROVE  GroupsInv' /\ list'[nav'["pane-groups"].cursor + 1] = currentGroup'
         /\ nav'["pane-actions"] = IF currentGroup' = currentGroup THEN nav["pane-actions"] ELSE FreshNav
<1>1. PICK rows : rows = RowsOf(ex, quick)
  OBVIOUS
<1>2. rows \in Seq(Groups) /\ Len(rows) > 0
  BY <1>1, RowsOfTree
<1>3. PICK c \in Nat : c = ResolvedCursor(rows) /\ c < Len(rows)
  BY <1>2, CursorResolved
<1>4. PICK g \in Groups : g = rows[c + 1]
  BY <1>2, <1>3, RowUnder
<1>5. /\ expanded' = ex /\ quickTab' = quick /\ list' = rows /\ GroupChange(g, Moved(rows, quick))
      /\ slotTab' = "info" /\ UNCHANGED focus /\ Capture(currentGroup' # currentGroup)
  BY <1>1, <1>3, <1>4 DEF Reshape, Reshaped
<1>6. GroupsTyped /\ nav \in [Instances -> NavEntry] /\ "pane-groups" \in Instances /\ "pane-actions" \in Instances
  BY Addresses DEF GroupsInv, GroupsTyped, ListPanes
<1>7. PICK tree \in NavEntry : tree = nav["pane-groups"]
  BY <1>6
<1>8. PICK entry : entry = [cursor |-> c, filter |-> tree.filter,
                           multi |-> IF quick # quickTab THEN {} ELSE tree.multi]
  OBVIOUS
<1>9. entry \in NavEntry /\ entry.cursor = c
  BY <1>8 DEF NavEntry
<1>10. PICK moved : moved = Moved(rows, quick)
  OBVIOUS
<1>11. moved = [nav EXCEPT !["pane-groups"] = entry]
  BY <1>3, <1>7, <1>8, <1>10 DEF Moved
<1>12. /\ moved \in [Instances -> NavEntry] /\ moved["pane-groups"] = entry
       /\ moved["pane-actions"] = nav["pane-actions"]
  BY <1>6, <1>9, <1>11
<1>13. /\ currentGroup' = g /\ nav' \in [Instances -> NavEntry] /\ nav'["pane-groups"] = entry
       /\ nav'["pane-actions"] = IF currentGroup' = currentGroup THEN nav["pane-actions"] ELSE FreshNav
  BY <1>5, <1>10, <1>12, GroupChanges
<1>14. list' # <<>>
  BY <1>2, <1>5, EmptySeq
<1>15. GroupsTyped'
  BY <1>2, <1>5, <1>6, <1>13, <1>14 DEF GroupsTyped, Tabs
<1>16. Capture(currentGroup' # currentGroup \/ focus' # focus)
  BY <1>5 DEF Capture
<1>17. GroupsInv'
  BY <1>15, <1>16, CaptureKeeps
<1>18. QED
  BY <1>4, <1>5, <1>9, <1>13, <1>17

\* A gesture on the tree.
LEMMA TreeGestureKeeps ==
  ASSUME GroupsInv, TreeGesture
  PROVE  /\ GroupsInv' /\ list'[nav'["pane-groups"].cursor + 1] = currentGroup'
         /\ nav'["pane-actions"] = IF currentGroup' = currentGroup THEN nav["pane-actions"] ELSE FreshNav
<1>1. /\ GroupsTyped /\ list \in Seq(Groups) /\ nav \in [Instances -> NavEntry] /\ expanded \subseteq Groups
      /\ quickTab \in BOOLEAN /\ (quickTab => Quick # {})
      /\ "pane-groups" \in Instances /\ "pane-actions" \in Instances
  BY Addresses DEF GroupsInv, GroupsTyped, ListPanes
<1>2. ASSUME NEW j \in DOMAIN list, SelectGroup(j - 1)
      PROVE  /\ GroupsInv' /\ list'[nav'["pane-groups"].cursor + 1] = currentGroup'
             /\ nav'["pane-actions"] = IF currentGroup' = currentGroup THEN nav["pane-actions"] ELSE FreshNav
  <2>1. PICK i \in Nat : i = j - 1 /\ i < Len(list)
    BY <1>1, LenProperties
  <2>2. SelectGroup(i)
    BY <1>2, <2>1
  <2>3. GroupsInv'
    BY <2>2, SelectGroupKeeps
  <2>4. PICK moved : moved = [nav EXCEPT !["pane-groups"].cursor = i]
    OBVIOUS
  <2>5. /\ moved \in [Instances -> NavEntry] /\ moved["pane-groups"].cursor = i
        /\ moved["pane-actions"] = nav["pane-actions"]
    BY <1>1, <2>4, CursorSet
  <2>6. list[i + 1] \in Groups
    BY <1>1, <2>1, RowUnder
  <2>7. GroupChange(list[i + 1], moved) /\ list' = list
    BY <2>2, <2>4 DEF SelectGroup
  <2>8. QED
    BY <2>3, <2>5, <2>6, <2>7, GroupChanges
<1>3. CASE ToggleBranch
  <2>1. /\ focus = "pane-groups" /\ HasItem("groups", focus)
        /\ Reshape(IF ItemAt("groups", focus) \in expanded THEN expanded \ {ItemAt("groups", focus)}
                   ELSE expanded \cup {ItemAt("groups", focus)}, quickTab)
    BY <1>3 DEF ToggleBranch
  <2>2. ItemAt("groups", focus) \in Groups
    BY <1>1, <2>1, ItemTyped DEF Kinds
  <2>3. PICK ex \in SUBSET Groups : Reshape(ex, quickTab)
    BY <1>1, <2>1, <2>2
  <2>4. QED
    BY <1>1, <2>3, ReshapeKeeps
<1>4. CASE SwitchGroupsTab
  <2>1. Quick # {} /\ Reshape(expanded, ~quickTab)
    BY <1>4 DEF SwitchGroupsTab
  <2>2. QED
    BY <1>1, <2>1, ReshapeKeeps
<1>5. QED
  BY <1>2, <1>3, <1>4 DEF TreeGesture

LEMMA MoveCursorKeeps ==
  ASSUME GroupsInv, NEW k \in {"containers", "actions"}, NEW j \in DOMAIN ItemsIn(k, PaneOf[k]), MoveCursor(k, j - 1)
  PROVE  GroupsInv'
<1>1. GroupsTyped /\ nav \in [Instances -> NavEntry]
  BY DEF GroupsInv, GroupsTyped
<1>2. k \in Kinds
  BY DEF Kinds
<1>3. PICK pane \in Instances : pane = PaneOf[k]
  BY <1>2, PanesOfKinds
<1>4. ItemsIn(k, pane) \in Seq(Names)
  BY <1>1, <1>2, ItemTyped
<1>5. PICK c \in Nat : c = j - 1
  BY <1>3, <1>4, LenProperties
<1>6. /\ nav' = [nav EXCEPT ![pane].cursor = c] /\ (slotTab' = "info" \/ slotTab' = slotTab)
      /\ UNCHANGED <<expanded, list, quickTab, currentGroup, focus, ring>>
  BY <1>3, <1>5 DEF MoveCursor
<1>7. nav' \in [Instances -> NavEntry]
  BY <1>1, <1>6, CursorSet
<1>8. GroupsTyped'
  BY <1>1, <1>6, <1>7 DEF GroupsTyped, Tabs
<1>9. QED
  BY <1>6, <1>8, StillKeeps

LEMMA EntrySet ==
  ASSUME NEW i \in Instances, NEW e \in NavEntry, nav \in [Instances -> NavEntry], nav' = [nav EXCEPT ![i] = e]
  PROVE  nav' \in [Instances -> NavEntry]
OBVIOUS

LEMMA CommitFilterKeeps ==
  ASSUME GroupsInv, NEW k \in {"containers", "actions"},
         NEW x \in {NoFilter} \cup Range(RawRows(k, currentGroup)), CommitFilter(k, x)
  PROVE  GroupsInv'
<1>1. GroupsTyped /\ nav \in [Instances -> NavEntry] /\ currentGroup \in Groups
  BY DEF GroupsInv, GroupsTyped
<1>2. /\ focus = PaneOf[k] /\ nav' = [nav EXCEPT ![focus] = [cursor |-> 0, multi |-> {}, filter |-> x]]
      /\ (slotTab' = "info" \/ slotTab' = slotTab)
      /\ UNCHANGED <<expanded, list, quickTab, currentGroup, focus, ring>>
  BY DEF CommitFilter
<1>3. focus \in Instances
  BY <1>2, PanesOfKinds DEF Kinds
<1>4. x \in {NoFilter} \cup Names
  BY <1>1, GroupsAssumption DEF RawRows, Names, NamesOf
<1>5. PICK e \in NavEntry : e = [cursor |-> 0, multi |-> {}, filter |-> x]
  BY <1>4 DEF NavEntry
<1>6. nav' \in [Instances -> NavEntry]
  BY <1>1, <1>2, <1>3, <1>5, EntrySet
<1>7. GroupsTyped'
  BY <1>1, <1>2, <1>6 DEF GroupsTyped, Tabs
<1>8. QED
  BY <1>2, <1>7, StillKeeps

\* A selection is set or cleared.
LEMMA MultiSetKeeps ==
  ASSUME GroupsInv, focus # "slot", NEW m \in SUBSET Names, nav' = [nav EXCEPT ![focus].multi = m],
         UNCHANGED <<expanded, list, quickTab, currentGroup, focus, slotTab, ring>>
  PROVE  GroupsInv'
<1>1. GroupsTyped /\ nav \in [Instances -> NavEntry] /\ focus \in ListPanes
  BY DEF GroupsInv, GroupsTyped
<1>2. focus \in Instances
  BY <1>1, PanesOfKinds
<1>3. PICK e \in NavEntry : e = nav[focus]
  BY <1>1, <1>2
<1>4. PICK f \in NavEntry : f = [e EXCEPT !.multi = m]
  BY DEF NavEntry
<1>5. nav' = [nav EXCEPT ![focus] = f]
  BY <1>3, <1>4
<1>6. nav' \in [Instances -> NavEntry]
  BY <1>1, <1>2, <1>5, EntrySet
<1>7. GroupsTyped'
  BY <1>1, <1>6 DEF GroupsTyped
<1>8. QED
  BY <1>7, StillKeeps

LEMMA ToggleKeeps ==
  ASSUME GroupsInv, ToggleMultiSel
  PROVE  GroupsInv'
<1>1. GroupsTyped /\ focus \in ListPanes /\ nav \in [Instances -> NavEntry]
  BY DEF GroupsInv, GroupsTyped, ToggleMultiSel
<1>2. KindOf(focus) \in Kinds /\ focus \in Instances
  BY <1>1, PanesOfKinds
<1>3. PICK id : id = ItemAt(KindOf(focus), focus)
  OBVIOUS
<1>4. /\ HasItem(KindOf(focus), focus) /\ focus # "slot"
      /\ nav' = [nav EXCEPT ![focus].multi = IF id \in @ THEN @ \ {id} ELSE @ \cup {id}]
      /\ UNCHANGED <<expanded, list, quickTab, currentGroup, focus, slotTab, ring>>
  BY <1>3 DEF ToggleMultiSel
<1>5. id \in Names
  BY <1>1, <1>2, <1>3, <1>4, ItemTyped
<1>6. nav[focus].multi \in SUBSET Names
  BY <1>1, <1>2 DEF NavEntry
<1>7. PICK m \in SUBSET Names : m = IF id \in nav[focus].multi THEN nav[focus].multi \ {id} ELSE nav[focus].multi \cup {id}
  BY <1>5, <1>6
<1>8. nav' = [nav EXCEPT ![focus].multi = m]
  BY <1>4, <1>7
<1>9. QED
  BY <1>4, <1>8, MultiSetKeeps

LEMMA EscapeKeeps ==
  ASSUME GroupsInv, Escape
  PROVE  GroupsInv'
<1>1. /\ focus # "slot" /\ nav' = [nav EXCEPT ![focus].multi = {}]
      /\ UNCHANGED <<expanded, list, quickTab, currentGroup, focus, slotTab, ring>>
  BY DEF Escape
<1>2. PICK m \in SUBSET Names : m = {}
  OBVIOUS
<1>3. QED
  BY <1>1, <1>2, MultiSetKeeps

\* The focus moves, or something is run elsewhere.
LEMMA FocusKeeps ==
  ASSUME GroupsInv, NEW pane, FocusPane(pane)
  PROVE  GroupsInv'
<1>1. /\ pane \in Focusable /\ focus' = pane /\ (slotTab' = "info" \/ slotTab' = slotTab)
      /\ UNCHANGED <<expanded, list, quickTab, nav, currentGroup>> /\ Capture(pane # focus)
  BY DEF FocusPane, FocusOn
<1>2. pane \in ListPanes \cup {"slot"}
  BY <1>1, GroupsAssumption DEF ListPanes
<1>3. GroupsTyped'
  BY <1>1, <1>2 DEF GroupsInv, GroupsTyped, Tabs
<1>4. Capture(currentGroup' # currentGroup \/ focus' # focus)
  BY <1>1 DEF Capture
<1>5. QED
  BY <1>3, <1>4, CaptureKeeps

LEMMA RunKeeps ==
  ASSUME GroupsInv, NEW g \in Groups, RunElsewhere(g) \/ ActivateJob(g)
  PROVE  GroupsInv'
<1>1. CASE RunElsewhere(g)
  <2>1. currentGroup' = g /\ UNCHANGED <<expanded, list, quickTab, nav, focus, slotTab>> /\ Capture(g # currentGroup)
    BY <1>1 DEF RunElsewhere, RunIn
  <2>2. GroupsTyped'
    BY <2>1 DEF GroupsInv, GroupsTyped
  <2>3. Capture(currentGroup' # currentGroup \/ focus' # focus)
    BY <2>1 DEF Capture
  <2>4. QED
    BY <2>2, <2>3, CaptureKeeps
<1>2. CASE ActivateJob(g)
  <2>1. /\ currentGroup' = g /\ slotTab' = "transcript" /\ focus' = "slot"
        /\ UNCHANGED <<expanded, list, quickTab, nav>> /\ Capture(g # currentGroup \/ focus # "slot")
    BY <1>2 DEF ActivateJob
  <2>2. GroupsTyped'
    BY <2>1 DEF GroupsInv, GroupsTyped, Tabs
  <2>3. Capture(currentGroup' # currentGroup \/ focus' # focus)
    BY <2>1 DEF Capture
  <2>4. QED
    BY <2>2, <2>3, CaptureKeeps
<1>3. QED
  BY <1>1, <1>2

LEMMA ShowTabKeeps ==
  ASSUME GroupsInv, NEW t \in Tabs, ShowTab(t)
  PROVE  GroupsInv'
<1>1. slotTab' = t /\ UNCHANGED <<expanded, list, quickTab, nav, currentGroup, focus, ring>>
  BY DEF ShowTab
<1>2. GroupsTyped'
  BY <1>1 DEF GroupsInv, GroupsTyped
<1>3. QED
  BY <1>1, <1>2, StillKeeps

\* The record that a back or a forward goes to.
LEMMA TravelTo ==
  ASSUME GroupsInv, NEW dir \in {-1, 1}, Travel(dir)
  PROVE  \E loc \in Places :
           /\ loc = Nav!At(ring, ring.cursor + dir) /\ Restore(loc)
           /\ ring' \in PlaceRings /\ ring'.history = ring.history /\ ring'.cursor >= 0
           /\ Nav!At(ring', ring'.cursor) = loc
<1>1. ring \in PlaceRings
  BY DEF GroupsInv
<1>2. PICK h \in Seq(Places), c \in Int : h = ring.history /\ c = ring.cursor /\ Len(h) <= Cap
  BY <1>1 DEF PlaceRings
<1>3. PICK d \in Int : d = c + dir
  OBVIOUS
<1>4. d \in 0 .. Len(h) - 1 /\ ring' = Nav!Step(ring, dir) /\ Restore(Nav!At(ring, d))
  BY <1>2, <1>3 DEF Travel, Nav!CanStep
<1>5. Len(h) \in Nat /\ d \in Nat /\ d < Len(h)
  BY <1>4, LenProperties
<1>6. PICK loc \in Places : loc = h[d + 1]
  BY <1>5, RowUnder
<1>7. ring' = [history |-> h, cursor |-> d]
  BY <1>1, <1>2, <1>3, <1>4 DEF Nav!Step, PlaceRings
<1>8. ring'.history = h /\ ring'.cursor = d
  BY <1>7
<1>9. ring' \in PlaceRings
  <2>1. d \in -1 .. Len(h) - 1
    BY <1>4, <1>5
  <2>2. QED
    BY <1>2, <1>7, <1>8, <2>1 DEF PlaceRings
<1>10. loc = Nav!At(ring, d) /\ Nav!At(ring', d) = loc
  BY <1>2, <1>6, <1>8 DEF Nav!At
<1>11. QED
  BY <1>2, <1>3, <1>4, <1>5, <1>8, <1>9, <1>10

\* What is restored: the place, and the cursor of its pane on its row.
LEMMA RestoresPlace ==
  ASSUME GroupsTyped, NEW loc \in Places, Restore(loc)
  PROVE  /\ UNCHANGED <<expanded, list, quickTab>> /\ currentGroup' = loc.group /\ focus' = loc.focus
         /\ nav' \in [Instances -> NavEntry] /\ slotTab' \in Tabs
         /\ loc.tab # NoTab => slotTab' = loc.tab
         /\ loc.sel # NoSel =>
              LET inst == ByKind(loc.sel.kind)
                  items == RowsAmong(list, loc.sel.kind, loc.group, nav[inst].filter)
              IN  /\ loc.sel.kind \in Kinds /\ inst \in Instances /\ items \in Seq(Names)
                  /\ nav'[inst].filter = nav[inst].filter
                  /\ loc.sel.id \in Range(items) => nav'[inst].cursor = IndexIn(items, loc.sel.id)
<1>1. /\ loc.group \in Groups /\ loc.focus \in ListPanes \cup {"slot"} /\ loc.tab \in Tabs \cup {NoTab}
      /\ loc.sel # NoSel => loc.sel.kind \in Kinds
  BY Addresses DEF Places, Located
<1>2. nav \in [Instances -> NavEntry] /\ slotTab \in Tabs /\ list \in Seq(Groups)
  BY DEF GroupsTyped
<1>3. PICK inst : inst = ByKind(loc.sel.kind)
  OBVIOUS
<1>4. PICK items : items = RowsAmong(list, loc.sel.kind, loc.group, nav[inst].filter)
  OBVIOUS
<1>5. PICK index : index = IF loc.sel.id \in Range(items) THEN IndexIn(items, loc.sel.id) ELSE 0
  OBVIOUS
<1>6. items = Listed(loc.sel.kind, loc.group, nav[inst].filter)
  BY <1>4 DEF Listed, RowsAmong
<1>7. /\ UNCHANGED <<expanded, list, quickTab>> /\ currentGroup' = loc.group /\ focus' = loc.focus
      /\ nav' = IF loc.sel = NoSel THEN nav ELSE [nav EXCEPT ![inst].cursor = index]
      /\ IF loc.tab # NoTab THEN slotTab' = loc.tab ELSE slotTab' = "info" \/ slotTab' = slotTab
  BY <1>3, <1>5, <1>6 DEF Restore, RestoreTo
<1>8. ASSUME loc.sel # NoSel
      PROVE  /\ inst \in Instances /\ items \in Seq(Names) /\ nav' \in [Instances -> NavEntry]
             /\ nav'[inst].filter = nav[inst].filter /\ nav'[inst].cursor = index
  <2>1. inst \in Instances /\ items \in Seq(Names)
    BY <1>1, <1>2, <1>3, <1>4, <1>8, PanesOfKinds, RowsTyped
  <2>2. index \in Nat
    BY <1>5, <2>1, IndexFound
  <2>3. nav' = [nav EXCEPT ![inst].cursor = index]
    BY <1>7, <1>8
  <2>4. QED
    BY <1>2, <2>1, <2>2, <2>3, CursorSet
<1>9. nav' \in [Instances -> NavEntry]
  BY <1>2, <1>7, <1>8
<1>10. slotTab' \in Tabs /\ (loc.tab # NoTab => slotTab' = loc.tab)
  BY <1>1, <1>2, <1>7 DEF Tabs
<1>11. QED
  BY <1>1, <1>3, <1>4, <1>5, <1>7, <1>8, <1>9, <1>10

LEMMA TravelKeeps ==
  ASSUME GroupsInv, NEW dir \in {-1, 1}, Travel(dir)
  PROVE  GroupsInv'
<1>1. PICK loc \in Places :
        /\ Restore(loc) /\ ring' \in PlaceRings /\ ring'.history = ring.history /\ ring'.cursor >= 0
        /\ Nav!At(ring', ring'.cursor) = loc
  BY TravelTo
<1>2. GroupsTyped /\ EveryStepMoves
  BY DEF GroupsInv
<1>3. /\ UNCHANGED <<expanded, list, quickTab>> /\ currentGroup' = loc.group /\ focus' = loc.focus
      /\ nav' \in [Instances -> NavEntry] /\ slotTab' \in Tabs
  BY <1>1, <1>2, RestoresPlace
<1>4. loc.group \in Groups /\ loc.focus \in ListPanes \cup {"slot"}
  BY Addresses DEF Places, Located
<1>5. GroupsTyped'
  BY <1>2, <1>3, <1>4 DEF GroupsTyped
<1>6. RingTracksHere'
  BY <1>1, <1>3 DEF RingTracksHere
<1>7. EveryStepMoves'
  BY <1>1, <1>2 DEF EveryStepMoves
<1>8. QED
  BY <1>1, <1>5, <1>6, <1>7 DEF GroupsInv

LEMMA GroupsInit == Init => GroupsInv
<1> SUFFICES ASSUME Init PROVE GroupsInv
  OBVIOUS
<1>1. /\ expanded = {} /\ list = RowsOf({}, FALSE) /\ quickTab = FALSE
      /\ nav = [i \in Instances |-> FreshNav] /\ currentGroup = Order[1] /\ focus = "pane-groups"
      /\ slotTab = "info" /\ ring = Nav!Push(Nav!Empty, Here)
  BY DEF Init, Boot
<1>2. list \in Seq(Groups) /\ Len(list) > 0
  BY <1>1, RowsOfTree
<1>3. list # <<>>
  BY <1>2, EmptySeq
<1>4. Order[1] \in Groups
  <2>1. Order \in Seq(Groups) /\ Order # <<>>
    BY GroupsAssumption
  <2>2. 1 \in 1 .. Len(Order)
    BY <2>1, EmptySeq
  <2>3. QED
    BY <2>1, <2>2, ElementOfSeq
<1>5. GroupsTyped
  BY <1>1, <1>2, <1>3, <1>4, FreshIsEntry DEF GroupsTyped, ListPanes, Tabs
<1>6. Here \in Places
  BY <1>5, HereIsPlace
<1>7. PICK r \in PlaceRings : r = Nav!Empty /\ r.history = <<>> /\ r.cursor = -1
  <2>1. Nav!Empty = [history |-> <<>>, cursor |-> -1]
    BY DEF Nav!Empty
  <2>2. <<>> \in Seq(Places) /\ Len(<<>>) = 0 /\ Cap \in Nat
    BY EmptySeq, GroupsAssumption
  <2>3. Nav!Empty \in PlaceRings
    BY <2>1, <2>2 DEF PlaceRings
  <2>4. QED
    BY <2>1, <2>3
<1>8. Moves(r.history)
  <2>1. Len(r.history) = 0
    BY <1>7, EmptySeq
  <2>2. QED
    BY <2>1 DEF Moves
<1>9. ring \in PlaceRings /\ Moves(ring.history) /\ ring.cursor >= 0 /\ Nav!At(ring, ring.cursor) = Here
  <2>1. ~(r.cursor >= 0)
    BY <1>7
  <2>2. QED
    BY <1>1, <1>6, <1>7, <1>8, <2>1, PushMoves
<1>10. RingTracksHere
  BY <1>9 DEF RingTracksHere, Here
<1>11. EveryStepMoves
  BY <1>9 DEF EveryStepMoves, Moves, Differs
<1>12. QED
  BY <1>5, <1>9, <1>10, <1>11 DEF GroupsInv

LEMMA GroupsNext == GroupsInv /\ [Next]_vars => GroupsInv'
<1> SUFFICES ASSUME GroupsInv, [Next]_vars PROVE GroupsInv'
  OBVIOUS
<1>1. CASE TreeGesture
  BY <1>1, TreeGestureKeeps
<1>2. CASE PaneGesture
  BY <1>2, MoveCursorKeeps, CommitFilterKeeps DEF PaneGesture
<1>3. ASSUME NEW p \in Focusable, FocusPane(p) PROVE GroupsInv'
  BY <1>3, FocusKeeps
<1>4. CASE ToggleMultiSel \/ Escape
  BY <1>4, ToggleKeeps, EscapeKeeps
<1>5. ASSUME NEW g \in Groups, RunElsewhere(g) \/ ActivateJob(g) PROVE GroupsInv'
  BY <1>5, RunKeeps
<1>6. ASSUME NEW t \in Tabs, ShowTab(t) PROVE GroupsInv'
  BY <1>6, ShowTabKeeps
<1>7. CASE NavBack \/ NavForward
  BY <1>7, TravelKeeps DEF NavBack, NavForward
<1>8. CASE UNCHANGED vars
  <2>1. UNCHANGED <<expanded, list, quickTab, nav, currentGroup, focus, slotTab, ring>>
    BY <1>8 DEF vars
  <2>2. GroupsTyped'
    BY <2>1 DEF GroupsInv, GroupsTyped
  <2>3. QED
    BY <2>1, <2>2, StillKeeps
<1>9. QED
  BY <1>1, <1>2, <1>3, <1>4, <1>5, <1>6, <1>7, <1>8 DEF Next

LEMMA GroupsAlways == Spec => []GroupsInv
BY GroupsInit, GroupsNext, PTL DEF Spec

\* Wherever a gesture leaves the user, through whatever cascade, the jumplist's
\* cursor is on a record of that group and pane.
THEOREM RingAlwaysTracks == Spec => []RingTracksHere
<1>1. GroupsInv => RingTracksHere
  BY DEF GroupsInv
<1>2. QED
  BY <1>1, GroupsAlways, PTL

\* No back or forward leaves the user in the group and pane they are in.
THEOREM StepsAlwaysMove == Spec => []EveryStepMoves
<1>1. GroupsInv => EveryStepMoves
  BY DEF GroupsInv
<1>2. QED
  BY <1>1, GroupsAlways, PTL

\* After a gesture on the tree its cursor is on the row of the current group,
\* whatever the gesture made of the list.
THEOREM TreeAlwaysShowsGroup == Spec => TreeShowsGroup
<1>1. GroupsInv /\ [Next]_vars =>
        [TreeGesture => list'[nav'["pane-groups"].cursor + 1] = currentGroup']_vars
  BY TreeGestureKeeps
<1>2. QED
  BY <1>1, GroupsAlways, PTL DEF Spec, TreeShowsGroup

\* The actions pane starts over when the tree changes the group, and is left alone
\* when it does not.
THEOREM ActionsAlwaysStartOver == Spec => ActionsStartOver
<1>1. GroupsInv /\ [Next]_vars =>
        [TreeGesture => nav'["pane-actions"] =
           IF currentGroup' = currentGroup THEN nav["pane-actions"] ELSE FreshNav]_vars
  BY TreeGestureKeeps
<1>2. QED
  BY <1>1, GroupsAlways, PTL DEF Spec, ActionsStartOver

\* A back or a forward lands in the group and the pane of its record, on its tab,
\* and with its row selected if the pane still lists it.
LEMMA TravelLandsThere ==
  ASSUME GroupsInv, NEW dir \in {-1, 1}, Travel(dir)
  PROVE  \E loc \in {Nav!At(ring, ring.cursor + dir)} :
           /\ currentGroup' = loc.group
           /\ focus' = loc.focus
           /\ loc.tab # NoTab => slotTab' = loc.tab
           /\ loc.sel # NoSel /\ loc.sel.id \in Range(ItemsIn(loc.sel.kind, ByKind(loc.sel.kind)))'
                => Here'.sel = loc.sel
<1>1. PICK loc \in Places : loc = Nav!At(ring, ring.cursor + dir) /\ Restore(loc)
  BY TravelTo
<1>2. GroupsTyped
  BY DEF GroupsInv
<1>3. /\ UNCHANGED <<expanded, list, quickTab>> /\ currentGroup' = loc.group /\ focus' = loc.focus
      /\ nav' \in [Instances -> NavEntry] /\ (loc.tab # NoTab => slotTab' = loc.tab)
  BY <1>1, <1>2, RestoresPlace
<1>4. ASSUME loc.sel # NoSel, loc.sel.id \in Range(ItemsIn(loc.sel.kind, ByKind(loc.sel.kind)))'
      PROVE  Here'.sel = loc.sel
  <2>1. PICK k \in Kinds, id \in {loc.sel.id} : k = loc.sel.kind /\ id = loc.sel.id /\ loc.sel = [kind |-> k, id |-> id]
    BY <1>4 DEF Places, Located
  <2>2. loc.focus # "slot" /\ KindOf(loc.focus) = k
    BY <1>4, <2>1 DEF Places
  <2>3. PICK inst \in Instances : inst = ByKind(k)
    BY PanesOfKinds
  <2>4. PICK items \in Seq(Names) : items = RowsAmong(list, k, loc.group, nav[inst].filter)
    BY <1>1, <1>2, <1>4, <2>1, <2>3, RestoresPlace
  <2>5. /\ nav'[inst].filter = nav[inst].filter
        /\ id \in Range(items) => nav'[inst].cursor = IndexIn(items, id)
    BY <1>1, <1>2, <1>4, <2>1, <2>3, <2>4, RestoresPlace
  <2>6. ItemsIn(k, inst)' = items
    BY <1>3, <2>4, <2>5 DEF ItemsIn, Listed, RowsAmong, RawRows
  <2>7. id \in Range(items)
    BY <1>4, <2>1, <2>3, <2>6
  <2>8. /\ nav'[inst].cursor < Len(items) /\ items[nav'[inst].cursor + 1] = id
    BY <2>5, <2>7, IndexFound
  <2>9. HasItem(k, inst)' /\ ItemAt(k, inst)' = id
    BY <2>6, <2>8 DEF HasItem, ItemAt
  <2>10. Here'.sel = IF HasItem(k, inst)' THEN [kind |-> k, id |-> ItemAt(k, inst)'] ELSE NoSel
    BY <1>3, <2>2, <2>3 DEF Here
  <2>11. QED
    BY <2>1, <2>9, <2>10
<1>5. QED
  BY <1>1, <1>3, <1>4

\* A back or a forward leads to the group and pane of the record, to its tab, and to
\* its row when that row is still listed.
THEOREM TravelAlwaysLands == Spec => TravelLands
<1>1. GroupsInv /\ [Next]_vars =>
        [\A dir \in {-1, 1} : Travel(dir) =>
           \E loc \in {Nav!At(ring, ring.cursor + dir)} :
             /\ currentGroup' = loc.group
             /\ focus' = loc.focus
             /\ loc.tab # NoTab => slotTab' = loc.tab
             /\ loc.sel # NoSel /\ loc.sel.id \in Range(ItemsIn(loc.sel.kind, ByKind(loc.sel.kind)))'
                  => Here'.sel = loc.sel]_vars
  BY TravelLandsThere
<1>2. QED
  BY <1>1, GroupsAlways, PTL DEF Spec, TravelLands

\* The jumplist keeps its shape under every gesture, and so do the panes.
THEOREM NavigatorAlwaysTyped == Spec => []TypeOK
<1>1. ASSUME GroupsInv PROVE TypeOK
  <2>1. GroupsTyped /\ ring \in PlaceRings /\ ring.cursor >= 0
    BY <1>1 DEF GroupsInv, RingTracksHere
  <2>2. /\ ring \in [history : Seq(Places), cursor : Int] /\ Len(ring.history) <= Cap
        /\ ring.cursor \in -1 .. Len(ring.history) - 1
    BY <2>1 DEF PlaceRings
  <2>3. ring.history \in Seq(Located)
    <3>1. Places \subseteq Located
      BY DEF Places
    <3>2. QED
      BY <2>2, <3>1, SeqMonotonic
  <2>4. Nav!RingOK
    BY <2>1, <2>2, <2>3 DEF Nav!RingOK
  <2>5. DOMAIN nav = Instances /\ \A i \in Instances : nav[i].cursor \in Nat
    BY <2>1 DEF GroupsTyped, NavEntry
  <2>6. QED
    BY <2>1, <2>4, <2>5, Addresses DEF TypeOK, GroupsTyped
<1>2. GroupsInv => TypeOK
  BY <1>1
<1>3. QED
  BY <1>2, GroupsAlways, PTL

=============================================================================
