------------------------- MODULE NavHistory_proofs --------------------------
(* Proofs about NavHistory, for every set of locations and every cap: the ring *)
(* keeps its shape, and with its cursor implements BrowserHistory.             *)
EXTENDS NavHistory, SequenceTheorems, TLAPS

(* What RingOK asks of a ring, as a property of a value.                       *)
Rings == {r \in [history : Seq(Locations), cursor : Int] :
            /\ Len(r.history) <= Cap
            /\ r.cursor \in -1 .. Len(r.history) - 1
            /\ r.history # <<>> => r.cursor >= 0}

LEMMA RingOKIsRings == RingOK <=> ring \in Rings
BY DEF RingOK, Rings

LEMMA CapIsPositive == Cap \in Nat /\ Cap > 0
BY CapAssumption

(* The three pieces of a push.                                                 *)
LEMMA ExtendedShape ==
  ASSUME NEW r \in Rings, NEW loc \in Locations
  PROVE  /\ Extended(r, loc) \in Seq(Locations)
         /\ Len(Extended(r, loc)) = r.cursor + 2
         /\ Len(Extended(r, loc)) <= Cap + 1
<1>1. r.history \in Seq(Locations) /\ r.cursor \in Int /\ Len(r.history) \in Nat
  BY LenProperties DEF Rings
<1>2. r.cursor >= -1 /\ r.cursor + 1 <= Len(r.history) /\ Len(r.history) <= Cap
  BY <1>1 DEF Rings
<1>3. \A i \in 1 .. r.cursor + 1 : r.history[i] \in Locations
  BY <1>1, <1>2, ElementOfSeq
<1>4. /\ SubSeq(r.history, 1, r.cursor + 1) \in Seq(Locations)
      /\ Len(SubSeq(r.history, 1, r.cursor + 1)) = r.cursor + 1
  <2>1. r.cursor + 1 \in Int
    BY <1>1
  <2>2. CASE 1 <= r.cursor + 1
    BY <1>1, <1>3, <2>1, <2>2, SubSeqProperties
  <2>3. CASE r.cursor + 1 < 1
    <3>1. SubSeq(r.history, 1, r.cursor + 1) = <<>>
      BY <2>1, <2>3, SubSeqEmpty
    <3>2. r.cursor + 1 = 0
      BY <1>1, <1>2, <2>3
    <3>3. QED
      BY <3>1, <3>2, EmptySeq
  <2>4. QED
    BY <1>1, <2>2, <2>3
<1>5. QED
  BY <1>1, <1>2, <1>4, AppendProperties, CapIsPositive DEF Extended

LEMMA NewestShape ==
  ASSUME NEW s \in Seq(Locations), s # <<>>
  PROVE  /\ Newest(s) \in Seq(Locations)
         /\ Len(Newest(s)) <= Cap
         /\ Len(Newest(s)) > 0
<1>1. Len(s) \in Nat /\ Len(s) > 0
  BY EmptySeq, LenProperties
<1>2. CASE Len(s) > Cap
  <2>1. \A i \in Len(s) - Cap + 1 .. Len(s) : s[i] \in Locations
    BY <1>1, <1>2, CapIsPositive, ElementOfSeq
  <2>2. Len(s) - Cap + 1 \in Int /\ Len(s) \in Int /\ Len(s) - Cap + 1 <= Len(s)
    BY <1>1, CapIsPositive
  <2>3. /\ SubSeq(s, Len(s) - Cap + 1, Len(s)) \in Seq(Locations)
        /\ Len(SubSeq(s, Len(s) - Cap + 1, Len(s))) = Len(s) - (Len(s) - Cap + 1) + 1
    BY <2>1, <2>2, SubSeqProperties
  <2>4. QED
    BY <1>1, <1>2, <2>3, CapIsPositive DEF Newest
<1>3. CASE ~(Len(s) > Cap)
  BY <1>1, <1>3, CapIsPositive DEF Newest
<1>4. QED
  BY <1>2, <1>3

(* A push, a step and a pruning keep a ring a ring.                            *)
LEMMA PushKeepsRing ==
  ASSUME NEW r \in Rings, NEW loc \in Locations
  PROVE  Push(r, loc) \in Rings
<1>1. CASE IsCurrent(r, loc)
  BY <1>1 DEF Push
<1>2. CASE ~IsCurrent(r, loc)
  <2> DEFINE kept == Newest(Extended(r, loc))
  <2>1. Extended(r, loc) \in Seq(Locations) /\ Extended(r, loc) # <<>>
    BY ExtendedShape, AppendProperties, EmptySeq DEF Rings
  <2>2. kept \in Seq(Locations) /\ Len(kept) <= Cap /\ Len(kept) > 0
    BY <2>1, NewestShape
  <2>3. Len(kept) \in Nat
    BY <2>2, LenProperties
  <2>4. Push(r, loc) = [history |-> kept, cursor |-> Len(kept) - 1]
    BY <1>2 DEF Push
  <2> HIDE DEF kept
  <2>5. QED
    BY <2>2, <2>3, <2>4 DEF Rings
<1>3. QED
  BY <1>1, <1>2

LEMMA StepKeepsRing ==
  ASSUME NEW r \in Rings, NEW dir \in {-1, 1}, CanStep(r, dir)
  PROVE  Step(r, dir) \in Rings
<1>1. r.history \in Seq(Locations) /\ r.cursor \in Int /\ Len(r.history) \in Nat
  BY LenProperties DEF Rings
<1>2. r.cursor + dir \in 0 .. Len(r.history) - 1
  BY DEF CanStep
<1>3. Step(r, dir) = [history |-> r.history, cursor |-> r.cursor + dir]
  BY DEF Step, Rings
<1>4. QED
  BY <1>1, <1>2, <1>3 DEF Rings

LEMMA PruneKeepsRing ==
  ASSUME NEW r \in Rings, r.cursor >= 0
  PROVE  Prune(r, r.cursor) \in Rings
<1> DEFINE s == r.history
           c == r.cursor
           left == SubSeq(s, 1, c)
           right == SubSeq(s, c + 2, Len(s))
<1>1. s \in Seq(Locations) /\ c \in Int /\ Len(s) \in Nat
  BY LenProperties DEF Rings
<1>2. c \in 0 .. Len(s) - 1 /\ Len(s) <= Cap
  BY <1>1 DEF Rings
<1>3. left \in Seq(Locations) /\ Len(left) = c
  <2>1. \A i \in 1 .. c : s[i] \in Locations
    BY <1>1, <1>2, ElementOfSeq
  <2>2. QED
    BY <1>1, <1>2, <2>1, SubSeqProperties
<1>4. right \in Seq(Locations) /\ Len(right) = Len(s) - c - 1
  <2>1. \A i \in c + 2 .. Len(s) : s[i] \in Locations
    BY <1>1, <1>2, ElementOfSeq
  <2>2. QED
    BY <1>1, <1>2, <2>1, SubSeqProperties
<1> DEFINE rest == left \o right
           place == IF c >= Len(rest) THEN Len(rest) - 1 ELSE c
<1>5. rest \in Seq(Locations) /\ Len(rest) = Len(s) - 1
  BY <1>1, <1>2, <1>3, <1>4, ConcatProperties
<1>6. Prune(r, c) = [history |-> rest, cursor |-> place]
  <2>1. ~(r.cursor > c)
    BY <1>1
  <2>2. QED
    BY <2>1, Zenon DEF Prune
<1> HIDE DEF rest
<1>7. Len(rest) \in Nat /\ Len(rest) <= Cap
  BY <1>1, <1>2, <1>5, CapIsPositive
<1>8. rest # <<>> => Len(rest) > 0
  BY <1>5, EmptySeq
<1>9. place \in -1 .. Len(rest) - 1 /\ (rest # <<>> => place >= 0)
  BY <1>2, <1>7, <1>8
<1> HIDE DEF place
<1>10. QED
  BY <1>5, <1>6, <1>7, <1>9 DEF Rings

-----------------------------------------------------------------------------
(* The ring keeps its shape: at most Cap locations, the cursor on one of them. *)
THEOREM RingAlwaysOK == NavSpec => []RingOK
<1>1. NavInit => RingOK
  BY CapIsPositive, EmptySeq DEF NavInit, Empty, RingOK
<1>2. ASSUME RingOK, [NavNext]_ring PROVE RingOK'
  <2>1. ring \in Rings
    BY <1>2, RingOKIsRings
  <2>2. ASSUME Record PROVE ring' \in Rings
    BY <2>1, <2>2, PushKeepsRing DEF Record
  <2>3. ASSUME Back PROVE ring' \in Rings
    BY <2>1, <2>3, StepKeepsRing DEF Back, Travel
  <2>4. ASSUME Forward PROVE ring' \in Rings
    BY <2>1, <2>4, StepKeepsRing DEF Forward, Travel
  <2>5. ASSUME Forget PROVE ring' \in Rings
    BY <2>1, <2>5, PruneKeepsRing DEF Forget
  <2>6. ring' \in Rings
    BY <1>2, <2>1, <2>2, <2>3, <2>4, <2>5 DEF NavNext
  <2>7. QED
    BY <2>6 DEF RingOK, Rings
<1>3. QED
  BY <1>1, <1>2, PTL DEF NavSpec

-----------------------------------------------------------------------------
(* The ring implements the browser's two stacks.  What the stacks are of a    *)
(* ring, as functions of its value, so that a step relates two values.        *)
BehindOf(r) == SubSeq(r.history, 1, r.cursor)
ShownOf(r)  == IF r.cursor < 0 THEN <<>> ELSE <<At(r, r.cursor)>>
AheadOf(r)  == SubSeq(r.history, r.cursor + 2, Len(r.history))

LEMMA Pieces ==
  ASSUME NEW r \in Rings, r.cursor >= 0
  PROVE  LET h == r.history
             c == r.cursor
         IN  /\ h \in Seq(Locations) /\ c \in Nat /\ Len(h) \in Nat /\ c < Len(h) /\ Len(h) <= Cap
             /\ BehindOf(r) \in Seq(Locations) /\ Len(BehindOf(r)) = c
             /\ \A i \in 1 .. c : BehindOf(r)[i] = h[i]
             /\ AheadOf(r) \in Seq(Locations) /\ Len(AheadOf(r)) = Len(h) - c - 1
             /\ \A i \in 1 .. Len(h) - c - 1 : AheadOf(r)[i] = h[c + 1 + i]
             /\ ShownOf(r) = <<h[c + 1]>> /\ h[c + 1] \in Locations
<1> DEFINE h == r.history
           c == r.cursor
<1>1. h \in Seq(Locations) /\ c \in Nat /\ Len(h) \in Nat /\ c < Len(h) /\ Len(h) <= Cap
  BY LenProperties DEF Rings
<1>2. \A i \in 1 .. Len(h) : h[i] \in Locations
  BY <1>1, ElementOfSeq
<1>3. ShownOf(r) = <<h[c + 1]>>
  BY <1>1 DEF ShownOf, At
<1>4. BehindOf(r) = SubSeq(h, 1, c) /\ AheadOf(r) = SubSeq(h, c + 2, Len(h))
  BY DEF BehindOf, AheadOf
<1> HIDE DEF h, c
<1>5. /\ SubSeq(h, 1, c) \in Seq(Locations) /\ Len(SubSeq(h, 1, c)) = c
      /\ \A i \in 1 .. c : SubSeq(h, 1, c)[i] = h[i]
  <2>1. \A i \in 1 .. c : h[i] \in Locations
    BY <1>1, <1>2
  <2>2. QED
    BY <1>1, <2>1, SubSeqProperties
<1>6. /\ SubSeq(h, c + 2, Len(h)) \in Seq(Locations)
      /\ Len(SubSeq(h, c + 2, Len(h))) = Len(h) - c - 1
      /\ \A i \in 1 .. Len(h) - c - 1 : SubSeq(h, c + 2, Len(h))[i] = h[c + 1 + i]
  <2>1. \A i \in c + 2 .. Len(h) : h[i] \in Locations
    BY <1>1, <1>2
  <2>2. c + 2 \in Int /\ Len(h) \in Int
    BY <1>1
  <2>3. /\ SubSeq(h, c + 2, Len(h)) \in Seq(Locations)
        /\ Len(SubSeq(h, c + 2, Len(h))) = IF c + 2 <= Len(h) THEN Len(h) - (c + 2) + 1 ELSE 0
        /\ \A i \in 1 .. Len(h) - (c + 2) + 1 : SubSeq(h, c + 2, Len(h))[i] = h[c + 2 + i - 1]
    BY <2>1, <2>2, SubSeqProperties
  <2>4. Len(h) - (c + 2) + 1 = Len(h) - c - 1 /\ \A i \in Int : c + 2 + i - 1 = c + 1 + i
    BY <1>1
  <2>5. Len(SubSeq(h, c + 2, Len(h))) = Len(h) - c - 1
    <3> DEFINE n == Len(h)
               m == Len(SubSeq(h, c + 2, Len(h)))
    <3>1. n \in Nat /\ c \in Nat /\ c < n /\ m = IF c + 2 <= n THEN n - (c + 2) + 1 ELSE 0
      BY <1>1, <2>3
    <3> HIDE DEF n, m
    <3>2. m = n - c - 1
      BY <3>1
    <3>3. QED
      BY <3>2 DEF n, m
  <2>6. ASSUME NEW i \in 1 .. Len(h) - c - 1
        PROVE  SubSeq(h, c + 2, Len(h))[i] = h[c + 1 + i]
    <3>1. i \in 1 .. Len(h) - (c + 2) + 1 /\ c + 2 + i - 1 = c + 1 + i
      BY <1>1, <2>4
    <3>2. SubSeq(h, c + 2, Len(h))[i] = h[c + 2 + i - 1]
      BY <2>3, <3>1
    <3>3. QED
      BY <3>1, <3>2
  <2>7. QED
    BY <2>3, <2>5, <2>6
<1>7. c + 1 \in 1 .. Len(h)
  BY <1>1
<1>8. QED
  BY <1>1, <1>2, <1>3, <1>4, <1>5, <1>6, <1>7 DEF h, c

(* A ring without a place under its cursor is the empty one.                   *)
LEMMA NoPiece ==
  ASSUME NEW r \in Rings, r.cursor < 0
  PROVE  r.history = <<>> /\ r.cursor = -1 /\ BehindOf(r) = <<>> /\ ShownOf(r) = <<>> /\ AheadOf(r) = <<>>
<1>1. r.history \in Seq(Locations) /\ r.cursor \in Int /\ Len(r.history) \in Nat
  BY LenProperties DEF Rings
<1>2. r.cursor = -1 /\ r.history = <<>>
  BY <1>1 DEF Rings
<1>3. QED
  BY <1>2, SubSeqEmpty, EmptySeq DEF BehindOf, ShownOf, AheadOf

LEMMA BackMoves ==
  ASSUME NEW r \in Rings, CanStep(r, -1)
  PROVE  LET q == Step(r, -1)
         IN  /\ BehindOf(r) # <<>> /\ BehindOf(q) = Front(BehindOf(r))
             /\ ShownOf(q) = <<Last(BehindOf(r))>> /\ AheadOf(q) = ShownOf(r) \o AheadOf(r)
<1> DEFINE q == Step(r, -1)
           h == r.history
           c == r.cursor
<1>1. q \in Rings /\ q.history = h /\ q.cursor = c - 1 /\ c \in Int /\ c - 1 \in 0 .. Len(h) - 1
  BY StepKeepsRing DEF CanStep, Step, Rings
<1> HIDE DEF q
<1>2. c >= 1 /\ c - 1 >= 0 /\ c >= 0
  BY <1>1
<1>3. /\ h \in Seq(Locations) /\ c \in Nat /\ Len(h) \in Nat /\ c < Len(h)
      /\ BehindOf(r) \in Seq(Locations) /\ Len(BehindOf(r)) = c
      /\ \A i \in 1 .. c : BehindOf(r)[i] = h[i]
      /\ ShownOf(r) = <<h[c + 1]>> /\ AheadOf(r) = SubSeq(h, c + 2, Len(h))
  BY <1>2, Pieces DEF AheadOf
<1>4. /\ BehindOf(q) \in Seq(Locations) /\ Len(BehindOf(q)) = c - 1
      /\ \A i \in 1 .. c - 1 : BehindOf(q)[i] = h[i]
      /\ ShownOf(q) = <<h[c - 1 + 1]>> /\ AheadOf(q) = SubSeq(h, c - 1 + 2, Len(h))
  BY <1>1, <1>2, Pieces DEF AheadOf
<1> HIDE DEF h, c
<1>5. BehindOf(r) # <<>>
  BY <1>2, <1>3, EmptySeq
<1>6. ShownOf(q) = <<Last(BehindOf(r))>>
  <2>1. c - 1 + 1 = c /\ c \in 1 .. c
    BY <1>2, <1>3
  <2>2. QED
    BY <1>3, <1>4, <2>1 DEF Last
<1>7. BehindOf(q) = Front(BehindOf(r))
  <2> DEFINE b == BehindOf(r)
             f == SubSeq(b, 1, c - 1)
  <2>1. b \in Seq(Locations) /\ \A i \in 1 .. c - 1 : b[i] \in Locations
    BY <1>3, ElementOfSeq
  <2>2. 1 \in Int /\ c - 1 \in Int
    BY <1>3
  <2>3. \A i \in 1 .. c - 1 : b[i] = h[i]
    BY <1>2, <1>3
  <2>4. Front(b) = f
    BY <1>3 DEF Front
  <2> HIDE DEF b
  <2>5. /\ f \in Seq(Locations) /\ Len(f) = IF 1 <= c - 1 THEN c - 1 - 1 + 1 ELSE 0
        /\ \A i \in 1 .. c - 1 - 1 + 1 : f[i] = b[1 + i - 1]
    BY <2>1, <2>2, SubSeqProperties
  <2> HIDE DEF f
  <2>6. Len(f) = c - 1
    BY <1>2, <1>3, <2>5
  <2>7. \A i \in 1 .. c - 1 : f[i] = h[i]
    <3>1. c - 1 - 1 + 1 = c - 1 /\ \A i \in Int : 1 + i - 1 = i
      BY <1>3
    <3>2. QED
      BY <2>3, <2>5, <3>1
  <2>8. BehindOf(q) = f
    BY <1>4, <2>5, <2>6, <2>7, SeqEqual
  <2>9. QED
    BY <2>4, <2>8 DEF b
<1>8. AheadOf(q) = ShownOf(r) \o AheadOf(r)
  <2>1. c + 1 \in 1 .. Len(h) /\ Len(h) \in c + 1 .. Len(h)
    BY <1>2, <1>3
  <2>2. SubSeq(h, c + 1, Len(h)) = <<h[c + 1]>> \o SubSeq(h, c + 1 + 1, Len(h))
    BY <1>3, <2>1, SubSeqRecursiveFirst
  <2>3. c - 1 + 2 = c + 1 /\ c + 1 + 1 = c + 2
    BY <1>3
  <2>4. QED
    BY <1>3, <1>4, <2>2, <2>3
<1>9. QED
  BY <1>5, <1>6, <1>7, <1>8 DEF q

LEMMA ForwardMoves ==
  ASSUME NEW r \in Rings, CanStep(r, 1)
  PROVE  LET q == Step(r, 1)
         IN  /\ AheadOf(r) # <<>> /\ BehindOf(q) = BehindOf(r) \o ShownOf(r)
             /\ ShownOf(q) = <<Head(AheadOf(r))>> /\ AheadOf(q) = Tail(AheadOf(r))
<1> DEFINE q == Step(r, 1)
           h == r.history
           c == r.cursor
<1>1. q \in Rings /\ q.history = h /\ q.cursor = c + 1 /\ c \in Int /\ c + 1 \in 0 .. Len(h) - 1
  BY StepKeepsRing DEF CanStep, Step, Rings
<1> HIDE DEF q
<1>2. c >= 0 /\ c + 1 >= 0
  <2>1. Len(h) # 0
    BY <1>1
  <2>2. h # <<>>
    BY <2>1, EmptySeq
  <2>3. c >= 0
    BY <2>2 DEF Rings
  <2>4. QED
    BY <1>1, <2>3
<1>3. /\ h \in Seq(Locations) /\ c \in Nat /\ Len(h) \in Nat
      /\ BehindOf(r) = SubSeq(h, 1, c) /\ AheadOf(r) = SubSeq(h, c + 2, Len(h))
      /\ ShownOf(r) = <<h[c + 1]>> /\ Len(AheadOf(r)) = Len(h) - c - 1
  BY <1>2, Pieces DEF AheadOf, BehindOf
<1>4. /\ BehindOf(q) = SubSeq(h, 1, c + 1) /\ AheadOf(q) = SubSeq(h, c + 1 + 2, Len(h))
      /\ ShownOf(q) = <<h[c + 1 + 1]>>
  BY <1>1, <1>2, Pieces DEF AheadOf, BehindOf
<1> HIDE DEF h, c
<1>5. /\ c + 2 \in 1 .. Len(h) /\ Len(h) \in c + 2 .. Len(h) /\ c + 1 \in 1 .. Len(h) /\ 1 \in 1 .. Len(h)
      /\ c + 1 + 1 = c + 2 /\ c + 1 + 2 = c + 2 + 1 /\ c + 1 - 1 = c
  <2>1. c \in Nat /\ Len(h) \in Nat /\ c + 1 <= Len(h) - 1
    BY <1>1, <1>3
  <2>2. QED
    BY <2>1
<1>6. AheadOf(r) # <<>>
  <2>1. c \in Nat /\ Len(h) \in Nat /\ c + 2 <= Len(h)
    BY <1>3, <1>5
  <2> DEFINE n == Len(h)
  <2> HIDE DEF n
  <2>2. n - c - 1 # 0
    <3>1. c \in Nat /\ n \in Nat /\ c + 2 <= n
      BY <2>1 DEF n
    <3>2. QED
      BY <3>1
  <2>3. QED
    BY <1>3, <2>2, EmptySeq DEF n
<1>7. ShownOf(q) = <<Head(AheadOf(r))>> /\ AheadOf(q) = Tail(AheadOf(r))
  <2>1. /\ Head(SubSeq(h, c + 2, Len(h))) = h[c + 2]
        /\ Tail(SubSeq(h, c + 2, Len(h))) = SubSeq(h, c + 2 + 1, Len(h))
    BY <1>3, <1>5, HeadTailOfSubSeq
  <2>2. QED
    BY <1>3, <1>4, <1>5, <2>1
<1>8. BehindOf(q) = BehindOf(r) \o ShownOf(r)
  <2>1. c + 1 \in 1 .. Len(h) /\ 1 \in 1 .. Len(h) /\ c + 1 \in 1 .. Len(h)
    BY <1>5
  <2>2. SubSeq(h, 1, c + 1) = SubSeq(h, 1, c + 1 - 1) \o <<h[c + 1]>>
    BY <1>3, <2>1, SubSeqRecursiveSecond
  <2>3. QED
    BY <1>3, <1>4, <1>5, <2>2
<1>9. QED
  BY <1>6, <1>7, <1>8 DEF q

(* A ring whose cursor is on the newest place.                                 *)
LEMMA AtTheEnd ==
  ASSUME NEW q \in Rings, NEW w \in Seq(Locations), NEW loc \in Locations,
         q.history = Append(w, loc), q.cursor = Len(w)
  PROVE  BehindOf(q) = w /\ ShownOf(q) = <<loc>> /\ AheadOf(q) = <<>>
<1> DEFINE c == Len(w)
<1>1. c \in Nat
  BY LenProperties
<1>2. /\ Len(q.history) = c + 1 /\ q.history[c + 1] = loc
      /\ \A i \in 1 .. c : q.history[i] = w[i]
  BY AppendProperties
<1>3. q.cursor = c /\ q.cursor >= 0
  BY <1>1
<1> HIDE DEF c
<1>4. /\ BehindOf(q) \in Seq(Locations) /\ Len(BehindOf(q)) = c
      /\ \A i \in 1 .. c : BehindOf(q)[i] = q.history[i]
      /\ AheadOf(q) \in Seq(Locations) /\ Len(AheadOf(q)) = c + 1 - c - 1
      /\ ShownOf(q) = <<q.history[c + 1]>>
  <2>1. /\ BehindOf(q) \in Seq(Locations) /\ Len(BehindOf(q)) = q.cursor
        /\ \A i \in 1 .. q.cursor : BehindOf(q)[i] = q.history[i]
        /\ AheadOf(q) \in Seq(Locations) /\ Len(AheadOf(q)) = Len(q.history) - q.cursor - 1
        /\ ShownOf(q) = <<q.history[q.cursor + 1]>>
    BY <1>3, Pieces
  <2>2. QED
    BY <1>1, <1>2, <1>3, <2>1
<1>5. BehindOf(q) = w
  BY <1>2, <1>4, SeqEqual DEF c
<1>6. AheadOf(q) = <<>>
  BY <1>1, <1>4, EmptySeq
<1>7. QED
  BY <1>2, <1>4, <1>5, <1>6

LEMMA PushVisits ==
  ASSUME NEW r \in Rings, NEW loc \in Locations, ~IsCurrent(r, loc)
  PROVE  LET q == Push(r, loc)
             past == BehindOf(r) \o ShownOf(r)
         IN  /\ ShownOf(r) # <<loc>> /\ ShownOf(q) = <<loc>> /\ AheadOf(q) = <<>>
             /\ BehindOf(q) = IF Len(past) < Cap THEN past ELSE Tail(past)
<1> DEFINE q == Push(r, loc)
           h == r.history
           c == r.cursor
           past == BehindOf(r) \o ShownOf(r)
           kept == Newest(Append(past, loc))
<1>1. q \in Rings
  BY PushKeepsRing
<1>2. ShownOf(r) # <<loc>>
  <2>1. c < 0 => ShownOf(r) = <<>>
    BY NoPiece
  <2>2. c >= 0 => ShownOf(r) = <<At(r, c)>> /\ At(r, c) # loc
    BY DEF ShownOf, IsCurrent, Rings
  <2>3. c < 0 \/ c >= 0
    BY DEF Rings
  <2>4. QED
    BY <2>1, <2>2, <2>3
<1>3. past = SubSeq(h, 1, c + 1) /\ past \in Seq(Locations) /\ Len(past) = c + 1 /\ Len(past) <= Cap
  <2>1. CASE c >= 0
    <3>1. /\ h \in Seq(Locations) /\ c \in Nat /\ Len(h) \in Nat /\ c < Len(h) /\ Len(h) <= Cap
          /\ BehindOf(r) = SubSeq(h, 1, c) /\ ShownOf(r) = <<h[c + 1]>> /\ h[c + 1] \in Locations
          /\ BehindOf(r) \in Seq(Locations) /\ Len(BehindOf(r)) = c
      BY <2>1, Pieces DEF BehindOf
    <3> HIDE DEF h, c
    <3>2. c + 1 \in 1 .. Len(h) /\ 1 \in 1 .. Len(h) /\ c + 1 \in 1 .. Len(h) /\ c + 1 - 1 = c
      BY <3>1
    <3>3. SubSeq(h, 1, c + 1) = SubSeq(h, 1, c + 1 - 1) \o <<h[c + 1]>>
      BY <3>1, <3>2, SubSeqRecursiveSecond
    <3>4. past = Append(BehindOf(r), h[c + 1])
      BY <3>1, AppendIsConcat
    <3>5. past \in Seq(Locations) /\ Len(past) = c + 1
      BY <3>1, <3>4, AppendProperties
    <3>6. c + 1 <= Cap
      BY <3>1, CapIsPositive
    <3>7. QED
      BY <3>1, <3>2, <3>3, <3>5, <3>6
  <2>2. CASE c < 0
    <3>1. h = <<>> /\ c = -1 /\ BehindOf(r) = <<>> /\ ShownOf(r) = <<>>
      BY <2>2, NoPiece
    <3>2. past = <<>>
      BY <3>1, ConcatEmptySeq, EmptySeq
    <3>3. SubSeq(h, 1, c + 1) = <<>>
      BY <3>1, SubSeqEmpty
    <3>4. QED
      BY <3>1, <3>2, <3>3, EmptySeq, CapIsPositive
  <2>3. QED
    BY <2>1, <2>2 DEF Rings
<1>4. q = [history |-> kept, cursor |-> Len(kept) - 1]
  <2>1. Extended(r, loc) = Append(past, loc)
    BY <1>3 DEF Extended
  <2> HIDE DEF past
  <2>2. QED
    BY <2>1, Zenon DEF Push
<1> HIDE DEF past, q
<1>5. /\ Append(past, loc) \in Seq(Locations) /\ Len(Append(past, loc)) = Len(past) + 1
      /\ Append(past, loc) # <<>> /\ Len(past) \in Nat
  <2>1. past \in Seq(Locations) /\ Len(past) \in Nat
    BY <1>3, LenProperties
  <2>2. QED
    BY <2>1, AppendProperties
<1>6. CASE Len(past) < Cap
  <2>1. kept = Append(past, loc)
    BY <1>5, <1>6, CapIsPositive DEF Newest
  <2>2. Len(kept) - 1 = Len(past)
    BY <1>5, <2>1
  <2> HIDE DEF kept
  <2>3. q.history = Append(past, loc) /\ q.cursor = Len(past)
    BY <1>4, <2>1, <2>2
  <2>4. BehindOf(q) = past /\ ShownOf(q) = <<loc>> /\ AheadOf(q) = <<>>
    BY <1>1, <1>3, <2>3, AtTheEnd
  <2>5. QED
    BY <1>2, <1>6, <2>4 DEF q, past
<1>7. CASE ~(Len(past) < Cap)
  <2>1. Len(past) = Cap /\ past # <<>>
    <3> DEFINE n == Len(past)
    <3>1. n \in Nat /\ n <= Cap /\ ~(n < Cap) /\ Cap \in Nat /\ Cap > 0
      BY <1>3, <1>5, <1>7, CapIsPositive
    <3>2. past = <<>> => n = 0
      BY EmptySeq
    <3> HIDE DEF n
    <3>3. n = Cap /\ n # 0
      BY <3>1
    <3>4. QED
      BY <3>2, <3>3 DEF n
  <2> DEFINE e == Append(past, loc)
             w == Tail(past)
  <2>2. /\ e \in Seq(Locations) /\ e # <<>> /\ Len(e) = Cap + 1
        /\ w \in Seq(Locations) /\ Len(w) = Cap - 1
    BY <1>3, <1>5, <2>1, HeadTailProperties
  <2>3. Tail(e) = Append(w, loc)
    BY <1>3, <2>1, HeadTailAppend
  <2>4. kept = Tail(e)
    <3>1. kept = Newest(e)
      OBVIOUS
    <3>2. Len(e) > Cap /\ Len(e) - Cap + 1 = 2
      BY <2>2, CapIsPositive
    <3> HIDE DEF e, kept
    <3>3. Tail(e) = SubSeq(e, 2, Len(e))
      BY <2>2, TailIsSubSeq
    <3>4. QED
      BY <3>1, <3>2, <3>3 DEF Newest
  <2>5. Len(Append(w, loc)) - 1 = Len(w)
    BY <2>2, AppendProperties, CapIsPositive
  <2> HIDE DEF kept, e
  <2>6. q.history = Append(w, loc) /\ q.cursor = Len(w)
    BY <1>4, <2>3, <2>4, <2>5
  <2>7. BehindOf(q) = w /\ ShownOf(q) = <<loc>> /\ AheadOf(q) = <<>>
    BY <1>1, <2>2, <2>6, AtTheEnd
  <2>8. QED
    BY <1>2, <1>7, <2>7 DEF q, past
<1>8. QED
  BY <1>6, <1>7

LEMMA PruneLoses ==
  ASSUME NEW r \in Rings, r.cursor >= 0
  PROVE  LET q == Prune(r, r.cursor)
             b == BehindOf(r)
             a == AheadOf(r)
         IN  /\ ShownOf(r) # <<>>
             /\ \/ /\ a # <<>> /\ ShownOf(q) = <<Head(a)>> /\ AheadOf(q) = Tail(a) /\ BehindOf(q) = b
                \/ /\ a = <<>> /\ b # <<>> /\ ShownOf(q) = <<Last(b)>> /\ BehindOf(q) = Front(b)
                   /\ AheadOf(q) = a
                \/ /\ a = <<>> /\ b = <<>> /\ ShownOf(q) = <<>> /\ BehindOf(q) = b /\ AheadOf(q) = a
<1> DEFINE q == Prune(r, r.cursor)
           c == r.cursor
           b == BehindOf(r)
           a == AheadOf(r)
           rest == b \o a
           place == IF c >= Len(rest) THEN Len(rest) - 1 ELSE c
<1>1. q \in Rings
  BY PruneKeepsRing
<1>2. /\ c \in Nat /\ b \in Seq(Locations) /\ Len(b) = c /\ a \in Seq(Locations) /\ Len(a) \in Nat
      /\ ShownOf(r) # <<>>
  <2>1. c \in Nat /\ b \in Seq(Locations) /\ Len(b) = c /\ a \in Seq(Locations)
    BY Pieces
  <2>2. ShownOf(r) = <<r.history[c + 1]>>
    BY Pieces
  <2>3. Len(a) \in Nat
    BY <2>1, LenProperties
  <2>4. QED
    BY <2>1, <2>2, <2>3
<1>3. q.history = rest /\ q.cursor = place
  <2>1. ~(r.cursor > c)
    BY <1>2
  <2>2. Prune(r, c) = [history |-> rest, cursor |-> place]
    BY <2>1, Zenon DEF Prune, BehindOf, AheadOf
  <2>3. QED
    BY <2>2
<1> HIDE DEF q, c, b, a
<1>4. /\ rest \in Seq(Locations) /\ Len(rest) = c + Len(a)
      /\ \A i \in 1 .. c + Len(a) : rest[i] = IF i <= c THEN b[i] ELSE a[i - c]
  BY <1>2, ConcatProperties
<1>4a. \A i \in 1 .. c + Len(a) : ~(i <= c) => rest[i] = a[i - c]
  BY <1>4
<1>5. CASE a # <<>>
  <2>1. Len(a) > 0
    BY <1>2, <1>5, EmptySeq
  <2>2. place = c
    BY <1>2, <1>4, <2>1
  <2> HIDE DEF rest, place
  <2>3. q.cursor = c /\ q.cursor >= 0
    BY <1>2, <1>3, <2>2
  <2>4. /\ BehindOf(q) \in Seq(Locations) /\ Len(BehindOf(q)) = c
        /\ \A i \in 1 .. c : BehindOf(q)[i] = rest[i]
        /\ AheadOf(q) \in Seq(Locations) /\ Len(AheadOf(q)) = c + Len(a) - c - 1
        /\ \A i \in 1 .. c + Len(a) - c - 1 : AheadOf(q)[i] = rest[c + 1 + i]
        /\ ShownOf(q) = <<rest[c + 1]>>
    <3>1. /\ BehindOf(q) \in Seq(Locations) /\ Len(BehindOf(q)) = q.cursor
          /\ \A i \in 1 .. q.cursor : BehindOf(q)[i] = q.history[i]
          /\ AheadOf(q) \in Seq(Locations) /\ Len(AheadOf(q)) = Len(q.history) - q.cursor - 1
          /\ \A i \in 1 .. Len(q.history) - q.cursor - 1 : AheadOf(q)[i] = q.history[q.cursor + 1 + i]
          /\ ShownOf(q) = <<q.history[q.cursor + 1]>>
      BY <1>1, <2>3, Pieces
    <3>2. QED
      BY <1>3, <1>4, <2>3, <3>1
  <2>5. BehindOf(q) = b
    <3>1. \A i \in 1 .. c : BehindOf(q)[i] = b[i]
      BY <1>2, <1>4, <2>4
    <3>2. QED
      BY <1>2, <2>4, <3>1, SeqEqual
  <2>6. ShownOf(q) = <<Head(a)>>
    <3> DEFINE m == Len(a)
    <3>0. c \in Nat /\ m \in Nat /\ m > 0
      BY <1>2, <2>1
    <3> HIDE DEF m
    <3>1. c + 1 \in 1 .. c + m /\ ~(c + 1 <= c) /\ c + 1 - c = 1
      <4>1. c + 1 \in 1 .. c + m
        BY <3>0
      <4>2. ~(c + 1 <= c)
        BY <3>0
      <4>3. c + 1 - c = 1
        BY <3>0
      <4>4. QED
        BY <4>1, <4>2, <4>3
    <3>2. rest[c + 1] = a[1]
      <4> DEFINE j == c + 1
      <4>1. j \in 1 .. c + m /\ ~(j <= c) /\ j - c = 1
        BY <3>0
      <4> HIDE DEF j
      <4>2. rest[j] = a[j - c]
        BY <1>4a, <4>1 DEF m
      <4>3. rest[j] = a[1]
        BY <4>1, <4>2
      <4>4. QED
        BY <4>3 DEF j
    <3>3. Head(a) = a[1]
      BY <1>2, <1>5
    <3>4. QED
      BY <2>4, <3>2, <3>3
  <2>7. AheadOf(q) = Tail(a)
    <3> DEFINE m == Len(a)
               t == Tail(a)
    <3>1. t \in Seq(Locations) /\ Len(t) = m - 1 /\ \A i \in 1 .. m - 1 : t[i] = a[i + 1]
      BY <1>2, <1>5, HeadTailProperties
    <3>2. m \in Nat /\ c \in Nat
      BY <1>2
    <3> HIDE DEF m, t
    <3>3. c + m - c - 1 = m - 1
      BY <3>2
    <3>4. ASSUME NEW i \in 1 .. m - 1 PROVE AheadOf(q)[i] = t[i]
      <4>0. i \in Int /\ 1 <= i /\ i <= m - 1
        BY <3>2
      <4>1. c + 1 + i \in 1 .. c + m /\ ~(c + 1 + i <= c) /\ c + 1 + i - c = i + 1
        <5>1. c + 1 + i \in 1 .. c + m
          BY <3>2, <4>0
        <5>2. ~(c + 1 + i <= c)
          BY <3>2, <4>0
        <5>3. c + 1 + i - c = i + 1
          BY <3>2, <4>0
        <5>4. QED
          BY <5>1, <5>2, <5>3
      <4>2. rest[c + 1 + i] = a[i + 1]
        <5> DEFINE j == c + 1 + i
        <5>1. j \in 1 .. c + m /\ ~(j <= c) /\ j - c = i + 1
          BY <3>2, <4>0
        <5> HIDE DEF j
        <5>2. rest[j] = a[j - c]
          BY <1>4a, <5>1 DEF m
        <5>3. rest[j] = a[i + 1]
          BY <5>1, <5>2
        <5>4. QED
          BY <5>3 DEF j
      <4>3. QED
        BY <2>4, <3>1, <3>3, <4>2 DEF m
    <3>5. Len(AheadOf(q)) = m - 1
      BY <2>4, <3>3 DEF m
    <3>6. QED
      BY <2>4, <3>1, <3>4, <3>5, SeqEqual DEF t
  <2>8. QED
    BY <1>2, <1>5, <2>5, <2>6, <2>7 DEF q, a, b, c
<1>6. CASE a = <<>>
  <2>1. rest = b /\ Len(rest) = c
    BY <1>2, <1>6, ConcatEmptySeq
  <2>2. place = c - 1
    BY <1>2, <2>1
  <2> HIDE DEF rest, place
  <2>3. q.history = b /\ q.cursor = c - 1
    BY <1>3, <2>1, <2>2
  <2>4. CASE b = <<>>
    <3>1. c = 0 /\ q.cursor < 0
      BY <1>2, <2>3, <2>4, EmptySeq
    <3>2. BehindOf(q) = <<>> /\ ShownOf(q) = <<>> /\ AheadOf(q) = <<>>
      BY <1>1, <3>1, NoPiece
    <3>3. QED
      BY <1>2, <1>6, <2>4, <3>2 DEF q, a, b, c
  <2>5. CASE b # <<>>
    <3>1. c >= 1 /\ q.cursor >= 0
      BY <1>2, <2>3, <2>5, EmptySeq
    <3>2. /\ AheadOf(q) \in Seq(Locations) /\ Len(AheadOf(q)) = c - (c - 1) - 1
          /\ ShownOf(q) = <<b[c - 1 + 1]>>
      BY <1>1, <1>2, <2>3, <3>1, Pieces
    <3>3. c - (c - 1) - 1 = 0 /\ c - 1 + 1 = c
      BY <1>2
    <3>4. AheadOf(q) = <<>>
      BY <3>2, <3>3, EmptySeq
    <3>5. ShownOf(q) = <<Last(b)>> /\ BehindOf(q) = Front(b)
      BY <1>2, <2>3, <3>2, <3>3 DEF Last, Front, BehindOf
    <3>6. QED
      BY <1>2, <1>6, <2>5, <3>4, <3>5 DEF q, a, b, c
  <2>6. QED
    BY <2>4, <2>5
<1>7. QED
  BY <1>5, <1>6

(* Every step of the ring is a step of the browser, or none: a duplicate push. *)
THEOREM RingIsBrowser == NavSpec => IsBrowser
<1>1. NavInit => Browser!Init
  <2> SUFFICES ASSUME NavInit PROVE Browser!Init
    OBVIOUS
  <2>1. ring \in Rings /\ ring.cursor < 0
    BY CapIsPositive, EmptySeq DEF NavInit, Empty, Rings
  <2>2. QED
    BY <2>1, NoPiece DEF Browser!Init, Behind, Shown, Ahead, BehindOf, ShownOf, AheadOf
<1>2. ASSUME RingOK, [NavNext]_ring PROVE [Browser!Next]_(Browser!vars)
  <2>1. ring \in Rings
    BY <1>2, RingOKIsRings
  <2>2. /\ Behind = BehindOf(ring) /\ Shown = ShownOf(ring) /\ Ahead = AheadOf(ring)
        /\ Behind' = BehindOf(ring') /\ Shown' = ShownOf(ring') /\ Ahead' = AheadOf(ring')
    BY DEF Behind, Shown, Ahead, BehindOf, ShownOf, AheadOf
  <2>3. CASE Record
    <3>1. PICK loc \in Locations : ring' = Push(ring, loc)
      BY <2>3 DEF Record
    <3>2. CASE IsCurrent(ring, loc)
      <4>1. ring' = ring
        BY <3>1, <3>2 DEF Push
      <4>2. UNCHANGED Browser!vars
        BY <2>2, <4>1 DEF Browser!vars
      <4>3. QED
        BY <4>2
    <3>3. CASE ~IsCurrent(ring, loc)
      <4>1. Browser!Visit(loc)
        BY <2>1, <2>2, <3>1, <3>3, PushVisits DEF Browser!Visit
      <4>2. QED
        BY <4>1 DEF Browser!Next
    <3>4. QED
      BY <3>2, <3>3
  <2>4. CASE Back
    <3>1. CanStep(ring, -1) /\ ring' = Step(ring, -1)
      BY <2>4 DEF Back, Travel
    <3>2. /\ Behind # <<>> /\ Behind' = Front(Behind)
          /\ Shown' = <<Last(Behind)>> /\ Ahead' = Shown \o Ahead
      BY <2>1, <2>2, <3>1, BackMoves
    <3>3. Browser!GoBack
      BY <3>2 DEF Browser!GoBack, Browser!Front, Browser!Last, Front, Last
    <3>4. QED
      BY <3>3 DEF Browser!Next
  <2>5. CASE Forward
    <3>1. Browser!GoForward
      BY <2>1, <2>2, <2>5, ForwardMoves DEF Forward, Travel, Browser!GoForward
    <3>2. QED
      BY <3>1 DEF Browser!Next
  <2>6. CASE Forget
    <3>1. Browser!Lose
      <4>1. ring.cursor >= 0 /\ ring' = Prune(ring, ring.cursor)
        BY <2>6 DEF Forget
      <4>2. /\ Shown # <<>>
            /\ \/ /\ Ahead # <<>> /\ Shown' = <<Head(Ahead)>> /\ Ahead' = Tail(Ahead) /\ Behind' = Behind
               \/ /\ Ahead = <<>> /\ Behind # <<>> /\ Shown' = <<Last(Behind)>> /\ Behind' = Front(Behind)
                  /\ Ahead' = Ahead
               \/ /\ Ahead = <<>> /\ Behind = <<>> /\ Shown' = <<>> /\ Behind' = Behind /\ Ahead' = Ahead
        BY <2>1, <2>2, <4>1, PruneLoses
      <4>3. QED
        BY <4>2 DEF Browser!Lose, Browser!Front, Browser!Last, Front, Last
    <3>2. QED
      BY <3>1 DEF Browser!Next
  <2>7. CASE UNCHANGED ring
    <3>1. UNCHANGED Browser!vars
      BY <2>2, <2>7 DEF Browser!vars
    <3>2. QED
      BY <3>1
  <2>8. QED
    BY <1>2, <2>3, <2>4, <2>5, <2>6, <2>7 DEF NavNext
<1>3. QED
  BY <1>1, <1>2, RingAlwaysOK, PTL DEF NavSpec, IsBrowser, Browser!Spec

=============================================================================
