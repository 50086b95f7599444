----------------------------- MODULE NavHistory -----------------------------
(* The jumplist ring of leaves/wm/nav-history.js: a list of visited locations  *)
(* and a cursor.  A location is opaque to the ring, which only compares it.    *)
(* Positions are the code's, counted from 0; -1 is the cursor of an empty ring.*)
EXTENDS Integers, Sequences, SequencesExt

CONSTANTS Locations,  \* the records nav_capture builds
          Cap         \* nav.cap, 100 in the code

ASSUME CapAssumption == Cap \in Nat \ {0}

Empty == [history |-> <<>>, cursor |-> -1]

At(ring, i) == ring.history[i + 1]

(* push: a duplicate of the current entry is dropped; otherwise the forward    *)
(* branch goes, the location is appended and the oldest go past the cap.       *)
IsCurrent(ring, loc) == ring.cursor >= 0 /\ At(ring, ring.cursor) = loc

Extended_KeepsForward(ring, loc) == Append(ring.history, loc)   \* mutant
Extended(ring, loc) == Append(SubSeq(ring.history, 1, ring.cursor + 1), loc)

Newest(seq) == IF Len(seq) > Cap THEN SubSeq(seq, Len(seq) - Cap + 1, Len(seq)) ELSE seq

Push(ring, loc) ==
  IF IsCurrent(ring, loc) THEN ring
  ELSE LET kept == Newest(Extended(ring, loc))
       IN  [history |-> kept, cursor |-> Len(kept) - 1]

(* step: null when there is nothing that way.                                  *)
CanStep(ring, dir) == ring.cursor + dir \in 0 .. Len(ring.history) - 1

Step(ring, dir) == [ring EXCEPT !.cursor = @ + dir]

(* prune: the entry goes and the cursor keeps its place among the others.      *)
Prune(ring, i) ==
  LET rest == SubSeq(ring.history, 1, i) \o SubSeq(ring.history, i + 2, Len(ring.history))
      kept == IF ring.cursor > i THEN ring.cursor - 1 ELSE ring.cursor
  IN  [history |-> rest,
       cursor  |-> IF kept >= Len(rest) THEN Len(rest) - 1 ELSE kept]

-----------------------------------------------------------------------------
(* The four arms of the root reducer over model.nav.                           *)
VARIABLE ring

NavInit == ring = Empty

Record == \E loc \in Locations : ring' = Push(ring, loc)

Travel(dir) == CanStep(ring, dir) /\ ring' = Step(ring, dir)

Back == Travel(-1)
Forward == Travel(1)

(* nav_prune is dispatched by nav_restore alone, for the entry under the       *)
(* cursor: a back or a forward has just landed on a group that is gone.        *)
Forget == ring.cursor >= 0 /\ ring' = Prune(ring, ring.cursor)

NavNext == Record \/ Back \/ Forward \/ Forget

NavSpec == NavInit /\ [][NavNext]_ring

-----------------------------------------------------------------------------
(* The ring holds at most Cap locations and its cursor is on one of them, or   *)
(* at -1 when there is none: At(ring, ring.cursor) is never undefined, which   *)
(* is what push's dedupe and nav_restore read.                                 *)
RingOK ==
  /\ ring \in [history : Seq(Locations), cursor : Int]
  /\ Len(ring.history) <= Cap
  /\ ring.cursor \in -1 .. Len(ring.history) - 1
  /\ ring.history # <<>> => ring.cursor >= 0

(* Seen from the user it is a browser: a stack of places to go back to, the    *)
(* place shown, and a stack of places to go forward to.                        *)
Behind == SubSeq(ring.history, 1, ring.cursor)
Shown  == IF ring.cursor < 0 THEN <<>> ELSE <<At(ring, ring.cursor)>>
Ahead  == SubSeq(ring.history, ring.cursor + 2, Len(ring.history))

Browser == INSTANCE BrowserHistory
             WITH Places <- Locations, behind <- Behind, shown <- Shown, ahead <- Ahead

(* The ring with its cursor implements the two stacks: a visit empties the     *)
(* forward stack, a back or a forward moves one place from stack to stack, and *)
(* nothing but a visit, a forgotten place or the cap ever drops a place.       *)
IsBrowser == Browser!Spec
=============================================================================
