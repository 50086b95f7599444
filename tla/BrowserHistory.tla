--------------------------- MODULE BrowserHistory ---------------------------
(* What a navigation history promises its user: two stacks around the place    *)
(* shown.  NavHistory keeps the same thing as one list and a cursor.           *)
EXTENDS Integers, Sequences, SequencesExt

CONSTANTS Places,
          Cap      \* places remembered at once, the one shown included

VARIABLES behind, shown, ahead   \* shown is empty or a single place

vars == <<behind, shown, ahead>>

Init == behind = <<>> /\ shown = <<>> /\ ahead = <<>>

(* Visiting a new place pushes the old one and abandons the forward stack; the *)
(* place furthest behind is forgotten when the memory is full.                 *)
Visit(place) ==
  /\ shown # <<place>>
  /\ LET past == behind \o shown
     IN  behind' = IF Len(past) < Cap THEN past ELSE Tail(past)
  /\ shown' = <<place>>
  /\ ahead' = <<>>

GoBack ==
  /\ behind # <<>>
  /\ behind' = Front(behind)
  /\ shown' = <<Last(behind)>>
  /\ ahead' = shown \o ahead

GoForward ==
  /\ ahead # <<>>
  /\ behind' = behind \o shown
  /\ shown' = <<Head(ahead)>>
  /\ ahead' = Tail(ahead)

(* The place shown is gone: the next one ahead takes its place, or the last    *)
(* one behind when there is none ahead.                                        *)
Lose ==
  /\ shown # <<>>
  /\ \/ /\ ahead # <<>>
        /\ shown' = <<Head(ahead)>>
        /\ ahead' = Tail(ahead)
        /\ UNCHANGED behind
     \/ /\ ahead = <<>>
        /\ behind # <<>>
        /\ shown' = <<Last(behind)>>
        /\ behind' = Front(behind)
        /\ UNCHANGED ahead
     \/ /\ ahead = <<>>
        /\ behind = <<>>
        /\ shown' = <<>>
        /\ UNCHANGED <<behind, ahead>>

Next == (\E place \in Places : Visit(place)) \/ GoBack \/ GoForward \/ Lose

Spec == Init /\ [][Next]_vars
=============================================================================
