---------------------------- MODULE InputChunks ----------------------------
(***************************************************************************)
(* From the bytes of stdin to key events (dispatch/control/input.js and    *)
(* leaves/input/tokenize.js).  The terminal delivers one stream; the       *)
(* reads cut it into chunks anywhere.  The handler of a chunk is three     *)
(* parsers, for terminal mode, for a paste, for keys, and any of them can  *)
(* hand the rest of its chunk to another one.                              *)
(*                                                                         *)
(* A unit of the stream is a key, a C0 control, a complete escape          *)
(* sequence or one of the two halves of a sequence that a read may cut:    *)
(* Lead is the incomplete sequence, KeyK / Open / Close / Page / Wheel are *)
(* ends that make it an arrow, the opening or the closing of a paste, a    *)
(* Shift+PageUp or a report of the mouse wheel, and that are typed text    *)
(* when nothing precedes them.  An ESC alone is left out: whether it and   *)
(* the next byte are one chord is for the chunk to say, by design.         *)
(*                                                                         *)
(* A definition named X_Suffix is a faulty variant of X; see Streams.      *)
(***************************************************************************)
EXTENDS Integers, Sequences, SequencesExt

CONSTANTS MaxEvents,     \* events the user and the terminal send
          MaxFlips,      \* changes of mode or of session that no key makes
          PasteMax       \* units a paste may hold, _PASTE_MAX

KeyK == "k"      Activate == "enter"    Fs == "fs"        Lead == "lead"
Open == "open"   Close == "close"       Page == "page"    Wheel == "wheel"

\* Ends complete a Lead; an ESC or a C0 in its place cancels it.
Ends == {KeyK, Open, Close, Page, Wheel}
Units == Ends \union {Activate, Fs, Lead}

\* What is sent in one piece: a key, the key that enters terminal mode, Ctrl+\,
\* an arrow, the two ends of a paste, Shift+PageUp, a turn of the wheel, and Esc
\* and [ typed by hand.
Events == {<<KeyK>>, <<Activate>>, <<Fs>>, <<Lead>>} \union {<<Lead, u>> : u \in Ends}

\* The terminal the bytes are for: its child has asked for the mouse, it has not,
\* or it is dead or not there.
SessionKinds == {"mouse", "plain", "dead"}

VARIABLES
  sent,      \* events sent
  wire,      \* units sent and not read
  input,     \* the handler: [mode, session, carry, paste, log, turned, odd, walk, left]
  heard,     \* history: the units read, the flushes and the flips among them
  flips      \* flips so far
inputVars == <<sent, wire, input, heard, flips>>

\* The parser that has the chunk: none, the data event itself (before any of the
\* three has it), the one of terminal mode, the one of the keys.  "left" is what it
\* has still to take of the chunk.
Walks == {"none", "data", "terminal", "keys"}

InputInit ==
  /\ sent = 0 /\ wire = <<>> /\ heard = <<>> /\ flips = 0
  /\ input = [mode |-> "keys", session |-> "plain", carry |-> <<>>, paste |-> <<>>,
              log |-> <<>>, turned |-> 0, odd |-> FALSE, walk |-> "none", left |-> <<>>]

BetweenChunks == input.walk = "none"

-----------------------------------------------------------------------------
\* The length of the first event of a sequence of units.
EventLen(units) == IF Len(units) > 1 /\ units[1] = Lead /\ units[2] \in Ends THEN 2 ELSE 1
FirstEvent(units) == SubSeq(units, 1, EventLen(units))
OtherEvents(units) == SubSeq(units, EventLen(units) + 1, Len(units))

\* What the tokens of a chunk are made of, and the trailing partial that is none.
Partial(units) == units # <<>> /\ Last(units) = Lead
Whole(units) == IF Partial(units) THEN Front(units) ELSE units
Carry(units) == IF Partial(units) THEN <<Lead>> ELSE <<>>

Logged(st, what, units) == [st EXCEPT !.log = Append(@, <<what, units>>)]

\* One token of the keyboard: a key, or an escape sequence nothing is bound to.
\* The key Activate is on a terminal tab: a dead terminal is started again, and
\* terminal mode is entered.
Dispatched(st, tok) ==
  IF tok \in {<<Lead>>, <<Lead, Page>>, <<Lead, Close>>} THEN Logged(st, "drop", tok)
  ELSE IF tok = <<Activate>>
  THEN [Logged(st, "key", tok) EXCEPT !.mode = "term",
                                      !.session = IF @ = "dead" THEN "plain" ELSE @]
  ELSE Logged(st, "key", tok)

\* The rest of a chunk is emitted as a chunk of its own, the carry after it.
Reemitted_LosesCarry(st) == [st EXCEPT !.walk = "data", !.carry = <<>>]
Reemitted(st) == [st EXCEPT !.walk = "data", !.left = @ \o st.carry, !.carry = <<>>]

\* One event in terminal mode.  Ctrl+\ and a terminal that is dead end the mode,
\* Shift+PageUp scrolls, the wheel does so for a child that did not ask for it, and
\* all else goes to the child.  Where the view is scrolled to is left out: keys in
\* one piece with a turn of the wheel take it back to the bottom, whichever was first.
TermToken(st, tok) ==
  IF tok = <<Fs>> \/ st.session = "dead" THEN [Logged(st, "exit", tok) EXCEPT !.mode = "keys"]
  ELSE IF tok = <<Lead, Page>> THEN Logged(st, "scroll", tok)
  ELSE IF tok = <<Lead, Wheel>> /\ st.session = "plain" THEN [st EXCEPT !.turned = @ + 1]
  ELSE [st EXCEPT !.log = @ \o [i \in 1..Len(tok) |-> <<"pty", <<tok[i]>>>>]]

\* Where the controls of terminal mode begin; what lies between them is one piece.
Controls(units) ==
  {i \in 1..Len(units) : \/ units[i] = Fs
                         \/ i < Len(units) /\ units[i] = Lead /\ units[i + 1] = Page}
PieceLen(units) ==
  IF 1 \in Controls(units) THEN EventLen(units)
  ELSE IF Controls(units) = {} THEN Len(units)
  ELSE (CHOOSE i \in Controls(units) : \A j \in Controls(units) : i <= j) - 1

\* The walk in terminal mode, by events: those of a piece are written in one, so
\* that a dead terminal drops a whole piece (odd, when it has more than one event).
\* What follows the exit is read as keys.
InTerminal(st) ==
  LET tok == FirstEvent(st.left)
      n == IF st.session = "dead" THEN PieceLen(st.left) ELSE Len(tok)
      next == [TermToken(st, tok) EXCEPT !.left = SubSeq(st.left, n + 1, Len(st.left)),
                                         !.odd = @ \/ n > Len(tok)]
  IN  IF st.left = <<>> THEN [st EXCEPT !.walk = "none"]
      ELSE IF next.mode = "term" THEN next
      ELSE IF next.left = <<>> THEN [next EXCEPT !.walk = "none"] ELSE Reemitted(next)

\* Where a closing marker begins, in a paste.
Closings(units) == {i \in 1..Len(units) - 1 : units[i] = Lead /\ units[i + 1] = Close}
FirstClosing(units) == CHOOSE i \in Closings(units) : \A j \in Closings(units) : i <= j

\* A paste accumulates until its closing marker, or until it is too long: then
\* it is dropped, and what is left of it is read as keys.
Accumulated(st) ==
  LET all == st.paste \o st.left
      at == FirstClosing(all)
      tail == SubSeq(all, at + 2, Len(all))
      rest == [st EXCEPT !.walk = "none", !.left = <<>>, !.paste = <<>>]
  IN  IF Len(all) > PasteMax THEN [rest EXCEPT !.odd = TRUE]
      ELSE IF Closings(all) = {} THEN [rest EXCEPT !.paste = all]
      ELSE [Logged(rest, "paste", SubSeq(all, 3, at - 1))
              EXCEPT !.left = tail, !.walk = IF tail = <<>> THEN "none" ELSE "data"]

\* One event of a chunk on the keyboard ladder.  Once a key has entered terminal
\* mode, or a paste opens, the rest of the chunk is another parser's.
AtKeys(st) ==
  LET tok == FirstEvent(st.left)
  IN  IF st.left = <<>> /\ (st.mode = "keys" \/ st.carry = <<>>) THEN [st EXCEPT !.walk = "none"]
      ELSE IF st.mode = "term" \/ tok = <<Lead, Open>> THEN Reemitted(st)
      ELSE Dispatched([st EXCEPT !.left = OtherEvents(st.left)], tok)

\* The handler of the data event.  A paste that opens a chunk is taken before
\* the carry is joined: the carry waits behind it (odd).
Handled(st) ==
  LET opens == Len(st.left) > 1 /\ st.left[1] = Lead /\ st.left[2] = Open
      joined == st.carry \o st.left
  IN  IF st.mode = "term" THEN [st EXCEPT !.walk = "terminal"]
      ELSE IF st.paste # <<>> \/ opens
      THEN Accumulated([st EXCEPT !.odd = @ \/ st.carry # <<>>])
      ELSE [st EXCEPT !.walk = "keys", !.carry = Carry(joined), !.left = Whole(joined)]

-----------------------------------------------------------------------------
\* Nothing else runs while a chunk is handled.  What is sent and not read could as
\* well be sent later: a read takes all there is, but for the last unit, and nothing
\* else happens while more is on the wire.
Sends ==
  /\ BetweenChunks /\ sent < MaxEvents /\ sent' = sent + 1
  /\ \E e \in Events : wire' = wire \o e
  /\ UNCHANGED <<input, heard, flips>>

Reads ==
  /\ BetweenChunks
  /\ \E n \in {Len(wire) - 1, Len(wire)} \ {-1, 0} :
       LET chunk == SubSeq(wire, 1, n)
       IN  /\ wire' = SubSeq(wire, n + 1, Len(wire))
           /\ input' = [input EXCEPT !.walk = "data", !.left = chunk]
           /\ heard' = heard \o chunk
  /\ UNCHANGED <<sent, flips>>

Quiet == BetweenChunks /\ Len(wire) <= 1

\* One step of the parser that has the chunk.
ChunkTaken ==
  /\ input.walk = "data"
  /\ input' = Handled(input)
  /\ UNCHANGED <<sent, wire, heard, flips>>

\* A partial at the end of the chunk is not held back in terminal mode: what would
\* complete it comes too late (a flush).
TerminalTakes ==
  /\ input.walk = "terminal"
  /\ input' = InTerminal(input)
  /\ heard' = IF input.left = <<Lead>> THEN Append(heard, "flush") ELSE heard
  /\ UNCHANGED <<sent, wire, flips>>

KeysTake ==
  /\ input.walk = "keys"
  /\ input' = AtKeys(input)
  /\ UNCHANGED <<sent, wire, heard, flips>>

\* Nothing came within _CARRY_FLUSH_MS.
CarryFlushed ==
  /\ Quiet /\ input.carry # <<>>
  /\ input' = [Logged(input, "drop", input.carry) EXCEPT !.carry = <<>>]
  /\ heard' = Append(heard, "flush")
  /\ UNCHANGED <<sent, wire, flips>>

\* Between two chunks, an action that ends, or a reply, moves the user into a
\* terminal or out of it; the child asks for the mouse, or no longer, or dies; the
\* focus moves on to another terminal, or to a pane that is none.
ModeFlips ==
  /\ Quiet /\ flips < MaxFlips /\ flips' = flips + 1
  /\ \E mode \in {"keys", "term"}, session \in SessionKinds :
       /\ <<mode, session>> # <<input.mode, input.session>>
       /\ input' = [input EXCEPT
            !.mode = mode, !.session = session,
            !.odd = @ \/ (mode # input.mode /\ (input.carry # <<>> \/ input.paste # <<>>))]
       /\ heard' = heard \o <<mode, session>>
  /\ UNCHANGED <<sent, wire>>

InputNext == Sends \/ Reads \/ ChunkTaken \/ TerminalTakes \/ KeysTake \/ CarryFlushed \/ ModeFlips
InputSpec == InputInit /\ [][InputNext]_inputVars

-----------------------------------------------------------------------------
\* The reference: one unit at a time, no chunks.  It is at a Lead, in a paste (whose
\* text it has so far), or at neither.
Ref0 == [mode |-> "keys", session |-> "plain", at |-> "plain", text |-> <<>>,
         log |-> <<>>, turned |-> 0]
RefToken(r, tok) ==
  IF r.mode = "term" THEN TermToken(r, tok)
  ELSE IF tok = <<Lead, Open>> THEN [r EXCEPT !.at = "paste"]
  ELSE Dispatched(r, tok)
\* A Lead that nothing completes is an event of its own.
LeadEnded(r) == IF r.at = "lead" THEN RefToken([r EXCEPT !.at = "plain"], <<Lead>>) ELSE r
RefUnit(r, u) ==
  IF r.at = "paste"
  THEN IF u = Close /\ r.text # <<>> /\ Last(r.text) = Lead
       THEN [Logged(r, "paste", Front(r.text)) EXCEPT !.at = "plain", !.text = <<>>]
       ELSE [r EXCEPT !.text = Append(@, u)]
  ELSE IF r.at = "lead" /\ u \in Ends THEN RefToken([r EXCEPT !.at = "plain"], <<Lead, u>>)
  ELSE IF u = Lead THEN [LeadEnded(r) EXCEPT !.at = "lead"]
  ELSE RefToken(LeadEnded(r), <<u>>)
RefStep(r, u) ==
  CASE u \in {"keys", "term"} -> [r EXCEPT !.mode = u]
    [] u \in SessionKinds -> [r EXCEPT !.session = u]
    [] u = "flush" -> LeadEnded(r)
    [] OTHER -> RefUnit(r, u)
\* The reference after one unit more, and one more.
RefAfter(r, units) ==
  LET at[i \in 0..Len(units)] == IF i = 0 THEN r ELSE RefStep(at[i - 1], units[i])
  IN  at[Len(units)]
Reference(units) == RefAfter(Ref0, units)

\* However the reads cut the stream, every key, every byte for the child, every
\* scroll and every paste is what the uncut stream says, in its order, and as many
\* turns of the wheel scroll, once a chunk is done.  A sequence that a read cuts is
\* put together in the keys' parser until its flush; in terminal mode it is not, and
\* the uncut stream is then told so (a flush): its two halves go to the child.
\* Four cases are excepted (odd): a paste over the cap, a paste that opens a chunk
\* behind a carried partial, a change of mode between two chunks while a carry
\* or a paste is pending, and a dead terminal that drops more than the first event
\* of a chunk (README, section 5).
ChunksDontMatter ==
  BetweenChunks /\ ~input.odd =>
    LET r == Reference(heard)
    IN  /\ input.log = r.log /\ input.turned = r.turned
        /\ input.mode = r.mode /\ input.session = r.session
        /\ (input.carry # <<>>) = (r.at = "lead") /\ (input.paste # <<>>) = (r.at = "paste")

=============================================================================
