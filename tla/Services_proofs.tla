--------------------------- MODULE Services_proofs --------------------------
(* Proofs about two services that work behind the program, for every bound on  *)
(* what they start: the agent session of a pane (Agents), whose pane and       *)
(* process never disagree, and the computed choices of a form (Choices), whose *)
(* lists belong where they show.                                               *)
EXTENDS Agents, Choices, SequenceTheorems, TLAPS

-----------------------------------------------------------------------------
(* The agent session.                                                          *)
AgentSpec == AgentInit /\ [][AgentNext]_agentVars

(* pi's output ends a turn and then only refuses messages; or only refuses.    *)
Settles(q) == \E i \in 1 .. Len(q) : q[i] = "agent_settled" /\ \A j \in i + 1 .. Len(q) : q[j] = "response"
Refuses(q) == \A j \in 1 .. Len(q) : q[j] = "response"

(* pi's output, cut short when the process died, ends with its close event.    *)
Closes(q) ==
  /\ q \in Seq(PiWrites \cup {"close"}) /\ q # <<>> /\ q[Len(q)] = "close"
  /\ \A i \in 1 .. Len(q) - 1 : q[i] # "close"

Ready == Shows("idle")
Over  == Shows("exited")

(* A session that says what the pane shows, and will go on to say so.          *)
MockAgrees(h, c) ==
  /\ h.queue \in Seq(MockSays)
  /\ IF h.queue = <<>> THEN c = Ready ELSE h.queue[Len(h.queue)] = "settled"

PiAgrees(h, c) ==
  CASE h.os = "gone" -> Closes(h.queue)
    [] h.os = "spawning" -> h.queue \in Seq(PiWrites) /\ ~h.inTurn /\ (Settles(h.queue) \/ Refuses(h.queue))
    [] h.os = "up" -> /\ h.queue \in Seq(PiWrites)
                      /\ Settles(h.queue) \/ (Refuses(h.queue) /\ c = Ready /\ ~h.inTurn)

Agrees(h, c) ==
  IF h.exited THEN h.queue = <<>> /\ c = Over /\ h.os \in {"none", "gone"}
  ELSE /\ ~h.stopped
       /\ h.backend = "mock" => h.os = "none" /\ MockAgrees(h, c)
       /\ h.backend = "pi" => h.os \in {"spawning", "up", "gone"} /\ PiAgrees(h, c)

Events == {"turn-start", "assistant-delta", "assistant-message", "tool-call", "tool-result", "thinking",
           "retrying", "idle", "turn-end", "settled", "exit", "error"}
Chats == [open : BOOLEAN, status : Busy \cup {"starting", "idle", "exited"}, stream : BOOLEAN]

-----------------------------------------------------------------------------
(* The fold of the events into the pane.                                       *)
LEMMA FoldTyped ==
  ASSUME NEW c \in Chats, NEW e \in Events
  PROVE  Fold(c, e) \in Chats /\ Fold(c, e).open = c.open
BY DEF Fold, Chats, Events, Busy

LEMMA FoldAllOf ==
  /\ \A c : FoldAll(c, <<>>) = c
  /\ \A c, e : FoldAll(c, <<e>>) = Fold(c, e)
  /\ \A c, e, f : FoldAll(c, <<e, f>>) = Fold(Fold(c, e), f)
<1>1. \A c : FoldAll(c, <<>>) = c
  BY DEF FoldAll
<1>2. \A c, e : FoldAll(c, <<e>>) = Fold(c, e)
  <2> TAKE c, e
  <2>1. <<e>> # <<>> /\ Len(<<e>>) = 1 /\ <<e>>[1] = e
    OBVIOUS
  <2>2. QED
    BY <2>1 DEF FoldAll
<1>3. \A c, e, f : FoldAll(c, <<e, f>>) = Fold(Fold(c, e), f)
  <2> TAKE c, e, f
  <2>1. <<e, f>> # <<>> /\ Len(<<e, f>>) = 2 /\ <<e, f>>[1] = e /\ <<e, f>>[2] = f
    OBVIOUS
  <2>2. QED
    BY <2>1 DEF FoldAll
<1>4. QED
  BY <1>1, <1>2, <1>3

(* What a settled turn, and an exit, leave of the pane.                        *)
LEMMA FoldEnds ==
  ASSUME NEW c \in Chats, c.open
  PROVE  Fold(c, "settled") = Ready /\ Fold(c, "exit") = Over /\ Fold(c, "error") = c
<1>1. \A e : e = "settled" => Fold(c, e) = [c EXCEPT !.status = "idle", !.stream = FALSE]
  BY DEF Fold
<1>2. \A e : e = "exit" => Fold(c, e) = [c EXCEPT !.status = "exited", !.stream = FALSE]
  BY DEF Fold
<1>3. \A e : e = "error" => Fold(c, e) = c
  BY DEF Fold
<1>4. QED
  BY <1>1, <1>2, <1>3 DEF Chats, Ready, Over, Shows

LEMMA ChatsShown ==
  /\ Fresh \in Chats /\ Closed \in Chats /\ ~Closed.open /\ Fresh.open
  /\ Ready \in Chats /\ Over \in Chats
BY DEF Fresh, Closed, Ready, Over, Shows, Chats

(* What pi's records say, when it was not told to stop.                        *)
LEMMA MapPiSays ==
  ASSUME NEW h, NEW raw \in PiWrites, NEW events \in MapPi(h, raw)
  PROVE  /\ \/ events = <<>>
            \/ \E e \in Events \ {"exit"} : events = <<e>>
            \/ \E e, f \in Events \ {"exit"} : events = <<e, f>>
         /\ raw = "agent_settled" => events = <<"idle", "settled">>
         /\ raw = "response" => events = <<"error">>
<1>1. CASE raw = "agent_start"
  BY <1>1 DEF MapPi, Events
<1>2. CASE raw = "turn_start"
  BY <1>2 DEF MapPi, Events
<1>3. CASE raw = "message_update"
  BY <1>3 DEF MapPi, Events
<1>4. CASE raw = "tool_execution_start"
  BY <1>4 DEF MapPi, Events
<1>5. CASE raw = "tool_execution_end"
  BY <1>5 DEF MapPi, Events
<1>6. CASE raw = "auto_retry_start"
  BY <1>6 DEF MapPi, Events
<1>7. CASE raw = "turn_end"
  BY <1>7 DEF MapPi, Events
<1>8. CASE raw = "agent_settled"
  BY <1>8 DEF MapPi, Events
<1>9. CASE raw = "response"
  BY <1>9 DEF MapPi, Events
<1>10. QED
  BY <1>1, <1>2, <1>3, <1>4, <1>5, <1>6, <1>7, <1>8, <1>9 DEF PiWrites

-----------------------------------------------------------------------------
(* What the backend calls do to a session, besides its output.                 *)
SameButOutput(h, g) ==
  /\ g \in Handle /\ g.backend = h.backend /\ g.os = h.os /\ g.job = h.job
  /\ g.stopped = h.stopped /\ g.exited = h.exited /\ g.inTurn = h.inTurn

LEMMA OutputSet ==
  ASSUME NEW h \in Handle, NEW q \in Seq(Records)
  PROVE  LET g == [h EXCEPT !.queue = q] IN SameButOutput(h, g) /\ g.queue = q
BY DEF Handle, SameButOutput

LEMMA SameRefl == \A h \in Handle : SameButOutput(h, h)
BY DEF SameButOutput

LEMMA Turns ==
  /\ EchoTurn \in Seq(MockSays) /\ Len(EchoTurn) = 5 /\ EchoTurn[5] = "settled"
  /\ PiTurn \in Seq(PiWrites) /\ Len(PiTurn) = 8 /\ PiTurn[8] = "agent_settled"
BY DEF EchoTurn, PiTurn, MockSays, PiWrites

LEMMA SaidAreRecords ==
  /\ \A q \in Seq(MockSays) : q \in Seq(Records)
  /\ \A q \in Seq(PiWrites) : q \in Seq(Records)
  /\ <<"response">> \in Seq(PiWrites) /\ <<"exit">> \in Seq(Records)
<1>1. MockSays \subseteq Records /\ PiWrites \subseteq Records
  BY DEF Records
<1>2. <<"response">> \in Seq(PiWrites) /\ <<"exit">> \in Seq(Records)
  BY DEF PiWrites, Records
<1>3. QED
  BY <1>1, <1>2, SeqMonotonic

LEMMA SentOutput ==
  ASSUME NEW h \in Handle
  PROVE  SameButOutput(h, Sent(h))
<1> DEFINE more == IF h.backend = "mock" THEN EchoTurn
                   ELSE IF "agent_settled" \in Range(h.queue) THEN <<"response">> ELSE PiTurn
<1>1. h.queue \in Seq(Records)
  BY DEF Handle
<1>2. more \in Seq(Records)
  BY Turns, SaidAreRecords
<1>3. h.queue \o more \in Seq(Records)
  BY <1>1, <1>2, ConcatProperties
<1>4. Sent(h) = IF h.stopped \/ h.exited \/ h.os = "gone" THEN h ELSE [h EXCEPT !.queue = @ \o more]
  BY DEF Sent
<1>5. CASE h.stopped \/ h.exited \/ h.os = "gone"
  BY <1>4, <1>5, SameRefl
<1>6. CASE ~(h.stopped \/ h.exited \/ h.os = "gone")
  <2>1. Sent(h) = [h EXCEPT !.queue = h.queue \o more]
    BY <1>4, <1>6
  <2> HIDE DEF more
  <2>2. QED
    BY <1>3, <2>1, OutputSet
<1>7. QED
  BY <1>5, <1>6

LEMMA CutsAreRecords ==
  ASSUME NEW h
  PROVE  /\ MockCut(h) \in Seq(MockSays)
         /\ \A left \in PiCut(h) : left \in Seq(PiWrites)
<1>1. <<"turn-end", "settled">> \in Seq(MockSays) /\ <<"settled">> \in Seq(MockSays) /\ <<>> \in Seq(MockSays)
  BY DEF MockSays
<1>2. <<"turn_end", "agent_settled">> \in Seq(PiWrites) /\ <<"agent_settled">> \in Seq(PiWrites)
  BY DEF PiWrites
<1>3. QED
  BY <1>1, <1>2 DEF MockCut, PiCut

LEMMA InterruptedOutput ==
  ASSUME NEW h \in Handle, NEW g \in Interrupted(h)
  PROVE  SameButOutput(h, g)
<1>1. MockCut(h) \in Seq(Records)
  BY CutsAreRecords, SaidAreRecords
<1>2. \A left \in PiCut(h) : left \in Seq(Records)
  BY CutsAreRecords, SaidAreRecords
<1>3. \/ g = h \/ g = [h EXCEPT !.queue = MockCut(h)]
      \/ \E left \in PiCut(h) : g = [h EXCEPT !.queue = left]
  BY DEF Interrupted
<1>4. QED
  BY <1>1, <1>2, <1>3, OutputSet, SameRefl

LEMMA StoppedOutput ==
  ASSUME NEW h \in Handle
  PROVE  LET g == Stopped(h)
         IN  /\ g \in Handle /\ g.backend = h.backend /\ g.os = h.os /\ g.job = h.job
             /\ g.exited = h.exited /\ (g.exited \/ g.stopped)
<1>1. CASE h.stopped \/ h.exited
  BY <1>1 DEF Stopped
<1>2. CASE ~(h.stopped \/ h.exited) /\ h.backend = "mock"
  <2> DEFINE g == [h EXCEPT !.stopped = TRUE, !.inTurn = FALSE, !.queue = <<"exit">>]
  <2>1. Stopped(h) = g
    BY <1>2 DEF Stopped
  <2>2. <<"exit">> \in Seq(Records)
    BY SaidAreRecords
  <2>3. /\ g \in Handle /\ g.backend = h.backend /\ g.os = h.os /\ g.job = h.job
        /\ g.exited = h.exited /\ g.stopped
    BY <2>2 DEF Handle
  <2> HIDE DEF g
  <2>4. QED
    BY <2>1, <2>3
<1>3. CASE ~(h.stopped \/ h.exited) /\ h.backend # "mock"
  BY <1>3 DEF Stopped, Handle
<1>4. QED
  BY <1>1, <1>2, <1>3

LEMMA ForgottenOutput ==
  ASSUME NEW h \in Handle
  PROVE  LET g == Forgotten(h)
         IN  /\ g \in Handle /\ g.job # "running"
             /\ g.exited = h.exited /\ (g.exited \/ g.stopped)
<1> DEFINE k == Stopped(h)
           job == IF k.job = "running" THEN "killed" ELSE k.job
<1>1. k \in Handle /\ k.exited = h.exited /\ (k.exited \/ k.stopped)
  BY StoppedOutput
<1>2. Forgotten(h) = [k EXCEPT !.job = job]
  BY DEF Forgotten
<1> HIDE DEF k
<1>3. job \in {"running", "exited", "killed"} /\ job # "running"
  BY <1>1 DEF Handle
<1> HIDE DEF job
<1>4. QED
  BY <1>1, <1>2, <1>3 DEF Handle

-----------------------------------------------------------------------------
(* What is left of an output when a message is sent, when a record is read,    *)
(* and when the process dies.                                                  *)
LEMMA TurnAppended ==
  ASSUME NEW q \in Seq(PiWrites)
  PROVE  q \o PiTurn \in Seq(PiWrites) /\ Settles(q \o PiTurn)
<1> DEFINE n == Len(q)
           w == q \o PiTurn
<1>1. n \in Nat
  BY LenProperties
<1>2. PiTurn \in Seq(PiWrites) /\ Len(PiTurn) = 8
  BY Turns
<1>3. /\ w \in Seq(PiWrites) /\ Len(w) = n + 8
      /\ \A i \in 1 .. n + 8 : w[i] = IF i <= n THEN q[i] ELSE PiTurn[i - n]
  <2>1. /\ w \in Seq(PiWrites) /\ Len(w) = Len(q) + Len(PiTurn)
        /\ \A i \in 1 .. Len(q) + Len(PiTurn) : w[i] = IF i <= Len(q) THEN q[i] ELSE PiTurn[i - Len(q)]
    BY <1>2, ConcatProperties, Zenon
  <2>2. QED
    BY <1>2, <2>1, Zenon
<1> HIDE DEF n, w
<1>4. w[n + 8] = "agent_settled"
  <2> DEFINE k == n + 8
  <2>1. k \in 1 .. n + 8 /\ ~(k <= n) /\ k - n = 8
    BY <1>1
  <2> HIDE DEF k
  <2>2. w[k] = PiTurn[8]
    BY <1>3, <2>1
  <2>3. QED
    BY <2>2, Turns DEF k
<1>5. n + 8 \in 1 .. Len(w) /\ \A j \in n + 8 + 1 .. Len(w) : w[j] = "response"
  BY <1>1, <1>3
<1>6. Settles(w)
  BY <1>4, <1>5 DEF Settles
<1>7. QED
  BY <1>3, <1>6 DEF w

LEMMA RefusalAppended ==
  ASSUME NEW q \in Seq(PiWrites), Settles(q)
  PROVE  q \o <<"response">> \in Seq(PiWrites) /\ Settles(q \o <<"response">>)
<1> DEFINE n == Len(q)
           w == Append(q, "response")
<1>1. n \in Nat
  BY LenProperties
<1>2. "response" \in PiWrites
  BY DEF PiWrites
<1>3. /\ w \in Seq(PiWrites) /\ Len(w) = n + 1 /\ w[n + 1] = "response"
      /\ \A i \in 1 .. n : w[i] = q[i]
  BY <1>2, AppendProperties
<1>4. w = q \o <<"response">>
  BY <1>2, AppendIsConcat
<1>5. PICK i \in 1 .. n : q[i] = "agent_settled" /\ \A j \in i + 1 .. n : q[j] = "response"
  BY DEF Settles
<1> HIDE DEF n, w
<1>6. w[i] = "agent_settled" /\ i \in 1 .. n + 1
  BY <1>1, <1>3, <1>5
<1>7. ASSUME NEW j \in i + 1 .. n + 1 PROVE w[j] = "response"
  <2>0. i \in Int /\ j \in Int /\ 1 <= i /\ i <= n /\ i + 1 <= j /\ j <= n + 1
    BY <1>1
  <2>1. j = n + 1 \/ (j \in i + 1 .. n /\ j \in 1 .. n)
    BY <1>1, <2>0
  <2>2. QED
    BY <1>3, <1>5, <2>1
<1>8. Settles(w)
  BY <1>3, <1>6, <1>7 DEF Settles
<1>9. QED
  BY <1>3, <1>4, <1>8

LEMMA RecordRead ==
  ASSUME NEW q \in Seq(PiWrites), q # <<>>
  PROVE  /\ Head(q) \in PiWrites /\ Tail(q) \in Seq(PiWrites)
         /\ Settles(q) /\ Head(q) # "agent_settled" => Settles(Tail(q))
         /\ Settles(q) => Settles(Tail(q)) \/ (Head(q) = "agent_settled" /\ Refuses(Tail(q)))
         /\ Refuses(q) => Head(q) = "response" /\ Refuses(Tail(q))
<1> DEFINE n == Len(q)
           t == Tail(q)
<1>1. n \in Nat /\ n > 0
  BY LenProperties, EmptySeq
<1>2. /\ t \in Seq(PiWrites) /\ Len(t) = n - 1 /\ \A i \in 1 .. n - 1 : t[i] = q[i + 1]
      /\ Head(q) \in PiWrites /\ Head(q) = q[1]
  BY HeadTailProperties
<1> HIDE DEF n, t
<1>3. ASSUME Refuses(q) PROVE Head(q) = "response" /\ Refuses(t)
  <2>1. \A j \in 1 .. n : q[j] = "response"
    BY <1>3 DEF Refuses, n
  <2>2. 1 \in 1 .. n /\ \A i \in 1 .. n - 1 : i + 1 \in 1 .. n
    BY <1>1
  <2>3. QED
    BY <1>2, <2>1, <2>2 DEF Refuses
<1>4. ASSUME Settles(q) PROVE Settles(t) \/ (Head(q) = "agent_settled" /\ Refuses(t))
  <2>1. PICK i \in 1 .. n : q[i] = "agent_settled" /\ \A j \in i + 1 .. n : q[j] = "response"
    BY <1>4 DEF Settles, n
  <2>2. ASSUME NEW j \in i .. n - 1, j \in 1 .. n - 1 PROVE t[j] = "response"
    <3>1. j + 1 \in i + 1 .. n
      BY <1>1
    <3>2. QED
      BY <1>2, <2>1, <2>2, <3>1
  <2>3. CASE i = 1
    <3>1. \A j \in 1 .. n - 1 : t[j] = "response"
      BY <2>2, <2>3
    <3>2. QED
      BY <1>2, <2>1, <2>3, <3>1 DEF Refuses
  <2>4. CASE i # 1
    <3> DEFINE k == i - 1
    <3>1. k \in 1 .. n - 1 /\ k + 1 = i /\ \A j \in k + 1 .. n - 1 : j \in i .. n - 1 /\ j \in 1 .. n - 1
      BY <1>1, <2>4
    <3> HIDE DEF k
    <3>2. t[k] = "agent_settled"
      BY <1>2, <2>1, <3>1
    <3>3. \A j \in k + 1 .. n - 1 : t[j] = "response"
      BY <2>2, <3>1
    <3>4. QED
      BY <1>2, <3>1, <3>2, <3>3 DEF Settles
  <2>5. QED
    BY <2>3, <2>4
<1>5. QED
  BY <1>2, <1>3, <1>4 DEF t

LEMMA CloseRead ==
  ASSUME NEW q, Closes(q)
  PROVE  /\ q # <<>>
         /\ \/ Head(q) = "close" /\ Tail(q) = <<>>
            \/ Head(q) \in PiWrites /\ Closes(Tail(q))
<1> DEFINE n == Len(q)
           t == Tail(q)
           S == PiWrites \cup {"close"}
<1>1. q \in Seq(S) /\ q # <<>> /\ q[n] = "close" /\ \A i \in 1 .. n - 1 : q[i] # "close"
  BY DEF Closes
<1>2. n \in Nat /\ n > 0
  BY <1>1, LenProperties, EmptySeq
<1>3. /\ t \in Seq(S) /\ Len(t) = n - 1 /\ \A i \in 1 .. n - 1 : t[i] = q[i + 1]
      /\ Head(q) \in S /\ Head(q) = q[1]
  BY <1>1, HeadTailProperties
<1> HIDE DEF n, t, S
<1>4. CASE n = 1
  <2>1. Head(q) = "close" /\ Len(t) = 0
    BY <1>1, <1>3, <1>4
  <2>2. t = <<>>
    BY <1>3, <2>1, EmptySeq
  <2>3. QED
    BY <1>1, <2>1, <2>2 DEF t
<1>5. CASE n # 1
  <2>1. 1 \in 1 .. n - 1 /\ n - 1 \in 1 .. n - 1 /\ n - 1 + 1 = n
    BY <1>2, <1>5
  <2>2. Head(q) # "close" /\ Head(q) \in PiWrites
    BY <1>1, <1>3, <2>1 DEF S
  <2>3. t[n - 1] = "close"
    BY <1>1, <1>3, <2>1
  <2>4. ASSUME NEW i \in 1 .. n - 1 - 1 PROVE t[i] # "close"
    <3>1. i \in 1 .. n - 1 /\ i + 1 \in 1 .. n - 1
      BY <1>2
    <3>2. QED
      BY <1>1, <1>3, <3>1
  <2>5. t # <<>>
    BY <1>3, <2>1, EmptySeq
  <2>6. Closes(t)
    BY <1>3, <2>3, <2>4, <2>5 DEF Closes, S
  <2>7. QED
    BY <1>1, <2>2, <2>6 DEF t
<1>6. QED
  BY <1>4, <1>5

LEMMA OutputCut ==
  ASSUME NEW q \in Seq(PiWrites), NEW n \in 0 .. Len(q)
  PROVE  Closes(Append(SubSeq(q, 1, n), "close"))
<1> DEFINE S == PiWrites \cup {"close"}
           u == SubSeq(q, 1, n)
           w == Append(u, "close")
<1>1. Len(q) \in Nat /\ n \in Nat /\ n <= Len(q)
  BY LenProperties
<1>2. \A i \in 1 .. n : q[i] \in PiWrites
  BY <1>1, ElementOfSeq
<1>3. u \in Seq(PiWrites) /\ Len(u) = n
  BY <1>1, <1>2, SubSeqProperties
<1>4. u \in Seq(S) /\ \A i \in 1 .. n : u[i] \in PiWrites
  BY <1>3, SeqMonotonic, ElementOfSeq
<1> HIDE DEF u
<1>5. /\ w \in Seq(S) /\ w # <<>> /\ Len(w) = n + 1 /\ w[n + 1] = "close"
      /\ \A i \in 1 .. n : w[i] = u[i]
  <2>1. "close" \in S
    OBVIOUS
  <2> HIDE DEF S
  <2>2. /\ w \in Seq(S) /\ w # <<>> /\ Len(w) = Len(u) + 1 /\ w[Len(u) + 1] = "close"
        /\ \A i \in 1 .. Len(u) : w[i] = u[i]
    BY <1>4, <2>1, AppendProperties
  <2>3. QED
    BY <1>3, <2>2, Zenon
<1>7. \A i \in 1 .. n + 1 - 1 : w[i] # "close"
  <2>1. n + 1 - 1 = n /\ "close" \notin PiWrites
    BY <1>1 DEF PiWrites
  <2>2. QED
    BY <1>4, <1>5, <2>1
<1> HIDE DEF w
<1>8. QED
  BY <1>5, <1>7 DEF Closes, S, w, u

-----------------------------------------------------------------------------
(* The session goes on agreeing with the pane through each call and event.     *)
LEMMA SentAgrees ==
  ASSUME NEW h \in Handle, NEW c \in Chats, Agrees(h, c)
  PROVE  Agrees(Sent(h), c)
<1> DEFINE g == Sent(h)
           more == IF "agent_settled" \in Range(h.queue) THEN <<"response">> ELSE PiTurn
<1>1. SameButOutput(h, g)
  BY SentOutput
<1>2. CASE h.stopped \/ h.exited \/ h.os = "gone"
  BY <1>2 DEF Sent
<1>3. CASE ~(h.stopped \/ h.exited \/ h.os = "gone") /\ h.backend = "mock"
  <2>1. g = [h EXCEPT !.queue = h.queue \o EchoTurn]
    BY <1>3 DEF Sent
  <2>2. g.queue = h.queue \o EchoTurn
    BY <2>1 DEF Handle
  <2>3. h.queue \in Seq(MockSays)
    BY <1>3 DEF Agrees, MockAgrees
  <2> DEFINE n == Len(h.queue)
             w == h.queue \o EchoTurn
  <2>4. n \in Nat /\ w \in Seq(MockSays) /\ Len(w) = n + 5
    <3>1. EchoTurn \in Seq(MockSays) /\ Len(EchoTurn) = 5
      BY Turns
    <3>2. Len(h.queue) \in Nat /\ w \in Seq(MockSays) /\ Len(w) = Len(h.queue) + Len(EchoTurn)
      BY <2>3, <3>1, ConcatProperties, LenProperties, Zenon
    <3>3. QED
      BY <3>1, <3>2, Zenon
  <2>5. w[n + 5] = "settled"
    <3>1. EchoTurn \in Seq(MockSays) /\ Len(EchoTurn) = 5 /\ EchoTurn[5] = "settled"
      BY Turns
    <3>2. \A i \in 1 .. Len(h.queue) + Len(EchoTurn) :
             w[i] = IF i <= Len(h.queue) THEN h.queue[i] ELSE EchoTurn[i - Len(h.queue)]
      BY <2>3, <3>1, ConcatProperties, Zenon
    <3>3. \A i \in 1 .. n + 5 : w[i] = IF i <= n THEN h.queue[i] ELSE EchoTurn[i - n]
      BY <3>1, <3>2, Zenon
    <3> DEFINE k == n + 5
    <3> HIDE DEF n, w
    <3>4. k \in 1 .. n + 5 /\ ~(k <= n) /\ k - n = 5
      BY <2>4
    <3> HIDE DEF k
    <3>5. w[k] = EchoTurn[5]
      BY <3>3, <3>4
    <3>6. QED
      BY <3>1, <3>5 DEF k
  <2> HIDE DEF n, w
  <2>6. w # <<>>
    BY <2>4, EmptySeq
  <2>7. MockAgrees(g, c)
    BY <2>2, <2>4, <2>5, <2>6 DEF MockAgrees, w
  <2>8. QED
    BY <1>1, <1>3, <2>7 DEF Agrees, SameButOutput
<1>4. CASE ~(h.stopped \/ h.exited \/ h.os = "gone") /\ h.backend = "pi"
  <2>1. g = [h EXCEPT !.queue = h.queue \o more]
    BY <1>4 DEF Sent
  <2>2. g.queue = h.queue \o more
    BY <2>1 DEF Handle
  <2>3. PiAgrees(h, c) /\ h.os \in {"spawning", "up"} /\ ~h.exited /\ ~h.stopped
    BY <1>4 DEF Agrees
  <2>4. h.queue \in Seq(PiWrites) /\ (Settles(h.queue) \/ Refuses(h.queue))
    BY <2>3 DEF PiAgrees
  <2>7. g.queue \in Seq(PiWrites) /\ Settles(g.queue)
    <3>1. CASE "agent_settled" \in Range(h.queue)
      <4>1. ~Refuses(h.queue)
        <5>1. PICK i \in DOMAIN h.queue : h.queue[i] = "agent_settled"
          BY <3>1 DEF Range
        <5>2. i \in 1 .. Len(h.queue)
          BY <2>4, LenProperties
        <5>3. QED
          BY <5>1, <5>2 DEF Refuses
      <4>2. h.queue \o <<"response">> \in Seq(PiWrites) /\ Settles(h.queue \o <<"response">>)
        BY <2>4, <4>1, RefusalAppended
      <4>3. QED
        BY <2>2, <3>1, <4>2
    <3>2. CASE "agent_settled" \notin Range(h.queue)
      BY <2>2, <2>4, <3>2, TurnAppended
    <3>3. QED
      BY <3>1, <3>2
  <2>8. PiAgrees(g, c)
    BY <1>1, <2>3, <2>7 DEF PiAgrees, SameButOutput
  <2>9. QED
    BY <1>1, <1>4, <2>3, <2>8 DEF Agrees, SameButOutput
<1>5. QED
  BY <1>2, <1>3, <1>4 DEF Handle

LEMMA InterruptedAgrees ==
  ASSUME NEW h \in Handle, NEW c \in Chats, Agrees(h, c), NEW g \in Interrupted(h)
  PROVE  Agrees(g, c)
<1>1. SameButOutput(h, g)
  BY InterruptedOutput
<1>2. CASE g = h
  BY <1>2
<1>3. CASE g = [h EXCEPT !.queue = MockCut(h)] /\ h.backend = "mock" /\ ~h.stopped /\ ~h.exited
  <2>1. g.queue = MockCut(h) /\ MockCut(h) \in Seq(MockSays)
    BY <1>3, CutsAreRecords DEF Handle
  <2>2. MockAgrees(h, c)
    BY <1>3 DEF Agrees
  <2>3. MockAgrees(g, c)
    <3>1. CASE h.inTurn
      BY <2>1, <3>1 DEF MockCut, MockAgrees
    <3>2. CASE ~h.inTurn /\ h.queue # <<>>
      BY <2>1, <3>2 DEF MockCut, MockAgrees
    <3>3. CASE ~h.inTurn /\ h.queue = <<>>
      BY <2>1, <2>2, <3>3 DEF MockCut, MockAgrees
    <3>4. QED
      BY <3>1, <3>2, <3>3
  <2>4. QED
    BY <1>1, <1>3, <2>3 DEF Agrees, SameButOutput
<1>4. CASE /\ \E left \in PiCut(h) : g = [h EXCEPT !.queue = left]
           /\ h.backend = "pi" /\ h.os # "gone" /\ h.inTurn /\ ~h.stopped /\ ~h.exited
  <2>1. PICK left \in PiCut(h) : g = [h EXCEPT !.queue = left]
    BY <1>4
  <2>2. g.queue = left /\ left \in Seq(PiWrites)
    BY <2>1, CutsAreRecords DEF Handle
  <2>3. left = <<"agent_settled">> \/ left = <<"turn_end", "agent_settled">>
    BY DEF PiCut
  <2>4. Settles(left)
    <3>1. CASE left = <<"agent_settled">>
      <4>1. Len(left) = 1 /\ left[1] = "agent_settled" /\ 1 \in 1 .. 1 /\ \A j \in 1 + 1 .. 1 : FALSE
        BY <3>1
      <4>2. QED
        BY <4>1 DEF Settles
    <3>2. CASE left = <<"turn_end", "agent_settled">>
      <4>1. Len(left) = 2 /\ left[2] = "agent_settled" /\ 2 \in 1 .. 2 /\ \A j \in 2 + 1 .. 2 : FALSE
        BY <3>2
      <4>2. QED
        BY <4>1 DEF Settles
    <3>3. QED
      BY <2>3, <3>1, <3>2
  <2>5. h.os = "up"
    BY <1>4 DEF Agrees, PiAgrees
  <2>6. PiAgrees(g, c)
    BY <1>1, <2>2, <2>4, <2>5 DEF PiAgrees, SameButOutput
  <2>7. QED
    BY <1>1, <1>4, <2>5, <2>6 DEF Agrees, SameButOutput
<1>5. QED
  BY <1>2, <1>3, <1>4 DEF Interrupted, Handle

(* What _deliver does to the session that emitted.                             *)
Exits(events) == \E i \in DOMAIN events : events[i] = "exit"

LEMMA DeliveredShape ==
  ASSUME NEW s, NEW h \in Handle, NEW events
  PROVE  LET d == Delivered(s, h, events)
         IN  /\ d \in Handle /\ d.backend = h.backend /\ d.queue = h.queue /\ d.inTurn = h.inTurn
             /\ d.os = h.os /\ d.stopped = h.stopped
             /\ d.exited <=> (h.exited \/ Exits(events))
             /\ d.job = IF Exits(events) /\ s = sess /\ h.job = "running" THEN "exited" ELSE h.job
<1> DEFINE last == "exit" \in Range(events)
           over == h.exited \/ last
           job == IF last /\ s = sess /\ h.job = "running" THEN "exited" ELSE h.job
<1>1. last <=> Exits(events)
  BY DEF Range, Exits
<1>2. Delivered(s, h, events) = [h EXCEPT !.exited = over, !.job = job]
  BY DEF Delivered
<1>3. over \in BOOLEAN /\ job \in {"running", "exited", "killed"}
  BY DEF Handle
<1>4. job = IF Exits(events) /\ s = sess /\ h.job = "running" THEN "exited" ELSE h.job
  BY <1>1
<1>5. over <=> (h.exited \/ Exits(events))
  BY <1>1
<1> HIDE DEF over, job, last
<1>6. QED
  BY <1>2, <1>3, <1>4, <1>5 DEF Handle

LEMMA ExitsOf ==
  /\ ~Exits(<<>>)
  /\ \A e : Exits(<<e>>) <=> e = "exit"
  /\ \A e, f : Exits(<<e, f>>) <=> e = "exit" \/ f = "exit"
<1>1. ~Exits(<<>>)
  BY DEF Exits
<1>2. \A e : Exits(<<e>>) <=> e = "exit"
  <2> TAKE e
  <2>1. DOMAIN <<e>> = {1} /\ <<e>>[1] = e
    OBVIOUS
  <2>2. QED
    BY <2>1 DEF Exits
<1>3. \A e, f : Exits(<<e, f>>) <=> e = "exit" \/ f = "exit"
  <2> TAKE e, f
  <2>1. DOMAIN <<e, f>> = {1, 2} /\ <<e, f>>[1] = e /\ <<e, f>>[2] = f
    OBVIOUS
  <2>2. QED
    BY <2>1 DEF Exits
<1>4. QED
  BY <1>1, <1>2, <1>3

(* A session k that is h after its next event was delivered.                   *)
Follows(k, h) ==
  k \in Handle /\ k.backend = h.backend /\ k.os = h.os /\ k.stopped = h.stopped /\ k.queue = Tail(h.queue)

LEMMA MockAgreesOn ==
  ASSUME NEW h \in Handle, NEW c \in Chats, c.open, Agrees(h, c), ~h.exited, h.backend = "mock",
         h.queue # <<>>, NEW k, Follows(k, h), k.exited <=> Exits(<<Head(h.queue)>>)
  PROVE  LET d == FoldAll(c, <<Head(h.queue)>>) IN d \in Chats /\ d.open /\ Agrees(k, d)
<1> DEFINE q == h.queue
           e == Head(q)
           t == Tail(q)
           n == Len(q)
           d == FoldAll(c, <<e>>)
<1>1. q \in Seq(MockSays) /\ q[n] = "settled" /\ ~h.stopped /\ h.os = "none"
  BY DEF Agrees, MockAgrees
<1>2. n \in Nat /\ n > 0
  BY <1>1, LenProperties, EmptySeq
<1>3. /\ t \in Seq(MockSays) /\ Len(t) = n - 1 /\ \A i \in 1 .. n - 1 : t[i] = q[i + 1]
      /\ e \in MockSays /\ e = q[1]
  BY <1>1, HeadTailProperties
<1>4. e \in Events /\ e # "exit"
  BY <1>3 DEF MockSays, Events
<1>5. d = Fold(c, e)
  BY FoldAllOf
<1>6. d \in Chats /\ d.open
  BY <1>4, <1>5, FoldTyped
<1>7. ~k.exited /\ k.queue = t /\ ~k.stopped /\ k.os = "none" /\ k.backend = "mock"
  BY <1>1, <1>4, ExitsOf DEF Follows
<1> HIDE DEF d, e, n, t, q
<1>8. CASE n = 1
  <2>1. t = <<>> /\ e = "settled"
    BY <1>1, <1>3, <1>8, EmptySeq
  <2>2. d = Ready
    BY <1>5, <2>1, FoldEnds
  <2>3. MockAgrees(k, d)
    BY <1>3, <1>7, <2>1, <2>2 DEF MockAgrees
  <2>4. QED
    BY <1>6, <1>7, <2>3 DEF Agrees, d, e, q
<1>9. CASE n # 1
  <2>1. n - 1 \in 1 .. n - 1 /\ n - 1 + 1 = n /\ n - 1 # 0
    BY <1>2, <1>9
  <2>2. t[n - 1] = "settled" /\ t # <<>>
    BY <1>1, <1>3, <2>1, EmptySeq
  <2>3. MockAgrees(k, d)
    BY <1>3, <1>7, <2>2 DEF MockAgrees
  <2>4. QED
    BY <1>6, <1>7, <2>3 DEF Agrees, d, e, q
<1>10. QED
  BY <1>8, <1>9

LEMMA PiAgreesOn ==
  ASSUME NEW h \in Handle, NEW c \in Chats, c.open, Agrees(h, c), ~h.exited, h.backend = "pi",
         h.os # "spawning", h.queue # <<>>, NEW events \in PiEmits(h, Head(h.queue)),
         NEW k, Follows(k, h), k.exited <=> Exits(events), k.inTurn = InTurnAfter(h, Head(h.queue))
  PROVE  LET d == FoldAll(c, events) IN d \in Chats /\ d.open /\ Agrees(k, d)
<1> DEFINE q == h.queue
           raw == Head(q)
           t == Tail(q)
           d == FoldAll(c, events)
<1>1. PiAgrees(h, c) /\ ~h.stopped /\ h.os \in {"up", "gone"}
  BY DEF Agrees
<1>2. events \in MapPi(h, raw)
  BY <1>1 DEF PiEmits
<1>3. k.queue = t /\ ~k.stopped /\ k.os = h.os /\ k.backend = "pi" /\ k \in Handle
  BY <1>1 DEF Follows
<1>4. ASSUME raw \in PiWrites
      PROVE  /\ ~Exits(events) /\ d \in Chats /\ d.open
             /\ raw = "agent_settled" => d = Ready
             /\ raw = "response" => d = c
  <2>1. CASE events = <<>>
    <3>1. d = c
      BY <2>1, FoldAllOf
    <3>2. raw # "agent_settled"
      BY <1>2, <1>4, <2>1, MapPiSays
    <3>3. QED
      BY <2>1, <3>1, <3>2, ExitsOf
  <2>2. CASE \E e \in Events \ {"exit"} : events = <<e>>
    <3>1. PICK e \in Events \ {"exit"} : events = <<e>>
      BY <2>2
    <3>2. d = Fold(c, e)
      BY <3>1, FoldAllOf
    <3>3. raw = "response" => e = "error"
      BY <1>2, <1>4, <3>1, MapPiSays
    <3>4. raw # "agent_settled"
      <4>1. events # <<"idle", "settled">>
        BY <3>1
      <4>2. QED
        BY <1>2, <1>4, <4>1, MapPiSays
    <3>5. QED
      BY <3>1, <3>2, <3>3, <3>4, ExitsOf, FoldTyped, FoldEnds
  <2>3. CASE \E e, f \in Events \ {"exit"} : events = <<e, f>>
    <3>1. PICK e \in Events \ {"exit"}, f \in Events \ {"exit"} : events = <<e, f>>
      BY <2>3
    <3>2. d = Fold(Fold(c, e), f)
      BY <3>1, FoldAllOf
    <3>3. Fold(c, e) \in Chats /\ Fold(c, e).open
      BY <3>1, FoldTyped
    <3>4. d \in Chats /\ d.open
      BY <3>1, <3>2, <3>3, FoldTyped
    <3>5. raw = "agent_settled" => f = "settled"
      BY <1>2, <1>4, <3>1, MapPiSays
    <3>6. raw # "response"
      <4>1. events # <<"error">>
        BY <3>1
      <4>2. QED
        BY <1>2, <1>4, <4>1, MapPiSays
    <3>7. QED
      BY <3>1, <3>2, <3>3, <3>4, <3>5, <3>6, ExitsOf, FoldEnds
  <2>4. QED
    BY <1>2, <1>4, <2>1, <2>2, <2>3, MapPiSays
<1>5. ASSUME raw = "close"
      PROVE  Exits(events) /\ d = Over
  <2>1. events = <<"exit">> \/ events = <<"error", "exit">>
    BY <1>2, <1>5 DEF MapPi
  <2>2. CASE events = <<"exit">>
    <3>1. d = Fold(c, "exit")
      BY <2>2, FoldAllOf
    <3>2. QED
      BY <2>2, <3>1, FoldEnds, ExitsOf
  <2>3. CASE events = <<"error", "exit">>
    <3>1. d = Fold(Fold(c, "error"), "exit")
      BY <2>3, FoldAllOf
    <3>2. QED
      BY <2>3, <3>1, FoldEnds, ExitsOf
  <2>4. QED
    BY <2>1, <2>2, <2>3
<1>6. CASE h.os = "gone"
  <2>1. Closes(q)
    BY <1>1, <1>6 DEF PiAgrees
  <2>2. CASE raw = "close" /\ t = <<>>
    <3>1. k.exited /\ d = Over
      BY <1>5, <2>2
    <3>2. Over \in Chats /\ Over.open
      BY ChatsShown DEF Over, Shows
    <3> HIDE DEF d
    <3>3. Agrees(k, d)
      BY <1>3, <1>6, <2>2, <3>1 DEF Agrees
    <3>4. QED
      BY <3>1, <3>2, <3>3 DEF d
  <2>3. CASE raw \in PiWrites /\ Closes(t)
    <3>1. ~k.exited /\ d \in Chats /\ d.open
      BY <1>4, <2>3
    <3> HIDE DEF d, t
    <3>2. Agrees(k, d)
      BY <1>3, <1>6, <2>3, <3>1 DEF Agrees, PiAgrees
    <3>3. QED
      BY <3>1, <3>2 DEF d
  <2>4. QED
    BY <2>1, <2>2, <2>3, CloseRead
<1>7. CASE h.os = "up"
  <2>1. q \in Seq(PiWrites) /\ (Settles(q) \/ (Refuses(q) /\ c = Ready /\ ~h.inTurn))
    BY <1>1, <1>7 DEF PiAgrees
  <2>2. raw \in PiWrites /\ t \in Seq(PiWrites)
    BY <2>1, RecordRead
  <2>3. /\ ~k.exited /\ d \in Chats /\ d.open
        /\ raw = "agent_settled" => d = Ready
        /\ raw = "response" => d = c
    BY <1>4, <2>2
  <2>4. Settles(t) \/ (Refuses(t) /\ d = Ready /\ ~k.inTurn)
    <3>1. CASE Settles(q)
      <4>1. Settles(t) \/ (raw = "agent_settled" /\ Refuses(t))
        BY <2>1, <3>1, RecordRead
      <4>2. raw = "agent_settled" => ~k.inTurn
        BY DEF InTurnAfter
      <4>3. QED
        BY <2>3, <4>1, <4>2
    <3>2. CASE Refuses(q) /\ c = Ready /\ ~h.inTurn
      <4>1. raw = "response" /\ Refuses(t)
        BY <2>1, <3>2, RecordRead
      <4>2. raw = "response" => ~k.inTurn
        BY <3>2 DEF InTurnAfter
      <4>3. QED
        BY <2>3, <3>2, <4>1, <4>2
    <3>3. QED
      BY <2>1, <3>1, <3>2
  <2> HIDE DEF d, t
  <2>5. Agrees(k, d)
    BY <1>3, <1>7, <2>2, <2>3, <2>4 DEF Agrees, PiAgrees
  <2>6. QED
    BY <2>3, <2>5 DEF d
<1>8. QED
  BY <1>1, <1>6, <1>7

-----------------------------------------------------------------------------
(* After cleanup the session only ever says that it ended.                     *)
Silenced(h) ==
  /\ h.stopped \/ h.exited
  /\ h.backend = "mock" => h.queue \in {<<>>, <<"exit">>} /\ h.os \in {"none", "gone"}

(* The inductive invariant: the session of the pane agrees with it, or was     *)
(* silenced, and the others were forgotten.                                    *)
AgentsInv ==
  /\ handles \in Seq(Handle) /\ sess \in 0 .. Len(handles) /\ chat \in Chats
  /\ ~chat.open => sess = 0
  /\ chat.open /\ sess = 0 => chat = Fresh
  /\ sess # 0 => IF quit THEN Silenced(handles[sess]) ELSE Agrees(handles[sess], chat)
  /\ NoStrayAgent

LEMMA HandlesAt ==
  ASSUME AgentsInv
  PROVE  /\ Len(handles) \in Nat /\ DOMAIN handles = 1 .. Len(handles)
         /\ \A s \in DOMAIN handles : handles[s] \in Handle
         /\ sess # 0 => sess \in DOMAIN handles /\ chat.open
<1>1. handles \in Seq(Handle)
  BY DEF AgentsInv
<1>2. Len(handles) \in Nat /\ DOMAIN handles = 1 .. Len(handles)
  BY <1>1, LenProperties
<1>3. \A s \in DOMAIN handles : handles[s] \in Handle
  BY <1>1, <1>2, ElementOfSeq
<1>4. QED
  BY <1>2, <1>3 DEF AgentsInv

LEMMA HandlesExcept ==
  ASSUME NEW hs \in Seq(Handle), NEW s \in 1 .. Len(hs), NEW k \in Handle
  PROVE  LET g == [hs EXCEPT ![s] = k]
         IN  /\ g \in Seq(Handle) /\ Len(g) = Len(hs) /\ DOMAIN g = 1 .. Len(hs)
             /\ g[s] = k /\ \A u \in 1 .. Len(hs) : u # s => g[u] = hs[u]
<1> DEFINE g == [hs EXCEPT ![s] = k]
<1>1. g \in Seq(Handle) /\ Len(g) = Len(hs)
  BY ExceptSeq
<1>2. DOMAIN g = 1 .. Len(hs) /\ DOMAIN hs = 1 .. Len(hs)
  BY <1>1, LenProperties
<1>3. QED
  BY <1>1, <1>2

(* A session that is changed in place, with the pane, keeps the invariant.     *)
LEMMA ChangedInPlace ==
  ASSUME AgentsInv, NEW s \in DOMAIN handles, NEW k \in Handle, handles' = [handles EXCEPT ![s] = k],
         chat' \in Chats, UNCHANGED <<sess, quit>>, s # sess => chat' = chat,
         s = sess => chat'.open /\ IF quit THEN Silenced(k) ELSE Agrees(k, chat'),
         k.job = "running" <=> s = sess /\ ~k.exited,
         ~k.exited /\ (s # sess \/ quit) => k.stopped
  PROVE  AgentsInv'
<1>1. /\ Len(handles) \in Nat /\ DOMAIN handles = 1 .. Len(handles)
      /\ sess # 0 => sess \in DOMAIN handles /\ chat.open
  BY HandlesAt
<1>2. /\ handles' \in Seq(Handle) /\ Len(handles') = Len(handles) /\ DOMAIN handles' = 1 .. Len(handles)
      /\ handles'[s] = k /\ \A u \in 1 .. Len(handles) : u # s => handles'[u] = handles[u]
  BY <1>1, HandlesExcept DEF AgentsInv
<1>3. sess' = sess /\ quit' = quit
  OBVIOUS
<1>4. NoStrayAgent'
  <2> SUFFICES ASSUME NEW u \in 1 .. Len(handles)
               PROVE  /\ handles'[u].job = "running" <=> u = sess /\ ~handles'[u].exited
                      /\ ~handles'[u].exited /\ (u # sess \/ quit) => handles'[u].stopped
    BY <1>2, <1>3 DEF NoStrayAgent
  <2>1. CASE u = s
    BY <1>2, <2>1
  <2>2. CASE u # s
    BY <1>1, <1>2, <2>2 DEF AgentsInv, NoStrayAgent
  <2>3. QED
    BY <2>1, <2>2
<1>5. sess # 0 => IF quit THEN Silenced(handles'[sess]) ELSE Agrees(handles'[sess], chat')
  BY <1>1, <1>2 DEF AgentsInv
<1>6. (~chat'.open => sess = 0) /\ (chat'.open /\ sess = 0 => chat' = Fresh)
  BY <1>1 DEF AgentsInv
<1>7. sess \in 0 .. Len(handles)
  BY DEF AgentsInv
<1>8. QED
  BY <1>2, <1>3, <1>4, <1>5, <1>6, <1>7 DEF AgentsInv

(* An emission: k is the session before _deliver has seen the events.          *)
LEMMA EmitKeeps ==
  ASSUME AgentsInv, NEW s \in DOMAIN handles, NEW k \in Handle, NEW events, Emit(s, k, events),
         k.job = handles[s].job, k.exited = handles[s].exited, k.stopped = handles[s].stopped,
         s = sess => LET c == FoldAll(chat, events)
                         d == Delivered(s, k, events)
                     IN  c \in Chats /\ c.open /\ IF quit THEN Silenced(d) ELSE Agrees(d, c)
  PROVE  AgentsInv'
<1> DEFINE d == Delivered(s, k, events)
           c == FoldAll(chat, events)
<1>1. /\ d \in Handle /\ d.stopped = k.stopped /\ (d.exited <=> k.exited \/ Exits(events))
      /\ d.job = IF Exits(events) /\ s = sess /\ k.job = "running" THEN "exited" ELSE k.job
  BY DeliveredShape
<1>2. handles' = [handles EXCEPT ![s] = d] /\ UNCHANGED <<sess, quit>>
  BY DEF Emit
<1>3. /\ handles[s].job = "running" <=> s = sess /\ ~handles[s].exited
      /\ ~handles[s].exited /\ (s # sess \/ quit) => handles[s].stopped
  BY DEF AgentsInv, NoStrayAgent
<1>4. s = sess => chat.open
  BY HandlesAt DEF AgentsInv
<1>5. chat' = IF s = sess THEN c ELSE chat
  BY <1>4 DEF Emit, Heard
<1>6. s = sess => c \in Chats /\ c.open /\ IF quit THEN Silenced(d) ELSE Agrees(d, c)
  OBVIOUS
<1> HIDE DEF c, d
<1>7. chat' \in Chats /\ (s # sess => chat' = chat)
  BY <1>5, <1>6 DEF AgentsInv
<1>8. d.job = "running" <=> s = sess /\ ~d.exited
  BY <1>1, <1>3
<1>9. ~d.exited /\ (s # sess \/ quit) => d.stopped
  BY <1>1, <1>3
<1>10. s = sess => chat'.open /\ IF quit THEN Silenced(d) ELSE Agrees(d, chat')
  BY <1>5, <1>6
<1>11. QED
  BY <1>1, <1>2, <1>7, <1>8, <1>9, <1>10, ChangedInPlace

(* The pane's session m among hs, and the others forgotten, while not quitting.*)
Manned(hs, m, c) ==
  /\ hs \in Seq(Handle) /\ m \in 1 .. Len(hs) /\ Agrees(hs[m], c)
  /\ \A s \in 1 .. Len(hs) : /\ hs[s].job = "running" <=> s = m /\ ~hs[s].exited
                             /\ ~hs[s].exited /\ s # m => hs[s].stopped

LEMMA OpenedAgrees ==
  ASSUME NEW b \in {"mock", "pi"}, NEW c
  PROVE  LET h == Opened(b)
         IN  h \in Handle /\ h.job = "running" /\ ~h.exited /\ Agrees(h, c)
<1> DEFINE h == Opened(b)
           q == IF b = "mock" THEN <<"settled">> ELSE <<>>
<1>1. q \in Seq(Records) /\ q \in Seq(MockSays) /\ (b = "pi" => q \in Seq(PiWrites) /\ Refuses(q))
  <2>1. <<"settled">> \in Seq(MockSays)
    BY DEF MockSays
  <2>2. <<>> \in Seq(MockSays) /\ <<>> \in Seq(PiWrites) /\ Refuses(<<>>)
    BY EmptySeq DEF Refuses
  <2>3. QED
    BY <2>1, <2>2, SaidAreRecords
<1>2. b = "mock" => q # <<>> /\ q[Len(q)] = "settled"
  OBVIOUS
<1> HIDE DEF q
<1>3. h = [backend |-> b, queue |-> q, inTurn |-> FALSE, stopped |-> FALSE, exited |-> FALSE,
           os |-> IF b = "pi" THEN "spawning" ELSE "none", job |-> "running"]
  BY DEF Opened, q
<1>4. /\ h \in Handle /\ h.job = "running" /\ ~h.exited /\ ~h.stopped /\ ~h.inTurn /\ h.queue = q
      /\ h.backend = b /\ h.os = IF b = "pi" THEN "spawning" ELSE "none"
  BY <1>1, <1>3 DEF Handle
<1> HIDE DEF h
<1>5. CASE b = "mock"
  <2>1. MockAgrees(h, c)
    BY <1>1, <1>2, <1>4, <1>5 DEF MockAgrees
  <2>2. QED
    BY <1>4, <1>5, <2>1 DEF Agrees, h
<1>6. CASE b = "pi"
  <2>1. PiAgrees(h, c)
    BY <1>1, <1>4, <1>6 DEF PiAgrees
  <2>2. QED
    BY <1>4, <1>6, <2>1 DEF Agrees, h
<1>7. QED
  BY <1>5, <1>6

(* start leaves the pane with a session of its own.                            *)
LEMMA EnsuredManned ==
  ASSUME AgentsInv, ~quit, chat.open, NEW e \in Ensured
  PROVE  Manned(e[1], e[2], chat)
<1>1. /\ Len(handles) \in Nat /\ DOMAIN handles = 1 .. Len(handles) /\ handles \in Seq(Handle)
      /\ sess # 0 => sess \in 1 .. Len(handles)
  BY HandlesAt DEF AgentsInv
<1>2. \A s \in 1 .. Len(handles) : /\ handles[s].job = "running" <=> s = sess /\ ~handles[s].exited
                                   /\ ~handles[s].exited /\ s # sess => handles[s].stopped
  BY <1>1 DEF AgentsInv, NoStrayAgent
<1>3. CASE Live(sess)
  <2>1. e[1] = handles /\ e[2] = sess
    BY <1>3 DEF Ensured
  <2>2. sess # 0
    BY <1>3 DEF Live
  <2>3. Agrees(handles[sess], chat)
    BY <2>2 DEF AgentsInv
  <2>4. QED
    BY <1>1, <1>2, <2>1, <2>2, <2>3 DEF Manned
<1>4. CASE ~Live(sess)
  <2>1. PICK b \in {"mock", "pi"} : e = <<Append(handles, Opened(b)), Len(handles) + 1>>
    BY <1>4 DEF Ensured
  <2> DEFINE n == Len(handles)
             hs == Append(handles, Opened(b))
  <2>2. e[1] = hs /\ e[2] = n + 1 /\ n \in Nat
    BY <1>1, <2>1
  <2>3. Opened(b) \in Handle /\ Opened(b).job = "running" /\ ~Opened(b).exited /\ Agrees(Opened(b), chat)
    BY OpenedAgrees
  <2>4. /\ hs \in Seq(Handle) /\ Len(hs) = n + 1 /\ hs[n + 1] = Opened(b)
        /\ \A s \in 1 .. n : hs[s] = handles[s]
    BY <1>1, <2>3, AppendProperties
  <2>5. sess = 0 \/ handles[sess].exited
    BY <1>4 DEF Live
  <2>6. \A s \in 1 .. n : handles[s].job # "running" /\ (handles[s].exited \/ handles[s].stopped)
    BY <1>1, <1>2, <2>5
  <2> HIDE DEF n, hs
  <2>7. ASSUME NEW s \in 1 .. n + 1
        PROVE  /\ hs[s].job = "running" <=> s = n + 1 /\ ~hs[s].exited
               /\ ~hs[s].exited /\ s # n + 1 => hs[s].stopped
    <3>1. CASE s = n + 1
      BY <2>3, <2>4, <3>1
    <3>2. CASE s # n + 1
      <4>1. s \in 1 .. n
        BY <2>2, <3>2
      <4>2. QED
        BY <2>4, <2>6, <3>2, <4>1
    <3>3. QED
      BY <3>1, <3>2
  <2>8. n + 1 \in 1 .. n + 1
    BY <2>2
  <2>9. QED
    BY <2>2, <2>3, <2>4, <2>7, <2>8 DEF Manned
<1>5. QED
  BY <1>3, <1>4

LEMMA SentManned ==
  ASSUME NEW hs, NEW m, NEW c \in Chats, Manned(hs, m, c)
  PROVE  Manned([hs EXCEPT ![m] = Sent(@)], m, c)
<1>1. hs \in Seq(Handle) /\ m \in 1 .. Len(hs) /\ hs[m] \in Handle /\ Agrees(hs[m], c)
  BY ElementOfSeq DEF Manned
<1> DEFINE k == Sent(hs[m])
           g == [hs EXCEPT ![m] = k]
<1>2. SameButOutput(hs[m], k) /\ Agrees(k, c)
  BY <1>1, SentOutput, SentAgrees
<1>3. k \in Handle /\ k.job = hs[m].job /\ k.exited = hs[m].exited /\ k.stopped = hs[m].stopped
  BY <1>2 DEF SameButOutput
<1> HIDE DEF k
<1>4. g \in Seq(Handle) /\ Len(g) = Len(hs) /\ g[m] = k /\ \A u \in 1 .. Len(hs) : u # m => g[u] = hs[u]
  BY <1>1, <1>3, HandlesExcept
<1> HIDE DEF g
<1>5. ASSUME NEW s \in 1 .. Len(hs)
      PROVE  /\ g[s].job = "running" <=> s = m /\ ~g[s].exited
             /\ ~g[s].exited /\ s # m => g[s].stopped
  <2>1. CASE s = m
    BY <1>1, <1>3, <1>4, <2>1 DEF Manned
  <2>2. CASE s # m
    BY <1>4, <2>2 DEF Manned
  <2>3. QED
    BY <2>1, <2>2
<1>6. Manned(g, m, c)
  BY <1>1, <1>2, <1>4, <1>5 DEF Manned
<1>7. QED
  BY <1>6 DEF g, k

LEMMA MannedIsInv ==
  ASSUME Manned(handles', sess', chat'), ~quit', chat' \in Chats, chat'.open
  PROVE  AgentsInv'
<1>1. handles' \in Seq(Handle) /\ DOMAIN handles' = 1 .. Len(handles') /\ Len(handles') \in Nat
  BY LenProperties DEF Manned
<1>2. NoStrayAgent'
  BY <1>1 DEF Manned, NoStrayAgent
<1>3. sess' \in 0 .. Len(handles') /\ sess' # 0
  BY <1>1 DEF Manned
<1>4. QED
  BY <1>1, <1>2, <1>3 DEF Manned, AgentsInv

-----------------------------------------------------------------------------
(* Each step of the user and of the host keeps the invariant.                  *)
LEMMA FocusKeeps ==
  ASSUME AgentsInv, FocusActivate
  PROVE  AgentsInv'
<1>1. PICK e \in Ensured : handles' = e[1] /\ sess' = e[2]
  BY DEF FocusActivate
<1>2. ~quit /\ chat.open /\ chat' = chat /\ quit' = quit /\ chat \in Chats
  BY DEF FocusActivate, AgentsInv
<1>3. Manned(e[1], e[2], chat)
  BY <1>2, EnsuredManned
<1>4. Manned(handles', sess', chat')
  BY <1>1, <1>2, <1>3
<1>5. QED
  BY <1>2, <1>4, MannedIsInv

LEMMA SendKeeps ==
  ASSUME AgentsInv, SendText
  PROVE  AgentsInv'
<1>1. PICK e \in Ensured : handles' = [e[1] EXCEPT ![e[2]] = Sent(@)] /\ sess' = e[2]
  BY DEF SendText
<1>2. ~quit /\ chat.open /\ chat' = chat /\ quit' = quit /\ chat \in Chats
  BY DEF SendText, AgentsInv
<1>3. Manned(e[1], e[2], chat)
  BY <1>2, EnsuredManned
<1>4. Manned([e[1] EXCEPT ![e[2]] = Sent(@)], e[2], chat)
  BY <1>2, <1>3, SentManned
<1>5. Manned(handles', sess', chat')
  BY <1>1, <1>2, <1>4
<1>6. QED
  BY <1>2, <1>5, MannedIsInv

LEMMA UntouchedKeeps ==
  ASSUME AgentsInv, UNCHANGED <<handles, sess, chat, quit>>
  PROVE  AgentsInv'
BY DEF AgentsInv, NoStrayAgent, Agrees, MockAgrees, PiAgrees, Silenced

LEMMA EscapeKeeps ==
  ASSUME AgentsInv, Escape
  PROVE  AgentsInv'
<1>1. UNCHANGED <<sess, chat, quit>> /\ ~quit
  BY DEF Escape
<1>2. CASE handles' = handles
  BY <1>1, <1>2, UntouchedKeeps
<1>3. CASE handles' # handles
  <2>1. chat.open /\ Live(sess) /\ \E h \in Interrupted(handles[sess]) : handles' = [handles EXCEPT ![sess] = h]
    BY <1>3 DEF Escape
  <2>2. PICK k \in Interrupted(handles[sess]) : handles' = [handles EXCEPT ![sess] = k]
    BY <2>1
  <2>3. sess \in DOMAIN handles /\ handles[sess] \in Handle /\ chat \in Chats
    BY <2>1, HandlesAt DEF Live, AgentsInv
  <2>4. Agrees(handles[sess], chat)
    BY <1>1, <2>1 DEF Live, AgentsInv
  <2>5. SameButOutput(handles[sess], k) /\ Agrees(k, chat)
    BY <2>3, <2>4, InterruptedOutput, InterruptedAgrees
  <2>6. /\ handles[sess].job = "running" <=> ~handles[sess].exited
        /\ ~handles[sess].exited /\ quit => handles[sess].stopped
    BY <2>3 DEF AgentsInv, NoStrayAgent
  <2>7. k \in Handle /\ k.job = handles[sess].job /\ k.exited = handles[sess].exited /\ k.stopped = handles[sess].stopped
    BY <2>5 DEF SameButOutput
  <2>8. QED
    BY <1>1, <2>1, <2>2, <2>3, <2>5, <2>6, <2>7, ChangedInPlace
<1>4. QED
  BY <1>2, <1>3

LEMMA OpenKeeps ==
  ASSUME AgentsInv, OpenPane
  PROVE  AgentsInv'
<1>1. chat' = Fresh /\ UNCHANGED <<handles, sess, quit>> /\ sess = 0
  BY DEF OpenPane, AgentsInv
<1>2. Fresh \in Chats /\ Fresh.open
  BY ChatsShown
<1>3. QED
  BY <1>1, <1>2 DEF AgentsInv, NoStrayAgent

LEMMA CloseKeeps ==
  ASSUME AgentsInv, ClosePane
  PROVE  AgentsInv'
<1>1. /\ handles' = [s \in DOMAIN handles |-> IF s = sess THEN Forgotten(handles[s]) ELSE handles[s]]
      /\ chat' = Closed /\ sess' = 0 /\ quit' = quit
  BY DEF ClosePane
<1>2. /\ Len(handles) \in Nat /\ DOMAIN handles = 1 .. Len(handles)
      /\ \A s \in DOMAIN handles : handles[s] \in Handle
  BY HandlesAt
<1>3. \A s \in DOMAIN handles : /\ Forgotten(handles[s]) \in Handle /\ Forgotten(handles[s]).job # "running"
                                /\ (Forgotten(handles[s]).exited \/ Forgotten(handles[s]).stopped)
  BY <1>2, ForgottenOutput
<1>4. \A s \in DOMAIN handles : /\ handles[s].job = "running" <=> s = sess /\ ~handles[s].exited
                                /\ ~handles[s].exited /\ s # sess => handles[s].stopped
  BY DEF AgentsInv, NoStrayAgent
<1>5. \A s \in DOMAIN handles : handles'[s] \in Handle /\ handles'[s].job # "running"
                                /\ (handles'[s].exited \/ handles'[s].stopped)
  BY <1>1, <1>2, <1>3, <1>4
<1>6. handles' \in Seq(Handle) /\ DOMAIN handles' = DOMAIN handles /\ Len(handles') \in Nat
  <2>1. handles' \in [1 .. Len(handles) -> Handle]
    BY <1>1, <1>2, <1>5
  <2>2. handles' \in Seq(Handle)
    BY <1>2, <2>1, SeqDef
  <2>3. QED
    BY <1>1, <2>2, LenProperties
<1>7. chat' \in Chats /\ ~chat'.open
  BY <1>1, ChatsShown
<1>8. NoStrayAgent'
  BY <1>1, <1>2, <1>5, <1>6 DEF NoStrayAgent
<1>9. QED
  BY <1>1, <1>6, <1>7, <1>8 DEF AgentsInv

(* Only a mock owes more than having been told to stop.                        *)
LEMMA SilencedIf ==
  ASSUME NEW h, h.stopped \/ h.exited,
         h.backend = "mock" => h.queue \in {<<>>, <<"exit">>} /\ h.os \in {"none", "gone"}
  PROVE  Silenced(h)
BY DEF Silenced

LEMMA StoppedIsSilenced ==
  ASSUME NEW h \in Handle, NEW c, Agrees(h, c)
  PROVE  Silenced(Stopped(h))
<1>1. Stopped(h).backend = h.backend /\ (Stopped(h).exited \/ Stopped(h).stopped)
  BY StoppedOutput
<1>2. CASE h.stopped \/ h.exited
  BY <1>1, <1>2 DEF Stopped, Silenced, Agrees
<1>3. CASE ~(h.stopped \/ h.exited) /\ h.backend = "mock"
  <2>1. Stopped(h) = [h EXCEPT !.stopped = TRUE, !.inTurn = FALSE, !.queue = <<"exit">>]
    BY <1>3 DEF Stopped
  <2>2. Stopped(h).queue = <<"exit">> /\ Stopped(h).os = h.os
    BY <2>1 DEF Handle
  <2>3. h.os = "none"
    BY <1>3 DEF Agrees
  <2>4. QED
    BY <1>1, <2>2, <2>3, SilencedIf
<1>4. CASE ~(h.stopped \/ h.exited) /\ h.backend # "mock"
  BY <1>1, <1>4 DEF Silenced
<1>5. QED
  BY <1>2, <1>3, <1>4

LEMMA QuitKeeps ==
  ASSUME AgentsInv, QuitAgents
  PROVE  AgentsInv'
<1>1. /\ handles' = [s \in DOMAIN handles |-> IF s = sess THEN Stopped(handles[s]) ELSE handles[s]]
      /\ chat' = chat /\ sess' = sess /\ quit' /\ ~quit
  BY DEF QuitAgents
<1>2. /\ Len(handles) \in Nat /\ DOMAIN handles = 1 .. Len(handles)
      /\ \A s \in DOMAIN handles : handles[s] \in Handle
      /\ sess # 0 => sess \in DOMAIN handles /\ chat.open
  BY HandlesAt
<1>3. \A s \in DOMAIN handles :
        LET k == Stopped(handles[s])
        IN  /\ k \in Handle /\ k.job = handles[s].job /\ k.exited = handles[s].exited /\ (k.exited \/ k.stopped)
  BY <1>2, StoppedOutput
<1>4. \A s \in DOMAIN handles : /\ handles[s].job = "running" <=> s = sess /\ ~handles[s].exited
                                /\ ~handles[s].exited /\ s # sess => handles[s].stopped
  BY DEF AgentsInv, NoStrayAgent
<1>5. \A s \in DOMAIN handles : /\ handles'[s] \in Handle /\ handles'[s].exited = handles[s].exited
                                /\ handles'[s].job = handles[s].job
                                /\ (handles'[s].exited \/ handles'[s].stopped)
  BY <1>1, <1>2, <1>3, <1>4
<1>6. handles' \in Seq(Handle) /\ DOMAIN handles' = DOMAIN handles /\ Len(handles') = Len(handles)
  <2>1. handles' \in [1 .. Len(handles) -> Handle]
    BY <1>1, <1>2, <1>5
  <2>2. handles' \in Seq(Handle)
    BY <1>2, <2>1, SeqDef
  <2>3. QED
    BY <1>1, <1>2, <2>1, <2>2, LenProperties
<1>7. NoStrayAgent'
  BY <1>1, <1>4, <1>5, <1>6 DEF NoStrayAgent
<1>8. sess # 0 => Silenced(handles'[sess])
  BY <1>1, <1>2, StoppedIsSilenced DEF AgentsInv
<1>9. QED
  BY <1>1, <1>2, <1>6, <1>7, <1>8 DEF AgentsInv

(* Each event of a backend does.                                               *)
LEMMA MockKeeps ==
  ASSUME AgentsInv, NEW s \in DOMAIN handles, MockEmits(s)
  PROVE  AgentsInv'
<1> DEFINE h == handles[s]
           e == Head(h.queue)
           turn == InTurnAfter(h, e)
           k == [h EXCEPT !.queue = Tail(h.queue), !.inTurn = turn]
<1>1. /\ h \in Handle /\ chat \in Chats /\ (sess # 0 => chat.open) /\ 0 \notin DOMAIN handles
      /\ s = sess => IF quit THEN Silenced(h) ELSE Agrees(h, chat)
  BY HandlesAt DEF AgentsInv
<1>2. h.backend = "mock" /\ h.queue # <<>> /\ Emit(s, k, <<e>>)
  BY DEF MockEmits
<1>3. h.queue \in Seq(Records) /\ Tail(h.queue) \in Seq(Records)
  BY <1>1, <1>2, HeadTailProperties DEF Handle
<1>4. turn \in BOOLEAN
  BY <1>1 DEF InTurnAfter, Handle
<1> HIDE DEF turn, e
<1>5. /\ k \in Handle /\ k.backend = h.backend /\ k.os = h.os /\ k.stopped = h.stopped
      /\ k.exited = h.exited /\ k.job = h.job /\ k.queue = Tail(h.queue)
  BY <1>1, <1>3, <1>4 DEF Handle
<1> DEFINE d == Delivered(s, k, <<e>>)
           c == FoldAll(chat, <<e>>)
<1> HIDE DEF k
<1>6. /\ d \in Handle /\ d.backend = k.backend /\ d.queue = k.queue /\ d.os = k.os
      /\ d.stopped = k.stopped /\ (d.exited <=> k.exited \/ Exits(<<e>>))
  BY <1>5, DeliveredShape
<1> HIDE DEF h, d, c
<1>7. ASSUME s = sess PROVE c \in Chats /\ c.open /\ IF quit THEN Silenced(d) ELSE Agrees(d, c)
  <2>1. chat.open
    BY <1>1, <1>7
  <2>2. CASE quit
    <3>1. h.queue = <<"exit">> /\ (h.stopped \/ h.exited)
      <4>1. Silenced(h)
        BY <1>1, <1>7, <2>2
      <4>2. QED
        BY <1>2, <4>1 DEF Silenced
    <3>2. e = "exit" /\ Tail(h.queue) = <<>>
      BY <3>1 DEF e
    <3>3. c = Over
      BY <1>1, <2>1, <3>2, FoldAllOf, FoldEnds DEF c
    <3>4. Silenced(d)
      <4>1. d.queue = <<>> /\ d.os = h.os /\ (d.stopped \/ d.exited)
        BY <1>5, <1>6, <3>1, <3>2
      <4>2. h.os \in {"none", "gone"}
        BY <1>1, <1>2, <1>7, <2>2 DEF Silenced
      <4>3. QED
        BY <4>1, <4>2, SilencedIf
    <3>5. QED
      BY <2>2, <3>3, <3>4, ChatsShown DEF Over, Shows
  <2>3. CASE ~quit
    <3>1. Agrees(h, chat)
      BY <1>1, <1>7, <2>3
    <3>2. ~h.exited
      BY <1>2, <3>1 DEF Agrees
    <3>3. Follows(d, h)
      BY <1>5, <1>6 DEF Follows
    <3>4. c \in Chats /\ c.open /\ Agrees(d, c)
      BY <1>1, <1>2, <1>5, <1>6, <2>1, <3>1, <3>2, <3>3, MockAgreesOn DEF c, e
    <3>5. QED
      BY <2>3, <3>4
  <2>4. QED
    BY <2>2, <2>3
<1>8. QED
  BY <1>2, <1>5, <1>7, EmitKeeps DEF c, d, h

LEMMA PiReadKeeps ==
  ASSUME AgentsInv, NEW s \in DOMAIN handles, PiReads(s)
  PROVE  AgentsInv'
<1> DEFINE h == handles[s]
           e == Head(h.queue)
           turn == InTurnAfter(h, e)
           k == [h EXCEPT !.queue = Tail(h.queue), !.inTurn = turn]
<1>1. /\ h \in Handle /\ chat \in Chats /\ (sess # 0 => chat.open) /\ 0 \notin DOMAIN handles
      /\ s = sess => IF quit THEN Silenced(h) ELSE Agrees(h, chat)
  BY HandlesAt DEF AgentsInv
<1>2. /\ h.backend = "pi" /\ h.os # "spawning" /\ h.queue # <<>>
      /\ \E events \in PiEmits(h, e) : Emit(s, k, events)
  BY DEF PiReads
<1>3. h.queue \in Seq(Records) /\ Tail(h.queue) \in Seq(Records)
  BY <1>1, <1>2, HeadTailProperties DEF Handle
<1>4. turn \in BOOLEAN
  BY <1>1 DEF InTurnAfter, Handle
<1>5. PICK events \in PiEmits(h, e) : Emit(s, k, events)
  BY <1>2
<1> HIDE DEF turn, e
<1>6. /\ k \in Handle /\ k.backend = h.backend /\ k.os = h.os /\ k.stopped = h.stopped
      /\ k.exited = h.exited /\ k.job = h.job /\ k.queue = Tail(h.queue) /\ k.inTurn = turn
  BY <1>1, <1>3, <1>4 DEF Handle
<1> DEFINE d == Delivered(s, k, events)
           c == FoldAll(chat, events)
<1> HIDE DEF k
<1>7. /\ d \in Handle /\ d.backend = k.backend /\ d.queue = k.queue /\ d.os = k.os /\ d.inTurn = k.inTurn
      /\ d.stopped = k.stopped /\ (d.exited <=> k.exited \/ Exits(events))
  BY <1>6, DeliveredShape
<1> HIDE DEF h, d, c
<1>8. ASSUME s = sess PROVE c \in Chats /\ c.open /\ IF quit THEN Silenced(d) ELSE Agrees(d, c)
  <2>1. chat.open
    BY <1>1, <1>8
  <2>2. CASE quit
    <3>1. Silenced(h)
      BY <1>1, <1>8, <2>2
    <3>2. events = <<>> \/ events = <<"exit">>
      BY <3>1 DEF PiEmits, Silenced
    <3>3. c = chat \/ c = Over
      BY <1>1, <2>1, <3>2, FoldAllOf, FoldEnds DEF c
    <3>4. Silenced(d)
      <4>1. d.backend # "mock"
        BY <1>2, <1>6, <1>7
      <4>2. d.stopped \/ d.exited
        BY <1>6, <1>7, <3>1 DEF Silenced
      <4>3. QED
        BY <4>1, <4>2, SilencedIf
    <3>5. Over \in Chats /\ Over.open
      BY ChatsShown DEF Over, Shows
    <3>6. c \in Chats /\ c.open
      BY <1>1, <2>1, <3>3, <3>5
    <3>7. QED
      BY <2>2, <3>4, <3>6
  <2>3. CASE ~quit
    <3>1. Agrees(h, chat)
      BY <1>1, <1>8, <2>3
    <3>2. ~h.exited
      BY <1>2, <3>1 DEF Agrees
    <3>3. Follows(d, h)
      BY <1>6, <1>7 DEF Follows
    <3>4. (d.exited <=> Exits(events)) /\ d.inTurn = InTurnAfter(h, Head(h.queue))
      BY <1>6, <1>7, <3>2 DEF turn, e
    <3>5. c \in Chats /\ c.open /\ Agrees(d, c)
      BY <1>1, <1>2, <1>5, <2>1, <3>1, <3>2, <3>3, <3>4, PiAgreesOn DEF c, e
    <3>6. QED
      BY <2>3, <3>5
  <2>4. QED
    BY <2>2, <2>3
<1>9. QED
  BY <1>5, <1>6, <1>8, EmitKeeps DEF c, d, h

LEMMA PiSpawnKeeps ==
  ASSUME AgentsInv, NEW s \in DOMAIN handles, PiSpawns(s)
  PROVE  AgentsInv'
<1> DEFINE h == handles[s]
           raw(up) == IF up THEN "spawn" ELSE "spawn_error"
           k(up) == IF up THEN [h EXCEPT !.os = "up"] ELSE [h EXCEPT !.os = "gone", !.queue = <<>>]
<1>1. /\ h \in Handle /\ chat \in Chats /\ (sess # 0 => chat.open) /\ 0 \notin DOMAIN handles
      /\ s = sess => IF quit THEN Silenced(h) ELSE Agrees(h, chat)
  BY HandlesAt DEF AgentsInv
<1>2. h.os = "spawning" /\ \E up \in BOOLEAN : \E events \in PiEmits(h, raw(up)) : Emit(s, k(up), events)
  BY DEF PiSpawns
<1>3. PICK up \in BOOLEAN : \E events \in PiEmits(h, raw(up)) : Emit(s, k(up), events)
  BY <1>2
<1>4. PICK events \in PiEmits(h, raw(up)) : Emit(s, k(up), events)
  BY <1>3
<1> DEFINE g == k(up)
<1>5. /\ g \in Handle /\ g.backend = h.backend /\ g.os = (IF up THEN "up" ELSE "gone")
      /\ g.stopped = h.stopped /\ g.exited = h.exited /\ g.job = h.job /\ g.inTurn = h.inTurn
      /\ g.queue = (IF up THEN h.queue ELSE <<>>)
  <2>1. <<>> \in Seq(Records)
    BY EmptySeq
  <2>2. CASE up
    BY <1>1, <2>2 DEF Handle
  <2>3. CASE ~up
    BY <1>1, <2>1, <2>3 DEF Handle
  <2>4. QED
    BY <2>2, <2>3
<1>6. Emit(s, g, events)
  BY <1>4
<1> DEFINE d == Delivered(s, g, events)
           c == FoldAll(chat, events)
<1> HIDE DEF g
<1>7. /\ d \in Handle /\ d.backend = g.backend /\ d.queue = g.queue /\ d.os = g.os /\ d.inTurn = g.inTurn
      /\ d.stopped = g.stopped /\ (d.exited <=> g.exited \/ Exits(events))
  BY <1>5, DeliveredShape
<1> HIDE DEF h, d, c
<1>8. ASSUME s = sess PROVE c \in Chats /\ c.open /\ IF quit THEN Silenced(d) ELSE Agrees(d, c)
  <2>1. chat.open
    BY <1>1, <1>8
  <2>2. CASE quit
    <3>1. Silenced(h)
      BY <1>1, <1>8, <2>2
    <3>2. events = <<>> \/ events = <<"exit">>
      BY <1>4, <3>1 DEF PiEmits, Silenced
    <3>3. c = chat \/ c = Over
      BY <1>1, <2>1, <3>2, FoldAllOf, FoldEnds DEF c
    <3>4. Silenced(d)
      <4>1. d.backend # "mock"
        BY <1>2, <1>5, <1>7, <3>1 DEF Silenced
      <4>2. d.stopped \/ d.exited
        BY <1>5, <1>7, <3>1 DEF Silenced
      <4>3. QED
        BY <4>1, <4>2, SilencedIf
    <3>5. Over \in Chats /\ Over.open
      BY ChatsShown DEF Over, Shows
    <3>6. c \in Chats /\ c.open
      BY <1>1, <2>1, <3>3, <3>5
    <3>7. QED
      BY <2>2, <3>4, <3>6
  <2>3. CASE ~quit
    <3>1. Agrees(h, chat)
      BY <1>1, <1>8, <2>3
    <3>2. ~h.exited /\ ~h.stopped /\ h.backend = "pi"
      BY <1>1, <1>2, <3>1 DEF Agrees, Handle
    <3>3. h.queue \in Seq(PiWrites) /\ ~h.inTurn /\ (Settles(h.queue) \/ Refuses(h.queue))
      BY <1>2, <3>1, <3>2 DEF Agrees, PiAgrees
    <3>4. events \in MapPi(h, raw(up))
      BY <1>4, <3>2 DEF PiEmits
    <3>5. CASE up
      <4>1. events = <<"settled">>
        BY <3>4, <3>5 DEF MapPi
      <4>2. c = Ready /\ ~Exits(events)
        BY <1>1, <2>1, <4>1, FoldAllOf, FoldEnds, ExitsOf DEF c
      <4>3. PiAgrees(d, c)
        BY <1>5, <1>7, <3>3, <3>5, <4>2 DEF PiAgrees
      <4>4. Agrees(d, c)
        BY <1>5, <1>7, <3>2, <3>5, <4>2, <4>3 DEF Agrees
      <4>5. QED
        BY <2>3, <4>2, <4>4, ChatsShown DEF Ready, Shows
    <3>6. CASE ~up
      <4>1. events = <<"error", "exit">>
        BY <3>4, <3>6 DEF MapPi
      <4>2. c = Over /\ Exits(events)
        BY <1>1, <2>1, <4>1, FoldAllOf, FoldEnds, ExitsOf DEF c
      <4>3. Agrees(d, c)
        BY <1>5, <1>7, <3>6, <4>2 DEF Agrees
      <4>4. QED
        BY <2>3, <4>2, <4>3, ChatsShown DEF Over, Shows
    <3>7. QED
      BY <3>5, <3>6
  <2>4. QED
    BY <2>2, <2>3
<1>9. QED
  BY <1>5, <1>6, <1>8, EmitKeeps DEF c, d, h

LEMMA PiDiesKeeps ==
  ASSUME AgentsInv, NEW s \in DOMAIN handles, PiDies(s)
  PROVE  AgentsInv'
<1> DEFINE h == handles[s]
<1>1. /\ h \in Handle /\ chat \in Chats /\ (sess # 0 => chat.open) /\ 0 \notin DOMAIN handles
      /\ s = sess => IF quit THEN Silenced(h) ELSE Agrees(h, chat)
  BY HandlesAt DEF AgentsInv
<1>2. /\ h.os = "up" /\ UNCHANGED <<sess, chat, quit>>
      /\ \E n \in 0 .. Len(h.queue) :
           handles' = [handles EXCEPT ![s].os = "gone", ![s].queue = Append(SubSeq(h.queue, 1, n), "close")]
  BY DEF PiDies
<1>3. PICK n \in 0 .. Len(h.queue) :
        handles' = [handles EXCEPT ![s].os = "gone", ![s].queue = Append(SubSeq(h.queue, 1, n), "close")]
  BY <1>2
<1> DEFINE q == Append(SubSeq(h.queue, 1, n), "close")
           k == [h EXCEPT !.os = "gone", !.queue = q]
<1>4. handles' = [handles EXCEPT ![s] = k]
  BY <1>3
<1>5. q \in Seq(Records)
  <2>1. h.queue \in Seq(Records) /\ Len(h.queue) \in Nat
    BY <1>1, LenProperties DEF Handle
  <2>2. n \in Int /\ 1 \in Int /\ \A i \in 1 .. n : h.queue[i] \in Records
    BY <2>1, ElementOfSeq
  <2>3. SubSeq(h.queue, 1, n) \in Seq(Records)
    BY <2>2, SubSeqProperties
  <2>4. "close" \in Records
    BY DEF Records
  <2>5. QED
    BY <2>3, <2>4, AppendProperties
<1> HIDE DEF q, h
<1>6. /\ k \in Handle /\ k.backend = h.backend /\ k.os = "gone" /\ k.queue = q
      /\ k.stopped = h.stopped /\ k.exited = h.exited /\ k.job = h.job
  BY <1>1, <1>5 DEF Handle
<1> HIDE DEF k
<1>7. ASSUME s = sess PROVE chat.open /\ IF quit THEN Silenced(k) ELSE Agrees(k, chat)
  <2>1. chat.open
    BY <1>1, <1>7
  <2>2. CASE quit
    <3>1. Silenced(h)
      BY <1>1, <1>7, <2>2
    <3>2. k.backend # "mock"
      BY <1>2, <1>6, <3>1 DEF Silenced
    <3>3. k.stopped \/ k.exited
      BY <1>6, <3>1 DEF Silenced
    <3>4. Silenced(k)
      BY <3>2, <3>3, SilencedIf
    <3>5. QED
      BY <2>1, <2>2, <3>4
  <2>3. CASE ~quit
    <3>1. Agrees(h, chat)
      BY <1>1, <1>7, <2>3
    <3>2. ~h.exited /\ ~h.stopped /\ h.backend = "pi"
      BY <1>1, <1>2, <3>1 DEF Agrees, Handle
    <3>3. h.queue \in Seq(PiWrites)
      BY <1>2, <3>1, <3>2 DEF Agrees, PiAgrees
    <3>4. Closes(q)
      BY <3>3, OutputCut DEF q
    <3>5. Agrees(k, chat)
      BY <1>6, <3>2, <3>4 DEF Agrees, PiAgrees
    <3>6. QED
      BY <2>1, <2>3, <3>5
  <2>4. QED
    BY <2>2, <2>3
<1>8. /\ k.job = "running" <=> s = sess /\ ~k.exited
      /\ ~k.exited /\ (s # sess \/ quit) => k.stopped
  BY <1>6 DEF AgentsInv, NoStrayAgent, h
<1>9. QED
  BY <1>1, <1>2, <1>4, <1>6, <1>7, <1>8, ChangedInPlace

LEMMA AgentsStart ==
  ASSUME AgentInit
  PROVE  AgentsInv
<1>1. handles = <<>> /\ sess = 0 /\ chat = Fresh
  BY DEF AgentInit
<1>2. handles \in Seq(Handle) /\ Len(handles) = 0 /\ DOMAIN handles = {}
  BY <1>1
<1>3. NoStrayAgent
  BY <1>2 DEF NoStrayAgent
<1>4. QED
  BY <1>1, <1>2, <1>3, ChatsShown DEF AgentsInv

LEMMA AgentsKeep ==
  ASSUME AgentsInv, [AgentNext]_agentVars
  PROVE  AgentsInv'
<1>1. CASE UNCHANGED agentVars
  BY <1>1 DEF agentVars, AgentsInv, NoStrayAgent
<1>2. ASSUME NEW s \in DOMAIN handles, MockEmits(s) \/ PiReads(s) \/ PiSpawns(s) \/ PiDies(s)
      PROVE  AgentsInv'
  BY <1>2, MockKeeps, PiReadKeeps, PiSpawnKeeps, PiDiesKeeps
<1>3. QED
  BY <1>1, <1>2, FocusKeeps, SendKeeps, EscapeKeeps, CloseKeeps, OpenKeeps, QuitKeeps DEF AgentNext

(* What the pane shows once its session has nothing more to say.               *)
LEMMA AgreesAtRest ==
  ASSUME NEW h \in Handle, NEW c, Agrees(h, c), h.queue = <<>>, h.os # "spawning"
  PROVE  c = Shows(IF h.exited THEN "exited" ELSE "idle")
<1>1. CASE h.exited
  BY <1>1 DEF Agrees, Over
<1>2. CASE ~h.exited /\ h.backend = "mock"
  BY <1>2 DEF Agrees, MockAgrees, Ready
<1>3. CASE ~h.exited /\ h.backend = "pi"
  <2>1. PiAgrees(h, c) /\ h.os \in {"up", "gone"}
    BY <1>3 DEF Agrees
  <2>2. ~Closes(h.queue)
    BY DEF Closes
  <2>3. h.os = "up"
    BY <2>1, <2>2 DEF PiAgrees
  <2>4. ~Settles(h.queue)
    BY DEF Settles
  <2>5. c = Ready
    BY <2>1, <2>3, <2>4 DEF PiAgrees
  <2>6. QED
    BY <1>3, <2>5 DEF Ready
<1>4. QED
  BY <1>1, <1>2, <1>3 DEF Handle

(* The pane, the job and the process of a session never disagree: once the     *)
(* session has nothing more to say the pane shows that it ended, or that it is *)
(* ready, and a job runs exactly while its session is the pane's and alive     *)
(* (io/agent.js _deliver, destroy and stopAll; panel/agent/agent.js _fold).    *)
THEOREM SessionAlwaysAgrees == AgentSpec => []SessionAndPaneAgree
<1>1. ASSUME AgentsInv
      PROVE  SessionAndPaneAgree
  <2>1. (~quit /\ chat.open /\ sess # 0 /\ handles[sess].queue = <<>> /\ handles[sess].os # "spawning") =>
           chat = Shows(IF handles[sess].exited THEN "exited" ELSE "idle")
    <3> SUFFICES ASSUME ~quit, sess # 0, handles[sess].queue = <<>>, handles[sess].os # "spawning"
                 PROVE  chat = Shows(IF handles[sess].exited THEN "exited" ELSE "idle")
      OBVIOUS
    <3>1. handles[sess] \in Handle
      BY <1>1, HandlesAt
    <3>2. Agrees(handles[sess], chat)
      BY <1>1 DEF AgentsInv
    <3>3. QED
      BY <3>1, <3>2, AgreesAtRest
  <2>2. QED
    BY <1>1, <2>1 DEF SessionAndPaneAgree, PaneMatchesSession, AgentsInv
<1>2. QED
  BY <1>1, AgentsStart, AgentsKeep, PTL DEF AgentSpec

-----------------------------------------------------------------------------
(* The choices of the form.                                                    *)
ChoicesSpec == ChoicesInit /\ [][ChoicesNext]_choicesVars

ChoicesState == [form : Form, fetches : Seq(Fetch), inflight : [FormActions -> Nat], choices : Seq(Entry)]

\* A fetch that may still answer.
Awaited(f) == ~f.settled /\ ~f.aborted

(* The inductive invariant: what the form shows and the cache holds belongs to *)
(* the key it is under, a key is held by the one fetch awaited for it, and the *)
(* fetch the form waits for was given the text the form asked about.           *)
FormBelongs(f) ==
  /\ f.open => f.action \in FormActions
  /\ f.open /\ f.comp.state \in {"ok", "error"} /\ f.comp.items # Empty =>
       f.comp.items.for = <<f.action, f.comp.inputs>>
  /\ f.comp.stale => f.comp.state \in {"ok", "error"}
  /\ f.picking # <<>> /\ f.comp.items.size > 0 =>
       f.picking.idx = 0 \/ f.picking.idx < Rows(f.comp.items, f.picking)

Belonging == {e \in Entry : e.items # Empty => e.items.for = e.key}
CacheBelongs(cs) == cs \in Seq(Belonging) /\ Len(cs) <= CacheCap

KeysHeld(fs, held) ==
  /\ \A i \in DOMAIN fs : held[fs[i].action] = i <=> Awaited(fs[i])
  /\ \A a \in FormActions : held[a] # 0 => held[a] \in DOMAIN fs /\ fs[held[a]].action = a

Answers(f, fs) ==
  \A i \in DOMAIN fs :
    f.open /\ Awaited(fs[i]) /\ fs[i].action = f.action /\ fs[i].req = f.comp.req => fs[i].d = f.comp.inputs

Kept(st) ==
  /\ st \in ChoicesState /\ FormBelongs(st.form) /\ CacheBelongs(st.choices)
  /\ KeysHeld(st.fetches, st.inflight)

-----------------------------------------------------------------------------
(* A fetch that is aborted or settles lets go of its key.                      *)
LEMMA AbortKeeps ==
  ASSUME NEW f \in Fetch
  PROVE  /\ Abort(f) \in Fetch /\ Abort(f).action = f.action /\ Abort(f).d = f.d /\ Abort(f).req = f.req
         /\ ~Awaited(Abort(f))
<1>1. CASE f.settled
  BY <1>1 DEF Abort, Awaited
<1>2. CASE ~f.settled
  BY <1>2 DEF Abort, Awaited, Fetch
<1>3. QED
  BY <1>1, <1>2

LEMMA FetchAt ==
  ASSUME NEW fs \in Seq(Fetch)
  PROVE  /\ Len(fs) \in Nat /\ DOMAIN fs = 1 .. Len(fs) /\ 0 \notin DOMAIN fs
         /\ \A i \in DOMAIN fs : i \in Nat /\ fs[i] \in Fetch /\ fs[i].action \in FormActions
<1>1. Len(fs) \in Nat /\ DOMAIN fs = 1 .. Len(fs)
  BY LenProperties
<1>2. \A i \in DOMAIN fs : fs[i] \in Fetch
  BY <1>1, ElementOfSeq
<1>3. QED
  BY <1>1, <1>2 DEF Fetch

LEMMA FetchPut ==
  ASSUME NEW fs \in Seq(Fetch), NEW i \in DOMAIN fs, NEW g \in Fetch
  PROVE  LET hs == [fs EXCEPT ![i] = g]
         IN  hs \in Seq(Fetch) /\ Len(hs) = Len(fs) /\ hs[i] = g /\ \A j \in DOMAIN fs \ {i} : hs[j] = fs[j]
BY FetchAt, ExceptSeq

\* Fetches hs and keys then: those of fs and held once the fetch i has ended.
Ended(fs, held, i, hs, then) ==
  /\ fs \in Seq(Fetch) /\ held \in [FormActions -> Nat] /\ KeysHeld(fs, held) /\ i \in DOMAIN fs
  /\ hs \in Seq(Fetch) /\ Len(hs) = Len(fs)
  /\ hs[i].action = fs[i].action /\ ~Awaited(hs[i])
  /\ \A j \in DOMAIN fs \ {i} : hs[j] = fs[j]
  /\ \A a \in FormActions : then[a] = IF held[a] = i THEN 0 ELSE held[a]

LEMMA FetchEnds ==
  ASSUME NEW fs, NEW held, NEW i, NEW hs, NEW then, Ended(fs, held, i, hs, then)
  PROVE  KeysHeld(hs, then) /\ \A f : Answers(f, fs) => Answers(f, hs)
<1> USE DEF Ended
<1>1. /\ Len(fs) \in Nat /\ DOMAIN fs = 1 .. Len(fs) /\ 0 \notin DOMAIN fs
      /\ \A j \in DOMAIN fs : fs[j] \in Fetch /\ fs[j].action \in FormActions
  BY FetchAt
<1>3. DOMAIN hs = DOMAIN fs /\ \A j \in DOMAIN fs : j # i => hs[j] = fs[j]
  BY <1>1, LenProperties
<1>4. \A j \in DOMAIN fs : hs[j].action = fs[j].action
  BY <1>3
<1>5. ASSUME NEW j \in DOMAIN fs PROVE then[hs[j].action] = j <=> Awaited(hs[j])
  <2>1. held[fs[j].action] = j <=> Awaited(fs[j])
    BY DEF KeysHeld
  <2>2. then[fs[j].action] = IF held[fs[j].action] = i THEN 0 ELSE held[fs[j].action]
    BY <1>1
  <2>3. CASE j = i
    BY <1>1, <1>3, <1>4, <2>2, <2>3
  <2>4. CASE j # i
    BY <1>1, <1>3, <1>4, <2>1, <2>2, <2>4
  <2>5. QED
    BY <2>3, <2>4
<1>6. ASSUME NEW a \in FormActions, then[a] # 0
      PROVE  then[a] \in DOMAIN hs /\ hs[then[a]].action = a
  BY <1>3, <1>4, <1>6 DEF KeysHeld
<1>7. KeysHeld(hs, then)
  BY <1>3, <1>5, <1>6 DEF KeysHeld
<1>8. ASSUME NEW f, Answers(f, fs) PROVE Answers(f, hs)
  BY <1>3, <1>8 DEF Answers
<1>9. QED
  BY <1>7, <1>8

LEMMA CancelKeeps ==
  ASSUME NEW st \in ChoicesState, KeysHeld(st.fetches, st.inflight), NEW a \in FormActions
  PROVE  LET next == CancelEffect(st, a)
         IN  /\ next \in ChoicesState /\ next.form = st.form /\ next.choices = st.choices
             /\ KeysHeld(next.fetches, next.inflight) /\ next.inflight[a] = 0
             /\ Len(next.fetches) = Len(st.fetches)
             /\ \A f : Answers(f, st.fetches) => Answers(f, next.fetches)
<1>1. st.fetches \in Seq(Fetch) /\ st.inflight \in [FormActions -> Nat]
  BY DEF ChoicesState
<1> DEFINE i == st.inflight[a]
<1>2. CASE i = 0
  BY <1>2 DEF CancelEffect
<1>3. CASE i # 0
  <2> DEFINE next == CancelEffect(st, a)
             fs == [st.fetches EXCEPT ![i] = Abort(st.fetches[i])]
             held == [st.inflight EXCEPT ![a] = 0]
             g == Abort(st.fetches[i])
  <2>1. i \in DOMAIN st.fetches /\ st.fetches[i].action = a
    BY <1>3 DEF KeysHeld
  <2>2. next = [st EXCEPT !.fetches[i] = Abort(@), !.inflight[a] = 0]
    BY <1>3 DEF CancelEffect
  <2>3. g \in Fetch /\ ~Awaited(g) /\ g.action = st.fetches[i].action
    BY <1>1, <2>1, FetchAt, AbortKeeps
  <2>4. held \in [FormActions -> Nat] /\ held[a] = 0
    BY <1>1
  <2>5. \A b \in FormActions : held[b] = IF st.inflight[b] = i THEN 0 ELSE st.inflight[b]
    BY <1>1, <1>3, <2>1 DEF KeysHeld
  <2>6. fs \in Seq(Fetch) /\ Len(fs) = Len(st.fetches) /\ fs[i] = g /\ \A j \in DOMAIN st.fetches \ {i} : fs[j] = st.fetches[j]
    <3> HIDE DEF g
    <3>1. QED
      BY <1>1, <2>1, <2>3, FetchPut DEF g
  <2> HIDE DEF fs, held, g, next
  <2>7. KeysHeld(fs, held) /\ \A f : Answers(f, st.fetches) => Answers(f, fs)
    <3>1. Ended(st.fetches, st.inflight, i, fs, held)
      BY <1>1, <2>1, <2>3, <2>4, <2>5, <2>6 DEF Ended
    <3>2. QED
      BY <3>1, FetchEnds
  <2> USE DEF fs, held
  <2>8. /\ next.fetches = fs /\ next.inflight = held
        /\ next.form = st.form /\ next.choices = st.choices
        /\ DOMAIN next = DOMAIN st
    BY <2>2 DEF ChoicesState
  <2>9. next \in ChoicesState
    BY <2>2, <2>4, <2>6, <2>8 DEF ChoicesState
  <2> HIDE DEF next, fs, held
  <2>10. QED
    BY <2>4, <2>6, <2>7, <2>8, <2>9 DEF next
<1>4. QED
  BY <1>2, <1>3

-----------------------------------------------------------------------------
(* The cache and the highlight.                                                *)
LEMMA PutBelongs ==
  ASSUME NEW cs, CacheBelongs(cs), NEW key \in FormActions \X Texts, NEW items \in List,
         items # Empty => items.for = key
  PROVE  CacheBelongs(CachePut(cs, key, items))
<1> DEFINE at == {n \in DOMAIN cs : cs[n].key = key}
           old == CHOOSE n \in at : TRUE
           m == Len(cs)
           before == SubSeq(cs, 1, old - 1)
           after == SubSeq(cs, old + 1, m)
           others == IF at = {} THEN cs ELSE before \o after
           e == [key |-> key, items |-> items]
           all == Append(others, e)
<1>1. m \in Nat /\ cs \in Seq(Belonging) /\ DOMAIN cs = 1 .. m /\ m <= CacheCap
  BY LenProperties DEF CacheBelongs
<1>2. e \in Belonging
  BY DEF Belonging, Entry
<1>3. \A n \in 1 .. m : cs[n] \in Belonging
  BY <1>1, ElementOfSeq
<1> HIDE DEF e, m
<1>4. others \in Seq(Belonging) /\ Len(others) <= m /\ Len(others) \in Nat
  <2>1. CASE at = {}
    BY <1>1, <2>1 DEF m
  <2>2. CASE at # {}
    <3>1. old \in 1 .. m
      <4>1. old \in at
        BY <2>2
      <4>2. QED
        BY <1>1, <4>1
    <3> HIDE DEF old, at
    <3>2. old - 1 \in Int /\ old + 1 \in Int /\ 1 \in Int /\ m \in Int
      BY <1>1, <3>1
    <3>3. \A n \in 1 .. old - 1 : cs[n] \in Belonging
      BY <1>1, <1>3, <3>1
    <3>4. \A n \in old + 1 .. m : cs[n] \in Belonging
      BY <1>1, <1>3, <3>1
    <3>5. before \in Seq(Belonging) /\ Len(before) = IF 1 <= old - 1 THEN old - 1 - 1 + 1 ELSE 0
      BY <3>2, <3>3, SubSeqProperties
    <3>6. after \in Seq(Belonging) /\ Len(after) = IF old + 1 <= m THEN m - (old + 1) + 1 ELSE 0
      BY <3>2, <3>4, SubSeqProperties
    <3> HIDE DEF before, after
    <3>7. before \o after \in Seq(Belonging) /\ Len(before \o after) = Len(before) + Len(after)
      BY <3>5, <3>6, ConcatProperties
    <3>8. others = before \o after
      BY <2>2 DEF at
    <3> HIDE DEF others
    <3>9. Len(before) + Len(after) <= m /\ Len(before) + Len(after) \in Nat
      BY <1>1, <3>1, <3>5, <3>6
    <3>10. QED
      BY <3>7, <3>8, <3>9
  <2>3. QED
    BY <2>1, <2>2
<1> HIDE DEF others
<1>5. all \in Seq(Belonging) /\ all # <<>> /\ Len(all) = Len(others) + 1
  BY <1>2, <1>4, AppendProperties
<1>6. CachePut(cs, key, items) = IF Len(all) > CacheCap THEN Tail(all) ELSE all
  BY DEF CachePut, others, e, m
<1> HIDE DEF all
<1>7. Tail(all) \in Seq(Belonging) /\ Len(Tail(all)) = Len(all) - 1
  BY <1>5, HeadTailProperties
<1>8. CacheCap \in Nat
  BY ChoicesAssumption
<1>9. CASE Len(all) > CacheCap
  <2>1. Len(Tail(all)) <= CacheCap
    BY <1>1, <1>4, <1>5, <1>7, <1>8
  <2>2. QED
    BY <1>6, <1>7, <1>9, <2>1 DEF CacheBelongs
<1>10. CASE ~(Len(all) > CacheCap)
  <2>1. Len(all) <= CacheCap
    BY <1>4, <1>5, <1>8, <1>10
  <2>2. QED
    BY <1>5, <1>6, <1>10, <2>1 DEF CacheBelongs
<1>11. QED
  BY <1>9, <1>10

Picking == {<<>>} \cup [idx : Nat, filter : BOOLEAN]

\* The highlight is on a row, where there is one.
OnRow(picking, items) ==
  picking # <<>> /\ items.size > 0 => picking.idx = 0 \/ picking.idx < Rows(items, picking)

LEMMA ClampedOnRow ==
  ASSUME NEW picking \in Picking, NEW items \in List
  PROVE  Clamped(picking, items) \in Picking /\ OnRow(Clamped(picking, items), items)
<1>1. Rows(items, picking) \in Nat
  BY DEF Rows, List
<1>2. CASE picking = <<>> \/ picking.idx < Rows(items, picking)
  BY <1>2 DEF Clamped, OnRow
<1>3. CASE ~(picking = <<>> \/ picking.idx < Rows(items, picking))
  <2> DEFINE n == Rows(items, picking)
             q == Clamped(picking, items)
             low == IF n = 0 THEN 0 ELSE n - 1
  <2>1. picking \in [idx : Nat, filter : BOOLEAN]
    BY <1>3 DEF Picking
  <2>2. q = [picking EXCEPT !.idx = low]
    BY <1>3 DEF Clamped
  <2>3. low \in Nat /\ (low = 0 \/ low < n)
    BY <1>1
  <2> HIDE DEF low
  <2>4. q \in [idx : Nat, filter : BOOLEAN] /\ q.idx = low /\ q.filter = picking.filter
    BY <2>1, <2>2, <2>3
  <2> HIDE DEF q
  <2>5. Rows(items, q) = n
    BY <2>4 DEF Rows
  <2>6. QED
    BY <2>3, <2>4, <2>5 DEF q, OnRow, Picking
<1>4. QED
  BY <1>2, <1>3

-----------------------------------------------------------------------------
(* The reply.                                                                  *)
\* The form still asks what it asked.
SameAsked(g, f) ==
  g.open = f.open /\ g.action = f.action /\ g.comp.req = f.comp.req /\ g.comp.inputs = f.comp.inputs

RepliesTo(f) == {Empty} \cup ListsFor(f.action, f.d)

LEMMA RepliesAreLists ==
  ASSUME NEW f \in Fetch, NEW reply \in RepliesTo(f)
  PROVE  reply \in List /\ (reply # Empty => reply.for = <<f.action, f.d>>)
<1>1. Empty \in List
  BY DEF Empty, List
<1>2. CASE reply = Empty
  BY <1>1, <1>2
<1>3. CASE reply # Empty
  <2>1. PICK s \in Sizes : reply = [for |-> <<f.action, f.d>>, size |-> s[1], hits |-> s[2]]
    BY <1>3 DEF RepliesTo, ListsFor
  <2>2. s[1] \in Nat /\ s[2] \in Nat
    BY ChoicesAssumption
  <2>3. <<f.action, f.d>> \in FormActions \X Texts
    BY DEF Fetch
  <2>4. QED
    BY <2>1, <2>2, <2>3 DEF List
<1>4. QED
  BY <1>2, <1>3

LEMMA ResolvedKeeps ==
  ASSUME NEW st \in ChoicesState, FormBelongs(st.form), CacheBelongs(st.choices),
         NEW i \in DOMAIN st.fetches, NEW reply \in RepliesTo(st.fetches[i]),
         Expected(st, i) => st.fetches[i].d = st.form.comp.inputs
  PROVE  LET next == Resolved(st, i, reply)
         IN  /\ next \in ChoicesState /\ FormBelongs(next.form) /\ CacheBelongs(next.choices)
             /\ next.fetches = st.fetches /\ next.inflight = st.inflight
             /\ SameAsked(next.form, st.form)
<1>1. CASE ~Expected(st, i)
  BY <1>1 DEF Resolved, SameAsked
<1>2. CASE Expected(st, i)
  <2> DEFINE f == st.form
             c == f.comp
             key == <<f.action, c.inputs>>
             failed == reply = Empty
             shown == IF failed /\ c.stale /\ c.items.size > 0 THEN c.items ELSE reply
             state == IF failed THEN "error" ELSE "ok"
             stale == failed /\ shown # Empty
             comp == [c EXCEPT !.items = shown, !.state = state, !.stale = stale]
             picking == Clamped(f.picking, shown)
             g == [f EXCEPT !.comp = comp, !.picking = picking]
             cs == IF failed THEN st.choices ELSE CachePut(st.choices, key, reply)
             next == Resolved(st, i, reply)
  <2>1. /\ f \in Form /\ st.fetches \in Seq(Fetch) /\ st.fetches[i] \in Fetch
    BY FetchAt DEF ChoicesState
  <2>2. f.open /\ f.action = st.fetches[i].action /\ st.fetches[i].d = c.inputs
    BY <1>2 DEF Expected
  <2>3. reply \in List /\ (reply # Empty => reply.for = key) /\ key \in FormActions \X Texts
    BY <2>1, <2>2, RepliesAreLists DEF Fetch
  <2>4. next = [st EXCEPT !.form = g, !.choices = cs]
    <3>1. next = IF ~Expected(st, i) THEN st ELSE [st EXCEPT !.form = g, !.choices = cs]
      BY DEF Resolved
    <3> HIDE DEF next, g, cs
    <3>2. QED
      BY <1>2, <3>1
  <2>5. /\ c.items \in List /\ f.picking \in Picking
        /\ c.stale => c.items = Empty \/ c.items.for = key
    BY <2>1, <2>2 DEF Form, FormBelongs, Picking
  <2>6. shown \in List /\ (shown # Empty => shown.for = key)
    BY <2>3, <2>5
  <2>7. picking \in Picking /\ OnRow(picking, shown)
    BY <2>5, <2>6, ClampedOnRow
  <2>8. stale \in BOOLEAN /\ state \in {"ok", "error"}
    OBVIOUS
  <2> HIDE DEF shown, stale, state, picking
  <2>9. /\ comp \in [state : {"idle", "pending", "ok", "error"}, req : Nat,
                     inputs : Texts \cup {""}, stale : BOOLEAN, items : List]
        /\ comp.req = c.req /\ comp.inputs = c.inputs /\ comp.items = shown /\ comp.state = state
    BY <2>1, <2>6, <2>8 DEF Form
  <2> HIDE DEF comp
  <2>10. /\ g \in Form /\ g.open = f.open /\ g.action = f.action /\ g.comp = comp /\ g.picking = picking
    BY <2>1, <2>7, <2>9 DEF Form, Picking
  <2> HIDE DEF g
  <2>11. FormBelongs(g)
    BY <2>2, <2>3, <2>6, <2>7, <2>8, <2>9, <2>10 DEF FormBelongs, OnRow
  <2>12. CacheBelongs(cs)
    BY <2>3, PutBelongs
  <2>13. cs \in Seq(Entry)
    <3>1. Belonging \subseteq Entry
      BY DEF Belonging
    <3>2. QED
      BY <2>12, <3>1, SeqMonotonic DEF CacheBelongs
  <2> HIDE DEF cs
  <2>14. /\ next \in ChoicesState /\ next.form = g /\ next.choices = cs
         /\ next.fetches = st.fetches /\ next.inflight = st.inflight
    BY <2>4, <2>10, <2>13 DEF ChoicesState
  <2> HIDE DEF next
  <2>15. SameAsked(g, f)
    BY <2>9, <2>10 DEF SameAsked
  <2>16. QED
    BY <2>11, <2>12, <2>14, <2>15 DEF next
<1>3. QED
  BY <1>1, <1>2

LEMMA SameAnswers ==
  ASSUME NEW f, NEW g, SameAsked(g, f), NEW fs, Answers(f, fs)
  PROVE  Answers(g, fs)
BY DEF SameAsked, Answers

LEMMA ReleaseKeeps ==
  ASSUME NEW st \in ChoicesState, NEW i \in DOMAIN st.fetches,
         \A b \in FormActions : st.inflight[b] = i => st.fetches[i].action = b
  PROVE  LET next == Release(st, i)
         IN  /\ next \in ChoicesState /\ next.form = st.form /\ next.choices = st.choices
             /\ next.fetches = st.fetches
             /\ \A b \in FormActions : next.inflight[b] = IF st.inflight[b] = i THEN 0 ELSE st.inflight[b]
<1> DEFINE a == st.fetches[i].action
           next == Release(st, i)
<1>1. a \in FormActions /\ st.inflight \in [FormActions -> Nat]
  BY FetchAt DEF ChoicesState
<1>2. CASE st.inflight[a] = i
  <2>1. next = [st EXCEPT !.inflight[a] = 0]
    BY <1>2 DEF Release
  <2>2. /\ next.inflight = [st.inflight EXCEPT ![a] = 0] /\ next.form = st.form
        /\ next.choices = st.choices /\ next.fetches = st.fetches
    BY <2>1 DEF ChoicesState
  <2>3. [st.inflight EXCEPT ![a] = 0] \in [FormActions -> Nat]
    BY <1>1
  <2>4. next \in ChoicesState
    BY <2>1, <2>2, <2>3 DEF ChoicesState
  <2> HIDE DEF next, a
  <2>5. ASSUME NEW b \in FormActions
        PROVE  next.inflight[b] = IF st.inflight[b] = i THEN 0 ELSE st.inflight[b]
    <3>1. CASE b = a
      BY <1>1, <1>2, <2>2, <3>1
    <3>2. CASE b # a
      <4>1. st.inflight[b] # i
        BY <3>2 DEF a
      <4>2. next.inflight[b] = st.inflight[b]
        BY <1>1, <2>2, <3>2
      <4>3. QED
        BY <4>1, <4>2
    <3>3. QED
      BY <3>1, <3>2
  <2>6. QED
    BY <2>2, <2>4, <2>5 DEF next
<1>3. CASE st.inflight[a] # i
  <2>1. next = st
    BY <1>3 DEF Release
  <2> HIDE DEF next
  <2>2. \A b \in FormActions : st.inflight[b] # i
    BY <1>3
  <2>3. QED
    BY <2>1, <2>2 DEF next
<1>4. QED
  BY <1>2, <1>3

LEMMA SettleKeeps ==
  ASSUME NEW st, Kept(st), Answers(st.form, st.fetches), NEW i \in DOMAIN st.fetches, ~st.fetches[i].settled,
         NEW reply \in RepliesTo(st.fetches[i])
  PROVE  LET next == Settle(st, i, reply)
         IN  Kept(next) /\ Answers(next.form, next.fetches) /\ SameAsked(next.form, st.form)
<1> DEFINE f == st.fetches[i]
           g == [f EXCEPT !.settled = TRUE, !.aborted = FALSE, !.failing = FALSE, !.kill = "no"]
           fs == [st.fetches EXCEPT ![i] = g]
           done == [st EXCEPT !.fetches[i] = g]
           res == IF f.aborted THEN done ELSE Resolved(done, i, reply)
           next == Release(res, i)
<1>1. /\ st \in ChoicesState /\ FormBelongs(st.form) /\ CacheBelongs(st.choices)
      /\ KeysHeld(st.fetches, st.inflight) /\ st.fetches \in Seq(Fetch) /\ st.inflight \in [FormActions -> Nat]
  BY DEF Kept, ChoicesState
<1>2. f \in Fetch
  BY <1>1, FetchAt
<1> HIDE DEF f
<1>3. g \in Fetch /\ g.action = f.action /\ g.d = f.d /\ g.req = f.req /\ g.settled
  BY <1>2 DEF Fetch
<1> HIDE DEF g
<1>4. /\ fs \in Seq(Fetch) /\ Len(fs) = Len(st.fetches) /\ fs[i] = g
      /\ \A j \in DOMAIN st.fetches \ {i} : fs[j] = st.fetches[j]
  BY <1>1, <1>3, FetchPut
<1>5. i \in DOMAIN fs
  BY <1>1, <1>4, LenProperties
<1>6. /\ done \in ChoicesState /\ done.fetches = fs /\ done.form = st.form
      /\ done.choices = st.choices /\ done.inflight = st.inflight
  BY <1>1, <1>4 DEF ChoicesState
<1>7. Settle(st, i, reply) = next
  BY DEF Settle, f, g
<1> HIDE DEF done, fs
<1>8. /\ res \in ChoicesState /\ FormBelongs(res.form) /\ CacheBelongs(res.choices)
      /\ res.fetches = fs /\ res.inflight = st.inflight /\ SameAsked(res.form, st.form)
  <2>1. CASE f.aborted
    BY <1>1, <1>6, <2>1 DEF SameAsked
  <2>2. CASE ~f.aborted
    <3>1. Awaited(f)
      BY <2>2 DEF Awaited, f
    <3>2. Expected(done, i) => g.d = st.form.comp.inputs
      BY <1>3, <1>4, <1>6, <3>1 DEF Expected, Answers, f
    <3>3. reply \in RepliesTo(done.fetches[i])
      BY <1>3, <1>4, <1>6 DEF RepliesTo, f
    <3>4. res = Resolved(done, i, reply)
      BY <2>2
    <3> HIDE DEF res
    <3>5. QED
      BY <1>1, <1>4, <1>5, <1>6, <3>2, <3>3, <3>4, ResolvedKeeps
  <2>3. QED
    BY <2>1, <2>2
<1> HIDE DEF res
<1>9. \A b \in FormActions : st.inflight[b] = i => f.action = b
  <2>1. i # 0
    BY <1>1, FetchAt
  <2>2. QED
    BY <1>1, <2>1 DEF KeysHeld, f
<1>10. /\ next \in ChoicesState /\ next.form = res.form /\ next.choices = res.choices /\ next.fetches = fs
       /\ \A b \in FormActions : next.inflight[b] = IF st.inflight[b] = i THEN 0 ELSE st.inflight[b]
  BY <1>3, <1>4, <1>5, <1>8, <1>9, ReleaseKeeps
<1> HIDE DEF next
<1>11. Ended(st.fetches, st.inflight, i, fs, next.inflight)
  <2>1. fs[i].action = st.fetches[i].action /\ ~Awaited(fs[i])
    BY <1>3, <1>4 DEF Awaited, f
  <2>2. QED
    BY <1>1, <1>4, <1>10, <2>1 DEF Ended
<1>12. KeysHeld(fs, next.inflight) /\ Answers(st.form, fs)
  BY <1>11, FetchEnds
<1>13. Answers(next.form, next.fetches)
  BY <1>8, <1>10, <1>12, SameAnswers
<1>14. Kept(next)
  BY <1>8, <1>10, <1>12 DEF Kept
<1>15. QED
  BY <1>7, <1>8, <1>10, <1>13, <1>14

-----------------------------------------------------------------------------
(* A request.                                                                  *)
LEMMA RunKeyedKeeps ==
  ASSUME NEW st, Kept(st), NEW f \in Fetch, f.action = st.form.action, f.d = st.form.comp.inputs,
         Awaited(f), NEW starts \in BOOLEAN
  PROVE  LET next == RunKeyed(st, f, starts)
         IN  Kept(next) /\ Answers(next.form, next.fetches) /\ SameAsked(next.form, st.form)
<1> DEFINE a == f.action
           i == Len(st.fetches) + 1
           freed == CancelEffect(st, a)
           fs == Append(freed.fetches, f)
           held == [freed.inflight EXCEPT ![a] = i]
           begun == [freed EXCEPT !.fetches = Append(@, f), !.inflight[a] = i]
<1>1. /\ st \in ChoicesState /\ FormBelongs(st.form) /\ CacheBelongs(st.choices)
      /\ KeysHeld(st.fetches, st.inflight) /\ a \in FormActions
  BY DEF Kept, Fetch
<1> HIDE DEF a
<1>2. /\ freed \in ChoicesState /\ freed.form = st.form /\ freed.choices = st.choices
      /\ KeysHeld(freed.fetches, freed.inflight) /\ freed.inflight[a] = 0
      /\ Len(freed.fetches) = Len(st.fetches)
  BY <1>1, CancelKeeps
<1>3. RunKeyed(st, f, starts) = IF starts THEN begun ELSE Settle(begun, i, Empty)
  BY DEF RunKeyed, a
<1> HIDE DEF freed
<1>4. freed.fetches \in Seq(Fetch) /\ freed.inflight \in [FormActions -> Nat]
  BY <1>2 DEF ChoicesState
<1>5. /\ i \in Nat /\ i # 0 /\ DOMAIN freed.fetches = 1 .. i - 1
      /\ \A j \in 1 .. i - 1 : freed.fetches[j] \in Fetch /\ freed.fetches[j].action \in FormActions
  BY <1>2, <1>4, FetchAt
<1>6. /\ fs \in Seq(Fetch) /\ Len(fs) = i /\ fs[i] = f
      /\ \A j \in 1 .. i - 1 : fs[j] = freed.fetches[j]
  BY <1>2, <1>4, AppendProperties
<1>7. held \in [FormActions -> Nat] /\ held[a] = i /\ \A b \in FormActions \ {a} : held[b] = freed.inflight[b]
  BY <1>1, <1>4, <1>5
<1>8. begun.fetches = fs /\ begun.inflight = held /\ begun.form = st.form /\ begun.choices = st.choices
  BY <1>2 DEF ChoicesState
<1>9. begun \in ChoicesState
  BY <1>2, <1>6, <1>7 DEF ChoicesState
<1> HIDE DEF begun, fs, held, i
<1>10. DOMAIN fs = 1 .. i
  BY <1>6, LenProperties
<1>11. ASSUME NEW j \in 1 .. i PROVE held[fs[j].action] = j <=> Awaited(fs[j])
  <2>1. CASE j = i
    BY <1>6, <1>7, <2>1 DEF a
  <2>2. CASE j # i
    <3>1. j \in 1 .. i - 1
      BY <1>5, <2>2
    <3>2. freed.inflight[freed.fetches[j].action] = j <=> Awaited(freed.fetches[j])
      BY <1>2, <1>5, <3>1 DEF KeysHeld
    <3>3. CASE freed.fetches[j].action = a
      BY <1>2, <1>5, <1>6, <1>7, <2>2, <3>1, <3>2, <3>3
    <3>4. CASE freed.fetches[j].action # a
      BY <1>5, <1>6, <1>7, <3>1, <3>2, <3>4
    <3>5. QED
      BY <3>3, <3>4
  <2>3. QED
    BY <2>1, <2>2
<1>12. ASSUME NEW b \in FormActions, held[b] # 0 PROVE held[b] \in 1 .. i /\ fs[held[b]].action = b
  <2>1. CASE b = a
    BY <1>5, <1>6, <1>7, <2>1 DEF a
  <2>2. CASE b # a
    <3>1. held[b] = freed.inflight[b]
      BY <1>7, <2>2
    <3>2. held[b] \in 1 .. i - 1 /\ freed.fetches[held[b]].action = b
      BY <1>2, <1>5, <1>12, <3>1 DEF KeysHeld
    <3>3. held[b] \in 1 .. i
      BY <1>5, <3>2
    <3>4. QED
      BY <1>6, <3>2, <3>3
  <2>3. QED
    BY <2>1, <2>2
<1>13. KeysHeld(fs, held)
  BY <1>10, <1>11, <1>12 DEF KeysHeld
<1>14. Answers(st.form, fs)
  <2> SUFFICES ASSUME NEW j \in 1 .. i, Awaited(fs[j]), fs[j].action = st.form.action
               PROVE  fs[j].d = st.form.comp.inputs
    BY <1>10 DEF Answers
  <2>1. held[a] = j
    BY <1>11 DEF a
  <2>2. QED
    BY <1>6, <1>7, <2>1
<1>15. Kept(begun) /\ Answers(begun.form, begun.fetches) /\ SameAsked(begun.form, st.form)
  BY <1>1, <1>8, <1>9, <1>13, <1>14 DEF Kept, SameAsked
<1>16. CASE starts
  BY <1>3, <1>15, <1>16
<1>17. CASE ~starts
  <2>1. i \in DOMAIN begun.fetches /\ ~begun.fetches[i].settled
    BY <1>5, <1>6, <1>8, <1>10 DEF Awaited
  <2>2. Empty \in RepliesTo(begun.fetches[i])
    BY DEF RepliesTo
  <2> DEFINE next == Settle(begun, i, Empty)
  <2> HIDE DEF next
  <2>3. Kept(next) /\ Answers(next.form, next.fetches) /\ SameAsked(next.form, begun.form)
    BY <1>15, <2>1, <2>2, SettleKeeps DEF next
  <2>4. SameAsked(next.form, st.form)
    BY <1>15, <2>3 DEF SameAsked
  <2>5. QED
    BY <1>3, <1>17, <2>3, <2>4 DEF next
<1>18. QED
  BY <1>16, <1>17

LEMMA CacheGiven ==
  ASSUME NEW cs, CacheBelongs(cs)
  PROVE  \A key : \A e \in CacheGet(cs, key) : e.items \in List /\ (e.items # Empty => e.items.for = key)
<1> TAKE key
<1> TAKE e \in CacheGet(cs, key)
<1>1. PICK n \in DOMAIN cs : e = cs[n]
  BY DEF CacheGet, Range
<1>2. e \in Belonging
  BY <1>1, LenProperties, ElementOfSeq DEF CacheBelongs
<1>3. e.key = key
  BY DEF CacheGet
<1>4. QED
  BY <1>2, <1>3 DEF Belonging, Entry

LEMMA Successor == \A n \in Nat : n + 1 \in Nat \ {0}
OBVIOUS

LEMMA RequestedKeeps ==
  ASSUME NEW st, Kept(st), st.form.open, st.form.d # "", st.form.picking = <<>>, NEW starts \in BOOLEAN
  PROVE  LET next == Requested(st, starts) IN Kept(next) /\ Answers(next.form, next.fetches)
<1> DEFINE f == st.form
           hit == CacheGet(st.choices, <<f.action, f.d>>)
           shown == IF hit = {} THEN f.comp.items ELSE (CHOOSE e \in hit : TRUE).items
           state == IF hit = {} THEN "pending" ELSE "ok"
           asked == [f.comp EXCEPT !.state = state, !.req = f.seq + 1, !.inputs = f.d,
                                   !.stale = hit # {}, !.items = shown]
           form1 == [f EXCEPT !.comp = asked, !.seq = f.seq + 1]
           asking == [st EXCEPT !.form = form1]
           fetch == [action |-> f.action, d |-> f.d, req |-> f.seq + 1, aborted |-> FALSE,
                     settled |-> FALSE, failing |-> FALSE, kill |-> "no"]
<1>1. /\ st \in ChoicesState /\ f \in Form /\ f.action \in FormActions /\ f.d \in Texts /\ f.seq + 1 \in Nat \ {0}
      /\ CacheBelongs(st.choices) /\ KeysHeld(st.fetches, st.inflight) /\ f.comp.items \in List
  <2>1. /\ st \in ChoicesState /\ f \in Form /\ FormBelongs(f)
        /\ CacheBelongs(st.choices) /\ KeysHeld(st.fetches, st.inflight)
    BY DEF Kept, ChoicesState
  <2>2. f.action \in FormActions
    BY <2>1 DEF FormBelongs
  <2>3. f.d \in Texts /\ f.seq + 1 \in Nat \ {0}
    <3>1. f.d \in Texts \cup {""} /\ f.seq \in Nat
      BY <2>1 DEF Form
    <3>2. f.d \in Texts
      BY <3>1
    <3>3. f.seq + 1 \in Nat \ {0}
      BY <3>1, Successor
    <3>4. QED
      BY <3>2, <3>3
  <2>4. f.comp.items \in List
    BY <2>1 DEF Form
  <2>5. QED
    BY <2>1, <2>2, <2>3, <2>4
<1>2. Requested(st, starts) = RunKeyed(asking, fetch, starts)
  BY DEF Requested
<1> HIDE DEF hit
<1>3. shown \in List /\ (hit # {} /\ shown # Empty => shown.for = <<f.action, f.d>>)
  <2>1. CASE hit = {}
    BY <1>1, <2>1
  <2>2. CASE hit # {}
    <3> DEFINE e == CHOOSE x \in hit : TRUE
    <3>1. e \in hit
      BY <2>2
    <3>2. \A x \in hit : x.items \in List /\ (x.items # Empty => x.items.for = <<f.action, f.d>>)
      BY <1>1, CacheGiven DEF hit
    <3> HIDE DEF e
    <3>3. QED
      BY <2>2, <3>1, <3>2 DEF e
  <2>3. QED
    BY <2>1, <2>2
<1>4. state \in {"pending", "ok"} /\ (state = "ok" <=> hit # {})
  OBVIOUS
<1> HIDE DEF shown, state
<1>5. /\ asked \in [state : {"idle", "pending", "ok", "error"}, req : Nat,
                    inputs : Texts \cup {""}, stale : BOOLEAN, items : List]
      /\ asked.req = f.seq + 1 /\ asked.inputs = f.d /\ asked.items = shown /\ asked.state = state
      /\ (asked.stale <=> hit # {})
  BY <1>1, <1>3, <1>4 DEF Form
<1> HIDE DEF asked
<1>6. /\ form1 \in Form /\ form1.open /\ form1.action = f.action /\ form1.comp = asked /\ form1.picking = <<>>
  BY <1>1, <1>5 DEF Form
<1> HIDE DEF form1
<1>7. FormBelongs(form1)
  BY <1>1, <1>3, <1>4, <1>5, <1>6 DEF FormBelongs
<1>8. /\ asking \in ChoicesState /\ asking.form = form1 /\ asking.choices = st.choices
      /\ asking.fetches = st.fetches /\ asking.inflight = st.inflight
  BY <1>1, <1>6 DEF ChoicesState
<1> HIDE DEF asking
<1>9. Kept(asking)
  BY <1>1, <1>7, <1>8 DEF Kept
<1>10. fetch \in Fetch /\ fetch.action = f.action /\ fetch.d = f.d /\ Awaited(fetch)
  BY <1>1 DEF Fetch, Awaited
<1> HIDE DEF fetch
<1>11. fetch.action = asking.form.action /\ fetch.d = asking.form.comp.inputs
  BY <1>5, <1>6, <1>8, <1>10
<1>12. QED
  BY <1>2, <1>9, <1>10, <1>11, RunKeyedKeeps

-----------------------------------------------------------------------------
(* The form opens and closes.                                                  *)
LEMMA NoFormBelongs ==
  /\ NoForm \in Form /\ FormBelongs(NoForm) /\ ~NoForm.open /\ NoForm.comp.req = 0 /\ NoForm.picking = <<>>
  /\ Idle \in [state : {"idle", "pending", "ok", "error"}, req : Nat,
               inputs : Texts \cup {""}, stale : BOOLEAN, items : List]
  /\ Idle.state = "idle" /\ ~Idle.stale /\ Idle.req = 0
<1>1. Empty \in List
  BY DEF Empty, List
<1>2. /\ Idle \in [state : {"idle", "pending", "ok", "error"}, req : Nat,
                   inputs : Texts \cup {""}, stale : BOOLEAN, items : List]
      /\ Idle.state = "idle" /\ ~Idle.stale /\ Idle.req = 0
  BY <1>1 DEF Idle
<1>3. NoForm \in Form /\ ~NoForm.open /\ NoForm.comp = Idle /\ NoForm.picking = <<>>
  BY <1>2 DEF NoForm, Form
<1>4. FormBelongs(NoForm)
  BY <1>2, <1>3 DEF FormBelongs
<1>5. QED
  BY <1>2, <1>3, <1>4

\* With another form, the keys and the cache are as they were.
LEMMA FormSet ==
  ASSUME NEW st, Kept(st), NEW f \in Form, FormBelongs(f)
  PROVE  LET next == [st EXCEPT !.form = f]
         IN  Kept(next) /\ next.form = f /\ next.fetches = st.fetches
BY DEF Kept, ChoicesState

\* A form that asked nothing waits for no fetch.
LEMMA AskedNothing ==
  ASSUME NEW fs \in Seq(Fetch), NEW f, ~f.open \/ f.comp.req = 0
  PROVE  Answers(f, fs)
<1>1. \A i \in DOMAIN fs : fs[i].req # 0
  BY FetchAt DEF Fetch
<1>2. QED
  BY <1>1 DEF Answers

LEMMA CloseFormKeeps ==
  ASSUME NEW st, Kept(st), st.form.open
  PROVE  LET next == CloseForm(st) IN Kept(next) /\ next.form = NoForm
<1> DEFINE freed == CancelPending(st)
<1>1. st.form.action \in FormActions
  BY DEF Kept, FormBelongs
<1>2. Kept(freed)
  <2>1. CASE st.form.comp.state = "pending"
    <3>1. freed = CancelEffect(st, st.form.action)
      BY <2>1 DEF CancelPending
    <3> HIDE DEF freed
    <3>2. QED
      BY <1>1, <3>1, CancelKeeps DEF Kept
  <2>2. CASE st.form.comp.state # "pending"
    BY <2>2 DEF CancelPending
  <2>3. QED
    BY <2>1, <2>2
<1> DEFINE closed == [freed EXCEPT !.form = NoForm]
<1>3. CloseForm(st) = closed
  BY DEF CloseForm
<1> HIDE DEF freed
<1>4. Kept(closed) /\ closed.form = NoForm
  BY <1>2, NoFormBelongs DEF Kept, ChoicesState
<1> HIDE DEF closed
<1>5. QED
  BY <1>3, <1>4

LEMMA EnterFormKeeps ==
  ASSUME NEW st, Kept(st), NEW a \in FormActions, NEW text \in Texts \cup {""}, NEW starts \in BOOLEAN
  PROVE  LET next == EnterForm(st, a, text, starts) IN Kept(next) /\ Answers(next.form, next.fetches)
<1> DEFINE f == [NoForm EXCEPT !.open = TRUE, !.action = a, !.d = text]
           opened == [st EXCEPT !.form = f]
           next == EnterForm(st, a, text, starts)
<1>1. f \in Form /\ f.open /\ f.d = text /\ f.action = a /\ f.comp = Idle /\ f.picking = <<>>
  BY NoFormBelongs DEF NoForm, Form
<1>2. next = IF text = "" THEN opened ELSE Requested(opened, starts)
  BY DEF EnterForm
<1> HIDE DEF f
<1>3. FormBelongs(f)
  BY <1>1, NoFormBelongs DEF FormBelongs
<1>4. Kept(opened) /\ opened.form = f
  BY <1>1, <1>3, FormSet
<1> HIDE DEF opened
<1>5. CASE text = ""
  <2>1. opened.fetches \in Seq(Fetch)
    BY <1>4 DEF Kept, ChoicesState
  <2>2. f.comp.req = 0
    BY <1>1, NoFormBelongs
  <2>3. next = opened
    BY <1>2, <1>5
  <2> HIDE DEF next
  <2>4. QED
    BY <1>4, <2>1, <2>2, <2>3, AskedNothing DEF next
<1>6. CASE text # ""
  <2>1. next = Requested(opened, starts)
    BY <1>2, <1>6
  <2> HIDE DEF next
  <2>2. QED
    BY <1>1, <1>4, <1>6, <2>1, RequestedKeeps DEF next
<1>7. QED
  BY <1>5, <1>6

-----------------------------------------------------------------------------
(* The keys and the fetches.                                                   *)
ChoicesInv ==
  /\ form \in Form /\ fetches \in Seq(Fetch) /\ inflight \in [FormActions -> Nat]
  /\ FormBelongs(form) /\ CacheBelongs(choices) /\ KeysHeld(fetches, inflight) /\ Answers(form, fetches)

LEMMA CacheTyped == \A cs : CacheBelongs(cs) => cs \in Seq(Entry)
<1>1. Belonging \subseteq Entry
  BY DEF Belonging
<1>2. QED
  BY <1>1, SeqMonotonic DEF CacheBelongs

LEMMA NowKept ==
  ASSUME ChoicesInv
  PROVE  LET st == ChoicesNow
         IN  /\ Kept(st) /\ Answers(st.form, st.fetches)
             /\ st.form = form /\ st.fetches = fetches /\ st.inflight = inflight /\ st.choices = choices
<1> DEFINE st == ChoicesNow
<1>1. st.form = form /\ st.fetches = fetches /\ st.inflight = inflight /\ st.choices = choices
  BY DEF ChoicesNow
<1>2. choices \in Seq(Entry)
  BY CacheTyped DEF ChoicesInv
<1>3. st \in ChoicesState
  BY <1>2 DEF ChoicesNow, ChoicesState, ChoicesInv
<1> HIDE DEF st
<1>4. QED
  BY <1>1, <1>3 DEF Kept, ChoicesInv, st

LEMMA BecomesKept ==
  ASSUME NEW st, Kept(st), Answers(st.form, st.fetches), Becomes(st)
  PROVE  ChoicesInv'
BY DEF Becomes, Kept, ChoicesState, ChoicesInv

LEMMA FormKept ==
  ASSUME ChoicesInv, form' \in Form, FormBelongs(form'), SameAsked(form', form),
         UNCHANGED <<fetches, inflight, choices>>
  PROVE  ChoicesInv'
<1>1. Answers(form', fetches)
  BY SameAnswers DEF ChoicesInv
<1>2. QED
  BY <1>1 DEF ChoicesInv

LEMMA PickingSet ==
  ASSUME ChoicesInv, NEW picking \in Picking, OnRow(picking, form.comp.items),
         form' = [form EXCEPT !.picking = picking], UNCHANGED <<fetches, inflight, choices>>
  PROVE  ChoicesInv'
<1>1. /\ form' \in Form /\ form'.picking = picking /\ form'.open = form.open /\ form'.action = form.action
      /\ form'.comp = form.comp
  BY DEF ChoicesInv, Form, Picking
<1>2. FormBelongs(form')
  BY <1>1 DEF ChoicesInv, FormBelongs, OnRow
<1>3. SameAsked(form', form)
  BY <1>1 DEF SameAsked
<1>4. QED
  BY <1>1, <1>2, <1>3, FormKept

LEMMA TopRow ==
  /\ <<>> \in Picking /\ \A items : OnRow(<<>>, items)
  /\ \A on \in BOOLEAN : LET top == [idx |-> 0, filter |-> on]
                         IN  top \in Picking /\ \A items : OnRow(top, items)
BY DEF Picking, OnRow

LEMMA OpenPickerKeeps ==
  ASSUME ChoicesInv, OpenPicker
  PROVE  ChoicesInv'
<1> DEFINE top == [idx |-> 0, filter |-> FALSE]
<1>1. form' = [form EXCEPT !.picking = top] /\ UNCHANGED <<fetches, inflight, choices>>
  BY DEF OpenPicker
<1>2. top \in Picking /\ OnRow(top, form.comp.items)
  BY TopRow
<1> HIDE DEF top
<1>3. QED
  BY <1>1, <1>2, PickingSet

LEMMA ClosePickerKeeps ==
  ASSUME ChoicesInv, ClosePicker
  PROVE  ChoicesInv'
<1> DEFINE picking == IF form.picking.filter THEN [idx |-> 0, filter |-> FALSE] ELSE <<>>
<1>1. form' = [form EXCEPT !.picking = picking] /\ UNCHANGED <<fetches, inflight, choices>>
  BY DEF ClosePicker
<1>2. picking \in Picking /\ OnRow(picking, form.comp.items)
  BY TopRow
<1> HIDE DEF picking
<1>3. QED
  BY <1>1, <1>2, PickingSet

LEMMA MovePickerKeeps ==
  ASSUME ChoicesInv, MovePicker
  PROVE  ChoicesInv'
<1>1. PICK idx \in {form.picking.idx + 1, form.picking.idx - 1} :
        idx \in 0 .. (Rows(form.comp.items, form.picking) - 1) /\ form' = [form EXCEPT !.picking.idx = idx]
  BY DEF MovePicker
<1>2. form.picking # <<>> /\ UNCHANGED <<fetches, inflight, choices>> /\ form \in Form
  BY DEF MovePicker, ChoicesInv
<1>3. form.picking \in [idx : Nat, filter : BOOLEAN] /\ form.comp.items \in List
  BY <1>2 DEF Form
<1> DEFINE n == Rows(form.comp.items, form.picking)
           picking == [form.picking EXCEPT !.idx = idx]
<1>4. n \in Nat
  BY <1>3 DEF Rows, List
<1>5. Rows(form.comp.items, picking) = n
  BY <1>3 DEF Rows
<1> HIDE DEF n
<1>6. idx \in Nat /\ idx < n
  BY <1>1, <1>4 DEF n
<1>7. picking \in Picking /\ picking.idx = idx
  BY <1>3, <1>6 DEF Picking
<1>8. form' = [form EXCEPT !.picking = picking]
  BY <1>1
<1> HIDE DEF picking
<1>9. OnRow(picking, form.comp.items)
  BY <1>5, <1>6, <1>7 DEF OnRow
<1>10. QED
  BY <1>2, <1>7, <1>8, <1>9, PickingSet

LEMMA FilterPickerKeeps ==
  ASSUME ChoicesInv, FilterPicker
  PROVE  ChoicesInv'
<1> DEFINE top == [idx |-> 0, filter |-> ~form.picking.filter]
<1>1. form' = [form EXCEPT !.picking = top] /\ UNCHANGED <<fetches, inflight, choices>>
  BY DEF FilterPicker
<1>2. top \in Picking /\ OnRow(top, form.comp.items)
  BY TopRow
<1> HIDE DEF top
<1>3. QED
  BY <1>1, <1>2, PickingSet

LEMMA PickKeeps ==
  ASSUME ChoicesInv, Pick
  PROVE  ChoicesInv'
<1> DEFINE c == IF form.picking.idx < Rows(form.comp.items, form.picking) THEN form.comp.items.for ELSE form.c
<1>1. form' = [form EXCEPT !.picking = <<>>, !.c = c] /\ UNCHANGED <<fetches, inflight, choices>>
  BY DEF Pick
<1>2. form \in Form
  BY DEF ChoicesInv
<1>3. c \in {<<>>} \cup (FormActions \X Texts)
  BY <1>2 DEF Form, List
<1> HIDE DEF c
<1>4. /\ form' \in Form /\ form'.picking = <<>> /\ form'.open = form.open /\ form'.action = form.action
      /\ form'.comp = form.comp
  BY <1>1, <1>2, <1>3 DEF Form
<1>5. FormBelongs(form')
  BY <1>4 DEF ChoicesInv, FormBelongs
<1>6. SameAsked(form', form)
  BY <1>4 DEF SameAsked
<1>7. QED
  BY <1>1, <1>4, <1>5, <1>6, FormKept

LEMMA TypeTextKeeps ==
  ASSUME ChoicesInv, TypeText
  PROVE  ChoicesInv'
<1>1. PICK text \in (Texts \cup {""}) \ {form.d} : form' = [form EXCEPT !.d = text]
  BY DEF TypeText
<1>2. form \in Form /\ UNCHANGED <<fetches, inflight, choices>>
  BY DEF TypeText, ChoicesInv
<1>3. /\ form' \in Form /\ form'.picking = form.picking /\ form'.open = form.open
      /\ form'.action = form.action /\ form'.comp = form.comp
  BY <1>1, <1>2 DEF Form
<1>4. FormBelongs(form')
  BY <1>3 DEF ChoicesInv, FormBelongs
<1>5. SameAsked(form', form)
  BY <1>3 DEF SameAsked
<1>6. QED
  BY <1>2, <1>3, <1>4, <1>5, FormKept

LEMMA FocusKept ==
  ASSUME ChoicesInv, form' = [form EXCEPT !.focus = "d"], UNCHANGED <<fetches, inflight, choices>>
  PROVE  ChoicesInv'
<1>1. /\ form' \in Form /\ form'.picking = form.picking /\ form'.open = form.open
      /\ form'.action = form.action /\ form'.comp = form.comp
  BY DEF Form, ChoicesInv
<1>2. FormBelongs(form')
  BY <1>1 DEF ChoicesInv, FormBelongs
<1>3. SameAsked(form', form)
  BY <1>1 DEF SameAsked
<1>4. QED
  BY <1>1, <1>2, <1>3, FormKept

LEMMA OpenFormKeeps ==
  ASSUME ChoicesInv, OpenForm
  PROVE  ChoicesInv'
<1> DEFINE now == ChoicesNow
<1>1. PICK a \in FormActions, text \in Texts \cup {""}, starts \in BOOLEAN :
        Becomes(EnterForm(now, a, text, starts))
  BY DEF OpenForm
<1>2. Kept(now)
  BY NowKept
<1> DEFINE next == EnterForm(now, a, text, starts)
<1> HIDE DEF now
<1>3. Kept(next) /\ Answers(next.form, next.fetches)
  BY <1>2, EnterFormKeeps
<1> HIDE DEF next
<1>4. QED
  BY <1>1, <1>3, BecomesKept DEF next

LEMMA CloseKept ==
  ASSUME ChoicesInv, form.open
  PROVE  /\ Becomes(CloseForm(ChoicesNow)) => ChoicesInv'
         /\ \A a \in FormActions : Becomes(EnterForm(CloseForm(ChoicesNow), a, "", TRUE)) => ChoicesInv'
<1> DEFINE now == ChoicesNow
           closed == CloseForm(now)
<1>1. Kept(now) /\ now.form = form
  BY NowKept
<1> HIDE DEF now
<1>2. Kept(closed) /\ closed.form = NoForm
  BY <1>1, CloseFormKeeps
<1> HIDE DEF closed
<1>3. Answers(closed.form, closed.fetches)
  <2>1. closed.fetches \in Seq(Fetch)
    BY <1>2 DEF Kept, ChoicesState
  <2>2. QED
    BY <1>2, <2>1, AskedNothing, NoFormBelongs
<1>4. Becomes(closed) => ChoicesInv'
  BY <1>2, <1>3, BecomesKept
<1>5. ASSUME NEW a \in FormActions, Becomes(EnterForm(closed, a, "", TRUE)) PROVE ChoicesInv'
  <2> DEFINE next == EnterForm(closed, a, "", TRUE)
  <2>1. Kept(next) /\ Answers(next.form, next.fetches)
    BY <1>2, EnterFormKeeps
  <2> HIDE DEF next
  <2>2. QED
    BY <1>5, <2>1, BecomesKept DEF next
<1>6. QED
  BY <1>4, <1>5 DEF closed, now

LEMMA CancelFormKeeps ==
  ASSUME ChoicesInv, CancelForm
  PROVE  ChoicesInv'
BY CloseKept DEF CancelForm

LEMMA SubmitKeeps ==
  ASSUME ChoicesInv, Submit
  PROVE  ChoicesInv'
<1>1. form.open /\ form.action \in FormActions
  BY DEF Submit, ChoicesInv, FormBelongs
<1>2. CASE form' = [form EXCEPT !.focus = "d"] /\ UNCHANGED <<fetches, inflight, choices>>
  BY <1>2, FocusKept
<1>3. CASE Becomes(CloseForm(ChoicesNow))
  BY <1>1, <1>3, CloseKept
<1>4. CASE Becomes(EnterForm(CloseForm(ChoicesNow), form.action, "", TRUE))
  BY <1>1, <1>4, CloseKept
<1>5. QED
  BY <1>2, <1>3, <1>4 DEF Submit

LEMMA TabKeeps ==
  ASSUME ChoicesInv, Tab
  PROVE  ChoicesInv'
<1> DEFINE now == ChoicesNow
           focus == IF form.focus = "d" THEN "c" ELSE "d"
           f == [form EXCEPT !.picking = <<>>, !.focus = focus]
           moved == [now EXCEPT !.form.picking = <<>>, !.form.focus = IF @ = "d" THEN "c" ELSE "d"]
<1>1. Kept(now) /\ Answers(now.form, now.fetches) /\ now.form = form /\ form \in Form /\ FormBelongs(form)
  BY NowKept DEF ChoicesInv
<1> HIDE DEF now
<1>2. moved = [now EXCEPT !.form = f]
  BY <1>1 DEF Kept, ChoicesState
<1>3. /\ f \in Form /\ f.picking = <<>> /\ f.open = form.open /\ f.action = form.action
      /\ f.comp = form.comp /\ f.d = form.d
  BY <1>1 DEF Form
<1> HIDE DEF f
<1>4. FormBelongs(f) /\ SameAsked(f, form)
  BY <1>1, <1>3 DEF FormBelongs, SameAsked
<1>5. Kept(moved) /\ moved.form = f /\ moved.fetches = now.fetches
  <2>1. /\ Kept([now EXCEPT !.form = f]) /\ [now EXCEPT !.form = f].form = f
        /\ [now EXCEPT !.form = f].fetches = now.fetches
    BY <1>1, <1>3, <1>4 DEF Kept, ChoicesState
  <2>2. QED
    BY <1>2, <2>1
<1>6. form.open
  BY DEF Tab
<1>7. \/ Becomes(moved) \/ Becomes(TakenBack(moved))
      \/ form.d # "" /\ \E starts \in BOOLEAN : Becomes(Requested(moved, starts))
  BY DEF Tab, now
<1> HIDE DEF moved
<1>8. Answers(moved.form, moved.fetches)
  BY <1>1, <1>4, <1>5, SameAnswers
<1>9. CASE Becomes(moved)
  BY <1>5, <1>8, <1>9, BecomesKept
<1>10. CASE Becomes(TakenBack(moved))
  <2> DEFINE freed == CancelEffect(moved, moved.form.action)
             back == [freed EXCEPT !.form.comp = Idle]
             g == [f EXCEPT !.comp = Idle]
  <2>1. f.action \in FormActions
    BY <1>3, <1>4, <1>6 DEF FormBelongs
  <2>2. Kept(freed) /\ freed.form = f
    BY <1>5, <2>1, CancelKeeps DEF Kept
  <2>3. Becomes(back)
    BY <1>10 DEF TakenBack
  <2> HIDE DEF freed
  <2>4. g \in Form /\ g.picking = <<>> /\ g.open = f.open /\ g.action = f.action /\ g.comp = Idle
    BY <1>3, NoFormBelongs DEF Form
  <2>5. back = [freed EXCEPT !.form = g]
    BY <2>2 DEF Kept, ChoicesState
  <2> HIDE DEF g
  <2>6. FormBelongs(g)
    BY <2>1, <2>4, NoFormBelongs DEF FormBelongs
  <2>7. /\ Kept([freed EXCEPT !.form = g]) /\ [freed EXCEPT !.form = g].form = g
    BY <2>2, <2>4, <2>6 DEF Kept, ChoicesState
  <2> HIDE DEF back
  <2>8. Kept(back) /\ back.form = g
    BY <2>5, <2>7
  <2>9. Answers(back.form, back.fetches)
    <3>1. back.fetches \in Seq(Fetch)
      BY <2>8 DEF Kept, ChoicesState
    <3>2. QED
      BY <2>4, <2>8, <3>1, NoFormBelongs, AskedNothing
  <2>10. QED
    BY <2>3, <2>8, <2>9, BecomesKept
<1>11. ASSUME form.d # "", NEW starts \in BOOLEAN, Becomes(Requested(moved, starts))
       PROVE  ChoicesInv'
  <2> DEFINE next == Requested(moved, starts)
  <2>1. Kept(next) /\ Answers(next.form, next.fetches)
    BY <1>3, <1>5, <1>6, <1>11, RequestedKeeps
  <2> HIDE DEF next
  <2>2. QED
    BY <1>11, <2>1, BecomesKept DEF next
<1>12. QED
  BY <1>7, <1>9, <1>10, <1>11

LEMMA FetchCloses ==
  ASSUME ChoicesInv, NEW i \in DOMAIN fetches, Close(i)
  PROVE  ChoicesInv'
<1> DEFINE now == ChoicesNow
<1>1. /\ Kept(now) /\ Answers(now.form, now.fetches) /\ now.fetches = fetches
  BY NowKept
<1>2. PICK reply \in Replies(fetches[i]) : Becomes(Settle(now, i, reply))
  BY DEF Close
<1>3. reply \in RepliesTo(fetches[i]) /\ ~fetches[i].settled
  BY DEF Close, Replies, RepliesTo
<1> DEFINE next == Settle(now, i, reply)
<1> HIDE DEF now
<1>4. Kept(next) /\ Answers(next.form, next.fetches)
  BY <1>1, <1>3, SettleKeeps
<1> HIDE DEF next
<1>5. QED
  BY <1>2, <1>4, BecomesKept DEF next

\* Its timers leave open whether a fetch may answer.
LEMMA FetchTimed ==
  ASSUME ChoicesInv, NEW i \in DOMAIN fetches, NEW g \in Fetch, g.action = fetches[i].action,
         g.d = fetches[i].d, g.req = fetches[i].req, Awaited(g) <=> Awaited(fetches[i]),
         fetches' = [fetches EXCEPT ![i] = g], UNCHANGED <<form, inflight, choices>>
  PROVE  ChoicesInv'
<1>1. /\ fetches' \in Seq(Fetch) /\ Len(fetches') = Len(fetches) /\ fetches'[i] = g
      /\ \A j \in DOMAIN fetches \ {i} : fetches'[j] = fetches[j]
  BY FetchPut DEF ChoicesInv
<1>2. DOMAIN fetches' = DOMAIN fetches
  BY <1>1, LenProperties DEF ChoicesInv
<1>3. \A j \in DOMAIN fetches :
        /\ fetches'[j].action = fetches[j].action /\ fetches'[j].d = fetches[j].d
        /\ fetches'[j].req = fetches[j].req /\ (Awaited(fetches'[j]) <=> Awaited(fetches[j]))
  BY <1>1
<1>4. KeysHeld(fetches', inflight)
  BY <1>2, <1>3 DEF ChoicesInv, KeysHeld
<1>5. Answers(form, fetches')
  BY <1>2, <1>3 DEF ChoicesInv, Answers
<1>6. QED
  BY <1>1, <1>4, <1>5 DEF ChoicesInv

LEMMA OverrunKeeps ==
  ASSUME ChoicesInv, NEW i \in DOMAIN fetches, Overrun(i) \/ HardKill(i)
  PROVE  ChoicesInv'
<1>1. fetches[i] \in Fetch /\ UNCHANGED <<form, inflight, choices>>
  BY FetchAt DEF ChoicesInv, Overrun, HardKill
<1> DEFINE f == fetches[i]
           kill == IF f.kill = "no" THEN "armed" ELSE f.kill
<1>2. CASE Overrun(i)
  <2> DEFINE g == [f EXCEPT !.failing = TRUE, !.kill = kill]
  <2>1. fetches' = [fetches EXCEPT ![i] = g]
    BY <1>2 DEF Overrun
  <2>2. kill \in {"no", "armed", "sent"}
    BY <1>1 DEF Fetch
  <2> HIDE DEF kill
  <2>3. /\ g \in Fetch /\ g.action = f.action /\ g.d = f.d /\ g.req = f.req
        /\ g.settled = f.settled /\ g.aborted = f.aborted
    BY <1>1, <2>2 DEF Fetch
  <2> HIDE DEF g
  <2>4. QED
    BY <1>1, <2>1, <2>3, FetchTimed DEF Awaited
<1>3. CASE HardKill(i)
  <2> DEFINE g == [f EXCEPT !.kill = "sent"]
  <2>1. fetches' = [fetches EXCEPT ![i] = g]
    BY <1>3 DEF HardKill
  <2>3. /\ g \in Fetch /\ g.action = f.action /\ g.d = f.d /\ g.req = f.req
        /\ g.settled = f.settled /\ g.aborted = f.aborted
    BY <1>1 DEF Fetch
  <2> HIDE DEF g
  <2>4. QED
    BY <1>1, <2>1, <2>3, FetchTimed DEF Awaited
<1>4. QED
  BY <1>2, <1>3

LEMMA ChoicesStart ==
  ASSUME ChoicesInit
  PROVE  ChoicesInv
<1>1. form = NoForm /\ fetches = <<>> /\ choices = <<>> /\ inflight = [a \in FormActions |-> 0]
  BY DEF ChoicesInit
<1>2. fetches \in Seq(Fetch) /\ DOMAIN fetches = {} /\ choices \in Seq(Belonging) /\ Len(choices) = 0
  BY <1>1
<1>3. inflight \in [FormActions -> Nat] /\ \A a \in FormActions : inflight[a] = 0
  BY <1>1
<1>4. KeysHeld(fetches, inflight) /\ Answers(form, fetches)
  BY <1>2, <1>3 DEF KeysHeld, Answers
<1>5. CacheBelongs(choices)
  <2>1. CacheCap \in Nat
    BY ChoicesAssumption
  <2>2. 0 <= CacheCap
    BY <2>1
  <2>3. QED
    BY <1>2, <2>2 DEF CacheBelongs
<1>6. QED
  BY <1>1, <1>2, <1>3, <1>4, <1>5, NoFormBelongs DEF ChoicesInv

LEMMA ChoicesKeep ==
  ASSUME ChoicesInv, [ChoicesNext]_choicesVars
  PROVE  ChoicesInv'
<1>1. CASE UNCHANGED choicesVars
  BY <1>1 DEF choicesVars, ChoicesInv
<1>2. CASE \E i \in DOMAIN fetches : Close(i) \/ Overrun(i) \/ HardKill(i)
  BY <1>2, FetchCloses, OverrunKeeps
<1>3. QED
  BY <1>1, <1>2, OpenFormKeeps, TypeTextKeeps, TabKeeps, SubmitKeeps, CancelFormKeeps, OpenPickerKeeps,
     ClosePickerKeeps, MovePickerKeeps, FilterPickerKeeps, PickKeeps DEF ChoicesNext

LEMMA ChoicesAlways == ChoicesSpec => []ChoicesInv
BY ChoicesStart, ChoicesKeep, PTL DEF ChoicesSpec

(* What the form and the cache offer was listed for the action and the text it *)
(* is offered for, whichever fetches settled late, and the highlight is on a   *)
(* row (fabric-form.js, fabric_form_choices_resolved and its guards).          *)
THEOREM ListsAlwaysBelong == ChoicesSpec => []ListsBelong
<1>1. ASSUME ChoicesInv
      PROVE  ListsBelong
  <2>1. \A e \in Range(choices) : e.items # Empty => e.items.for = e.key
    <3>1. \A n \in DOMAIN choices : choices[n] \in Belonging
      BY <1>1, LenProperties, ElementOfSeq DEF ChoicesInv, CacheBelongs
    <3>2. QED
      BY <3>1 DEF Range, Belonging
  <2>2. QED
    BY <1>1, <2>1 DEF ListsBelong, ChoicesInv, FormBelongs
<1>2. QED
  BY <1>1, ChoicesAlways, PTL

(* A key is held exactly by the one fetch of its action that was neither       *)
(* settled nor aborted (effects.js _runKeyed and releaseKey,                   *)
(* choices-cmd-runtime.js settle).                                             *)
THEOREM KeyAlwaysHeld == ChoicesSpec => []KeyHeldByLiveFetch
<1>1. ChoicesInv => KeyHeldByLiveFetch
  BY DEF ChoicesInv, KeysHeld, KeyHeldByLiveFetch, Awaited
<1>2. QED
  BY <1>1, ChoicesAlways, PTL

(* The state of the form, of the fetches and of the cache is the one the model *)
(* declares; the cache never grows past its bound (fabric-form.js              *)
(* choicesCache, LRU).                                                         *)
THEOREM ChoicesAlwaysTyped == ChoicesSpec => []ChoicesTypeOK
<1>1. ASSUME ChoicesInv
      PROVE  ChoicesTypeOK
  <2>1. choices \in Seq(Entry)
    BY <1>1, CacheTyped DEF ChoicesInv
  <2>2. inflight \in [FormActions -> 0 .. Len(fetches)]
    <3>1. Len(fetches) \in Nat /\ DOMAIN fetches = 1 .. Len(fetches)
      BY <1>1, FetchAt DEF ChoicesInv
    <3>2. \A a \in FormActions : inflight[a] \in 0 .. Len(fetches)
      BY <1>1, <3>1 DEF ChoicesInv, KeysHeld
    <3>3. QED
      BY <1>1, <3>2 DEF ChoicesInv
  <2>3. QED
    BY <1>1, <2>1, <2>2 DEF ChoicesTypeOK, ChoicesInv, CacheBelongs
<1>2. QED
  BY <1>1, ChoicesAlways, PTL

=============================================================================
