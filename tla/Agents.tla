------------------------------- MODULE Agents -------------------------------
(***************************************************************************)
(* The live agent of one pane: the session host (js/io/agent.js), its two  *)
(* backends (js/agent/backends/mock.js, pi.js) and the fold of their       *)
(* events into the pane (js/panel/agent/agent.js).                         *)
(*                                                                         *)
(* A session is named by the instance id of its pane, an id the next pane  *)
(* at that place takes again.  A backend goes on emitting after it was     *)
(* told to stop, so its events may find the pane closed, open again, or    *)
(* open with another session.                                              *)
(*                                                                         *)
(* A definition named X_Suffix is a faulty variant of X; see Streams.      *)
(***************************************************************************)
EXTENDS Naturals, Sequences, Functions

CONSTANTS MaxSessions,  \* bound on the sessions ever started
          MaxSends      \* bound on the messages ever sent

ASSUME AgentsAssumption == MaxSessions \in Nat /\ MaxSends \in Nat

Busy == {"thinking", "tool", "compacting", "retrying"}     \* BUSY_STATES

\* What a turn of each backend plays.  The mock's events are normalized ones;
\* pi writes its own records, which MapPi translates as they are read.
EchoTurn == <<"turn-start", "thinking", "assistant-message", "turn-end", "settled">>
PiTurn == <<"agent_start", "turn_start", "message_update", "tool_execution_start",
            "auto_retry_start", "tool_execution_end", "turn_end", "agent_settled">>

MockSays == {"turn-start", "thinking", "assistant-message", "turn-end", "settled"}
PiWrites == {"agent_start", "turn_start", "message_update", "tool_execution_start", "auto_retry_start",
             "tool_execution_end", "turn_end", "agent_settled", "response"}
Records == MockSays \cup PiWrites \cup {"exit", "close"}

\* A backend handle: what it has still to emit, whether it is inside a turn
\* (the mock's inTurn, pi's running), was told to stop, has emitted its exit;
\* the state of its child process (the mock has none) and of its job.
Handle == [backend: {"mock", "pi"}, queue: Seq(Records), inTurn: BOOLEAN,
           stopped: BOOLEAN, exited: BOOLEAN,
           os: {"none", "spawning", "up", "gone"}, job: {"running", "exited", "killed"}]

VARIABLES
  handles,    \* every session started, in order
  sess,       \* sessions[id]: the index of the session of the pane, 0 for none
  chat,       \* the pane's slice: [open, status, stream]
  agentMode,  \* modes.agentMode
  sends,      \* messages sent so far
  quit        \* cleanup has run

agentVars == <<handles, sess, chat, agentMode, sends, quit>>

Shows(status) == [open |-> TRUE, status |-> status, stream |-> FALSE]
Fresh == Shows("starting")
Closed == [open |-> FALSE, status |-> "starting", stream |-> FALSE]

AgentTypeOK ==
  /\ \A s \in DOMAIN handles : handles[s] \in Handle
  /\ sess \in 0..Len(handles)
  /\ chat.status \in Busy \cup {"starting", "idle", "exited"}
  /\ sends \in 0..MaxSends

AgentInit ==
  /\ handles = <<>> /\ sess = 0 /\ chat = Fresh
  /\ agentMode = FALSE /\ sends = 0 /\ quit = FALSE

Live(s) == s # 0 /\ ~handles[s].exited

-----------------------------------------------------------------------------
(* The backends.                                                           *)

\* pi's records, as events of the protocol; a delta passes the throttle or not.
MapPi(h, raw) ==
  CASE raw = "agent_start"          -> {<<"thinking">>}
    [] raw = "turn_start"           -> {<<"turn-start">>}
    [] raw = "message_update"       -> {<<"assistant-delta">>, <<>>}
    [] raw = "tool_execution_start" -> {<<"tool-call">>}
    [] raw = "tool_execution_end"   -> {<<"tool-result">>}
    [] raw = "auto_retry_start"     -> {<<"retrying">>}
    [] raw = "turn_end"             -> {<<"assistant-message", "turn-end">>, <<"turn-end">>}
    [] raw = "agent_settled"        -> {<<"idle", "settled">>}
    [] raw = "response"             -> {<<"error">>}
    [] raw = "spawn"                -> {<<"settled">>}
    [] raw = "spawn_error"          -> {<<"error", "exit">>}
    [] raw = "close"                -> {<<"exit">>, <<"error", "exit">>}

\* After stop only the exit gets through, after the exit nothing.
PiEmits(h, raw) ==
  IF h.exited THEN {<<>>}
  ELSE IF h.stopped
       THEN {IF raw \in {"spawn_error", "close"} THEN <<"exit">> ELSE <<>>}
       ELSE MapPi(h, raw)

InTurnAfter(h, e) ==
  CASE e \in {"turn-start", "agent_start"} -> TRUE
    [] e \in {"turn-end", "agent_settled"} -> FALSE
    [] OTHER -> h.inTurn

\* backend.send
Sent(h) ==
  IF h.stopped \/ h.exited \/ h.os = "gone" THEN h
  ELSE [h EXCEPT !.queue = @ \o
         IF h.backend = "mock" THEN EchoTurn
         ELSE IF "agent_settled" \in Range(h.queue) THEN <<"response">> ELSE PiTurn]

MockCut_OnlyTurn(h) == IF h.inTurn THEN <<"turn-end", "settled">> ELSE <<>>

\* What an interrupt leaves of the mock's queue.
MockCut(h) ==
  IF h.inTurn THEN <<"turn-end", "settled">> ELSE IF h.queue # <<>> THEN <<"settled">> ELSE <<>>

PiCut(h) ==
  {<<"agent_settled">>} \cup
    IF "turn_end" \in Range(h.queue) THEN {<<"turn_end", "agent_settled">>} ELSE {}

\* backend.interrupt: the mock ends its turn itself; pi is asked to, and drops
\* what is left of the turn, with or without a turn_end.
Interrupted(h) ==
  IF h.stopped \/ h.exited \/ h.os = "gone" THEN {h}
  ELSE IF h.backend = "mock"
       THEN {[h EXCEPT !.queue = MockCut(h)]}
       ELSE IF h.inTurn
            THEN {[h EXCEPT !.queue = left] : left \in PiCut(h)}
            ELSE {h}

\* backend.stop
Stopped(h) ==
  IF h.stopped \/ h.exited THEN h
  ELSE IF h.backend = "mock"
       THEN [h EXCEPT !.stopped = TRUE, !.inTurn = FALSE, !.queue = <<"exit">>]
       ELSE [h EXCEPT !.stopped = TRUE]

-----------------------------------------------------------------------------
(* The host and the pane.                                                  *)

\* _fold on the status line and the streaming preview.
Fold(c, e) ==
  CASE e = "turn-start"        -> [c EXCEPT !.status = "thinking", !.stream = FALSE]
    [] e = "assistant-delta"   -> [c EXCEPT !.stream = TRUE]
    [] e = "assistant-message" -> [c EXCEPT !.stream = FALSE]
    [] e = "tool-call"         -> [c EXCEPT !.status = "tool"]
    [] e = "tool-result"       -> [c EXCEPT !.status = "thinking"]
    [] e \in {"thinking", "retrying", "idle"} -> [c EXCEPT !.status = e]
    [] e = "turn-end"          -> [c EXCEPT !.stream = FALSE]
    [] e = "settled"           -> [c EXCEPT !.status = "idle", !.stream = FALSE]
    [] e = "exit"              -> [c EXCEPT !.status = "exited", !.stream = FALSE]
    [] e = "error"             -> c

\* In order; a record of pi stands for two events at most.
FoldAll(c, events) ==
  CASE events = <<>>    -> c
    [] Len(events) = 1  -> Fold(c, events[1])
    [] Len(events) = 2  -> Fold(Fold(c, events[1]), events[2])

Heard_ById(s, events) == IF chat.open THEN FoldAll(chat, events) ELSE chat

\* _deliver: the events of the session the pane has now are folded, in order.
Heard(s, events) == IF s = sess /\ chat.open THEN FoldAll(chat, events) ELSE chat

\* _deliver: the exit of that session ends it and closes its job.
Delivered(s, h, events) ==
  LET last == "exit" \in Range(events)
  IN  [h EXCEPT !.exited = @ \/ last,
                !.job = IF last /\ s = sess /\ @ = "running" THEN "exited" ELSE @]

Opened(b) ==
  [backend |-> b, queue |-> IF b = "mock" THEN <<"settled">> ELSE <<>>,
   inTurn |-> FALSE, stopped |-> FALSE, exited |-> FALSE,
   os |-> IF b = "pi" THEN "spawning" ELSE "none", job |-> "running"]

\* start: a live session is kept, one that ended is replaced.
Ensured ==
  IF Live(sess) THEN {<<handles, sess>>}
  ELSE {<<Append(handles, Opened(b)), Len(handles) + 1>> :
          b \in IF Len(handles) < MaxSessions THEN {"mock", "pi"} ELSE {}}

\* Enter on the pane (agent_activate).
FocusActivate ==
  /\ ~quit /\ chat.open /\ ~agentMode
  /\ \E e \in Ensured : handles' = e[1] /\ sess' = e[2]
  /\ agentMode' = TRUE
  /\ UNCHANGED <<chat, sends, quit>>

\* Enter in agent mode, with a text: the session is started again if it ended.
SendText ==
  /\ ~quit /\ chat.open /\ agentMode /\ sends < MaxSends
  /\ \E e \in Ensured : handles' = [e[1] EXCEPT ![e[2]] = Sent(@)] /\ sess' = e[2]
  /\ sends' = sends + 1
  /\ UNCHANGED <<chat, agentMode, quit>>

\* Escape in agent mode: interrupt the turn the pane shows, or leave the mode;
\* without an agent pane below, the flag is dropped.
Escape ==
  /\ ~quit /\ agentMode
  /\ IF chat.open /\ chat.status \in Busy
     THEN /\ IF Live(sess)
             THEN \E h \in Interrupted(handles[sess]) : handles' = [handles EXCEPT ![sess] = h]
             ELSE UNCHANGED handles
          /\ UNCHANGED agentMode
     ELSE agentMode' = FALSE /\ UNCHANGED handles
  /\ UNCHANGED <<sess, chat, sends, quit>>


\* destroy: forget the session first, close its job, stop the backend.
Forgotten(h) == [Stopped(h) EXCEPT !.job = IF @ = "running" THEN "killed" ELSE @]

\* The pane leaves the layout, and the orphan scan disposes of its instance.
ClosePane ==
  /\ ~quit /\ chat.open
  /\ chat' = Closed /\ sess' = 0
  /\ handles' = [s \in DOMAIN handles |-> IF s = sess THEN Forgotten(handles[s]) ELSE handles[s]]
  /\ UNCHANGED <<agentMode, sends, quit>>

\* A pane of the same id comes back with a fresh slice.
OpenPane ==
  /\ ~quit /\ ~chat.open
  /\ chat' = Fresh
  /\ UNCHANGED <<handles, sess, agentMode, sends, quit>>

\* cleanup: stopAll.
QuitAgents ==
  /\ ~quit /\ quit' = TRUE
  /\ handles' = [s \in DOMAIN handles |-> IF s = sess THEN Stopped(handles[s]) ELSE handles[s]]
  /\ UNCHANGED <<sess, chat, agentMode, sends>>

-----------------------------------------------------------------------------
(* What the backends do by themselves.                                     *)

Emit(s, h, events) ==
  /\ handles' = [handles EXCEPT ![s] = Delivered(s, h, events)]
  /\ chat' = Heard(s, events)
  /\ UNCHANGED <<sess, agentMode, sends, quit>>

\* The mock's pump: one event per tick.
MockEmits(s) ==
  LET h == handles[s] IN
  /\ h.backend = "mock" /\ h.queue # <<>>
  /\ Emit(s, [h EXCEPT !.queue = Tail(@), !.inTurn = InTurnAfter(h, Head(h.queue))],
          <<Head(h.queue)>>)

\* pi's stdout, and at its end the close event.
PiReads(s) ==
  LET h == handles[s] IN
  /\ h.backend = "pi" /\ h.os # "spawning" /\ h.queue # <<>>
  /\ \E events \in PiEmits(h, Head(h.queue)) :
       Emit(s, [h EXCEPT !.queue = Tail(@), !.inTurn = InTurnAfter(h, Head(h.queue))], events)

PiSpawns(s) ==
  LET h == handles[s] IN
  /\ h.os = "spawning"
  /\ \E up \in BOOLEAN :
       \E events \in PiEmits(h, IF up THEN "spawn" ELSE "spawn_error") :
         Emit(s, IF up THEN [h EXCEPT !.os = "up"]
                 ELSE [h EXCEPT !.os = "gone", !.queue = <<>>], events)

\* The process ends, by itself or by the signal, having written some of its turn.
PiDies(s) ==
  LET h == handles[s] IN
  /\ h.os = "up"
  /\ \E n \in 0..Len(h.queue) :
       handles' = [handles EXCEPT ![s].os = "gone",
                                  ![s].queue = Append(SubSeq(h.queue, 1, n), "close")]
  /\ UNCHANGED <<sess, chat, agentMode, sends, quit>>

AgentNext ==
  \/ FocusActivate \/ SendText \/ Escape \/ ClosePane \/ OpenPane \/ QuitAgents
  \/ \E s \in DOMAIN handles : MockEmits(s) \/ PiReads(s) \/ PiSpawns(s) \/ PiDies(s)

\* Node runs the ticks and delivers the events there are; a process that was
\* told to stop ends.
AgentEvents(s) ==
  /\ s \in DOMAIN handles
  /\ MockEmits(s) \/ PiReads(s) \/ PiSpawns(s) \/ (handles[s].stopped /\ PiDies(s))

-----------------------------------------------------------------------------
(* Properties.                                                             *)

\* Once the session of the pane has nothing more to say, the pane shows what
\* the session is: ended, or ready with no half-written preview.  A pane that
\* never started one shows so (io/agent.js:88, agent.js _fold).
PaneMatchesSession ==
  /\ ~chat.open => sess = 0
  /\ chat.open /\ sess = 0 => chat = Fresh
  /\ (~quit /\ chat.open /\ sess # 0 /\ handles[sess].queue = <<>> /\ handles[sess].os # "spawning") =>
       chat = Shows(IF handles[sess].exited THEN "exited" ELSE "idle")

\* A job runs exactly while the session it stands for is the pane's and alive;
\* every other backend, and after cleanup every one, has been told to stop.
NoStrayAgent ==
  \A s \in DOMAIN handles :
    LET h == handles[s] IN
    /\ h.job = "running" <=> s = sess /\ ~h.exited
    /\ ~h.exited /\ (s # sess \/ quit) => h.stopped

\* The pane, the job and the process of a session never disagree.
SessionAndPaneAgree == PaneMatchesSession /\ NoStrayAgent

\* A pane that shows a turn in flight becomes ready again, or ends, or closes:
\* no order of turns, interrupts and crashes leaves it busy for ever.
BusyEnds == chat.status \in Busy ~> chat.status \notin Busy
=============================================================================
