--------------------------- MODULE Subscriptions ----------------------------
(***************************************************************************)
(* The sources that run beside the program because the model says so       *)
(* (js/app/state.js): which are wanted is a function of the layout and the *)
(* modes; after a dispatch the finalizer compares what that function read  *)
(* with what it read last time, and starts, stops or restarts the sources. *)
(*                                                                         *)
(* Modelled are the sources that come and go: the repaint of a terminal on *)
(* the screen, the clock, the docker poll, the docker events process and   *)
(* the mirror of a metrics topic, with the hub (js/leaves/infra/hub.js)    *)
(* that retains the samples of that topic.                                 *)
(*                                                                         *)
(* A definition named X_Suffix is a faulty variant of X; see Streams.      *)
(***************************************************************************)
EXTENDS Naturals, Sequences, FiniteSets, FiniteSetsExt, SequencesExt

CONSTANTS Window,     \* the samples a monitor pane of the topic wants, by pane
          Refreshes,  \* poll intervals of the docker pane
          Overlays,   \* of {"jobs", "diag"}: the overlays that show an age
          MaxStreams, \* bound on the streams that have not ended yet
          MaxSamples  \* bound on the samples ever published

Monitors == DOMAIN Window
Panes == Monitors \cup {"docker", "terminal", "groups"}

ASSUME SubsAssumption ==
  /\ Monitors \cap {"docker", "terminal", "groups"} = {} /\ IsFiniteSet(Monitors)
  /\ \A p \in Monitors : Window[p] \in Nat \ {0}
  /\ Refreshes \subseteq Nat /\ Refreshes # {} /\ Overlays \subseteq {"jobs", "diag"}
  /\ MaxStreams \in Nat /\ MaxSamples \in Nat

\* The panes that are focused and put into a half view: but for a terminal it
\* does not matter which.
CanFocus == {"groups", "terminal"}

VARIABLES
  screen,   \* what the wanted sources depend on: see Screen
  seen,     \* _lastSubGate: screen as the last reconcile saw it, <<>> for never
  live,     \* _liveSubs: keys of the live sources
  mirrors,  \* the tokens of the metrics-mirror that are not stopped
  streams,  \* the tokens of the docker-events stream that have something left to do
  topic,    \* the hub's side: see Topic
  quit      \* the subscriptions were torn down

subsVars == <<screen, seen, live, mirrors, streams, topic, quit>>

\* placed stands for the arrange; slot is the half view's override.
Screen == [placed : SUBSET Panes, view : {"normal", "half", "full"}, focus : CanFocus,
           slot : CanFocus \cup {"none"}, overlay : {"none"} \cup Overlays,
           streaming : BOOLEAN, refresh : Refreshes]

\* A mirror: the window it subscribed with, its sample scheduled or not, and the
\* number of samples published before it started.
Mirror == [window : Nat, timer : BOOLEAN, since : Nat]
Stream == [proc : {"none", "up", "killed"}, timer : BOOLEAN, stopped : BOOLEAN]

\* published counts the samples of the topic; retained and window are its ring
\* and its windowCache; mirrored is the number of the one model.metrics ends in.
Topic == [published : Nat, retained : Nat, window : Nat, mirrored : Nat]

Keys == {<<"overlay-repaint">>, <<"clock">>, <<"docker-events">>, <<"mirror">>} \cup ({"docker-poll"} \X Refreshes)

SubsTypeOK ==
  /\ screen \in Screen /\ screen.focus \in screen.placed
  /\ seen \in {<<>>} \cup Screen /\ live \subseteq Keys
  /\ \A i \in DOMAIN mirrors : mirrors[i] \in Mirror
  /\ \A i \in DOMAIN streams : streams[i] \in Stream
  /\ topic \in Topic /\ quit \in BOOLEAN

-----------------------------------------------------------------------------
(* What is wanted.                                                         *)

\* visibleTerminalSurfaces: full view shows the focused pane, half view the
\* override, or the focused pane without one.
TerminalOnScreen(s) ==
  /\ "terminal" \in s.placed
  /\ CASE s.view = "normal" -> TRUE
       [] s.view = "half"   -> "terminal" = (IF s.slot \in s.placed THEN s.slot ELSE s.focus)
       [] s.view = "full"   -> s.focus = "terminal"

\* merge: the panes of a topic share one mirror of the widest window.
Wanted(s) == Max({Window[p] : p \in Monitors \cap s.placed} \cup {0})

DesiredSubs(s) ==
  (IF TerminalOnScreen(s) THEN {<<"overlay-repaint">>} ELSE {})
    \cup (IF s.overlay # "none" \/ s.streaming THEN {<<"clock">>} ELSE {})
    \cup (IF "docker" \in s.placed THEN {<<"docker-events">>, <<"docker-poll", s.refresh>>} ELSE {})
    \cup (IF Wanted(s) > 0 THEN {<<"mirror">>} ELSE {})

-----------------------------------------------------------------------------
(* The hub.  A subscriber sets the window of its topic, and leaving trims  *)
(* the ring to what the others want.                                       *)

RecomputeWindow(t, ms) == [t EXCEPT !.window = Max({m.window : m \in Range(ms)} \cup {0})]
Trimmed(t) == [t EXCEPT !.retained = Min({t.retained, t.window})]

StartMirror(st) ==
  LET ms == Append(st.mirrors, [window |-> Wanted(st.screen), timer |-> FALSE,
                                since |-> st.topic.published])
  IN  [st EXCEPT !.mirrors = ms, !.topic = RecomputeWindow(st.topic, ms)]

\* The oldest one: its scheduled sample is dropped with it.
StopMirror(st) ==
  LET ms == Tail(st.mirrors)
  IN  [st EXCEPT !.mirrors = ms, !.topic = Trimmed(RecomputeWindow(st.topic, ms))]

\* A mirror whose window changed: the new one subscribes before the old leaves.
Restarted(st) == StopMirror(StartMirror(st))

-----------------------------------------------------------------------------
(* The process stream.                                                     *)

\* spawn throws, or gives a process that may still turn out not to exist.
Launched(tok, throws) == IF throws THEN [tok EXCEPT !.timer = TRUE] ELSE [tok EXCEPT !.proc = "up"]
NoStream == [proc |-> "none", timer |-> FALSE, stopped |-> FALSE]

StopStream(tok) ==
  [tok EXCEPT !.stopped = TRUE, !.timer = FALSE, !.proc = IF @ = "up" THEN "killed" ELSE @]

\* A stopped stream without timer and process does nothing any more.
Swept(toks, i) ==
  IF toks[i].stopped /\ ~toks[i].timer /\ toks[i].proc = "none" THEN RemoveAt(toks, i) ELSE toks
StopLast(toks) == Swept([toks EXCEPT ![Len(toks)] = StopStream(@)], Len(toks))

-----------------------------------------------------------------------------
(* reconcileSubscriptions, on a state [screen, seen, live, mirrors,        *)
(* streams, topic].                                                        *)

\* The inputs the gate compares.  A jobs overlay and a diagnostics overlay are
\* told apart, though the clock does not.
Gate_NoSlot(s) == [s EXCEPT !.slot = "none"]
Gate(s) == s

Unchanged(st) == st.seen # <<>> /\ Gate(st.seen) = Gate(st.screen)

StopUndesired(st) ==
  LET gone == st.live \ DesiredSubs(st.screen)
      unhooked == IF <<"mirror">> \in gone THEN StopMirror(st) ELSE st
  IN  [unhooked EXCEPT !.live = @ \ gone,
                       !.streams = IF <<"docker-events">> \in gone THEN StopLast(@) ELSE @]

StartDesired(st, throws) ==
  LET new == DesiredSubs(st.screen) \ st.live
      hooked == IF <<"mirror">> \in new THEN StartMirror(st)
                ELSE IF <<"mirror">> \in st.live /\ Last(st.mirrors).window # Wanted(st.screen)
                     THEN Restarted(st) ELSE st
  IN  [hooked EXCEPT !.live = @ \cup new,
                     !.streams = IF <<"docker-events">> \in new
                                 THEN Append(@, Launched(NoStream, throws)) ELSE @]

Reconcile(st, throws) ==
  IF Unchanged(st) THEN st
  ELSE StartDesired(StopUndesired([st EXCEPT !.seen = st.screen]), throws)

Now(s) == [screen |-> s, seen |-> seen, live |-> live, mirrors |-> mirrors, streams |-> streams,
           topic |-> topic]

Becomes(st) ==
  /\ Len(st.streams) <= MaxStreams
  /\ screen' = st.screen /\ seen' = st.seen /\ live' = st.live /\ mirrors' = st.mirrors
  /\ streams' = st.streams /\ topic' = st.topic
  /\ UNCHANGED quit

\* dispatchMsg, the key lane: every outermost dispatch is finalized.
Dispatched(s) == \E throws \in BOOLEAN : Becomes(Reconcile(Now(s), throws))

\* applyMsg: only when the arrange, the jobs or the overlay clock changed.
FinalizesRoot(s) ==
  \/ s.placed # screen.placed \/ s.streaming # screen.streaming
  \/ (s.overlay = "none") # (screen.overlay = "none")

Applied(s) == IF FinalizesRoot(s) THEN Dispatched(s) ELSE Becomes(Now(s))

SubsInit ==
  /\ screen \in {[placed |-> {"groups"} \cup ps, view |-> "normal", focus |-> "groups",
                  slot |-> "none", overlay |-> "none", streaming |-> FALSE,
                  refresh |-> Min(Refreshes)] : ps \in {{}, {"terminal"}}}
  /\ seen = <<>> /\ live = {} /\ mirrors = <<>> /\ streams = <<>> /\ quit = FALSE
  /\ topic = [published |-> 0, retained |-> 0, window |-> 0, mirrored |-> 0]

-----------------------------------------------------------------------------
(* Gestures and results.                                                   *)

ShowPane ==
  /\ ~quit
  /\ \E p \in Panes \ screen.placed : Dispatched([screen EXCEPT !.placed = @ \cup {p}])

HidePane ==
  /\ ~quit
  /\ \E p \in screen.placed \ {"groups"} :
       Dispatched([screen EXCEPT !.placed = @ \ {p},
                                 !.focus = IF @ = p THEN "groups" ELSE @])

SetFocus == ~quit /\ \E p \in CanFocus \cap screen.placed : Dispatched([screen EXCEPT !.focus = p])
SetView == ~quit /\ \E v \in {"normal", "half", "full"} : Dispatched([screen EXCEPT !.view = v])

\* view_place_pane, from the pane menu in half view.
ViewPlacePane ==
  /\ ~quit /\ screen.view = "half"
  /\ \E p \in CanFocus \cap screen.placed : Dispatched([screen EXCEPT !.slot = p, !.focus = p])

\* :<title> on the command line runs inside the root dispatch of the Enter.
FocusCommand ==
  ~quit /\ \E p \in CanFocus \cap screen.placed : Applied([screen EXCEPT !.focus = p])

\* The jobs and the diagnostics overlays; each replaces the other.
ToggleOverlay ==
  ~quit /\ \E o \in {"none"} \cup Overlays : Applied([screen EXCEPT !.overlay = o])

\* jobs_synced when the first stream job starts, or the last one ends.
JobsSynced == ~quit /\ Applied([screen EXCEPT !.streaming = ~@])

\* set_refresh_ms, from the border of the docker pane.
StepRefresh ==
  /\ ~quit /\ "docker" \in screen.placed
  /\ \E r \in Refreshes : Dispatched([screen EXCEPT !.refresh = r])

\* teardownSubscriptions, on exit.
Teardown ==
  /\ ~quit /\ quit' = TRUE
  /\ LET st == IF <<"mirror">> \in live THEN StopMirror(Now(screen)) ELSE Now(screen)
     IN  mirrors' = st.mirrors /\ topic' = st.topic
  /\ streams' = IF <<"docker-events">> \in live
                THEN StopLast(streams) ELSE streams
  /\ live' = {} /\ seen' = <<>>
  /\ UNCHANGED screen

-----------------------------------------------------------------------------
(* Events.                                                                 *)

Scheduled_Leading(m, t) == IF t.published = m.since THEN [m EXCEPT !.timer = TRUE] ELSE m

\* onUpdate of a mirror: a burst of samples is mirrored once, ms after the first.
Scheduled(m, t) == [m EXCEPT !.timer = TRUE]

\* A producer publishes: without a subscriber the sample is dropped.
Publish ==
  /\ ~quit /\ topic.published < MaxSamples /\ topic.window > 0
  /\ topic' = [topic EXCEPT !.published = topic.published + 1,
                            !.retained = Min({topic.retained + 1, topic.window})]
  /\ mirrors' = [i \in DOMAIN mirrors |-> Scheduled(mirrors[i], topic)]
  /\ UNCHANGED <<screen, seen, live, streams, quit>>

\* The trailing sample: metrics_synced, with what the ring holds.
Sample(i) ==
  /\ mirrors[i].timer
  /\ mirrors' = [mirrors EXCEPT ![i] = [mirrors[i] EXCEPT !.timer = FALSE]]
  /\ topic' = [topic EXCEPT !.mirrored = topic.published]
  /\ UNCHANGED <<screen, seen, live, streams, quit>>

\* The backoff timer; a stopped stream launches nothing.
Relaunch(i) ==
  LET tok == [streams[i] EXCEPT !.timer = FALSE] IN
  /\ streams[i].timer
  /\ \E throws \in BOOLEAN :
       streams' = Swept([streams EXCEPT ![i] = IF tok.stopped THEN tok ELSE Launched(tok, throws)], i)
  /\ UNCHANGED <<screen, seen, live, mirrors, topic, quit>>

PipeClosed_OnExit(tok, spawned) ==
  IF spawned /\ tok.proc = "up" /\ ~tok.stopped
  THEN [tok EXCEPT !.proc = "none", !.timer = TRUE] ELSE [tok EXCEPT !.proc = "none"]

\* close comes of a process that ended and of one that was never spawned.
PipeClosed(tok, spawned) ==
  IF tok.proc = "up" /\ ~tok.stopped
  THEN [tok EXCEPT !.proc = "none", !.timer = TRUE] ELSE [tok EXCEPT !.proc = "none"]

CloseStream(i) ==
  /\ streams[i].proc # "none"
  /\ \E spawned \in BOOLEAN : streams' = Swept([streams EXCEPT ![i] = PipeClosed(@, spawned)], i)
  /\ UNCHANGED <<screen, seen, live, mirrors, topic, quit>>

SubsNext ==
  \/ ShowPane \/ HidePane \/ SetFocus \/ SetView \/ ViewPlacePane \/ FocusCommand
  \/ ToggleOverlay \/ JobsSynced \/ StepRefresh \/ Teardown \/ Publish
  \/ \E i \in DOMAIN mirrors : Sample(i)
  \/ \E i \in DOMAIN streams : Relaunch(i) \/ CloseStream(i)

-----------------------------------------------------------------------------
(* Properties.                                                             *)

\* After every dispatch the live sources are those the model wants, though the
\* reconcile runs in some of them only, and compares only what it was told of
\* (state.js, the gate; loop.js, applyMsg).  The exception is the repaint of a
\* terminal that a command on the command line brought into a full view: the
\* focus it left is not reconciled before the next dispatch.
LiveIsDesired ==
  seen # <<>> => live = DesiredSubs([screen EXCEPT !.focus = seen.focus])

\* At most one docker events process runs that nobody told to stop, and only
\* while it is wanted; wanted, it runs or is about to be started again,
\* whichever way the last one ended (state.js:156).
StreamOnce ==
  /\ \A i \in DOMAIN streams :
       streams[i].proc = "up" \/ streams[i].timer =>
         i = Len(streams) /\ <<"docker-events">> \in live /\ ~(streams[i].proc = "up" /\ streams[i].timer)
  /\ <<"docker-events">> \in live =>
       streams # <<>> /\ (Last(streams).proc = "up" \/ Last(streams).timer)

\* The hub retains what the widest monitor pane wants, and what was published
\* since the mirror started is in the model or about to be.
MonitorsServed ==
  /\ seen # <<>> => topic.window = Wanted(screen)
  /\ <<"mirror">> \in live =>
       LET m == Last(mirrors)
       IN  topic.published > m.since /\ topic.mirrored < topic.published => m.timer

\* Panes that come and go never cost a sample that a remaining one still wants
\* (state.js, the restart; hub.js:105).
SamplesKept ==
  [][Wanted(screen) > 0 /\ Wanted(screen') > 0 /\ ~quit' =>
       topic'.retained >= Min({topic.retained, Wanted(screen')})]_subsVars
=============================================================================
