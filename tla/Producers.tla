----------------------------- MODULE Producers ------------------------------
(***************************************************************************)
(* The two producers of live data: the docker pane's service, which asks   *)
(* the daemon for the state and the numbers of its containers              *)
(* (js/panel/navigator/docker.js), and the headless poll of a metrics      *)
(* topic (js/app/state.js, metrics-poll).  Both run commands through       *)
(* execAsync (js/io/exec.js), which never fails: a command that is cut     *)
(* short answers with the part of its output that had come.                *)
(*                                                                         *)
(* The series they publish are held by the hub (js/leaves/infra/hub.js)    *)
(* while somebody subscribes.  That sources start and stop with the panes  *)
(* is in Subscriptions; here the docker pane is placed or not.             *)
(*                                                                         *)
(* A definition named X_Suffix is a faulty variant of X; see Streams.      *)
(***************************************************************************)
EXTENDS Naturals, FiniteSets

CONSTANTS Containers,  \* the containers of the configuration
          Processes,   \* the rows a metrics command may print
          MaxChanges   \* bound on the changes of the world outside

ASSUME ProdAssumption == Containers # {} /\ MaxChanges \in Nat

VARIABLES
  world,     \* what the commands would see
  changes,   \* how often it changed
  window,    \* the program's: focused, its docker pane placed, a subscriber, quitting
  fetch,     \* the docker fetch under way, and the debounce timer of the events
  shown,     \* slice.status and slice.stats of the docker service
  poll,      \* the metrics poll
  series     \* the rows the hub holds a series of, by topic

prodVars == <<world, changes, window, fetch, shown, poll, series>>

States == {"none", "running", "exited", "unknown"}
World == [up : SUBSET Containers, rows : SUBSET Processes, answers : BOOLEAN]
Window == [focused : BOOLEAN, placed : BOOLEAN, subscribed : BOOLEAN, quitting : BOOLEAN]

\* inFlight is the slice's latch; at is where the effect is.
Fetch == [inFlight : BOOLEAN, at : {"idle", "queued", "inspect", "stats"},
          found : [Containers -> States], aborted : BOOLEAN, debounce : BOOLEAN]
Poll == [timer : BOOLEAN, inFlight : BOOLEAN, stopped : BOOLEAN, prev : SUBSET Processes]

ProdTypeOK ==
  /\ world \in World /\ window \in Window /\ fetch \in Fetch /\ poll \in Poll
  /\ shown \in [status : [Containers -> States], stats : SUBSET Containers]
  /\ series \in [docker : SUBSET Containers, metrics : SUBSET Processes]
  /\ changes \in 0..MaxChanges

ProdInit ==
  /\ world \in [up : SUBSET Containers, rows : {Processes}, answers : {TRUE}]
  /\ changes = 0
  /\ \E pl \in BOOLEAN :
       window = [focused |-> TRUE, placed |-> pl, subscribed |-> FALSE, quitting |-> FALSE]
  /\ fetch = [inFlight |-> FALSE, at |-> "idle", found |-> [c \in Containers |-> "none"],
              aborted |-> FALSE, debounce |-> FALSE]
  /\ shown = [status |-> [c \in Containers |-> "none"], stats |-> {}]
  /\ poll = [timer |-> TRUE, inFlight |-> FALSE, stopped |-> FALSE, prev |-> {}]
  /\ series = [docker |-> {}, metrics |-> {}]

\* execAsync: all lines the command prints, or those it printed before it died.
Output(lines, dies) == IF dies THEN SUBSET lines ELSE {lines}

-----------------------------------------------------------------------------
(* The docker service.                                                     *)

\* _maybeFetch: nothing while a fetch is under way.
MaybeFetch(f) == IF f.inFlight THEN f ELSE [f EXCEPT !.inFlight = TRUE, !.at = "queued", !.aborted = FALSE]

\* The effect ends, and dispatches a dockerResult: with its maps, or bare.
Settled(f) == [f EXCEPT !.inFlight = FALSE, !.at = "idle"]
BareResult == fetch' = Settled(fetch) /\ UNCHANGED <<shown, series>>

\* The hub drops a sample nobody subscribed to.
Published(rows, more) == IF window.subscribed THEN rows \cup more ELSE rows

FullResult(found, stats) ==
  /\ fetch' = Settled([fetch EXCEPT !.found = found])
  /\ shown' = [status |-> found, stats |-> stats]
  /\ series' = [series EXCEPT !.docker = Published(@, stats) \ (Containers \ stats)]

\* The interval, and the user's refresh.
DockerPoll ==
  /\ window.placed /\ ~window.quitting
  /\ fetch' = MaybeFetch(fetch)
  /\ UNCHANGED <<world, changes, window, shown, poll, series>>

\* The debounced one-shot poll after an event of a tracked container.
Debounced ==
  /\ fetch.debounce
  /\ fetch' = MaybeFetch([fetch EXCEPT !.debounce = FALSE])
  /\ UNCHANGED <<world, changes, window, shown, poll, series>>

SkipUnfocused_Silent == fetch' = [fetch EXCEPT !.at = "idle"] /\ UNCHANGED <<shown, series>>

\* The gate on the focus of the terminal.
SkipUnfocused == BareResult

FetchStarts ==
  /\ fetch.at = "queued"
  /\ IF fetch.aborted THEN BareResult
     ELSE IF ~window.focused THEN SkipUnfocused
     ELSE fetch' = [fetch EXCEPT !.at = "inspect"] /\ UNCHANGED <<shown, series>>
  /\ UNCHANGED <<world, changes, window, poll>>

Running(found) == {c \in Containers : found[c] = "running"}

\* docker inspect: a container it did not name is unknown.
Inspected ==
  /\ fetch.at = "inspect"
  /\ IF fetch.aborted THEN BareResult
     ELSE \E seen \in Output(Containers, ~world.answers) :
            LET found == [c \in Containers |-> IF c \notin seen THEN "unknown"
                                               ELSE IF c \in world.up THEN "running" ELSE "exited"]
            IN IF Running(found) = {} THEN FullResult(found, {})
               ELSE /\ fetch' = [fetch EXCEPT !.at = "stats", !.found = found]
                    /\ UNCHANGED <<shown, series>>
  /\ UNCHANGED <<world, changes, window, poll>>

\* docker stats of the containers that were running.
StatsRead ==
  /\ fetch.at = "stats"
  /\ IF fetch.aborted THEN BareResult
     ELSE \E stats \in Output(Running(fetch.found) \cap world.up, ~world.answers) :
            FullResult(fetch.found, stats)
  /\ UNCHANGED <<world, changes, window, poll>>

-----------------------------------------------------------------------------
(* The metrics poll: its timer is armed again when the poll is over.       *)

\* What a poll leaves when its output has rows.
Collected(rows, p, held) == Published(held, rows) \ (p.prev \ rows)

\* An empty output is not read as a topic without rows.
Parsed(rows, p) == rows # {}

Rearmed(p) == IF p.stopped THEN p ELSE [p EXCEPT !.timer = TRUE]
Skipped_Silent(p) == p
Skipped(p) == Rearmed(p)

PollTimer ==
  LET p == [poll EXCEPT !.timer = FALSE] IN
  /\ poll.timer
  /\ poll' = IF ~window.focused THEN Skipped(p) ELSE [p EXCEPT !.inFlight = TRUE]
  /\ UNCHANGED <<world, changes, window, fetch, shown, series>>

\* The command ends, or dies of its timeout, or is killed by the stop.
PollEnds ==
  /\ poll.inFlight
  /\ \E dies \in BOOLEAN : \E rows \in Output(world.rows, dies) :
       LET p == Rearmed([poll EXCEPT !.inFlight = FALSE])
       IN IF poll.stopped \/ ~Parsed(rows, poll) THEN poll' = p /\ UNCHANGED series
          ELSE /\ poll' = [p EXCEPT !.prev = rows]
               /\ series' = [series EXCEPT !.metrics = Collected(rows, poll, @)]
  /\ UNCHANGED <<world, changes, window, fetch, shown>>

-----------------------------------------------------------------------------
(* The world, the terminal and the user.                                   *)

\* A container starts or stops: docker events tells, and restarts the debounce.
ContainerChanges ==
  /\ changes < MaxChanges /\ changes' = changes + 1
  /\ \E c \in Containers :
       world' = [world EXCEPT !.up = IF c \in @ THEN @ \ {c} ELSE @ \cup {c}]
  /\ fetch' = [fetch EXCEPT !.debounce = @ \/ (window.placed /\ world.answers)]
  /\ UNCHANGED <<window, shown, poll, series>>

ProcessesChange ==
  /\ changes < MaxChanges /\ changes' = changes + 1
  /\ \E rows \in SUBSET Processes \ {world.rows} : world' = [world EXCEPT !.rows = rows]
  /\ UNCHANGED <<window, fetch, shown, poll, series>>

DaemonChanges ==
  /\ changes < MaxChanges /\ changes' = changes + 1
  /\ world' = [world EXCEPT !.answers = ~@]
  /\ UNCHANGED <<window, fetch, shown, poll, series>>

FocusChanges ==
  /\ changes < MaxChanges /\ changes' = changes + 1
  /\ window' = [window EXCEPT !.focused = ~@]
  /\ UNCHANGED <<world, fetch, shown, poll, series>>

\* The docker pane is placed or removed; its stream is told to stop.
PaneChanges ==
  /\ ~window.quitting
  /\ window' = [window EXCEPT !.placed = ~@]
  /\ fetch' = [fetch EXCEPT !.debounce = @ /\ ~window.placed]
  /\ UNCHANGED <<world, changes, shown, poll, series>>

\* A monitor pane subscribes, or leaves: without one the rings are emptied.
SubscriberChanges ==
  /\ ~window.quitting
  /\ window' = [window EXCEPT !.subscribed = ~@]
  /\ series' = IF window.subscribed THEN [docker |-> {}, metrics |-> {}] ELSE series
  /\ UNCHANGED <<world, changes, fetch, shown, poll>>

\* teardownSubscriptions and _clearInflight.
QuitProducers ==
  /\ ~window.quitting
  /\ window' = [window EXCEPT !.quitting = TRUE, !.placed = FALSE]
  /\ fetch' = [fetch EXCEPT !.aborted = @ \/ fetch.at # "idle", !.debounce = FALSE]
  /\ poll' = [poll EXCEPT !.stopped = TRUE, !.timer = FALSE]
  /\ UNCHANGED <<world, changes, shown, series>>

ProdNext ==
  \/ DockerPoll \/ Debounced \/ FetchStarts \/ Inspected \/ StatsRead \/ PollTimer \/ PollEnds
  \/ ContainerChanges \/ ProcessesChange \/ DaemonChanges \/ FocusChanges
  \/ PaneChanges \/ SubscriberChanges \/ QuitProducers

ProdFairness ==
  /\ WF_prodVars(DockerPoll) /\ WF_prodVars(FetchStarts \/ Inspected \/ StatsRead)

-----------------------------------------------------------------------------
(* Properties.                                                             *)

\* The docker latch is set exactly while a fetch is under way, so that the next
\* poll is never refused for good (docker.js:258); the metrics poll is armed or
\* under way until it is stopped, and never both (state.js:326).
PollsGoOn ==
  /\ fetch.inFlight <=> fetch.at # "idle"
  /\ ~poll.stopped => (poll.timer # poll.inFlight)
  /\ poll.stopped => ~poll.timer

\* But for the subscribers, only a poll that printed rows changes the series: an
\* empty output is a blip, and costs none (state.js:346).
EmptyPollKeeps ==
  [][window' = window /\ series'.metrics # series.metrics => poll'.prev # {}]_prodVars

\* While the program is focused, its docker pane placed and the daemon answers,
\* the pane comes to show what the containers are, whatever events were missed
\* and polls refused (docker.js:152).
StatusCatchesUp ==
  <>[](window.focused /\ window.placed /\ world.answers)
    => <>[](\A c \in Containers : shown.status[c] = IF c \in world.up THEN "running" ELSE "exited")

\* A poll that dies early never costs the series of a process that lives.  It
\* does not hold (README, section 5).
DropsOnlyGone ==
  [][poll.inFlight => \A r \in series.metrics \ series'.metrics : r \notin world.rows]_prodVars
=============================================================================
