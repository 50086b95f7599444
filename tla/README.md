# Formal models of lazytui

lazytui is a terminal UI for running a project's commands, containers, files
and agents. It is built the Elm way: one model, pure reducers, effects as data
run by a small runtime, and one single-threaded Node.js event loop below it.
There are no threads, and yet almost everything that is hard about it is
ordering: keys, deferred effects, child-process events, timers and socket
events interleave, and each finds a model that may have moved on since it was
asked for.

This directory holds TLA+ models of the parts whose correctness depends on that
order, TLC configurations that check them on small instances, and TLAPS proofs
of properties that matter most. `PROJECT.json` ties every definition to the
lines of the source it models, every property to a mutation of the model that
breaks it, and every hazard of the code to the properties that watch it.

Contents

1. The system: parts, state, interactions
2. What is hard, and what makes each part correct
3. The modules
4. The runs: questions, bounds, fairness
5. Where the code and its documents disagree
6. Proofs
7. Not modelled, and why
8. Plan

## 1. The system

Paths are below `src/`.

### One loop, two lanes

Everything runs in one event loop. An input is a chunk of stdin bytes, an event
of a child process or a socket, a timer, or a deferred task.

- `js/dispatch/control/input.js` cuts a chunk into tokens; one chunk may carry
  several keys, which are handled *in the same turn*, before any deferred task.
- The **root lane** (`applyMsg`, `js/dispatch/update/reducer.js`) changes the
  root model: group, modes, modal, jobs, jumplist. The **component lane**
  (`dispatchMsg`) changes the slice of one pane instance. A reducer returns
  effects; `js/dispatch/runtime/effects.js` runs them, and they may dispatch
  again. Both lanes share a depth counter (`js/dispatch/runtime/loop.js`).
- When the counter is back at 0 the loop *finalizes*: it records the place the
  user is at (jumplist capture), drops the instances of panes that left the
  layout, starts and stops subscriptions, starts the PTY of a visible terminal,
  and schedules a paint (`js/dispatch/runtime/finalize.js`).
- A few effects do not run in the turn that asked for them. `run_action` is
  deferred with `setImmediate`; keyed effects run asynchronously and are
  aborted when another of the same key starts.

An input with everything it cascades into is therefore atomic, and that is the
grain of the models' actions. Where the code leaves the turn (a deferred run, a
child's event, an agent's reply) there is an action of its own.

### Components

| Component | State | Operations | Talks to |
|---|---|---|---|
| Streams, job registry, run history (`js/dispatch/runtime/{stream,cleanup}.js`, `js/leaves/infra`) | process table, slot index, jobs, run records, the text each view shows, published outputs | run, preempt, cancel, child data / exit / close / error, clear completed, quit | started by the action runner; writes viewers; publishes ports of the fabric |
| Action runner, confirm gate, fabric prompts (`js/dispatch/runtime/action-runner.js`, `js/dispatch/update/modal/*`, `js/feature/fabric*`) | modal, continuation of the preempt question, one-shot port values, roll-back stamp | run, confirm / reject, ask for a missing port, edit the args, submit | defers runs; calls streams; reads ports |
| Group navigator and jumplist (`js/panel/navigator/*`, `js/leaves/wm/nav-history.js`) | current group, tree rows and cursor, tab, per-group panes with cursor, filter and selection, ring of places | move, fold, change tab, focus, back, forward | root lane for the group, component lane for rows, finalizer for captures |
| Window manager (`js/panel/layout.js`, `js/leaves/wm`, `js/leaves/free-config`) | grid of columns and panes, pool, focus, view, undo and redo, drag | focus, show, hide, swap, mint and remove a tab, restore, edit gestures | instances, terminals, save |
| Terminals (`js/panel/content`, `js/io/terminal.js`) | sessions by tab id, jobs, terminal mode | open, reveal, type, exit | layout (tab of the session), finalizer (ensure and orphan scan) |
| Dispatch loop and finalizer | depth, freeze gate, last seen references | dispatch, finalize | everything |
| Effect runtime | deferred queue, keyed effects in flight | run, abort, release | everything |
| Root model and reducers | root model | its arms | both lanes |
| Input pipeline, keymap, command line | mode, carry of a cut escape sequence | tokens to Msgs | root lane |
| Subscriptions and instance reconciler (`js/app/state.js`) | live sources, mirrors, process streams | start, stop, reconnect | hub, panes |
| Instance routing (`js/panel/route.js`) | – | which instance a Msg reaches | all panes |
| Docker pane | rows, in-flight latch, debounce timer | refresh, container actions | streams, subscriptions |
| Files and config-status panes | listing with a sequence number, latch | list, copy, branch | shell scripts |
| Metrics hub and stats | topics, subscriptions, window cache | publish, subscribe, delete a row | subscriptions |
| Live agent sessions (`js/io/agent.js`, `js/agent`) | session map, transcript | start, prompt, answer, cancel, stop | agent pane |
| Computed choices of the fabric form (`js/feature/choices-cmd-runtime.js`) | one fetch per key | fetch, abort, time out | fabric form |
| Paint and render queue | pending paint, batches | schedule, flush | terminal |
| Session log and replay | log, checkpoints | append, replay | both lanes |
| Viewer and text panes | buffers, scroll | append, scroll | streams |
| Ports, wires, command building | – | resolve, quote | action runner |
| Configuration parser, geometry, overlays, boot and packaging | – | pure, or run once | – |

## 2. What is hard, and what makes each part correct

`PROJECT.json` lists the hazards, each at its line. In short:

- **Late events.** A killed process goes on emitting: bytes in its pipe, `exit`,
  `close`, `error`. Each must find out whether it is still the one that matters
  (`stream.js` compares the process, `io/agent.js` the session, the choices
  runtime the action of the form; `pty-lifecycle.js` compares only the id).
- **Questions answered later.** A confirm, a preempt question or a form is
  about what was true when it was asked.
- **Deferral.** `run_action` reads the model one tick after the key; a chunk
  may hold a second key, and a dialog may be open by then.
- **Latches.** A pane that set "in flight" waits for a result that a gate, an
  abort, a removed pane or a dead process may swallow.
- **Two pieces of state for one fact.** Process table, registry and history;
  pool and columns; layout and sessions; group and tree cursor; ring and place;
  the frame cache and the row cache of a terminal; desired and live sources.
- **Undo over half of the state.** Undo restores columns, not the pool, and the
  stack outlives what it mentions. Replay restores models and screens, into the
  very stores the live program uses.
- **Addresses that depend on each other.** Going back restores group, focus,
  tab and row, each of which is looked up through the ones before.
- **Instances.** A component name is not an instance: several panes, and the
  service, share it; and the name of a pane is also the id of one of its tabs.
- **Indices into what moves.** A selection is indices into a ring of lines that
  drops lines; the mouse aims at what was painted last.
- **Flags.** Every dialog is a flag of its own; which one gets the key is the
  order of a chain, and nothing but discipline keeps two from being set.

Correct means, per modelled part:

| Part | Properties |
|---|---|
| Streams | a slot belongs to one running job (`SlotOwnership`); table, registry and history agree (`StoresAgree`); nothing unsignalled outlives its job or the program (`NoStrayProcess`); a view and a port never show an older run (`ViewBelongsToRun`, `OutputFresh`); an outcome is final (`OutcomeFinal`); a job whose process and pipes ended is closed (`EndedJobCloses`) |
| Runs | a job is preempted only by a run the user let preempt it (`PreemptionApproved`); nothing that asks runs unasked (`ConfirmGatesRun`, which fails: section 5) |
| Choices | what the form and the cache offer was listed for that action and that text (`ListsBelong`); a list being fetched comes, fails or is asked for anew (`PendingEnds`) |
| Agents | a pane and the session of its name agree (`SessionAndPaneAgree`): once a session has nothing more to say the pane shows what it is (`PaneMatchesSession`), and no backend runs unsignalled without its pane (`NoStrayAgent`); a busy pane gets ready again (`BusyEnds`) |
| Terminals | a session has a tab (`SessionsPlaced`); jobs agree with processes (`JobsAgree`); a visible terminal has a process (`VisibleHasSession`) |
| Instances | a listing is that of the directory the pane is in (`ListingBelongs`); a latch is set exactly while its work is under way (`LatchHasWork`); loading ends, also while the layout is edited (`LoadsEnd`) |
| Producers | polls are never latched out for good nor doubled (`PollsGoOn`); the docker pane comes to show what the containers are, whatever was missed (`StatusCatchesUp`) |
| Subscriptions, hub | the live sources are those the model wants (`LiveIsDesired`); one events process, reconnected however it ended (`StreamOnce`); a monitor gets the window it asked for and every sample (`MonitorsServed`) |
| Process table | a signal goes to the process that was chosen, however the rows moved since (`SignalIsAimed`); the tree of any table has every row once, below its parent (`TreeIsWhole`) |
| Jumplist | the ring is a browser history (`IsBrowser`) |
| Groups | the ring's cursor is where the user is (`RingTracksHere`); going back lands on what was recorded (`TravelLands`); tree and group agree (`TreeShowsGroup`) |
| Window manager | a viewer remains (`ViewerRemains`); focus is on a placed pane (`FocusPlaced`); a gesture is one undo entry and undo reverts it (`GestureUndoable`) |
| Replay | a seek shows the recorded model, a search never loses the frame, and leaving brings the live model back (`ReplayExact`) |
| Input | however the reads cut the stream, the events are those of the stream (`ChunksDontMatter`); Esc leads out of every mode (`EscLeadsOut`); one dialog at a time, and Enter sends what that dialog staged (`OneModal`) |
| Configuration | what validation accepts is what forms and fabric rely on (`AcceptedIsUsable`); project before user, first declaration before later ones, and no group or mergeable entry lost (`Layered`); a grid that loads is one the window manager can start from, and hotkeys are dealt out without a quarrel (`GridSound`) |
| Paint | when no repaint is on its way the screen is the model (`ScreenIsCurrent`) |
| Text views | a drag or a yank copies the lines the user put its ends on (`PushedIsChosen`) |

## 3. The modules

```
Streams ──< ActionRuns            BrowserHistory
                │                      ▲ implements
           Streams_proofs         NavHistory ──< GroupSwitch
                                       │
Layout ──< Terminals                   └──────< NavHistory_proofs
   │              │
Layout_proofs ──< Terminals_proofs

Instances  Producers  TextViews   Agents  Choices
     └──────< Panes_proofs           └──< Services_proofs

Subscriptions  ProcessTable  (GroupSwitch)
     └──────< Screen_proofs

Config  GridFile  InputChunks  InputModes  Paint  Replay
   └──────< Front_proofs
```

`A ──< B`: B extends A. Definitions keep the names of the code where that reads
well. A definition named `X_Suffix` stands next to `X` and is the same operation
with a plausible programming error; no specification uses it, each shows that
some property notices that error.

`MC*.tla` give the constants of a run their values. Five of them also put
components side by side that share no state: `MCServices` (Agents, Choices,
Terminals), `MCPanes` (Instances, Producers, NavHistory with BrowserHistory),
`MCScreen` (Subscriptions, ProcessTable, GroupSwitch), `MCDesk` (Layout, Replay, InputChunks,
InputModes) and `MCBoot` (Config, GridFile, ActionRuns, Paint, TextViews). There a
variable `part` is chosen in the initial state and the behaviour is one of that
component; the others stay as they are. It is a way to check several questions
in one run, not a composition: the components that do interact are composed by
EXTENDS (`ActionRuns` on `Streams`, `GroupSwitch` on `NavHistory`, `Terminals`
on `Layout`).

### Streams

`stream.js`, `jobs.js`, `history.js`, `cleanup.js` and the kill effects. A
command belongs to a *slot*: an action that declares a tab has its own, all
others share the Transcript's. `procs` and `slotIndex` are the two maps of
`stream.js`; a job record holds the registry's status, the record of the run
history and, beside them, what the operating system knows: whether the process
runs, was signalled, still has listeners, and whether anybody still holds its pipes
(`piped`), be it the child or what the child left behind. `Run` is `streamCommand` whole:
preempting the holder of the slot, seeding the view, spawning, and the failure
of the spawn. `Data`, `Exit`, `CloseEvent`, `ErrorEvent` are the child's
listeners, in every order Node allows; "close" waits for the exit and for
`PipesEnd`, which nothing makes happen. `Cancel` and `PreemptAndRun` are the two
ways of killing, `ClearCompleted` the registry's, `Quit` is `cleanup`. A
text is abstracted to the job that wrote it.

### ActionRuns

Extends Streams with the way from a key to a running command. A key
*defers* a run (`setImmediate`); what a key can reach depends on the mode; one
chunk may hold several keys, so `turn` alternates between input and Node's check
phase, which runs everything deferred so far. `RunDeferred` is `runAction` with
its whole cascade: the gate, the question for a missing port, the preempt
question and the run. The reject stamp (`onReject`), the one-shot values and the
preempt continuation are state, since each outlives the handler that set it.
`asked`, `approved` and `unasked` are history variables: which presses the user
was asked about, agreed to, and which ran without.

### Choices

The fabric form with a port `d` and a port `c` whose values are computed from
the text of `d`. `form` is the record of the open form with the popover and the state of
the computed list, `choices` the cache of lists by action and text (an old list is
shown while the new one is fetched), `fetches` every fetch ever started with what its
process still does, `inflight` the runtime's map from key to the fetch that may
be aborted. A fetch by command settles by whichever of abort, timeout, overflow,
spawn error and close comes first, and a command that ignores SIGTERM is killed
hard; a fetch by function cannot be stopped and answers whenever it likes.

### Agents

One agent pane. `chat` is the slice the events are folded into, `sess` the
entry of the session host's map, `handles` every session ever started, each
with the events its backend has still to emit. The mock backend plays turns from a
timer, the pi backend forwards the lines of a child; both go on emitting after
they were told to stop. An event is heard only by the pane whose session it is
of (`Heard`), the stale guard of the host.

### Instances

`panel/route.js` and the component lane of `loop.js`. `arrange` holds the placed
panes with the tabs each has and the one it shows, `frozen` the free-config gate,
`insts` the slice of every mounted tab; `listings` and `computes` the work that
runs behind: directory listings with the sequence number each was asked with,
and the keyed computes of the git status with their abort. `RunInstance`
is the reducer call with the write-back of its result by *name*, which is where
finding 5 of section 5 is.

### Producers

The docker service: its latch with the debounce timer of the events (`fetch`,
started, inspected, its stats read), what it shows (`shown`) and what the
daemon's containers and the processes really are (`world`); and the metrics
`poll` with the rows the hub holds a `series` of. `execAsync` never fails: a
command cut short answers with what it had printed.

### Subscriptions

`reconcileSubscriptions` of `app/state.js`. `Desired` is the function from the screen
to the sources; the reconcile compares the screen with the one it saw last (`seen`, the
gate), and starts and stops what differs (`live`). Modelled sources: the repaint of a visible terminal,
the clock, the docker poll, the docker events process with its reconnects, and the
mirror of a hub topic. `topic` is the hub: its subscriptions with their windows, the
cached window, and the samples it retains.

### ProcessTable

A `killable` table pane with a `tree:`, whose rows are processes. `procs` is the topic
of the root model that a sync replaces, `table` the slice (mode, folds, cursor,
scroll, filter, sort), `drawn` what the last paint left for the mouse: the rows, the
first of them, the highlighted one and the fold markers. Three ways lead to a
row, and each reads something else: a key the cursor and the rows of the model, a
click the place in the last frame and the rows of the model, a marker the pid it
was drawn for. `menu` is the menu that follows; its pid is fixed when it opens, and
`aim` is the pid that was on the screen there. The forest is that of `tree.js`: parents
that are no rows make roots, cycles are broken in the order of the rows, and the
rows are the depth-first walk without what is below a fold. The recursion over
parents and children is a recursive function to the depth of the table.
`MCScreen` assumes `TreesAreWhole`, which TLC evaluates: every table of three
processes and loads, every parent relation on it with its cycles, every order, every set of folds.

### NavHistory and BrowserHistory

`nav-history.js` keeps a ring of at most `Cap` records and a cursor: `Push`
drops what lies ahead of the cursor and, at the cap, the oldest; `Step` moves;
`Prune` removes the records of a vanished group and moves the cursor along with
what remains. `BrowserHistory` is what a reader expects: a stack behind, a stack
ahead. `IsBrowser` is the refinement.

### GroupSwitch

The groups tree, its branches, tabs and cursor, the panes a group brings along, and
the jumplist recorded at the end of every dispatch. `Here` is the place a record
describes; `Captured` the flush of the finalizer; travelling restores the
coordinates one after the other through the live addresses. The layout is fixed.

### Layout

The slice of `panel/layout.js` is one record `lay`; an arm of its reducer is an
operator from slices to slices, and an action is a gesture with every arm its
effects run. The grid is a sequence of columns of panes, a pane a slot with tabs.
The pool is the set of ids that can be placed. Undo and redo hold snapshots of
columns, as in the code. A drag is held in `drag`; the drop is applied to the
grid there is at release. `Written` is what `yaml-layout.js` would write.

Free-config is a modal: while it is on, the keys and the mouse reach only its own
gestures. What the program does of itself is not held back by it: a deferred run
shows its output (`RunShows`), a process exits (`TabExits`), a terminal is left
(`TerminalExit`), and only `view_expand` and `view_shrink` are refused. A run
deferred before the editor opened can therefore mint a tab in the grid under it, and
a spawn puts the open editor in the full view (section 5).

Abstracted: widths, heights, collapsed marks, hotkeys and titles are one edit
that moves no pane (`Reshape`); the Info and Transcript tabs of a viewer are one
seeded tab; half-view slots and the viewer last used are left out.

### Terminals

Extends Layout with the sessions of `io/terminal.js` (by tab id), the jobs
they show up as, terminal mode, and the processes that were killed and have not
exited yet (`dying`), whose listeners stay registered. `Dispatch` ends as
`finalizeDispatch` does: the orphan scan disposes of sessions without a tab, and
a visible terminal without a process gets one. `Exit` is the fan-out of an exit as
`handleExit` performs it: looked up by id. A killed process exits with code 0
or not.

Left out: free-config inside this composition (Layout has it), half view and the
screen emulator. `node-pty` is external.

### Replay

A model is the list of the Msgs that changed it, so that "the same model" is
equality. A program records what it dispatches, with a checkpoint every `Cadence`
entries; a log is loaded into the live stores with the live model put aside; keys
seek, step, play forward and in reverse, search for a change and open the diff
panel. Reverse play uses a ladder of at most `ReverseBases` scratch models. While
the scrubber is open a live Msg may still be dispatched (`stray` counts those). One `Fold` is
every fold of the code: over all entries, the Msgs alone, or the terminals alone (`Lanes`).

### InputChunks and InputModes

`InputChunks` is the byte side: a stream of units (keys, control bytes, escape
sequences whole or cut in two: arrows, paste brackets, Shift+PageUp, reports of the
wheel) is read in chunks cut anywhere;
three parsers (terminal mode, paste, keys) hand the rest of a chunk to each
other. The terminal that has the bytes takes the mouse, does not, or is dead
(`session`); the keys' parser and the one of a paste hold a cut sequence back, the one of
terminal mode does not, and a dead terminal drops a whole piece of its chunk (`PieceLen`). A chunk is handled without interruption, in as many steps as it has events: `walk`
says which parser has it and `left` what it has still to take. Its reference (`RefAfter`)
takes the same stream a unit at a time and knows no chunks. `InputModes` is the
other side: the chain of flags that decides who gets a key, every key that sets
or clears one, and the runs that come a tick later and set a mode under whatever
is open by then. `FirstMode` is the mode whose handler has the key.

### Config and GridFile

`Config` takes a family of documents (a project file, a user file, splits) through
validation, parsing, merging and key bindings, stage by stage, as `loadConfig`
does; port declarations are cells of a heap, since a YAML alias makes one serve
several ports and `validateActionPorts` deletes keys in place. The walk over the actions
takes one port per step (`ValidatePort`, then `ValidateAction` for the rest of the action):
no other code runs in between, and what a step leaves in the heap is what the next port that
shares the declaration finds. `GridFile` writes
a `layout:` block cell by cell and loads it: cells, tabs, content slots, the
seeded viewer, the column of the actions, hotkeys. Cells and tabs are told apart by their places
(`Sites`, `TabSites`), and the keys of a column are dealt by counting the cells up to each.
A good grid is what `Layout_proofs` assumes of the grid at boot.

### Paint

A screen of three rows and two columns, painted from two sides: `frame` holds the
markup last composed, `surfaces` the rows last written for each terminal, `pending` the
paint the render queue owes, `glass` what stands there and `shown` what should. Every
way a cell changes hands (a tab shown, a dialog closed, a pane shrunk, a resize,
a SIGCONT, a theme) has the rule of the code that repaints it. `odd` marks the
cases in which the code's rules do not suffice (section 5).

### TextViews

Text tabs that are written to while they are read. `views` is the slice of each tab (ring,
scroll, cursor, selection, search, with the rows dropped so far), `drawn` what
the last paint recorded for the mouse, `armed` and `held` the press and the
button, `register` what was copied. Lines are numbered as
they are made, so that a selection can be compared with the lines the user meant
(`marks`), which no index can tell.

## 4. The runs

Six runs pass, six end in a counterexample (section 5).

| Run | Components | Instance | Shows |
|---|---|---|---|
| `streams` | Streams | an action with a tab and published output, two Transcript labels, three jobs | all seven Streams properties |
| `services` | Terminals | a viewer and files in one column, a stable and a fresh terminal, two processes dying at once | `SessionsPlaced`, `JobsAgree`, `VisibleHasSession` |
| | Agents | two sessions of either backend, two messages | `SessionAndPaneAgree`, `BusyEnds` |
| | Choices | two actions, one by command and one by function, two texts or none, three fetches, one cached list | `ListsBelong`, `PendingEnds` |
| `panes` | Instances | a files, a config-status and a groups pane with a second tab, two loads under way, two mints | `ListingBelongs`, `LatchHasWork`, `LoadsEnd` |
| | Producers | one container, two processes, two changes of the world | `PollsGoOn`, `StatusCatchesUp` |
| | NavHistory | three locations, a ring of four | refinement of BrowserHistory (`IsBrowser`) |
| `screen` | Subscriptions | panes with windows of one and three samples, two refresh rates, two streams, two samples | `LiveIsDesired`, `StreamOnce`, `MonitorsServed` |
| | ProcessTable | three processes, two loads and none, one sync after the first, two rows below the header, three gestures and the answers to their menus | `SignalIsAimed`, and `TreeIsWhole` of every table |
| | GroupSwitch | a group with containers and actions and its child, which is pinned in the quick tab; a ring of two | `RingTracksHere`, `TravelLands`, `TreeShowsGroup` |
| `desk` | Layout | viewer, files and actions in at most two columns, one undo entry: with drags, with a tab that runs mint, and with both on viewer and actions alone | `ViewerRemains`, `FocusPlaced`, `GestureUndoable` |
| | Replay | four log entries, a terminal, a checkpoint every second entry | `ReplayExact` |
| | InputChunks | three events, one change of mode or session by the program | `ChunksDontMatter` |
| | InputModes | three commands, one deferred run | `EscLeadsOut`, `OneModal` |
| `boot` | Config, GridFile | six families of documents; every layout of at most three cells in three columns | `AcceptedIsUsable`, `Layered`, `GridSound` |
| | ActionRuns | a confirm-gated action with two ports and edit-args beside a Transcript command, three jobs | `PreemptionApproved` |
| | Paint | two terminals, two contents, five changes | `ScreenIsCurrent` |
| | TextViews | three tabs in two panes, a ring of three of five lines, heights of one and two rows, four gestures | `PushedIsChosen` |
| `item_keys` | ActionRuns | runs started by item keys | `ConfirmGatesRun` is violated (finding 1) |
| `bulk_operand` | GroupSwitch | as in `screen` | `BulkActsOnSelection` is violated (finding 2) |
| `saved_ids` | Layout | as in `desk` | `SavedIdsDeclared` is violated (finding 3) |
| `stale_exit` | Terminals | as in `services`, one dying process | `StaleExitIgnored` is violated (finding 4) |
| `slices_home` | Instances | as in `panes`, one mint | `SlicesStayHome` is violated (finding 5) |
| `declared` | Config | as in `boot` | `DeclaredCounts` is violated (finding 6) |

`desk` has about 1.8 million states, `boot` 1.0 million, `streams` 0.7 million,
`services` and `screen` a third of one; each takes one to three minutes.

### Bounds, and why they are enough

- `MaxJobs = 3`: a run, the run that preempts it and the run that preempts
  that; a late event of the first can then meet the second or the third, or a
  job of another slot. No handler looks at more than the holder of a slot and
  the process the event belongs to.
- Two ports of an action: the second question is asked by the answer of the
  first; three would repeat it.
- `MaxSessions = 2`, `MaxSends = 2`: the events of a stopped session can meet its
  successor under the same name, and an interrupt can cut either turn.
- `MaxFetches = 3`, `CacheCap = 1`: a fetch superseded by a second, and a third
  for another action or after the form was closed; the second list evicts the
  first. With two texts a list can be right, for the other text, or for none.
  `PickerBound`: the popover opens only while a fetch is left to be started, so that
  it is open over the first two lists and every way they settle.
- `MaxDying = 2`: the killed process of a stable id and of a fresh one, in either
  order of exits. `stale_exit` needs only one.
- `MaxLoads = 2`, `MaxMints = 2`: a listing asked for before and after a pane was
  removed and placed again; every load is for one of two directories.
- `Containers = {c1}`, two processes, `MaxChanges = 2`: one container that comes,
  goes and comes back. The properties speak of one container at a time; two processes
  let a poll be cut between their rows.
- Windows of 1 and 3 with two samples, `MaxStreams = 2`: the widest subscriber
  comes, goes and matters; an events process and the one that replaces it.
- ProcessTable: three processes are a parent with a child and a grandchild, a cycle with a
  row below it, or siblings to be sorted; two rows of three show, so that there is something to
  scroll. Two gestures before the menu can move the cursor, sort, fold or filter, and
  the sync can come before it, between, or under the menu: one of each is what
  redirects a signal.
- `Cap` of 4 over three locations: push at the cap with the cursor at either
  end and in the middle, and a prune that removes records on both sides of the
  cursor. `Cap = 2` in `screen` makes every third move drop a record.
- `MaxUndo = 1` (the code has 50): the undo stack at its limit is reached by the
  second edit, and undo, redo and the dropping of an entry all occur. With one entry the states
  in which a snapshot is older than the last edit come from viewing (tabs
  opened and closed, panes focused), which does not push.
- `MaxColumns = 2`: one column is where the refusals are (the last column, the
  last pane), two is where moving between columns is. `TabHosts` and `Draggable`
  restrict what a run opens and drags, not what the operators can do. Tabs minted
  under the editor and stale drags multiply, so `desk` takes the layout three times:
  three panes with every undo under a drag and no mint (`part = "layout"`), three panes with mints and no
  drag (`"tabs"`), and both on two panes (`"two panes"`); the theorems hold of all together.
- `MaxLog = 4`, `Cadence = 2`, `ReverseBases = 1`, `ScanCap = 3`: two checkpoints
  with an entry on either side, a ladder that must be rebuilt, a search that
  stops at its limit (the code has a checkpoint every 5000 entries, 8 bases and 512
  probes). `MaxStray = 1`: one live dispatch under the scrubber; `MaxKeys = 3` keys
  after the loading.
- `MaxEvents = 3`: a paste opened, filled and closed, or the key that enters terminal
  mode, a sequence and one event more, each cut at every place; `PasteMax = 5` units
  lets a paste go over its cap. `MaxFlips = 1`: the program changes the mode, the
  session or both once between two chunks.
- Hotkey pools are two keys long (the code has six and three), so that a column
  with three cells runs out of them.
- Paint: two terminals and one text are the three kinds of change of hands (text
  to terminal, terminal to terminal, and back); the dialogs cover the middle row,
  so that it has covered and uncovered rows of a terminal.
- TextViews: a ring of three with five lines drops up to two, fewer and more than a selection
  is wide; two tabs share a pane so that the shown one can change.

Deadlock is not checked in any run that passes: each has a component that really
ends (a quit, a log of so many entries, a configuration that is loaded once) or
whose bounds on inputs run out. What must not stop is stated as liveness instead.

### Fairness

No fairness is ever assumed of the user, and none of a child's will to end. What
is assumed is that Node delivers what is due, all of it weak fairness:

- Streams: the close and the error event of every job whose process ended.
- Agents (`AgentEvents`): the timers of the mock backend and the lines and the
  end of a child that has been told to stop. Choices (`ChoicesEvents`): the
  timeout and the hard kill of a fetch, which are timers, and the end of what got a
  SIGKILL.
- Instances (`InstEvents`): a listing and a compute answer.
- Producers (`ProdFairness`): the interval of the docker poll and the three
  stages of its fetch. `execAsync` has a timeout, so a stage always ends.

ActionRuns states the fairness of the check phase, the deferred tasks and the
children (`RunsFairness`) as part of its specification; its properties in the runs
are safety. The other modules state safety only.

## 5. Where the code and its documents disagree

Six runs end in a counterexample, each against a sentence of the repository
(quoted in `PROJECT.json`, `findings`):

1. **`item_keys`** - the confirm gate asks whether *any* confirm is open, one tick
   after the key. Two item keys in one chunk defer two runs; the first opens its
   confirm, the second finds one open and runs unasked. (With runs that cannot be
   deferred twice, `ConfirmGatesRun` holds.)
2. **`bulk_operand`** - the bulk container commands read cursor and selection of
   the service instance, the keys write those of the placed pane.
3. **`saved_ids`** - undo restores the columns and not the pool: the tab of a
   terminal that exited comes back, and `:save-layout` writes its session-only id.
4. **`stale_exit`** - the exit of a killed process is looked up by tab id alone
   and closes the terminal opened since under that id.
5. **`slices_home`** - a broadcast computes the slice of the tab a pane was built
   with and stores it under the pane's name, which stands for the tab it shows.
6. **`declared`** - `output: append` of an action and the global `quick_keys` are
   validated and then left out of what the parser returns.

Further disagreements met while modelling, modelled as the code has them and
without a run of their own. Where a module states the sentence that fails as a
property, its name is given.

**Runs and streams**

- The roll-back stamped by an edit-args submit survives when its confirm cannot
  open, and fires when another confirm is rejected (`RollbackIsOwn` of
  ActionRuns, `js/dispatch/update/modal/confirm.js:31`).
- A quitting program aborts the command of a computed choice with SIGTERM; the
  SIGKILL that follows 500 ms later for one that ignores it
  (`js/feature/choices-cmd-runtime.js:194`) dies with the program.
- A grandchild that keeps the pipe open keeps the job open after its child exited:
  the job is closed on "close", not on "exit" (`js/dispatch/runtime/stream.js:393`).
  `EndedJobCloses` has the end of the pipes as a premise (`Drained`), and no fairness
  makes them end.
- The editor needs the whole grid ("the drag/resize gestures need a fully-visible
  grid", `js/panel/layout.js:396-402`) and opens only in the normal view, but a spawn deferred
  before it opened sets the full view under it (`js/dispatch/runtime/action-runner.js:225`,
  deferred in `js/dispatch/runtime/effects.js:381-386`); programmatic changes of the view are
  let through on purpose. `RunShows` of Layout has it.
- Results wrapped to the pane of a column land on the tab that is shown when
  they arrive; the keys of a cancel use the instance's id where the run used the
  pane's.

**Choices and agents**

- While a list is being fetched for a new text, the popover opens on the old one
  and Enter commits a value of it (`js/dispatch/control/dispatch.js:1129`); the
  comment in `fabric-form.js` (about line 1000) says it opens empty
  (`PickIsShown`).
- A form that shows a cached list while it is fetched anew is not "pending", so that
  closing it does not abort the fetch (`NoFetchOutlivesForm`).

**Panes, subscriptions and producers**

- A poll that times out after some of its rows drops the series of the others
  (`DropsOnlyGone`): the comment at about `js/app/state.js:290` has only the
  empty output in mind. A docker query that answers nothing makes all
  containers unknown and deletes their series.
- A mirror that restarts for another window cancels the sample that was about to
  be drawn; the hub's removal of a wildcard subscription leaves the cached window
  stale until the next change; the gate of the reconcile is set before the starts
  it stands for.
- `:<pane title>` changes the view without a reconcile: the repaint of a terminal
  stays off until the next dispatch (excepted in `LiveIsDesired`).
- A files pane placed again may show a listing its predecessor of the same name
  asked for (excepted in `ListingBelongs`).

**The process table**

- `K` targets "the SAME row the paint highlighted" (`js/panel/monitor/table.js:222`, and
  253 and 535 for the items and the chip): a sync changes the model at once and its frame comes 50 ms later
  (`js/leaves/infra/render-queue.js:59`). A key, a chip or a right-click in between
  opens the menu of another process (`SignalIsSeen`; excepted in `SignalIsAimed`). The title of the
  signal menu does name its pid.
- `_breakCycles` is said to promote members of a cycle (`js/leaves/tree/tree.js:72`):
  a row that only hangs below a cycle, and comes before it in the order, is torn
  off its parent and made a root (excepted in `TreeIsWhole`).
- Pages and the wheel step from the stored cursor, which a list that shrank leaves behind
  its end: one tick moves from there, not from the highlighted row, where the
  comment of `moveSel` (`js/dispatch/control/actions.js:80`) says its siblings clamp.

**Replay**

- A log recorded from the boot has no checkpoint at its start, and a seek before
  the first one shows a wrong model; the run therefore records from a running
  program (`FromBoot = FALSE`). A second record-and-save leaves a gap in the log.
- What is dispatched while the scrubber is open runs its effects in full, paints
  a locked screen and is lost at exit.
- A killed session writes no log entry, and a session spawned after a checkpoint
  is still there, and is fed its output again, when a seek goes back to before its spawn
  (`ScreensShowRecord`).

**Input**

- The search keys of a viewer stay on when its shown tab becomes one that ignores
  `viewer_search_cancel` (`SearchLost`, excepted in `EscLeadsOut`).
- A deferred terminal run sets terminal mode under an open dialog: the keys go to
  the child.
- A paste over 256 KB is dropped and its remainder read as keys; a paste that
  opens behind a carried partial sequence is joined wrongly; terminal mode
  entered while a paste accumulates swallows keys until a paste closes; a dead
  terminal drops the whole piece its bytes are joined in, and of a cut one only what the
  first read brought: the rest is read as keys (`js/dispatch/control/input.js:1050-1055`).
  These are the four `odd` cases of `ChunksDontMatter`.
- In terminal mode nothing is held back for the next read, so that a Shift+PageUp or a
  wheel report which a read cuts goes to the child as it is instead of scrolling
  (`input.js:1109-1111`, `1017-1033`). The reference is told of that cut (a flush), and the
  property holds with it; what it shows is that no other cut matters there.
- Where a terminal's view is scrolled to is left out: keys in one chunk with a turn of
  the wheel take it to the bottom in whichever order they came.
- `mode_clear` drops the continuation of whichever modal has one, but not its
  `onReject`.
- A SIGCONT that no SIGTSTP preceded resumes the keyboard protocol under a child that
  owns the keyboard: suspensions are a count (`js/io/term.js:75-76`).

**Configuration**

- A binding `g` and then a binding `gg` of the user: the second is silently lost,
  where `keybindings.js` (78-84) says such mistakes are still caught
  (`ConflictsCaught`).
- A binding of the user that begins one of the project ends the boot, where
  `docs/global-config.md` says a global file must never brick a project
  (`GlobalHarmless`).
- What validation drops from a nested group is dropped silently, and `sensitive` on an out-port
  is not dropped there; a port declaration used twice through a YAML alias loses
  its `choices` on the second visit; `wires`, `archive` and `config_branch` of a
  split for a group that exists already are silently not merged; the global file
  is merged after validation, where the comment of `loadConfig` says before.

**Paint** (`odd` in the module)

- A dialog over a visible terminal: the blanks of the frame stay when it closes,
  and the output of the child paints over it (`js/render/paint.js:938-944`,
  `docs/overlay-compositor-migration.md:207` say otherwise).
- A terminal pane that shrinks without a forced repaint leaves characters of its
  last rows.
- An overlay pass ahead of the frame (the output of any session, between a Msg
  and its paint 50 ms later) rewrites what the next frame compares: a
  terminal just hidden is never reclaimed, one just shown is blanked
  (`js/render/paint.js:862-880` says otherwise).
- A resize there and back within 50 ms forces nothing; the highlight mode of
  replay writes rows over terminals.

**Text views** (out of `PushedIsChosen`)

- The line of a press is never shifted: lines that drop out of the ring, or a new
  content, between a press and its first motion move the anchor.
- Motion and release aim by the last paint's rows, the selection is of now: lines
  dropped since the paint move one against the other.
- A selection that dropped out whole is clamped to the first line, which was not
  selected; new content keeps selection, search and cursor of the old one.
- A press taken by a dialog leaves an older press armed; a drag whose tab is
  exchanged meanwhile copies the other tab's selection.
- A followed tail is no longer followed after the pane shrank; the index of
  the search is not shifted with the lines, so `n` skips hits; keys after a drag
  start from its anchor, not its end.

**Groups, layout and terminals**

- `reset_group_context` (`js/dispatch/update/reducer.js:535`) resets the docker
  service instance, not the placed containers pane; running an action from the
  palette, repeating a run, activating a job and travelling change the group
  without that reset at all. `ActionsStartOver` is therefore about the
  actions pane.
- A jumplist record of the containers pane holds row 0: it is read from the
  service's slice.
- A form opened for a missing port opens over values already written
  (`js/feature/fabric-form.js:727`).
- `:save-layout` with an empty column writes a `panels:` key with nothing below,
  which `schema.js` rejects at the next start.
- A pool entry dropped on a pane is shown at the tail of the column, where the
  preview and `LAYOUT.md:552` say the slot of the pane it replaces; and if the
  pane is no longer there, the entry is shown without an undo entry
  (`HideRefused` in `GestureUndoable`).
- `:add-column` beyond the end, or a new-column drop computed before the grid
  changed, leaves the actions pane in a column that is not the last
  (`LAYOUT.md:156`).
- An insertion into a column removed during the drag makes the reducer throw;
  the Msg is dropped and the drag stays.
- Undo does not pass through the clearing of a stale half view that every other
  arrangement passes through.
- A pane menu can summon a hidden transient tab; the cell is then saved as the word
  `undefined` (`Written` has it).
- Reopening a YAML terminal whose shell failed enters terminal mode on the dead
  session instead of starting it again.

## 6. Proofs

All theorems are about every value of the constants, from the named assumptions
of the module (`StreamsAssumption` and so on), which TLC evaluates in the runs.

**Streams_proofs.** The safety properties of Streams are not inductive one by one: that a
slot's holder is running needs the table and the index to agree, and that a view
shows the right run needs to know which processes still have listeners. The invariant is

    IInv == TypeOK /\ SlotOwnership /\ StoresAgree /\ NoStrayProcess
            /\ ViewBelongsToRun /\ ListenersLive /\ HeadIsLive /\ PublishedIsOlder

where `ListenersLive` says that a job whose listeners are attached, and whose
process runs or has exited, is in the process table, `HeadIsLive` that the view of a
live job's slot starts with that job's header, and `PublishedIsOlder` that a live
producer is not older than the output published for its slot.
Killing and starting are lemmas of their own (`KillStep`, `StartStep`), since a
run that preempts is both in one step. From the invariant follow
`TypeCorrect`, `OwnershipHolds`, `StoresAlwaysAgree`, `NoneStray`, `ViewsBelong`
and the action properties `OutputNeverOlder` and `OutcomesFinal`.

The same module goes on to ActionRuns. `RunsAreStreams` says that each of its steps is
a step of Streams or leaves Streams alone, so everything proved of Streams holds under
the runner. `PreemptionsApproved` needs what the question and the answer carry across the
steps between them:

    RunsInv == IInv /\ ModalSound /\ QueueSound /\ AnsweredOnce /\ ...

An open modal agrees with what it would do, a preemption names a job that exists, is
another action's and held the slot (`ModalSound`); one that is deferred names
a job whose question was accepted (`QueueSound`); and every key that asked for a run is
answered at most once, by a job, a deferred Cmd or the modal (`AnsweredOnce`, which bounds the
jobs). Jobs never change slot or label (`JobsStay`), so what was said of a job when it was asked
about is still true when it is killed.

**NavHistory_proofs.** `Rings` is the set of well-formed rings; `Push`, `Step` and
`Prune` map it to itself, whence `RingAlwaysOK` for any set of places and any
cap. The part of `Prune` is that the new cursor counts the surviving
records up to the old one. `RingIsBrowser` is the refinement, proved: under the
mapping that reads the record at the cursor as what is shown, the records before it
as what is behind, those after it as what is ahead, every step of the ring is a step of
`BrowserHistory` or a stutter (a duplicate push). The lemmas are one per
operation (`PushVisits`, `BackMoves`, `ForwardMoves`, `PruneLoses`), each an
equation between pieces of a sequence; `Pieces` says what a piece is.

**Layout_proofs.** A viewer remains and the focus is placed because every arm
of the reducer maps good slices to good slices. `Slices(v)` is the set of good
slices in view v: every pane shows one of its tabs, a viewer is on the grid *and
on every grid of the undo and redo stacks*, the stacks hold at most `MaxUndo`
grids together, and the focus is on a pane of the grid (`Loose(v)` is the same
without the focus, for the steps between an edit and the clamp that repairs it).
The stacks are why the two properties are not inductive alone: undo brings back
whatever grid it holds. A drag adds a second reason: its target was computed for a
grid that may have changed, so the invariant only knows the shape of the target
(`GridDrags`, `PoolDrags`), and a drop is shown to keep the panes of *any* grid.
The argument is in layers: what inserting and removing does to a sequence; what
`SetPane`, `Without`, `Insert` and the columns' operators do to the panes of a
grid; then one lemma per arm (`RemoveTabSlice`, `PoolHideSlice`,
`MouseReleaseSlice` ...); then the gestures. That "the first pane" exists is the
well-foundedness of grid order. `GesturesAlwaysUndoable` asks of each arm which slice
fields it writes: an arm that edits leaves the old grid on top of the undo stack (`Takes`), an
undo leaves it on top of the redo stack (`Returns`), whatever `MaxUndo` forgets at the
other end (`OnTop`); an arm that only mints, shows or drops a minted tab is no edit of what the file keeps, since
the configured tabs stay in their order (`RunsKeepShape`). The theorems are `LayoutTypeCorrect`,
`ViewerAlwaysRemains`, `FocusAlwaysPlaced` and `GesturesAlwaysUndoable`. They assume of the
grid at boot (`InitColsAssumption`) what the parser and the seeding of content slots
give it: panes show one of their tabs, and one of them is a viewer
(`js/parser/index.js:386-388`); of the grids that load, `GridAlwaysSound` proves both.

**Terminals_proofs.** `JobsAlwaysAgree`: a terminal shows as a running job exactly
while its process lives. A dispatch is a composition of a layout change, a
disposal and a start; each keeps `Agree`, and so does the fan-out of an
exit, which is up to three dispatches. The theorem needs nothing of the layout:
whatever the grid becomes, sessions and jobs are written together.
`SessionsAlwaysPlaced`: a session always has its tab. This one stands on
Layout_proofs: a dispatch that starts from any slice of the reducer disposes what is
no longer placed and starts only what a pane shows, and what a pane shows is one
of its tabs; the steps of the composition are then the slice lemmas of the arms.

`ScreenAlwaysManned`: a terminal on the screen has a session. That is not inductive:
a step may only bring a tab forward that was started earlier, so the invariant
is that *every* placed terminal of the pool has one (`Manned`). Then a close
could take the tab of one pane and leave the same terminal in another, so the
invariant also says that a terminal is in one pane, once (`Tidy`); that each arm
keeps this is the bulk of the proof, an arm at a time like the slice lemmas.

**Screen_proofs** is about three components that follow the screen.
*Processes*: `SignalsAlwaysAimed`. The step from a frame to a menu is the
hazard; `AimedInv` adds to the property that an open menu is still about the
process it was asked for, and the lemmas (`FreshFrame` and what follows it) that
a frame recorded for the present model shows the rows of the model, so that the row
under the pointer is the one hit-tested.
*Subscriptions*: `SubsInv` is that the gate's memory agrees with what is live
(`GateAgrees`), that a live mirror is the only one, is subscribed with the widest window
and has a timer whenever samples wait for it (`MirrorsServe`), and that of the
streams all but the last of a live source were told to stop and wait for their
exit (`StreamsServe`). It gives `SubsLiveIsDesired`, `StreamRunsOnce`,
`MonitorsAlwaysServed` and the action property `SamplesAlwaysKept`. The widest window
of a set of monitors is a maximum, which exists since the set is finite.
*Groups*: `GroupsInv` is the type of the navigator, the shape of the ring
(`PlaceRings`: a record names a row of the pane it is of), `RingTracksHere` and
`EveryStepMoves`. The last is there because the first step of a capture depends on it:
a push is dropped when the place is the one on top. `RowsOf` and `ItemsIn` filter a
sequence without recursion (`Filtered`), and `PositionCounted` says that this
enumerates the kept positions. The theorems are `RingAlwaysTracks`,
`TravelAlwaysLands`, `TreeAlwaysShowsGroup`, `StepsAlwaysMove`,
`ActionsAlwaysStartOver` and `NavigatorAlwaysTyped`, for any forest of groups.

**Panes_proofs.** *Instances*: `InstInv` is the type, `ListingsInv` and
`LatchesInv`. That rows belong to their directory needs to know of every listing
still under way that it is of an instance minted no later than the counter, and
that the one with the current number asked for the current directory; that a
latch has its work needs the keys: a compute is aborted exactly when it lost its
key, and a pane has at most one that was not. From it `ListingsAlwaysBelong`,
`LatchesAlwaysWork` and `InstancesAlwaysTyped`.
*Producers*: `PollsGoOn` is inductive with the types; `PollsAlwaysGoOn`, and the
action property `EmptyPollsKeep`.
*Text views*: `PushesAlwaysChosen`. A selection holds row numbers while rows drop off the
ring, so `TextInv` says of each live selection that its ends are on the lines the user put
them on, or on the first line since theirs fell off (`EndsKnown`); that the last
paint holds both ends (`EndsPainted`), since a release copies from the paint and a yank from
the ring; and that an arm that did not slip is on its line (`ArmGood`). `AppendLinesKeeps` is
the step that matters: rows drop and everything that counts them shifts along.
`ChosenIsSelected` is that ends like that copy the lines chosen, which needs that a set of numbers is
listed in one order only (`RankIsOne`).

**Services_proofs.** *Agents*: `SessionAlwaysAgrees`. `AgentsInv` relates a handle
and the pane through what is still queued: `Agrees` says for each status of the pane
which tails of the queue are possible, that is, that the records a backend has
still to say lead the pane to ready or ended; after a quit the handle is
silenced. Every backend's every move, delivery and interrupt keeps it, whichever
turn was cut where.
*Choices*: `ListsAlwaysBelong`, `KeyAlwaysHeld` and `ChoicesAlwaysTyped`. A late
answer is told by its request number, so the invariant is `Answers`: a fetch
that still holds its key, with the number the form waits for, was asked for the
text the form has on file. `KeysHeld` is that a key and the fetch that holds it point at
each other.

**Front_proofs.** *Painting*: `ScreenAlwaysCurrent`. The property speaks of a screen
with no repaint on its way, so the invariant says what the caches know of the glass while
there is one: the frame last written is what the glass shows, except under the
terminal painted over it, whose rows are those of its cache (`GlassAgrees`, `CachesTell`), unless
the next frame is written in full anyway (`Outdated`); and that with nothing on its way
the caches are those of the model (`FrameCurrent`).
*Configuration*: `ConfigAlwaysLayered`. `ConfigInv` is the property for the layers merged so
far (`LayeredOver`): a group has what those say of it, all that is mergeable and nothing else, and
an entry says what the first of them says; the splits not yet merged are a tail of
the file's. Validation and the merging of the user's file only keep it.
`ConfigAlwaysUsable` is about declarations that are rewritten while others still use them. It
splits what a port needs into what its declaration is (`CellGood`) and what it says of the
siblings of that port (`Fits`). `NormalisedGood` follows a declaration through the passes of
`validateActionPorts`: what comes out is good, fits the port it was done for, and says no
more than what went in but for a `remember` that is turned off (`Narrower`); so
normalising it again for another port takes nothing back that an earlier one was promised
(`NarrowerKeeps`), the rule for variadic ports included. `PortsInv` is then that the
actions visited so far are settled, and the ports of the one at hand that were visited
usable. The lists the splits and the user's file are merged into are followed by
`EntriesIn`, an induction over the list.
*The grid*: `GridAlwaysSound`. Whatever a run writes, `LoadedUsable` says of a file that none of
the refusals hits that its grid is usable, and `DefaultUsable` of the default layout; a tab in one
cell only is what makes panes have different names. `KeysAlwaysDealt` is that keys which
differ where they are asked for, and keep out of the other columns' pools, never clash: of two cells
that ask for none the later one counts at least one cell more (`DealtApart`), so that the two are dealt
different keys of a pool without repetitions (`KeysApart`), and the pools of two columns
are disjoint (`PoolsGood`).
*Modes*: `OneModalAlways` and `EscAlwaysLeadsOut`. `UiGood` is that at most one mode of
the chain is on, with the title editor over the free-config mode the one exception, that a mode
which staged what its Enter sends is the one that staged last, and that what is deferred is
a run. Every key of every mode maps `UiGood` to itself (one lemma per handler). The first mode
that is on exists because the chain is finite (`FirstIsOn`). For Esc, `Out1`, `Out2` and
`Out3` are the states one, two and three of them lead out of; every good state but the lost
search is in `Out3`.
*Chunks*: `ChunksNeverMatter`. Wherever a chunk is cut and whichever parser has it, the invariant
`ChunkInv` is that the reference, put where the handler's log, mode, session and paste are (`Seen`) and led
through what the handler still holds (`Coming`: the carry and what is left of the chunk, in the order
in which they will be taken), is where the whole stream read so far leads it. Every step of
a parser keeps this `Position`: the keys by `TokenHeard` (a token is the reference's steps over its
units, and a Lead that nothing completes is let go of at the next unit, `LeadLetsGo`), the
child's bytes by `TerminalGoesOn` (a partial that ends a chunk there is the reference's
flush, and a piece of one event is dropped by a dead terminal as the reference drops it),
a paste by `PasteOpens` and `PasteCloses` (up to the first
closing marker the reference only gathers text). What the steps rest on is that the reference
composes over concatenation (`RefAfterConcat`), an induction by `Stretch`. `Shape` says what a
carry, a paste and a mode exclude of each other; the cases that are excepted are
those that break it.
*Replay*: `ReplayAlwaysExact` is about folds, so its first lemmas are an induction: `Stretch` (what holds at
i and is handed on holds up to j, from the well-foundedness of the numbers), `StepByStep` (a
function given step by step exists) and from them `FoldSteps`, what one more entry does to a
`Fold`. `Recording(log, w)` says that w is what the recorded program had after each entry of the
log. On it `FoldExact` stands: a fold that starts exact stays exact until a checkpoint tells of a
gap. A seek is exact because it starts at the last checkpoint (`SeekIsExact`), reverse play because
every rung of its ladder is exact and no checkpoint lies between the rung and the frame
(`LadderIsExact`, `ReverseIsExact`), the diff panel and the searches because the fold
they leave behind is thrown away for a seek (`PanelKeepsFrame`, `SearchMoves`). The inductive
invariant `ReplayInv` holds the `Recording` of the log in memory, that a recorder that is on is
at the end of it, that the cached ladder of an open scrubber is a ladder of *that* log (`LadderGood`),
and that what the scrubber put aside is the live program. The one hypothesis is that the log was
started by a running program (`~FromBoot`): a log recorded from boot has no checkpoint at
its start, and section 5 says what a seek then shows.

The assumptions on the constants are what the code gives them: `TerminalsAssumption`
that terminals are minted under ids of their own (`nextTransientPoolId`),
`SubsAssumption` that a screen has finitely many monitor panes and that their windows are
positive, `InstAssumption` that panes are finitely many and minted tabs have names
of their own, `ChoicesAssumption` that a filter hits at most the whole list,
`GroupsAssumption` that the tree is listed parents first with a root at its head and that
what a group holds is a sequence, `PaintAssumption` that the text is not a terminal and that
there is something to show, `TextAssumption` that every pane has a tab, that the lines the tabs start
with are numbered upward from 1 and that the ring holds at least one, `ConfigAssumption` that a document is a document and names splits
that exist, that its lists are lists, that every port has its declaration in the heap, whose
keys are those the validation knows (`PortKeys`), and that `choices_fn` names a
function or is not one, `GridAssumption` that the two hotkey pools name every key once and share none
(`leaves/input/hotkeys.js:20-21`) and that a cell opens on one of its tabs, `CommandsAssumption` that a command asks for what an action can ask for.

Only model-checked: the five liveness properties (`EndedJobCloses`, `BusyEnds`,
`PendingEnds`, `LoadsEnd`, `StatusCatchesUp`), since liveness under fairness is out of the
prover's reach here. Every invariant and every action property of the passing runs is a theorem.

Proved and in no run: the `TypeOK` of Layout, `EveryStepMoves`,
`ActionsStartOver` and the `TypeOK` of GroupSwitch, `KeyHeldByLiveFetch` of Choices,
`SamplesKept` of Subscriptions, `EmptyPollKeeps` of Producers, the `RunsTypeOK` of ActionRuns,
the `ReplayTypeOK` of Replay.
Some further
properties are stated in the modules, were checked by hand and are in no run:
`PlacedOnce` and `DirtyTracksEdits` of Layout, `CleanCloses` of Terminals,
`ApprovedKilled` of ActionRuns, `CommandsSettle` of Choices, `SkipLands` of Replay.

## 7. Not modelled, and why

- **Overlays and drawing helpers, boot, CLI, packaging, shell scripts, plugins**:
  projections without state, sequential start-up, or foreign code.
- **Geometry**: how widths and heights are distributed is a pure function with
  unit tests; the models only need which panes are visible.
- **Text**: the YAML syntax, the wording of errors, quoting and building of
  commands, the parsing of docker's output, display columns, the graphs of the stats
  panes, completion.
- **Parts of modelled components**: background and tmux runs and the wires of the
  action runner; the type-ahead of a filter; half-view slots; the screen emulator
  and the resizing of terminals; the text of an agent's transcript; the clock of
  playback and the boot from a log; cursors and scrolls of the overlays; the
  spinner row and the drag that zooms a graph; the columns of the process table and
  the column a fold marker is drawn at; the footer, the chrome and the
  drag preview of a frame. `PROJECT.json` says so per component.

## 8. Plan

Done: every component in which order, lateness or a cache can go wrong has a module. What
is left, in this order:

1. An abstract specification of a fetch (one owner, one outcome) that Choices and
   Instances implement.
2. Compositions the runs do not have yet: the text views fed by Streams, Paint
   driven by Terminals.
3. Pure algorithms against reference definitions: column widths, the placing of tabs in a strip.
