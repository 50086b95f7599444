---------------------------- MODULE InputModes -----------------------------
(***************************************************************************)
(* Who gets the next key (dispatch/control/dispatch.js,                    *)
(* leaves/input/modes.js and the reducers of dispatch/update/modal).       *)
(* Every dialog, popup and typing mode is a flag of its own; a key goes    *)
(* to the first flag of a fixed chain that is set, to the child while      *)
(* terminal mode is on, and to the focused pane otherwise.  Runs start a   *)
(* tick after the key that asked for them, so keys of one chunk come       *)
(* before the dialog, the tab or the terminal mode the run brings.         *)
(*                                                                         *)
(* Two panes stand for the desk: a list, and a viewer whose active tab is  *)
(* a text, an agent or a terminal.  What is typed is abstracted to whether *)
(* anything is there; cursors and scrolls are left out.                    *)
(*                                                                         *)
(* A definition named X_Suffix is a faulty variant of X; see Streams.      *)
(***************************************************************************)
EXTENDS Naturals, Sequences, FiniteSets

CONSTANTS Commands,      \* the actions of the desk
          MaxDue         \* Bound: runs waiting for their tick

\* What an action asks for before it runs.
Actions == [confirm : BOOLEAN, ports : {"none", "field", "form"}, spawns : BOOLEAN]
ASSUME CommandsAssumption == Commands \subseteq Actions

\* CHAIN_MODES, in order.  Two more flags, terminal and listSelect, are not in
\* the chain.
Chain == <<"confirm", "title", "freeConfig", "menu", "filter", "copy", "search",
           "register", "prefix", "cmd", "field", "form", "paneMenu", "palette",
           "jobs", "diag", "agent">>

\* The overlay of a mode, by its zIndex; filter, search, title and agent are
\* typed in place.  Jobs and diagnostics may share the screen.
ZIndex == [confirm |-> 10, copy |-> 20, diag |-> 30, jobs |-> 40, paneMenu |-> 50,
           freeConfig |-> 60, register |-> 70, prefix |-> 80, palette |-> 90,
           menu |-> 100, cmd |-> 110, form |-> 120, field |-> 130]
ModalOverlays == DOMAIN ZIndex \ {"diag", "jobs"}

NoCommand == [confirm |-> FALSE, ports |-> "gone", spawns |-> FALSE]
Keys == {"esc", "return", "back", "tab", "space", "key"}

VARIABLE
  ui   \* [modes, focus, tab, filtered, picking, list, nested, busy, staged, cmd, due]
       \* filtered, picking: the filter and the popover of palette and form
       \* list: the panel list of free-config; nested: the menu has one to go back to
       \* staged: whose continuation is in modal.continuation; cmd: the action a
       \* confirm, a field or a form is about; due: the runs of the next tick

UiInit ==
  ui = [modes |-> {}, focus |-> "list", tab |-> "text", filtered |-> FALSE,
        picking |-> FALSE, list |-> FALSE, nested |-> FALSE, busy |-> FALSE,
        staged |-> "none", cmd |-> NoCommand, due |-> <<>>]

-----------------------------------------------------------------------------
ChainActive(u) == \E i \in DOMAIN Chain : Chain[i] \in u.modes
FirstMode(u) ==
  Chain[CHOOSE i \in DOMAIN Chain : /\ Chain[i] \in u.modes
                                    /\ \A j \in 1..(i - 1) : Chain[j] \notin u.modes]
Focused(u) == IF u.focus = "list" THEN "list" ELSE u.tab

Entered(u, m) == [u EXCEPT !.modes = @ \cup {m}]
Left(u, m) == [u EXCEPT !.modes = @ \ {m}]
Staging(u, m) == [Entered(u, m) EXCEPT !.staged = m]
Unstaged(u, m) == [Left(u, m) EXCEPT !.staged = "none"]
Later(u, what, c) == IF c = NoCommand THEN u ELSE [u EXCEPT !.due = Append(@, <<what, c>>)]

\* mode_clear drops the continuation, whosever it is.
ModeCleared(u, m) == IF m \in u.modes THEN Unstaged(u, m) ELSE u

\* confirm_enter: the one dialog a late run opens, behind a guard.
ConfirmEntered_Unguarded(u, c) == [Staging(u, "confirm") EXCEPT !.cmd = c]
ConfirmEntered(u, c) ==
  IF ChainActive(u) THEN u ELSE [Staging(u, "confirm") EXCEPT !.cmd = c]

\* fabric_field_enter and fabric_form_enter.
PortsAsked(u, c) ==
  IF ChainActive(u) THEN u
  ELSE [Entered(u, c.ports) EXCEPT !.cmd = [c EXCEPT !.ports = "none"],
                                   !.picking = FALSE, !.filtered = FALSE]

\* doRun: ask for the ports that are missing, or start.  A spawned terminal is
\* shown, focused and entered, whatever is open; a streamed run shows its tab.
RunStarted(u, c) ==
  IF c.ports # "none" THEN PortsAsked(u, c)
  ELSE IF c.spawns THEN [Entered(u, "terminal") EXCEPT !.focus = "viewer", !.tab = "term"]
  ELSE [u EXCEPT !.tab = "text"]
RunAsked(u, c) ==
  IF c.confirm THEN ConfirmEntered(u, [c EXCEPT !.confirm = FALSE]) ELSE RunStarted(u, c)

\* edit_args: the form first, and the confirm when it is submitted.
ArgsEdited(u, c) == PortsAsked(u, [c EXCEPT !.ports = "form"])

\* What a command, a menu row, a leader binding or the palette can do once its
\* own mode is closed.
MenuOpened(u, nested) == [Staging(u, "menu") EXCEPT !.nested = nested]
FreeConfigEntered(u) == {[Entered(u, "freeConfig") EXCEPT !.list = hidden] : hidden \in BOOLEAN}
Verbs(u) ==
  {u, Entered(u, "jobs"), Entered(u, "diag"), [u EXCEPT !.focus = "viewer"],
   [u EXCEPT !.focus = "list"]}
    \cup FreeConfigEntered(u) \cup {RunAsked(u, c) : c \in Commands}
    \cup {ArgsEdited(u, c) : c \in {d \in Commands : d.ports # "none"}}
    \cup {[u EXCEPT !.tab = t] : t \in {"text", "agent", "term"}}

-----------------------------------------------------------------------------
\* One key in one mode: the set of what it can lead to.
ConfirmKey(u, k) ==
  CASE k = "return" -> {Later([Unstaged(u, "confirm") EXCEPT !.cmd = NoCommand], "do_run", u.cmd)}
    [] k = "esc" -> {[Unstaged(u, "confirm") EXCEPT !.cmd = NoCommand]}
    [] OTHER -> {u}
TitleKey(u, k) == IF k \in {"esc", "return"} THEN {Left(u, "title")} ELSE {u}
FreeConfigExited(u) == [Left(Left(u, "freeConfig"), "title") EXCEPT !.list = FALSE]
FreeConfigKey(u, k) ==
  CASE u.list /\ k = "esc" -> {[u EXCEPT !.list = FALSE]}
    [] u.list /\ k = "return" -> {u, [u EXCEPT !.list = FALSE]}
    [] u.list /\ k = "key" -> {u, FreeConfigExited(u)}
    [] ~u.list /\ k \in {"esc", "return"} -> {FreeConfigExited(u)}
    [] ~u.list /\ k = "key" -> {u, Entered(u, "title"), [u EXCEPT !.list = TRUE], FreeConfigExited(u)}
    [] OTHER -> {u}
MenuBack(u) ==
  IF u.nested THEN MenuOpened(u, FALSE) ELSE Unstaged(u, "menu")
MenuKey(u, k) ==
  CASE k = "esc" -> {[Unstaged(u, "menu") EXCEPT !.nested = FALSE]}
    [] k = "back" -> {MenuBack(u)}
    [] k = "return" ->
         LET shut == [Unstaged(u, "menu") EXCEPT !.nested = FALSE]
         IN  Verbs(shut) \cup {MenuBack(u), Entered(shut, "filter"), MenuOpened(shut, TRUE)}
    [] OTHER -> {u}
FilterKey(u, k) == IF k \in {"esc", "return"} THEN {Left(u, "filter")} ELSE {u}
CopyKey(u, k) == IF k \in {"esc", "return"} THEN {Unstaged(u, "copy")} ELSE {u}

\* The search keys go to the instance the focused pane shows now; only a text
\* or a transcript answers them.
SearchKey(u, k) ==
  IF k \in {"esc", "return"} /\ Focused(u) \in {"text", "agent"}
  THEN {ModeCleared(u, "search")} ELSE {u}
RegisterKey(u, k) ==
  IF k \in {"esc", "return"} THEN {Left(u, "register")}
  ELSE IF k = "key" THEN {u, Left(u, "register")} ELSE {u}
PrefixKey(u, k) ==
  IF k \in {"esc", "space"} THEN {Left(u, "prefix")}
  ELSE {u} \cup Verbs(Left(u, "prefix"))
CmdKey(u, k) ==
  CASE k = "esc" -> {Unstaged(u, "cmd")}
    [] k = "return" -> {u} \cup Verbs(Unstaged(u, "cmd"))
                       \cup {Entered(Unstaged(u, "cmd"), "filter")}
    [] OTHER -> {u}
FieldKey(u, k) ==
  LET shut == [Left(u, "field") EXCEPT !.cmd = NoCommand]
  IN  CASE k = "esc" -> {shut}
        [] k = "return" -> {Later(shut, "do_run", u.cmd)}
        [] OTHER -> {u}

\* fabricFormMode: the popover takes its keys first; Esc widens the view before
\* it closes, and every other control key closes it and falls through.
FormFields(u, k) ==
  LET shut == [Left(u, "form") EXCEPT !.cmd = NoCommand]
  IN  CASE k = "esc" -> {shut}
        [] k = "return" -> {u, Later(shut, IF u.cmd.confirm THEN "run_action" ELSE "do_run", u.cmd)}
        [] k = "space" -> {u, [u EXCEPT !.picking = TRUE, !.filtered = FALSE]}
        [] OTHER -> {u}
FormKey(u, k) ==
  LET unpicked == [u EXCEPT !.picking = FALSE, !.filtered = FALSE]
  IN  CASE ~u.picking -> FormFields(u, k)
        [] u.picking /\ k = "esc" -> {IF u.filtered THEN [u EXCEPT !.filtered = FALSE] ELSE unpicked}
        [] u.picking /\ k \in {"space", "return"} -> {unpicked}
        [] u.picking /\ k = "back" -> {u, [u EXCEPT !.filtered = FALSE]}
        [] u.picking /\ k = "key" -> {[u EXCEPT !.filtered = TRUE]}
        [] u.picking /\ k = "tab" -> FormFields(unpicked, k)

PaneMenuPicked(u) ==
  {u} \cup {[u EXCEPT !.focus = "viewer", !.tab = t] : t \in {"text", "agent", "term"}}
      \cup {[u EXCEPT !.focus = "list"]}
PaneMenuKey(u, k) ==
  LET shut == ModeCleared(u, "paneMenu")
  IN  CASE k = "esc" -> {shut}
        [] k = "return" -> PaneMenuPicked(shut)
        [] k = "key" -> {u, shut}
        [] OTHER -> {u}
\* The palette's reducer, and its keys: Esc widens the list before it closes.
PaletteUpdate(u, type) ==
  CASE type = "open" -> [Entered(u, "palette") EXCEPT !.filtered = FALSE]
    [] type \in {"close", "pick"} -> [Left(u, "palette") EXCEPT !.filtered = FALSE]
    [] type = "filter" -> [u EXCEPT !.filtered = TRUE]
    [] type = "clear" -> [u EXCEPT !.filtered = FALSE]
PaletteKey(u, k) ==
  LET shut == PaletteUpdate(u, "close")
  IN  CASE k = "esc" -> {IF u.filtered THEN PaletteUpdate(u, "clear") ELSE shut}
        [] k = "return" -> {u, shut} \cup {RunAsked(PaletteUpdate(u, "pick"), c) : c \in Commands}
        [] k = "back" -> {u, PaletteUpdate(u, "clear")}
        [] k \in {"key", "space"} -> {PaletteUpdate(u, "filter")}
        [] OTHER -> {u}
JobsKey(u, k) ==
  CASE k = "esc" -> {Left(u, "jobs")}
    [] k = "return" -> PaneMenuPicked(Left(u, "jobs"))
    [] OTHER -> {u}
DiagKey(u, k) == IF k = "esc" THEN {Left(u, "diag")} ELSE {u}

\* agentMode: a focus that drifted off the agent ends the mode; Esc interrupts a
\* turn and leaves the mode between turns.
AgentKey_StaysOff(u, k) ==
  IF Focused(u) = "agent" /\ k = "esc" /\ ~u.busy THEN {Left(u, "agent")} ELSE {u}
AgentKey(u, k) ==
  IF Focused(u) # "agent" \/ (k = "esc" /\ ~u.busy) THEN {Left(u, "agent")} ELSE {u}

ModeKey(u, m, k) ==
  CASE m = "confirm" -> ConfirmKey(u, k)     [] m = "title" -> TitleKey(u, k)
    [] m = "freeConfig" -> FreeConfigKey(u, k) [] m = "menu" -> MenuKey(u, k)
    [] m = "filter" -> FilterKey(u, k)       [] m = "copy" -> CopyKey(u, k)
    [] m = "search" -> SearchKey(u, k)       [] m = "register" -> RegisterKey(u, k)
    [] m = "prefix" -> PrefixKey(u, k)       [] m = "cmd" -> CmdKey(u, k)
    [] m = "field" -> FieldKey(u, k)         [] m = "form" -> FormKey(u, k)
    [] m = "paneMenu" -> PaneMenuKey(u, k)   [] m = "palette" -> PaletteKey(u, k)
    [] m = "jobs" -> JobsKey(u, k)           [] m = "diag" -> DiagKey(u, k)
    [] m = "agent" -> AgentKey(u, k)

-----------------------------------------------------------------------------
\* A key while a mode of the chain is on.  A handler that throws loses its flag.
KeyInMode ==
  /\ "terminal" \notin ui.modes /\ ChainActive(ui) /\ Len(ui.due) < MaxDue
  /\ \E k \in Keys : ui' \in ModeKey(ui, FirstMode(ui), k)
HandlerThrows ==
  /\ "terminal" \notin ui.modes /\ ChainActive(ui)
  /\ ui' = ModeCleared(ui, FirstMode(ui))

\* The keys of normal mode, in the list or in a text.
Idle == "terminal" \notin ui.modes /\ ~ChainActive(ui)
KeyOpens ==
  /\ Idle
  /\ \/ \E m \in {"prefix", "register"} : ui' = Entered(ui, m)
     \/ ui' = PaletteUpdate(ui, "open")
     \/ \E m \in {"cmd", "copy"} : ui' = Staging(ui, m)
     \/ ui' = MenuOpened(ui, FALSE)
     \/ ui' = Entered(ui, "paneMenu")
     \/ Focused(ui) = "list" /\ ui' = Entered(ui, "filter")
     \/ Focused(ui) \in {"text", "agent"} /\ ui' = Entered(ui, "search")
ListSelects ==
  /\ Idle /\ ui.focus = "list"
  /\ ui' = IF "listSelect" \in ui.modes THEN Left(ui, "listSelect") ELSE Entered(ui, "listSelect")
FocusMoves ==
  /\ Idle
  /\ \/ \E pane \in {"list", "viewer"} \ {ui.focus} : ui' = [ui EXCEPT !.focus = pane]
     \/ \E t \in {"text", "agent", "term"} \ {ui.tab} : ui' = [ui EXCEPT !.tab = t]

\* Enter: run the row, start typing to an agent, enter a terminal.
Activates ==
  /\ Idle
  /\ \/ Focused(ui) = "list" /\ Len(ui.due) < MaxDue
        /\ \E c \in Commands : ui' \in {RunAsked(ui, c), Later(ui, "run_action", c)}
     \/ Focused(ui) = "agent" /\ ui' = Entered(ui, "agent")
     \/ Focused(ui) = "term" /\ ui' = Entered(ui, "terminal")

\* A run's tick: do_run or run_action.
RunTicks ==
  /\ ui.due # <<>>
  /\ LET u == [ui EXCEPT !.due = Tail(@)]
         what == Head(ui.due)[1]
         c == Head(ui.due)[2]
     IN  ui' = IF what = "do_run" THEN RunStarted(u, c) ELSE RunAsked(u, c)

\* Ctrl+\, or a key for a dead session.
TerminalLeft == "terminal" \in ui.modes /\ ui' = Left(ui, "terminal")

\* The session of the terminal tab exits: the mode ends when it is on it, and a
\* clean exit closes the tab.
SessionExits ==
  /\ ui.tab = "term"
  /\ \E t \in {"text", "agent", "term"} :
       ui' = [(IF ui.focus = "viewer" THEN Left(ui, "terminal") ELSE ui) EXCEPT !.tab = t]
AgentTurns == ui' = [ui EXCEPT !.busy = ~@]

\* The pointer: the menu trigger of a pane, a row or the outside of a menu.
Clicks ==
  /\ "terminal" \notin ui.modes /\ Len(ui.due) < MaxDue
  /\ \/ ~ChainActive(ui) /\ \E pane \in {"list", "viewer"} :
          ui' = Entered([ui EXCEPT !.focus = IF pane = "viewer" THEN pane ELSE @], "paneMenu")
     \/ /\ "paneMenu" \in ui.modes
        /\ ui.modes \cap {"menu", "freeConfig"} = {}
        /\ ui' \in {ModeCleared(ui, "paneMenu")} \cup PaneMenuPicked(ModeCleared(ui, "paneMenu"))
     \/ /\ "menu" \in ui.modes /\ "freeConfig" \notin ui.modes
        /\ ui' \in MenuKey(ui, "esc") \cup MenuKey(ui, "return")

UiNext ==
  \/ KeyInMode \/ HandlerThrows \/ KeyOpens \/ ListSelects \/ FocusMoves \/ Activates
  \/ RunTicks \/ TerminalLeft \/ SessionExits \/ AgentTurns \/ Clicks
UiSpec == UiInit /\ [][UiNext]_ui

-----------------------------------------------------------------------------
\* Overlays the compositor paints, and the one on top.
Painted(u) == u.modes \cap DOMAIN ZIndex
OnTop(u) == CHOOSE m \in Painted(u) : \A n \in Painted(u) : ZIndex[n] <= ZIndex[m]

\* "Two modal overlays active — this is a bug" (overlay-compositor.js:67): it
\* never has to drop one; the keys go to the overlay on top of the others, and
\* what Enter there re-emits is what that dialog staged.
OneModal ==
  /\ Cardinality(ui.modes \cap ModalOverlays) <= 1
  /\ Painted(ui) # {} => FirstMode(ui) = OnTop(ui) \/ "title" \in ui.modes
  /\ \A m \in {"confirm", "menu", "copy", "cmd"} : m \in ui.modes => ui.staged = m

\* The search keys of a pane that no longer shows a text (README, section 5).
SearchLost == "search" \in ui.modes /\ Focused(ui) \notin {"text", "agent"}

\* One Esc.
Esc(u) ==
  IF ChainActive(u) THEN CHOOSE v \in ModeKey(u, FirstMode(u), "esc") : TRUE ELSE u

\* No mode is a trap: once out of terminal mode and between two turns of the
\* agent, at most three times Esc leads back to the panes from wherever the user
\* is, the lost search excepted.
EscLeadsOut ==
  ~SearchLost =>
    ~ChainActive(Esc(Esc(Esc([ui EXCEPT !.modes = @ \ {"terminal"}, !.busy = FALSE]))))
=============================================================================
