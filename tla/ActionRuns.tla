----------------------------- MODULE ActionRuns -----------------------------
(***************************************************************************)
(* From a keystroke to a running command: runAction, doRun and the input   *)
(* prompt of js/dispatch/runtime/action-runner.js, the modals that gate it *)
(* (js/dispatch/update/modal/confirm.js, fabric-form.js, fabric-field.js), *)
(* the run Cmds of js/dispatch/runtime/effects.js, and below them the      *)
(* streams of module Streams.                                              *)
(*                                                                         *)
(* do_run, run_action and unrouted_preempt_and_run are deferred with       *)
(* setImmediate.  The event loop handles input and child events in its     *)
(* poll phase; in the check phase it runs the callbacks that are queued,   *)
(* in order, and only then polls again.  One chunk of stdin may hold       *)
(* several keys (js/dispatch/control/input.js), so any number of keys is   *)
(* handled between a key that deferred a run and the run itself.           *)
(***************************************************************************)
EXTENDS Streams, Sequences

CONSTANTS Gated,        \* actions with a "confirm:" prompt
          Ports,        \* names of input ports
          PortsOf,      \* action -> its required input ports
          ItemActions,  \* docker's stop / restart / kill: run through a
                        \* run_action Cmd, always with a confirm, never a port
          EditArgs      \* the actions whose [a] edit-args form is used

ASSUME ActionRunsAssumption ==
  /\ Gated \subseteq Labels
  /\ PortsOf \in [Labels -> SUBSET Ports]
  /\ ItemActions \subseteq Gated \ Slots
  /\ \A a \in ItemActions: PortsOf[a] = {}
  /\ EditArgs \subseteq {a \in Labels: PortsOf[a] # {}}

Addr      == {x \in Labels \X Ports: x[2] \in PortsOf[x[1]]}
AddrOf(a) == {a} \X PortsOf[a]

\* The run Cmds.  asked is bookkeeping: the user accepted the action's confirm
\* prompt on the way to this Cmd.
Cmds == [type: {"do_run", "run_action", "unrouted_preempt_and_run"},
         action: Labels, old: 0..MaxJobs, asked: BOOLEAN]
Cmd(t, a, asked) == [type |-> t, action |-> a, old |-> NoJob, asked |-> asked]

NoCmd  == [type |-> "none"]
NoForm == [action |-> "none"]

VARIABLES
  mode,          \* the open chain modal: none, confirm, form, field, or other
  continuation,  \* model.modal.continuation
  onReject,      \* the addresses model.modal.onReject would consume
  form,          \* pendingAction of the open form or field
  oneShot,       \* the one-shot injects that wait for a run
  deferred,      \* callbacks queued by setImmediate
  turn,          \* how many of them the running check phase still has to run
  presses,       \* keys that asked for a run so far (bounded by MaxJobs)
  approved,      \* jobs whose killing the user has accepted
  unasked        \* gated jobs started without their confirm

modalVars == <<mode, continuation, onReject, form>>
uiVars  == <<mode, continuation, onReject, form, oneShot, deferred, turn,
             presses, approved, unasked>>
allVars == <<vars, uiVars>>

RunsInit ==
  /\ Init
  /\ mode = "none" /\ continuation = NoCmd /\ onReject = {} /\ form = NoForm
  /\ oneShot = {}
  /\ deferred = <<>> /\ turn = 0
  /\ presses = 0 /\ approved = {} /\ unasked = {}

Polling == ~down /\ turn = 0

(***************************************************************************)
(* Modals.  They are flat: one that is open is never replaced.             *)
(***************************************************************************)
ConfirmEnter(cmd) ==
  /\ IF mode = "none"
     THEN mode' = "confirm" /\ continuation' = cmd
     ELSE UNCHANGED <<mode, continuation>>
  /\ UNCHANGED <<onReject, form>>

FormEnter(a, lane, confirmed, asked) ==
  /\ IF mode = "none"
     THEN mode' = lane /\ form' = [action |-> a, confirmed |-> confirmed, asked |-> asked]
     ELSE UNCHANGED <<mode, form>>
  /\ UNCHANGED <<onReject, continuation>>

(***************************************************************************)
(* runAction, doRun, streamCommand: each within one callback.              *)
(***************************************************************************)
\* streamCommand with its preempt question; K is killed silently before it.
StreamCommand_NoRecheck(K, a, asked) ==
  IF K = {} /\ MustAsk(K, a)
  THEN /\ KillSilently(K) /\ UNCHANGED <<down, unasked>>
       /\ ConfirmEnter([Cmd("unrouted_preempt_and_run", a, asked)
                          EXCEPT !.old = Occupant(K, a)])
  ELSE /\ Start(K, a) /\ UNCHANGED <<unasked, modalVars>>
StreamCommand(K, a, asked) ==
  IF MustAsk(K, a)
  THEN /\ KillSilently(K) /\ UNCHANGED <<down, unasked>>
       /\ ConfirmEnter([Cmd("unrouted_preempt_and_run", a, asked)
                          EXCEPT !.old = Occupant(K, a)])
  ELSE /\ \/ Start(K, a) /\ unasked' = IF a \in Gated /\ ~asked
                                       THEN unasked \cup {seq + 1} ELSE unasked
          \/ StartThrows(K, a) /\ UNCHANGED unasked
       /\ UNCHANGED modalVars

Missing(a) == {p \in PortsOf[a]: <<a, p>> \notin oneShot}

\* _promptMissing: the form for several ports, the one-line field for one.
Prompt(a, asked) ==
  /\ FormEnter(a, IF Cardinality(PortsOf[a]) > 1 THEN "form" ELSE "field", TRUE, asked)
  /\ UNCHANGED <<vars, oneShot, unasked>>

DoRun(a, asked) ==
  IF Missing(a) # {}
  THEN Prompt(a, asked)
  ELSE oneShot' = oneShot \ AddrOf(a) /\ StreamCommand({}, a, asked)

\* The confirm gate.
RunAction(a, asked) ==
  IF a \in Gated /\ mode # "confirm"
  THEN ConfirmEnter(Cmd("do_run", a, asked)) /\ UNCHANGED <<vars, oneShot, unasked>>
  ELSE DoRun(a, asked)

(***************************************************************************)
(* Keys.                                                                   *)
(***************************************************************************)
Press == Polling /\ mode = "none" /\ presses < MaxJobs /\ presses' = presses + 1

\* Enter on an action, a leader binding, a palette pick or repeat_run.
PressRun(a) ==
  /\ Press
  /\ a \notin ItemActions
  /\ RunAction(a, FALSE)
  /\ UNCHANGED <<deferred, turn, approved>>

\* S, R or K on a container.
PressItem(a) ==
  /\ Press
  /\ deferred' = Append(deferred, Cmd("run_action", a, FALSE))
  /\ UNCHANGED <<vars, modalVars, oneShot, turn, approved, unasked>>

\* [a] on an action.
PressEditArgs(a) ==
  /\ Press
  /\ FormEnter(a, "form", FALSE, FALSE)
  /\ UNCHANGED <<vars, oneShot, deferred, turn, approved, unasked>>

Confirming == Polling /\ mode = "confirm"
CloseModal == mode' = "none" /\ continuation' = NoCmd /\ form' = NoForm

ConfirmAccept ==
  /\ Confirming
  /\ CloseModal /\ onReject' = {}
  /\ deferred' = Append(deferred,
       [continuation EXCEPT !.asked = @ \/ continuation.type = "do_run"])
  /\ approved' = approved \cup ({continuation.old} \ {NoJob})
  /\ UNCHANGED <<vars, oneShot, turn, presses, unasked>>

ConfirmReject ==
  /\ Confirming
  /\ CloseModal /\ onReject' = {}
  /\ oneShot' = oneShot \ onReject
  /\ UNCHANGED <<vars, deferred, turn, presses, approved, unasked>>

\* Submit with text in the fields of the ports filled.  A form with no text
\* while a port is required stays open.
FormSubmit(filled) ==
  /\ Polling /\ mode = "form"
  /\ filled \subseteq PortsOf[form.action] /\ filled # {}
  /\ LET typed == {form.action} \X filled
     IN  /\ oneShot' = oneShot \cup typed
         /\ onReject' = IF ~form.confirmed /\ form.action \in Gated
                        THEN typed ELSE onReject
  /\ deferred' = Append(deferred,
       Cmd(IF form.confirmed THEN "do_run" ELSE "run_action", form.action, form.asked))
  /\ CloseModal
  /\ UNCHANGED <<vars, turn, presses, approved, unasked>>

FieldSubmit ==
  /\ Polling /\ mode = "field"
  /\ oneShot' = oneShot \cup AddrOf(form.action)
  /\ deferred' = Append(deferred, Cmd("do_run", form.action, form.asked))
  /\ CloseModal
  /\ UNCHANGED <<vars, onReject, turn, presses, approved, unasked>>

PromptCancel ==
  /\ Polling /\ mode \in {"form", "field"}
  /\ CloseModal
  /\ UNCHANGED <<vars, onReject, oneShot, deferred, turn, presses, approved, unasked>>

\* Another modal of the mode chain: command line, menu, filter, ...
ToggleOther ==
  /\ Polling
  /\ \/ mode = "none" /\ mode' = "other"
     \/ mode = "other" /\ mode' = "none"
  /\ UNCHANGED <<vars, continuation, onReject, form, oneShot, deferred, turn,
                 presses, approved, unasked>>

(***************************************************************************)
(* The event loop.                                                         *)
(***************************************************************************)
CheckPhase ==
  /\ Polling /\ deferred # <<>>
  /\ turn' = Len(deferred)
  /\ UNCHANGED <<vars, modalVars, oneShot, deferred, presses, approved, unasked>>

RunDeferred ==
  /\ ~down /\ turn > 0
  /\ turn' = turn - 1 /\ deferred' = Tail(deferred)
  /\ LET c == Head(deferred)
     IN  \/ c.type = "do_run" /\ DoRun(c.action, c.asked)
         \/ c.type = "run_action" /\ RunAction(c.action, c.asked)
         \/ /\ c.type = "unrouted_preempt_and_run"
            /\ StreamCommand({c.old}, c.action, c.asked)
            /\ UNCHANGED oneShot
  /\ UNCHANGED <<presses, approved>>

\* What the streams do by themselves or at the user's request.
ChildEvent(j) == Polling /\ (CloseEvent(j) \/ ErrorEvent(j)) /\ UNCHANGED uiVars

StreamStep ==
  \/ \E j \in 1..seq:
       \/ ChildEvent(j)
       \/ Exit(j) /\ UNCHANGED uiVars
       \/ Polling /\ mode \in {"none", "other"} /\ Cancel(j) /\ UNCHANGED uiVars
  \/ Polling /\ mode = "none" /\ Quit /\ UNCHANGED uiVars

RunsNext ==
  \/ \E a \in Labels: PressRun(a)
  \/ \E a \in ItemActions: PressItem(a)
  \/ \E a \in EditArgs: PressEditArgs(a)
  \/ ConfirmAccept
  \/ ConfirmReject
  \/ \E filled \in SUBSET Ports: FormSubmit(filled)
  \/ FieldSubmit
  \/ PromptCancel
  \/ ToggleOther
  \/ CheckPhase
  \/ RunDeferred
  \/ StreamStep

\* The event loop reaches its check phase and runs what is queued; Node delivers
\* the events of a child.  Nothing is assumed of the user.
RunsFairness ==
  /\ WF_allVars(CheckPhase)
  /\ WF_allVars(RunDeferred)
  /\ \A j \in 1..MaxJobs: WF_allVars(j \in 1..seq /\ ChildEvent(j))

RunsSpec == RunsInit /\ [][RunsNext]_allVars /\ RunsFairness
-----------------------------------------------------------------------------
\* The types of the variables.
RunsTypeOK ==
  /\ TypeOK
  /\ mode \in {"none", "confirm", "form", "field", "other"}
  /\ continuation \in Cmds \cup {NoCmd}
  /\ mode = "confirm" <=> continuation # NoCmd
  /\ onReject \subseteq Addr /\ oneShot \subseteq Addr
  /\ form \in [action: Labels, confirmed: BOOLEAN, asked: BOOLEAN] \cup {NoForm}
  /\ mode \in {"form", "field"} <=> form # NoForm
  /\ deferred \in Seq(Cmds) /\ turn \in 0..Len(deferred)
  /\ presses \in 0..MaxJobs /\ seq <= presses
  /\ approved \subseteq 1..seq /\ unasked \subseteq 1..seq

\* A run never takes the Transcript from a different running command unless the
\* user agreed to the killing of that very command: between the question and the
\* killing, the command may have ended and others may have taken its place
\* (stream.js's confirm-before-preempt and its deferred half in effects.js).
PreemptionApproved ==
  [][\A j \in procs:
       (/\ seq' > seq /\ job'[seq'].slot = "unrouted"
        /\ job[j].slot = "unrouted" /\ j \notin procs'
        /\ job'[seq'].label # job[j].label) => j \in approved]_allVars

\* A job the user agreed to kill does get killed or is over by itself.
ApprovedKilled ==
  \A j \in 1..MaxJobs: j \in approved ~> j \notin procs

\* An action with a confirm prompt is never started unless its prompt was
\* accepted for this run (docs/action-ports-guide.md: confirm fires exactly once
\* per run, and a declined confirm never spawns anything).
ConfirmGatesRun == unasked = {}

\* Declining a confirm takes back only what was typed for the declined action
\* (confirm.js: the rollback of the confirm's own trigger).
RollbackIsOwn ==
  [][mode = "confirm" /\ mode' = "none" =>
       \A x \in oneShot \ oneShot': x[1] = continuation.action]_allVars
=============================================================================
