------------------------------ MODULE MCScreen ------------------------------
(* Three components that never meet, checked in one run: a behaviour is one of *)
(* the sources that follow the screen, of the table of processes, or of the    *)
(* group navigator.                                                            *)
EXTENDS Subscriptions, ProcessTable, MCGroupSwitch

VARIABLE part   \* whose behaviour it is

\* A gauge wants one sample, a stats pane three.
MCWindow == [gauge |-> 1, stats |-> 3]

\* A chain of processes: init, one of a low and one of a high load.
MCFirstSync == [p \in Pids |-> [parent |-> p - 1, load |-> p - 1]]

\* The tree of every table there can be, in every order, however it is folded.
ASSUME TreesAreWhole ==
  \A m \in Tables, sort \in {"none", "up", "down"}, folded \in SUBSET Pids :
    TreeIsWhole([sort |-> sort, folded |-> folded], m)

ScreenInit ==
  /\ part \in {"sources", "table", "groups"}
  /\ SubsInit /\ TableInit /\ Init
  /\ part # "table" => table.sort = "none"
  /\ part # "sources" => "terminal" \notin screen.placed

ScreenNext ==
  /\ part' = part
  /\ \/ part = "sources" /\ SubsNext /\ UNCHANGED <<tableVars, vars>>
     \/ part = "table" /\ TableNext /\ UNCHANGED <<subsVars, vars>>
     \/ part = "groups" /\ Next /\ UNCHANGED <<subsVars, tableVars>>

ScreenSpec == ScreenInit /\ [][ScreenNext]_<<part, subsVars, tableVars, vars>>
=============================================================================
