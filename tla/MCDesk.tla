------------------------------- MODULE MCDesk -------------------------------
(* Components that never meet, checked in one run: a behaviour is one of the   *)
(* layout, of a recording and its replay, of the bytes of the keyboard, or of  *)
(* the modes the keys go to.  The layout is taken three times: with drags and  *)
(* no tabs to mint, with tabs and no drags, and with both on two panes.        *)
EXTENDS MCLayout, Replay, InputChunks, InputModes

VARIABLE part   \* whose behaviour it is

MCNone == {}
MCPair == {"detail", "actions"}
MCPairCols == << <<Head(InitCols[2])>>, Tail(InitCols[2]) >>
MCPairDrags == {<<"grid", "detail">>, <<"pool", "actions">>}

Tabs == INSTANCE Layout WITH TabHosts <- MCViewer, Draggable <- MCNone
TwoPanes == INSTANCE Layout WITH
  ConfigIds <- MCPair, InitCols <- MCPairCols, Kind <- [i \in Ids \ {"files"} |-> Kind[i]],
  TabHosts <- MCViewer, Draggable <- MCPairDrags

MCCommands ==
  {[confirm |-> TRUE, ports |-> "form", spawns |-> TRUE],
   [confirm |-> FALSE, ports |-> "none", spawns |-> TRUE],
   [confirm |-> FALSE, ports |-> "field", spawns |-> FALSE]}

DeskInit ==
  /\ \/ part \in {"layout", "tabs", "replay", "bytes", "modes"} /\ Init
     \/ part = "two panes" /\ TwoPanes!Init
  /\ ReplayInit /\ InputInit /\ UiInit

DeskNext ==
  /\ part' = part
  /\ \/ part = "layout" /\ Next /\ UNCHANGED <<replayVars, inputVars, ui>>
     \/ part = "tabs" /\ Tabs!Next /\ UNCHANGED <<replayVars, inputVars, ui>>
     \/ part = "two panes" /\ TwoPanes!Next /\ UNCHANGED <<replayVars, inputVars, ui>>
     \/ part = "replay" /\ ReplayNext /\ UNCHANGED <<vars, inputVars, ui>>
     \/ part = "bytes" /\ InputNext /\ UNCHANGED <<vars, replayVars, ui>>
     \/ part = "modes" /\ UiNext /\ UNCHANGED <<vars, replayVars, inputVars>>

DeskSpec == DeskInit /\ [][DeskNext]_<<part, vars, replayVars, inputVars, ui>>
=============================================================================
