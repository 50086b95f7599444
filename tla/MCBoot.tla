------------------------------- MODULE MCBoot -------------------------------
(* Components that never meet, checked in one run: a behaviour is one of the   *)
(* loader of the configuration, of the loader of its layout, of the runs of    *)
(* actions, of the painting, or of the text views.                             *)
EXTENDS MCConfig, GridFile, MCActionRuns, Paint, TextViews

VARIABLE part   \* whose behaviour it is

MCPoolKind == [detail |-> "detail", viewer |-> "detail", actions |-> "actions", files |-> "files"]

\* The pools of the code, shortened.
MCLeftPool == <<"1", "2">>
MCRightPool == <<"7", "8">>

Cell(tabs, hotkey, collapsed) ==
  [tabs |-> tabs, active |-> tabs[Len(tabs)], hotkey |-> hotkey, collapsed |-> collapsed]

MCCells ==
  {Cell(<<"detail">>, k, c) : k \in {"", "7"}, c \in BOOLEAN}
  \cup {Cell(ts, k, FALSE) : ts \in {<<"viewer">>, <<"actions">>, <<"files">>, <<"gone">>, <<"files", "actions">>, <<"files", "viewer">>},
                            k \in {"", "1"}}

MCColumnOf == [t1 |-> "p1", t2 |-> "p1", t3 |-> "p2"]
MCSeeds == [t1 |-> <<1, 2, 3>>, t2 |-> <<>>, t3 |-> <<>>]

BootInit ==
  /\ part \in {"config", "grid", "runs", "paint", "text"}
  /\ FamiliesInit /\ GridInit /\ RunsInit /\ PaintInit /\ TextInit
  /\ part # "config" => file = Plain /\ user = NoUser

BootNext ==
  /\ part' = part
  /\ \/ part = "config" /\ ConfigNext /\ UNCHANGED <<grid, allVars, paintVars, textVars>>
     \/ part = "grid" /\ GridNext /\ UNCHANGED <<configVars, allVars, paintVars, textVars>>
     \/ part = "runs" /\ RunsNext /\ UNCHANGED <<configVars, grid, paintVars, textVars>>
     \/ part = "paint" /\ PaintNext /\ UNCHANGED <<configVars, grid, allVars, textVars>>
     \/ part = "text" /\ TextNext /\ UNCHANGED <<configVars, grid, allVars, paintVars>>

BootSpec == BootInit /\ [][BootNext]_<<part, configVars, grid, allVars, paintVars, textVars>>
=============================================================================
