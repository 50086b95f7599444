------------------------------ MODULE MCPanes -------------------------------
(* Three components that never meet, checked in one run: a behaviour is one    *)
(* of the instances of the panes, of the producers of live data, or of the     *)
(* jumplist alone.  The jumplist has three locations and a ring of four: every *)
(* list of locations that fits, with every cursor, and the eviction.           *)
EXTENDS Instances, Producers, NavHistory

VARIABLE part   \* whose behaviour it is

\* A files pane, a config-status pane, and a pane whose user opens tabs in it.
MCKindOf == [files |-> "files", cfg |-> "config-status", groups |-> "groups"]

Init ==
  /\ part \in {"instances", "producers", "history"}
  /\ InstInit /\ ProdInit /\ NavInit
  /\ part # "producers" => ~window.placed /\ world.up = {}

Next ==
  /\ part' = part
  /\ \/ part = "instances" /\ InstNext /\ UNCHANGED <<prodVars, ring>>
     \/ part = "producers" /\ ProdNext /\ UNCHANGED <<instVars, ring>>
     \/ part = "history" /\ NavNext /\ UNCHANGED <<instVars, prodVars>>

Spec ==
  /\ Init /\ [][Next]_<<part, instVars, prodVars, ring>>
  /\ WF_instVars(InstEvents /\ part = "instances")
  /\ part = "producers" => ProdFairness
=============================================================================
