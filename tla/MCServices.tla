----------------------------- MODULE MCServices -----------------------------
(* Three components that never meet, checked in one run: a behaviour is one of *)
(* the terminals, of the agent session of a pane, or of the choices of a form. *)
EXTENDS Agents, Choices, MCTerminals

VARIABLE part   \* whose behaviour it is

\* A list of two values, one of which the popover's filter lets through; none.
MCSizes == {<<2, 1>>, <<0, 0>>}

\* Bound: the popover opens only while a fetch is left to be started.
PickerBound == form.picking = <<>> /\ form'.picking # <<>> => Len(fetches) < MaxFetches

ServicesInit == part \in {"terminals", "agents", "choices"} /\ TermInit /\ AgentInit /\ ChoicesInit

ServicesNext ==
  /\ part' = part
  /\ \/ part = "terminals" /\ TermNext /\ UNCHANGED <<agentVars, choicesVars>>
     \/ part = "agents" /\ AgentNext /\ UNCHANGED <<termVars, choicesVars>>
     \/ part = "choices" /\ ChoicesNext /\ PickerBound /\ UNCHANGED <<termVars, agentVars>>

ServicesSpec ==
  /\ ServicesInit /\ [][ServicesNext]_<<part, termVars, agentVars, choicesVars>>
  /\ \A s \in 1..MaxSessions : WF_agentVars(AgentEvents(s) /\ part = "agents")
  /\ \A i \in 1..MaxFetches : WF_choicesVars(ChoicesEvents(i) /\ part = "choices")
=============================================================================
