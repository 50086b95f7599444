---------------------------- MODULE MCActionRuns ----------------------------
EXTENDS ActionRuns

CONSTANTS a, b, p, q

\* a has a confirm and two ports, asked for in a form; b has one, asked for in a
\* field.
MCLabels  == {a, b}
MCNone    == {}
MCGated   == {a}
MCPorts   == {p, q}
MCPortsOf == [x \in MCLabels |-> IF x = a THEN MCPorts ELSE {p}]
MCNoPorts == [x \in MCLabels |-> {}]
=============================================================================
