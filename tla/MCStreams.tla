----------------------------- MODULE MCStreams -----------------------------
EXTENDS Streams

CONSTANTS tab, l1, l2

MCSlots == {tab}
MCProducers == {tab}
MCLabels == {tab, l1, l2}
=============================================================================
