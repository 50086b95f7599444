--------------------------- MODULE MCGroupSwitch ----------------------------
(* Two groups: a and its child b, which is pinned in the quick tab; a lists    *)
(* two containers and two actions, b none.  The wheel reaches the actions      *)
(* pane, the focus keys the other three.                                       *)
EXTENDS GroupSwitch

MCOrder == <<"a", "b">>
MCParent == [a |-> "root", b |-> "a"]
MCContainers == [a |-> <<"x", "y">>, b |-> <<>>]
MCActions == [a |-> <<"r", "s">>, b |-> <<>>]
MCFocusable == {"pane-groups", "pane-containers", "slot"}
=============================================================================
