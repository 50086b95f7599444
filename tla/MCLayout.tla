------------------------------ MODULE MCLayout ------------------------------
(* A viewer with its Info tab, a navigator and the actions pane in two         *)
(* columns, and one terminal tab that can be minted.                           *)
EXTENDS Layout

MCConfigIds == {"detail", "files", "actions"}
MCViewer == {"detail"}
MCDraggable == {<<"grid", "detail">>, <<"pool", "files">>}
MCMinted == {"term"}
MCSeedOf == [v \in {"detail"} |-> "info"]
MCKind == [i \in {"detail", "files", "actions", "term", "info"} |->
             IF i = "term" THEN "terminal" ELSE i]
MCInitCols ==
  << <<Pane("files")>>,
     << [Pane("detail") EXCEPT !.tabs = <<"info">>, !.active = "info"], Pane("actions")>> >>
=============================================================================
