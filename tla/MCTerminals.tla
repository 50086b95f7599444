---------------------------- MODULE MCTerminals ----------------------------
(* The viewer and a navigator; a shell reopened under its own id, and one      *)
(* terminal opened under a fresh one.                                          *)
EXTENDS Terminals

MCConfigIds == {"detail", "files"}
MCMinted == {"shell", "term"}
MCStable == {"shell"}
MCSeedOf == [v \in {"detail"} |-> "info"]
MCKind == [i \in {"detail", "files", "info", "shell", "term"} |->
             IF i \in MCMinted THEN "terminal" ELSE i]
MCNone == {}
MCInitCols ==
  << <<Pane("files")>>, <<[Pane("detail") EXCEPT !.tabs = <<"info">>, !.active = "info"]>> >>
=============================================================================
