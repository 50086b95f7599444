------------------------------ MODULE MCConfig ------------------------------
(* Documents of a few families, one for each thing the loader can meet: what   *)
(* the two files say of three settings; ports whose declarations are shared;   *)
(* ways to run; bindings that run into each other; groups split over files.    *)
EXTENDS Config, TLC

Settings == {"theme", "editor", "color_depth", "action_status", "quick_keys"}
Silent == [s \in Settings |-> "absent"]

Act(name, ports) ==
  [name |-> name, group |-> "g", nested |-> name = "b", in |-> ports, out |-> {<<"o", "t">>},
   ways |-> {"script"}, output |-> "replace", type |-> "run", holes |-> {}]

Port(name, cell) == [name |-> name, type |-> "t", cell |-> cell]

Plain ==
  [read |-> "ok", form |-> "yaml", shape |-> "ok", settings |-> Silent,
   groups |-> [g |-> [e \in {<<"label">>, <<"actions", "a">>} |-> "main"]],
   positions |-> {<<<<"g">>>>}, actions |-> <<Act("a", <<>>)>>, wires |-> {}, heap |-> <<>>,
   metrics |-> {}, keys |-> <<>>, splits |-> <<>>]

\* What the project says, and the user, of three settings.
Sayings ==
  {[Silent EXCEPT !.theme = t, !.editor = e, !.color_depth = c] :
     t \in {"absent", "mine"}, e \in {"absent", "null", "mine", "bad"},
     c \in {"absent", "auto", "mine"}}

Layerings == {[Plain EXCEPT !.settings = s, !.form = f] : s \in Sayings, f \in {"yaml", "json"}}

NoUser == [read |-> "missing", settings |-> Silent, keys |-> <<>>]

Speakers ==
  {[NoUser EXCEPT !.read = "ok", !.settings = [Silent EXCEPT !.theme = t, !.editor = e, !.color_depth = c]] :
     t \in {"absent", "theirs"}, e \in {"absent", "theirs", "bad"}, c \in {"absent", "auto", "theirs"}}

\* Declarations of a port: what can be said of its choices, and of its value.
Declared(keys, values) ==
  UNION {[S -> values] : S \in SUBSET keys}

Choosing ==
  {d \in Declared({"choices", "choices_cmd", "choices_fn", "choices_labeled"}, {"list", "ok", "bad"}) :
     \A k \in DOMAIN d : d[k] = "list" => k = "choices"}

Valued ==
  {d \in Declared({"sensitive", "remember", "default", "variadic"}, {"true", "bad"}) :
     Is(d, "default", "true") => Is(d, "sensitive", "true")}

Dependent(d) == {d} \cup {("depends_on" :> on) @@ d : on \in {{"q"}, {"p", "q", "x"}, {"not a list"}}}

\* Two ports, which may be one declaration, and a third one in another action.
Ported ==
  {[Plain EXCEPT !.heap = <<d, <<>>>>, !.actions = <<Act("a", ports), Act("b", <<Port("r", r)>>)>>] :
     d \in UNION {Dependent(c) : c \in Choosing} \cup Valued, r \in {1, 2},
     ports \in {<<Port("p", 1), Port("q", 2)>>, <<Port("p", 2), Port("q", 1)>>,
                <<Port("p", 1), Port("q", 1)>>}}

\* Actions that run in one way, in two, with an output mode, with a hole.
Running ==
  {[Plain EXCEPT !.actions = <<[Act("a", <<Port("p", 1)>>) EXCEPT !.ways = w, !.output = o, !.type = t, !.holes = h]>>,
                 !.heap = <<<<>>>>] :
     w \in {{"script"}, {"run"}, {"run", "script"}}, o \in {"replace", "append"},
     t \in {"run", "spawn"}, h \in {{}, {"p"}, {"q"}}}

\* Bindings, of the project and of the user.
Key(seq, by) == [seq |-> seq, by |-> by, spelled |-> seq, targets |-> {"action"}]
Torn(by) == [Key(<<"x">>, by) EXCEPT !.targets = {"action", "command"}]
Chords == {<<"g">>, <<"g", "g">>, <<"x">>, <<"x", "y">>}
Bindings(by) == {<<>>, <<Torn(by)>>} \cup {<<Key(s, by)>> : s \in Chords}
                \cup {<<Key(s, by), Key(t, by)>> : s \in Chords, t \in Chords}

\* Projects split over several files.
Entries(by) ==
  {[e \in es |-> by] : es \in SUBSET {<<"actions", "a">>, <<"label">>, <<"wires">>, <<"children", "c">>}}

SplitNames == {"s", "t", "gone"}
MCSplits ==
  [n \in SplitNames |->
     [Plain EXCEPT !.read = IF n = "gone" THEN "not found" ELSE "ok",
        !.groups = IF n = "s" THEN [g |-> [e \in {<<"label">>, <<"actions", "b">>, <<"wires">>} |-> n]]
                   ELSE [g |-> [e \in {<<"actions", "a">>, <<"actions", "b">>} |-> n],
                         h |-> [e \in {<<"label">>, <<"actions", "a">>} |-> n]],
        !.actions = <<Act("b", <<Port("p", 1)>>)>>]]

Splitted ==
  {[Plain EXCEPT !.splits = ss, !.groups = [g |-> es], !.heap = <<<<>>>>,
      !.wires = ws,
      !.positions = IF "t" \in {ss[i] : i \in DOMAIN ss} THEN {<<<<"g">>>>, <<<<"h">>>>} ELSE @] :
     ss \in {<<>>, <<"s">>, <<"s", "t">>, <<"t", "s">>, <<"s", "gone">>},
     es \in Entries("main"),
     ws \in {{}, {[group |-> "g", from |-> <<"a", "o">>, to |-> <<"b", "p">>]}}}

\* Documents that are refused, or whose groups share a path.
Odd ==
  {[Plain EXCEPT !.read = "not found"], [Plain EXCEPT !.shape = "bad"],
   [Plain EXCEPT !.positions = {<<<<"a", "b">>>>, <<<<"a">>, <<"b">>>>}]}
  \cup {[Plain EXCEPT !.metrics = {[fields |-> f, columns |-> {}, mode |-> m, row_key |-> r]}] :
          f \in {{}, {"cpu"}, {"cpu", "ts"}}, m \in {"regex", "columns"}, r \in {"none", "cpu", "x"}}

MCDocuments ==
  {Plain} \cup Layerings \cup Ported \cup Running \cup Splitted \cup Odd
  \cup {[Plain EXCEPT !.keys = ks] : ks \in Bindings("project")}

MCUsers ==
  {NoUser, [NoUser EXCEPT !.read = "invalid"]} \cup Speakers
  \cup {[NoUser EXCEPT !.read = "ok", !.keys = ks] : ks \in Bindings("user")}

\* Families meet only where they concern each other.
ConfigFamilies ==
  \/ file \in Layerings /\ user.keys = <<>>
  \/ file.keys # <<>> /\ user.settings = Silent
  \/ user = NoUser

FamiliesInit == ConfigInit /\ ConfigFamilies
FamiliesSpec == FamiliesInit /\ [][ConfigNext]_configVars
=============================================================================
