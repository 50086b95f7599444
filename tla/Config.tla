------------------------------- MODULE Config -------------------------------
(***************************************************************************)
(* Loading the configuration: the project's file, the YAML files it is     *)
(* split into, and the file of the user (js/parser, loadConfig of          *)
(* js/app/state.js), up to the key bindings of the boot (js/app/tui.js).   *)
(*                                                                         *)
(* A document is what a file says, by what the loader does with it.  A     *)
(* group is the function from its entries (<<"actions", "a">>, <<"wires">>)*)
(* to the document each comes from.  A port declaration is the function    *)
(* from its keys to their values, "bad" standing for every value the key   *)
(* does not take.  YAML aliases make one declaration serve several ports:  *)
(* declarations are cells of a heap, and a port names its cell.            *)
(*                                                                         *)
(* A definition named X_Suffix is a faulty variant of X; see Streams.      *)
(***************************************************************************)
EXTENDS Integers, Sequences, SequencesExt, FiniteSets

CONSTANTS Documents,  \* projects a run loads
          Users,      \* the user's files it loads them with
          Splits      \* [name -> the document of a YAML plugin, or why there is none]

\* What a document says, and the settings parse returns (below): of those it
\* leaves out, only quick_keys is spoken of here.
DocumentFields == {"read", "form", "shape", "settings", "groups", "positions", "actions",
                   "wires", "heap", "metrics", "keys", "splits"}
Returned == {"theme", "selection", "editor", "action_status", "color_depth",
             "theme_background", "keyboard_protocol"}

\* The keys of a port the validation knows; those of the other ports' keys that
\* it only passes on are left out.
PortKeys == {"choices", "choices_cmd", "choices_fn", "choices_labeled", "choices_timeout",
             "depends_on", "remember", "sensitive", "default", "variadic"}

Declaration(d) ==
  /\ d = [k \in DOMAIN d |-> d[k]] /\ DOMAIN d \subseteq PortKeys
  /\ "choices_fn" \in DOMAIN d => d["choices_fn"] \in {"ok", "bad"}

IsList(s) == s \in Seq({s[i] : i \in DOMAIN s})

\* The actions of a file, whose ports are declared in a heap.
ActionsIn(acts, heap) ==
  /\ IsList(acts)
  /\ \A i \in DOMAIN acts : /\ IsList(acts[i].in)
                            /\ \A j \in DOMAIN acts[i].in : acts[i].in[j].cell \in DOMAIN heap

\* The heap of a project holds the declarations of its splits, too.
ASSUME ConfigAssumption ==
  /\ \A d \in Documents :
       /\ d = [f \in DocumentFields |-> d[f]]
       /\ DOMAIN d.settings \subseteq Returned \cup {"quick_keys"}
       /\ d.splits \in Seq(DOMAIN Splits)
       /\ d.heap = [c \in DOMAIN d.heap |-> d.heap[c]]
       /\ \A c \in DOMAIN d.heap : Declaration(d.heap[c])
       /\ ActionsIn(d.actions, d.heap) /\ IsList(d.keys)
       /\ \A i \in DOMAIN d.splits : ActionsIn(Splits[d.splits[i]].actions, d.heap)
  /\ \A u \in Users : IsList(u.keys)

VARIABLES
  file,     \* the project's document, as it was read
  project,  \* the project's document, normalised in place while it is validated
  user,     \* the user's file
  load      \* the load: [phase, why, splits, visits, ports, dropped, warned,
            \*  config, outputs, unbound, declared, bound]

configVars == <<file, project, user, load>>

-----------------------------------------------------------------------------
(* The YAML plugins, merged before anything is validated. *)

\* What mergePluginInto adds to a group the project already has.
Mergeable == {"actions", "terminals", "children", "label", "compose"}

Brought(theirs) == {e \in DOMAIN theirs : e[1] \in Mergeable}

MergedGroup_TheirsWin(mine, theirs) ==
  [e \in DOMAIN mine \cup Brought(theirs) |-> IF e \in Brought(theirs) THEN theirs[e] ELSE mine[e]]

MergedGroup(mine, theirs) ==
  [e \in DOMAIN mine \cup Brought(theirs) |-> IF e \in DOMAIN mine THEN mine[e] ELSE theirs[e]]

\* The entries of a list that stand at some places, in their order.
EntriesAt(list, places) ==
  LET f[k \in 0..Len(list)] ==
        IF k = 0 THEN <<>> ELSE IF k \in places THEN Append(f[k - 1], list[k]) ELSE f[k - 1]
  IN  f[Len(list)]

\* mergePluginInto: a group the project lacks is taken whole.
MergePluginInto(main, plugin) ==
  [main EXCEPT
    !.groups = [g \in DOMAIN @ \cup DOMAIN plugin.groups |->
                  CASE g \notin DOMAIN plugin.groups -> @[g]
                    [] g \notin DOMAIN @ -> plugin.groups[g]
                    [] OTHER -> MergedGroup(@[g], plugin.groups[g])],
    !.actions = @ \o EntriesAt(plugin.actions,
                       {j \in DOMAIN plugin.actions :
                          \A i \in DOMAIN main.actions : main.actions[i].name # plugin.actions[j].name})]

Failed(l, why) == [l EXCEPT !.phase = "failed", !.why = why]

\* mergeYamlPlugins, one entry of `plugins:`.
MergeSplit ==
  /\ load.phase = "merging" /\ load.splits # <<>>
  /\ LET plugin == Splits[Head(load.splits)] IN
     IF plugin.read # "ok"
     THEN load' = Failed(load, plugin.read) /\ UNCHANGED project
     ELSE /\ project' = MergePluginInto(project, plugin)
          /\ load' = [load EXCEPT !.splits = Tail(@)]
  /\ UNCHANGED <<file, user>>

-----------------------------------------------------------------------------
(* Validation: the sections, then every action of every group. *)

\* A single port of an action.
Has(p, k) == k \in DOMAIN p
Is(p, k, v) == Has(p, k) /\ p[k] = v
Without(p, keys) == [k \in DOMAIN p \ keys |-> p[k]]

\* remember, sensitive and default are dropped when they have the wrong type,
\* and a sensitive port is never remembered.
Flagged(p) ==
  LET typed == Without(p, {k \in {"remember", "sensitive", "default"} : Is(p, k, "bad")})
  IN  IF ~Is(typed, "sensitive", "true") THEN typed
      ELSE [k \in DOMAIN typed \cup {"remember"} |-> IF k = "remember" THEN "false" ELSE typed[k]]

Clashes(p) ==
  \/ Has(p, "choices") /\ (Has(p, "choices_cmd") \/ Has(p, "choices_fn"))
  \/ Has(p, "choices_cmd") /\ Is(p, "choices_fn", "ok")
  \/ Is(p, "variadic", "bad")

\* choices: a list is replaced by {items, labels, truncated}; anything that is
\* not a list, a list already replaced included, is dropped.
Listed(p) ==
  CASE ~Has(p, "choices") -> p
    [] Is(p, "choices", "list") -> [p EXCEPT !["choices"] = "items"]
    [] OTHER -> Without(p, {"choices"})

\* choices_fn, choices_cmd, choices_labeled and choices_timeout.
Channelled(p) ==
  Without(p, {k \in {"choices_fn", "choices_cmd", "choices_labeled", "choices_timeout"} :
                Is(p, k, "bad")})

\* Two keys mean nothing without a command.
Attached(p) ==
  IF Has(p, "choices_cmd") THEN p
  ELSE Without(p, {"choices_labeled", "choices_timeout"})

\* depends_on: the siblings of the port, when there is a fetch to run again.
\* "not a list" in it stands for a value that is none.
Depending(p, me, siblings) ==
  CASE ~Has(p, "depends_on") -> p
    [] Has(p, "depends_on") /\ (Has(p, "choices") \/ "not a list" \in p["depends_on"]) ->
         Without(p, {"depends_on"})
    [] OTHER -> [p EXCEPT !["depends_on"] = (@ \cap siblings) \ {me}]

\* The dangling keys looked for before a bad choices_cmd is dropped.
Normalised_Early(p, me, siblings) ==
  Depending(Channelled(Attached(Listed(Flagged(p)))), me, siblings)

Normalised(p, me, siblings) ==
  Depending(Attached(Channelled(Listed(Flagged(p)))), me, siblings)

Banned == {"choices", "choices_cmd", "choices_fn", "depends_on", "default"}

\* _validateVariadicConstraints, over the ports as normalised.
VariadicOK(ports, heap) ==
  LET variadic == {i \in DOMAIN ports : Is(heap[ports[i].cell], "variadic", "true")}
  IN  variadic \subseteq {Len(ports)} /\
      \A i \in variadic : DOMAIN heap[ports[i].cell] \cap Banned = {}

NamesIn(ports) == {ports[i].name : i \in DOMAIN ports}

\* validateAction and validateActionRun: one way to run, an output mode for a
\* streamed run only, and a port for every hole of the template.
ActionOK(act) ==
  /\ Cardinality(act.ways) = 1
  /\ act.output = "append" => act.type = "run"
  /\ act.holes \subseteq NamesIn(act.in)

\* validateGroupWires: both ends are ports of actions of the group, of one type.
PortTypes(acts, group, dir) ==
  UNION {LET act == acts[i] IN
         IF act.group # group THEN {}
         ELSE IF dir = "out" THEN {<<act.name, port[1], port[2]>> : port \in act.out}
         ELSE {<<act.name, act.in[j].name, act.in[j].type>> : j \in DOMAIN act.in} :
         i \in DOMAIN acts}

WireOK(acts, w) ==
  \E type \in {p[3] : p \in PortTypes(acts, w.group, "out")} :
     /\ <<w.from[1], w.from[2], type>> \in PortTypes(acts, w.group, "out")
     /\ <<w.to[1], w.to[2], type>> \in PortTypes(acts, w.group, "in")

\* validateMetrics: a row is named by a field the producer extracts, and ts is
\* the producer's own.
MetricOK(m) ==
  /\ m.fields # {} /\ "ts" \notin m.fields \cup m.columns
  /\ m.mode \in {"columns", "json"} /\ m.row_key # "none" => m.row_key \in m.fields

\* validateGroup, the keys of a group the framework knows.
GroupOK(g) ==
  LET kinds == {e[1] : e \in DOMAIN g} IN
  /\ "label" \in kinds /\ kinds \cap {"actions", "children"} # {}
  /\ <<"config_branch", "source">> \in DOMAIN g => <<"config_branch", "paths">> \notin DOMAIN g

\* Sections that are only checked for shape: settings of these kinds take
\* neither null nor a value of the wrong form.
Unchecked == {"theme"}
Nullable  == {"action_status", "quick_keys"}

SettingOK(s, v) ==
  v = "absent" \/ s \in Unchecked \/ (v = "null" /\ s \in Nullable) \/ v \notin {"null", "bad"}

\* validateKeys, as validateKeymap and validateContextMenu: a binding has one
\* target, an action, a command or a built-in verb.
BindingsOK(keys) == \A i \in DOMAIN keys : Cardinality(keys[i].targets) = 1

\* validate, the top level: sections and metrics.
SectionsOK(doc) ==
  /\ doc.shape = "ok" /\ DOMAIN doc.groups # {} /\ BindingsOK(doc.keys)
  /\ \A s \in DOMAIN doc.settings : SettingOK(s, doc.settings[s])
  /\ \A m \in doc.metrics : MetricOK(m)

ValidateSections ==
  /\ load.phase = "merging" /\ load.splits = <<>>
  /\ load' = IF project.form = "json" THEN [load EXCEPT !.phase = "layering"]
             ELSE IF SectionsOK(project)
             THEN [load EXCEPT !.phase = "validating"]
             ELSE Failed(load, "schema")
  /\ UNCHANGED <<file, project, user>>

\* The walk over the actions of the groups, and the action it is at.
Visiting == load.phase = "validating" /\ load.visits < Len(project.actions)
Visited == project.actions[load.visits + 1]

\* validateActionPorts, one input of the action.  The groups below the top are
\* validated without the list of warnings, and what is wrong in them is dropped
\* in silence.
ValidatePort ==
  /\ Visiting /\ load.ports < Len(Visited.in)
  /\ LET act == Visited
         port == act.in[load.ports + 1]
         d == project.heap[port.cell]
         n == Normalised(d, port.name, NamesIn(act.in))
         lost == {<<act.name, port.name, k>> : k \in DOMAIN d \ DOMAIN n}
     IN IF ~ActionOK(act) \/ Clashes(d)
        THEN load' = Failed(load, "schema") /\ UNCHANGED project
        ELSE /\ project' = [project EXCEPT !.heap[port.cell] = n]
             /\ load' = [load EXCEPT !.ports = @ + 1, !.dropped = @ \cup lost,
                                     !.warned = @ \cup IF act.nested THEN {} ELSE lost]
  /\ UNCHANGED <<file, user>>

\* The rest of an action, once its ports are done.
ValidateAction ==
  /\ Visiting /\ load.ports = Len(Visited.in)
  /\ load' = IF ActionOK(Visited) /\ VariadicOK(Visited.in, project.heap)
             THEN [load EXCEPT !.visits = @ + 1, !.ports = 0]
             ELSE Failed(load, "schema")
  /\ UNCHANGED <<file, project, user>>

ValidateGroups ==
  /\ load.phase = "validating" /\ load.visits = Len(project.actions)
  /\ load' = IF (\A g \in DOMAIN project.groups : GroupOK(project.groups[g]))
                /\ \A w \in project.wires : WireOK(project.actions, w)
             THEN [load EXCEPT !.phase = "layering"]
             ELSE Failed(load, "schema")
  /\ UNCHANGED <<file, project, user>>

-----------------------------------------------------------------------------
(* The file of the user, layered under the project. *)

AutoIsUnset == {"color_depth", "keyboard_protocol"}

\* validateGlobal and loadGlobal: a file that is missing, unreadable, empty or
\* wrong counts for nothing.
Honoured(u) ==
  u.read = "ok" /\ BindingsOK(u.keys) /\ \A s \in DOMAIN u.settings : SettingOK(s, u.settings[s])

Unset(s, v) == v \in {"absent", "null"} \/ (s \in AutoIsUnset /\ v = "auto")

\* mergeGlobal.  Bindings are lists of [seq, by, spelled, targets]; one of the
\* project replaces the one of the user that is spelled the same.
MergeGlobal(doc, u) ==
  [doc EXCEPT
    !.settings = [s \in DOMAIN @ |->
                    IF Unset(s, @[s]) /\ u.settings[s] # "absent" THEN u.settings[s] ELSE @[s]],
    !.keys = LET own(b) == {i \in DOMAIN doc.keys : doc.keys[i].spelled = b.spelled}
             IN  [i \in DOMAIN u.keys |->
                    IF own(u.keys[i]) = {} THEN u.keys[i]
                    ELSE doc.keys[CHOOSE j \in own(u.keys[i]) : TRUE]]
                 \o EntriesAt(@, {j \in DOMAIN @ :
                                     \A i \in DOMAIN u.keys : u.keys[i].spelled # doc.keys[j].spelled})]

\* What parse returns is a whitelist: of the settings, with their defaults, and
\* in walkGroups of the keys of an action, which leaves its output mode out.
Assembled(doc) ==
  IF doc.form = "json" THEN doc.settings
  ELSE [s \in DOMAIN doc.settings |->
          IF s \in Returned THEN doc.settings[s] ELSE "absent"]

Outputs(doc) ==
  [i \in DOMAIN doc.actions |->
     IF doc.form = "json" THEN doc.actions[i].output ELSE "replace"]

\* walkGroups: a group is known by the path to it, and a name may hold dots: a
\* position is a sequence of names, a name a sequence of words.
PathOf(position) == FlattenSeq(position)

DuplicatePath(doc) ==
  \E p, q \in doc.positions : p # q /\ PathOf(p) = PathOf(q)

\* mergeGlobal and the rest of parse; for a resolved configuration in JSON,
\* loadConfig merges alone.
Layer ==
  /\ load.phase = "layering"
  /\ LET merged == IF Honoured(user) THEN MergeGlobal(project, user) ELSE project
     IN  load' = IF project.form = "yaml" /\ DuplicatePath(project)
                 THEN Failed(load, "duplicate group")
                 ELSE [load EXCEPT !.phase = "binding", !.unbound = merged.keys,
                                   !.config = Assembled(merged), !.outputs = Outputs(merged)]
  /\ UNCHANGED <<file, project, user>>

-----------------------------------------------------------------------------
(* The key bindings, registered one by one in a tree that starts with the    *)
(* built-in chords.  A node is [by, leaf, builtin].                          *)

Node(by, leaf, builtin) == [by |-> by, leaf |-> leaf, builtin |-> builtin]

ProperPrefixes(seq) == {SubSeq(seq, 1, i) : i \in 1..Len(seq) - 1}
Below(tree, seq) == {s \in DOMAIN tree : seq \in ProperPrefixes(s)}

\* registerKeyBinding: a binding may not run through a leaf, nor end at a
\* subtree, unless that is built in.
Blocked(tree, seq) ==
  \/ \E p \in ProperPrefixes(seq) \cap DOMAIN tree : tree[p].leaf /\ ~tree[p].builtin
  \/ seq \in DOMAIN tree /\ ~tree[seq].leaf /\ ~tree[seq].builtin

Registered(tree, seq, by) ==
  LET fresh == {p \in ProperPrefixes(seq) : p \in DOMAIN tree => tree[p].leaf}
  IN  [s \in ((DOMAIN tree \cup ProperPrefixes(seq)) \ Below(tree, seq)) \cup {seq} |->
         IF s = seq THEN Node(by, TRUE, FALSE)
         ELSE IF s \in fresh THEN Node(by, FALSE, FALSE) ELSE tree[s]]

\* _registerBuiltinChords.
BuiltinChords ==
  [s \in {<<"c">>, <<"g">>, <<"g", "g">>} |-> Node("builtin", s # <<"g">>, TRUE)]

\* loadKeyBindings, one entry of `keys:`; a conflict ends the boot.
Bind ==
  /\ load.phase = "binding" /\ load.unbound # <<>>
  /\ LET entry == Head(load.unbound) IN
     load' = IF Blocked(load.bound, entry.seq) THEN Failed(load, "keys")
             ELSE [load EXCEPT !.unbound = Tail(@), !.declared = Append(@, entry),
                               !.bound = Registered(@, entry.seq, entry.by)]
  /\ UNCHANGED <<file, project, user>>

Ready ==
  /\ load.phase = "binding" /\ load.unbound = <<>>
  /\ load' = [load EXCEPT !.phase = "ready"]
  /\ UNCHANGED <<file, project, user>>

-----------------------------------------------------------------------------
(* The load. *)

ConfigInit ==
  /\ file \in Documents /\ user \in Users /\ project = file
  /\ load = [phase |-> IF file.read = "ok" THEN "merging" ELSE "failed", why |-> file.read,
             splits |-> file.splits, visits |-> 0, ports |-> 0, dropped |-> {}, warned |-> {},
             config |-> <<>>, outputs |-> <<>>, unbound |-> <<>>, declared |-> <<>>,
             bound |-> BuiltinChords]

ConfigNext ==
  \/ MergeSplit \/ ValidateSections \/ ValidatePort \/ ValidateAction \/ ValidateGroups
  \/ Layer \/ Bind \/ Ready

ConfigSpec == ConfigInit /\ [][ConfigNext]_configVars

-----------------------------------------------------------------------------
(* Properties. *)

Validated == file.form = "yaml" /\ load.phase \in {"layering", "binding", "ready"}

InputsOf(act) == {act.in[i] : i \in DOMAIN act.in}

\* A declared port the rest of the program can use without looking again.
Usable(act, p) ==
  LET d == project.heap[p.cell]
      channels == {"choices", "choices_cmd", "choices_fn"} \cap DOMAIN d
  IN  /\ Cardinality(channels) <= 1 /\ \A k \in DOMAIN d \ {"depends_on"} : d[k] # "bad"
      /\ Is(d, "choices", "items") \/ ~Has(d, "choices")
      /\ {"choices_labeled", "choices_timeout"} \cap DOMAIN d = {} \/ Has(d, "choices_cmd")
      /\ Has(d, "depends_on") => ~Has(d, "choices")
                                 /\ d["depends_on"] \subseteq NamesIn(act.in) \ {p.name}
      /\ Is(d, "sensitive", "true") => Is(d, "remember", "false")
      /\ Is(d, "variadic", "true") => p = act.in[Len(act.in)] /\ DOMAIN d \cap Banned = {}

\* A configuration that passes validation is one the forms and the fabric can
\* rely on: every port has at most one source of choices, in the shape the form
\* reads, keys that need a command only with one, dependencies on siblings only,
\* a sensitive port never remembered, the variadic port last and plain; every
\* wire joins an output to an input of its type; and a binding, the user's
\* included, has one target.  This holds for the
\* declarations as they stand after the whole file was validated, one
\* declaration serving several ports included (validateActionPorts,
\* validateGroupWires; fabric-form.js and the fabric host read them unchecked).
AcceptedIsUsable ==
  Validated =>
    /\ \A i \in DOMAIN project.actions : \A p \in InputsOf(project.actions[i]) :
         Usable(project.actions[i], p)
    /\ \A w \in project.wires : WireOK(project.actions, w)
    /\ BindingsOK(load.declared \o load.unbound)

\* The layer that speaks first about a setting: the project, then the user.
Spoken(s) ==
  LET mine == file.settings[s]
      theirs == IF Honoured(user) THEN user.settings[s] ELSE "absent"
  IN  IF Unset(s, mine) /\ theirs # "absent" THEN theirs ELSE mine

\* The documents that say something about a group, in the order they count.
Layers == <<file>> \o [i \in DOMAIN file.splits |-> Splits[file.splits[i]]]

FirstOf(g, e) ==
  LET says == {i \in DOMAIN Layers : g \in DOMAIN Layers[i].groups
                                     /\ e \in DOMAIN Layers[i].groups[g]}
  IN  Layers[CHOOSE i \in says : \A j \in says : i <= j].groups[g][e]

\* Layering: once everything is merged, every setting means what the project
\* says or else what the user says, and every entry of every group what the
\* first file that declares it says: the project's own file, then its splits in
\* their order.  A later file never changes what an earlier one declared, and no
\* group is lost, nor any entry of one but for the kinds that are not merged (the
\* wires, the archive and the config_branch of a split, README, section 5)
\* (mergePluginInto, mergeGlobal; docs/global-config.md).
Layered ==
  load.phase \in {"binding", "ready"} =>
    /\ \A s \in DOMAIN file.settings \ {"quick_keys"} : load.config[s] = Spoken(s)
    /\ \A g \in DOMAIN project.groups : \A e \in DOMAIN project.groups[g] :
         project.groups[g][e] = FirstOf(g, e)
    /\ \A i \in DOMAIN Layers : \A g \in DOMAIN Layers[i].groups :
         /\ g \in DOMAIN project.groups
         /\ \A e \in DOMAIN Layers[i].groups[g] :
              e[1] \in Mergeable => e \in DOMAIN project.groups[g]

\* What is declared counts: a setting or an output mode validation accepts is
\* the one in force once the program has started (docs/DATAFLOW.md: "a per-action
\* output: append flips the re-run behavior"; docs/global-config.md: quick_keys
\* is lifted onto the merged config).  It does not hold: the lists of what
\* parse and walkGroups return leave both out.
DeclaredCounts ==
  load.phase = "ready" =>
    /\ \A s \in DOMAIN file.settings : load.config[s] = Spoken(s)
    /\ \A i \in DOMAIN project.actions : load.outputs[i] = project.actions[i].output

\* Two bindings of which one begins the other are caught, whichever is declared
\* first (js/leaves/input/keybindings.js: "genuine config mistakes (binding both
\* g and gg) are still caught").  It does not hold: the built-in subtree of g
\* stays built in below the user's gg, and the user's g replaces it.
ConflictsCaught ==
  load.phase = "ready" =>
    \A i, j \in DOMAIN load.declared : load.declared[i].seq \notin ProperPrefixes(load.declared[j].seq)

\* No file of the user keeps a project from starting
\* (docs/global-config.md, "Failure contract").  It does not hold either: a
\* binding of the user that begins one of the project ends the boot.
GlobalHarmless ==
  load.phase = "failed" /\ load.why = "keys" =>
    \E i, j \in DOMAIN file.keys : i # j /\ file.keys[i].seq \in ProperPrefixes(file.keys[j].seq)
=============================================================================
