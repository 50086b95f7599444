----------------------------- MODULE Instances ------------------------------
(***************************************************************************)
(* The instances behind the panes (js/panel/route.js) and the dispatch of  *)
(* Component Msgs to them (js/dispatch/runtime/loop.js): a placed tab has  *)
(* an instance with a slice, a pane is named by the tab it was built with, *)
(* and a Msg to a pane, or a slice written under its name, goes to the tab *)
(* it shows.                                                               *)
(*                                                                         *)
(* The Msgs are those of two Components that load behind the program: the  *)
(* directory listings of a files pane (js/panel/navigator/files.js) and    *)
(* the git status of a config-status pane (config-status.js).  Their       *)
(* results come late: the pane may show another tab by then, may be gone,  *)
(* or back, and the layout may be frozen for editing.                      *)
(*                                                                         *)
(* A definition named X_Suffix is a faulty variant of X; see Streams.      *)
(***************************************************************************)
EXTENDS Naturals, Sequences, FiniteSets, Functions

CONSTANTS PaneIds,   \* pool ids that are placed as panes
          Minted,    \* pool ids of text-view tabs opened in a pane
          TabHosts,  \* the panes whose user opens tabs in them
          KindOf,    \* [PaneIds -> "files", "config-status" or "groups"]
          Dirs,      \* the directories of the files panes
          MaxLoads,  \* bound on the listings a slice asks for
          MaxMints   \* bound on the instances ever minted for pane ids

Ids == PaneIds \cup Minted
KindOfTab(t) == IF t \in Minted THEN "text-view" ELSE KindOf[t]

ASSUME InstAssumption ==
  /\ PaneIds \cap Minted = {} /\ TabHosts \subseteq PaneIds /\ DOMAIN KindOf = PaneIds
  /\ IsFiniteSet(PaneIds) /\ Dirs # {}
  /\ MaxLoads \in Nat /\ MaxMints \in Nat

VARIABLES
  arrange,    \* [placed panes -> tabs and the one shown]
  insts,      \* _instances: [mounted tabs -> slice]
  listings,   \* loadDir effects that have not answered
  computes,   \* cfgStatusCompute effects that have not run, in order
  frozen,     \* model.modes.freeConfigMode
  mints       \* how many instances were minted, to tell one from the next

instVars == <<arrange, insts, listings, computes, frozen, mints>>

\* A slice: madeFor is the tab whose Component it belongs to.  mint and
\* madeFor are not in the code, nor is the from of a listing.
NoDir == "none"
NoRows == [dir |-> NoDir, from |-> 0]
Slice == [madeFor : Ids, mint : Nat, computing : BOOLEAN, cwd : Dirs \cup {NoDir}, seq : Nat,
          loading : BOOLEAN, rows : [dir : Dirs \cup {NoDir}, from : Nat]]

Listing == [pane : PaneIds, dir : Dirs, seq : Nat, from : Nat]
Compute == [pane : PaneIds, aborted : BOOLEAN, keyed : BOOLEAN]

\* The tabs of a layout.
Mounted(panes) == UNION {panes[p].tabs : p \in DOMAIN panes}

InstTypeOK ==
  /\ DOMAIN arrange \subseteq PaneIds
  /\ \A p \in DOMAIN arrange : arrange[p].active \in arrange[p].tabs /\ p \in arrange[p].tabs
  /\ DOMAIN insts = Mounted(arrange)
  /\ \A t \in DOMAIN insts : insts[t] \in Slice
  /\ listings \subseteq Listing /\ computes \in Seq(Compute)
  /\ frozen \in BOOLEAN /\ mints \in Nat

-----------------------------------------------------------------------------
(* Routing.                                                                *)

\* _resolveActive: the name of a pane stands for the tab it shows, even when
\* it is meant as the instance of its first tab.
ResolveActive(id) == IF id \in DOMAIN arrange THEN arrange[id].active ELSE id

PaneOf(t) == CHOOSE p \in DOMAIN arrange : t \in arrange[p].tabs

\* _runInstance for every instance: each update gets its own slice, and what it
\* returns is written through the name of the instance.
WriteAll(next) ==
  [t \in DOMAIN insts |->
     LET writers == {u \in DOMAIN insts : ResolveActive(u) = t}
     IN  IF writers = {} THEN insts[t]
         ELSE next[IF writers = {t} THEN t ELSE CHOOSE u \in writers : u # t]]

\* The free-config gate: the Msgs of the panes are dropped while the layout is
\* being edited, but for the results that clear a latch.
Passes_NoListing(type) == ~frozen \/ type \in {"agent_event", "dockerResult", "cfgStatusResult"}
Passes(type) ==
  ~frozen \/ type \in {"agent_event", "dockerResult", "cfgStatusResult", "dirLoaded"}

\* The instance a Msg wrapped for a pane reaches; none if the pane is gone.
Wrapped(type, pane) ==
  IF Passes(type) /\ pane \in DOMAIN arrange THEN {ResolveActive(pane)} ELSE {}

-----------------------------------------------------------------------------
(* Keyed effects (dispatch/runtime/effects.js).                            *)

CancelEffect_Kept(cs, keys) == cs
CancelEffect(cs, keys) ==
  [i \in DOMAIN cs |-> IF cs[i].pane \in keys /\ cs[i].keyed
                       THEN [cs[i] EXCEPT !.aborted = TRUE, !.keyed = FALSE] ELSE cs[i]]

\* A compute for each of the panes, in the order of a broadcast.
Scheduled(panes) ==
  LET n == Cardinality(panes)
      order == CHOOSE s \in Bijection(1..n, panes) : TRUE
  IN  [i \in 1..n |-> [pane |-> order[i], aborted |-> FALSE, keyed |-> TRUE]]

RunKeyed(cs, panes) == CancelEffect(cs, panes) \o Scheduled(panes)

-----------------------------------------------------------------------------
(* The Components.                                                         *)

NewSlice(t, n) == [madeFor |-> t, mint |-> n, computing |-> FALSE, cwd |-> NoDir, seq |-> 0,
                   loading |-> FALSE, rows |-> NoRows]

\* A files pane owns its slice only if it was made for one: any other makes the
\* update throw, which leaves the slice as it was.
Browses(t, s) ==
  KindOfTab(t) = "files" /\ KindOfTab(s.madeFor) = "files" /\ arrange[PaneOf(t)].active = t

\* _kickLoad.
KickLoad(s, dir) == [s EXCEPT !.cwd = dir, !.rows = NoRows, !.loading = TRUE, !.seq = @ + 1]
LoadOf(t, s) == [pane |-> PaneOf(t), dir |-> s.cwd, seq |-> s.seq, from |-> s.mint]

\* The root of the pane, where a fresh browser starts.
Root == CHOOSE d \in Dirs : TRUE
DirOf(s) == IF s.cwd = NoDir THEN Root ELSE s.cwd

Computes(t, s) == KindOfTab(t) = "config-status" /\ ~s.computing

OnRefresh(t, s) ==
  IF Browses(t, s) THEN KickLoad(s, DirOf(s))
  ELSE IF Computes(t, s) THEN [s EXCEPT !.computing = TRUE] ELSE s

StaleSeq_Any(s, l) == FALSE
StaleSeq(s, l) == l.seq # s.seq

OnDirLoaded(t, s, l) ==
  IF KindOfTab(t) # "files" \/ KindOfTab(s.madeFor) # "files" \/ StaleSeq(s, l) THEN s
  ELSE [s EXCEPT !.rows = [dir |-> l.dir, from |-> l.from], !.loading = FALSE]

OnStatus(t, s) == IF KindOfTab(t) = "config-status" THEN [s EXCEPT !.computing = FALSE] ELSE s

InstInit ==
  /\ arrange = [p \in PaneIds |-> [tabs |-> {p}, active |-> p]]
  /\ insts = [p \in PaneIds |-> NewSlice(p, 0)]
  /\ listings = {} /\ computes = <<>> /\ frozen = FALSE /\ mints = 0

-----------------------------------------------------------------------------
(* Msgs.                                                                   *)

\* refresh, at boot and on r: broadcast to every instance.
Refresh ==
  /\ ~frozen
  /\ \A t \in DOMAIN insts : Browses(t, insts[t]) => insts[t].seq < MaxLoads
  /\ insts' = WriteAll([t \in DOMAIN insts |-> OnRefresh(t, insts[t])])
  /\ listings' = listings \cup
       {LoadOf(t, OnRefresh(t, insts[t])) : t \in {u \in DOMAIN insts : Browses(u, insts[u])}}
  /\ computes' = RunKeyed(computes, {PaneOf(t) : t \in {u \in DOMAIN insts : Computes(u, insts[u])}})
  /\ UNCHANGED <<arrange, frozen, mints>>

\* action, when an action is run: no Component takes it, each returns the slice
\* it was given.
RunAction ==
  /\ ~frozen
  /\ insts' = WriteAll(insts)
  /\ UNCHANGED <<arrange, listings, computes, frozen, mints>>

\* Enter on a directory of the listing that is shown.
EnterDir(p) ==
  LET t == arrange[p].active
  IN /\ ~frozen /\ Browses(t, insts[t]) /\ insts[t].rows # NoRows /\ insts[t].seq < MaxLoads
     /\ \E d \in Dirs \ {insts[t].rows.dir} :
          LET s == KickLoad(insts[t], d)
          IN insts' = [insts EXCEPT ![t] = s] /\ listings' = listings \cup {LoadOf(t, s)}
     /\ UNCHANGED <<arrange, computes, frozen, mints>>

\* A listing is read, of a container in any order.
DirLoaded(l) ==
  /\ LET reached == Wrapped("dirLoaded", l.pane)
     IN  insts' = [t \in DOMAIN insts |->
                     IF t \in reached THEN OnDirLoaded(t, insts[t], l) ELSE insts[t]]
  /\ listings' = listings \ {l}
  /\ UNCHANGED <<arrange, computes, frozen, mints>>

\* The next compute: it blocks the program while it runs.
Computed ==
  /\ computes # <<>>
  /\ LET reached == IF Head(computes).aborted THEN {}
                    ELSE Wrapped("cfgStatusResult", Head(computes).pane)
     IN  insts' = [t \in DOMAIN insts |->
                     IF t \in reached THEN OnStatus(t, insts[t]) ELSE insts[t]]
  /\ computes' = Tail(computes)
  /\ UNCHANGED <<arrange, listings, frozen, mints>>

-----------------------------------------------------------------------------
(* Panes come and go.                                                      *)

\* reconcilePaneInstances, after the dispatch that changed the arrange: a new
\* tab is minted, those that are gone are disposed of.  Keys are cancelled by
\* the name of the instance.
Reconciled(next) ==
  LET mounted == Mounted(next)
      fresh == mounted \ DOMAIN insts
  IN /\ arrange' = next
     /\ mints' = IF fresh \cap PaneIds = {} THEN mints ELSE mints + 1
     /\ mints' <= MaxMints
     /\ insts' = [t \in mounted |-> IF t \in fresh THEN NewSlice(t, mints') ELSE insts[t]]
     /\ computes' = CancelEffect(computes, DOMAIN insts \ mounted)
     /\ UNCHANGED <<listings, frozen>>

HidePane(p) == arrange[p].tabs = {p} /\ Reconciled(Restrict(arrange, DOMAIN arrange \ {p}))

ShowPane(p) ==
  /\ p \notin DOMAIN arrange
  /\ Reconciled([q \in DOMAIN arrange \cup {p} |->
                  IF q = p THEN [tabs |-> {p}, active |-> p] ELSE arrange[q]])

\* :text-view, in the focused pane: mint_tab, and the tab is shown.
OpenTab(p) ==
  /\ ~frozen /\ p \in TabHosts
  /\ \E t \in Minted \ DOMAIN insts :
       Reconciled([arrange EXCEPT ![p] = [tabs |-> @.tabs \cup {t}, active |-> t]])

\* A click on a tab of the strip: activate_tab, set_active_tab.
SwitchTab(p) ==
  /\ ~frozen
  /\ \E t \in arrange[p].tabs \ {arrange[p].active} :
       Reconciled([arrange EXCEPT ![p].active = t])

\* x on a text-view: remove_tab, and the tab before it is shown.
CloseTab(p) ==
  LET t == arrange[p].active
  IN /\ ~frozen /\ t \in Minted
     /\ \E before \in arrange[p].tabs \ {t} :
          Reconciled([arrange EXCEPT ![p] = [tabs |-> @.tabs \ {t}, active |-> before]])

\* Free-config mode is entered or left.
Freeze == frozen' = ~frozen /\ UNCHANGED <<arrange, insts, listings, computes, mints>>

InstNext ==
  \/ Refresh \/ RunAction \/ Computed \/ Freeze
  \/ \E l \in listings : DirLoaded(l)
  \/ \E p \in DOMAIN arrange : EnterDir(p) \/ HidePane(p) \/ OpenTab(p) \/ SwitchTab(p) \/ CloseTab(p)
  \/ \E p \in PaneIds : ShowPane(p)

\* What Node does of itself: a pending listing answers, a scheduled compute runs.
InstEvents == Computed \/ \E l \in listings : DirLoaded(l)

-----------------------------------------------------------------------------
(* Properties.                                                             *)

\* The listing a files pane shows is the one of the directory it is in, however
\* late the listings it asked for came in (files.js:465).  It may show one that
\* a pane of that name asked for before it was removed and placed again: the
\* two count their listings alike.
ListingBelongs ==
  \A t \in DOMAIN insts :
    insts[t].rows # NoRows /\ insts[t].rows.from = insts[t].mint => insts[t].rows.dir = insts[t].cwd

\* A latch is set if and only if the work that clears it is under way, once, and
\* was asked for by this instance: a compute for a removed pane is not taken for
\* one of the pane that has its name now (config-status.js, state.js).
LatchHasWork ==
  \A p \in DOMAIN arrange \ TabHosts :
    /\ LET work == {i \in DOMAIN computes : computes[i].pane = p /\ ~computes[i].aborted}
       IN  IF insts[p].computing THEN \E i \in work : work = {i} ELSE work = {}
    /\ insts[p].loading => \E l \in listings : l.pane = p /\ l.seq = insts[p].seq

\* A pane that is loading stops loading, also when the layout is being edited
\* meanwhile (loop.js:216), unless its user opened tabs in it.
LoadsEnd ==
  \A p \in PaneIds \ TabHosts :
    (p \in DOMAIN insts /\ (insts[p].loading \/ insts[p].computing))
      ~> (p \in DOMAIN insts => ~insts[p].loading /\ ~insts[p].computing)

\* An instance is only ever given a slice of its own.
SlicesStayHome == \A t \in DOMAIN insts : insts[t].madeFor = t
=============================================================================
