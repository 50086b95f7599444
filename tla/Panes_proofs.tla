---------------------------- MODULE Panes_proofs ----------------------------
(* Proofs about the panes and what runs behind them, for every set of          *)
(* containers, processes, panes, tabs and directories: the two producers of    *)
(* live data (Producers), the instances that load behind the program           *)
(* (Instances), and the text views with their search and selection (TextViews).*)
EXTENDS Instances, Producers, TextViews, FiniteSetTheorems, SequenceTheorems, TLAPS

-----------------------------------------------------------------------------
(* The producers.                                                              *)
ProdSpec == ProdInit /\ [][ProdNext]_prodVars /\ ProdFairness

(* What the proofs need of the types.                                          *)
ProducersTyped ==
  /\ fetch \in Fetch /\ poll \in Poll /\ window \in Window /\ world \in World
  /\ series \in [docker : SUBSET Containers, metrics : SUBSET Processes]

ProducersInv == ProducersTyped /\ PollsGoOn

LEMMA MaybeFetchLatches ==
  ASSUME NEW f \in Fetch, f.inFlight <=> f.at # "idle"
  PROVE  LET g == MaybeFetch(f) IN g \in Fetch /\ (g.inFlight <=> g.at # "idle")
BY DEF MaybeFetch, Fetch

LEMMA SettledUnlatches ==
  ASSUME NEW f \in Fetch
  PROVE  LET g == Settled(f) IN g \in Fetch /\ (g.inFlight <=> g.at # "idle")
BY DEF Settled, Fetch


(* A step of the docker service: a poll that is not refused, a fetch that goes *)
(* on, or one that ends.                                                       *)
LEMMA FetchSteps ==
  ASSUME fetch \in Fetch, fetch.inFlight <=> fetch.at # "idle",
         DockerPoll \/ Debounced \/ FetchStarts \/ Inspected \/ StatsRead
  PROVE  fetch' \in Fetch /\ (fetch'.inFlight <=> fetch'.at # "idle")
<1>1. ASSUME fetch' = Settled(fetch) PROVE fetch' \in Fetch /\ (fetch'.inFlight <=> fetch'.at # "idle")
  BY <1>1, SettledUnlatches
<1>2. ASSUME NEW found \in [Containers -> States], NEW stats, FullResult(found, stats)
      PROVE  fetch' \in Fetch /\ (fetch'.inFlight <=> fetch'.at # "idle")
  <2>1. [fetch EXCEPT !.found = found] \in Fetch
    BY DEF Fetch
  <2>2. QED
    BY <1>2, <2>1, SettledUnlatches DEF FullResult
<1>3. CASE DockerPoll
  BY <1>3, MaybeFetchLatches DEF DockerPoll
<1>4. CASE Debounced
  <2>1. LET f == [fetch EXCEPT !.debounce = FALSE] IN f \in Fetch /\ (f.inFlight <=> f.at # "idle")
    BY DEF Fetch
  <2>2. QED
    BY <1>4, <2>1, MaybeFetchLatches DEF Debounced
<1>5. CASE FetchStarts
  <2>1. CASE fetch' = [fetch EXCEPT !.at = "inspect"]
    BY <1>5, <2>1 DEF FetchStarts, Fetch
  <2>2. QED
    BY <1>1, <1>5, <2>1 DEF FetchStarts, BareResult, SkipUnfocused
<1>6. CASE Inspected
  <2>1. CASE fetch.aborted
    BY <1>1, <1>6, <2>1 DEF Inspected, BareResult
  <2>2. CASE ~fetch.aborted
    <3>1. PICK seen \in Output(Containers, ~world.answers) :
            LET found == [c \in Containers |-> IF c \notin seen THEN "unknown"
                                               ELSE IF c \in world.up THEN "running" ELSE "exited"]
            IN IF Running(found) = {} THEN FullResult(found, {})
               ELSE /\ fetch' = [fetch EXCEPT !.at = "stats", !.found = found]
                    /\ UNCHANGED <<shown, series>>
      BY <1>6, <2>2 DEF Inspected
    <3> DEFINE found == [c \in Containers |-> IF c \notin seen THEN "unknown"
                                              ELSE IF c \in world.up THEN "running" ELSE "exited"]
    <3>2. found \in [Containers -> States]
      BY DEF States
    <3> HIDE DEF found
    <3>3. CASE FullResult(found, {})
      BY <1>2, <3>2, <3>3
    <3>4. CASE fetch' = [fetch EXCEPT !.at = "stats", !.found = found]
      BY <1>6, <3>2, <3>4 DEF Inspected, Fetch
    <3>5. QED
      BY <3>1, <3>3, <3>4 DEF found
  <2>3. QED
    BY <2>1, <2>2
<1>7. CASE StatsRead
  <2>1. CASE fetch.aborted
    BY <1>1, <1>7, <2>1 DEF StatsRead, BareResult
  <2>2. CASE ~fetch.aborted
    <3>1. fetch.found \in [Containers -> States]
      BY DEF Fetch
    <3>2. QED
      BY <1>2, <1>7, <2>2, <3>1 DEF StatsRead
  <2>3. QED
    BY <2>1, <2>2
<1>8. QED
  BY <1>3, <1>4, <1>5, <1>6, <1>7

(* What a step of the docker service leaves alone.                             *)
LEMMA FetchStepsApart ==
  ASSUME DockerPoll \/ Debounced \/ FetchStarts \/ Inspected \/ StatsRead,
         ProducersTyped
  PROVE  /\ UNCHANGED <<poll, window, world>> /\ series'.metrics = series.metrics
         /\ series' \in [docker : SUBSET Containers, metrics : SUBSET Processes]
<1>0. series \in [docker : SUBSET Containers, metrics : SUBSET Processes] /\ fetch.found \in [Containers -> States]
  BY DEF ProducersTyped, Fetch
<1>1. ASSUME NEW found, NEW stats \in SUBSET Containers, FullResult(found, stats)
      PROVE  /\ series'.metrics = series.metrics
             /\ series' \in [docker : SUBSET Containers, metrics : SUBSET Processes]
  <2>1. Published(series.docker, stats) \ (Containers \ stats) \in SUBSET Containers
    BY <1>0 DEF Published
  <2>2. QED
    BY <1>0, <1>1, <2>1 DEF FullResult
<1>2. CASE DockerPoll
  BY <1>0, <1>2 DEF DockerPoll
<1>3. CASE Debounced
  BY <1>0, <1>3 DEF Debounced
<1>4. CASE FetchStarts
  BY <1>0, <1>4 DEF FetchStarts, BareResult, SkipUnfocused
<1>5. CASE Inspected
  <2>1. UNCHANGED <<world, window, poll>>
    BY <1>5 DEF Inspected
  <2>2. UNCHANGED series \/ \E found : FullResult(found, {})
    BY <1>5 DEF Inspected, BareResult
  <2>3. QED
    BY <1>0, <1>1, <2>1, <2>2
<1>6. CASE StatsRead
  <2>1. UNCHANGED <<world, window, poll>>
    BY <1>6 DEF StatsRead
  <2>2. ASSUME NEW stats \in Output(Running(fetch.found) \cap world.up, ~world.answers)
        PROVE  stats \in SUBSET Containers
    BY DEF Output, Running
  <2>3. UNCHANGED series \/ \E stats \in SUBSET Containers : FullResult(fetch.found, stats)
    BY <1>6, <2>2 DEF StatsRead, BareResult
  <2>4. QED
    BY <1>0, <1>1, <2>1, <2>3
<1>7. QED
  BY <1>2, <1>3, <1>4, <1>5, <1>6

(* A metrics poll that ends arms its timer again, unless it was stopped, and   *)
(* touches the series only with the rows it printed.                           *)
LEMMA PollEndsArmed ==
  ASSUME ProducersTyped, PollEnds
  PROVE  /\ poll' \in Poll /\ poll'.stopped = poll.stopped /\ ~poll'.inFlight
         /\ (poll'.timer <=> poll.timer \/ ~poll.stopped)
         /\ series' \in [docker : SUBSET Containers, metrics : SUBSET Processes]
         /\ series'.metrics # series.metrics => poll'.prev # {}
<1> DEFINE p == Rearmed([poll EXCEPT !.inFlight = FALSE])
<1>1. PICK rows \in UNION {Output(world.rows, dies) : dies \in BOOLEAN} :
        IF poll.stopped \/ ~Parsed(rows, poll) THEN poll' = p /\ UNCHANGED series
        ELSE /\ poll' = [p EXCEPT !.prev = rows]
             /\ series' = [series EXCEPT !.metrics = Collected(rows, poll, @)]
  BY Zenon DEF PollEnds
<1>2. rows \in SUBSET Processes
  BY DEF Output, ProducersTyped, World
<1>3. /\ p \in Poll /\ p.stopped = poll.stopped /\ ~p.inFlight
      /\ (p.timer <=> poll.timer \/ ~poll.stopped)
  <2>1. poll \in Poll
    BY DEF ProducersTyped
  <2>2. CASE poll.stopped
    BY <2>1, <2>2 DEF Rearmed, Poll
  <2>3. CASE ~poll.stopped
    BY <2>1, <2>3 DEF Rearmed, Poll
  <2>4. QED
    BY <2>2, <2>3
<1> HIDE DEF p
<1>4. CASE poll.stopped \/ ~Parsed(rows, poll)
  BY <1>1, <1>3, <1>4 DEF ProducersTyped
<1>5. CASE ~(poll.stopped \/ ~Parsed(rows, poll))
  <2>1. poll' = [p EXCEPT !.prev = rows] /\ rows # {}
    BY <1>1, <1>5 DEF Parsed
  <2>2. Collected(rows, poll, series.metrics) \in SUBSET Processes
    BY <1>2 DEF Collected, Published, ProducersTyped
  <2>3. series' = [series EXCEPT !.metrics = Collected(rows, poll, series.metrics)]
    BY <1>1, <1>5
  <2>4. poll'.prev = rows
    BY <1>3, <2>1 DEF Poll
  <2>5. QED
    BY <1>2, <1>3, <2>1, <2>2, <2>3, <2>4 DEF Poll, ProducersTyped
<1>6. QED
  BY <1>4, <1>5

LEMMA ProducersAlways == ProdSpec => []ProducersInv
<1>1. ASSUME ProdInit PROVE ProducersInv
  <2>1. world \in World /\ window \in Window
    <3>1. world \in [up : SUBSET Containers, rows : {Processes}, answers : {TRUE}]
      BY <1>1 DEF ProdInit
    <3>2. {Processes} \subseteq SUBSET Processes /\ {TRUE} \subseteq BOOLEAN
      OBVIOUS
    <3>3. world \in World
      BY <3>1, <3>2 DEF World
    <3>4. window \in Window
      BY <1>1 DEF ProdInit, Window
    <3>5. QED
      BY <3>3, <3>4
  <2>2. fetch \in Fetch /\ poll \in Poll /\ PollsGoOn
    BY <1>1 DEF ProdInit, PollsGoOn, Fetch, Poll, States
  <2>3. series \in [docker : SUBSET Containers, metrics : SUBSET Processes]
    BY <1>1 DEF ProdInit
  <2>4. QED
    BY <2>1, <2>2, <2>3 DEF ProducersInv, ProducersTyped
<1>2. ASSUME ProducersInv, [ProdNext]_prodVars PROVE ProducersInv'
  <2> USE <1>2
  <2> USE DEF ProducersInv
  <2>0. ProducersTyped /\ PollsGoOn
    OBVIOUS
  <2>1. CASE DockerPoll \/ Debounced \/ FetchStarts \/ Inspected \/ StatsRead
    BY <2>0, <2>1, FetchSteps, FetchStepsApart DEF ProducersTyped, PollsGoOn
  <2>2. CASE PollTimer
    BY <2>0, <2>2 DEF PollTimer, Skipped, Rearmed, ProducersTyped, PollsGoOn, Poll
  <2>3. CASE PollEnds
    <3>1. UNCHANGED <<world, window, fetch>>
      BY <2>3 DEF PollEnds
    <3>2. QED
      BY <2>0, <2>3, <3>1, PollEndsArmed DEF ProducersTyped, PollsGoOn, Poll
  <2>4. CASE ContainerChanges
    <3>1. PICK c \in Containers :
            world' = [world EXCEPT !.up = IF c \in @ THEN @ \ {c} ELSE @ \cup {c}]
      BY <2>4 DEF ContainerChanges
    <3>2. world' \in World
      BY <2>0, <3>1 DEF ProducersTyped, World
    <3>3. fetch' \in Fetch /\ fetch'.inFlight = fetch.inFlight /\ fetch'.at = fetch.at
      BY <2>0, <2>4 DEF ContainerChanges, ProducersTyped, Fetch
    <3>4. QED
      BY <2>0, <2>4, <3>2, <3>3 DEF ContainerChanges, ProducersTyped, PollsGoOn
  <2>8. CASE ProcessesChange \/ DaemonChanges
    <3>1. world' \in World
      BY <2>0, <2>8 DEF ProcessesChange, DaemonChanges, ProducersTyped, World
    <3>2. QED
      BY <2>0, <2>8, <3>1 DEF ProcessesChange, DaemonChanges, ProducersTyped, PollsGoOn
  <2>5. CASE FocusChanges \/ PaneChanges \/ SubscriberChanges
    <3>1. window' \in Window
      BY <2>0, <2>5 DEF FocusChanges, PaneChanges, SubscriberChanges, ProducersTyped, Window
    <3>2. fetch' \in Fetch /\ fetch'.inFlight = fetch.inFlight /\ fetch'.at = fetch.at
      BY <2>0, <2>5 DEF FocusChanges, PaneChanges, SubscriberChanges, ProducersTyped, Fetch
    <3>3. series' \in [docker : SUBSET Containers, metrics : SUBSET Processes]
      BY <2>0, <2>5 DEF FocusChanges, PaneChanges, SubscriberChanges, ProducersTyped
    <3>4. UNCHANGED <<poll, world>>
      BY <2>5 DEF FocusChanges, PaneChanges, SubscriberChanges
    <3>5. QED
      BY <2>0, <3>1, <3>2, <3>3, <3>4 DEF ProducersTyped, PollsGoOn
  <2>6. CASE QuitProducers
    BY <2>0, <2>6 DEF QuitProducers, ProducersTyped, PollsGoOn, Fetch, Window, Poll
  <2>7. CASE UNCHANGED prodVars
    BY <2>0, <2>7 DEF prodVars, ProducersTyped, PollsGoOn
  <2>9. QED
    BY <2>1, <2>2, <2>3, <2>4, <2>8, <2>5, <2>6, <2>7 DEF ProdNext
<1>3. QED
  BY <1>1, <1>2, PTL DEF ProdSpec, ProducersInv

(* The docker latch is set exactly while a fetch is under way, and the metrics *)
(* poll is armed or under way until it is stopped (docker.js _maybeFetch,      *)
(* state.js runOnce): no refusal, skip, abort or quit leaves either stuck.     *)
THEOREM PollsAlwaysGoOn == ProdSpec => []PollsGoOn
BY ProducersAlways, PTL DEF ProducersInv

(* But for the subscribers, only a poll that printed rows changes the series   *)
(* of a metrics topic (state.js:335).                                          *)
THEOREM EmptyPollsKeep == ProdSpec => EmptyPollKeeps
<1> DEFINE Keeps == window' = window /\ series'.metrics # series.metrics => poll'.prev # {}
<1>1. ASSUME ProducersInv, [ProdNext]_prodVars PROVE [Keeps]_prodVars
  <2>0. ProducersTyped
    BY <1>1 DEF ProducersInv
  <2>1. CASE DockerPoll \/ Debounced \/ FetchStarts \/ Inspected \/ StatsRead
    BY <2>0, <2>1, FetchStepsApart DEF ProducersTyped
  <2>2. CASE PollEnds
    BY <2>0, <2>2, PollEndsArmed
  <2>3. CASE PollTimer \/ ContainerChanges \/ ProcessesChange \/ DaemonChanges \/ FocusChanges
             \/ PaneChanges \/ QuitProducers
    BY <2>3 DEF PollTimer, ContainerChanges, ProcessesChange, DaemonChanges, FocusChanges,
                PaneChanges, QuitProducers
  <2>4. CASE SubscriberChanges
    <3>1. window'.subscribed # window.subscribed
      BY <2>0, <2>4 DEF SubscriberChanges, ProducersTyped, Window
    <3>2. QED
      BY <3>1
  <2>5. QED
    BY <1>1, <2>1, <2>2, <2>3, <2>4 DEF ProdNext
<1>2. QED
  BY <1>1, ProducersAlways, PTL DEF ProdSpec, EmptyPollKeeps

-----------------------------------------------------------------------------
(* The instances.                                                              *)
InstSpec == InstInit /\ [][InstNext]_instVars

Pane == [tabs : SUBSET Ids, active : Ids]

(* A layout: a pane shows one of its tabs, its own and those opened in it.     *)
Arranged(panes) ==
  /\ DOMAIN panes \subseteq PaneIds /\ panes \in [DOMAIN panes -> Pane]
  /\ \A p \in DOMAIN panes :
       /\ p \in panes[p].tabs /\ panes[p].active \in panes[p].tabs /\ panes[p].tabs \subseteq {p} \cup Minted
       /\ p \notin TabHosts => panes[p].tabs = {p}
  /\ \A p, q \in DOMAIN panes : p # q => panes[p].tabs \cap panes[q].tabs = {}

\* The listing a slice holds is the one of its directory, if it asked for it.
Listed(s) == s.rows # NoRows /\ s.rows.from = s.mint => s.rows.dir = s.cwd

\* A listing that a slice asked for is not newer than the slice, and the newest
\* one is of its directory.
Asked(l, s) == l.from = s.mint => l.seq <= s.seq /\ (l.seq = s.seq => l.dir = s.cwd)

\* The computes that will answer a pane.
Working(cs, p) == {i \in DOMAIN cs : cs[i].pane = p /\ ~cs[i].aborted}

InstTyped ==
  /\ Arranged(arrange) /\ DOMAIN insts = Mounted(arrange) /\ insts \in [DOMAIN insts -> Slice]
  /\ listings \subseteq Listing /\ computes \in Seq(Compute) /\ mints \in Nat /\ frozen \in BOOLEAN

(* The slices, and the listings on their way to them.                          *)
ListingsInv ==
  /\ \A t \in DOMAIN insts : insts[t].mint <= mints /\ Listed(insts[t])
  /\ \A p \in DOMAIN arrange : insts[p].madeFor = p
  /\ \A l \in listings : l.from <= mints /\ (l.pane \in DOMAIN arrange => Asked(l, insts[l.pane]))

(* The latches, and the work that clears them.                                 *)
LatchesInv ==
  /\ \A i \in DOMAIN computes : computes[i].aborted <=> ~computes[i].keyed
  /\ \A p \in PaneIds \ TabHosts :
       IF p \in DOMAIN arrange /\ insts[p].computing
       THEN \E i \in Working(computes, p) : Working(computes, p) = {i}
       ELSE Working(computes, p) = {}
  /\ \A p \in DOMAIN arrange \ TabHosts :
       /\ insts[p].computing => KindOf[p] = "config-status"
       /\ insts[p].loading => /\ KindOf[p] = "files"
                              /\ \E l \in listings : l.pane = p /\ l.seq = insts[p].seq

InstInv == InstTyped /\ ListingsInv /\ LatchesInv

-----------------------------------------------------------------------------
(* Names.                                                                      *)
LEMMA PaneNames ==
  ASSUME NEW panes, Arranged(panes)
  PROVE  /\ \A p \in DOMAIN panes : p \in Mounted(panes) /\ p \in PaneIds /\ panes[p].active \in Mounted(panes)
         /\ \A p \in DOMAIN panes : panes[p].active \in PaneIds => panes[p].active = p
         /\ \A p \in DOMAIN panes \ TabHosts : panes[p].active = p
         /\ \A t \in Mounted(panes) : t \in Ids /\ (t \in PaneIds => t \in DOMAIN panes)
BY InstAssumption DEF Arranged, Mounted, Ids

\* A pane is found by its own tab.
LEMMA PaneFound ==
  ASSUME Arranged(arrange), NEW p \in DOMAIN arrange
  PROVE  PaneOf(p) = p
<1>1. p \in arrange[p].tabs
  BY DEF Arranged
<1>2. ASSUME NEW q \in DOMAIN arrange, p \in arrange[q].tabs PROVE q = p
  BY <1>1, <1>2 DEF Arranged
<1>3. QED
  BY <1>1, <1>2 DEF PaneOf

LEMMA KindIsPane ==
  ASSUME NEW t, KindOfTab(t) # "text-view", t \in Ids
  PROVE  t \in PaneIds /\ KindOfTab(t) = KindOf[t]
BY InstAssumption DEF KindOfTab, Ids

\* What a broadcast leaves in a slot: the update of the slice of the pane that
\* shows it, or of its own; a pane that shows another tab is left as it was.
LEMMA WriteAllAt ==
  ASSUME InstTyped, NEW next
  PROVE  /\ DOMAIN WriteAll(next) = DOMAIN insts
         /\ \A t \in DOMAIN insts :
              WriteAll(next)[t] = insts[t] \/ \E u \in DOMAIN insts : WriteAll(next)[t] = next[u]
         /\ \A p \in DOMAIN arrange :
              WriteAll(next)[p] = IF arrange[p].active = p THEN next[p] ELSE insts[p]
<1> DEFINE writers(t) == {u \in DOMAIN insts : ResolveActive(u) = t}
<1>1. DOMAIN WriteAll(next) = DOMAIN insts
  BY DEF WriteAll
<1>2. \A t \in DOMAIN insts :
        WriteAll(next)[t] = IF writers(t) = {} THEN insts[t]
                            ELSE next[IF writers(t) = {t} THEN t ELSE CHOOSE u \in writers(t) : u # t]
  BY DEF WriteAll
<1>3. ASSUME NEW t \in DOMAIN insts
      PROVE  WriteAll(next)[t] = insts[t] \/ \E u \in DOMAIN insts : WriteAll(next)[t] = next[u]
  <2>1. CASE writers(t) = {}
    BY <1>2, <2>1
  <2>2. CASE writers(t) = {t}
    BY <1>2, <2>2
  <2>3. CASE writers(t) # {} /\ writers(t) # {t}
    <3> DEFINE v == CHOOSE u \in writers(t) : u # t
    <3>1. \E u \in writers(t) : u # t
      BY <2>3
    <3>2. v \in writers(t)
      BY <3>1
    <3> HIDE DEF v
    <3>3. WriteAll(next)[t] = next[v]
      BY <1>2, <2>3 DEF v
    <3>4. QED
      BY <3>2, <3>3
  <2>4. QED
    BY <2>1, <2>2, <2>3
<1>4. ASSUME NEW p \in DOMAIN arrange
      PROVE  WriteAll(next)[p] = IF arrange[p].active = p THEN next[p] ELSE insts[p]
  <2>1. /\ p \in DOMAIN insts /\ p \in PaneIds
        /\ \A q \in DOMAIN arrange : arrange[q].active \in PaneIds => arrange[q].active = q
    BY PaneNames DEF InstTyped
  <2>2. \A u \in DOMAIN insts : ResolveActive(u) = p => u = p
    BY <2>1 DEF ResolveActive
  <2>3. ResolveActive(p) = arrange[p].active
    BY DEF ResolveActive
  <2>4. writers(p) = IF arrange[p].active = p THEN {p} ELSE {}
    BY <2>1, <2>2, <2>3
  <2>5. QED
    BY <1>2, <2>1, <2>4
<1>5. QED
  BY <1>1, <1>3, <1>4

-----------------------------------------------------------------------------
(* The computes.                                                               *)
LEMMA ComputeAt ==
  ASSUME NEW cs \in Seq(Compute)
  PROVE  Len(cs) \in Nat /\ DOMAIN cs = 1 .. Len(cs) /\ \A i \in DOMAIN cs : i \in Nat /\ cs[i] \in Compute
<1>1. Len(cs) \in Nat /\ DOMAIN cs = 1 .. Len(cs)
  BY LenProperties
<1>2. QED
  BY <1>1, ElementOfSeq

Keyed(cs) == \A i \in DOMAIN cs : cs[i].aborted <=> ~cs[i].keyed

LEMMA CancelStops ==
  ASSUME NEW cs \in Seq(Compute), Keyed(cs), NEW keys
  PROVE  LET next == CancelEffect(cs, keys)
         IN  /\ next \in Seq(Compute) /\ Keyed(next) /\ Len(next) = Len(cs)
             /\ \A p : Working(next, p) = IF p \in keys THEN {} ELSE Working(cs, p)
<1> DEFINE next == CancelEffect(cs, keys)
           cut(i) == IF cs[i].pane \in keys /\ cs[i].keyed
                     THEN [cs[i] EXCEPT !.aborted = TRUE, !.keyed = FALSE] ELSE cs[i]
<1>1. Len(cs) \in Nat /\ DOMAIN cs = 1 .. Len(cs) /\ \A i \in DOMAIN cs : cs[i] \in Compute
  BY ComputeAt
<1>2. \A i \in DOMAIN cs :
        /\ cut(i) \in Compute /\ cut(i).pane = cs[i].pane
        /\ cut(i).aborted <=> ~cut(i).keyed
        /\ ~cut(i).aborted <=> ~cs[i].aborted /\ cs[i].pane \notin keys
  BY <1>1 DEF Compute, Keyed
<1>3. next = [i \in DOMAIN cs |-> cut(i)]
  BY DEF CancelEffect
<1> HIDE DEF cut
<1>4. next \in Seq(Compute)
  <2>1. next \in [1 .. Len(cs) -> Compute]
    BY <1>1, <1>2, <1>3
  <2>2. QED
    BY <1>1, <2>1, SeqDef
<1>5. DOMAIN next = DOMAIN cs /\ Len(next) = Len(cs) /\ \A i \in DOMAIN cs : next[i] = cut(i)
  BY <1>1, <1>3, <1>4, LenProperties
<1> HIDE DEF next
<1>6. Keyed(next)
  BY <1>2, <1>5 DEF Keyed
<1>7. ASSUME NEW p PROVE Working(next, p) = IF p \in keys THEN {} ELSE Working(cs, p)
  BY <1>2, <1>5 DEF Working
<1>8. QED
  BY <1>4, <1>5, <1>6, <1>7 DEF next

LEMMA ScheduledOnce ==
  ASSUME NEW panes \in SUBSET PaneIds
  PROVE  LET cs == Scheduled(panes)
         IN  /\ cs \in Seq(Compute) /\ Keyed(cs)
             /\ \A p \in panes : \E i \in DOMAIN cs : Working(cs, p) = {i}
             /\ \A p : p \notin panes => Working(cs, p) = {}
<1> DEFINE n == Cardinality(panes)
           order == CHOOSE s \in Bijection(1 .. n, panes) : TRUE
           cs == Scheduled(panes)
<1>1. IsFiniteSet(panes)
  BY InstAssumption, FS_Subset
<1>2. n \in Nat /\ ExistsBijection(1 .. n, panes)
  BY <1>1, FS_CardinalityType
<1>3. Bijection(1 .. n, panes) # {}
  BY <1>2 DEF ExistsBijection
<1>4. order \in Bijection(1 .. n, panes)
  BY <1>3
<1>5. cs = [i \in 1 .. n |-> [pane |-> order[i], aborted |-> FALSE, keyed |-> TRUE]]
  BY DEF Scheduled
<1> HIDE DEF order, n, cs
<1>6. /\ order \in [1 .. n -> panes]
      /\ \A i, j \in 1 .. n : order[i] = order[j] => i = j
      /\ \A p \in panes : \E i \in 1 .. n : order[i] = p
  BY <1>4 DEF Bijection, Injection, Surjection, IsInjective
<1>7. cs \in Seq(Compute)
  <2>1. \A i \in 1 .. n : [pane |-> order[i], aborted |-> FALSE, keyed |-> TRUE] \in Compute
    BY <1>6 DEF Compute
  <2>2. cs \in [1 .. n -> Compute]
    BY <1>5, <2>1
  <2>3. QED
    BY <1>2, <2>2, SeqDef
<1>8. DOMAIN cs = 1 .. n /\ \A i \in 1 .. n : cs[i].pane = order[i] /\ ~cs[i].aborted /\ cs[i].keyed
  BY <1>5
<1>9. ASSUME NEW p \in panes PROVE \E i \in DOMAIN cs : Working(cs, p) = {i}
  <2>1. PICK i \in 1 .. n : order[i] = p
    BY <1>6
  <2>2. Working(cs, p) = {i}
    BY <1>6, <1>8, <2>1 DEF Working
  <2>3. QED
    BY <1>8, <2>2
<1>10. ASSUME NEW p, p \notin panes PROVE Working(cs, p) = {}
  BY <1>6, <1>8, <1>10 DEF Working
<1>11. QED
  BY <1>7, <1>8, <1>9, <1>10 DEF Keyed, cs

LEMMA RunKeyedOnce ==
  ASSUME NEW cs \in Seq(Compute), Keyed(cs), NEW panes \in SUBSET PaneIds
  PROVE  LET next == RunKeyed(cs, panes)
         IN  /\ next \in Seq(Compute) /\ Keyed(next)
             /\ \A p : IF p \in panes THEN \E i \in Working(next, p) : Working(next, p) = {i}
                       ELSE Working(next, p) = Working(cs, p)
<1> DEFINE old == CancelEffect(cs, panes)
           new == Scheduled(panes)
           next == RunKeyed(cs, panes)
           n == Len(old)
<1>1. /\ old \in Seq(Compute) /\ Keyed(old)
      /\ \A p : Working(old, p) = IF p \in panes THEN {} ELSE Working(cs, p)
  BY CancelStops
<1>2. /\ new \in Seq(Compute) /\ Keyed(new)
      /\ \A p \in panes : \E i \in DOMAIN new : Working(new, p) = {i}
      /\ \A p : p \notin panes => Working(new, p) = {}
  BY ScheduledOnce
<1>3. next = old \o new
  BY DEF RunKeyed
<1> HIDE DEF old, new, next
<1>4. n \in Nat /\ DOMAIN old = 1 .. n /\ Len(new) \in Nat /\ DOMAIN new = 1 .. Len(new)
  BY <1>1, <1>2, ComputeAt
<1> DEFINE m == Len(new)
<1>5. /\ next \in Seq(Compute) /\ Len(next) = n + m
      /\ \A i \in 1 .. n + m : next[i] = IF i <= n THEN old[i] ELSE new[i - n]
  BY <1>1, <1>2, <1>3, ConcatProperties
<1>6. DOMAIN next = 1 .. n + m
  BY <1>5, LenProperties
<1> HIDE DEF n, m
<1>7. /\ \A i \in 1 .. n : i \in DOMAIN next /\ next[i] = old[i]
      /\ \A i \in 1 .. m : n + i \in DOMAIN next /\ next[n + i] = new[i]
      /\ \A i \in DOMAIN next : i \in 1 .. n \/ \E j \in 1 .. m : i = n + j
  <2>1. n \in Nat /\ m \in Nat
    BY <1>4 DEF m
  <2>2. \A i \in 1 .. n : i \in 1 .. n + m /\ i <= n
    BY <2>1
  <2>3. \A i \in 1 .. m : n + i \in 1 .. n + m /\ ~(n + i <= n) /\ n + i - n = i
    BY <2>1
  <2>4. \A i \in 1 .. n + m : i \in 1 .. n \/ (i - n \in 1 .. m /\ i = n + (i - n))
    BY <2>1
  <2>5. \A i \in 1 .. n : i \in DOMAIN next /\ next[i] = old[i]
    BY <1>5, <1>6, <2>2
  <2>6. \A i \in 1 .. m : n + i \in DOMAIN next /\ next[n + i] = new[i]
    <3> TAKE i \in 1 .. m
    <3> DEFINE k == n + i
    <3>1. k \in 1 .. n + m /\ ~(k <= n) /\ k - n = i
      <4>1. i \in 1 .. m
        OBVIOUS
      <4>2. QED
        BY <2>1, <4>1
    <3> HIDE DEF k
    <3>2. k \in DOMAIN next /\ next[k] = new[i]
      BY <1>5, <1>6, <3>1
    <3>3. QED
      BY <3>2 DEF k
  <2>7. ASSUME NEW i \in DOMAIN next PROVE i \in 1 .. n \/ \E j \in 1 .. m : i = n + j
    BY <1>6, <2>4
  <2>8. QED
    BY <2>5, <2>6, <2>7
<1>8. Keyed(next)
  <2> SUFFICES ASSUME NEW i \in DOMAIN next PROVE next[i].aborted <=> ~next[i].keyed
    BY DEF Keyed
  <2>1. CASE i \in 1 .. n
    BY <1>1, <1>4, <1>7, <2>1 DEF Keyed
  <2>2. ASSUME NEW j \in 1 .. m, i = n + j PROVE next[i].aborted <=> ~next[i].keyed
    BY <1>2, <1>4, <1>7, <2>2 DEF Keyed, m
  <2>3. QED
    BY <1>7, <2>1, <2>2
<1>9. ASSUME NEW p \in panes PROVE \E i \in Working(next, p) : Working(next, p) = {i}
  <2>1. PICK j \in 1 .. m : Working(new, p) = {j}
    BY <1>2, <1>4 DEF m
  <2>2. \A i \in 1 .. n : ~(next[i].pane = p /\ ~next[i].aborted)
    BY <1>1, <1>4, <1>7 DEF Working
  <2>3. \A i \in 1 .. m : (next[n + i].pane = p /\ ~next[n + i].aborted) <=> i = j
    BY <1>4, <1>7, <2>1 DEF Working, m
  <2>4. Working(next, p) = {n + j}
    BY <1>7, <2>1, <2>2, <2>3 DEF Working
  <2>5. QED
    BY <2>4
<1>10. ASSUME NEW p, p \notin panes PROVE Working(next, p) = Working(cs, p)
  <2>1. Working(old, p) = Working(cs, p) /\ Working(new, p) = {}
    BY <1>1, <1>2, <1>10
  <2>2. \A i \in 1 .. m : ~(next[n + i].pane = p /\ ~next[n + i].aborted)
    BY <1>4, <1>7, <2>1 DEF Working, m
  <2>3. Working(next, p) = Working(old, p)
    BY <1>4, <1>7, <2>2 DEF Working
  <2>4. QED
    BY <2>1, <2>3
<1>11. QED
  BY <1>5, <1>8, <1>9, <1>10 DEF next

\* The next compute is taken.
LEMMA ComputeTaken ==
  ASSUME NEW cs \in Seq(Compute), Keyed(cs), cs # <<>>
  PROVE  LET next == Tail(cs)
             c == Head(cs)
         IN  /\ next \in Seq(Compute) /\ Keyed(next) /\ c \in Compute
             /\ \A p : (\A i, j \in Working(cs, p) : i = j) =>
                    IF c.pane = p /\ ~c.aborted THEN Working(cs, p) # {} /\ Working(next, p) = {}
                    ELSE IF Working(cs, p) = {} THEN Working(next, p) = {}
                    ELSE \E i \in Working(next, p) : Working(next, p) = {i}
<1> DEFINE next == Tail(cs)
           n == Len(cs)
<1>1. n \in Nat /\ n # 0 /\ DOMAIN cs = 1 .. n
  BY ComputeAt, EmptySeq
<1>2. /\ next \in Seq(Compute) /\ Len(next) = n - 1 /\ Head(cs) = cs[1] /\ Head(cs) \in Compute
      /\ \A i \in 1 .. n - 1 : next[i] = cs[i + 1]
  BY HeadTailProperties
<1>3. DOMAIN next = 1 .. n - 1
  BY <1>2, LenProperties
<1> HIDE DEF next, n
<1>4. /\ 1 \in DOMAIN cs
      /\ \A i \in DOMAIN next : i \in Nat /\ i + 1 \in DOMAIN cs /\ next[i] = cs[i + 1] /\ i + 1 # 1
      /\ \A i \in DOMAIN cs : i = 1 \/ (i - 1 \in DOMAIN next /\ i - 1 + 1 = i)
  BY <1>1, <1>2, <1>3
<1>5. Keyed(next)
  BY <1>4 DEF Keyed
<1>6. ASSUME NEW p, \A i, j \in Working(cs, p) : i = j, Head(cs).pane = p, ~Head(cs).aborted
      PROVE  Working(cs, p) # {} /\ Working(next, p) = {}
  <2>1. 1 \in Working(cs, p)
    BY <1>2, <1>4, <1>6 DEF Working
  <2>2. \A i \in Working(next, p) : i + 1 \in Working(cs, p) /\ i + 1 # 1
    BY <1>4 DEF Working
  <2>3. QED
    BY <1>6, <2>1, <2>2
<1>7. ASSUME NEW p, Working(cs, p) = {} PROVE Working(next, p) = {}
  BY <1>4, <1>7 DEF Working
<1>8. ASSUME NEW p, \A i, j \in Working(cs, p) : i = j, ~(Head(cs).pane = p /\ ~Head(cs).aborted),
             Working(cs, p) # {}
      PROVE  \E i \in Working(next, p) : Working(next, p) = {i}
  <2>1. PICK j \in DOMAIN cs : j \in Working(cs, p)
    BY <1>8 DEF Working
  <2>2. j # 1
    BY <1>2, <1>8, <2>1 DEF Working
  <2>3. j - 1 \in DOMAIN next /\ j - 1 + 1 = j
    BY <1>4, <2>2
  <2>4. j - 1 \in Working(next, p)
    BY <1>4, <2>1, <2>3 DEF Working
  <2>5. \A i \in Working(next, p) : i + 1 = j
    BY <1>4, <1>8, <2>1 DEF Working
  <2>6. \A i \in Working(next, p) : i = j - 1
    BY <1>1, <1>4, <2>5 DEF Working
  <2>7. QED
    BY <2>4, <2>6
<1>9. QED
  BY <1>2, <1>5, <1>6, <1>7, <1>8 DEF next

-----------------------------------------------------------------------------
(* Panes come and go.                                                          *)
LEMMA SliceAt ==
  ASSUME InstTyped
  PROVE  /\ \A t \in DOMAIN insts : insts[t] \in Slice /\ t \in Ids
         /\ \A p \in DOMAIN arrange : p \in DOMAIN insts /\ p \in PaneIds
         /\ \A t \in DOMAIN insts : t \in PaneIds => t \in DOMAIN arrange
BY PaneNames DEF InstTyped

LEMMA FreshSlice ==
  ASSUME NEW t \in Ids, NEW n \in Nat
  PROVE  LET s == NewSlice(t, n)
         IN  /\ s \in Slice /\ s.mint = n /\ s.madeFor = t /\ s.rows = NoRows
             /\ ~s.computing /\ ~s.loading
BY DEF NewSlice, Slice, NoRows

LEMMA ReconciledKeeps ==
  ASSUME InstInv, NEW next, Arranged(next), Reconciled(next)
  PROVE  InstInv'
<1> DEFINE mounted == Mounted(next)
           fresh == mounted \ DOMAIN insts
           gone == DOMAIN insts \ mounted
<1>1. /\ arrange' = next /\ mints' = (IF fresh \cap PaneIds = {} THEN mints ELSE mints + 1)
      /\ insts' = [t \in mounted |-> IF t \in fresh THEN NewSlice(t, mints') ELSE insts[t]]
      /\ computes' = CancelEffect(computes, gone) /\ UNCHANGED <<listings, frozen>>
  BY DEF Reconciled
<1>2. InstTyped /\ ListingsInv /\ LatchesInv
  BY DEF InstInv
<1>3. /\ \A t \in DOMAIN insts : insts[t] \in Slice /\ t \in Ids
      /\ \A p \in DOMAIN arrange : p \in DOMAIN insts /\ p \in PaneIds
      /\ \A t \in DOMAIN insts : t \in PaneIds => t \in DOMAIN arrange
  BY <1>2, SliceAt
<1>4. /\ \A p \in DOMAIN next : p \in mounted /\ p \in PaneIds
      /\ \A t \in mounted : t \in Ids /\ (t \in PaneIds => t \in DOMAIN next)
  BY PaneNames
<1>5. mints \in Nat /\ mints' \in Nat /\ mints <= mints' /\ \A p \in fresh : p \in PaneIds => mints < mints'
  BY <1>1, <1>2 DEF InstTyped
<1> HIDE DEF mounted
<1>6. /\ DOMAIN insts' = mounted
      /\ \A t \in fresh : insts'[t] = NewSlice(t, mints')
      /\ \A t \in mounted \ fresh : t \in DOMAIN insts /\ insts'[t] = insts[t]
  BY <1>1
<1> HIDE DEF fresh
<1>7. \A t \in fresh : /\ insts'[t] \in Slice /\ insts'[t].mint = mints' /\ insts'[t].madeFor = t
                       /\ insts'[t].rows = NoRows /\ ~insts'[t].computing /\ ~insts'[t].loading
  BY <1>4, <1>5, <1>6, FreshSlice DEF fresh
<1>8. InstTyped'
  <2>1. computes' \in Seq(Compute)
    BY <1>1, <1>2, CancelStops DEF InstTyped, LatchesInv, Keyed
  <2>2. \A t \in mounted : insts'[t] \in Slice
    BY <1>3, <1>6, <1>7
  <2>3. insts' \in [mounted -> Slice]
    BY <1>1, <2>2
  <2>4. QED
    BY <1>1, <1>2, <1>5, <1>6, <2>1, <2>3 DEF InstTyped, mounted
<1>9. ListingsInv'
  <2>1. ASSUME NEW t \in mounted PROVE insts'[t].mint <= mints' /\ Listed(insts'[t])
    <3>1. CASE t \in fresh
      BY <1>5, <1>7, <3>1 DEF Listed
    <3>2. CASE t \notin fresh
      <4>1. insts[t].mint \in Nat
        BY <1>3, <1>6, <3>2 DEF Slice
      <4>2. QED
        BY <1>2, <1>5, <1>6, <3>2, <4>1 DEF ListingsInv
    <3>3. QED
      BY <3>1, <3>2
  <2>2. \A p \in DOMAIN next : insts'[p].madeFor = p
    BY <1>2, <1>3, <1>4, <1>6, <1>7 DEF ListingsInv
  <2>3. ASSUME NEW l \in listings
        PROVE  l.from <= mints' /\ (l.pane \in DOMAIN next => Asked(l, insts'[l.pane]))
    <3>1. l.from \in Nat /\ l.from <= mints
      BY <1>2 DEF ListingsInv, InstTyped, Listing
    <3>2. CASE l.pane \in fresh
      BY <1>4, <1>5, <1>7, <3>1, <3>2 DEF Asked
    <3>3. CASE l.pane \notin fresh
      BY <1>2, <1>3, <1>4, <1>5, <1>6, <3>1, <3>3 DEF ListingsInv
    <3>4. QED
      BY <3>2, <3>3
  <2>4. QED
    BY <1>1, <1>6, <2>1, <2>2, <2>3 DEF ListingsInv
<1>10. LatchesInv'
  <2>1. Keyed(computes') /\ \A p : Working(computes', p) = IF p \in gone THEN {} ELSE Working(computes, p)
    BY <1>1, <1>2, CancelStops DEF InstTyped, LatchesInv, Keyed
  <2>2. ASSUME NEW p \in PaneIds \ TabHosts
        PROVE  IF p \in DOMAIN next /\ insts'[p].computing
               THEN \E i \in Working(computes', p) : Working(computes', p) = {i}
               ELSE Working(computes', p) = {}
    <3>1. IF p \in DOMAIN arrange /\ insts[p].computing
          THEN \E i \in Working(computes, p) : Working(computes, p) = {i}
          ELSE Working(computes, p) = {}
      BY <1>2 DEF LatchesInv
    <3>2. CASE p \in fresh
      BY <1>3, <1>7, <2>1, <3>1, <3>2 DEF fresh
    <3>3. CASE p \in mounted \ fresh
      BY <1>3, <1>4, <1>6, <2>1, <3>1, <3>3
    <3>4. CASE p \notin mounted
      BY <1>3, <1>4, <2>1, <3>1, <3>4
    <3>5. QED
      BY <3>2, <3>3, <3>4
  <2>3. ASSUME NEW p \in DOMAIN next \ TabHosts
        PROVE  /\ insts'[p].computing => KindOf[p] = "config-status"
               /\ insts'[p].loading =>
                    KindOf[p] = "files" /\ \E l \in listings : l.pane = p /\ l.seq = insts'[p].seq
    <3>1. CASE p \in fresh
      BY <1>7, <3>1
    <3>2. CASE p \notin fresh
      <4>1. p \in DOMAIN arrange /\ insts'[p] = insts[p]
        BY <1>3, <1>4, <1>6, <3>2
      <4>2. QED
        BY <1>2, <4>1 DEF LatchesInv
    <3>3. QED
      BY <3>1, <3>2
  <2>4. QED
    BY <1>1, <2>1, <2>2, <2>3 DEF LatchesInv, Keyed
<1>11. QED
  BY <1>8, <1>9, <1>10 DEF InstInv

\* With one pane changed, a layout stays one.
LEMMA PaneChanged ==
  ASSUME Arranged(arrange), NEW p \in DOMAIN arrange, NEW tabs, NEW active,
         p \in tabs, active \in tabs, tabs \subseteq {p} \cup Minted, p \notin TabHosts => tabs = {p},
         \A q \in DOMAIN arrange : q # p => tabs \cap arrange[q].tabs = {}
  PROVE  Arranged([arrange EXCEPT ![p] = [tabs |-> tabs, active |-> active]])
<1> DEFINE pane == [tabs |-> tabs, active |-> active]
           next == [arrange EXCEPT ![p] = pane]
<1>1. /\ arrange \in [DOMAIN arrange -> Pane] /\ DOMAIN arrange \subseteq PaneIds
      /\ \A q \in DOMAIN arrange :
           /\ q \in arrange[q].tabs /\ arrange[q].active \in arrange[q].tabs /\ arrange[q].tabs \subseteq {q} \cup Minted
           /\ q \notin TabHosts => arrange[q].tabs = {q}
      /\ \A q, r \in DOMAIN arrange : q # r => arrange[q].tabs \cap arrange[r].tabs = {}
  BY DEF Arranged
<1>2. pane \in Pane /\ pane.tabs = tabs /\ pane.active = active
  BY <1>1 DEF Pane, Ids
<1> HIDE DEF pane
<1>3. /\ next \in [DOMAIN arrange -> Pane] /\ DOMAIN next = DOMAIN arrange /\ next[p] = pane
      /\ \A q \in DOMAIN arrange : q # p => next[q] = arrange[q]
  BY <1>1, <1>2
<1> HIDE DEF next
<1>4. \A q \in DOMAIN next :
        /\ q \in next[q].tabs /\ next[q].active \in next[q].tabs /\ next[q].tabs \subseteq {q} \cup Minted
        /\ q \notin TabHosts => next[q].tabs = {q}
  BY <1>1, <1>2, <1>3
<1>5. \A q, r \in DOMAIN next : q # r => next[q].tabs \cap next[r].tabs = {}
  BY <1>1, <1>2, <1>3
<1>6. Arranged(next)
  BY <1>1, <1>3, <1>4, <1>5 DEF Arranged
<1>7. QED
  BY <1>6 DEF next, pane

LEMMA HidePaneKeeps ==
  ASSUME InstInv, NEW p \in DOMAIN arrange, HidePane(p)
  PROVE  InstInv'
<1> DEFINE next == Restrict(arrange, DOMAIN arrange \ {p})
<1>1. Arranged(arrange) /\ Reconciled(next)
  BY DEF HidePane, InstInv, InstTyped
<1>2. /\ DOMAIN next = DOMAIN arrange \ {p} /\ \A q \in DOMAIN arrange \ {p} : next[q] = arrange[q]
      /\ next \in [DOMAIN next -> Pane]
  BY <1>1 DEF Arranged, Restrict
<1> HIDE DEF next
<1>3. Arranged(next)
  BY <1>1, <1>2 DEF Arranged
<1>4. QED
  BY <1>1, <1>3, ReconciledKeeps

LEMMA ShowPaneKeeps ==
  ASSUME InstInv, NEW p \in PaneIds, ShowPane(p)
  PROVE  InstInv'
<1> DEFINE pane == [tabs |-> {p}, active |-> p]
           next == [q \in DOMAIN arrange \cup {p} |-> IF q = p THEN pane ELSE arrange[q]]
<1>1. Arranged(arrange) /\ p \notin DOMAIN arrange /\ Reconciled(next)
  BY DEF ShowPane, InstInv, InstTyped
<1>2. pane \in Pane /\ pane.tabs = {p} /\ pane.active = p
  BY DEF Pane, Ids
<1> HIDE DEF pane
<1>3. /\ DOMAIN next = DOMAIN arrange \cup {p} /\ next[p] = pane
      /\ \A q \in DOMAIN arrange : next[q] = arrange[q]
      /\ next \in [DOMAIN next -> Pane]
  BY <1>1, <1>2 DEF Arranged
<1> HIDE DEF next
<1>4. \A q \in DOMAIN arrange : p \notin arrange[q].tabs
  BY <1>1, InstAssumption DEF Arranged
<1>5. \A q \in DOMAIN next :
        /\ q \in next[q].tabs /\ next[q].active \in next[q].tabs /\ next[q].tabs \subseteq {q} \cup Minted
        /\ q \notin TabHosts => next[q].tabs = {q}
  BY <1>1, <1>2, <1>3 DEF Arranged
<1>6. \A q, r \in DOMAIN next : q # r => next[q].tabs \cap next[r].tabs = {}
  BY <1>1, <1>2, <1>3, <1>4 DEF Arranged
<1>7. Arranged(next)
  BY <1>1, <1>3, <1>5, <1>6 DEF Arranged
<1>8. QED
  BY <1>1, <1>7, ReconciledKeeps

\* The tabs of a pane change, by what was or was not open anywhere.
LEMMA TabsKeep ==
  ASSUME InstInv, NEW p \in DOMAIN arrange, OpenTab(p) \/ SwitchTab(p) \/ CloseTab(p)
  PROVE  InstInv'
<1>1. /\ Arranged(arrange) /\ DOMAIN insts = Mounted(arrange) /\ p \in PaneIds
      /\ p \in arrange[p].tabs /\ arrange[p].active \in arrange[p].tabs /\ arrange[p].tabs \subseteq {p} \cup Minted
      /\ p \notin TabHosts => arrange[p].tabs = {p}
      /\ \A q \in DOMAIN arrange : q # p => arrange[p].tabs \cap arrange[q].tabs = {}
      /\ arrange[p] \in Pane
  BY DEF InstInv, InstTyped, Arranged
<1>2. p \notin Minted
  BY <1>1, InstAssumption
<1>3. CASE OpenTab(p)
  <2>1. PICK t \in Minted \ DOMAIN insts :
          Reconciled([arrange EXCEPT ![p] = [tabs |-> arrange[p].tabs \cup {t}, active |-> t]])
    BY <1>3 DEF OpenTab
  <2>2. p \in TabHosts /\ \A q \in DOMAIN arrange : t \notin arrange[q].tabs
    BY <1>1, <1>3 DEF OpenTab, Mounted
  <2> DEFINE tabs == arrange[p].tabs \cup {t}
  <2>3. Arranged([arrange EXCEPT ![p] = [tabs |-> tabs, active |-> t]])
    <3>1. p \in tabs /\ t \in tabs /\ tabs \subseteq {p} \cup Minted
      BY <1>1
    <3>2. \A q \in DOMAIN arrange : q # p => tabs \cap arrange[q].tabs = {}
      BY <1>1, <2>2
    <3> HIDE DEF tabs
    <3>3. QED
      BY <1>1, <2>2, <3>1, <3>2, PaneChanged
  <2>4. QED
    BY <2>1, <2>3, ReconciledKeeps
<1>4. CASE SwitchTab(p)
  <2>1. PICK t \in arrange[p].tabs \ {arrange[p].active} : Reconciled([arrange EXCEPT ![p].active = t])
    BY <1>4 DEF SwitchTab
  <2>2. [arrange EXCEPT ![p].active = t] = [arrange EXCEPT ![p] = [tabs |-> arrange[p].tabs, active |-> t]]
    <3>1. [arrange[p] EXCEPT !.active = t] = [tabs |-> arrange[p].tabs, active |-> t]
      BY <1>1 DEF Pane
    <3>2. QED
      BY <3>1
  <2>3. Arranged([arrange EXCEPT ![p] = [tabs |-> arrange[p].tabs, active |-> t]])
    BY <1>1, PaneChanged
  <2>4. QED
    BY <2>1, <2>2, <2>3, ReconciledKeeps
<1>5. CASE CloseTab(p)
  <2> DEFINE t == arrange[p].active
             tabs == arrange[p].tabs \ {t}
  <2>1. t \in Minted /\ \E before \in tabs : Reconciled([arrange EXCEPT ![p] = [tabs |-> tabs, active |-> before]])
    BY <1>5 DEF CloseTab
  <2>2. PICK before \in tabs : Reconciled([arrange EXCEPT ![p] = [tabs |-> tabs, active |-> before]])
    BY <2>1
  <2>3. Arranged([arrange EXCEPT ![p] = [tabs |-> tabs, active |-> before]])
    <3>1. p \in tabs /\ tabs \subseteq {p} \cup Minted /\ p \in TabHosts
      BY <1>1, <1>2, <2>1
    <3>2. \A q \in DOMAIN arrange : q # p => tabs \cap arrange[q].tabs = {}
      BY <1>1
    <3> HIDE DEF tabs
    <3>3. QED
      BY <1>1, <3>1, <3>2, PaneChanged
  <2>4. QED
    BY <2>2, <2>3, ReconciledKeeps
<1>6. QED
  BY <1>3, <1>4, <1>5

-----------------------------------------------------------------------------
(* The updates of a slice.                                                     *)

\* What an update makes of a slice: it is of the same instance, and a listing that
\* was asked for stays no newer than it.
Advances(s, next) ==
  /\ next \in Slice /\ next.mint = s.mint /\ next.madeFor = s.madeFor
  /\ s.seq <= next.seq /\ (s.seq = next.seq => s.cwd = next.cwd)
  /\ Listed(s) => Listed(next)

LEMMA SameAdvances ==
  ASSUME NEW s \in Slice
  PROVE  Advances(s, s)
BY DEF Advances, Slice

LEMMA AskedBefore ==
  ASSUME NEW s \in Slice, NEW next, Advances(s, next), NEW l \in Listing, Asked(l, s)
  PROVE  Asked(l, next)
<1>1. s.seq \in Nat /\ next.seq \in Nat /\ l.seq \in Nat
  BY DEF Slice, Listing, Advances
<1>2. QED
  BY <1>1 DEF Asked, Advances

LEMMA Kicked ==
  ASSUME NEW s \in Slice, NEW d \in Dirs
  PROVE  LET next == KickLoad(s, d)
         IN  /\ Advances(s, next) /\ next.computing = s.computing /\ next.loading
             /\ next.cwd = d /\ next.seq = s.seq + 1
<1> DEFINE next == KickLoad(s, d)
<1>1. s.seq \in Nat /\ s.computing \in BOOLEAN
  BY DEF Slice
<1>2. next = [s EXCEPT !.cwd = d, !.rows = NoRows, !.loading = TRUE, !.seq = s.seq + 1]
  BY DEF KickLoad
<1> HIDE DEF next
<1>3. next \in Slice
  <2>1. NoRows \in [dir : Dirs \cup {NoDir}, from : Nat] /\ s.seq + 1 \in Nat
    BY <1>1 DEF NoRows
  <2>2. QED
    BY <1>2, <2>1 DEF Slice
<1>4. next.mint = s.mint /\ next.madeFor = s.madeFor /\ next.computing = s.computing
  BY <1>2 DEF Slice
<1>5. next.loading /\ next.cwd = d /\ next.rows = NoRows /\ next.seq = s.seq + 1
  BY <1>2 DEF Slice
<1>6. Advances(s, next)
  BY <1>1, <1>3, <1>4, <1>5 DEF Advances, Listed
<1>7. QED
  BY <1>4, <1>5, <1>6 DEF next

\* Only the instance of a pane that it shows browses.
LEMMA BrowsesShown ==
  ASSUME InstTyped, ListingsInv, NEW t \in DOMAIN insts
  PROVE  /\ Browses(t, insts[t]) => /\ t \in DOMAIN arrange /\ KindOf[t] = "files"
                                    /\ arrange[t].active = t /\ PaneOf(t) = t
         /\ Computes(t, insts[t]) => /\ t \in DOMAIN arrange /\ KindOf[t] = "config-status"
                                     /\ ~insts[t].computing /\ PaneOf(t) = t
<1>1. t \in Ids /\ (t \in PaneIds => t \in DOMAIN arrange)
  BY SliceAt
<1>2. Arranged(arrange)
  BY DEF InstTyped
<1>3. t \in DOMAIN arrange => PaneOf(t) = t
  BY <1>2, PaneFound
<1>4. KindOfTab(t) # "text-view" => t \in DOMAIN arrange /\ KindOfTab(t) = KindOf[t]
  BY <1>1, KindIsPane
<1>5. QED
  BY <1>3, <1>4 DEF Browses, Computes

\* The pane of a host of no tabs is shown.
LEMMA HomeShown ==
  ASSUME InstTyped, ListingsInv, NEW p \in DOMAIN arrange \ TabHosts
  PROVE  /\ arrange[p].active = p /\ p \in DOMAIN insts /\ p \in PaneIds
         /\ Browses(p, insts[p]) <=> KindOf[p] = "files"
         /\ Computes(p, insts[p]) <=> KindOf[p] = "config-status" /\ ~insts[p].computing
<1>1. /\ arrange[p].active = p /\ p \in DOMAIN insts /\ p \in PaneIds /\ PaneOf(p) = p
      /\ insts[p].madeFor = p
  BY PaneNames, PaneFound, SliceAt DEF InstTyped, ListingsInv
<1>2. KindOfTab(p) = KindOf[p]
  BY <1>1, InstAssumption DEF KindOfTab
<1>3. QED
  BY <1>1, <1>2 DEF Browses, Computes

LEMMA RefreshAdvances ==
  ASSUME NEW t, NEW s \in Slice
  PROVE  LET next == OnRefresh(t, s)
         IN  /\ Advances(s, next)
             /\ Browses(t, s) => /\ next.computing = s.computing /\ next.seq = s.seq + 1
                                 /\ next.cwd \in Dirs /\ next.loading
             /\ ~Browses(t, s) => /\ next.loading = s.loading /\ next.seq = s.seq
                                  /\ next.computing = (s.computing \/ Computes(t, s))
<1> DEFINE next == OnRefresh(t, s)
<1>1. CASE Browses(t, s)
  <2>1. next = KickLoad(s, DirOf(s))
    BY <1>1 DEF OnRefresh
  <2>2. Root \in Dirs
    BY InstAssumption DEF Root
  <2>3. DirOf(s) \in Dirs
    BY <2>2 DEF DirOf, Slice
  <2>4. QED
    BY <1>1, <2>1, <2>3, Kicked
<1>2. CASE ~Browses(t, s) /\ Computes(t, s)
  <2>1. next = [s EXCEPT !.computing = TRUE]
    BY <1>2 DEF OnRefresh
  <2>2. /\ next \in Slice /\ next.mint = s.mint /\ next.madeFor = s.madeFor /\ next.seq = s.seq
        /\ next.cwd = s.cwd /\ next.rows = s.rows /\ next.loading = s.loading /\ next.computing
    BY <2>1 DEF Slice
  <2> HIDE DEF next
  <2>3. s.seq \in Nat
    BY DEF Slice
  <2>4. Advances(s, next)
    BY <2>2, <2>3 DEF Advances, Listed
  <2>5. next.computing = (s.computing \/ Computes(t, s))
    <3>1. next \in Slice /\ next.computing \in BOOLEAN
      BY <2>2 DEF Slice
    <3>2. QED
      BY <1>2, <2>2, <3>1
  <2>6. QED
    BY <1>2, <2>2, <2>4, <2>5 DEF next
<1>3. CASE ~Browses(t, s) /\ ~Computes(t, s)
  <2>1. next = s
    BY <1>3 DEF OnRefresh
  <2>2. s.computing \in BOOLEAN
    BY DEF Slice
  <2>3. QED
    BY <1>3, <2>1, <2>2, SameAdvances
<1>4. QED
  BY <1>1, <1>2, <1>3

-----------------------------------------------------------------------------
(* Msgs.                                                                       *)

\* A Msg advances the slices of the panes, and leaves those of other tabs alone
\* or gives them one of those.
Advanced(next) ==
  /\ next \in [DOMAIN insts -> Slice]
  /\ \A p \in DOMAIN arrange : Advances(insts[p], next[p])
  /\ \A t \in DOMAIN insts : next[t].mint <= mints /\ Listed(next[t])

LEMMA AdvancedKeeps ==
  ASSUME InstTyped, ListingsInv, Advanced(insts'), UNCHANGED <<arrange, mints>>,
         listings' \subseteq Listing, computes' \in Seq(Compute), frozen' \in BOOLEAN,
         \A l \in listings' \ listings :
           l.from <= mints /\ (l.pane \in DOMAIN arrange => Asked(l, insts'[l.pane]))
  PROVE  InstTyped' /\ ListingsInv'
<1>1. DOMAIN insts' = DOMAIN insts /\ insts' \in [DOMAIN insts' -> Slice]
  BY DEF Advanced
<1>2. /\ \A t \in DOMAIN insts : insts[t] \in Slice
      /\ \A p \in DOMAIN arrange : p \in DOMAIN insts
  BY SliceAt
<1>3. InstTyped'
  BY <1>1 DEF InstTyped
<1>4. ASSUME NEW l \in listings'
      PROVE  l.from <= mints /\ (l.pane \in DOMAIN arrange => Asked(l, insts'[l.pane]))
  <2>1. CASE l \in listings
    <3>1. l \in Listing /\ l.from <= mints /\ (l.pane \in DOMAIN arrange => Asked(l, insts[l.pane]))
      BY <2>1 DEF ListingsInv, InstTyped
    <3>2. l.pane \in DOMAIN arrange => Advances(insts[l.pane], insts'[l.pane]) /\ insts[l.pane] \in Slice
      BY <1>2 DEF Advanced
    <3>3. QED
      BY <3>1, <3>2, AskedBefore
  <2>2. QED
    BY <2>1
<1>5. \A p \in DOMAIN arrange : insts'[p].madeFor = p
  BY DEF Advanced, Advances, ListingsInv
<1>6. QED
  BY <1>1, <1>3, <1>4, <1>5 DEF Advanced, ListingsInv

\* A broadcast of updates that advance the slices they are given.
LEMMA BroadcastAdvances ==
  ASSUME InstTyped, ListingsInv, NEW next, DOMAIN next = DOMAIN insts,
         \A t \in DOMAIN insts : Advances(insts[t], next[t])
  PROVE  Advanced(WriteAll(next))
<1>1. /\ \A t \in DOMAIN insts : insts[t] \in Slice
      /\ \A p \in DOMAIN arrange : p \in DOMAIN insts
  BY SliceAt
<1>2. \A t \in DOMAIN insts :
        /\ insts[t].mint <= mints /\ Listed(insts[t])
        /\ next[t] \in Slice /\ next[t].mint <= mints /\ Listed(next[t])
  BY DEF Advances, ListingsInv
<1> DEFINE all == WriteAll(next)
<1>3. /\ DOMAIN all = DOMAIN insts
      /\ \A t \in DOMAIN insts : all[t] = insts[t] \/ \E u \in DOMAIN insts : all[t] = next[u]
      /\ \A p \in DOMAIN arrange : all[p] = IF arrange[p].active = p THEN next[p] ELSE insts[p]
  BY WriteAllAt
<1>4. all = [t \in DOMAIN insts |-> all[t]]
  BY DEF WriteAll
<1> HIDE DEF all
<1>5. \A t \in DOMAIN insts : all[t] \in Slice /\ all[t].mint <= mints /\ Listed(all[t])
  BY <1>1, <1>2, <1>3
<1>6. \A p \in DOMAIN arrange : Advances(insts[p], all[p])
  BY <1>1, <1>3, SameAdvances
<1>7. all \in [DOMAIN insts -> Slice]
  BY <1>4, <1>5
<1>8. QED
  BY <1>5, <1>6, <1>7 DEF Advanced, all

\* An update of the slice of the tab that a pane shows.
LEMMA OneAdvances ==
  ASSUME InstTyped, ListingsInv, NEW t \in DOMAIN insts, NEW s, Advances(insts[t], s),
         NEW next, next \in [DOMAIN insts -> Slice], next[t] = s,
         \A u \in DOMAIN insts : u # t => next[u] = insts[u]
  PROVE  Advanced(next)
<1>1. /\ \A u \in DOMAIN insts : insts[u] \in Slice /\ insts[u].mint <= mints /\ Listed(insts[u])
      /\ \A p \in DOMAIN arrange : p \in DOMAIN insts
  BY SliceAt DEF ListingsInv
<1>2. \A u \in DOMAIN insts : next[u].mint <= mints /\ Listed(next[u])
  BY <1>1 DEF Advances
<1>3. \A p \in DOMAIN arrange : Advances(insts[p], next[p])
  BY <1>1, SameAdvances
<1>4. QED
  BY <1>2, <1>3 DEF Advanced

LEMMA RunActionKeeps ==
  ASSUME InstInv, RunAction
  PROVE  InstInv'
<1>1. InstTyped /\ ListingsInv /\ LatchesInv
  BY DEF InstInv
<1>2. insts' = WriteAll(insts) /\ UNCHANGED <<arrange, listings, computes, frozen, mints>>
  BY DEF RunAction
<1>3. \A t \in DOMAIN insts : Advances(insts[t], insts[t])
  BY <1>1, SliceAt, SameAdvances
<1>4. Advanced(insts')
  BY <1>1, <1>2, <1>3, BroadcastAdvances
<1>5. InstTyped' /\ ListingsInv'
  BY <1>1, <1>2, <1>4, AdvancedKeeps DEF InstTyped
<1>6. \A p \in DOMAIN arrange : insts'[p] = insts[p]
  BY <1>1, <1>2, WriteAllAt
<1>7. LatchesInv'
  BY <1>1, <1>2, <1>6 DEF LatchesInv, Working
<1>8. QED
  BY <1>5, <1>7 DEF InstInv

LEMMA FreezeKeeps ==
  ASSUME InstInv, Freeze
  PROVE  InstInv'
<1>1. frozen' \in BOOLEAN /\ UNCHANGED <<arrange, insts, listings, computes, mints>>
  BY DEF Freeze
<1>2. QED
  BY <1>1 DEF InstInv, InstTyped, ListingsInv, LatchesInv, Working

LEMMA RefreshKeeps ==
  ASSUME InstInv, Refresh
  PROVE  InstInv'
<1> DEFINE next == [t \in DOMAIN insts |-> OnRefresh(t, insts[t])]
           browsing == {t \in DOMAIN insts : Browses(t, insts[t])}
           asked == {LoadOf(t, OnRefresh(t, insts[t])) : t \in browsing}
           due == {PaneOf(t) : t \in {u \in DOMAIN insts : Computes(u, insts[u])}}
<1>1. InstTyped /\ ListingsInv /\ LatchesInv
  BY DEF InstInv
<1>2. /\ insts' = WriteAll(next) /\ listings' = listings \cup asked /\ computes' = RunKeyed(computes, due)
      /\ UNCHANGED <<arrange, frozen, mints>>
  BY DEF Refresh
<1>3. /\ \A t \in DOMAIN insts : insts[t] \in Slice
      /\ \A p \in DOMAIN arrange : p \in DOMAIN insts /\ p \in PaneIds
  BY <1>1, SliceAt
<1>4. DOMAIN next = DOMAIN insts /\ \A t \in DOMAIN insts : next[t] = OnRefresh(t, insts[t])
  OBVIOUS
<1> HIDE DEF next
<1>5. \A t \in DOMAIN insts : Advances(insts[t], next[t])
  BY <1>3, <1>4, RefreshAdvances
<1>6. Advanced(insts')
  BY <1>1, <1>2, <1>4, <1>5, BroadcastAdvances
<1>7. \A p \in DOMAIN arrange : insts'[p] = IF arrange[p].active = p THEN next[p] ELSE insts[p]
  BY <1>1, <1>2, WriteAllAt
<1>8. ASSUME NEW t \in browsing
      PROVE  LET l == LoadOf(t, next[t])
             IN  /\ t \in DOMAIN arrange /\ arrange[t].active = t /\ KindOf[t] = "files"
                 /\ insts'[t] = next[t] /\ next[t].loading
                 /\ l \in Listing /\ l.pane = t /\ l.seq = next[t].seq /\ l.from = next[t].mint
                 /\ l.dir = next[t].cwd
  <2>1. t \in DOMAIN arrange /\ arrange[t].active = t /\ PaneOf(t) = t /\ t \in PaneIds /\ KindOf[t] = "files"
    BY <1>1, <1>3, BrowsesShown
  <2>2. next[t].cwd \in Dirs /\ next[t].loading /\ next[t] \in Slice
    BY <1>3, <1>4, RefreshAdvances DEF Advances
  <2>3. LoadOf(t, next[t]) = [pane |-> t, dir |-> next[t].cwd, seq |-> next[t].seq, from |-> next[t].mint]
    BY <2>1 DEF LoadOf
  <2>4. next[t].seq \in Nat /\ next[t].mint \in Nat
    BY <2>2 DEF Slice
  <2>5. LoadOf(t, next[t]) \in Listing
    BY <2>1, <2>2, <2>3, <2>4 DEF Listing
  <2>6. QED
    BY <1>7, <2>1, <2>2, <2>3, <2>5
<1>9. \A l \in asked : \E t \in browsing : l = LoadOf(t, next[t])
  BY <1>4
<1>10. \A t \in browsing : LoadOf(t, next[t]) \in asked
  BY <1>4
<1> HIDE DEF browsing, asked
<1>11. \A l \in asked : l \in Listing /\ l.from <= mints /\ l.pane \in DOMAIN arrange /\ Asked(l, insts'[l.pane])
  <2>1. ASSUME NEW t \in browsing
        PROVE  LET l == LoadOf(t, next[t]) IN l.from <= mints /\ Asked(l, insts'[l.pane])
    <3>1. next[t].mint <= mints /\ next[t].seq \in Nat
      BY <1>3, <1>6, <1>8 DEF Advanced, Slice
    <3>2. QED
      BY <1>8, <3>1 DEF Asked
  <2>2. QED
    BY <1>8, <1>9, <2>1
<1>12. due \subseteq PaneIds /\ \A p \in DOMAIN insts : p \in due <=> Computes(p, insts[p])
  BY <1>1, <1>3, BrowsesShown
<1>13. \A p \in due : p \in DOMAIN arrange
  BY <1>1, <1>3, BrowsesShown
<1> HIDE DEF due
<1>14. /\ computes' \in Seq(Compute) /\ Keyed(computes')
       /\ \A p : IF p \in due THEN \E i \in Working(computes', p) : Working(computes', p) = {i}
                 ELSE Working(computes', p) = Working(computes, p)
  BY <1>1, <1>2, <1>12, RunKeyedOnce DEF InstTyped, LatchesInv, Keyed
<1>15. InstTyped' /\ ListingsInv'
  <2>1. listings' \subseteq Listing /\ frozen' \in BOOLEAN
    BY <1>1, <1>2, <1>11 DEF InstTyped
  <2>2. \A l \in listings' \ listings :
          l.from <= mints /\ (l.pane \in DOMAIN arrange => Asked(l, insts'[l.pane]))
    BY <1>2, <1>11
  <2>3. QED
    BY <1>1, <1>2, <1>6, <1>14, <2>1, <2>2, AdvancedKeeps
<1>16. ASSUME NEW p \in DOMAIN arrange \ TabHosts
       PROVE  /\ insts'[p].computing = (insts[p].computing \/ p \in due)
              /\ p \in due => KindOf[p] = "config-status"
              /\ IF KindOf[p] = "files" THEN p \in browsing ELSE insts'[p].loading = insts[p].loading /\ insts'[p].seq = insts[p].seq
  <2>1. /\ arrange[p].active = p /\ p \in DOMAIN insts /\ p \in PaneIds
        /\ Browses(p, insts[p]) <=> KindOf[p] = "files"
        /\ Computes(p, insts[p]) <=> KindOf[p] = "config-status" /\ ~insts[p].computing
    BY <1>1, HomeShown
  <2>2. insts'[p] = OnRefresh(p, insts[p]) /\ insts[p] \in Slice /\ insts[p].computing \in BOOLEAN
    BY <1>3, <1>4, <1>7, <2>1 DEF Slice
  <2>3. CASE KindOf[p] = "files"
    BY <1>12, <2>1, <2>2, <2>3, RefreshAdvances DEF browsing
  <2>4. CASE KindOf[p] # "files"
    BY <1>12, <2>1, <2>2, <2>4, RefreshAdvances
  <2>5. QED
    BY <2>3, <2>4
<1>17. LatchesInv'
  <2>1. ASSUME NEW p \in PaneIds \ TabHosts
        PROVE  IF p \in DOMAIN arrange /\ insts'[p].computing
               THEN \E i \in Working(computes', p) : Working(computes', p) = {i}
               ELSE Working(computes', p) = {}
    <3>1. IF p \in DOMAIN arrange /\ insts[p].computing
          THEN \E i \in Working(computes, p) : Working(computes, p) = {i}
          ELSE Working(computes, p) = {}
      BY <1>1 DEF LatchesInv
    <3>2. CASE p \in due
      BY <1>13, <1>14, <1>16, <3>2
    <3>3. CASE p \notin due
      <4>1. Working(computes', p) = Working(computes, p)
        BY <1>14, <3>3
      <4>2. p \in DOMAIN arrange => insts'[p].computing = insts[p].computing
        <5>1. p \in DOMAIN arrange => insts[p].computing \in BOOLEAN
          BY <1>3 DEF Slice
        <5>2. QED
          BY <1>16, <3>3, <5>1
      <4>3. QED
        BY <3>1, <4>1, <4>2
    <3>4. QED
      BY <3>2, <3>3
  <2>2. ASSUME NEW p \in DOMAIN arrange \ TabHosts
        PROVE  /\ insts'[p].computing => KindOf[p] = "config-status"
               /\ insts'[p].loading =>
                    KindOf[p] = "files" /\ \E l \in listings' : l.pane = p /\ l.seq = insts'[p].seq
    <3>1. /\ insts[p].computing => KindOf[p] = "config-status"
          /\ insts[p].loading => KindOf[p] = "files" /\ \E l \in listings : l.pane = p /\ l.seq = insts[p].seq
      BY <1>1 DEF LatchesInv
    <3>2. CASE KindOf[p] = "files"
      <4>1. p \in browsing
        BY <1>16, <3>2
      <4>2. /\ LoadOf(p, next[p]) \in listings'
            /\ LoadOf(p, next[p]).pane = p /\ LoadOf(p, next[p]).seq = insts'[p].seq
        BY <1>2, <1>8, <1>10, <4>1
      <4>3. \E l \in listings' : l.pane = p /\ l.seq = insts'[p].seq
        BY <4>2
      <4>4. insts'[p].computing => KindOf[p] = "config-status"
        BY <1>16, <3>1
      <4>5. QED
        BY <3>2, <4>3, <4>4
    <3>3. CASE KindOf[p] # "files"
      BY <1>16, <3>1, <3>3
    <3>4. QED
      BY <3>2, <3>3
  <2>3. QED
    BY <1>2, <1>14, <2>1, <2>2 DEF LatchesInv, Keyed
<1>18. QED
  BY <1>15, <1>17 DEF InstInv

LEMMA EnterDirKeeps ==
  ASSUME InstInv, NEW p \in DOMAIN arrange, EnterDir(p)
  PROVE  InstInv'
<1> DEFINE t == arrange[p].active
<1>1. InstTyped /\ ListingsInv /\ LatchesInv
  BY DEF InstInv
<1>2. /\ Browses(t, insts[t]) /\ UNCHANGED <<arrange, computes, frozen, mints>>
      /\ \E d \in Dirs \ {insts[t].rows.dir} :
           /\ insts' = [insts EXCEPT ![t] = KickLoad(insts[t], d)]
           /\ listings' = listings \cup {LoadOf(t, KickLoad(insts[t], d))}
  BY DEF EnterDir
<1>3. PICK d \in Dirs : /\ insts' = [insts EXCEPT ![t] = KickLoad(insts[t], d)]
                        /\ listings' = listings \cup {LoadOf(t, KickLoad(insts[t], d))}
  BY <1>2
<1>4. t \in DOMAIN insts
  BY <1>1, PaneNames DEF InstTyped
<1>5. t \in DOMAIN arrange /\ KindOf[t] = "files" /\ arrange[t].active = t /\ PaneOf(t) = t
  BY <1>1, <1>2, <1>4, BrowsesShown
<1> HIDE DEF t
<1> DEFINE s == KickLoad(insts[t], d)
           l == LoadOf(t, s)
<1>6. insts[t] \in Slice /\ t \in PaneIds /\ \A p2 \in DOMAIN arrange : p2 \in DOMAIN insts
  BY <1>1, <1>4, <1>5, SliceAt
<1>7. /\ Advances(insts[t], s) /\ s.computing = insts[t].computing /\ s.loading /\ s.cwd = d
  BY <1>6, Kicked
<1>8. l = [pane |-> t, dir |-> d, seq |-> s.seq, from |-> s.mint]
  BY <1>5, <1>7 DEF LoadOf
<1>9. insts' = [insts EXCEPT ![t] = s] /\ listings' = listings \cup {l}
  BY <1>3
<1> HIDE DEF s, l
<1>10. s \in Slice /\ s.seq \in Nat /\ s.mint \in Nat /\ s.mint <= mints
  BY <1>1, <1>4, <1>7 DEF Advances, Slice, ListingsInv
<1>11. /\ insts' \in [DOMAIN insts -> Slice] /\ insts'[t] = s
       /\ \A u \in DOMAIN insts : u # t => insts'[u] = insts[u]
  BY <1>1, <1>4, <1>9, <1>10 DEF InstTyped
<1>12. Advanced(insts')
  BY <1>1, <1>4, <1>7, <1>11, OneAdvances
<1>13. /\ l \in Listing /\ l.pane = t /\ l.seq = s.seq /\ l.from = s.mint /\ l.dir = s.cwd
       /\ Asked(l, s)
  BY <1>6, <1>7, <1>8, <1>10 DEF Listing, Asked
<1>14. InstTyped' /\ ListingsInv'
  <2>1. listings' \subseteq Listing /\ frozen' \in BOOLEAN /\ computes' \in Seq(Compute)
    BY <1>1, <1>2, <1>9, <1>13 DEF InstTyped
  <2>2. \A k \in listings' \ listings :
          k.from <= mints /\ (k.pane \in DOMAIN arrange => Asked(k, insts'[k.pane]))
    BY <1>9, <1>10, <1>11, <1>13
  <2>3. QED
    BY <1>1, <1>2, <1>12, <2>1, <2>2, AdvancedKeeps
<1>15. LatchesInv'
  <2>1. \A q \in DOMAIN arrange : insts'[q].computing = insts[q].computing
    BY <1>6, <1>7, <1>11
  <2>2. ASSUME NEW q \in DOMAIN arrange \ TabHosts, insts'[q].loading
        PROVE  KindOf[q] = "files" /\ \E k \in listings' : k.pane = q /\ k.seq = insts'[q].seq
    <3>1. CASE q = t
      BY <1>5, <1>9, <1>11, <1>13, <3>1
    <3>2. CASE q # t
      BY <1>1, <1>6, <1>9, <1>11, <2>2, <3>2 DEF LatchesInv
    <3>3. QED
      BY <3>1, <3>2
  <2>3. QED
    BY <1>1, <1>2, <2>1, <2>2 DEF LatchesInv, Working
<1>16. QED
  BY <1>14, <1>15 DEF InstInv

\* What a listing makes of the slice it reaches.
LEMMA DirLoadedAdvances ==
  ASSUME NEW t, NEW s \in Slice, NEW l \in Listing, KindOfTab(t) = "files" => Asked(l, s)
  PROVE  LET next == OnDirLoaded(t, s, l)
         IN  /\ Advances(s, next) /\ next.computing = s.computing /\ next.seq = s.seq
             /\ next.loading => s.loading
             /\ KindOfTab(t) = "files" /\ KindOfTab(s.madeFor) = "files" /\ l.seq = s.seq => ~next.loading
<1> DEFINE next == OnDirLoaded(t, s, l)
           rows == [dir |-> l.dir, from |-> l.from]
<1>1. CASE KindOfTab(t) # "files" \/ KindOfTab(s.madeFor) # "files" \/ StaleSeq(s, l)
  BY <1>1, SameAdvances DEF OnDirLoaded, StaleSeq
<1>2. CASE KindOfTab(t) = "files" /\ KindOfTab(s.madeFor) = "files" /\ ~StaleSeq(s, l)
  <2>1. next = [s EXCEPT !.rows = rows, !.loading = FALSE]
    BY <1>2 DEF OnDirLoaded
  <2>2. rows \in [dir : Dirs \cup {NoDir}, from : Nat] /\ rows.dir = l.dir /\ rows.from = l.from
    BY DEF Listing
  <2> HIDE DEF rows
  <2>3. /\ next \in Slice /\ next.mint = s.mint /\ next.madeFor = s.madeFor /\ next.seq = s.seq
        /\ next.cwd = s.cwd /\ next.rows = rows /\ ~next.loading /\ next.computing = s.computing
    BY <2>1, <2>2 DEF Slice
  <2> HIDE DEF next
  <2>4. s.seq \in Nat /\ l.seq = s.seq
    BY <1>2 DEF Slice, StaleSeq
  <2>5. Listed(next)
    BY <1>2, <2>2, <2>3, <2>4 DEF Listed, Asked
  <2>6. QED
    BY <2>3, <2>4, <2>5 DEF Advances, next
<1>3. QED
  BY <1>1, <1>2

LEMMA DirLoadedKeeps ==
  ASSUME InstInv, NEW l \in listings, DirLoaded(l)
  PROVE  InstInv'
<1> DEFINE reached == Wrapped("dirLoaded", l.pane)
<1>1. InstTyped /\ ListingsInv /\ LatchesInv
  BY DEF InstInv
<1>2. /\ insts' = [t \in DOMAIN insts |-> IF t \in reached THEN OnDirLoaded(t, insts[t], l) ELSE insts[t]]
      /\ listings' = listings \ {l} /\ UNCHANGED <<arrange, computes, frozen, mints>>
  BY DEF DirLoaded
<1>3. reached = IF l.pane \in DOMAIN arrange THEN {arrange[l.pane].active} ELSE {}
  BY DEF Wrapped, Passes, ResolveActive
<1> HIDE DEF reached
<1>4. l \in Listing /\ (l.pane \in DOMAIN arrange => Asked(l, insts[l.pane]))
  BY <1>1 DEF InstTyped, ListingsInv
<1>5. /\ \A t \in DOMAIN insts : insts[t] \in Slice /\ t \in Ids
      /\ \A p \in DOMAIN arrange : p \in DOMAIN insts /\ p \in PaneIds
  BY <1>1, SliceAt
<1>6. \A p \in DOMAIN arrange : arrange[p].active \in DOMAIN insts /\ (arrange[p].active \in PaneIds => arrange[p].active = p)
  BY <1>1, PaneNames DEF InstTyped
<1>7. ASSUME NEW t \in reached PROVE t \in DOMAIN insts /\ (KindOfTab(t) = "files" => t = l.pane /\ Asked(l, insts[t]))
  <2>1. l.pane \in DOMAIN arrange /\ t = arrange[l.pane].active
    BY <1>3
  <2>2. KindOfTab(t) = "files" => t \in PaneIds
    BY <1>5, <1>6, <2>1, KindIsPane
  <2>3. QED
    BY <1>4, <1>6, <2>1, <2>2
<1>8. \A t \in reached : LET next == OnDirLoaded(t, insts[t], l)
                         IN  /\ Advances(insts[t], next) /\ next.computing = insts[t].computing
                             /\ next.seq = insts[t].seq /\ (next.loading => insts[t].loading)
                             /\ KindOfTab(t) = "files" /\ KindOfTab(insts[t].madeFor) = "files"
                                /\ l.seq = insts[t].seq => ~next.loading
  BY <1>4, <1>5, <1>7, DirLoadedAdvances
<1>9. \A t \in DOMAIN insts : insts'[t] = IF t \in reached THEN OnDirLoaded(t, insts[t], l) ELSE insts[t]
  BY <1>2
<1>10. \A t \in DOMAIN insts : /\ Advances(insts[t], insts'[t]) /\ insts'[t].computing = insts[t].computing
                               /\ insts'[t].seq = insts[t].seq /\ (insts'[t].loading => insts[t].loading)
  BY <1>5, <1>8, <1>9, SameAdvances
<1>11. Advanced(insts')
  <2>1. \A t \in DOMAIN insts : insts'[t] \in Slice /\ insts'[t].mint <= mints /\ Listed(insts'[t])
    BY <1>1, <1>10 DEF Advances, ListingsInv
  <2>2. insts' \in [DOMAIN insts -> Slice]
    BY <1>2, <2>1
  <2>3. QED
    BY <1>5, <1>10, <2>1, <2>2 DEF Advanced
<1>12. InstTyped' /\ ListingsInv'
  <2>1. listings' \subseteq Listing /\ frozen' \in BOOLEAN /\ computes' \in Seq(Compute)
    BY <1>1, <1>2 DEF InstTyped
  <2>2. listings' \ listings = {}
    BY <1>2
  <2>3. QED
    BY <1>1, <1>2, <1>11, <2>1, <2>2, AdvancedKeeps
<1>13. LatchesInv'
  <2>1. \A q \in DOMAIN arrange : insts'[q].computing = insts[q].computing
    BY <1>5, <1>10
  <2>2. ASSUME NEW q \in DOMAIN arrange \ TabHosts, insts'[q].loading
        PROVE  KindOf[q] = "files" /\ \E k \in listings' : k.pane = q /\ k.seq = insts'[q].seq
    <3>1. /\ KindOf[q] = "files" /\ insts'[q].seq = insts[q].seq
      BY <1>1, <1>5, <1>10, <2>2 DEF LatchesInv
    <3>2. PICK k \in listings : k.pane = q /\ k.seq = insts[q].seq
      BY <1>1, <1>5, <1>10, <2>2 DEF LatchesInv
    <3>3. k # l
      <4>1. SUFFICES ASSUME k = l PROVE FALSE
        OBVIOUS
      <4>2. arrange[q].active = q /\ q \in DOMAIN insts /\ q \in PaneIds /\ insts[q].madeFor = q
        BY <1>1, HomeShown DEF ListingsInv
      <4>3. q \in reached
        BY <1>3, <3>2, <4>1, <4>2
      <4>4. KindOfTab(q) = "files"
        BY <3>1, <4>2, InstAssumption DEF KindOfTab
      <4>5. ~insts'[q].loading
        BY <1>8, <1>9, <3>2, <4>1, <4>2, <4>3, <4>4
      <4>6. QED
        BY <2>2, <4>5
    <3>4. QED
      BY <1>2, <3>1, <3>2, <3>3
  <2>3. \A q \in DOMAIN arrange \ TabHosts : insts'[q].computing => KindOf[q] = "config-status"
    BY <1>1, <2>1 DEF LatchesInv
  <2>4. \A q \in PaneIds \ TabHosts :
          IF q \in DOMAIN arrange /\ insts'[q].computing
          THEN \E i \in Working(computes, q) : Working(computes, q) = {i}
          ELSE Working(computes, q) = {}
    BY <1>1, <2>1 DEF LatchesInv
  <2>5. QED
    BY ZenonT(30), <1>1, <1>2, <2>2, <2>3, <2>4 DEF LatchesInv
<1>14. QED
  BY <1>12, <1>13 DEF InstInv

LEMMA StatusAdvances ==
  ASSUME NEW t, NEW s \in Slice
  PROVE  LET next == OnStatus(t, s)
         IN  /\ Advances(s, next) /\ next.loading = s.loading /\ next.seq = s.seq
             /\ next.computing => s.computing
             /\ KindOfTab(t) = "config-status" => ~next.computing
<1> DEFINE next == OnStatus(t, s)
<1>1. CASE KindOfTab(t) # "config-status"
  BY <1>1, SameAdvances DEF OnStatus
<1>2. CASE KindOfTab(t) = "config-status"
  <2>1. next = [s EXCEPT !.computing = FALSE]
    BY <1>2 DEF OnStatus
  <2>2. /\ next \in Slice /\ next.mint = s.mint /\ next.madeFor = s.madeFor /\ next.seq = s.seq
        /\ next.cwd = s.cwd /\ next.rows = s.rows /\ next.loading = s.loading /\ ~next.computing
    BY <2>1 DEF Slice
  <2> HIDE DEF next
  <2>3. s.seq \in Nat
    BY DEF Slice
  <2>4. QED
    BY <2>2, <2>3 DEF Advances, Listed, next
<1>3. QED
  BY <1>1, <1>2

LEMMA ComputedKeeps ==
  ASSUME InstInv, Computed
  PROVE  InstInv'
<1> DEFINE c == Head(computes)
           reached == IF c.aborted THEN {} ELSE Wrapped("cfgStatusResult", c.pane)
<1>1. InstTyped /\ ListingsInv /\ LatchesInv
  BY DEF InstInv
<1>2. /\ insts' = [t \in DOMAIN insts |-> IF t \in reached THEN OnStatus(t, insts[t]) ELSE insts[t]]
      /\ computes # <<>> /\ computes' = Tail(computes) /\ UNCHANGED <<arrange, listings, frozen, mints>>
  BY DEF Computed
<1>3. reached = IF ~c.aborted /\ c.pane \in DOMAIN arrange THEN {arrange[c.pane].active} ELSE {}
  BY DEF Wrapped, Passes, ResolveActive
<1> HIDE DEF reached
<1>4. /\ \A t \in DOMAIN insts : insts[t] \in Slice
      /\ \A p \in DOMAIN arrange : p \in DOMAIN insts /\ p \in PaneIds
  BY <1>1, SliceAt
<1>5. \A t \in DOMAIN insts : LET next == OnStatus(t, insts[t])
                              IN  /\ Advances(insts[t], next) /\ next.loading = insts[t].loading
                                  /\ next.seq = insts[t].seq /\ (next.computing => insts[t].computing)
                                  /\ KindOfTab(t) = "config-status" => ~next.computing
  BY <1>4, StatusAdvances
<1>6. \A t \in DOMAIN insts : insts'[t] = IF t \in reached THEN OnStatus(t, insts[t]) ELSE insts[t]
  BY <1>2
<1>7. \A t \in DOMAIN insts : /\ Advances(insts[t], insts'[t]) /\ insts'[t].loading = insts[t].loading
                              /\ insts'[t].seq = insts[t].seq
  BY <1>4, <1>5, <1>6, SameAdvances
<1>8. Advanced(insts')
  <2>1. \A t \in DOMAIN insts : insts'[t] \in Slice /\ insts'[t].mint <= mints /\ Listed(insts'[t])
    BY <1>1, <1>7 DEF Advances, ListingsInv
  <2>2. insts' \in [DOMAIN insts -> Slice]
    BY <1>2, <2>1
  <2>3. QED
    BY <1>4, <1>7, <2>1, <2>2 DEF Advanced
<1>9. /\ computes' \in Seq(Compute) /\ Keyed(computes') /\ c \in Compute
      /\ \A p : (\A i, j \in Working(computes, p) : i = j) =>
             IF c.pane = p /\ ~c.aborted THEN Working(computes, p) # {} /\ Working(computes', p) = {}
             ELSE IF Working(computes, p) = {} THEN Working(computes', p) = {}
             ELSE \E i \in Working(computes', p) : Working(computes', p) = {i}
  BY <1>1, <1>2, ComputeTaken DEF InstTyped, LatchesInv, Keyed
<1> HIDE DEF c
<1>10. InstTyped' /\ ListingsInv'
  <2>1. listings' \subseteq Listing /\ frozen' \in BOOLEAN /\ listings' \ listings = {}
    BY <1>1, <1>2 DEF InstTyped
  <2>2. QED
    BY <1>1, <1>2, <1>8, <1>9, <2>1, AdvancedKeeps
<1>11. LatchesInv'
  <2>1. ASSUME NEW p \in PaneIds \ TabHosts
        PROVE  IF p \in DOMAIN arrange /\ insts'[p].computing
               THEN \E i \in Working(computes', p) : Working(computes', p) = {i}
               ELSE Working(computes', p) = {}
    <3>1. IF p \in DOMAIN arrange /\ insts[p].computing
          THEN \E i \in Working(computes, p) : Working(computes, p) = {i}
          ELSE Working(computes, p) = {}
      BY <1>1 DEF LatchesInv
    <3>2. \A i, j \in Working(computes, p) : i = j
      BY <3>1
    <3>3. p \in DOMAIN arrange => arrange[p].active = p /\ p \in DOMAIN insts
      BY <1>1, HomeShown
    <3>4. CASE c.pane = p /\ ~c.aborted
      <4>1. Working(computes, p) # {} /\ Working(computes', p) = {}
        BY <1>9, <3>2, <3>4
      <4>2. p \in DOMAIN arrange /\ insts[p].computing
        BY <3>1, <4>1
      <4>3. KindOf[p] = "config-status"
        BY <1>1, <4>2 DEF LatchesInv
      <4>4. KindOfTab(p) = "config-status"
        BY <4>3, InstAssumption DEF KindOfTab
      <4>5. ~insts'[p].computing
        BY <1>3, <1>5, <1>6, <3>3, <3>4, <4>2, <4>4
      <4>6. QED
        BY <4>1, <4>5
    <3>5. CASE ~(c.pane = p /\ ~c.aborted)
      <4>1. IF Working(computes, p) = {} THEN Working(computes', p) = {}
            ELSE \E i \in Working(computes', p) : Working(computes', p) = {i}
        BY <1>9, <3>2, <3>5
      <4>2. p \notin reached
        <5>1. ASSUME ~c.aborted, c.pane \in DOMAIN arrange, arrange[c.pane].active = p PROVE FALSE
          <6>1. c.pane = p
            BY <1>1, <5>1, PaneNames DEF InstTyped
          <6>2. QED
            BY <3>5, <5>1, <6>1
        <5>2. QED
          BY <1>3, <5>1
      <4>3. p \in DOMAIN arrange => insts'[p].computing = insts[p].computing
        BY <1>6, <3>3, <4>2
      <4>4. QED
        BY <3>1, <4>1, <4>3
    <3>6. QED
      BY <3>4, <3>5
  <2>2. ASSUME NEW p \in DOMAIN arrange \ TabHosts
        PROVE  /\ insts'[p].computing => KindOf[p] = "config-status"
               /\ insts'[p].loading =>
                    KindOf[p] = "files" /\ \E l \in listings : l.pane = p /\ l.seq = insts'[p].seq
    <3>1. /\ insts[p].computing => KindOf[p] = "config-status"
          /\ insts[p].loading => KindOf[p] = "files" /\ \E l \in listings : l.pane = p /\ l.seq = insts[p].seq
      BY <1>1 DEF LatchesInv
    <3>2. p \in DOMAIN insts /\ (insts'[p].computing => insts[p].computing)
      BY <1>4, <1>5, <1>6
    <3>3. QED
      BY <1>7, <3>1, <3>2
  <2>3. QED
    BY <1>2, <1>9, <2>1, <2>2 DEF LatchesInv, Keyed
<1>12. QED
  BY <1>10, <1>11 DEF InstInv

-----------------------------------------------------------------------------
LEMMA InstInvInit ==
  ASSUME InstInit
  PROVE  InstInv
<1>1. /\ arrange = [p \in PaneIds |-> [tabs |-> {p}, active |-> p]]
      /\ insts = [p \in PaneIds |-> NewSlice(p, 0)]
      /\ listings = {} /\ computes = <<>> /\ frozen = FALSE /\ mints = 0
  BY DEF InstInit
<1>2. /\ DOMAIN arrange = PaneIds /\ \A p \in PaneIds : arrange[p].tabs = {p} /\ arrange[p].active = p
  BY <1>1
<1>3. arrange \in [PaneIds -> Pane]
  BY <1>1 DEF Pane, Ids
<1>4. Arranged(arrange)
  BY <1>2, <1>3 DEF Arranged
<1>5. Mounted(arrange) = PaneIds
  BY <1>2 DEF Mounted
<1>6. \A p \in PaneIds : /\ insts[p] \in Slice /\ insts[p].mint = 0 /\ insts[p].madeFor = p
                         /\ insts[p].rows = NoRows /\ ~insts[p].computing /\ ~insts[p].loading
  <2>1. ASSUME NEW p \in PaneIds PROVE p \in Ids /\ 0 \in Nat /\ insts[p] = NewSlice(p, 0)
    BY <1>1 DEF Ids
  <2>2. QED
    BY <2>1, FreshSlice
<1>7. DOMAIN insts = PaneIds /\ insts \in [PaneIds -> Slice]
  BY <1>1, <1>6
<1>8. computes \in Seq(Compute) /\ DOMAIN computes = {}
  <2>1. computes \in Seq(Compute) /\ Len(computes) = 0
    BY <1>1, EmptySeq
  <2>2. QED
    BY <2>1, ComputeAt
<1>9. InstTyped
  BY <1>1, <1>4, <1>5, <1>7, <1>8 DEF InstTyped
<1>10. ListingsInv
  BY <1>1, <1>2, <1>6, <1>7 DEF ListingsInv, Listed
<1>11. LatchesInv
  BY <1>1, <1>2, <1>6, <1>8 DEF LatchesInv, Working
<1>12. QED
  BY <1>9, <1>10, <1>11 DEF InstInv

LEMMA InstInvNext ==
  ASSUME InstInv, [InstNext]_instVars
  PROVE  InstInv'
<1>1. CASE Refresh
  BY <1>1, RefreshKeeps
<1>2. CASE RunAction
  BY <1>2, RunActionKeeps
<1>3. CASE Computed
  BY <1>3, ComputedKeeps
<1>4. CASE Freeze
  BY <1>4, FreezeKeeps
<1>5. ASSUME NEW l \in listings, DirLoaded(l) PROVE InstInv'
  BY <1>5, DirLoadedKeeps
<1>6. ASSUME NEW p \in DOMAIN arrange, EnterDir(p) \/ HidePane(p) \/ OpenTab(p) \/ SwitchTab(p) \/ CloseTab(p)
      PROVE  InstInv'
  BY <1>6, EnterDirKeeps, HidePaneKeeps, TabsKeep
<1>7. ASSUME NEW p \in PaneIds, ShowPane(p) PROVE InstInv'
  BY <1>7, ShowPaneKeeps
<1>8. CASE UNCHANGED instVars
  BY <1>8 DEF instVars, InstInv, InstTyped, ListingsInv, LatchesInv, Working
<1>9. QED
  BY <1>1, <1>2, <1>3, <1>4, <1>5, <1>6, <1>7, <1>8 DEF InstNext

LEMMA InstInvAlways == InstSpec => []InstInv
<1>1. InstInit => InstInv
  BY InstInvInit
<1>2. InstInv /\ [InstNext]_instVars => InstInv'
  BY InstInvNext
<1>3. QED
  BY <1>1, <1>2, PTL DEF InstSpec

\* The listing that a files pane shows is the one of the directory it is in, however
\* many listings are under way and however late they come in, whatever is opened,
\* shown, hidden and placed again meanwhile.
THEOREM ListingsAlwaysBelong == InstSpec => []ListingBelongs
<1>1. InstInv => ListingBelongs
  BY DEF InstInv, ListingsInv, Listed, ListingBelongs
<1>2. QED
  BY <1>1, InstInvAlways, PTL

\* A pane that loads or computes has its work under way, and a pane that does not
\* compute has none on its way.
THEOREM LatchesAlwaysWork == InstSpec => []LatchHasWork
<1>1. ASSUME InstInv, NEW p \in DOMAIN arrange \ TabHosts
      PROVE  /\ IF insts[p].computing
                THEN \E i \in Working(computes, p) : Working(computes, p) = {i}
                ELSE Working(computes, p) = {}
             /\ insts[p].loading => \E l \in listings : l.pane = p /\ l.seq = insts[p].seq
  <2>1. p \in PaneIds
    BY <1>1, SliceAt DEF InstInv
  <2>2. QED
    BY <1>1, <2>1 DEF InstInv, LatchesInv
<1>2. InstInv => LatchHasWork
  BY <1>1 DEF LatchHasWork, Working
<1>3. QED
  BY <1>2, InstInvAlways, PTL

\* A slice is one the Component of its pane made, a listing one that was asked for,
\* and the tabs of a layout have instances, each its own.
THEOREM InstancesAlwaysTyped == InstSpec => []InstTypeOK
<1>1. InstInv => InstTypeOK
  BY DEF InstInv, InstTyped, Arranged, InstTypeOK
<1>2. QED
  BY <1>1, InstInvAlways, PTL

-----------------------------------------------------------------------------
(* The text views: counting lines.                                             *)

(* How many members of a set are at most i tells which member i is.            *)
LEMMA RankIsOne ==
  ASSUME NEW at \in SUBSET Int, IsFiniteSet(at)
  PROVE  /\ Cardinality(at) \in Nat
         /\ \A n \in 1 .. Cardinality(at) : \E i \in at : Cardinality({j \in at : j <= i}) = n
         /\ \A i, k \in at : Cardinality({j \in at : j <= i}) = Cardinality({j \in at : j <= k}) => i = k
<1> DEFINE upto(i) == {j \in at : j <= i}
           f == [i \in at |-> Cardinality(upto(i))]
           size == Cardinality(at)
<1>1. size \in Nat
  BY FS_CardinalityType
<1>2. ASSUME NEW i \in at
      PROVE  IsFiniteSet(upto(i)) /\ Cardinality(upto(i)) \in 1 .. size
  <2>1. upto(i) \in SUBSET at /\ i \in upto(i)
    OBVIOUS
  <2> HIDE DEF upto
  <2>2. IsFiniteSet(upto(i)) /\ Cardinality(upto(i)) <= size
    BY <2>1, FS_Subset
  <2>3. Cardinality(upto(i)) \in Nat /\ Cardinality(upto(i)) # 0
    BY <2>1, <2>2, FS_CardinalityType, FS_EmptySet
  <2>4. QED
    BY <1>1, <2>2, <2>3
<1>3. ASSUME NEW i \in at, NEW k \in at, i < k
      PROVE  Cardinality(upto(i)) # Cardinality(upto(k))
  <2>1. upto(i) \in SUBSET upto(k) /\ upto(i) # upto(k)
    <3>1. k \in upto(k) /\ k \notin upto(i)
      BY <1>3
    <3>2. upto(i) \subseteq upto(k)
      <4>1. \A j \in at : j <= i => j <= k
        BY <1>3
      <4>2. QED
        BY <4>1
    <3>3. QED
      BY <3>1, <3>2
  <2> HIDE DEF upto
  <2>2. QED
    BY <1>2, <2>1, FS_Subset
<1>4. ASSUME NEW i \in at, NEW k \in at, Cardinality(upto(i)) = Cardinality(upto(k))
      PROVE  i = k
  <2> HIDE DEF upto
  <2>1. i \in Int /\ k \in Int
    OBVIOUS
  <2>2. ~(i < k) /\ ~(k < i)
    BY <1>3, <1>4
  <2>3. QED
    BY <2>1, <2>2
<1> HIDE DEF upto, size
<1>5. f \in Injection(at, 1 .. size)
  BY <1>2, <1>4 DEF Injection, IsInjective
<1>6. IsFiniteSet(1 .. size) /\ Cardinality(1 .. size) = size
  BY <1>1, FS_Interval
<1>7. f \in Surjection(at, 1 .. size)
  BY <1>5, <1>6, FS_Injection DEF size
<1>8. \A n \in 1 .. size : \E i \in at : f[i] = n
  BY <1>7 DEF Surjection
<1>9. QED
  BY <1>1, <1>4, <1>8 DEF upto, size

LEMMA RankedMember ==
  ASSUME NEW at \in SUBSET Int, IsFiniteSet(at)
  PROVE  Ranked(at) \in Seq(at) /\ Len(Ranked(at)) = Cardinality(at)
<1> DEFINE pick(n) == CHOOSE i \in at : Cardinality({j \in at : j <= i}) = n
<1>1. Cardinality(at) \in Nat
  BY RankIsOne
<1>2. ASSUME NEW n \in 1 .. Cardinality(at) PROVE pick(n) \in at
  BY RankIsOne
<1> HIDE DEF pick
<1>3. [n \in 1 .. Cardinality(at) |-> pick(n)] \in Seq(at)
  BY <1>1, <1>2, IsASeq
<1>4. Len([n \in 1 .. Cardinality(at) |-> pick(n)]) = Cardinality(at)
  BY <1>1
<1>5. QED
  BY <1>3, <1>4 DEF Ranked, pick

(* The members of an interval, in increasing order.                            *)
LEMMA RankedInterval ==
  ASSUME NEW a \in Int, NEW b \in Int, a <= b
  PROVE  Ranked(a .. b) = [n \in 1 .. (b - a + 1) |-> a + n - 1]
<1> DEFINE at == a .. b
<1>1. IsFiniteSet(at) /\ Cardinality(at) = b - a + 1 /\ at \in SUBSET Int
  BY FS_Interval
<1>2. ASSUME NEW i \in at PROVE Cardinality({j \in at : j <= i}) = i - a + 1
  <2>1. {j \in at : j <= i} = a .. i
    OBVIOUS
  <2>2. i \in Int /\ a <= i
    OBVIOUS
  <2>3. Cardinality(a .. i) = IF a > i THEN 0 ELSE i - a + 1
    BY <2>2, FS_Interval
  <2>4. Cardinality(a .. i) = i - a + 1
    BY <2>2, <2>3
  <2>5. QED
    BY <2>1, <2>4, Zenon
<1>3. ASSUME NEW n \in 1 .. (b - a + 1)
      PROVE  (CHOOSE i \in at : Cardinality({j \in at : j <= i}) = n) = a + n - 1
  <2>1. a + n - 1 \in at
    OBVIOUS
  <2>2. \A i \in at : Cardinality({j \in at : j <= i}) = n <=> i = a + n - 1
    BY <1>2
  <2> HIDE DEF at
  <2>3. QED
    BY <2>1, <2>2
<1> HIDE DEF at
<1>4. QED
  BY <1>1, <1>3 DEF Ranked, at

-----------------------------------------------------------------------------
(* The slice of a tab.                                                         *)
Places == [line : Nat, col : Nat]
Selections == [kind : {"none", "char", "line"}, anchor : Places, cursor : Places, at : Places]
Searches == [term : BOOLEAN, typing : BOOLEAN, active : BOOLEAN, idx : Nat]
TextSlices == [lines : Seq(Nat), scroll : Nat, sel : Selections, search : Searches]
Marks == [from : Nat, to : Nat, odd : BOOLEAN]

(* A slice with the text and the selection of another.                         *)
SameText(s, u) == u \in TextSlices /\ u.lines = s.lines /\ u.sel = s.sel

LEMMA ClampedNat ==
  ASSUME NEW n \in Int, NEW top \in Int
  PROVE  /\ Clamped(n, top) \in Nat /\ Floor(n) \in Nat
         /\ top >= 0 => Clamped(n, top) <= top
         /\ n >= 0 /\ n <= top => Clamped(n, top) = n
         /\ n < 0 /\ n <= top => Clamped(n, top) = 0
         /\ n > top => Clamped(n, top) = Floor(top)
BY DEF Clamped, Floor

LEMMA ScrolledSame ==
  ASSUME NEW s \in TextSlices, NEW to \in Int, NEW h \in Nat
  PROVE  SameText(s, Scrolled(s, to, h))
<1>1. Len(s.lines) \in Nat
  BY LenProperties DEF TextSlices
<1>2. Bottom(s, h) \in Nat
  BY <1>1 DEF Bottom, Floor
<1>3. Clamped(to, Bottom(s, h)) \in Nat
  BY <1>2 DEF Clamped, Floor
<1>4. QED
  BY <1>3 DEF Scrolled, SameText, TextSlices

LEMMA MatchesRow ==
  ASSUME NEW lines \in Seq(Nat), NEW term \in BOOLEAN
  PROVE  Matches(lines, term) \in Seq(Nat)
<1> DEFINE at == {i \in 0 .. (Len(lines) - 1) : IsHit(lines[i + 1])}
<1>1. Len(lines) \in Nat
  BY LenProperties
<1>2. IsFiniteSet(0 .. (Len(lines) - 1))
  BY <1>1, FS_Interval
<1>3. IsFiniteSet(at) /\ at \in SUBSET Int /\ at \in SUBSET Nat
  BY <1>2, FS_Subset
<1> HIDE DEF at
<1>4. Ranked(at) \in Seq(at)
  BY <1>3, RankedMember
<1>5. Ranked(at) \in Seq(Nat)
  BY <1>3, <1>4, SeqMonotonic
<1>6. QED
  BY <1>5 DEF Matches, at

LEMMA ToMatchSame ==
  ASSUME NEW s \in TextSlices, NEW h \in Nat, NEW term \in BOOLEAN
  PROVE  SameText(s, ToMatch(s, h, term))
<1> DEFINE found == Matches(s.lines, term)
           line == found[s.search.idx + 1]
<1>1. found \in Seq(Nat) /\ s.search.idx \in Nat
  BY MatchesRow DEF TextSlices, Searches
<1>2. SameText(s, s)
  BY DEF SameText
<1>3. CASE s.search.idx >= Len(found) \/ line \in s.scroll .. (s.scroll + h - 1)
  BY <1>2, <1>3 DEF ToMatch
<1>4. CASE ~(s.search.idx >= Len(found) \/ line \in s.scroll .. (s.scroll + h - 1))
  <2> HIDE DEF found
  <2>1. Len(found) \in Nat /\ DOMAIN found = 1 .. Len(found)
    BY <1>1, LenProperties
  <2>2. line \in Nat
    BY <1>1, <1>4, <2>1, ElementOfSeq
  <2> HIDE DEF line
  <2>3. line - (h \div 2) \in Int
    BY <2>2
  <2>4. ToMatch(s, h, term) = Scrolled(s, line - (h \div 2), h)
    BY <1>4 DEF ToMatch, found, line
  <2>5. QED
    BY <2>3, <2>4, ScrolledSame
<1>5. QED
  BY <1>3, <1>4

LEMMA SearchedSame ==
  ASSUME NEW s \in TextSlices, NEW search \in Searches, NEW h \in Nat, NEW term \in BOOLEAN
  PROVE  /\ SameText(s, [s EXCEPT !.search = search])
         /\ SameText(s, ToMatch([s EXCEPT !.search = search], h, term))
<1>1. SameText(s, [s EXCEPT !.search = search])
  BY DEF SameText, TextSlices
<1>2. QED
  BY <1>1, ToMatchSame DEF SameText

LEMMA SearchSame ==
  ASSUME NEW s \in TextSlices, NEW h \in Nat, NEW term \in BOOLEAN
  PROVE  /\ SameText(s, NextMatch(s, h, term)) /\ SameText(s, PreviousMatch(s, h, term))
         /\ SameText(s, SearchEntered(s)) /\ SameText(s, SearchTyped(s, term))
         /\ SameText(s, SearchCancelled(s)) /\ SameText(s, SearchCommitted(s, h))
         /\ SameText(s, SearchCleared(s))
<1> DEFINE n == Len(Matches(s.lines, term))
           old == s.search
<1>1. n \in Nat
  <2>1. Matches(s.lines, term) \in Seq(Nat)
    BY MatchesRow DEF TextSlices
  <2>2. QED
    BY <2>1, LenProperties
<1>2. old \in Searches /\ old.idx \in Nat /\ old.term \in BOOLEAN /\ old.typing \in BOOLEAN
  BY DEF TextSlices, Searches
<1>3. SameText(s, s)
  BY DEF SameText
<1>4. ASSUME NEW i \in Nat PROVE SameText(s, ToMatch([s EXCEPT !.search.idx = i], h, term))
  <2>1. [old EXCEPT !.idx = i] \in Searches
    BY <1>2 DEF Searches
  <2>2. [s EXCEPT !.search.idx = i] = [s EXCEPT !.search = [old EXCEPT !.idx = i]]
    OBVIOUS
  <2>3. QED
    BY <2>1, <2>2, SearchedSame
<1>5. SameText(s, NextMatch(s, h, term))
  <2> DEFINE i == IF old.idx < n THEN (old.idx + 1) % n ELSE 0
  <2>1. n # 0 => i \in Nat
    BY <1>1, <1>2
  <2>2. NextMatch(s, h, term) = IF n = 0 THEN s ELSE ToMatch([s EXCEPT !.search.idx = i], h, term)
    BY DEF NextMatch
  <2> HIDE DEF i, n
  <2>3. QED
    BY <1>3, <1>4, <2>1, <2>2
<1>6. SameText(s, PreviousMatch(s, h, term))
  <2> DEFINE i == ((IF old.idx < n THEN old.idx ELSE 1) - 1 + n) % n
  <2>1. n # 0 => i \in Nat
    BY <1>1, <1>2
  <2>2. PreviousMatch(s, h, term) = IF n = 0 THEN s ELSE ToMatch([s EXCEPT !.search.idx = i], h, term)
    BY DEF PreviousMatch
  <2> HIDE DEF i, n
  <2>3. QED
    BY <1>3, <1>4, <2>1, <2>2
<1>7. SameText(s, SearchEntered(s)) /\ SameText(s, SearchTyped(s, term)) /\ SameText(s, SearchCleared(s))
  BY <1>2 DEF SearchEntered, SearchTyped, SearchCleared, SameText, TextSlices, Searches, NoSearch
<1>8. SameText(s, SearchCancelled(s))
  BY <1>2 DEF SearchCancelled, SameText, TextSlices, Searches
<1>9. SameText(s, SearchCommitted(s, h))
  <2> DEFINE found == Matches(s.lines, old.typing) # <<>>
             new == [old EXCEPT !.term = s.search.typing, !.idx = 0, !.active = found]
  <2>1. new \in Searches
    BY <1>2 DEF Searches
  <2>2. SearchCommitted(s, h) = IF found THEN ToMatch([s EXCEPT !.search = new], h, TRUE)
                                ELSE [s EXCEPT !.search = new]
    BY DEF SearchCommitted
  <2> HIDE DEF new, found
  <2>3. QED
    BY <2>1, <2>2, SearchedSame
<1>10. QED
  BY <1>5, <1>6, <1>7, <1>8, <1>9

(* What the selection machine does to the two ends.                            *)
LEMMA BegunAt ==
  ASSUME NEW s \in TextSlices, NEW line \in Nat, NEW col \in Nat, NEW kind \in {"char", "line"}
  PROVE  LET u == Begun(s, line, col, kind)
         IN  /\ u \in TextSlices /\ u.lines = s.lines /\ IsSelecting(u)
             /\ u.sel.anchor = u.sel.cursor
             /\ line < Len(s.lines) => u.sel.cursor.line = line
<1> DEFINE l == Clamped(line, Len(s.lines) - 1)
           c == At(l, col)
<1>1. Len(s.lines) \in Nat
  BY LenProperties DEF TextSlices
<1>2. l \in Nat /\ (line < Len(s.lines) => l = line)
  BY <1>1 DEF Clamped, Floor
<1> HIDE DEF l
<1>3. c \in Places /\ c.line = l
  BY <1>2 DEF At, Places
<1> HIDE DEF c
<1>4. Begun(s, line, col, kind) = [s EXCEPT !.sel = [kind |-> kind, anchor |-> c, cursor |-> c, at |-> c]]
  BY DEF Begun, c, l
<1>5. QED
  BY <1>2, <1>3, <1>4 DEF IsSelecting, TextSlices, Selections

LEMMA ExtendedTo ==
  ASSUME NEW s \in TextSlices, IsSelecting(s), NEW line \in Nat, NEW col \in Nat
  PROVE  LET u == Extended(s, line, col)
         IN  /\ u \in TextSlices /\ u.lines = s.lines /\ IsSelecting(u)
             /\ u.sel.anchor = s.sel.anchor
             /\ line < Len(s.lines) => u.sel.cursor.line = line
<1> DEFINE l == Clamped(line, Len(s.lines) - 1)
           c == At(l, col)
<1>1. Len(s.lines) \in Nat
  BY LenProperties DEF TextSlices
<1>2. l \in Nat /\ (line < Len(s.lines) => l = line)
  BY <1>1 DEF Clamped, Floor
<1> HIDE DEF l
<1>3. c \in Places /\ c.line = l
  BY <1>2 DEF At, Places
<1> HIDE DEF c
<1>4. Extended(s, line, col) = [s EXCEPT !.sel.cursor = c]
  BY DEF Extended, c, l
<1>5. QED
  BY SMTT(30), <1>2, <1>3, <1>4 DEF IsSelecting, TextSlices, Selections

LEMMA DeselectedOff ==
  ASSUME NEW s \in TextSlices
  PROVE  LET u == Deselected(s) IN u \in TextSlices /\ u.lines = s.lines /\ ~IsSelecting(u)
BY DEF Deselected, NoSelection, IsSelecting, TextSlices, Selections, Places, At

LEMMA MovedCursor ==
  ASSUME NEW s \in TextSlices, s.lines # <<>>, NEW down \in Int, NEW right \in Int, NEW h \in Nat
  PROVE  LET u == Moved(s, down, right, h)
         IN  /\ u \in TextSlices /\ u.lines = s.lines /\ u.sel.kind = s.sel.kind
             /\ u.sel.anchor = s.sel.anchor /\ u.sel.cursor.line < Len(s.lines)
<1> DEFINE l == Clamped(s.sel.at.line + down, Len(s.lines) - 1)
           k == Clamped(s.sel.at.col + right, 1)
           r == IF l < s.scroll THEN l ELSE IF l >= s.scroll + h THEN l - h + 1 ELSE s.scroll
           c == At(l, k)
<1>1. Len(s.lines) \in Nat \ {0}
  BY LenProperties, EmptySeq DEF TextSlices
<1>2. s.sel.at.line \in Nat /\ s.sel.at.col \in Nat /\ s.scroll \in Nat
  BY DEF TextSlices, Selections, Places
<1>3. l \in Nat /\ l < Len(s.lines) /\ k \in Nat
  <2> DEFINE x == s.sel.at.line + down
             y == s.sel.at.col + right
             n == Len(s.lines)
  <2>1. x \in Int /\ y \in Int /\ n \in Nat \ {0}
    BY <1>1, <1>2
  <2> HIDE DEF x, y, n
  <2>2. Clamped(x, n - 1) \in Nat /\ Clamped(x, n - 1) < n /\ Clamped(y, 1) \in Nat
    BY <2>1 DEF Clamped, Floor
  <2>3. QED
    BY <2>2 DEF x, y, n
<1> HIDE DEF l, k
<1>4. r \in Nat /\ c \in Places /\ c.line = l
  BY <1>2, <1>3 DEF At, Places
<1> HIDE DEF r, c
<1>5. Moved(s, down, right, h) = [s EXCEPT !.sel.at = c, !.sel.cursor = c, !.scroll = r]
  BY DEF Moved, MovedTo, r, c, l, k
<1> DEFINE sel == [s.sel EXCEPT !.at = c, !.cursor = c]
<1>6. sel \in Selections /\ sel.kind = s.sel.kind /\ sel.anchor = s.sel.anchor /\ sel.cursor = c
  BY <1>4 DEF TextSlices, Selections
<1>7. Moved(s, down, right, h) = [s EXCEPT !.sel = sel, !.scroll = r]
  BY <1>5
<1> HIDE DEF sel
<1>8. QED
  BY <1>3, <1>4, <1>6, <1>7 DEF TextSlices

-----------------------------------------------------------------------------
(* The lines of a tab are numbered as they were made; a selection is known by  *)
(* the lines the user set its ends to: an end is on its line, or on the first  *)
(* one since its line fell off, and not both have fallen off.                  *)
Rising(lines, top) ==
  /\ \A i \in DOMAIN lines : lines[i] <= top
  /\ \A i, j \in DOMAIN lines : i < j => lines[i] < lines[j]
OnLine(lines, n, id) == n < Len(lines) /\ (lines[n + 1] = id \/ (n = 0 /\ id < lines[1]))
EndsKnown(s, m) ==
  IsSelecting(s) /\ ~m.odd =>
    /\ OnLine(s.lines, s.sel.anchor.line, m.from) /\ OnLine(s.lines, s.sel.cursor.line, m.to)
    /\ m.from >= s.lines[1] \/ m.to >= s.lines[1]
ChosenLines(lines, m) ==
  LET at == Ranked({i \in DOMAIN lines : lines[i] \in m.from .. m.to \cup m.to .. m.from})
  IN  [n \in DOMAIN at |-> lines[at[n]]]

LEMMA LinesBetween ==
  ASSUME NEW lines \in Seq(Nat), NEW top, Rising(lines, top),
         NEW p \in Nat, NEW q \in Nat, p <= q, q < Len(lines), NEW lo \in Nat, NEW hi \in Nat,
         lines[q + 1] = hi, OnLine(lines, p, lo)
  PROVE  {i \in DOMAIN lines : lines[i] \in lo .. hi \cup hi .. lo} = (p + 1) .. (q + 1)
<1>1. Len(lines) \in Nat /\ DOMAIN lines = 1 .. Len(lines) /\ \A i \in 1 .. Len(lines) : lines[i] \in Nat
  BY LenProperties, ElementOfSeq
<1>2. p + 1 \in 1 .. Len(lines) /\ q + 1 \in 1 .. Len(lines)
  BY <1>1
<1>3. \A i, j \in 1 .. Len(lines) : i < j => lines[i] < lines[j]
  BY <1>1 DEF Rising
<1>4. lo <= lines[p + 1] /\ (lo = lines[p + 1] \/ p = 0)
  BY <1>1, <1>2 DEF OnLine
<1>5. lines[p + 1] <= hi
  BY <1>1, <1>2, <1>3
<1>6. ASSUME NEW i \in 1 .. Len(lines)
      PROVE  lines[i] \in lo .. hi \cup hi .. lo <=> i \in (p + 1) .. (q + 1)
  <2>1. lines[i] \in Nat /\ lines[p + 1] \in Nat
    BY <1>1, <1>2
  <2>2. i <= q + 1 <=> lines[i] <= hi
    <3>1. i < q + 1 => lines[i] < hi
      BY <1>2, <1>3
    <3>2. q + 1 < i => hi < lines[i]
      BY <1>2, <1>3
    <3>3. QED
      BY <2>1, <3>1, <3>2
  <2>3. p + 1 <= i <=> lo <= lines[i]
    <3>1. i < p + 1 => lines[i] < lines[p + 1] /\ p # 0
      BY <1>2, <1>3
    <3>2. p + 1 < i => lines[p + 1] < lines[i]
      BY <1>2, <1>3
    <3>3. QED
      BY <1>4, <2>1, <3>1, <3>2
  <2>4. lines[i] \in lo .. hi \cup hi .. lo <=> lo <= lines[i] /\ lines[i] <= hi
    BY <1>2, <1>4, <1>5, <2>1
  <2>5. QED
    BY <2>2, <2>3, <2>4
<1>7. (p + 1) .. (q + 1) \subseteq 1 .. Len(lines)
  BY <1>1, <1>2
<1>8. QED
  BY <1>1, <1>6, <1>7

LEMMA ChosenIsSelected ==
  ASSUME NEW s \in TextSlices, NEW m \in Marks, NEW top, Rising(s.lines, top),
         EndsKnown(s, m), IsSelecting(s), ~m.odd
  PROVE  SelectedText(s.lines, s.sel) = ChosenLines(s.lines, m)
<1> DEFINE lines == s.lines
           a == s.sel.anchor.line
           b == s.sel.cursor.line
           first == IF a < b THEN a ELSE b
           last == IF a < b THEN b ELSE a
           chosen == {i \in DOMAIN lines : lines[i] \in m.from .. m.to \cup m.to .. m.from}
<1>1. lines \in Seq(Nat) /\ a \in Nat /\ b \in Nat /\ m.from \in Nat /\ m.to \in Nat
  BY DEF TextSlices, Selections, Places, Marks
<1>2. /\ OnLine(lines, a, m.from) /\ OnLine(lines, b, m.to)
      /\ m.from >= lines[1] \/ m.to >= lines[1]
  BY DEF EndsKnown
<1>3. a < Len(lines) /\ b < Len(lines)
  BY <1>2 DEF OnLine
<1> HIDE DEF a, b
<1>4. /\ Len(lines) \in Nat /\ DOMAIN lines = 1 .. Len(lines)
      /\ \A i \in 1 .. Len(lines) : lines[i] \in Nat
      /\ \A i, j \in 1 .. Len(lines) : i < j => lines[i] < lines[j]
  BY <1>1, LenProperties, ElementOfSeq DEF Rising
<1> HIDE DEF lines
<1>5. first \in Nat /\ last \in Nat /\ first <= last /\ last < Len(lines)
  BY <1>1, <1>3
<1>6. chosen = (first + 1) .. (last + 1)
  <2>1. Rising(lines, top)
    BY DEF lines
  <2>2. CASE lines[b + 1] = m.to /\ a <= b
    <3>1. first = a /\ last = b
      BY <1>1, <2>2
    <3>2. m.from \in Nat /\ m.to \in Nat /\ lines \in Seq(Nat) /\ a \in Nat /\ b \in Nat /\ b < Len(lines)
      BY <1>1, <1>3
    <3>3. OnLine(lines, a, m.from)
      BY <1>2
    <3> HIDE DEF chosen
    <3>4. {i \in DOMAIN lines : lines[i] \in m.from .. m.to \cup m.to .. m.from} = (a + 1) .. (b + 1)
      BY SMTT(60), <2>1, <2>2, <3>2, <3>3, LinesBetween
    <3>5. QED
      BY <3>1, <3>4 DEF chosen
  <2>3. CASE lines[a + 1] = m.from /\ b <= a
    <3>1. first = b /\ last = a
      BY <1>1, <2>3
    <3>2. chosen = {i \in DOMAIN lines : lines[i] \in m.to .. m.from \cup m.from .. m.to}
      OBVIOUS
    <3>3. m.from \in Nat /\ m.to \in Nat /\ lines \in Seq(Nat) /\ a \in Nat /\ b \in Nat /\ a < Len(lines)
      BY <1>1, <1>3
    <3>4. OnLine(lines, b, m.to)
      BY <1>2
    <3> HIDE DEF chosen
    <3>5. {i \in DOMAIN lines : lines[i] \in m.to .. m.from \cup m.from .. m.to} = (b + 1) .. (a + 1)
      BY SMTT(60), <2>1, <2>3, <3>3, <3>4, LinesBetween
    <3>6. QED
      BY <3>1, <3>2, <3>5
  <2>4. \/ lines[b + 1] = m.to /\ a <= b
        \/ lines[a + 1] = m.from /\ b <= a
    <3>1. a + 1 \in 1 .. Len(lines) /\ b + 1 \in 1 .. Len(lines) /\ 1 \in 1 .. Len(lines)
      BY <1>1, <1>3, <1>4
    <3>2. lines[b + 1] = m.to \/ (b = 0 /\ m.to < lines[1])
      BY <1>2 DEF OnLine
    <3>3. lines[a + 1] = m.from \/ (a = 0 /\ m.from < lines[1])
      BY <1>2 DEF OnLine
    <3>4. lines[1] \in Nat
      BY <1>4, <3>1
    <3>5. QED
      BY <1>1, <1>2, <3>2, <3>3, <3>4
  <2>5. QED
    BY <2>2, <2>3, <2>4
<1> HIDE DEF chosen, first, last
<1>7. Ranked(chosen) = [n \in 1 .. (last - first + 1) |-> first + n]
  <2>1. Ranked((first + 1) .. (last + 1)) = [n \in 1 .. ((last + 1) - (first + 1) + 1) |-> (first + 1) + n - 1]
    BY <1>5, RankedInterval
  <2>2. (last + 1) - (first + 1) + 1 = last - first + 1
    BY <1>5
  <2>3. \A n \in 1 .. (last - first + 1) : (first + 1) + n - 1 = first + n
    BY <1>5
  <2>4. QED
    BY <1>6, <2>1, <2>2, <2>3
<1>8. ChosenLines(s.lines, m) = [n \in 1 .. (last - first + 1) |-> lines[first + n]]
  <2>1. ChosenLines(s.lines, m) = [n \in DOMAIN Ranked(chosen) |-> lines[Ranked(chosen)[n]]]
    BY DEF ChosenLines, chosen, lines
  <2>2. QED
    BY <1>7, <2>1
<1>9. SelectedText(s.lines, s.sel) = [i \in 1 .. (last - first + 1) |-> lines[first + i]]
  <2>1. SelectedText(s.lines, s.sel)
          = [i \in 1 .. (last - first + 1) |-> IF first + i <= Len(lines) THEN lines[first + i] ELSE 0]
    BY DEF SelectedText, first, last, a, b, lines
  <2>2. \A i \in 1 .. (last - first + 1) : first + i <= Len(lines)
    BY <1>4, <1>5
  <2>3. QED
    BY <2>1, <2>2
<1>10. QED
  BY <1>8, <1>9

-----------------------------------------------------------------------------
(* Output moves the ends with their lines.                                     *)
LEMMA TailOf ==
  ASSUME NEW S, NEW all \in Seq(S), NEW d \in Nat, d < Len(all)
  PROVE  LET kept == SubSeq(all, d + 1, Len(all))
         IN  /\ kept \in Seq(S) /\ Len(kept) = Len(all) - d
             /\ \A i \in 1 .. Len(kept) : kept[i] = all[d + i]
<1>1. Len(all) \in Nat
  BY LenProperties
<1> DEFINE kept == SubSeq(all, d + 1, Len(all))
<1>2. /\ kept \in Seq(S)
      /\ Len(kept) = IF d + 1 <= Len(all) THEN Len(all) - (d + 1) + 1 ELSE 0
      /\ \A i \in 1 .. Len(all) - (d + 1) + 1 : kept[i] = all[d + 1 + i - 1]
  BY <1>1, SubSeqProperties
<1> HIDE DEF kept
<1>3. Len(kept) = Len(all) - d
  BY <1>1, <1>2
<1>4. ASSUME NEW i \in 1 .. Len(kept) PROVE kept[i] = all[d + i]
  <2>1. i \in 1 .. Len(all) - (d + 1) + 1 /\ d + 1 + i - 1 = d + i
    BY <1>1, <1>3
  <2>2. QED
    BY <1>2, <2>1
<1>5. QED
  BY <1>2, <1>3, <1>4 DEF kept

LEMMA AppendLinesKeeps ==
  ASSUME NEW s \in TextSlices, NEW top \in Nat, NEW n \in 1 .. 2, NEW h \in Nat,
         Rising(s.lines, top)
  PROVE  LET u == AppendLines(s, [i \in 1 .. n |-> top + i], h)
         IN  /\ u \in TextSlices /\ Rising(u.lines, top + n) /\ u.lines # <<>>
             /\ u.sel.kind = s.sel.kind
             /\ IsSelecting(s) =>
                  /\ u.sel.anchor.line <= s.sel.anchor.line /\ u.sel.cursor.line <= s.sel.cursor.line
                  /\ \A id \in Nat :
                       /\ OnLine(s.lines, s.sel.anchor.line, id) => OnLine(u.lines, u.sel.anchor.line, id)
                       /\ OnLine(s.lines, s.sel.cursor.line, id) => OnLine(u.lines, u.sel.cursor.line, id)
<1> DEFINE added == [i \in 1 .. n |-> top + i]
           all == s.lines \o added
           dropped == Floor(Len(all) - RingCap)
           kept == SubSeq(all, dropped + 1, Len(all))
           u == AppendLines(s, added, h)
           k == Len(s.lines)
<1>1. s.lines \in Seq(Nat) /\ k \in Nat
  BY LenProperties DEF TextSlices
<1>2. added \in Seq(Nat) /\ Len(added) = n /\ \A i \in 1 .. n : added[i] = top + i
  <2>1. \A i \in 1 .. n : top + i \in Nat
    OBVIOUS
  <2>2. n \in Nat
    OBVIOUS
  <2>3. added \in Seq(Nat)
    BY <2>1, <2>2, IsASeq
  <2>4. QED
    BY <2>2, <2>3
<1> HIDE DEF added
<1>3. /\ all \in Seq(Nat) /\ Len(all) = k + n
      /\ \A i \in 1 .. k : all[i] = s.lines[i]
      /\ \A i \in 1 .. n : all[k + i] = top + i
  <2>1. /\ all \in Seq(Nat) /\ Len(all) = k + n
        /\ \A i \in 1 .. k + n : all[i] = IF i <= k THEN s.lines[i] ELSE added[i - k]
    BY <1>1, <1>2, ConcatProperties
  <2> HIDE DEF all, k
  <2>2. \A i \in 1 .. k : all[i] = s.lines[i]
    BY <1>1, <2>1
  <2>3. ASSUME NEW i \in 1 .. n PROVE all[k + i] = top + i
    <3>1. k + i \in 1 .. k + n /\ ~(k + i <= k) /\ k + i - k = i
      BY <1>1
    <3>2. all[k + i] = added[i]
      BY <1>1, <2>1, <3>1
    <3>3. QED
      BY <1>2, <3>2
  <2>4. QED
    BY <2>1, <2>2, <2>3
<1> HIDE DEF all, k
<1>4. Len(all) \in Nat \ {0} /\ \A i \in 1 .. Len(all) : all[i] \in Nat
  BY <1>1, <1>3, ElementOfSeq
<1>5. Rising(all, top + n)
  <2>1. DOMAIN all = 1 .. k + n /\ DOMAIN s.lines = 1 .. k
    BY <1>1, <1>3, LenProperties DEF k
  <2>2. ASSUME NEW i \in 1 .. k + n
        PROVE  \/ i \in 1 .. k /\ all[i] = s.lines[i] /\ all[i] <= top
               \/ i > k /\ all[i] = top + i - k
    <3>1. CASE i <= k
      <4>1. i \in 1 .. k /\ i \in DOMAIN s.lines
        BY <1>1, <2>1, <3>1
      <4>2. all[i] = s.lines[i]
        BY <1>3, <4>1
      <4>3. s.lines[i] <= top
        BY <4>1 DEF Rising
      <4>4. QED
        BY <4>1, <4>2, <4>3
    <3>2. CASE i > k
      <4>1. i - k \in 1 .. n /\ k + (i - k) = i
        BY <1>1, <3>2
      <4>2. all[k + (i - k)] = top + (i - k)
        BY <1>3, <4>1
      <4>3. QED
        BY <1>1, <3>2, <4>1, <4>2
    <3>3. QED
      BY <1>1, <3>1, <3>2
  <2>3. \A i \in 1 .. k + n : all[i] \in Nat /\ all[i] <= top + n
    BY <1>1, <1>3, <1>4, <2>2
  <2>4. ASSUME NEW i \in 1 .. k + n, NEW j \in 1 .. k + n, i < j
        PROVE  all[i] < all[j]
    <3>1. CASE j <= k
      <4>1. i \in 1 .. k /\ j \in 1 .. k
        BY <1>1, <2>4, <3>1
      <4>2. s.lines[i] < s.lines[j]
        BY <2>1, <2>4, <4>1 DEF Rising
      <4>3. QED
        BY <1>3, <4>1, <4>2
    <3>2. CASE j > k
      BY <1>1, <2>2, <2>3, <2>4, <3>2
    <3>3. QED
      BY <1>1, <3>1, <3>2
  <2>5. QED
    BY <2>1, <2>3, <2>4 DEF Rising
<1>6. dropped \in Nat /\ dropped < Len(all)
  <2>1. RingCap \in Nat \ {0}
    BY TextAssumption
  <2>2. QED
    BY <1>4, <2>1 DEF Floor
<1> HIDE DEF dropped
<1>7. /\ kept \in Seq(Nat) /\ Len(kept) = Len(all) - dropped
      /\ \A i \in 1 .. Len(kept) : kept[i] = all[dropped + i]
  BY ZenonT(30), <1>3, <1>6, TailOf
<1> HIDE DEF kept
<1>8. Len(kept) \in Nat \ {0} /\ DOMAIN kept = 1 .. Len(kept)
  BY <1>4, <1>6, <1>7, LenProperties
<1>9. Rising(kept, top + n) /\ kept # <<>>
  <2>1. \A i \in 1 .. Len(kept) : dropped + i \in 1 .. Len(all)
    BY <1>4, <1>6, <1>7
  <2>2. DOMAIN all = 1 .. Len(all)
    BY <1>3, LenProperties
  <2>3. \A i, j \in 1 .. Len(kept) : i < j => dropped + i < dropped + j
    BY <1>6
  <2>4. \A i \in 1 .. Len(kept) : kept[i] <= top + n
    BY <1>5, <1>7, <2>1, <2>2 DEF Rising
  <2>5. ASSUME NEW i \in 1 .. Len(kept), NEW j \in 1 .. Len(kept), i < j
        PROVE  kept[i] < kept[j]
    <3>1. dropped + i \in DOMAIN all /\ dropped + j \in DOMAIN all /\ dropped + i < dropped + j
      BY <2>1, <2>2, <2>3, <2>5
    <3>2. all[dropped + i] < all[dropped + j]
      BY <1>5, <3>1 DEF Rising
    <3>3. QED
      BY <1>7, <3>2
  <2>6. QED
    BY <1>8, <2>4, <2>5, EmptySeq DEF Rising
<1>10. ASSUME NEW c \in Places
       PROVE  /\ Shifted(c, dropped) \in Places /\ Shifted(c, dropped).line <= c.line
              /\ \A id \in Nat : OnLine(s.lines, c.line, id) => OnLine(kept, Shifted(c, dropped).line, id)
  <2> DEFINE l == Shifted(c, dropped).line
  <2>1. c.line \in Nat /\ c.col \in Nat
    BY DEF Places
  <2>2. Shifted(c, dropped) \in Places /\ l = Floor(c.line - dropped)
    BY <1>6, <2>1 DEF Shifted, Places, At, Floor
  <2>3. l \in Nat /\ l <= c.line /\ (c.line >= dropped => l = c.line - dropped) /\ (c.line < dropped => l = 0)
    BY <1>6, <2>1, <2>2 DEF Floor
  <2> HIDE DEF l
  <2>4. ASSUME NEW id \in Nat, OnLine(s.lines, c.line, id)
        PROVE  OnLine(kept, l, id)
    <3>1. c.line < k /\ (s.lines[c.line + 1] = id \/ (c.line = 0 /\ id < s.lines[1]))
      BY <2>4 DEF OnLine, k
    <3>2. c.line + 1 \in 1 .. k /\ 1 \in 1 .. k /\ c.line + 1 \in 1 .. Len(all)
      BY SMTT(30), <1>1, <1>3, <2>1, <3>1
    <3>3. all[c.line + 1] = s.lines[c.line + 1] /\ all[1] = s.lines[1]
      BY <1>3, <3>2
    <3>4. CASE c.line >= dropped
      <4>1. l + 1 \in 1 .. Len(kept) /\ dropped + (l + 1) = c.line + 1 /\ l = c.line - dropped
        <5>1. l = c.line - dropped /\ Len(kept) = Len(all) - dropped
          BY <1>7, <2>3, <3>4
        <5>2. c.line + 1 <= Len(all)
          BY <3>2
        <5>3. Len(all) \in Nat /\ dropped \in Nat /\ c.line \in Nat
          BY <1>4, <1>6, <2>1
        <5>4. QED
          BY <3>4, <5>1, <5>2, <5>3
      <4>2. kept[l + 1] = s.lines[c.line + 1]
        BY <1>7, <3>3, <4>1
      <4>3. c.line = 0 => l = 0 /\ kept[1] = s.lines[1]
        BY <1>6, <2>1, <2>3, <3>4, <4>1, <4>2
      <4>4. l < Len(kept)
        BY <1>8, <2>3, <4>1
      <4>5. QED
        BY <3>1, <4>2, <4>3, <4>4 DEF OnLine
    <3>5. CASE c.line < dropped
      <4>1. l = 0 /\ dropped + 1 \in 1 .. Len(all) /\ c.line + 1 < dropped + 1 /\ kept[1] = all[dropped + 1]
        BY <1>4, <1>6, <1>7, <1>8, <2>1, <2>3, <3>5
      <4>2. all[c.line + 1] < all[dropped + 1]
        <5>1. DOMAIN all = 1 .. Len(all)
          BY <1>3, LenProperties
        <5>2. QED
          BY <1>5, <3>2, <4>1, <5>1 DEF Rising
      <4>3. id <= all[c.line + 1]
        BY <1>4, <3>1, <3>2, <3>3
      <4>4. id < kept[1]
        BY <1>4, <3>2, <4>1, <4>2, <4>3
      <4>5. QED
        BY <1>8, <4>1, <4>4 DEF OnLine
    <3>6. QED
      BY <1>6, <2>1, <3>4, <3>5
  <2>5. QED
    BY <2>2, <2>3, <2>4 DEF l
<1> DEFINE r == IF s.scroll >= Bottom(s, h) THEN Floor(Len(kept) - h) ELSE Floor(s.scroll - dropped)
           sel == IF IsSelecting(s)
                  THEN [kind |-> s.sel.kind, anchor |-> Shifted(s.sel.anchor, dropped),
                        cursor |-> Shifted(s.sel.cursor, dropped), at |-> Shifted(s.sel.at, dropped)]
                  ELSE s.sel
<1>11. r \in Nat
  BY <1>6, <1>8 DEF Floor, TextSlices
<1>12. s.sel \in Selections /\ s.sel.anchor \in Places /\ s.sel.cursor \in Places /\ s.sel.at \in Places
  BY DEF TextSlices, Selections
<1>13. /\ sel \in Selections /\ sel.kind = s.sel.kind
       /\ IsSelecting(s) => /\ sel.anchor = Shifted(s.sel.anchor, dropped)
                            /\ sel.cursor = Shifted(s.sel.cursor, dropped)
  <2>1. \A c \in Places : Shifted(c, dropped) \in Places
    BY <1>10
  <2>2. QED
    BY <1>12, <2>1 DEF Selections
<1>14. u = [s EXCEPT !.lines = kept, !.scroll = r, !.sel = sel]
  BY DEF AppendLines, all, kept, dropped, TextSlices
<1> HIDE DEF r, sel
<1>15. u \in TextSlices /\ u.lines = kept /\ u.sel = sel
  BY <1>7, <1>11, <1>13, <1>14 DEF TextSlices
<1> HIDE DEF u
<1>16. IsSelecting(s) =>
         /\ u.sel.anchor.line <= s.sel.anchor.line /\ u.sel.cursor.line <= s.sel.cursor.line
         /\ \A id \in Nat :
              /\ OnLine(s.lines, s.sel.anchor.line, id) => OnLine(u.lines, u.sel.anchor.line, id)
              /\ OnLine(s.lines, s.sel.cursor.line, id) => OnLine(u.lines, u.sel.cursor.line, id)
  BY <1>10, <1>12, <1>13, <1>15
<1>17. QED
  BY <1>9, <1>13, <1>15, <1>16 DEF u, added

-----------------------------------------------------------------------------
(* The invariant: what is known of the tabs, of the paints the mouse aims at   *)
(* and of an armed press.                                                      *)
Known(s, m, top) == Rising(s.lines, top) /\ EndsKnown(s, m)

Paints == [of : Tabs, lines : Seq(Nat), scroll : Nat, window : Seq(Nat)]
EndsPainted(d, vs, ms) ==
  IsSelecting(vs[d.of]) /\ ~ms[d.of].odd =>
    vs[d.of].sel.anchor.line < Len(d.lines) /\ vs[d.of].sel.cursor.line < Len(d.lines)
PaintGood(d, vs, ms) ==
  /\ \A i \in 1 .. Len(d.window) : d.scroll + i <= Len(d.lines) /\ d.window[i] = d.lines[d.scroll + i]
  /\ EndsPainted(d, vs, ms)

Arms == [pane : Columns, of : Tabs, line : Nat, col : Nat, id : Nat, slipped : BOOLEAN, stale : BOOLEAN]
ArmGood(a, vs) ==
  a # NoArm /\ ~a.slipped => a.line < Len(vs[a.of].lines) /\ vs[a.of].lines[a.line + 1] = a.id

TextTypes ==
  /\ views \in [Tabs -> TextSlices] /\ marks \in [Tabs -> Marks] /\ made \in Nat
  /\ front \in [Columns -> Tabs] /\ tall \in [Columns -> Nat] /\ seeking \in Columns \cup {""}
  /\ drawn \in [Columns -> Paints] /\ armed \in Arms \cup {NoArm}
TextInv ==
  /\ TextTypes
  /\ \A t \in Tabs : Known(views[t], marks[t], made)
  /\ \A c \in Columns : PaintGood(drawn[c], views, marks)
  /\ ArmGood(armed, views)
  /\ PushedIsChosen

LEMMA WindowOf ==
  ASSUME NEW lines \in Seq(Nat), NEW a \in Nat, NEW b \in Nat, b <= Len(lines)
  PROVE  LET w == SubSeq(lines, a + 1, b)
         IN  /\ w \in Seq(Nat)
             /\ \A i \in 1 .. Len(w) : a + i <= Len(lines) /\ w[i] = lines[a + i]
<1> DEFINE w == SubSeq(lines, a + 1, b)
<1>1. Len(lines) \in Nat /\ \A i \in 1 .. Len(lines) : lines[i] \in Nat
  BY LenProperties, ElementOfSeq
<1>2. \A i \in a + 1 .. b : lines[i] \in Nat
  <2>1. \A i \in a + 1 .. b : i \in 1 .. Len(lines)
    BY <1>1
  <2>2. QED
    BY <1>1, <2>1
<1>3. /\ w \in Seq(Nat) /\ Len(w) = IF a + 1 <= b THEN b - (a + 1) + 1 ELSE 0
      /\ \A i \in 1 .. b - (a + 1) + 1 : w[i] = lines[a + 1 + i - 1]
  BY <1>2, SubSeqProperties
<1> HIDE DEF w
<1>4. ASSUME NEW i \in 1 .. Len(w) PROVE a + i <= Len(lines) /\ w[i] = lines[a + i]
  <2>1. i \in 1 .. b - (a + 1) + 1 /\ a + 1 + i - 1 = a + i /\ a + i <= b
    BY <1>3
  <2>2. QED
    BY <1>1, <1>3, <2>1
<1>5. QED
  BY <1>3, <1>4 DEF w

LEMMA EndsStayPainted ==
  ASSUME NEW n \in Nat, NEW s \in TextSlices, NEW u \in TextSlices,
         s.sel.anchor.line < n, s.sel.cursor.line < n,
         u.sel.anchor.line <= s.sel.anchor.line, u.sel.cursor.line <= s.sel.cursor.line
  PROVE  u.sel.anchor.line < n /\ u.sel.cursor.line < n
<1>1. /\ s.sel.anchor.line \in Nat /\ s.sel.cursor.line \in Nat
      /\ u.sel.anchor.line \in Nat /\ u.sel.cursor.line \in Nat
  BY DEF TextSlices, Selections, Places
<1>2. QED
  BY <1>1

LEMMA CaptureGood ==
  ASSUME NEW vs \in [Tabs -> TextSlices], NEW ms \in [Tabs -> Marks], NEW top,
         \A t \in Tabs : Known(vs[t], ms[t], top),
         NEW fr \in [Columns -> Tabs], NEW tl \in [Columns -> Nat]
  PROVE  LET ds == Capture(vs, fr, tl)
         IN  ds \in [Columns -> Paints] /\ \A c \in Columns : PaintGood(ds[c], vs, ms)
<1> DEFINE rec(c) == [of |-> fr[c], lines |-> vs[fr[c]].lines, scroll |-> vs[fr[c]].scroll,
                      window |-> SubSeq(vs[fr[c]].lines, vs[fr[c]].scroll + 1,
                                        Clamped(vs[fr[c]].scroll + tl[c], Len(vs[fr[c]].lines)))]
<1>1. ASSUME NEW c \in Columns PROVE rec(c) \in Paints /\ PaintGood(rec(c), vs, ms)
  <2> DEFINE t == fr[c]
             s == vs[t]
             to == Clamped(s.scroll + tl[c], Len(s.lines))
             w == SubSeq(s.lines, s.scroll + 1, to)
  <2>1. t \in Tabs /\ s \in TextSlices /\ tl[c] \in Nat /\ Known(s, ms[t], top)
    OBVIOUS
  <2> HIDE DEF t
  <2>2. s.lines \in Seq(Nat) /\ s.scroll \in Nat
    BY <2>1 DEF TextSlices
  <2>3. Len(s.lines) \in Nat /\ \A i \in 1 .. Len(s.lines) : s.lines[i] \in Nat
    BY <2>2, LenProperties, ElementOfSeq
  <2>4. to \in Nat /\ to <= Len(s.lines)
    <3>1. s.scroll + tl[c] \in Int
      BY <2>1, <2>2
    <3>2. QED
      BY <2>3, <3>1 DEF Clamped, Floor
  <2> HIDE DEF to
  <2>5. w \in Seq(Nat) /\ \A i \in 1 .. Len(w) : s.scroll + i <= Len(s.lines) /\ w[i] = s.lines[s.scroll + i]
    BY <2>2, <2>4, WindowOf
  <2> HIDE DEF w
  <2>8. IsSelecting(s) /\ ~ms[t].odd => s.sel.anchor.line < Len(s.lines) /\ s.sel.cursor.line < Len(s.lines)
    BY <2>1 DEF Known, EndsKnown, OnLine
  <2>9. rec(c) = [of |-> t, lines |-> s.lines, scroll |-> s.scroll, window |-> w]
    BY DEF t, w, to
  <2> HIDE DEF rec
  <2>10. rec(c) \in Paints
    BY <2>1, <2>2, <2>5, <2>9 DEF Paints
  <2>11. QED
    BY <2>5, <2>8, <2>9, <2>10 DEF PaintGood, EndsPainted
<1>2. Capture(vs, fr, tl) = [c \in Columns |-> rec(c)]
  BY DEF Capture
<1> HIDE DEF rec
<1>3. QED
  BY <1>1, <1>2

(* A step that ends with a paint, and one that leaves the last paint.          *)
LEMMA Repainted ==
  ASSUME Repaint,
         views' \in [Tabs -> TextSlices], marks' \in [Tabs -> Marks], made' \in Nat,
         front' \in [Columns -> Tabs], tall' \in [Columns -> Nat], seeking' \in Columns \cup {""},
         armed' \in Arms \cup {NoArm},
         \A t \in Tabs : Known(views'[t], marks'[t], made'),
         ArmGood(armed', views'), PushedIsChosen'
  PROVE  TextInv'
<1>1. drawn' \in [Columns -> Paints] /\ \A c \in Columns : PaintGood(drawn'[c], views', marks')
  BY CaptureGood DEF Repaint
<1>2. QED
  BY <1>1 DEF TextInv, TextTypes

LEMMA Unpainted ==
  ASSUME TextInv, drawn' = drawn,
         views' \in [Tabs -> TextSlices], marks' \in [Tabs -> Marks], made' \in Nat,
         front' \in [Columns -> Tabs], tall' \in [Columns -> Nat], seeking' \in Columns \cup {""},
         armed' \in Arms \cup {NoArm},
         \A t \in Tabs : Known(views'[t], marks'[t], made'),
         \A t \in Tabs : IsSelecting(views'[t]) /\ ~marks'[t].odd =>
            /\ IsSelecting(views[t]) /\ ~marks[t].odd
            /\ views'[t].sel.anchor.line <= views[t].sel.anchor.line
            /\ views'[t].sel.cursor.line <= views[t].sel.cursor.line,
         ArmGood(armed', views'), PushedIsChosen'
  PROVE  TextInv'
<1>1. ASSUME NEW c \in Columns PROVE PaintGood(drawn[c], views', marks')
  <2> DEFINE d == drawn[c]
             t == d.of
  <2>1. PaintGood(d, views, marks) /\ d \in Paints /\ t \in Tabs /\ Len(d.lines) \in Nat
    <3>1. PaintGood(d, views, marks) /\ d \in Paints
      BY DEF TextInv, TextTypes
    <3>2. d.of \in Tabs /\ d.lines \in Seq(Nat)
      BY <3>1 DEF Paints
    <3>3. QED
      BY <3>1, <3>2, LenProperties
  <2>2. views[t] \in TextSlices /\ views'[t] \in TextSlices
    BY <2>1 DEF TextInv, TextTypes
  <2> HIDE DEF d
  <2>5. ASSUME IsSelecting(views'[t]), ~marks'[t].odd
        PROVE  views'[t].sel.anchor.line < Len(d.lines) /\ views'[t].sel.cursor.line < Len(d.lines)
    <3>1. /\ views[t].sel.anchor.line < Len(d.lines) /\ views[t].sel.cursor.line < Len(d.lines)
      BY <2>1, <2>5 DEF PaintGood, EndsPainted
    <3>2. /\ views'[t].sel.anchor.line <= views[t].sel.anchor.line
          /\ views'[t].sel.cursor.line <= views[t].sel.cursor.line
      BY <2>1, <2>5
    <3>3. QED
      BY <2>1, <2>2, <3>1, <3>2, EndsStayPainted
  <2>6. QED
    BY <2>1, <2>5 DEF PaintGood, EndsPainted, d
<1>2. QED
  BY <1>1 DEF TextInv, TextTypes

-----------------------------------------------------------------------------
(* What is pushed is what was chosen.                                          *)
LEMMA ChosenPushed ==
  ASSUME TextInv, NEW t \in Tabs, IsSelecting(views[t]), NEW text, NEW odd \in BOOLEAN,
         ~odd => ~marks[t].odd /\ text = SelectedText(views[t].lines, views[t].sel),
         Pushed(t, text, odd)
  PROVE  PushedIsChosen'
<1>1. ~odd => text = ChosenText(t)
  <2>1. /\ views[t] \in TextSlices /\ marks[t] \in Marks
        /\ Rising(views[t].lines, made) /\ EndsKnown(views[t], marks[t])
    BY DEF TextInv, TextTypes, Known
  <2>2. ~marks[t].odd => SelectedText(views[t].lines, views[t].sel) = ChosenLines(views[t].lines, marks[t])
    BY <2>1, ChosenIsSelected
  <2>3. ChosenText(t) = ChosenLines(views[t].lines, marks[t])
    BY DEF ChosenText, ChosenLines
  <2>4. QED
    BY <2>2, <2>3
<1>2. register' = [text |-> text, chosen |-> IF odd THEN text ELSE ChosenText(t)]
  BY DEF Pushed
<1>3. register'.text = text /\ register'.chosen = text
  BY <1>1, <1>2
<1>4. QED
  BY <1>3 DEF PushedIsChosen

(* A selection reads the same in the lines painted as in the lines the tab     *)
(* holds now, if those go on from these.                                       *)
LEMMA PrefixReads ==
  ASSUME NEW old \in Seq(Nat), NEW new \in Seq(Nat), IsPrefix(old, new)
  PROVE  Len(old) <= Len(new) /\ \A i \in 1 .. Len(old) : old[i] = new[i]
<1>1. Len(old) <= Len(new) /\ SubSeq(old, 1, Len(old)) = SubSeq(new, 1, Len(old))
  BY DEF IsPrefix
<1>2. Len(old) \in Nat /\ Len(new) \in Nat
  BY LenProperties
<1>3. SubSeq(old, 1, Len(old)) = old
  BY SubSeqFull
<1>4. \A i \in 1 .. Len(old) : new[i] \in Nat
  BY <1>1, <1>2, ElementOfSeq
<1>5. \A i \in 1 .. Len(old) - 1 + 1 : SubSeq(new, 1, Len(old))[i] = new[1 + i - 1]
  BY <1>2, <1>4, SubSeqProperties
<1>6. ASSUME NEW i \in 1 .. Len(old) PROVE old[i] = new[i]
  <2>1. i \in 1 .. Len(old) - 1 + 1 /\ 1 + i - 1 = i
    BY <1>2
  <2>2. QED
    BY <1>1, <1>3, <1>5, <2>1
<1>7. QED
  BY <1>1, <1>6

LEMMA SelectedReads ==
  ASSUME NEW old \in Seq(Nat), NEW new \in Seq(Nat), IsPrefix(old, new), NEW sel \in Selections,
         sel.anchor.line < Len(old), sel.cursor.line < Len(old)
  PROVE  SelectedText(old, sel) = SelectedText(new, sel)
<1> DEFINE a == sel.anchor.line
           b == sel.cursor.line
           first == IF a < b THEN a ELSE b
           last == IF a < b THEN b ELSE a
<1>1. a \in Nat /\ b \in Nat /\ a < Len(old) /\ b < Len(old)
  BY DEF Selections, Places
<1>2. Len(old) \in Nat /\ Len(new) \in Nat
  BY LenProperties
<1>3. Len(old) <= Len(new) /\ \A i \in 1 .. Len(old) : old[i] = new[i]
  BY PrefixReads
<1> HIDE DEF a, b
<1>4. first \in Nat /\ last \in Nat /\ last < Len(old)
  BY <1>1
<1> HIDE DEF first, last
<1>5. ASSUME NEW i \in 1 .. (last - first + 1)
      PROVE  (IF first + i <= Len(old) THEN old[first + i] ELSE 0)
               = (IF first + i <= Len(new) THEN new[first + i] ELSE 0)
  <2>1. first + i \in 1 .. Len(old)
    BY <1>2, <1>4
  <2>2. first + i <= Len(old) /\ first + i <= Len(new)
    BY <1>2, <1>3, <2>1
  <2>3. QED
    BY <1>3, <2>1, <2>2
<1>6. /\ SelectedText(old, sel)
           = [i \in 1 .. (last - first + 1) |-> IF first + i <= Len(old) THEN old[first + i] ELSE 0]
      /\ SelectedText(new, sel)
           = [i \in 1 .. (last - first + 1) |-> IF first + i <= Len(new) THEN new[first + i] ELSE 0]
  BY DEF SelectedText, first, last, a, b
<1>7. QED
  BY <1>5, <1>6

LEMMA PaintedReads ==
  ASSUME TextInv, NEW c \in Columns, Fresh(c), IsSelecting(views[front[c]]), ~marks[front[c]].odd
  PROVE  PaintedText(c) = SelectedText(views[front[c]].lines, views[front[c]].sel)
<1> DEFINE t == front[c]
           d == drawn[c]
<1>1. t \in Tabs /\ views[t] \in TextSlices /\ d \in Paints /\ PaintGood(d, views, marks)
  BY DEF TextInv, TextTypes
<1>2. d.of = t /\ IsPrefix(d.lines, views[t].lines)
  BY DEF Fresh
<1>3. views[t].sel.anchor.line < Len(d.lines) /\ views[t].sel.cursor.line < Len(d.lines)
  BY <1>1, <1>2 DEF PaintGood, EndsPainted
<1>4. d.lines \in Seq(Nat) /\ views[t].lines \in Seq(Nat) /\ views[t].sel \in Selections
  BY <1>1 DEF Paints, TextSlices
<1>5. PaintedText(c) = SelectedText(d.lines, views[t].sel)
  BY DEF PaintedText
<1> HIDE DEF t, d
<1>6. SelectedText(d.lines, views[t].sel) = SelectedText(views[t].lines, views[t].sel)
  BY <1>2, <1>3, <1>4, SelectedReads
<1>7. QED
  BY <1>5, <1>6 DEF t

(* A line pointed at was painted, and is there still if the paint is fresh.    *)
LEMMA PointedAt ==
  ASSUME TextInv, NEW c \in Columns, NEW row \in 0 .. (Len(drawn[c].window) - 1)
  PROVE  /\ PointedLine(c, row) \in Nat /\ PointedId(c, row) \in Nat
         /\ Fresh(c) => /\ PointedLine(c, row) < Len(views[front[c]].lines)
                        /\ views[front[c]].lines[PointedLine(c, row) + 1] = PointedId(c, row)
<1> DEFINE d == drawn[c]
           now == views[front[c]].lines
<1>1. d \in Paints /\ PaintGood(d, views, marks) /\ front[c] \in Tabs /\ views[front[c]] \in TextSlices
  BY DEF TextInv, TextTypes
<1>2. d.scroll \in Nat /\ d.window \in Seq(Nat) /\ d.lines \in Seq(Nat) /\ now \in Seq(Nat)
  BY <1>1 DEF Paints, TextSlices
<1>3. Len(d.window) \in Nat /\ Len(d.lines) \in Nat
  BY <1>2, LenProperties
<1>4. Fresh(c) => IsPrefix(d.lines, now)
  BY DEF Fresh
<1>5. PointedLine(c, row) = d.scroll + row /\ PointedId(c, row) = d.window[row + 1]
  BY DEF PointedLine, PointedId
<1>6. row + 1 \in 1 .. Len(d.window) /\ row \in Nat
  BY <1>3
<1>7. d.window[row + 1] \in Nat
  BY <1>2, <1>6, ElementOfSeq
<1>8. d.scroll + (row + 1) <= Len(d.lines) /\ d.window[row + 1] = d.lines[d.scroll + (row + 1)]
  BY <1>1, <1>6 DEF PaintGood
<1>9. ASSUME Fresh(c)
      PROVE  d.scroll + row < Len(now) /\ now[d.scroll + row + 1] = d.window[row + 1]
  <2> HIDE DEF d, now
  <2>1. IsPrefix(d.lines, now)
    BY <1>4, <1>9
  <2>2. Len(d.lines) <= Len(now) /\ \A i \in 1 .. Len(d.lines) : d.lines[i] = now[i]
    BY <1>2, <2>1, PrefixReads
  <2>3. Len(now) \in Nat
    BY <1>2, LenProperties
  <2>4. d.scroll + (row + 1) \in 1 .. Len(d.lines) /\ d.scroll + (row + 1) = d.scroll + row + 1
    <3>1. d.scroll \in Nat /\ row \in Nat /\ Len(d.lines) \in Nat
      BY <1>2, <1>3, <1>6
    <3>2. d.scroll + (row + 1) <= Len(d.lines)
      BY <1>8
    <3>3. QED
      BY <3>1, <3>2
  <2>5. now[d.scroll + row + 1] = d.window[row + 1]
    BY <1>8, <2>2, <2>4
  <2>6. d.scroll + row < Len(now)
    BY <1>2, <1>3, <1>6, <2>2, <2>3, <2>4
  <2>7. QED
    BY <2>5, <2>6
<1>10. d.scroll + row \in Nat
  BY <1>2, <1>6
<1> HIDE DEF d
<1>11. QED
  BY <1>5, <1>7, <1>9, <1>10

-----------------------------------------------------------------------------
(* The steps.                                                                  *)
LEMMA ArmKept ==
  ASSUME TextInv, NEW vs, \A t \in Tabs : vs[t].lines = views[t].lines
  PROVE  ArmGood(armed, vs)
<1>1. ArmGood(armed, views) /\ armed \in Arms \cup {NoArm}
  BY DEF TextInv, TextTypes
<1>2. armed # NoArm => armed.of \in Tabs
  BY <1>1 DEF Arms
<1>3. armed # NoArm => vs[armed.of].lines = views[armed.of].lines
  BY <1>2
<1>4. QED
  BY <1>1, <1>3 DEF ArmGood

LEMMA SamePushed ==
  ASSUME TextInv, register' = register PROVE PushedIsChosen'
BY DEF TextInv, PushedIsChosen

LEMMA OneTabRepainted ==
  ASSUME TextInv, NEW t \in Tabs, NEW u \in TextSlices, NEW m \in Marks,
         u.lines = views[t].lines, EndsKnown(u, m),
         views' = [views EXCEPT ![t] = u], marks' = [marks EXCEPT ![t] = m],
         UNCHANGED <<front, tall, made>>, seeking' \in Columns \cup {""},
         armed' \in {armed, NoArm}, PushedIsChosen', Repaint
  PROVE  TextInv'
<1>1. TextTypes /\ \A k \in Tabs : Known(views[k], marks[k], made)
  BY DEF TextInv
<1>2. views' \in [Tabs -> TextSlices] /\ marks' \in [Tabs -> Marks]
  BY <1>1 DEF TextTypes
<1>3. views'[t] = u /\ marks'[t] = m /\ \A k \in Tabs \ {t} : views'[k] = views[k] /\ marks'[k] = marks[k]
  BY <1>1 DEF TextTypes
<1>4. \A k \in Tabs : views'[k].lines = views[k].lines
  BY <1>3
<1>5. ASSUME NEW k \in Tabs PROVE Known(views'[k], marks'[k], made')
  <2>1. CASE k = t
    BY <1>1, <1>3, <2>1 DEF Known
  <2>2. CASE k # t
    BY <1>1, <1>3, <2>2 DEF Known
  <2>3. QED
    BY <2>1, <2>2
<1>6. ArmGood(armed, views')
  BY <1>4, ArmKept
<1>7. ArmGood(armed', views')
  BY <1>6 DEF ArmGood
<1>8. /\ made' \in Nat /\ front' \in [Columns -> Tabs] /\ tall' \in [Columns -> Nat]
      /\ armed' \in Arms \cup {NoArm}
  BY <1>1 DEF TextTypes
<1>9. QED
  BY <1>2, <1>5, <1>7, <1>8, Repainted

\* A step that scrolls one tab, or changes what it searches.
LEMMA SameTextRepainted ==
  ASSUME TextInv, NEW t \in Tabs, NEW u, SameText(views[t], u),
         views' = [views EXCEPT ![t] = u],
         UNCHANGED <<front, tall, made, armed, marks>>, seeking' \in Columns \cup {""},
         PushedIsChosen', Repaint
  PROVE  TextInv'
<1>1. /\ views[t] \in TextSlices /\ marks \in [Tabs -> Marks] /\ marks[t] \in Marks
      /\ Known(views[t], marks[t], made)
  BY DEF TextInv, TextTypes
<1>2. u \in TextSlices /\ u.lines = views[t].lines /\ u.sel = views[t].sel
  BY DEF SameText
<1>3. EndsKnown(u, marks[t])
  BY <1>1, <1>2 DEF Known, EndsKnown, IsSelecting
<1>4. marks' = [marks EXCEPT ![t] = marks[t]]
  BY <1>1
<1>5. QED
  BY <1>1, <1>2, <1>3, <1>4, OneTabRepainted

\* A step that takes a selection off one tab.
LEMMA OffRepainted ==
  ASSUME TextInv, NEW t \in Tabs,
         views' = [views EXCEPT ![t] = Deselected(views[t])], marks' = [marks EXCEPT ![t] = NoMarks],
         UNCHANGED <<front, tall, made>>, seeking' \in Columns \cup {""},
         armed' \in {armed, NoArm}, PushedIsChosen', Repaint
  PROVE  TextInv'
<1>1. views[t] \in TextSlices
  BY DEF TextInv, TextTypes
<1>2. /\ Deselected(views[t]) \in TextSlices /\ Deselected(views[t]).lines = views[t].lines
      /\ ~IsSelecting(Deselected(views[t]))
  BY <1>1, DeselectedOff
<1>3. NoMarks \in Marks
  BY DEF NoMarks, Marks
<1>4. EndsKnown(Deselected(views[t]), NoMarks)
  BY <1>2 DEF EndsKnown
<1>5. QED
  BY <1>2, <1>3, <1>4, OneTabRepainted

LEMMA ScrollKeeps ==
  ASSUME TextInv, NEW c \in Columns, Scroll(c) PROVE TextInv'
<1> DEFINE t == front[c]
<1>1. t \in Tabs /\ views[t] \in TextSlices /\ tall[c] \in Nat /\ views[t].scroll \in Nat
  BY DEF TextInv, TextTypes, TextSlices
<1>2. PICK to \in {0, views[t].scroll - 1, views[t].scroll + 1, RingCap} :
        views' = [views EXCEPT ![t] = Scrolled(views[t], to, tall[c])]
  BY DEF Scroll
<1>3. RingCap \in Nat
  BY TextAssumption
<1>4. to \in Int
  BY <1>1, <1>2, <1>3
<1>5. /\ UNCHANGED <<front, tall, made, armed, marks>> /\ register' = register /\ seeking' = seeking
      /\ Repaint
  BY DEF Scroll
<1>6. seeking' \in Columns \cup {""}
  BY <1>5 DEF TextInv, TextTypes
<1> HIDE DEF t
<1>7. SameText(views[t], Scrolled(views[t], to, tall[c]))
  BY <1>1, <1>4, ScrolledSame
<1>8. PushedIsChosen'
  BY <1>5, SamePushed
<1>9. QED
  BY <1>1, <1>2, <1>5, <1>6, <1>7, <1>8, SameTextRepainted

LEMMA KeySlashKeeps ==
  ASSUME TextInv, NEW c \in Columns, KeySlash(c) PROVE TextInv'
<1> DEFINE t == front[c]
<1>1. t \in Tabs /\ views[t] \in TextSlices
  BY DEF TextInv, TextTypes
<1>2. /\ views' = [views EXCEPT ![t] = SearchEntered(views[t])] /\ seeking' = c
      /\ UNCHANGED <<front, tall, made, armed, marks>> /\ register' = register /\ Repaint
  BY DEF KeySlash, KeyOf, InView
<1>3. SameText(views[t], SearchEntered(views[t]))
  BY <1>1, SearchSame
<1>4. PushedIsChosen'
  BY <1>2, SamePushed
<1> HIDE DEF t
<1>5. QED
  BY <1>1, <1>2, <1>3, <1>4, SameTextRepainted

LEMMA KeyMatchKeeps ==
  ASSUME TextInv, NEW c \in Columns, KeyMatch(c) PROVE TextInv'
<1> DEFINE t == front[c]
           s == views[t]
<1>1. t \in Tabs /\ s \in TextSlices /\ tall[c] \in Nat
  BY DEF TextInv, TextTypes
<1>2. PICK u \in {NextMatch(s, tall[c], s.search.term), PreviousMatch(s, tall[c], s.search.term)}
                 \cup (IF IsSelecting(s) THEN {} ELSE {SearchCleared(s)}) :
        views' = [views EXCEPT ![t] = u]
  BY DEF KeyMatch, InView
<1>3. /\ UNCHANGED <<front, tall, made, armed, marks>> /\ register' = register /\ seeking' = seeking
      /\ Repaint
  BY DEF KeyMatch, KeyOf
<1>4. seeking' \in Columns \cup {""}
  BY <1>3 DEF TextInv, TextTypes
<1>5. s.search.term \in BOOLEAN
  BY <1>1 DEF TextSlices, Searches
<1> HIDE DEF t, s
<1>6. SameText(s, u)
  BY <1>1, <1>2, <1>5, SearchSame
<1>7. PushedIsChosen'
  BY <1>3, SamePushed
<1>8. QED
  BY <1>1, <1>2, <1>3, <1>4, <1>6, <1>7, SameTextRepainted DEF s

LEMMA SearchKeyKeeps ==
  ASSUME TextInv, SearchKey PROVE TextInv'
<1> DEFINE c == seeking
           t == front[c]
           s == views[t]
<1>1. c \in Columns /\ t \in Tabs /\ s \in TextSlices /\ tall[c] \in Nat
  <2>1. c \in Columns
    BY DEF SearchKey, TextInv, TextTypes
  <2>2. QED
    BY <2>1 DEF TextInv, TextTypes
<1>2. PICK u \in {SearchTyped(s, TRUE), SearchTyped(s, FALSE), NextMatch(s, tall[c], s.search.typing),
                  PreviousMatch(s, tall[c], s.search.typing), SearchCancelled(s), SearchCommitted(s, tall[c])} :
        views' = [views EXCEPT ![t] = u] /\ seeking' \in {seeking, ""}
  BY DEF SearchKey, InView
<1>3. UNCHANGED <<front, tall, made, armed, marks>> /\ register' = register /\ Repaint
  BY DEF SearchKey
<1>4. seeking' \in Columns \cup {""}
  BY <1>1, <1>2
<1>5. s.search.typing \in BOOLEAN
  BY <1>1 DEF TextSlices, Searches
<1> HIDE DEF c, t, s
<1>6. SameText(s, u)
  BY <1>1, <1>2, <1>5, SearchSame
<1>7. PushedIsChosen'
  BY <1>3, SamePushed
<1>8. QED
  BY <1>1, <1>2, <1>3, <1>4, <1>6, <1>7, SameTextRepainted DEF s

LEMMA KeyEscapeKeeps ==
  ASSUME TextInv, NEW c \in Columns, KeyEscape(c) PROVE TextInv'
<1> DEFINE t == front[c]
<1>1. t \in Tabs
  BY DEF TextInv, TextTypes
<1>2. /\ views' = [views EXCEPT ![t] = Deselected(views[t])] /\ marks' = [marks EXCEPT ![t] = NoMarks]
      /\ UNCHANGED <<front, tall, made, armed>> /\ register' = register /\ seeking' = seeking /\ Repaint
  BY DEF KeyEscape, KeyOf, InView
<1>3. seeking' \in Columns \cup {""}
  BY <1>2 DEF TextInv, TextTypes
<1>4. PushedIsChosen'
  BY <1>2, SamePushed
<1> HIDE DEF t
<1>5. QED
  BY <1>1, <1>2, <1>3, <1>4, OffRepainted

LEMMA KeyYankKeeps ==
  ASSUME TextInv, NEW c \in Columns, KeyYank(c) PROVE TextInv'
<1> DEFINE t == front[c]
           text == SelectedText(views[t].lines, views[t].sel)
<1>1. t \in Tabs /\ marks[t] \in Marks
  BY DEF TextInv, TextTypes
<1>2. /\ views' = [views EXCEPT ![t] = Deselected(views[t])] /\ marks' = [marks EXCEPT ![t] = NoMarks]
      /\ UNCHANGED <<front, tall, made, armed>> /\ seeking' = seeking /\ Repaint
      /\ IsSelecting(views[t])
      /\ IF IsText(text) THEN Pushed(t, text, marks[t].odd) ELSE UNCHANGED register
  BY DEF KeyYank, KeyOf, InView
<1>3. seeking' \in Columns \cup {""}
  BY <1>2 DEF TextInv, TextTypes
<1>4. PushedIsChosen'
  <2>1. CASE IsText(text)
    <3>1. marks[t].odd \in BOOLEAN
      BY <1>1 DEF Marks
    <3>2. QED
      BY <1>1, <1>2, <2>1, <3>1, ChosenPushed
  <2>2. CASE ~IsText(text)
    BY <1>2, <2>2, SamePushed
  <2>3. QED
    BY <2>1, <2>2
<1> HIDE DEF t
<1>5. QED
  BY <1>1, <1>2, <1>3, <1>4, OffRepainted

LEMMA KeyVisualKeeps ==
  ASSUME TextInv, NEW c \in Columns, NEW kind \in {"char", "line"}, KeyVisual(c, kind)
  PROVE  TextInv'
<1> DEFINE t == front[c]
           s == views[t]
           top == IF s.scroll < Len(s.lines) THEN s.lines[s.scroll + 1] ELSE 0
           m == [from |-> top, to |-> top, odd |-> top = 0]
           u == Begun(s, s.scroll, 0, kind)
<1>1. t \in Tabs /\ s \in TextSlices /\ Rising(s.lines, made)
  BY DEF TextInv, TextTypes, Known
<1>2. /\ UNCHANGED <<front, tall, made, armed>> /\ register' = register /\ seeking' = seeking /\ Repaint
      /\ \/ views' = [views EXCEPT ![t] = Deselected(s)] /\ marks' = [marks EXCEPT ![t] = NoMarks]
         \/ views' = [views EXCEPT ![t] = u] /\ marks' = [marks EXCEPT ![t] = m]
  BY DEF KeyVisual, KeyOf, InView
<1>3. seeking' \in Columns \cup {""}
  BY <1>2 DEF TextInv, TextTypes
<1>4. PushedIsChosen'
  BY <1>2, SamePushed
<1> HIDE DEF t, s
<1>5. CASE views' = [views EXCEPT ![t] = Deselected(s)] /\ marks' = [marks EXCEPT ![t] = NoMarks]
  BY <1>1, <1>2, <1>3, <1>4, <1>5, OffRepainted DEF s
<1>6. CASE views' = [views EXCEPT ![t] = u] /\ marks' = [marks EXCEPT ![t] = m]
  <2>1. s.scroll \in Nat /\ s.lines \in Seq(Nat)
    BY <1>1 DEF TextSlices
  <2>2. Len(s.lines) \in Nat
    BY <2>1, LenProperties
  <2>3. top \in Nat /\ (top # 0 => s.scroll < Len(s.lines) /\ s.lines[s.scroll + 1] = top)
    <3>1. CASE s.scroll < Len(s.lines)
      <4>1. s.scroll + 1 \in 1 .. Len(s.lines)
        BY <2>1, <2>2, <3>1
      <4>2. s.lines[s.scroll + 1] \in Nat
        BY <2>1, <4>1, ElementOfSeq
      <4>3. QED
        BY <3>1, <4>2
    <3>2. CASE ~(s.scroll < Len(s.lines))
      BY <3>2
    <3>3. QED
      BY <3>1, <3>2
  <2> HIDE DEF top
  <2>4. /\ u \in TextSlices /\ u.lines = s.lines /\ u.sel.anchor = u.sel.cursor
        /\ s.scroll < Len(s.lines) => u.sel.cursor.line = s.scroll
    <3>1. 0 \in Nat
      OBVIOUS
    <3>2. QED
      BY <1>1, <2>1, <3>1, BegunAt, Zenon
  <2>5. m \in Marks
    BY <2>3 DEF Marks
  <2> HIDE DEF u
  <2>6. EndsKnown(u, m)
    <3>1. ASSUME top # 0
          PROVE  /\ OnLine(s.lines, u.sel.anchor.line, top) /\ OnLine(s.lines, u.sel.cursor.line, top)
                 /\ top >= s.lines[1]
      <4>1. OnLine(s.lines, s.scroll, top)
        BY <2>3, <3>1 DEF OnLine
      <4>2. top >= s.lines[1]
        <5>1. 1 \in DOMAIN s.lines /\ s.scroll + 1 \in DOMAIN s.lines /\ s.lines[1] \in Nat
          <6>1. DOMAIN s.lines = 1 .. Len(s.lines) /\ 1 \in 1 .. Len(s.lines) /\ s.scroll + 1 \in 1 .. Len(s.lines)
            BY <2>1, <2>2, <2>3, <3>1, LenProperties
          <6>2. QED
            BY <2>1, <6>1, ElementOfSeq
        <5>2. 1 < s.scroll + 1 => s.lines[1] < s.lines[s.scroll + 1]
          BY <1>1, <5>1 DEF Rising
        <5>3. QED
          BY <2>1, <2>3, <3>1, <5>1, <5>2
      <4>3. QED
        BY <2>3, <2>4, <3>1, <4>1, <4>2
    <3>2. QED
      BY <2>4, <3>1 DEF EndsKnown
  <2> HIDE DEF m
  <2>7. QED
    BY <1>1, <1>2, <1>3, <1>4, <1>6, <2>4, <2>5, <2>6, OneTabRepainted DEF s
<1>7. QED
  BY <1>2, <1>5, <1>6

\* A selection whose other end is put on a line of the tab.
LEMMA EndPut ==
  ASSUME NEW s \in TextSlices, NEW top, Rising(s.lines, top), NEW u \in TextSlices, NEW m \in Marks, NEW v \in Marks,
         EndsKnown(s, m), IsSelecting(s), ~v.odd => ~m.odd,
         u.lines = s.lines, u.sel.anchor = s.sel.anchor, v.from = m.from,
         ~v.odd => u.sel.cursor.line < Len(s.lines) /\ s.lines[u.sel.cursor.line + 1] = v.to
  PROVE  EndsKnown(u, v)
<1> SUFFICES ASSUME ~v.odd
             PROVE  /\ OnLine(u.lines, u.sel.anchor.line, v.from) /\ OnLine(u.lines, u.sel.cursor.line, v.to)
                    /\ v.to >= u.lines[1]
  BY DEF EndsKnown
<1>1. OnLine(u.lines, u.sel.anchor.line, v.from) /\ OnLine(u.lines, u.sel.cursor.line, v.to)
  BY DEF EndsKnown, OnLine
<1>2. s.lines \in Seq(Nat) /\ u.sel.cursor.line \in Nat
  BY DEF TextSlices, Selections, Places
<1> DEFINE n == u.sel.cursor.line
<1>3. n \in Nat /\ n < Len(s.lines) /\ s.lines[n + 1] = v.to /\ u.lines = s.lines /\ Len(s.lines) \in Nat
  BY <1>2, LenProperties
<1> HIDE DEF n
<1>4. DOMAIN s.lines = 1 .. Len(s.lines) /\ 1 \in 1 .. Len(s.lines) /\ n + 1 \in 1 .. Len(s.lines)
  BY <1>2, <1>3, LenProperties
<1>5. s.lines[1] \in Nat /\ s.lines[n + 1] \in Nat
  BY <1>2, <1>4, ElementOfSeq
<1>6. 1 < n + 1 => s.lines[1] < s.lines[n + 1]
  BY <1>4 DEF Rising
<1>7. v.to >= u.lines[1]
  BY <1>3, <1>5, <1>6
<1>8. QED
  BY <1>1, <1>7

LEMMA KeyMoveKeeps ==
  ASSUME TextInv, NEW c \in Columns, KeyMove(c) PROVE TextInv'
<1> DEFINE t == front[c]
           s == views[t]
<1>1. /\ t \in Tabs /\ s \in TextSlices /\ tall[c] \in Nat /\ Rising(s.lines, made)
      /\ EndsKnown(s, marks[t]) /\ marks[t] \in Marks
  BY DEF TextInv, TextTypes, Known
<1>2. PICK d \in {<<1, 0>>, <<-1, 0>>, <<0, -1>>, <<0, 1>>} :
        LET u == Moved(s, d[1], d[2], tall[c])
        IN  /\ views' = [views EXCEPT ![t] = u]
            /\ marks' = [marks EXCEPT ![t].to =
                           IF u.lines = <<>> THEN @ ELSE u.lines[u.sel.cursor.line + 1]]
  BY DEF KeyMove, InView
<1> DEFINE u == Moved(s, d[1], d[2], tall[c])
           to == IF u.lines = <<>> THEN marks[t].to ELSE u.lines[u.sel.cursor.line + 1]
           m == [marks[t] EXCEPT !.to = to]
<1>3. /\ UNCHANGED <<front, tall, made, armed>> /\ register' = register /\ seeking' = seeking /\ Repaint
      /\ IsSelecting(s)
  BY DEF KeyMove, KeyOf
<1>4. seeking' \in Columns \cup {""}
  BY <1>3 DEF TextInv, TextTypes
<1>5. PushedIsChosen'
  BY <1>3, SamePushed
<1>6. d[1] \in Int /\ d[2] \in Int
  OBVIOUS
<1>7. views' = [views EXCEPT ![t] = u] /\ marks' = [marks EXCEPT ![t] = m]
  BY <1>2
<1> HIDE DEF t, s
<1>8. CASE s.lines = <<>>
  <2>1. u = s
    BY <1>8 DEF Moved
  <2> HIDE DEF u
  <2>2. to = marks[t].to
    BY <1>8, <2>1
  <2>3. m = marks[t]
    BY <1>1, <2>2 DEF Marks
  <2> HIDE DEF m, to
  <2>4. QED
    BY <1>1, <1>3, <1>4, <1>5, <1>7, <2>1, <2>3, OneTabRepainted DEF s
<1>9. CASE s.lines # <<>>
  <2>1. /\ u \in TextSlices /\ u.lines = s.lines /\ u.sel.anchor = s.sel.anchor
        /\ u.sel.cursor.line < Len(s.lines)
    BY <1>1, <1>6, <1>9, MovedCursor
  <2> HIDE DEF u
  <2>2. s.lines \in Seq(Nat) /\ u.sel.cursor.line \in Nat
    BY <1>1, <2>1 DEF TextSlices, Selections, Places
  <2>3. u.sel.cursor.line + 1 \in 1 .. Len(s.lines)
    BY <2>1, <2>2, LenProperties
  <2>4. to \in Nat /\ to = s.lines[u.sel.cursor.line + 1]
    BY <1>9, <2>1, <2>2, <2>3, ElementOfSeq
  <2> HIDE DEF to
  <2>5. m \in Marks /\ m.from = marks[t].from /\ m.odd = marks[t].odd /\ m.to = to
    BY <1>1, <2>4 DEF Marks
  <2> HIDE DEF m
  <2>6. EndsKnown(u, m)
    BY <1>1, <1>3, <2>1, <2>4, <2>5, EndPut
  <2>7. QED
    BY <1>1, <1>3, <1>4, <1>5, <1>7, <2>1, <2>5, <2>6, OneTabRepainted DEF s
<1>10. QED
  BY <1>8, <1>9

LEMMA RowOfContent ==
  ASSUME TextInv, NEW c \in Columns, NEW row \in Int, NEW pinned \in BOOLEAN,
         NEW r \in ContentRow(c, row, pinned)
  PROVE  r \in 0 .. (Len(drawn[c].window) - 1)
BY DEF ContentRow

\* The selection a motion extends: it begins on the line that was armed.
LEMMA DragBegins ==
  ASSUME TextInv, armed # NoArm, front[armed.pane] \in Tabs
  PROVE  LET t == front[armed.pane]
             begins == ~IsSelecting(views[t])
             s == IF begins THEN Begun(views[t], armed.line, armed.col, "char") ELSE views[t]
             m == IF begins THEN [from |-> armed.id, to |-> armed.id, odd |-> armed.slipped] ELSE marks[t]
         IN  /\ s \in TextSlices /\ s.lines = views[t].lines /\ IsSelecting(s)
             /\ m \in Marks
             /\ ~m.odd /\ armed.of = t => EndsKnown(s, m)
<1> DEFINE t == front[armed.pane]
           begun == Begun(views[t], armed.line, armed.col, "char")
           m == [from |-> armed.id, to |-> armed.id, odd |-> armed.slipped]
           n == armed.line
<1>1. /\ t \in Tabs /\ views[t] \in TextSlices /\ marks[t] \in Marks /\ Rising(views[t].lines, made)
      /\ EndsKnown(views[t], marks[t])
      /\ armed \in Arms /\ ArmGood(armed, views)
  BY DEF TextInv, TextTypes, Known
<1>2. n \in Nat /\ armed.col \in Nat /\ armed.id \in Nat /\ armed.slipped \in BOOLEAN /\ "char" \in {"char", "line"}
  BY <1>1 DEF Arms
<1> HIDE DEF t, n
<1>3. /\ begun \in TextSlices /\ begun.lines = views[t].lines /\ IsSelecting(begun)
      /\ begun.sel.anchor = begun.sel.cursor /\ (n < Len(views[t].lines) => begun.sel.cursor.line = n)
  BY <1>1, <1>2, BegunAt, Zenon DEF n
<1> HIDE DEF begun
<1>4. m \in Marks
  BY <1>2 DEF Marks
<1>5. ASSUME ~armed.slipped, armed.of = t
      PROVE  EndsKnown(begun, m)
  <2> DEFINE lines == views[t].lines
  <2>1. n < Len(lines) /\ lines[n + 1] = armed.id
    BY <1>1, <1>5 DEF ArmGood, n
  <2>2. lines \in Seq(Nat)
    BY <1>1 DEF TextSlices
  <2> HIDE DEF lines
  <2>3. Len(lines) \in Nat /\ DOMAIN lines = 1 .. Len(lines) /\ 1 \in 1 .. Len(lines) /\ n + 1 \in 1 .. Len(lines)
    BY <1>2, <2>1, <2>2, LenProperties
  <2>4. lines[1] \in Nat /\ lines[n + 1] \in Nat
    BY <2>2, <2>3, ElementOfSeq
  <2>5. 1 < n + 1 => lines[1] < lines[n + 1]
    BY <1>1, <2>3 DEF Rising, lines
  <2>6. armed.id >= lines[1]
    BY <1>2, <2>1, <2>4, <2>5
  <2>7. OnLine(lines, n, armed.id)
    BY <2>1 DEF OnLine
  <2>8. QED
    BY <1>3, <2>1, <2>6, <2>7 DEF EndsKnown, lines
<1>6. QED
  BY <1>1, <1>3, <1>4, <1>5 DEF t, n, begun

LEMMA MotionKeeps ==
  ASSUME TextInv, Motion PROVE TextInv'
<1> DEFINE c == armed.pane
           t == front[c]
           begins == ~IsSelecting(views[t])
           s == IF begins THEN Begun(views[t], armed.line, armed.col, "char") ELSE views[t]
           from == IF begins THEN [from |-> armed.id, to |-> armed.id, odd |-> armed.slipped] ELSE marks[t]
<1>1. armed # NoArm /\ armed \in Arms /\ c \in Columns /\ t \in Tabs /\ Rising(views[t].lines, made)
  <2>1. armed # NoArm /\ armed \in Arms
    BY DEF Motion, TextInv, TextTypes
  <2>2. c \in Columns
    BY <2>1 DEF Arms
  <2>3. QED
    BY <2>1, <2>2 DEF TextInv, TextTypes, Known
<1>2. /\ UNCHANGED <<front, tall, made, armed>> /\ register' = register /\ seeking' = seeking /\ Repaint
  BY DEF Motion
<1>3. PICK row \in 0 .. (tall[c] - 1), col \in 0 .. 1 :
        LET hit == ContentRow(c, row, TRUE)
        IN  /\ views' = [views EXCEPT ![t] =
                           IF hit = {} THEN s ELSE Extended(s, PointedLine(c, CHOOSE r \in hit : TRUE), col)]
            /\ marks' = [marks EXCEPT ![t] =
                           [from |-> from.from, odd |-> from.odd \/ Strayed \/ ~Fresh(c),
                            to |-> IF hit = {} THEN from.to ELSE PointedId(c, CHOOSE r \in hit : TRUE)]]
  BY DEF Motion
<1> DEFINE hit == ContentRow(c, row, TRUE)
           r == CHOOSE x \in hit : TRUE
           odd == from.odd \/ Strayed \/ ~Fresh(c)
           u == IF hit = {} THEN s ELSE Extended(s, PointedLine(c, r), col)
           m == [from |-> from.from, odd |-> odd, to |-> IF hit = {} THEN from.to ELSE PointedId(c, r)]
<1>4. views' = [views EXCEPT ![t] = u] /\ marks' = [marks EXCEPT ![t] = m]
  BY <1>3
<1>5. seeking' \in Columns \cup {""}
  BY <1>2 DEF TextInv, TextTypes
<1>6. PushedIsChosen'
  BY <1>2, SamePushed
<1>7. /\ s \in TextSlices /\ s.lines = views[t].lines /\ IsSelecting(s) /\ from \in Marks
      /\ ~from.odd /\ armed.of = t => EndsKnown(s, from)
  BY <1>1, DragBegins
<1>8. odd \in BOOLEAN /\ (~odd => ~from.odd /\ armed.of = t /\ Fresh(c))
  <2> HIDE DEF from, s, c
  <2>1. ~Strayed => armed.of = t
    BY DEF Strayed, c
  <2>2. odd \in BOOLEAN
    OBVIOUS
  <2>3. ~odd => ~from.odd /\ ~Strayed /\ Fresh(c)
    OBVIOUS
  <2> HIDE DEF odd
  <2>4. QED
    BY <2>1, <2>2, <2>3
<1>9. hit # {} => r \in 0 .. (Len(drawn[c].window) - 1)
  <2>1. hit # {} => r \in hit
    OBVIOUS
  <2>2. row \in Int
    <3>1. tall[c] \in Nat
      BY <1>1 DEF TextInv, TextTypes
    <3> HIDE DEF c
    <3>2. QED
      BY <3>1
  <2> HIDE DEF r
  <2>3. QED
    BY <1>1, <2>1, <2>2, RowOfContent
<1> HIDE DEF odd, r, hit, from, s
<1>10. hit # {} => /\ PointedLine(c, r) \in Nat /\ PointedId(c, r) \in Nat
                   /\ Fresh(c) => /\ PointedLine(c, r) < Len(views[t].lines)
                                  /\ views[t].lines[PointedLine(c, r) + 1] = PointedId(c, r)
  BY <1>1, <1>9, PointedAt
<1> HIDE DEF t, c
<1>11. u \in TextSlices /\ u.lines = s.lines /\ m \in Marks
  <2>1. from.from \in Nat /\ from.to \in Nat
    BY <1>7 DEF Marks
  <2>2. m \in Marks
    BY <1>8, <1>10, <2>1 DEF Marks
  <2>3. col \in Nat
    BY <1>3
  <2>4. hit # {} => Extended(s, PointedLine(c, r), col) \in TextSlices /\ Extended(s, PointedLine(c, r), col).lines = s.lines
    BY <1>7, <1>10, <2>3, ExtendedTo, Zenon
  <2>5. QED
    BY <1>7, <2>2, <2>4
<1>12. EndsKnown(u, m)
  <2>1. CASE hit = {}
    <3>1. u = s /\ m.from = from.from /\ m.to = from.to /\ m.odd = odd
      BY <2>1
    <3> HIDE DEF u, m
    <3>2. ~odd => EndsKnown(s, from)
      BY <1>7, <1>8
    <3>3. QED
      BY <1>8, <3>1, <3>2 DEF EndsKnown
  <2>2. CASE hit # {}
    <3>1. col \in Nat
      BY <1>3
    <3>2. u = Extended(s, PointedLine(c, r), col) /\ m.from = from.from /\ m.to = PointedId(c, r) /\ m.odd = odd
      BY <2>2
    <3> DEFINE line == PointedLine(c, r)
    <3>3. /\ u.sel.anchor = s.sel.anchor /\ IsSelecting(u)
          /\ line < Len(s.lines) => u.sel.cursor.line = line
      BY <1>7, <1>10, <2>2, <3>1, <3>2, ExtendedTo, Zenon
    <3> HIDE DEF u, m
    <3>4. CASE odd
      BY <3>2, <3>4 DEF EndsKnown
    <3>5. CASE ~odd
      <4>1. line < Len(s.lines) /\ s.lines[line + 1] = m.to /\ ~from.odd /\ EndsKnown(s, from)
        BY <1>7, <1>8, <1>10, <2>2, <3>2, <3>5
      <4> HIDE DEF line
      <4>2. u.sel.cursor.line < Len(s.lines) /\ s.lines[u.sel.cursor.line + 1] = m.to
        BY <3>3, <4>1
      <4>3. Rising(s.lines, made)
        BY <1>1, <1>7
      <4>4. QED
        BY <1>7, <1>11, <3>2, <3>3, <4>1, <4>2, <4>3, EndPut
    <3>6. QED
      BY <3>4, <3>5
  <2>3. QED
    BY <2>1, <2>2
<1> HIDE DEF u, m
<1>13. u.lines = views[t].lines /\ armed' \in {armed, NoArm}
  BY <1>2, <1>7, <1>11
<1>14. QED
  BY <1>1, <1>2, <1>4, <1>5, <1>6, <1>11, <1>12, <1>13, OneTabRepainted

LEMMA StillKept ==
  ASSUME TextInv, UNCHANGED <<views, front, tall, drawn, armed, seeking, register, marks, made>>
  PROVE  TextInv'
BY DEF TextInv, TextTypes, PushedIsChosen

\* A step that leaves the text, the selections and their marks.
LEMMA TextRepainted ==
  ASSUME TextInv, NEW t \in Tabs, UNCHANGED <<views, marks, front, tall, made, seeking>>,
         armed' \in {armed, NoArm}, PushedIsChosen', Repaint
  PROVE  TextInv'
<1>1. /\ views \in [Tabs -> TextSlices] /\ marks \in [Tabs -> Marks] /\ EndsKnown(views[t], marks[t])
      /\ seeking \in Columns \cup {""}
  BY DEF TextInv, TextTypes, Known
<1>2. views[t] \in TextSlices /\ marks[t] \in Marks
  BY <1>1
<1>3. views' = [views EXCEPT ![t] = views[t]] /\ marks' = [marks EXCEPT ![t] = marks[t]]
  BY <1>1
<1>4. QED
  BY <1>1, <1>2, <1>3, OneTabRepainted

LEMMA ReleaseKeeps ==
  ASSUME TextInv, Release PROVE TextInv'
<1> DEFINE c == armed.pane
           t == front[c]
           sel == views[t].sel
           text == IF sel.anchor = sel.cursor THEN <<>> ELSE PaintedText(c)
           odd == marks[t].odd \/ Strayed \/ ~Fresh(c)
<1>1. UNCHANGED <<front, tall, seeking, made>>
  BY DEF Release
<1>2. CASE ~Listens \/ armed = NoArm
  <2>1. UNCHANGED <<views, drawn, armed, register, marks>>
    BY <1>2 DEF Release
  <2>2. QED
    BY <1>1, <2>1, StillKept
<1>3. CASE Listens /\ armed # NoArm
  <2>1. c \in Columns /\ t \in Tabs
    <3>1. armed \in Arms
      BY <1>3 DEF TextInv, TextTypes
    <3>2. c \in Columns
      BY <3>1 DEF Arms
    <3>3. QED
      BY <3>2 DEF TextInv, TextTypes
  <2>2. /\ armed' = NoArm
        /\ IF ~IsSelecting(views[t])
           THEN UNCHANGED <<views, drawn, register, marks>>
           ELSE /\ IF IsText(text)
                   THEN Pushed(t, text, odd) /\ UNCHANGED <<views, marks>>
                   ELSE /\ views' = [views EXCEPT ![t] = Deselected(views[t])]
                        /\ marks' = [marks EXCEPT ![t] = NoMarks]
                        /\ UNCHANGED register
                /\ Repaint
    BY <1>3 DEF Release
  <2>3. seeking' \in Columns \cup {""}
    BY <1>1 DEF TextInv, TextTypes
  <2>4. CASE ~IsSelecting(views[t])
    <3>1. UNCHANGED <<views, drawn, register, marks>>
      BY <2>2, <2>4
    <3>2. QED
      BY <1>1, <2>2, <3>1 DEF TextInv, TextTypes, PushedIsChosen, ArmGood
  <2>5. CASE IsSelecting(views[t]) /\ IsText(text)
    <3>1. text = PaintedText(c)
      BY <2>5 DEF IsText
    <3>2. Pushed(t, text, odd) /\ UNCHANGED <<views, marks>> /\ Repaint
      BY <2>2, <2>5
    <3>3. odd \in BOOLEAN /\ (~odd => ~marks[t].odd /\ Fresh(c))
      <4>1. odd \in BOOLEAN
        OBVIOUS
      <4>2. ~odd => ~marks[t].odd /\ Fresh(c)
        OBVIOUS
      <4> HIDE DEF odd
      <4>3. QED
        BY <4>1, <4>2
    <3> HIDE DEF odd, text
    <3>4. ~odd => text = SelectedText(views[t].lines, views[t].sel)
      BY <2>1, <2>5, <3>1, <3>3, PaintedReads
    <3>5. PushedIsChosen'
      BY <2>1, <2>5, <3>2, <3>3, <3>4, ChosenPushed
    <3>6. QED
      BY <1>1, <2>1, <2>2, <3>2, <3>5, TextRepainted
  <2>6. CASE IsSelecting(views[t]) /\ ~IsText(text)
    <3>1. /\ views' = [views EXCEPT ![t] = Deselected(views[t])] /\ marks' = [marks EXCEPT ![t] = NoMarks]
          /\ register' = register /\ Repaint
      BY <2>2, <2>6
    <3>2. PushedIsChosen'
      BY <3>1, SamePushed
    <3> HIDE DEF t
    <3>3. QED
      BY <1>1, <2>1, <2>2, <2>3, <3>1, <3>2, OffRepainted
  <2>7. QED
    BY <2>4, <2>5, <2>6
<1>4. QED
  BY <1>2, <1>3

LEMMA CopySelectionKeeps ==
  ASSUME TextInv, NEW c \in Columns, CopySelection(c) PROVE TextInv'
<1>1. PICK d \in SelectedPanes(c) : Pushed(front[d], PaintedText(d), marks[front[d]].odd \/ ~Fresh(d))
  BY DEF CopySelection
<1> DEFINE t == front[d]
           odd == marks[t].odd \/ ~Fresh(d)
<1>2. d \in Columns /\ IsText(PaintedText(d))
  BY <1>1 DEF SelectedPanes
<1>3. t \in Tabs
  BY <1>2 DEF TextInv, TextTypes
<1>4. IsSelecting(views[t])
  BY <1>2 DEF PaintedText, IsText
<1>5. UNCHANGED <<views, marks, front, tall, made, seeking, armed>> /\ Repaint
  BY DEF CopySelection
<1>6. odd \in BOOLEAN /\ (~odd => ~marks[t].odd /\ Fresh(d))
  <2>1. odd \in BOOLEAN
    OBVIOUS
  <2>2. ~odd => ~marks[t].odd /\ Fresh(d)
    OBVIOUS
  <2> HIDE DEF odd
  <2>3. QED
    BY <2>1, <2>2
<1>7. Pushed(t, PaintedText(d), odd)
  BY <1>1
<1> HIDE DEF odd
<1>8. ~odd => PaintedText(d) = SelectedText(views[t].lines, views[t].sel)
  BY <1>2, <1>4, <1>6, PaintedReads
<1>9. PushedIsChosen'
  BY <1>3, <1>4, <1>6, <1>7, <1>8, ChosenPushed
<1>10. QED
  BY <1>3, <1>5, <1>9, TextRepainted

LEMMA FrameKeeps ==
  ASSUME TextInv, Frame PROVE TextInv'
<1>1. /\ UNCHANGED <<views, marks, front, tall, made, seeking, armed, register>> /\ Repaint
  BY DEF Frame
<1>2. PushedIsChosen'
  BY <1>1, SamePushed
<1>3. QED
  BY <1>1, <1>2, Repainted DEF TextInv, TextTypes

LEMMA HeightenedKeeps ==
  ASSUME TextInv, NEW c \in Columns, Heightened(c) PROVE TextInv'
<1>1. /\ UNCHANGED <<views, marks, front, made, seeking, armed, register>> /\ Repaint
      /\ \E h \in Tall : tall' = [tall EXCEPT ![c] = h]
  BY DEF Heightened
<1>2. PushedIsChosen'
  BY <1>1, SamePushed
<1>3. tall' \in [Columns -> Nat]
  <2>1. Tall \subseteq Nat
    BY TextAssumption
  <2>2. QED
    BY <1>1, <2>1 DEF TextInv, TextTypes
<1>4. QED
  BY <1>1, <1>2, <1>3, Repainted DEF TextInv, TextTypes

LEMMA MousePressKeeps ==
  ASSUME TextInv, NEW c \in Columns, MousePress(c) PROVE TextInv'
<1>1. /\ views' = [t \in Tabs |-> IF t \in ActiveSelections THEN Deselected(views[t]) ELSE views[t]]
      /\ marks' = [t \in Tabs |-> IF t \in ActiveSelections THEN NoMarks ELSE marks[t]]
      /\ UNCHANGED <<front, tall, made, seeking, register>> /\ Repaint
  BY DEF MousePress
<1>2. TextTypes /\ \A t \in Tabs : Known(views[t], marks[t], made)
  BY DEF TextInv
<1>3. ASSUME NEW t \in Tabs
      PROVE  /\ views'[t] \in TextSlices /\ marks'[t] \in Marks /\ Known(views'[t], marks'[t], made)
             /\ views'[t].lines = views[t].lines
  <2>1. views[t] \in TextSlices /\ marks[t] \in Marks /\ Known(views[t], marks[t], made)
    BY <1>2 DEF TextTypes
  <2>2. CASE t \in ActiveSelections
    <3>1. views'[t] = Deselected(views[t]) /\ marks'[t] = NoMarks
      BY <1>1, <2>2
    <3>2. /\ Deselected(views[t]) \in TextSlices /\ Deselected(views[t]).lines = views[t].lines
          /\ ~IsSelecting(Deselected(views[t]))
      BY <2>1, DeselectedOff
    <3>3. QED
      BY <2>1, <3>1, <3>2 DEF Known, EndsKnown, NoMarks, Marks
  <2>3. CASE t \notin ActiveSelections
    BY <1>1, <2>1, <2>3
  <2>4. QED
    BY <2>2, <2>3
<1>4. views' \in [Tabs -> TextSlices] /\ marks' \in [Tabs -> Marks]
  <2>1. DOMAIN views' = Tabs /\ DOMAIN marks' = Tabs
    BY <1>1
  <2>2. QED
    BY <1>1, <1>3
<1>5. PICK row \in 0 .. (tall[c] - 1) :
        armed' = IF ContentRow(c, row, FALSE) = {} THEN NoArm
                 ELSE [pane |-> c, of |-> front[c], line |-> PointedLine(c, row), col |-> 0,
                       id |-> PointedId(c, row), slipped |-> ~Fresh(c), stale |-> FALSE]
  BY DEF MousePress
<1>6. armed' \in Arms \cup {NoArm} /\ ArmGood(armed', views')
  <2>1. CASE ContentRow(c, row, FALSE) = {}
    BY <1>5, <2>1 DEF ArmGood
  <2>2. CASE ContentRow(c, row, FALSE) # {}
    <3>1. front[c] \in Tabs /\ tall[c] \in Nat
      BY <1>2 DEF TextTypes
    <3>2. row \in 0 .. (Len(drawn[c].window) - 1)
      BY <2>2 DEF ContentRow
    <3>3. /\ PointedLine(c, row) \in Nat /\ PointedId(c, row) \in Nat
          /\ Fresh(c) => /\ PointedLine(c, row) < Len(views[front[c]].lines)
                         /\ views[front[c]].lines[PointedLine(c, row) + 1] = PointedId(c, row)
      BY <3>2, PointedAt
    <3> DEFINE line == PointedLine(c, row)
               id == PointedId(c, row)
    <3>4. PICK slipped \in BOOLEAN : slipped = ~Fresh(c)
      OBVIOUS
    <3>5. armed' = [pane |-> c, of |-> front[c], line |-> line, col |-> 0, id |-> id,
                    slipped |-> slipped, stale |-> FALSE]
      BY <1>5, <2>2, <3>4
    <3> HIDE DEF line, id
    <3>6. armed' \in Arms
      BY <3>1, <3>3, <3>5 DEF Arms, line, id
    <3>7. armed'.of = front[c] /\ armed'.line = line /\ armed'.id = id /\ armed'.slipped = slipped
      BY <3>5
    <3>8. views'[front[c]].lines = views[front[c]].lines
      BY <1>3, <3>1
    <3>9. ~slipped => Fresh(c)
      BY <3>4
    <3>10. ~slipped => line < Len(views'[front[c]].lines) /\ views'[front[c]].lines[line + 1] = id
      BY <3>3, <3>8, <3>9 DEF line, id
    <3>11. QED
      BY <3>6, <3>7, <3>10 DEF ArmGood
  <2>3. QED
    BY <2>1, <2>2
<1>7. PushedIsChosen'
  BY <1>1, SamePushed
<1>8. /\ made' \in Nat /\ front' \in [Columns -> Tabs] /\ tall' \in [Columns -> Nat]
      /\ seeking' \in Columns \cup {""} /\ made' = made
  BY <1>1, <1>2 DEF TextTypes
<1>9. \A t \in Tabs : Known(views'[t], marks'[t], made')
  BY <1>3, <1>8
<1>10. QED
  BY <1>1, <1>4, <1>6, <1>7, <1>8, <1>9, Repainted

-----------------------------------------------------------------------------
(* The steps that leave the last paint as it is.                               *)
LEMMA ShowTabKeeps ==
  ASSUME TextInv, NEW t \in Tabs, ShowTab(t) PROVE TextInv'
<1>1. ColumnOf[t] \in Columns
  BY TextAssumption
<1>2. front' = [front EXCEPT ![ColumnOf[t]] = t]
      /\ UNCHANGED <<views, tall, drawn, armed, seeking, register, marks, made>>
  BY DEF ShowTab
<1>3. front' \in [Columns -> Tabs]
  BY <1>1, <1>2 DEF TextInv, TextTypes
<1>4. QED
  BY <1>2, <1>3 DEF TextInv, TextTypes, PushedIsChosen

LEMMA PressTakenKeeps ==
  ASSUME TextInv, PressTaken PROVE TextInv'
<1>1. /\ armed' = IF armed = NoArm THEN NoArm ELSE [armed EXCEPT !.stale = TRUE]
      /\ UNCHANGED <<views, front, tall, drawn, seeking, register, marks, made>>
  BY DEF PressTaken
<1>2. armed' \in Arms \cup {NoArm} /\ ArmGood(armed', views)
  <2>1. armed \in Arms \cup {NoArm} /\ ArmGood(armed, views)
    BY DEF TextInv, TextTypes
  <2>2. CASE armed = NoArm
    BY <1>1, <2>1, <2>2
  <2>3. CASE armed # NoArm
    <3>1. armed' \in Arms /\ armed'.of = armed.of /\ armed'.line = armed.line /\ armed'.id = armed.id
          /\ armed'.slipped = armed.slipped
      BY <1>1, <2>1, <2>3 DEF Arms
    <3>2. QED
      BY <2>1, <2>3, <3>1 DEF ArmGood
  <2>4. QED
    BY <2>2, <2>3
<1>3. QED
  BY <1>1, <1>2 DEF TextInv, TextTypes, PushedIsChosen

\* The arm when the lines of one tab are others.
LEMMA ArmSlips ==
  ASSUME TextInv, NEW t \in Tabs, NEW vs, \A k \in Tabs \ {t} : vs[k] = views[k]
  PROVE  Slipped(t) \in Arms \cup {NoArm} /\ ArmGood(Slipped(t), vs)
<1>1. armed \in Arms \cup {NoArm} /\ ArmGood(armed, views)
  BY DEF TextInv, TextTypes
<1>2. "" \notin Tabs /\ NoArm.of = ""
  BY TextAssumption DEF NoArm
<1>3. CASE armed.of = t
  <2>1. armed # NoArm
    BY <1>2, <1>3
  <2>2. Slipped(t) = [armed EXCEPT !.slipped = TRUE]
    BY <1>3 DEF Slipped
  <2>3. Slipped(t) \in Arms /\ Slipped(t).slipped
    BY <1>1, <2>1, <2>2 DEF Arms
  <2>4. QED
    BY <2>3 DEF ArmGood
<1>4. CASE armed.of # t
  <2>1. Slipped(t) = armed
    BY <1>4 DEF Slipped
  <2>2. armed # NoArm => armed.of \in Tabs \ {t}
    BY <1>1, <1>4 DEF Arms
  <2>3. armed # NoArm => vs[armed.of] = views[armed.of]
    BY <2>2
  <2>4. QED
    BY <1>1, <2>1, <2>3 DEF ArmGood
<1>5. QED
  BY <1>3, <1>4

\* A step of one tab that leaves the last paint.
LEMMA OneTabUnpainted ==
  ASSUME TextInv, NEW t \in Tabs, NEW u \in TextSlices, NEW m \in Marks,
         views' = [views EXCEPT ![t] = u], marks' = [marks EXCEPT ![t] = m],
         NEW top \in Nat, top >= made, made' = top, Known(u, m, top),
         IsSelecting(u) /\ ~m.odd =>
            /\ IsSelecting(views[t]) /\ ~marks[t].odd
            /\ u.sel.anchor.line <= views[t].sel.anchor.line
            /\ u.sel.cursor.line <= views[t].sel.cursor.line,
         armed' \in Arms \cup {NoArm}, ArmGood(armed', views'),
         UNCHANGED <<front, tall, drawn, seeking, register>>
  PROVE  TextInv'
<1>1. TextTypes /\ \A k \in Tabs : Known(views[k], marks[k], made)
  BY DEF TextInv
<1>2. views' \in [Tabs -> TextSlices] /\ marks' \in [Tabs -> Marks]
  BY <1>1 DEF TextTypes
<1>3. views'[t] = u /\ marks'[t] = m /\ \A k \in Tabs \ {t} : views'[k] = views[k] /\ marks'[k] = marks[k]
  BY <1>1 DEF TextTypes
<1>4. ASSUME NEW k \in Tabs PROVE Known(views'[k], marks'[k], made')
  <2>1. CASE k = t
    BY <1>3, <2>1
  <2>2. CASE k # t
    <3>1. Known(views[k], marks[k], made) /\ views[k].lines \in Seq(Nat) /\ made \in Nat
      BY <1>1 DEF TextTypes, TextSlices
    <3>2. DOMAIN views[k].lines = 1 .. Len(views[k].lines)
      BY <3>1, LenProperties
    <3>3. \A i \in DOMAIN views[k].lines : views[k].lines[i] \in Nat
      BY <3>1, <3>2, ElementOfSeq
    <3>4. Rising(views[k].lines, top)
      BY <3>1, <3>3 DEF Known, Rising
    <3>5. QED
      BY <1>3, <2>2, <3>1, <3>4 DEF Known
  <2>3. QED
    BY <2>1, <2>2
<1>5. ASSUME NEW k \in Tabs, IsSelecting(views'[k]), ~marks'[k].odd
      PROVE  /\ IsSelecting(views[k]) /\ ~marks[k].odd
             /\ views'[k].sel.anchor.line <= views[k].sel.anchor.line
             /\ views'[k].sel.cursor.line <= views[k].sel.cursor.line
  <2>1. CASE k = t
    BY <1>3, <1>5, <2>1
  <2>2. CASE k # t
    <3>1. views'[k] = views[k] /\ marks'[k] = marks[k] /\ views[k] \in TextSlices
      BY <1>1, <1>3, <2>2 DEF TextTypes
    <3>2. views[k].sel.anchor.line \in Nat /\ views[k].sel.cursor.line \in Nat
      BY <3>1 DEF TextSlices, Selections, Places
    <3>3. QED
      BY <1>5, <3>1, <3>2
  <2>3. QED
    BY <2>1, <2>2
<1>6. PushedIsChosen'
  BY SamePushed
<1>7. /\ made' \in Nat /\ front' \in [Columns -> Tabs] /\ tall' \in [Columns -> Nat]
      /\ seeking' \in Columns \cup {""}
  BY <1>1 DEF TextTypes
<1>8. QED
  BY <1>2, <1>4, <1>5, <1>6, <1>7, Unpainted

LEMMA ReseededKeeps ==
  ASSUME TextInv, NEW t \in Tabs, Reseeded(t) PROVE TextInv'
<1> DEFINE u == [lines |-> <<made + 1>>, scroll |-> 0, sel |-> NoSelection, search |-> NoSearch]
<1>1. /\ views' = [views EXCEPT ![t] = u] /\ marks' = [marks EXCEPT ![t] = NoMarks]
      /\ made' = made + 1 /\ armed' = Slipped(t)
      /\ UNCHANGED <<front, tall, drawn, seeking, register>>
  BY DEF Reseeded
<1>2. made \in Nat /\ views \in [Tabs -> TextSlices]
  BY DEF TextInv, TextTypes
<1>3. <<made + 1>> \in Seq(Nat) /\ Len(<<made + 1>>) = 1 /\ <<made + 1>>[1] = made + 1
  BY <1>2
<1>4. u \in TextSlices /\ NoMarks \in Marks /\ ~IsSelecting(u)
  BY <1>3 DEF TextSlices, Selections, Searches, Places, At, NoSelection, NoSearch, NoMarks, Marks, IsSelecting
<1>5. Rising(u.lines, made + 1)
  <2>1. DOMAIN <<made + 1>> = {1}
    BY <1>3
  <2>2. QED
    BY <1>2, <1>3, <2>1 DEF Rising
<1>6. Known(u, NoMarks, made + 1)
  BY <1>4, <1>5 DEF Known, EndsKnown
<1> HIDE DEF u
<1>7. \A k \in Tabs \ {t} : views'[k] = views[k]
  BY <1>1, <1>2
<1>8. armed' \in Arms \cup {NoArm} /\ ArmGood(armed', views')
  BY <1>1, <1>7, ArmSlips
<1>9. made + 1 \in Nat /\ made + 1 >= made
  BY <1>2
<1>10. QED
  BY <1>1, <1>4, <1>6, <1>8, <1>9, OneTabUnpainted

LEMMA ReplacedKeeps ==
  ASSUME TextInv, NEW t \in Tabs, Replaced(t) PROVE TextInv'
<1>1. PICK n \in 0 .. 1 :
        /\ made' = made + n
        /\ views' = [views EXCEPT ![t].lines = [i \in 1 .. n |-> made + i], ![t].scroll = 0]
  BY DEF Replaced
<1> DEFINE lines == [i \in 1 .. n |-> made + i]
           u == [views[t] EXCEPT !.lines = lines, !.scroll = 0]
           m == [marks[t] EXCEPT !.odd = IsSelecting(views[t])]
<1>2. /\ marks' = [marks EXCEPT ![t] = m] /\ armed' = Slipped(t)
      /\ UNCHANGED <<front, tall, drawn, seeking, register>>
  BY DEF Replaced
<1>3. /\ made \in Nat /\ views \in [Tabs -> TextSlices] /\ views[t] \in TextSlices
      /\ marks[t] \in Marks /\ n \in Nat
  <2>1. TextTypes /\ n \in Nat
    BY <1>1 DEF TextInv
  <2>2. QED
    BY <2>1 DEF TextTypes
<1>4. views' = [views EXCEPT ![t] = u]
  BY <1>1, <1>3
<1>5. lines \in Seq(Nat) /\ DOMAIN lines = 1 .. n /\ \A i \in 1 .. n : lines[i] = made + i
  <2>1. \A i \in 1 .. n : made + i \in Nat
    BY <1>3
  <2>2. QED
    BY <1>3, <2>1, IsASeq
<1>6. Rising(lines, made + n)
  BY <1>1, <1>3, <1>5 DEF Rising
<1> HIDE DEF lines
<1>7. u \in TextSlices /\ u.lines = lines /\ u.sel = views[t].sel
  BY <1>3, <1>5 DEF TextSlices
<1>8. m \in Marks /\ m.odd = IsSelecting(views[t])
  BY <1>3 DEF Marks, IsSelecting
<1>9. IsSelecting(u) = IsSelecting(views[t])
  BY <1>7 DEF IsSelecting
<1> HIDE DEF u, m
<1>10. ~(IsSelecting(u) /\ ~m.odd)
  BY <1>8, <1>9
<1>11. Known(u, m, made + n)
  BY <1>6, <1>7, <1>10 DEF Known, EndsKnown
<1>12. \A k \in Tabs \ {t} : views'[k] = views[k]
  BY <1>3, <1>4
<1>13. armed' \in Arms \cup {NoArm} /\ ArmGood(armed', views')
  BY <1>2, <1>12, ArmSlips
<1>14. made + n \in Nat /\ made + n >= made /\ made' = made + n
  BY <1>1, <1>3
<1>15. QED
  BY <1>2, <1>4, <1>7, <1>8, <1>10, <1>11, <1>13, <1>14, OneTabUnpainted

LEMMA SelectCancelAllKeeps ==
  ASSUME TextInv, SelectCancelAll PROVE TextInv'
<1>1. /\ views' = [t \in Tabs |-> Deselected(views[t])] /\ marks' = [t \in Tabs |-> NoMarks]
      /\ UNCHANGED <<front, tall, drawn, armed, seeking, register, made>>
  BY DEF SelectCancelAll
<1>2. ASSUME NEW t \in Tabs
      PROVE  /\ views'[t] \in TextSlices /\ ~IsSelecting(views'[t]) /\ views'[t].lines = views[t].lines
             /\ Known(views'[t], marks'[t], made')
  <2>1. views[t] \in TextSlices /\ Known(views[t], marks[t], made)
    BY DEF TextInv, TextTypes
  <2>2. /\ Deselected(views[t]) \in TextSlices /\ Deselected(views[t]).lines = views[t].lines
        /\ ~IsSelecting(Deselected(views[t]))
    BY <2>1, DeselectedOff
  <2>3. QED
    BY <1>1, <2>1, <2>2 DEF Known, EndsKnown
<1>3. views' \in [Tabs -> TextSlices]
  <2>1. DOMAIN views' = Tabs
    BY <1>1
  <2>2. QED
    BY <1>1, <1>2
<1>4. marks' \in [Tabs -> Marks]
  BY <1>1 DEF NoMarks, Marks
<1>5. ArmGood(armed, views')
  BY <1>2, ArmKept
<1>6. ArmGood(armed', views')
  BY <1>1, <1>5
<1>7. PushedIsChosen'
  BY <1>1, SamePushed
<1>8. /\ made' \in Nat /\ front' \in [Columns -> Tabs] /\ tall' \in [Columns -> Nat]
      /\ seeking' \in Columns \cup {""} /\ armed' \in Arms \cup {NoArm} /\ drawn' = drawn
  BY <1>1 DEF TextInv, TextTypes
<1>9. QED
  BY <1>2, <1>3, <1>4, <1>6, <1>7, <1>8, Unpainted

LEMMA PrintedKeeps ==
  ASSUME TextInv, NEW t \in Tabs, Printed(t) PROVE TextInv'
<1> DEFINE s == views[t]
           h == tall[ColumnOf[t]]
<1>1. PICK n \in 1 .. 2 :
        LET u == AppendLines(s, [i \in 1 .. n |-> made + i], h)
            kept == {u.lines[i] : i \in 1 .. Len(u.lines)}
        IN  /\ made' = made + n
            /\ views' = [views EXCEPT ![t] = u]
            /\ armed' = IF IsPrefix(s.lines, u.lines) THEN armed ELSE Slipped(t)
            /\ marks' = [marks EXCEPT ![t].odd = @ \/ (IsSelecting(u) /\ marks[t].from \notin kept
                                                                      /\ marks[t].to \notin kept)]
  BY DEF Printed
<1> DEFINE u == AppendLines(s, [i \in 1 .. n |-> made + i], h)
           kept == {u.lines[i] : i \in 1 .. Len(u.lines)}
           odd == marks[t].odd \/ (IsSelecting(u) /\ marks[t].from \notin kept /\ marks[t].to \notin kept)
           m == [marks[t] EXCEPT !.odd = odd]
<1>2. UNCHANGED <<front, tall, drawn, seeking, register>>
  BY DEF Printed
<1>3. TextTypes /\ Known(s, marks[t], made) /\ s \in TextSlices /\ marks[t] \in Marks
  BY DEF TextInv, TextTypes
<1>4. made \in Nat /\ h \in Nat /\ n \in Nat
  <2>1. ColumnOf[t] \in Columns
    BY TextAssumption
  <2>2. tall \in [Columns -> Nat] /\ made \in Nat
    BY <1>3 DEF TextTypes
  <2>3. tall[ColumnOf[t]] \in Nat
    BY <2>1, <2>2
  <2>4. QED
    BY <2>2, <2>3
<1>5. /\ made' = made + n /\ views' = [views EXCEPT ![t] = u]
      /\ armed' = IF IsPrefix(s.lines, u.lines) THEN armed ELSE Slipped(t)
      /\ marks' = [marks EXCEPT ![t] = m]
  BY <1>1
<1> HIDE DEF s, h
<1>6. Rising(s.lines, made) /\ EndsKnown(s, marks[t])
  BY <1>3 DEF Known
<1>7. /\ u \in TextSlices /\ Rising(u.lines, made + n) /\ u.lines # <<>>
      /\ u.sel.kind = s.sel.kind
      /\ IsSelecting(s) =>
           /\ u.sel.anchor.line <= s.sel.anchor.line /\ u.sel.cursor.line <= s.sel.cursor.line
           /\ \A id \in Nat :
                /\ OnLine(s.lines, s.sel.anchor.line, id) => OnLine(u.lines, u.sel.anchor.line, id)
                /\ OnLine(s.lines, s.sel.cursor.line, id) => OnLine(u.lines, u.sel.cursor.line, id)
  BY <1>3, <1>4, <1>6, AppendLinesKeeps
<1> HIDE DEF u
<1>8. IsSelecting(u) = IsSelecting(s)
  BY <1>7 DEF IsSelecting
<1>9. odd \in BOOLEAN /\ (IsSelecting(u) /\ ~odd => ~marks[t].odd /\ (marks[t].from \in kept \/ marks[t].to \in kept))
  <2>1. odd \in BOOLEAN
    OBVIOUS
  <2>2. IsSelecting(u) /\ ~odd => ~marks[t].odd /\ (marks[t].from \in kept \/ marks[t].to \in kept)
    OBVIOUS
  <2> HIDE DEF odd, kept
  <2>3. QED
    BY <2>1, <2>2
<1>10. \A id \in kept : id >= u.lines[1]
  <2> DEFINE lines == u.lines
  <2>1. lines \in Seq(Nat) /\ Rising(lines, made + n)
    BY <1>7 DEF TextSlices
  <2> HIDE DEF lines
  <2>2. Len(lines) \in Nat /\ DOMAIN lines = 1 .. Len(lines) /\ \A i \in 1 .. Len(lines) : lines[i] \in Nat
    BY <2>1, LenProperties, ElementOfSeq
  <2>3. ASSUME NEW i \in 1 .. Len(lines) PROVE lines[i] >= lines[1]
    <3>1. 1 \in 1 .. Len(lines) /\ (i = 1 \/ 1 < i)
      BY <2>2
    <3>2. 1 < i => lines[1] < lines[i]
      BY <2>1, <2>2, <3>1 DEF Rising
    <3>3. QED
      BY <2>2, <3>1, <3>2
  <2>4. QED
    BY <2>3 DEF lines
<1> HIDE DEF kept, odd
<1>11. m \in Marks /\ m.from = marks[t].from /\ m.to = marks[t].to /\ m.odd = odd
  BY <1>3, <1>9 DEF Marks
<1> HIDE DEF m
<1>12. EndsKnown(u, m)
  <2> SUFFICES ASSUME IsSelecting(u), ~m.odd
               PROVE  /\ OnLine(u.lines, u.sel.anchor.line, m.from) /\ OnLine(u.lines, u.sel.cursor.line, m.to)
                      /\ m.from >= u.lines[1] \/ m.to >= u.lines[1]
    BY DEF EndsKnown
  <2>1. IsSelecting(s) /\ ~marks[t].odd /\ (m.from \in kept \/ m.to \in kept)
    BY <1>8, <1>9, <1>11
  <2>2. OnLine(s.lines, s.sel.anchor.line, m.from) /\ OnLine(s.lines, s.sel.cursor.line, m.to)
    BY <1>6, <1>11, <2>1 DEF EndsKnown
  <2>3. m.from \in Nat /\ m.to \in Nat
    BY <1>11 DEF Marks
  <2>4. QED
    BY <1>7, <1>10, <2>1, <2>2, <2>3
<1>13. Known(u, m, made + n)
  BY <1>7, <1>12 DEF Known
<1>14. armed' \in Arms \cup {NoArm} /\ ArmGood(armed', views')
  <2>1. views'[t] = u /\ \A k \in Tabs \ {t} : views'[k] = views[k]
    BY <1>3, <1>5 DEF TextTypes
  <2>2. CASE IsPrefix(s.lines, u.lines)
    <3>1. armed' = armed /\ armed \in Arms \cup {NoArm} /\ ArmGood(armed, views)
      BY <1>5, <2>2 DEF TextInv, TextTypes
    <3>2. ASSUME armed # NoArm, ~armed.slipped
          PROVE  armed.line < Len(views'[armed.of].lines) /\ views'[armed.of].lines[armed.line + 1] = armed.id
      <4>1. /\ armed.of \in Tabs /\ armed.line \in Nat
            /\ armed.line < Len(views[armed.of].lines) /\ views[armed.of].lines[armed.line + 1] = armed.id
        BY <3>1, <3>2 DEF Arms, ArmGood
      <4>2. CASE armed.of = t
        <5>1. s.lines \in Seq(Nat) /\ u.lines \in Seq(Nat)
          BY <1>3, <1>7 DEF TextSlices
        <5>2. Len(s.lines) <= Len(u.lines) /\ \A i \in 1 .. Len(s.lines) : s.lines[i] = u.lines[i]
          BY <2>2, <5>1, PrefixReads
        <5>3. Len(s.lines) \in Nat /\ Len(u.lines) \in Nat
          BY <5>1, LenProperties
        <5> DEFINE line == armed.line
        <5>4. line \in Nat /\ line < Len(s.lines) /\ s.lines[line + 1] = armed.id
          BY <4>1, <4>2 DEF s
        <5> HIDE DEF line
        <5>5. line + 1 \in 1 .. Len(s.lines) /\ line < Len(u.lines)
          BY <5>2, <5>3, <5>4
        <5>6. u.lines[line + 1] = armed.id
          BY <5>2, <5>4, <5>5
        <5>7. QED
          BY <2>1, <4>2, <5>5, <5>6 DEF line
      <4>3. CASE armed.of # t
        <5>1. views'[armed.of] = views[armed.of]
          BY <2>1, <4>1, <4>3
        <5>2. QED
          BY <4>1, <5>1
      <4>4. QED
        BY <4>2, <4>3
    <3>3. QED
      BY <3>1, <3>2 DEF ArmGood
  <2>3. CASE ~IsPrefix(s.lines, u.lines)
    BY <1>5, <2>1, <2>3, ArmSlips
  <2>4. QED
    BY <2>2, <2>3
<1>15. made + n \in Nat /\ made + n >= made
  BY <1>4
<1>16. IsSelecting(u) /\ ~m.odd =>
          /\ IsSelecting(s) /\ ~marks[t].odd
          /\ u.sel.anchor.line <= s.sel.anchor.line /\ u.sel.cursor.line <= s.sel.cursor.line
  BY <1>7, <1>8, <1>9, <1>11
<1>17. QED
  BY <1>2, <1>5, <1>7, <1>11, <1>13, <1>14, <1>15, <1>16, OneTabUnpainted DEF s

-----------------------------------------------------------------------------
(* The invariant holds from the start, and always.                             *)
LEMMA TextInvInit == TextInit => TextInv
<1> SUFFICES ASSUME TextInit PROVE TextInv
  OBVIOUS
<1>1. /\ ColumnOf \in [Tabs -> Columns] /\ \A c \in Columns : \E t \in Tabs : ColumnOf[t] = c
      /\ Seeds \in [Tabs -> Seq(Nat)]
      /\ \A t \in Tabs : \A i, j \in DOMAIN Seeds[t] : i < j => Seeds[t][i] < Seeds[t][j]
  BY TextAssumption
<1>2. Tall \subseteq Nat /\ \E h \in Tall : \A g \in Tall : g <= h
  BY TextAssumption
<1> DEFINE size == Cardinality(SeedLines)
<1>3. size \in Nat /\ SeedLines = 1 .. size
  BY TextAssumption, FS_CardinalityType
<1> HIDE DEF size
<1>4. ASSUME NEW t \in Tabs
      PROVE  /\ views[t] \in TextSlices /\ ~IsSelecting(views[t]) /\ Rising(views[t].lines, size)
  <2>1. views[t] = [lines |-> Seeds[t], scroll |-> 0, sel |-> NoSelection, search |-> NoSearch]
    BY DEF TextInit
  <2>2. Seeds[t] \in Seq(Nat)
    BY <1>1
  <2>3. views[t] \in TextSlices /\ ~IsSelecting(views[t]) /\ views[t].lines = Seeds[t]
    BY <2>1, <2>2 DEF TextSlices, Selections, Searches, Places, At, NoSelection, NoSearch, IsSelecting
  <2>4. \A i \in DOMAIN Seeds[t] : Seeds[t][i] \in SeedLines
    BY DEF SeedLines, Range
  <2>5. \A i \in DOMAIN Seeds[t] : Seeds[t][i] <= size
    BY <1>3, <2>4
  <2>6. Rising(Seeds[t], size)
    BY <1>1, <2>5 DEF Rising
  <2>7. QED
    BY <2>3, <2>6
<1>5. views \in [Tabs -> TextSlices]
  <2>1. views = [t \in Tabs |-> [lines |-> Seeds[t], scroll |-> 0, sel |-> NoSelection, search |-> NoSearch]]
    BY DEF TextInit
  <2>2. DOMAIN views = Tabs /\ views = [t \in Tabs |-> views[t]]
    BY <2>1
  <2>3. QED
    BY <1>4, <2>2
<1>6. marks = [t \in Tabs |-> NoMarks] /\ marks \in [Tabs -> Marks] /\ made = size
  BY DEF TextInit, NoMarks, Marks, size
<1>7. \A t \in Tabs : Known(views[t], marks[t], made)
  BY <1>4, <1>6 DEF Known, EndsKnown
<1>8. front \in [Columns -> Tabs]
  <2>1. \A c \in Columns : (CHOOSE t \in Tabs : ColumnOf[t] = c) \in Tabs
    BY <1>1
  <2>2. front = [c \in Columns |-> CHOOSE t \in Tabs : ColumnOf[t] = c]
    BY DEF TextInit
  <2>3. QED
    BY <2>1, <2>2
<1>9. tall \in [Columns -> Nat]
  <2>1. (CHOOSE h \in Tall : \A g \in Tall : g <= h) \in Nat
    BY <1>2
  <2>2. tall = [c \in Columns |-> CHOOSE h \in Tall : \A g \in Tall : g <= h]
    BY DEF TextInit
  <2>3. QED
    BY <2>1, <2>2
<1>10. drawn \in [Columns -> Paints] /\ \A c \in Columns : PaintGood(drawn[c], views, marks)
  <2>1. drawn = Capture(views, front, tall)
    BY DEF TextInit
  <2>2. QED
    BY <1>5, <1>6, <1>7, <1>8, <1>9, <2>1, CaptureGood
<1>11. seeking \in Columns \cup {""} /\ armed = NoArm /\ PushedIsChosen /\ made \in Nat
  BY <1>3, <1>6 DEF TextInit, PushedIsChosen
<1>12. QED
  BY <1>5, <1>6, <1>7, <1>8, <1>9, <1>10, <1>11 DEF TextInv, TextTypes, ArmGood

LEMMA TextInvNext == TextInv /\ [TextNext]_textVars => TextInv'
<1> SUFFICES ASSUME TextInv, [TextNext]_textVars PROVE TextInv'
  OBVIOUS
<1>1. CASE UNCHANGED textVars
  BY <1>1, StillKept DEF textVars
<1>2. ASSUME NEW t \in Tabs, Printed(t) \/ Reseeded(t) \/ Replaced(t) \/ ShowTab(t) PROVE TextInv'
  BY <1>2, PrintedKeeps, ReseededKeeps, ReplacedKeeps, ShowTabKeeps
<1>3. ASSUME NEW c \in Columns,
             \/ Heightened(c) \/ MousePress(c) \/ CopySelection(c) \/ Scroll(c) \/ KeySlash(c) \/ KeyMatch(c)
             \/ KeyVisual(c, "char") \/ KeyVisual(c, "line") \/ KeyYank(c) \/ KeyEscape(c) \/ KeyMove(c)
      PROVE  TextInv'
  <2>1. "char" \in {"char", "line"} /\ "line" \in {"char", "line"}
    OBVIOUS
  <2>2. QED
    BY <1>3, <2>1, HeightenedKeeps, MousePressKeeps, CopySelectionKeeps, ScrollKeeps, KeySlashKeeps, KeyMatchKeeps,
       KeyVisualKeeps, KeyYankKeeps, KeyEscapeKeeps, KeyMoveKeeps
<1>4. CASE Veiled
  BY <1>4, StillKept DEF Veiled
<1>5. CASE Frame \/ SelectCancelAll \/ PressTaken \/ Motion \/ Release \/ SearchKey
  BY <1>5, FrameKeeps, SelectCancelAllKeeps, PressTakenKeeps, MotionKeeps, ReleaseKeeps, SearchKeyKeeps
<1>6. QED
  BY <1>1, <1>2, <1>3, <1>4, <1>5 DEF TextNext

(* For any tabs, panes and heights, and whatever arrives, falls off, scrolls,  *)
(* is resized or is shown meanwhile: what a drag, a yank or the menu copies is *)
(* the lines the user put the two ends of the selection on and those between   *)
(* them, as far as they are still held.                                        *)
THEOREM PushesAlwaysChosen == TextSpec => []PushedIsChosen
<1>1. TextInv => PushedIsChosen
  BY DEF TextInv
<1>2. QED
  BY <1>1, TextInvInit, TextInvNext, PTL DEF TextSpec

=============================================================================
