------------------------------- MODULE Replay -------------------------------
(***************************************************************************)
(* Recording and replay of a session: the log that every Msg and every     *)
(* terminal change enters (js/io/session-log.js, record-control.js), the   *)
(* folds over it (js/dispatch/runtime/replay.js) and the scrubber that     *)
(* moves over a loaded log (replay-control.js, leaves/replay/timeline.js). *)
(*                                                                         *)
(* The scrubber works in the live stores themselves: the state it shows,   *)
(* the scratch folds of its reverse play and of its searches, and what the *)
(* program still dispatches while it is open all write one place.          *)
(*                                                                         *)
(* A model is the list of the Msgs that changed it.  The clock of playback *)
(* is abstracted: a tick moves to any position in its direction.           *)
(*                                                                         *)
(* A definition named X_Suffix is a faulty variant of X; see Streams.      *)
(***************************************************************************)
EXTENDS Integers, Sequences, FiniteSets, FiniteSetsExt

CONSTANTS Terms,         \* ids of terminal sessions
          FromBoot,      \* the log begins at boot, with no checkpoint
          Cadence,       \* entries between two automatic checkpoints
          ReverseBases,  \* snapshots of a reverse ladder
          ScanCap,       \* entries a search looks at
          MaxLog,        \* bound on the entries recorded
          MaxStray,      \* bound on the dispatches and terminal changes not recorded
          MaxKeys        \* bound on the loads and the keys of the scrubber

ASSUME ReplayAssumption ==
  /\ FromBoot \in BOOLEAN
  /\ {Cadence, ReverseBases, ScanCap} \subseteq Nat \ {0}
  /\ {MaxLog, MaxStray, MaxKeys} \subseteq Nat

Changing == {"change"}                  \* Msgs whose reducer returns a new state
AllMsgs  == Changing \cup {"idle"}
NoScreen == -1

VARIABLES
  store,     \* the live stores: [model, screens, ptys]
  rec,       \* the recorder: [on, since (entries since the last checkpoint)]
  buf,       \* _buf, which is also what the streamed file holds
  was,       \* history: was[i] is the recorded program's [model, screens] after entry i
  scrub,     \* S, the scrubber
  life,      \* history: the live program's own [model, screens]
  stray,     \* dispatches and terminal changes that were not recorded
  keys       \* loads and keys of the scrubber

replayVars == <<store, rec, buf, was, scrub, life, stray, keys>>

Shut == [open |-> FALSE, log |-> <<>>, idx |-> 0, due |-> FALSE, playing |-> "no",
         panel |-> FALSE, diffAt |-> 0, ladder |-> {},
         live |-> [model |-> <<>>, screens |-> <<>>]]

ReplayTypeOK ==
  /\ store.model \in Seq(Changing)
  /\ store.screens \in [Terms -> Int] /\ store.ptys \subseteq Terms
  /\ rec.on \in BOOLEAN /\ rec.since \in Nat
  /\ Len(was) = Len(buf)
  /\ scrub.playing \in {"no", "fwd", "rev"}
  /\ scrub.open => scrub.idx \in 1..Len(scrub.log)

ReplayInit ==
  /\ store = [model |-> <<>>, screens |-> [x \in Terms |-> NoScreen], ptys |-> {}]
  /\ rec = [on |-> FromBoot, since |-> 0]
  /\ buf = <<>> /\ was = <<>>
  /\ scrub = Shut
  /\ life = [model |-> store.model, screens |-> store.screens]
  /\ stray = 0 /\ keys = 0

-----------------------------------------------------------------------------
(* The folds.                                                              *)

Reduce(model, m) == IF m \in Changing THEN Append(model, m) ELSE model

\* A spawn of a session that exists returns it.
ApplyEntry(st, e) ==
  CASE e.kind = "msg" -> [st EXCEPT !.model = Reduce(@, e.m)]
    [] e.kind = "spawn" -> [st EXCEPT !.screens[e.id] = IF @ = NoScreen THEN 0 ELSE @]
    [] e.kind = "out" -> [st EXCEPT !.screens[e.id] = IF @ = NoScreen THEN @ ELSE @ + 1]

Msgs == {"msg"}
TermEvents == {"spawn", "out"}
Lanes == Msgs \cup TermEvents

\* The entries (i, j] of some lanes, one after the other, on a state.
Fold(log, lanes, st, i, j) ==
  LET f[k \in 0..Len(log)] ==
        IF k <= i THEN st
        ELSE IF log[k].kind \in lanes THEN ApplyEntry(f[k - 1], log[k]) ELSE f[k - 1]
  IN  f[j]

\* On the state as it is; and the model alone.
Advance(log, st, i, j) == Fold(log, Lanes, st, i, j)
FoldMsgs(log, st, i, j) == Fold(log, Msgs, st, i, j)

Checkpoints(log) == {i \in DOMAIN log : log[i].kind = "checkpoint"}

\* The last checkpoint at or before t, 0 for none.
LastCheckpoint(log, t) == Max({0} \cup {i \in Checkpoints(log) : i <= t})

\* Grids are put back over the sessions of their ids, which lose their processes.
RestoreGrids(st, grids) ==
  LET held == {x \in Terms : grids[x] # NoScreen} IN
  [st EXCEPT !.screens = [x \in Terms |-> IF x \in held THEN grids[x] ELSE @[x]],
             !.ptys = @ \ held]

RestoreCheckpoint(st, cp) == [RestoreGrids(st, cp.screens) EXCEPT !.model = cp.model]

\* Seek: the checkpoint, and the entries after it.
ReplayTo(log, st, t) ==
  LET cp == LastCheckpoint(log, t)
  IN  Advance(log, IF cp = 0 THEN st ELSE RestoreCheckpoint(st, log[cp]), cp, t)

\* Reverse: the model from a base of the ladder, the terminals from the
\* checkpoint; without one the sessions spawned so far start again.
ReverseTo(log, st, t, base) ==
  LET cp == LastCheckpoint(log, t)
      spawned == {log[i].id : i \in {j \in 1..t : log[j].kind = "spawn"}}
      anchored == IF cp # 0 THEN RestoreGrids(st, log[cp].screens)
                  ELSE [st EXCEPT !.screens = [x \in Terms |->
                                     IF x \in spawned THEN NoScreen ELSE @[x]],
                                  !.ptys = @ \ spawned]
      fed == Fold(log, TermEvents, anchored, cp, t)
  IN  FoldMsgs(log, [fed EXCEPT !.model = base.model], base.idx, t)

-----------------------------------------------------------------------------
(* The scrubber's moves, on the stores st and the session s.               *)

\* The interval between two checkpoints that holds t.
Lo(log, t) == Max({1} \cup {i \in Checkpoints(log) : i <= t})
Hi(log, t) == Min({Len(log)} \cup {i - 1 : i \in {j \in Checkpoints(log) : j > t}})

\* The ladder of an interval: the model at its start and at even steps.
Ladder(log, st, t) ==
  LET lo == Lo(log, t)
      hi == Hi(log, t)
      step == Max({1, (hi - lo + ReverseBases - 1) \div ReverseBases})
      start == ReplayTo(log, st, lo)
      rungs == {Min({hi, lo + k * step}) : k \in 0..ReverseBases}
  IN  {[idx |-> i, hi |-> hi, model |-> FoldMsgs(log, start, lo, i).model] : i \in rungs}

Covers(ladder, t) == \E b \in ladder : b.idx <= t /\ t <= b.hi

\* The last rung at or below t.
Base_Nearest(ladder, t) ==
  CHOOSE b \in ladder : \A c \in ladder : c.idx <= b.idx

Base(ladder, t) ==
  CHOOSE b \in ladder : b.idx <= t /\ \A c \in ladder : c.idx <= t => c.idx <= b.idx

LadderFor(s, st, t) == IF Covers(s.ladder, t) THEN s.ladder ELSE Ladder(s.log, st, t)

\* The stores a built ladder leaves behind.
AfterLadder(s, st, t) ==
  IF Covers(s.ladder, t) THEN st
  ELSE LET lo == Lo(s.log, t) IN FoldMsgs(s.log, ReplayTo(s.log, st, lo), lo, Hi(s.log, t))

\* The panel's diff folds the entry before aside, then restores the frame.
NeedsDiff(s, idx) == s.panel /\ s.diffAt # idx
Recomputed(s, st, idx) ==
  IF ~NeedsDiff(s, idx) \/ idx = 1 THEN st
  ELSE LET lo == Lo(s.log, idx)
           low == ReplayTo(s.log, st, lo)
       IN  ReplayTo(s.log, FoldMsgs(s.log, low, lo, Max({lo, idx - 1})), idx)

ShowAt(s, st, idx) ==
  /\ store' = Recomputed(s, st, idx)
  /\ scrub' = [s EXCEPT !.idx = idx, !.diffAt = IF s.panel THEN idx ELSE @]

ClampIdx(s, t) == Max({1, Min({Len(s.log), t})})

\* _moveTo: forward on the state as it is, backward from the checkpoint.
MoveTo(s, st, to) ==
  LET t == ClampIdx(s, to) IN
  IF t = s.idx THEN store' = st /\ scrub' = s
  ELSE ShowAt(s, IF t > s.idx THEN Advance(s.log, st, s.idx, t) ELSE ReplayTo(s.log, st, t),
             t)

-----------------------------------------------------------------------------
(* The search for the next Msg that changed the model.                     *)

\* Forward: one rolling fold from the frame shown.
NextChange(log, st, start) ==
  LET end == Min({Len(log), start + ScanCap})
      at == ReplayTo(log, st, start)
      ModelAt(i) == Advance(log, at, start, i).model
      hits == {i \in start + 1..end : log[i].kind \in Msgs /\ ModelAt(i) # ModelAt(i - 1)}
  IN  [st |-> Advance(log, at, start, IF hits = {} THEN end ELSE Min(hits)),
       to |-> IF hits = {} THEN start ELSE Min(hits)]

\* Backward: each Msg before the frame is folded with and without its effect.
Probe(log, acc, i) ==
  IF acc.to # 0 \/ log[i].kind \notin Msgs THEN acc
  ELSE IF i = 1 THEN [acc EXCEPT !.to = 1]
  ELSE LET lo == Lo(log, i)
           after == ReplayTo(log, acc.st, i)
           before == FoldMsgs(log, ReplayTo(log, after, lo), lo, Max({lo, i - 1}))
       IN  [st |-> before, to |-> IF after.model # before.model THEN i ELSE 0]

PrevChange(log, st, start) ==
  LET n == Min({start - 1, ScanCap})
      f[k \in 0..n] == IF k = 0 THEN [st |-> st, to |-> 0] ELSE Probe(log, f[k - 1], start - k)
  IN  [f[n] EXCEPT !.to = IF @ = 0 THEN start ELSE @]

-----------------------------------------------------------------------------
(* The program and its recorder.                                           *)

\* Entries enter the log in the order of the loop; st is the state they leave.
Recorded(es, st) ==
  /\ buf' = buf \o es
  /\ was' = was \o [k \in 1..Len(es) |-> [model |-> st.model, screens |-> st.screens]]

Snapshot(st) == [kind |-> "checkpoint", model |-> st.model, screens |-> st.screens]

\* A Msg goes through the loop; the dispatch of one of a Component ends in the
\* finalizer, which writes the checkpoint that is due.
Dispatch(m, lane) ==
  LET st == [store EXCEPT !.model = Reduce(@, m)]
      due == lane = "comp" /\ rec.since + 1 >= Cadence
      entry == [kind |-> "msg", m |-> m]
  IN /\ IF rec.on THEN Len(buf) < MaxLog ELSE stray < MaxStray
     /\ store' = st
     /\ life' = IF scrub.open THEN life ELSE [life EXCEPT !.model = Reduce(@, m)]
     /\ stray' = IF rec.on THEN stray ELSE stray + 1
     /\ rec' = [rec EXCEPT !.since = IF ~rec.on THEN @ ELSE IF due THEN 0 ELSE @ + 1]
     /\ IF rec.on
        THEN Recorded(<<entry>> \o IF due THEN <<Snapshot(st)>> ELSE <<>>, st)
        ELSE UNCHANGED <<buf, was>>
     /\ UNCHANGED <<scrub, keys>>

\* A terminal change: the finalizer opens a session, its process writes, a
\* session is destroyed (which is not recorded).
Terminal(id, ev) ==
  LET st == CASE ev = "spawn" -> [store EXCEPT !.screens[id] = 0, !.ptys = @ \cup {id}]
              [] ev = "out" -> [store EXCEPT !.screens[id] = @ + 1]
              [] ev = "kill" -> [store EXCEPT !.screens[id] = NoScreen, !.ptys = @ \ {id}]
  IN /\ IF rec.on /\ ev # "kill" THEN Len(buf) < MaxLog ELSE stray < MaxStray
     /\ scrub.open => ev = "out"
     /\ CASE ev = "spawn" -> store.screens[id] = NoScreen
          [] ev = "out" -> id \in store.ptys
          [] ev = "kill" -> store.screens[id] # NoScreen
     /\ store' = st
     /\ life' = IF scrub.open THEN life ELSE [life EXCEPT !.screens = st.screens]
     /\ stray' = IF rec.on /\ ev # "kill" THEN stray ELSE stray + 1
     /\ IF rec.on /\ ev # "kill"
        THEN /\ Recorded(<<[kind |-> ev, id |-> id]>>, st)
             /\ rec' = [rec EXCEPT !.since = @ + 1]
        ELSE UNCHANGED <<buf, was, rec>>
     /\ UNCHANGED <<scrub, keys>>

\* record-save: the whole state first, then the file is seeded with all of _buf.
RecordSave ==
  /\ ~rec.on /\ ~scrub.open /\ Len(buf) < MaxLog
  /\ rec' = [on |-> TRUE, since |-> 0]
  /\ Recorded(<<Snapshot(store)>>, store)
  /\ UNCHANGED <<store, scrub, life, stray, keys>>

RecordStop ==
  /\ rec.on
  /\ rec' = [rec EXCEPT !.on = FALSE]
  /\ UNCHANGED <<store, buf, was, scrub, life, stray, keys>>

\* record-load: the log, whose last line may be torn, becomes _buf; the live
\* session is put aside and the end of the log shown.
Enter(n) ==
  /\ ~scrub.open /\ keys < MaxKeys /\ keys' = keys + 1
  /\ n \in {Len(buf) - 1, Len(buf)} \ {0, -1}
  /\ buf' = SubSeq(buf, 1, n) /\ was' = SubSeq(was, 1, n)
  /\ rec' = [rec EXCEPT !.on = FALSE]
  /\ scrub' = [Shut EXCEPT !.open = TRUE, !.log = buf', !.idx = n, !.due = TRUE,
                           !.live = [model |-> store.model, screens |-> store.screens]]
  /\ UNCHANGED <<store, life, stray>>

\* The first reconstruction, off the dispatch that loaded the log.
Reconstruct ==
  /\ scrub.open /\ scrub.due
  /\ store' = ReplayTo(scrub.log, store, scrub.idx)
  /\ scrub' = [scrub EXCEPT !.due = FALSE]
  /\ UNCHANGED <<rec, buf, was, life, stray, keys>>

\* The live stores come back; sessions the replay opened go.
RestoreLive(st, live) == [model |-> live.model, screens |-> live.screens, ptys |-> {}]

Exit ==
  /\ scrub.open
  /\ store' = RestoreLive(store, scrub.live)
  /\ scrub' = Shut
  /\ UNCHANGED <<rec, buf, was, life, stray, keys>>

-----------------------------------------------------------------------------
(* The keys of the scrubber.                                               *)

Paused(s) == [s EXCEPT !.playing = "no"]

Key ==
  /\ scrub.open /\ keys < MaxKeys /\ keys' = keys + 1
  /\ UNCHANGED <<rec, buf, was, life, stray>>

\* The checkpoint list: one up or down from the one at or before the frame.
SeekToCheckpoint(d) ==
  LET cps == Checkpoints(scrub.log)
      here == Max({Min(cps)} \cup {i \in cps : i <= scrub.idx})
      up == {i \in cps : i < here}
      down == {i \in cps : i > here}
      to == IF d < 0 THEN Max({Min(cps)} \cup up) ELSE Min({Max(cps)} \cup down)
  IN /\ Key /\ cps # {}
     /\ MoveTo(scrub, store, to)

StepSeq(d) == Key /\ MoveTo(Paused(scrub), store, scrub.idx + d)

\* An end of the log, or the place clicked on the bar.
SeekTo(t) == Key /\ MoveTo(scrub, store, t)

SeekToNextChange(d) ==
  LET found == IF d > 0 THEN NextChange(scrub.log, store, scrub.idx)
                        ELSE PrevChange(scrub.log, store, scrub.idx)
  IN /\ Key
     /\ MoveTo(Paused(scrub), ReplayTo(scrub.log, found.st, scrub.idx), found.to)

ToggleDiffPanel ==
  LET on == [scrub EXCEPT !.panel = TRUE] IN
  /\ Key
  /\ IF scrub.panel
     THEN scrub' = [scrub EXCEPT !.panel = FALSE, !.diffAt = 0] /\ UNCHANGED store
     ELSE ShowAt(on, store, scrub.idx)

\* The same direction again pauses; forward lets the ladder go.
Play(dir) ==
  /\ Key
  /\ scrub' = [scrub EXCEPT !.playing = IF @ = dir THEN "no" ELSE dir,
                            !.ladder = IF dir = "fwd" /\ scrub.playing # dir
                                       THEN {} ELSE @]
  /\ UNCHANGED store

\* A tick of the playing clock, to t; it halts at the ends of the log.
Tick(t) ==
  LET s == scrub
      fwd == s.playing = "fwd"
      halts == IF fwd THEN t = Len(s.log) ELSE t = 1
      after == IF halts THEN Paused(s) ELSE s
      ladder == LadderFor(s, store, t)
      frame == IF t = s.idx THEN store
               ELSE IF fwd THEN Advance(s.log, store, s.idx, t)
               ELSE ReverseTo(s.log, AfterLadder(s, store, t), t, Base(ladder, t))
  IN /\ s.open /\ s.playing # "no"
     /\ t \in IF fwd THEN s.idx..Len(s.log) ELSE 1..s.idx
     /\ t # s.idx \/ halts
     /\ IF t = s.idx THEN store' = store /\ scrub' = after
        ELSE ShowAt([after EXCEPT !.ladder = IF fwd THEN @ ELSE ladder], frame, t)
     /\ UNCHANGED <<rec, buf, was, life, stray, keys>>

ReplayNext ==
  \/ \E m \in AllMsgs, lane \in {"root", "comp"} : Dispatch(m, lane)
  \/ \E id \in Terms, ev \in {"spawn", "out", "kill"} : Terminal(id, ev)
  \/ RecordSave \/ RecordStop
  \/ \E n \in 1..Len(buf) : Enter(n)
  \/ Reconstruct \/ Exit
  \/ \E d \in {-1, 1} : SeekToCheckpoint(d) \/ StepSeq(d) \/ SeekToNextChange(d)
  \/ \E t \in DOMAIN scrub.log : SeekTo(t) \/ Tick(t)
  \/ ToggleDiffPanel
  \/ \E dir \in {"fwd", "rev"} : Play(dir)

ReplaySpec == ReplayInit /\ [][ReplayNext]_replayVars

-----------------------------------------------------------------------------
(* Properties.                                                             *)

\* A stretch of the log that one recording wrote without a pause.
Unbroken(log, i, j) ==
  \A k \in i + 1..j : log[k].kind = "checkpoint" => was[k].model = was[k - 1].model

\* Whatever was shown before, a move backward, by a key or by reverse play,
\* shows the model the recorded program had there; a move forward does so
\* from an exact frame, and a search or the panel never loses the frame.
SeekExact ==
  [][scrub.open /\ scrub'.open /\ ~scrub'.due /\ was' = was =>
       LET i == scrub.idx
           j == scrub'.idx
       IN  \/ j < i /\ store'.model = was[j].model
           \/ /\ j >= i
              /\ (store.model = was[i].model /\ Unbroken(scrub.log, i, j))
                   => store'.model = was[j].model
           \/ stray' # stray]_replayVars

\* A search lands on a Msg that changed the recorded model, the nearest one it
\* was allowed to look at, and stays where it is when there is none.
SkipLands ==
  [][\A d \in {-1, 1} : SeekToNextChange(d) =>
       LET i == scrub.idx
           j == scrub'.idx
           Changes(k) == scrub.log[k].kind \in Msgs /\ (k = 1 \/ was[k].model # was[k - 1].model)
           between == IF d > 0 THEN i + 1..j - 1 ELSE j + 1..i - 1
           reach == IF d > 0 THEN i + 1..Min({Len(scrub.log), i + ScanCap})
                             ELSE Max({1, i - ScanCap})..i - 1
       IN  IF j = i THEN \A k \in reach : ~Changes(k)
                    ELSE Changes(j) /\ \A k \in between : ~Changes(k)]_replayVars

\* However the scrubber was used, and however often, the program goes on from
\* its own last state: only what was dispatched under the scrubber is lost.
LiveComesBack ==
  ~scrub.open => store.model = life.model /\ store.screens = life.screens

\* What replay promises: exact frames while it is on, nothing of them after.
ReplayExact == SeekExact /\ []LiveComesBack

\* The terminals come back as they were recorded, as the model does.  Not so: a
\* session spawned after the checkpoint is still there when a seek goes back to
\* before its spawn, and is fed its output again.
ScreensShowRecord ==
  [][scrub.open /\ scrub'.open /\ scrub'.idx < scrub.idx /\ stray = 0 =>
       store'.screens = was[scrub'.idx].screens]_replayVars
=============================================================================
