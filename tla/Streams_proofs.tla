--------------------------- MODULE Streams_proofs ---------------------------
(***************************************************************************)
(* Proofs about modules Streams and ActionRuns, for every set of labels,   *)
(* slots and ports and every bound on the jobs.  IInv is the inductive     *)
(* invariant of the streams: the safety properties, and what they need to  *)
(* be preserved.  Its lemmas are stated of any step of the streams, so     *)
(* that they serve ActionRuns, too: a step of the action runner is a step  *)
(* of the streams, and RunsInv adds to IInv what the runner remembers      *)
(* about them between its callbacks.                                       *)
(***************************************************************************)
EXTENDS ActionRuns, SequenceTheorems, TLAPS

\* A job that still listens to a process that may write is live.
ListenersLive ==
  \A j \in 1..seq:
    job[j].listening /\ job[j].os \in {"alive", "exited"} => j \in procs

\* The view of a live job's slot starts with that job's header.
HeadIsLive == \A j \in procs: display[job[j].slot].head = j

\* A live producer is not older than the output published for its slot.
PublishedIsOlder ==
  \A j \in procs: job[j].slot \in Producers => fabricOut[job[j].slot] <= j

IInv ==
  /\ TypeOK
  /\ SlotOwnership
  /\ StoresAgree
  /\ NoStrayProcess
  /\ ViewBelongsToRun
  /\ ListenersLive
  /\ HeadIsLive
  /\ PublishedIsOlder

-----------------------------------------------------------------------------
\* What killing a set of jobs does to the fields of each job (killJob).
LEMMA KillFields ==
  ASSUME TypeOK, NEW K \in SUBSET (1..seq), NEW j \in 1..seq
  PROVE  /\ JobsAfterKill(K) \in [1..seq -> JobRec]
         /\ JobsAfterKill(K)[j].slot = job[j].slot
         /\ JobsAfterKill(K)[j].label = job[j].label
         /\ JobsAfterKill(K)[j].os = job[j].os
         /\ j \notin K \cap procs => JobsAfterKill(K)[j] = job[j]
         /\ j \in K \cap procs =>
              /\ JobsAfterKill(K)[j].status = CloseAs(job[j], "killed")
              /\ JobsAfterKill(K)[j].record = EndRecord(job[j], "killed")
              /\ JobsAfterKill(K)[j].termed = TRUE
              /\ JobsAfterKill(K)[j].listening = FALSE
<1>2. DOMAIN job = 1..seq /\ \A i \in 1..seq: job[i] \in JobRec
  BY DEF TypeOK
<1>1. \A i \in 1..seq: KilledRec(job[i]) \in JobRec
  <2>1. ASSUME NEW r \in JobRec PROVE KilledRec(r) \in JobRec
    <3>1. /\ CloseAs(r, "killed") \in {"running", "exited", "killed", "cleared"}
          /\ EndRecord(r, "killed") \in {"open", "ended", "killed"}
      BY DEF JobRec, CloseAs, EndRecord
    <3>2. QED
      BY <3>1 DEF KilledRec, JobRec
  <2>2. QED
    BY <1>2, <2>1
<1>3. JobsAfterKill(K) \in [1..seq -> JobRec]
  BY <1>1, <1>2 DEF JobsAfterKill
<1>4. JobsAfterKill(K)[j] = IF j \in K \cap procs THEN KilledRec(job[j]) ELSE job[j]
  BY <1>2 DEF JobsAfterKill
<1>5. QED
  BY <1>2, <1>3, <1>4 DEF KilledRec, JobRec

\* Killing a set of jobs keeps the slots of the others and frees its own.
LEMMA KillSlots ==
  ASSUME TypeOK, SlotOwnership, NEW K \in SUBSET (1..seq)
  PROVE  /\ SlotsAfterKill(K) \in [Slot -> 0..seq]
         /\ \A j \in procs \ K: SlotsAfterKill(K)[job[j].slot] = j
         /\ \A s \in Slot: SlotsAfterKill(K)[s] # NoJob =>
              /\ SlotsAfterKill(K)[s] = slotIndex[s]
              /\ SlotsAfterKill(K)[s] \in procs \ K
              /\ job[SlotsAfterKill(K)[s]].slot = s
  BY DEF TypeOK, SlotOwnership, SlotsAfterKill, JobRec, NoJob

-----------------------------------------------------------------------------
\* The initial state satisfies the invariant.
LEMMA InitIInv == Init => IInv
<1> SUFFICES ASSUME Init PROVE IInv
  OBVIOUS
<1>1. 1..seq = {} /\ procs = {} /\ seq = 0
  BY DEF Init
<1>2. TypeOK
  <2>1. seq \in 0..MaxJobs
    BY StreamsAssumption DEF Init
  <2>2. job \in [1..seq -> JobRec]
    BY <1>1 DEF Init
  <2>3. slotIndex \in [Slot -> 0..seq]
    BY <1>1 DEF Init, NoJob
  <2>4. display \in [Slot -> [head: 0..seq, since: SUBSET (1..seq)]]
    <3>1. [head |-> NoJob, since |-> {}] \in [head: 0..seq, since: SUBSET (1..seq)]
      BY <1>1 DEF NoJob
    <3>2. display = [s \in Slot |-> [head |-> NoJob, since |-> {}]]
      BY DEF Init
    <3>3. QED
      BY <3>1, <3>2
  <2>5. fabricOut \in [Producers -> 0..seq]
    BY <1>1 DEF Init, NoJob
  <2>6. procs \subseteq 1..seq /\ down \in BOOLEAN
    BY DEF Init
  <2>7. QED
    BY <2>1, <2>2, <2>3, <2>4, <2>5, <2>6 DEF TypeOK
<1>3. SlotOwnership
  BY <1>1 DEF Init, SlotOwnership, NoJob
<1>4. ViewBelongsToRun
  BY DEF Init, ViewBelongsToRun
<1>5. QED
  BY <1>1, <1>2, <1>3, <1>4
  DEF IInv, StoresAgree, NoStrayProcess, ListenersLive, HeadIsLive, PublishedIsOlder

-----------------------------------------------------------------------------
\* A step that kills the jobs in K and does whatever is sound to the views
\* keeps the invariant: the cancel, the quit, and a run whose spawn throws.
LEMMA KillStep ==
  ASSUME IInv, NEW K \in SUBSET (1..seq),
         seq' = seq, job' = JobsAfterKill(K), slotIndex' = SlotsAfterKill(K),
         procs' = procs \ K, fabricOut' = fabricOut, down' \in BOOLEAN,
         display' \in [Slot -> [head: 0..seq, since: SUBSET (1..seq)]],
         \A s \in Slot: display'[s].since \subseteq {display'[s].head},
         \A j \in procs \ K: display'[job[j].slot].head = j
  PROVE  IInv'
<1> USE DEF IInv
<1>1. JobsAfterKill(K) \in [1..seq -> JobRec]
  <2>1. CASE 1..seq = {}
    BY <2>1 DEF JobsAfterKill, TypeOK
  <2>2. CASE 1..seq # {}
    BY <2>2, KillFields
  <2>3. QED
    BY <2>1, <2>2
<1>2. TypeOK'
  <2>1. SlotsAfterKill(K) \in [Slot -> 0..seq]
    BY KillSlots
  <2>2. QED
    BY <1>1, <2>1 DEF TypeOK
<1>3. \A j \in 1..seq: job'[j].slot = job[j].slot /\ job'[j].os = job[j].os
  BY KillFields
<1>4. \A j \in 1..seq: j \notin K \cap procs => job'[j] = job[j]
  BY KillFields
<1>5. \A j \in K \cap procs: /\ job'[j].status = CloseAs(job[j], "killed")
                             /\ job'[j].record = EndRecord(job[j], "killed")
                             /\ job'[j].termed = TRUE
                             /\ job'[j].listening = FALSE
  BY KillFields
<1>6. procs \subseteq 1..seq /\ procs' \subseteq 1..seq
  BY DEF TypeOK
<1>7. SlotOwnership'
  <2>1. \A j \in procs': slotIndex'[job'[j].slot] = j
    BY <1>3, <1>6, KillSlots
  <2>2. ASSUME NEW s \in Slot, slotIndex'[s] # NoJob
        PROVE  slotIndex'[s] \in procs' /\ job'[slotIndex'[s]].slot = s
    <3>1. slotIndex'[s] \in procs \ K /\ job[slotIndex'[s]].slot = s
      BY <2>2, KillSlots
    <3>2. QED
      BY <3>1, <1>3, <1>6
  <2>3. QED
    BY <2>1, <2>2 DEF SlotOwnership
<1>8. StoresAgree'
  <2> SUFFICES ASSUME NEW j \in 1..seq
               PROVE  /\ j \in procs' <=> job'[j].status = "running"
                      /\ j \in procs' <=> job'[j].record = "open"
    BY DEF StoresAgree
  <2>1. CASE j \in K \cap procs
    BY <2>1, <1>5 DEF CloseAs, EndRecord, StoresAgree
  <2>2. CASE j \notin K \cap procs
    BY <2>2, <1>4 DEF StoresAgree
  <2>3. QED
    BY <2>1, <2>2
<1>9. NoStrayProcess' /\ ListenersLive'
  BY <1>3, <1>4, <1>5 DEF NoStrayProcess, ListenersLive
<1>10. ViewBelongsToRun' /\ HeadIsLive' /\ PublishedIsOlder'
  BY <1>3, <1>6 DEF ViewBelongsToRun, HeadIsLive, PublishedIsOlder
<1>11. QED
  BY <1>2, <1>7, <1>8, <1>9, <1>10

\* A step that kills the jobs in K, the owner of the new run's slot among them,
\* and registers the run keeps the invariant.
LEMMA StartStep ==
  ASSUME IInv, NEW K \in SUBSET (1..seq), NEW l \in Labels,
         NEW spawned \in {"alive", "failed"}, seq + 1 \in 0..MaxJobs,
         slotIndex[SlotOf(l)] # NoJob => slotIndex[SlotOf(l)] \in K,
         seq' = seq + 1,
         job' = [j \in 1..(seq + 1) |-> IF j = seq + 1 THEN NewJob(l, spawned)
                                        ELSE JobsAfterKill(K)[j]],
         procs' = (procs \ K) \cup {seq + 1},
         slotIndex' = [SlotsAfterKill(K) EXCEPT ![SlotOf(l)] = seq + 1],
         display' = [display EXCEPT ![SlotOf(l)] = [head |-> seq + 1, since |-> {}]],
         fabricOut' = fabricOut, down' = down
  PROVE  IInv'
<1> DEFINE id == seq + 1
<1> USE DEF IInv
<1>1. seq \in Nat /\ id \notin 1..seq /\ 1..id = (1..seq) \cup {id} /\ id # NoJob
  BY DEF TypeOK, NoJob
<1>2. SlotOf(l) \in Slot
  BY DEF SlotOf, Slot
<1>3. NewJob(l, spawned) \in JobRec
  BY <1>2 DEF NewJob, JobRec
<1>4. \A j \in 1..seq:
        /\ job'[j] \in JobRec
        /\ job'[j].slot = job[j].slot /\ job'[j].os = job[j].os
        /\ j \notin K \cap procs => job'[j] = job[j]
        /\ j \in K \cap procs =>
              /\ job'[j].status = CloseAs(job[j], "killed")
              /\ job'[j].record = EndRecord(job[j], "killed")
              /\ job'[j].termed = TRUE
              /\ job'[j].listening = FALSE
  <2> SUFFICES ASSUME NEW j \in 1..seq
               PROVE  /\ job'[j] \in JobRec
                      /\ job'[j].slot = job[j].slot /\ job'[j].os = job[j].os
                      /\ j \notin K \cap procs => job'[j] = job[j]
                      /\ j \in K \cap procs =>
                           /\ job'[j].status = CloseAs(job[j], "killed")
                           /\ job'[j].record = EndRecord(job[j], "killed")
                           /\ job'[j].termed = TRUE
                           /\ job'[j].listening = FALSE
    OBVIOUS
  <2>1. job'[j] = JobsAfterKill(K)[j]
    BY <1>1
  <2>2. /\ JobsAfterKill(K)[j] \in JobRec
        /\ JobsAfterKill(K)[j].slot = job[j].slot
        /\ JobsAfterKill(K)[j].os = job[j].os
        /\ j \notin K \cap procs => JobsAfterKill(K)[j] = job[j]
    BY KillFields
  <2>3. j \in K \cap procs =>
          /\ JobsAfterKill(K)[j].status = CloseAs(job[j], "killed")
          /\ JobsAfterKill(K)[j].record = EndRecord(job[j], "killed")
          /\ JobsAfterKill(K)[j].termed = TRUE
          /\ JobsAfterKill(K)[j].listening = FALSE
    BY KillFields
  <2>4. QED
    BY <2>1, <2>2, <2>3
<1>5. job'[id] = NewJob(l, spawned)
  BY <1>1
<1>6. procs \subseteq 1..seq /\ SlotsAfterKill(K) \in [Slot -> 0..seq]
  BY KillSlots DEF TypeOK
<1>7. TypeOK'
  <2>1. job' \in [1..seq' -> JobRec]
    BY <1>1, <1>3, <1>4, <1>5
  <2>2. slotIndex' \in [Slot -> 0..seq']
    BY <1>1, <1>2, <1>6
  <2>3. display' \in [Slot -> [head: 0..seq', since: SUBSET (1..seq')]]
    <3>1. [head |-> id, since |-> {}] \in [head: 0..id, since: SUBSET (1..id)]
      BY <1>1
    <3>2. [head: 0..seq, since: SUBSET (1..seq)]
             \subseteq [head: 0..id, since: SUBSET (1..id)]
      BY <1>1
    <3>3. display \in [Slot -> [head: 0..id, since: SUBSET (1..id)]]
      BY <3>2 DEF TypeOK
    <3>4. QED
      BY <3>1, <3>3, <1>2
  <2>4. fabricOut' \in [Producers -> 0..seq']
    BY <1>1 DEF TypeOK
  <2>5. QED
    BY <2>1, <2>2, <2>3, <2>4, <1>1, <1>6 DEF TypeOK
<1>8. \A j \in procs \ K: job[j].slot # SlotOf(l)
  BY DEF SlotOwnership, TypeOK, NoJob
<1>9. \A j \in 1..seq: job[j].slot \in Slot
  BY DEF TypeOK, JobRec
<1>10. job'[id].slot = SlotOf(l)
  BY <1>5 DEF NewJob
<1>a. \A j \in procs \ K: /\ j \in 1..seq
                          /\ job'[j].slot = job[j].slot
                          /\ job[j].slot \in Slot \ {SlotOf(l)}
  BY <1>4, <1>6, <1>8, <1>9
<1>b. \A s \in Slot \ {SlotOf(l)}: /\ display'[s] = display[s]
                                   /\ slotIndex'[s] = SlotsAfterKill(K)[s]
  BY <1>6 DEF TypeOK
<1>11. SlotOwnership'
  <2>1. ASSUME NEW j \in procs' PROVE slotIndex'[job'[j].slot] = j
    <3>1. CASE j = id
      BY <3>1, <1>2, <1>6, <1>10
    <3>2. CASE j \in procs \ K
      <4>1. slotIndex'[job'[j].slot] = SlotsAfterKill(K)[job[j].slot]
        BY <3>2, <1>a, <1>b
      <4>2. SlotsAfterKill(K)[job[j].slot] = j
        BY <3>2, KillSlots
      <4>3. QED
        BY <4>1, <4>2
    <3>3. QED
      BY <3>1, <3>2
  <2>2. ASSUME NEW s \in Slot, slotIndex'[s] # NoJob
        PROVE  slotIndex'[s] \in procs' /\ job'[slotIndex'[s]].slot = s
    <3>1. CASE s = SlotOf(l)
      BY <3>1, <1>6, <1>10
    <3>2. CASE s # SlotOf(l)
      <4>1. slotIndex'[s] = SlotsAfterKill(K)[s]
        BY <3>2, <1>6
      <4>2. slotIndex'[s] \in procs \ K /\ job[slotIndex'[s]].slot = s
        BY <2>2, <4>1, KillSlots
      <4>3. QED
        BY <4>2, <1>4, <1>6
    <3>3. QED
      BY <3>1, <3>2
  <2>3. QED
    BY <2>1, <2>2 DEF SlotOwnership
<1>12. ASSUME NEW j \in 1..seq'
       PROVE  /\ j \in procs' <=> job'[j].status = "running"
              /\ j \in procs' <=> job'[j].record = "open"
              /\ job'[j].os = "alive" /\ j \notin procs' => job'[j].termed
              /\ job'[j].listening /\ job'[j].os \in {"alive", "exited"} => j \in procs'
  <2>1. CASE j = id
    BY <2>1, <1>5 DEF NewJob
  <2>2. CASE j \in K \cap procs
    <3>1. /\ j \in 1..seq /\ j # id
          /\ job[j].status = "running" /\ job[j].record = "open"
      BY <2>2, <1>1, <1>6 DEF StoresAgree
    <3>2. j \notin procs'
      BY <2>2, <3>1, <1>1
    <3>3. /\ job'[j].status = "killed" /\ job'[j].record = "killed"
          /\ job'[j].termed = TRUE /\ job'[j].listening = FALSE
      BY <2>2, <3>1, <1>4 DEF CloseAs, EndRecord
    <3>4. QED
      BY <3>2, <3>3
  <2>3. CASE j \in 1..seq /\ j \notin K \cap procs
    <3>1. job'[j] = job[j] /\ j # id
      BY <2>3, <1>1, <1>4
    <3>2. j \in procs' <=> j \in procs
      BY <2>3, <3>1, <1>1
    <3>3. QED
      BY <2>3, <3>1, <3>2 DEF StoresAgree, NoStrayProcess, ListenersLive
  <2>4. QED
    BY <2>1, <2>2, <2>3, <1>1
<1>13. StoresAgree' /\ NoStrayProcess' /\ ListenersLive'
  BY <1>12 DEF StoresAgree, NoStrayProcess, ListenersLive
<1>14. ViewBelongsToRun'
  BY <1>2 DEF ViewBelongsToRun, TypeOK
<1>15. HeadIsLive'
  <2> SUFFICES ASSUME NEW j \in procs' PROVE display'[job'[j].slot].head = j
    BY DEF HeadIsLive
  <2>1. CASE j = id
    BY <2>1, <1>2, <1>10 DEF TypeOK
  <2>2. CASE j \in procs \ K
    <3>1. display'[job'[j].slot] = display[job[j].slot]
      BY <2>2, <1>a, <1>b
    <3>2. QED
      BY <2>2, <3>1 DEF HeadIsLive
  <2>3. QED
    BY <2>1, <2>2
<1>16. PublishedIsOlder'
  <2> SUFFICES ASSUME NEW j \in procs', job'[j].slot \in Producers
               PROVE  fabricOut[job'[j].slot] <= j
    BY DEF PublishedIsOlder
  <2>1. CASE j = id
    <3>1. fabricOut[job'[j].slot] \in 0..seq
      BY DEF TypeOK
    <3>2. QED
      BY <3>1, <2>1, <1>1
  <2>2. CASE j \in procs \ K
    BY <2>2, <1>4, <1>6 DEF PublishedIsOlder
  <2>3. QED
    BY <2>1, <2>2
<1>17. QED
  BY <1>7, <1>11, <1>13, <1>14, <1>15, <1>16

-----------------------------------------------------------------------------
\* Before it is registered as a job, a run kills the owner of its slot: the jobs
\* it kills exist, and its slot has no other owner (streamCommand's preempt).
LEMMA PreemptsOwner ==
  ASSUME IInv, NEW K \in SUBSET (1..seq), NEW l \in Labels
  PROVE  /\ Preempted(K, l) \in SUBSET (1..seq)
         /\ slotIndex[SlotOf(l)] # NoJob => slotIndex[SlotOf(l)] \in Preempted(K, l)
         /\ SlotOf(l) \in Slot
<1>1. SlotOf(l) \in Slot
  BY DEF SlotOf, Slot
<1>2. SlotsAfterKill(K)[SlotOf(l)] \in {slotIndex[SlotOf(l)], NoJob}
  BY <1>1 DEF SlotsAfterKill
<1>3. slotIndex[SlotOf(l)] \in 0..seq /\ seq \in Nat
  BY <1>1 DEF IInv, TypeOK
<1>4. SlotsAfterKill(K)[SlotOf(l)] = NoJob /\ slotIndex[SlotOf(l)] # NoJob
        => slotIndex[SlotOf(l)] \in K
  BY <1>1 DEF SlotsAfterKill
<1>5. Preempted(K, l) = K \cup ({SlotsAfterKill(K)[SlotOf(l)]} \ {NoJob})
  BY DEF Preempted, Occupant
<1>6. SlotsAfterKill(K)[SlotOf(l)] # NoJob => SlotsAfterKill(K)[SlotOf(l)] \in 1..seq
  BY <1>2, <1>3 DEF NoJob
<1>7. Preempted(K, l) \in SUBSET (1..seq)
  BY <1>5, <1>6
<1>8. slotIndex[SlotOf(l)] # NoJob => slotIndex[SlotOf(l)] \in Preempted(K, l)
  BY <1>2, <1>4, <1>5
<1>9. QED
  BY <1>1, <1>7, <1>8

\* A run that starts, and one whose spawn throws, keep the invariant.
LEMMA RunStep ==
  ASSUME IInv, NEW K \in SUBSET (1..seq), NEW l \in Labels, seq < MaxJobs,
         Start(K, l) \/ StartThrows(K, l)
  PROVE  IInv'
<1>1. /\ Preempted(K, l) \in SUBSET (1..seq)
      /\ slotIndex[SlotOf(l)] # NoJob => slotIndex[SlotOf(l)] \in Preempted(K, l)
      /\ SlotOf(l) \in Slot
  BY PreemptsOwner
<1>2. seq \in Nat /\ down \in BOOLEAN
  BY DEF IInv, TypeOK
<1>3. CASE Start(K, l)
  <2>1. seq + 1 \in 0..MaxJobs
    BY <1>2, StreamsAssumption
  <2>2. PICK spawned \in {"alive", "failed"}:
          /\ seq' = seq + 1
          /\ job' = [j \in 1..(seq + 1) |->
                       IF j = seq + 1 THEN NewJob(l, spawned)
                       ELSE JobsAfterKill(Preempted(K, l))[j]]
          /\ procs' = (procs \ Preempted(K, l)) \cup {seq + 1}
          /\ slotIndex' = [SlotsAfterKill(Preempted(K, l))
                             EXCEPT ![SlotOf(l)] = seq + 1]
          /\ display' = [display EXCEPT
                           ![SlotOf(l)] = [head |-> seq + 1, since |-> {}]]
          /\ fabricOut' = fabricOut /\ down' = down
    BY <1>3 DEF Start
  <2>3. QED
    BY <1>1, <2>1, <2>2, StartStep
<1>4. CASE StartThrows(K, l)
  <2> DEFINE P == Preempted(K, l)
             blank == [head |-> NoJob, since |-> {}]
  <2>1. display' = [display EXCEPT ![SlotOf(l)] = blank]
    BY <1>4 DEF StartThrows
  <2>2. /\ seq' = seq /\ job' = JobsAfterKill(P) /\ slotIndex' = SlotsAfterKill(P)
        /\ procs' = procs \ P /\ fabricOut' = fabricOut /\ down' \in BOOLEAN
    BY <1>2, <1>4 DEF StartThrows
  <2>3. display' \in [Slot -> [head: 0..seq, since: SUBSET (1..seq)]]
    <3>1. blank \in [head: 0..seq, since: SUBSET (1..seq)]
      BY <1>2 DEF NoJob
    <3>2. display \in [Slot -> [head: 0..seq, since: SUBSET (1..seq)]]
      BY DEF IInv, TypeOK
    <3>3. QED
      BY <2>1, <3>1, <3>2
  <2>4. \A s \in Slot: display'[s].since \subseteq {display'[s].head}
    BY <2>1, <1>1 DEF IInv, TypeOK, ViewBelongsToRun
  <2>5. \A j \in procs \ P: display'[job[j].slot].head = j
    <3>1. \A j \in procs \ P: job[j].slot \in Slot \ {SlotOf(l)}
      BY <1>1 DEF IInv, SlotOwnership, TypeOK, JobRec, NoJob
    <3>2. \A s \in Slot \ {SlotOf(l)}: display'[s] = display[s]
      BY <2>1 DEF IInv, TypeOK
    <3>3. QED
      BY <3>1, <3>2 DEF IInv, HeadIsLive
  <2> HIDE DEF P, blank
  <2>6. P \in SUBSET (1..seq)
    BY <1>1 DEF P
  <2>7. QED
    BY <2>2, <2>3, <2>4, <2>5, <2>6, KillStep
<1>5. QED
  BY <1>3, <1>4

-----------------------------------------------------------------------------
\* A job of procs that finishes, by "close" or "error", keeps the invariant.
LEMMA FinishStep ==
  ASSUME IInv, NEW j \in procs, NEW status \in {"exited", "killed"},
         NEW os \in {"gone", "closing"}, Finish(j, status, os)
  PROVE  IInv'
<1> DEFINE s0 == job[j].slot
           rec == [job[j] EXCEPT !.os = os, !.status = CloseAs(job[j], status),
                                 !.record = EndRecord(job[j], "ended")]
<1>1. j \in 1..seq /\ seq \in Nat /\ job[j] \in JobRec /\ s0 \in Slot
  BY DEF IInv, TypeOK, JobRec
<1>2. slotIndex[s0] = j /\ display[s0].head = j
  BY DEF IInv, SlotOwnership, HeadIsLive
<1>3. /\ seq' = seq /\ down' = down
      /\ job' = [job EXCEPT ![j] = rec]
      /\ procs' = procs \ {j}
      /\ slotIndex' = [slotIndex EXCEPT ![s0] = NoJob]
      /\ display' = [display EXCEPT ![s0].since = @ \cup {j}]
      /\ fabricOut' = IF s0 \in Producers THEN [fabricOut EXCEPT ![s0] = j]
                      ELSE fabricOut
  BY <1>2 DEF Finish, Wrote
<1>4. rec \in JobRec /\ rec.slot = s0 /\ rec.os = os /\ rec.listening = job[j].listening
      /\ rec.status # "running" /\ rec.record # "open"
  BY <1>1 DEF JobRec, CloseAs, EndRecord
<1> HIDE DEF rec
<1>5. job'[j] = rec /\ \A i \in (1..seq) \ {j}: job'[i] = job[i]
  BY <1>1, <1>3 DEF IInv, TypeOK
<1>6. TypeOK'
  <2>1. job' \in [1..seq' -> JobRec]
    BY <1>3, <1>4 DEF IInv, TypeOK
  <2>2. slotIndex' \in [Slot -> 0..seq']
    BY <1>1, <1>3 DEF IInv, TypeOK, NoJob
  <2>3. display' \in [Slot -> [head: 0..seq', since: SUBSET (1..seq')]]
    BY <1>1, <1>3 DEF IInv, TypeOK
  <2>4. fabricOut' \in [Producers -> 0..seq']
    BY <1>1, <1>3 DEF IInv, TypeOK
  <2>5. QED
    BY <1>3, <2>1, <2>2, <2>3, <2>4 DEF IInv, TypeOK
<1>7. \A i \in procs': i \in (1..seq) \ {j} /\ job'[i] = job[i] /\ job[i].slot \in Slot \ {s0}
  BY <1>2, <1>3, <1>5 DEF IInv, TypeOK, SlotOwnership, JobRec
<1>8. \A s \in Slot \ {s0}: slotIndex'[s] = slotIndex[s] /\ display'[s] = display[s]
  BY <1>3 DEF IInv, TypeOK
<1>9. slotIndex'[s0] = NoJob
  BY <1>1, <1>3 DEF IInv, TypeOK
<1>10. SlotOwnership'
  <2>1. \A i \in procs': slotIndex'[job'[i].slot] = i
    BY <1>3, <1>7, <1>8 DEF IInv, SlotOwnership
  <2>2. ASSUME NEW s \in Slot, slotIndex'[s] # NoJob
        PROVE  slotIndex'[s] \in procs' /\ job'[slotIndex'[s]].slot = s
    <3>1. s # s0 /\ slotIndex'[s] = slotIndex[s]
      BY <2>2, <1>8, <1>9
    <3>2. slotIndex[s] \in procs /\ job[slotIndex[s]].slot = s
      BY <2>2, <3>1 DEF IInv, SlotOwnership
    <3>3. slotIndex[s] # j
      BY <3>1, <3>2
    <3>4. QED
      BY <1>3, <1>7, <3>1, <3>2, <3>3
  <2>3. QED
    BY <2>1, <2>2 DEF SlotOwnership
<1>11. StoresAgree' /\ NoStrayProcess' /\ ListenersLive'
  <2> SUFFICES ASSUME NEW i \in 1..seq
               PROVE  /\ i \in procs' <=> job'[i].status = "running"
                      /\ i \in procs' <=> job'[i].record = "open"
                      /\ job'[i].os = "alive" /\ i \notin procs' => job'[i].termed
                      /\ job'[i].listening /\ job'[i].os \in {"alive", "exited"}
                           => i \in procs'
    BY <1>3 DEF StoresAgree, NoStrayProcess, ListenersLive
  <2>1. CASE i = j
    BY <2>1, <1>3, <1>4, <1>5
  <2>2. CASE i # j
    BY <2>2, <1>3, <1>5 DEF IInv, StoresAgree, NoStrayProcess, ListenersLive
  <2>3. QED
    BY <2>1, <2>2
<1>12. ViewBelongsToRun'
  <2>1. display'[s0].since \subseteq {display'[s0].head}
    BY <1>1, <1>2, <1>3 DEF IInv, TypeOK, ViewBelongsToRun
  <2>2. QED
    BY <2>1, <1>8 DEF IInv, ViewBelongsToRun
<1>13. HeadIsLive'
  BY <1>3, <1>7, <1>8 DEF IInv, HeadIsLive
<1>14. PublishedIsOlder'
  BY <1>3, <1>7 DEF IInv, PublishedIsOlder, TypeOK
<1>15. QED
  BY <1>6, <1>10, <1>11, <1>12, <1>13, <1>14 DEF IInv

\* The process of a job moves on, and nothing else changes.
LEMMA OsStep ==
  ASSUME IInv, NEW j \in 1..seq, NEW os \in {"exited", "closing", "gone"},
         os = "exited" => job[j].os = "alive",
         job' = [job EXCEPT ![j].os = os],
         UNCHANGED <<seq, procs, slotIndex, display, fabricOut, down>>
  PROVE  IInv'
<1>1. \A i \in 1..seq: job[i] \in JobRec /\ DOMAIN job = 1..seq
  BY DEF IInv, TypeOK
<1>2. /\ job' \in [1..seq -> JobRec]
      /\ \A i \in 1..seq: /\ job'[i].slot = job[i].slot
                          /\ job'[i].status = job[i].status
                          /\ job'[i].record = job[i].record
                          /\ job'[i].termed = job[i].termed
                          /\ job'[i].listening = job[i].listening
                          /\ job'[i].os = IF i = j THEN os ELSE job[i].os
  BY <1>1 DEF IInv, TypeOK, JobRec
<1>3. TypeOK'
  BY <1>2 DEF IInv, TypeOK
<1>4. SlotOwnership' /\ HeadIsLive' /\ PublishedIsOlder'
  BY <1>2 DEF IInv, TypeOK, SlotOwnership, HeadIsLive, PublishedIsOlder
<1>5. StoresAgree' /\ NoStrayProcess' /\ ListenersLive' /\ ViewBelongsToRun'
  BY <1>2 DEF IInv, StoresAgree, NoStrayProcess, ListenersLive, ViewBelongsToRun
<1>6. QED
  BY <1>3, <1>4, <1>5 DEF IInv

\* The pipes of a job end, and nothing else changes.
LEMMA PipesStep ==
  ASSUME IInv, NEW j \in 1..seq, PipesEnd(j)
  PROVE  IInv'
<1>1. \A i \in 1..seq: job[i] \in JobRec /\ DOMAIN job = 1..seq
  BY DEF IInv, TypeOK
<1>2. /\ job' = [job EXCEPT ![j].piped = FALSE]
      /\ UNCHANGED <<seq, procs, slotIndex, display, fabricOut, down>>
  BY DEF PipesEnd
<1>3. /\ job' \in [1..seq -> JobRec]
      /\ \A i \in 1..seq: /\ job'[i].slot = job[i].slot
                          /\ job'[i].status = job[i].status
                          /\ job'[i].record = job[i].record
                          /\ job'[i].termed = job[i].termed
                          /\ job'[i].listening = job[i].listening
                          /\ job'[i].os = job[i].os
  BY <1>1, <1>2 DEF IInv, TypeOK, JobRec
<1>4. TypeOK'
  BY <1>2, <1>3 DEF IInv, TypeOK
<1>5. SlotOwnership' /\ HeadIsLive' /\ PublishedIsOlder'
  BY <1>2, <1>3 DEF IInv, TypeOK, SlotOwnership, HeadIsLive, PublishedIsOlder
<1>6. StoresAgree' /\ NoStrayProcess' /\ ListenersLive' /\ ViewBelongsToRun'
  BY <1>2, <1>3 DEF IInv, StoresAgree, NoStrayProcess, ListenersLive, ViewBelongsToRun
<1>7. QED
  BY <1>4, <1>5, <1>6 DEF IInv

\* What a job's slot shows after the job wrote to it, while the job is live.
LEMMA WroteLive ==
  ASSUME IInv, NEW j \in procs, display' = Wrote(j)
  PROVE  /\ display' \in [Slot -> [head: 0..seq, since: SUBSET (1..seq)]]
         /\ \A s \in Slot: display'[s].head = display[s].head
         /\ \A s \in Slot: display'[s].since \subseteq {display'[s].head}
<1>1. j \in 1..seq /\ job[j].slot \in Slot /\ display[job[j].slot].head = j
  BY DEF IInv, TypeOK, JobRec, HeadIsLive
<1>2. display \in [Slot -> [head: 0..seq, since: SUBSET (1..seq)]]
  BY DEF IInv, TypeOK
<1>3. display' = [display EXCEPT ![job[j].slot].since = @ \cup {j}]
  BY DEF Wrote
<1>4. QED
  BY <1>1, <1>2, <1>3 DEF IInv, ViewBelongsToRun

\* Every step keeps the invariant.
LEMMA NextIInv == IInv /\ [Next]_vars => IInv'
<1> SUFFICES ASSUME IInv, [Next]_vars PROVE IInv'
  OBVIOUS
<1>1. seq \in Nat /\ procs \subseteq 1..seq /\ down \in BOOLEAN
  BY DEF IInv, TypeOK
<1>2. ASSUME NEW l \in Labels, Run(l) PROVE IInv'
  BY <1>2, RunStep DEF Run
<1>3. ASSUME NEW K \in SUBSET (1..seq), KillSilently(K), down' \in BOOLEAN PROVE IInv'
  <2>1. display' = display
    BY <1>3 DEF KillSilently
  <2>2. /\ display' \in [Slot -> [head: 0..seq, since: SUBSET (1..seq)]]
        /\ \A s \in Slot: display'[s].since \subseteq {display'[s].head}
        /\ \A i \in procs \ K: display'[job[i].slot].head = i
    BY <2>1 DEF IInv, TypeOK, ViewBelongsToRun, HeadIsLive
  <2>3. /\ seq' = seq /\ job' = JobsAfterKill(K) /\ slotIndex' = SlotsAfterKill(K)
        /\ procs' = procs \ K /\ fabricOut' = fabricOut
    BY <1>3 DEF KillSilently
  <2>4. QED
    BY <1>3, <2>2, <2>3, KillStep
<1>4. ASSUME NEW j \in 1..seq, NEW l \in Labels, PreemptAndRun(j, l) PROVE IInv'
  <2>1. /\ seq < MaxJobs
        /\ \/ KillSilently({j}) /\ UNCHANGED down
           \/ Start({j}, l) \/ StartThrows({j}, l)
    BY <1>4 DEF PreemptAndRun
  <2>2. CASE KillSilently({j}) /\ UNCHANGED down
    BY <1>1, <1>3, <2>2
  <2>3. CASE Start({j}, l) \/ StartThrows({j}, l)
    <3>1. {j} \in SUBSET (1..seq)
      OBVIOUS
    <3>2. QED
      BY <2>1, <2>3, <3>1, RunStep
  <2>4. QED
    BY <2>1, <2>2, <2>3
<1>5. ASSUME NEW j \in 1..seq, Cancel(j) PROVE IInv'
  <2>1. /\ seq' = seq /\ job' = JobsAfterKill({j}) /\ slotIndex' = SlotsAfterKill({j})
        /\ procs' = procs \ {j} /\ fabricOut' = fabricOut /\ down' \in BOOLEAN
        /\ {j} \in SUBSET (1..seq)
    BY <1>1, <1>5 DEF Cancel, KillJob
  <2>2. CASE j \in procs
    <3>1. display' = Wrote(j)
      BY <1>5, <2>2 DEF Cancel, KillJob
    <3>2. \A i \in procs: job[i].slot \in Slot
      BY <1>1 DEF IInv, TypeOK, JobRec
    <3>3. \A i \in procs \ {j}: display'[job[i].slot].head = i
      BY <2>2, <3>1, <3>2, WroteLive DEF IInv, HeadIsLive
    <3>4. /\ display' \in [Slot -> [head: 0..seq, since: SUBSET (1..seq)]]
          /\ \A s \in Slot: display'[s].since \subseteq {display'[s].head}
      BY <2>2, <3>1, WroteLive
    <3>5. QED
      BY <2>1, <3>3, <3>4, KillStep
  <2>3. CASE j \notin procs
    <3>1. display' = display
      BY <1>5, <2>3 DEF Cancel, KillJob
    <3>2. KillSilently({j})
      BY <1>5, <3>1 DEF Cancel, KillJob, KillSilently
    <3>3. QED
      BY <1>3, <2>1, <3>2
  <2>4. QED
    BY <2>2, <2>3
<1>6. ASSUME NEW j \in 1..seq, Data(j) PROVE IInv'
  <2>1. j \in procs /\ display' = Wrote(j)
        /\ UNCHANGED <<seq, job, procs, slotIndex, fabricOut, down>>
    BY <1>6 DEF Data, IInv, ListenersLive
  <2>2. \A i \in procs: job[i].slot \in Slot
    BY <1>1 DEF IInv, TypeOK, JobRec
  <2>3. HeadIsLive' /\ ViewBelongsToRun'
    BY <2>1, <2>2, WroteLive DEF IInv, HeadIsLive, ViewBelongsToRun
  <2>4. TypeOK'
    BY <2>1, WroteLive DEF IInv, TypeOK
  <2>5. SlotOwnership' /\ StoresAgree' /\ NoStrayProcess' /\ ListenersLive' /\ PublishedIsOlder'
    BY <2>1 DEF IInv, SlotOwnership, StoresAgree, NoStrayProcess, ListenersLive, PublishedIsOlder
  <2>6. QED
    BY <2>3, <2>4, <2>5 DEF IInv
<1>7. ASSUME NEW j \in 1..seq, Exit(j) PROVE IInv'
  BY <1>7, OsStep DEF Exit
<1>8. ASSUME NEW j \in 1..seq, CloseEvent(j) PROVE IInv'
  <2>1. CASE j \in procs
    BY <1>8, <2>1, FinishStep DEF CloseEvent
  <2>2. CASE j \notin procs
    BY <1>8, <2>2, OsStep DEF CloseEvent
  <2>3. QED
    BY <2>1, <2>2
<1>9. ASSUME NEW j \in 1..seq, ErrorEvent(j) PROVE IInv'
  <2>1. CASE j \in procs
    BY <1>9, <2>1, FinishStep DEF ErrorEvent
  <2>2. CASE j \notin procs
    BY <1>9, <2>2, OsStep DEF ErrorEvent
  <2>3. QED
    BY <2>1, <2>2
<1>10. ASSUME ClearCompleted PROVE IInv'
  <2>1. /\ job' = [i \in 1..seq |-> IF job[i].status = "running" THEN job[i]
                                    ELSE [job[i] EXCEPT !.status = "cleared"]]
        /\ UNCHANGED <<seq, procs, slotIndex, display, fabricOut, down>>
    BY <1>10 DEF ClearCompleted, IInv, TypeOK
  <2>2. \A i \in 1..seq: job[i] \in JobRec
    BY DEF IInv, TypeOK
  <2>3. \A i \in 1..seq: /\ job'[i] \in JobRec
                         /\ job'[i].slot = job[i].slot
                         /\ job'[i].status = "running" <=> job[i].status = "running"
                         /\ job'[i].record = job[i].record
                         /\ job'[i].termed = job[i].termed
                         /\ job'[i].listening = job[i].listening
                         /\ job'[i].os = job[i].os
    BY <2>1, <2>2 DEF JobRec
  <2>4. TypeOK'
    BY <2>1, <2>3 DEF IInv, TypeOK
  <2>5. SlotOwnership' /\ HeadIsLive' /\ PublishedIsOlder'
    BY <1>1, <2>1, <2>3 DEF IInv, TypeOK, SlotOwnership, HeadIsLive, PublishedIsOlder
  <2>6. StoresAgree' /\ NoStrayProcess' /\ ListenersLive' /\ ViewBelongsToRun'
    BY <2>1, <2>3 DEF IInv, StoresAgree, NoStrayProcess, ListenersLive, ViewBelongsToRun
  <2>7. QED
    BY <2>4, <2>5, <2>6 DEF IInv
<1>11. ASSUME Quit PROVE IInv'
  BY <1>1, <1>3, <1>11 DEF Quit
<1>12. CASE UNCHANGED vars
  BY <1>12 DEF vars, IInv, TypeOK, SlotOwnership, StoresAgree, NoStrayProcess,
               ViewBelongsToRun, ListenersLive, HeadIsLive, PublishedIsOlder
<1>13. ASSUME NEW j \in 1..seq, PipesEnd(j) PROVE IInv'
  BY <1>13, PipesStep
<1>14. QED
  BY <1>2, <1>4, <1>5, <1>6, <1>7, <1>8, <1>9, <1>10, <1>11, <1>12, <1>13 DEF Next

-----------------------------------------------------------------------------
\* The inductive invariant holds of every behaviour of the streams.
THEOREM Invariance == Spec => []IInv
<1>1. Init => IInv
  BY InitIInv
<1>2. IInv /\ [Next]_vars => IInv'
  BY NextIInv
<1>3. QED
  BY <1>1, <1>2, PTL DEF Spec

\* Every variable keeps its type (the record shapes of jobs.js and history.js).
THEOREM TypeCorrect == Spec => []TypeOK
<1>1. IInv => TypeOK
  BY DEF IInv
<1>2. QED
  BY <1>1, Invariance, PTL

\* One live job per slot and one slot per live job, whatever the interleaving of
\* runs, cancels and late child events (procs and slotIndex in stream.js).
THEOREM OwnershipHolds == Spec => []SlotOwnership
<1>1. IInv => SlotOwnership
  BY DEF IInv
<1>2. QED
  BY <1>1, Invariance, PTL

\* procs, the jobs list and the history never disagree on what is alive.
THEOREM StoresAlwaysAgree == Spec => []StoresAgree
<1>1. IInv => StoresAgree
  BY DEF IInv
<1>2. QED
  BY <1>1, Invariance, PTL

\* No running child is out of the program's control without a SIGTERM (killJob,
\* killAll).
THEOREM NoneStray == Spec => []NoStrayProcess
<1>1. IInv => NoStrayProcess
  BY DEF IInv
<1>2. QED
  BY <1>1, Invariance, PTL

\* A view only holds output of the run whose header it starts with (killJob
\* detaches the data listeners before the view is given to the next run).
THEOREM ViewsBelong == Spec => []ViewBelongsToRun
<1>1. IInv => ViewBelongsToRun
  BY DEF IInv
<1>2. QED
  BY <1>1, Invariance, PTL

\* A producer's published output never goes back to that of an earlier run, since
\* no job older than it is live in its slot (flushFabric in the close handler).
THEOREM OutputNeverOlder == Spec => OutputFresh
<1>1. IInv /\ [Next]_vars => [\A s \in Producers: fabricOut'[s] >= fabricOut[s]]_vars
  <2> SUFFICES ASSUME IInv, Next
               PROVE  \A s \in Producers: fabricOut'[s] >= fabricOut[s]
    OBVIOUS
  <2>1. fabricOut \in [Producers -> 0..seq] /\ seq \in Nat
    BY DEF IInv, TypeOK
  <2>2. CASE fabricOut' = fabricOut
    BY <2>1, <2>2
  <2>3. ASSUME NEW j \in procs, NEW st, NEW os, Finish(j, st, os)
        PROVE  \A s \in Producers: fabricOut'[s] >= fabricOut[s]
    <3>1. job[j].slot \in Producers => fabricOut[job[j].slot] <= j
      BY DEF IInv, PublishedIsOlder
    <3>2. fabricOut' = IF job[j].slot \in Producers
                       THEN [fabricOut EXCEPT ![job[j].slot] = j] ELSE fabricOut
      BY <2>3 DEF Finish
    <3>3. j \in Nat
      BY DEF IInv, TypeOK
    <3>4. QED
      BY <2>1, <3>1, <3>2, <3>3
  <2>4. ASSUME NEW j \in 1..seq, CloseEvent(j) \/ ErrorEvent(j)
        PROVE  fabricOut' = fabricOut
               \/ (j \in procs /\ \E st \in {"exited", "killed"}, os \in {"gone", "closing"}:
                                    Finish(j, st, os))
    BY <2>4 DEF CloseEvent, ErrorEvent
  <2>5. ASSUME NEW l \in Labels, Run(l) PROVE fabricOut' = fabricOut
    BY <2>5 DEF Run, Start, StartThrows
  <2>6. ASSUME NEW j \in 1..seq, NEW l \in Labels, PreemptAndRun(j, l)
        PROVE fabricOut' = fabricOut
    BY <2>6 DEF PreemptAndRun, Start, StartThrows, KillSilently
  <2>7. ASSUME NEW j \in 1..seq, Cancel(j) \/ Data(j) \/ Exit(j) \/ PipesEnd(j)
        PROVE fabricOut' = fabricOut
    BY <2>7 DEF Cancel, KillJob, Data, Exit, PipesEnd
  <2>8. ClearCompleted \/ Quit => fabricOut' = fabricOut
    BY DEF ClearCompleted, Quit, KillSilently
  <2>9. QED
    BY <2>2, <2>3, <2>4, <2>5, <2>6, <2>7, <2>8 DEF Next
<1>2. QED
  BY <1>1, Invariance, PTL DEF Spec, OutputFresh

\* A job that is over is not in procs, so that no kill, no run and no late event
\* of its process changes its outcome; only clearCompleted drops it.
THEOREM OutcomesFinal == Spec => OutcomeFinal
<1>1. IInv /\ [Next]_vars =>
        [\A j \in 1..seq: job[j].status # "running" =>
           job'[j].status \in {job[j].status, "cleared"}
           /\ job'[j].record = job[j].record]_vars
  <2> DEFINE Final(j) == /\ job'[j].status \in {job[j].status, "cleared"}
                         /\ job'[j].record = job[j].record
  <2> SUFFICES ASSUME IInv, Next, NEW j \in 1..seq, job[j].status # "running"
               PROVE  Final(j)
    OBVIOUS
  <2>1. /\ j \notin procs /\ job[j].record # "open" /\ procs \subseteq 1..seq
        /\ seq \in Nat /\ job[j] \in JobRec /\ DOMAIN job = 1..seq
    BY DEF IInv, TypeOK, StoresAgree
  <2>2. CASE job'[j] = job[j]
    BY <2>1, <2>2
  <2>3. \A K \in SUBSET (1..seq): JobsAfterKill(K)[j] = job[j]
    BY <2>1 DEF JobsAfterKill
  <2>4. ASSUME NEW K \in SUBSET (1..seq), NEW l \in Labels, Start(K, l) \/ StartThrows(K, l)
        PROVE  job'[j] = job[j]
    <3>1. Preempted(K, l) \in SUBSET (1..seq)
      BY PreemptsOwner
    <3>2. CASE Start(K, l)
      BY <3>1, <3>2, <2>1, <2>3 DEF Start
    <3>3. CASE StartThrows(K, l)
      BY <3>1, <3>3, <2>3 DEF StartThrows
    <3>4. QED
      BY <2>4, <3>2, <3>3
  <2>5. ASSUME NEW K \in SUBSET (1..seq), KillSilently(K) PROVE job'[j] = job[j]
    BY <2>5, <2>3 DEF KillSilently
  <2>6. ASSUME NEW l \in Labels, Run(l) PROVE job'[j] = job[j]
    BY <2>6, <2>4 DEF Run
  <2>7. ASSUME NEW i \in 1..seq PROVE {i} \in SUBSET (1..seq)
    OBVIOUS
  <2>8. ASSUME NEW i \in 1..seq, NEW l \in Labels, PreemptAndRun(i, l)
        PROVE  job'[j] = job[j]
    BY <2>8, <2>7, <2>4, <2>5 DEF PreemptAndRun
  <2>9. ASSUME NEW i \in 1..seq, Cancel(i) PROVE job'[j] = job[j]
    BY <2>9, <2>7, <2>3 DEF Cancel, KillJob
  <2>10. ASSUME NEW i \in 1..seq, Data(i) \/ Exit(i) \/ PipesEnd(i) PROVE Final(j)
    BY <2>10, <2>1 DEF Data, Exit, PipesEnd, JobRec
  <2>11. ASSUME NEW i \in 1..seq, CloseEvent(i) \/ ErrorEvent(i) PROVE Final(j)
    <3>1. CASE i \in procs
      BY <2>11, <3>1, <2>1 DEF CloseEvent, ErrorEvent, Finish
    <3>2. CASE i \notin procs
      BY <2>11, <3>2, <2>1 DEF CloseEvent, ErrorEvent, JobRec
    <3>3. QED
      BY <3>1, <3>2
  <2>12. ClearCompleted => Final(j)
    BY <2>1 DEF ClearCompleted, JobRec
  <2>13. Quit => job'[j] = job[j]
    BY <2>1, <2>5 DEF Quit
  <2>14. QED
    BY <2>2, <2>6, <2>8, <2>9, <2>10, <2>11, <2>12, <2>13 DEF Next
<1>2. QED
  BY <1>1, Invariance, PTL DEF Spec, OutcomeFinal

-----------------------------------------------------------------------------
(***************************************************************************)
(* The action runner.                                                      *)
(***************************************************************************)
\* What is true of a run Cmd for as long as it waits, in a confirm's
\* continuation or in the queue of deferred callbacks: unrouted_preempt_and_run
\* names a job of the Transcript with another label, the others name none.
SoundCmd(c, n, jobs) ==
  /\ c \in Cmds
  /\ c.type # "unrouted_preempt_and_run" => c.old = NoJob
  /\ c.type = "unrouted_preempt_and_run" =>
       /\ c.old \in 1..n
       /\ jobs[c.old].slot = "unrouted" /\ jobs[c.old].label # c.action
       /\ SlotOf(c.action) = "unrouted"

\* The open modal and what it would do agree.
ModalSound ==
  /\ mode \in {"none", "confirm", "form", "field", "other"}
  /\ mode = "confirm" => SoundCmd(continuation, seq, job)
  /\ mode # "confirm" => continuation = NoCmd
  /\ mode \in {"form", "field"} =>
       form \in [action: Labels, confirmed: BOOLEAN, asked: BOOLEAN]
  /\ mode \notin {"form", "field"} => form = NoForm
  /\ onReject \subseteq Addr

\* A deferred Cmd that kills a job is one whose question was accepted.
QueueSound ==
  /\ deferred \in Seq(Cmds)
  /\ turn \in 0..Len(deferred)
  /\ \A i \in 1..Len(deferred):
       /\ SoundCmd(deferred[i], seq, job)
       /\ deferred[i].old # NoJob => deferred[i].old \in approved

\* Every key that asked for a run is answered at most once: by a job, by a Cmd
\* that still waits in the queue, or by the modal that is open for it.
Waiting == IF mode \in {"confirm", "form", "field"} THEN 1 ELSE 0
AnsweredOnce ==
  /\ presses \in 0..MaxJobs
  /\ seq + Len(deferred) + Waiting <= presses

RunsInv ==
  /\ IInv
  /\ ModalSound
  /\ QueueSound
  /\ AnsweredOnce
  /\ oneShot \subseteq Addr
  /\ approved \subseteq 1..seq
  /\ unasked \subseteq 1..seq

\* Jobs are only added, and none changes its slot or label.
LEMMA JobsStay ==
  ASSUME IInv, [Next]_vars
  PROVE  /\ seq \in Nat /\ seq' \in Nat /\ seq <= seq'
         /\ \A j \in 1..seq: job'[j].slot = job[j].slot /\ job'[j].label = job[j].label
<1> DEFINE Same == /\ seq' = seq
                   /\ \A j \in 1..seq: /\ job'[j].slot = job[j].slot
                                       /\ job'[j].label = job[j].label
           More == /\ seq' = seq + 1
                   /\ \A j \in 1..seq: /\ job'[j].slot = job[j].slot
                                       /\ job'[j].label = job[j].label
<1>1. /\ seq \in Nat /\ DOMAIN job = 1..seq /\ procs \subseteq 1..seq
      /\ \A j \in 1..seq: job[j] \in JobRec
  BY DEF IInv, TypeOK
<1>2. \A K \in SUBSET (1..seq): \A j \in 1..seq:
        /\ JobsAfterKill(K)[j].slot = job[j].slot
        /\ JobsAfterKill(K)[j].label = job[j].label
  BY KillFields DEF IInv
<1>3. ASSUME NEW K \in SUBSET (1..seq), KillSilently(K) PROVE Same
  BY <1>2, <1>3 DEF KillSilently
<1>4. ASSUME NEW K \in SUBSET (1..seq), NEW l \in Labels, Start(K, l) PROVE More
  <2>1. PICK sp \in {"alive", "failed"}:
          /\ seq' = seq + 1
          /\ job' = [j \in 1..(seq + 1) |-> IF j = seq + 1 THEN NewJob(l, sp)
                                            ELSE JobsAfterKill(Preempted(K, l))[j]]
    BY <1>4 DEF Start
  <2>2. Preempted(K, l) \in SUBSET (1..seq)
    BY PreemptsOwner
  <2>3. \A j \in 1..seq: job'[j] = JobsAfterKill(Preempted(K, l))[j]
    BY <1>1, <2>1
  <2>4. QED
    BY <2>1, <2>2, <2>3, <1>2
<1>5. ASSUME NEW K \in SUBSET (1..seq), NEW l \in Labels, StartThrows(K, l) PROVE Same
  <2>1. Preempted(K, l) \in SUBSET (1..seq)
    BY PreemptsOwner
  <2>2. QED
    BY <2>1, <1>2, <1>5 DEF StartThrows
<1>6. \A i \in 1..seq: {i} \in SUBSET (1..seq)
  OBVIOUS
<1>7. ASSUME NEW l \in Labels, Run(l) PROVE Same \/ More
  <2>1. {} \in SUBSET (1..seq)
    OBVIOUS
  <2>2. Start({}, l) \/ StartThrows({}, l)
    BY <1>7 DEF Run
  <2>3. QED
    BY <2>1, <2>2, <1>4, <1>5
<1>8. ASSUME NEW i \in 1..seq, NEW l \in Labels, PreemptAndRun(i, l) PROVE Same \/ More
  <2>1. KillSilently({i}) \/ Start({i}, l) \/ StartThrows({i}, l)
    BY <1>8 DEF PreemptAndRun
  <2>2. QED
    BY <2>1, <1>6, <1>3, <1>4, <1>5
<1>9. ASSUME NEW i \in 1..seq, Cancel(i) PROVE Same
  <2>1. seq' = seq /\ job' = JobsAfterKill({i})
    BY <1>9 DEF Cancel, KillJob
  <2>2. QED
    BY <2>1, <1>6, <1>2
<1>10. ASSUME NEW i \in 1..seq, Data(i) \/ Exit(i) \/ PipesEnd(i) PROVE Same
  BY <1>1, <1>10 DEF Data, Exit, PipesEnd, JobRec
<1>11. ASSUME NEW i \in 1..seq, CloseEvent(i) \/ ErrorEvent(i) PROVE Same
  <2>1. CASE i \in procs
    <3>1. PICK st, os: Finish(i, st, os)
      BY <2>1, <1>11 DEF CloseEvent, ErrorEvent
    <3>2. /\ seq' = seq
          /\ job' = [job EXCEPT ![i] = [job[i] EXCEPT !.os = os,
                      !.status = CloseAs(job[i], st),
                      !.record = EndRecord(job[i], "ended")]]
      BY <3>1 DEF Finish
    <3>3. QED
      BY <3>2, <1>1 DEF JobRec
  <2>2. CASE i \notin procs
    BY <2>2, <1>1, <1>11 DEF CloseEvent, ErrorEvent, JobRec
  <2>3. QED
    BY <2>1, <2>2
<1>12. ClearCompleted => Same
  BY <1>1 DEF ClearCompleted, JobRec
<1>13. Quit => Same
  BY <1>1, <1>3 DEF Quit
<1>14. UNCHANGED vars => Same
  BY DEF vars
<1>15. Same \/ More
  <2> HIDE DEF Same, More
  <2>1. QED
    BY <1>7, <1>8, <1>9, <1>10, <1>11, <1>12, <1>13, <1>14 DEF Next
<1>16. QED
  BY <1>1, <1>15

\* What a waiting Cmd says of the jobs stays true.
LEMMA SoundStays ==
  ASSUME IInv, [Next]_vars
  PROVE  \A c: SoundCmd(c, seq, job) => SoundCmd(c, seq', job')
BY JobsStay DEF SoundCmd

-----------------------------------------------------------------------------
\* What one attempt to run an action may do, whatever it finds (runAction, doRun,
\* streamCommand): it takes one step of the streams or none, leaves the modal
\* sound, and answers at most once.
Attempt ==
  /\ [Next]_vars
  /\ ModalSound'
  /\ oneShot' \subseteq Addr
  /\ unasked' \subseteq 1..seq'
  /\ seq' + Waiting' <= seq + Waiting + 1

\* A modal opens only when none is open; an open one stays as it was.
LEMMA ModalKept ==
  ASSUME IInv, ModalSound, [Next]_vars, UNCHANGED modalVars
  PROVE  ModalSound' /\ Waiting' = Waiting
BY SoundStays DEF ModalSound, modalVars, Waiting

LEMMA ConfirmOpens ==
  ASSUME IInv, ModalSound, [Next]_vars, NEW c, SoundCmd(c, seq, job), ConfirmEnter(c)
  PROVE  ModalSound' /\ Waiting' \in 0..1 /\ Waiting' <= Waiting + 1
<1>1. CASE mode = "none"
  <2>1. SoundCmd(c, seq', job')
    BY SoundStays
  <2>2. mode' = "confirm" /\ continuation' = c /\ onReject' = onReject /\ form' = form
    BY <1>1 DEF ConfirmEnter
  <2>3. QED
    BY <1>1, <2>1, <2>2 DEF ModalSound, Waiting
<1>2. CASE mode # "none"
  <2>1. UNCHANGED modalVars
    BY <1>2 DEF ConfirmEnter, modalVars
  <2>2. QED
    BY <2>1, ModalKept DEF Waiting
<1>3. QED
  BY <1>1, <1>2

LEMMA FormOpens ==
  ASSUME IInv, ModalSound, [Next]_vars, NEW a \in Labels, NEW lane \in {"form", "field"},
         NEW confirmed \in BOOLEAN, NEW asked \in BOOLEAN,
         FormEnter(a, lane, confirmed, asked)
  PROVE  ModalSound' /\ Waiting' \in 0..1 /\ Waiting' <= Waiting + 1
<1>1. CASE mode = "none"
  <2>1. /\ mode' = lane /\ onReject' = onReject /\ continuation' = continuation
        /\ form' = [action |-> a, confirmed |-> confirmed, asked |-> asked]
    BY <1>1 DEF FormEnter
  <2>2. QED
    BY <1>1, <2>1 DEF ModalSound, Waiting
<1>2. CASE mode # "none"
  <2>1. UNCHANGED modalVars
    BY <1>2 DEF FormEnter, modalVars
  <2>2. QED
    BY <2>1, ModalKept DEF Waiting
<1>3. QED
  BY <1>1, <1>2

\* The run asks about a live job of the Transcript that runs something else.
LEMMA AskedOccupant ==
  ASSUME IInv, NEW K \in SUBSET (1..seq), NEW a \in Labels, MustAsk(K, a)
  PROVE  /\ SlotOf(a) = "unrouted"
         /\ Occupant(K, a) \in 1..seq
         /\ job[Occupant(K, a)].slot = "unrouted"
         /\ job[Occupant(K, a)].label # a
<1>1. SlotOf(a) = "unrouted" /\ "unrouted" \in Slot
  BY DEF MustAsk, Slot
<1>2. /\ SlotsAfterKill(K)["unrouted"] # NoJob
      /\ job[SlotsAfterKill(K)["unrouted"]].label # a
  BY <1>1 DEF MustAsk, Occupant
<1>3. /\ SlotsAfterKill(K)["unrouted"] \in procs
      /\ job[SlotsAfterKill(K)["unrouted"]].slot = "unrouted"
  BY <1>1, <1>2, KillSlots DEF IInv
<1>4. QED
  BY <1>1, <1>2, <1>3 DEF Occupant, IInv, TypeOK

\* Killing nobody changes nothing.
LEMMA KillNobody ==
  ASSUME IInv, KillSilently({}), UNCHANGED down
  PROVE  UNCHANGED vars
<1>1. JobsAfterKill({}) = job
  BY DEF JobsAfterKill, IInv, TypeOK
<1>2. SlotsAfterKill({}) = slotIndex
  BY DEF SlotsAfterKill, IInv, TypeOK
<1>3. QED
  BY <1>1, <1>2 DEF KillSilently, vars

\* streamCommand, called for a run (K empty) or for the deferred half of an
\* accepted preemption (K the job that was asked about), is one of the two
\* actions of module Streams, or asks and does nothing.
LEMMA CommandIsStep ==
  ASSUME IInv, ~down, seq < MaxJobs, NEW a \in Labels, NEW asked \in BOOLEAN,
         NEW K \in SUBSET (1..seq), StreamCommand(K, a, asked),
         K = {} \/ \E j \in 1..seq: /\ K = {j}
                                    /\ job[j].slot = "unrouted" /\ job[j].label # a
                                    /\ SlotOf(a) = "unrouted"
  PROVE  [Next]_vars
<1>1. CASE MustAsk(K, a)
  <2>1. KillSilently(K) /\ UNCHANGED down
    BY <1>1 DEF StreamCommand
  <2>2. CASE K = {}
    BY <2>1, <2>2, KillNobody
  <2>3. ASSUME NEW j \in 1..seq, K = {j}, job[j].slot = "unrouted",
               job[j].label # a, SlotOf(a) = "unrouted"
        PROVE  [Next]_vars
    <3>1. PreemptAndRun(j, a)
      BY <1>1, <2>1, <2>3 DEF PreemptAndRun
    <3>2. QED
      BY <3>1 DEF Next
  <2>4. QED
    BY <2>2, <2>3
<1>2. CASE ~MustAsk(K, a)
  <2>1. Start(K, a) \/ StartThrows(K, a)
    BY <1>2 DEF StreamCommand
  <2>2. CASE K = {}
    <3>1. Run(a)
      BY <1>2, <2>1, <2>2 DEF Run
    <3>2. QED
      BY <3>1 DEF Next
  <2>3. ASSUME NEW j \in 1..seq, K = {j}, job[j].slot = "unrouted",
               job[j].label # a, SlotOf(a) = "unrouted"
        PROVE  [Next]_vars
    <3>1. PreemptAndRun(j, a)
      BY <1>2, <2>1, <2>3 DEF PreemptAndRun
    <3>2. QED
      BY <3>1 DEF Next
  <2>4. QED
    BY <2>2, <2>3
<1>3. QED
  BY <1>1, <1>2

\* streamCommand as an attempt to run.
LEMMA CommandAttempts ==
  ASSUME RunsInv, ~down, seq < MaxJobs, NEW a \in Labels, NEW asked \in BOOLEAN,
         NEW K \in SUBSET (1..seq), StreamCommand(K, a, asked),
         oneShot' \subseteq Addr,
         K = {} \/ \E j \in 1..seq: /\ K = {j}
                                    /\ job[j].slot = "unrouted" /\ job[j].label # a
                                    /\ SlotOf(a) = "unrouted"
  PROVE  Attempt
<1> IInv /\ ModalSound /\ seq \in Nat /\ unasked \subseteq 1..seq /\ MaxJobs \in Nat
  BY StreamsAssumption DEF RunsInv, IInv, TypeOK
<1>1. [Next]_vars
  BY CommandIsStep
<1>2. Waiting \in 0..1 /\ Waiting' \in 0..1
  BY DEF Waiting
<1>3. CASE MustAsk(K, a)
  <2>1. /\ seq' = seq /\ unasked' = unasked
        /\ ConfirmEnter([Cmd("unrouted_preempt_and_run", a, asked)
                          EXCEPT !.old = Occupant(K, a)])
    BY <1>3 DEF StreamCommand, KillSilently
  <2>2. PICK c: c = [type |-> "unrouted_preempt_and_run", action |-> a,
                     old |-> Occupant(K, a), asked |-> asked]
    OBVIOUS
  <2>3. c = [Cmd("unrouted_preempt_and_run", a, asked) EXCEPT !.old = Occupant(K, a)]
    BY <2>2 DEF Cmd
  <2>4. SoundCmd(c, seq, job)
    <3>1. /\ SlotOf(a) = "unrouted" /\ Occupant(K, a) \in 1..seq
          /\ job[Occupant(K, a)].slot = "unrouted" /\ job[Occupant(K, a)].label # a
      BY <1>3, AskedOccupant
    <3>2. Occupant(K, a) \in 0..MaxJobs
      BY <3>1
    <3>3. QED
      BY <2>2, <3>1, <3>2 DEF SoundCmd, Cmds
  <2>5. ConfirmEnter(c)
    BY <2>1, <2>3
  <2>6. ModalSound' /\ Waiting' <= Waiting + 1
    BY <2>4, <2>5, <1>1, ConfirmOpens
  <2>7. QED
    BY <1>1, <1>2, <2>1, <2>6 DEF Attempt
<1>4. CASE ~MustAsk(K, a)
  <2>1. ModalSound' /\ Waiting' = Waiting
    BY <1>1, <1>4, ModalKept DEF StreamCommand
  <2>2. \/ seq' = seq + 1 /\ unasked' \subseteq unasked \cup {seq + 1}
        \/ seq' = seq /\ unasked' = unasked
    BY <1>4 DEF StreamCommand, Start, StartThrows
  <2>3. unasked' \subseteq 1..seq' /\ seq' + Waiting' <= seq + Waiting + 1
    BY <1>2, <2>1, <2>2
  <2>4. QED
    BY <1>1, <2>1, <2>3 DEF Attempt
<1>5. QED
  BY <1>3, <1>4

\* doRun as an attempt to run: the prompt for what is missing, or the command.
LEMMA DoRunAttempts ==
  ASSUME RunsInv, ~down, seq < MaxJobs, NEW a \in Labels, NEW asked \in BOOLEAN,
         DoRun(a, asked)
  PROVE  Attempt
<1> IInv /\ ModalSound /\ seq \in Nat /\ unasked \subseteq 1..seq /\ oneShot \subseteq Addr
  BY DEF RunsInv, IInv, TypeOK
<1>1. CASE Missing(a) # {}
  <2>1. PICK lane \in {"form", "field"}: FormEnter(a, lane, TRUE, asked)
    BY <1>1 DEF DoRun, Prompt
  <2>2. UNCHANGED <<vars, oneShot, unasked>>
    BY <1>1 DEF DoRun, Prompt
  <2>3. [Next]_vars
    BY <2>2 DEF vars
  <2>0. seq' = seq
    BY <2>2 DEF vars
  <2>4. ModalSound'
    BY <2>1, <2>3, FormOpens
  <2>9. Waiting' <= Waiting + 1 /\ Waiting' \in 0..1
    BY <2>1, <2>3, FormOpens
  <2>5. Waiting \in 0..1
    BY DEF Waiting
  <2>6. unasked' \subseteq 1..seq' /\ oneShot' \subseteq Addr
    BY <2>0, <2>2
  <2>7. seq' + Waiting' <= seq + Waiting + 1
    <3>1. \A n \in Nat, v \in 0..1, w \in 0..1: w <= v + 1 => n + w <= n + v + 1
      OBVIOUS
    <3>2. QED
      BY <3>1, <2>0, <2>5, <2>9
  <2>8. QED
    BY <2>3, <2>4, <2>6, <2>7 DEF Attempt
<1>2. CASE Missing(a) = {}
  <2>1. oneShot' \subseteq Addr /\ StreamCommand({}, a, asked)
    BY <1>2 DEF DoRun
  <2>2. {} \in SUBSET (1..seq)
    OBVIOUS
  <2>3. QED
    BY <2>1, <2>2, CommandAttempts
<1>3. QED
  BY <1>1, <1>2

\* runAction as an attempt to run: the confirm gate in front of doRun.
LEMMA RunActionAttempts ==
  ASSUME RunsInv, ~down, seq < MaxJobs, NEW a \in Labels, NEW asked \in BOOLEAN,
         RunAction(a, asked)
  PROVE  Attempt
<1> IInv /\ ModalSound /\ seq \in Nat /\ unasked \subseteq 1..seq /\ oneShot \subseteq Addr
  BY DEF RunsInv, IInv, TypeOK
<1>1. CASE a \in Gated /\ mode # "confirm"
  <2>1. PICK c: c = Cmd("do_run", a, asked)
    OBVIOUS
  <2>2. ConfirmEnter(c) /\ UNCHANGED <<vars, oneShot, unasked>>
    BY <1>1, <2>1 DEF RunAction
  <2>3. SoundCmd(c, seq, job)
    BY <2>1, StreamsAssumption DEF SoundCmd, Cmds, Cmd, NoJob
  <2>4. [Next]_vars
    BY <2>2 DEF vars
  <2>0. seq' = seq
    BY <2>2 DEF vars
  <2>5. ModalSound'
    BY <2>2, <2>3, <2>4, ConfirmOpens
  <2>10. Waiting' <= Waiting + 1 /\ Waiting' \in 0..1
    BY <2>2, <2>3, <2>4, ConfirmOpens
  <2>6. Waiting \in 0..1
    BY DEF Waiting
  <2>7. unasked' \subseteq 1..seq' /\ oneShot' \subseteq Addr
    BY <2>0, <2>2
  <2>8. seq' + Waiting' <= seq + Waiting + 1
    <3>1. \A n \in Nat, v \in 0..1, w \in 0..1: w <= v + 1 => n + w <= n + v + 1
      OBVIOUS
    <3>2. QED
      BY <3>1, <2>0, <2>6, <2>10
  <2>9. QED
    BY <2>4, <2>5, <2>7, <2>8 DEF Attempt
<1>2. CASE ~(a \in Gated /\ mode # "confirm")
  BY <1>2, DoRunAttempts DEF RunAction
<1>3. QED
  BY <1>1, <1>2

-----------------------------------------------------------------------------
\* The initial state satisfies the invariant.
LEMMA RunsInitInv == RunsInit => RunsInv
<1> SUFFICES ASSUME RunsInit PROVE RunsInv
  OBVIOUS
<1>1. IInv /\ seq = 0 /\ MaxJobs \in Nat
  BY InitIInv, StreamsAssumption DEF RunsInit, Init
<1>2. deferred = <<>> /\ deferred \in Seq(Cmds) /\ Len(deferred) = 0
  BY DEF RunsInit
<1>3. ModalSound
  BY DEF RunsInit, ModalSound
<1>4. QueueSound
  BY <1>2 DEF RunsInit, QueueSound
<1>5. AnsweredOnce
  BY <1>1, <1>2 DEF RunsInit, AnsweredOnce, Waiting
<1>6. QED
  BY <1>1, <1>3, <1>4, <1>5 DEF RunsInit, RunsInv

\* The queue of deferred callbacks stays sound while it is left alone, while a
\* sound Cmd is added to it, and while its first one is taken out.
LEMMA QueueStays ==
  ASSUME IInv, QueueSound, [Next]_vars, deferred' = deferred, turn' \in 0..Len(deferred),
         approved \subseteq approved'
  PROVE  QueueSound'
BY SoundStays DEF QueueSound

LEMMA QueueGrows ==
  ASSUME IInv, QueueSound, [Next]_vars, NEW c, SoundCmd(c, seq, job),
         deferred' = Append(deferred, c), turn' = turn,
         approved \subseteq approved', c.old # NoJob => c.old \in approved'
  PROVE  QueueSound' /\ Len(deferred') = Len(deferred) + 1
<1>1. c \in Cmds /\ deferred \in Seq(Cmds) /\ Len(deferred) \in Nat
  BY DEF SoundCmd, QueueSound
<1>2. /\ deferred' \in Seq(Cmds) /\ Len(deferred') = Len(deferred) + 1
      /\ \A i \in 1..Len(deferred): deferred'[i] = deferred[i]
      /\ deferred'[Len(deferred) + 1] = c
  BY <1>1
<1>3. ASSUME NEW i \in 1..Len(deferred')
      PROVE  /\ SoundCmd(deferred'[i], seq', job')
             /\ deferred'[i].old # NoJob => deferred'[i].old \in approved'
  <2>1. CASE i \in 1..Len(deferred)
    BY <2>1, <1>2, SoundStays DEF QueueSound
  <2>2. CASE i = Len(deferred) + 1
    BY <2>2, <1>2, SoundStays
  <2>3. QED
    BY <1>1, <1>2, <2>1, <2>2
<1>4. QED
  BY <1>1, <1>2, <1>3 DEF QueueSound

LEMMA QueueShrinks ==
  ASSUME IInv, QueueSound, [Next]_vars, turn > 0,
         deferred' = Tail(deferred), turn' = turn - 1, approved' = approved
  PROVE  QueueSound' /\ Len(deferred') = Len(deferred) - 1
<1>1. deferred \in Seq(Cmds) /\ Len(deferred) \in Nat /\ Len(deferred) > 0
      /\ turn \in 0..Len(deferred)
  BY DEF QueueSound
<1>2. /\ deferred' \in Seq(Cmds) /\ Len(deferred') = Len(deferred) - 1
      /\ \A i \in 1..Len(deferred'): deferred'[i] = deferred[i + 1]
  BY <1>1
<1>3. \A i \in 1..Len(deferred'):
        /\ SoundCmd(deferred'[i], seq', job')
        /\ deferred'[i].old # NoJob => deferred'[i].old \in approved'
  BY <1>1, <1>2, SoundStays DEF QueueSound
<1>4. QED
  BY <1>1, <1>2, <1>3 DEF QueueSound

\* A step of the streams that no key, modal or deferred callback asked for.
LEMMA UntouchedKeeps ==
  ASSUME RunsInv, [Next]_vars, seq' = seq, UNCHANGED uiVars
  PROVE  RunsInv'
<1> IInv /\ ModalSound /\ QueueSound
  BY DEF RunsInv
<1>1. IInv'
  BY NextIInv
<1>2. UNCHANGED modalVars /\ UNCHANGED <<oneShot, deferred, turn, presses, approved, unasked>>
  BY DEF uiVars, modalVars
<1>3. ModalSound' /\ Waiting' = Waiting
  BY <1>2, ModalKept
<1>4. QueueSound'
  <2>1. turn \in 0..Len(deferred)
    BY DEF QueueSound
  <2>2. QED
    BY <2>1, <1>2, QueueStays
<1>5. AnsweredOnce'
  BY <1>2, <1>3 DEF RunsInv, AnsweredOnce
<1>6. QED
  BY <1>1, <1>2, <1>3, <1>4, <1>5 DEF RunsInv

\* The invariant after an attempt, from what becomes of the queue and the keys.
LEMMA AttemptKeeps ==
  ASSUME RunsInv, Attempt, QueueSound', approved' = approved, presses' \in 0..MaxJobs,
         seq + Len(deferred') + Waiting + 1 <= presses'
  PROVE  RunsInv'
<1>1. IInv' /\ seq \in Nat /\ seq' \in Nat /\ seq <= seq'
  BY NextIInv, JobsStay DEF RunsInv, Attempt
<1>2. Len(deferred') \in Nat /\ Waiting \in Nat /\ Waiting' \in Nat /\ presses' \in Nat
  BY StreamsAssumption DEF QueueSound, Waiting
<1>3. seq' + Waiting' <= seq + Waiting + 1
  BY DEF Attempt
<1>4. AnsweredOnce'
  <2>1. \A n, m, v, w, q, p \in Nat:
          m + w <= n + v + 1 /\ n + q + v + 1 <= p => m + q + w <= p
    OBVIOUS
  <2>2. QED
    BY <2>1, <1>1, <1>2, <1>3 DEF AnsweredOnce
<1>5. approved' \subseteq 1..seq'
  BY <1>1 DEF RunsInv
<1>6. ModalSound' /\ oneShot' \subseteq Addr /\ unasked' \subseteq 1..seq'
  BY DEF Attempt
<1>7. QED
  BY <1>1, <1>4, <1>5, <1>6 DEF RunsInv

-----------------------------------------------------------------------------
\* A key that asks for a run: it is answered at once, or by a Cmd in the queue,
\* or by the [a] form.
LEMMA PressKeeps ==
  ASSUME RunsInv, NEW a \in Labels,
         PressRun(a) \/ (a \in ItemActions /\ PressItem(a)) \/ PressEditArgs(a)
  PROVE  [Next]_vars /\ RunsInv'
<1> /\ IInv /\ ModalSound /\ QueueSound /\ oneShot \subseteq Addr
    /\ approved \subseteq 1..seq /\ unasked \subseteq 1..seq
  BY DEF RunsInv
<1>1. ~down /\ mode = "none" /\ presses < MaxJobs /\ presses' = presses + 1
  BY DEF PressRun, PressItem, PressEditArgs, Press, Polling
<1>2. /\ presses \in Nat /\ MaxJobs \in Nat /\ presses' \in 0..MaxJobs
      /\ seq \in Nat /\ Len(deferred) \in Nat /\ turn \in 0..Len(deferred)
      /\ seq + Len(deferred) + Waiting <= presses /\ Waiting = 0 /\ seq < MaxJobs
  <2>1. presses \in 0..MaxJobs /\ seq + Len(deferred) + Waiting <= presses
    BY DEF RunsInv, AnsweredOnce
  <2>2. Waiting = 0 /\ seq \in Nat /\ Len(deferred) \in Nat /\ turn \in 0..Len(deferred)
    BY <1>1 DEF Waiting, QueueSound, IInv, TypeOK
  <2>3. MaxJobs \in Nat
    BY StreamsAssumption
  <2>4. QED
    BY <1>1, <2>1, <2>2, <2>3
<1>3. CASE PressRun(a)
  <2>1. UNCHANGED <<deferred, turn, approved>>
    BY <1>3 DEF PressRun
  <2>2. Attempt
    BY <1>1, <1>2, <1>3, RunActionAttempts DEF PressRun
  <2>3. [Next]_vars
    BY <2>2 DEF Attempt
  <2>4. QueueSound'
    BY <1>2, <2>1, <2>3, QueueStays
  <2>5. seq + Len(deferred') + Waiting + 1 <= presses'
    BY <1>1, <1>2, <2>1
  <2>6. QED
    BY <1>2, <2>1, <2>2, <2>3, <2>4, <2>5, AttemptKeeps
<1>4. CASE a \in ItemActions /\ PressItem(a)
  <2>1. PICK c: c = Cmd("run_action", a, FALSE)
    OBVIOUS
  <2>2. /\ deferred' = Append(deferred, c)
        /\ UNCHANGED <<vars, modalVars, oneShot, turn, approved, unasked>>
    BY <1>4, <2>1 DEF PressItem
  <2>3. [Next]_vars
    BY <2>2
  <2>4. SoundCmd(c, seq, job) /\ c.old = NoJob
    BY <1>2, <2>1 DEF SoundCmd, Cmds, Cmd, NoJob
  <2>5. QueueSound' /\ Len(deferred') = Len(deferred) + 1
    BY <2>2, <2>3, <2>4, QueueGrows
  <2>6. ModalSound' /\ Waiting' = Waiting
    BY <2>2, <2>3, ModalKept
  <2>7. seq' = seq
    BY <2>2 DEF vars
  <2>8. AnsweredOnce'
    BY <1>1, <1>2, <2>5, <2>6, <2>7 DEF AnsweredOnce
  <2>9. IInv'
    BY <2>3, NextIInv
  <2>10. QED
    BY <2>2, <2>3, <2>5, <2>6, <2>7, <2>8, <2>9 DEF RunsInv
<1>5. CASE PressEditArgs(a)
  <2>1. /\ FormEnter(a, "form", FALSE, FALSE)
        /\ UNCHANGED <<vars, oneShot, deferred, turn, approved, unasked>>
    BY <1>5 DEF PressEditArgs
  <2>2. [Next]_vars
    BY <2>1
  <2>3. ModalSound'
    BY <2>1, <2>2, FormOpens
  <2>4. Waiting' <= Waiting + 1 /\ Waiting' \in 0..1
    BY <2>1, <2>2, FormOpens
  <2>5. QueueSound'
    BY <1>2, <2>1, <2>2, QueueStays
  <2>6. seq' = seq
    BY <2>1 DEF vars
  <2>7. AnsweredOnce'
    <3>1. \A n, q, p \in Nat, w \in 0..1: n + q <= p => n + q + w <= p + 1
      OBVIOUS
    <3>2. QED
      BY <3>1, <1>1, <1>2, <2>1, <2>4, <2>6 DEF AnsweredOnce
  <2>8. IInv'
    BY <2>2, NextIInv
  <2>9. QED
    BY <2>1, <2>2, <2>3, <2>5, <2>6, <2>7, <2>8 DEF RunsInv
<1>6. QED
  BY <1>3, <1>4, <1>5

\* A modal that closes hands its Cmd to the queue, or drops it.
LEMMA ModalCloses ==
  ASSUME RunsInv, [Next]_vars, seq' = seq, presses' = presses, turn' = turn, CloseModal,
         mode \in {"confirm", "form", "field"},
         onReject' \subseteq Addr, oneShot' \subseteq Addr, unasked' = unasked,
         approved' \subseteq 1..seq, approved \subseteq approved',
         \/ deferred' = deferred
         \/ \E c: /\ SoundCmd(c, seq, job) /\ deferred' = Append(deferred, c)
                  /\ c.old # NoJob => c.old \in approved'
  PROVE  RunsInv'
<1> IInv /\ QueueSound
  BY DEF RunsInv
<1>1. /\ presses \in 0..MaxJobs /\ seq + Len(deferred) + Waiting <= presses
      /\ Waiting = 1 /\ Waiting' = 0 /\ seq \in Nat /\ Len(deferred) \in Nat
      /\ turn \in 0..Len(deferred)
  BY DEF RunsInv, AnsweredOnce, QueueSound, Waiting, CloseModal, IInv, TypeOK
<1>2. ModalSound'
  BY DEF CloseModal, ModalSound
<1>3. QueueSound' /\ Len(deferred') <= Len(deferred) + 1 /\ Len(deferred') \in Nat
  <2>1. CASE deferred' = deferred
    BY <1>1, <2>1, QueueStays
  <2>2. ASSUME NEW c, SoundCmd(c, seq, job), deferred' = Append(deferred, c),
               c.old # NoJob => c.old \in approved'
        PROVE  QueueSound' /\ Len(deferred') = Len(deferred) + 1
    BY <2>2, QueueGrows
  <2>3. QED
    BY <1>1, <2>1, <2>2
<1>4. AnsweredOnce'
  <2>1. Len(deferred') <= Len(deferred) + 1 /\ Len(deferred') \in Nat
    BY <1>3
  <2>2. \A n, q, r, p \in Nat: r <= q + 1 /\ n + q + 1 <= p => n + r + 0 <= p
    OBVIOUS
  <2>3. MaxJobs \in Nat
    BY StreamsAssumption
  <2>4. QED
    BY <1>1, <2>1, <2>2, <2>3 DEF AnsweredOnce
<1>5. IInv'
  BY NextIInv
<1>6. unasked' \subseteq 1..seq'
  BY DEF RunsInv
<1>7. QED
  BY <1>2, <1>3, <1>4, <1>5, <1>6 DEF RunsInv

\* The addresses that belong to one action.
LEMMA OwnAddresses ==
  ASSUME NEW a \in Labels, NEW filled \in SUBSET PortsOf[a]
  PROVE  {a} \X filled \subseteq Addr
BY ActionRunsAssumption DEF Addr

LEMMA ConfirmKeeps ==
  ASSUME RunsInv, ConfirmAccept \/ ConfirmReject
  PROVE  [Next]_vars /\ RunsInv'
<1>1. /\ mode = "confirm" /\ CloseModal /\ onReject' = {}
      /\ UNCHANGED <<vars, turn, presses, unasked>>
  BY DEF ConfirmAccept, ConfirmReject, Confirming
<1>2. [Next]_vars /\ seq' = seq
  BY <1>1 DEF vars
<1>3. SoundCmd(continuation, seq, job)
  BY <1>1 DEF RunsInv, ModalSound
<1>4. oneShot \subseteq Addr /\ approved \subseteq 1..seq
  BY DEF RunsInv
<1>5. CASE ConfirmAccept
  <2>1. PICK d: d = continuation
    OBVIOUS
  <2>2. PICK c: c = [d EXCEPT !.asked = d.asked \/ d.type = "do_run"]
    OBVIOUS
  <2>3. /\ deferred' = Append(deferred, c) /\ oneShot' = oneShot
        /\ approved' = approved \cup ({d.old} \ {NoJob})
    BY <1>5, <2>1, <2>2 DEF ConfirmAccept
  <2>4. d \in Cmds /\ SoundCmd(d, seq, job)
    BY <1>3, <2>1 DEF SoundCmd
  <2>5. c \in Cmds /\ c.type = d.type /\ c.action = d.action /\ c.old = d.old
    BY <2>2, <2>4 DEF Cmds
  <2>6. SoundCmd(c, seq, job)
    BY <2>4, <2>5 DEF SoundCmd
  <2>7. d.old # NoJob => d.old \in 1..seq
    BY <2>4 DEF SoundCmd
  <2>8. QED
    BY <1>1, <1>2, <1>4, <2>3, <2>5, <2>6, <2>7, ModalCloses
<1>6. CASE ConfirmReject
  <2>1. deferred' = deferred /\ approved' = approved /\ oneShot' = oneShot \ onReject
    BY <1>6 DEF ConfirmReject
  <2>2. QED
    BY <1>1, <1>2, <1>4, <2>1, ModalCloses
<1>7. QED
  BY <1>5, <1>6

LEMMA PromptKeeps ==
  ASSUME RunsInv, (\E filled \in SUBSET Ports: FormSubmit(filled)) \/ FieldSubmit \/ PromptCancel
  PROVE  [Next]_vars /\ RunsInv'
<1>1. /\ mode \in {"form", "field"} /\ CloseModal
      /\ UNCHANGED <<vars, turn, presses, approved, unasked>>
  BY DEF FormSubmit, FieldSubmit, PromptCancel
<1>2. [Next]_vars /\ seq' = seq
  BY <1>1 DEF vars
<1>3. /\ oneShot \subseteq Addr /\ onReject \subseteq Addr /\ approved \subseteq 1..seq
      /\ form \in [action: Labels, confirmed: BOOLEAN, asked: BOOLEAN]
  BY <1>1 DEF RunsInv, ModalSound
<1>4. form.action \in Labels /\ form.asked \in BOOLEAN
  BY <1>3
<1>5. \A t \in {"do_run", "run_action"}:
        /\ SoundCmd(Cmd(t, form.action, form.asked), seq, job)
        /\ Cmd(t, form.action, form.asked).old = NoJob
  BY <1>4, StreamsAssumption DEF SoundCmd, Cmds, Cmd, NoJob
<1>6. ASSUME NEW filled \in SUBSET Ports, FormSubmit(filled) PROVE RunsInv'
  <2>1. PICK t \in {"do_run", "run_action"}:
          deferred' = Append(deferred, Cmd(t, form.action, form.asked))
    BY <1>6 DEF FormSubmit
  <2>2. {form.action} \X filled \subseteq Addr
    BY <1>4, <1>6, OwnAddresses DEF FormSubmit
  <2>3. /\ oneShot' = oneShot \cup ({form.action} \X filled)
        /\ onReject' \in {{form.action} \X filled, onReject}
    BY <1>6 DEF FormSubmit
  <2>4. oneShot' \subseteq Addr /\ onReject' \subseteq Addr
    BY <1>3, <2>2, <2>3
  <2>5. QED
    BY <1>1, <1>2, <1>3, <1>5, <2>1, <2>4, ModalCloses
<1>7. ASSUME FieldSubmit PROVE RunsInv'
  <2>1. AddrOf(form.action) \subseteq Addr
    BY <1>4, OwnAddresses DEF AddrOf
  <2>2. /\ oneShot' \subseteq Addr /\ onReject' \subseteq Addr
        /\ deferred' = Append(deferred, Cmd("do_run", form.action, form.asked))
    BY <1>3, <1>7, <2>1 DEF FieldSubmit
  <2>3. QED
    BY <1>1, <1>2, <1>3, <1>5, <2>2, ModalCloses
<1>8. ASSUME PromptCancel PROVE RunsInv'
  BY <1>1, <1>2, <1>3, <1>8, ModalCloses DEF PromptCancel
<1>9. QED
  BY <1>2, <1>6, <1>7, <1>8

\* What the deferred callback at the head of the queue does to the streams.
LEMMA HeadRuns ==
  ASSUME RunsInv, RunDeferred
  PROVE  /\ Attempt
         /\ Head(deferred).action \in Labels
         /\ \E K \in SUBSET approved:
              \/ UNCHANGED vars
              \/ StreamCommand(K, Head(deferred).action, Head(deferred).asked)
<1> IInv /\ QueueSound /\ oneShot \subseteq Addr /\ approved \subseteq 1..seq
  BY DEF RunsInv
<1>1. PICK c: c = Head(deferred)
  OBVIOUS
<1>2. ~down /\ turn > 0
  BY DEF RunDeferred
<1>3. /\ deferred \in Seq(Cmds) /\ Len(deferred) \in Nat /\ Len(deferred) >= 1
      /\ c = deferred[1]
  BY <1>1, <1>2 DEF QueueSound
<1>4. SoundCmd(c, seq, job) /\ (c.old # NoJob => c.old \in approved)
  BY <1>3 DEF QueueSound
<1>5. c.action \in Labels /\ c.asked \in BOOLEAN
  BY <1>4 DEF SoundCmd, Cmds
<1>6. seq < MaxJobs
  <2>1. /\ presses \in 0..MaxJobs /\ seq + Len(deferred) + Waiting <= presses
        /\ Waiting \in Nat /\ seq \in Nat /\ MaxJobs \in Nat
    BY StreamsAssumption DEF RunsInv, AnsweredOnce, Waiting, IInv, TypeOK
  <2>2. QED
    BY <2>1, <1>3
<1>7. CASE c.type = "do_run" /\ DoRun(c.action, c.asked)
  <2>1. Attempt
    BY <1>2, <1>5, <1>6, <1>7, DoRunAttempts
  <2>2. UNCHANGED vars \/ StreamCommand({}, c.action, c.asked)
    BY <1>7 DEF DoRun, Prompt
  <2>3. QED
    BY <1>1, <1>5, <2>1, <2>2
<1>8. CASE c.type = "run_action" /\ RunAction(c.action, c.asked)
  <2>1. Attempt
    BY <1>2, <1>5, <1>6, <1>8, RunActionAttempts
  <2>2. UNCHANGED vars \/ StreamCommand({}, c.action, c.asked)
    BY <1>8 DEF RunAction, DoRun, Prompt
  <2>3. QED
    BY <1>1, <1>5, <2>1, <2>2
<1>9. CASE /\ c.type = "unrouted_preempt_and_run"
           /\ StreamCommand({c.old}, c.action, c.asked)
           /\ UNCHANGED oneShot
  <2>1. /\ c.old \in 1..seq /\ job[c.old].slot = "unrouted"
        /\ job[c.old].label # c.action /\ SlotOf(c.action) = "unrouted"
    BY <1>4, <1>9 DEF SoundCmd
  <2>2. {c.old} \in SUBSET (1..seq) /\ {c.old} \in SUBSET approved
    BY <1>4, <2>1 DEF NoJob
  <2>3. Attempt
    BY <1>2, <1>5, <1>6, <1>9, <2>1, <2>2, CommandAttempts
  <2>4. QED
    BY <1>1, <1>5, <1>9, <2>2, <2>3
<1>10. QED
  BY <1>1, <1>7, <1>8, <1>9 DEF RunDeferred

LEMMA DeferredKeeps ==
  ASSUME RunsInv, RunDeferred
  PROVE  [Next]_vars /\ RunsInv'
<1> IInv /\ QueueSound
  BY DEF RunsInv
<1>1. /\ turn > 0 /\ turn' = turn - 1 /\ deferred' = Tail(deferred)
      /\ presses' = presses /\ approved' = approved
  BY DEF RunDeferred
<1>2. Attempt
  BY HeadRuns
<1>3. [Next]_vars
  BY <1>2 DEF Attempt
<1>4. QueueSound'
  BY <1>1, <1>3, QueueShrinks
<1>5. Len(deferred') = Len(deferred) - 1
  BY <1>1, <1>3, QueueShrinks
<1>6. presses \in 0..MaxJobs /\ seq + Len(deferred) + Waiting <= presses
  BY DEF RunsInv, AnsweredOnce
<1>7. seq \in Nat /\ Len(deferred) \in Nat /\ Waiting \in Nat /\ MaxJobs \in Nat
  BY StreamsAssumption DEF QueueSound, Waiting, IInv, TypeOK
<1>8. seq + Len(deferred') + Waiting + 1 <= presses'
  BY <1>1, <1>5, <1>6, <1>7
<1>9. QED
  BY <1>1, <1>2, <1>3, <1>4, <1>6, <1>8, AttemptKeeps

\* Every step keeps the invariant, and is a step of the streams or none.
LEMMA RunsNextInv ==
  ASSUME RunsInv, [RunsNext]_allVars
  PROVE  [Next]_vars /\ RunsInv'
<1> IInv /\ ModalSound /\ QueueSound
  BY DEF RunsInv
<1>1. ASSUME NEW a \in Labels, PressRun(a) PROVE [Next]_vars /\ RunsInv'
  BY <1>1, PressKeeps
<1>2. ASSUME NEW a \in ItemActions, PressItem(a) PROVE [Next]_vars /\ RunsInv'
  <2>1. a \in Labels
    BY StreamsAssumption, ActionRunsAssumption
  <2>2. QED
    BY <1>2, <2>1, PressKeeps
<1>3. ASSUME NEW a \in EditArgs, PressEditArgs(a) PROVE [Next]_vars /\ RunsInv'
  <2>1. a \in Labels
    BY ActionRunsAssumption
  <2>2. QED
    BY <1>3, <2>1, PressKeeps
<1>4. ConfirmAccept \/ ConfirmReject => [Next]_vars /\ RunsInv'
  BY ConfirmKeeps
<1>5. (\E filled \in SUBSET Ports: FormSubmit(filled)) \/ FieldSubmit \/ PromptCancel
        => [Next]_vars /\ RunsInv'
  BY PromptKeeps
<1>6. ASSUME ToggleOther PROVE [Next]_vars /\ RunsInv'
  <2>1. /\ mode \in {"none", "other"} /\ mode' \in {"none", "other"}
        /\ UNCHANGED <<vars, continuation, onReject, form, oneShot, deferred, turn,
                       presses, approved, unasked>>
    BY <1>6 DEF ToggleOther
  <2>2. [Next]_vars /\ seq' = seq
    BY <2>1 DEF vars
  <2>3. ModalSound' /\ Waiting' = Waiting
    BY <2>1 DEF ModalSound, Waiting
  <2>4. turn \in 0..Len(deferred)
    BY DEF QueueSound
  <2>5. QueueSound'
    BY <2>1, <2>2, <2>4, QueueStays
  <2>6. AnsweredOnce'
    BY <2>1, <2>2, <2>3 DEF RunsInv, AnsweredOnce
  <2>7. IInv'
    BY <2>2, NextIInv
  <2>8. QED
    BY <2>1, <2>2, <2>3, <2>5, <2>6, <2>7 DEF RunsInv
<1>7. ASSUME CheckPhase PROVE [Next]_vars /\ RunsInv'
  <2>1. /\ turn' = Len(deferred)
        /\ UNCHANGED <<vars, modalVars, oneShot, deferred, presses, approved, unasked>>
    BY <1>7 DEF CheckPhase
  <2>2. [Next]_vars /\ seq' = seq
    BY <2>1 DEF vars
  <2>3. ModalSound' /\ Waiting' = Waiting
    BY <2>1, <2>2, ModalKept
  <2>4. turn' \in 0..Len(deferred)
    BY <2>1 DEF QueueSound
  <2>5. QueueSound'
    BY <2>1, <2>2, <2>4, QueueStays
  <2>6. AnsweredOnce'
    BY <2>1, <2>2, <2>3 DEF RunsInv, AnsweredOnce
  <2>7. IInv'
    BY <2>2, NextIInv
  <2>8. QED
    BY <2>1, <2>2, <2>3, <2>5, <2>6, <2>7 DEF RunsInv
<1>8. ASSUME RunDeferred PROVE [Next]_vars /\ RunsInv'
  BY <1>8, DeferredKeeps
<1>9. ASSUME StreamStep PROVE [Next]_vars /\ RunsInv'
  <2>1. UNCHANGED uiVars
    BY <1>9 DEF StreamStep, ChildEvent
  <2>2. Next
    BY <1>9 DEF StreamStep, ChildEvent, Next
  <2>3. seq' = seq
    BY <1>9 DEF StreamStep, ChildEvent, CloseEvent, ErrorEvent, Finish, Exit,
                Cancel, KillJob, Quit, KillSilently
  <2>4. QED
    BY <2>1, <2>2, <2>3, UntouchedKeeps
<1>10. ASSUME UNCHANGED allVars PROVE [Next]_vars /\ RunsInv'
  <2>1. UNCHANGED vars /\ UNCHANGED uiVars /\ seq' = seq
    BY <1>10 DEF allVars, vars
  <2>2. QED
    BY <2>1, UntouchedKeeps
<1>11. QED
  BY <1>1, <1>2, <1>3, <1>4, <1>5, <1>6, <1>7, <1>8, <1>9, <1>10 DEF RunsNext

-----------------------------------------------------------------------------
\* The action runner's invariant holds of every behaviour: the open modal agrees
\* with what it would do, every deferred preemption names a job whose killing was
\* accepted, and a key is answered by at most one job, Cmd or modal.
THEOREM RunsInvariance == RunsSpec => []RunsInv
<1>1. RunsInit => RunsInv
  BY RunsInitInv
<1>2. RunsInv /\ [RunsNext]_allVars => RunsInv'
  BY RunsNextInv
<1>3. QED
  BY <1>1, <1>2, PTL DEF RunsSpec

\* Every variable of the action runner keeps its type, and no more jobs are ever
\* started than keys asked for (action-runner.js, confirm.js, effects.js).
THEOREM RunsTyped == RunsSpec => []RunsTypeOK
<1>1. RunsInv => RunsTypeOK
  <2> SUFFICES ASSUME RunsInv PROVE RunsTypeOK
    OBVIOUS
  <2>1. /\ TypeOK /\ ModalSound /\ QueueSound /\ AnsweredOnce /\ oneShot \subseteq Addr
        /\ approved \subseteq 1..seq /\ unasked \subseteq 1..seq
    BY DEF RunsInv, IInv
  <2>2. /\ mode = "confirm" => continuation \in Cmds /\ continuation # NoCmd
        /\ mode # "confirm" => continuation = NoCmd
    BY <2>1 DEF ModalSound, SoundCmd, Cmds, NoCmd
  <2>3. /\ mode \in {"form", "field"} =>
             /\ form \in [action: Labels, confirmed: BOOLEAN, asked: BOOLEAN]
             /\ form # NoForm
        /\ mode \notin {"form", "field"} => form = NoForm
    <3>1. \A f \in [action: Labels, confirmed: BOOLEAN, asked: BOOLEAN]: f # NoForm
      BY DEF NoForm
    <3>2. QED
      BY <2>1, <3>1 DEF ModalSound
  <2>4. seq <= presses
    BY <2>1 DEF AnsweredOnce, QueueSound, Waiting, TypeOK
  <2>5. QED
    BY <2>1, <2>2, <2>3, <2>4 DEF RunsTypeOK, ModalSound, QueueSound, AnsweredOnce
<1>2. QED
  BY <1>1, RunsInvariance, PTL

\* The action runner drives the streams only as module Streams says that they
\* may be driven: everything proved of Spec's steps holds with the prompts, the
\* confirms and the deferred callbacks around it.
THEOREM RunsAreStreams == RunsSpec => Init /\ [][Next]_vars
<1>1. RunsInit => Init
  BY DEF RunsInit
<1>2. RunsInv /\ [RunsNext]_allVars => [Next]_vars
  BY RunsNextInv
<1>3. QED
  BY <1>1, <1>2, RunsInvariance, PTL DEF RunsSpec

\* The jobs that streamCommand ends in order to start a run in the Transcript are
\* those the caller named, and a former run of the same label.
LEMMA CommandKills ==
  ASSUME IInv, NEW K \in SUBSET (1..seq), NEW a \in Labels, NEW asked,
         StreamCommand(K, a, asked), seq' > seq, job'[seq'].slot = "unrouted",
         NEW j \in procs, j \notin procs', job'[seq'].label # job[j].label
  PROVE  j \in K
<1>1. seq \in Nat /\ procs \subseteq 1..seq
  BY DEF IInv, TypeOK
<1>2. ~MustAsk(K, a) /\ Start(K, a)
  BY <1>1 DEF StreamCommand, KillSilently, StartThrows
<1>3. PICK sp \in {"alive", "failed"}:
        /\ seq' = seq + 1
        /\ job' = [i \in 1..(seq + 1) |-> IF i = seq + 1 THEN NewJob(a, sp)
                                          ELSE JobsAfterKill(Preempted(K, a))[i]]
        /\ procs' = (procs \ Preempted(K, a)) \cup {seq + 1}
  BY <1>2 DEF Start
<1>4. job'[seq'] = NewJob(a, sp)
  BY <1>1, <1>3
<1>5. SlotOf(a) = "unrouted" /\ job[j].label # a
  BY <1>4 DEF NewJob
<1>6. j \in Preempted(K, a)
  BY <1>3
<1>7. CASE j = Occupant(K, a) /\ Occupant(K, a) # NoJob
  <2>1. job[Occupant(K, a)].label = a
    BY <1>2, <1>5, <1>7 DEF MustAsk
  <2>2. QED
    BY <1>5, <1>7, <2>1
<1>8. QED
  BY <1>6, <1>7 DEF Preempted

\* No run takes the Transcript from a running command of another label unless the
\* user accepted the killing of that very command: between the question and the
\* answer the command may end, and others may come; the deferred half names the
\* job that was asked about, and asks again about any other (streamCommand,
\* unrouted_preempt_and_run).
THEOREM PreemptionsApproved == RunsSpec => PreemptionApproved
<1> DEFINE Killed(j) == /\ seq' > seq /\ job'[seq'].slot = "unrouted"
                        /\ job[j].slot = "unrouted" /\ j \notin procs'
                        /\ job'[seq'].label # job[j].label
<1>1. RunsInv /\ [RunsNext]_allVars =>
        [\A j \in procs: Killed(j) => j \in approved]_allVars
  <2> SUFFICES ASSUME RunsInv, RunsNext, NEW j \in procs, Killed(j)
               PROVE  j \in approved
    OBVIOUS
  <2> /\ IInv /\ seq \in Nat /\ approved \subseteq 1..seq
    BY DEF RunsInv, IInv, TypeOK
  <2>1. {} \in SUBSET (1..seq)
    OBVIOUS
  <2>2. seq' # seq
    BY DEF Killed
  <2>3. ASSUME NEW a \in Labels, PressRun(a) PROVE j \in approved
    <3>1. StreamCommand({}, a, FALSE)
      BY <2>2, <2>3 DEF PressRun, RunAction, DoRun, Prompt, vars
    <3>2. QED
      BY <2>1, <3>1, CommandKills DEF Killed
  <2>4. ASSUME RunDeferred PROVE j \in approved
    <3>1. PICK K \in SUBSET approved:
            \/ UNCHANGED vars
            \/ StreamCommand(K, Head(deferred).action, Head(deferred).asked)
      BY <2>4, HeadRuns
    <3>2. Head(deferred).action \in Labels
      BY <2>4, HeadRuns
    <3>3. StreamCommand(K, Head(deferred).action, Head(deferred).asked)
      BY <2>2, <3>1 DEF vars
    <3>4. K \in SUBSET (1..seq)
      OBVIOUS
    <3>5. j \in K
      BY <3>2, <3>3, <3>4, CommandKills DEF Killed
    <3>6. QED
      BY <3>5
  <2>5. \/ \E a \in ItemActions: PressItem(a)
        \/ \E a \in EditArgs: PressEditArgs(a)
        \/ ConfirmAccept \/ ConfirmReject
        \/ \E filled \in SUBSET Ports: FormSubmit(filled)
        \/ FieldSubmit \/ PromptCancel \/ ToggleOther \/ CheckPhase
        => seq' = seq
    BY DEF PressItem, PressEditArgs, ConfirmAccept, ConfirmReject, FormSubmit,
           FieldSubmit, PromptCancel, ToggleOther, CheckPhase, vars
  <2>6. StreamStep => seq' = seq
    BY DEF StreamStep, ChildEvent, CloseEvent, ErrorEvent, Finish, Exit,
           Cancel, KillJob, Quit, KillSilently
  <2>7. QED
    BY <2>2, <2>3, <2>4, <2>5, <2>6 DEF RunsNext
<1>2. QED
  BY <1>1, RunsInvariance, PTL DEF RunsSpec, PreemptionApproved
=============================================================================
