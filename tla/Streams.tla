------------------------------ MODULE Streams ------------------------------
(***************************************************************************)
(* Streamed shell commands: js/dispatch/runtime/stream.js with the two     *)
(* registries it feeds, js/feature/jobs.js and js/feature/history.js.      *)
(*                                                                         *)
(* A run occupies a SLOT: the singleton "unrouted" slot whose output goes  *)
(* to the Transcript, or the per-action slot of an action with a tab of    *)
(* its own.  The code keeps two maps, procs (job -> context) and slotIndex *)
(* (slot -> job), and changes them from three kinds of callers that the    *)
(* event loop interleaves: a new run, a user's cancel, and the child       *)
(* process's own "data", "error" and "close" events.  A job whose process  *)
(* was preempted still gets its "close" event, after another job may have  *)
(* taken its slot.                                                         *)
(*                                                                         *)
(* A definition named X_Suffix is a faulty variant of X, a plausible bug;  *)
(* no specification uses it: PROJECT.json's mutants put it in X's place to *)
(* show that a property would notice.                                      *)
(***************************************************************************)
EXTENDS Naturals, FiniteSets

CONSTANTS Labels,     \* headerLabel of a run (an action key, a docker verb)
          Slots,      \* the actions that have a tab of their own: the key of
                      \* such an action stands for its slot, too
          Producers,  \* the fabric actions, whose output is published
          MaxJobs     \* bound on the jobs ever started

ASSUME StreamsAssumption ==
  /\ Slots \subseteq Labels
  /\ "unrouted" \notin Slots
  /\ Producers \subseteq Slots
  /\ MaxJobs \in Nat

Slot  == Slots \cup {"unrouted"}
NoJob == 0

\* The slot of a run.
SlotOf(l) == IF l \in Slots THEN l ELSE "unrouted"

\* What the three stores and the closure of one streamCommand call hold for a
\* job: the slot and label of its context, its registry status ("cleared" once
\* clearCompleted dropped it), whether its history record is still open, its
\* child process, whether its pipes are open (by it, or by a process it started
\* and left behind), whether SIGTERM was sent, and whether the data listeners
\* are attached.
JobRec == [slot: Slot, label: Labels,
           status: {"running", "exited", "killed", "cleared"},
           record: {"open", "ended", "killed"},
           os: {"alive", "failed", "exited", "closing", "gone"},
           piped: BOOLEAN, termed: BOOLEAN, listening: BOOLEAN]

VARIABLES
  seq,        \* jobs._seq: the jobs registered so far are 1..seq
  job,        \* [1..seq -> JobRec]
  procs,      \* keys of the procs map
  slotIndex,  \* slot -> the job that owns it
  display,    \* slot -> the run whose header was written last, and the jobs
              \* that wrote to the view since
  fabricOut,  \* producer -> the job whose output was published last
  down        \* cleanup has run

vars == <<seq, job, procs, slotIndex, display, fabricOut, down>>

Init ==
  /\ seq = 0
  /\ job = [j \in {} |-> 0]
  /\ procs = {}
  /\ slotIndex = [s \in Slot |-> NoJob]
  /\ display = [s \in Slot |-> [head |-> NoJob, since |-> {}]]
  /\ fabricOut = [s \in Producers |-> NoJob]
  /\ down = FALSE

(***************************************************************************)
(* jobs.close and the record's end are idempotent.                         *)
(***************************************************************************)
CloseAs(r, st)   == IF r.status = "running" THEN st ELSE r.status
EndRecord(r, st) == IF r.record = "open" THEN st ELSE r.record

(***************************************************************************)
(* killJob, for a set K of jobs (one, or all of them on the way out).  A   *)
(* job that is not in procs any more is left alone.                        *)
(***************************************************************************)
KilledRec_RecordOpen(r) ==
  [r EXCEPT !.termed = TRUE, !.listening = FALSE, !.status = CloseAs(r, "killed")]
KilledRec_NoSignal(r) ==
  [r EXCEPT !.listening = FALSE,
            !.status = CloseAs(r, "killed"), !.record = EndRecord(r, "killed")]
KilledRec_StillListens(r) ==
  [r EXCEPT !.termed = TRUE,
            !.status = CloseAs(r, "killed"), !.record = EndRecord(r, "killed")]

KilledRec(r) ==
  [r EXCEPT !.termed = TRUE, !.listening = FALSE,
            !.status = CloseAs(r, "killed"), !.record = EndRecord(r, "killed")]

JobsAfterKill(K) ==
  [j \in DOMAIN job |-> IF j \in K \cap procs THEN KilledRec(job[j]) ELSE job[j]]

SlotsAfterKill(K) ==
  [s \in Slot |-> IF slotIndex[s] \in K \cap procs THEN NoJob ELSE slotIndex[s]]

\* The view of a job's slot after the job wrote to it.
Wrote(j) == [display EXCEPT ![job[j].slot].since = @ \cup {j}]

\* killJob with its footer, status chip and hint (not silent).
KillJob(j) ==
  /\ job' = JobsAfterKill({j})
  /\ slotIndex' = SlotsAfterKill({j})
  /\ procs' = procs \ {j}
  /\ display' = IF j \in procs THEN Wrote(j) ELSE display
  /\ UNCHANGED <<seq, fabricOut, down>>

\* killJob for several jobs, silently.
KillSilently(K) ==
  /\ job' = JobsAfterKill(K)
  /\ slotIndex' = SlotsAfterKill(K)
  /\ procs' = procs \ K
  /\ UNCHANGED <<seq, display, fabricOut>>

(***************************************************************************)
(* streamCommand.  K are the jobs the caller has just killed.              *)
(***************************************************************************)
Occupant(K, l) == SlotsAfterKill(K)[SlotOf(l)]

\* Everything that is dead before the new run is spawned.
Preempted_CallerOnly(K, l) == K
Preempted(K, l) == K \cup ({Occupant(K, l)} \ {NoJob})

\* The unrouted slot is busy with a run of another label: ask, do not start.
MustAsk(K, l) ==
  /\ SlotOf(l) = "unrouted"
  /\ Occupant(K, l) # NoJob
  /\ job[Occupant(K, l)].label # l

NewJob(l, spawned) ==
  [slot |-> SlotOf(l), label |-> l, status |-> "running", record |-> "open",
   os |-> spawned, piped |-> spawned = "alive", termed |-> FALSE, listening |-> TRUE]

\* Kill the occupant, reseed the view, spawn and register.  spawn yields a live
\* child, or one whose "error" event is on its way.
Start(K, l) ==
  LET kill == Preempted(K, l)
      id   == seq + 1
  IN  \E spawned \in {"alive", "failed"}:
        /\ seq' = id
        /\ job' = [j \in 1..id |-> IF j = id THEN NewJob(l, spawned)
                                   ELSE JobsAfterKill(kill)[j]]
        /\ procs' = (procs \ kill) \cup {id}
        /\ slotIndex' = [SlotsAfterKill(kill) EXCEPT ![SlotOf(l)] = id]
        /\ display' = [display EXCEPT ![SlotOf(l)] = [head |-> id, since |-> {}]]
        /\ UNCHANGED <<fabricOut, down>>

\* spawn threw: the occupant is dead and the view reseeded, but no job exists.
StartThrows(K, l) ==
  /\ job' = JobsAfterKill(Preempted(K, l))
  /\ slotIndex' = SlotsAfterKill(Preempted(K, l))
  /\ procs' = procs \ Preempted(K, l)
  /\ display' = [display EXCEPT ![SlotOf(l)] = [head |-> NoJob, since |-> {}]]
  /\ UNCHANGED <<seq, fabricOut, down>>

Run(l) ==
  /\ ~down
  /\ seq < MaxJobs
  /\ ~MustAsk({}, l)
  /\ Start({}, l) \/ StartThrows({}, l)

\* unrouted_preempt_and_run, once its confirmation was accepted: kill the job
\* that was named, then run; a third job that took the slot meanwhile is asked
\* about again.
PreemptAndRun(j, l) ==
  /\ ~down
  /\ seq < MaxJobs
  /\ job[j].slot = "unrouted" /\ SlotOf(l) = "unrouted"
  /\ job[j].label # l
  /\ IF MustAsk({j}, l)
     THEN KillSilently({j}) /\ UNCHANGED down
     ELSE Start({j}, l) \/ StartThrows({j}, l)

\* kill_job: the user cancels a job of the jobs list, finished or not.
Cancel(j) == ~down /\ KillJob(j)

\* jobs.clearCompleted.
ClearCompleted ==
  /\ ~down
  /\ \E j \in 1..seq: job[j].status \in {"exited", "killed"}
  /\ job' = [j \in DOMAIN job |->
               IF job[j].status = "running" THEN job[j]
               ELSE [job[j] EXCEPT !.status = "cleared"]]
  /\ UNCHANGED <<seq, procs, slotIndex, display, fabricOut, down>>

(***************************************************************************)
(* The child process and its events.                                       *)
(***************************************************************************)
\* onData: the lines of a chunk go to the view (and to the record's output).
Data(j) ==
  /\ ~down
  /\ job[j].os \in {"alive", "exited"} /\ job[j].piped
  /\ job[j].listening
  /\ display' = Wrote(j)
  /\ UNCHANGED <<seq, job, procs, slotIndex, fabricOut, down>>

\* The process ends, by itself or from a signal.
Exit(j) ==
  /\ job[j].os = "alive"
  /\ job' = [job EXCEPT ![j].os = "exited"]
  /\ UNCHANGED <<seq, procs, slotIndex, display, fabricOut, down>>

\* The last holder of the pipes closes them, and what was in them is read: the
\* child before it ends, or whatever it left behind, at any time or never.
PipesEnd(j) ==
  /\ job[j].piped
  /\ job' = [job EXCEPT ![j].piped = FALSE]
  /\ UNCHANGED <<seq, procs, slotIndex, display, fabricOut, down>>

\* What "close" waits for: the end of the process and of its pipes.
Drained(j) == job[j].os = "exited" /\ ~job[j].piped

Finish_NotClosed(j, status, os) ==
  /\ job' = [job EXCEPT ![j].os = os, ![j].record = "ended"]
  /\ procs' = procs \ {j}
  /\ slotIndex' = [slotIndex EXCEPT ![job[j].slot] = NoJob]
  /\ display' = Wrote(j)
  /\ UNCHANGED <<seq, fabricOut, down>>

\* What "close" and "error" do to a job that is still in procs.
Finish(j, status, os) ==
  /\ job' = [job EXCEPT ![j] = [@ EXCEPT !.os = os,
               !.status = CloseAs(job[j], status),
               !.record = EndRecord(job[j], "ended")]]
  /\ procs' = procs \ {j}
  /\ slotIndex' = IF slotIndex[job[j].slot] = j
                  THEN [slotIndex EXCEPT ![job[j].slot] = NoJob] ELSE slotIndex
  /\ display' = Wrote(j)
  /\ fabricOut' = IF job[j].slot \in Producers
                  THEN [fabricOut EXCEPT ![job[j].slot] = j] ELSE fabricOut
  /\ UNCHANGED <<seq, down>>

CloseEvent_NoBail(j) ==
  /\ ~down
  /\ Drained(j) \/ job[j].os = "closing"
  /\ \E status \in {"exited", "killed"}: Finish(j, status, "gone")
CloseEvent_Overwrites(j) ==
  /\ ~down
  /\ Drained(j) \/ job[j].os = "closing"
  /\ IF j \in procs THEN Finish(j, "exited", "gone")
     ELSE /\ job' = [job EXCEPT ![j].os = "gone", ![j].status = "exited"]
          /\ UNCHANGED <<seq, procs, slotIndex, display, fabricOut, down>>

\* proc.on('close'): after the process ended and its pipes drained.
CloseEvent(j) ==
  /\ ~down
  /\ Drained(j) \/ job[j].os = "closing"
  /\ IF j \in procs
     THEN \E status \in {"exited", "killed"}: Finish(j, status, "gone")
     ELSE /\ job' = [job EXCEPT ![j].os = "gone"]
          /\ UNCHANGED <<seq, procs, slotIndex, display, fabricOut, down>>

\* proc.on('error'): the spawn failed; no data, but a "close" follows.
ErrorEvent(j) ==
  /\ ~down
  /\ job[j].os = "failed"
  /\ IF j \in procs
     THEN Finish(j, "killed", "closing")
     ELSE /\ job' = [job EXCEPT ![j].os = "closing"]
          /\ UNCHANGED <<seq, procs, slotIndex, display, fabricOut, down>>

\* cleanup: killAll, then the process exits; the children go on by themselves.
Quit ==
  /\ ~down
  /\ KillSilently(procs)
  /\ down' = TRUE

Next ==
  \/ \E l \in Labels: Run(l)
  \/ \E j \in 1..seq:
       \/ \E l \in Labels: PreemptAndRun(j, l)
       \/ Cancel(j)
       \/ Data(j)
       \/ Exit(j)
       \/ PipesEnd(j)
       \/ CloseEvent(j)
       \/ ErrorEvent(j)
  \/ ClearCompleted
  \/ Quit

\* Node delivers the events of a child; nothing says that a child ends, or that
\* the last holder of its pipes lets them go.
Fairness == \A j \in 1..MaxJobs: WF_vars(j \in 1..seq /\ (CloseEvent(j) \/ ErrorEvent(j)))

Spec == Init /\ [][Next]_vars /\ Fairness
-----------------------------------------------------------------------------
\* The types of the variables.
TypeOK ==
  /\ seq \in 0..MaxJobs
  /\ job \in [1..seq -> JobRec]
  /\ procs \subseteq 1..seq
  /\ slotIndex \in [Slot -> 0..seq]
  /\ display \in [Slot -> [head: 0..seq, since: SUBSET (1..seq)]]
  /\ fabricOut \in [Producers -> 0..seq]
  /\ down \in BOOLEAN

\* procs and slotIndex describe one relation: a live job owns its slot, and a
\* slot is owned by a live job.  So no slot ever has two live jobs, no live job
\* is out of reach of the next run's preemption, and a late event of a
\* preempted job has not freed the slot of its successor (stream.js's two maps).
SlotOwnership ==
  /\ \A j \in procs: slotIndex[job[j].slot] = j
  /\ \A s \in Slot: slotIndex[s] # NoJob =>
       slotIndex[s] \in procs /\ job[slotIndex[s]].slot = s

\* The three stores agree on which jobs are alive: a job is in procs exactly
\* while the jobs list shows it running and its history record is open
\* (jobs.close, record.end/kill and procs.delete on all of the ways out).
StoresAgree ==
  \A j \in 1..seq:
    /\ j \in procs <=> job[j].status = "running"
    /\ j \in procs <=> job[j].record = "open"

\* No child is forgotten: a process that runs and that no job controls any more
\* has been sent SIGTERM, also after the program quit.
NoStrayProcess ==
  \A j \in 1..seq: job[j].os = "alive" /\ j \notin procs => job[j].termed

\* What a view shows below a run's header was written by that run: a preempted
\* or finished run never writes into its successor's output.
ViewBelongsToRun ==
  \A s \in Slot: display[s].since \subseteq {display[s].head}

\* A fabric producer's published output never goes back to an earlier run's.
OutputFresh ==
  [][\A s \in Producers: fabricOut'[s] >= fabricOut[s]]_vars

\* A job that is over stays over, with the outcome it had, until it is cleared
\* from the list; in particular the "close" that follows "error" or a kill
\* changes nothing.
OutcomeFinal ==
  [][\A j \in 1..seq: job[j].status # "running" =>
       job'[j].status \in {job[j].status, "cleared"}
       /\ job'[j].record = job[j].record]_vars

\* When the process of a job ended and its pipes did, or could not be spawned,
\* the job does not stay in the list as running (unless the program quits
\* first).  A process it left behind that holds the pipe does keep it there,
\* for as long as it likes: the handler is on "close", not on "exit".
EndedJobCloses ==
  \A j \in 1..MaxJobs:
    (j \in 1..seq /\ (Drained(j) \/ job[j].os = "failed"))
      ~> (down \/ ~(j \in 1..seq /\ job[j].status = "running"))
=============================================================================
