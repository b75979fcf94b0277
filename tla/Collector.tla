------------------------------ MODULE Collector ------------------------------
(***************************************************************************)
(* The process in polling mode, with all its pipelines: _build_polling,    *)
(* main, and core/scheduler.py.  Every enabled pipeline is a job of        *)
(* APScheduler on a pool of as many threads as there are pipelines; a tick *)
(* loads the checkpoint, and for one object after the other processes it   *)
(* and saves the checkpoint.  All pipelines share one directory of         *)
(* checkpoints.                                                            *)
(*                                                                         *)
(* A tick is Pipeline's, with what it does to the checkpoint file in steps *)
(* and the rest in one: the object at the checkpoint is processed, or the  *)
(* tick ends.  The tick of a Hanging pipeline may never come back.         *)
(***************************************************************************)
EXTENDS CheckpointStore, Sequences

CONSTANTS
  Order,     \* the pipelines in the order of the configuration
  Hanging,
  MaxObjects, MaxFaults, MaxStops  \* bounds

ASSUME CollectorAssumption ==
  /\ Order \in Seq(Pipelines) /\ Pipelines = {Order[i] : i \in 1 .. Len(Order)}
  /\ Hanging \subseteq Pipelines
  /\ Missing \notin Nat /\ Corrupt \notin Nat /\ Missing # Corrupt
  /\ MaxObjects \in Nat /\ MaxFaults \in Nat /\ MaxStops \in Nat

VARIABLES
  phase,   \* "down", "building", "running", "stopping"
  at,      \* while building: the number of the pipeline in Order
  job,     \* of each pipeline: "waiting", "queued", "load", "work", "save", "fresh"
  done,    \*   the objects it has processed or, at a fresh checkpoint, left behind
  faults, stops

vars == <<storeVars, phase, at, job, done, faults, stops>>

Init ==
  /\ StoreInit
  /\ phase = "down" /\ at = 1
  /\ job = [p \in Pipelines |-> "waiting"] /\ done = [p \in Pipelines |-> 0]
  /\ faults = 0 /\ stops = 0

Fault == faults < MaxFaults /\ faults' = faults + 1
Becomes(p, state) == job' = [job EXCEPT ![p] = state]

Positions == 0 .. MaxObjects
-----------------------------------------------------------------------------
(* _build_polling, in the main thread *)

Start ==
  /\ phase = "down"
  /\ phase' = "building" /\ at' = 1
  /\ UNCHANGED <<storeVars, job, done, faults, stops>>

Building(p) == phase = "building" /\ at <= Len(Order) /\ p = Order[at] /\ saving[p] = "none"

Found(p) ==
  /\ Building(p) /\ Saved(p) \in Nat
  /\ at' = at + 1
  /\ UNCHANGED <<storeVars, phase, job, done, faults, stops>>

\* A fresh checkpoint is at now - lookback, which may be before or past any object.
BeginFresh(p) == \E position \in Positions : BeginSave(p, position)

FirstSave(p) ==
  /\ Building(p) /\ Saved(p) = Missing
  /\ BeginFresh(p)
  /\ UNCHANGED <<phase, at, job, done, faults, stops>>

\* CheckpointError: the process ends, as it does at every later start.
StartFails(p) ==
  /\ Building(p) /\ Saved(p) = Corrupt
  /\ phase' = "down"
  /\ UNCHANGED <<storeVars, at, job, done, faults, stops>>

\* The same for a good file that cannot be read this time.
StartReadFails(p) ==
  /\ Building(p) /\ Saved(p) \in Nat /\ Fault
  /\ phase' = "down"
  /\ UNCHANGED <<storeVars, at, job, done, stops>>

StartScheduler ==
  /\ phase = "building" /\ at > Len(Order)
  /\ phase' = "running"
  /\ UNCHANGED <<storeVars, at, job, done, faults, stops>>
-----------------------------------------------------------------------------
(* Jobs *)

\* Mutant of Workers: APScheduler's jobs share one thread.
WorkersOne == 1

Workers == IF Pipelines = {} THEN 1 ELSE Cardinality(Pipelines)

Busy == {p \in Pipelines : job[p] \notin {"waiting", "queued"}}

\* The interval is over; a run due while the last one is in progress is skipped
\* (max_instances) and runs that are late are made one (coalesce).
Trigger(p) ==
  /\ phase = "running" /\ job[p] = "waiting"
  /\ Becomes(p, "queued")
  /\ UNCHANGED <<storeVars, phase, at, done, faults, stops>>

\* Mutant of TakeJob: after the stop no queued job is begun.
TakeJobRunning(p) ==
  /\ phase = "running"
  /\ job[p] = "queued" /\ Cardinality(Busy) < Workers
  /\ Becomes(p, "load")
  /\ UNCHANGED <<storeVars, phase, at, done, faults, stops>>

\* A thread of the pool takes a job, during shutdown(wait=True) as well.
TakeJob(p) ==
  /\ job[p] = "queued" /\ Cardinality(Busy) < Workers
  /\ Becomes(p, "load")
  /\ UNCHANGED <<storeVars, phase, at, done, faults, stops>>

Load(p) ==
  /\ job[p] = "load" /\ Saved(p) \in Nat
  /\ Becomes(p, "work")
  /\ cp' = [cp EXCEPT ![p] = Saved(p)]
  /\ UNCHANGED <<file, synced, saving, litter, phase, at, done, faults, stops>>

\* Without a file the tick begins with the objects of yesterday, wherever they are.
LoadMissing(p) ==
  /\ job[p] = "load" /\ Saved(p) = Missing
  /\ Becomes(p, "work")
  /\ \E position \in Positions : cp' = [cp EXCEPT ![p] = position]
  /\ UNCHANGED <<file, synced, saving, litter, phase, at, done, faults, stops>>

\* CheckpointError is caught here, and a fresh checkpoint saved.
Reset(p) ==
  /\ BeginFresh(p)
  /\ Becomes(p, "fresh")
  /\ UNCHANGED <<phase, at, done, stops>>

LoadCorrupt(p) ==
  /\ job[p] = "load" /\ Saved(p) = Corrupt
  /\ Reset(p) /\ UNCHANGED faults

\* Every error of reading is a CheckpointError, of a good file as well.
LoadFails(p) ==
  /\ job[p] = "load" /\ Saved(p) \in Nat /\ Fault
  /\ Reset(p)

\* Mutant of ProcessFile: an object is taken to be left.
ProcessFilePast(p) ==
  /\ job[p] = "work"
  /\ BeginSave(p, cp[p] + 1)
  /\ done' = [done EXCEPT ![p] = IF cp[p] >= @ THEN cp[p] + 1 ELSE @]
  /\ Becomes(p, "save")
  /\ UNCHANGED <<phase, at, faults, stops>>

\* The object at the checkpoint is listed, processed and flushed.
ProcessFile(p) ==
  /\ job[p] = "work" /\ cp[p] < MaxObjects
  /\ BeginSave(p, cp[p] + 1)
  /\ done' = [done EXCEPT ![p] = IF cp[p] >= @ THEN cp[p] + 1 ELSE @]
  /\ Becomes(p, "save")
  /\ UNCHANGED <<phase, at, faults, stops>>

\* No object is left, or max_files_per_tick were taken.
TickEnds(p) ==
  /\ job[p] = "work"
  /\ Becomes(p, "waiting")
  /\ UNCHANGED <<storeVars, phase, at, done, faults, stops>>
-----------------------------------------------------------------------------
(* A save, of a tick or of _build_polling *)

SaveGoesOn(p) ==
  /\ MakeTemp(p) \/ Dump(p)
  /\ UNCHANGED <<phase, at, job, done, faults, stops>>

SaveEnds(p) ==
  /\ Replace(p)
  /\ IF phase = "building" THEN at' = at + 1 /\ UNCHANGED job
                           ELSE Becomes(p, "work") /\ UNCHANGED at
  /\ IF job[p] = "save" THEN UNCHANGED done
     ELSE done' = [done EXCEPT ![p] = IF @ < cp[p] THEN cp[p] ELSE @]
  /\ UNCHANGED <<phase, faults, stops>>

\* The exception ends the tick, or the process that was starting.
Raised(p) ==
  /\ IF phase = "building" THEN phase' = "down" /\ UNCHANGED job
                           ELSE Becomes(p, "waiting") /\ UNCHANGED phase
  /\ UNCHANGED <<at, done, stops>>

SaveFails(p) ==
  /\ Fault
  /\ \/ WriteFails(p) /\ UNCHANGED <<phase, at, job, done, stops>>
     \/ MakeTempFails(p) /\ Raised(p)
     \/ UnlinkFails(p) /\ Raised(p)

SaveRaises(p) == Unlinked(p) /\ Raised(p) /\ UNCHANGED faults
-----------------------------------------------------------------------------
Nothing == \A p \in Pipelines : job[p] = "waiting"

\* SIGINT: run_forever leaves the scheduler's loop.
Interrupt ==
  /\ phase = "running" /\ stops < MaxStops /\ stops' = stops + 1
  /\ phase' = "stopping"
  /\ UNCHANGED <<storeVars, at, job, done, faults>>

\* shutdown(wait=True) comes back when no job is left; the sinks are closed, and the
\* process ends.
ShutDown ==
  /\ phase = "stopping" /\ Nothing
  /\ phase' = "down"
  /\ UNCHANGED <<storeVars, at, job, done, faults, stops>>

Ends == phase' = "down" /\ job' = [p \in Pipelines |-> "waiting"]

Crash ==
  /\ phase # "down" /\ stops < MaxStops /\ stops' = stops + 1
  /\ StoreCrash /\ Ends
  /\ UNCHANGED <<file, synced, at, done, faults>>

PowerFailure ==
  /\ stops < MaxStops /\ stops' = stops + 1
  /\ StoreCrash /\ Ends
  /\ \E survives \in [Paths -> UNION {AfterPowerFailure(f) : f \in Paths}] :
       /\ \A f \in Paths : survives[f] \in AfterPowerFailure(f)
       /\ file' = survives /\ synced' = survives
  /\ UNCHANGED <<at, done, faults>>

Damage ==
  /\ Fault
  /\ \E f \in Paths : Spoil(f)
  /\ UNCHANGED <<phase, at, job, done, stops>>

SyncFile ==
  /\ \E f \in Paths : WriteBack(f)
  /\ UNCHANGED <<phase, at, job, done, faults, stops>>

Build(p)  == Found(p) \/ FirstSave(p) \/ StartFails(p)
Saving(p) == SaveGoesOn(p) \/ SaveEnds(p) \/ SaveRaises(p)
Tick(p)   == \/ Load(p) \/ LoadMissing(p) \/ LoadCorrupt(p)
             \/ ProcessFile(p) \/ TickEnds(p) \/ Saving(p)
Fails(p)  == StartReadFails(p) \/ LoadFails(p) \/ SaveFails(p)

Next ==
  \/ Start \/ StartScheduler \/ Interrupt \/ ShutDown
  \/ Crash \/ PowerFailure \/ Damage \/ SyncFile
  \/ \E p \in Pipelines : Build(p) \/ Trigger(p) \/ TakeJob(p) \/ Tick(p) \/ Fails(p)

Spec == Init /\ [][Next]_vars

\* The main thread goes on, and the process is started again (systemd:
\* Restart=always); intervals end, idle threads take jobs, and a tick goes on unless
\* it hangs.
FairSpec ==
  /\ Spec
  /\ WF_vars(Start \/ StartScheduler \/ ShutDown)
  /\ WF_vars(phase = "building" /\ \E p \in Pipelines : Build(p) \/ Saving(p))
  /\ \A p \in Pipelines :
       /\ WF_vars(Trigger(p))
       /\ WF_vars(TakeJob(p))
       /\ p \notin Hanging => WF_vars(Tick(p))
-----------------------------------------------------------------------------
TypeOK ==
  /\ file \in [Paths -> Positions \union {Missing, Corrupt}]
  /\ synced \in [Paths -> Positions \union {Missing, Corrupt}]
  /\ saving \in [Pipelines -> {"none", "mkstemp", "dump", "replace", "unlink"}]
  /\ cp \in [Pipelines -> Positions] /\ litter \in Nat
  /\ phase \in {"down", "building", "running", "stopping"}
  /\ at \in 1 .. Len(Order) + 1
  /\ job \in [Pipelines -> {"waiting", "queued", "load", "work", "save", "fresh"}]
  /\ done \in [Pipelines -> Positions]
  /\ faults \in 0 .. MaxFaults /\ stops \in 0 .. MaxStops

\* Pipelines whose file no other pipeline writes (names may differ only in a
\* slash, which _path replaces).
Alone == {p \in Pipelines : \A q \in Pipelines \ {p} : PathOf(q) # PathOf(p)}

\* save leaves no temporary file behind but where the removal of one failed, after
\* the call that failed before it, or the process died in the middle of a save.
TempsAccountedFor == litter <= faults \div 2 + stops * Cardinality(Pipelines)

\* A fresh checkpoint is about to be saved.
Renews(p) == job[p] = "fresh" \/ (phase = "building" /\ saving[p] # "none")

Renewing == {p \in Alone : Renews(p)}

Registers ==
  INSTANCE Register
    WITH Owners <- Alone, reg <- [p \in Alone |-> Saved(p)],
         done <- [p \in Alone |-> done[p]], renewing <- Renewing, errors <- faults

\* "persisted atomically" (checkpoint.py:1): with threads, failures and crashes in
\* the middle of saves, each pipeline's file behaves as a register of its own,
\* whatever the other jobs save at the same time.  Objects it goes past without
\* having processed them are those of a fresh checkpoint, or of a tick without one,
\* and a fresh checkpoint comes only after a file that is damaged or missing, or a
\* read that failed.  Otherwise, losses of power aside, the file goes on by one object
\* at a time, which the pipeline has processed, and never back.
IsRegister == Registers!IsRegister

\* A tick that never ends keeps no other pipeline from being run again and again
\* (as many threads as pipelines), while the process is up and can start.
NobodyStarves ==
  \A p \in Pipelines \ Hanging :
    \/ []<>(job[p] = "work")
    \/ <>[](phase = "stopping")
    \/ <>[](\E q \in Pipelines : Saved(q) = Corrupt)

\* shutdown(wait=True) comes back, unless a tick hangs.
StopEnds ==
  phase = "stopping" ~> phase = "down" \/ \E p \in Hanging : job[p] # "waiting"
=============================================================================
