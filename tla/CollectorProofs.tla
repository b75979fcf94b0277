--------------------------- MODULE CollectorProofs ---------------------------
(* Proofs about Collector, for every configuration of pipelines and any    *)
(* number of objects, failures and ends of the process.                    *)
EXTENDS Collector, FiniteSetTheorems, TLAPS

USE DEF storeVars

-----------------------------------------------------------------------------
(* Type correctness.                                                       *)

\* No job is in progress before the scheduler runs, and a save belongs to a tick
\* or to the pipeline being built.
SavesBelong ==
  /\ phase \in {"down", "building"} => \A p \in Pipelines : job[p] = "waiting"
  /\ \A p \in Pipelines : saving[p] # "none" =>
       \/ job[p] \in {"save", "fresh"}
       \/ phase = "building" /\ at <= Len(Order) /\ p = Order[at]

\* What a file may contain.
Contents == Positions \union {Missing, Corrupt}

\* The constants, as the proofs use them.
LEMMA ConstantTypes ==
  /\ Len(Order) \in Nat /\ MaxObjects \in Nat /\ MaxFaults \in Nat /\ MaxStops \in Nat
  /\ \A i \in 1 .. Len(Order) : Order[i] \in Pipelines
  /\ \A n \in Nat : n # Missing /\ n # Corrupt
  /\ 0 \in Positions /\ Positions \subseteq Nat
  /\ \A p \in Pipelines : PathOf(p) \in Paths
BY CollectorAssumption DEF Positions, Paths

\* The initial state has the types, and no job is saving.
LEMMA InitTypes == Init => TypeOK /\ SavesBelong
BY ConstantTypes DEF Init, StoreInit, TypeOK, SavesBelong

\* What is saved was loaded or counted up from there.
LEMMA SavedType ==
  ASSUME TypeOK, NEW p \in Pipelines
  PROVE  /\ Saved(p) \in Contents
         /\ Saved(p) \in Nat => Saved(p) \in Positions
BY ConstantTypes DEF TypeOK, Saved, Contents

\* The steps of the main thread that leave the files alone.
LEMMA MainTypes ==
  ASSUME TypeOK, SavesBelong,
         \/ Start \/ StartScheduler \/ Interrupt \/ ShutDown \/ UNCHANGED vars
         \/ \E p \in Pipelines : Build(p)
  PROVE  TypeOK' /\ SavesBelong'
<1>. USE ConstantTypes DEF TypeOK, SavesBelong
<1>1. CASE Start \/ StartScheduler
  BY <1>1 DEF Start, StartScheduler
<1>2. CASE Interrupt \/ ShutDown \/ UNCHANGED vars
  BY <1>2 DEF Interrupt, ShutDown, Nothing, vars
<1>3. ASSUME NEW p \in Pipelines, Found(p) PROVE TypeOK' /\ SavesBelong'
  BY <1>3 DEF Found, Building
<1>4. ASSUME NEW p \in Pipelines, FirstSave(p) PROVE TypeOK' /\ SavesBelong'
  BY <1>4 DEF FirstSave, Building, BeginFresh, BeginSave
<1>5. ASSUME NEW p \in Pipelines, StartFails(p) PROVE TypeOK' /\ SavesBelong'
  BY <1>5 DEF StartFails, Building
<1>. QED
  BY <1>1, <1>2, <1>3, <1>4, <1>5 DEF Build

\* The steps of a tick up to its save.
LEMMA JobTypes ==
  ASSUME TypeOK, SavesBelong, NEW p \in Pipelines,
         \/ Trigger(p) \/ TakeJob(p) \/ Load(p) \/ LoadMissing(p) \/ LoadCorrupt(p)
         \/ LoadFails(p) \/ ProcessFile(p) \/ TickEnds(p)
  PROVE  TypeOK' /\ SavesBelong'
<1>. USE ConstantTypes DEF TypeOK, SavesBelong, Becomes
<1>1. CASE Trigger(p)
  BY <1>1 DEF Trigger
<1>2. CASE TakeJob(p)
  BY <1>2 DEF TakeJob
<1>3. CASE Load(p) \/ LoadMissing(p)
  BY <1>3, SavedType DEF Load, LoadMissing
<1>4. CASE LoadCorrupt(p) \/ LoadFails(p)
  <2>1. PICK position \in Positions : BeginSave(p, position)
    BY <1>4 DEF LoadCorrupt, LoadFails, Reset, BeginFresh
  <2>2. /\ job[p] = "load" /\ job' = [job EXCEPT ![p] = "fresh"]
        /\ UNCHANGED <<phase, at, done, stops>>
        /\ faults' = faults \/ (faults < MaxFaults /\ faults' = faults + 1)
    BY <1>4 DEF LoadCorrupt, LoadFails, Reset, Fault
  <2>3. TypeOK'
    BY <2>1, <2>2 DEF BeginSave
  <2>4. SavesBelong'
    BY <2>1, <2>2 DEF BeginSave
  <2>. QED
    BY <2>3, <2>4
<1>5. CASE ProcessFile(p)
  <2>1. /\ cp[p] + 1 \in Positions
        /\ (IF cp[p] >= done[p] THEN cp[p] + 1 ELSE done[p]) \in Positions
    BY <1>5 DEF ProcessFile, Positions
  <2>. QED
    BY <1>5, <2>1 DEF ProcessFile, BeginSave
<1>6. CASE TickEnds(p)
  BY <1>6 DEF TickEnds
<1>. QED
  BY <1>1, <1>2, <1>3, <1>4, <1>5, <1>6

\* A start that fails to read a good file.
LEMMA StartFailTypes ==
  ASSUME TypeOK, SavesBelong, NEW p \in Pipelines, StartReadFails(p)
  PROVE  TypeOK' /\ SavesBelong'
BY ConstantTypes DEF TypeOK, SavesBelong, StartReadFails, Building, Fault

\* The steps of a save.
LEMMA SaveTypes ==
  ASSUME TypeOK, SavesBelong, NEW p \in Pipelines, Saving(p) \/ SaveFails(p)
  PROVE  TypeOK' /\ SavesBelong'
<1>. USE ConstantTypes DEF TypeOK, SavesBelong, Becomes, Goes
<1>1. CASE SaveGoesOn(p)
  BY <1>1 DEF SaveGoesOn, MakeTemp, Dump
<1>2. CASE SaveEnds(p)
  BY <1>2 DEF SaveEnds, Replace
<1>3. CASE SaveRaises(p)
  BY <1>3 DEF SaveRaises, Unlinked, Raised
<1>4. CASE SaveFails(p)
  <2>1. faults' \in 0 .. MaxFaults
    BY <1>4 DEF SaveFails, Fault
  <2>2. CASE WriteFails(p) /\ UNCHANGED <<phase, at, job, done, stops>>
    BY <2>1, <2>2 DEF WriteFails
  <2>3. CASE MakeTempFails(p) /\ Raised(p)
    BY <2>1, <2>3 DEF MakeTempFails, Raised
  <2>4. CASE UnlinkFails(p) /\ Raised(p)
    BY <2>1, <2>4 DEF UnlinkFails, Raised
  <2>. QED
    BY <1>4, <2>2, <2>3, <2>4 DEF SaveFails
<1>. QED
  BY <1>1, <1>2, <1>3, <1>4 DEF Saving

\* There are finitely many pipelines.
LEMMA PipelinesFinite ==
  /\ IsFiniteSet(Pipelines) /\ Cardinality(Pipelines) \in Nat
  /\ IsFiniteSet(TempFiles) /\ Cardinality(TempFiles) \in Nat
  /\ Cardinality(TempFiles) <= Cardinality(Pipelines)
<1>1. IsFiniteSet(Pipelines)
  <2>. DEFINE Numbers == 1 .. Len(Order)
              Named == [i \in Numbers |-> Order[i]]
  <2>1. IsFiniteSet(Numbers)
    BY ConstantTypes, FS_Interval
  <2>2. Named \in Surjection(Numbers, Pipelines)
    BY ConstantTypes, CollectorAssumption DEF Surjection
  <2>. QED
    BY <2>1, <2>2, FS_Surjection
<1>2. TempFiles \subseteq Pipelines
  BY DEF TempFiles
<1>. QED
  BY <1>1, <1>2, FS_Subset, FS_CardinalityType

\* What the power failure leaves of a file was its content, or is corrupt.
LEMMA SurvivorTypes ==
  ASSUME TypeOK, NEW f \in Paths
  PROVE  AfterPowerFailure(f) \subseteq Contents
BY DEF TypeOK, AfterPowerFailure, Contents

\* The end of the process, damage, and the system's own writing.
LEMMA OutsideTypes ==
  ASSUME TypeOK, SavesBelong, Crash \/ PowerFailure \/ Damage \/ SyncFile
  PROVE  TypeOK' /\ SavesBelong'
<1>. USE ConstantTypes DEF TypeOK, SavesBelong
<1>1. StoreCrash => litter' \in Nat
  BY PipelinesFinite DEF StoreCrash
<1>2. CASE Crash
  BY <1>1, <1>2 DEF Crash, StoreCrash, Ends
<1>3. CASE PowerFailure
  <2>1. /\ file' \in [Paths -> Contents] /\ synced' = file'
        /\ StoreCrash /\ Ends /\ stops < MaxStops /\ stops' = stops + 1
        /\ UNCHANGED <<at, done, faults>>
    BY <1>3, SurvivorTypes DEF PowerFailure
  <2>. QED
    BY <1>1, <2>1 DEF StoreCrash, Ends, Contents
<1>4. CASE Damage
  <2>1. PICK f \in Paths, c \in {Missing, Corrupt} :
               file' = [file EXCEPT ![f] = c] /\ synced' = [synced EXCEPT ![f] = c]
    BY <1>4 DEF Damage, Spoil
  <2>2. UNCHANGED <<saving, cp, litter, phase, at, job, done, stops>>
        /\ faults < MaxFaults /\ faults' = faults + 1
    BY <1>4 DEF Damage, Spoil, Fault
  <2>. QED
    BY <2>1, <2>2
<1>5. CASE SyncFile
  <2>1. PICK f \in Paths : synced' = [synced EXCEPT ![f] = file[f]]
    BY <1>5 DEF SyncFile, WriteBack
  <2>2. UNCHANGED <<file, saving, cp, litter, phase, at, job, done, faults, stops>>
    BY <1>5 DEF SyncFile, WriteBack
  <2>. QED
    BY <2>1, <2>2
<1>. QED
  BY <1>2, <1>3, <1>4, <1>5

\* Every step keeps the types, and a save belongs to a job that is at work.
LEMMA StepTypes ==
  ASSUME TypeOK, SavesBelong, [Next]_vars
  PROVE  TypeOK' /\ SavesBelong'
BY MainTypes, JobTypes, StartFailTypes, SaveTypes, OutsideTypes DEF Next, Tick, Fails

\* The variables have their types; positions stay within the objects there are.
THEOREM TypeCorrect == Spec => []TypeOK
<1>1. TypeOK /\ SavesBelong /\ [Next]_vars => (TypeOK /\ SavesBelong)'
  BY StepTypes
<1>. QED
  BY <1>1, InitTypes, PTL DEF Spec

-----------------------------------------------------------------------------
(* Temporary files.                                                        *)

\* Saves that are being given up.
GivenUp == {p \in Pipelines : saving[p] = "unlink"}

\* Why TempsAccountedFor: a file is left behind by two failures, the first of
\* which already shows, or by the end of the process.
TempsOwed ==
  2 * litter + Cardinality(GivenUp) <= faults + 2 * (stops * Cardinality(Pipelines))

\* They are finitely many.
LEMMA GivenUpFinite == IsFiniteSet(GivenUp) /\ Cardinality(GivenUp) \in Nat
BY PipelinesFinite, FS_Subset, FS_CardinalityType DEF GivenUp

\* One more save is given up.
LEMMA OneMoreGivenUp ==
  ASSUME TypeOK, NEW p \in Pipelines, saving[p] # "unlink",
         saving' = [saving EXCEPT ![p] = "unlink"]
  PROVE  Cardinality(GivenUp') \in Nat /\ Cardinality(GivenUp') = Cardinality(GivenUp) + 1
<1>1. p \notin GivenUp /\ GivenUp' = GivenUp \union {p}
  BY DEF GivenUp, TypeOK
<1>. QED
  BY <1>1, GivenUpFinite, FS_AddElement, FS_CardinalityType

\* A save that was given up is over.
LEMMA OneGivenUpLess ==
  ASSUME TypeOK, NEW p \in Pipelines, saving[p] = "unlink",
         saving' = [saving EXCEPT ![p] = "none"]
  PROVE  Cardinality(GivenUp') \in Nat /\ Cardinality(GivenUp') = Cardinality(GivenUp) - 1
<1>1. p \in GivenUp /\ GivenUp' = GivenUp \ {p}
  BY DEF GivenUp, TypeOK
<1>. QED
  BY <1>1, GivenUpFinite, FS_RemoveElement, FS_CardinalityType

\* A save that begins, or goes on, is not given up.
LEMMA NoneMoreGivenUp ==
  ASSUME TypeOK, GivenUp' \subseteq GivenUp
  PROVE  Cardinality(GivenUp') <= Cardinality(GivenUp) /\ Cardinality(GivenUp') \in Nat
BY GivenUpFinite, FS_Subset, FS_CardinalityType

\* No number in TempsOwed is but a natural one.
LEMMA OwedNumbers ==
  ASSUME TypeOK
  PROVE  /\ litter \in Nat /\ faults \in Nat /\ stops \in Nat
         /\ Cardinality(GivenUp) \in Nat /\ Cardinality(Pipelines) \in Nat
         /\ stops * Cardinality(Pipelines) \in Nat
         /\ (stops + 1) * Cardinality(Pipelines)
              = stops * Cardinality(Pipelines) + Cardinality(Pipelines)
<1>1. /\ litter \in Nat /\ faults \in Nat /\ stops \in Nat
      /\ Cardinality(GivenUp) \in Nat /\ Cardinality(Pipelines) \in Nat
  BY GivenUpFinite, PipelinesFinite DEF TypeOK
<1>2. \A n, k \in Nat : n * k \in Nat /\ (n + 1) * k = n * k + k
  OBVIOUS
<1>. QED
  BY <1>1, <1>2

\* The end of the process leaves behind at most a file for each pipeline.
LEMMA EndOwed ==
  ASSUME TypeOK, TempsOwed, StoreCrash, stops' = stops + 1, faults' = faults
  PROVE  TempsOwed'
<1>1. GivenUp' = {}
  BY DEF StoreCrash, GivenUp
<1>2. Cardinality(GivenUp') = 0
  BY <1>1, FS_EmptySet
<1>3. litter' <= litter + Cardinality(Pipelines) /\ litter' \in Nat
  BY PipelinesFinite, OwedNumbers DEF StoreCrash
<1>4. 2 * litter' <= faults + 2 * (stops * Cardinality(Pipelines) + Cardinality(Pipelines))
  BY <1>3, OwedNumbers DEF TempsOwed
<1>. QED
  BY <1>2, <1>3, <1>4, OwedNumbers DEF TempsOwed

\* A step leaves a temporary file only when a failure or a process end pays for it.
LEMMA StepOwed ==
  ASSUME TypeOK, TempsOwed, [Next]_vars
  PROVE  TempsOwed'
<1>. USE OwedNumbers
<1>1. CASE Crash \/ PowerFailure
  BY <1>1, EndOwed DEF Crash, PowerFailure
<1>2. CASE Damage
  BY <1>2 DEF Damage, Spoil, Fault, TempsOwed, GivenUp
<1>3. CASE \/ SyncFile \/ Start \/ StartScheduler \/ Interrupt \/ ShutDown
           \/ UNCHANGED vars
  <2>1. UNCHANGED <<saving, litter, faults>> /\ stops' \in {stops, stops + 1}
    BY <1>3 DEF SyncFile, WriteBack, Start, StartScheduler, Interrupt, ShutDown, vars
  <2>. QED
    BY <2>1 DEF TempsOwed, GivenUp
<1>4. ASSUME NEW p \in Pipelines,
             \/ Found(p) \/ StartFails(p) \/ StartReadFails(p) \/ Trigger(p)
             \/ TakeJob(p) \/ Load(p) \/ LoadMissing(p) \/ TickEnds(p)
      PROVE  TempsOwed'
  <2>1. UNCHANGED <<saving, litter, stops>> /\ faults' \in {faults, faults + 1}
    BY <1>4 DEF Found, StartFails, StartReadFails, Fault, Trigger, TakeJob, Load,
                LoadMissing, TickEnds
  <2>. QED
    BY <2>1 DEF TempsOwed, GivenUp
<1>5. ASSUME NEW p \in Pipelines,
             FirstSave(p) \/ LoadCorrupt(p) \/ LoadFails(p) \/ ProcessFile(p)
      PROVE  TempsOwed'
  <2>1. /\ saving' = [saving EXCEPT ![p] = "mkstemp"]
        /\ UNCHANGED <<litter, stops>> /\ faults' \in {faults, faults + 1}
    BY <1>5 DEF FirstSave, LoadCorrupt, LoadFails, Reset, Fault, ProcessFile, BeginFresh,
                BeginSave
  <2>2. GivenUp' \subseteq GivenUp
    BY <2>1 DEF GivenUp, TypeOK
  <2>. QED
    BY <2>1, <2>2, NoneMoreGivenUp DEF TempsOwed
<1>6. ASSUME NEW p \in Pipelines, SaveGoesOn(p) \/ SaveEnds(p) PROVE TempsOwed'
  <2>1. PICK to \in {"dump", "replace", "none"} :
               saving' = [saving EXCEPT ![p] = to] /\ saving[p] # "unlink"
    BY <1>6 DEF SaveGoesOn, SaveEnds, MakeTemp, Dump, Replace, Goes
  <2>2. UNCHANGED <<litter, faults, stops>>
    BY <1>6 DEF SaveGoesOn, SaveEnds, MakeTemp, Dump, Replace
  <2>3. GivenUp' \subseteq GivenUp
    BY <2>1 DEF GivenUp, TypeOK
  <2>. QED
    BY <2>2, <2>3, NoneMoreGivenUp DEF TempsOwed
<1>7. ASSUME NEW p \in Pipelines, SaveRaises(p) PROVE TempsOwed'
  <2>1. /\ saving[p] = "unlink" /\ saving' = [saving EXCEPT ![p] = "none"]
        /\ UNCHANGED <<litter, faults, stops>>
    BY <1>7 DEF SaveRaises, Unlinked, Raised, Goes
  <2>2. Cardinality(GivenUp') = Cardinality(GivenUp) - 1
    BY <2>1, OneGivenUpLess
  <2>. QED
    BY <2>1, <2>2 DEF TempsOwed
<1>8. ASSUME NEW p \in Pipelines, SaveFails(p) PROVE TempsOwed'
  <2>1. faults' = faults + 1 /\ stops' = stops
    BY <1>8 DEF SaveFails, Fault, Raised
  <2>2. CASE WriteFails(p)
    <3>1. saving[p] # "unlink" /\ saving' = [saving EXCEPT ![p] = "unlink"] /\ litter' = litter
      BY <2>2 DEF WriteFails, Goes
    <3>2. Cardinality(GivenUp') = Cardinality(GivenUp) + 1
      BY <3>1, OneMoreGivenUp
    <3>. QED
      BY <2>1, <3>1, <3>2 DEF TempsOwed
  <2>3. CASE MakeTempFails(p)
    <3>1. saving[p] # "unlink" /\ saving' = [saving EXCEPT ![p] = "none"] /\ litter' = litter
      BY <2>3 DEF MakeTempFails, Goes
    <3>2. GivenUp' \subseteq GivenUp
      BY <3>1 DEF GivenUp, TypeOK
    <3>. QED
      BY <2>1, <3>1, <3>2, NoneMoreGivenUp DEF TempsOwed
  <2>4. CASE UnlinkFails(p)
    <3>1. saving[p] = "unlink" /\ saving' = [saving EXCEPT ![p] = "none"] /\ litter' = litter + 1
      BY <2>4 DEF UnlinkFails, Goes
    <3>2. Cardinality(GivenUp') = Cardinality(GivenUp) - 1
      BY <3>1, OneGivenUpLess
    <3>. QED
      BY <2>1, <3>1, <3>2 DEF TempsOwed
  <2>. QED
    BY <1>8, <2>2, <2>3, <2>4 DEF SaveFails
<1>. QED
  BY <1>1, <1>2, <1>3, <1>4, <1>5, <1>6, <1>7, <1>8
     DEF Next, Build, Tick, Saving, Fails

\* Whatever fails, save leaves at most one temporary file for two failures, and
\* the end of the process at most one for each pipeline.
THEOREM TempsAccounted == Spec => []TempsAccountedFor
<1>1. Init => TempsOwed
  <2>. SUFFICES ASSUME Init PROVE TempsOwed
    OBVIOUS
  <2>1. GivenUp = {}
    BY DEF Init, StoreInit, GivenUp
  <2>. QED
    BY <2>1, FS_EmptySet, PipelinesFinite DEF Init, StoreInit, TempsOwed
<1>2. TypeOK /\ TempsOwed /\ [Next]_vars => TempsOwed'
  BY StepOwed
<1>3. TypeOK /\ TempsOwed => TempsAccountedFor
  <2>. SUFFICES ASSUME TypeOK, TempsOwed PROVE TempsAccountedFor
    OBVIOUS
  <2>1. 2 * litter <= faults + 2 * (stops * Cardinality(Pipelines))
    BY OwedNumbers DEF TempsOwed
  <2>2. \A l, f, k \in Nat : 2 * l <= f + 2 * k => l <= f \div 2 + k
    OBVIOUS
  <2>. QED
    BY <2>1, <2>2, OwedNumbers DEF TempsAccountedFor
<1>. QED
  BY <1>1, <1>2, <1>3, TypeCorrect, PTL DEF Spec

-----------------------------------------------------------------------------
(* The checkpoint as a register.                                           *)

Synced(p) == synced[PathOf(p)]

\* A readable checkpoint is not past what the pipeline is done with, nor is what a
\* power failure would leave; a tick holds the position of a readable file, and the
\* save of a tick goes past it by one object, which was processed.
PositionInv(p) ==
  /\ Saved(p) \in Nat => Saved(p) <= done[p]
  /\ Synced(p) \in Nat => Saved(p) \in Nat /\ Synced(p) <= done[p]
  /\ job[p] = "work" /\ Saved(p) \in Nat => cp[p] = Saved(p)
  /\ job[p] = "save" => cp[p] <= done[p] /\ (Saved(p) \in Nat => cp[p] = Saved(p) + 1)

\* The terms of PositionInv.
LEMMA PositionTypes ==
  ASSUME TypeOK, NEW p \in Pipelines
  PROVE  /\ done[p] \in Nat /\ cp[p] \in Nat /\ PathOf(p) \in Paths
         /\ Saved(p) \in Nat \union {Missing, Corrupt}
         /\ Synced(p) \in Nat \union {Missing, Corrupt}
BY ConstantTypes DEF TypeOK, Saved, Synced

\* A file of one pipeline's own is no other's.
LEMMA OwnFile ==
  ASSUME NEW p \in Alone, NEW q \in Pipelines, PathOf(q) = PathOf(p)
  PROVE  q = p
BY DEF Alone

\* A step of another job, or of the main thread for another pipeline, leaves the
\* register and the position alone.
LEMMA Others ==
  ASSUME TypeOK, NEW p \in Alone, NEW q \in Pipelines \ {p},
         Build(q) \/ Trigger(q) \/ TakeJob(q) \/ Tick(q) \/ Fails(q)
  PROVE  /\ Saved(p)' = Saved(p) /\ Synced(p)' = Synced(p)
         /\ done'[p] = done[p] /\ cp'[p] = cp[p]
         /\ job'[p] = job[p] /\ saving'[p] = saving[p]
<1>1. PathOf(p) \in Paths /\ PathOf(q) \in Paths /\ PathOf(q) # PathOf(p)
      /\ p \in Pipelines
  BY ConstantTypes, OwnFile DEF Alone
<1>. USE <1>1 DEF TypeOK, Saved, Synced, Becomes
<1>2. CASE Build(q)
  BY <1>2 DEF Build, Found, FirstSave, StartFails, BeginFresh, BeginSave
<1>3. CASE Trigger(q) \/ TakeJob(q)
  BY <1>3 DEF Trigger, TakeJob
<1>4. CASE Load(q) \/ LoadMissing(q) \/ TickEnds(q) \/ StartReadFails(q)
  BY <1>4 DEF Load, LoadMissing, TickEnds, StartReadFails
<1>5. CASE LoadCorrupt(q) \/ LoadFails(q) \/ ProcessFile(q)
  BY <1>5 DEF LoadCorrupt, LoadFails, Reset, ProcessFile, BeginFresh, BeginSave
<1>6. CASE SaveGoesOn(q) \/ SaveEnds(q) \/ SaveRaises(q)
  BY <1>6 DEF SaveGoesOn, MakeTemp, Dump, SaveEnds, Replace, SaveRaises, Unlinked,
              Raised, Goes
<1>7. CASE SaveFails(q)
  BY <1>7 DEF SaveFails, WriteFails, MakeTempFails, UnlinkFails, Raised, Goes
<1>. QED
  BY <1>2, <1>3, <1>4, <1>5, <1>6, <1>7 DEF Tick, Saving, Fails

\* A step of the pipeline itself.
LEMMA OwnStep ==
  ASSUME TypeOK, SavesBelong, NEW p \in Alone, PositionInv(p),
         Build(p) \/ Trigger(p) \/ TakeJob(p) \/ Tick(p) \/ Fails(p)
  PROVE  PositionInv(p)'
<1>0. /\ p \in Pipelines /\ PathOf(p) \in Paths
      /\ Missing \notin Nat /\ Corrupt \notin Nat
      /\ done[p] \in Nat /\ cp[p] \in Nat
      /\ Saved(p) \in Nat \union {Missing, Corrupt}
      /\ Synced(p) \in Nat \union {Missing, Corrupt}
  BY PositionTypes, CollectorAssumption DEF Alone
<1>. USE <1>0 DEF TypeOK, PositionInv, Saved, Synced, Becomes
<1>1. CASE \/ Found(p) \/ StartFails(p) \/ StartReadFails(p) \/ Trigger(p)
           \/ TakeJob(p) \/ TickEnds(p)
  BY <1>1 DEF Found, StartFails, StartReadFails, Trigger, TakeJob, TickEnds
<1>2. CASE FirstSave(p)
  BY <1>2 DEF FirstSave, Building, BeginFresh, BeginSave, SavesBelong
<1>3. CASE Load(p) \/ LoadMissing(p)
  BY <1>3 DEF Load, LoadMissing, SavesBelong
<1>4. CASE LoadCorrupt(p) \/ LoadFails(p)
  BY <1>4 DEF LoadCorrupt, LoadFails, Reset, BeginFresh, BeginSave
<1>5. CASE ProcessFile(p)
  BY <1>5 DEF ProcessFile, BeginSave
<1>6. CASE SaveGoesOn(p)
  BY <1>6 DEF SaveGoesOn, MakeTemp, Dump, Goes
<1>7. CASE SaveEnds(p)
  BY <1>7 DEF SaveEnds, Replace, Goes, SavesBelong
<1>8. CASE SaveRaises(p)
  BY <1>8 DEF SaveRaises, Unlinked, Raised, Goes
<1>9. CASE SaveFails(p)
  BY <1>9 DEF SaveFails, WriteFails, MakeTempFails, UnlinkFails, Raised, Goes
<1>. QED
  BY <1>1, <1>2, <1>3, <1>4, <1>5, <1>6, <1>7, <1>8, <1>9
     DEF Build, Tick, Saving, Fails

\* What a job has read, loaded or dumped is never beyond what its pipeline did.
LEMMA StepPosition ==
  ASSUME TypeOK, SavesBelong, [Next]_vars, NEW p \in Alone, PositionInv(p)
  PROVE  PositionInv(p)'
<1>0. p \in Pipelines /\ PathOf(p) \in Paths
      /\ Missing \notin Nat /\ Corrupt \notin Nat
  BY PositionTypes, CollectorAssumption DEF Alone
<1>1. CASE Start \/ StartScheduler \/ Interrupt \/ ShutDown \/ UNCHANGED vars
  BY <1>1 DEF Start, StartScheduler, Interrupt, ShutDown, vars, PositionInv, Saved, Synced
<1>2. CASE Crash
  BY <1>0, <1>2 DEF Crash, StoreCrash, Ends, PositionInv, Saved, Synced
<1>3. CASE PowerFailure
  <2>1. /\ Saved(p)' \in {Saved(p), Synced(p), Corrupt} /\ Synced(p)' = Saved(p)'
        /\ job'[p] = "waiting" /\ saving'[p] = "none" /\ done' = done
    BY <1>0, <1>3 DEF PowerFailure, StoreCrash, Ends, AfterPowerFailure, Saved, Synced
  <2>. QED
    BY <1>0, <2>1, PositionTypes DEF PositionInv
<1>4. CASE Damage
  <2>1. /\ \/ Saved(p)' = Saved(p) /\ Synced(p)' = Synced(p)
           \/ Saved(p)' \in {Missing, Corrupt} /\ Synced(p)' \in {Missing, Corrupt}
        /\ UNCHANGED <<job, saving, done, cp>>
    BY <1>0, <1>4 DEF Damage, Spoil, Saved, Synced, TypeOK
  <2>. QED
    BY <1>0, <2>1 DEF PositionInv
<1>5. CASE SyncFile
  <2>1. /\ Saved(p)' = Saved(p) /\ Synced(p)' \in {Synced(p), Saved(p)}
        /\ UNCHANGED <<job, saving, done, cp>>
    BY <1>0, <1>5 DEF SyncFile, WriteBack, Saved, Synced, TypeOK
  <2>. QED
    BY <1>0, <2>1, PositionTypes DEF PositionInv
<1>6. ASSUME NEW q \in Pipelines,
             Build(q) \/ Trigger(q) \/ TakeJob(q) \/ Tick(q) \/ Fails(q)
      PROVE  PositionInv(p)'
  <2>1. CASE q = p
    BY <1>6, <2>1, OwnStep
  <2>2. CASE q # p
    BY <1>6, <2>2, Others DEF PositionInv
  <2>. QED
    BY <2>1, <2>2
<1>. QED
  BY <1>1, <1>2, <1>3, <1>4, <1>5, <1>6 DEF Next

-----------------------------------------------------------------------------
(* The refinement: the files of the pipelines that are alone are registers. *)

Reg  == [p \in Alone |-> Saved(p)]
Done == [p \in Alone |-> done[p]]

\* A step that leaves the registers and the progress of all alone, and begins none anew.
LEMMA RegistersKept ==
  ASSUME \A p \in Alone : Saved(p)' = Saved(p) /\ done'[p] = done[p] /\ Renews(p)' = Renews(p)
  PROVE  UNCHANGED <<Reg, Done, Renewing>>
BY DEF Reg, Done, Alone, Renewing

\* A step of one job, seen at its register: nothing but that a save may be given up;
\* the decision to begin anew; an object processed; the save of a tick; the save of
\* a fresh checkpoint.
GivesUp(p) ==
  Saved(p)' = Saved(p) /\ done'[p] = done[p] /\ (Renews(p)' => Renews(p))

Begins(p) ==
  /\ Saved(p)' = Saved(p) /\ done'[p] = done[p] /\ Renews(p)'
  /\ Saved(p) \notin Nat \/ faults' > faults

Processes(p) ==
  /\ Saved(p)' = Saved(p) /\ Renews(p)' = Renews(p)
  /\ done'[p] \in Nat /\ done'[p] > done[p]
  /\ Saved(p) \in Nat => done'[p] = done[p] + 1

Saves(p) ==
  /\ Saved(p)' \in Nat /\ Saved(p)' <= done[p] /\ done'[p] = done[p]
  /\ Saved(p) \in Nat => Saved(p)' = Saved(p) + 1
  /\ ~Renews(p) /\ ~Renews(p)'

Renewed(p) ==
  /\ Saved(p)' \in Nat /\ done'[p] = Registers!Later(done[p], Saved(p)')
  /\ Renews(p) /\ ~Renews(p)'

LEMMA JobOnRegister ==
  ASSUME TypeOK, SavesBelong, NEW p \in Alone, PositionInv(p),
         Build(p) \/ Trigger(p) \/ TakeJob(p) \/ Tick(p) \/ Fails(p)
  PROVE  GivesUp(p) \/ Begins(p) \/ Processes(p) \/ Saves(p) \/ Renewed(p)
<1>0. p \in Pipelines /\ PathOf(p) \in Paths /\ cp[p] \in Nat /\ done[p] \in Nat
      /\ faults \in Nat /\ Missing \notin Nat /\ Corrupt \notin Nat
  BY PositionTypes, CollectorAssumption DEF Alone, TypeOK
<1>. USE <1>0 DEF TypeOK, SavesBelong, Saved, Renews, Becomes
<1>1. CASE \/ Found(p) \/ StartFails(p) \/ StartReadFails(p) \/ Trigger(p) \/ TakeJob(p)
           \/ Load(p) \/ LoadMissing(p) \/ TickEnds(p)
  BY <1>1 DEF Found, StartFails, StartReadFails, Building, Trigger, TakeJob, Load,
              LoadMissing, TickEnds, GivesUp
<1>2. CASE FirstSave(p)
  BY <1>2 DEF FirstSave, Building, BeginFresh, BeginSave, Begins
<1>3. CASE LoadCorrupt(p) \/ LoadFails(p)
  BY <1>3 DEF LoadCorrupt, LoadFails, Reset, Fault, BeginFresh, BeginSave, Begins
<1>4. CASE ProcessFile(p)
  <2>1. /\ Saved(p)' = Saved(p) /\ ~Renews(p) /\ ~Renews(p)'
        /\ done'[p] = IF cp[p] >= done[p] THEN cp[p] + 1 ELSE done[p]
    BY <1>4 DEF ProcessFile, BeginSave
  <2>2. Saved(p) \in Nat => cp[p] = Saved(p) /\ Saved(p) <= done[p]
    BY <1>4 DEF ProcessFile, PositionInv
  <2>. QED
    BY <2>1, <2>2 DEF GivesUp, Processes
<1>5. CASE SaveGoesOn(p) \/ SaveRaises(p) \/ SaveFails(p)
  BY <1>5 DEF SaveGoesOn, MakeTemp, Dump, SaveRaises, Unlinked, SaveFails, WriteFails,
              MakeTempFails, UnlinkFails, Raised, Goes, GivesUp
<1>6. CASE SaveEnds(p)
  <2>1. /\ Saved(p)' = cp[p] /\ saving[p] = "replace" /\ saving'[p] = "none"
        /\ job'[p] # "fresh"
    BY <1>6 DEF SaveEnds, Replace, Goes
  <2>2. CASE job[p] = "save"
    <3>1. done' = done /\ ~Renews(p) /\ ~Renews(p)'
      BY <1>6, <2>1, <2>2 DEF SaveEnds
    <3>. QED
      BY <2>1, <2>2, <3>1 DEF PositionInv, Saves
  <2>3. CASE job[p] # "save"
    <3>1. Renews(p) /\ ~Renews(p)'
      BY <2>1, <2>3
    <3>2. done'[p] = IF done[p] < cp[p] THEN cp[p] ELSE done[p]
      BY <1>6, <2>3 DEF SaveEnds
    <3>. QED
      BY <2>1, <3>1, <3>2 DEF Renewed, Registers!Later
  <2>. QED
    BY <2>2, <2>3
<1>. QED
  BY <1>1, <1>2, <1>3, <1>4, <1>5, <1>6 DEF Build, Tick, Saving, Fails

\* A step of another job, or of the main thread for another pipeline, does not begin a
\* pipeline anew, nor end that.
LEMMA OthersRenew ==
  ASSUME TypeOK, SavesBelong, NEW p \in Alone, NEW q \in Pipelines \ {p},
         Build(q) \/ Trigger(q) \/ TakeJob(q) \/ Tick(q) \/ Fails(q)
  PROVE  Renews(p)' = Renews(p)
<1>0. p \in Pipelines
  BY DEF Alone
<1>1. job'[p] = job[p] /\ saving'[p] = saving[p]
  BY Others
<1>2. \/ phase' = phase
      \/ phase = "building" /\ phase' = "down" /\ saving[p] = "none"
  <2>1. CASE phase' = phase
    BY <2>1
  <2>2. CASE phase' # phase
    <3>1. \/ StartFails(q) \/ StartReadFails(q)
          \/ SaveRaises(q) \/ SaveFails(q)
      BY <2>2 DEF Build, Tick, Saving, Fails, Found, FirstSave, Trigger, TakeJob, Load,
                  LoadMissing, LoadCorrupt, LoadFails, Reset, ProcessFile, TickEnds,
                  SaveGoesOn, SaveEnds
    <3>2. /\ phase = "building" /\ phase' = "down"
          /\ saving[q] # "none" \/ q = Order[at]
      BY <2>2, <3>1 DEF StartFails, StartReadFails, Building, SaveRaises, SaveFails,
                        Raised, Unlinked, MakeTempFails, UnlinkFails, Goes
    <3>3. q = Order[at]
      BY <3>2 DEF SavesBelong
    <3>. QED
      BY <1>0, <3>2, <3>3 DEF SavesBelong
  <2>. QED
    BY <2>1, <2>2
<1>. QED
  BY <1>1, <1>2 DEF Renews

\* Every step is a step of the registers, or one that does not concern them.
LEMMA StepOnRegisters ==
  ASSUME TypeOK, SavesBelong, [Next]_vars, \A p \in Alone : PositionInv(p)
  PROVE  [Registers!RegisterNext]_<<Reg, Done, Renewing>>
<1>. USE DEF Registers!RegisterNext
<1>0. Alone \subseteq Pipelines
  BY DEF Alone
<1>1. CASE \/ Start \/ StartScheduler \/ Interrupt \/ ShutDown \/ SyncFile
           \/ UNCHANGED vars
  <2>1. UNCHANGED <<file, done, job, saving>>
    BY <1>1 DEF Start, StartScheduler, Interrupt, ShutDown, SyncFile, WriteBack, vars
  <2>2. \/ phase' = phase
        \/ (phase' # "building" /\ phase # "building")
        \/ \A p \in Pipelines : saving[p] = "none"
    BY <1>1 DEF Start, StartScheduler, Interrupt, ShutDown, SyncFile, vars, SavesBelong,
                TypeOK
  <2>. QED
    BY <1>0, <2>1, <2>2, RegistersKept DEF Saved, Renews
<1>2. CASE Crash \/ PowerFailure
  <2>1. Renewing' = {} /\ done' = done
    BY <1>0, <1>2 DEF Crash, PowerFailure, StoreCrash, Ends, Renewing, Renews
  <2>2. CASE Crash
    <3>1. UNCHANGED <<Reg, Done>>
      BY <2>2 DEF Crash, Reg, Done, Saved
    <3>2. Registers!Crash
      BY <2>1, <3>1 DEF Registers!Crash, Reg, Done
    <3>. QED
      BY <3>2
  <2>3. CASE PowerFailure
    <3>1. \A p \in Alone :
            \/ Saved(p)' \in {Saved(p), Missing, Corrupt}
            \/ Saved(p)' \in Nat /\ Saved(p) \in Nat /\ Saved(p)' <= done[p]
      <4>. SUFFICES ASSUME NEW p \in Alone
                    PROVE  \/ Saved(p)' \in {Saved(p), Missing, Corrupt}
                           \/ /\ Saved(p)' \in Nat /\ Saved(p) \in Nat
                              /\ Saved(p)' <= done[p]
        OBVIOUS
      <4>1. PathOf(p) \in Paths /\ Synced(p) \in Nat \union {Missing, Corrupt}
        BY <1>0, PositionTypes
      <4>2. Saved(p)' \in {Saved(p), Synced(p), Corrupt}
        BY <2>3, <4>1 DEF PowerFailure, AfterPowerFailure, Saved, Synced
      <4>. QED
        BY <4>1, <4>2 DEF PositionInv
    <3>2. Registers!PowerFails
      BY <2>1, <3>1 DEF Registers!PowerFails, Reg, Done
    <3>. QED
      BY <3>2
  <2>. QED
    BY <1>2, <2>2, <2>3
<1>3. CASE Damage
  <2>1. PICK f \in Paths, c \in {Missing, Corrupt} : file' = [file EXCEPT ![f] = c]
    BY <1>3 DEF Damage, Spoil
  <2>2. UNCHANGED <<done, Renewing>> /\ \A p \in Alone : Renews(p)' = Renews(p)
    BY <1>3 DEF Damage, Spoil, Renewing, Renews
  <2>3. CASE \E p \in Alone : PathOf(p) = f
    <3>1. PICK p \in Alone : PathOf(p) = f
      BY <2>3
    <3>2. Saved(p)' = c /\ \A q \in Alone \ {p} : Saved(q)' = Saved(q)
      BY <1>0, <2>1, <3>1, OwnFile, ConstantTypes DEF Saved, TypeOK
    <3>3. Registers!Damage(p)
      BY <2>2, <3>2 DEF Registers!Damage, Registers!KeepsOthers, Reg, Done
    <3>. QED
      BY <3>3
  <2>4. CASE \A p \in Alone : PathOf(p) # f
    BY <1>0, <2>1, <2>2, <2>4, RegistersKept, ConstantTypes DEF Saved, TypeOK
  <2>. QED
    BY <2>3, <2>4
<1>4. ASSUME NEW q \in Pipelines,
             Build(q) \/ Trigger(q) \/ TakeJob(q) \/ Tick(q) \/ Fails(q)
      PROVE  [Registers!RegisterNext]_<<Reg, Done, Renewing>>
  <2>1. \A p \in Alone \ {q} :
          Saved(p)' = Saved(p) /\ done'[p] = done[p] /\ Renews(p)' = Renews(p)
    <3>. SUFFICES ASSUME NEW p \in Alone \ {q}
                  PROVE  Saved(p)' = Saved(p) /\ done'[p] = done[p] /\ Renews(p)' = Renews(p)
      OBVIOUS
    <3>. QED
      BY <1>0, <1>4, Others, OthersRenew
  <2>2. CASE q \notin Alone
    BY <2>1, <2>2, RegistersKept
  <2>3. CASE q \in Alone
    <3>. USE <2>3
    <3>1. CASE Renews(q)' = Renews(q)
      <4>1. Renewing' = Renewing
        BY <2>1, <3>1 DEF Renewing
      <4>2. CASE GivesUp(q)
        BY <2>1, <3>1, <4>2, RegistersKept DEF GivesUp
      <4>3. CASE Processes(q)
        <5>1. Registers!Process(q)
          BY <2>1, <4>1, <4>3
             DEF Processes, Registers!Process, Registers!KeepsOthers, Reg, Done
        <5>. QED
          BY <5>1
      <4>4. CASE Saves(q)
        <5>1. Registers!Save(q)
          BY <2>1, <4>1, <4>4
             DEF Saves, Registers!Save, Registers!KeepsOthers, Reg, Done, Renewing
        <5>. QED
          BY <5>1
      <4>5. CASE Begins(q)
        BY <2>1, <3>1, <4>5, RegistersKept DEF Begins
      <4>. QED
        BY <1>4, <3>1, <4>2, <4>3, <4>4, <4>5, JobOnRegister DEF Renewed
    <3>2. CASE ~Renews(q) /\ Renews(q)'
      <4>1. Renewing' = Renewing \union {q}
        BY <2>1, <3>2 DEF Renewing
      <4>2. Begins(q)
        BY <1>4, <3>2, JobOnRegister DEF GivesUp, Processes, Saves, Renewed
      <4>3. Registers!Begin(q)
        BY <2>1, <4>1, <4>2 DEF Begins, Registers!Begin, Reg, Done
      <4>. QED
        BY <4>3
    <3>3. CASE Renews(q) /\ ~Renews(q)'
      <4>1. Renewing' = Renewing \ {q} /\ q \in Renewing
        BY <2>1, <3>3 DEF Renewing
      <4>2. CASE GivesUp(q)
        <5>1. Registers!GiveUp(q)
          BY <2>1, <4>1, <4>2 DEF GivesUp, Registers!GiveUp, Reg, Done
        <5>. QED
          BY <5>1
      <4>3. CASE Renewed(q)
        <5>1. Registers!Renew(q)
          BY <2>1, <4>1, <4>3
             DEF Renewed, Registers!Renew, Registers!KeepsOthers, Reg, Done
        <5>. QED
          BY <5>1
      <4>. QED
        BY <1>4, <3>3, <4>2, <4>3, JobOnRegister DEF Begins, Processes, Saves
    <3>. QED
      BY <3>1, <3>2, <3>3 DEF Renews
  <2>. QED
    BY <2>2, <2>3
<1>. QED
  BY <1>1, <1>2, <1>3, <1>4 DEF Next

\* The checkpoint of a pipeline with a file of its own is an atomic register: with any
\* number of pipelines on threads, failing reads and saves, crashes and power failures,
\* it goes on by one processed object at a time, and goes back, or past objects not
\* processed, only by a fresh checkpoint after a file that could not be read.
THEOREM AtomicCheckpoints == Spec => IsRegister
<1>. DEFINE Inv == TypeOK /\ SavesBelong /\ \A p \in Alone : PositionInv(p)
<1>1. Init => Inv
  <2>. SUFFICES ASSUME Init, NEW p \in Alone PROVE PositionInv(p)
    BY InitTypes
  <2>. QED
    BY CollectorAssumption, ConstantTypes
       DEF Init, StoreInit, PositionInv, Saved, Synced, Alone
<1>2. Inv /\ [Next]_vars => Inv'
  BY StepTypes, StepPosition DEF Alone
<1>3. Inv /\ [Next]_vars => [Registers!RegisterNext]_<<Reg, Done, Renewing>>
  BY StepOnRegisters
<1>4. Init => Registers!RegisterInit
  BY ConstantTypes DEF Init, StoreInit, Registers!RegisterInit, Saved, Alone, Renewing,
                       Renews
<1>. QED
  BY <1>1, <1>2, <1>3, <1>4, PTL
     DEF Spec, IsRegister, Registers!IsRegister, Reg, Done
=============================================================================
