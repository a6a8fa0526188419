------------------------------- MODULE Campaign -------------------------------
(***************************************************************************)
(* One phase of a confirmatory campaign: run_schedule of                   *)
(* run_confirmatory.sh, the schedule confirm_schedule.py writes for it,    *)
(* and one valseg_bench process per scheduled cell, with the files they    *)
(* leave when the machine kills them or loses power and the phase is       *)
(* started again.  A cell is a job with a trial; a file is the set of      *)
(* lines it holds.  The campaign's metadata, the pinning and the timing    *)
(* are left out.                                                           *)
(***************************************************************************)
EXTENDS BenchRun

CONSTANTS ScheduledWorkloads, ScheduledStructures,   \* --workloads, --structures
          ReachesCap,           \* the <<variant, structure>> pairs that meet the memory cap
          Trials, PrimaryTrials, CappedTrials,       \* processes for each kind of cell
          PrimaryVariants, CappedCells,              \* the registered lists, of such pairs
          Warmup, BaseSeed,
          OtherStructures,      \* bound of the model: what a replaced schedule is for
          MaxCrashes, MaxLosses \* bounds of the model: crashes, and those that are of power

ASSUME CountsAssumption ==
  {Trials, PrimaryTrials, CappedTrials, Warmup, BaseSeed, MaxCrashes, MaxLosses}
    \subseteq Nat
ASSUME StructuresAssumption ==
  ScheduledStructures \cup OtherStructures \subseteq structures

VARIABLES schedule,   \* schedule_<mode>.tsv: present, its lines, and whether the last is torn
          digest,     \* schedule_<mode>.tsv.sha256: what it is the checksum of
          runs,       \* runs_<tag>.csv: lines, by the cell whose tag it is
          memory,     \* memory_<tag>.csv and environment_<tag>.txt, likewise: have content
          complete,   \* complete_<mode> exists
          pc, next,   \* the runner: where it is, and the line of the schedule it is at
          attempts,   \* the process: the attempts it has yet to make
          crashes, losses, replaced   \* faults so far; losses are those of power

vars == <<schedule, digest, runs, memory, complete, pc, next, attempts,
          crashes, losses, replaced>>
files == <<schedule, digest, runs, memory, complete>>
faults == <<crashes, losses, replaced>>

-----------------------------------------------------------------------------
\* The cells a list of structures is scheduled for, and the trials of each.
Everything(of) ==
  [ids |-> ScheduledWorkloads, structures |-> of, reachesCap |-> ReachesCap,
   sizes |-> Range(AllSizes), variants |-> UNION {Range(w.variants) : w \in Range(workloads)},
   warmup |-> Warmup, seed |-> BaseSeed, cappedTrials |-> CappedTrials,
   trials |-> Max({Trials, PrimaryTrials, CappedTrials}), trialIndex |-> -1]

TrialsFor(job) ==
  IF <<job.variant, job.structure>> \in CappedCells THEN CappedTrials
  ELSE IF job.variant \in PrimaryVariants THEN PrimaryTrials
  ELSE Trials

Cell(job, trial) ==
  [workload |-> job.workload, n |-> job.n, variant |-> job.variant,
   structure |-> job.structure, trial |-> trial]

\* A shuffle with a recorded seed: one order of the block, the same every time.
Shuffled(block) == FoldSet(LAMBDA c, order : Append(order, c), <<>>, block)

BuildSchedule(of) ==
  LET jobs == BuildJobs(Everything(of))
      block == [t \in 1 .. Max({0} \cup {TrialsFor(job) : job \in jobs}) |->
                  Shuffled({Cell(job, t - 1) : job \in {j \in jobs : t <= TrialsFor(j)}})]
  IN  FlattenSeq(block)

Schedule == BuildSchedule(ScheduledStructures)
OtherSchedule == BuildSchedule(OtherStructures)

NoSchedule == [exists |-> FALSE, lines |-> <<>>, torn |-> FALSE]

Whole(lines) == [exists |-> TRUE, lines |-> lines, torn |-> FALSE]

Init ==
  /\ schedule = NoSchedule /\ digest = NoSchedule
  /\ runs = <<>> /\ memory = <<>> /\ complete = FALSE
  /\ pc = "down" /\ next = 0 /\ attempts = {}
  /\ crashes = 0 /\ losses = 0 /\ replaced = FALSE

-----------------------------------------------------------------------------
(***************************************************************************)
(* The runner, until it begins to go through the schedule.                 *)
(***************************************************************************)
Start ==
  /\ pc = "down"
  /\ IF schedule.exists THEN pc' = "verify" /\ UNCHANGED schedule
     ELSE pc' = "schedule" /\ schedule' = Whole(<<>>)
  /\ UNCHANGED <<digest, runs, memory, complete, next, attempts, faults>>

WriteSchedule ==
  /\ pc = "schedule"
  /\ schedule' = Whole(Schedule)
  /\ pc' = "verify"
  /\ UNCHANGED <<digest, runs, memory, complete, next, attempts, faults>>

\* Lines of the schedule that are no comments, a torn one included.
ExpectedFiles == Len(schedule.lines) + (IF schedule.torn THEN 1 ELSE 0)

\* Seeded bug: a checksum that does not match is replaced.
HashArtifact ==
  /\ digest' = schedule
  /\ pc' = IF ExpectedFiles = 0 THEN "down" ELSE "loop"

\* The first checksum is recorded; a schedule without a line ends the runner.
HashOrVerifyArtifact ==
  /\ digest' = IF digest.exists THEN digest ELSE schedule
  /\ pc' = IF schedule # digest' \/ ExpectedFiles = 0 THEN "down" ELSE "loop"

VerifySchedule ==
  /\ pc = "verify"
  /\ HashOrVerifyArtifact
  /\ next' = 1
  /\ UNCHANGED <<schedule, runs, memory, complete, attempts, faults>>

-----------------------------------------------------------------------------
(***************************************************************************)
(* The loop: a line that is torn has no newline, and read does not return  *)
(* it.                                                                     *)
(***************************************************************************)
cell == schedule.lines[next]

\* Seeded bug: the content of another file of the cell is looked at.
MemoryHasContent(c) == c \in DOMAIN memory /\ memory[c]

HasContent(c) == c \in DOMAIN runs /\ runs[c] # {}

ReuseCell ==
  /\ pc = "loop" /\ next \in DOMAIN schedule.lines
  /\ HasContent(cell)
  /\ next' = next + 1
  /\ UNCHANGED <<files, pc, attempts, faults>>

\* Seeded bug: only the runs file is removed.
RemoveRunsOnly(c) == runs' = Restrict(runs, DOMAIN runs \ {c}) /\ UNCHANGED memory

RemoveFiles(c) ==
  /\ runs' = Restrict(runs, DOMAIN runs \ {c})
  /\ memory' = Restrict(memory, DOMAIN memory \ {c})

ClearCell ==
  /\ pc = "loop" /\ next \in DOMAIN schedule.lines
  /\ ~HasContent(cell)
  /\ RemoveFiles(cell)
  /\ pc' = "run"
  /\ UNCHANGED <<schedule, digest, complete, next, attempts, faults>>

-----------------------------------------------------------------------------
(***************************************************************************)
(* The process of a cell.  Its output files are created empty; each        *)
(* attempt ends with a flush of the runs file, so that of a warm-up leaves *)
(* it with its header only; the memory file is flushed on exit.            *)
(***************************************************************************)
ProcessOptions(c) ==
  [Everything({c.structure}) EXCEPT
     !.ids = {c.workload}, !.sizes = {c.n}, !.variants = {c.variant},
     !.trials = TrialsFor(c), !.trialIndex = c.trial, !.cappedTrials = 1]

Header == [header |-> TRUE]

WorkloadOf(c) == CHOOSE w \in Range(workloads) : w.id = c.workload

\* What one attempt leaves in the runs file; without a job it does not flush.
Flushed(c, attempt) ==
  IF Jobs(ProcessOptions(c), WorkloadOf(c), c.variant) = {} THEN runs[c]
  ELSE runs[c] \cup {Header}
         \cup RowGroup(ProcessOptions(c), WorkloadOf(c), c.n, attempt, c.variant)

Created(held, c, content) ==
  [d \in DOMAIN held \cup {c} |-> IF d = c THEN content ELSE held[d]]

\* A process refuses to overwrite any of its files, and the runner stops with it.
StartProcess ==
  /\ pc = "run"
  /\ IF cell \in DOMAIN runs \cup DOMAIN memory
     THEN pc' = "down" /\ UNCHANGED <<runs, memory, attempts>>
     ELSE /\ pc' = "process"
          /\ runs' = Created(runs, cell, {})
          /\ memory' = Created(memory, cell, FALSE)
          /\ attempts' = Attempts(ProcessOptions(cell))
  /\ UNCHANGED <<schedule, digest, complete, next, faults>>

RunAttempt ==
  /\ pc = "process" /\ attempts # {}
  /\ attempts' = attempts \ {Min(attempts)}
  /\ runs' = [runs EXCEPT ![cell] = Flushed(cell, Min(attempts))]
  /\ UNCHANGED <<schedule, digest, memory, complete, pc, next, faults>>

ExitProcess ==
  /\ pc = "process" /\ attempts = {}
  /\ runs' = [runs EXCEPT ![cell] = @ \cup {Header}]
  /\ memory' = [memory EXCEPT ![cell] = TRUE]
  /\ pc' = "loop" /\ next' = next + 1
  /\ UNCHANGED <<schedule, digest, complete, attempts, faults>>

-----------------------------------------------------------------------------
AuditAndMarkPhase ==
  /\ pc = "loop" /\ next \notin DOMAIN schedule.lines
  /\ complete' = (complete \/ Cardinality({c \in DOMAIN runs : runs[c] # {}}) >= ExpectedFiles)
  /\ pc' = "down" /\ next' = 0
  /\ UNCHANGED <<schedule, digest, runs, memory, attempts, faults>>

-----------------------------------------------------------------------------
(***************************************************************************)
(* Faults.  Whatever ends the runner, the process it waits for ends too:   *)
(* what was not flushed is lost, and a schedule that was being written may *)
(* end anywhere.                                                           *)
(***************************************************************************)
Crash ==
  /\ pc # "down" /\ crashes < MaxCrashes
  /\ crashes' = crashes + 1
  /\ pc' = "down" /\ next' = 0 /\ attempts' = {}
  /\ UNCHANGED <<complete, replaced>>

Kill ==
  /\ Crash
  /\ schedule' \in IF pc # "schedule" THEN {schedule}
                   ELSE {[exists |-> TRUE, lines |-> SubSeq(Schedule, 1, k), torn |-> torn] :
                           k \in 0 .. Len(Schedule) - 1, torn \in BOOLEAN}
  /\ UNCHANGED <<digest, runs, memory, losses>>

\* The files written last: those of the last two cells, or what precedes the first.
Recent == DOMAIN runs \cap {schedule.lines[i] : i \in {next - 1, next} \cap DOMAIN schedule.lines}

\* A file written shortly before power is lost keeps its name, but not its content.
PowerLoss ==
  /\ losses < MaxLosses
  /\ Crash
  /\ \E emptied \in SUBSET Recent :
       /\ runs' = [c \in DOMAIN runs |-> IF c \in emptied THEN {} ELSE runs[c]]
       /\ memory' = [c \in DOMAIN memory |-> memory[c] /\ c \notin emptied]
  /\ schedule' \in {schedule} \cup (IF runs = <<>> THEN {Whole(<<>>)} ELSE {})
  /\ digest' \in {digest} \cup (IF runs = <<>> /\ digest.exists THEN {Whole(<<>>)} ELSE {})
  /\ losses' = losses + 1

\* Between two runs somebody writes a schedule for other structures, or removes it.
ReplaceSchedule ==
  /\ pc = "down" /\ ~replaced
  /\ replaced' = TRUE
  /\ schedule' \in {NoSchedule, Whole(OtherSchedule)}
  /\ UNCHANGED <<digest, runs, memory, complete, pc, next, attempts, crashes, losses>>

-----------------------------------------------------------------------------
Run ==
  \/ Start \/ WriteSchedule \/ VerifySchedule
  \/ ReuseCell \/ ClearCell \/ StartProcess \/ RunAttempt \/ ExitProcess
  \/ AuditAndMarkPhase

Next == Run \/ Kill \/ PowerLoss \/ ReplaceSchedule

\* The runner goes on, and is started again whenever it has ended.
Spec == Init /\ [][Next]_vars /\ WF_vars(Run)

-----------------------------------------------------------------------------
Cells(lines) == {lines[i] : i \in DOMAIN lines}

(***************************************************************************)
(* Files of two schedules never meet in a campaign: whatever was killed,   *)
(* replaced or removed in between, each runs file is that of a cell of the *)
(* one schedule whose checksum was recorded first                          *)
(* (hash_or_verify_artifact).                                              *)
(***************************************************************************)
OneScheduleOnly == DOMAIN runs \subseteq Cells(digest.lines)

\* The lines of a runs file that are measurements.
Measured(c) == runs[c] \ {Header}

(***************************************************************************)
(* A measurement, once flushed, is never measured again, and no resumption *)
(* removes it: only a loss of power can (reuse_or_clear_cell).             *)
(***************************************************************************)
FinishedRowsStay ==
  [][losses' = losses =>
       \A c \in DOMAIN runs : Measured(c) # {} =>
         c \in DOMAIN runs' /\ runs'[c] \ {Header} = Measured(c)]_vars

(***************************************************************************)
(* What the processes record together is what one invocation would: every  *)
(* row has the seed and interval it would have had there, and a phase that *)
(* nothing disturbed has every row of it (run, the comment on the seed).   *)
(***************************************************************************)
Recorded == UNION {Measured(c) : c \in DOMAIN runs}

Monolithic ==
  {row \in Rows(Everything(ScheduledStructures \cup OtherStructures)) :
     row.trial < TrialsFor(row)}

RawMatchesMonolithic ==
  /\ Recorded \subseteq Monolithic
  /\ complete /\ crashes = 0 /\ ~replaced =>
       Recorded = {row \in Monolithic : row.structure \in ScheduledStructures}

\* The schedule is the one its checksum was recorded for, and no line of it is torn.
Intact == digest.lines # <<>> /\ schedule = digest /\ ~schedule.torn

(***************************************************************************)
(* A phase that is started again as often as it ends is completed in the   *)
(* end: no file a crash leaves behind makes a process refuse its cell for  *)
(* ever, as long as the schedule is still the recorded one.                *)
(***************************************************************************)
PhaseCompletes == (<>[]Intact) => <>complete

(***************************************************************************)
(* "Write a completion marker for one phase only after every file its      *)
(* schedule promised is actually present, so a marker is trustworthy       *)
(* evidence" (run_confirmatory.sh): each scheduled cell has its row.       *)
(***************************************************************************)
MarkedPhaseHasEveryRow ==
  complete => \A c \in Cells(digest.lines) : c \in DOMAIN runs /\ Measured(c) # {}

=============================================================================
