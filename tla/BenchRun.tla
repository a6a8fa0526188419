------------------------------- MODULE BenchRun -------------------------------
(***************************************************************************)
(* What one invocation of valseg_bench records (run in bench_main.cpp) and *)
(* what confirm_schedule.py plans as invocations of their own: rows and    *)
(* cells, without their measurements.  A command-line filter is the set of *)
(* values it lets through, and options.reachesCap the pairs of a variant   *)
(* and a structure whose replay meets the memory cap.  Attempts and trials *)
(* count from 0, as in the code.                                           *)
(***************************************************************************)
EXTENDS Workloads, SequencesExt

structures == {"lazy", "persistent", "copy-on-push", "full-copy", "point-only",
               "checkpointing", "buffered", "fat-node", "external"}

BalancedInterval(size) == CHOOSE k \in 1 .. size : k * k - k < size /\ size <= k * k + k

\* The jobs at one point of a sweep: one of K is repeated for one structure only.
Jobs(options, w, variant) ==
  {s \in options.structures :
     w.axis = "k" /\ s # "checkpointing" => variant = w.variants[1]}

\* The interval a row reports; 0 stands for never.
JobInterval(w, size, variant, structure) ==
  IF w.axis = "k" /\ structure = "checkpointing" THEN variant ELSE BalancedInterval(size)

\* The attempts an invocation does not skip: warm-ups, and the trials asked for.
Attempts(options) ==
  {a \in 0 .. options.warmup + options.trials - 1 :
     options.trialIndex >= 0 /\ a >= options.warmup => a - options.warmup = options.trialIndex}

\* Seeded bug: the one trial of a process does not count the warm-up attempts.
SeedOfTrial(options, attempt) ==
  options.seed + (IF options.trialIndex >= 0 THEN options.trialIndex ELSE attempt)

Seed(options, attempt) == options.seed + attempt

\* A cell that has reached the cap often enough is not run again.
Skipped(options, variant, structure, attempt) ==
  /\ <<variant, structure>> \in options.reachesCap
  /\ Cardinality(Attempts(options) \cap (options.warmup .. attempt - 1)) >= options.cappedTrials

(***************************************************************************)
(* The rows written between two flushes: those of one attempt at one       *)
(* variant.  A warm-up attempt is measured and flushed, but has no rows.   *)
(***************************************************************************)
RowGroup(options, w, size, attempt, variant) ==
  {[workload |-> w.id, n |-> size, variant |-> variant, structure |-> s,
    k |-> JobInterval(w, size, variant, s),
    seed |-> Seed(options, attempt), trial |-> attempt - options.warmup] :
     s \in {job \in Jobs(options, w, variant) :
              attempt >= options.warmup /\ ~Skipped(options, variant, job, attempt)}}

\* The points an invocation visits for a workload its filter lets through.
Points(options, w) ==
  (Range(w.sizes) \cap options.sizes) \X (Range(w.variants) \cap options.variants)

Selected(options) == {w \in Range(workloads) : w.id \in options.ids}

\* The rows of a whole invocation.
Rows(options) ==
  UNION {UNION {RowGroup(options, w, p[1], a, p[2]) :
                  p \in Points(options, w), a \in Attempts(options)} : w \in Selected(options)}

-----------------------------------------------------------------------------
(***************************************************************************)
(* build_jobs of confirm_schedule.py: the cells, of which each trial is to *)
(* be a process of its own.                                                *)
(***************************************************************************)
BuildJobs(options) ==
  (UNION {{[workload |-> w.id, n |-> p[1], variant |-> p[2], structure |-> s] :
             p \in Points(options, w), s \in options.structures} : w \in Selected(options)})
    \ (UNION {{[workload |-> w.id, n |-> p[1], variant |-> p[2], structure |-> s] :
                 p \in {q \in Points(options, w) : q[2] # w.variants[1]},
                 s \in options.structures \ {"checkpointing"}} :
                w \in {x \in Selected(options) : x.axis = "k"}})

=============================================================================
