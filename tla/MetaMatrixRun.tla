---------------------------- MODULE MetaMatrixRun ----------------------------
(***************************************************************************)
(* The refresh of the HSGuru matrix (app/hsguru_meta_matrix.py) with its   *)
(* progress counters (app/job_run.py): a run discovers the period, takes   *)
(* over the checkpoint of an earlier run if it still fits, fetches the     *)
(* missing slices concurrently, first the matrix and then the current      *)
(* catalog, saves a checkpoint after every slice, and publishes when all   *)
(* of them are there.  Deadlines, failed saves and crashes end runs early; *)
(* the deck join rewrites the published dataset under the same lock.       *)
(*                                                                         *)
(* Times are ages, counted up to Cap: a record gets older at each Tick.    *)
(* A batch is what a set of slices tells: which there are, the age of the  *)
(* oldest, and the periods they were fetched for.                          *)
(***************************************************************************)
EXTENDS Integers, FiniteSets

CONSTANTS
  Matrix,          \* slices of the matrix
  Catalog,         \* formats of the current catalog
  Periods,
  DefaultPeriod,   \* used when the discovery raises
  Attempts,        \* attempts of a matrix slice
  Concurrency,     \* scrapes of the matrix at a time
  Deadline,        \* age at which a run is timed out
  TTL,             \* age of the last save up to which a checkpoint is resumed
  Cap,             \* bound: ages are not told apart beyond it
  MaxFaults        \* bound: crashes and failed saves

\* What the proofs take from app/config.py and the constants of the module.
MatrixAssumption ==
  /\ IsFiniteSet(Matrix) /\ IsFiniteSet(Catalog)
  /\ DefaultPeriod \in Periods
  /\ Attempts \in Nat \ {0}
  /\ Concurrency \in Nat /\ Deadline \in Nat /\ TTL \in Nat
  /\ Cap \in Nat /\ MaxFaults \in Nat

VARIABLES
  run,             \* the run of the process that has the lock
  slice,           \* its slices
  count,           \* its JobRunContext
  checkpoint,
  dataset,         \* what is published
  status,          \* the last status: its window (an age), and whether it timed out
  join,            \* the deck join: the dataset it has loaded
  faults

vars == <<run, slice, count, checkpoint, dataset, status, join, faults>>

Slices == Matrix \union Catalog
Ages == 0 .. Cap

NoBatch == [have |-> {}, oldest |-> 0, periods |-> {}]
With(batch, s, p) == [batch EXCEPT !.have = @ \union {s}, !.periods = @ \union {p}]

NoRun == [pc |-> "idle", period |-> DefaultPeriod, batch |-> NoBatch, start |-> 0,
          age |-> 0, errors |-> FALSE, late |-> FALSE, saving |-> TRUE]
NoCount == [total |-> 0, started |-> 0, succeeded |-> 0, failed |-> 0, skipped |-> 0]
NoCheckpoint == [state |-> "none", period |-> DefaultPeriod, batch |-> NoBatch,
                 start |-> 0, saved |-> 0]
NoDataset == [period |-> DefaultPeriod, batch |-> NoBatch, start |-> Cap]
NoJoin == [pc |-> "idle", loaded |-> NoDataset]

Batches == [have : SUBSET Slices, oldest : Ages, periods : SUBSET Periods]

TypeOK ==
  /\ run \in [pc : {"idle", "discover", "matrix", "catalog", "publish", "close", "report"},
              period : Periods, batch : Batches, start : Ages, age : Ages,
              errors : BOOLEAN, late : BOOLEAN, saving : BOOLEAN]
  /\ slice \in [Slices -> [st : {"waiting", "fetching", "retry", "done", "failed", "skipped"},
                           try : 0 .. Attempts]]
  /\ count \in [total : Nat, started : Nat, succeeded : Nat, failed : Nat, skipped : Nat]
  /\ checkpoint \in [state : {"none", "in_progress", "complete"}, period : Periods,
                     batch : Batches, start : Ages, saved : Ages]
  /\ dataset \in [period : Periods, batch : Batches, start : Ages]
  /\ status \in [window : Ages, late : BOOLEAN]
  /\ join \in [pc : {"idle", "loaded"}, loaded : [period : Periods, batch : Batches, start : Ages]]
  /\ faults \in 0 .. MaxFaults

Init ==
  /\ run = NoRun
  /\ slice = [s \in Slices |-> [st |-> "waiting", try |-> 0]]
  /\ count = NoCount
  /\ checkpoint = NoCheckpoint
  /\ dataset = NoDataset
  /\ status = [window |-> Cap, late |-> FALSE]
  /\ join = NoJoin
  /\ faults = 0

-----------------------------------------------------------------------------
\* The job's lock.
Unlocked == run.pc = "idle" /\ join.pc = "idle"

Start ==
  /\ Unlocked
  /\ run' = [NoRun EXCEPT !.pc = "discover"]
  /\ count' = NoCount
  /\ slice' = [s \in Slices |-> [st |-> "waiting", try |-> 0]]
  /\ UNCHANGED <<checkpoint, dataset, status, join, faults>>

\* The file a run with this state leaves, if its saves work.
Saved(r, state) ==
  [state |-> state, period |-> r.period, batch |-> r.batch, start |-> r.start, saved |-> 0]

\* save_progress_checkpoint: the first failed save is the run's last one.
Save(r, state) ==
  \/ /\ r.saving
     /\ run' = r
     /\ checkpoint' = Saved(r, state)
     /\ UNCHANGED faults
  \/ /\ r.saving /\ faults < MaxFaults
     /\ run' = [r EXCEPT !.saving = FALSE]
     /\ faults' = faults + 1
     /\ UNCHANGED checkpoint
  \/ /\ ~r.saving
     /\ run' = r
     /\ UNCHANGED <<checkpoint, faults>>

\* _load_refresh_checkpoint
Fits(p) == checkpoint.state = "in_progress" /\ checkpoint.period = p /\ checkpoint.saved <= TTL

\* Mutant: the run saves its own empty checkpoint before it reads the one it resumes.
ResumedFromNothing(p, failed) ==
  [run EXCEPT !.pc = "matrix", !.period = p, !.errors = failed, !.batch = NoBatch,
              !.start = run.age]

\* A run that takes a checkpoint over starts, for its readers, when the first
\* run of the checkpoint did.
Resumed(p, failed) ==
  [run EXCEPT !.pc = "matrix", !.period = p, !.errors = failed,
              !.batch = IF Fits(p) THEN checkpoint.batch ELSE NoBatch,
              !.start = IF Fits(p) THEN checkpoint.start ELSE run.age]

\* The period is discovered, or its discovery raises and the default one is
\* used; the checkpoint is taken over and saved again.
Discover(p, failed) ==
  /\ run.pc = "discover"
  /\ failed => p = DefaultPeriod
  /\ LET r == Resumed(p, failed) IN
       /\ count' = [count EXCEPT !.total = Cardinality(Slices \ r.batch.have)]
       /\ slice' = [s \in Slices |-> IF s \in r.batch.have THEN [slice[s] EXCEPT !.st = "done"]
                                                           ELSE slice[s]]
       /\ Save(r, "in_progress")
  /\ UNCHANGED <<dataset, status, join>>

Working(s) == (run.pc = "matrix" /\ s \in Matrix) \/ (run.pc = "catalog" /\ s \in Catalog)
Late == run.age >= Deadline

\* A free place of the semaphore; the catalog has none.
MayScrape(s) ==
  s \in Matrix => Cardinality({m \in Matrix : slice[m].st = "fetching"}) < Concurrency

\* try_start_slice
StartSlice(s) ==
  /\ Working(s) /\ slice[s].st = "waiting" /\ MayScrape(s)
  /\ IF Late
     THEN /\ slice' = [slice EXCEPT ![s].st = "skipped"]
          /\ count' = [count EXCEPT !.skipped = @ + 1]
          /\ run' = [run EXCEPT !.late = TRUE, !.errors = TRUE]
     ELSE /\ slice' = [slice EXCEPT ![s] = [st |-> "fetching", try |-> 1]]
          /\ count' = [count EXCEPT !.started = @ + 1]
          /\ UNCHANGED run
  /\ UNCHANGED <<checkpoint, dataset, status, join, faults>>

\* A matrix slice tries again, or is given up at the deadline.
Retry(s) ==
  /\ Working(s) /\ slice[s].st = "retry" /\ MayScrape(s)
  /\ IF Late
     THEN /\ slice' = [slice EXCEPT ![s].st = "failed"]
          /\ count' = [count EXCEPT !.failed = @ + 1]
          /\ run' = [run EXCEPT !.late = TRUE, !.errors = TRUE]
     ELSE /\ slice' = [slice EXCEPT ![s] = [st |-> "fetching", try |-> slice[s].try + 1]]
          /\ UNCHANGED <<count, run>>
  /\ UNCHANGED <<checkpoint, dataset, status, join, faults>>

\* The slice is accepted and saved; finish_slice looks at the deadline.
Succeed(s) ==
  /\ Working(s) /\ slice[s].st = "fetching"
  /\ slice' = [slice EXCEPT ![s].st = "done"]
  /\ count' = [count EXCEPT !.succeeded = @ + 1]
  /\ Save([run EXCEPT !.batch = With(@, s, run.period), !.late = @ \/ Late], "in_progress")
  /\ UNCHANGED <<dataset, status, join>>

\* The slice is given up: a refused table, or the last attempt.
GiveUp(s) ==
  /\ Working(s) /\ slice[s].st = "fetching"
  /\ slice' = [slice EXCEPT ![s].st = "failed"]
  /\ count' = [count EXCEPT !.failed = @ + 1]
  /\ run' = [run EXCEPT !.errors = TRUE, !.late = @ \/ Late]
  /\ UNCHANGED <<checkpoint, dataset, status, join, faults>>

\* The attempt fails and another one is left: the place of the semaphore is
\* given back during the pause.
Pause(s) ==
  /\ Working(s) /\ slice[s].st = "fetching"
  /\ s \in Matrix /\ slice[s].try < Attempts
  /\ slice' = [slice EXCEPT ![s].st = "retry"]
  /\ UNCHANGED <<run, count, checkpoint, dataset, status, join, faults>>

Settled(set) == \A s \in set : slice[s].st \in {"done", "failed", "skipped"}

EndMatrix ==
  /\ run.pc = "matrix" /\ Settled(Matrix)
  /\ run' = [run EXCEPT !.pc = "catalog"]
  /\ UNCHANGED <<slice, count, checkpoint, dataset, status, join, faults>>

\* nothing carried over, no error, not late
Publishable(r) == r.batch.have = Slices /\ ~r.errors /\ ~r.late

\* Everything after the last gather runs without an await: the decision ...
EndCatalog ==
  /\ run.pc = "catalog" /\ Settled(Catalog)
  /\ LET r == [run EXCEPT !.late = @ \/ Late] IN
       run' = [r EXCEPT !.pc = IF Publishable(r) THEN "publish" ELSE "close"]
  /\ UNCHANGED <<slice, count, checkpoint, dataset, status, join, faults>>

\* ... save_dataset ...
Publish ==
  /\ run.pc = "publish"
  /\ dataset' = [period |-> run.period, batch |-> run.batch, start |-> run.start]
  /\ run' = [run EXCEPT !.pc = "close"]
  /\ UNCHANGED <<slice, count, checkpoint, status, join, faults>>

\* ... the last checkpoint ...
Close ==
  /\ run.pc = "close"
  /\ Save([run EXCEPT !.pc = "report"],
          IF Publishable(run) THEN "complete" ELSE "in_progress")
  /\ UNCHANGED <<slice, count, dataset, status, join>>

\* ... and the status; then the lock goes.
Report ==
  /\ run.pc = "report"
  /\ status' = [window |-> run.start, late |-> run.late]
  /\ run' = NoRun
  /\ UNCHANGED <<slice, count, checkpoint, dataset, join, faults>>

\* _checkpoint_window_start_for_hard_timeout
TimeoutWindow ==
  IF checkpoint.state = "in_progress" /\ checkpoint.saved <= TTL
  THEN checkpoint.start ELSE run.age

Awaiting == run.pc \in {"discover", "matrix", "catalog"}

\* asyncio.timeout cancels the run at an await; the status is written and
\* the lock goes, while requests of the run may still be under way.
HardTimeout ==
  /\ Awaiting
  /\ Late
  /\ status' = [window |-> TimeoutWindow, late |-> TRUE]
  /\ run' = NoRun
  /\ UNCHANGED <<slice, count, checkpoint, dataset, join, faults>>

Crash ==
  /\ faults < MaxFaults
  /\ run.pc # "idle" \/ join.pc # "idle"
  /\ run' = NoRun
  /\ join' = NoJoin
  /\ faults' = faults + 1
  /\ UNCHANGED <<slice, count, checkpoint, dataset, status>>

\* The deck join loads the dataset and saves it with the new decks.
JoinLoad ==
  /\ Unlocked /\ dataset.batch.have # {}
  /\ join' = [pc |-> "loaded", loaded |-> dataset]
  /\ UNCHANGED <<run, slice, count, checkpoint, dataset, status, faults>>

JoinSave ==
  /\ join.pc = "loaded"
  /\ dataset' = join.loaded
  /\ join' = NoJoin
  /\ UNCHANGED <<run, slice, count, checkpoint, status, faults>>

-----------------------------------------------------------------------------
Older(a) == IF a < Cap THEN a + 1 ELSE Cap
OlderBatch(b) == IF b.have = {} THEN b ELSE [b EXCEPT !.oldest = Older(@)]
OlderDataset(d) == [d EXCEPT !.start = Older(@), !.batch = OlderBatch(@)]

\* Time passes, and everything that is there gets older.  The timer of the
\* deadline is not late by more than one tick.
Tick ==
  /\ run.pc \notin {"publish", "close", "report"}
  /\ Awaiting => run.age <= Deadline
  /\ run' = IF run.pc = "idle" THEN run
            ELSE [run EXCEPT !.age = Older(@), !.batch = OlderBatch(@),
                             !.start = IF run.pc = "discover" THEN @ ELSE Older(@)]
  /\ checkpoint' = IF checkpoint.state = "none" THEN checkpoint
                   ELSE [checkpoint EXCEPT !.start = Older(@), !.saved = Older(@),
                                           !.batch = OlderBatch(@)]
  /\ dataset' = OlderDataset(dataset)
  /\ status' = [status EXCEPT !.window = Older(@)]
  /\ join' = IF join.pc = "idle" THEN join ELSE [join EXCEPT !.loaded = OlderDataset(@)]
  /\ UNCHANGED <<slice, count, faults>>

Fetches == \E s \in Slices : \/ StartSlice(s) \/ Retry(s)
                             \/ Succeed(s) \/ GiveUp(s) \/ Pause(s)

Ends == EndMatrix \/ EndCatalog \/ Publish \/ Close \/ Report

Next ==
  \/ Start
  \/ \E p \in Periods, failed \in BOOLEAN : Discover(p, failed)
  \/ Fetches
  \/ Ends
  \/ HardTimeout
  \/ Crash
  \/ JoinLoad \/ JoinSave
  \/ Tick

Spec == Init /\ [][Next]_vars

-----------------------------------------------------------------------------
\* What is published is a whole matrix of one period, and none of its slices
\* is older than the time it is published under: whatever runs, resumptions,
\* crashes and timeouts it took (publishable, the checkpoint's started_at).
PublishedIsWhole ==
  dataset.batch.have # {} =>
    /\ dataset.batch.have = Slices
    /\ dataset.batch.periods = {dataset.period}
    /\ dataset.batch.oldest <= dataset.start

\* The counters of a run agree with its slices: a slice is started once,
\* however often it is tried, and at the end none is missing (JobRunContext,
\* whose finish_slice raises when the counts disagree).
CountsAddUp ==
  LET ended == count.succeeded + count.failed
      here(set) == Cardinality({s \in Slices : slice[s].st \in set})
  IN run.pc \notin {"idle", "discover"} =>
       /\ count.started = ended + here({"fetching", "retry"})
       /\ count.started + count.skipped <= count.total
       /\ run.pc \in {"publish", "close", "report"} => count.started + count.skipped = count.total

\* A checkpoint loses none of its slices while a run could resume it, whatever
\* ends the runs (save_progress_checkpoint at the start of every run).
ProgressIsKeptStep ==
  checkpoint.state = "in_progress" /\ checkpoint'.period = checkpoint.period
  /\ checkpoint.saved <= TTL
  => checkpoint.batch.have \subseteq checkpoint'.batch.have

\* A publication never goes back behind the one before it of its period (the lock of
\* the run and of the deck join, and the start a run takes over).  It may when a run of
\* another period, whose saves fail, is published in between.
NoOlderPublicationStep == dataset'.start <= Older(dataset.start)

\* A complete run's checkpoint is not taken over: what was published is not
\* published again without a fetch (the state of the checkpoint).
CompleteIsNotResumedStep ==
  run.pc = "discover" /\ run'.pc = "matrix" /\ checkpoint.state = "complete"
  => run'.batch.have = {}

\* The status of a hard timeout names the refresh window of the run, as its
\* other statuses do, if its checkpoint could be saved
\* (_checkpoint_window_start_for_hard_timeout).
TimeoutNamesWindowStep ==
  run.pc \in {"matrix", "catalog"} /\ run.saving /\ run'.pc = "idle" /\ faults' = faults
  => status'.window = run.start
=============================================================================
