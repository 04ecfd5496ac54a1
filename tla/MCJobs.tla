------------------------------- MODULE MCJobs --------------------------------
(***************************************************************************)
(* The jobs beside the refresh: their locks, the runs of the HSGuru matrix *)
(* and of its archetype analysis, the ledger of the scheduled runs, the    *)
(* syncs of the panel.  They share no state and are checked beside each    *)
(* other in one run, as "job" says.  "locks" has a refresh of several      *)
(* sources, a job of two and one with a second set for its publication;    *)
(* "matrix" has two periods, "join" one and a longer memory of ages,       *)
(* "slices" more slices and no faults; "analysis" has one archetype and    *)
(* three windows, "archetypes" two of them and a matrix that changes;      *)
(* "plan" has a daily schedule, a post-patch one and two deployments,      *)
(* "claims" and "results" one schedule and its runs; "pages", "pictures",  *)
(* "cards" and "sync" are the instances of MCPanel.                        *)
(***************************************************************************)
EXTENDS ResourceLocks, MCPanel, TLC

VARIABLES
  job,
  matrixRun, slice, count, checkpoint, dataset, status, join, matrixFaults,
  clock, matrix, analysisRun, entry, gaps, work, streak, kept, published, moves, cuts,
  now, tracked, enabled, earlyUntil, rows, ledger, timers, part, attempts, runs,
  changes

CONSTANTS refresh, details, analysis

MCJobs == {refresh, details, analysis}
MCStages == refresh :> <<{1, 2, 3}>> @@ details :> <<{2, 3}>> @@ analysis :> <<{1}, {3}>>
MCMode == [j \in MCJobs |-> IF j = refresh THEN "each" ELSE "all"]

OneSlice == INSTANCE MetaMatrixRun WITH
  Matrix <- {"m1"}, Catalog <- {"c1"}, Periods <- {"p1", "p2"}, DefaultPeriod <- "p1",
  Attempts <- 1, Concurrency <- 1, Deadline <- 1, TTL <- 1, Cap <- 2, MaxFaults <- 1,
  run <- matrixRun, faults <- matrixFaults

\* With a deck join, ages are told apart for longer, and a checkpoint outlives a run.
DeckJoin == INSTANCE MetaMatrixRun WITH
  Matrix <- {"m1"}, Catalog <- {"c1"}, Periods <- {"p1"}, DefaultPeriod <- "p1",
  Attempts <- 1, Concurrency <- 1, Deadline <- 1, TTL <- 2, Cap <- 4, MaxFaults <- 0,
  run <- matrixRun, faults <- matrixFaults

\* Two slices for one place of the semaphore.
Several == INSTANCE MetaMatrixRun WITH
  Matrix <- {"m1", "m2"}, Catalog <- {"c1"}, Periods <- {"p1"}, DefaultPeriod <- "p1",
  Attempts <- 2, Concurrency <- 1, Deadline <- 1, TTL <- 1, Cap <- 2, MaxFaults <- 0,
  run <- matrixRun, faults <- matrixFaults

\* One archetype, asked for again and again.
OneArchetype == INSTANCE ArchetypeAnalysis WITH
  Targets <- {1}, Answers <- {"rows", "no_tallies"}, Workers <- 2, Batch <- 1, Budget <- 1,
  Threshold <- 2, SaveEvery <- 2, Retry <- 2, TTL <- 0, RecoveryTTL <- 2,
  MaxClock <- 3, MaxChanges <- 0, MaxFaults <- 1,
  run <- analysisRun, checkpoint <- kept, dataset <- published, changes <- moves,
  faults <- cuts

\* Two of them, in a matrix that is published again.
TwoArchetypes == INSTANCE ArchetypeAnalysis WITH
  Targets <- {1, 2}, Answers <- {"rows"}, Workers <- 1, Batch <- 2, Budget <- 2,
  Threshold <- 3, SaveEvery <- 2, Retry <- 2, TTL <- 1, RecoveryTTL <- 2,
  MaxClock <- 2, MaxChanges <- 1, MaxFaults <- 0,
  run <- analysisRun, checkpoint <- kept, dataset <- published, changes <- moves,
  faults <- cuts

DailyOfX == "daily" :> {"x"}
DailyOfXY == "daily" :> {"x", "y"}

\* What is due, decided ahead of time: no run is made.
Plan == INSTANCE ScheduleLedger WITH
  Schedules <- {"daily", "patch"}, Sources <- {"x", "y"},
  Deployments <- {DailyOfX @@ "patch" :> {"y"}, DailyOfXY @@ "patch" :> {"y"}},
  FirstDeployment <- DailyOfX @@ "patch" :> {"y"},
  Nominal <- ("daily" :> {1, 3} @@ "patch" :> {2}), EarlyOnly <- {"patch"},
  Refreshes <- [s \in {"daily", "patch"} |-> <<{"x", "y"}>>],
  Horizons <- {1, 3}, Life <- 1, Untils <- {0, 3}, MaxTime <- 4, MaxRuns <- 0,
  MaxChanges <- 2, run <- timers

\* The runs of a schedule whose inventory changes, each of two refreshes.
Claims == INSTANCE ScheduleLedger WITH
  Schedules <- {"daily"}, Sources <- {"x", "y"},
  Deployments <- {DailyOfX, DailyOfXY}, FirstDeployment <- DailyOfX,
  Nominal <- "daily" :> {1, 2}, EarlyOnly <- {}, Refreshes <- "daily" :> <<{"x"}, {"y"}>>,
  Horizons <- {1, 2}, Life <- 1, Untils <- {0}, MaxTime <- 3, MaxRuns <- 1, MaxChanges <- 2, run <- timers

\* Several results for one occurrence, and the report that counts them.
Results == INSTANCE ScheduleLedger WITH
  Schedules <- {"daily"}, Sources <- {"x"},
  Deployments <- {DailyOfX}, FirstDeployment <- DailyOfX,
  Nominal <- "daily" :> {1, 2}, EarlyOnly <- {}, Refreshes <- "daily" :> <<{"x"}>>,
  Horizons <- {1, 2}, Life <- 1, Untils <- {0}, MaxTime <- 3, MaxRuns <- 3, MaxChanges <- 1, run <- timers

\* What the proofs about the locks, the matrix and the ledger assume holds of these jobs.
ASSUME JobsAssumption ==
  /\ LocksAssumption
  /\ OneSlice!MatrixAssumption /\ DeckJoin!MatrixAssumption /\ Several!MatrixAssumption
  /\ Plan!LedgerAssumption /\ Claims!LedgerAssumption /\ Results!LedgerAssumption

matrixVars == <<matrixRun, slice, count, checkpoint, dataset, status, join, matrixFaults>>
analysisVars == <<clock, matrix, analysisRun, entry, gaps, work, streak, kept, published,
                  moves, cuts>>
ledgerVars == <<now, tracked, enabled, earlyUntil, rows, ledger, timers, part, attempts,
                runs, changes>>
mcVars == <<job, lockVars, matrixVars, analysisVars, ledgerVars, panelVars>>

MCInit ==
  /\ job \in {"locks", "matrix", "join", "slices", "analysis", "archetypes",
             "plan", "claims", "results",
             "pages", "pictures", "cards", "sync"}
  /\ LocksInit
  /\ IF job = "slices" THEN Several!Init ELSE OneSlice!Init
  /\ IF job = "archetypes" THEN TwoArchetypes!Init ELSE OneArchetype!Init
  /\ CASE job = "plan" -> Plan!Init
       [] job = "claims" -> Claims!Init
       [] OTHER -> Results!Init
  /\ PanelInit
  /\ job # "pages" => script = "pets"
  /\ job # "pictures" => painter = "golden"
  /\ job # "cards" => catalog = {}

JobNext ==
  \/ job = "locks" /\ LocksNext /\ UNCHANGED <<matrixVars, analysisVars, ledgerVars>>
  \/ job = "matrix" /\ OneSlice!Next /\ UNCHANGED <<lockVars, analysisVars, ledgerVars>>
  \/ job = "join" /\ DeckJoin!Next /\ UNCHANGED <<lockVars, analysisVars, ledgerVars>>
  \/ job = "slices" /\ Several!Next /\ UNCHANGED <<lockVars, analysisVars, ledgerVars>>
  \/ job = "analysis" /\ OneArchetype!Next /\ UNCHANGED <<lockVars, matrixVars, ledgerVars>>
  \/ job = "archetypes" /\ TwoArchetypes!Next /\ UNCHANGED <<lockVars, matrixVars, ledgerVars>>
  \/ job = "plan" /\ Plan!Next /\ UNCHANGED <<lockVars, matrixVars, analysisVars>>
  \/ job = "claims" /\ Claims!Next /\ UNCHANGED <<lockVars, matrixVars, analysisVars>>
  \/ job = "results" /\ Results!Next /\ UNCHANGED <<lockVars, matrixVars, analysisVars>>

PanelNext ==
  \/ job = "pages" /\ Pages!Next /\ UNCHANGED <<picturesVars, cardsVars, syncVars>>
  \/ job = "pictures" /\ CardArt!Next /\ UNCHANGED <<pagesVars, cardsVars, syncVars>>
  \/ job = "cards" /\ CardTables!Next /\ UNCHANGED <<pagesVars, picturesVars, syncVars>>
  \/ job = "sync" /\ Syncs!Next /\ UNCHANGED <<pagesVars, picturesVars, cardsVars>>

MCNext ==
  /\ UNCHANGED job
  /\ \/ JobNext /\ UNCHANGED panelVars
     \/ PanelNext /\ UNCHANGED <<lockVars, matrixVars, analysisVars, ledgerVars>>

MCSpec == MCInit /\ [][MCNext]_mcVars

-----------------------------------------------------------------------------
\* The records the jobs keep are true whatever interrupts them: the lock files
\* (WorkersAreDescribed, IdleHoldNothing), the published matrix and its counters
\* (PublishedIsWhole, CountsAddUp), the published analysis and its failures
\* (PublishedIsOfOneWindow, FailuresWithinBudget), the obligations and results of the
\* timers (CoverageIsComplete, NoInventedObligation, ResultsHaveSlots) and their report
\* (ReportAddsUp, VerdictsAreFounded), the rows of the panel and their children
\* (KidsAgree), the memory of its pictures (MemoryIsTrue), the formats of its cards
\* (MembersAreServed, MembersHaveRows) and the word on its syncs (OneSyncAtATime,
\* StatusTells).
RecordsAreTrue ==
  /\ job = "locks" => LocksTypeOK /\ WorkersAreDescribed /\ IdleHoldNothing
  /\ job = "matrix" => OneSlice!TypeOK /\ OneSlice!PublishedIsWhole
  /\ job = "slices" => Several!TypeOK /\ Several!CountsAddUp
  /\ job = "analysis" => /\ OneArchetype!TypeOK
                          /\ OneArchetype!PublishedIsOfOneWindow
                          /\ OneArchetype!FailuresWithinBudget
  /\ job = "archetypes" => /\ TwoArchetypes!TypeOK
                            /\ TwoArchetypes!PublishedIsOfOneWindow
                            /\ TwoArchetypes!FailuresWithinBudget
  /\ job = "plan" => /\ Plan!TypeOK /\ Plan!CoverageIsComplete
                     /\ Plan!NoInventedObligation /\ Plan!VerdictsAreFounded
  /\ job = "claims" => Claims!TypeOK /\ Claims!ResultsHaveSlots /\ Claims!CoverageIsComplete
  /\ job = "results" => Results!TypeOK /\ Results!ReportAddsUp /\ Results!VerdictsAreFounded
  /\ job = "pages" => Pages!TypeOK /\ Pages!KidsAgree
  /\ job = "pictures" => CardArt!TypeOK /\ CardArt!MemoryIsTrue
  /\ job = "cards" => /\ CardTables!TypeOK
                      /\ CardTables!MembersAreServed
                      /\ CardTables!MembersHaveRows
  /\ job = "sync" => Syncs!TypeOK /\ Syncs!OneSyncAtATime /\ Syncs!StatusTells

\* Nothing done or decided is taken back: a checkpoint keeps its slices, a
\* complete one is not resumed, a publication does not go back behind another, a
\* timeout names its run's window (ProgressIsKept, CompleteIsNotResumed,
\* NoOlderPublication, TimeoutNamesWindow), the analysis keeps what it completed
\* and publishes the current matrix, no earlier window (CompletedStay,
\* PublishesTheMatrix, NoEarlierWindow), what was due stays as it was decided
\* and a verdict of the report is final (DueDecisionsStay, VerdictsAreFinal).  The
\* panel tells every change, goes back to no older page and neglects no card
\* (ChangesAreTold, NoOlderContent, RotationMoves, FailuresAreReported); a run that
\* ends well leaves no old or unlinked picture (PicturesAreFresh, PicturesAreLinked);
\* a card keeps what it was given (GivenIsKept, CardChangesAreTold, CompanionsAreSaved)
\* and the commands of a sync are run in order (CommandsInOrder).
NothingIsTakenBack ==
  [][/\ job = "matrix" => /\ OneSlice!ProgressIsKeptStep
                          /\ OneSlice!CompleteIsNotResumedStep
     /\ job = "join" => DeckJoin!NoOlderPublicationStep /\ DeckJoin!TimeoutNamesWindowStep
     /\ job = "analysis" => /\ OneArchetype!NoEarlierWindowStep
                             /\ OneArchetype!CompletedStayStep
     /\ job = "archetypes" => /\ TwoArchetypes!PublishesTheMatrixStep
                               /\ TwoArchetypes!CompletedStayStep
     /\ job = "plan" => Plan!DueDecisionsStayStep
     /\ job = "results" => Results!VerdictsAreFinalStep
     /\ job = "pages" => /\ Pages!ChangesAreToldStep
                         /\ Pages!NoOlderContentStep
                         /\ Pages!RotationMovesStep
                         /\ Pages!FailuresAreReportedStep
     /\ job = "pictures" => CardArt!PicturesAreFreshStep /\ CardArt!PicturesAreLinkedStep
     /\ job = "cards" => /\ CardTables!GivenIsKeptStep
                         /\ CardTables!CardChangesAreToldStep
                         /\ CardTables!CompanionsAreSavedStep
     /\ job = "sync" => Syncs!CommandsInOrderStep]_mcVars
=============================================================================
