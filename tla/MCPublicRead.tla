---------------------------- MODULE MCPublicRead ----------------------------
(* Independent instances in one run, selected by "reading": a reader *)
(* and a client beside a short history of publications, a longer history,  *)
(* with row counts below and above both minimums (2 is contracted against  *)
(* 5), that nobody reads, the gate of every source with payloads at the    *)
(* limits of its rules, and the cache of answers, with data that ages      *)
(* ("answers") and with queries sent as digests ("digests"); the database: *)
(* snapshots of the archetypes of two ranks ("archetypes"), of the minions *)
(* by two processes ("minions"), and decks ("decks"); the telemetry of two *)
(* runs of one window and a third ("report") and of two full ones over     *)
(* more time ("coverage").                                                 *)
EXTENDS PublicRead, TLC

VARIABLES reading, source, early, now, served, outcome,
          time, redis, local, off, caller,
          taken, shots, files, spoiled, told, worker, deaths, decks, refused, stored,
          today, cohort, attempts, refreshes, records, updates

MCRows == {1, 2}

Long == INSTANCE EarlyPublication WITH
  Rows <- {1, 2, 5}, MaxClock <- 2, MaxRevision <- 2, MaxVersion <- 3

MC == INSTANCE MCPayloads

Gate == INSTANCE PublishGate WITH
  Payloads <- MC!AllPayloads, FirstPayloads <- MC!OldPayloads, NoPayload <- NoData,
  MaxTime <- 1

Ask(process, query, digest, credentials) ==
  [at |-> process, query |-> query, digest |-> digest, credentials |-> credentials]

Answers == INSTANCE AnswerCache WITH
  Workers <- {"v", "w"}, Clients <- {"a", "b"}, Queries <- {"p"}, Cacheable <- {"p"},
  Sent <- {Ask("v", "p", "none", FALSE), Ask("w", "p", "none", FALSE)},
  Ttl <- 2, Refill <- 2, Timeout <- 0, LocalEntries <- 1, Retry <- 1, MaxTime <- 3,
  now <- time, client <- caller

Digests == INSTANCE AnswerCache WITH
  Workers <- {"v", "w"}, Clients <- {"a", "b"}, Queries <- {"p", "q"}, Cacheable <- {"p"},
  Sent <- {Ask("v", "p", "p", TRUE), Ask("w", "p", "p", TRUE), Ask("v", "none", "p", FALSE),
           Ask("w", "none", "p", FALSE), Ask("v", "q", "p", FALSE)},
  Ttl <- 1, Refill <- 1, Timeout <- 1, LocalEntries <- 2, Retry <- 1, MaxTime <- 0,
  now <- time, client <- caller

Archetypes == INSTANCE SnapshotDatabase WITH
  Processes <- {"a", "o"}, Kind <- "a" :> "archetypes" @@ "o" :> "others",
  Items <- {1, 2}, Indexes <- {{}, {1, 2}}, Payloads <- {}, NoId <- 0, MinMinions <- 2,
  FillPercent <- 90, Uploads <- {}, None <- "-", MaxRuns <- 3, MaxDeaths <- 1, MaxUploads <- 0,
  runs <- taken, rows <- shots, dataset <- files, status <- told, job <- worker,
  uploads <- stored

\* Two refreshes of the minions, without a lock, and datasets with decks.
Minions == INSTANCE SnapshotDatabase WITH
  Processes <- {"a", "o"}, Kind <- "a" :> "minions" @@ "o" :> "minions",
  Items <- {1, 2, 3}, Indexes <- {}, Payloads <- MC!Minions, NoId <- 0, MinMinions <- 2,
  FillPercent <- 90, Uploads <- MC!Datasets, None <- "-", MaxRuns <- 2, MaxDeaths <- 1,
  MaxUploads <- 3,
  runs <- taken, rows <- shots, dataset <- files, status <- told, job <- worker,
  uploads <- stored

Report == INSTANCE ReliabilityReport WITH
  Sources <- {"x", "y"}, Instrumented <- {"x", "y"}, Gated <- {"x"}, Issued <- "y",
  Runs <- {MC!Run("main", "w", TRUE, 2), MC!Run("other", "-", TRUE, 2),
           MC!Run("locked", "w", FALSE, 0)},
  NoWindow <- "-", Results <- MC!Recorded, Cohorts <- {"c"}, Ready <- FALSE,
  Period <- 1, Bucket <- 1, MaxGap <- 2, Target <- 99, MaxTime <- 2, MaxRecords <- 2,
  MaxUpdates <- 1, now <- today

\* Two buckets, and a tolerated time between one and two of them.
Cover == INSTANCE ReliabilityReport WITH
  Sources <- {"x"}, Instrumented <- {"x"}, Gated <- {}, Issued <- "y",
  Runs <- {MC!Run("main", "-", TRUE, 1), MC!Run("other", "-", TRUE, 1)},
  NoWindow <- "-", Results <- {"x" :> MC!FreshStatus, "x" :> MC!LockedStatus},
  Cohorts <- {"c", "d"}, Ready <- FALSE,
  Period <- 4, Bucket <- 2, MaxGap <- 3, Target <- 99, MaxTime <- 5, MaxRecords <- 3,
  MaxUpdates <- 0, now <- today

\* What the proofs about the cache and the gate assume holds of these instances.
ASSUME ReadingAssumption ==
  Answers!CacheAssumption /\ Digests!CacheAssumption /\ Gate!GateAssumption

runVars == <<taken, shots, files, spoiled, told, worker, deaths>>
deckVars == <<decks, refused, stored>>
databaseVars == <<runVars, deckVars>>
reportVars == <<today, cohort, attempts, refreshes, records, updates>>
cacheVars == <<time, redis, local, off, caller>>
theGate == <<source, early, now, served, outcome>>
history == <<vars, readVars>>

MCInit ==
  /\ reading \in {"client", "nobody", "gate", "answers", "digests",
                 "archetypes", "minions", "decks", "report", "coverage"}
  /\ request = [open |-> FALSE, tag |-> NoTag]
  /\ client = [holds |-> FALSE, tag |-> NoTag, body |-> NoData]
  /\ IF reading = "nobody" THEN Long!Init ELSE Init
  /\ reading \notin {"client", "nobody"} => dataset = NoData
  /\ IF reading = "digests" THEN Digests!Init ELSE Answers!Init
  /\ Archetypes!Init
  /\ IF reading = "coverage" THEN Cover!Init ELSE Report!Init
  /\ IF reading = "gate" THEN Gate!GateInit
     ELSE /\ source = "heroes" /\ early = FALSE /\ now = 0
          /\ served = Gate!NothingServed /\ outcome = [state |-> "none", at |-> 0]

MCNext ==
  /\ UNCHANGED reading
  /\ \/ /\ \/ reading = "client" /\ ReadNext /\ UNCHANGED <<theGate, cacheVars>>
           \/ reading = "nobody" /\ Long!Next /\ UNCHANGED <<readVars, theGate, cacheVars>>
           \/ reading = "gate" /\ Gate!GateNext /\ UNCHANGED <<history, cacheVars>>
           \/ reading = "answers" /\ Answers!Next /\ UNCHANGED <<history, theGate>>
           \/ reading = "digests" /\ Digests!Next /\ UNCHANGED <<history, theGate>>
        /\ UNCHANGED <<databaseVars, reportVars>>
     \/ /\ \/ /\ \/ reading = "archetypes" /\ Archetypes!Next
                 \/ reading = "minions" /\ Minions!Next /\ UNCHANGED deckVars
                 \/ reading = "decks" /\ Minions!Next /\ UNCHANGED runVars
              /\ UNCHANGED reportVars
           \/ /\ \/ reading = "report" /\ Report!Next
                 \/ reading = "coverage" /\ Cover!Next
              /\ UNCHANGED databaseVars
        /\ UNCHANGED <<history, theGate, cacheVars>>

MCSpec == MCInit /\ [][MCNext]_<<history, theGate, cacheVars, databaseVars, reportVars, reading>>

-----------------------------------------------------------------------------
\* What the status page and the readers are told, the answers 304 included, was
\* published, for stable readers it passed the stable contract, and no gate let a
\* payload pass that had lost rows or metrics: StableIsStable and StatusIsHonest
\* of EarlyPublication, NotModifiedIsTrue and StableTagStableBody of PublicRead,
\* ServedIsSound of PublishGate, ServedRightly, DigestMeansQuery and KeptRightly of
\* AnswerCache; the database answers with whole snapshots, which the files are too
\* (SnapshotsAreTrue and NoUploadIsRefused of SnapshotDatabase); and the report on the
\* refreshes is true (ReportIsTrue of ReliabilityReport).
ReadersSeePublished ==
  /\ IF reading = "nobody" THEN Long!TypeOK ELSE ReadTypeOK
  /\ StableIsStable /\ StatusIsHonest /\ NotModifiedIsTrue /\ StableTagStableBody
  /\ reading = "gate" => Gate!GateTypeOK /\ Gate!ServedIsSound
  /\ reading = "answers" => Answers!TypeOK /\ Answers!ServedRightly /\ Answers!KeptRightly
  /\ reading = "digests" => Digests!TypeOK /\ Digests!DigestMeansQuery /\ Digests!KeptRightly
  /\ reading = "archetypes" => Archetypes!TypeOK /\ Archetypes!SnapshotsAreTrue
  /\ reading \in {"minions", "decks"} =>
       Minions!TypeOK /\ Minions!SnapshotsAreTrue /\ Minions!NoUploadIsRefused
  /\ reading = "report" => Report!TypeOK /\ Report!ReportIsTrue
  /\ reading = "coverage" => Cover!TypeOK /\ Cover!ReportIsTrue

\* What was published stays published: StableChannelIsKept of EarlyPublication;
\* a failed refresh keeps it in service, ServiceIsKeptStep of PublishGate; and so does
\* what was stored and recorded, FinishedRunsStayStep and DecksStayStep of
\* SnapshotDatabase, RowsStayStep of ReliabilityReport.
PublicationIsKept ==
  /\ StableChannelIsKept
  /\ [][Gate!ServiceIsKeptStep]_theGate
  /\ [][Archetypes!FinishedRunsStayStep]_runVars
  /\ [][Minions!DecksStayStep]_deckVars
  /\ [][reading = "report" => Report!RowsStayStep]_reportVars
=============================================================================
