------------------------------- MODULE MCPanel -------------------------------
(***************************************************************************)
(* The syncs of the panel beside each other, for MCJobs: the rows a script *)
(* makes of wiki pages, the pictures, the constructed cards and the        *)
(* scripts that fill them, and the script that runs the syncs one at a     *)
(* time.                                                                   *)
(***************************************************************************)
EXTENDS Integers

VARIABLES
  script, page, cache, table, draft, walk, hour, mishaps,
  painter, source, file, memo, link, touched, moment, visit, misses, adopted,
  feed, version, catalog, moved, db, session, sync, tick, troubles, served,
  step, locks, command, live, exit, copy, verdict, temp, handle, mixed, told, stopped, kills,
  lost

pagesVars == <<script, page, cache, table, draft, walk, hour, mishaps>>
picturesVars == <<painter, source, file, memo, link, touched, moment, visit, misses, adopted>>
cardsVars == <<feed, version, catalog, moved, db, session, sync, tick, troubles, served>>
syncVars == <<step, locks, command, live, exit, copy, verdict, temp, handle, mixed, told,
              stopped, kills, lost>>
panelVars == <<pagesVars, picturesVars, cardsVars, syncVars>>

\* Three cards for runs of two.
Pages == INSTANCE PanelSync WITH
  Cards <- {1, 2, 3}, MaxVersion <- 2, Limit <- 2, CommitEvery <- 2, MaxTime <- 5,
  MaxFaults <- 2,
  rows <- table, work <- draft, run <- walk, now <- hour, faults <- mishaps

CardArt == INSTANCE CardPictures WITH
  Pictures <- {1, 2}, MaxVersion <- 2, MaxTime <- 2, MaxFaults <- 2,
  script <- painter, changed <- touched, now <- moment, run <- visit, faults <- misses

\* A card of both formats and one that is in the second alone.
CardTables == INSTANCE ConstructedCards WITH
  Cards <- {1, 2}, Formats <- {"standard", "wild"}, Companions <- {1, 2}, Diamonds <- {1},
  FirstFeed <- [f \in {"standard", "wild"} |-> IF f = "standard" THEN {1} ELSE {1, 2}],
  CommitEvery <- 2, MaxVersion <- 2, MaxMoves <- 2, MaxTime <- 3, MaxFaults <- 1,
  moves <- moved, work <- session, run <- sync, now <- tick, faults <- troubles

\* Two runs of a job of two commands, one of another job.
Syncs == INSTANCE SyncJob WITH
  Runs <- {"a", "b", "c"},
  JobOf <- [r \in {"a", "b", "c"} |-> IF r = "b" THEN "y" ELSE "x"],
  Commands <- [j \in {"x", "y"} |-> IF j = "x" THEN 2 ELSE 1], MaxKills <- 1,
  pc <- step, stage <- command, status <- told

PanelInit == Pages!Init /\ CardArt!Init /\ CardTables!Init /\ Syncs!Init
=============================================================================
