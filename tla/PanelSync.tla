------------------------------- MODULE PanelSync -------------------------------
(***************************************************************************)
(* The scripts that fill the tables of the panel from the wiki and the     *)
(* card feeds (panel/scripts/sync_*.py).  Each has a table of its own: a   *)
(* row per card with a hash of what it was made from, the times of the     *)
(* last fetch and of the last change, and for some of them child rows.     *)
(* One run walks over a list of cards in one connection, commits every few *)
(* cards, or once at the end, and dies with what it has not committed.     *)
(*                                                                         *)
(* The scripts differ in their lists, in what a failure leaves behind, in  *)
(* when they commit and in the order of their UPDATE clauses; a record of  *)
(* the definition named after each part of a script says how.  The content *)
(* of a page is its version; 0 is the content of a page that was not read. *)
(***************************************************************************)
EXTENDS Integers, Sequences, FiniteSets, SequencesExt

CONSTANTS
  Cards,           \* numbered in the order of their names
  MaxVersion,      \* bound: versions of a page
  Limit,           \* --limit of the constructed runs
  CommitEvery,     \* --commit-every
  MaxTime,         \* bound: the clock; every visit takes one unit
  MaxFaults        \* bound: pages that fail, runs that are killed

VARIABLES
  script,
  page,            \* the version the wiki serves
  cache,           \* the version in the page cache of the script, 0: none
  rows,            \* the committed table
  work,            \* the table as the transaction of the run sees it
  run,
  now,
  faults

vars == <<script, page, cache, rows, work, run, now, faults>>

ErrorHash == -1    \* of a payload that holds the error instead of the page
MissingHash == -2
LimitedHash == -3
PartialHash == -4  \* of a payload made without the page

Statuses == {"none", "ok", "partial", "error", "missing", "rate_limited"}
Rows == [status : Statuses, body : 0 .. MaxVersion, kids : 0 .. MaxVersion,
         hash : -4 .. MaxVersion, fetched : Nat, changed : Nat]
NoRow == [status |-> "none", body |-> 0, kids |-> 0, hash |-> 0, fetched |-> 0, changed |-> 0]

-----------------------------------------------------------------------------
(* What a script writes for a page it has read: with child rows or without *)
(* them; "hash_last" if the clause of changed_at compares the old hash,    *)
(* "hash_first" if source_hash was already assigned: the database assigns  *)
(* from left to right.                                                     *)

WithKids == [kids |-> TRUE, order |-> "hash_last"]
Plain == [kids |-> FALSE, order |-> "hash_last"]

TimewarpedSave == WithKids
WikiSave == WithKids
HeroSave == WithKids
ConstructedSave == Plain
PetSave == Plain
CoinSave == Plain
LibrarySave == Plain
SkinSave == [kids |-> FALSE, order |-> "hash_first"]

\* What a page that cannot be read does: a row with the error, whose time of
\* change moves always or with the hash, and whose child rows may go; a row made
\* without the page; or the end of the run.
TimewarpedError == [then |-> "row", moves |-> "always", dropsKids |-> FALSE]
WikiError == [then |-> "row", moves |-> "with_hash", dropsKids |-> TRUE]
HeroError == [then |-> "row", moves |-> "with_hash", dropsKids |-> FALSE]
ConstructedError == [then |-> "row", moves |-> "always", dropsKids |-> FALSE]
PetError == [then |-> "partial", moves |-> "with_hash", dropsKids |-> FALSE]
SkinError == PetError
LibraryError == [then |-> "abort", moves |-> "with_hash", dropsKids |-> FALSE]
CoinError == LibraryError

\* The loop of a script: whether it commits between cards or once, whether a card
\* without a page is a row of its own, whether pages are cached, and whether errors
\* end in an exit code.
TimewarpedLoop == [commits |-> TRUE, finds |-> FALSE, caches |-> TRUE, reports |-> FALSE]
WikiLoop == [commits |-> TRUE, finds |-> TRUE, caches |-> TRUE, reports |-> TRUE]
HeroLoop == [commits |-> TRUE, finds |-> FALSE, caches |-> TRUE, reports |-> TRUE]
ConstructedLoop == [commits |-> TRUE, finds |-> TRUE, caches |-> TRUE, reports |-> TRUE]
SkinLoop == [commits |-> FALSE, finds |-> FALSE, caches |-> TRUE, reports |-> FALSE]
PetLoop == [commits |-> FALSE, finds |-> FALSE, caches |-> FALSE, reports |-> FALSE]
CoinLoop == PetLoop
LibraryLoop == PetLoop

ScriptOf == [
  timewarped |-> [save |-> TimewarpedSave, error |-> TimewarpedError, loop |-> TimewarpedLoop],
  wiki |-> [save |-> WikiSave, error |-> WikiError, loop |-> WikiLoop],
  heroes |-> [save |-> HeroSave, error |-> HeroError, loop |-> HeroLoop],
  constructed |-> [save |-> ConstructedSave, error |-> ConstructedError, loop |-> ConstructedLoop],
  pets |-> [save |-> PetSave, error |-> PetError, loop |-> PetLoop],
  skins |-> [save |-> SkinSave, error |-> SkinError, loop |-> SkinLoop],
  coins |-> [save |-> CoinSave, error |-> CoinError, loop |-> CoinLoop],
  library |-> [save |-> LibrarySave, error |-> LibraryError, loop |-> LibraryLoop]]

Saves == ScriptOf[script].save
Fails == ScriptOf[script].error
Loop == ScriptOf[script].loop

NoRun == [on |-> FALSE, mode |-> "all", refresh |-> FALSE, todo |-> <<>>, seen |-> {},
          failed |-> FALSE, exit |-> 0]
Killed == 137

TypeOK ==
  /\ script \in DOMAIN ScriptOf
  /\ page \in [Cards -> 1 .. MaxVersion] /\ cache \in [Cards -> 0 .. MaxVersion]
  /\ rows \in [Cards -> Rows] /\ work \in [Cards -> Rows]
  /\ run \in [on : BOOLEAN, mode : {"all", "missing", "oldest"}, refresh : BOOLEAN,
              todo : Seq(Cards), seen : SUBSET Cards, failed : BOOLEAN,
              exit : {0, 1, 75, Killed}]
  /\ now \in 0 .. MaxTime /\ faults \in 0 .. MaxFaults

Init ==
  /\ script \in DOMAIN ScriptOf
  /\ page = [c \in Cards |-> 1] /\ cache = [c \in Cards |-> 0]
  /\ rows = [c \in Cards |-> NoRow] /\ work = rows
  /\ run = NoRun /\ now = 0 /\ faults = 0

-----------------------------------------------------------------------------
(* The rows a visit writes.                                                *)

\* The time of the last change after a write of this hash.
Moved(row, hash, moves) ==
  IF \/ row.status = "none" \/ moves = "always"
     \/ moves = "with_hash" /\ row.hash # hash
  THEN now + 1 ELSE row.changed

MovesOnSave == IF Saves.order = "hash_last" THEN "with_hash" ELSE "never"

Saved(row, v, hash, status) ==
  [status |-> status, body |-> v, kids |-> IF Saves.kids THEN v ELSE 0, hash |-> hash,
   fetched |-> now + 1, changed |-> Moved(row, hash, MovesOnSave)]

\* The columns of the content stay as they were.
Unread(row, status, hash) ==
  [row EXCEPT !.status = status, !.hash = hash, !.fetched = now + 1,
              !.kids = IF Fails.dropsKids THEN 0 ELSE @,
              !.changed = Moved(row, hash, Fails.moves)]

\* The row was written and its old children deleted when a child was refused.
HalfSaved(row, v) ==
  Unread([Saved(row, v, v, "ok") EXCEPT !.kids = 0], "error", ErrorHash)

-----------------------------------------------------------------------------
(* The lists of a run.                                                     *)

ByName(C) == SetToSortSeq(C, <)
ByAge(C) ==
  SetToSortSeq(C, LAMBDA c, d : \/ rows[c].fetched < rows[d].fetched
                                \/ rows[c].fetched = rows[d].fetched /\ c < d)
Cut(list) == SubSeq(list, 1, IF Len(list) < Limit THEN Len(list) ELSE Limit)

WikiCards(missing) ==
  ByName({c \in Cards : missing => rows[c].status # "ok"})
ConstructedCards(missing) ==
  IF missing THEN Cut(ByName({c \in Cards : rows[c].status # "ok"})) ELSE Cut(ByAge(Cards))

\* The jobs of the panel run each script in these ways.
Begin(mode, refresh) ==
  /\ ~run.on /\ now < MaxTime
  /\ CASE script = "constructed" -> <<mode, refresh>> \in {<<"missing", FALSE>>, <<"oldest", TRUE>>}
       [] script = "wiki" -> <<mode, refresh>> \in {<<"missing", FALSE>>, <<"all", TRUE>>}
       [] script \in {"timewarped", "heroes", "skins"} -> mode = "all"
       [] OTHER -> mode = "all" /\ refresh
  /\ run' = [NoRun EXCEPT !.on = TRUE, !.mode = mode, !.refresh = refresh,
       !.todo = CASE script = "constructed" -> ConstructedCards(mode = "missing")
                  [] script = "wiki" -> WikiCards(mode = "missing")
                  [] OTHER -> ByName(Cards)]
  /\ work' = rows
  /\ UNCHANGED <<script, page, cache, rows, now, faults>>

-----------------------------------------------------------------------------
(* One card of the run.                                                    *)

Cached(c) == Loop.caches /\ ~run.refresh /\ cache[c] # 0
Version(c) == IF Cached(c) THEN cache[c] ELSE page[c]

\* A commit after every few cards; the loop leaves a card without a page before
\* it comes to the commit.
Visit(row, failed, reachesCommit) ==
  LET c == Head(run.todo) IN
  /\ run.on /\ run.todo # <<>> /\ now < MaxTime
  /\ now' = now + 1
  /\ work' = [work EXCEPT ![c] = row]
  /\ run' = [run EXCEPT !.todo = Tail(@), !.seen = @ \union {c}, !.failed = @ \/ failed]
  /\ rows' = IF /\ Loop.commits /\ reachesCommit
                /\ (Cardinality(run.seen) + 1) % CommitEvery = 0
             THEN work' ELSE rows
  /\ UNCHANGED <<script, page>>

Reading(c) ==
  cache' = IF Loop.caches THEN [cache EXCEPT ![c] = Version(c)] ELSE cache

ReadPage ==
  /\ run.todo # <<>>
  /\ LET c == Head(run.todo) IN
     /\ Visit(Saved(work[c], Version(c), Version(c), "ok"), FALSE, TRUE)
     /\ Reading(c)
  /\ UNCHANGED faults

PageFails ==
  /\ run.todo # <<>> /\ faults < MaxFaults /\ Fails.then # "abort"
  /\ LET c == Head(run.todo) IN
     /\ ~Cached(c)
     /\ Visit(IF Fails.then = "row" THEN Unread(work[c], "error", ErrorHash)
              ELSE Saved(work[c], 0, PartialHash, "partial"),
              Fails.then = "row", TRUE)
  /\ faults' = faults + 1 /\ UNCHANGED cache

SaveFails ==
  /\ run.todo # <<>> /\ faults < MaxFaults /\ Saves.kids
  /\ LET c == Head(run.todo) IN
     /\ Visit(HalfSaved(work[c], Version(c)), TRUE, TRUE)
     /\ Reading(c)
  /\ faults' = faults + 1

\* The index of the wiki does not know the card.
PageMissing ==
  /\ run.todo # <<>> /\ faults < MaxFaults /\ Loop.finds
  /\ LET c == Head(run.todo) IN Visit(Unread(work[c], "missing", MissingHash), FALSE, FALSE)
  /\ faults' = faults + 1 /\ UNCHANGED cache

Ended(exit) == [NoRun EXCEPT !.exit = exit]

\* The row says so, what was done is committed, and the run ends.
RateLimited ==
  /\ run.on /\ run.todo # <<>> /\ now < MaxTime /\ faults < MaxFaults
  /\ script = "constructed"
  /\ LET c == Head(run.todo) IN
     /\ ~Cached(c)
     /\ rows' = [work EXCEPT ![c] = Unread(work[c], "rate_limited", LimitedHash)]
  /\ work' = rows' /\ run' = Ended(75)
  /\ now' = now + 1 /\ faults' = faults + 1
  /\ UNCHANGED <<script, page, cache>>

\* A run that stops at the first error commits nothing.
Abort ==
  /\ run.on /\ run.todo # <<>> /\ faults < MaxFaults /\ Fails.then = "abort"
  /\ work' = rows /\ run' = Ended(1) /\ faults' = faults + 1
  /\ UNCHANGED <<script, page, cache, rows, now>>

Finish ==
  /\ run.on /\ run.todo = <<>>
  /\ rows' = work
  /\ run' = Ended(IF Loop.reports /\ run.failed THEN 1 ELSE 0)
  /\ UNCHANGED <<script, page, cache, work, now, faults>>

Kill ==
  /\ run.on /\ faults < MaxFaults
  /\ work' = rows /\ run' = Ended(Killed) /\ faults' = faults + 1
  /\ UNCHANGED <<script, page, cache, rows, now>>

PageChanges(c) ==
  /\ page[c] < MaxVersion
  /\ page' = [page EXCEPT ![c] = @ + 1]
  /\ UNCHANGED <<script, cache, rows, work, run, now, faults>>

Next ==
  \/ \E mode \in {"all", "missing", "oldest"}, refresh \in BOOLEAN : Begin(mode, refresh)
  \/ ReadPage \/ PageFails \/ SaveFails \/ PageMissing \/ RateLimited
  \/ Abort \/ Finish \/ Kill
  \/ \E c \in Cards : PageChanges(c)

Spec == Init /\ [][Next]_vars

-----------------------------------------------------------------------------
\* The child rows of a card that is served are those of its content, wherever a
\* run was killed and whatever failed between the parent and its children.
KidsAgree ==
  Saves.kids => \A c \in Cards : rows[c].status = "ok" => rows[c].kids = rows[c].body

\* A reader of the panel that asks what has changed since a time misses no change
\* of a committed row, its errors and its returns included.
ChangesAreToldStep ==
  \A c \in Cards :
    script # "skins" /\ rows'[c].hash # rows[c].hash
      => rows'[c].changed > rows[c].changed

\* A run from the cache does not bring older content back.
NoOlderContentStep ==
  \A c \in Cards : rows'[c].body # 0 => rows'[c].body >= rows[c].body

\* The refresh of the oldest cards first goes round: a run takes no card before one
\* that has waited longer, and a run that was not killed, rate limited or not,
\* leaves the cards it took behind those it did not reach.
RotationMovesStep ==
  run.on /\ run.mode = "oldest" =>
    /\ run.todo # <<>> =>
         \A d \in Cards \ run.seen : work[Head(run.todo)].fetched <= work[d].fetched
    /\ ~run'.on /\ run'.exit # Killed =>
         LET taken == run.seen \union {c \in Cards : rows'[c] # work[c]} IN
         /\ taken # {}
         /\ \A c \in taken, d \in Cards \ taken : rows'[c].fetched > rows'[d].fetched

\* A script that reports errors does not end well over a row it left in error, so
\* the commands after it do not run.
FailuresAreReportedStep ==
  run.on /\ ~run'.on /\ run'.exit = 0 /\ Loop.reports =>
    \A c \in run.seen : rows'[c].status \notin {"error", "rate_limited"}
=============================================================================
