--------------------------- MODULE SnapshotDatabase ---------------------------
(***************************************************************************)
(* The SQLite database of the parsers (app/db.py): the runs that take      *)
(* snapshots of the HSReplay archetypes (app/hsreplay_archetypes_db.py)    *)
(* and of the Battlegrounds minions (app/hsreplay_bg_minions_db.py), the   *)
(* files exported from them, and the decks collected from the datasets of  *)
(* four sources (store_dataset_to_db).                                     *)
(*                                                                         *)
(* Readers are answered from the current run: the last one that ended      *)
(* "ok".  A refresh of the archetypes of another rank or game type         *)
(* ("others") has runs of its own, but the file it exports is that of the  *)
(* default ones.  The refreshes of the archetypes share a lock and replace *)
(* their file in one step; those of the minions have no lock and rewrite   *)
(* theirs in place, so that a write that fails, is cut off or meets        *)
(* another one leaves a torn file.  A transaction of the database is a     *)
(* step.  A process that dies, or whose task is cancelled, does nothing    *)
(* more and gives its locks back.  A limited (diagnostic) refresh writes   *)
(* nothing and is left out; a refresh that waits for its answers and a     *)
(* page of readers hold no state.                                          *)
(***************************************************************************)
EXTENDS Integers, Sequences, FiniteSets, FiniteSetsExt, SequencesExt

CONSTANTS
  Processes,
  Kind,           \* Kind[p] : the snapshots a process refreshes, one of Kinds
  Items,          \* ids of archetypes and of minions; numbers
  Indexes,        \* what the index of archetypes may list: sets of items
  Payloads,       \* fetched minions: [ids : sequence of items or NoId, filled : Nat]
  NoId,           \* a minion without an id
  MinMinions,     \* MIN_CURRENT_BG_MINIONS
  FillPercent,    \* MIN_STATS_FILL_RATE
  Uploads,        \* datasets with decks: [source, list : sequence of decks]
  None,           \* a deck without a code, a draft or a link
  MaxRuns,        \* bound: the runs
  MaxDeaths,      \* bound: processes that die
  MaxUploads      \* bound: the datasets stored

Kinds == {"archetypes", "others", "minions"}
Files == {"archetypes", "minions"}
FileOf(kind) == IF kind = "minions" THEN "minions" ELSE "archetypes"

VARIABLES
  runs,           \* archetype_refresh_runs and bg_minion_refresh_runs, by id
  rows,           \* archetype_snapshots and bg_minion_snapshots with their details
  dataset,        \* the exported files; the run is 0 when there was no current run
  status,         \* the status file of the archetypes
  spoiled,        \* history: the last write of the minions' file failed, was cut
                  \* off or met another one
  job,            \* where each process is
  deaths,
  decks,          \* the table decks, by id
  refused,        \* a dataset met a UNIQUE constraint: its transaction was rolled back
  uploads

runVars == <<runs, rows, dataset, spoiled, status, job, deaths>>
deckVars == <<decks, refused, uploads>>
vars == <<runVars, deckVars>>

RunStates == {"running", "ok", "partial", "failed"}
Places == {"idle", "refusing", "fetching", "storing", "breaking", "reading", "writing",
           "rewriting", "telling"}
NoFile == [made |-> FALSE, whole |-> TRUE, run |-> 0, items |-> {}]
Torn == [made |-> TRUE, whole |-> FALSE, run |-> 0, items |-> {}]
Idle == [at |-> "idle", run |-> 0, left |-> {}, total |-> 0, good |-> 0, bad |-> FALSE,
         page |-> NoFile, alone |-> TRUE]

TypeOK ==
  /\ runs \in Seq([kind : Kinds, state : RunStates, total : Nat, good : Nat, ended : Nat])
  /\ rows \subseteq [run : 1 .. Len(runs), item : Items]
  /\ \A f \in Files :
       dataset[f] \in [made : BOOLEAN, whole : BOOLEAN, run : 0 .. Len(runs),
                       items : SUBSET Items]
  /\ spoiled \in BOOLEAN
  /\ status \in [run : 0 .. Len(runs), state : RunStates \union {"none"}, cached : BOOLEAN]
  /\ \A p \in Processes : job[p].at \in Places /\ job[p].run \in 0 .. Len(runs)
  /\ deaths \in 0 .. MaxDeaths /\ refused \in BOOLEAN /\ uploads \in 0 .. MaxUploads
  /\ \A i \in DOMAIN decks : DOMAIN decks[i] = {"source", "code", "draft", "url"}

Init ==
  /\ runs = <<>> /\ rows = {} /\ deaths = 0 /\ spoiled = FALSE
  /\ dataset = [f \in Files |-> NoFile]
  /\ status = [run |-> 0, state |-> "none", cached |-> FALSE]
  /\ job = [p \in Processes |-> Idle]
  /\ decks = <<>> /\ refused = FALSE /\ uploads = 0

-----------------------------------------------------------------------------
RunsOf(kind) == {r \in DOMAIN runs : runs[r].kind = kind}
RowsOf(r) == {s.item : s \in {t \in rows : t.run = r}}

\* _current_snapshot_ids and _current_snapshot_where: ORDER BY completed_at
Current(kind) ==
  LET ok == {r \in RunsOf(kind) : runs[r].state = "ok"}
  IN IF ok = {} THEN 0
     ELSE CHOOSE r \in ok : \A q \in ok : runs[q].ended <= runs[r].ended

\* _now(): a run that ends does so after all that have ended before.
Later == 1 + Max({0} \union {runs[r].ended : r \in DOMAIN runs})

Move(p, place) == job' = [job EXCEPT ![p].at = place]

\* _finish_run
Ended(r, state, total, good) ==
  runs' = [runs EXCEPT ![r].state = state, ![r].total = total, ![r].good = good,
                       ![r].ended = Later]

\* ResourceLockSet.acquire: for the archetypes, else the refresh is skipped.
MayRefresh(p) ==
  /\ job[p].at = "idle"
  /\ Kind[p] # "minions" =>
       \A q \in Processes : Kind[q] # "minions" => job[q].at = "idle"

NewRun(p, total, left, place) ==
  /\ Len(runs) < MaxRuns
  /\ runs' = Append(runs, [kind |-> Kind[p], state |-> "running", total |-> total,
                           good |-> 0, ended |-> 0])
  /\ job' = [job EXCEPT ![p] = [Idle EXCEPT !.at = place, !.run = Len(runs) + 1,
                                            !.left = left, !.total = total]]
  /\ UNCHANGED <<rows, dataset, spoiled, status, deaths>>

\* _begin_run, with what the index lists; an empty index is refused.
BeginArchetypes(p, index) ==
  /\ Kind[p] # "minions" /\ MayRefresh(p)
  /\ NewRun(p, Cardinality(index), index, IF index = {} THEN "refusing" ELSE "fetching")

\* _start_run
BeginMinions(p) ==
  /\ Kind[p] = "minions" /\ MayRefresh(p)
  /\ NewRun(p, 0, {}, "fetching")

\* _fetch_common_payloads and the names of the archetypes have come.
FetchCommon(p) ==
  /\ job[p].at = "fetching" /\ Kind[p] # "minions"
  /\ Move(p, "storing")
  /\ UNCHANGED <<runs, rows, dataset, spoiled, status, deaths>>

\* They, or the minions, cannot be fetched.
FetchFails(p) ==
  /\ job[p].at = "fetching"
  /\ Move(p, "breaking")
  /\ UNCHANGED <<runs, rows, dataset, spoiled, status, deaths>>

\* A row stands for a snapshot and its mulligan, decks, cards and series: they are
\* inserted in one transaction.
Snapshot(p, item) == [run |-> job[p].run, item |-> item]

\* The next archetype of the index is fetched, built and stored with all its details.
Store(p) ==
  /\ job[p].at = "storing" /\ job[p].left # {}
  /\ LET item == Min(job[p].left) IN
       /\ rows' = rows \union {Snapshot(p, item)}
       /\ job' = [job EXCEPT ![p].left = @ \ {item}, ![p].good = @ + 1]
  /\ UNCHANGED <<runs, dataset, spoiled, status, deaths>>

\* Its answers do not come, cannot be read, or cannot be stored: the next one.
StoreFails(p) ==
  /\ job[p].at = "storing" /\ job[p].left # {}
  /\ job' = [job EXCEPT ![p].left = @ \ {Min(@)}, ![p].bad = TRUE]
  /\ UNCHANGED <<runs, rows, dataset, spoiled, status, deaths>>

\* Minions with an id are stored in one transaction, each once: UNIQUE(run_id, dbf_id).
Stored(payload) == {i \in DOMAIN payload.ids : payload.ids[i] # NoId}
Repeats(payload) ==
  \E i, j \in Stored(payload) : i # j /\ payload.ids[i] = payload.ids[j]

\* _snapshot_quality_errors
Deficient(payload) ==
  \/ Len(payload.ids) < MinMinions
  \/ Cardinality(Stored(payload)) # Len(payload.ids)
  \/ 100 * payload.filled < FillPercent * Max({1, Len(payload.ids)})

StoreMinions(p, payload) ==
  /\ job[p].at = "fetching" /\ Kind[p] = "minions"
  /\ IF Repeats(payload)
     THEN /\ job' = [job EXCEPT ![p].at = "breaking", ![p].total = Len(payload.ids)]
          /\ UNCHANGED rows
     ELSE /\ rows' = rows \union {[run |-> job[p].run, item |-> payload.ids[i]]
                                  : i \in Stored(payload)}
          /\ job' = [job EXCEPT ![p].at = "storing", ![p].total = Len(payload.ids),
                                ![p].good = Cardinality(Stored(payload)),
                                ![p].bad = Deficient(payload)]
  /\ UNCHANGED <<runs, dataset, spoiled, status, deaths>>

RunState(j) == IF ~j.bad THEN "ok" ELSE IF j.good > 0 THEN "partial" ELSE "failed"

\* Everything was tried.  The minions' file is written whatever came of it, the
\* archetypes' file only after a run without an error.
Finish(p) ==
  /\ job[p].at = "storing" /\ job[p].left = {}
  /\ Ended(job[p].run, RunState(job[p]), job[p].total, job[p].good)
  /\ Move(p, IF Kind[p] = "minions" \/ RunState(job[p]) = "ok" THEN "reading" ELSE "telling")
  /\ UNCHANGED <<rows, dataset, spoiled, status, deaths>>

\* The refresh is refused or broke off; the minions' raises without a file.
FinishFailed(p) ==
  /\ job[p].at \in {"refusing", "breaking"}
  /\ Ended(job[p].run, "failed", job[p].total, job[p].good)
  /\ IF Kind[p] = "minions" THEN job' = [job EXCEPT ![p] = Idle] ELSE Move(p, "telling")
  /\ UNCHANGED <<rows, dataset, spoiled, status, deaths>>

\* export_latest_..._json: the rows of the current run, then the file.
ReadPage(p) ==
  /\ job[p].at = "reading"
  /\ LET r == Current(FileOf(Kind[p]))
     IN job' = [job EXCEPT ![p].at = "writing",
                           ![p].page = [made |-> TRUE, whole |-> TRUE, run |-> r,
                                        items |-> RowsOf(r)]]
  /\ UNCHANGED <<runs, rows, dataset, spoiled, status, deaths>>

\* The archetypes' file is replaced.
Publish(p) ==
  /\ job[p].at = "writing" /\ Kind[p] # "minions"
  /\ dataset' = [dataset EXCEPT !["archetypes"] = job[p].page]
  /\ Move(p, "telling")
  /\ UNCHANGED <<runs, rows, spoiled, status, deaths>>

\* The file cannot be written: the archetypes' run has failed after all.
PublishFails(p) ==
  /\ job[p].at = "writing" /\ Kind[p] # "minions"
  /\ Move(p, "telling")
  /\ Ended(job[p].run, "failed", job[p].total, job[p].good)
  /\ UNCHANGED <<rows, dataset, spoiled, status, deaths>>

Rewriting == {p \in Processes : job[p].at = "rewriting"}

\* write_text opens the minions' file, which truncates it under whoever writes it too.
OpenFile(p) ==
  /\ job[p].at = "writing" /\ Kind[p] = "minions"
  /\ dataset' = [dataset EXCEPT !["minions"] = Torn]
  /\ job' = [q \in Processes |->
              IF q = p THEN [job[p] EXCEPT !.at = "rewriting", !.alone = Rewriting = {}]
              ELSE [job[q] EXCEPT !.alone = @ /\ q \notin Rewriting]]
  /\ UNCHANGED <<runs, rows, spoiled, status, deaths>>

OpenFails(p) ==
  /\ job[p].at = "writing" /\ Kind[p] = "minions"
  /\ job' = [job EXCEPT ![p] = Idle]
  /\ UNCHANGED <<runs, rows, dataset, spoiled, status, deaths>>

\* The page of a write that met another one may be mixed with the other's.
Rewrite(p) ==
  /\ job[p].at = "rewriting"
  /\ \E file \in {job[p].page} \union (IF job[p].alone THEN {} ELSE {Torn}) :
       dataset' = [dataset EXCEPT !["minions"] = file]
  /\ spoiled' = ~job[p].alone
  /\ job' = [job EXCEPT ![p] = Idle]
  /\ UNCHANGED <<runs, rows, status, deaths>>

\* What is left of a file whose write ends early: torn, unless another process has
\* written it since and nothing was written over that.
CutOff ==
  /\ \E file \in {dataset["minions"], Torn} : dataset' = [dataset EXCEPT !["minions"] = file]
  /\ spoiled' = TRUE

RewriteFails(p) ==
  /\ job[p].at = "rewriting"
  /\ CutOff
  /\ job' = [job EXCEPT ![p] = Idle]
  /\ UNCHANGED <<runs, rows, status, deaths>>

\* _save_source_status: a run that did not end well is "ok" from the cache, if the
\* published file can be read.
Told(r, readable) ==
  LET state == runs[r].state
      cached == state # "ok" /\ readable /\ dataset["archetypes"].made
  IN [run |-> r, state |-> IF cached THEN "ok" ELSE state, cached |-> cached]

\* A status that cannot be written is only logged.
Tell(p) ==
  /\ job[p].at = "telling"
  /\ \E readable \in BOOLEAN : status' \in {Told(job[p].run, readable), status}
  /\ job' = [job EXCEPT ![p] = Idle]
  /\ UNCHANGED <<runs, rows, dataset, spoiled, deaths>>

Die(p) ==
  /\ job[p].at # "idle" /\ deaths < MaxDeaths
  /\ job' = [job EXCEPT ![p] = Idle]
  /\ deaths' = deaths + 1
  /\ IF p \in Rewriting THEN CutOff ELSE UNCHANGED <<dataset, spoiled>>
  /\ UNCHANGED <<runs, rows, status>>

-----------------------------------------------------------------------------
\* store_dataset_to_db: the decks of a dataset are merged into the table one by
\* one, in one transaction.  A row is found by its code, for the arena first by
\* its draft, for hearthstone_decks at last by its link.
First(table, Found(_)) ==
  LET found == {i \in DOMAIN table : Found(table[i])}
  IN IF found = {} THEN 0 ELSE Min(found)

ByCode(table, deck) == LET Found(row) == row.code = deck.code IN First(table, Found)

ByUrl(table, deck) ==
  LET Found(row) == deck.url # None /\ row.url = deck.url IN First(table, Found)

ByDraft(table, deck) ==
  LET Found(row) == deck.draft # None /\ row.draft = deck.draft IN First(table, Found)

Or(a, b) == IF a = None THEN b ELSE a

Added(table, source, deck) ==
  Append(table, [source |-> source, code |-> deck.code, draft |-> deck.draft, url |-> deck.url])

\* A deck of Hearthstone-Decks.net: the row keeps the source it came from.
MergeSite(table, deck) ==
  LET i == ByCode(table, deck)
      j == ByUrl(table, deck)
  IN CASE i # 0 -> [table EXCEPT ![i].url = Or(deck.url, @)]
       [] i = 0 /\ j # 0 -> [table EXCEPT ![j].code = deck.code]
       [] OTHER -> Added(table, "hearthstone_decks", [deck EXCEPT !.draft = None])

\* MetaStats has no links.
MergeMetaStats(table, deck) ==
  IF ByCode(table, deck) # 0 THEN table
  ELSE Added(table, "metastats_decks", [deck EXCEPT !.draft = None, !.url = None])

\* A winning arena deck takes the row over, but not its code.
ArenaRow(table, deck) ==
  IF ByDraft(table, deck) # 0 THEN ByDraft(table, deck) ELSE ByCode(table, deck)

MergeArena(table, deck) ==
  LET i == ArenaRow(table, deck)
  IN IF i = 0 THEN Added(table, "hsreplay_arena_winning_decks", deck)
     ELSE [table EXCEPT ![i].source = "hsreplay_arena_winning_decks",
                        ![i].draft = Or(deck.draft, @), ![i].url = Or(deck.url, @)]

\* A radar of Vicious Syndicate overwrites the link, with none as well.
MergeRadar(table, deck) ==
  LET i == ByCode(table, deck)
  IN IF i # 0 THEN [table EXCEPT ![i].url = deck.url]
     ELSE Added(table, "vicious_syndicate_radars", [deck EXCEPT !.draft = None])

\* The UNIQUE constraint on deck_code and the unique index on draft_id.
Unique(table) ==
  \A i, j \in DOMAIN table : i # j =>
    /\ table[i].code # table[j].code
    /\ table[i].draft # None => table[i].draft # table[j].draft

\* A row that breaks a constraint ends the loop.  A deck without a code is skipped.
Merge(table, upload, deck) ==
  IF ~Unique(table) \/ deck.code = None THEN table
  ELSE CASE upload.source = "hearthstone_decks" -> MergeSite(table, deck)
         [] upload.source = "metastats_decks" -> MergeMetaStats(table, deck)
         [] upload.source = "hsreplay_arena_winning_decks" -> MergeArena(table, deck)
         [] upload.source = "vicious_syndicate_radars" -> MergeRadar(table, deck)

Merged(upload) ==
  LET Step(table, deck) == Merge(table, upload, deck) IN FoldLeft(Step, decks, upload.list)

\* An error rolls the transaction back and is only logged.
Upload(upload) ==
  /\ uploads < MaxUploads
  /\ uploads' = uploads + 1
  /\ IF Unique(Merged(upload))
     THEN decks' = Merged(upload) /\ UNCHANGED refused
     ELSE refused' = TRUE /\ UNCHANGED decks

-----------------------------------------------------------------------------
RunStep(p) ==
  \/ \E index \in Indexes : BeginArchetypes(p, index)
  \/ BeginMinions(p)
  \/ FetchCommon(p)
  \/ FetchFails(p)
  \/ Store(p)
  \/ StoreFails(p)
  \/ \E payload \in Payloads : StoreMinions(p, payload)
  \/ Finish(p)
  \/ FinishFailed(p)
  \/ ReadPage(p)
  \/ Publish(p)
  \/ PublishFails(p)
  \/ OpenFile(p)
  \/ OpenFails(p)
  \/ Rewrite(p)
  \/ RewriteFails(p)
  \/ Tell(p)
  \/ Die(p)

Next ==
  \/ \E p \in Processes : RunStep(p) /\ UNCHANGED deckVars
  \/ \E upload \in Uploads : Upload(upload) /\ UNCHANGED runVars

Spec == Init /\ [][Next]_vars

-----------------------------------------------------------------------------
\* What readers are answered from is a whole snapshot: every archetype of its index,
\* and at least the minimum of minions, each of which was stored.
CurrentIsWhole ==
  \A k \in Kinds : Current(k) # 0 =>
    LET run == runs[Current(k)]
    IN /\ run.good = run.total
       /\ Cardinality(RowsOf(Current(k))) = run.total
       /\ k = "minions" => run.total >= MinMinions

\* A published file is the whole snapshot of one run, whatever ended or was stored
\* while it was read and written.  The archetypes' is never torn, the minions' only
\* while it is rewritten or after a write that was disturbed: the next one that is
\* not makes it whole.
FilesAreWhole ==
  /\ \A f \in Files : dataset[f].run # 0 =>
       /\ dataset[f].items = RowsOf(dataset[f].run)
       /\ Cardinality(dataset[f].items) = runs[dataset[f].run].total
  /\ dataset["archetypes"].whole
  /\ dataset["minions"].whole \/ spoiled \/ Rewriting # {}

\* When no refresh runs and none has died, the database answers with the run whose
\* archetypes are published: a run whose file could not be written was taken back.
DatabaseAgrees ==
  (deaths = 0 /\ \A p \in Processes : job[p].at = "idle") =>
     Current("archetypes") = dataset["archetypes"].run

\* A status that says "ok" stands for a published file and, unless it says it is
\* cached, for the one of its run or a later one.  The status of a refresh of other
\* archetypes does not: it is "ok" while the file is that of an older default run.
StatusIsTrue ==
  status.state = "ok" =>
    /\ dataset["archetypes"].made
    /\ (~status.cached /\ runs[status.run].kind = "archetypes") =>
         dataset["archetypes"].run >= status.run

\* What holds of the snapshots, their files and their status.
SnapshotsAreTrue == CurrentIsWhole /\ FilesAreWhole /\ DatabaseAgrees /\ StatusIsTrue

\* No dataset is lost because its decks meet those of other sources: the lookups of
\* store_dataset_to_db find the row before a UNIQUE constraint does.
NoUploadIsRefused == ~refused

\* What a run has stored stays as it was when the run ended; a run that ended badly
\* never becomes current; the published archetypes never go back to an earlier run.
FinishedRunsStayStep ==
  /\ \A r \in DOMAIN runs : runs[r].ended # 0 =>
       /\ {s \in rows' : s.run = r} = {s \in rows : s.run = r}
       /\ runs[r].state # "ok" => runs'[r] = runs[r]
  /\ dataset'["archetypes"].run >= dataset["archetypes"].run

\* A row of the table of decks stays; its code is only replaced in a row with a link,
\* its source only by the arena's, and a draft it has is never forgotten for none.
DecksStayStep ==
  \A i \in DOMAIN decks :
    /\ i \in DOMAIN decks'
    /\ decks'[i].code # decks[i].code => decks'[i].url # None
    /\ decks'[i].source \in {decks[i].source, "hsreplay_arena_winning_decks"}
    /\ decks[i].draft # None => decks'[i].draft # None
=============================================================================
