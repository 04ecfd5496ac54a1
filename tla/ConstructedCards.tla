---------------------------- MODULE ConstructedCards ----------------------------
(***************************************************************************)
(* The table of the constructed cards and what four scripts of the panel   *)
(* write into it, one after another: the cards of the official feed and    *)
(* their formats ("cards"), the wiki pages ("wiki"), the gallery of        *)
(* diamond cards ("diamond") and the companion cards the pages name        *)
(* ("related").                                                            *)
(*                                                                         *)
(* Each script works in transactions of its own length: one for both       *)
(* formats, one for all diamonds, one for every few pages or companions,   *)
(* with a savepoint around each companion.  A card has the identifier of   *)
(* the card catalog, or a fallback made of its number until the catalog    *)
(* knows it.                                                               *)
(***************************************************************************)
EXTENDS Integers, FiniteSets

CONSTANTS
  Cards,
  Formats,
  Companions,      \* the cards the wiki pages name
  Diamonds,        \* the cards of the gallery
  FirstFeed,       \* the cards of each format at the start
  CommitEvery,     \* commit_every of the wiki pages and of the companions
  MaxVersion,      \* bound: versions of a card
  MaxMoves,        \* bound: changes of the feed and of the catalog
  MaxTime,         \* bound: the clock; every change of a row has a time of its own
  MaxFaults        \* bound: failures, deadlocks and killed runs

VARIABLES
  feed,            \* the cards of each format, as the feed lists them
  version,         \* the content of a card in the feed
  catalog,         \* the cards the catalog knows
  moves,
  db,              \* what is committed
  work,            \* what the transaction of the run sees
  run,
  now,
  faults,
  served           \* history: what the last run that committed had read of the formats

vars == <<feed, version, catalog, moves, db, work, run, now, faults, served>>

NoRow == [id |-> "none", v |-> 0, gold |-> "none", diamond |-> FALSE, changed |-> 0]
EmptyTable ==
  [row |-> [c \in Cards |-> NoRow],
   member |-> [f \in Formats |-> [c \in Cards |-> "none"]],
   meta |-> [c \in Cards |-> "none"]]
NoRun == [job |-> "none", formats |-> {}, cards |-> {}, pages |-> [f \in Formats |-> {}],
          since |-> 0, failed |-> FALSE, exit |-> 0]
Killed == 137

Rows == [id : {"none", "fallback", "canonical"}, v : 0 .. MaxVersion,
         gold : {"none", "feed", "wiki"}, diamond : BOOLEAN, changed : 0 .. MaxTime]
Tables == [row : [Cards -> Rows],
           member : [Formats -> [Cards -> {"none", "in", "removed"}]],
           meta : [Cards -> {"none", "page", "gallery"}]]

TypeOK ==
  /\ feed \in [Formats -> SUBSET Cards] /\ version \in [Cards -> 1 .. MaxVersion]
  /\ catalog \subseteq Cards /\ moves \in 0 .. MaxMoves
  /\ db \in Tables /\ work \in Tables
  /\ run.job \in {"none", "cards", "wiki", "diamond", "related"}
  /\ run.formats \subseteq Formats /\ run.cards \subseteq Cards /\ run.exit \in {0, 1, Killed}
  /\ now \in 0 .. MaxTime /\ faults \in 0 .. MaxFaults
  /\ served \in [Formats -> SUBSET Cards]

Init ==
  /\ feed = FirstFeed /\ version = [c \in Cards |-> 1] /\ catalog \in SUBSET Cards
  /\ moves = 0 /\ db = EmptyTable /\ work = EmptyTable /\ run = NoRun
  /\ now = 0 /\ faults = 0 /\ served = [f \in Formats |-> {}]

-----------------------------------------------------------------------------
(* A row of the feed.                                                      *)

CardId(c) == IF c \in catalog THEN "canonical" ELSE "fallback"

\* The identifier of a row moves to that of the catalog, never back: the run stops.
RefusedId(table, c) == table.row[c].id = "canonical" /\ c \notin catalog

\* The hash is of what the feed and the catalog say; the feed has a golden picture
\* from the second version on, and does not empty one that is there.
SaveCard(row, c) ==
  [row EXCEPT !.id = CardId(c), !.v = version[c],
     !.gold = IF version[c] > 1 THEN "feed" ELSE @,
     !.changed = IF row.v # version[c] \/ row.id # CardId(c) THEN now + 1 ELSE @]

\* A feed without cards removes nothing.
MarkRemoved(members, active) ==
  [c \in Cards |-> IF c \in active THEN "in"
                   ELSE IF active # {} /\ members[c] = "in" THEN "removed" ELSE members[c]]

FormatSaved(table, f) ==
  [table EXCEPT
     !.row = [c \in Cards |-> IF c \in feed[f] THEN SaveCard(@[c], c) ELSE @[c]],
     !.member[f] = MarkRemoved(@, feed[f])]

-----------------------------------------------------------------------------
(* The runs.                                                               *)

Idle == run.job = "none"

Begin(job, formats, cards) ==
  /\ Idle /\ now < MaxTime
  /\ run' = [NoRun EXCEPT !.job = job, !.formats = formats, !.cards = cards]
  /\ work' = db
  /\ UNCHANGED <<feed, version, catalog, moves, db, now, faults, served>>

SyncCards == Begin("cards", Formats, {})
SyncDiamonds == Begin("diamond", {}, Diamonds)
\* Pages of the cards in a format; companions of those whose page was read.
InFormat == {c \in Cards : \E f \in Formats : db.member[f][c] = "in"}
SyncWiki == InFormat # {} /\ Begin("wiki", {}, InFormat)
SyncRelated == (\E c \in InFormat : db.meta[c] # "none") /\ Begin("related", {}, Companions)

Ended(exit) == [NoRun EXCEPT !.exit = exit]
Finished == run.formats = {} /\ run.cards = {}

\* Both formats are read and written in the one transaction of the run.
SyncFormat(f) ==
  /\ run.job = "cards" /\ f \in run.formats /\ now < MaxTime
  /\ \A c \in feed[f] : ~RefusedId(work, c)
  /\ work' = FormatSaved(work, f)
  /\ run' = [run EXCEPT !.formats = @ \ {f}, !.pages[f] = feed[f]]
  /\ now' = now + 1
  /\ UNCHANGED <<feed, version, catalog, moves, db, faults, served>>

\* An error of the feed, or an identifier that would go back, ends the run.
SyncAborts ==
  /\ run.job = "cards"
  /\ \/ faults < MaxFaults /\ faults' = faults + 1
     \/ /\ \E f \in run.formats, c \in Cards : c \in feed[f] /\ RefusedId(work, c)
        /\ UNCHANGED faults
  /\ work' = db /\ run' = Ended(1)
  /\ UNCHANGED <<feed, version, catalog, moves, db, now, served>>

\* A commit after every few cards.
Step(c, table, counts, failed) ==
  /\ c \in run.cards
  /\ work' = table
  /\ LET due == counts /\ run.since + 1 = CommitEvery IN
     /\ db' = IF due THEN table ELSE db
     /\ run' = [run EXCEPT !.cards = @ \ {c}, !.failed = @ \/ failed,
                           !.since = IF due THEN 0 ELSE @ + (IF counts THEN 1 ELSE 0)]
  /\ UNCHANGED <<feed, version, catalog, moves, now, served>>

\* The page has no film of the diamond card: what the gallery wrote goes.  The
\* golden picture is filled in, and its time is not: the UPDATE assigns the
\* address before it compares it.
WikiSaves(c) ==
  /\ run.job = "wiki"
  /\ Step(c, [work EXCEPT !.meta[c] = "page",
                 !.row[c].gold = IF @ = "none" THEN "wiki" ELSE @], TRUE, FALSE)
  /\ UNCHANGED faults

\* Three statements; an error in one leaves those before it.
DiamondSaves(c) ==
  /\ run.job = "diamond"
  /\ \/ /\ Step(c, [work EXCEPT !.row[c].diamond = @ \/ work.row[c].id # "none",
                      !.meta[c] = IF @ = "none" THEN @ ELSE "gallery"], FALSE, FALSE)
        /\ UNCHANGED faults
     \/ /\ faults < MaxFaults /\ faults' = faults + 1
        /\ Step(c, [work EXCEPT !.row[c].diamond = @ \/ work.row[c].id # "none"], FALSE, FALSE)

\* A companion is inserted, or fills the gaps of its row.
RelatedSaves(c) ==
  /\ run.job = "related"
  /\ Step(c, IF work.row[c].id = "none"
             THEN [work EXCEPT !.row[c].id = "canonical", !.row[c].changed = now] ELSE work,
          TRUE, FALSE)
  /\ UNCHANGED faults

\* Back to the savepoint; a deadlock takes all that was not committed.
RelatedFails(c) ==
  /\ run.job = "related" /\ faults < MaxFaults /\ faults' = faults + 1
  /\ \/ Step(c, work, FALSE, TRUE)
     \/ /\ c \in run.cards
        /\ work' = db
        /\ run' = [run EXCEPT !.cards = @ \ {c}, !.failed = TRUE, !.since = 0]
        /\ UNCHANGED <<feed, version, catalog, moves, db, now, served>>

Commit ==
  /\ ~Idle /\ Finished
  /\ db' = work
  /\ served' = IF run.job = "cards"
               THEN [f \in Formats |-> IF run.pages[f] = {} THEN served[f] ELSE run.pages[f]]
               ELSE served
  /\ run' = Ended(IF run.failed THEN 1 ELSE 0)
  /\ UNCHANGED <<feed, version, catalog, moves, work, now, faults>>

Kill ==
  /\ ~Idle /\ faults < MaxFaults
  /\ work' = db /\ run' = Ended(Killed) /\ faults' = faults + 1
  /\ UNCHANGED <<feed, version, catalog, moves, db, now, served>>

\* A card enters or leaves a format, changes, or becomes known to the catalog; a
\* feed may come without cards, a catalog without a card.
WorldMoves ==
  /\ moves < MaxMoves /\ moves' = moves + 1
  /\ \/ \E f \in Formats, c \in Cards :
          feed' = [feed EXCEPT ![f] = IF c \in @ THEN @ \ {c} ELSE @ \union {c}]
          /\ UNCHANGED <<version, catalog>>
     \/ \E f \in Formats : feed' = [feed EXCEPT ![f] = {}] /\ UNCHANGED <<version, catalog>>
     \/ \E c \in Cards :
          /\ version[c] < MaxVersion
          /\ version' = [version EXCEPT ![c] = @ + 1] /\ UNCHANGED <<feed, catalog>>
     \/ \E c \in Cards :
          /\ catalog' = IF c \in catalog THEN catalog \ {c} ELSE catalog \union {c}
          /\ UNCHANGED <<feed, version>>
  /\ UNCHANGED <<db, work, run, now, faults, served>>

Next ==
  \/ SyncCards \/ SyncWiki \/ SyncDiamonds \/ SyncRelated
  \/ SyncAborts \/ Commit \/ Kill \/ WorldMoves
  \/ \E f \in Formats : SyncFormat(f)
  \/ \E c \in Cards : WikiSaves(c) \/ DiamondSaves(c) \/ RelatedSaves(c) \/ RelatedFails(c)

Spec == Init /\ [][Next]_vars

-----------------------------------------------------------------------------
\* The formats that are served are those one run read to the end: a run that died
\* or stopped between two formats, and a feed without cards, change no membership.
MembersAreServed ==
  \A f \in Formats : {c \in Cards : db.member[f][c] = "in"} = served[f]

\* A member has a row, under every rename.
MembersHaveRows ==
  \A f \in Formats, c \in Cards : db.member[f][c] # "none" => db.row[c].id # "none"

\* No script takes back what another gave a card: its identifier in the catalog,
\* its golden and its diamond picture.
GivenIsKeptStep ==
  \A c \in Cards : LET old == db.row[c] new == db'.row[c] IN
    /\ old.id = "canonical" => new.id = "canonical"
    /\ old.id # "none" => new.id # "none"
    /\ old.gold # "none" => new.gold # "none"
    /\ old.diamond => new.diamond

\* A reader that asks for the changes since a time misses no change of what the feed
\* and the catalog say of a card.
CardChangesAreToldStep ==
  run.job = "cards" => \A c \in Cards : LET old == db.row[c] new == db'.row[c] IN
    <<old.v, old.id>> # <<new.v, new.id>> => new.changed > old.changed

\* A companion run that ends well has a row for every companion, whatever was
\* rolled back on its way.
CompanionsAreSavedStep ==
  run.job = "related" /\ run'.job = "none" /\ run'.exit = 0 =>
    \A c \in Companions : db'.row[c].id # "none"
=============================================================================
