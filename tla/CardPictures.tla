------------------------------ MODULE CardPictures ------------------------------
(***************************************************************************)
(* The pictures the panel keeps on its own disk.  Six scripts make a file  *)
(* of a picture served elsewhere, remember what they made it of and write  *)
(* its address into a row: sync_battlegrounds_images.py ("golden"),        *)
(* backfill_constructed_images.py ("crops"), mirror_constructed_images.py  *)
(* ("mirror"), sync_constructed_related_wiki_art.py ("art"),               *)
(* sync_horizontal_art.py ("horizontal") and the renders of                *)
(* sync_constructed_related_cards.py ("related").                          *)
(*                                                                         *)
(* The file is written beside its place and renamed over it.  The row and  *)
(* the memory (a file of the script, or columns of the row) follow when    *)
(* the run commits, in an order of the script's own, so a run that dies    *)
(* leaves files nothing speaks of.  Whether a file is out of date is told  *)
(* by what is remembered, or by comparing times.                           *)
(*                                                                         *)
(* A picture is its version; a remembered version is a URL with the hash   *)
(* of the content, an ETag, a digest or the date of a local source.        *)
(***************************************************************************)
EXTENDS Integers, FiniteSets

CONSTANTS
  Pictures,
  MaxVersion,      \* bound: versions of a picture
  MaxTime,         \* bound: moments at which something changes elsewhere
  MaxFaults        \* bound: hosts without an answer, failures, killed runs

VARIABLES
  script,
  source,          \* the version served elsewhere, and its Last-Modified
  file,            \* the version on disk, and its mtime
  memo,            \* the version remembered, 0: none
  link,            \* the pictures whose row has the address of the file
  changed,         \* changed_at of the row
  now,
  run,
  faults,
  adopted          \* history: the files remembered for their date alone

vars == <<script, source, file, memo, link, changed, now, run, faults, adopted>>

Scripts == {"golden", "crops", "mirror", "art", "horizontal", "related"}
NoFile == [v |-> 0, at |-> 0]
Fallback == -1     \* the render of another site, mirrored in place of the picture
Versions == Fallback .. MaxVersion

NoRun == [phase |-> "idle", todo |-> {}, work |-> {}, item |-> 0, temp |-> 0,
          seen |-> [p \in Pictures |-> 0], memo |-> [p \in Pictures |-> 0], link |-> {},
          since |-> [p \in Pictures |-> 0], unanswered |-> {}, errors |-> FALSE, exit |-> 0]
Killed == 137

TypeOK ==
  /\ script \in Scripts
  /\ source \in [Pictures -> [v : 1 .. MaxVersion, at : 0 .. MaxTime]]
  /\ file \in [Pictures -> [v : Versions, at : 0 .. MaxTime]]
  /\ memo \in [Pictures -> 0 .. MaxVersion] /\ link \subseteq Pictures
  /\ changed \in [Pictures -> 0 .. MaxTime] /\ now \in 0 .. MaxTime
  /\ run.phase \in {"idle", "check", "work", "links", "memory"}
  /\ run.work \subseteq Pictures /\ run.todo \subseteq Pictures
  /\ run.link \subseteq Pictures /\ run.exit \in {0, 1, Killed}
  /\ faults \in 0 .. MaxFaults /\ adopted \subseteq Pictures

Init ==
  /\ script \in Scripts
  /\ source = [p \in Pictures |-> [v |-> 1, at |-> 0]]
  /\ file = [p \in Pictures |-> NoFile] /\ memo = [p \in Pictures |-> 0] /\ link = {}
  /\ changed = [p \in Pictures |-> 0] /\ now = 0 /\ run = NoRun /\ faults = 0
  /\ adopted = {}

-----------------------------------------------------------------------------
(* What a script thinks of a picture: "fetch" it, "link" the file it has,  *)
(* "keep" the file, or, for a crop, "touch" the file to say it was looked  *)
(* at.  "answer" is FALSE if the host did not answer.                      *)

GoldenReason(p, answer) ==
  IF ~answer THEN IF file[p].v = 0 THEN "error" ELSE "preserve"
  ELSE IF \/ file[p].v = 0
          \/ run.memo[p] # 0 /\ run.memo[p] # source[p].v
          \/ run.memo[p] = 0 /\ source[p].at > file[p].at
       THEN "fetch" ELSE "keep"

MaybeStale(p) == p \in link /\ file[p].v # 0 /\ changed[p] > file[p].at
ConfirmStale(p, answer) == answer /\ source[p].at > file[p].at

CropReason(p, answer) ==
  CASE p \notin link \/ file[p].v = 0 -> "fetch"
    [] MaybeStale(p) -> IF ConfirmStale(p, answer) THEN "fetch" ELSE "touch"
    [] OTHER -> "keep"

\* The address of the picture holds the hash of its content, so that a file
\* nothing is remembered of is checked without the host.
LocalIsCurrent(p) == run.memo[p] = source[p].v \/ file[p].v = source[p].v

MirrorReason(p, answer) ==
  IF file[p].v = 0 \/ ~LocalIsCurrent(p) THEN "fetch"
  ELSE IF p \notin link THEN "link" ELSE "keep"

StoredIsValid(p) == p \in link /\ file[p].v # 0 /\ memo[p] = file[p].v

ArtReason(p, answer) ==
  IF StoredIsValid(p) THEN "keep"
  ELSE IF ~answer THEN "missing"
  ELSE IF file[p].v = source[p].v THEN "link" ELSE "fetch"

Unchanged(p) == p \in link /\ memo[p] = source[p].v /\ file[p].v # 0

HorizontalReason(p, answer) ==
  IF Unchanged(p) THEN "keep" ELSE IF answer THEN "fetch" ELSE "unavailable"

RelatedReason(p, answer) == IF file[p].v # 0 THEN "link" ELSE "fetch"

Reason(p, answer) ==
  CASE script = "golden" -> GoldenReason(p, answer)
    [] script = "crops" -> CropReason(p, answer)
    [] script = "mirror" -> MirrorReason(p, answer)
    [] script = "art" -> ArtReason(p, answer)
    [] script = "horizontal" -> HorizontalReason(p, answer)
    [] script = "related" -> RelatedReason(p, answer)

\* Scripts whose memory is a file of their own, saved after the rows.
KeepsState == script \in {"golden", "mirror"}
Remembers == script \in {"golden", "mirror", "art", "horizontal"}

-----------------------------------------------------------------------------
(* A run.                                                                  *)

\* The memory and the rows are read at the start.
Begin ==
  /\ run.phase = "idle"
  /\ run' = [NoRun EXCEPT !.phase = "check", !.todo = Pictures, !.memo = memo, !.link = link,
       !.since = [p \in Pictures |-> source[p].v]]
  /\ UNCHANGED <<script, source, file, memo, link, changed, now, faults, adopted>>

\* Every picture is looked at before the first is fetched.
Check(p, answer) ==
  /\ run.phase = "check" /\ p \in run.todo
  /\ ~answer => faults < MaxFaults /\ script \notin {"mirror", "related"}
  /\ LET reason == Reason(p, answer) IN
     /\ run' = [run EXCEPT
          !.todo = @ \ {p},
          !.phase = IF run.todo = {p} THEN "work" ELSE @,
          !.work = IF reason = "fetch" THEN @ \union {p} ELSE @,
          !.seen[p] = source[p].v,
          !.memo[p] = CASE script = "art" /\ reason = "link" -> file[p].v
                        [] reason = "unavailable" -> source[p].v
                        [] KeepsState /\ reason \in {"keep", "link"} -> source[p].v
                        [] OTHER -> @,
          !.link = CASE reason = "link" -> @ \union {p}
                     [] reason = "unavailable" -> @ \ {p}
                     [] OTHER -> @,
          !.unanswered = IF answer THEN @ ELSE @ \union {p},
          !.errors = @ \/ reason = "error"]
     /\ file' = IF reason = "touch" THEN [file EXCEPT ![p].at = now] ELSE file
     /\ adopted' = IF script = "golden" /\ reason = "keep" /\ run.memo[p] = 0
                   THEN adopted \union {p} ELSE adopted
  /\ faults' = faults + (IF answer THEN 0 ELSE 1)
  /\ UNCHANGED <<script, source, memo, link, changed, now>>

\* The mirror asks for the version its row named; the others get what is served.
Fetch(p) ==
  /\ run.phase = "work" /\ p \in run.work /\ run.item = 0
  /\ \/ run' = [run EXCEPT !.item = p,
                  !.temp = IF script = "mirror" THEN run.seen[p] ELSE source[p].v]
        /\ faults' = faults
     \/ /\ script = "mirror" /\ faults < MaxFaults
        /\ run' = [run EXCEPT !.item = p, !.temp = Fallback]
        /\ faults' = faults + 1
  /\ UNCHANGED <<script, source, file, memo, link, changed, now, adopted>>

\* A card of the related scripts keeps its row without a picture.
FetchFails(p) ==
  /\ run.phase = "work" /\ p \in run.work /\ run.item = 0 /\ faults < MaxFaults
  /\ run' = [run EXCEPT !.work = @ \ {p}, !.errors = @ \/ script # "related",
                        !.unanswered = @ \union {p}]
  /\ faults' = faults + 1
  /\ UNCHANGED <<script, source, file, memo, link, changed, now, adopted>>

\* The file is renamed into place; the memory names what was seen when the picture
\* was looked at, for the art what was read.
Replace ==
  /\ run.item # 0
  /\ LET p == run.item IN
     /\ file' = [file EXCEPT ![p] = [v |-> run.temp, at |-> now]]
     /\ run' = [run EXCEPT !.item = 0, !.temp = 0, !.work = @ \ {p},
          !.memo[p] = IF ~Remembers THEN @
                      ELSE IF script = "art" THEN run.temp ELSE run.seen[p],
          !.link = @ \union {p}]
     /\ changed' = IF script = "crops" /\ p \notin link
                   THEN [changed EXCEPT ![p] = now] ELSE changed
     /\ adopted' = adopted \ {p}
  /\ UNCHANGED <<script, source, memo, link, now, faults>>

Ended(exit) == [NoRun EXCEPT !.exit = exit]
Exit == IF run.errors THEN 1 ELSE 0

\* The rows are committed; a script without a file of its own commits its memory
\* with them.
PersistLinks ==
  /\ run.phase = "work" /\ run.work = {}
  /\ link' = run.link
  /\ IF KeepsState
     THEN run' = [run EXCEPT !.phase = "memory"] /\ UNCHANGED memo
     ELSE run' = Ended(Exit) /\ memo' = run.memo
  /\ UNCHANGED <<script, source, file, changed, now, faults, adopted>>

SaveState ==
  /\ run.phase = "memory"
  /\ memo' = run.memo /\ run' = Ended(Exit)
  /\ UNCHANGED <<script, source, file, link, changed, now, faults, adopted>>

Kill ==
  /\ run.phase # "idle" /\ faults < MaxFaults
  /\ run' = Ended(Killed) /\ faults' = faults + 1
  /\ UNCHANGED <<script, source, file, memo, link, changed, now, adopted>>

SourceChanges(p) ==
  /\ source[p].v < MaxVersion /\ now < MaxTime
  /\ now' = now + 1
  /\ source' = [source EXCEPT ![p] = [v |-> @.v + 1, at |-> now + 1]]
  /\ UNCHANGED <<script, file, memo, link, changed, run, faults, adopted>>

\* A sync of the cards writes the row, for this picture or for something else.
CardChanges(p) ==
  /\ now < MaxTime /\ script = "crops" /\ run.phase = "idle"
  /\ now' = now + 1
  /\ changed' = [changed EXCEPT ![p] = now + 1]
  /\ UNCHANGED <<script, source, file, memo, link, run, faults, adopted>>

Next ==
  \/ Begin \/ Replace \/ PersistLinks \/ SaveState \/ Kill
  \/ \E p \in Pictures :
       \/ \E answer \in BOOLEAN : Check(p, answer)
       \/ Fetch(p) \/ FetchFails(p) \/ SourceChanges(p) \/ CardChanges(p)

Spec == Init /\ [][Next]_vars

-----------------------------------------------------------------------------
\* No row names a file that is not there, and what is remembered of a file is not
\* newer than the file, whichever step a run died after.  Only of a file left by a
\* dead run and adopted for its date can it be.
MemoryIsTrue ==
  /\ \A p \in link : file[p].v # 0
  /\ Remembers => \A p \in link \ adopted :
       memo[p] > file[p].v => file[p].v = Fallback

EndsWell == run.phase # "idle" /\ run'.phase = "idle" /\ run'.exit = 0

\* A run that ends well leaves no picture older than it was when the run began: of
\* those whose host answered and that were not adopted for their date.
PicturesAreFreshStep ==
  EndsWell /\ script \in {"golden", "mirror", "horizontal"} =>
    \A p \in Pictures \ (run.unanswered \union adopted) :
      file[p].v = Fallback \/ file[p].v >= run.since[p]

\* A run that ends well has linked what it did not miss: files left by a run that
\* died are taken up again.
PicturesAreLinkedStep ==
  EndsWell /\ script # "golden" => Pictures \ run.unanswered \subseteq link'
=============================================================================
