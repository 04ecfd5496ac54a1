------------------------------- MODULE MCReviews -------------------------------
(***************************************************************************)
(* Instances of AIReview for the run "fetching".  In quarantine mode two   *)
(* sources, the first with a paid fallback, compete for one place and two  *)
(* requests of a lane, and one failure opens a circuit; in observe mode    *)
(* three sources are reviewed after the refresh; "verdict" gives one       *)
(* source every verdict whose reasons are at most two of four.             *)
(***************************************************************************)
EXTENDS Integers, FiniteSets

VARIABLES phase, outcome, first, job, used, streak, open, attached, wide

aiVars == <<phase, outcome, first, job, used, streak, open, attached, wide>>

PerLane(n) == [l \in {"candidate", "diagnosis"} |-> n]
AllChecks == {"target", "unchallenged", "complete", "compatible"}

Saying(verdict, passed, reasons) ==
  [verdict |-> verdict, confident |-> TRUE, passed |-> passed, reasons |-> reasons]

SomeVerdicts ==
  {Saying("fail", AllChecks \ {"target"}, {"login_wall"}),
   Saying("fail", AllChecks, {"login_wall"}),
   Saying("pass", AllChecks, {"none"})}

ManyVerdicts ==
  [verdict : {"pass", "fail", "uncertain"}, confident : BOOLEAN, passed : SUBSET AllChecks,
   reasons : {r \in SUBSET {"login_wall", "challenge_page", "low_sample_expected", "none"} :
                Cardinality(r) \in 1 .. 2}]

Quarantining == INSTANCE AIReview WITH
  Sources <- 1 .. 2, Mode <- "quarantine", Paid <- {1}, Verdicts <- SomeVerdicts,
  Places <- PerLane(1), MaxReviews <- PerLane(2), Threshold <- 1, Attempts <- 2

Observing == INSTANCE AIReview WITH
  Sources <- 1 .. 3, Mode <- "observe", Paid <- {1}, Verdicts <- SomeVerdicts,
  Places <- PerLane(1), MaxReviews <- PerLane(2), Threshold <- 2, Attempts <- 1

Judging == INSTANCE AIReview WITH
  Sources <- {1}, Mode <- "quarantine", Paid <- {}, Verdicts <- ManyVerdicts,
  Places <- PerLane(1), MaxReviews <- PerLane(1), Threshold <- 2, Attempts <- 1

ReviewLevels == {"quarantine", "observe", "verdict"}

ReviewInit(level) ==
  CASE level = "observe" -> Observing!Init
    [] level = "verdict" -> Judging!Init
    [] OTHER -> Quarantining!Init

ReviewNext(level) ==
  \/ level = "quarantine" /\ Quarantining!Next
  \/ level = "observe" /\ Observing!Next
  \/ level = "verdict" /\ Judging!Next
=============================================================================
