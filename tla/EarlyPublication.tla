-------------------------- MODULE EarlyPublication --------------------------
(***************************************************************************)
(* The publication of one patch-sensitive source: the stable/early policy  *)
(* of the administration (app/parser_control.py, app/post_patch_policy.py),*)
(* the refresh that captures it, validates and saves a candidate           *)
(* (app/fetcher.py, app/publish_gate.py, app/dataset_regression.py,        *)
(* app/storage.py) and what the readers resolve from the files.            *)
(*                                                                         *)
(* A dataset is its row count, its provisional mark with the window of its *)
(* policy, the page it was read from and its time; a version tells the     *)
(* datasets apart.  The source's lock admits one refresh at a time, so the *)
(* refresh is one record; the upload of an administrator takes no lock.    *)
(***************************************************************************)
EXTENDS Integers

CONSTANTS
  Rows,            \* row counts of a parsed page
  MinEarly,        \* minimum_rows of the early policy
  MinStable,       \* min_rows of the stable contract
  SmallCount,      \* below it the previous count is not compared
  DropPercent,     \* drop ratio of the regression gate
  ConfirmPercent,  \* BASELINE_CONFIRMATION_MIN_ROW_RATIO
  ConfirmAge,      \* BASELINE_CONFIRMATION_MIN_AGE
  PatchScoped,     \* the page depends on the policy (source_for_active_post_patch)
  EnvironmentUntil,\* end of the early window of the environment, 0 if none
  NoData,
  MaxClock, MaxRevision, MaxVersion, MaxMishaps   \* bounds; mishaps are uploads and crashes

ASSUME EarlyAssumption ==
  /\ Rows \subseteq Nat
  /\ {MinEarly, MinStable, SmallCount, ConfirmAge, EnvironmentUntil} \subseteq Nat
  /\ MinEarly <= MinStable
  /\ DropPercent \in 0 .. 100 /\ ConfirmPercent \in 0 .. 100
  /\ PatchScoped \in BOOLEAN
  /\ {MaxClock, MaxRevision, MaxMishaps} \subseteq Nat /\ MaxVersion \in Nat \ {0}

VARIABLES
  clock,
  policy,          \* the policy in the control file, and its revision
  dataset,         \* datasets/<source>.json
  baseline,        \* baselines/<source>.<label>.json by label
  status,          \* statuses/<source>.json
  job,             \* the refresh that holds the source's lock
  version,         \* candidates and uploads so far
  uploads, crashes

vars == <<clock, policy, dataset, baseline, status, job, version, uploads, crashes>>

Labels == {"stable", "dated"}
Pages == {"usual", "patch"}

Data == [rows : Rows, prov : BOOLEAN, stamp : Nat, page : Pages,
         at : Nat, ver : 1 .. MaxVersion]
MaybeData == Data \union {NoData}

ASSUME NoDataAssumption == NoData \notin Data

Ver(d) == IF d = NoData THEN 0 ELSE d.ver

Policies == [configured : BOOLEAN, mode : {"stable", "early"}, until : Nat,
             stamp : Nat, revision : Nat]

Tokens == [early : BOOLEAN, configured : BOOLEAN, until : Nat, stamp : Nat]

Steps == {"idle", "fetch", "validated", "checked", "keepOld", "keepNew", "save", "status"}

JobStates == [pc : Steps, token : Tokens, at : Nat, cand : MaybeData, prev : MaybeData]

Statuses == [state : {"none", "ok", "cached", "failed"}, ver : 0 .. MaxVersion]

TypeOK ==
  /\ clock \in 0 .. MaxClock
  /\ policy \in Policies
  /\ dataset \in MaybeData
  /\ baseline \in [Labels -> MaybeData]
  /\ status \in Statuses
  /\ job \in JobStates
  /\ job.pc = "keepOld" => job.prev # NoData
  /\ job.pc \in {"idle", "fetch"} <=> job.cand = NoData
  /\ version \in 0 .. MaxVersion
  /\ uploads \in 0 .. MaxMishaps
  /\ crashes \in 0 .. MaxMishaps

-----------------------------------------------------------------------------
(* The policy.                                                             *)

\* _policy_view and publication_policy_context: until the first administration
\* the environment decides; an early policy ends at its time.
View ==
  IF policy.configured
    THEN [early |-> policy.mode = "early" /\ clock < policy.until,
          configured |-> TRUE, until |-> policy.until, stamp |-> policy.stamp]
    ELSE LET early == clock < EnvironmentUntil
         IN  [early |-> early, configured |-> FALSE,
              until |-> IF early THEN EnvironmentUntil ELSE 0, stamp |-> 0]

\* _is_provisional_dataset
IsProvisional(d) == d # NoData /\ d.prov

\* ParserControlStore.stable_baseline: the current one, else the dated one.
StableBaseline == IF baseline["stable"] # NoData THEN baseline["stable"] ELSE baseline["dated"]

\* resolve_public_dataset
Resolve(d, early) ==
  IF ~IsProvisional(d) \/ early THEN d
  ELSE IF IsProvisional(StableBaseline) THEN NoData
  ELSE StableBaseline

\* ParserControlStore.update_policy; a request with an old revision changes
\* nothing.
UpdatePolicy(mode, until) ==
  /\ policy.revision < MaxRevision
  /\ mode = "early" => until > clock
  /\ policy' = [configured |-> TRUE, mode |-> mode, until |-> until,
                stamp |-> policy.stamp + 1, revision |-> policy.revision + 1]
  /\ UNCHANGED <<clock, dataset, baseline, status, job, version, uploads, crashes>>

\* ParserControlStore.update_sections: another part of the same file.
UpdateSections ==
  /\ policy.revision < MaxRevision
  /\ policy' = [policy EXCEPT !.revision = @ + 1]
  /\ UNCHANGED <<clock, dataset, baseline, status, job, version, uploads, crashes>>

-----------------------------------------------------------------------------
(* The refresh.                                                            *)

Idle == [pc |-> "idle", at |-> 0, cand |-> NoData, prev |-> NoData,
         token |-> [early |-> FALSE, configured |-> FALSE, until |-> 0, stamp |-> 0]]

FirstData(n) == [rows |-> n, prov |-> FALSE, stamp |-> 0, page |-> "usual",
                 at |-> 0, ver |-> 1]

\* The source is new, or was refreshed before it had early policies.
Init ==
  /\ clock = 0
  /\ policy = [configured |-> FALSE, mode |-> "stable", until |-> 0,
               stamp |-> 0, revision |-> 0]
  /\ \/ dataset = NoData /\ version = 0
     \/ /\ \E n \in Rows : n >= MinStable /\ dataset = FirstData(n)
        /\ version = 1
  /\ baseline = [l \in Labels |-> NoData]
  /\ status = [state |-> "none", ver |-> 0]
  /\ job = Idle
  /\ uploads = 0 /\ crashes = 0

\* fetch_source: one captured policy for the fetch, the gates and the save, and one
\* time for the candidate.  A retry after a new login is a fetch_source of its own
\* inside the first.
Begin ==
  /\ job.pc \in {"idle", "fetch"}
  /\ job' = [Idle EXCEPT !.pc = "fetch", !.token = View, !.at = clock]
  /\ job' # job
  /\ UNCHANGED <<clock, policy, dataset, baseline, status, version, uploads, crashes>>

\* validate_candidate_for_publish under the captured policy
MinRows(early) == IF early THEN MinEarly ELSE MinStable

PassesGate(n, early) == n >= MinRows(early)

\* The page is fetched and parsed; fetched_at is the time the fetch began.
Parse(n) ==
  /\ job.pc = "fetch"
  /\ version < MaxVersion
  /\ PassesGate(n, job.token.early)
  /\ version' = version + 1
  /\ job' = [job EXCEPT !.pc = "validated",
       !.cand = [rows |-> n, prov |-> FALSE, stamp |-> 0, at |-> job.at, ver |-> version + 1,
                 page |-> IF PatchScoped /\ job.token.early THEN "patch" ELSE "usual"]]
  /\ UNCHANGED <<clock, policy, dataset, baseline, status, uploads, crashes>>

\* _save_failure_status, _preserve_cached_ok_status: the dataset that is public
\* now is kept if it still passes the gate.
Preserved ==
  LET d == Resolve(dataset, View.early)
  IN  IF d # NoData /\ PassesGate(d.rows, job.token.early)
        THEN [state |-> "cached", ver |-> d.ver]
        ELSE [state |-> "failed", ver |-> 0]

FailJob ==
  /\ status' = Preserved
  /\ job' = Idle

\* The fetch fails or its result is refused by the gate.
Reject ==
  /\ job.pc = "fetch"
  /\ FailJob
  /\ UNCHANGED <<clock, policy, dataset, baseline, version, uploads, crashes>>

\* early_policy_changed_since_capture
PolicyChanged == job.token.early /\ View # job.token

\* _save_dataset_with_checks, its first reads: the previous dataset, then the
\* policy.
Check ==
  /\ job.pc = "validated"
  /\ IF PolicyChanged
       THEN FailJob
       ELSE /\ job' = [job EXCEPT !.pc = "checked", !.prev = dataset]
            /\ UNCHANGED status
  /\ UNCHANGED <<clock, policy, dataset, baseline, version, uploads, crashes>>

\* check_dataset_regression: another page is another dataset, and a captured
\* early policy compares nothing.
Contracted(prev, n) ==
  prev.rows >= SmallCount /\ n < (prev.rows * (100 - DropPercent)) \div 100

Regression(prev, cand) ==
  /\ prev # NoData
  /\ prev.page = cand.page
  /\ Contracted(prev, cand.rows)

\* Mutant: one observation confirms itself.
ConfirmedAtOnce(prev, cand, stamp) ==
  /\ IsProvisional(prev)
  /\ PassesGate(prev.rows, FALSE)
  /\ prev.stamp = stamp
  /\ cand.rows * 100 >= prev.rows * ConfirmPercent

\* can_confirm_post_patch_baseline, and the previous rows pass the stable gate
Confirmed(prev, cand, stamp) ==
  /\ IsProvisional(prev)
  /\ PassesGate(prev.rows, FALSE)
  /\ prev.stamp = stamp
  /\ prev.rows > 0 /\ cand.rows > 0
  /\ cand.rows * 100 >= prev.rows * ConfirmPercent
  /\ cand.at - prev.at >= ConfirmAge

\* In early mode: the candidate satisfies the stable contract and is not
\* contracted against the stable channel, or the contraction was seen twice.
Strict ==
  LET prev == job.prev
      cand == job.cand
      base == IF IsProvisional(prev) /\ StableBaseline # NoData THEN StableBaseline ELSE prev
  IN  /\ PassesGate(cand.rows, FALSE)
      /\ ~Regression(base, cand) \/ Confirmed(prev, cand, job.token.stamp)

\* Only a stable dataset is kept as a baseline.
KeepsOld(prev) == prev # NoData /\ ~prev.prov

\* _save_dataset_with_checks: a regression keeps what there is, a candidate
\* that is not strictly stable becomes provisional, a stable one goes to the
\* stable channel first.
Decide ==
  /\ job.pc = "checked"
  /\ LET early == job.token.early IN
     \/ /\ ~early /\ Regression(job.prev, job.cand)
        /\ FailJob
     \/ /\ early => Strict
        /\ ~early => ~Regression(job.prev, job.cand)
        /\ job' = [job EXCEPT !.pc = "keepNew"]
        /\ UNCHANGED status
     \/ /\ early /\ ~Strict
        /\ job' = [job EXCEPT !.cand = [@ EXCEPT !.prov = TRUE, !.stamp = job.token.stamp],
                     !.pc = IF KeepsOld(job.prev) THEN "keepOld" ELSE "save"]
        /\ UNCHANGED status
  /\ UNCHANGED <<clock, policy, dataset, baseline, version, uploads, crashes>>

\* Mutant: the provisional candidate itself becomes the baseline.
KeptCandidate(d) == [baseline EXCEPT !["stable"] = job.cand]

\* save_baseline and save_baseline_once of the previous stable dataset
Kept(d) == [baseline EXCEPT !["stable"] = d, !["dated"] = IF @ = NoData THEN d ELSE @]

KeepOld ==
  /\ job.pc = "keepOld"
  /\ baseline' = Kept(job.prev)
  /\ job' = [job EXCEPT !.pc = "save"]
  /\ UNCHANGED <<clock, policy, dataset, status, version, uploads, crashes>>

\* save_baseline of a stable candidate
KeepNew ==
  /\ job.pc = "keepNew"
  /\ baseline' = [baseline EXCEPT !["stable"] = job.cand]
  /\ job' = [job EXCEPT !.pc = "save"]
  /\ UNCHANGED <<clock, policy, dataset, status, version, uploads, crashes>>

\* save_dataset
Save ==
  /\ job.pc = "save"
  /\ dataset' = job.cand
  /\ job' = [job EXCEPT !.pc = "status"]
  /\ UNCHANGED <<clock, policy, baseline, status, version, uploads, crashes>>

\* save_status, after the reviews that follow the save
SaveStatus ==
  /\ job.pc = "status"
  /\ status' = [state |-> "ok", ver |-> job.cand.ver]
  /\ job' = Idle
  /\ UNCHANGED <<clock, policy, dataset, baseline, version, uploads, crashes>>

-----------------------------------------------------------------------------
(* The rest of the world.                                                  *)

\* upload_dataset: the administrator's document is saved as it is, without the
\* source's lock and without a baseline.
Upload(n) ==
  /\ uploads + crashes < MaxMishaps
  /\ version < MaxVersion
  /\ uploads' = uploads + 1
  /\ version' = version + 1
  /\ dataset' = [rows |-> n, prov |-> FALSE, stamp |-> 0, page |-> "usual",
                 at |-> clock, ver |-> version + 1]
  /\ status' = [state |-> "ok", ver |-> version + 1]
  /\ UNCHANGED <<clock, policy, baseline, job, crashes>>

\* The refreshing process dies; the kernel frees the lock.
Crash ==
  /\ uploads + crashes < MaxMishaps
  /\ job.pc # "idle"
  /\ crashes' = crashes + 1
  /\ job' = Idle
  /\ UNCHANGED <<clock, policy, dataset, baseline, status, version, uploads>>

Tick ==
  /\ clock < MaxClock
  /\ clock' = clock + 1
  /\ UNCHANGED <<policy, dataset, baseline, status, job, version, uploads, crashes>>

Next ==
  \/ \E until \in 1 .. MaxClock : UpdatePolicy("early", until)
  \/ UpdatePolicy("stable", 0)
  \/ UpdateSections
  \/ Begin
  \/ \E n \in Rows : Parse(n) \/ Upload(n)
  \/ Reject \/ Check \/ Decide \/ KeepOld \/ KeepNew \/ Save \/ SaveStatus
  \/ Crash
  \/ Tick

Spec == Init /\ [][Next]_vars

-----------------------------------------------------------------------------
(* Properties.                                                             *)

\* What readers get in stable mode.
StableView == Resolve(dataset, FALSE)

\* Without uploads, what readers get in stable mode passed the stable contract
\* and is not provisional, whichever policy changes, expiries and crashes lie
\* between the capture, the gates and the writes.
StableIsStable ==
  uploads = 0 /\ StableView # NoData => ~StableView.prov /\ PassesGate(StableView.rows, FALSE)

\* A status never names a candidate that was not saved: a fresh one names the
\* dataset or one that was replaced since, a cached one a file that was public.
StatusIsHonest ==
  uploads = 0 =>
    /\ status.state = "ok" => status.ver <= Ver(dataset)
    /\ status.state = "cached" =>
         status.ver <= Ver(dataset) \/ status.ver <= Ver(baseline["stable"])

\* Without uploads, no step takes the stable channel back to an older dataset or
\* to none, and a save of a provisional dataset leaves it as it is: the order of
\* the baseline and the dataset writes holds across a crash and a policy change.
StableChannelIsKept ==
  [][uploads' = 0 =>
       /\ Ver(StableView') >= Ver(StableView)
       /\ dataset' # dataset /\ IsProvisional(dataset')
            => StableView' = StableView \/ StableView = NoData]_vars

\* A step that gives stable readers contracted data
Contraction ==
  /\ StableView # NoData /\ StableView' # NoData
  /\ Contracted(StableView, StableView'.rows)

\* An early refresh contracts the stable channel only after a provisional
\* observation of the same window that was at least ConfirmAge older.
ContractionSeenTwice ==
  [][Contraction /\ uploads = 0 /\ job.token.early /\ job.cand = StableView'
       => /\ IsProvisional(job.prev) /\ job.prev.stamp = job.token.stamp
          /\ job.cand.at >= job.prev.at + ConfirmAge]_vars

\* Once the policy has changed, a candidate that was captured under it leaves the
\* stable channel untouched.
SwitchLeavesStable ==
  [][StableView' # StableView /\ job.token.early => View = job.token]_vars

-----------------------------------------------------------------------------
(* The strengthening that makes the properties inductive.                  *)

Stable(d) == d # NoData /\ ~d.prov

\* The candidate is not in the dataset file yet.
Pending == job.pc \in {"validated", "checked", "keepOld", "keepNew", "save"}

\* The refresh has read the dataset it will replace.
HasRead == job.pc \in {"checked", "keepOld", "keepNew", "save"}

\* A candidate is newer than all that was saved, and what a refresh has read is
\* what it replaces.
VersionsFit ==
  /\ Ver(dataset) <= version
  /\ \A l \in Labels : Ver(baseline[l]) <= version
  /\ Ver(job.cand) <= version /\ Ver(job.prev) <= version
  /\ Pending => Ver(dataset) # job.cand.ver
  /\ uploads = 0 =>
       /\ Pending => job.cand.ver = version
       /\ HasRead => job.prev = dataset
       /\ job.pc = "status" => job.cand = dataset

\* Baselines are stable, and what is stable has passed the stable contract.
BaselinesFit ==
  /\ \A l \in Labels : baseline[l] # NoData => ~baseline[l].prov
  /\ baseline["dated"] # NoData => baseline["stable"] # NoData
  /\ uploads = 0 =>
       /\ \A l \in Labels : baseline[l] # NoData => PassesGate(baseline[l].rows, FALSE)
       /\ Stable(dataset) => PassesGate(dataset.rows, FALSE)

\* A candidate becomes provisional when it is decided upon, and what is saved as
\* stable has passed the stable contract and is in the stable channel.
CandidateFits ==
  /\ job.pc \in {"validated", "checked"} =>
       ~job.cand.prov /\ PassesGate(job.cand.rows, job.token.early)
  /\ job.pc = "keepNew" => ~job.cand.prov
  /\ job.pc = "keepOld" => job.cand.prov /\ Stable(job.prev) /\ Stable(dataset)
  /\ job.pc \in {"keepNew", "save", "status"} /\ ~job.cand.prov =>
       PassesGate(job.cand.rows, FALSE)
  /\ job.pc = "save" =>
       /\ ~job.cand.prov => baseline["stable"] = job.cand
       /\ uploads = 0 /\ job.cand.prov /\ Stable(dataset) => baseline["stable"] = dataset
  /\ job.pc = "checked" => job.prev = dataset \/ Stable(dataset)

\* A status tells of the dataset, of an older one, or of the stable channel
\* beside a provisional dataset.
StatusFits ==
  uploads = 0 =>
    /\ status.state = "ok" => status.ver <= Ver(dataset)
    /\ status.state = "cached" =>
         \/ status.ver <= Ver(dataset)
         \/ IsProvisional(dataset) /\ status.ver <= Ver(baseline["stable"])

Inv == VersionsFit /\ BaselinesFit /\ CandidateFits /\ StatusFits

\* Where pages do not depend on the policy there is one page, and a candidate
\* that an early refresh saves as stable was compared with the stable channel.
JudgedFits ==
  /\ \A d \in {dataset, baseline["stable"], baseline["dated"], job.cand, job.prev} :
       d # NoData => d.page = "usual"
  /\ job.pc = "keepNew" /\ job.token.early => Strict
  /\ job.pc = "save" /\ ~job.cand.prov /\ job.token.early /\ Stable(job.prev) =>
       ~Contracted(job.prev, job.cand.rows)
=============================================================================
