--------------------------- MODULE PublicReadProofs ---------------------------
(***************************************************************************)
(* Theorems about the publication of a patch-sensitive source and about    *)
(* what its readers are told, for any row counts, minimums, ratios, ages   *)
(* and numbers of policy changes, uploads and crashes; then about the      *)
(* cache of GraphQL answers and about the gate of a source.                *)
(***************************************************************************)
EXTENDS PublicRead, Sequences, SequenceTheorems, TLAPS

USE EarlyAssumption, NoDataAssumption

\* The policy as it is read is one a refresh can capture.
LEMMA ViewType ==
  ASSUME policy \in Policies, clock \in Nat
  PROVE  View \in Tokens
<1> DEFINE early == policy.mode = "early" /\ clock < policy.until
           env == clock < EnvironmentUntil
<1>1. policy.until \in Nat /\ policy.stamp \in Nat /\ EnvironmentUntil \in Nat
  BY DEF Policies
<1>2. early \in BOOLEAN /\ env \in BOOLEAN
  BY <1>1
<1> HIDE DEF early, env
<1>3. CASE policy.configured
  <2>1. View = [early |-> early, configured |-> TRUE, until |-> policy.until,
                stamp |-> policy.stamp]
    BY <1>3 DEF View, early
  <2> QED BY <1>1, <1>2, <2>1 DEF Tokens
<1>4. CASE ~policy.configured
  <2>1. View = [early |-> env, configured |-> FALSE,
                until |-> IF env THEN EnvironmentUntil ELSE 0, stamp |-> 0]
    BY <1>4 DEF View, env
  <2>2. (IF env THEN EnvironmentUntil ELSE 0) \in Nat
    BY <1>1
  <2> QED BY <1>2, <2>1, <2>2 DEF Tokens
<1> QED BY <1>3, <1>4

LEMMA IdleType == Idle \in JobStates /\ Idle.pc = "idle" /\ Idle.cand = NoData /\ Idle.prev = NoData
BY DEF Idle, JobStates, Steps, Tokens, MaybeData

\* A dataset has rows, a mark, a page and a version.
LEMMA DataFacts ==
  ASSUME NEW d \in MaybeData
  PROVE  /\ Ver(d) \in Nat
         /\ d # NoData => /\ d \in Data /\ d.rows \in Nat /\ d.prov \in BOOLEAN
                          /\ d.at \in Nat /\ d.ver \in 1 .. MaxVersion /\ d.ver \in Nat
                          /\ d.stamp \in Nat /\ Ver(d) = d.ver
<1>1. CASE d = NoData
  BY <1>1 DEF Ver
<1>2. CASE d # NoData
  <2>1. d \in Data
    BY <1>2 DEF MaybeData
  <2>2. /\ d.rows \in Rows /\ d.prov \in BOOLEAN /\ d.at \in Nat
        /\ d.ver \in 1 .. MaxVersion /\ d.stamp \in Nat
    BY <2>1 DEF Data
  <2>3. Ver(d) = d.ver
    BY <1>2 DEF Ver
  <2>4. d.rows \in Nat
    BY <2>2
  <2>5. d.ver \in Nat
    BY <2>2
  <2> QED BY <1>2, <2>1, <2>2, <2>3, <2>4, <2>5
<1> QED BY <1>1, <1>2

\* A refresh that only goes on keeps what it captured, read and made.
LEMMA MoveFacts ==
  ASSUME job \in JobStates, NEW p \in Steps, job' = [job EXCEPT !.pc = p]
  PROVE  /\ job' \in JobStates /\ job'.pc = p
         /\ job'.cand = job.cand /\ job'.prev = job.prev /\ job'.token = job.token
BY DEF JobStates

LEMMA BeginFacts ==
  ASSUME TypeOK, Begin
  PROVE  /\ job' \in JobStates /\ job'.pc = "fetch" /\ job.pc \in {"idle", "fetch"}
         /\ job'.cand = NoData /\ job'.prev = NoData /\ job'.token = View
<1> DEFINE token == View
<1>1. token \in Tokens
  BY ViewType DEF TypeOK
<1>2. /\ job' = [Idle EXCEPT !.pc = "fetch", !.token = token, !.at = clock]
      /\ job.pc \in {"idle", "fetch"} /\ clock \in Nat
  BY DEF Begin, TypeOK
<1> HIDE DEF token
<1>3. /\ job' \in JobStates /\ job'.pc = "fetch" /\ job'.cand = NoData /\ job'.prev = NoData
      /\ job'.token = token
  BY <1>1, <1>2, IdleType DEF JobStates, Steps
<1> QED BY <1>2, <1>3 DEF token

\* The parsed page is a stable candidate with a version of its own.
LEMMA ParseFacts ==
  ASSUME TypeOK, NEW n \in Rows, Parse(n)
  PROVE  /\ job' \in JobStates /\ job'.pc = "validated" /\ job.pc = "fetch"
         /\ job'.prev = job.prev /\ job'.token = job.token
         /\ job'.cand \in Data /\ job'.cand.rows = n /\ job'.cand.prov = FALSE
         /\ job'.cand.ver = version + 1
         /\ ~PatchScoped => job'.cand.page = "usual"
         /\ PassesGate(n, job.token.early)
         /\ version < MaxVersion /\ version' = version + 1
<1> DEFINE page == IF PatchScoped /\ job.token.early THEN "patch" ELSE "usual"
           cand == [rows |-> n, prov |-> FALSE, stamp |-> 0, at |-> job.at,
                    ver |-> version + 1, page |-> page]
<1>1. page \in Pages /\ (~PatchScoped => page = "usual")
  BY DEF Pages
<1>2. /\ job \in JobStates /\ version \in Nat /\ job.at \in Nat
      /\ job.pc = "fetch" /\ version < MaxVersion /\ version' = version + 1
      /\ PassesGate(n, job.token.early)
      /\ job' = [job EXCEPT !.pc = "validated", !.cand = cand]
  BY DEF Parse, TypeOK, JobStates
<1> HIDE DEF page
<1>3. /\ cand \in Data /\ cand.rows = n /\ cand.prov = FALSE /\ cand.ver = version + 1
      /\ cand.page = page
  BY <1>1, <1>2 DEF Data
<1> HIDE DEF cand
<1>4. /\ job' \in JobStates /\ job'.pc = "validated" /\ job'.cand = cand
      /\ job'.prev = job.prev /\ job'.token = job.token
  BY <1>2, <1>3 DEF JobStates, Steps, MaybeData
<1> QED BY <1>1, <1>2, <1>3, <1>4

\* What is kept when a refresh fails is what is public.
LEMMA PreservedFacts ==
  ASSUME TypeOK, BaselinesFit
  PROVE  /\ Preserved \in Statuses
         /\ \/ Preserved = [state |-> "failed", ver |-> 0]
            \/ Preserved = [state |-> "cached", ver |-> Ver(dataset)]
            \/ /\ IsProvisional(dataset)
               /\ Preserved = [state |-> "cached", ver |-> Ver(baseline["stable"])]
<1> DEFINE d == Resolve(dataset, View.early)
<1>1. dataset \in MaybeData /\ baseline["stable"] \in MaybeData /\ baseline["dated"] \in MaybeData
  BY DEF TypeOK, Labels
<1>2. StableBaseline = baseline["stable"]
  BY DEF StableBaseline, BaselinesFit
<1>3. \/ d = dataset
      \/ d = NoData
      \/ IsProvisional(dataset) /\ d = baseline["stable"]
  BY <1>2 DEF Resolve
<1>4. \/ Preserved = [state |-> "failed", ver |-> 0]
      \/ d # NoData /\ Preserved = [state |-> "cached", ver |-> d.ver]
  BY DEF Preserved
<1> HIDE DEF d
<1>5. \A e \in MaybeData : e # NoData => Ver(e) = e.ver /\ e.ver \in 0 .. MaxVersion
  BY DataFacts
<1>6. Preserved \in Statuses
  BY <1>1, <1>3, <1>4, <1>5 DEF Statuses
<1>7. d # NoData => d.ver = Ver(d)
  BY <1>1, <1>3, <1>5
<1> QED BY <1>3, <1>4, <1>6, <1>7

\* The three ways a decision can go.
LEMMA DecideFacts ==
  ASSUME TypeOK, Decide
  PROVE  /\ job.pc = "checked" /\ job' \in JobStates
         /\ \/ ~job.token.early /\ FailJob
            \/ /\ status' = status /\ job'.pc = "keepNew"
               /\ job'.cand = job.cand /\ job'.prev = job.prev /\ job'.token = job.token
               /\ job.token.early => Strict
            \/ /\ status' = status /\ job.token.early
               /\ job'.prev = job.prev /\ job'.token = job.token
               /\ job'.cand \in Data /\ job'.cand.prov = TRUE /\ job'.cand.ver = job.cand.ver
               /\ job'.cand.page = job.cand.page
               /\ \/ job'.pc = "keepOld" /\ KeepsOld(job.prev)
                  \/ job'.pc = "save" /\ ~KeepsOld(job.prev)
<1>1. job \in JobStates /\ job.pc = "checked" /\ job.cand \in Data
  BY DEF TypeOK, Decide, JobStates, MaybeData
<1>2. CASE ~job.token.early /\ FailJob
  BY <1>1, <1>2, IdleType DEF FailJob
<1>3. CASE /\ job.token.early => Strict
           /\ job' = [job EXCEPT !.pc = "keepNew"] /\ status' = status
  <2>1. /\ job' \in JobStates /\ job'.pc = "keepNew" /\ job'.token = job.token
        /\ job'.cand = job.cand /\ job'.prev = job.prev
    BY <1>1, <1>3, MoveFacts DEF Steps
  <2> QED BY <1>1, <1>3, <2>1
<1>4. CASE /\ job.token.early /\ status' = status
           /\ job' = [job EXCEPT
                !.cand = [job.cand EXCEPT !.prov = TRUE, !.stamp = job.token.stamp],
                !.pc = IF KeepsOld(job.prev) THEN "keepOld" ELSE "save"]
  <2> DEFINE cand == [job.cand EXCEPT !.prov = TRUE, !.stamp = job.token.stamp]
             pc == IF KeepsOld(job.prev) THEN "keepOld" ELSE "save"
  <2>1. job.token.stamp \in Nat
    BY <1>1 DEF JobStates, Tokens
  <2>2. /\ cand \in Data /\ cand.prov = TRUE /\ cand.ver = job.cand.ver
        /\ cand.page = job.cand.page
    BY <1>1, <2>1 DEF Data
  <2>3. /\ pc \in Steps
        /\ \/ pc = "keepOld" /\ KeepsOld(job.prev)
           \/ pc = "save" /\ ~KeepsOld(job.prev)
    BY DEF Steps
  <2>4. job' = [job EXCEPT !.cand = cand, !.pc = pc]
    BY <1>4
  <2> HIDE DEF cand, pc
  <2>5. /\ job' \in JobStates /\ job'.pc = pc /\ job'.cand = cand
        /\ job'.prev = job.prev /\ job'.token = job.token
    BY <1>1, <2>2, <2>3, <2>4 DEF JobStates, MaybeData
  <2> QED BY <1>1, <1>4, <2>2, <2>3, <2>5
<1> QED BY <1>2, <1>3, <1>4 DEF Decide

LEMMA KeepOldFacts ==
  ASSUME TypeOK, KeepOld
  PROVE  /\ job' \in JobStates /\ job'.pc = "save" /\ job.pc = "keepOld"
         /\ job'.cand = job.cand /\ job'.prev = job.prev /\ job'.token = job.token
         /\ baseline' \in [Labels -> MaybeData] /\ baseline'["stable"] = job.prev
         /\ \/ baseline'["dated"] = job.prev /\ baseline["dated"] = NoData
            \/ baseline'["dated"] = baseline["dated"] /\ baseline["dated"] # NoData
<1>1. job \in JobStates /\ job.prev \in MaybeData /\ baseline \in [Labels -> MaybeData]
  BY DEF TypeOK, JobStates
<1>2. /\ job' \in JobStates /\ job'.pc = "save" /\ job.pc = "keepOld"
      /\ job'.cand = job.cand /\ job'.prev = job.prev /\ job'.token = job.token
  BY <1>1, MoveFacts DEF KeepOld, Steps
<1> DEFINE dated == IF baseline["dated"] = NoData THEN job.prev ELSE baseline["dated"]
<1>3. dated \in MaybeData
  BY <1>1 DEF Labels
<1>4. baseline' = [baseline EXCEPT !["stable"] = job.prev, !["dated"] = dated]
  BY <1>1 DEF KeepOld, Kept, Labels
<1>5. \/ dated = job.prev /\ baseline["dated"] = NoData
      \/ dated = baseline["dated"] /\ baseline["dated"] # NoData
  OBVIOUS
<1> HIDE DEF dated
<1>6. /\ baseline' \in [Labels -> MaybeData] /\ baseline'["stable"] = job.prev
      /\ baseline'["dated"] = dated
  BY <1>1, <1>3, <1>4 DEF Labels
<1> QED BY <1>2, <1>5, <1>6

LEMMA KeepNewFacts ==
  ASSUME TypeOK, KeepNew
  PROVE  /\ job' \in JobStates /\ job'.pc = "save" /\ job.pc = "keepNew"
         /\ job'.cand = job.cand /\ job'.prev = job.prev /\ job'.token = job.token
         /\ baseline' \in [Labels -> MaybeData] /\ baseline'["stable"] = job.cand
         /\ baseline'["dated"] = baseline["dated"]
<1>1. job \in JobStates /\ job.cand \in MaybeData /\ baseline \in [Labels -> MaybeData]
  BY DEF TypeOK, JobStates
<1>2. /\ job' \in JobStates /\ job'.pc = "save" /\ job.pc = "keepNew"
      /\ job'.cand = job.cand /\ job'.prev = job.prev /\ job'.token = job.token
  BY <1>1, MoveFacts DEF KeepNew, Steps
<1> QED BY <1>1, <1>2 DEF KeepNew, Labels

LEMMA SaveFacts ==
  ASSUME TypeOK, Save
  PROVE  /\ job' \in JobStates /\ job'.pc = "status" /\ job.pc = "save"
         /\ job'.cand = job.cand /\ job'.prev = job.prev /\ job'.token = job.token
         /\ dataset' = job.cand /\ job.cand \in Data
<1>1. job \in JobStates
  BY DEF TypeOK
<1> QED BY <1>1, MoveFacts DEF Save, Steps, TypeOK, JobStates, MaybeData

\* What an administrator uploads is not provisional.
LEMMA UploadFacts ==
  ASSUME TypeOK, NEW n \in Rows, Upload(n)
  PROVE  /\ dataset' \in Data /\ dataset'.prov = FALSE /\ dataset'.ver = version + 1
         /\ dataset'.page = "usual"
         /\ uploads' \in 1 .. MaxMishaps /\ version' \in 0 .. MaxVersion
         /\ version' = version + 1
         /\ status' \in Statuses
<1> DEFINE d == [rows |-> n, prov |-> FALSE, stamp |-> 0, page |-> "usual",
                 at |-> clock, ver |-> version + 1]
<1>1. /\ version \in Nat /\ clock \in Nat /\ version + 1 \in 1 .. MaxVersion
      /\ uploads \in Nat /\ crashes \in Nat /\ uploads + crashes < MaxMishaps
  BY DEF TypeOK, Upload
<1>2. d \in Data /\ d.prov = FALSE /\ d.ver = version + 1 /\ d.page = "usual"
  BY <1>1 DEF Data, Pages
<1>3. dataset' = d
  BY DEF Upload
<1> HIDE DEF d
<1>4. uploads' \in 1 .. MaxMishaps /\ version' \in 0 .. MaxVersion /\ version' = version + 1
  BY <1>1 DEF Upload
<1>5. status' \in Statuses
  BY <1>1 DEF Upload, Statuses
<1> QED BY <1>2, <1>3, <1>4, <1>5

-----------------------------------------------------------------------------
(* Types.                                                                  *)

LEMMA TypeStep ==
  ASSUME TypeOK, BaselinesFit, [Next]_vars
  PROVE  TypeOK'
<1> USE DEF TypeOK
<1>1. ASSUME NEW mode \in {"stable", "early"}, NEW until \in Nat, UpdatePolicy(mode, until)
      PROVE  TypeOK'
  <2>1. policy' \in Policies
    BY <1>1 DEF UpdatePolicy, Policies
  <2> QED BY <1>1, <2>1 DEF UpdatePolicy
<1>2. CASE UpdateSections
  <2>1. policy' \in Policies
    BY <1>2 DEF UpdateSections, Policies
  <2> QED BY <1>2, <2>1 DEF UpdateSections
<1>3. CASE Begin
  BY <1>3, BeginFacts DEF Begin
<1>4. ASSUME NEW n \in Rows, Parse(n)
      PROVE  TypeOK'
  <2>1. /\ job' \in JobStates /\ job'.pc = "validated" /\ job'.cand # NoData
        /\ version' \in 0 .. MaxVersion
    <3>1. /\ job' \in JobStates /\ job'.pc = "validated" /\ job'.cand \in Data
          /\ version < MaxVersion /\ version' = version + 1
      BY <1>4, ParseFacts
    <3> QED BY <3>1
  <2> QED BY <1>4, <2>1 DEF Parse
<1>5. ASSUME NEW n \in Rows, Upload(n)
      PROVE  TypeOK'
  <2>1. dataset' \in MaybeData
    BY <1>5, UploadFacts DEF MaybeData
  <2> QED BY <1>5, <2>1, UploadFacts DEF Upload
<1>6. ASSUME FailJob, UNCHANGED <<clock, policy, dataset, baseline, version, uploads, crashes>>
      PROVE  TypeOK'
  BY <1>6, IdleType, PreservedFacts DEF FailJob
<1>7. CASE Reject
  BY <1>6, <1>7 DEF Reject
<1>8. CASE Check
  <2>1. CASE PolicyChanged
    BY <1>6, <1>8, <2>1 DEF Check
  <2>2. CASE ~PolicyChanged
    BY <1>8, <2>2 DEF Check, JobStates, Steps
  <2> QED BY <2>1, <2>2
<1>9. CASE Decide
  <2>1. CASE FailJob
    BY <1>6, <1>9, <2>1 DEF Decide
  <2>2. CASE ~FailJob
    <3>1. /\ status' = status /\ job' \in JobStates /\ job'.cand # NoData
          /\ job'.pc \in {"keepNew", "keepOld", "save"}
          /\ job'.pc = "keepOld" => job'.prev # NoData
      BY <1>9, <2>2, DecideFacts DEF KeepsOld
    <3> QED BY <1>9, <3>1 DEF Decide
  <2> QED BY <2>1, <2>2
<1>10. CASE KeepOld
  BY <1>10, KeepOldFacts DEF KeepOld
<1>11. CASE KeepNew
  BY <1>11, KeepNewFacts DEF KeepNew
<1>12. CASE Save
  BY <1>12, SaveFacts DEF Save, MaybeData
<1>13. CASE SaveStatus
  <2>1. job.cand \in Data
    BY <1>13 DEF SaveStatus, JobStates, MaybeData
  <2>2. status' \in Statuses
    BY <1>13, <2>1 DEF SaveStatus, Statuses, Data
  <2> QED BY <1>13, <2>2, IdleType DEF SaveStatus
<1>14. CASE Crash
  BY <1>14, IdleType DEF Crash
<1>15. CASE Tick
  BY <1>15 DEF Tick
<1>16. CASE UNCHANGED vars
  BY <1>16 DEF vars
<1> QED
  BY <1>1, <1>2, <1>3, <1>4, <1>5, <1>7, <1>8, <1>9, <1>10, <1>11, <1>12, <1>13, <1>14,
     <1>15, <1>16 DEF Next

-----------------------------------------------------------------------------
(* The inductive invariant of the publication.                             *)

\* A refresh that ends without a save leaves nothing to be fitted.
LEMMA DroppedFits ==
  ASSUME TypeOK, Inv, job' \in JobStates, job'.pc \in {"idle", "fetch"}, job'.cand = NoData,
         job'.prev = NoData, UNCHANGED <<dataset, baseline, version, uploads>>
  PROVE  VersionsFit' /\ BaselinesFit' /\ CandidateFits'
<1>1. VersionsFit'
  BY DEF Inv, VersionsFit, Ver, Pending, HasRead, TypeOK
<1>2. BaselinesFit'
  BY DEF Inv, BaselinesFit, Stable, PassesGate, MinRows
<1>3. CandidateFits'
  BY DEF CandidateFits
<1> QED BY <1>1, <1>2, <1>3

LEMMA FailedFits ==
  ASSUME TypeOK, Inv, FailJob, UNCHANGED <<dataset, baseline, version, uploads>>
  PROVE  Inv'
<1>1. VersionsFit' /\ BaselinesFit' /\ CandidateFits'
  BY DroppedFits, IdleType DEF FailJob
<1>2. StatusFits'
  <2>1. \/ status' = [state |-> "failed", ver |-> 0]
        \/ status' = [state |-> "cached", ver |-> Ver(dataset)]
        \/ /\ IsProvisional(dataset)
           /\ status' = [state |-> "cached", ver |-> Ver(baseline["stable"])]
    BY PreservedFacts DEF FailJob, Inv
  <2>2. Ver(dataset) \in Nat /\ Ver(baseline["stable"]) \in Nat
    BY DataFacts DEF TypeOK, Labels
  <2>3. /\ status'.state # "ok"
        /\ status'.state = "cached" =>
             \/ status'.ver <= Ver(dataset)
             \/ IsProvisional(dataset) /\ status'.ver <= Ver(baseline["stable"])
    BY <2>1, <2>2
  <2> QED BY <2>3 DEF StatusFits, IsProvisional, Ver
<1> QED BY <1>1, <1>2 DEF Inv

LEMMA ParseFits ==
  ASSUME TypeOK, Inv, NEW n \in Rows, Parse(n)
  PROVE  Inv'
<1>1. /\ job'.pc = "validated" /\ job'.cand \in Data /\ job'.cand.rows = n
      /\ job'.cand.prov = FALSE /\ job'.cand.ver = version + 1 /\ job'.token = job.token
      /\ job'.prev = job.prev
      /\ PassesGate(n, job.token.early) /\ version' = version + 1
  BY ParseFacts
<1>2. UNCHANGED <<dataset, baseline, status, uploads>>
  BY DEF Parse
<1>3. /\ version \in Nat /\ Ver(dataset) \in Nat /\ Ver(job.prev) \in Nat
      /\ \A l \in Labels : Ver(baseline[l]) \in Nat
  BY DataFacts DEF TypeOK, JobStates
<1>4. VersionsFit'
  <2>1. job'.cand # NoData /\ Ver(job'.cand) = version + 1
    BY <1>1 DEF Ver
  <2> QED BY <1>1, <1>2, <1>3, <2>1 DEF Inv, VersionsFit, Pending, HasRead, Ver
<1>5. BaselinesFit'
  BY <1>2 DEF Inv, BaselinesFit, Stable, PassesGate, MinRows
<1>6. CandidateFits'
  BY <1>1 DEF CandidateFits
<1>7. StatusFits'
  BY <1>2 DEF Inv, StatusFits, Ver, IsProvisional
<1> QED BY <1>4, <1>5, <1>6, <1>7 DEF Inv

LEMMA UploadFits ==
  ASSUME TypeOK, Inv, NEW n \in Rows, Upload(n)
  PROVE  Inv'
<1>1. /\ dataset' \in Data /\ dataset'.prov = FALSE /\ dataset'.ver = version + 1
      /\ uploads' # 0 /\ version' = version + 1
  <2>1. uploads' \in 1 .. MaxMishaps
    BY UploadFacts
  <2>2. uploads' # 0
    BY <2>1
  <2> QED BY <2>2, UploadFacts
<1>2. UNCHANGED <<baseline, job>>
  BY DEF Upload
<1>3. /\ version \in Nat /\ Ver(job.cand) \in Nat /\ Ver(job.prev) \in Nat
      /\ \A l \in Labels : Ver(baseline[l]) \in Nat
  BY DataFacts DEF TypeOK, JobStates
<1>4. VersionsFit'
  <2>1. Ver(dataset') = version + 1 /\ Stable(dataset')
    BY <1>1 DEF Ver, Stable
  <2>2. Pending => job.cand.ver = Ver(job.cand)
    BY DEF Pending, TypeOK, Ver
  <2> QED BY <1>1, <1>2, <1>3, <2>1, <2>2 DEF Inv, VersionsFit, Pending, HasRead, Ver
<1>5. BaselinesFit'
  BY <1>1, <1>2 DEF Inv, BaselinesFit
<1>6. CandidateFits'
  BY <1>1, <1>2 DEF Inv, CandidateFits, Stable, PassesGate, MinRows
<1>7. StatusFits'
  BY <1>1 DEF StatusFits
<1> QED BY <1>4, <1>5, <1>6, <1>7 DEF Inv

\* A refresh that goes on without a write: what has been read is the dataset,
\* or stays.
LEMMA CheckFits ==
  ASSUME TypeOK, Inv, Check
  PROVE  Inv'
<1>1. CASE PolicyChanged
  BY <1>1, FailedFits DEF Check
<1>2. CASE ~PolicyChanged
  <2>1. /\ job.pc = "validated" /\ job'.pc = "checked" /\ job'.cand = job.cand
        /\ job'.prev = dataset /\ job'.token = job.token
        /\ UNCHANGED <<dataset, baseline, status, version, uploads>>
    BY <1>2 DEF Check, TypeOK, JobStates
  <2>2. VersionsFit'
    BY <2>1 DEF Inv, VersionsFit, Pending, HasRead, Ver
  <2>3. BaselinesFit'
    BY <2>1 DEF Inv, BaselinesFit, Stable, PassesGate, MinRows
  <2>4. CandidateFits'
    BY <2>1 DEF Inv, CandidateFits, PassesGate, MinRows
  <2>5. StatusFits'
    BY <2>1 DEF Inv, StatusFits, Ver, IsProvisional
  <2> QED BY <2>2, <2>3, <2>4, <2>5 DEF Inv
<1> QED BY <1>1, <1>2

LEMMA DecideFits ==
  ASSUME TypeOK, Inv, Decide
  PROVE  Inv'
<1>1. CASE FailJob
  BY <1>1, FailedFits DEF Decide
<1>2. CASE ~FailJob
  <2>1. UNCHANGED <<dataset, baseline, status, version, uploads>> /\ job.pc = "checked"
    BY <1>2, DecideFacts DEF Decide
  <2>2. job.cand # NoData /\ job.token.early \in BOOLEAN
    BY <2>1 DEF TypeOK, JobStates, Tokens
  <2>3. BaselinesFit'
    BY <2>1 DEF Inv, BaselinesFit, Stable, PassesGate, MinRows
  <2>4. StatusFits'
    BY <2>1 DEF Inv, StatusFits, Ver, IsProvisional
  <2>5. CASE /\ job'.pc = "keepNew" /\ job'.cand = job.cand /\ job'.prev = job.prev
             /\ job'.token = job.token /\ (job.token.early => Strict)
    <3>1. VersionsFit'
      BY <2>1, <2>5 DEF Inv, VersionsFit, Pending, HasRead, Ver
    <3>2. ~job.cand.prov /\ PassesGate(job.cand.rows, FALSE)
      BY <2>1, <2>2, <2>5 DEF Inv, CandidateFits, Strict, PassesGate, MinRows
    <3>3. CandidateFits'
      BY <2>5, <3>2 DEF CandidateFits
    <3> QED BY <2>3, <2>4, <3>1, <3>3 DEF Inv
  <2>6. CASE /\ job'.prev = job.prev /\ job'.cand \in Data /\ job'.cand.prov = TRUE
             /\ job'.cand.ver = job.cand.ver
             /\ \/ job'.pc = "keepOld" /\ KeepsOld(job.prev)
                \/ job'.pc = "save" /\ ~KeepsOld(job.prev)
    <3>1. Ver(job'.cand) = Ver(job.cand) /\ Ver(job.cand) = job.cand.ver
      BY <2>2, <2>6 DEF Ver
    <3>2. VersionsFit'
      BY <2>1, <2>6, <3>1 DEF Inv, VersionsFit, Pending, HasRead, Ver
    <3>3. job.prev = dataset \/ Stable(dataset)
      BY <2>1 DEF Inv, CandidateFits
    <3>4. uploads = 0 => job.prev = dataset
      BY <2>1 DEF Inv, VersionsFit, HasRead
    <3>5. CandidateFits'
      BY <2>1, <2>6, <3>3, <3>4 DEF CandidateFits, KeepsOld, Stable
    <3> QED BY <2>3, <2>4, <3>2, <3>5 DEF Inv
  <2> QED BY <1>2, <2>5, <2>6, DecideFacts
<1> QED BY <1>1, <1>2

\* Writing a baseline: the previous stable dataset.
LEMMA KeepOldFits ==
  ASSUME TypeOK, Inv, KeepOld
  PROVE  Inv'
<1>1. /\ job'.pc = "save" /\ job.pc = "keepOld" /\ job'.cand = job.cand /\ job'.prev = job.prev
      /\ job'.token = job.token /\ baseline'["stable"] = job.prev
      /\ \/ baseline'["dated"] = job.prev /\ baseline["dated"] = NoData
         \/ baseline'["dated"] = baseline["dated"] /\ baseline["dated"] # NoData
  BY KeepOldFacts
<1>2. UNCHANGED <<dataset, status, version, uploads>>
  BY DEF KeepOld
<1>3. job.cand.prov /\ Stable(job.prev) /\ Stable(dataset)
  BY <1>1 DEF Inv, CandidateFits
<1>4. uploads = 0 => job.prev = dataset
  BY <1>1 DEF Inv, VersionsFit, HasRead
<1>5. VersionsFit'
  BY <1>1, <1>2 DEF Inv, VersionsFit, Pending, HasRead, Ver, Labels
<1>6. BaselinesFit'
  BY <1>1, <1>2, <1>3, <1>4 DEF Inv, BaselinesFit, Stable, PassesGate, MinRows, Labels
<1>7. CandidateFits'
  BY <1>1, <1>2, <1>3, <1>4 DEF CandidateFits, Stable
<1>8. StatusFits'
  BY <1>2, <1>3 DEF Inv, StatusFits, Ver, IsProvisional, Stable
<1> QED BY <1>5, <1>6, <1>7, <1>8 DEF Inv

\* Writing a baseline: the candidate itself.
LEMMA KeepNewFits ==
  ASSUME TypeOK, Inv, KeepNew
  PROVE  Inv'
<1>1. /\ job'.pc = "save" /\ job.pc = "keepNew" /\ job'.cand = job.cand /\ job'.prev = job.prev
      /\ job'.token = job.token /\ baseline'["stable"] = job.cand
      /\ baseline'["dated"] = baseline["dated"]
  BY KeepNewFacts
<1>2. UNCHANGED <<dataset, status, version, uploads>>
  BY DEF KeepNew
<1>3. job.cand # NoData /\ ~job.cand.prov /\ PassesGate(job.cand.rows, FALSE)
  BY <1>1 DEF Inv, CandidateFits, TypeOK
<1>4. uploads = 0 => Ver(job.cand) = version
  BY <1>1, <1>3 DEF Inv, VersionsFit, Pending, Ver
<1>5. VersionsFit'
  BY <1>1, <1>2 DEF Inv, VersionsFit, Pending, HasRead, Ver, Labels
<1>6. BaselinesFit'
  BY <1>1, <1>2, <1>3 DEF Inv, BaselinesFit, Stable, PassesGate, MinRows, Labels
<1>7. CandidateFits'
  BY <1>1, <1>3 DEF CandidateFits, PassesGate, MinRows
<1>8. StatusFits'
  <2>1. /\ version \in Nat /\ status.ver \in Nat /\ Ver(baseline["stable"]) \in Nat
        /\ Ver(baseline["stable"]) <= version
    BY DataFacts DEF TypeOK, Inv, VersionsFit, Labels, Statuses
  <2>2. Ver(baseline["stable"])' = Ver(job.cand) /\ Ver(dataset)' = Ver(dataset)
    BY <1>1, <1>2 DEF Ver
  <2>3. uploads = 0 /\ status.state = "cached" =>
          \/ status.ver <= Ver(dataset)
          \/ IsProvisional(dataset) /\ status.ver <= Ver(baseline["stable"])
    BY DEF Inv, StatusFits
  <2>4. uploads = 0 /\ status.state = "cached" =>
          \/ status.ver <= Ver(dataset)
          \/ IsProvisional(dataset) /\ status.ver <= Ver(job.cand)
    BY <1>4, <2>1, <2>3
  <2> QED BY <1>2, <2>2, <2>4 DEF Inv, StatusFits, IsProvisional
<1> QED BY <1>5, <1>6, <1>7, <1>8 DEF Inv

LEMMA SaveFits ==
  ASSUME TypeOK, Inv, Save
  PROVE  Inv'
<1>1. /\ job'.pc = "status" /\ job.pc = "save" /\ job'.cand = job.cand /\ dataset' = job.cand
      /\ job.cand \in Data /\ job'.token = job.token /\ job'.prev = job.prev
  BY SaveFacts
<1>2. UNCHANGED <<baseline, status, version, uploads>>
  BY DEF Save
<1>3. /\ version \in Nat /\ status.ver \in Nat /\ Ver(dataset) \in Nat
      /\ Ver(baseline["stable"]) \in Nat
      /\ Ver(dataset) <= version /\ Ver(baseline["stable"]) <= version
  BY DataFacts DEF TypeOK, Inv, VersionsFit, Labels, Statuses
<1>4. VersionsFit'
  BY <1>1, <1>2 DEF Inv, VersionsFit, Pending, HasRead, Ver
<1>5. BaselinesFit'
  BY <1>1, <1>2 DEF Inv, BaselinesFit, CandidateFits, Stable, PassesGate, MinRows
<1>6. CandidateFits'
  BY <1>1, <1>2 DEF Inv, CandidateFits, PassesGate, MinRows
<1>7. StatusFits'
  <2>1. uploads = 0 => Ver(job.cand) = version
    BY <1>1 DEF Inv, VersionsFit, Pending, Ver
  <2>2. uploads = 0 /\ status.state \in {"ok", "cached"} => status.ver <= version
    BY <1>3 DEF Inv, StatusFits
  <2>3. Ver(dataset)' = Ver(job.cand)
    BY <1>1 DEF Ver
  <2> QED BY <1>2, <2>1, <2>2, <2>3 DEF StatusFits
<1> QED BY <1>4, <1>5, <1>6, <1>7 DEF Inv

LEMMA SaveStatusFits ==
  ASSUME TypeOK, Inv, SaveStatus
  PROVE  Inv'
<1>1. /\ job.pc = "status" /\ UNCHANGED <<dataset, baseline, version, uploads>> /\ job' = Idle
      /\ status' = [state |-> "ok", ver |-> job.cand.ver]
  BY DEF SaveStatus
<1>2. VersionsFit' /\ BaselinesFit' /\ CandidateFits'
  BY <1>1, DroppedFits, IdleType
<1>3. StatusFits'
  <2>1. uploads = 0 => job.cand = dataset
    BY <1>1 DEF Inv, VersionsFit
  <2>2. job.cand # NoData /\ Ver(job.cand) \in Nat /\ job.cand.ver = Ver(job.cand)
    BY <1>1, DataFacts DEF TypeOK, JobStates, Ver
  <2>3. status'.state = "ok" /\ (uploads' = 0 => status'.ver <= Ver(dataset)')
    BY <1>1, <2>1, <2>2
  <2> QED BY <2>3 DEF StatusFits
<1> QED BY <1>2, <1>3 DEF Inv

LEMMA InvStep ==
  ASSUME TypeOK, Inv, [Next]_vars
  PROVE  Inv'
<1>1. ASSUME UNCHANGED <<dataset, baseline, status, job, version, uploads>>
      PROVE  Inv'
  <2>1. VersionsFit'
    BY <1>1 DEF Inv, VersionsFit, Pending, HasRead, Ver
  <2>2. BaselinesFit'
    BY <1>1 DEF Inv, BaselinesFit, Stable, PassesGate, MinRows
  <2>3. CandidateFits'
    BY <1>1 DEF Inv, CandidateFits, Stable, PassesGate, MinRows
  <2>4. StatusFits'
    BY <1>1 DEF Inv, StatusFits, Ver, IsProvisional
  <2> QED BY <2>1, <2>2, <2>3, <2>4 DEF Inv
<1>2. ASSUME job' \in JobStates, job'.pc \in {"idle", "fetch"}, job'.cand = NoData,
             job'.prev = NoData, UNCHANGED <<dataset, baseline, status, version, uploads>>
      PROVE  Inv'
  <2>1. StatusFits'
    BY <1>2 DEF Inv, StatusFits, Ver, IsProvisional
  <2> QED BY <1>2, <2>1, DroppedFits DEF Inv
<1>3. ASSUME NEW mode, NEW until, UpdatePolicy(mode, until)
      PROVE  Inv'
  BY <1>1, <1>3 DEF UpdatePolicy
<1>4. CASE UpdateSections
  BY <1>1, <1>4 DEF UpdateSections
<1>5. CASE Begin
  BY <1>2, <1>5, BeginFacts DEF Begin
<1>6. CASE Reject
  BY <1>6, FailedFits DEF Reject
<1>7. CASE Crash
  BY <1>2, <1>7, IdleType DEF Crash
<1>8. CASE Tick
  BY <1>1, <1>8 DEF Tick
<1>9. CASE UNCHANGED vars
  BY <1>1, <1>9 DEF vars
<1> QED
  BY <1>3, <1>4, <1>5, <1>6, <1>7, <1>8, <1>9, ParseFits, UploadFits, CheckFits, DecideFits,
     KeepOldFits, KeepNewFits, SaveFits, SaveStatusFits DEF Next

LEMMA InvInit == Init => TypeOK /\ Inv
<1> SUFFICES ASSUME Init PROVE TypeOK /\ Inv
  OBVIOUS
<1>1. /\ clock = 0 /\ job = Idle /\ uploads = 0 /\ crashes = 0
      /\ baseline = [l \in Labels |-> NoData] /\ status = [state |-> "none", ver |-> 0]
  BY DEF Init
<1>2. policy \in Policies
  BY DEF Init, Policies
<1>3. \/ dataset = NoData /\ version = 0
      \/ \E n \in Rows : n >= MinStable /\ dataset = FirstData(n) /\ version = 1
  BY DEF Init
<1>4. ASSUME dataset \in MaybeData, version \in 0 .. MaxVersion, Ver(dataset) <= version,
             Stable(dataset) => PassesGate(dataset.rows, FALSE)
      PROVE  TypeOK /\ Inv
  <2>1. TypeOK
    BY <1>1, <1>2, <1>4, IdleType DEF TypeOK, MaybeData, Statuses
  <2>2. job.pc = "idle" /\ job.cand = NoData /\ job.prev = NoData
    BY <1>1, IdleType
  <2>3. \A l \in Labels : baseline[l] = NoData
    BY <1>1
  <2>4. VersionsFit
    BY <1>4, <2>2, <2>3 DEF VersionsFit, Pending, HasRead, Ver
  <2>5. BaselinesFit
    BY <1>4, <2>3 DEF BaselinesFit, Labels
  <2>6. CandidateFits
    BY <2>2 DEF CandidateFits
  <2>7. StatusFits
    BY <1>1 DEF StatusFits
  <2> QED BY <2>1, <2>4, <2>5, <2>6, <2>7 DEF Inv
<1>5. CASE dataset = NoData /\ version = 0
  BY <1>4, <1>5 DEF MaybeData, Ver, Stable
<1>6. ASSUME NEW n \in Rows, n >= MinStable, dataset = FirstData(n), version = 1
      PROVE  TypeOK /\ Inv
  <2>1. dataset.rows = n /\ dataset.ver = 1
    BY <1>6 DEF FirstData
  <2>2. PassesGate(n, FALSE)
    BY <1>6 DEF PassesGate, MinRows
  <2>3. dataset \in Data
    <3>1. 1 \in 1 .. MaxVersion
      OBVIOUS
    <3> QED BY <1>6, <3>1 DEF FirstData, Data, Pages
  <2>4. Ver(dataset) = 1 /\ version \in 0 .. MaxVersion /\ dataset \in MaybeData
    BY <1>6, <2>1, <2>3 DEF MaybeData, Ver
  <2>5. Ver(dataset) <= version
    BY <1>6, <2>4
  <2>6. PassesGate(dataset.rows, FALSE)
    BY <2>1, <2>2
  <2> QED BY <1>4, <2>4, <2>5, <2>6
<1> QED BY <1>3, <1>5, <1>6

LEMMA InvHolds == Spec => [](TypeOK /\ Inv)
<1>1. TypeOK /\ Inv /\ [Next]_vars => (TypeOK /\ Inv)'
  BY TypeStep, InvStep DEF Inv
<1> QED BY <1>1, InvInit, PTL DEF Spec

-----------------------------------------------------------------------------
(* The stable channel.                                                     *)

\* Beside a provisional dataset stable readers get the baseline.
LEMMA ViewFacts ==
  ASSUME TypeOK, BaselinesFit
  PROVE  /\ StableBaseline = baseline["stable"]
         /\ ~IsProvisional(baseline["stable"])
         /\ IsProvisional(dataset) => StableView = baseline["stable"]
         /\ ~IsProvisional(dataset) => StableView = dataset
         /\ StableView \in MaybeData
<1>1. StableBaseline = baseline["stable"] /\ ~IsProvisional(baseline["stable"])
  BY DEF StableBaseline, BaselinesFit, IsProvisional, Labels
<1>2. dataset \in MaybeData /\ baseline["stable"] \in MaybeData
  BY DEF TypeOK, Labels
<1> QED BY <1>1, <1>2 DEF StableView, Resolve

\* Without uploads stable readers get data that passed the stable contract and
\* is not provisional (resolve_public_dataset after _save_dataset_with_checks).
THEOREM StableReadersAreSafe == Spec => []StableIsStable
<1>1. ASSUME TypeOK, Inv
      PROVE  StableIsStable
  <2>1. SUFFICES ASSUME uploads = 0, StableView # NoData
                 PROVE  ~StableView.prov /\ PassesGate(StableView.rows, FALSE)
    BY DEF StableIsStable
  <2>2. BaselinesFit
    BY <1>1 DEF Inv
  <2>3. CASE IsProvisional(dataset)
    BY <1>1, <2>1, <2>2, <2>3, ViewFacts DEF BaselinesFit, Labels
  <2>4. CASE ~IsProvisional(dataset)
    BY <1>1, <2>1, <2>2, <2>4, ViewFacts DEF BaselinesFit, IsProvisional, Stable
  <2> QED BY <2>3, <2>4
<1> QED BY <1>1, InvHolds, PTL

\* A status that save_status wrote names a dataset that was saved, one that
\* _preserve_cached_ok_status wrote a file that was public.
THEOREM StatusesAreHonest == Spec => []StatusIsHonest
<1>1. TypeOK /\ Inv => StatusIsHonest
  BY DEF Inv, StatusFits, StatusIsHonest
<1> QED BY <1>1, InvHolds, PTL

\* What a step does to the stable channel when nothing is uploaded: it stays, it
\* begins, or a stable candidate that is newer than all that was saved becomes
\* visible.
LEMMA ChannelStep ==
  ASSUME TypeOK, TypeOK', Inv, Inv', [Next]_vars, uploads' = 0
  PROVE  /\ uploads = 0
         /\ \/ StableView' = StableView
            \/ StableView = NoData
            \/ /\ StableView' = job.cand /\ job.cand # NoData /\ ~job.cand.prov
               /\ Ver(StableView') = version /\ Ver(StableView) <= version
               /\ \/ KeepNew /\ IsProvisional(dataset)
                  \/ Save
<1>1. BaselinesFit /\ BaselinesFit'
  BY DEF Inv
<1>2. /\ IsProvisional(dataset)' => StableView' = baseline'["stable"]
      /\ ~IsProvisional(dataset)' => StableView' = dataset'
  <2>1. StableBaseline' = baseline'["stable"] /\ ~IsProvisional(baseline["stable"])'
    BY <1>1 DEF StableBaseline, BaselinesFit, IsProvisional, Labels
  <2> QED BY <2>1 DEF StableView, Resolve, IsProvisional
<1>3. /\ IsProvisional(dataset) => StableView = baseline["stable"]
      /\ ~IsProvisional(dataset) => StableView = dataset
  BY <1>1, ViewFacts
<1>4. Ver(StableView) <= version
  BY <1>3 DEF Inv, VersionsFit, Labels
<1>5. ASSUME uploads' = uploads, UNCHANGED <<dataset, baseline>>
      PROVE  uploads = 0 /\ StableView' = StableView
  BY <1>2, <1>3, <1>5 DEF IsProvisional
<1>6. ASSUME NEW n \in Rows, Parse(n) \/ Upload(n)
      PROVE  uploads = 0 /\ StableView' = StableView
  <2>1. CASE Upload(n)
    BY <2>1, UploadFacts
  <2>2. CASE Parse(n)
    BY <1>5, <2>2 DEF Parse
  <2> QED BY <1>6, <2>1, <2>2
<1>7. CASE KeepOld
  <2>1. /\ uploads = 0 /\ dataset' = dataset /\ ~IsProvisional(dataset)
    BY <1>7 DEF KeepOld, Inv, CandidateFits, Stable, IsProvisional
  <2> QED BY <1>2, <1>3, <2>1 DEF IsProvisional
<1>8. CASE KeepNew
  <2>1. /\ uploads = 0 /\ dataset' = dataset /\ job.pc = "keepNew"
        /\ baseline'["stable"] = job.cand
    BY <1>8, KeepNewFacts DEF KeepNew
  <2>2. job.cand # NoData /\ ~job.cand.prov /\ Ver(job.cand) = version
    BY <2>1 DEF TypeOK, Inv, CandidateFits, VersionsFit, Pending, Ver
  <2>3. CASE IsProvisional(dataset)
    <3>1. StableView' = job.cand
      BY <1>2, <2>1, <2>3 DEF IsProvisional
    <3>2. Ver(StableView') = version
      BY <2>2, <3>1
    <3> QED BY <1>4, <1>8, <2>1, <2>2, <2>3, <3>1, <3>2
  <2>4. CASE ~IsProvisional(dataset)
    BY <1>2, <1>3, <2>1, <2>4 DEF IsProvisional
  <2> QED BY <2>3, <2>4
<1>9. CASE Save
  <2>1. /\ uploads = 0 /\ baseline' = baseline /\ job.pc = "save" /\ dataset' = job.cand
    BY <1>9, SaveFacts DEF Save
  <2>2. job.cand # NoData /\ Ver(job.cand) = version
    BY <2>1 DEF TypeOK, Inv, VersionsFit, Pending, Ver
  <2>3. CASE job.cand.prov
    <3>1. StableView' = baseline["stable"]
      BY <1>2, <2>1, <2>2, <2>3 DEF IsProvisional
    <3>2. Stable(dataset) => baseline["stable"] = dataset
      BY <2>1, <2>3 DEF Inv, CandidateFits
    <3> QED BY <1>3, <2>1, <3>1, <3>2 DEF IsProvisional, Stable
  <2>4. CASE ~job.cand.prov
    <3>1. StableView' = job.cand
      BY <1>2, <2>1, <2>2, <2>4 DEF IsProvisional
    <3>2. Ver(StableView') = version
      BY <2>2, <3>1
    <3> QED BY <1>4, <1>9, <2>1, <2>2, <2>4, <3>1, <3>2
  <2> QED BY <2>3, <2>4
<1>10. ASSUME NEW mode, NEW until, UpdatePolicy(mode, until)
       PROVE  uploads = 0 /\ StableView' = StableView
  BY <1>5, <1>10 DEF UpdatePolicy
<1>11. CASE UpdateSections
  BY <1>5, <1>11 DEF UpdateSections
<1>12. CASE Begin
  BY <1>5, <1>12 DEF Begin
<1>13. CASE Reject
  BY <1>5, <1>13 DEF Reject
<1>14. CASE Check
  BY <1>5, <1>14 DEF Check
<1>15. CASE Decide
  BY <1>5, <1>15 DEF Decide
<1>16. CASE SaveStatus
  BY <1>5, <1>16 DEF SaveStatus
<1>17. CASE Crash
  BY <1>5, <1>17 DEF Crash
<1>18. CASE Tick
  BY <1>5, <1>18 DEF Tick
<1>19. CASE UNCHANGED vars
  BY <1>5, <1>19 DEF vars
<1> QED
  BY <1>6, <1>7, <1>8, <1>9, <1>10, <1>11, <1>12, <1>13, <1>14, <1>15, <1>16, <1>17, <1>18,
     <1>19 DEF Next

\* The order of the baseline and the dataset writes: no step takes the stable
\* channel back, and a provisional save leaves it as it is (KeepOld and KeepNew
\* before Save in _save_dataset_with_checks).
THEOREM StableChannelNeverGoesBack == Spec => StableChannelIsKept
<1>1. ASSUME TypeOK, TypeOK', Inv, Inv', [Next]_vars, uploads' = 0
      PROVE  /\ Ver(StableView') >= Ver(StableView)
             /\ dataset' # dataset /\ IsProvisional(dataset')
                  => StableView' = StableView \/ StableView = NoData
  <2>1. StableView \in MaybeData /\ StableView' \in MaybeData
    <3>1. dataset' \in MaybeData /\ baseline'["stable"] \in MaybeData
          /\ baseline'["dated"] \in MaybeData
      BY <1>1 DEF TypeOK, Labels
    <3>2. StableView' \in MaybeData
      BY <3>1 DEF StableView, Resolve, StableBaseline, MaybeData
    <3> QED BY <1>1, <3>2, ViewFacts DEF Inv
  <2>2. Ver(StableView) \in Nat /\ Ver(StableView') \in Nat /\ version \in Nat
    BY <1>1, <2>1, DataFacts DEF TypeOK
  <2>3. CASE StableView' = StableView
    <3>1. Ver(StableView') = Ver(StableView)
      BY <2>3
    <3> QED BY <2>2, <2>3, <3>1
  <2>4. CASE StableView = NoData
    <3>1. Ver(StableView) = 0
      BY <2>4 DEF Ver
    <3> QED BY <2>2, <2>4, <3>1
  <2>5. CASE /\ ~job.cand.prov /\ Ver(StableView') = version /\ Ver(StableView) <= version
             /\ (KeepNew \/ Save)
    <3>1. dataset' # dataset => dataset' = job.cand
      BY <2>5 DEF KeepNew, Save
    <3>2. ~(dataset' # dataset /\ IsProvisional(dataset'))
      BY <2>5, <3>1 DEF IsProvisional
    <3> QED BY <2>2, <2>5, <3>2
  <2> QED BY <1>1, <2>3, <2>4, <2>5, ChannelStep
<1>2. TypeOK /\ Inv /\ (TypeOK /\ Inv)' /\ [Next]_vars =>
        [uploads' = 0 =>
           /\ Ver(StableView') >= Ver(StableView)
           /\ dataset' # dataset /\ IsProvisional(dataset')
                => StableView' = StableView \/ StableView = NoData]_vars
  BY <1>1
<1> QED BY <1>2, InvHolds, PTL DEF Spec, StableChannelIsKept

-----------------------------------------------------------------------------
(* A contraction is seen twice.                                            *)

\* A dataset is not contracted against itself.
LEMMA NotContracted ==
  ASSUME NEW d \in Data
  PROVE  ~Contracted(d, d.rows)
<1>1. d.rows \in Nat
  BY DataFacts DEF MaybeData
<1>2. ASSUME NEW n \in Nat, NEW k \in 0 .. 100
      PROVE  ~(n < (n * k) \div 100)
  <2>1. n * k <= n * 100 /\ n * k \in Nat
    BY <1>2
  <2>2. ASSUME NEW m \in Nat, m <= n * 100
        PROVE  ~(n < m \div 100)
    BY <2>2
  <2> QED BY <2>1, <2>2
<1>3. 100 - DropPercent \in 0 .. 100
  OBVIOUS
<1> QED BY <1>1, <1>2, <1>3 DEF Contracted

\* A judgement depends on what the refresh holds and on the stable channel.
LEMMA StrictStays ==
  ASSUME job'.prev = job.prev, job'.cand = job.cand, job'.token = job.token,
         StableBaseline' = StableBaseline
  PROVE  Strict' <=> Strict
BY DEF Strict, IsProvisional, PassesGate, MinRows, Regression, Contracted, Confirmed

LEMMA JudgedStep ==
  ASSUME ~PatchScoped, TypeOK, Inv, JudgedFits, [Next]_vars
  PROVE  JudgedFits'
<1> DEFINE Usual(d) == d # NoData => d.page = "usual"
<1>0. /\ Usual(dataset) /\ Usual(baseline["stable"]) /\ Usual(baseline["dated"])
      /\ Usual(job.cand) /\ Usual(job.prev)
  BY DEF JudgedFits
<1>1. ASSUME /\ Usual(dataset') /\ Usual(baseline'["stable"]) /\ Usual(baseline'["dated"])
             /\ Usual(job'.cand) /\ Usual(job'.prev),
             job'.pc = "keepNew" /\ job'.token.early => Strict',
             job'.pc = "save" /\ ~job'.cand.prov /\ job'.token.early /\ Stable(job'.prev) =>
               ~Contracted(job'.prev, job'.cand.rows)
      PROVE  JudgedFits'
  BY <1>1 DEF JudgedFits, Stable, Contracted
<1>2. ASSUME UNCHANGED <<baseline, job>>, Usual(dataset')
      PROVE  JudgedFits'
  <2>1. Strict' <=> Strict
    BY <1>2, StrictStays DEF StableBaseline
  <2> QED BY <1>0, <1>1, <1>2, <2>1 DEF JudgedFits
<1>3. ASSUME job'.pc \notin {"keepNew", "save"}, Usual(job'.cand), Usual(job'.prev),
             Usual(dataset'), UNCHANGED baseline
      PROVE  JudgedFits'
  BY <1>0, <1>1, <1>3
<1>4. ASSUME FailJob, UNCHANGED <<dataset, baseline>>
      PROVE  JudgedFits'
  BY <1>0, <1>3, <1>4, IdleType DEF FailJob
<1>5. ASSUME NEW n \in Rows, Parse(n)
      PROVE  JudgedFits'
  <2>1. job'.pc = "validated" /\ job'.prev = job.prev /\ job'.cand.page = "usual"
    BY <1>5, ParseFacts
  <2>2. UNCHANGED <<dataset, baseline>>
    BY <1>5 DEF Parse
  <2> QED BY <1>0, <1>3, <2>1, <2>2
<1>6. ASSUME NEW n \in Rows, Upload(n)
      PROVE  JudgedFits'
  BY <1>2, <1>6, UploadFacts DEF Upload
<1>7. CASE Check
  <2>1. CASE PolicyChanged
    BY <1>4, <1>7, <2>1 DEF Check
  <2>2. CASE ~PolicyChanged
    <3>1. /\ job'.pc = "checked" /\ job'.cand = job.cand /\ job'.prev = dataset
          /\ UNCHANGED <<dataset, baseline>>
      BY <1>7, <2>2 DEF Check, TypeOK, JobStates
    <3> QED BY <1>0, <1>3, <3>1
  <2> QED BY <2>1, <2>2
<1>8. CASE Decide
  <2>1. CASE FailJob
    BY <1>4, <1>8, <2>1 DEF Decide
  <2>2. CASE /\ job'.pc = "keepNew" /\ job'.cand = job.cand /\ job'.prev = job.prev
             /\ job'.token = job.token /\ (job.token.early => Strict)
    <3>1. UNCHANGED <<dataset, baseline>>
      BY <1>8 DEF Decide
    <3>2. Strict' <=> Strict
      BY <2>2, <3>1, StrictStays DEF StableBaseline
    <3> QED BY <1>0, <1>1, <2>2, <3>1, <3>2
  <2>3. CASE /\ job'.prev = job.prev /\ job'.cand.prov = TRUE
             /\ job'.cand.page = job.cand.page /\ job'.pc \in {"keepOld", "save"}
    <3>1. UNCHANGED <<dataset, baseline>>
      BY <1>8 DEF Decide
    <3>2. job.cand # NoData
      BY <1>8 DEF Decide, TypeOK
    <3> QED BY <1>0, <1>1, <2>3, <3>1, <3>2
  <2> QED BY <1>8, <2>1, <2>2, <2>3, DecideFacts
<1>9. CASE KeepOld
  <2>1. job'.pc = "save" /\ job'.cand.prov /\ job'.cand = job.cand /\ job'.prev = job.prev
    BY <1>9, KeepOldFacts DEF Inv, CandidateFits
  <2>2. dataset' = dataset /\ Usual(baseline'["stable"]) /\ Usual(baseline'["dated"])
    BY <1>0, <1>9, KeepOldFacts DEF KeepOld
  <2> QED BY <1>0, <1>1, <2>1, <2>2
<1>10. CASE KeepNew
  <2>1. /\ job.pc = "keepNew" /\ job'.pc = "save" /\ job'.cand = job.cand
        /\ job'.prev = job.prev /\ job'.token = job.token
        /\ dataset' = dataset /\ Usual(baseline'["stable"]) /\ Usual(baseline'["dated"])
    BY <1>0, <1>10, KeepNewFacts DEF KeepNew
  <2>2. ASSUME job.token.early, Stable(job.prev)
        PROVE  ~Contracted(job.prev, job.cand.rows)
    <3>1. Strict /\ job.cand # NoData
      BY <2>1, <2>2 DEF JudgedFits, TypeOK
    <3>2. ~IsProvisional(job.prev) /\ job.prev.page = job.cand.page
      BY <1>0, <2>2, <3>1 DEF Stable, IsProvisional
    <3> QED BY <2>2, <3>1, <3>2 DEF Strict, Regression, Confirmed, Stable
  <2> QED BY <1>0, <1>1, <2>1, <2>2
<1>11. CASE Save
  BY <1>0, <1>3, <1>11, SaveFacts DEF Save
<1>12. ASSUME NEW mode, NEW until, UpdatePolicy(mode, until)
       PROVE  JudgedFits'
  BY <1>0, <1>2, <1>12 DEF UpdatePolicy
<1>13. CASE UpdateSections
  BY <1>0, <1>2, <1>13 DEF UpdateSections
<1>14. CASE Begin
  BY <1>0, <1>3, <1>14, BeginFacts DEF Begin
<1>15. CASE Reject
  BY <1>4, <1>15 DEF Reject
<1>16. CASE SaveStatus
  BY <1>0, <1>3, <1>16, IdleType DEF SaveStatus
<1>17. CASE Crash
  BY <1>0, <1>3, <1>17, IdleType DEF Crash
<1>18. CASE Tick
  BY <1>0, <1>2, <1>18 DEF Tick
<1>19. CASE UNCHANGED vars
  BY <1>0, <1>2, <1>19 DEF vars
<1> QED
  BY <1>5, <1>6, <1>7, <1>8, <1>9, <1>10, <1>11, <1>12, <1>13, <1>14, <1>15, <1>16, <1>17,
     <1>18, <1>19 DEF Next

\* Where the page does not depend on the policy, an early refresh contracts the
\* stable channel only after a provisional observation of the same window that
\* is old enough (check_dataset_regression, can_confirm_post_patch_baseline).
THEOREM ContractionsAreSeenTwice == ~PatchScoped /\ Spec => ContractionSeenTwice
<1> DEFINE Seen == Contraction /\ uploads = 0 /\ job.token.early /\ job.cand = StableView'
                     => /\ IsProvisional(job.prev) /\ job.prev.stamp = job.token.stamp
                        /\ job.cand.at >= job.prev.at + ConfirmAge
<1>1. ASSUME ~PatchScoped, Init
      PROVE  JudgedFits
  <2>1. /\ dataset # NoData => dataset.page = "usual"
        /\ job.pc = "idle" /\ job.cand = NoData /\ job.prev = NoData
        /\ baseline["stable"] = NoData /\ baseline["dated"] = NoData
    BY <1>1, IdleType DEF Init, FirstData, Labels
  <2> QED BY <2>1 DEF JudgedFits
<1>2. ASSUME ~PatchScoped, TypeOK, TypeOK', Inv, Inv', JudgedFits, [Next]_vars,
             Contraction, uploads = 0, job.token.early, job.cand = StableView'
      PROVE  /\ IsProvisional(job.prev) /\ job.prev.stamp = job.token.stamp
             /\ job.cand.at >= job.prev.at + ConfirmAge
  <2>1. /\ StableView # NoData /\ StableView' # NoData
        /\ Contracted(StableView, StableView'.rows)
    BY <1>2 DEF Contraction
  <2>2. BaselinesFit
    BY <1>2 DEF Inv
  <2>3. StableView \in Data
    BY <1>2, <2>1, <2>2, ViewFacts DEF MaybeData
  <2>4. StableView' # StableView
    BY <2>1, <2>3, NotContracted
  <2>5. uploads' = 0
    <3>1. ASSUME NEW n \in Rows, Upload(n)
          PROVE  FALSE
      <4>1. /\ dataset' \in Data /\ ~dataset'.prov /\ dataset'.ver = version + 1
        BY <1>2, <3>1, UploadFacts
      <4>2. StableView' = dataset'
        BY <4>1 DEF StableView, Resolve, IsProvisional
      <4>3. Ver(job.cand) = version + 1 /\ Ver(job.cand) <= version /\ version \in Nat
        BY <1>2, <4>1, <4>2 DEF Inv, VersionsFit, Ver, TypeOK
      <4> QED BY <4>3
    <3>2. \A mode, until : UpdatePolicy(mode, until) => uploads' = uploads
      BY DEF UpdatePolicy
    <3>3. \A n : Parse(n) => uploads' = uploads
      BY DEF Parse
    <3>4. /\ UpdateSections => uploads' = uploads
          /\ Begin => uploads' = uploads
          /\ Reject => uploads' = uploads
          /\ Check => uploads' = uploads
          /\ Decide => uploads' = uploads
      BY DEF UpdateSections, Begin, Reject, Check, Decide
    <3>5. /\ KeepOld => uploads' = uploads
          /\ KeepNew => uploads' = uploads
          /\ Save => uploads' = uploads
          /\ SaveStatus => uploads' = uploads
          /\ Crash => uploads' = uploads
          /\ Tick => uploads' = uploads
          /\ UNCHANGED vars => uploads' = uploads
      BY DEF KeepOld, KeepNew, Save, SaveStatus, Crash, Tick, vars
    <3> QED BY <1>2, <3>1, <3>2, <3>3, <3>4, <3>5 DEF Next
  <2>6. /\ ~job.cand.prov /\ Ver(StableView') = version
        /\ \/ KeepNew /\ IsProvisional(dataset)
           \/ Save
    BY <1>2, <2>1, <2>4, <2>5, ChannelStep
  <2>7. \A d \in {dataset, baseline["stable"], job.cand, job.prev} :
          d # NoData => d.page = "usual"
    BY <1>2 DEF JudgedFits
  <2>8. CASE KeepNew /\ IsProvisional(dataset)
    <3>1. job.pc = "keepNew" /\ job.prev = dataset /\ Strict
      BY <1>2, <2>8 DEF KeepNew, Inv, VersionsFit, HasRead, JudgedFits
    <3>2. StableView = baseline["stable"] /\ StableBaseline = baseline["stable"]
      BY <1>2, <2>2, <2>8, ViewFacts
    <3>3. Regression(StableBaseline, job.cand)
      BY <1>2, <2>1, <2>7, <3>2 DEF Regression
    <3>4. Confirmed(job.prev, job.cand, job.token.stamp)
      BY <2>1, <2>8, <3>1, <3>2, <3>3 DEF Strict
    <3>5. job.prev.at \in Nat /\ job.cand.at \in Nat
      BY <1>2, <2>1, <2>8, <3>1, DataFacts DEF TypeOK, JobStates, IsProvisional
    <3> QED BY <3>4, <3>5 DEF Confirmed
  <2>9. CASE Save
    <3>1. job.pc = "save" /\ job.prev = dataset
      BY <1>2, <2>9 DEF Save, Inv, VersionsFit, HasRead
    <3>2. CASE Stable(dataset)
      <4>1. StableView = job.prev
        BY <1>2, <2>2, <3>1, <3>2, ViewFacts DEF Stable, IsProvisional
      <4> QED BY <1>2, <2>1, <2>6, <3>1, <3>2, <4>1 DEF JudgedFits
    <3>3. CASE IsProvisional(dataset)
      <4>1. StableView = baseline["stable"] /\ baseline["stable"] = job.cand
        BY <1>2, <2>2, <2>6, <3>1, <3>3, ViewFacts DEF Inv, CandidateFits
      <4> QED BY <1>2, <2>4, <4>1
    <3>4. CASE dataset = NoData
      BY <1>2, <2>1, <2>2, <3>4, ViewFacts DEF IsProvisional
    <3> QED BY <3>2, <3>3, <3>4 DEF Stable, IsProvisional
  <2> QED BY <2>6, <2>8, <2>9
<1>3. ~PatchScoped /\ TypeOK /\ Inv /\ (TypeOK /\ Inv)' /\ JudgedFits /\ [Next]_vars
        => [Seen]_vars
  BY <1>2
<1>4. ~PatchScoped /\ TypeOK /\ Inv /\ JudgedFits /\ [Next]_vars => JudgedFits'
  BY JudgedStep
<1>5. CASE PatchScoped
  BY <1>5
<1>6. CASE ~PatchScoped
  <2>1. Init => JudgedFits
    BY <1>1, <1>6
  <2>2. TypeOK /\ Inv /\ JudgedFits /\ [Next]_vars => JudgedFits'
    BY <1>4, <1>6
  <2>3. TypeOK /\ Inv /\ (TypeOK /\ Inv)' /\ JudgedFits /\ [Next]_vars => [Seen]_vars
    BY <1>3, <1>6
  <2> QED BY <2>1, <2>2, <2>3, InvHolds, PTL DEF Spec, ContractionSeenTwice
<1> QED BY <1>5, <1>6

-----------------------------------------------------------------------------
(* The readers.                                                            *)

\* An early policy that has ended does not begin again by the clock.
LEMMA ViewEnds ==
  ASSUME policy \in Policies, policy' = policy, clock \in Nat, clock' \in Nat, clock <= clock'
  PROVE  /\ View'.early => View.early
         /\ (View'.early <=> View.early) => View' = View
<1> DEFINE early(c) == policy.mode = "early" /\ c < policy.until
           env(c) == c < EnvironmentUntil
<1>1. policy.until \in Nat /\ EnvironmentUntil \in Nat
  BY DEF Policies
<1>2. /\ early(clock') => early(clock)
      /\ env(clock') => env(clock)
  BY <1>1
<1>3. CASE policy.configured
  <2>1. View = [early |-> early(clock), configured |-> TRUE, until |-> policy.until,
                stamp |-> policy.stamp]
    BY <1>3 DEF View
  <2>2. View' = [early |-> early(clock'), configured |-> TRUE, until |-> policy.until,
                 stamp |-> policy.stamp]
    BY <1>3 DEF View
  <2>3. early(clock) \in BOOLEAN /\ early(clock') \in BOOLEAN
    OBVIOUS
  <2> HIDE DEF early
  <2>4. View.early = early(clock) /\ View'.early = early(clock')
    BY <2>1, <2>2
  <2> QED BY <1>2, <2>1, <2>2, <2>3, <2>4
<1>4. CASE ~policy.configured
  <2>1. View = [early |-> env(clock), configured |-> FALSE,
                until |-> IF env(clock) THEN EnvironmentUntil ELSE 0, stamp |-> 0]
    BY <1>4 DEF View
  <2>2. View' = [early |-> env(clock'), configured |-> FALSE,
                 until |-> IF env(clock') THEN EnvironmentUntil ELSE 0, stamp |-> 0]
    BY <1>4 DEF View
  <2>3. env(clock) \in BOOLEAN /\ env(clock') \in BOOLEAN
    OBVIOUS
  <2> HIDE DEF env
  <2>4. View.early = env(clock) /\ View'.early = env(clock')
    BY <2>1, <2>2
  <2> QED BY <1>2, <2>1, <2>2, <2>3, <2>4
<1> QED BY <1>3, <1>4

\* The tag tells the version of the dataset, the revision and the policy.
LEMMA TagFacts ==
  ASSUME TypeOK
  PROVE  /\ Tag \in Tags /\ Tag.ver = Ver(dataset) /\ Tag.revision = policy.revision
         /\ Tag.view = IF dataset = NoData THEN NoTag.view ELSE View
         /\ NoTag \in Tags /\ NoTag.view.configured = FALSE /\ NoTag.ver = 0
         /\ NoTag.revision = 0
<1> DEFINE view == IF dataset = NoData THEN NoTag.view ELSE View
<1>1. Idle.token \in Tokens /\ Idle.token.configured = FALSE
  BY DEF Idle, Tokens
<1>2. /\ NoTag \in Tags /\ NoTag.view.configured = FALSE /\ NoTag.ver = 0
      /\ NoTag.revision = 0 /\ NoTag.view \in Tokens
  BY <1>1 DEF NoTag, Tags
<1>3. view \in Tokens
  BY <1>2, ViewType DEF TypeOK
<1>4. Ver(dataset) \in 0 .. MaxVersion /\ policy.revision \in Nat
  BY DataFacts DEF TypeOK, Ver, Policies
<1>5. Tag = [ver |-> Ver(dataset), revision |-> policy.revision, view |-> view]
  BY DEF Tag
<1> HIDE DEF view
<1>6. /\ Tag \in Tags /\ Tag.ver = Ver(dataset) /\ Tag.revision = policy.revision
      /\ Tag.view = view
  BY <1>3, <1>4, <1>5 DEF Tags
<1> QED BY <1>2, <1>6 DEF view

\* Policies and versions only go on.
LEMMA OnlyOnwards ==
  ASSUME TypeOK, [Next]_vars
  PROVE  /\ policy' = policy \/ policy'.revision > policy.revision
         /\ version' >= version /\ clock' >= clock
<1> DEFINE Goal == /\ policy' = policy \/ policy'.revision > policy.revision
                   /\ version' >= version /\ clock' >= clock
<1>1. version \in Nat /\ clock \in Nat /\ policy \in Policies /\ policy.revision \in Nat
  BY DEF TypeOK, Policies
<1>2. ASSUME UNCHANGED <<policy, clock, version>> PROVE Goal
  BY <1>1, <1>2
<1>3. ASSUME NEW mode, NEW until, UpdatePolicy(mode, until) PROVE Goal
  BY <1>1, <1>3 DEF UpdatePolicy
<1>4. ASSUME UpdateSections PROVE Goal
  <2>1. policy'.revision = policy.revision + 1
    BY <1>1, <1>4 DEF UpdateSections, Policies
  <2> QED BY <1>1, <1>4, <2>1 DEF UpdateSections
<1>5. ASSUME NEW n \in Rows, Parse(n) \/ Upload(n) PROVE Goal
  BY <1>1, <1>5 DEF Parse, Upload
<1>6. ASSUME Tick PROVE Goal
  BY <1>1, <1>6 DEF Tick
<1>7. ASSUME Begin \/ Reject \/ Check \/ Decide PROVE Goal
  BY <1>2, <1>7 DEF Begin, Reject, Check, Decide
<1>8. ASSUME KeepOld \/ KeepNew \/ Save \/ SaveStatus \/ Crash \/ UNCHANGED vars PROVE Goal
  BY <1>2, <1>8 DEF KeepOld, KeepNew, Save, SaveStatus, Crash, vars
<1> HIDE DEF Goal
<1>9. Goal
  BY <1>3, <1>4, <1>5, <1>6, <1>7, <1>8 DEF Next
<1> QED BY <1>9 DEF Goal

\* A candidate that appears is new.
LEMMA CandidatesAreNew ==
  ASSUME TypeOK, Inv, [Next]_vars, Pending'
  PROVE  (Pending /\ job'.cand.ver = job.cand.ver) \/ job'.cand.ver > version
<1> DEFINE Fresh == (Pending /\ job'.cand.ver = job.cand.ver) \/ job'.cand.ver > version
<1>1. job'.pc \in {"validated", "checked", "keepOld", "keepNew", "save"}
  BY DEF Pending
<1>2. ASSUME job' = job PROVE Fresh
  BY <1>1, <1>2 DEF Pending
<1>3. job' # Idle
  BY <1>1, IdleType
<1>4. ASSUME job.pc \in {"validated", "checked", "keepOld", "keepNew"},
             job'.cand.ver = job.cand.ver
      PROVE Fresh
  BY <1>4 DEF Pending
<1>5. ASSUME NEW mode, NEW until, UpdatePolicy(mode, until) PROVE Fresh
  BY <1>2, <1>5 DEF UpdatePolicy
<1>6. ASSUME NEW n \in Rows, Parse(n) PROVE Fresh
  <2>1. job'.cand.ver = version + 1
    BY <1>6, ParseFacts
  <2>2. version \in Nat
    BY DEF TypeOK
  <2> QED BY <2>1, <2>2
<1>7. ASSUME NEW n \in Rows, Upload(n) PROVE Fresh
  BY <1>2, <1>7 DEF Upload
<1>8. ASSUME UpdateSections \/ Tick \/ UNCHANGED vars PROVE Fresh
  BY <1>2, <1>8 DEF UpdateSections, Tick, vars
<1>9. ASSUME Begin PROVE Fresh
  BY <1>1, <1>9, BeginFacts
<1>10. ASSUME Reject \/ SaveStatus \/ Crash PROVE Fresh
  BY <1>3, <1>10 DEF Reject, FailJob, SaveStatus, Crash
<1>11. ASSUME Check PROVE Fresh
  <2>1. ~PolicyChanged
    BY <1>3, <1>11 DEF Check, FailJob
  <2>2. job.pc = "validated" /\ job'.cand.ver = job.cand.ver
    BY <1>11, <2>1 DEF Check, TypeOK, JobStates
  <2> QED BY <1>4, <2>2
<1>12. ASSUME Decide PROVE Fresh
  <2>1. ~FailJob
    BY <1>3 DEF FailJob
  <2>2. job.pc = "checked" /\ job'.cand.ver = job.cand.ver
    BY <1>12, <2>1, DecideFacts
  <2> QED BY <1>4, <2>2
<1>13. ASSUME KeepOld PROVE Fresh
  BY <1>4, <1>13, KeepOldFacts
<1>14. ASSUME KeepNew PROVE Fresh
  BY <1>4, <1>14, KeepNewFacts
<1>15. ASSUME Save PROVE Fresh
  BY <1>1, <1>15, SaveFacts
<1> HIDE DEF Fresh
<1>16. Fresh
  BY <1>5, <1>6, <1>7, <1>8, <1>9, <1>10, <1>11, <1>12, <1>13, <1>14, <1>15 DEF Next
<1> QED BY <1>16 DEF Fresh

\* What is known of a tag stays known.
LEMMA KnownStep ==
  ASSUME TypeOK, TypeOK', Inv, [Next]_vars, NEW tag \in Tags, Known(tag)
  PROVE  Known(tag)'
<1>1. /\ policy \in Policies /\ policy.revision \in Nat /\ clock \in Nat /\ clock' \in Nat
      /\ policy'.revision \in Nat /\ version \in Nat /\ version' \in Nat
      /\ tag.revision \in Nat /\ tag.ver \in Nat
  BY DEF TypeOK, Policies, Tags
<1>2. /\ policy' = policy \/ policy'.revision > policy.revision
      /\ version' >= version /\ clock' >= clock
      /\ Pending' => \/ Pending /\ job'.cand.ver = job.cand.ver
                     \/ job'.cand.ver > version
  BY OnlyOnwards, CandidatesAreNew
<1>3. /\ tag.revision <= policy.revision /\ tag.ver <= version
      /\ Pending => tag.ver # job.cand.ver
      /\ tag.revision = policy.revision /\ tag.ver # 0 /\ ~tag.view.early => ~View.early
      /\ tag.view.configured => tag.ver # 0
  BY DEF Known
<1>4. tag.revision <= policy'.revision /\ tag.ver <= version'
  BY <1>1, <1>2, <1>3
<1>5. Pending' => tag.ver # job'.cand.ver
  <2>1. job'.cand.ver > version => tag.ver # job'.cand.ver
    BY <1>1, <1>3
  <2> QED BY <1>2, <1>3, <2>1
<1>6. tag.revision = policy'.revision /\ tag.ver # 0 /\ ~tag.view.early => ~View'.early
  <2>1. CASE policy' = policy
    BY <1>1, <1>2, <1>3, <2>1, ViewEnds
  <2>2. CASE policy'.revision > policy.revision
    BY <1>1, <1>3, <2>2
  <2> QED BY <1>2, <2>1, <2>2
<1> QED BY <1>3, <1>4, <1>5, <1>6 DEF Known

\* The tag that is computed now is known.
LEMMA TagKnown ==
  ASSUME TypeOK, Inv
  PROVE  Known(Tag) /\ Known(NoTag)
<1>1. policy.revision \in Nat /\ version \in Nat /\ Ver(dataset) <= version
  BY DEF TypeOK, Policies, Inv, VersionsFit
<1>2. Pending => Ver(dataset) # job.cand.ver
  BY DEF Inv, VersionsFit
<1>3. Pending => job.cand.ver \in 1 .. MaxVersion
  BY DataFacts DEF TypeOK, JobStates, Pending
<1>4. dataset # NoData => Ver(dataset) # 0
  BY DataFacts DEF TypeOK
<1>5. dataset = NoData => Ver(dataset) = 0
  BY DEF Ver
<1>6. Known(Tag)
  <2>1. /\ Tag.ver = Ver(dataset) /\ Tag.revision = policy.revision
        /\ Tag.view = IF dataset = NoData THEN NoTag.view ELSE View
        /\ NoTag.view.configured = FALSE
    BY TagFacts
  <2>2. Tag.ver # 0 => Tag.view = View
    BY <1>5, <2>1
  <2>3. Tag.view.configured => Tag.ver # 0
    BY <1>4, <2>1
  <2> QED BY <1>1, <1>2, <2>1, <2>2, <2>3 DEF Known
<1>7. Known(NoTag)
  <2>1. NoTag.view.configured = FALSE /\ NoTag.ver = 0 /\ NoTag.revision = 0
    BY TagFacts
  <2> QED BY <1>1, <1>3, <2>1 DEF Known
<1> QED BY <1>6, <1>7

LEMMA ReadTypeStep ==
  ASSUME ReadTypeOK, TypeOK', [ReadNext]_<<vars, readVars>>
  PROVE  ReadTypeOK'
<1>1. TypeOK /\ request \in [open : BOOLEAN, tag : Tags]
      /\ client \in [holds : BOOLEAN, tag : Tags, body : MaybeData]
  BY DEF ReadTypeOK
<1>2. CASE UNCHANGED readVars
  BY <1>1, <1>2 DEF ReadTypeOK, readVars
<1>3. CASE Open
  BY <1>1, <1>3, TagFacts DEF Open, ReadTypeOK
<1>4. CASE Answer
  <2>1. request' \in [open : BOOLEAN, tag : Tags]
    BY <1>1, <1>4, TagFacts DEF Answer
  <2>2. Body \in MaybeData
    BY <1>1 DEF Body, Resolve, StableBaseline, TypeOK, Labels, MaybeData
  <2>3. \/ client' = client
        \/ client' = [holds |-> TRUE, tag |-> request.tag, body |-> Body]
    BY <1>4 DEF Answer
  <2>4. client' \in [holds : BOOLEAN, tag : Tags, body : MaybeData]
    <3>1. CASE client' = client
      BY <1>1, <3>1
    <3>2. CASE client' = [holds |-> TRUE, tag |-> request.tag, body |-> Body]
      <4>1. request.tag \in Tags
        BY <1>1
      <4> QED BY <2>2, <3>2, <4>1
    <3> QED BY <2>3, <3>1, <3>2
  <2> QED BY <2>1, <2>4 DEF ReadTypeOK
<1> QED BY <1>2, <1>3, <1>4 DEF ReadNext, readVars

\* A body that is not the current one any more goes with a tag that is not.
LEMMA TrueStep ==
  ASSUME TypeOK, TypeOK', Inv, [Next]_vars, UNCHANGED client, client.tag \in Tags,
         Known(client.tag),
         crashes = 0 /\ client.holds /\ client.tag = Tag /\ Body # NoData =>
           client.body = Body \/ job.pc = "save",
         crashes' = 0, client.holds, client.tag = Tag', Body' # NoData
  PROVE  client.body = Body' \/ job'.pc = "save"
<1> DEFINE Goal == client.body = Body' \/ job'.pc = "save"
           Before == client.body = Body \/ job.pc = "save"
<1> HIDE DEF Goal
<1>1. /\ client.tag.ver = Ver(dataset)' /\ client.tag.revision = policy'.revision
      /\ client.tag.view = IF dataset' = NoData THEN NoTag.view ELSE View'
      /\ client.tag.ver \in Nat
  <2>1. /\ Tag'.ver = Ver(dataset)' /\ Tag'.revision = policy'.revision
        /\ Tag'.view = IF dataset' = NoData THEN NoTag.view ELSE View'
    BY DEF Tag
  <2> QED BY <2>1 DEF Tags
<1>2. /\ version \in Nat /\ crashes \in Nat /\ policy.revision \in Nat
      /\ client.tag.ver <= version /\ client.tag.revision <= policy.revision
      /\ Pending => client.tag.ver # job.cand.ver
  BY DEF TypeOK, Policies, Known
<1>3. ASSUME UNCHANGED <<clock, policy, dataset, baseline, crashes>>,
             job.pc = "save" => job'.pc = "save"
      PROVE  Goal
  <2>1. Tag' = Tag /\ Body' = Body
    BY <1>3 DEF Tag, Body, View, Ver, Resolve, StableBaseline, IsProvisional
  <2> QED BY <1>3, <2>1 DEF Goal
<1>4. ASSUME policy'.revision > policy.revision PROVE Goal
  <2>1. policy'.revision \in Nat
    BY DEF TypeOK, Policies
  <2> QED BY <1>1, <1>2, <1>4, <2>1
<1>5. ASSUME NEW mode, NEW until, UpdatePolicy(mode, until) PROVE Goal
  BY <1>2, <1>4, <1>5 DEF UpdatePolicy
<1>6. ASSUME UpdateSections PROVE Goal
  <2>1. policy'.revision = policy.revision + 1
    BY <1>6 DEF UpdateSections, TypeOK, Policies
  <2> QED BY <1>2, <1>4, <2>1
<1>7. ASSUME NEW n \in Rows, Parse(n) PROVE Goal
  BY <1>3, <1>7 DEF Parse
<1>8. ASSUME NEW n \in Rows, Upload(n) PROVE Goal
  <2>1. dataset' \in Data /\ dataset'.ver = version + 1
    BY <1>8, UploadFacts
  <2>2. Ver(dataset)' = version + 1
    BY <2>1 DEF Ver
  <2> QED BY <1>1, <1>2, <2>2
<1>9. ASSUME Tick PROVE Goal
  <2>1. /\ policy' = policy /\ dataset' = dataset /\ baseline' = baseline /\ job' = job
        /\ crashes' = crashes /\ clock <= clock' /\ clock \in Nat /\ clock' \in Nat
        /\ policy \in Policies
    BY <1>9 DEF Tick, TypeOK
  <2>2. dataset # NoData
    BY <2>1 DEF Body, Resolve, IsProvisional
  <2>3. Ver(dataset) # 0 /\ Ver(dataset)' = Ver(dataset)
    BY <2>1, <2>2, DataFacts DEF TypeOK, Ver
  <2>4. ~View'.early => ~View.early
    <3>1. client.tag.view = View'
      BY <1>1, <2>1, <2>2
    <3> QED BY <1>1, <2>1, <2>3, <3>1 DEF Known
  <2>5. View' = View
    BY <2>1, <2>4, ViewEnds
  <2>6. Tag' = Tag /\ Body' = Body
    BY <2>1, <2>3, <2>5 DEF Tag, Body, Resolve, StableBaseline, IsProvisional
  <2> QED BY <2>1, <2>6 DEF Goal
<1>10. ASSUME Begin PROVE Goal
  BY <1>3, <1>10 DEF Begin
<1>11. ASSUME Reject \/ Check \/ Decide \/ SaveStatus PROVE Goal
  BY <1>3, <1>11 DEF Reject, Check, Decide, SaveStatus
<1>12. ASSUME KeepOld PROVE Goal
  BY <1>12, KeepOldFacts DEF Goal
<1>13. ASSUME KeepNew PROVE Goal
  BY <1>13, KeepNewFacts DEF Goal
<1>14. ASSUME Save PROVE Goal
  <2>1. dataset' = job.cand /\ job.cand \in Data /\ Pending
    BY <1>14, SaveFacts DEF Pending
  <2>2. Ver(dataset)' = job.cand.ver
    BY <2>1 DEF Ver
  <2> QED BY <1>1, <1>2, <2>1, <2>2
<1>15. ASSUME Crash PROVE Goal
  BY <1>2, <1>15 DEF Crash
<1>16. ASSUME UNCHANGED vars PROVE Goal
  BY <1>3, <1>16 DEF vars
<1>17. Goal
  BY <1>5, <1>6, <1>7, <1>8, <1>9, <1>10, <1>11, <1>12, <1>13, <1>14, <1>15, <1>16 DEF Next
<1> QED BY <1>17 DEF Goal

LEMMA ReadInvStep ==
  ASSUME ReadTypeOK, TypeOK', Inv, ReadInv, [ReadNext]_<<vars, readVars>>
  PROVE  ReadInv'
<1>1. /\ TypeOK /\ request.tag \in Tags /\ client.tag \in Tags
      /\ Known(request.tag) /\ Known(client.tag)
  BY DEF ReadTypeOK, ReadInv
<1>2. [Next]_vars
  BY DEF ReadNext, Open, Answer
<1>3. PICK r \in Tags, c \in Tags :
        r = request.tag /\ c = client.tag /\ Known(r)' /\ Known(c)'
  BY <1>1, <1>2, KnownStep
<1>4. CASE UNCHANGED readVars
  <2>1. request' = request /\ client' = client
    BY <1>4 DEF readVars
  <2>2. Known(request.tag)' /\ Known(client.tag)'
    BY <1>3, <2>1 DEF Known
  <2>3. (crashes = 0 /\ client.holds /\ client.tag = Tag /\ Body # NoData =>
           client.body = Body \/ job.pc = "save")'
    BY <1>1, <1>2, <2>1, TrueStep DEF ReadInv
  <2>4. StableTagStableBody'
    <3>1. client.tag.revision = policy'.revision => policy' = policy
      BY <1>1, <1>2, OnlyOnwards DEF Known, Tags, TypeOK, Policies
    <3> QED BY <2>1, <3>1 DEF ReadInv, StableTagStableBody, IsProvisional
  <2> QED BY <2>2, <2>3, <2>4 DEF ReadInv
<1>5. CASE (Open \/ Answer) /\ UNCHANGED vars
  <2>1. /\ Body' = Body /\ Tag' = Tag /\ View' = View
        /\ UNCHANGED <<policy, job, version, crashes>>
    BY <1>5 DEF vars, Body, Tag, View, Resolve, StableBaseline, IsProvisional, Ver
  <2>2. \A tag : Known(tag) <=> Known(tag)'
    BY <2>1 DEF Known, Pending
  <2>3. CASE Open
    <3>1. request'.tag = Tag /\ client' = client
      BY <2>3 DEF Open
    <3>2. Known(request.tag)' /\ Known(client.tag)'
      BY <1>1, <2>1, <3>1, TagKnown DEF Known, Pending
    <3> QED BY <2>1, <3>1, <3>2 DEF ReadInv, StableTagStableBody, IsProvisional
  <2>4. CASE Answer
    <3>1. request'.tag = NoTag
      BY <2>4 DEF Answer
    <3>2. \/ client' = client
          \/ client'.tag = request.tag /\ client'.body = Body
      BY <2>4 DEF Answer
    <3>3. Known(request.tag)' /\ Known(client.tag)'
      BY <1>1, <2>1, <3>1, <3>2, TagKnown DEF Known, Pending
    <3>4. (crashes = 0 /\ client.holds /\ client.tag = Tag /\ Body # NoData =>
             client.body = Body \/ job.pc = "save")'
      BY <2>1, <3>2 DEF ReadInv
    <3>5. StableTagStableBody'
      <4>1. CASE client' = client
        BY <2>1, <4>1 DEF ReadInv, StableTagStableBody, IsProvisional
      <4>2. CASE client'.tag = request.tag /\ client'.body = Body
        <5>1. SUFFICES ASSUME request.tag.revision = policy.revision,
                              ~request.tag.view.early, request.tag.view.configured
                       PROVE  ~IsProvisional(Body)
          BY <2>1, <4>2 DEF StableTagStableBody, IsProvisional
        <5>2. ~View.early
          BY <1>1, <5>1 DEF Known
        <5> QED BY <5>2 DEF Body, Resolve, IsProvisional
      <4> QED BY <3>2, <4>1, <4>2
    <3> QED BY <3>3, <3>4, <3>5 DEF ReadInv
  <2> QED BY <1>5, <2>3, <2>4
<1> QED BY <1>4, <1>5 DEF ReadNext, readVars, Open, Answer

LEMMA ReadHolds == ReadSpec => [](ReadTypeOK /\ Inv /\ ReadInv)
<1>1. ReadInit => ReadTypeOK /\ Inv /\ ReadInv
  <2> SUFFICES ASSUME ReadInit PROVE ReadTypeOK /\ Inv /\ ReadInv
    OBVIOUS
  <2>1. /\ TypeOK /\ Inv
        /\ request = [open |-> FALSE, tag |-> NoTag]
        /\ client = [holds |-> FALSE, tag |-> NoTag, body |-> NoData]
    BY InvInit DEF ReadInit
  <2>2. NoTag \in Tags /\ Known(NoTag)
    BY <2>1, TagFacts, TagKnown
  <2>3. ReadTypeOK
    BY <2>1, <2>2 DEF ReadTypeOK, MaybeData
  <2>4. ReadInv
    BY <2>1, <2>2 DEF ReadInv, StableTagStableBody
  <2> QED BY <2>1, <2>3, <2>4
<1>2. ReadTypeOK /\ Inv /\ ReadInv /\ [ReadNext]_<<vars, readVars>>
        => (ReadTypeOK /\ Inv /\ ReadInv)'
  <2> SUFFICES ASSUME ReadTypeOK, Inv, ReadInv, [ReadNext]_<<vars, readVars>>
               PROVE  (ReadTypeOK /\ Inv /\ ReadInv)'
    OBVIOUS
  <2>1. [Next]_vars
    BY DEF ReadNext, Open, Answer
  <2>2. TypeOK' /\ Inv'
    BY <2>1, TypeStep, InvStep DEF ReadTypeOK, Inv
  <2> QED BY <2>2, ReadTypeStep, ReadInvStep
<1> QED BY <1>1, <1>2, PTL DEF ReadSpec

\* While no refresh is under way and none died, an answer 304 is true
\* (PublicCacheMiddleware, build_etag): a tag never stands for two bodies.
THEOREM AnswersAreTrue == ReadSpec => []NotModifiedIsTrue
<1>1. ReadInv => NotModifiedIsTrue
  BY DEF ReadInv, NotModifiedIsTrue
<1> QED BY <1>1, ReadHolds, PTL

\* What goes with a tag of the stable mode is not provisional, although the tag
\* and the body are read one after the other.
THEOREM StableTagsAreStable == ReadSpec => []StableTagStableBody
<1>1. ReadInv => StableTagStableBody
  BY DEF ReadInv
<1> QED BY <1>1, ReadHolds, PTL

-----------------------------------------------------------------------------
(* The cache of GraphQL answers (AnswerCache).                              *)

HIDE EarlyAssumption
HIDE NoDataAssumption

CONSTANTS Workers, Clients, Queries, Sent, Cacheable, Ttl, Refill, Timeout, LocalEntries,
          Retry, MaxTime

VARIABLES time, redis, local, off, caller

Cache == INSTANCE AnswerCache WITH now <- time, client <- caller

Texts == Queries \cup {"none"}
Entries == [query : Texts, read : Nat, private : BOOLEAN, until : Nat]
LocalEntry == [key : Cache!Keys, value : Entries, until : Nat]

CallerStates ==
  [pc : {"idle", "resolve", "get", "asking", "put", "guard", "computing", "answered", "served"},
   at : Workers \cup {"none"}, query : Texts, digest : Texts, credentials : BOOLEAN,
   run : Texts, key : Cache!Keys \cup {<<>>}, value : Entries, began : Nat]

CacheTyped ==
  /\ time \in 0 .. MaxTime
  /\ redis \in [Cache!Keys -> Entries]
  /\ local \in [Workers -> Seq(LocalEntry)]
  /\ off \in [Workers -> Nat]
  /\ caller \in [Clients -> CallerStates]

\* What is kept under a key is what the key says, and nobody's secret; u is the time until
\* which it is kept, and life how long it may be after the request that asked for it.
KeptWell(k, e, u, life) ==
  /\ e.query = k[2] /\ ~e.private
  /\ k[1] = "answer" => k[2] \in Cacheable /\ u <= e.read + Timeout + life

SharedFits ==
  \A k \in Cache!Keys : redis[k].query # "none" =>
    KeptWell(k, redis[k], redis[k].until, Ttl) /\ time < redis[k].until

EntriesFit(s) ==
  /\ Len(s) <= LocalEntries
  /\ \A i, j \in 1 .. Len(s) : s[i].key = s[j].key => i = j
  /\ \A i \in 1 .. Len(s) : KeptWell(s[i].key, s[i].value, s[i].until, Ttl - 1 + Refill)

LocalFits == \A w \in Workers : EntriesFit(local[w])

AskedBy(v) == IF v.query # "none" THEN v.query ELSE v.digest

\* Where a request is, and what it has.
RequestFits(v, t) ==
  /\ v.pc \notin {"idle", "served"} => v.at \in Workers /\ AskedBy(v) \in Queries
  /\ v.run # "none" => v.run = AskedBy(v)
  /\ v.pc \in {"guard", "computing", "answered"} => v.run # "none"
  /\ v.pc \in {"get", "asking"} =>
       \/ v.key = <<"text", AskedBy(v)>>
       \/ v.key = <<"answer", v.run>> /\ v.run # "none" /\ v.run \in Cacheable /\ ~v.credentials
  /\ v.pc = "put" =>
       /\ v.run # "none" /\ v.value.query = v.run /\ ~v.value.private
       /\ \/ v.key = <<"text", v.run>>
          \/ /\ v.key = <<"answer", v.run>> /\ v.run \in Cacheable /\ ~v.credentials
             /\ v.value.read <= t /\ t <= v.value.read + Timeout
  /\ v.pc \in {"computing", "answered"} => v.began <= t /\ t <= v.began + Timeout
  /\ v.pc = "answered" =>
       /\ v.value.query = v.run /\ v.value.private = v.credentials
       /\ v.began <= v.value.read /\ v.value.read <= t
  /\ v.pc = "served" =>
       /\ v.value.query = v.query /\ v.value.private = v.credentials
       /\ t <= v.value.read + Timeout + (Ttl - 1) + (Refill - 1)

RequestsFit == \A c \in Clients : RequestFits(caller[c], time)

CacheSound == CacheTyped /\ SharedFits /\ LocalFits /\ RequestsFit

LEMMA CacheConstants ==
  ASSUME Cache!CacheAssumption
  PROVE  /\ \A s \in Sent : /\ s.at \in Workers /\ s.query \in Texts /\ s.digest \in Texts
                            /\ s.credentials \in BOOLEAN
                            /\ s.query # "none" \/ s.digest # "none"
         /\ Cacheable \subseteq Queries /\ "none" \notin Queries
         /\ Ttl \in Nat /\ Ttl >= 1 /\ Refill \in Nat /\ Refill >= 1 /\ Timeout \in Nat
         /\ LocalEntries \in Nat /\ Retry \in Nat /\ MaxTime \in Nat
BY DEF Cache!CacheAssumption, Cache!None, Texts

\* A sequence without its element at p.
Removed(s, p) == SubSeq(s, 1, p - 1) \o SubSeq(s, p + 1, Len(s))

LEMMA RemovedAt ==
  ASSUME NEW S, NEW s \in Seq(S), NEW p \in 1 .. Len(s)
  PROVE  /\ Removed(s, p) \in Seq(S) /\ Len(Removed(s, p)) = Len(s) - 1
         /\ \A i \in 1 .. Len(s) - 1 : Removed(s, p)[i] = s[IF i < p THEN i ELSE i + 1]
<1> DEFINE a == SubSeq(s, 1, p - 1)
           b == SubSeq(s, p + 1, Len(s))
           r == Removed(s, p)
<1>1. Len(s) \in Nat /\ p \in Nat /\ p >= 1 /\ p <= Len(s)
  OBVIOUS
<1>2. \A i \in 1 .. Len(s) : s[i] \in S
  OBVIOUS
<1>3. a \in Seq(S) /\ Len(a) = p - 1 /\ \A i \in 1 .. p - 1 : a[i] = s[i]
  <2>1. \A i \in 1 .. p - 1 : s[i] \in S
    BY <1>1, <1>2
  <2> QED BY <1>1, <2>1, SubSeqProperties
<1>4. b \in Seq(S) /\ Len(b) = Len(s) - p /\ \A i \in 1 .. Len(s) - p : b[i] = s[p + i]
  <2>1. \A i \in p + 1 .. Len(s) : s[i] \in S
    BY <1>1, <1>2
  <2> QED BY <1>1, <2>1, SubSeqProperties
<1>5. r = a \o b
  BY DEF Removed
<1> HIDE DEF a, b, r
<1>6. /\ a \o b \in Seq(S) /\ Len(a \o b) = Len(a) + Len(b)
      /\ \A i \in 1 .. Len(a) + Len(b) : (a \o b)[i] = IF i <= Len(a) THEN a[i] ELSE b[i - Len(a)]
  BY <1>3, <1>4, ConcatProperties, Zenon
<1>7. Len(a) = p - 1 /\ Len(b) = Len(s) - p /\ Len(r) = Len(a) + Len(b)
  BY <1>3, <1>4, <1>5, <1>6, Zenon
<1>8. Len(r) = Len(s) - 1
  BY <1>1, <1>7
<1>9. ASSUME NEW i \in 1 .. Len(s) - 1
      PROVE  r[i] = s[IF i < p THEN i ELSE i + 1]
  <2>1. r[i] = IF i <= Len(a) THEN a[i] ELSE b[i - Len(a)]
    <3>1. i \in 1 .. Len(a) + Len(b)
      BY <1>1, <1>7
    <3> QED BY <1>5, <1>6, <3>1, Zenon
  <2>2. CASE i < p
    <3>1. i <= Len(a) /\ i \in 1 .. p - 1
      BY <1>1, <1>7, <1>8, <2>2
    <3> QED BY <1>3, <2>1, <2>2, <3>1
  <2>3. CASE ~(i < p)
    <3>1. ~(i <= Len(a)) /\ i - Len(a) \in 1 .. Len(s) - p /\ p + (i - Len(a)) = i + 1
      BY <1>1, <1>7, <1>8, <2>3
    <3>2. b[i - Len(a)] = s[p + (i - Len(a))]
      BY <1>4, <3>1
    <3> QED BY <2>1, <2>3, <3>1, <3>2
  <2> QED BY <2>2, <2>3
<1> QED BY <1>5, <1>6, <1>8, <1>9 DEF r

\* What is left of the entries of a process without a key.
LEMMA WithoutKey ==
  ASSUME Cache!CacheAssumption, CacheTyped, LocalFits, NEW w \in Workers, NEW key,
         NEW r, r = Cache!Without(w, key)
  PROVE  /\ r \in Seq(LocalEntry) /\ EntriesFit(r)
         /\ \A i \in 1 .. Len(r) : r[i].key # key
         /\ Len(r) + 1 <= LocalEntries \/ r = local[w]
<1> DEFINE s == local[w]
<1>1. s \in Seq(LocalEntry) /\ EntriesFit(s) /\ DOMAIN s = 1 .. Len(s) /\ Len(s) \in Nat
  BY DEF CacheTyped, LocalFits
<1>2. CASE Cache!Places(w, key) = {}
  <2>1. r = s
    BY <1>2 DEF Cache!Without
  <2>2. \A i \in 1 .. Len(s) : s[i].key # key
    BY <1>1, <1>2 DEF Cache!Places
  <2> QED BY <1>1, <2>1, <2>2
<1>3. CASE Cache!Places(w, key) # {}
  <2> DEFINE p == Cache!Place(w, key)
  <2>1. p \in 1 .. Len(s) /\ s[p].key = key
    BY <1>1, <1>3 DEF Cache!Place, Cache!Places
  <2>2. r = Removed(s, p)
    BY <1>3 DEF Cache!Without, Removed
  <2> HIDE DEF p, s
  <2>3. /\ r \in Seq(LocalEntry) /\ Len(r) = Len(s) - 1
        /\ \A i \in 1 .. Len(s) - 1 : r[i] = s[IF i < p THEN i ELSE i + 1]
    BY <1>1, <2>1, <2>2, RemovedAt
  <2>4. ASSUME NEW i \in 1 .. Len(r)
        PROVE  /\ r[i].key # key
               /\ KeptWell(r[i].key, r[i].value, r[i].until, Ttl - 1 + Refill)
    <3>1. (IF i < p THEN i ELSE i + 1) \in 1 .. Len(s) /\ (IF i < p THEN i ELSE i + 1) # p
      BY <1>1, <2>1, <2>3
    <3> QED BY <1>1, <2>1, <2>3, <3>1 DEF EntriesFit
  <2>5. ASSUME NEW i \in 1 .. Len(r), NEW j \in 1 .. Len(r), r[i].key = r[j].key
        PROVE  i = j
    <3>1. /\ (IF i < p THEN i ELSE i + 1) \in 1 .. Len(s)
          /\ (IF j < p THEN j ELSE j + 1) \in 1 .. Len(s)
      BY <1>1, <2>1, <2>3
    <3>2. (IF i < p THEN i ELSE i + 1) = (IF j < p THEN j ELSE j + 1)
      BY <1>1, <2>3, <2>5, <3>1 DEF EntriesFit
    <3> QED BY <3>2, <2>1, <1>1, <2>3
  <2>6. Len(r) <= LocalEntries /\ Len(r) + 1 <= LocalEntries
    <3>1. Len(s) <= LocalEntries /\ LocalEntries \in Nat /\ Len(s) \in Nat
      BY <1>1, CacheConstants DEF EntriesFit
    <3> QED BY <2>3, <3>1
  <2> QED BY <2>3, <2>4, <2>5, <2>6 DEF EntriesFit
<1> QED BY <1>2, <1>3

\* A new entry behind others, the oldest of which make room for it.
LEMMA AppendedFits ==
  ASSUME Cache!CacheAssumption, NEW r \in Seq(LocalEntry), NEW e \in LocalEntry,
         \A i, j \in 1 .. Len(r) : r[i].key = r[j].key => i = j,
         \A i \in 1 .. Len(r) : KeptWell(r[i].key, r[i].value, r[i].until, Ttl - 1 + Refill),
         \A i \in 1 .. Len(r) : r[i].key # e.key,
         KeptWell(e.key, e.value, e.until, Ttl - 1 + Refill)
  PROVE  /\ Append(r, e) \in Seq(LocalEntry)
         /\ Len(r) + 1 <= LocalEntries => EntriesFit(Append(r, e))
         /\ Cache!Newest(Append(r, e)) \in Seq(LocalEntry)
         /\ EntriesFit(Cache!Newest(Append(r, e)))
<1> DEFINE a == Append(r, e)
           n == Cache!Newest(a)
           d == IF Len(a) > LocalEntries THEN Len(a) - LocalEntries ELSE 0
<1>1. /\ a \in Seq(LocalEntry) /\ Len(a) = Len(r) + 1 /\ Len(r) \in Nat
      /\ \A i \in 1 .. Len(r) : a[i] = r[i] /\ a[Len(r) + 1] = e
  BY AppendProperties
<1>2. a[Len(r) + 1] = e
  BY AppendProperties
<1> HIDE DEF a
<1>3. ASSUME NEW i \in 1 .. Len(a)
      PROVE  a[i] \in LocalEntry /\ KeptWell(a[i].key, a[i].value, a[i].until, Ttl - 1 + Refill)
  BY <1>1, <1>2
<1>4. ASSUME NEW i \in 1 .. Len(a), NEW j \in 1 .. Len(a), a[i].key = a[j].key
      PROVE  i = j
  <2>1. CASE i <= Len(r) /\ j <= Len(r)
    BY <1>1, <1>4, <2>1
  <2>2. CASE ~(i <= Len(r)) \/ ~(j <= Len(r))
    BY <1>1, <1>2, <1>4, <2>2
  <2> QED BY <2>1, <2>2
<1>5. LocalEntries \in Nat
  BY CacheConstants
<1>6. /\ n \in Seq(LocalEntry) /\ Len(n) = Len(a) - d /\ d \in Nat /\ Len(n) <= LocalEntries
      /\ \A i \in 1 .. Len(n) : n[i] = a[i + d]
  <2>1. n = SubSeq(a, d + 1, Len(a))
    BY <1>1, <1>5 DEF Cache!Newest
  <2>2. d \in Nat /\ d <= Len(a) /\ Len(a) \in Nat
    BY <1>1, <1>5
  <2>3. Len(a) - d <= LocalEntries
    BY <1>1, <1>5
  <2> HIDE DEF n, d
  <2>4. \A i \in d + 1 .. Len(a) : a[i] \in LocalEntry
    BY <1>3, <2>2
  <2>5. /\ n \in Seq(LocalEntry)
        /\ Len(n) = IF d + 1 <= Len(a) THEN Len(a) - (d + 1) + 1 ELSE 0
        /\ \A i \in 1 .. Len(a) - (d + 1) + 1 : n[i] = a[d + 1 + i - 1]
    <3>1. d + 1 \in Int /\ Len(a) \in Int
      BY <2>2
    <3>2. /\ SubSeq(a, d + 1, Len(a)) \in Seq(LocalEntry)
          /\ Len(SubSeq(a, d + 1, Len(a))) = IF d + 1 <= Len(a) THEN Len(a) - (d + 1) + 1 ELSE 0
          /\ \A i \in 1 .. Len(a) - (d + 1) + 1 : SubSeq(a, d + 1, Len(a))[i] = a[d + 1 + i - 1]
      BY <2>4, <3>1, SubSeqProperties
    <3> QED BY <2>1, <3>2, Zenon
  <2>6. Len(n) = Len(a) - d
    BY <2>2, <2>5
  <2>7. ASSUME NEW i \in 1 .. Len(n)
        PROVE  n[i] = a[i + d]
    <3>1. i \in 1 .. Len(a) - (d + 1) + 1 /\ d + 1 + i - 1 = i + d
      BY <2>2, <2>6
    <3> QED BY <2>5, <3>1
  <2> QED BY <2>2, <2>3, <2>5, <2>6, <2>7
<1> HIDE DEF n, d
<1>7. EntriesFit(n)
  <2>1. ASSUME NEW i \in 1 .. Len(n)
        PROVE  i + d \in 1 .. Len(a) /\ n[i] = a[i + d]
    BY <1>1, <1>6
  <2>2. ASSUME NEW i \in 1 .. Len(n), NEW j \in 1 .. Len(n), n[i].key = n[j].key
        PROVE  i = j
    <3>1. i + d = j + d
      BY <1>4, <2>1, <2>2
    <3> QED BY <3>1, <1>6, <1>1
  <2>3. ASSUME NEW i \in 1 .. Len(n)
        PROVE  KeptWell(n[i].key, n[i].value, n[i].until, Ttl - 1 + Refill)
    BY <1>3, <2>1
  <2> QED BY <1>6, <2>2, <2>3 DEF EntriesFit
<1>8. Len(r) + 1 <= LocalEntries => EntriesFit(a)
  BY <1>1, <1>3, <1>4 DEF EntriesFit
<1> QED BY <1>1, <1>6, <1>7, <1>8 DEF a, n

LEMMA PutFits ==
  ASSUME Cache!CacheAssumption, CacheTyped, LocalFits, NEW w \in Workers,
         NEW key \in Cache!Keys, NEW value \in Entries, NEW ttl \in Nat,
         KeptWell(key, value, time + ttl, Ttl - 1 + Refill), Cache!PutLocal(w, key, value, ttl)
  PROVE  local' \in [Workers -> Seq(LocalEntry)] /\ LocalFits'
<1> DEFINE r == Cache!Without(w, key)
           e == [key |-> key, value |-> [value EXCEPT !.until = 0], until |-> time + ttl]
<1>1. r \in Seq(LocalEntry) /\ EntriesFit(r) /\ \A i \in 1 .. Len(r) : r[i].key # key
  BY WithoutKey
<1>2. e \in LocalEntry
  <2>1. time \in Nat /\ time + ttl \in Nat
    BY CacheConstants DEF CacheTyped
  <2> QED BY <2>1 DEF LocalEntry, Entries
<1>3. e.key = key /\ e.value.query = value.query /\ e.value.private = value.private
      /\ e.value.read = value.read /\ e.until = time + ttl
  BY DEF Entries
<1>4. local' = [local EXCEPT ![w] = Cache!Newest(Append(r, e))]
  BY DEF Cache!PutLocal
<1> HIDE DEF r, e
<1>5. KeptWell(e.key, e.value, e.until, Ttl - 1 + Refill)
  BY <1>3 DEF KeptWell
<1>6. /\ Cache!Newest(Append(r, e)) \in Seq(LocalEntry)
      /\ EntriesFit(Cache!Newest(Append(r, e)))
  BY <1>1, <1>2, <1>3, <1>5, AppendedFits DEF EntriesFit
<1> QED BY <1>4, <1>6 DEF CacheTyped, LocalFits

LEMMA RequestChanges ==
  ASSUME CacheTyped, RequestsFit, NEW c \in Clients, NEW v \in CallerStates,
         RequestFits(v, time), Cache!Set(c, v), time' = time
  PROVE  caller' \in [Clients -> CallerStates] /\ RequestsFit'
BY DEF CacheTyped, RequestsFit, Cache!Set

LEMMA NothingKept ==
  ASSUME Cache!CacheAssumption
  PROVE  /\ Cache!NoEntry \in Entries /\ Cache!NoEntry.query = "none"
         /\ Cache!NoEntry.private = FALSE
         /\ Cache!NewClient \in CallerStates /\ \A t \in Nat : RequestFits(Cache!NewClient, t)
<1>1. Cache!NoEntry \in Entries /\ Cache!NoEntry.query = "none" /\ Cache!NoEntry.private = FALSE
  BY DEF Cache!NoEntry, Cache!None, Entries, Texts
<1>2. /\ Cache!NewClient.pc = "idle" /\ Cache!NewClient.run = "none"
      /\ Cache!NewClient \in CallerStates
  BY <1>1 DEF Cache!NewClient, Cache!None, CallerStates, Texts
<1> QED BY <1>1, <1>2 DEF RequestFits

LEMMA CacheInit ==
  ASSUME Cache!CacheAssumption, Cache!Init
  PROVE  CacheSound
<1>1. CacheTyped
  BY NothingKept, CacheConstants DEF Cache!Init, CacheTyped
<1>2. SharedFits
  BY NothingKept DEF Cache!Init, SharedFits
<1>3. LocalFits
  BY CacheConstants DEF Cache!Init, LocalFits, EntriesFit
<1>4. RequestsFit
  BY NothingKept, <1>1 DEF Cache!Init, RequestsFit, CacheTyped
<1> QED BY <1>1, <1>2, <1>3, <1>4 DEF CacheSound

\* What is known of a request.
LEMMA RequestFacts ==
  ASSUME Cache!CacheAssumption, CacheTyped, RequestsFit, NEW c \in Clients
  PROVE  /\ caller[c] \in CallerStates /\ RequestFits(caller[c], time)
         /\ Cache!Asked(c) = AskedBy(caller[c])
         /\ time \in Nat /\ MaxTime \in Nat
<1>1. MaxTime \in Nat
  BY CacheConstants
<1> QED BY <1>1 DEF CacheTyped, RequestsFit, Cache!Asked, AskedBy, Cache!None

\* An answer to its query, with the credentials it was asked with, and not too old, may be
\* served.
LEMMA ServedFits ==
  ASSUME Cache!CacheAssumption, CacheTyped, RequestsFit, NEW c \in Clients,
         NEW value \in Entries, value.query = AskedBy(caller[c]),
         value.private = caller[c].credentials,
         time <= value.read + Timeout + (Ttl - 1) + (Refill - 1)
  PROVE  /\ Cache!Served(c, value) \in CallerStates
         /\ RequestFits(Cache!Served(c, value), time)
<1> DEFINE v == Cache!Served(c, value)
<1>1. Cache!Asked(c) = AskedBy(caller[c]) /\ caller[c] \in CallerStates
  BY RequestFacts
<1>2. AskedBy(caller[c]) \in Texts
  BY <1>1 DEF AskedBy, CallerStates
<1>3. Cache!NewClient \in CallerStates /\ Cache!NewClient.run = "none"
  BY NothingKept DEF Cache!NewClient, Cache!None
<1>4. [value EXCEPT !.until = 0] \in Entries
  BY DEF Entries
<1>5. /\ [value EXCEPT !.until = 0].query = value.query
      /\ [value EXCEPT !.until = 0].private = value.private
      /\ [value EXCEPT !.until = 0].read = value.read
  BY DEF Entries
<1>6. /\ v \in CallerStates /\ v.pc = "served" /\ v.query = AskedBy(caller[c])
      /\ v.credentials = caller[c].credentials /\ v.run = "none"
      /\ v.value = [value EXCEPT !.until = 0]
  BY <1>1, <1>2, <1>3, <1>4 DEF Cache!Served, CallerStates
<1> HIDE DEF v
<1>7. RequestFits(v, time)
  BY <1>5, <1>6 DEF RequestFits
<1> QED BY <1>6, <1>7 DEF v

\* A lookup that finds what is kept under its key.
LEMMA HitFits ==
  ASSUME Cache!CacheAssumption, CacheTyped, RequestsFit, NEW c \in Clients,
         caller[c].pc \in {"get", "asking"}, NEW value \in Entries, NEW u,
         KeptWell(caller[c].key, value, u, Ttl - 1 + Refill), u \in Nat, time < u
  PROVE  Cache!Hit(c, value) \in CallerStates /\ RequestFits(Cache!Hit(c, value), time)
<1>1. /\ caller[c] \in CallerStates /\ RequestFits(caller[c], time) /\ time \in Nat
      /\ Ttl \in Nat /\ Refill \in Nat /\ Timeout \in Nat /\ "none" \notin Queries
      /\ value.read \in Nat
  BY RequestFacts, CacheConstants DEF Entries
<1>2. /\ caller[c].at \in Workers /\ AskedBy(caller[c]) \in Queries
      /\ \/ caller[c].key = <<"text", AskedBy(caller[c])>>
         \/ /\ caller[c].key = <<"answer", caller[c].run>> /\ caller[c].run # "none"
            /\ caller[c].run = AskedBy(caller[c]) /\ caller[c].credentials = FALSE
  BY <1>1 DEF RequestFits, CallerStates
<1>3. CASE caller[c].key = <<"text", AskedBy(caller[c])>>
  <2> DEFINE v == [caller[c] EXCEPT !.pc = "guard", !.run = value.query]
  <2>1. Cache!Hit(c, value) = v
    BY <1>3 DEF Cache!Hit
  <2>2. value.query = AskedBy(caller[c])
    BY <1>3 DEF KeptWell
  <2>3. /\ v \in CallerStates /\ v.pc = "guard" /\ v.run = AskedBy(caller[c])
        /\ v.at = caller[c].at /\ AskedBy(v) = AskedBy(caller[c])
    BY <1>1, <1>2, <2>2 DEF CallerStates, Texts, AskedBy
  <2> HIDE DEF v
  <2>4. RequestFits(v, time)
    BY <1>1, <1>2, <2>3 DEF RequestFits
  <2> QED BY <2>1, <2>3, <2>4
<1>4. CASE /\ caller[c].key = <<"answer", caller[c].run>>
           /\ caller[c].run = AskedBy(caller[c]) /\ caller[c].credentials = FALSE
  <2>1. Cache!Hit(c, value) = Cache!Served(c, value)
    BY <1>4 DEF Cache!Hit
  <2>2. /\ value.query = AskedBy(caller[c]) /\ value.private = caller[c].credentials
        /\ u <= value.read + Timeout + (Ttl - 1 + Refill)
    <3>1. caller[c].key[1] = "answer" /\ caller[c].key[2] = AskedBy(caller[c])
      BY <1>4
    <3>2. value.private \in BOOLEAN
      BY DEF Entries
    <3> QED BY <1>4, <3>1, <3>2 DEF KeptWell
  <2>3. time <= value.read + Timeout + (Ttl - 1) + (Refill - 1)
    BY <1>1, <2>2
  <2> QED BY <2>1, <2>2, <2>3, ServedFits
<1> QED BY <1>2, <1>3, <1>4

LEMMA MissFits ==
  ASSUME Cache!CacheAssumption, CacheTyped, RequestsFit, NEW c \in Clients,
         caller[c].pc \in {"get", "asking"}
  PROVE  Cache!Miss(c) \in CallerStates /\ RequestFits(Cache!Miss(c), time)
<1>1. /\ caller[c] \in CallerStates /\ RequestFits(caller[c], time) /\ time \in Nat
      /\ Timeout \in Nat
  BY RequestFacts, CacheConstants
<1>2. CASE caller[c].key[1] = "text"
  BY <1>1, <1>2, NothingKept DEF Cache!Miss
<1>3. CASE caller[c].key[1] # "text"
  <2> DEFINE v == [caller[c] EXCEPT !.pc = "computing", !.began = time]
  <2>1. Cache!Miss(c) = v
    BY <1>3 DEF Cache!Miss
  <2>2. /\ caller[c].at \in Workers /\ AskedBy(caller[c]) \in Queries
        /\ caller[c].run # "none" /\ caller[c].run = AskedBy(caller[c])
    BY <1>1, <1>3 DEF RequestFits
  <2>3. /\ v \in CallerStates /\ v.pc = "computing" /\ v.run = caller[c].run
        /\ v.at = caller[c].at /\ AskedBy(v) = AskedBy(caller[c]) /\ v.began = time
    BY <1>1 DEF CallerStates, AskedBy
  <2> HIDE DEF v
  <2>4. RequestFits(v, time)
    BY <1>1, <2>2, <2>3 DEF RequestFits
  <2> QED BY <2>1, <2>3, <2>4
<1> QED BY <1>2, <1>3

LEMMA StoredFits ==
  ASSUME Cache!CacheAssumption, CacheTyped, RequestsFit, NEW c \in Clients,
         caller[c].pc = "put"
  PROVE  Cache!Stored(c) \in CallerStates /\ RequestFits(Cache!Stored(c), time)
<1>1. /\ caller[c] \in CallerStates /\ RequestFits(caller[c], time) /\ time \in Nat
      /\ Ttl \in Nat /\ Refill \in Nat /\ Timeout \in Nat /\ Ttl >= 1 /\ Refill >= 1
  BY RequestFacts, CacheConstants
<1>2. /\ caller[c].at \in Workers /\ AskedBy(caller[c]) \in Queries /\ caller[c].run # "none"
      /\ caller[c].run = AskedBy(caller[c]) /\ caller[c].value.query = caller[c].run
      /\ ~caller[c].value.private /\ caller[c].value \in Entries
      /\ \/ caller[c].key = <<"text", caller[c].run>>
         \/ /\ caller[c].key = <<"answer", caller[c].run>> /\ ~caller[c].credentials
            /\ time <= caller[c].value.read + Timeout
  BY <1>1 DEF RequestFits, CallerStates
<1>3. CASE caller[c].key = <<"text", caller[c].run>>
  <2> DEFINE v == [caller[c] EXCEPT !.pc = "guard"]
  <2>1. Cache!Stored(c) = v
    BY <1>3 DEF Cache!Stored
  <2>2. /\ v \in CallerStates /\ v.pc = "guard" /\ v.run = caller[c].run
        /\ v.at = caller[c].at /\ AskedBy(v) = AskedBy(caller[c])
    BY <1>1 DEF CallerStates, AskedBy
  <2> HIDE DEF v
  <2>3. RequestFits(v, time)
    BY <1>1, <1>2, <2>2 DEF RequestFits
  <2> QED BY <2>1, <2>2, <2>3
<1>4. CASE /\ caller[c].key = <<"answer", caller[c].run>> /\ ~caller[c].credentials
           /\ time <= caller[c].value.read + Timeout
  <2>1. Cache!Stored(c) = Cache!Served(c, caller[c].value)
    BY <1>4 DEF Cache!Stored
  <2>2. caller[c].value.private = caller[c].credentials
    BY <1>1, <1>2, <1>4 DEF CallerStates, Entries
  <2>3. caller[c].value.read \in Nat
    BY <1>2 DEF Entries
  <2>4. time <= caller[c].value.read + Timeout + (Ttl - 1) + (Refill - 1)
    BY <1>1, <1>4, <2>3
  <2> QED BY <1>2, <2>1, <2>2, <2>4, ServedFits
<1> QED BY <1>2, <1>3, <1>4

\* A text outlives the run, an answer its lifetime.
LEMMA LifetimeOf ==
  ASSUME Cache!CacheAssumption, NEW key
  PROVE  /\ Cache!TtlOf(key) \in Nat /\ Cache!TtlOf(key) >= 1
         /\ key[1] = "answer" => Cache!TtlOf(key) = Ttl
BY CacheConstants DEF Cache!TtlOf

LEMMA SharedPut ==
  ASSUME Cache!CacheAssumption, CacheTyped, SharedFits, RequestsFit, NEW c \in Clients,
         caller[c].pc = "put", time' = time,
         redis' = [redis EXCEPT ![caller[c].key] =
                     [caller[c].value EXCEPT !.until = time + Cache!TtlOf(caller[c].key)]]
  PROVE  redis' \in [Cache!Keys -> Entries] /\ SharedFits'
<1> DEFINE key == caller[c].key
           ttl == Cache!TtlOf(key)
           e == [caller[c].value EXCEPT !.until = time + ttl]
<1>1. /\ caller[c] \in CallerStates /\ RequestFits(caller[c], time) /\ time \in Nat
      /\ Ttl \in Nat /\ Timeout \in Nat /\ caller[c].value \in Entries
  BY RequestFacts, CacheConstants DEF CallerStates
<1>2. ttl \in Nat /\ ttl >= 1 /\ (key[1] = "answer" => ttl = Ttl)
  BY LifetimeOf
<1> HIDE DEF ttl
<1>3. /\ e \in Entries /\ e.query = caller[c].value.query
      /\ e.private = caller[c].value.private /\ e.read = caller[c].value.read
      /\ e.until = time + ttl /\ e.read \in Nat
  BY <1>1, <1>2 DEF Entries
<1>4. redis' = [redis EXCEPT ![key] = e]
  BY DEF ttl
<1> HIDE DEF e
<1>5. /\ caller[c].value.query = caller[c].run /\ ~caller[c].value.private
      /\ \/ key = <<"text", caller[c].run>>
         \/ /\ key = <<"answer", caller[c].run>> /\ caller[c].run \in Cacheable
            /\ time <= caller[c].value.read + Timeout
  BY <1>1 DEF RequestFits
<1>6. KeptWell(key, e, e.until, Ttl) /\ time < e.until
  <2>1. CASE key = <<"text", caller[c].run>>
    <3>1. key[1] = "text" /\ key[2] = caller[c].run
      BY <2>1
    <3> QED BY <1>1, <1>2, <1>3, <1>5, <3>1 DEF KeptWell
  <2>2. CASE /\ key = <<"answer", caller[c].run>> /\ caller[c].run \in Cacheable
             /\ time <= caller[c].value.read + Timeout
    <3>1. key[1] = "answer" /\ key[2] = caller[c].run
      BY <2>2
    <3>2. time + ttl <= e.read + Timeout + Ttl
      BY <1>1, <1>2, <1>3, <2>2, <3>1
    <3> QED BY <1>1, <1>2, <1>3, <1>5, <2>2, <3>1, <3>2 DEF KeptWell
  <2> QED BY <1>5, <2>1, <2>2
<1>7. redis \in [Cache!Keys -> Entries]
  BY DEF CacheTyped
<1> HIDE DEF key
<1>8. redis' \in [Cache!Keys -> Entries]
  BY <1>3, <1>4, <1>7
<1>9. ASSUME NEW k \in Cache!Keys, redis'[k].query # "none"
      PROVE  KeptWell(k, redis'[k], redis'[k].until, Ttl) /\ time < redis'[k].until
  <2>1. CASE k = key
    BY <1>4, <1>6, <1>7, <2>1
  <2>2. CASE k # key
    <3>1. redis'[k] = redis[k]
      BY <1>4, <1>7, <2>2
    <3> QED BY <1>9, <3>1 DEF SharedFits
  <2> QED BY <2>1, <2>2
<1> QED BY <1>8, <1>9 DEF SharedFits, KeptWell

\* Steps that change the request alone.
LEMMA RequestAlone ==
  ASSUME CacheSound, NEW c \in Clients, NEW v \in CallerStates,
         RequestFits(v, time), Cache!Set(c, v), UNCHANGED <<time, redis, local, off>>
  PROVE  CacheSound'
<1> USE DEF CacheSound
<1>1. caller' \in [Clients -> CallerStates] /\ RequestsFit'
  BY RequestChanges
<1>2. CacheTyped'
  BY <1>1 DEF CacheTyped
<1>3. SharedFits' /\ LocalFits'
  BY DEF SharedFits, LocalFits, EntriesFit, KeptWell
<1> QED BY <1>1, <1>2, <1>3

LEMMA CacheGetLocal ==
  ASSUME Cache!CacheAssumption, CacheSound, NEW c \in Clients, Cache!GetLocal(c)
  PROVE  CacheSound'
<1> USE DEF CacheSound
<1> DEFINE w == caller[c].at
           key == caller[c].key
           r == Cache!Without(w, key)
<1>1. /\ caller[c] \in CallerStates /\ RequestFits(caller[c], time) /\ time \in Nat
      /\ caller[c].pc = "get" /\ w \in Workers /\ AskedBy(caller[c]) \in Queries
  BY RequestFacts DEF Cache!GetLocal, RequestFits
<1>2. /\ r \in Seq(LocalEntry) /\ EntriesFit(r)
      /\ \A i \in 1 .. Len(r) : r[i].key # key
      /\ Len(r) + 1 <= LocalEntries \/ r = local[w]
  BY <1>1, WithoutKey
<1>3. UNCHANGED <<time, redis, off>> /\ local \in [Workers -> Seq(LocalEntry)]
  BY DEF Cache!GetLocal, CacheTyped
<1>4. CASE Cache!Live(w, key)
  <2> DEFINE p == Cache!Place(w, key)
             e == Cache!Found(w, key)
  <2>1. p \in 1 .. Len(local[w]) /\ local[w][p].key = key /\ local[w][p].until > time
    <3>1. PICK i \in Cache!Places(w, key) : local[w][i].until > time
      BY <1>4 DEF Cache!Live
    <3>2. p \in Cache!Places(w, key)
      BY <3>1 DEF Cache!Place
    <3>3. /\ i \in 1 .. Len(local[w]) /\ local[w][i].key = key
          /\ p \in 1 .. Len(local[w]) /\ local[w][p].key = key
      BY <1>1, <1>3, <3>1, <3>2 DEF Cache!Places
    <3>4. i = p
      BY <1>1, <3>3 DEF LocalFits, EntriesFit
    <3> QED BY <3>1, <3>3, <3>4
  <2>2. e = local[w][p]
    BY DEF Cache!Found
  <2> HIDE DEF p, e
  <2>3. e \in LocalEntry /\ e.key = key /\ e.until > time /\ e.value \in Entries /\ e.until \in Nat
    <3>1. local[w] \in Seq(LocalEntry)
      BY <1>1, <1>3
    <3>2. e \in LocalEntry
      BY <2>1, <2>2, <3>1
    <3>3. e.key = key /\ e.until > time
      BY <2>1, <2>2
    <3> QED BY <3>2, <3>3 DEF LocalEntry
  <2>4. KeptWell(key, e.value, e.until, Ttl - 1 + Refill)
    BY <1>1, <2>1, <2>2, <2>3 DEF LocalFits, EntriesFit
  <2>5. Cache!Set(c, Cache!Hit(c, e.value)) /\ local' = [local EXCEPT ![w] = Append(r, e)]
    BY <1>4 DEF Cache!GetLocal, e
  <2>6. Cache!Hit(c, e.value) \in CallerStates /\ RequestFits(Cache!Hit(c, e.value), time)
    BY <1>1, <2>3, <2>4, HitFits
  <2>7. Len(r) + 1 <= LocalEntries
    <3>1. r # local[w]
      <4>1. Len(r) \in Nat
        BY <1>2
      <4> QED BY <1>2, <2>1
    <3> QED BY <1>2, <3>1
  <2> HIDE DEF r
  <2>8. Append(r, e) \in Seq(LocalEntry) /\ EntriesFit(Append(r, e))
    BY <1>2, <2>3, <2>4, <2>7, AppendedFits DEF EntriesFit
  <2>9. local' \in [Workers -> Seq(LocalEntry)] /\ LocalFits'
    BY <1>1, <1>3, <2>5, <2>8 DEF LocalFits
  <2>10. caller' \in [Clients -> CallerStates] /\ RequestsFit'
    BY <1>3, <2>5, <2>6, RequestChanges
  <2>11. CacheTyped' /\ SharedFits'
    BY <1>3, <2>9, <2>10 DEF CacheTyped, SharedFits, KeptWell
  <2> QED BY <2>9, <2>10, <2>11
<1>5. CASE ~Cache!Live(w, key)
  <2> DEFINE v == [caller[c] EXCEPT !.pc = "asking"]
  <2>1. Cache!Set(c, v) /\ local' = [local EXCEPT ![w] = r]
    BY <1>5 DEF Cache!GetLocal
  <2>2. /\ v \in CallerStates /\ v.pc = "asking" /\ v.run = caller[c].run
        /\ v.at = caller[c].at /\ AskedBy(v) = AskedBy(caller[c]) /\ v.key = caller[c].key
        /\ v.credentials = caller[c].credentials
    BY <1>1 DEF CallerStates, AskedBy
  <2> HIDE DEF v, r
  <2>3. RequestFits(v, time)
    BY <1>1, <2>2 DEF RequestFits
  <2>4. caller' \in [Clients -> CallerStates] /\ RequestsFit'
    BY <1>3, <2>1, <2>2, <2>3, RequestChanges
  <2>5. local' \in [Workers -> Seq(LocalEntry)] /\ LocalFits'
    BY <1>1, <1>2, <1>3, <2>1 DEF LocalFits
  <2>6. CacheTyped' /\ SharedFits'
    BY <1>3, <2>4, <2>5 DEF CacheTyped, SharedFits, KeptWell
  <2> QED BY <2>4, <2>5, <2>6
<1> QED BY <1>4, <1>5

LEMMA CacheGetShared ==
  ASSUME Cache!CacheAssumption, CacheSound, NEW c \in Clients, Cache!GetShared(c)
  PROVE  CacheSound'
<1> USE DEF CacheSound
<1> DEFINE w == caller[c].at
           key == caller[c].key
<1>1. /\ caller[c] \in CallerStates /\ RequestFits(caller[c], time) /\ time \in Nat
      /\ caller[c].pc = "asking" /\ w \in Workers /\ AskedBy(caller[c]) \in Queries
      /\ Cacheable \subseteq Queries /\ Ttl \in Nat /\ Refill \in Nat /\ Refill >= 1
      /\ Timeout \in Nat
  BY RequestFacts, CacheConstants DEF Cache!GetShared, RequestFits
<1>2. key \in Cache!Keys
  BY <1>1 DEF RequestFits, Cache!Keys
<1>3. UNCHANGED <<time, redis, off>>
  BY DEF Cache!GetShared
<1>4. CASE Cache!Asks(w) /\ Cache!Held(key)
  <2> DEFINE e == redis[key]
  <2>1. /\ Cache!Set(c, Cache!Hit(c, e)) /\ Cache!PutLocal(w, key, e, Refill)
    BY <1>4 DEF Cache!GetShared
  <2>2. e.query # "none"
    BY <1>4 DEF Cache!Held, Cache!None
  <2>3. e \in Entries
    BY <1>2 DEF CacheTyped
  <2>4. KeptWell(key, e, e.until, Ttl) /\ time < e.until
    BY <1>2, <2>2 DEF SharedFits
  <2> HIDE DEF e, key, w
  <2>5. e.until \in Nat /\ e.read \in Nat
    BY <2>3 DEF Entries
  <2>6. /\ KeptWell(key, e, time + Refill, Ttl - 1 + Refill)
        /\ KeptWell(key, e, time + 1, Ttl - 1 + Refill)
    BY <1>1, <2>4, <2>5 DEF KeptWell
  <2>7. Cache!Hit(c, e) \in CallerStates /\ RequestFits(Cache!Hit(c, e), time)
    <3>1. time + 1 \in Nat /\ time < time + 1
      BY <1>1
    <3> QED BY <1>1, <2>3, <2>6, <3>1, HitFits DEF key
  <2>8. local' \in [Workers -> Seq(LocalEntry)] /\ LocalFits'
    BY <1>1, <1>2, <2>1, <2>3, <2>6, PutFits
  <2>9. caller' \in [Clients -> CallerStates] /\ RequestsFit'
    BY <1>3, <2>1, <2>7, RequestChanges
  <2>10. CacheTyped' /\ SharedFits'
    BY <1>3, <2>8, <2>9 DEF CacheTyped, SharedFits, KeptWell
  <2> QED BY <2>8, <2>9, <2>10
<1>5. CASE ~(Cache!Asks(w) /\ Cache!Held(key))
  <2>1. Cache!Set(c, Cache!Miss(c)) /\ UNCHANGED local
    BY <1>5 DEF Cache!GetShared
  <2>2. Cache!Miss(c) \in CallerStates /\ RequestFits(Cache!Miss(c), time)
    BY <1>1, MissFits
  <2> QED BY <1>3, <2>1, <2>2, RequestAlone
<1> QED BY <1>4, <1>5

LEMMA CachePutShared ==
  ASSUME Cache!CacheAssumption, CacheSound, NEW c \in Clients, Cache!PutShared(c)
  PROVE  CacheSound'
<1> USE DEF CacheSound
<1>1. caller[c].pc = "put" /\ Cache!Set(c, Cache!Stored(c)) /\ UNCHANGED <<time, local, off>>
  BY DEF Cache!PutShared
<1>2. Cache!Stored(c) \in CallerStates /\ RequestFits(Cache!Stored(c), time)
  BY <1>1, StoredFits
<1>3. redis' \in [Cache!Keys -> Entries] /\ SharedFits'
  <2>1. CASE redis' = redis
    BY <1>1, <2>1 DEF CacheTyped, SharedFits, KeptWell
  <2>2. CASE redis' = [redis EXCEPT ![caller[c].key] =
                         [caller[c].value EXCEPT !.until = time + Cache!TtlOf(caller[c].key)]]
    BY <1>1, <2>2, SharedPut
  <2> QED BY <2>1, <2>2 DEF Cache!PutShared
<1>4. caller' \in [Clients -> CallerStates] /\ RequestsFit'
  BY <1>1, <1>2, RequestChanges
<1>5. CacheTyped' /\ LocalFits'
  BY <1>1, <1>3, <1>4 DEF CacheTyped, LocalFits
<1> QED BY <1>3, <1>4, <1>5

LEMMA CacheRedisFails ==
  ASSUME Cache!CacheAssumption, CacheSound, NEW c \in Clients, Cache!RedisFails(c)
  PROVE  CacheSound'
<1> USE DEF CacheSound
<1>1. /\ UNCHANGED <<time, local>> /\ time \in Nat /\ Retry \in Nat
      /\ off' = [off EXCEPT ![caller[c].at] = time + Retry]
  BY RequestFacts, CacheConstants DEF Cache!RedisFails
<1>2. off' \in [Workers -> Nat]
  <2>1. time + Retry \in Nat /\ off \in [Workers -> Nat]
    BY <1>1 DEF CacheTyped
  <2> QED BY <1>1, <2>1
<1>3. /\ caller' \in [Clients -> CallerStates] /\ RequestsFit'
      /\ redis' \in [Cache!Keys -> Entries] /\ SharedFits'
  <2>1. CASE caller[c].pc = "asking" /\ Cache!Set(c, Cache!Miss(c)) /\ UNCHANGED redis
    <3>1. Cache!Miss(c) \in CallerStates /\ RequestFits(Cache!Miss(c), time)
      BY <2>1, MissFits
    <3>2. caller' \in [Clients -> CallerStates] /\ RequestsFit'
      BY <1>1, <2>1, <3>1, RequestChanges
    <3> QED BY <1>1, <2>1, <3>2 DEF CacheTyped, SharedFits, KeptWell
  <2>2. CASE /\ caller[c].pc = "put" /\ Cache!Set(c, Cache!Stored(c))
             /\ redis' \in {redis, [redis EXCEPT ![caller[c].key] =
                  [caller[c].value EXCEPT !.until = time + Cache!TtlOf(caller[c].key)]]}
    <3>1. Cache!Stored(c) \in CallerStates /\ RequestFits(Cache!Stored(c), time)
      BY <2>2, StoredFits
    <3>2. caller' \in [Clients -> CallerStates] /\ RequestsFit'
      BY <1>1, <2>2, <3>1, RequestChanges
    <3>3. CASE redis' = redis
      BY <1>1, <3>2, <3>3 DEF CacheTyped, SharedFits, KeptWell
    <3>4. CASE redis' = [redis EXCEPT ![caller[c].key] =
                           [caller[c].value EXCEPT !.until = time + Cache!TtlOf(caller[c].key)]]
      BY <1>1, <2>2, <3>2, <3>4, SharedPut
    <3> QED BY <2>2, <3>3, <3>4
  <2> QED BY <2>1, <2>2 DEF Cache!RedisFails
<1>4. CacheTyped' /\ LocalFits'
  BY <1>1, <1>2, <1>3 DEF CacheTyped, LocalFits
<1> QED BY <1>3, <1>4

LEMMA CacheSend ==
  ASSUME Cache!CacheAssumption, CacheSound, NEW c \in Clients, NEW s \in Sent, Cache!Send(c, s)
  PROVE  CacheSound'
<1> DEFINE v == [Cache!NewClient EXCEPT !.pc = "resolve", !.at = s.at, !.query = s.query,
                                        !.digest = s.digest, !.credentials = s.credentials]
<1>1. /\ s.at \in Workers /\ s.query \in Texts /\ s.digest \in Texts
      /\ s.credentials \in BOOLEAN /\ (s.query # "none" \/ s.digest # "none")
      /\ Cache!NewClient \in CallerStates /\ Cache!NewClient.run = "none"
  BY CacheConstants, NothingKept DEF Cache!NewClient, Cache!None
<1>2. Cache!Set(c, v) /\ UNCHANGED <<time, redis, local, off>>
  BY DEF Cache!Send
<1>3. /\ v \in CallerStates /\ v.pc = "resolve" /\ v.at = s.at /\ v.run = "none"
      /\ v.query = s.query /\ v.digest = s.digest
  BY <1>1 DEF CallerStates
<1> HIDE DEF v
<1>4. AskedBy(v) \in Queries
  BY <1>1, <1>3 DEF AskedBy, Texts
<1>5. RequestFits(v, time)
  BY <1>1, <1>3, <1>4 DEF RequestFits
<1> QED BY <1>2, <1>3, <1>5, RequestAlone

LEMMA CacheGuard ==
  ASSUME Cache!CacheAssumption, CacheSound, NEW c \in Clients, NEW fits \in BOOLEAN,
         Cache!Guard(c, fits)
  PROVE  CacheSound'
<1> USE DEF CacheSound
<1>1. /\ caller[c] \in CallerStates /\ RequestFits(caller[c], time) /\ time \in Nat
      /\ caller[c].pc = "guard" /\ UNCHANGED <<time, redis, local, off>> /\ Timeout \in Nat
      /\ Cacheable \subseteq Queries /\ Cache!NoEntry \in Entries
  BY RequestFacts, CacheConstants, NothingKept DEF Cache!Guard
<1>2. /\ caller[c].at \in Workers /\ AskedBy(caller[c]) \in Queries
      /\ caller[c].run # "none" /\ caller[c].run = AskedBy(caller[c])
  BY <1>1 DEF RequestFits
<1>3. CASE ~fits
  <2>1. Cache!Set(c, Cache!NewClient)
    BY <1>3 DEF Cache!Guard
  <2> QED BY <1>1, <2>1, NothingKept, RequestAlone
<1>4. CASE fits /\ Cache!MayShare(c)
  <2> DEFINE v == [caller[c] EXCEPT !.pc = "get", !.key = <<"answer", caller[c].run>>,
                                    !.value = Cache!NoEntry]
  <2>1. Cache!Set(c, v) /\ caller[c].run \in Cacheable /\ ~caller[c].credentials
    BY <1>4 DEF Cache!Guard, Cache!MayShare
  <2>2. <<"answer", caller[c].run>> \in Cache!Keys
    BY <1>2 DEF Cache!Keys
  <2>3. /\ v \in CallerStates /\ v.pc = "get" /\ v.run = caller[c].run
        /\ v.at = caller[c].at /\ AskedBy(v) = AskedBy(caller[c])
        /\ v.key = <<"answer", caller[c].run>> /\ v.credentials = caller[c].credentials
    BY <1>1, <2>2 DEF CallerStates, AskedBy
  <2> HIDE DEF v
  <2>4. RequestFits(v, time)
    BY <1>1, <1>2, <2>1, <2>3 DEF RequestFits
  <2> QED BY <1>1, <2>1, <2>3, <2>4, RequestAlone
<1>5. CASE fits /\ ~Cache!MayShare(c)
  <2> DEFINE v == [caller[c] EXCEPT !.pc = "computing", !.began = time, !.value = Cache!NoEntry]
  <2>1. Cache!Set(c, v)
    BY <1>5 DEF Cache!Guard
  <2>2. /\ v \in CallerStates /\ v.pc = "computing" /\ v.run = caller[c].run
        /\ v.at = caller[c].at /\ AskedBy(v) = AskedBy(caller[c]) /\ v.began = time
    BY <1>1 DEF CallerStates, AskedBy
  <2> HIDE DEF v
  <2>3. RequestFits(v, time)
    BY <1>1, <1>2, <2>2 DEF RequestFits
  <2> QED BY <1>1, <2>1, <2>2, <2>3, RequestAlone
<1> QED BY <1>3, <1>4, <1>5

LEMMA CacheRead ==
  ASSUME Cache!CacheAssumption, CacheSound, NEW c \in Clients, Cache!Read(c)
  PROVE  CacheSound'
<1> USE DEF CacheSound
<1> DEFINE e == [query |-> caller[c].run, read |-> time, private |-> caller[c].credentials,
                 until |-> 0]
           v == [caller[c] EXCEPT !.pc = "answered", !.value = e]
<1>1. /\ caller[c] \in CallerStates /\ RequestFits(caller[c], time) /\ time \in Nat
      /\ caller[c].pc = "computing" /\ Cache!Set(c, v)
      /\ UNCHANGED <<time, redis, local, off>>
  BY RequestFacts DEF Cache!Read
<1>2. /\ caller[c].at \in Workers /\ AskedBy(caller[c]) \in Queries
      /\ caller[c].run # "none" /\ caller[c].run = AskedBy(caller[c])
      /\ caller[c].began <= time /\ time <= caller[c].began + Timeout
  BY <1>1 DEF RequestFits
<1>3. e \in Entries /\ e.query = caller[c].run /\ e.private = caller[c].credentials
      /\ e.read = time
  BY <1>1 DEF Entries, CallerStates
<1> HIDE DEF e
<1>4. /\ v \in CallerStates /\ v.pc = "answered" /\ v.run = caller[c].run
      /\ v.at = caller[c].at /\ AskedBy(v) = AskedBy(caller[c]) /\ v.began = caller[c].began
      /\ v.value = e /\ v.credentials = caller[c].credentials
  BY <1>1, <1>3 DEF CallerStates, AskedBy
<1>5. Cache!Set(c, v)
  BY <1>1
<1> HIDE DEF v
<1>6. RequestFits(v, time)
  BY <1>1, <1>2, <1>3, <1>4 DEF RequestFits
<1> QED BY <1>1, <1>4, <1>5, <1>6, RequestAlone

LEMMA CacheFail ==
  ASSUME Cache!CacheAssumption, CacheSound, NEW c \in Clients, Cache!Fail(c)
  PROVE  CacheSound'
BY NothingKept, RequestAlone DEF Cache!Fail, CacheSound, CacheTyped

LEMMA CacheResolve ==
  ASSUME Cache!CacheAssumption, CacheSound, NEW c \in Clients, Cache!Resolve(c)
  PROVE  CacheSound'
<1> USE DEF CacheSound
<1> DEFINE query == caller[c].query
           digest == caller[c].digest
           key == <<"text", digest>>
<1>1. /\ caller[c] \in CallerStates /\ RequestFits(caller[c], time) /\ time \in Nat
      /\ caller[c].pc = "resolve" /\ UNCHANGED <<time, redis, off>> /\ "none" \notin Queries
  BY RequestFacts, CacheConstants DEF Cache!Resolve
<1>2. /\ caller[c].at \in Workers /\ AskedBy(caller[c]) \in Queries
      /\ caller[c].run # "none" => caller[c].run = AskedBy(caller[c])
      /\ query \in Texts /\ digest \in Texts
  BY <1>1 DEF RequestFits, CallerStates
<1>3. CASE digest = "none"
  <2> DEFINE v == [caller[c] EXCEPT !.pc = "guard", !.run = query]
  <2>1. query \in Queries /\ AskedBy(caller[c]) = query /\ query # digest
    BY <1>1, <1>2, <1>3 DEF AskedBy
  <2>2. Cache!Set(c, v) /\ UNCHANGED local
    BY <1>3, <2>1 DEF Cache!Resolve, Cache!None
  <2>3. /\ v \in CallerStates /\ v.pc = "guard" /\ v.run = query
        /\ v.at = caller[c].at /\ AskedBy(v) = AskedBy(caller[c])
    BY <1>1, <1>2 DEF CallerStates, AskedBy
  <2> HIDE DEF v
  <2>4. RequestFits(v, time)
    BY <1>1, <1>2, <2>1, <2>3 DEF RequestFits
  <2> QED BY <1>1, <2>2, <2>3, <2>4, RequestAlone
<1>4. CASE digest # "none" /\ query = "none"
  <2> DEFINE v == [caller[c] EXCEPT !.pc = "get", !.key = key]
  <2>1. Cache!Set(c, v) /\ UNCHANGED local
    BY <1>4 DEF Cache!Resolve, Cache!None
  <2>2. AskedBy(caller[c]) = digest /\ key \in Cache!Keys
    BY <1>2, <1>4 DEF AskedBy, Cache!Keys
  <2>3. /\ v \in CallerStates /\ v.pc = "get" /\ v.run = caller[c].run
        /\ v.at = caller[c].at /\ AskedBy(v) = AskedBy(caller[c]) /\ v.key = key
    BY <1>1, <2>2 DEF CallerStates, AskedBy
  <2> HIDE DEF v
  <2>4. RequestFits(v, time)
    BY <1>1, <1>2, <2>2, <2>3 DEF RequestFits
  <2> QED BY <1>1, <2>1, <2>3, <2>4, RequestAlone
<1>5. CASE digest # "none" /\ query # "none" /\ query = digest
  <2> DEFINE e == [Cache!NoEntry EXCEPT !.query = query]
             v == [caller[c] EXCEPT !.pc = "put", !.run = query, !.key = key, !.value = e]
             ttl == Cache!TtlOf(key)
  <2>1. Cache!Set(c, v) /\ Cache!PutLocal(caller[c].at, key, e, ttl)
    BY <1>5 DEF Cache!Resolve, Cache!None
  <2>2. AskedBy(caller[c]) = query /\ key \in Cache!Keys
    BY <1>2, <1>5 DEF AskedBy, Cache!Keys
  <2>3. e \in Entries /\ e.query = query /\ ~e.private
    BY <1>2, NothingKept DEF Entries
  <2> HIDE DEF e
  <2>4. /\ v \in CallerStates /\ v.pc = "put" /\ v.run = query
        /\ v.at = caller[c].at /\ AskedBy(v) = AskedBy(caller[c]) /\ v.key = key
        /\ v.value = e
    BY <1>1, <1>2, <2>2, <2>3 DEF CallerStates, AskedBy
  <2>5. ttl \in Nat
    BY LifetimeOf
  <2> HIDE DEF v, ttl
  <2>6. RequestFits(v, time)
    BY <1>1, <1>2, <1>5, <2>2, <2>3, <2>4 DEF RequestFits
  <2>7. KeptWell(key, e, time + ttl, Ttl - 1 + Refill)
    BY <1>5, <2>3 DEF KeptWell
  <2>8. local' \in [Workers -> Seq(LocalEntry)] /\ LocalFits'
    BY <1>2, <2>1, <2>2, <2>3, <2>5, <2>7, PutFits
  <2>9. caller' \in [Clients -> CallerStates] /\ RequestsFit'
    BY <1>1, <2>1, <2>4, <2>6, RequestChanges
  <2>10. CacheTyped' /\ SharedFits'
    BY <1>1, <2>8, <2>9 DEF CacheTyped, SharedFits, KeptWell
  <2> QED BY <2>8, <2>9, <2>10
<1>6. CASE digest # "none" /\ query # "none" /\ query # digest
  <2>1. Cache!Set(c, Cache!NewClient) /\ UNCHANGED local
    BY <1>6 DEF Cache!Resolve, Cache!None
  <2> QED BY <1>1, <2>1, NothingKept, RequestAlone
<1> QED BY <1>3, <1>4, <1>5, <1>6

LEMMA CacheFinish ==
  ASSUME Cache!CacheAssumption, CacheSound, NEW c \in Clients, NEW clean \in BOOLEAN,
         Cache!Finish(c, clean)
  PROVE  CacheSound'
<1> USE DEF CacheSound
<1> DEFINE e == caller[c].value
           key == <<"answer", caller[c].run>>
           ttl == Cache!TtlOf(key)
<1>1. /\ caller[c] \in CallerStates /\ RequestFits(caller[c], time) /\ time \in Nat
      /\ caller[c].pc = "answered" /\ UNCHANGED <<time, redis, off>>
      /\ Ttl \in Nat /\ Refill \in Nat /\ Timeout \in Nat /\ Ttl >= 1 /\ Refill >= 1
      /\ Cacheable \subseteq Queries
  BY RequestFacts, CacheConstants DEF Cache!Finish
<1>2. /\ caller[c].at \in Workers /\ AskedBy(caller[c]) \in Queries
      /\ caller[c].run # "none" /\ caller[c].run = AskedBy(caller[c])
      /\ caller[c].began <= time /\ time <= caller[c].began + Timeout
      /\ e.query = caller[c].run /\ e.private = caller[c].credentials
      /\ caller[c].began <= e.read /\ e.read <= time
  BY <1>1 DEF RequestFits
<1>3. e \in Entries /\ e.read \in Nat /\ caller[c].began \in Nat
  BY <1>1 DEF CallerStates, Entries
<1>4. time <= e.read + Timeout /\ time <= e.read + Timeout + (Ttl - 1) + (Refill - 1)
  <2> HIDE DEF e
  <2> QED BY <1>1, <1>2, <1>3
<1>5. CASE clean /\ Cache!MayShare(c)
  <2> DEFINE v == [caller[c] EXCEPT !.pc = "put", !.key = key, !.value = e]
  <2>1. /\ Cache!Set(c, v) /\ Cache!PutLocal(caller[c].at, key, e, ttl)
        /\ caller[c].run \in Cacheable /\ ~caller[c].credentials
    BY <1>5 DEF Cache!Finish, Cache!MayShare, Cache!Store
  <2>2. key \in Cache!Keys
    BY <1>2 DEF Cache!Keys
  <2>3. ttl \in Nat /\ ttl = Ttl
    BY LifetimeOf, <1>1
  <2> HIDE DEF ttl
  <2>4. /\ v \in CallerStates /\ v.pc = "put" /\ v.run = caller[c].run
        /\ v.at = caller[c].at /\ AskedBy(v) = AskedBy(caller[c]) /\ v.key = key
        /\ v.value = e /\ v.credentials = caller[c].credentials
    BY <1>1, <2>2, <1>3 DEF CallerStates, AskedBy
  <2> HIDE DEF v
  <2>5. e.private = FALSE
    BY <1>2, <1>3, <2>1 DEF Entries
  <2> HIDE DEF e
  <2>6. RequestFits(v, time)
    BY <1>1, <1>2, <1>4, <2>1, <2>4, <2>5 DEF RequestFits
  <2>7. KeptWell(key, e, time + ttl, Ttl - 1 + Refill)
    <3>1. key[2] = e.query /\ key[2] = caller[c].run
      BY <1>2
    <3>2. time + ttl <= e.read + Timeout + (Ttl - 1 + Refill)
      BY <1>1, <1>3, <1>4, <2>3
    <3> QED BY <2>1, <2>5, <3>1, <3>2 DEF KeptWell
  <2> HIDE DEF key
  <2>8. local' \in [Workers -> Seq(LocalEntry)] /\ LocalFits'
    BY <1>2, <1>3, <2>1, <2>2, <2>3, <2>7, PutFits
  <2>9. caller' \in [Clients -> CallerStates] /\ RequestsFit'
    BY <1>1, <2>1, <2>4, <2>6, RequestChanges
  <2>10. CacheTyped' /\ SharedFits'
    BY <1>1, <2>8, <2>9 DEF CacheTyped, SharedFits, KeptWell
  <2> QED BY <2>8, <2>9, <2>10
<1>6. CASE ~(clean /\ Cache!MayShare(c))
  <2>1. Cache!Set(c, Cache!Served(c, e)) /\ UNCHANGED local
    BY <1>6 DEF Cache!Finish
  <2> HIDE DEF e
  <2>2. Cache!Served(c, e) \in CallerStates /\ RequestFits(Cache!Served(c, e), time)
    BY <1>2, <1>3, <1>4, ServedFits
  <2> QED BY <1>1, <2>1, <2>2, RequestAlone
<1> QED BY <1>5, <1>6

LEMMA CacheTick ==
  ASSUME Cache!CacheAssumption, CacheSound, Cache!Tick
  PROVE  CacheSound'
<1> USE DEF CacheSound
<1>1. /\ time \in Nat /\ time' = time + 1 /\ time < MaxTime /\ MaxTime \in Nat
      /\ Timeout \in Nat /\ local' = local
  BY CacheConstants DEF Cache!Tick, CacheTyped
<1>2. ASSUME NEW c \in Clients
      PROVE  caller'[c] \in CallerStates /\ RequestFits(caller'[c], time')
  <2>1. caller[c] \in CallerStates /\ RequestFits(caller[c], time)
    BY RequestFacts
  <2>2. CASE caller[c].pc = "served"
    <3>1. caller'[c] = Cache!NewClient
      BY <2>2 DEF Cache!Tick
    <3> QED BY <1>1, <3>1, NothingKept
  <2>3. CASE caller[c].pc # "served"
    <3>1. caller'[c] = caller[c]
      BY <2>3 DEF Cache!Tick
    <3>2. /\ caller[c].pc \notin {"get", "asking", "put", "resolve", "guard", "served"}
          /\ caller[c].pc \in {"computing", "answered"} => time - caller[c].began < Timeout
      BY <2>3 DEF Cache!Tick
    <3>3. /\ caller[c].began \in Nat /\ caller[c].value.read \in Nat
          /\ caller[c].pc \in {"idle", "computing", "answered"}
      BY <2>1, <3>2 DEF CallerStates, Entries
    <3>4. CASE caller[c].pc = "idle"
      BY <2>1, <3>1, <3>4 DEF RequestFits
    <3>5. CASE caller[c].pc \in {"computing", "answered"}
      <4>1. caller[c].began <= time' /\ time' <= caller[c].began + Timeout
        BY <1>1, <2>1, <3>2, <3>3, <3>5 DEF RequestFits
      <4>2. caller[c].pc = "answered" => caller[c].value.read <= time'
        BY <1>1, <2>1, <3>3 DEF RequestFits
      <4> QED BY <2>1, <3>1, <3>5, <4>1, <4>2 DEF RequestFits
    <3> QED BY <3>3, <3>4, <3>5
  <2> QED BY <2>2, <2>3
<1>3. /\ caller' \in [Clients -> CallerStates] /\ off' \in [Workers -> Nat]
      /\ redis' \in [Cache!Keys -> Entries]
  BY <1>2, NothingKept DEF Cache!Tick, CacheTyped
<1>4. RequestsFit'
  BY <1>2 DEF RequestsFit
<1>5. CacheTyped' /\ LocalFits'
  BY <1>1, <1>3 DEF CacheTyped, LocalFits
<1>6. ASSUME NEW k \in Cache!Keys, redis'[k].query # "none"
      PROVE  KeptWell(k, redis'[k], redis'[k].until, Ttl) /\ time' < redis'[k].until
  <2>1. ~(redis[k].until <= time') /\ redis'[k] = redis[k]
    BY <1>6, NothingKept DEF Cache!Tick
  <2>2. redis[k].until \in Nat
    BY DEF CacheTyped, Entries
  <2> QED BY <1>1, <1>6, <2>1, <2>2 DEF SharedFits
<1>7. SharedFits'
  BY <1>6 DEF SharedFits, KeptWell
<1> QED BY <1>4, <1>5, <1>7

LEMMA CacheNext ==
  ASSUME Cache!CacheAssumption, CacheSound, [Cache!Next]_(Cache!vars)
  PROVE  CacheSound'
<1>1. CASE UNCHANGED Cache!vars
  BY <1>1 DEF Cache!vars, CacheSound, CacheTyped, SharedFits, LocalFits, RequestsFit
<1>2. CASE Cache!Tick
  BY <1>2, CacheTick
<1>3. ASSUME NEW c \in Clients,
             \/ Cache!GetLocal(c) \/ Cache!GetShared(c) \/ Cache!PutShared(c)
             \/ Cache!RedisFails(c) \/ Cache!Resolve(c) \/ Cache!Read(c) \/ Cache!Fail(c)
      PROVE  CacheSound'
  BY <1>3, CacheGetLocal, CacheGetShared, CachePutShared, CacheRedisFails, CacheResolve,
     CacheRead, CacheFail
<1>4. ASSUME NEW c \in Clients, NEW yes \in BOOLEAN, Cache!Guard(c, yes) \/ Cache!Finish(c, yes)
      PROVE  CacheSound'
  BY <1>4, CacheGuard, CacheFinish
<1>5. ASSUME NEW c \in Clients, NEW s \in Sent, Cache!Send(c, s)
      PROVE  CacheSound'
  BY <1>5, CacheSend
<1> QED BY <1>1, <1>2, <1>3, <1>4, <1>5 DEF Cache!Next

LEMMA CacheMeans ==
  ASSUME Cache!CacheAssumption, CacheSound
  PROVE  /\ Cache!TypeOK /\ Cache!ServedRightly
         /\ Cache!DigestMeansQuery /\ Cache!KeptRightly
<1> USE DEF CacheSound
<1>1. /\ \A w \in Workers : local[w] \in Seq(LocalEntry) /\ DOMAIN local[w] = 1 .. Len(local[w])
      /\ \A c \in Clients : caller[c] \in CallerStates /\ RequestFits(caller[c], time)
      /\ \A k \in Cache!Keys : redis[k] \in Entries
      /\ time \in Nat /\ Ttl \in Nat /\ Refill \in Nat /\ Timeout \in Nat
  BY RequestFacts, CacheConstants DEF CacheTyped, RequestsFit
<1>2. Cache!TypeOK
  <2>1. time \in 0 .. MaxTime /\ \A k \in Cache!Keys : redis[k].query \in Texts
    BY <1>1 DEF CacheTyped, Entries
  <2>2. ASSUME NEW w \in Workers
        PROVE  off[w] \in Nat /\ \A i \in DOMAIN local[w] : local[w][i].key \in Cache!Keys
    <3>1. off[w] \in Nat
      BY DEF CacheTyped
    <3>2. ASSUME NEW i \in DOMAIN local[w]
          PROVE  local[w][i].key \in Cache!Keys
      <4>1. local[w][i] \in LocalEntry
        BY <1>1
      <4> QED BY <4>1 DEF LocalEntry
    <3> QED BY <3>1, <3>2
  <2>3. \A c \in Clients : caller[c].pc \in {"idle", "resolve", "get", "asking", "put", "guard",
                                             "computing", "answered", "served"}
    BY <1>1 DEF CallerStates
  <2> QED BY <2>1, <2>2, <2>3 DEF Cache!TypeOK, Cache!None, Texts
<1>3. Cache!ServedRightly
  <2>1. ASSUME NEW c \in Clients, caller[c].pc = "served"
        PROVE  /\ caller[c].value.query = caller[c].query
               /\ caller[c].value.private = caller[c].credentials
               /\ time - caller[c].value.read <= Timeout + (Ttl - 1) + (Refill - 1)
    <3>1. caller[c].value.read \in Nat
      BY <1>1 DEF CallerStates, Entries
    <3> QED BY <1>1, <2>1, <3>1 DEF RequestFits
  <2> QED BY <2>1 DEF Cache!ServedRightly
<1>4. Cache!DigestMeansQuery
  <2>1. \A c \in Clients : caller[c].run # "none" => caller[c].run = Cache!Asked(c)
    BY <1>1, RequestFacts DEF RequestFits
  <2>2. \A k \in Cache!Keys : Cache!Held(k) => redis[k].query = k[2]
    BY DEF Cache!Held, Cache!None, SharedFits, KeptWell
  <2>3. \A w \in Workers : \A i \in DOMAIN local[w] : local[w][i].value.query = local[w][i].key[2]
    BY <1>1 DEF LocalFits, EntriesFit, KeptWell
  <2> QED BY <2>1, <2>2, <2>3 DEF Cache!DigestMeansQuery, Cache!None
<1>5. Cache!KeptRightly
  <2>1. \A k \in Cache!Keys : Cache!Held(k) =>
          ~redis[k].private /\ (k[1] = "answer" => k[2] \in Cacheable)
    BY DEF Cache!Held, Cache!None, SharedFits, KeptWell
  <2>2. ASSUME NEW w \in Workers
        PROVE  /\ Len(local[w]) <= LocalEntries
               /\ \A i, j \in DOMAIN local[w] : local[w][i].key = local[w][j].key => i = j
               /\ \A i \in DOMAIN local[w] : ~local[w][i].value.private
    BY <1>1 DEF LocalFits, EntriesFit, KeptWell
  <2> QED BY <2>1, <2>2 DEF Cache!KeptRightly
<1> QED BY <1>2, <1>3, <1>4, <1>5

\* Nobody is served what was read for another query, with credentials other than their
\* own, or longer ago than an entry lives in the two tiers; a digest stands for its query
\* in every tier; and nothing that must not be kept is kept, whatever processes, clients,
\* queries and lifetimes there are, and whenever Redis stops answering
\* (graphql_api/governance.py, redis_cache.py).
THEOREM CacheIsSound ==
  ASSUME Cache!CacheAssumption
  PROVE  Cache!Spec => [](/\ Cache!TypeOK /\ Cache!ServedRightly
                          /\ Cache!DigestMeansQuery /\ Cache!KeptRightly)
<1>1. Cache!Init => CacheSound
  BY CacheInit
<1>2. CacheSound /\ [Cache!Next]_(Cache!vars) => CacheSound'
  BY CacheNext
<1>3. CacheSound => /\ Cache!TypeOK /\ Cache!ServedRightly
                    /\ Cache!DigestMeansQuery /\ Cache!KeptRightly
  BY CacheMeans
<1> QED BY <1>1, <1>2, <1>3, PTL DEF Cache!Spec

-----------------------------------------------------------------------------
(* The gate of a source (PublishGate).                                      *)

CONSTANTS Payloads, FirstPayloads, NoPayload

VARIABLES judged, lax, hour, shown, told

Gate == INSTANCE PublishGate WITH
  source <- judged, early <- lax, now <- hour, served <- shown, outcome <- told

\* What is published passed the gate under its policy and at its time, or is of an issue
\* that was the latest before.
ShownPassed ==
  /\ hour \in Nat /\ shown.at \in Nat /\ shown.at <= hour
  /\ shown.payload # NoPayload =>
       /\ shown.payload.source = judged
       /\ Gate!ContractOk(shown.payload, shown.early)
       /\ \/ Gate!SemanticsOk(shown.payload, shown.early, shown.at)
          \/ Gate!OlderIssue(shown.payload)

\* Only the validator of the Firestone archetypes reads the clock.
LEMMA ClockMatters ==
  ASSUME NEW p, NEW e, NEW n, NEW m, p.source # "firestone_standard" \/ n = m
  PROVE  Gate!SemanticsOk(p, e, n) <=> Gate!SemanticsOk(p, e, m)
<1>1. CASE n = m
  BY <1>1
<1>2. CASE p.source # "firestone_standard"
  BY <1>2, SMTT(30) DEF Gate!SemanticsOk
<1> QED BY <1>1, <1>2

LEMMA ShownInit ==
  ASSUME Gate!GateAssumption, Gate!GateInit
  PROVE  ShownPassed
<1>1. CASE shown = Gate!NothingServed
  BY <1>1 DEF Gate!GateInit, Gate!NothingServed, ShownPassed
<1>2. CASE \E p \in FirstPayloads :
             p.source = judged /\ shown = [payload |-> p, early |-> FALSE, at |-> 0]
  <2>1. PICK p \in FirstPayloads :
          p.source = judged /\ shown = [payload |-> p, early |-> FALSE, at |-> 0]
    BY <1>2
  <2> DEFINE e == FALSE
  <2>2. Gate!ContractOk(p, e) /\ (Gate!SemanticsOk(p, e, 0) \/ Gate!OlderIssue(p))
    BY DEF Gate!GateAssumption
  <2>3. shown.payload = p /\ shown.early = e /\ shown.at = 0 /\ hour = 0
    BY <2>1 DEF Gate!GateInit
  <2> HIDE DEF e
  <2>4. /\ Gate!ContractOk(shown.payload, shown.early)
        /\ \/ Gate!SemanticsOk(shown.payload, shown.early, shown.at)
           \/ Gate!OlderIssue(shown.payload)
    BY <2>2, <2>3, Zenon
  <2>5. shown.payload.source = judged
    BY <2>1
  <2> QED BY <2>3, <2>4, <2>5 DEF ShownPassed
<1> QED BY <1>1, <1>2 DEF Gate!GateInit

LEMMA ShownNext ==
  ASSUME ShownPassed, [Gate!GateNext]_(Gate!gateVars)
  PROVE  ShownPassed'
<1>1. CASE shown' = shown /\ judged' = judged /\ hour' \in {hour, hour + 1}
  BY <1>1 DEF ShownPassed, Gate!OlderIssue
<1>2. ASSUME NEW p \in Payloads, Gate!Refresh(p), Gate!CandidateOk(p)
      PROVE  ShownPassed'
  <2>1. /\ p.source = judged /\ judged' = judged /\ hour' = hour
        /\ shown' = [payload |-> p, early |-> lax, at |-> hour]
    BY <1>2 DEF Gate!Refresh
  <2>2. Gate!ContractOk(p, lax) /\ Gate!SemanticsOk(p, lax, hour)
    BY <1>2 DEF Gate!CandidateOk, Gate!Passes
  <2> QED BY <2>1, <2>2 DEF ShownPassed
<1>3. ASSUME NEW p \in Payloads, Gate!Refresh(p), ~Gate!CandidateOk(p)
      PROVE  ShownPassed'
  BY <1>1, <1>3 DEF Gate!Refresh, Gate!Preserve
<1>4. CASE Gate!FetchFails \/ Gate!SwitchPolicy \/ Gate!Tick \/ UNCHANGED Gate!gateVars
  BY <1>1, <1>4 DEF Gate!FetchFails, Gate!Preserve, Gate!SwitchPolicy, Gate!Tick, Gate!gateVars
<1> QED BY <1>2, <1>3, <1>4 DEF Gate!GateNext

\* What is published is served on while its policy is the one it was published under.
LEMMA ShownServesStill ==
  ASSUME ShownPassed, shown.payload # NoPayload, shown.early = lax,
         judged # "firestone_standard" \/ ~(hour > shown.at)
  PROVE  Gate!ServesStill(shown.payload)
<1>1. shown.payload.source # "firestone_standard" \/ shown.at = hour
  BY DEF ShownPassed
<1>2. Gate!SemanticsOk(shown.payload, lax, shown.at) <=> Gate!SemanticsOk(shown.payload, lax, hour)
  BY <1>1, ClockMatters
<1> QED BY <1>2 DEF ShownPassed, Gate!ServesStill, Gate!Passes, Gate!TemporalLKG

\* A refresh that fails takes what is published out of service only when the policy is
\* another one than it was published under, or its upstream snapshot has grown old,
\* whatever payloads come (validate_existing_publication_for_serving,
\* _preserve_cached_ok_status).
THEOREM ServiceIsKept ==
  ASSUME Gate!GateAssumption
  PROVE  Gate!GateSpec => [][Gate!ServiceIsKeptStep]_(Gate!gateVars)
<1>1. Gate!GateInit => ShownPassed
  BY ShownInit
<1>2. ShownPassed /\ [Gate!GateNext]_(Gate!gateVars) => ShownPassed'
  BY ShownNext
<1>3. ShownPassed /\ [Gate!GateNext]_(Gate!gateVars) => [Gate!ServiceIsKeptStep]_(Gate!gateVars)
  <2> SUFFICES ASSUME ShownPassed, Gate!GateNext, told' # told, told'.state = "failed",
                      shown.payload # NoPayload,
                      ~(shown.early # lax),
                      ~(judged = "firestone_standard" /\ hour > shown.at)
               PROVE  FALSE
    BY DEF Gate!ServiceIsKeptStep
  <2>1. Gate!ServesStill(shown.payload)
    BY ShownServesStill
  <2>2. ~Gate!Preserve
    BY <2>1 DEF Gate!Preserve
  <2>3. ASSUME NEW p \in Payloads, Gate!Refresh(p)
        PROVE  FALSE
    <3>1. told' = [state |-> "ok", at |-> hour]
      BY <2>2, <2>3 DEF Gate!Refresh
    <3> QED BY <3>1
  <2> QED BY <2>2, <2>3 DEF Gate!GateNext, Gate!FetchFails, Gate!SwitchPolicy, Gate!Tick
<1> QED BY <1>1, <1>2, <1>3, PTL DEF Gate!GateSpec
=============================================================================
