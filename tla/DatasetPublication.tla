------------------------- MODULE DatasetPublication -------------------------
(***************************************************************************)
(* The protected publication channel of app/dataset_publication_store.py:  *)
(* a control file that numbers attempts, immutable version records, a      *)
(* manifest whose head is the dataset that is served, and the two mutable  *)
(* compatibility files (dataset cache and status) behind it.  Refreshes    *)
(* (app/fetcher.py), administrator rollbacks and the start-up repair       *)
(* (app/main.py) run in different processes and share one flock.           *)
(*                                                                         *)
(* Every durable write is a step of its own, so a process may die between  *)
(* any two of them.  Abstracted: file contents, hashes and timestamps are  *)
(* a version with a fetch time; the semantic validators and the regression *)
(* gate are a free choice of the verdict; candidate.json is the version    *)
(* its writer holds (it is written and read inside one transaction).       *)
(***************************************************************************)
EXTENDS Integers, Sequences, FiniteSets

CONSTANTS
  Versions,        \* dataset versions (content hashes)
  NoVersion,       \* no version recorded
  FetchedAt,       \* fetched_at of each version
  Ahead,           \* versions a clock that is set back may find in the future
  Writers,         \* processes that may run an operation of the channel
  Nobody,          \* nobody holds the publication lock
  Roles,           \* operations the writers perform
  Retention,       \* versions kept in the manifest
  MaxGeneration,   \* bound: attempts that are numbered
  MaxCrashes,      \* bound: processes that die
  MaxFaults        \* bound: damaged or lost files, failed writes

ASSUME VersionAssumption ==
  /\ NoVersion \notin Versions
  /\ FetchedAt \in [Versions -> Nat]
  /\ Ahead \subseteq Versions

ASSUME WriterAssumption ==
  /\ Nobody \notin Writers
  /\ Roles \subseteq {"refresh", "rollback", "bootstrap"}

\* _configured_publication_retention clamps the setting to 2..20.
ASSUME BoundAssumption ==
  /\ Retention \in 2 .. 20
  /\ MaxGeneration \in Nat
  /\ MaxCrashes \in Nat
  /\ MaxFaults \in Nat

VARIABLES
  stateFile,       \* attempt-state.json: readable, missing or corrupt
  lastGeneration,  \* its last_generation
  clock,           \* time.time_ns(): ahead of every number handed out
  files,           \* versions/<hash>.json
  manifestFile,    \* published.json: readable, missing or corrupt
  history,         \* its versions, the served one first
  cache,           \* datasets/<source>.json, the mutable copy
  status,          \* statuses/<source>.json
  lock,            \* holder of .publication.lock
  pc, role, gen, ver, base, outcome,  \* progress of each writer
  crashes, faults

attemptVars == <<stateFile, lastGeneration, clock>>
manifestVars == <<manifestFile, history>>
syncVars == <<cache, status>>
localVars == <<role, gen, ver, base, outcome>>
boundVars == <<crashes, faults>>
vars == <<attemptVars, files, manifestVars, syncVars, lock, pc, localVars,
          boundVars>>

-----------------------------------------------------------------------------
FileStates == {"absent", "valid", "damaged"}
Steps == {"idle", "chosen", "fetching", "accepted", "versioned", "rollback",
          "committed", "reconciling", "cached", "uncached"}

\* Manifests hold distinct versions, at most Retention of them.
Histories ==
  {h \in UNION {[1 .. n -> Versions] : n \in 1 .. Retention} :
     \A i, j \in DOMAIN h : h[i] = h[j] => i = j}

MaxOf(a, b) == IF a >= b THEN a ELSE b

Entries(h) == {h[i] : i \in DOMAIN h}

Precedes(h, a, b) ==
  \E i, j \in DOMAIN h : i < j /\ h[i] = a /\ h[j] = b

Readable(v) == files[v] = "valid"

Current == history[1]

Serves(v) == manifestFile = "ok" /\ history # <<>> /\ Current = v

\* _manifest_and_current_record returns instead of raising.
CurrentReadable == manifestFile = "ok" /\ Readable(Current)

\* _discover_valid_versions: every readable record, freshest first (records
\* fetched at the same time in any order).
DiscoveredOrders ==
  LET found == {v \in Versions : Readable(v)}
  IN  {h \in UNION {[1 .. n -> found] : n \in {Cardinality(found)}} :
         \A i, j \in DOMAIN h :
            i < j => h[i] # h[j] /\ FetchedAt[h[i]] >= FetchedAt[h[j]]}

Freshest(S) == {v \in S : \A u \in S : FetchedAt[v] >= FetchedAt[u]}

-----------------------------------------------------------------------------
TypeOK ==
  /\ stateFile \in {"ok", "missing", "corrupt"}
  /\ lastGeneration \in Nat
  /\ clock \in Nat
  /\ files \in [Versions -> FileStates]
  /\ manifestFile \in {"ok", "missing", "corrupt"}
  /\ history \in Histories \union IF manifestFile = "ok" THEN {} ELSE {<<>>}
  /\ cache \in Versions \union {NoVersion}
  /\ status \in [gen : Nat, version : Versions \union {NoVersion},
                 state : {"none", "fresh", "cached", "failed"}]
  /\ lock \in Writers \union {Nobody}
  /\ pc \in [Writers -> Steps]
  /\ role \in [Writers -> {"refresh", "rollback", "bootstrap"}]
  /\ gen \in [Writers -> Nat]
  /\ ver \in [Writers -> Versions \union {NoVersion}]
  /\ base \in [Writers -> Versions \union {NoVersion}]
  /\ outcome \in [Writers -> {"ok", "failed"}]
  /\ crashes \in 0 .. MaxCrashes
  /\ faults \in 0 .. MaxFaults

\* First deployment: no channel yet, possibly a legacy mutable dataset.
Init ==
  /\ stateFile = "missing"
  /\ lastGeneration = 0
  /\ clock = 0
  /\ files = [v \in Versions |-> "absent"]
  /\ manifestFile = "missing"
  /\ history = <<>>
  /\ cache \in Versions \union {NoVersion}
  /\ status = [gen |-> 0, version |-> NoVersion, state |-> "none"]
  /\ lock = Nobody
  /\ pc = [w \in Writers |-> "idle"]
  /\ role = [w \in Writers |-> "refresh"]
  /\ gen = [w \in Writers |-> 0]
  /\ ver = [w \in Writers |-> NoVersion]
  /\ base = [w \in Writers |-> NoVersion]
  /\ outcome = [w \in Writers |-> "ok"]
  /\ crashes = 0
  /\ faults = 0

-----------------------------------------------------------------------------
\* begin_publication_attempt: number an attempt durably.  A lost or corrupt
\* control file is replaced by a number taken from the clock, unless nothing
\* at all was ever recorded.
LastKnown == MaxOf(IF stateFile = "ok" THEN lastGeneration ELSE 0, status.gen)

MustSkipAhead ==
  /\ stateFile # "ok"
  /\ stateFile = "corrupt" \/ LastKnown > 0 \/ manifestFile # "missing"

NextGeneration ==
  (IF MustSkipAhead THEN MaxOf(LastKnown, clock) ELSE LastKnown) + 1

Allocate(w) ==
  /\ NextGeneration <= MaxGeneration
  /\ stateFile' = "ok"
  /\ lastGeneration' = NextGeneration
  /\ clock' = clock + 1
  /\ gen' = [gen EXCEPT ![w] = NextGeneration]

\* A refresh or an upload numbers its attempt before it fetches version v.
BeginRefresh(w, v) ==
  /\ "refresh" \in Roles
  /\ pc[w] = "idle"
  /\ lock = Nobody
  /\ Allocate(w)
  /\ pc' = [pc EXCEPT ![w] = "fetching"]
  /\ role' = [role EXCEPT ![w] = "refresh"]
  /\ ver' = [ver EXCEPT ![w] = v]
  /\ UNCHANGED <<files, manifestVars, syncVars, lock, base, outcome,
                 boundVars>>

\* The fetch itself fails: the failure is recorded by a reconciliation.
FetchFails(w) ==
  /\ pc[w] = "fetching"
  /\ role[w] = "refresh"
  /\ pc' = [pc EXCEPT ![w] = "reconciling"]
  /\ outcome' = [outcome EXCEPT ![w] = "failed"]
  /\ UNCHANGED <<attemptVars, files, manifestVars, syncVars, lock, role, gen,
                 ver, base, boundVars>>

\* bootstrap_standard_cards_publication up to its choice: the publication
\* cannot be read, or it has expired and something newer is at hand, or it
\* lies in the future.  It reads outside the transaction that publishes; which
\* candidates pass the full validation ("good") is free.  A manifest that is
\* intact but names a damaged record is left to an administrator.
ChooseRecovery(w) ==
  /\ "bootstrap" \in Roles
  /\ pc[w] = "idle"
  /\ lock = Nobody
  /\ manifestFile = "ok" => CurrentReadable
  /\ \E good \in SUBSET ({v \in Versions : Readable(v)}
                         \union ({cache} \ {NoVersion})) :
       \E v \in Freshest(good) :
         LET older == Freshest({u \in good : FetchedAt[u] < FetchedAt[v]})
         IN  /\ CurrentReadable =>
                  FetchedAt[v] > FetchedAt[Current] \/ Current \in Ahead
             /\ ver' = [ver EXCEPT ![w] = v]
             /\ \E u \in IF older = {} THEN {NoVersion} ELSE older :
                  base' = [base EXCEPT ![w] = u]
  /\ pc' = [pc EXCEPT ![w] = "chosen"]
  /\ role' = [role EXCEPT ![w] = "bootstrap"]
  /\ UNCHANGED <<attemptVars, files, manifestVars, syncVars, lock, gen,
                 outcome, boundVars>>

BeginRecovery(w) ==
  /\ pc[w] = "chosen"
  /\ lock = Nobody
  /\ Allocate(w)
  /\ pc' = [pc EXCEPT ![w] = "fetching"]
  /\ UNCHANGED <<files, manifestVars, syncVars, lock, role, ver, base,
                 outcome, boundVars>>

-----------------------------------------------------------------------------
\* The snapshot a candidate is compared with: the served one, else the
\* freshest record that can be read; the start-up repair brings its own.
Baselines(w) ==
  IF role[w] = "bootstrap" THEN {base[w]} \ {NoVersion}
  ELSE IF CurrentReadable THEN {Current}
  ELSE Freshest({v \in Versions : Readable(v)})

\* The same snapshot may repair a manifest that is missing or corrupt.
ExactRepair(w, previous) ==
  /\ role[w] # "bootstrap"
  /\ manifestFile # "ok"
  /\ previous = ver[w]

\* Mutant: an equally old snapshot counts as newer.
ObsoleteOnlyIfOlder(w, previous) ==
  /\ FetchedAt[ver[w]] < FetchedAt[previous]
  /\ ~ExactRepair(w, previous)

Obsolete(w, previous) ==
  /\ FetchedAt[ver[w]] <= FetchedAt[previous]
  /\ ~ExactRepair(w, previous)

\* Mutant: the control file is read but the number is not compared.
NewestAttemptUnchecked(w) == stateFile = "ok"

\* promote_candidate: this attempt is the newest one that was numbered.
NewestAttempt(w) == stateFile = "ok" /\ gen[w] = lastGeneration

CanPublish(w) ==
  /\ \A previous \in Baselines(w) : ~Obsolete(w, previous)
  /\ NewestAttempt(w)
  /\ files[ver[w]] # "damaged"

\* The candidate passes every gate; the transaction stays open.
AcceptCandidate(w) ==
  /\ pc[w] = "fetching"
  /\ lock = Nobody
  /\ CanPublish(w)
  /\ lock' = w
  /\ pc' = [pc EXCEPT ![w] = "accepted"]
  /\ UNCHANGED <<attemptVars, files, manifestVars, syncVars, localVars,
                 boundVars>>

\* Mutant: nobody reconciles after a publication.
AfterDecisionNothing(w) == "idle"

\* A refresh reconciles whatever was decided; the start-up repair only logs.
AfterDecision(w) == IF role[w] = "bootstrap" THEN "idle" ELSE "reconciling"

\* A gate rejects it, a newer attempt superseded it or its record is damaged.
RejectCandidate(w) ==
  /\ pc[w] = "fetching"
  /\ lock = Nobody
  /\ pc' = [pc EXCEPT ![w] = AfterDecision(w)]
  /\ outcome' = [outcome EXCEPT ![w] = "failed"]
  /\ UNCHANGED <<attemptVars, files, manifestVars, syncVars, lock, role, gen,
                 ver, base, boundVars>>

\* The immutable record is durable before any manifest names it.
WriteVersion(w) ==
  /\ pc[w] = "accepted"
  /\ files' = [files EXCEPT ![ver[w]] = "valid"]
  /\ pc' = [pc EXCEPT ![w] = "versioned"]
  /\ UNCHANGED <<attemptVars, manifestVars, syncVars, lock, localVars,
                 boundVars>>

\* The administrator's rollback: one transaction that numbers an attempt,
\* picks a retained readable version and commits it.
BeginRollback(w) ==
  /\ "rollback" \in Roles
  /\ pc[w] = "idle"
  /\ lock = Nobody
  /\ manifestFile = "ok"
  /\ Allocate(w)
  /\ \E v \in Entries(history) \ {Current} :
       /\ Readable(v)
       /\ ver' = [ver EXCEPT ![w] = v]
  /\ lock' = w
  /\ pc' = [pc EXCEPT ![w] = "rollback"]
  /\ role' = [role EXCEPT ![w] = "rollback"]
  /\ UNCHANGED <<files, manifestVars, syncVars, base, outcome, boundVars>>

\* A refused rollback has consumed a number all the same.
RefuseRollback(w) ==
  /\ "rollback" \in Roles
  /\ pc[w] = "idle"
  /\ lock = Nobody
  /\ Allocate(w)
  /\ UNCHANGED <<files, manifestVars, syncVars, lock, pc, role, ver, base,
                 outcome, boundVars>>

\* Mutant: the oldest entries are retained instead of the newest.
IsHistoryKeepingOldest(h, cur, older) ==
  LET kept == {v \in Entries(older) : Readable(v)} \ {cur}
  IN  /\ h[1] = cur
      /\ Entries(h) \subseteq kept \union {cur}
      /\ \A i, j \in 2 .. Len(h) : i < j => Precedes(older, h[i], h[j])
      /\ \A v \in kept \ Entries(h) :
           /\ Len(h) = Retention
           /\ \A i \in 2 .. Len(h) : Precedes(older, v, h[i])

\* h serves cur and keeps, in their order, the readable entries of older as
\* far as the retention allows.
IsHistory(h, cur, older) ==
  LET kept == {v \in Entries(older) : Readable(v)} \ {cur}
  IN  /\ h[1] = cur
      /\ Entries(h) \subseteq kept \union {cur}
      /\ \A i, j \in 2 .. Len(h) : i < j => Precedes(older, h[i], h[j])
      /\ \A v \in kept \ Entries(h) :
           /\ Len(h) = Retention
           /\ \A i \in 2 .. Len(h) : Precedes(older, h[i], v)

\* What the new manifest is built from: the old one, or every record found
\* on disk when it cannot be used.
Sources(w) ==
  IF role[w] = "rollback" \/ CurrentReadable THEN {history}
  ELSE DiscoveredOrders

\* _write_manifest replaces published.json: the commit point.
CommitManifest(w) ==
  /\ pc[w] \in {"versioned", "rollback"}
  /\ \E h \in Histories, older \in Sources(w) :
       IsHistory(h, ver[w], older) /\ history' = h
  /\ manifestFile' = "ok"
  /\ pc' = [pc EXCEPT ![w] = "committed"]
  /\ UNCHANGED <<attemptVars, files, syncVars, lock, localVars, boundVars>>

\* Mutant: every record but the served one may be unlinked.
UnlinkableButCurrent == Versions \ {Current}

Unlinkable == Versions \ Entries(history)

\* ... and unlinks the records it no longer names, as far as that succeeds.
\* A rollback keeps the lock for its reconciliation.
PruneVersions(w) ==
  /\ pc[w] = "committed"
  /\ \E gone \in SUBSET Unlinkable :
       files' = [v \in Versions |-> IF v \in gone THEN "absent"
                                    ELSE files[v]]
  /\ lock' = IF role[w] = "rollback" THEN w ELSE Nobody
  /\ pc' = [pc EXCEPT ![w] = AfterDecision(w)]
  /\ outcome' = [outcome EXCEPT ![w] = "ok"]
  /\ UNCHANGED <<attemptVars, manifestVars, syncVars, role, gen, ver, base,
                 boundVars>>

-----------------------------------------------------------------------------
\* Mutant: a publisher copies what it published, not what is served.
SaveOwnCandidate(w) ==
  /\ pc[w] = "reconciling"
  /\ lock \in {Nobody, w}
  /\ CurrentReadable
  /\ lock' = w
  /\ cache' = IF outcome[w] = "ok" THEN ver[w] ELSE Current
  /\ pc' = [pc EXCEPT ![w] = "cached"]
  /\ UNCHANGED <<attemptVars, files, manifestVars, status, localVars,
                 boundVars>>

\* reconcile_current_publication: copy the served dataset to the cache, then
\* write the status.  Either write may fail.
SaveCache(w) ==
  /\ pc[w] = "reconciling"
  /\ lock \in {Nobody, w}
  /\ CurrentReadable
  /\ lock' = w
  /\ cache' = Current
  /\ pc' = [pc EXCEPT ![w] = "cached"]
  /\ UNCHANGED <<attemptVars, files, manifestVars, status, localVars,
                 boundVars>>

SaveCacheFails(w) ==
  /\ pc[w] = "reconciling"
  /\ lock \in {Nobody, w}
  /\ CurrentReadable
  /\ faults < MaxFaults
  /\ faults' = faults + 1
  /\ lock' = w
  /\ pc' = [pc EXCEPT ![w] = "uncached"]
  /\ UNCHANGED <<attemptVars, files, manifestVars, syncVars, localVars,
                 crashes>>

\* Mutant: the generation of the existing status is not considered.
KnownGenerationOfControlFile(w) ==
  IF stateFile = "ok" THEN lastGeneration ELSE gen[w]

\* The newest generation the status may speak for.
KnownGeneration(w) ==
  MaxOf(status.gen, IF stateFile = "ok" THEN lastGeneration ELSE gen[w])

Superseded(w) ==
  \/ outcome[w] = "ok" /\ ver[w] # Current
  \/ gen[w] < KnownGeneration(w)

\* The status of a newer attempt that already describes the served dataset.
KeepsWinner(w) == Superseded(w) /\ status.version = Current

ReconciledStatus(w, synced) ==
  [gen     |-> IF KeepsWinner(w) THEN status.gen
               ELSE IF Superseded(w) THEN MaxOf(gen[w], KnownGeneration(w))
               ELSE gen[w],
   version |-> Current,
   state   |-> IF ~synced THEN "cached"
               ELSE IF KeepsWinner(w) THEN status.state
               ELSE IF Superseded(w) \/ outcome[w] = "ok" THEN "fresh"
               ELSE "cached"]

\* Mutant: the transaction is not closed after the status.
SaveStatusInTransaction(w) ==
  /\ pc[w] \in {"cached", "uncached"}
  /\ manifestFile = "ok"
  /\ status' = ReconciledStatus(w, pc[w] = "cached")
  /\ pc' = [pc EXCEPT ![w] = "idle"]
  /\ UNCHANGED <<attemptVars, files, manifestVars, cache, lock, localVars,
                 boundVars>>

SaveStatus(w) ==
  /\ pc[w] \in {"cached", "uncached"}
  /\ manifestFile = "ok"
  /\ status' = ReconciledStatus(w, pc[w] = "cached")
  /\ lock' = Nobody
  /\ pc' = [pc EXCEPT ![w] = "idle"]
  /\ UNCHANGED <<attemptVars, files, manifestVars, cache, localVars,
                 boundVars>>

SaveStatusFails(w) ==
  /\ pc[w] \in {"cached", "uncached"}
  /\ faults < MaxFaults
  /\ faults' = faults + 1
  /\ lock' = Nobody
  /\ pc' = [pc EXCEPT ![w] = "idle"]
  /\ UNCHANGED <<attemptVars, files, manifestVars, syncVars, localVars,
                 crashes>>

\* Nothing can be served.  A success is left as it is; a failure is written
\* as a cold status unless a newer attempt owns it
\* (record_status_without_publication).
RecordColdStatus(w) ==
  /\ pc[w] = "reconciling"
  /\ lock \in {Nobody, w}
  /\ ~CurrentReadable
  /\ status' = IF outcome[w] = "ok" \/ gen[w] < KnownGeneration(w)
               THEN status
               ELSE [gen |-> gen[w], version |-> NoVersion,
                     state |-> "failed"]
  /\ lock' = Nobody
  /\ pc' = [pc EXCEPT ![w] = "idle"]
  /\ UNCHANGED <<attemptVars, files, manifestVars, cache, localVars,
                 boundVars>>

-----------------------------------------------------------------------------
\* A process dies: the kernel releases its flock, the files stay.
Crash(w) ==
  /\ pc[w] # "idle"
  /\ crashes < MaxCrashes
  /\ crashes' = crashes + 1
  /\ pc' = [pc EXCEPT ![w] = "idle"]
  /\ lock' = IF lock = w THEN Nobody ELSE lock
  /\ UNCHANGED <<attemptVars, files, manifestVars, syncVars, localVars,
                 faults>>

\* Files are damaged or lost outside the program, between transactions.
Fault ==
  /\ lock = Nobody
  /\ faults < MaxFaults
  /\ faults' = faults + 1
  /\ \/ /\ stateFile = "ok"
        /\ stateFile' \in {"missing", "corrupt"}
        /\ UNCHANGED <<manifestFile, files>>
     \/ /\ manifestFile = "ok"
        /\ manifestFile' \in {"missing", "corrupt"}
        /\ UNCHANGED <<stateFile, files>>
     \/ /\ \E v \in Versions : /\ Readable(v)
                               /\ files' = [files EXCEPT ![v] = "damaged"]
        /\ UNCHANGED <<stateFile, manifestFile>>
  /\ UNCHANGED <<lastGeneration, clock, history, syncVars, lock, pc,
                 localVars, crashes>>

\* Steps that wait for the publication lock, and steps of its holder.
Acquire(w) ==
  \/ BeginRecovery(w) \/ AcceptCandidate(w) \/ RejectCandidate(w)
  \/ SaveCache(w) \/ RecordColdStatus(w)

Proceed(w) ==
  \/ WriteVersion(w) \/ CommitManifest(w) \/ PruneVersions(w)
  \/ SaveStatus(w)

Start(w) ==
  \/ \E v \in Versions : BeginRefresh(w, v)
  \/ ChooseRecovery(w)
  \/ BeginRollback(w)
  \/ RefuseRollback(w)

Next ==
  \/ \E w \in Writers :
       \/ Start(w)
       \/ Acquire(w)
       \/ Proceed(w)
       \/ FetchFails(w)
       \/ SaveCacheFails(w)
       \/ SaveStatusFails(w)
       \/ Crash(w)
  \/ Fault

Spec == Init /\ [][Next]_vars

\* The holder of the lock runs on; flock wakes its waiters in turn, and every
\* fetch has a timeout, so a waiting attempt is not passed over forever.
Fairness ==
  \A w \in Writers : /\ WF_vars(Proceed(w))
                     /\ SF_vars(Acquire(w))

FairSpec == Spec /\ Fairness

-----------------------------------------------------------------------------
Commits(w) == pc[w] \in {"versioned", "rollback"} /\ pc'[w] = "committed"

\* A process that dies at any point of a publication leaves no manifest that
\* names a record which is not on disk: records are written before the
\* manifest names them and unlinked after it stopped naming them.
ManifestBacked ==
  manifestFile = "ok" =>
    \A i \in DOMAIN history : files[history[i]] # "absent"

\* As long as no file was lost, whoever replaces the manifest started last:
\* a refresh that was under way when an administrator rolled back (or when a
\* newer refresh began) can never undo it.
NewestAttemptPublishes ==
  [][\A w \in Writers :
       Commits(w) /\ faults = 0 => \A u \in Writers \ {w} : gen[u] < gen[w]]_vars

\* A refresh replaces a snapshot that can be read only by a newer one, also
\* when other processes publish between its fetch and its commit.
PublishesForward ==
  [][\A w \in Writers :
       Commits(w) /\ role[w] = "refresh" /\ CurrentReadable
         => FetchedAt[ver[w]] > FetchedAt[Current]]_vars

\* Whatever is published, the snapshot it replaces stays in the manifest and
\* on disk, so that the administrator can go back to it.
RollbackStaysPossible ==
  [][\A w \in Writers :
       Commits(w) /\ CurrentReadable
         => \E i \in DOMAIN history' :
              history'[i] = Current /\ files'[Current] = "valid"]_vars

\* The status never goes back to an older attempt, however late an attempt
\* reports and whatever became of the control file.
StatusGenerationMonotone == [][status'.gen >= status.gen]_vars

\* When refreshes and rollbacks that met no crash and no failed write have
\* all ended, the mutable copies describe the served dataset, in whatever
\* order the reconciliations ran.
Settled ==
  (\A w \in Writers : pc[w] = "idle") /\ crashes = 0 /\ faults = 0
    /\ manifestFile = "ok"
    => cache = Current /\ status.version = Current

\* Every attempt that was numbered ends: nobody waits for the lock forever.
AttemptEnds ==
  \A w \in Writers : pc[w] \notin {"idle", "chosen"} ~> pc[w] = "idle"

\* Unless processes die or writes fail, what is published reaches the cache.
PublicationReachesCache ==
  \A v \in Versions :
    Serves(v) ~> cache = v \/ ~Serves(v) \/ crashes > 0 \/ faults > 0

\* "never replaces an already healthy published LKG": the start-up repair
\* does not put an older snapshot in the place of a publication that can be
\* read and does not lie in the future.
BootstrapKeepsHealthy ==
  [][\A w \in Writers :
       Commits(w) /\ role[w] = "bootstrap" /\ CurrentReadable
         /\ Current \notin Ahead
         => FetchedAt[ver[w]] >= FetchedAt[Current]]_vars

-----------------------------------------------------------------------------
\* The strengthening that makes the safety properties inductive.

Held == {"accepted", "versioned", "rollback", "committed", "cached",
         "uncached"}

\* A writer inside a transaction holds the lock.
LockInv == \A w \in Writers : pc[w] \in Held => lock = w

\* What a publishing writer established under the lock still holds.
Prepared(w) ==
  /\ pc[w] \in {"chosen", "fetching", "accepted", "versioned", "rollback"}
       => ver[w] \in Versions
  /\ pc[w] \in {"fetching", "accepted", "versioned", "rollback"} => gen[w] > 0
  /\ pc[w] \in {"accepted", "versioned", "rollback"}
       => stateFile = "ok" /\ gen[w] = lastGeneration
  /\ pc[w] = "accepted" => files[ver[w]] # "damaged"
  /\ pc[w] \in {"versioned", "rollback"} => Readable(ver[w])
  /\ pc[w] = "rollback" => role[w] = "rollback"
  /\ pc[w] \in {"accepted", "versioned"} /\ role[w] = "refresh"
       /\ CurrentReadable
       => FetchedAt[ver[w]] > FetchedAt[Current]

PublishInv == \A w \in Writers : Prepared(w)

\* Without a lost file, numbers are handed out once and in order.
NumberInv ==
  faults = 0 =>
    /\ stateFile \in {"ok", "missing"}
    /\ stateFile = "missing" => lastGeneration = 0
    /\ \A w \in Writers : gen[w] <= lastGeneration
    /\ \A u, w \in Writers : u # w /\ gen[w] > 0 => gen[u] # gen[w]

\* Where the start-up repair does not run and nothing was lost: a served
\* dataset is readable, and its copies describe it unless a writer that is
\* past its decision still has to reconcile them.
WillReconcile(w) == pc[w] \in {"committed", "reconciling", "cached"}

CopiesFollow ==
  manifestFile = "ok" =>
    \/ \E w \in Writers : WillReconcile(w)
    \/ cache = Current /\ status.version = Current

NothingLost ==
  /\ \A v \in Versions : files[v] # "damaged"
  /\ \A w \in Writers :
       /\ pc[w] # "uncached"
       /\ pc[w] = "cached" => manifestFile = "ok" /\ cache = Current

SettleInv ==
  /\ \A w \in Writers : role[w] # "bootstrap"
  /\ crashes = 0 /\ faults = 0 => NothingLost /\ CopiesFollow

Inv == LockInv /\ PublishInv /\ NumberInv /\ ManifestBacked

-----------------------------------------------------------------------------
\* What a reader and an administrator see of the channel.

\* read_published: the head of the manifest, if its record can be read.
ServedVersion == IF CurrentReadable THEN Current ELSE NoVersion

\* rollback_target_version: the retained versions that can be read.
Retained ==
  IF manifestFile = "ok"
  THEN {v \in Entries(history) : Readable(v)} \ {Current}
  ELSE {}

Channel == INSTANCE PublishedDataset
             WITH served <- ServedVersion, kept <- Retained, copy <- cache,
                  losses <- faults, Repairs <- "bootstrap" \in Roles

\* The channel is one served dataset that only a newer refresh, a rollback to
\* a retained version or the start-up repair replaces, and that keeps what it
\* replaced: no crash, lost file or interleaving of its writes shows a reader
\* or an administrator anything else.
ImplementsPublished == Channel!Spec

\* How far a writer is tells what it may commit.
Committing(w) ==
  /\ pc[w] \in {"chosen", "fetching", "accepted", "versioned"} =>
       role[w] = "refresh" \/ (role[w] = "bootstrap" /\ "bootstrap" \in Roles)
  /\ pc[w] = "chosen" => role[w] = "bootstrap"
  /\ pc[w] = "rollback" =>
       /\ role[w] = "rollback"
       /\ manifestFile = "ok"
       /\ ver[w] \in Entries(history) \ {Current}

CommitInv == \A w \in Writers : Committing(w)
=============================================================================
