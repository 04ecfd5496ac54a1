--------------------------- MODULE ParserRunQueue ---------------------------
(***************************************************************************)
(* The durable queue of parser runs (app/parser_control.py), its one       *)
(* worker thread, and the orchestrator's clients that enqueue a run by     *)
(* request id and poll it (orchestration/triggerdev).                      *)
(*                                                                         *)
(* Every operation of ParserControlStore reads, changes and replaces       *)
(* parser-control.json under one flock, so it is one step.  Runs are       *)
(* numbered in the order they are appended, which is the order of          *)
(* createdAt; the file keeps the last MaxRecent of them.  A result is the  *)
(* class of its terminal outcome: a served last-known-good dataset and a   *)
(* partial one are both "cached".                                          *)
(***************************************************************************)
EXTENDS Integers, FiniteSets, FiniteSetsExt

CONSTANTS
  Sources,
  Requests,        \* orchestrator request ids
  NoRequest,       \* the request id of a run an administrator enqueued
  MaxRecent,       \* MAX_RECENT_RUNS
  MaxPending,      \* MAX_PENDING_RUNS
  Observed,        \* bound: outcomes the parsers produce in an instance
  MaxRuns,         \* bound: runs ever created
  MaxFailures      \* bound: processes that die and storage errors together

ASSUME QueueAssumption ==
  /\ NoRequest \notin Requests
  /\ MaxRecent \in Nat \ {0}
  /\ MaxPending \in Nat \ {0}
  /\ 2 * MaxPending <= MaxRecent
  /\ Observed \subseteq {"fresh", "provisional", "cached", "failed"}
  /\ MaxRuns \in Nat
  /\ MaxFailures \in Nat

VARIABLES
  last,            \* runs created so far
  runs,            \* the runs of the file, by number
  ledger,          \* orchestratorRequests: request -> run, 0 if unknown
  up,              \* the API process is alive
  worker,          \* its worker thread
  client,          \* what the task of each request id is doing
  crashes, faults

vars == <<last, runs, ledger, up, worker, client, crashes, faults>>

-----------------------------------------------------------------------------
Outcomes == {"fresh", "provisional", "cached", "failed"}
ActiveStatuses == {"queued", "running"}
RunStatuses == ActiveStatuses \union {"succeeded", "partial", "failed"}
Selections == SUBSET Sources \ {{}}

Results == UNION {[S -> Outcomes] : S \in SUBSET Sources}
Dependencies == UNION {[S -> 1 .. MaxRuns] : S \in SUBSET Sources}

\* src is sourceIds, exec executionSourceIds, deps dependencySourceRuns.
Runs ==
  [status : RunStatuses, src : Selections, exec : SUBSET Sources,
   deps : Dependencies, req : Requests \union {NoRequest}, results : Results]

WorkerStates ==
  [pc : {"down", "idle", "copying", "choosing", "executing"}, run : 0 .. MaxRuns,
   copies : Results, todo : SUBSET Sources, source : SUBSET Sources]

ClientStates ==
  [phase : {"asking", "polling", "fresh", "degraded", "failed", "rejected"},
   want : Selections, run : 0 .. MaxRuns]

\* The last MaxRecent runs of n.
Window(n) == {r \in 1 .. n : r > n - MaxRecent}

TypeOK ==
  /\ last \in 0 .. MaxRuns
  /\ runs \in [Window(last) -> Runs]
  /\ ledger \in [Requests -> 0 .. last]
  /\ up \in BOOLEAN
  /\ worker \in WorkerStates
  /\ client \in [Requests -> ClientStates]
  /\ crashes \in 0 .. MaxFailures
  /\ faults \in 0 .. 2 * MaxFailures

NoResults == [s \in {} |-> "failed"]
Down == [pc |-> "down", run |-> 0, copies |-> NoResults, todo |-> {}, source |-> {}]
Idle == [Down EXCEPT !.pc = "idle"]

Init ==
  /\ last = 0
  /\ runs = [r \in {} |-> 0]
  /\ ledger = [q \in Requests |-> 0]
  /\ up = TRUE
  /\ worker = Idle
  /\ client \in [Requests -> [phase : {"asking"}, want : Selections, run : {0}]]
  /\ crashes = 0
  /\ faults = 0

-----------------------------------------------------------------------------
(* The queue.                                                              *)

IsActive(r) == r \in DOMAIN runs /\ runs[r].status \in ActiveStatuses
Active == {r \in DOMAIN runs : runs[r].status \in ActiveStatuses}

Completed(r) == DOMAIN runs[r].results

\* active_sources: what active runs have still to produce
PendingSources == UNION {runs[r].src \ Completed(r) : r \in Active}

\* active_source_runs: the sources of active runs, each with the first of them
ActiveSources == UNION {runs[r].src : r \in Active}
FirstRun(s) == Min({r \in Active : s \in runs[r].src})

QueueHasRoom == Cardinality(Active) < MaxPending

\* Mutant: a restarted service leaves interrupted runs as they are.
NothingRecovered(rs) == rs

\* recover_interrupted_runs
Recovered(rs) ==
  [r \in DOMAIN rs |->
    IF rs[r].status = "running" THEN [rs[r] EXCEPT !.status = "queued"] ELSE rs[r]]

\* An enqueued run starts the worker thread if it is not alive.
StartThread(rs) ==
  IF worker.pc = "down"
  THEN runs' = Recovered(rs) /\ worker' = Idle
  ELSE runs' = rs /\ UNCHANGED worker

NewRun(sel, exec, deps, q) ==
  [status |-> "queued", src |-> sel, exec |-> exec, deps |-> deps,
   req |-> q, results |-> NoResults]

\* state["runs"].append(run), then state["runs"][-MAX_RECENT_RUNS:]
Append1(run) ==
  [r \in Window(last + 1) |-> IF r = last + 1 THEN run ELSE runs[r]]

\* An administrator's run takes what no active run has still to produce; a
\* selection that is pending everywhere is answered without a run.
EnqueueManual(sel) ==
  LET uncovered == sel \ PendingSources IN
  /\ up
  /\ IF uncovered = {}
     THEN worker.pc = "down" /\ StartThread(runs) /\ UNCHANGED last
     ELSE /\ QueueHasRoom
          /\ last < MaxRuns
          /\ StartThread(Append1(NewRun(uncovered, uncovered, [s \in {} |-> 0], NoRequest)))
          /\ last' = last + 1
  /\ UNCHANGED <<ledger, up, client, crashes, faults>>

\* Mutant: an answer that reuses an active run is not written to the ledger.
LedgerOfNewRuns(q, r) == IF r = last + 1 THEN [ledger EXCEPT ![q] = r] ELSE ledger

\* _record_orchestrator_request
Recorded(q, r) == [ledger EXCEPT ![q] = r]

\* The one active run that all of the selection belongs to, if it has no other
\* source.
ExactRun(sel) == {r \in Active : runs[r].src = sel /\ \A s \in sel : FirstRun(s) = r}

\* Mutant: a request executes its whole selection.
WholeSelection(sel) == sel

\* executionSourceIds of a request
Uncovered(sel) == sel \ ActiveSources

\* The server's answer to a request: a known id gives its run again, a
\* selection some active run has exactly shares it, and any other becomes a run
\* that waits for the active runs of the sources it does not execute itself.
Respond(q, sel, r) ==
  \/ /\ ledger[q] # 0
     /\ ledger[q] \in DOMAIN runs
     /\ r = ledger[q]
     /\ StartThread(runs)
     /\ UNCHANGED <<last, ledger>>
  \/ /\ ledger[q] = 0
     /\ r \in ExactRun(sel)
     /\ ledger' = Recorded(q, r)
     /\ StartThread(runs)
     /\ UNCHANGED last
  \/ /\ ledger[q] = 0
     /\ ExactRun(sel) = {}
     /\ QueueHasRoom
     /\ last < MaxRuns
     /\ r = last + 1
     /\ last' = r
     /\ ledger' = Recorded(q, r)
     /\ StartThread(Append1(NewRun(sel, Uncovered(sel),
                      [s \in sel \ Uncovered(sel) |-> FirstRun(s)], q)))

\* create_orchestrated_parser_run; a refused request changes nothing.
Create(q, r) == up /\ Respond(q, client[q].want, r)

\* parser-api.ts enqueueParserRun: the answer may be lost, and then the task
\* asks again with the same id.
Ask(q) ==
  /\ client[q].phase = "asking"
  /\ \E r \in 1 .. last + 1 :
       /\ Create(q, r)
       /\ \/ client' = [client EXCEPT ![q] = [@ EXCEPT !.phase = "polling", !.run = r]]
          \/ UNCHANGED client
  /\ UNCHANGED <<up, crashes, faults>>

-----------------------------------------------------------------------------
(* The worker thread.                                                      *)

DependenciesFinished(r) ==
  \A s \in DOMAIN runs[r].deps : ~IsActive(runs[r].deps[s])

\* Mutant: the newest run is served first.
LatestFirst(e, r) == e > r

\* queued is sorted by createdAt
Before(e, r) == e < r

Queued == {r \in DOMAIN runs : runs[r].status = "queued"}

\* dependency_results: a dependency that has no result for the source, or is
\* no longer in the file, counts as an error.
DependencyResult(r, s) ==
  LET d == runs[r].deps[s] IN
  IF d \in DOMAIN runs /\ s \in Completed(d) THEN runs[d].results[s] ELSE "failed"

\* claim_next_run, and the results the run takes from its dependencies
Claim ==
  /\ worker.pc = "idle"
  /\ \E r \in Queued :
       /\ DependenciesFinished(r)
       /\ \A e \in Queued : Before(e, r) => ~DependenciesFinished(e)
       /\ runs' = [runs EXCEPT ![r].status = "running"]
       /\ worker' = [worker EXCEPT !.pc = "copying", !.run = r,
            !.copies = [s \in DOMAIN runs[r].deps |-> DependencyResult(r, s)]]
  /\ UNCHANGED <<last, ledger, up, client, crashes, faults>>

\* record_run_result; a run the file no longer has is left alone
WithResult(r, s, outcome) ==
  IF r \in DOMAIN runs
  THEN [runs EXCEPT ![r].results =
         [t \in DOMAIN @ \union {s} |-> IF t = s THEN outcome ELSE @[t]]]
  ELSE runs

CopyDependency ==
  /\ worker.pc = "copying"
  /\ \E s \in DOMAIN worker.copies :
       /\ runs' = WithResult(worker.run, s, worker.copies[s])
       /\ worker' = [worker EXCEPT !.copies =
            [t \in DOMAIN @ \ {s} |-> @[t]]]
  /\ UNCHANGED <<last, ledger, up, client, crashes, faults>>

\* Mutant: a resumed run executes all its sources again.
EverySource(r) == runs[r].exec

\* The sources a claimed run still has to execute.
Remaining(r) == runs[r].exec \ Completed(r)

BeginSources ==
  /\ worker.pc = "copying"
  /\ DOMAIN worker.copies = {}
  /\ worker' = [worker EXCEPT !.pc = "choosing",
       !.todo = IF worker.run \in DOMAIN runs THEN Remaining(worker.run) ELSE {}]
  /\ UNCHANGED <<last, runs, ledger, up, client, crashes, faults>>

\* The parser of a source starts (asyncio.run(execute_parser_run)).
StartSource ==
  /\ worker.pc = "choosing"
  /\ \E s \in worker.todo :
       worker' = [worker EXCEPT !.pc = "executing", !.todo = @ \ {s}, !.source = {s}]
  /\ UNCHANGED <<last, runs, ledger, up, client, crashes, faults>>

\* It ends, or raises, and its result is checkpointed.
FinishSource ==
  /\ worker.pc = "executing"
  /\ \E s \in worker.source, outcome \in Observed :
       runs' = WithResult(worker.run, s, outcome)
  /\ worker' = [worker EXCEPT !.pc = "choosing", !.source = {}]
  /\ UNCHANGED <<last, ledger, up, client, crashes, faults>>

Having(results, classes) == {s \in DOMAIN results : results[s] \in classes}

TerminalStatus(src, results) ==
  IF Having(results, {"fresh"}) = src THEN "succeeded"
  ELSE IF Having(results, {"fresh", "provisional", "cached"}) # {} THEN "partial"
  ELSE "failed"

\* finish_run
FinishRun ==
  /\ worker.pc = "choosing"
  /\ worker.todo = {}
  /\ runs' = IF worker.run \in DOMAIN runs
             THEN [runs EXCEPT ![worker.run].status =
                    TerminalStatus(runs[worker.run].src, runs[worker.run].results)]
             ELSE runs
  /\ worker' = Idle
  /\ UNCHANGED <<last, ledger, up, client, crashes, faults>>

\* The control file cannot be read or written: process_next raises, and _loop
\* goes on to the next run.
StorageError ==
  /\ crashes + faults < MaxFailures
  /\ worker.pc \in {"copying", "choosing", "executing"}
  /\ worker' = Idle
  /\ faults' = faults + 1
  /\ UNCHANGED <<last, runs, ledger, up, client, crashes>>

\* The API process dies.
Crash ==
  /\ up
  /\ crashes + faults < MaxFailures
  /\ up' = FALSE
  /\ worker' = Down
  /\ crashes' = crashes + 1
  /\ UNCHANGED <<last, runs, ledger, client, faults>>

\* It starts again, and with it the worker; if the control file cannot be read
\* at that moment, the worker stays down until a run is enqueued.
Restart ==
  /\ ~up
  /\ up' = TRUE
  /\ \/ StartThread(runs) /\ UNCHANGED faults
     \/ faults' = faults + 1 /\ UNCHANGED <<runs, worker>>
  /\ UNCHANGED <<last, ledger, client, crashes>>

-----------------------------------------------------------------------------
(* The client of a request (parser-job.ts runLocalParserJob).              *)

\* failedSources of a terminal run: results that are not "ok" or are served
\* from the cache, and sources without a result
FailedSources(r) ==
  Cardinality(Having(runs[r].results, {"cached", "failed"}))
    + Cardinality(runs[r].src \ Completed(r))

\* _orchestrator_run_view: what a client is told of a run, in numbers of sources
View(r) ==
  LET total == Cardinality(runs[r].src)
  IN [status |-> runs[r].status, total |-> total,
      completed |-> IF IsActive(r) THEN Cardinality(Completed(r)) ELSE total,
      failed |-> Min({FailedSources(r), total}),
      fresh |-> Cardinality(Having(runs[r].results, {"fresh"}))]

\* parser-api.ts isParserRun: what the client requires of a view
IsParserRun(view) ==
  /\ view.failed <= view.completed /\ view.completed <= view.total
  /\ view.status \notin ActiveStatuses => view.completed = view.total
  /\ view.status = "succeeded" => view.failed = 0 /\ view.fresh = view.total
  /\ view.status \in {"partial", "failed"} => view.failed # 0

TaskResult(view) ==
  IF ~IsParserRun(view) THEN "rejected"
  ELSE CASE view.status = "succeeded" -> "fresh"
         [] view.status = "partial" -> "degraded"
         [] OTHER -> "failed"

\* A poll of a run that has ended; one the server has forgotten is an error.
Poll(q) ==
  LET r == client[q].run IN
  /\ up
  /\ client[q].phase = "polling"
  /\ ~IsActive(r)
  /\ client' = [client EXCEPT ![q].phase =
       IF r \in DOMAIN runs THEN TaskResult(View(r)) ELSE "failed"]
  /\ UNCHANGED <<last, runs, ledger, up, worker, crashes, faults>>

\* The wall-clock deadline passes while the run is active; the task's second
\* attempt asks again with the same request id.
Deadline(q) ==
  /\ client[q].phase = "polling"
  /\ IsActive(client[q].run)
  /\ client' = [client EXCEPT ![q].phase = "asking"]
  /\ UNCHANGED <<last, runs, ledger, up, worker, crashes, faults>>

WorkerStep ==
  Claim \/ CopyDependency \/ BeginSources \/ StartSource \/ FinishSource \/ FinishRun

Next ==
  \/ \E sel \in Selections : EnqueueManual(sel)
  \/ \E q \in Requests : Ask(q) \/ Poll(q) \/ Deadline(q)
  \/ WorkerStep
  \/ StorageError
  \/ Crash
  \/ Restart

Spec == Init /\ [][Next]_vars

\* The thread keeps working and the service is restarted after a crash.
FairSpec == Spec /\ WF_vars(WorkerStep) /\ WF_vars(Restart)

-----------------------------------------------------------------------------
(* Properties.                                                             *)

\* No two active runs have the same source still to execute: deduplication
\* against the active runs keeps the paid parsers from running twice, for
\* requests and administrators, restarts included.
NoDuplicateExecution ==
  \A r, t \in Active :
    r # t => (runs[r].exec \ Completed(r)) \intersect (runs[t].exec \ Completed(t)) = {}

\* The active runs are the newest ones, so that cutting the list to MaxRecent
\* never drops a queued or running run; a run the storage failed stays behind.
ActiveRunsAreNewest ==
  \A r \in Active, t \in DOMAIN runs : t > r => t \in Active \/ faults # 0

\* What a run waits for is still in the file when it takes the result over: a
\* dependency is not cut off before its dependent has ended.
DependenciesKept ==
  \A r \in Active : \A s \in DOMAIN runs[r].deps :
    \/ /\ runs[r].deps[s] \in DOMAIN runs
       /\ ~IsActive(runs[r].deps[s]) => s \in Completed(runs[r].deps[s])
    \/ faults # 0

\* A run that has ended has a result for each of its sources, whatever was
\* interrupted and resumed on the way, and repeats what its dependencies
\* reported.
EndedRunsAreComplete ==
  \A r \in DOMAIN runs \ Active :
    /\ Completed(r) = runs[r].src
    /\ \A s \in DOMAIN runs[r].deps :
         LET d == runs[r].deps[s] IN
         d \in DOMAIN runs => /\ s \in Completed(d)
                              /\ runs[r].results[s] = runs[d].results[s]

\* Neither the limit of the file nor a crash loses work: nothing active and
\* nothing an active run waits for is cut off, and what has ended is complete.
NoWorkIsLost == TypeOK /\ ActiveRunsAreNewest /\ DependenciesKept /\ EndedRunsAreComplete

\* A checkpointed source is not executed again: a run that is resumed after a
\* crash starts with the first source that has no result.
CheckpointsAreFinal ==
  [][worker.pc # "executing" /\ worker'.pc = "executing" /\ worker'.run \in DOMAIN runs
       => worker'.source \intersect Completed(worker'.run) = {}]_vars

\* A request id stands for one run: a task that asks again after a lost answer
\* or a passed deadline is given the run it had.
OneRunPerRequest ==
  [][\A q \in Requests : client[q].run # 0 => client'[q].run = client[q].run]_vars

\* Once nobody enqueues any more (MaxRuns bounds the runs), every accepted run
\* ends, across crashes and resumptions, unless the storage failed the worker.
RunsEnd == <>[](Active = {} \/ faults # 0)

-----------------------------------------------------------------------------
(* The strengthening that makes the safety properties inductive.           *)

Working == worker.pc \in {"copying", "choosing", "executing"}

\* Each source of a run is executed or taken from one earlier run that has it.
RunFits(r) ==
  /\ runs[r].exec \intersect DOMAIN runs[r].deps = {}
  /\ runs[r].exec \union DOMAIN runs[r].deps = runs[r].src
  /\ Completed(r) \subseteq runs[r].src
  /\ \A s \in DOMAIN runs[r].deps :
       LET d == runs[r].deps[s] IN
       d < r /\ (d \in DOMAIN runs => s \in runs[d].src)

\* The dependency has ended, and what it reported was taken over.
TakenOver(r, s) ==
  LET d == runs[r].deps[s] IN
  /\ ~IsActive(d)
  /\ s \in Completed(r)
  /\ d \in DOMAIN runs => runs[r].results[s] = runs[d].results[s]

Ended(r) ==
  /\ Completed(r) = runs[r].src
  /\ \A s \in DOMAIN runs[r].deps : TakenOver(r, s)

\* The result the worker is going to take over is what the dependency reported.
CopyFits(r, s) ==
  LET d == runs[r].deps[s] IN
  /\ ~IsActive(d)
  /\ d \in DOMAIN runs => worker.copies[s] = runs[d].results[s]

\* What the worker has of its run, and what is left of it.
Serves(r) ==
  /\ runs[r].status = "running"
  /\ worker.pc = "copying" =>
       /\ DOMAIN worker.copies \subseteq DOMAIN runs[r].deps
       /\ \A s \in DOMAIN runs[r].deps :
            IF s \in DOMAIN worker.copies THEN CopyFits(r, s) ELSE TakenOver(r, s)
  /\ worker.pc \in {"choosing", "executing"} =>
       /\ \A s \in DOMAIN runs[r].deps : TakenOver(r, s)
       /\ runs[r].exec \subseteq Completed(r) \union worker.todo \union worker.source
       /\ worker.todo \union worker.source \subseteq runs[r].exec
       /\ Completed(r) \intersect (worker.todo \union worker.source) = {}
       /\ worker.todo \intersect worker.source = {}

WorkerFits ==
  /\ worker.pc # "executing" => worker.source = {}
  /\ worker.pc = "executing" => \E s \in Sources : worker.source = {s}
  /\ Working => worker.run \in 1 .. last /\ (worker.run \in DOMAIN runs => Serves(worker.run))

\* One run is running, the worker's, and it is the oldest that is active.
OneIsServed ==
  /\ up => worker.pc # "down"
  /\ worker.pc # "down" =>
       \A r \in DOMAIN runs :
         runs[r].status = "running" => Working /\ worker.run = r
  /\ Working => worker.run \in Active /\ \A r \in Active : worker.run <= r

\* A storage error leaves a running run behind that nobody serves.
OldestIsServed ==
  /\ ~up => worker.pc = "down"
  /\ faults = 0 => OneIsServed

\* The active runs are among the last MaxPending, and wait for runs that were
\* active with them.
ActiveAreRecent ==
  faults = 0 =>
    /\ ActiveRunsAreNewest
    /\ \A r \in Active :
         /\ last - r < MaxPending
         /\ \A s \in DOMAIN runs[r].deps : r - runs[r].deps[s] < MaxPending

LedgerKnows == \A q \in Requests : client[q].run # 0 => ledger[q] = client[q].run

FailuresCounted ==
  /\ crashes + faults <= MaxFailures + 1
  /\ ~up => crashes # 0 /\ crashes + faults <= MaxFailures
  /\ crashes = 0 => faults <= MaxFailures

Inv ==
  /\ \A r \in DOMAIN runs : RunFits(r)
  /\ \A r \in DOMAIN runs \ Active : Ended(r)
  /\ WorkerFits
  /\ OldestIsServed
  /\ ActiveAreRecent
  /\ LedgerKnows
  /\ FailuresCounted
  /\ NoDuplicateExecution
=============================================================================
