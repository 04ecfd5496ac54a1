------------------------- MODULE ParserRunQueueProofs -------------------------
(***************************************************************************)
(* Theorems about ParserRunQueue for any sources, requests, limits of the  *)
(* file and of the queue, and any number of runs, crashes and storage      *)
(* errors; then about the ledger of the schedules that start such work.    *)
(***************************************************************************)
EXTENDS ParserRunQueue, FiniteSetTheorems, WellFoundedInduction, TLAPS

USE QueueAssumption

\* A set of numbers that is not empty has a least element.
LEMMA MinFacts ==
  ASSUME NEW S \in SUBSET Nat, S # {}
  PROVE  Min(S) \in S /\ \A y \in S : Min(S) <= y
<1> DEFINE Less == {p \in Nat \X Nat : p[1] < p[2]}
<1>1. IsWellFoundedOn(Less, Nat)
  BY NatLessThanWellFounded DEF OpToRel
<1>2. PICK x \in S : \A y \in S : <<y, x>> \notin Less
  <2> HIDE DEF Less
  <2> QED BY <1>1, WFMin, Zenon
<1>3. ASSUME NEW y \in S
      PROVE  x <= y
  <2>1. <<y, x>> \notin Less /\ <<y, x>> \in Nat \X Nat
    BY <1>2
  <2>2. ~(y < x)
    BY <2>1, Zenon
  <2> QED BY <2>2
<1> QED BY <1>3 DEF Min

\* Results and dependencies are functions on some of the sources.
LEMMA ResultsFacts ==
  \A f : f \in Results <=>
           DOMAIN f \in SUBSET Sources /\ f \in [DOMAIN f -> Outcomes]
BY DEF Results

LEMMA DependencyFacts ==
  \A f : f \in Dependencies <=>
           DOMAIN f \in SUBSET Sources /\ f \in [DOMAIN f -> 1 .. MaxRuns]
BY DEF Dependencies

LEMMA IdleType == Idle \in WorkerStates /\ Down \in WorkerStates /\ NoResults \in Results
<1>1. NoResults \in Results
  BY ResultsFacts DEF NoResults
<1> QED BY <1>1 DEF Idle, Down, WorkerStates

\* recover_interrupted_runs touches nothing but the status of running runs.
LEMMA RecoveredFacts ==
  ASSUME NEW D, NEW rs \in [D -> Runs]
  PROVE  /\ Recovered(rs) \in [D -> Runs]
         /\ \A r \in D :
              /\ Recovered(rs)[r].src = rs[r].src
              /\ Recovered(rs)[r].exec = rs[r].exec
              /\ Recovered(rs)[r].deps = rs[r].deps
              /\ Recovered(rs)[r].results = rs[r].results
              /\ Recovered(rs)[r].status # "running"
              /\ rs[r].status # "running" => Recovered(rs)[r] = rs[r]
              /\ rs[r].status = "running" => Recovered(rs)[r].status = "queued"
<1> DEFINE F(r) == IF rs[r].status = "running"
                   THEN [rs[r] EXCEPT !.status = "queued"] ELSE rs[r]
<1>1. Recovered(rs) = [r \in D |-> F(r)]
  BY DEF Recovered
<1>2. ASSUME NEW r \in D
      PROVE  /\ F(r) \in Runs
             /\ F(r).src = rs[r].src /\ F(r).exec = rs[r].exec
             /\ F(r).deps = rs[r].deps /\ F(r).results = rs[r].results
             /\ F(r).status # "running"
             /\ rs[r].status # "running" => F(r) = rs[r]
             /\ rs[r].status = "running" => F(r).status = "queued"
  <2>1. rs[r] \in Runs
    OBVIOUS
  <2> QED BY <2>1 DEF Runs, RunStatuses, ActiveStatuses
<1> HIDE DEF F
<1> QED BY <1>1, <1>2

\* What starting the thread does to the rows and to the worker.
LEMMA ThreadFacts ==
  ASSUME TypeOK, NEW D, NEW rs \in [D -> Runs], StartThread(rs)
  PROVE  /\ runs' \in [D -> Runs]
         /\ worker' \in WorkerStates
         /\ \A r \in D :
              /\ runs'[r].src = rs[r].src
              /\ runs'[r].exec = rs[r].exec
              /\ runs'[r].deps = rs[r].deps
              /\ runs'[r].results = rs[r].results
              /\ rs[r].status # "running" => runs'[r] = rs[r]
              /\ runs'[r].status \in ActiveStatuses <=> rs[r].status \in ActiveStatuses
         /\ worker.pc = "down" =>
              worker' = Idle /\ \A r \in D : runs'[r].status # "running"
         /\ worker.pc # "down" => runs' = rs /\ worker' = worker
<1>1. CASE worker.pc = "down"
  <2>1. runs' = Recovered(rs) /\ worker' = Idle
    BY <1>1 DEF StartThread
  <2> QED BY <1>1, <2>1, RecoveredFacts, IdleType DEF ActiveStatuses
<1>2. CASE worker.pc # "down"
  BY <1>2 DEF StartThread, TypeOK
<1> QED BY <1>1, <1>2

\* record_run_result writes one result of one run.
LEMMA WrittenRow ==
  ASSUME TypeOK, NEW w \in DOMAIN runs, NEW s \in Sources, NEW o \in Outcomes
  PROVE  LET rs == WithResult(w, s, o) IN
         /\ rs \in [DOMAIN runs -> Runs]
         /\ rs[w].src = runs[w].src /\ rs[w].exec = runs[w].exec
         /\ rs[w].deps = runs[w].deps /\ rs[w].status = runs[w].status
         /\ DOMAIN rs[w].results = Completed(w) \union {s}
         /\ rs[w].results[s] = o
         /\ \A t \in Completed(w) \ {s} : rs[w].results[t] = runs[w].results[t]
<1> DEFINE new == [t \in DOMAIN runs[w].results \union {s} |->
                     IF t = s THEN o ELSE runs[w].results[t]]
<1>1. WithResult(w, s, o) = [runs EXCEPT ![w].results = new]
  BY DEF WithResult
<1>2. runs \in [DOMAIN runs -> Runs] /\ runs[w] \in Runs
  BY DEF TypeOK
<1>3. new \in Results
  <2>1. /\ DOMAIN runs[w].results \in SUBSET Sources
        /\ runs[w].results \in [DOMAIN runs[w].results -> Outcomes]
    BY <1>2, ResultsFacts DEF Runs
  <2>2. DOMAIN new \in SUBSET Sources /\ new \in [DOMAIN new -> Outcomes]
    BY <2>1
  <2> HIDE DEF new
  <2> QED BY <2>2, ResultsFacts
<1>4. /\ DOMAIN new = Completed(w) \union {s} /\ new[s] = o
      /\ \A t \in Completed(w) \ {s} : new[t] = runs[w].results[t]
  BY DEF Completed
<1> HIDE DEF new
<1>5. [runs[w] EXCEPT !.results = new] \in Runs
  BY <1>2, <1>3 DEF Runs
<1>6. WithResult(w, s, o) = [runs EXCEPT ![w] = [runs[w] EXCEPT !.results = new]]
  BY <1>1
<1>7. /\ [runs[w] EXCEPT !.results = new].src = runs[w].src
      /\ [runs[w] EXCEPT !.results = new].exec = runs[w].exec
      /\ [runs[w] EXCEPT !.results = new].deps = runs[w].deps
      /\ [runs[w] EXCEPT !.results = new].status = runs[w].status
      /\ [runs[w] EXCEPT !.results = new].results = new
  BY <1>2 DEF Runs
<1> QED BY <1>2, <1>4, <1>5, <1>6, <1>7

\* ... and leaves every other run as it was.
LEMMA OtherRows ==
  ASSUME TypeOK, NEW w, NEW s, NEW o, NEW r \in DOMAIN runs, r # w
  PROVE  WithResult(w, s, o)[r] = runs[r]
BY DEF WithResult, TypeOK

\* Both, for the row of any run.
LEMMA WithResultFacts ==
  ASSUME TypeOK, NEW w, NEW s \in Sources, NEW o \in Outcomes
  PROVE  /\ WithResult(w, s, o) \in [DOMAIN runs -> Runs]
         /\ \A r \in DOMAIN runs :
              /\ WithResult(w, s, o)[r].src = runs[r].src
              /\ WithResult(w, s, o)[r].exec = runs[r].exec
              /\ WithResult(w, s, o)[r].deps = runs[r].deps
              /\ WithResult(w, s, o)[r].status = runs[r].status
              /\ r # w => WithResult(w, s, o)[r] = runs[r]
         /\ w \in DOMAIN runs =>
              /\ DOMAIN WithResult(w, s, o)[w].results = Completed(w) \union {s}
              /\ WithResult(w, s, o)[w].results[s] = o
              /\ \A t \in Completed(w) \ {s} :
                   WithResult(w, s, o)[w].results[t] = runs[w].results[t]
<1>1. CASE w \in DOMAIN runs
  BY <1>1, WrittenRow, OtherRows
<1>2. CASE w \notin DOMAIN runs
  <2>1. WithResult(w, s, o) = runs
    BY <1>2 DEF WithResult
  <2> QED BY <1>2, <2>1 DEF TypeOK
<1> QED BY <1>1, <1>2

\* A new run that takes its dependencies from active runs is one of the file.
LEMMA AppendFacts ==
  ASSUME TypeOK, last < MaxRuns, NEW sel \in Selections,
         NEW exec \in SUBSET Sources, NEW deps \in Dependencies,
         NEW q \in Requests \union {NoRequest}
  PROVE  LET rs == Append1(NewRun(sel, exec, deps, q)) IN
         /\ rs \in [Window(last + 1) -> Runs]
         /\ last + 1 \in Window(last + 1)
         /\ rs[last + 1] = NewRun(sel, exec, deps, q)
         /\ \A r \in Window(last + 1) \ {last + 1} :
              r \in DOMAIN runs /\ rs[r] = runs[r]
<1>1. NewRun(sel, exec, deps, q) \in Runs
  BY IdleType DEF NewRun, Runs, RunStatuses, ActiveStatuses
<1>2. \A r \in Window(last + 1) \ {last + 1} : r \in DOMAIN runs
  BY DEF TypeOK, Window
<1>3. last + 1 \in Window(last + 1)
  BY DEF TypeOK, Window
<1> QED BY <1>1, <1>2, <1>3 DEF Append1, TypeOK

\* FirstRun is the oldest active run with the source.
LEMMA FirstRunFacts ==
  ASSUME TypeOK, NEW s \in ActiveSources
  PROVE  /\ FirstRun(s) \in Active /\ s \in runs[FirstRun(s)].src
         /\ FirstRun(s) \in 1 .. last
<1> DEFINE S == {r \in Active : s \in runs[r].src}
<1>1. Active \subseteq 1 .. last
  BY DEF TypeOK, Active, Window
<1>2. S \in SUBSET Nat /\ S # {}
  <2>1. PICK r \in Active : s \in runs[r].src
    BY DEF ActiveSources
  <2>2. 1 .. last \subseteq Nat
    BY DEF TypeOK
  <2> QED BY <1>1, <2>1, <2>2
<1>3. Min(S) \in S
  BY <1>2, MinFacts
<1> QED BY <1>1, <1>3 DEF FirstRun

\* What a request waits for is a choice of earlier runs.
LEMMA WaitsForType ==
  ASSUME TypeOK, NEW sel \in Selections
  PROVE  /\ Uncovered(sel) \in SUBSET Sources
         /\ [s \in sel \ Uncovered(sel) |-> FirstRun(s)] \in Dependencies
<1>1. \A s \in sel \ Uncovered(sel) : FirstRun(s) \in 1 .. MaxRuns
  BY FirstRunFacts DEF Uncovered, TypeOK
<1>2. sel \in SUBSET Sources
  BY DEF Selections
<1> QED BY <1>1, <1>2, DependencyFacts DEF Uncovered

-----------------------------------------------------------------------------
\* What an enqueued run or a started thread does to the file.
Appends ==
  \E sel \in Selections, exec \in SUBSET Sources, deps \in Dependencies,
     q \in Requests \union {NoRequest} :
    /\ up /\ up' /\ QueueHasRoom /\ last < MaxRuns
    /\ exec \intersect DOMAIN deps = {} /\ exec \union DOMAIN deps = sel
    /\ \A t \in Active : exec \intersect (runs[t].src \ Completed(t)) = {}
    /\ \A s \in DOMAIN deps : deps[s] \in Active /\ s \in runs[deps[s]].src
    /\ StartThread(Append1(NewRun(sel, exec, deps, q)))
    /\ last' = last + 1

StartsThread == up' /\ StartThread(runs) /\ last' = last

LEMMA ManualStep ==
  ASSUME TypeOK, NEW sel \in Selections, EnqueueManual(sel)
  PROVE  Appends \/ StartsThread
<1> DEFINE none == [s \in {} |-> 0]
           uncovered == sel \ PendingSources
<1>1. CASE uncovered = {}
  BY <1>1 DEF EnqueueManual, StartsThread, TypeOK
<1>2. CASE uncovered # {}
  <2>1. none \in Dependencies /\ DOMAIN none = {}
    BY DependencyFacts
  <2>2. /\ uncovered \in Selections /\ uncovered \in SUBSET Sources
    BY <1>2 DEF Selections
  <2>3. \A t \in Active : uncovered \intersect (runs[t].src \ Completed(t)) = {}
    BY DEF PendingSources
  <2>4. /\ up /\ up' /\ QueueHasRoom /\ last < MaxRuns /\ last' = last + 1
        /\ StartThread(Append1(NewRun(uncovered, uncovered, none, NoRequest)))
    BY <1>2 DEF EnqueueManual
  <2> HIDE DEF none, uncovered
  <2> QED BY <2>1, <2>2, <2>3, <2>4 DEF Appends
<1> QED BY <1>1, <1>2

\* The client of q has been told that r is its run.
Polling(q, r) ==
  [client EXCEPT ![q] = [client[q] EXCEPT !.phase = "polling", !.run = r]]

LEMMA AskStep ==
  ASSUME TypeOK, NEW q \in Requests, Ask(q)
  PROVE  /\ Appends \/ StartsThread
         /\ ledger' \in [Requests -> 0 .. last']
         /\ client' \in [Requests -> ClientStates]
         /\ \E r \in 1 .. last + 1 :
              /\ ledger' = [ledger EXCEPT ![q] = r]
              /\ ledger[q] # 0 => r = ledger[q]
              /\ client' = client \/ client' = Polling(q, r)
<1> DEFINE sel == client[q].want
<1>1. PICK r \in 1 .. last + 1 :
        Respond(q, sel, r) /\ (client' = client \/ client' = Polling(q, r))
  BY Zenon DEF Ask, Create, Polling
<1>2. sel \in Selections /\ up /\ up' = up
  BY DEF Ask, Create, TypeOK, ClientStates
<1>3. Active \subseteq 1 .. last
  BY DEF TypeOK, Active, Window
<1>7. /\ Appends \/ StartsThread
      /\ ledger' \in [Requests -> 0 .. last']
      /\ ledger' = [ledger EXCEPT ![q] = r]
      /\ ledger[q] # 0 => r = ledger[q]
      /\ r \in 1 .. MaxRuns
  <2>4. CASE /\ ledger[q] # 0 /\ ledger[q] \in DOMAIN runs
             /\ r = ledger[q] /\ StartThread(runs) /\ UNCHANGED <<last, ledger>>
    <3>1. r \in 0 .. last /\ ledger' = [ledger EXCEPT ![q] = r] /\ last' = last
      BY <2>4 DEF TypeOK
    <3>2. StartsThread
      BY <1>2, <2>4 DEF StartsThread
    <3>3. ledger' \in [Requests -> 0 .. last'] /\ r \in 1 .. MaxRuns
      BY <1>1, <2>4, <3>1 DEF TypeOK
    <3> QED BY <2>4, <3>1, <3>2, <3>3
  <2>5. CASE /\ ledger[q] = 0 /\ r \in ExactRun(sel) /\ ledger' = Recorded(q, r)
             /\ StartThread(runs) /\ UNCHANGED last
    <3>1. r \in 1 .. last
      BY <1>3, <2>5 DEF ExactRun
    <3>2. StartsThread
      BY <1>2, <2>5 DEF StartsThread
    <3>3. ledger' \in [Requests -> 0 .. last'] /\ r \in 1 .. MaxRuns
      BY <2>5, <3>1 DEF Recorded, TypeOK
    <3>4. ledger' = [ledger EXCEPT ![q] = r]
      BY <2>5 DEF Recorded
    <3> QED BY <2>5, <3>2, <3>3, <3>4
  <2>6. CASE /\ ledger[q] = 0 /\ ExactRun(sel) = {} /\ QueueHasRoom /\ last < MaxRuns
             /\ r = last + 1 /\ last' = r /\ ledger' = Recorded(q, r)
             /\ StartThread(Append1(NewRun(sel, Uncovered(sel),
                               [s \in sel \ Uncovered(sel) |-> FirstRun(s)], q)))
    <3> DEFINE deps == [s \in sel \ Uncovered(sel) |-> FirstRun(s)]
    <3>1. deps \in Dependencies /\ Uncovered(sel) \in SUBSET Sources
      BY <1>2, WaitsForType
    <3>2. DOMAIN deps = sel \ Uncovered(sel)
      OBVIOUS
    <3>3. \A s \in DOMAIN deps : deps[s] \in Active /\ s \in runs[deps[s]].src
      BY FirstRunFacts DEF Uncovered
    <3>4. \A t \in Active : Uncovered(sel) \intersect (runs[t].src \ Completed(t)) = {}
      BY DEF Uncovered, ActiveSources
    <3>5. Uncovered(sel) \subseteq sel
      BY DEF Uncovered
    <3>6. StartThread(Append1(NewRun(sel, Uncovered(sel), deps, q)))
      BY <2>6
    <3>7. up' /\ last < MaxRuns /\ last' = last + 1 /\ QueueHasRoom /\ ledger[q] = 0
      BY <1>2, <2>6
    <3> HIDE DEF deps, sel
    <3>8. Appends
      BY <1>2, <3>1, <3>2, <3>3, <3>4, <3>5, <3>6, <3>7 DEF Appends
    <3>9. /\ ledger' = [ledger EXCEPT ![q] = r] /\ ledger' \in [Requests -> 0 .. last']
          /\ r \in 1 .. MaxRuns
      BY <2>6 DEF Recorded, TypeOK
    <3> QED BY <3>7, <3>8, <3>9
  <2> QED BY <1>1, <2>4, <2>5, <2>6, Zenon DEF Respond
<1> HIDE DEF sel
<1>8. client' \in [Requests -> ClientStates]
  <2>1. client[q] \in ClientStates /\ client \in [Requests -> ClientStates]
    BY DEF TypeOK
  <2>2. [client[q] EXCEPT !.phase = "polling", !.run = r] \in ClientStates
    <3>1. r \in 0 .. MaxRuns
      BY <1>7
    <3> QED BY <2>1, <3>1 DEF ClientStates
  <2> QED BY <1>1, <2>1, <2>2 DEF Polling
<1> QED BY <1>1, <1>7, <1>8

\* The file and the worker keep their types in both cases.
LEMMA AppendsType ==
  ASSUME TypeOK, Appends \/ StartsThread
  PROVE  /\ last' \in 0 .. MaxRuns
         /\ runs' \in [Window(last') -> Runs]
         /\ worker' \in WorkerStates
<1>1. CASE Appends
  <2>1. PICK sel \in Selections, exec \in SUBSET Sources, deps \in Dependencies,
             q \in Requests \union {NoRequest} :
          /\ last < MaxRuns /\ last' = last + 1
          /\ StartThread(Append1(NewRun(sel, exec, deps, q)))
    BY <1>1 DEF Appends
  <2>2. Append1(NewRun(sel, exec, deps, q)) \in [Window(last + 1) -> Runs]
    BY <2>1, AppendFacts
  <2> QED BY <2>1, <2>2, ThreadFacts DEF TypeOK
<1>2. CASE StartsThread
  BY <1>2, ThreadFacts DEF StartsThread, TypeOK
<1> QED BY <1>1, <1>2

-----------------------------------------------------------------------------
\* Every step is one of these: the case split of the proofs below.
LEMMA StepCases ==
  ASSUME [Next]_vars
  PROVE  \/ \E sel \in Selections : EnqueueManual(sel)
         \/ \E q \in Requests : Ask(q) \/ Poll(q) \/ Deadline(q)
         \/ Claim \/ CopyDependency \/ BeginSources \/ StartSource
         \/ FinishSource \/ FinishRun \/ StorageError \/ Crash \/ Restart
         \/ UNCHANGED vars
BY DEF Next, WorkerStep

\* The results a run takes over are results.
LEMMA CopiesType ==
  ASSUME TypeOK, NEW r \in DOMAIN runs
  PROVE  [s \in DOMAIN runs[r].deps |-> DependencyResult(r, s)] \in Results
<1>1. runs[r] \in Runs
  BY DEF TypeOK
<1>2. DOMAIN runs[r].deps \in SUBSET Sources
  BY <1>1, DependencyFacts DEF Runs
<1>3. ASSUME NEW s \in DOMAIN runs[r].deps
      PROVE  DependencyResult(r, s) \in Outcomes
  <2> DEFINE d == runs[r].deps[s]
  <2>1. CASE d \in DOMAIN runs /\ s \in Completed(d)
    <3>1. runs[d] \in Runs
      BY <2>1 DEF TypeOK
    <3>2. runs[d].results \in [DOMAIN runs[d].results -> Outcomes]
      BY <3>1, ResultsFacts DEF Runs
    <3> QED BY <2>1, <3>2 DEF DependencyResult, Completed
  <2>2. CASE ~(d \in DOMAIN runs /\ s \in Completed(d))
    BY <2>2 DEF DependencyResult, Outcomes
  <2> QED BY <2>1, <2>2
<1> QED BY <1>2, <1>3, ResultsFacts

\* A status that finish_run sets is one of a run that has ended.
LEMMA TerminalKind ==
  \A src, results : TerminalStatus(src, results) \in RunStatuses \ ActiveStatuses
BY DEF TerminalStatus, RunStatuses, ActiveStatuses

\* What finish_run does to the file.
LEMMA FinishFacts ==
  ASSUME TypeOK, FinishRun
  PROVE  /\ runs' \in [DOMAIN runs -> Runs]
         /\ \A r \in DOMAIN runs :
              /\ runs'[r].src = runs[r].src /\ runs'[r].exec = runs[r].exec
              /\ runs'[r].deps = runs[r].deps
              /\ runs'[r].results = runs[r].results
              /\ r # worker.run => runs'[r] = runs[r]
         /\ worker.run \in DOMAIN runs =>
              runs'[worker.run].status \notin ActiveStatuses
<1> DEFINE w == worker.run
           end == TerminalStatus(runs[w].src, runs[w].results)
<1>1. CASE w \in DOMAIN runs
  <2>1. runs' = [runs EXCEPT ![w].status = end]
    BY <1>1 DEF FinishRun
  <2>2. end \in RunStatuses \ ActiveStatuses
    BY TerminalKind
  <2> HIDE DEF end
  <2> QED BY <1>1, <2>1, <2>2 DEF TypeOK, Runs
<1>2. CASE w \notin DOMAIN runs
  BY <1>2 DEF FinishRun, TypeOK
<1> QED BY <1>1, <1>2

\* Type correctness, and the failures that are counted.
LEMMA TypeStep ==
  ASSUME TypeOK, FailuresCounted, [Next]_vars
  PROVE  TypeOK' /\ FailuresCounted'
<1>1. ASSUME NEW sel \in Selections, EnqueueManual(sel)
      PROVE  TypeOK' /\ FailuresCounted'
  <2>1. /\ last' \in 0 .. MaxRuns /\ runs' \in [Window(last') -> Runs]
        /\ worker' \in WorkerStates
    BY <1>1, ManualStep, AppendsType
  <2>2. UNCHANGED <<ledger, up, client, crashes, faults>>
    BY <1>1 DEF EnqueueManual
  <2>3. last <= last'
    BY <1>1, ManualStep DEF Appends, StartsThread, TypeOK
  <2> QED BY <2>1, <2>2, <2>3 DEF TypeOK, FailuresCounted
<1>2. ASSUME NEW q \in Requests, Ask(q)
      PROVE  TypeOK' /\ FailuresCounted'
  <2>1. /\ last' \in 0 .. MaxRuns /\ runs' \in [Window(last') -> Runs]
        /\ worker' \in WorkerStates
    BY <1>2, AskStep, AppendsType
  <2>2. UNCHANGED <<up, crashes, faults>>
    BY <1>2 DEF Ask, Create
  <2> QED BY <1>2, <2>1, <2>2, AskStep DEF TypeOK, FailuresCounted
<1>3. ASSUME NEW q \in Requests, Poll(q) \/ Deadline(q)
      PROVE  TypeOK' /\ FailuresCounted'
  <2>1. \E phase \in {"asking", "fresh", "degraded", "failed", "rejected"} :
          client' = [client EXCEPT ![q].phase = phase]
    BY <1>3 DEF Poll, Deadline, TaskResult
  <2>2. client' \in [Requests -> ClientStates]
    BY <2>1 DEF TypeOK, ClientStates
  <2>3. UNCHANGED <<last, runs, ledger, up, worker, crashes, faults>>
    BY <1>3 DEF Poll, Deadline
  <2> QED BY <2>2, <2>3 DEF TypeOK, FailuresCounted
<1>4. CASE Claim
  <2>1. PICK r \in Queued :
          /\ runs' = [runs EXCEPT ![r].status = "running"]
          /\ worker' = [worker EXCEPT !.pc = "copying", !.run = r,
               !.copies = [s \in DOMAIN runs[r].deps |-> DependencyResult(r, s)]]
    BY <1>4, Zenon DEF Claim
  <2>2. r \in DOMAIN runs /\ r \in 0 .. MaxRuns
    BY DEF Queued, TypeOK, Window
  <2>3. runs' \in [Window(last) -> Runs]
    BY <2>1, <2>2 DEF TypeOK, Runs, RunStatuses, ActiveStatuses
  <2> DEFINE copies == [s \in DOMAIN runs[r].deps |-> DependencyResult(r, s)]
  <2>4. copies \in Results /\ worker \in WorkerStates
    BY <2>2, CopiesType DEF TypeOK
  <2>5. worker' = [worker EXCEPT !.pc = "copying", !.run = r, !.copies = copies]
    BY <2>1
  <2> HIDE DEF copies
  <2>6. worker' \in WorkerStates
    BY <2>2, <2>4, <2>5 DEF WorkerStates
  <2> QED BY <1>4, <2>3, <2>6 DEF Claim, TypeOK, FailuresCounted
<1>5. CASE CopyDependency
  <2>1. PICK s \in DOMAIN worker.copies :
          /\ runs' = WithResult(worker.run, s, worker.copies[s])
          /\ worker' = [worker EXCEPT !.copies =
               [t \in DOMAIN worker.copies \ {s} |-> worker.copies[t]]]
    BY <1>5 DEF CopyDependency
  <2>2. /\ DOMAIN worker.copies \in SUBSET Sources
        /\ worker.copies \in [DOMAIN worker.copies -> Outcomes]
    BY ResultsFacts DEF TypeOK, WorkerStates
  <2>3. runs' \in [Window(last) -> Runs]
    BY <2>1, <2>2, WithResultFacts DEF TypeOK
  <2>4. [t \in DOMAIN worker.copies \ {s} |-> worker.copies[t]] \in Results
    BY <2>2, ResultsFacts
  <2>5. worker' \in WorkerStates
    BY <2>1, <2>4 DEF TypeOK, WorkerStates
  <2> QED BY <1>5, <2>3, <2>5 DEF CopyDependency, TypeOK, FailuresCounted
<1>6. CASE BeginSources
  <2>1. worker.run \in DOMAIN runs => Remaining(worker.run) \in SUBSET Sources
    BY DEF Remaining, TypeOK, Runs
  <2> QED BY <1>6, <2>1 DEF BeginSources, TypeOK, WorkerStates, FailuresCounted
<1>7. CASE StartSource
  <2>1. PICK s \in worker.todo :
          worker' = [worker EXCEPT !.pc = "executing", !.todo = worker.todo \ {s},
                                   !.source = {s}]
    BY <1>7, Zenon DEF StartSource
  <2>2. worker' \in WorkerStates
    BY <2>1 DEF TypeOK, WorkerStates
  <2> QED BY <1>7, <2>2 DEF StartSource, TypeOK, FailuresCounted
<1>8. CASE FinishSource
  <2>1. PICK s \in worker.source, o \in Observed : runs' = WithResult(worker.run, s, o)
    BY <1>8 DEF FinishSource
  <2>2. s \in Sources /\ o \in Outcomes
    BY DEF TypeOK, WorkerStates, Outcomes
  <2>3. runs' \in [Window(last) -> Runs]
    BY <2>1, <2>2, WithResultFacts DEF TypeOK
  <2> QED
    BY <1>8, <2>3 DEF FinishSource, TypeOK, WorkerStates, FailuresCounted
<1>9. CASE FinishRun
  BY <1>9, FinishFacts, IdleType DEF FinishRun, TypeOK, FailuresCounted
<1>10. CASE StorageError
  BY <1>10, IdleType DEF StorageError, TypeOK, FailuresCounted
<1>11. CASE Crash
  <2>1. crashes' \in 0 .. MaxFailures /\ FailuresCounted'
    BY <1>11 DEF Crash, TypeOK, FailuresCounted
  <2> QED BY <1>11, <2>1, IdleType DEF Crash, TypeOK
<1>12. CASE Restart
  <2>1. runs' \in [Window(last) -> Runs] /\ worker' \in WorkerStates
    BY <1>12, ThreadFacts DEF Restart, TypeOK
  <2> QED BY <1>12, <2>1 DEF Restart, TypeOK, FailuresCounted
<1>13. CASE UNCHANGED vars
  BY <1>13 DEF vars, TypeOK, FailuresCounted
<1> QED
  BY StepCases, <1>1, <1>2, <1>3, <1>4, <1>5, <1>6, <1>7, <1>8, <1>9, <1>10,
     <1>11, <1>12, <1>13

\* The type invariant holds in every reachable state.
THEOREM TypeCorrect == Spec => [](TypeOK /\ FailuresCounted)
<1>1. Init => TypeOK /\ FailuresCounted
  <2> SUFFICES ASSUME Init PROVE TypeOK /\ FailuresCounted
    OBVIOUS
  <2>1. runs \in [Window(last) -> Runs]
    BY DEF Init, Window
  <2>2. client \in [Requests -> ClientStates]
    BY DEF Init, ClientStates
  <2> QED BY <2>1, <2>2, IdleType DEF Init, TypeOK, FailuresCounted
<1> QED BY <1>1, TypeStep, PTL DEF Spec

-----------------------------------------------------------------------------
\* What no step does to a run that stays in the file: change what it is to
\* produce, forget a result, touch a run that has ended or wake it up.
Continues(r) ==
  /\ runs'[r].src = runs[r].src
  /\ runs'[r].exec = runs[r].exec
  /\ runs'[r].deps = runs[r].deps
  /\ DOMAIN runs[r].results \subseteq DOMAIN runs'[r].results
  /\ runs'[r].status \in ActiveStatuses => runs[r].status \in ActiveStatuses
  /\ runs[r].status \notin ActiveStatuses => runs'[r] = runs[r]

\* The new row of an enqueued run; the others are as they were.
LEMMA AppendedRows ==
  ASSUME TypeOK, Appends
  PROVE  /\ last' = last + 1 /\ last' \in DOMAIN runs' /\ last + 1 \notin DOMAIN runs
         /\ DOMAIN runs' = Window(last + 1)
         /\ up /\ up' /\ QueueHasRoom
         /\ \A r \in DOMAIN runs' \ {last + 1} :
              /\ r \in DOMAIN runs /\ Continues(r)
              /\ runs'[r].results = runs[r].results
              /\ runs'[r].status \in ActiveStatuses <=> runs[r].status \in ActiveStatuses
              /\ worker.pc # "down" => runs'[r] = runs[r]
              /\ worker.pc = "down" => runs'[r].status # "running"
         /\ worker' = IF worker.pc = "down" THEN Idle ELSE worker
         /\ LET n == runs'[last + 1] IN
            /\ n.status = "queued" /\ n.results = NoResults
            /\ n.exec \intersect DOMAIN n.deps = {}
            /\ n.exec \union DOMAIN n.deps = n.src
            /\ \A t \in Active : n.exec \intersect (runs[t].src \ Completed(t)) = {}
            /\ \A s \in DOMAIN n.deps : n.deps[s] \in Active /\ s \in runs[n.deps[s]].src
<1>1. PICK sel \in Selections, exec \in SUBSET Sources, deps \in Dependencies,
           q \in Requests \union {NoRequest} :
        /\ up /\ up' /\ QueueHasRoom /\ last < MaxRuns
        /\ exec \intersect DOMAIN deps = {} /\ exec \union DOMAIN deps = sel
        /\ \A t \in Active : exec \intersect (runs[t].src \ Completed(t)) = {}
        /\ \A s \in DOMAIN deps : deps[s] \in Active /\ s \in runs[deps[s]].src
        /\ StartThread(Append1(NewRun(sel, exec, deps, q)))
        /\ last' = last + 1
  BY Zenon DEF Appends
<1> DEFINE new == NewRun(sel, exec, deps, q)
           rs == Append1(new)
<1>2. /\ rs \in [Window(last + 1) -> Runs] /\ last + 1 \in Window(last + 1)
      /\ rs[last + 1] = new
      /\ \A r \in Window(last + 1) \ {last + 1} : r \in DOMAIN runs /\ rs[r] = runs[r]
  BY <1>1, AppendFacts
<1>3. /\ new.status = "queued" /\ new.results = NoResults /\ new.src = sel
      /\ new.exec = exec /\ new.deps = deps
  BY DEF NewRun
<1>4. StartThread(rs)
  BY <1>1
<1> HIDE DEF rs, new
<1>5. /\ runs' \in [Window(last + 1) -> Runs]
      /\ \A r \in Window(last + 1) :
           /\ runs'[r].src = rs[r].src /\ runs'[r].exec = rs[r].exec
           /\ runs'[r].deps = rs[r].deps /\ runs'[r].results = rs[r].results
           /\ rs[r].status # "running" => runs'[r] = rs[r]
           /\ runs'[r].status \in ActiveStatuses <=> rs[r].status \in ActiveStatuses
      /\ worker.pc = "down" =>
           worker' = Idle /\ \A r \in Window(last + 1) : runs'[r].status # "running"
      /\ worker.pc # "down" => runs' = rs /\ worker' = worker
  BY <1>2, <1>4, ThreadFacts
<1>6. \A r \in Window(last + 1) \ {last + 1} : Continues(r)
  BY <1>2, <1>5 DEF Continues, ActiveStatuses
<1>7. last + 1 \notin DOMAIN runs
  BY DEF TypeOK, Window
<1>8. runs'[last + 1] = new
  BY <1>2, <1>3, <1>5
<1> QED BY <1>1, <1>2, <1>3, <1>5, <1>6, <1>7, <1>8

\* ... and when only the thread is started.
LEMMA StartedRows ==
  ASSUME TypeOK, StartsThread
  PROVE  /\ last' = last /\ DOMAIN runs' = DOMAIN runs /\ up'
         /\ \A r \in DOMAIN runs :
              /\ Continues(r)
              /\ runs'[r].results = runs[r].results
              /\ runs'[r].status \in ActiveStatuses <=> runs[r].status \in ActiveStatuses
              /\ worker.pc # "down" => runs'[r] = runs[r]
              /\ worker.pc = "down" => runs'[r].status # "running"
         /\ worker' = IF worker.pc = "down" THEN Idle ELSE worker
<1>1. StartThread(runs) /\ last' = last /\ up' /\ runs \in [DOMAIN runs -> Runs]
  BY DEF StartsThread, TypeOK
<1> QED BY <1>1, ThreadFacts DEF Continues, ActiveStatuses

\* claim_next_run takes a queued run whose dependencies have ended, the oldest.
LEMMA ClaimedRun ==
  ASSUME TypeOK, Claim
  PROVE  \E r \in Queued :
           /\ DependenciesFinished(r)
           /\ \A e \in Queued : e < r => ~DependenciesFinished(e)
           /\ runs' = [runs EXCEPT ![r].status = "running"]
           /\ worker' = [worker EXCEPT !.pc = "copying", !.run = r,
                !.copies = [s \in DOMAIN runs[r].deps |-> DependencyResult(r, s)]]
           /\ worker'.pc = "copying" /\ worker'.run = r
           /\ worker'.copies = [s \in DOMAIN runs[r].deps |-> DependencyResult(r, s)]
           /\ worker'.source = worker.source /\ worker'.todo = worker.todo
<1>1. PICK r \in Queued :
           /\ DependenciesFinished(r)
           /\ \A e \in Queued : Before(e, r) => ~DependenciesFinished(e)
           /\ runs' = [runs EXCEPT ![r].status = "running"]
           /\ worker' = [worker EXCEPT !.pc = "copying", !.run = r,
                !.copies = [s \in DOMAIN runs[r].deps |-> DependencyResult(r, s)]]
  BY Zenon DEF Claim
<1> DEFINE copies == [s \in DOMAIN runs[r].deps |-> DependencyResult(r, s)]
<1>2. worker' = [worker EXCEPT !.pc = "copying", !.run = r, !.copies = copies]
  BY <1>1
<1> HIDE DEF copies
<1>3. /\ worker'.pc = "copying" /\ worker'.run = r /\ worker'.copies = copies
      /\ worker'.source = worker.source /\ worker'.todo = worker.todo
  BY <1>2 DEF TypeOK, WorkerStates
<1> QED BY <1>1, <1>3, Zenon DEF copies, Before

\* What a step of the worker does to the rows: it writes its own one.
LEMMA WorkerRows ==
  ASSUME TypeOK, WorkerFits,
         Claim \/ CopyDependency \/ FinishSource \/ FinishRun
  PROVE  /\ DOMAIN runs' = DOMAIN runs
         /\ \A r \in DOMAIN runs :
              Continues(r) /\ (r # worker'.run /\ r # worker.run => runs'[r] = runs[r])
<1>1. CASE Claim
  <2>1. PICK r \in Queued :
          /\ runs' = [runs EXCEPT ![r].status = "running"]
          /\ worker'.run = r
    BY <1>1, ClaimedRun, Zenon
  <2> QED BY <2>1 DEF Queued, Continues, ActiveStatuses, TypeOK, Runs
<1>2. CASE CopyDependency \/ FinishSource
  <2>1. PICK s \in Sources, o \in Outcomes : runs' = WithResult(worker.run, s, o)
    <3>1. CASE CopyDependency
      BY <1>2, <3>1, ResultsFacts DEF CopyDependency, TypeOK, WorkerStates
    <3>2. CASE FinishSource
      BY <1>2, <3>2 DEF FinishSource, TypeOK, WorkerStates, Outcomes
    <3> QED BY <1>2, <3>1, <3>2
  <2>2. worker.run \in DOMAIN runs => runs[worker.run].status \in ActiveStatuses
    BY <1>2 DEF WorkerFits, Serves, CopyFits, Working, CopyDependency, FinishSource, ActiveStatuses
  <2> QED BY <2>1, <2>2, WithResultFacts DEF Continues, Completed
<1>3. CASE FinishRun
  <2>1. worker.run \in DOMAIN runs => runs[worker.run].status \in ActiveStatuses
    BY <1>3 DEF WorkerFits, Serves, CopyFits, Working, FinishRun, ActiveStatuses
  <2> QED BY <1>3, <2>1, FinishFacts DEF Continues
<1> QED BY <1>1, <1>2, <1>3

\* The steps by what they do to the file.
LEMMA StepKinds ==
  ASSUME TypeOK, [Next]_vars
  PROVE  \/ Appends \/ StartsThread
         \/ Claim \/ CopyDependency \/ FinishSource \/ FinishRun
         \/ runs' = runs /\ last' = last
<1>1. CASE \E sel \in Selections : EnqueueManual(sel)
  BY <1>1, ManualStep
<1>2. CASE \E q \in Requests : Ask(q)
  BY <1>2, AskStep
<1>3. CASE \/ \E q \in Requests : Poll(q) \/ Deadline(q)
           \/ BeginSources \/ StartSource \/ StorageError \/ Crash
           \/ UNCHANGED vars
  BY <1>3, Zenon
     DEF Poll, Deadline, BeginSources, StartSource, StorageError, Crash, vars
<1>4. Restart => StartsThread \/ (runs' = runs /\ last' = last)
  BY DEF Restart, StartsThread
<1> QED BY StepCases, <1>1, <1>2, <1>3, <1>4

\* No step does any of it.
LEMMA RowsContinue ==
  ASSUME TypeOK, WorkerFits, [Next]_vars
  PROVE  /\ last' = last \/ last' = last + 1
         /\ \A r \in DOMAIN runs' :
              \/ r \in DOMAIN runs /\ Continues(r)
              \/ r = last + 1 /\ r \notin DOMAIN runs /\ Appends
         /\ \A r \in 1 .. last : r \in DOMAIN runs' => r \in DOMAIN runs
<1>1. last + 1 \notin 1 .. last
  BY DEF TypeOK
<1>2. CASE Appends
  BY <1>1, <1>2, AppendedRows
<1>3. CASE StartsThread
  BY <1>1, <1>3, StartedRows
<1>4. CASE Claim \/ CopyDependency \/ FinishSource \/ FinishRun
  <2>1. last' = last
    BY <1>4, Zenon DEF Claim, CopyDependency, FinishSource, FinishRun
  <2>2. /\ DOMAIN runs' = DOMAIN runs
        /\ \A r \in DOMAIN runs : Continues(r)
    BY <1>4, WorkerRows
  <2> QED BY <2>1, <2>2
<1>5. CASE runs' = runs /\ last' = last
  BY <1>5 DEF Continues
<1> QED BY <1>2, <1>3, <1>4, <1>5, StepKinds

-----------------------------------------------------------------------------
\* The type of a row and of what it waits for.
LEMMA RowType ==
  ASSUME TypeOK, NEW r \in DOMAIN runs
  PROVE  /\ r \in 1 .. last
         /\ runs[r] \in Runs
         /\ Completed(r) \subseteq Sources
         /\ runs[r].results \in [Completed(r) -> Outcomes]
         /\ \A s \in DOMAIN runs[r].deps : runs[r].deps[s] \in 1 .. MaxRuns
<1>1. r \in 1 .. last /\ runs[r] \in Runs
  BY DEF TypeOK, Window
<1> QED BY <1>1, ResultsFacts, DependencyFacts DEF Runs, Completed

\* The results of a row change only when the worker writes one of its run.
Writes(r, s, o) ==
  /\ r = worker.run
  /\ DOMAIN runs'[r].results = Completed(r) \union {s}
  /\ runs'[r].results[s] = o
  /\ \A t \in Completed(r) \ {s} : runs'[r].results[t] = runs[r].results[t]

LEMMA ResultsStep ==
  ASSUME TypeOK, [Next]_vars, NEW r \in DOMAIN runs, r \in DOMAIN runs'
  PROVE  \/ runs'[r].results = runs[r].results
         \/ CopyDependency /\ \E s \in DOMAIN worker.copies : Writes(r, s, worker.copies[s])
         \/ FinishSource /\ \E s \in worker.source, o \in Outcomes : Writes(r, s, o)
<1>1. CASE CopyDependency
  <2>1. PICK s \in DOMAIN worker.copies :
          runs' = WithResult(worker.run, s, worker.copies[s])
    BY <1>1, Zenon DEF CopyDependency
  <2>2. s \in Sources /\ worker.copies[s] \in Outcomes
    BY ResultsFacts DEF TypeOK, WorkerStates
  <2>3. CASE r = worker.run
    BY <1>1, <2>1, <2>2, <2>3, WrittenRow DEF Writes
  <2>4. CASE r # worker.run
    BY <2>1, <2>4, OtherRows
  <2> QED BY <2>3, <2>4
<1>2. CASE FinishSource
  <2>1. PICK s \in worker.source, o \in Observed : runs' = WithResult(worker.run, s, o)
    BY <1>2 DEF FinishSource
  <2>2. s \in Sources /\ o \in Outcomes
    BY DEF TypeOK, WorkerStates, Outcomes
  <2>3. CASE r = worker.run
    BY <1>2, <2>1, <2>2, <2>3, WrittenRow DEF Writes
  <2>4. CASE r # worker.run
    BY <2>1, <2>4, OtherRows
  <2> QED BY <2>3, <2>4
<1>3. CASE Claim
  <2>1. PICK e \in Queued : runs' = [runs EXCEPT ![e].status = "running"]
    BY <1>3, Zenon DEF Claim
  <2> QED BY <2>1, RowType DEF TypeOK, Runs
<1>4. CASE FinishRun
  BY <1>4, FinishFacts
<1>5. CASE Appends \/ StartsThread
  <2>1. r # last + 1
    BY RowType DEF TypeOK
  <2> QED BY <1>5, <2>1, AppendedRows, StartedRows
<1> QED BY <1>1, <1>2, <1>3, <1>4, <1>5, StepKinds

\* A result is only ever written for a source of the run.
LEMMA CompletedStep ==
  ASSUME TypeOK, Inv, [Next]_vars, NEW r \in DOMAIN runs, r \in DOMAIN runs'
  PROVE  DOMAIN runs'[r].results \subseteq runs[r].src
<1>1. RunFits(r) /\ WorkerFits
  BY DEF Inv
<1>2. ASSUME CopyDependency, NEW s \in DOMAIN worker.copies, r = worker.run
      PROVE  s \in runs[r].src
  BY <1>1, <1>2 DEF CopyDependency, WorkerFits, Serves, Working, RunFits
<1>3. ASSUME FinishSource, NEW s \in worker.source, r = worker.run
      PROVE  s \in runs[r].src
  BY <1>1, <1>3 DEF FinishSource, WorkerFits, Serves, Working, RunFits
<1> QED BY <1>1, <1>2, <1>3, ResultsStep DEF RunFits, Completed, Writes

\* A run that has ended, or is cut off, stays so.
LEMMA DependencyStays ==
  ASSUME TypeOK, Inv, [Next]_vars, NEW d \in 1 .. last, ~IsActive(d)
  PROVE  ~IsActive(d)' /\ (d \in DOMAIN runs' => d \in DOMAIN runs /\ runs'[d] = runs[d])
<1>1. CASE d \in DOMAIN runs'
  <2>1. d \in DOMAIN runs /\ d # last + 1
    BY <1>1, RowsContinue DEF Inv, TypeOK
  <2>2. runs'[d] = runs[d]
    BY <1>1, <2>1, RowsContinue DEF Inv, Continues, IsActive
  <2> QED BY <2>1, <2>2 DEF IsActive
<1>2. CASE d \notin DOMAIN runs'
  BY <1>2 DEF IsActive
<1> QED BY <1>1, <1>2

\* What was taken over from a dependency stays equal to what it reported, also
\* when a resumed run copies it a second time.
LEMMA TakenOverStep ==
  ASSUME TypeOK, Inv, [Next]_vars, NEW r \in DOMAIN runs, r \in DOMAIN runs',
         NEW s \in DOMAIN runs[r].deps, TakenOver(r, s)
  PROVE  TakenOver(r, s)' /\ s \in DOMAIN runs'[r].deps
<1>0. PICK d : d = runs[r].deps[s]
  OBVIOUS
<1>1. RunFits(r) /\ WorkerFits
  BY DEF Inv
<1>2. Continues(r) /\ runs'[r].deps = runs[r].deps
  <2>1. r # last + 1
    BY RowType DEF TypeOK
  <2> QED BY <1>1, <2>1, RowsContinue DEF Continues
<1>3. /\ d \in 1 .. last /\ ~IsActive(d) /\ s \in Completed(r)
      /\ d \in DOMAIN runs => runs[r].results[s] = runs[d].results[s]
  BY <1>0, <1>1, RowType DEF RunFits, TakenOver, TypeOK
<1>4. ~IsActive(d)' /\ (d \in DOMAIN runs' => d \in DOMAIN runs /\ runs'[d] = runs[d])
  BY <1>3, DependencyStays
<1>5. s \in DOMAIN runs'[r].results
  BY <1>2, <1>3 DEF Continues, Completed
<1>6. d \in DOMAIN runs => runs'[r].results[s] = runs[d].results[s]
  <2>1. CASE runs'[r].results = runs[r].results
    BY <1>3, <2>1
  <2>2. ASSUME CopyDependency, NEW t \in DOMAIN worker.copies,
               Writes(r, t, worker.copies[t]), d \in DOMAIN runs
        PROVE  runs'[r].results[s] = runs[d].results[s]
    <3>1. s \in DOMAIN worker.copies => worker.copies[s] = runs[d].results[s]
      BY <1>0, <1>1, <2>2 DEF WorkerFits, Serves, CopyFits, Working, CopyDependency, Writes
    <3> QED BY <1>3, <2>2, <3>1 DEF Writes
  <2>3. ASSUME FinishSource, NEW t \in worker.source, NEW o \in Outcomes,
               Writes(r, t, o), d \in DOMAIN runs
        PROVE  runs'[r].results[s] = runs[d].results[s]
    <3>1. t # s
      BY <1>1, <2>3 DEF WorkerFits, Serves, CopyFits, Working, FinishSource, Writes, RunFits
    <3> QED BY <1>3, <2>3, <3>1 DEF Writes
  <2> QED BY <2>1, <2>2, <2>3, ResultsStep
<1> QED BY <1>0, <1>2, <1>4, <1>5, <1>6 DEF TakenOver, Completed, IsActive

\* Only finish_run ends a run, the worker's.
LEMMA EndsOnce ==
  ASSUME TypeOK, WorkerFits, [Next]_vars, NEW r \in Active, r \in DOMAIN runs' \ Active'
  PROVE  FinishRun /\ r = worker.run
<1>1. r \in DOMAIN runs /\ runs[r].status \in ActiveStatuses /\ r # last + 1
  BY RowType DEF Active, TypeOK
<1>2. runs'[r].status \notin ActiveStatuses
  BY DEF Active
<1>3. ~Appends /\ ~StartsThread
  BY <1>1, <1>2, AppendedRows, StartedRows
<1>4. ~Claim
  <2> SUFFICES ASSUME Claim PROVE FALSE
    OBVIOUS
  <2>1. PICK e \in Queued : runs' = [runs EXCEPT ![e].status = "running"]
    BY Zenon DEF Claim
  <2> QED BY <1>1, <1>2, <2>1 DEF TypeOK, Runs, ActiveStatuses
<1>5. ~CopyDependency
  <2> SUFFICES ASSUME CopyDependency PROVE FALSE
    OBVIOUS
  <2>1. PICK s \in DOMAIN worker.copies :
          runs' = WithResult(worker.run, s, worker.copies[s])
    BY Zenon DEF CopyDependency
  <2>2. s \in Sources /\ worker.copies[s] \in Outcomes
    BY ResultsFacts DEF TypeOK, WorkerStates
  <2>3. runs'[r].status = runs[r].status
    <3>1. CASE r = worker.run
      BY <1>1, <2>1, <2>2, <3>1, WrittenRow
    <3>2. CASE r # worker.run
      BY <1>1, <2>1, <3>2, OtherRows
    <3> QED BY <3>1, <3>2
  <2> QED BY <1>1, <1>2, <2>3
<1>6. ~FinishSource
  <2> SUFFICES ASSUME FinishSource PROVE FALSE
    OBVIOUS
  <2>1. PICK s \in worker.source, o \in Observed : runs' = WithResult(worker.run, s, o)
    BY DEF FinishSource
  <2>2. s \in Sources /\ o \in Outcomes
    BY DEF TypeOK, WorkerStates, Outcomes
  <2>3. runs'[r].status = runs[r].status
    <3>1. CASE r = worker.run
      BY <1>1, <2>1, <2>2, <3>1, WrittenRow
    <3>2. CASE r # worker.run
      BY <1>1, <2>1, <3>2, OtherRows
    <3> QED BY <3>1, <3>2
  <2> QED BY <1>1, <1>2, <2>3
<1>7. CASE FinishRun
  BY <1>1, <1>2, <1>7, FinishFacts
<1> QED BY <1>1, <1>2, <1>3, <1>4, <1>5, <1>6, <1>7, StepKinds

\* A run that has ended is complete and repeats what its dependencies reported.
LEMMA EndedStep ==
  ASSUME TypeOK, Inv, [Next]_vars, NEW r \in DOMAIN runs' \ Active'
  PROVE  Ended(r)'
<1>1. /\ WorkerFits /\ \A t \in DOMAIN runs : RunFits(t)
      /\ \A t \in DOMAIN runs \ Active : Ended(t)
  BY DEF Inv
<1>2. runs'[r].status \notin ActiveStatuses
  BY DEF Active
<1>3. r \in DOMAIN runs /\ Continues(r)
  <2>1. ~(r = last + 1 /\ Appends)
    BY <1>2, AppendedRows DEF ActiveStatuses
  <2> QED BY <1>1, <2>1, RowsContinue
<1>4. CASE r \notin Active
  <2>1. Ended(r) /\ runs'[r] = runs[r]
    BY <1>1, <1>3, <1>4 DEF Active, Continues
  <2> QED BY <1>3, <2>1, TakenOverStep DEF Ended, Completed
<1>5. CASE r \in Active
  <2>1. FinishRun /\ r = worker.run
    BY <1>1, <1>5, EndsOnce
  <2>2. /\ \A s \in DOMAIN runs[r].deps : TakenOver(r, s)
        /\ runs[r].exec \subseteq Completed(r)
    BY <1>1, <1>3, <2>1 DEF WorkerFits, Serves, CopyFits, Working, FinishRun
  <2>3. Completed(r) = runs[r].src
    <3>1. DOMAIN runs[r].deps \subseteq Completed(r)
      BY <2>2 DEF TakenOver
    <3>2. /\ runs[r].exec \union DOMAIN runs[r].deps = runs[r].src
          /\ Completed(r) \subseteq runs[r].src
      BY <1>1, <1>3 DEF RunFits
    <3> QED BY <2>2, <3>1, <3>2
  <2>4. runs'[r].results = runs[r].results
    BY <1>3, <2>1, FinishFacts
  <2> QED BY <1>3, <2>2, <2>3, <2>4, TakenOverStep DEF Ended, Completed, Continues
<1> QED BY <1>4, <1>5

\* The steps by what they do to the worker.
LEMMA WorkerKinds ==
  ASSUME TypeOK, [Next]_vars
  PROVE  \/ Claim \/ CopyDependency \/ BeginSources \/ StartSource \/ FinishSource
         \/ worker' \in {Idle, Down}
         \/ /\ worker' = worker
            /\ \A r \in DOMAIN runs : r \in DOMAIN runs' => runs'[r] = runs[r]
<1>1. CASE Appends \/ StartsThread
  <2>1. \A r \in DOMAIN runs : r # last + 1
    BY RowType DEF TypeOK
  <2> QED BY <1>1, <2>1, AppendedRows, StartedRows
<1>2. CASE \E sel \in Selections : EnqueueManual(sel)
  BY <1>1, <1>2, ManualStep
<1>3. CASE \E q \in Requests : Ask(q)
  BY <1>1, <1>3, AskStep
<1>4. CASE (\E q \in Requests : Poll(q) \/ Deadline(q)) \/ UNCHANGED vars
  BY <1>4, Zenon DEF Poll, Deadline, vars
<1>5. CASE FinishRun \/ StorageError \/ Crash
  BY <1>5 DEF FinishRun, StorageError, Crash
<1>6. CASE Restart
  BY <1>1, <1>6 DEF Restart, StartsThread
<1> QED BY StepCases, <1>2, <1>3, <1>4, <1>5, <1>6

\* What a dependency that has ended becomes in a step.
LEMMA DependencyOf ==
  ASSUME TypeOK, Inv, [Next]_vars, NEW r \in DOMAIN runs, r \in DOMAIN runs',
         NEW s \in DOMAIN runs[r].deps, ~IsActive(runs[r].deps[s])
  PROVE  \E d \in 1 .. last :
           /\ d # r /\ d = runs[r].deps[s] /\ d = runs'[r].deps[s]
           /\ ~IsActive(d)'
           /\ d \in DOMAIN runs' => d \in DOMAIN runs /\ runs'[d] = runs[d]
<1>1. PICK d : d = runs[r].deps[s]
  OBVIOUS
<1>2. d < r /\ d \in 1 .. last
  BY <1>1, RowType DEF Inv, RunFits, TypeOK
<1>3. Continues(r)
  BY RowType, RowsContinue DEF Inv, TypeOK
<1>4. ~IsActive(d)' /\ (d \in DOMAIN runs' => d \in DOMAIN runs /\ runs'[d] = runs[d])
  BY <1>1, <1>2, DependencyStays
<1> QED BY <1>1, <1>2, <1>3, <1>4, RowType DEF Continues

\* What a step that leaves the copy alone does not change of it.
LEMMA CopyFitsStep ==
  ASSUME TypeOK, Inv, [Next]_vars, NEW r \in DOMAIN runs, r \in DOMAIN runs',
         NEW s \in DOMAIN runs[r].deps, CopyFits(r, s),
         worker'.copies[s] = worker.copies[s]
  PROVE  CopyFits(r, s)'
<1>1. ~IsActive(runs[r].deps[s])
  BY DEF CopyFits
<1>2. PICK d \in 1 .. last :
        /\ d # r /\ d = runs[r].deps[s] /\ d = runs'[r].deps[s]
        /\ ~IsActive(d)'
        /\ d \in DOMAIN runs' => d \in DOMAIN runs /\ runs'[d] = runs[d]
  BY <1>1, DependencyOf
<1> QED BY <1>2 DEF CopyFits, IsActive

\* A claimed run copies what its dependencies, which have ended, reported.
LEMMA ClaimServes ==
  ASSUME TypeOK, Inv, Claim
  PROVE  WorkerFits'
<1>1. PICK r \in Queued :
        /\ DependenciesFinished(r)
        /\ runs' = [runs EXCEPT ![r].status = "running"]
        /\ worker'.pc = "copying" /\ worker'.run = r
        /\ worker'.copies = [s \in DOMAIN runs[r].deps |-> DependencyResult(r, s)]
        /\ worker'.source = worker.source
  BY ClaimedRun, Zenon
<1>2. /\ r \in DOMAIN runs /\ r \in 1 .. last /\ last' = last
      /\ worker.source = {} /\ RunFits(r)
      /\ \A t \in DOMAIN runs \ Active : Ended(t)
  BY <1>1, RowType DEF Queued, Claim, Inv, WorkerFits
<1>3. /\ DOMAIN runs' = DOMAIN runs
      /\ runs'[r].status = "running" /\ runs'[r].deps = runs[r].deps
      /\ \A t \in DOMAIN runs \ {r} : runs'[t] = runs[t]
  BY <1>1, <1>2, RowType DEF TypeOK, Runs
<1>4. ASSUME NEW s \in DOMAIN runs[r].deps
      PROVE  CopyFits(r, s)'
  <2>1. PICK d : d = runs[r].deps[s] /\ d = runs'[r].deps[s]
    BY <1>3
  <2>2. d # r /\ ~IsActive(d) /\ (d \in DOMAIN runs => s \in runs[d].src)
    <3>1. ~IsActive(d)
      BY <1>1, <1>4, <2>1 DEF DependenciesFinished
    <3>2. d < r /\ (d \in DOMAIN runs => s \in runs[d].src)
      BY <1>2, <1>4, <2>1 DEF RunFits
    <3> QED BY <1>2, <3>1, <3>2
  <2>3. d \in DOMAIN runs => s \in Completed(d)
    BY <1>2, <2>2 DEF Ended, IsActive, Active
  <2>4. d \in DOMAIN runs => worker'.copies[s] = runs[d].results[s]
    BY <1>1, <1>4, <2>1, <2>3 DEF DependencyResult
  <2>5. d \in DOMAIN runs => runs'[d] = runs[d]
    BY <1>3, <2>2
  <2> QED BY <1>3, <2>1, <2>2, <2>4, <2>5 DEF CopyFits, IsActive
<1>5. DOMAIN worker'.copies = DOMAIN runs[r].deps
  BY <1>1
<1> QED BY <1>1, <1>2, <1>3, <1>4, <1>5 DEF WorkerFits, Serves, Working

\* One result more is taken over.
LEMMA CopyServes ==
  ASSUME TypeOK, TypeOK', Inv, CopyDependency, [Next]_vars
  PROVE  WorkerFits'
<1> DEFINE r == worker.run
<1>1. PICK s \in DOMAIN worker.copies :
        /\ runs' = WithResult(worker.run, s, worker.copies[s])
        /\ worker' = [worker EXCEPT !.copies =
             [t \in DOMAIN worker.copies \ {s} |-> worker.copies[t]]]
  BY Zenon DEF CopyDependency
<1>2. /\ worker'.pc = "copying" /\ worker'.run = worker.run /\ worker'.source = worker.source
      /\ worker'.copies = [t \in DOMAIN worker.copies \ {s} |-> worker.copies[t]]
  BY <1>1 DEF CopyDependency, TypeOK, WorkerStates
<1>3. /\ worker.pc = "copying" /\ worker.source = {} /\ worker.run \in 1 .. last
      /\ last' = last
      /\ worker.run \in DOMAIN runs => Serves(worker.run)
  BY DEF CopyDependency, Inv, WorkerFits, Working
<1>4. s \in Sources /\ worker.copies[s] \in Outcomes
  BY ResultsFacts DEF TypeOK, WorkerStates
<1>5. DOMAIN runs' = DOMAIN runs
  BY WorkerRows DEF Inv
<1>6. ASSUME worker.run \in DOMAIN runs
      PROVE  Serves(worker.run)'
  <2>1. /\ runs'[r].status = runs[r].status /\ runs'[r].deps = runs[r].deps
        /\ DOMAIN runs'[r].results = Completed(r) \union {s}
        /\ runs'[r].results[s] = worker.copies[s]
    BY <1>1, <1>4, <1>6, WrittenRow
  <2>2. /\ runs[r].status = "running"
        /\ DOMAIN worker.copies \subseteq DOMAIN runs[r].deps
        /\ \A t \in DOMAIN runs[r].deps :
             IF t \in DOMAIN worker.copies THEN CopyFits(r, t) ELSE TakenOver(r, t)
    BY <1>3, <1>6 DEF Serves
  <2>3. ASSUME NEW t \in DOMAIN runs[r].deps
        PROVE  IF t \in DOMAIN worker'.copies THEN CopyFits(r, t)' ELSE TakenOver(r, t)'
    <3>1. CASE t \in DOMAIN worker.copies /\ t # s
      <4>1. t \in DOMAIN worker'.copies /\ worker'.copies[t] = worker.copies[t]
        BY <1>2, <3>1
      <4>2. CopyFits(r, t)'
        BY <1>2, <1>5, <1>6, <2>2, <3>1, <4>1, CopyFitsStep
      <4> QED BY <4>1, <4>2
    <3>2. CASE t = s
      <4>1. CopyFits(r, s) /\ s \in DOMAIN runs[r].deps
        BY <2>2, <3>2
      <4>2. PICK d \in 1 .. last :
              /\ d # r /\ d = runs[r].deps[s] /\ d = runs'[r].deps[s]
              /\ ~IsActive(d)'
              /\ d \in DOMAIN runs' => d \in DOMAIN runs /\ runs'[d] = runs[d]
        BY <1>5, <1>6, <4>1, DependencyOf DEF CopyFits
      <4>3. d \in DOMAIN runs => worker.copies[s] = runs[d].results[s]
        BY <4>1, <4>2 DEF CopyFits
      <4>4. TakenOver(r, s)'
        BY <1>2, <2>1, <4>2, <4>3 DEF TakenOver, Completed, IsActive
      <4>5. t \notin DOMAIN worker'.copies
        BY <1>2, <3>2
      <4> QED BY <3>2, <4>4, <4>5
    <3>3. CASE t \notin DOMAIN worker.copies
      <4>1. TakenOver(r, t)'
        BY <1>2, <1>5, <1>6, <2>2, <3>3, TakenOverStep
      <4>2. t \notin DOMAIN worker'.copies
        BY <1>2, <3>3
      <4> QED BY <4>1, <4>2
    <3> QED BY <3>1, <3>2, <3>3
  <2>4. DOMAIN worker'.copies \subseteq DOMAIN runs[r].deps
    BY <1>2, <2>2
  <2> QED BY <1>2, <2>1, <2>2, <2>3, <2>4 DEF Serves
<1> QED BY <1>2, <1>3, <1>5, <1>6 DEF WorkerFits, Working

\* The next source of the worker's run.
LEMMA StartedSource ==
  ASSUME TypeOK, StartSource
  PROVE  \E s \in worker.todo :
           /\ s \in Sources /\ worker.pc = "choosing" /\ worker'.pc = "executing"
           /\ worker'.run = worker.run
           /\ worker'.todo = worker.todo \ {s} /\ worker'.source = {s}
           /\ runs' = runs /\ last' = last
<1>1. PICK s \in worker.todo :
        worker' = [worker EXCEPT !.pc = "executing", !.todo = worker.todo \ {s},
                                 !.source = {s}]
  BY Zenon DEF StartSource
<1>2. worker.pc = "choosing" /\ runs' = runs /\ last' = last
  BY Zenon DEF StartSource
<1> QED BY <1>1, <1>2 DEF TypeOK, WorkerStates

\* The sources that are left are begun, one is executed, its result written.
LEMMA SourcesServe ==
  ASSUME TypeOK, TypeOK', Inv, BeginSources \/ StartSource \/ FinishSource, [Next]_vars
  PROVE  WorkerFits'
<1> DEFINE r == worker.run
<1>1. /\ worker'.run = worker.run /\ worker.run \in 1 .. last /\ last' = last
      /\ DOMAIN runs' = DOMAIN runs
      /\ worker.run \in DOMAIN runs => Serves(worker.run)
      /\ worker'.pc \in {"choosing", "executing"}
  <2>1. CASE BeginSources
    BY <2>1 DEF BeginSources, Inv, WorkerFits, Working, TypeOK, WorkerStates
  <2>2. CASE StartSource
    BY <2>2, StartedSource DEF Inv, WorkerFits, Working
  <2>3. CASE FinishSource
    BY <2>3, WorkerRows DEF FinishSource, Inv, WorkerFits, Working, TypeOK, WorkerStates
  <2> QED BY <2>1, <2>2, <2>3
<1>2. /\ worker'.pc # "executing" => worker'.source = {}
      /\ worker'.pc = "executing" => \E s \in Sources : worker'.source = {s}
  <2>1. CASE BeginSources
    BY <2>1 DEF BeginSources, Inv, WorkerFits, TypeOK, WorkerStates
  <2>2. CASE StartSource
    BY <2>2, StartedSource
  <2>3. CASE FinishSource
    BY <2>3 DEF FinishSource, TypeOK, WorkerStates
  <2> QED BY <2>1, <2>2, <2>3
<1>3. ASSUME worker.run \in DOMAIN runs
      PROVE  Serves(worker.run)'
  <2>1. RunFits(r) /\ Serves(r)
    BY <1>1, <1>3 DEF Inv
  <2>2. \A s \in DOMAIN runs[r].deps : TakenOver(r, s)
    <3>1. \/ worker.pc = "copying" /\ DOMAIN worker.copies = {}
          \/ worker.pc \in {"choosing", "executing"}
      BY Zenon DEF BeginSources, StartSource, FinishSource
    <3> QED BY <2>1, <3>1 DEF Serves
  <2>3. /\ runs'[r].status = "running" /\ runs'[r].exec = runs[r].exec
        /\ runs'[r].deps = runs[r].deps
    <3>1. CASE BeginSources \/ StartSource
      BY <2>1, <3>1, StartedSource DEF Serves, BeginSources
    <3>2. CASE FinishSource
      <4>1. PICK s \in worker.source, o \in Observed : runs' = WithResult(worker.run, s, o)
        BY <3>2 DEF FinishSource
      <4>2. s \in Sources /\ o \in Outcomes
        BY DEF TypeOK, WorkerStates, Outcomes
      <4> QED BY <1>3, <2>1, <4>1, <4>2, WrittenRow DEF Serves
    <3> QED BY <3>1, <3>2
  <2>4. \A s \in DOMAIN runs'[r].deps : TakenOver(r, s)'
    BY <1>1, <1>3, <2>2, <2>3, TakenOverStep
  <2> DEFINE done == DOMAIN runs'[r].results
  <2>5. /\ runs[r].exec \subseteq done \union worker'.todo \union worker'.source
        /\ worker'.todo \union worker'.source \subseteq runs[r].exec
        /\ done \intersect (worker'.todo \union worker'.source) = {}
        /\ worker'.todo \intersect worker'.source = {}
    <3>1. CASE BeginSources
      <4>1. /\ runs' = runs /\ worker'.source = worker.source /\ worker.source = {}
            /\ worker'.todo = runs[r].exec \ DOMAIN runs[r].results
        BY <1>3, <3>1 DEF BeginSources, Remaining, Completed, Inv, WorkerFits,
             TypeOK, WorkerStates
      <4> QED BY <4>1
    <3>2. CASE StartSource
      <4>1. PICK s \in worker.todo :
              /\ worker.pc = "choosing" /\ runs' = runs
              /\ worker'.todo = worker.todo \ {s} /\ worker'.source = {s}
        BY <3>2, StartedSource
      <4>2. /\ runs[r].exec \subseteq Completed(r) \union worker.todo \union worker.source
            /\ worker.todo \subseteq runs[r].exec
            /\ Completed(r) \intersect worker.todo = {} /\ worker.source = {}
        BY <2>1, <4>1 DEF Serves, Inv, WorkerFits
      <4> QED BY <4>1, <4>2 DEF Completed
    <3>3. CASE FinishSource
      <4>1. PICK s \in worker.source, o \in Observed : runs' = WithResult(worker.run, s, o)
        BY <3>3 DEF FinishSource
      <4>2. s \in Sources /\ o \in Outcomes /\ worker.source = {s}
        BY <3>3 DEF FinishSource, Inv, WorkerFits, TypeOK, WorkerStates, Outcomes
      <4>3. done = Completed(r) \union {s}
        BY <1>3, <4>1, <4>2, WrittenRow
      <4>4. worker'.todo = worker.todo /\ worker'.source = {}
        BY <3>3 DEF FinishSource, TypeOK, WorkerStates
      <4>5. /\ runs[r].exec \subseteq Completed(r) \union worker.todo \union worker.source
            /\ worker.todo \subseteq runs[r].exec
            /\ Completed(r) \intersect worker.todo = {}
            /\ worker.todo \intersect worker.source = {}
        BY <2>1, <3>3 DEF Serves, FinishSource
      <4> HIDE DEF done
      <4> QED BY <4>2, <4>3, <4>4, <4>5
    <3> QED BY <3>1, <3>2, <3>3
  <2> QED BY <1>1, <2>3, <2>4, <2>5 DEF Serves, Completed
<1> QED BY <1>1, <1>2, <1>3 DEF WorkerFits, Working

\* The worker's run stays its run, and nothing of it is forgotten.
LEMMA WorkerFitsStep ==
  ASSUME TypeOK, TypeOK', Inv, [Next]_vars
  PROVE  WorkerFits'
<1>1. CASE worker' \in {Idle, Down}
  BY <1>1 DEF WorkerFits, Working, Idle, Down
<1>2. CASE /\ worker' = worker
           /\ \A r \in DOMAIN runs : r \in DOMAIN runs' => runs'[r] = runs[r]
  <2>1. ASSUME Working, worker.run \in DOMAIN runs'
        PROVE  Serves(worker.run)'
    <3> DEFINE r == worker.run
    <3>1. r \in DOMAIN runs /\ Serves(r)
      BY <2>1, RowsContinue DEF Inv, WorkerFits
    <3>2. runs'[r] = runs[r]
      BY <1>2, <2>1, <3>1
    <3>3. \A s \in DOMAIN runs[r].deps :
            /\ TakenOver(r, s) => TakenOver(r, s)'
            /\ CopyFits(r, s) => CopyFits(r, s)'
      BY <1>2, <2>1, <3>1, TakenOverStep, CopyFitsStep
    <3> QED BY <1>2, <3>1, <3>2, <3>3 DEF Serves, Completed
  <2>2. Working' => Working /\ worker'.run \in 1 .. last'
    BY <1>2, RowsContinue DEF Working, Inv, WorkerFits, TypeOK
  <2> QED BY <1>2, <2>1, <2>2 DEF Inv, WorkerFits
<1> QED BY <1>1, <1>2, WorkerKinds, ClaimServes, CopyServes, SourcesServe

\* Each source of a run stays executed or taken from a run that has it.
LEMMA FitsStep ==
  ASSUME TypeOK, TypeOK', Inv, [Next]_vars, NEW r \in DOMAIN runs'
  PROVE  RunFits(r)'
<1> USE DEF Completed
<1>1. /\ WorkerFits /\ \A t \in DOMAIN runs : RunFits(t)
  BY DEF Inv
<1>2. CASE r \in DOMAIN runs /\ Continues(r)
  <2>1. RunFits(r)
    BY <1>1, <1>2
  <2>2. DOMAIN runs'[r].results \subseteq runs'[r].src
    BY <1>2, CompletedStep DEF Continues
  <2>3. ASSUME NEW s \in DOMAIN runs'[r].deps
        PROVE  LET d == runs'[r].deps[s] IN
               d < r /\ (d \in DOMAIN runs' => s \in runs'[d].src)
    <3> DEFINE d == runs[r].deps[s]
    <3>1. runs'[r].deps[s] = d /\ s \in DOMAIN runs[r].deps
      BY <1>2, <2>3 DEF Continues
    <3>2. /\ d < r /\ d \in 1 .. last
          /\ d \in DOMAIN runs => s \in runs[d].src
      BY <1>2, <2>1, <3>1, RowType DEF RunFits, TypeOK
    <3>3. d \in DOMAIN runs' => d \in DOMAIN runs /\ Continues(d)
      BY <1>1, <3>2, RowsContinue DEF TypeOK
    <3> QED BY <3>1, <3>2, <3>3 DEF Continues
  <2> QED BY <1>2, <2>1, <2>2, <2>3 DEF RunFits, Continues
<1>3. CASE r = last + 1 /\ r \notin DOMAIN runs /\ Appends
  <2> DEFINE n == runs'[last + 1]
  <2>1. /\ n.results = NoResults
        /\ n.exec \intersect DOMAIN n.deps = {}
        /\ n.exec \union DOMAIN n.deps = n.src
    BY <1>3, AppendedRows
  <2>2. ASSUME NEW s \in DOMAIN n.deps
        PROVE  n.deps[s] < r /\ (n.deps[s] \in DOMAIN runs' => s \in runs'[n.deps[s]].src)
    <3>1. n.deps[s] \in Active /\ s \in runs[n.deps[s]].src
      BY <1>3, <2>2, AppendedRows
    <3>2. n.deps[s] \in 1 .. last
      BY <3>1, RowType DEF Active
    <3>3. n.deps[s] # last + 1 /\ n.deps[s] < r
      BY <1>3, <3>2 DEF TypeOK
    <3> QED BY <1>3, <3>1, <3>3, AppendedRows DEF Continues
  <2> QED BY <1>3, <2>1, <2>2 DEF RunFits, NoResults
<1> QED BY <1>1, <1>2, <1>3, RowsContinue

\* Paid work stays disjoint: what active runs have still to execute.
LEMMA DuplicateStep ==
  ASSUME TypeOK, Inv, [Next]_vars
  PROVE  NoDuplicateExecution'
<1> USE DEF Completed
<1> DEFINE Left(r) == runs[r].exec \ DOMAIN runs[r].results
           NextLeft(r) == runs'[r].exec \ DOMAIN runs'[r].results
<1>1. /\ WorkerFits /\ NoDuplicateExecution /\ \A t \in DOMAIN runs : RunFits(t)
  BY DEF Inv
<1>2. \A r \in Active' :
        \/ r \in Active /\ NextLeft(r) \subseteq Left(r)
        \/ r = last + 1 /\ Appends
  <2> TAKE r \in Active'
  <2>1. r \in DOMAIN runs' /\ runs'[r].status \in ActiveStatuses
    BY DEF Active
  <2>2. CASE r \in DOMAIN runs /\ Continues(r)
    <3>1. r \in Active
      BY <2>1, <2>2 DEF Active, Continues
    <3>2. NextLeft(r) \subseteq Left(r)
      BY <2>2 DEF Continues
    <3> QED BY <3>1, <3>2
  <2> QED BY <1>1, <2>1, <2>2, RowsContinue
<1>3. ASSUME NEW t \in Active, Appends
      PROVE  NextLeft(last + 1) \intersect Left(t) = {}
  <2>1. Left(t) \subseteq runs[t].src \ DOMAIN runs[t].results
    BY <1>1 DEF RunFits, Active
  <2> QED BY <1>3, <2>1, AppendedRows
<1> QED
  <2> SUFFICES ASSUME NEW r \in Active', NEW t \in Active', r # t
               PROVE  NextLeft(r) \intersect NextLeft(t) = {}
    BY DEF NoDuplicateExecution
  <2>1. CASE r \in Active /\ t \in Active /\ NextLeft(r) \subseteq Left(r)
             /\ NextLeft(t) \subseteq Left(t)
    BY <1>1, <2>1 DEF NoDuplicateExecution
  <2>2. CASE r = last + 1 /\ Appends /\ t \in Active /\ NextLeft(t) \subseteq Left(t)
    BY <1>3, <2>2
  <2>3. CASE t = last + 1 /\ Appends /\ r \in Active /\ NextLeft(r) \subseteq Left(r)
    BY <1>3, <2>3
  <2> QED BY <1>2, <2>1, <2>2, <2>3

-----------------------------------------------------------------------------
\* Room in the queue: the active runs are the newest, so the oldest of them is
\* less than MaxPending behind the next one.
LEMMA RoomFacts ==
  ASSUME TypeOK, Inv, faults = 0, QueueHasRoom, NEW r \in Active
  PROVE  last + 1 - r < MaxPending
<1>1. Active \subseteq 1 .. last /\ last \in Nat
  BY RowType DEF Active, TypeOK
<1>2. IsFiniteSet(Active) /\ Cardinality(Active) \in Nat
  <2>1. IsFiniteSet(1 .. last)
    BY <1>1, FS_Interval
  <2> QED BY <1>1, <2>1, FS_Subset, FS_CardinalityType
<1>3. ASSUME NEW t \in r .. last
      PROVE  t \in Active
  <2>1. r \in DOMAIN runs /\ r \in 1 .. last /\ r > last - MaxRecent
    BY <1>1 DEF Active, TypeOK, Window
  <2>2. t \in 1 .. last /\ t > last - MaxRecent
    BY <1>1, <2>1
  <2>3. t \in DOMAIN runs
    BY <2>2 DEF TypeOK, Window
  <2>4. t = r \/ t > r
    BY <1>1, <2>1
  <2> QED BY <2>3, <2>4 DEF Inv, ActiveAreRecent, ActiveRunsAreNewest
<1>4. Cardinality(r .. last) = last - r + 1
  BY <1>1, FS_Interval
<1>5. Cardinality(r .. last) <= Cardinality(Active)
  <2>1. r .. last \subseteq Active
    BY <1>3
  <2> QED BY <1>2, <2>1, FS_Subset
<1> QED BY <1>1, <1>2, <1>4, <1>5 DEF QueueHasRoom

\* Storage errors are counted, never forgotten.
LEMMA FaultsStep ==
  ASSUME TypeOK, [Next]_vars, faults' = 0
  PROVE  /\ ~StorageError /\ faults = 0
         /\ up' = up \/ Crash \/ (Restart /\ StartsThread)
<1>0. ~StorageError
  BY DEF StorageError, TypeOK
<1> SUFFICES faults' = faults /\ (up' = up \/ Crash \/ (Restart /\ StartsThread))
  BY <1>0
<1>1. CASE \E sel \in Selections : EnqueueManual(sel)
  BY <1>1, Zenon DEF EnqueueManual
<1>2. CASE \E q \in Requests : Ask(q) \/ Poll(q) \/ Deadline(q)
  BY <1>2, Zenon DEF Ask, Create, Poll, Deadline
<1>3. CASE Claim \/ CopyDependency \/ BeginSources \/ StartSource \/ FinishSource
           \/ FinishRun \/ UNCHANGED vars
  BY <1>3, Zenon DEF Claim, CopyDependency, BeginSources, StartSource, FinishSource,
       FinishRun, vars
<1>4. CASE Restart
  <2>1. up' /\ last' = last
    BY <1>4 DEF Restart
  <2>2. CASE StartThread(runs) /\ UNCHANGED faults
    BY <1>4, <2>1, <2>2 DEF StartsThread
  <2>3. CASE faults' = faults + 1
    BY <2>3 DEF TypeOK
  <2> QED BY <1>4, <2>2, <2>3, Zenon DEF Restart
<1>5. CASE Crash
  BY <1>5 DEF Crash
<1> QED BY StepCases, <1>0, <1>1, <1>2, <1>3, <1>4, <1>5

\* A checkpoint leaves statuses and runs as they are, and the worker at its run.
LEMMA CheckpointRows ==
  ASSUME TypeOK, WorkerFits, CopyDependency \/ FinishSource
  PROVE  /\ Working /\ Working' /\ worker'.run = worker.run
         /\ last' = last /\ DOMAIN runs' = DOMAIN runs
         /\ \A r \in DOMAIN runs : runs'[r].status = runs[r].status
<1>1. PICK s \in Sources, o \in Outcomes : runs' = WithResult(worker.run, s, o)
  <2>1. CASE CopyDependency
    BY <2>1, ResultsFacts DEF CopyDependency, TypeOK, WorkerStates
  <2>2. CASE FinishSource
    BY <2>2 DEF FinishSource, TypeOK, WorkerStates, Outcomes
  <2> QED BY <2>1, <2>2
<1>2. /\ last' = last /\ Working /\ Working' /\ worker'.run = worker.run
  <2>1. CASE CopyDependency
    <3>1. PICK c \in DOMAIN worker.copies :
            worker' = [worker EXCEPT !.copies =
                        [t \in DOMAIN worker.copies \ {c} |-> worker.copies[t]]]
      BY <2>1, Zenon DEF CopyDependency
    <3> QED BY <2>1, <3>1 DEF CopyDependency, Working, TypeOK, WorkerStates
  <2>2. CASE FinishSource
    BY <2>2 DEF FinishSource, Working, TypeOK, WorkerStates
  <2> QED BY <2>1, <2>2
<1>3. ASSUME NEW r \in DOMAIN runs
      PROVE  runs'[r].status = runs[r].status
  <2>1. CASE r = worker.run
    BY <1>1, <1>3, <2>1, WrittenRow
  <2>2. CASE r # worker.run
    BY <1>1, <1>3, <2>2, OtherRows
  <2> QED BY <2>1, <2>2
<1>4. DOMAIN runs' = DOMAIN runs
  BY WorkerRows
<1> QED BY <1>2, <1>3, <1>4

\* claim_next_run serves the oldest active run: the one it waits for would be
\* older still.
LEMMA ClaimOldest ==
  ASSUME TypeOK, Inv, Claim, OneIsServed
  PROVE  OneIsServed'
<1>1. PICK r \in Queued :
        /\ DependenciesFinished(r)
        /\ \A e \in Queued : e < r => ~DependenciesFinished(e)
        /\ runs' = [runs EXCEPT ![r].status = "running"]
        /\ worker'.pc = "copying" /\ worker'.run = r
  BY ClaimedRun, Zenon
<1>2. /\ r \in DOMAIN runs /\ r \in 1 .. last /\ DOMAIN runs' = DOMAIN runs
      /\ runs'[r].status = "running"
      /\ \A t \in DOMAIN runs \ {r} : runs'[t] = runs[t]
  BY <1>1, RowType DEF Queued, TypeOK, Runs
<1>3. \A t \in DOMAIN runs : runs[t].status # "running"
  BY DEF OneIsServed, Claim, Working
<1>4. Active' = Active /\ r \in Active
  BY <1>1, <1>2 DEF Active, ActiveStatuses, Queued
<1>5. ASSUME NEW e \in Active
      PROVE  r <= e
  <2>1. Active \in SUBSET Nat /\ Active # {}
    <3>1. \A t \in Active : t \in Nat
      BY RowType DEF Active, TypeOK
    <3> QED BY <1>5, <3>1
  <2>2. PICK m \in Active : \A t \in Active : m <= t
    BY <2>1, MinFacts
  <2>3. m \in Queued
    BY <1>3 DEF Active, ActiveStatuses, Queued
  <2>4. DependenciesFinished(m)
    <3> SUFFICES ASSUME NEW s \in DOMAIN runs[m].deps
                 PROVE  ~IsActive(runs[m].deps[s])
      BY DEF DependenciesFinished
    <3>1. PICK d : d = runs[m].deps[s]
      OBVIOUS
    <3>2. d < m /\ d \in Nat /\ m \in Nat
      BY <2>1, <3>1, RowType DEF Inv, RunFits, Active, TypeOK
    <3>3. d \notin Active
      BY <2>2, <3>2
    <3> QED BY <3>1, <3>3 DEF Active, IsActive
  <2>5. ~(m < r)
    BY <1>1, <2>3, <2>4
  <2> QED BY <1>2, <2>1, <2>2, <2>5
<1>6. \A t \in DOMAIN runs' : runs'[t].status = "running" => t = r
  BY <1>2, <1>3
<1> QED BY <1>1, <1>4, <1>5, <1>6 DEF OneIsServed, Working

\* Without a storage error one run is running, the worker's, the oldest.
LEMMA ServedStep ==
  ASSUME TypeOK, TypeOK', Inv, [Next]_vars, faults' = 0
  PROVE  OneIsServed'
<1>1. /\ OneIsServed /\ WorkerFits /\ faults = 0 /\ ~StorageError
      /\ up' = up \/ Crash \/ (Restart /\ StartsThread)
  BY FaultsStep DEF Inv, OldestIsServed
<1>2. CASE Appends
  <2>1. /\ worker.pc # "down" /\ worker' = worker /\ last \in Nat
        /\ DOMAIN runs' = Window(last + 1) /\ runs'[last + 1].status = "queued"
        /\ \A t \in DOMAIN runs' \ {last + 1} : t \in DOMAIN runs /\ runs'[t] = runs[t]
    BY <1>1, <1>2, AppendedRows DEF OneIsServed, TypeOK
  <2>2. \A t \in DOMAIN runs' :
          runs'[t].status = "running" => Working /\ worker.run = t
    BY <1>1, <2>1 DEF OneIsServed
  <2>3. ASSUME Working
        PROVE  worker.run \in Active' /\ \A t \in Active' : worker.run <= t
    <3>1. /\ worker.run \in Active /\ \A t \in Active : worker.run <= t
          /\ worker.run \in 1 .. last /\ last - worker.run < MaxPending
      BY <1>1, <2>3, RowType DEF OneIsServed, Active, Inv, ActiveAreRecent
    <3>2. worker.run \in Window(last + 1) /\ worker.run # last + 1
      BY <2>1, <3>1 DEF Window
    <3>3. worker.run \in Active'
      BY <2>1, <3>1, <3>2 DEF Active
    <3>4. \A t \in Active' : t \in Active \/ t = last + 1
      BY <2>1 DEF Active
    <3>5. worker.run <= last + 1
      BY <2>1, <3>1
    <3> QED BY <3>1, <3>3, <3>4, <3>5
  <2> QED BY <2>1, <2>2, <2>3 DEF OneIsServed, Working
<1>3. CASE StartsThread
  <2>1. /\ DOMAIN runs' = DOMAIN runs
        /\ worker.pc # "down" => worker' = worker /\ \A r \in DOMAIN runs : runs'[r] = runs[r]
        /\ worker.pc = "down" => worker' = Idle /\ \A r \in DOMAIN runs : runs'[r].status # "running"
    BY <1>3, StartedRows
  <2>2. CASE worker.pc = "down"
    <3>1. worker'.pc = "idle"
      BY <2>1, <2>2 DEF Idle, Down
    <3> QED BY <2>1, <2>2, <3>1 DEF OneIsServed, Working
  <2>3. CASE worker.pc # "down"
    <3>1. Active' = Active
      BY <2>1, <2>3 DEF Active
    <3> QED BY <1>1, <2>1, <2>3, <3>1 DEF OneIsServed, Working
  <2> QED BY <2>2, <2>3
<1>4. CASE Claim
  BY <1>1, <1>4, ClaimOldest
<1>5. CASE CopyDependency \/ FinishSource
  <2>1. /\ Working /\ Working' /\ worker'.run = worker.run
        /\ DOMAIN runs' = DOMAIN runs
        /\ \A r \in DOMAIN runs : runs'[r].status = runs[r].status
    BY <1>1, <1>5, CheckpointRows
  <2>2. Active' = Active
    BY <2>1 DEF Active
  <2>3. worker'.pc # "down"
    BY <2>1 DEF Working
  <2>4. /\ worker.run \in Active /\ \A r \in Active : worker.run <= r
        /\ \A r \in DOMAIN runs : runs[r].status = "running" => worker.run = r
    BY <1>1, <2>1 DEF OneIsServed, Working
  <2> QED BY <2>1, <2>2, <2>3, <2>4 DEF OneIsServed
<1>6. CASE BeginSources \/ StartSource
  <2>1. /\ Working /\ Working' /\ worker'.run = worker.run /\ runs' = runs
    <3>1. CASE BeginSources
      BY <3>1 DEF BeginSources, Working, TypeOK, WorkerStates
    <3>2. CASE StartSource
      BY <3>2, StartedSource DEF Working
    <3> QED BY <1>6, <3>1, <3>2
  <2>2. Active' = Active
    BY <2>1 DEF Active
  <2>3. worker'.pc # "down"
    BY <2>1 DEF Working
  <2>4. /\ worker.run \in Active /\ \A r \in Active : worker.run <= r
        /\ \A r \in DOMAIN runs : runs[r].status = "running" => worker.run = r
    BY <1>1, <2>1 DEF OneIsServed, Working
  <2> QED BY <2>1, <2>2, <2>3, <2>4 DEF OneIsServed
<1>7. CASE FinishRun
  <2>1. /\ DOMAIN runs' = DOMAIN runs
        /\ \A r \in DOMAIN runs : r # worker.run => runs'[r] = runs[r]
        /\ worker.run \in DOMAIN runs => runs'[worker.run].status \notin ActiveStatuses
    BY <1>7, FinishFacts
  <2>2. worker'.pc = "idle" /\ worker.pc # "down"
    BY <1>7 DEF FinishRun, Idle, Down
  <2>3. \A r \in DOMAIN runs' : runs'[r].status # "running"
    BY <1>1, <2>1, <2>2 DEF OneIsServed, ActiveStatuses
  <2> QED BY <2>2, <2>3 DEF OneIsServed, Working
<1>8. CASE Crash
  <2>1. ~up' /\ worker'.pc = "down"
    BY <1>8 DEF Crash, Down
  <2> QED BY <2>1 DEF OneIsServed, Working
<1>9. CASE UNCHANGED <<runs, worker, up>>
  BY <1>1, <1>9 DEF OneIsServed, Working, Active
<1>10. CASE \E sel \in Selections : EnqueueManual(sel)
  BY <1>2, <1>3, <1>10, ManualStep
<1>11. CASE \E q \in Requests : Ask(q)
  BY <1>2, <1>3, <1>11, AskStep
<1>12. CASE (\E q \in Requests : Poll(q) \/ Deadline(q)) \/ UNCHANGED vars
  BY <1>9, <1>12, Zenon DEF Poll, Deadline, vars
<1>13. CASE Restart
  <2>1. StartsThread
    BY <1>1, <1>13 DEF Crash, Restart
  <2> QED BY <1>3, <2>1
<1> QED BY StepCases, <1>1, <1>4, <1>5, <1>6, <1>7, <1>8, <1>10, <1>11, <1>12, <1>13

\* The worker thread is down while the service is.
LEMMA OldestStep ==
  ASSUME TypeOK, TypeOK', Inv, [Next]_vars
  PROVE  OldestIsServed'
<1>1. ~up => worker.pc = "down"
  BY DEF Inv, OldestIsServed
<1>3. CASE Claim \/ CopyDependency \/ BeginSources \/ StartSource \/ FinishSource
           \/ FinishRun \/ StorageError
  <2>1. worker.pc # "down" /\ up' = up
    BY <1>3, Zenon DEF Claim, CopyDependency, BeginSources, StartSource, FinishSource,
         FinishRun, StorageError
  <2>2. up'
    BY <1>1, <2>1
  <2> QED BY <2>2, ServedStep DEF OldestIsServed
<1>4. CASE Crash
  BY <1>4, ServedStep DEF Crash, Down, OldestIsServed
<1>5. CASE UNCHANGED <<up, worker>>
  BY <1>1, <1>5, ServedStep DEF OldestIsServed
<1>6. CASE Restart
  BY <1>6, ServedStep DEF Restart, OldestIsServed
<1>7. CASE \E sel \in Selections : EnqueueManual(sel)
  BY <1>7, ManualStep, AppendedRows, ServedStep DEF StartsThread, OldestIsServed
<1>8. CASE \E q \in Requests : Ask(q)
  BY <1>8, AskStep, AppendedRows, ServedStep DEF StartsThread, OldestIsServed
<1>9. CASE (\E q \in Requests : Poll(q) \/ Deadline(q)) \/ UNCHANGED vars
  BY <1>5, <1>9, Zenon DEF Poll, Deadline, vars
<1> QED BY StepCases, <1>3, <1>4, <1>6, <1>7, <1>8, <1>9

\* The active runs stay the newest and wait only for recent ones.
LEMMA RecentStep ==
  ASSUME TypeOK, TypeOK', Inv, [Next]_vars
  PROVE  ActiveAreRecent'
<1> SUFFICES ASSUME faults' = 0
             PROVE  /\ ActiveRunsAreNewest'
                    /\ \A r \in Active' :
                         /\ last' - r < MaxPending
                         /\ \A s \in DOMAIN runs'[r].deps :
                              r - runs'[r].deps[s] < MaxPending
  BY DEF ActiveAreRecent
<1>1. /\ faults = 0 /\ WorkerFits /\ OneIsServed
      /\ \A r \in Active, t \in DOMAIN runs : t > r => t \in Active
      /\ \A r \in Active :
           /\ last - r < MaxPending
           /\ \A s \in DOMAIN runs[r].deps : r - runs[r].deps[s] < MaxPending
  BY FaultsStep DEF Inv, ActiveAreRecent, ActiveRunsAreNewest, OldestIsServed
<1>2. CASE Appends
  <2>1. /\ last' = last + 1 /\ DOMAIN runs' = Window(last + 1) /\ last \in Nat
        /\ QueueHasRoom /\ last + 1 \in DOMAIN runs'
        /\ runs'[last + 1].status = "queued"
        /\ \A s \in DOMAIN runs'[last + 1].deps : runs'[last + 1].deps[s] \in Active
        /\ \A t \in DOMAIN runs' \ {last + 1} :
             /\ t \in DOMAIN runs /\ runs'[t].deps = runs[t].deps
             /\ runs'[t].status \in ActiveStatuses <=> runs[t].status \in ActiveStatuses
    BY <1>2, AppendedRows DEF Continues, TypeOK
  <2>2. \A t \in DOMAIN runs' : t \in Active' <=> t = last + 1 \/ t \in Active
    BY <2>1 DEF Active, ActiveStatuses
  <2>3. \A r \in Active : r \in 1 .. last /\ last + 1 - r < MaxPending
    BY <1>1, <2>1, RoomFacts, RowType DEF Active
  <2>4. \A r \in Active' : r = last + 1 \/ r \in Active
    BY <2>2 DEF Active
  <2>5. ASSUME NEW r \in Active', NEW t \in DOMAIN runs', t > r
        PROVE  t \in Active'
    <3>1. CASE t = last + 1
      BY <2>2, <3>1
    <3>2. CASE t # last + 1
      <4>1. t \in DOMAIN runs /\ t \in 1 .. last /\ r # last + 1
        BY <2>1, <2>5, <3>2, RowType
      <4> QED BY <1>1, <2>2, <2>4, <2>5, <4>1
    <3> QED BY <3>1, <3>2
  <2>6. ASSUME NEW r \in Active'
        PROVE  /\ last' - r < MaxPending
               /\ \A s \in DOMAIN runs'[r].deps : r - runs'[r].deps[s] < MaxPending
    <3>1. CASE r = last + 1
      BY <2>1, <2>3, <3>1
    <3>2. CASE r # last + 1
      <4>1. r \in Active /\ r \in DOMAIN runs' \ {last + 1}
        BY <2>4, <3>2 DEF Active
      <4> QED BY <1>1, <2>1, <2>3, <4>1
    <3> QED BY <3>1, <3>2
  <2> QED BY <2>5, <2>6 DEF ActiveRunsAreNewest
<1>3. CASE /\ last' = last /\ DOMAIN runs' = DOMAIN runs
           /\ \A r \in DOMAIN runs : runs'[r].deps = runs[r].deps
           /\ \/ Active' = Active
              \/ /\ Active' = Active \ {worker.run}
                 /\ \A r \in Active : worker.run <= r
  <2>1. ASSUME NEW r \in Active', NEW t \in DOMAIN runs', t > r
        PROVE  t \in Active'
    <3>1. t \in Active /\ r \in Active
      BY <1>1, <1>3, <2>1
    <3>2. r \in Int /\ t \in Int
      BY <3>1, RowType DEF Active
    <3>3. CASE Active' = Active \ {worker.run} /\ \A e \in Active : worker.run <= e
      BY <2>1, <3>1, <3>2, <3>3, RowType
    <3> QED BY <1>3, <3>1, <3>3
  <2>2. \A r \in Active' : r \in Active /\ r \in DOMAIN runs
    BY <1>3 DEF Active
  <2> QED BY <1>1, <1>3, <2>1, <2>2 DEF ActiveRunsAreNewest
<1>4. CASE StartsThread
  <2>1. /\ last' = last /\ DOMAIN runs' = DOMAIN runs
        /\ \A r \in DOMAIN runs :
             /\ runs'[r].deps = runs[r].deps
             /\ runs'[r].status \in ActiveStatuses <=> runs[r].status \in ActiveStatuses
    BY <1>4, StartedRows DEF Continues
  <2>2. Active' = Active
    BY <2>1 DEF Active
  <2> QED BY <1>3, <2>1, <2>2
<1>5. CASE Claim \/ CopyDependency \/ FinishSource
  <2>1. last' = last
    BY <1>5, Zenon DEF Claim, CopyDependency, FinishSource
  <2>2. DOMAIN runs' = DOMAIN runs /\ \A r \in DOMAIN runs : Continues(r)
    BY <1>1, <1>5, WorkerRows
  <2>3. ~FinishRun
    BY <1>5, Zenon DEF Claim, CopyDependency, FinishSource, FinishRun
  <2>4. \A r \in Active : r \in Active'
    BY <1>1, <2>2, <2>3, EndsOnce DEF Active
  <2>5. Active' = Active
    BY <2>2, <2>4 DEF Active, Continues
  <2> QED BY <1>3, <2>1, <2>2, <2>5 DEF Continues
<1>6. CASE FinishRun
  <2>1. last' = last /\ Working
    BY <1>6 DEF FinishRun, Working
  <2>2. DOMAIN runs' = DOMAIN runs /\ \A r \in DOMAIN runs : Continues(r)
    BY <1>1, <1>6, WorkerRows
  <2>3. /\ \A r \in DOMAIN runs : r # worker.run => runs'[r] = runs[r]
        /\ worker.run \in DOMAIN runs => runs'[worker.run].status \notin ActiveStatuses
    BY <1>6, FinishFacts
  <2>4. Active' = Active \ {worker.run}
    BY <2>2, <2>3 DEF Active
  <2>5. \A r \in Active : worker.run <= r
    BY <1>1, <2>1 DEF OneIsServed
  <2> QED BY <1>3, <2>1, <2>2, <2>4, <2>5 DEF Continues
<1>7. CASE runs' = runs /\ last' = last
  <2>1. Active' = Active
    BY <1>7 DEF Active
  <2> QED BY <1>3, <1>7, <2>1
<1> QED BY <1>2, <1>4, <1>5, <1>6, <1>7, StepKinds

\* The ledger knows every request that has been answered.
LEMMA LedgerStep ==
  ASSUME TypeOK, Inv, [Next]_vars, NEW p \in Requests
  PROVE  /\ client[p].run # 0 => client'[p].run = client[p].run
         /\ client'[p].run # 0 => ledger'[p] = client'[p].run
<1>1. /\ client[p].run # 0 => ledger[p] = client[p].run
      /\ ledger \in [Requests -> 0 .. last] /\ client \in [Requests -> ClientStates]
  BY DEF Inv, LedgerKnows, TypeOK
<1>2. ASSUME NEW q \in Requests, Ask(q)
      PROVE  /\ client[p].run # 0 => client'[p].run = client[p].run
             /\ client'[p].run # 0 => ledger'[p] = client'[p].run
  <2>1. PICK r \in 1 .. last + 1 :
          /\ ledger' = [ledger EXCEPT ![q] = r]
          /\ ledger[q] # 0 => r = ledger[q]
          /\ client' = client \/ client' = Polling(q, r)
    BY <1>2, AskStep
  <2>2. CASE p # q
    BY <1>1, <2>1, <2>2 DEF Polling
  <2>3. CASE p = q /\ client' = client
    BY <1>1, <2>1, <2>3
  <2>4. CASE p = q /\ client' = Polling(q, r)
    <3>1. client'[p].run = r
      BY <1>1, <2>4 DEF Polling, ClientStates
    <3> QED BY <1>1, <2>1, <2>4, <3>1
  <2> QED BY <2>1, <2>2, <2>3, <2>4
<1>3. ASSUME NEW q \in Requests, Poll(q) \/ Deadline(q)
      PROVE  /\ client[p].run # 0 => client'[p].run = client[p].run
             /\ client'[p].run # 0 => ledger'[p] = client'[p].run
  <2>1. ledger' = ledger /\ \E phase : client' = [client EXCEPT ![q].phase = phase]
    BY <1>3 DEF Poll, Deadline
  <2>2. client'[p].run = client[p].run
    BY <1>1, <2>1 DEF ClientStates
  <2> QED BY <1>1, <2>1, <2>2
<1>4. CASE UNCHANGED <<ledger, client>>
  BY <1>1, <1>4
<1>5. CASE \/ \E sel \in Selections : EnqueueManual(sel)
           \/ Claim \/ CopyDependency \/ BeginSources \/ StartSource
           \/ FinishSource \/ FinishRun \/ StorageError \/ Crash \/ Restart
           \/ UNCHANGED vars
  BY <1>4, <1>5, Zenon DEF EnqueueManual, Claim, CopyDependency, BeginSources,
     StartSource, FinishSource, FinishRun, StorageError, Crash, Restart, vars
<1> QED BY StepCases, <1>2, <1>3, <1>5

\* The strengthened invariant is inductive.
LEMMA InvStep ==
  ASSUME TypeOK, Inv, [Next]_vars
  PROVE  TypeOK' /\ Inv'
<1>1. TypeOK' /\ FailuresCounted'
  BY TypeStep DEF Inv
<1>2. \A r \in DOMAIN runs' : RunFits(r)'
  BY <1>1, FitsStep
<1>3. \A r \in DOMAIN runs' \ Active' : Ended(r)'
  BY EndedStep
<1>4. WorkerFits' /\ OldestIsServed' /\ ActiveAreRecent' /\ NoDuplicateExecution'
  BY <1>1, WorkerFitsStep, OldestStep, RecentStep, DuplicateStep
<1>5. LedgerKnows'
  BY LedgerStep DEF LedgerKnows
<1> QED BY <1>1, <1>2, <1>3, <1>4, <1>5 DEF Inv

\* What the theorems below follow from: in every reachable state each run fits,
\* the worker serves the oldest, and the active runs are recent.
THEOREM InvHolds == Spec => [](TypeOK /\ Inv)
<1>1. Init => TypeOK /\ Inv
  <2> SUFFICES ASSUME Init PROVE TypeOK /\ Inv
    OBVIOUS
  <2>1. runs \in [Window(last) -> Runs] /\ DOMAIN runs = {}
    BY DEF Init, Window
  <2>2. client \in [Requests -> ClientStates] /\ \A q \in Requests : client[q].run = 0
    BY DEF Init, ClientStates
  <2>3. TypeOK
    BY <2>1, <2>2, IdleType DEF Init, TypeOK
  <2>4. /\ worker.pc = "idle" /\ worker.source = {} /\ up /\ crashes = 0 /\ faults = 0
    BY DEF Init, Idle, Down
  <2>5. Active = {}
    BY <2>1 DEF Active
  <2> QED BY <2>1, <2>2, <2>3, <2>4, <2>5
          DEF Inv, WorkerFits, Working, OldestIsServed, OneIsServed, ActiveAreRecent,
              ActiveRunsAreNewest, LedgerKnows, FailuresCounted, NoDuplicateExecution
<1> QED BY <1>1, InvStep, PTL DEF Spec

\* The paid parsers never run twice for the same source at once: whatever two
\* active runs have still to execute is disjoint, across requests,
\* administrators, crashes and storage errors (ParserControlStore.enqueue).
THEOREM NoDuplicates == Spec => []NoDuplicateExecution
<1>1. Inv => NoDuplicateExecution
  BY DEF Inv
<1> QED BY <1>1, InvHolds, PTL

\* No queued or running run is cut off the list of MAX_RECENT_RUNS, no result
\* another run waits for is, and a run that has ended has a result for each of
\* its sources, equal to its dependency's.
THEOREM WorkIsKept == Spec => []NoWorkIsLost
<1>1. ASSUME TypeOK, Inv
      PROVE  NoWorkIsLost
  <2>1. ActiveRunsAreNewest
    BY <1>1 DEF Inv, ActiveAreRecent, ActiveRunsAreNewest
  <2>2. DependenciesKept
    <3> SUFFICES ASSUME NEW r \in Active, NEW s \in DOMAIN runs[r].deps, faults = 0
                 PROVE  /\ runs[r].deps[s] \in DOMAIN runs
                        /\ ~IsActive(runs[r].deps[s]) => s \in Completed(runs[r].deps[s])
      BY DEF DependenciesKept
    <3>1. PICK d : d = runs[r].deps[s]
      OBVIOUS
    <3>2. /\ r \in DOMAIN runs /\ r \in 1 .. last /\ d \in 1 .. MaxRuns /\ d < r
          /\ last - r < MaxPending /\ r - d < MaxPending
          /\ d \in DOMAIN runs => s \in runs[d].src
      BY <1>1, <3>1, RowType DEF Inv, ActiveAreRecent, RunFits, Active
    <3>3. d \in DOMAIN runs
      BY <1>1, <3>2 DEF TypeOK, Window
    <3>4. ~IsActive(d) => s \in Completed(d)
      BY <1>1, <3>2, <3>3 DEF Inv, Ended, IsActive, Active
    <3> QED BY <3>1, <3>3, <3>4
  <2>3. EndedRunsAreComplete
    <3> SUFFICES ASSUME NEW r \in DOMAIN runs \ Active
                 PROVE  /\ Completed(r) = runs[r].src
                        /\ \A s \in DOMAIN runs[r].deps :
                             LET d == runs[r].deps[s] IN
                             d \in DOMAIN runs => /\ s \in Completed(d)
                                                  /\ runs[r].results[s] = runs[d].results[s]
      BY DEF EndedRunsAreComplete
    <3>1. Ended(r) /\ RunFits(r)
      BY <1>1 DEF Inv
    <3>2. ASSUME NEW s \in DOMAIN runs[r].deps, runs[r].deps[s] \in DOMAIN runs
          PROVE  /\ s \in Completed(runs[r].deps[s])
                 /\ runs[r].results[s] = runs[runs[r].deps[s]].results[s]
      <4>1. TakenOver(r, s)
        BY <3>1 DEF Ended
      <4>2. Ended(runs[r].deps[s])
        BY <1>1, <3>2, <4>1 DEF Inv, TakenOver, IsActive, Active
      <4> QED BY <3>1, <3>2, <4>1, <4>2 DEF TakenOver, Ended, RunFits
    <3> QED BY <3>1, <3>2 DEF Ended
  <2> QED BY <1>1, <2>1, <2>2, <2>3 DEF NoWorkIsLost
<1> QED BY <1>1, InvHolds, PTL

\* A task that asks again with its request id, after a lost answer or a passed
\* deadline, is given the run it had (_record_orchestrator_request).
THEOREM RequestsAreIdempotent == Spec => OneRunPerRequest
<1>1. TypeOK /\ Inv /\ [Next]_vars =>
        [\A q \in Requests : client[q].run # 0 => client'[q].run = client[q].run]_vars
  BY LedgerStep
<1> QED BY <1>1, InvHolds, PTL DEF Spec, OneRunPerRequest

\* A run that is resumed after a crash does not execute a checkpointed source
\* again (process_next skips the sources that have a result).
THEOREM CheckpointsHold == Spec => CheckpointsAreFinal
<1> DEFINE Final == worker.pc # "executing" /\ worker'.pc = "executing"
                      /\ worker'.run \in DOMAIN runs
                    => worker'.source \intersect Completed(worker'.run) = {}
<1>1. ASSUME TypeOK, Inv, [Next]_vars
      PROVE  Final
  <2>1. CASE StartSource
    <3>1. PICK s \in worker.todo :
            /\ worker.pc = "choosing" /\ worker'.run = worker.run /\ worker'.source = {s}
      BY <1>1, <2>1, StartedSource
    <3>2. worker.run \in DOMAIN runs => s \notin Completed(worker.run)
      BY <1>1, <3>1 DEF Inv, WorkerFits, Working, Serves
    <3> QED BY <3>1, <3>2
  <2>2. CASE Claim
    BY <1>1, <2>2, ClaimedRun
  <2>3. CASE CopyDependency \/ BeginSources \/ FinishSource
    BY <1>1, <2>3 DEF CopyDependency, BeginSources, FinishSource, TypeOK, WorkerStates
  <2>4. CASE worker' \in {Idle, Down} \/ worker' = worker
    BY <2>4 DEF Idle, Down
  <2> QED BY <1>1, <2>1, <2>2, <2>3, <2>4, WorkerKinds
<1> QED BY <1>1, InvHolds, PTL DEF Spec, CheckpointsAreFinal

-----------------------------------------------------------------------------
(* The ledger of the scheduled work (ScheduleLedger).                       *)

HIDE QueueAssumption

CONSTANTS Schedules, Deployments, FirstDeployment, Nominal, Refreshes, EarlyOnly, Horizons,
          Life, Untils, MaxTime, MaxChanges

VARIABLES time, deployed, switched, until, windows, book, timers, part, results, claims, moves

Sched == INSTANCE ScheduleLedger WITH
  now <- time, tracked <- deployed, enabled <- switched, earlyUntil <- until, rows <- windows,
  ledger <- book, run <- timers, attempts <- results, runs <- claims, changes <- moves

Windows == [sch : Schedules, at : Nat, src : Sources, eligible : BOOLEAN,
            cohort : Sched!Cohorts, recorded : Nat]
Books == [cohort : Sched!Cohorts, through : Nat]
Attempts == [sch : Schedules, at : Nat, src : Sources, outcome : Sched!Outcomes, finished : Nat]

LedgerTyped ==
  /\ time \in 0 .. MaxTime
  /\ deployed \in Deployments /\ switched \in SUBSET Sources /\ until \in Untils
  /\ windows \in SUBSET Windows /\ IsFiniteSet(windows)
  /\ book = {} \/ \E l \in Books : book = {l}
  /\ timers \in [Schedules -> Nat] /\ part \in [Schedules -> Nat]
  /\ results \in SUBSET Attempts
  /\ claims \in 0 .. MaxRuns /\ moves \in 0 .. MaxChanges

SlotsOnce == \A r, q \in windows : Sched!SameSlot(r, q) => r = q

\* A row was decided before its time, as its cohort says.
RowsFit ==
  \A r \in windows :
    /\ r.recorded <= r.at /\ r.cohort.start <= r.at
    /\ r.eligible => r.src \in r.cohort.config.on
    /\ r.sch \notin EarlyOnly /\ r.src \in r.cohort.config.on => r.eligible

\* The coverage of l has a row of its cohort for each occurrence, and no row of another
\* cohort is in its way.
Covered(l) ==
  /\ l.cohort.start <= time /\ l.cohort.start <= l.through
  /\ \A r \in windows : l.cohort.config.tracked[r.sch] # {} /\ l.cohort.start < r.at =>
       r.cohort = l.cohort /\ r.at < l.through
  /\ \A sch \in Schedules : \A src \in l.cohort.config.tracked[sch] : \A t \in Nominal[sch] :
       l.cohort.start < t /\ t < l.through =>
         \E r \in windows : r.sch = sch /\ r.src = src /\ r.at = t /\ r.cohort = l.cohort

BookFits == (book = {} => windows = {}) /\ \A l \in book : Covered(l)

HasRow(sch, t, src) == \E r \in windows : r.sch = sch /\ r.at = t /\ r.src = src

TimersFit ==
  \A sch \in Schedules : timers[sch] # 0 =>
    timers[sch] <= time /\ \A src \in deployed[sch] : HasRow(sch, timers[sch], src)

ResultsFit ==
  \A a \in results : a.at <= a.finished /\ a.finished <= time /\ HasRow(a.sch, a.at, a.src)

LedgerSound ==
  LedgerTyped /\ SlotsOnce /\ RowsFit /\ BookFits /\ TimersFit /\ ResultsFit

LEMMA ScheduleConstants ==
  ASSUME Sched!LedgerAssumption
  PROVE  /\ IsFiniteSet(Schedules) /\ IsFiniteSet(Sources)
         /\ \A d \in Deployments : d \in [Schedules -> SUBSET Sources]
         /\ FirstDeployment \in Deployments
         /\ \A sch \in Schedules : \A t \in Nominal[sch] : t \in Nat /\ t > 0
         /\ \A h \in Horizons : h \in Nat
         /\ \A u \in Untils : u \in Nat
         /\ Life \in Nat /\ MaxTime \in Nat /\ MaxRuns \in Nat /\ MaxChanges \in Nat
<1>1. IsFiniteSet(Schedules) /\ IsFiniteSet(Sources)
  BY Zenon DEF Sched!LedgerAssumption, Sched!IsFiniteSet, IsFiniteSet
<1>2. /\ \A d \in Deployments : d \in [Schedules -> SUBSET Sources]
      /\ FirstDeployment \in Deployments
  BY DEF Sched!LedgerAssumption
<1>3. \A sch \in Schedules : \A t \in Nominal[sch] : t \in Nat /\ t > 0
  BY DEF Sched!LedgerAssumption
<1>4. /\ \A h \in Horizons : h \in Nat
      /\ \A u \in Untils : u \in Nat
      /\ Life \in Nat /\ MaxTime \in Nat /\ MaxRuns \in Nat /\ MaxChanges \in Nat
  BY DEF Sched!LedgerAssumption
<1> QED BY <1>1, <1>2, <1>3, <1>4

\* The configuration as it is now.
LEMMA ConfigFacts ==
  ASSUME Sched!LedgerAssumption, LedgerTyped
  PROVE  /\ Sched!Config.tracked = deployed /\ Sched!Config.on = switched
         /\ deployed \in [Schedules -> SUBSET Sources]
         /\ \A s \in Nat : /\ [config |-> Sched!Config, start |-> s] \in Sched!Cohorts
                           /\ [config |-> Sched!Config, start |-> s].config = Sched!Config
                           /\ [config |-> Sched!Config, start |-> s].start = s
BY ScheduleConstants DEF Sched!Config, Sched!Cohorts, LedgerTyped

\* The rows of the schedules deployed, decided now.
LEMMA WindowFacts ==
  ASSUME Sched!LedgerAssumption, LedgerTyped, NEW h \in Nat, NEW cohort \in Sched!Cohorts,
         cohort.start <= time, cohort.config = Sched!Config
  PROVE  /\ IsFiniteSet(Sched!Windows(time, time + h, cohort))
         /\ \A r \in Sched!Windows(time, time + h, cohort) :
              /\ r \in Windows /\ r.at \in Nominal[r.sch] /\ r.src \in deployed[r.sch]
              /\ time <= r.at /\ r.at < time + h /\ r.cohort = cohort /\ r.recorded = time
              /\ r.eligible => r.src \in switched
              /\ r.sch \notin EarlyOnly /\ r.src \in switched => r.eligible
         /\ \A sch \in Schedules : \A src \in deployed[sch] : \A t \in Nominal[sch] :
              time <= t /\ t < time + h =>
                \E r \in Sched!Windows(time, time + h, cohort) :
                  r.sch = sch /\ r.src = src /\ r.at = t
         /\ \A r, q \in Sched!Windows(time, time + h, cohort) : Sched!SameSlot(r, q) => r = q
<1> DEFINE W == Sched!Windows(time, time + h, cohort)
           Of(sch, t, src) == [sch |-> sch, at |-> t, src |-> src,
                               eligible |-> Sched!Eligible(sch, src, t), cohort |-> cohort,
                               recorded |-> time]
<1>1. time \in Nat /\ deployed \in [Schedules -> SUBSET Sources]
      /\ \A sch \in Schedules : \A t \in Nominal[sch] : t \in Nat
  BY ScheduleConstants DEF LedgerTyped
<1>2. \A r : r \in W <=> \E sch \in Schedules : \E t \in Nominal[sch] : \E src \in deployed[sch] :
               time <= t /\ t < time + h /\ r = Of(sch, t, src)
  BY DEF Sched!Windows
<1>3. ASSUME NEW sch \in Schedules, NEW t \in Nominal[sch], NEW src \in deployed[sch]
      PROVE  /\ Of(sch, t, src) \in Windows
             /\ Of(sch, t, src).sch = sch /\ Of(sch, t, src).at = t /\ Of(sch, t, src).src = src
             /\ Of(sch, t, src).cohort = cohort /\ Of(sch, t, src).recorded = time
             /\ Of(sch, t, src).eligible => src \in switched
             /\ sch \notin EarlyOnly /\ src \in switched => Of(sch, t, src).eligible
  <2>1. Sched!Eligible(sch, src, t) \in BOOLEAN
    BY DEF Sched!Eligible
  <2>2. src \in Sources /\ t \in Nat
    BY <1>1
  <2> QED BY <1>1, <2>1, <2>2 DEF Windows, Sched!Eligible
<1> HIDE DEF W, Of
<1>4. ASSUME NEW r \in W
      PROVE  /\ r \in Windows /\ r.at \in Nominal[r.sch] /\ r.src \in deployed[r.sch]
             /\ time <= r.at /\ r.at < time + h /\ r.cohort = cohort /\ r.recorded = time
             /\ r.eligible => r.src \in switched
             /\ r.sch \notin EarlyOnly /\ r.src \in switched => r.eligible
             /\ r = Of(r.sch, r.at, r.src)
  <2>1. PICK sch, t, src :
          /\ sch \in Schedules /\ t \in Nominal[sch] /\ src \in deployed[sch]
          /\ time <= t /\ t < time + h /\ r = Of(sch, t, src)
    BY <1>2
  <2> QED BY <1>3, <2>1
<1>5. ASSUME NEW sch \in Schedules, NEW src \in deployed[sch], NEW t \in Nominal[sch],
             time <= t, t < time + h
      PROVE  \E r \in W : r.sch = sch /\ r.src = src /\ r.at = t
  BY <1>2, <1>3, <1>5
<1>6. ASSUME NEW r \in W, NEW q \in W, Sched!SameSlot(r, q)
      PROVE  r = q
  BY <1>4, <1>6 DEF Sched!SameSlot
<1>7. IsFiniteSet(W)
  <2> DEFINE Times == time .. time + h
             Slots == Schedules \X (Times \X Sources)
             f == [r \in W |-> <<r.sch, <<r.at, r.src>>>>]
  <2>1. IsFiniteSet(Slots)
    <3>1. IsFiniteSet(Times)
      BY <1>1, FS_Interval
    <3> HIDE DEF Times
    <3>2. IsFiniteSet(Times \X Sources)
      BY <3>1, ScheduleConstants, FS_Product
    <3> QED BY <3>2, ScheduleConstants, FS_Product
  <2>2. f \in [W -> Slots]
    BY <1>1, <1>4 DEF Windows
  <2>3. ASSUME NEW r \in W, NEW q \in W, f[r] = f[q]
        PROVE  r = q
    BY <1>4, <2>3
  <2>4. f \in Injection(W, Slots)
    BY <2>2, <2>3 DEF Injection, IsInjective
  <2> HIDE DEF Slots, f
  <2> QED BY <2>1, <2>4, FS_Injection
<1> QED BY <1>4, <1>5, <1>6, <1>7 DEF W

\* The greater of two numbers.
LEMMA LaterOf ==
  ASSUME NEW a \in Nat, NEW b \in Nat
  PROVE  /\ Sched!Max({a} \union {}) = a
         /\ Sched!Max({a} \union {b}) = IF a >= b THEN a ELSE b
<1>1. Sched!Max({a} \union {}) = a
  <2>1. \E x \in {a} \union {} : \A y \in {a} \union {} : x >= y
    OBVIOUS
  <2> QED BY <2>1 DEF Sched!Max
<1>2. Sched!Max({a} \union {b}) = IF a >= b THEN a ELSE b
  <2> DEFINE m == CHOOSE x \in {a} \union {b} : \A y \in {a} \union {b} : x >= y
  <2>1. \E x \in {a} \union {b} : \A y \in {a} \union {b} : x >= y
    <3>1. CASE a >= b
      BY <3>1
    <3>2. CASE ~(a >= b)
      BY <3>2
    <3> QED BY <3>1, <3>2
  <2>2. m \in {a} \union {b} /\ \A y \in {a} \union {b} : m >= y
    <3> HIDE DEF m
    <3>1. m = CHOOSE x \in {a} \union {b} : \A y \in {a} \union {b} : x >= y
      BY DEF m
    <3> QED BY <2>1, <3>1
  <2>3. Sched!Max({a} \union {b}) = m
    BY DEF Sched!Max
  <2> HIDE DEF m
  <2>4. m = IF a >= b THEN a ELSE b
    BY <2>2
  <2> QED BY <2>3, <2>4
<1> QED BY <1>1, <1>2

\* What a reconciliation does: the coverage starts now, and the rows ahead of the schedules
\* deployed go, or it continues.
LEMMA ReconcileFacts ==
  ASSUME Sched!LedgerAssumption, LedgerTyped, BookFits, NEW h \in Horizons, Sched!Reconcile(h)
  PROVE  \E cohort, through, kept :
           /\ cohort \in Sched!Cohorts /\ cohort.config = Sched!Config
           /\ through \in Nat /\ book' = {[cohort |-> cohort, through |-> through]}
           /\ kept \in SUBSET windows
           /\ windows' = kept \union {r \in Sched!Windows(time, time + h, cohort) :
                                        \A q \in kept : ~Sched!SameSlot(r, q)}
           /\ \/ /\ cohort.start = time /\ through = time + h
                 /\ kept = windows \ Sched!Outdated
              \/ /\ \E l \in book : /\ book = {l} /\ l.cohort = cohort
                                    /\ l.through = through \/ through = time + h
                                    /\ l.through <= through /\ time <= l.through
                 /\ kept = windows /\ cohort.start <= time /\ time + h <= through
<1> DEFINE start == IF book = {} THEN time ELSE Sched!Min({Sched!CohortStart(l) : l \in book})
           cohort == [config |-> Sched!Config, start |-> start]
           changed == \E l \in book : l.cohort # cohort
           kept == IF changed THEN windows \ Sched!Outdated ELSE windows
           before == {l.through : l \in {k \in book : ~changed}}
           through == Sched!Max({time + h} \union before)
<1>1. /\ book' = {[cohort |-> cohort, through |-> through]}
      /\ windows' = kept \union {r \in Sched!Windows(time, time + h, cohort) :
                                   \A q \in kept : ~Sched!SameSlot(r, q)}
  BY DEF Sched!Reconcile, Sched!FirstWindow
<1>2. time \in Nat /\ h \in Nat /\ time + h \in Nat
  BY ScheduleConstants DEF LedgerTyped
<1>3. kept \in SUBSET windows
  OBVIOUS
<1>4. CASE book = {}
  <2>1. start = time
    BY <1>4
  <2>2. before = {}
    BY <1>4
  <2>3. through = time + h
    BY <1>2, <2>2, LaterOf
  <2>4. kept = windows /\ windows = {}
    BY <1>4 DEF BookFits
  <2>5. kept = windows \ Sched!Outdated
    BY <2>4
  <2>6. cohort \in Sched!Cohorts /\ cohort.config = Sched!Config /\ cohort.start = time
    BY <1>2, <2>1, ConfigFacts
  <2> HIDE DEF cohort, through, kept
  <2> QED BY <1>1, <1>2, <1>3, <2>3, <2>5, <2>6
<1>5. CASE book # {}
  <2>1. PICK l \in Books : book = {l}
    BY <1>5 DEF LedgerTyped
  <2>2. l.cohort \in Sched!Cohorts /\ l.through \in Nat /\ l.cohort.start \in Nat
    BY <2>1 DEF Books, Sched!Cohorts
  <2>3. l.cohort.start <= time /\ l.cohort.start <= l.through
    BY <2>1 DEF BookFits, Covered
  <2>4. start = Sched!CohortStart(l)
    <3>1. {Sched!CohortStart(k) : k \in book} = {Sched!CohortStart(l)}
      BY <2>1
    <3>2. Sched!CohortStart(l) \in Nat
      BY <1>2, <2>2 DEF Sched!CohortStart
    <3>3. Sched!Min({Sched!CohortStart(l)}) = Sched!CohortStart(l)
      BY <3>2 DEF Sched!Min
    <3> QED BY <1>5, <3>1, <3>3
  <2> HIDE DEF start
  <2>5. changed <=> l.cohort # cohort
    BY <2>1
  <2>6. start \in Nat /\ start <= time
    BY <1>2, <2>2, <2>3, <2>4 DEF Sched!CohortStart
  <2>7. cohort \in Sched!Cohorts /\ cohort.config = Sched!Config /\ cohort.start = start
    BY <2>6, ConfigFacts
  <2>8. CASE l.cohort # cohort
    <3>1. start = time
      BY <2>4, <2>8 DEF Sched!CohortStart
    <3>2. before = {} /\ kept = windows \ Sched!Outdated
      BY <2>5, <2>8
    <3>3. through = time + h
      BY <1>2, <3>2, LaterOf
    <3> HIDE DEF cohort, through, kept
    <3> QED BY <1>1, <1>2, <1>3, <2>7, <3>1, <3>2, <3>3
  <2>9. CASE l.cohort = cohort
    <3>1. ~changed
      BY <2>5, <2>9
    <3> HIDE DEF changed
    <3>2. before = {l.through} /\ kept = windows
      BY <2>1, <3>1
    <3>3. through = IF time + h >= l.through THEN time + h ELSE l.through
      BY <1>2, <2>2, <3>2, LaterOf
    <3>4. time <= l.through
      <4>1. CASE l.cohort = [config |-> Sched!Config, start |-> l.cohort.start]
                   /\ l.through >= time
        BY <1>2, <2>2, <4>1
      <4>2. CASE ~(l.cohort = [config |-> Sched!Config, start |-> l.cohort.start]
                     /\ l.through >= time)
        <5>1. start = time
          BY <2>4, <4>2 DEF Sched!CohortStart
        <5>2. l.cohort.start = time
          BY <2>7, <2>9, <5>1
        <5> QED BY <2>3, <5>2
      <4> QED BY <4>1, <4>2
    <3> HIDE DEF cohort, through, kept
    <3>5. through \in Nat /\ l.through <= through /\ time + h <= through
          /\ (l.through = through \/ through = time + h)
      BY <1>2, <2>2, <3>3
    <3>6. \E k \in book : /\ book = {k} /\ k.cohort = cohort
                          /\ k.through = through \/ through = time + h
                          /\ k.through <= through /\ time <= k.through
      BY <2>1, <2>9, <3>4, <3>5
    <3> QED BY <1>1, <1>3, <2>6, <2>7, <3>2, <3>5, <3>6
  <2> QED BY <2>8, <2>9
<1> QED BY <1>4, <1>5

LEMMA LedgerInit ==
  ASSUME Sched!LedgerAssumption, Sched!Init
  PROVE  LedgerSound
<1>1. LedgerTyped
  BY ScheduleConstants, FS_EmptySet DEF Sched!Init, LedgerTyped
<1>2. SlotsOnce /\ RowsFit /\ BookFits
  BY DEF Sched!Init, SlotsOnce, RowsFit, BookFits
<1>3. TimersFit /\ ResultsFit
  BY DEF Sched!Init, TimersFit, ResultsFit
<1> QED BY <1>1, <1>2, <1>3 DEF LedgerSound

\* Rows that are due stay, whatever is reconciled.
LEMMA DueStays ==
  ASSUME LedgerTyped, NEW kept, windows \ Sched!Outdated \subseteq kept,
         NEW r \in windows, r.at <= time
  PROVE  r \in kept
BY DEF Sched!Outdated, LedgerTyped, Windows

LEMMA LedgerReconcile ==
  ASSUME Sched!LedgerAssumption, LedgerSound, NEW h \in Horizons, Sched!Reconcile(h)
  PROVE  LedgerSound'
<1> USE DEF LedgerSound
<1>1. PICK cohort, through, kept :
        /\ cohort \in Sched!Cohorts /\ cohort.config = Sched!Config
        /\ through \in Nat /\ book' = {[cohort |-> cohort, through |-> through]}
        /\ kept \in SUBSET windows
        /\ windows' = kept \union {r \in Sched!Windows(time, time + h, cohort) :
                                     \A q \in kept : ~Sched!SameSlot(r, q)}
        /\ \/ /\ cohort.start = time /\ through = time + h
              /\ kept = windows \ Sched!Outdated
           \/ /\ \E l \in book : /\ book = {l} /\ l.cohort = cohort
                                 /\ l.through = through \/ through = time + h
                                 /\ l.through <= through /\ time <= l.through
              /\ kept = windows /\ cohort.start <= time /\ time + h <= through
  BY ReconcileFacts
<1> DEFINE W == Sched!Windows(time, time + h, cohort)
           new == {r \in W : \A q \in kept : ~Sched!SameSlot(r, q)}
           l1 == [cohort |-> cohort, through |-> through]
<1>2. UNCHANGED <<time, deployed, switched, until, timers, part, results, claims, moves>>
  BY DEF Sched!Reconcile
<1>3. /\ time \in Nat /\ h \in Nat /\ cohort.start \in Nat /\ cohort.start <= time
      /\ deployed \in [Schedules -> SUBSET Sources]
      /\ cohort.config.tracked = deployed /\ cohort.config.on = switched
  BY <1>1, ScheduleConstants, ConfigFacts DEF LedgerTyped, Sched!Cohorts
<1>4. /\ IsFiniteSet(W)
      /\ \A r \in W :
           /\ r \in Windows /\ r.at \in Nominal[r.sch] /\ r.src \in deployed[r.sch]
           /\ time <= r.at /\ r.at < time + h /\ r.cohort = cohort /\ r.recorded = time
           /\ r.eligible => r.src \in switched
           /\ r.sch \notin EarlyOnly /\ r.src \in switched => r.eligible
      /\ \A sch \in Schedules : \A src \in deployed[sch] : \A t \in Nominal[sch] :
           time <= t /\ t < time + h => \E r \in W : r.sch = sch /\ r.src = src /\ r.at = t
      /\ \A r, q \in W : Sched!SameSlot(r, q) => r = q
  BY <1>1, <1>3, WindowFacts
<1>5. windows' = kept \union new /\ new \subseteq W /\ kept \subseteq windows
  BY <1>1
<1>6. l1 \in Books /\ book' = {l1} /\ l1.cohort = cohort /\ l1.through = through
  BY <1>1 DEF Books
<1> HIDE DEF W
<1>7. LedgerTyped'
  <2>1. IsFiniteSet(windows') /\ windows' \in SUBSET Windows
    <3>1. IsFiniteSet(kept) /\ IsFiniteSet(new)
      BY <1>4, <1>5, FS_Subset DEF LedgerTyped
    <3>2. IsFiniteSet(kept \union new)
      BY <3>1, FS_Union
    <3> HIDE DEF new
    <3> QED BY <1>4, <1>5, <3>2 DEF LedgerTyped
  <2> HIDE DEF l1, new
  <2> QED BY <1>2, <1>6, <2>1 DEF LedgerTyped
<1>8. SlotsOnce'
  <2> SUFFICES ASSUME NEW r \in windows', NEW q \in windows', Sched!SameSlot(r, q)
               PROVE  r = q
    BY DEF SlotsOnce, Sched!SameSlot
  <2>1. Sched!SameSlot(q, r)
    BY DEF Sched!SameSlot
  <2> QED BY <1>4, <1>5, <2>1 DEF SlotsOnce
<1>9. RowsFit'
  <2> SUFFICES ASSUME NEW r \in windows'
               PROVE  /\ r.recorded <= r.at /\ r.cohort.start <= r.at
                      /\ r.eligible => r.src \in r.cohort.config.on
                      /\ r.sch \notin EarlyOnly /\ r.src \in r.cohort.config.on => r.eligible
    BY DEF RowsFit
  <2>1. CASE r \in windows
    BY <2>1 DEF RowsFit
  <2>2. CASE r \in W
    <3>1. r.at \in Nat
      BY <1>4, <2>2 DEF Windows
    <3> QED BY <1>3, <1>4, <2>2, <3>1
  <2> QED BY <1>5, <2>1, <2>2
<1>10. Covered(l1)'
  <2>1. \A r \in windows' : r.at \in Nat /\ r.sch \in Schedules /\ r.src \in Sources
    BY <1>7 DEF LedgerTyped, Windows
  <2>2. cohort.start <= time' /\ cohort.start <= through
    BY <1>1, <1>2, <1>3
  <2>3. ASSUME NEW sch \in Schedules, NEW src \in deployed[sch], NEW t \in Nominal[sch],
               time <= t, t < time + h,
               \A r \in kept : r.sch = sch /\ r.at = t => r.cohort = cohort
        PROVE  \E r \in windows' : r.sch = sch /\ r.src = src /\ r.at = t /\ r.cohort = cohort
    <3>1. PICK r \in W : r.sch = sch /\ r.src = src /\ r.at = t
      BY <1>4, <2>3
    <3>2. CASE \A q \in kept : ~Sched!SameSlot(r, q)
      BY <1>4, <1>5, <3>1, <3>2
    <3>3. ASSUME NEW q \in kept, Sched!SameSlot(r, q)
          PROVE  \E p \in windows' : p.sch = sch /\ p.src = src /\ p.at = t /\ p.cohort = cohort
      BY <1>5, <2>3, <3>1, <3>3 DEF Sched!SameSlot
    <3> QED BY <3>2, <3>3
  <2>4. CASE cohort.start = time /\ through = time + h /\ kept = windows \ Sched!Outdated
    <3>1. ASSUME NEW r \in kept, deployed[r.sch] # {}
          PROVE  r.at <= time
      BY <1>1, <1>3, <2>4, <3>1 DEF Sched!Outdated, LedgerTyped, Windows
    <3>2. ASSUME NEW r \in windows', deployed[r.sch] # {}, cohort.start < r.at
          PROVE  r.cohort = cohort /\ r.at < through
      <4>1. r \notin kept
        BY <1>3, <2>1, <2>4, <3>1, <3>2
      <4> QED BY <1>4, <1>5, <2>4, <4>1
    <3>3. ASSUME NEW sch \in Schedules, NEW src \in deployed[sch], NEW t \in Nominal[sch],
                 cohort.start < t, t < through
          PROVE  \E r \in windows' : r.sch = sch /\ r.src = src /\ r.at = t /\ r.cohort = cohort
      <4>1. time <= t /\ t < time + h /\ t \in Nat
        BY <1>3, <2>4, <3>3, ScheduleConstants
      <4>2. \A r \in kept : ~(r.sch = sch /\ r.at = t)
        BY <1>3, <2>4, <3>1, <3>3, <4>1
      <4> QED BY <2>3, <4>1, <4>2
    <3> QED BY <1>3, <1>6, <2>2, <3>2, <3>3 DEF Covered
  <2>5. CASE /\ \E l \in book : /\ book = {l} /\ l.cohort = cohort
                                /\ l.through = through \/ through = time + h
                                /\ l.through <= through /\ time <= l.through
             /\ kept = windows /\ cohort.start <= time /\ time + h <= through
    <3>1. PICK l \in book : /\ book = {l} /\ l.cohort = cohort
                            /\ l.through = through \/ through = time + h
                            /\ l.through <= through /\ time <= l.through
      BY <2>5
    <3>2. Covered(l) /\ l.through \in Nat
      BY <3>1 DEF BookFits, LedgerTyped, Books
    <3>3. ASSUME NEW r \in windows', deployed[r.sch] # {}, cohort.start < r.at
          PROVE  r.cohort = cohort /\ r.at < through
      <4>1. CASE r \in windows
        BY <1>1, <1>3, <2>1, <3>1, <3>2, <3>3, <4>1 DEF Covered
      <4>2. CASE r \in W
        BY <1>1, <1>3, <1>4, <2>1, <2>5, <4>2
      <4> QED BY <1>5, <4>1, <4>2
    <3>4. ASSUME NEW sch \in Schedules, NEW src \in deployed[sch], NEW t \in Nominal[sch],
                 cohort.start < t, t < through
          PROVE  \E r \in windows' : r.sch = sch /\ r.src = src /\ r.at = t /\ r.cohort = cohort
      <4>1. t \in Nat
        BY ScheduleConstants
      <4>2. CASE t < l.through
        BY <1>3, <1>5, <2>5, <3>1, <3>2, <3>4, <4>2 DEF Covered
      <4>3. CASE ~(t < l.through)
        <5>1. time <= t /\ t < time + h
          BY <1>1, <1>3, <3>1, <3>2, <3>4, <4>1, <4>3
        <5>2. \A r \in kept : ~(r.sch = sch /\ r.at = t)
          BY <1>3, <2>5, <3>1, <3>2, <3>4, <4>1, <4>3 DEF Covered
        <5> QED BY <2>3, <5>1, <5>2
      <4> QED BY <4>2, <4>3
    <3> QED BY <1>3, <1>6, <2>2, <3>3, <3>4 DEF Covered
  <2> QED BY <1>1, <2>4, <2>5
<1>11. BookFits'
  <2> HIDE DEF l1
  <2> QED BY <1>6, <1>10 DEF BookFits
<1>12. windows \ Sched!Outdated \subseteq kept
  BY <1>1
<1>13. ASSUME NEW sch, NEW t \in Nat, NEW src, t <= time, HasRow(sch, t, src)
       PROVE  HasRow(sch, t, src)'
  BY <1>5, <1>12, <1>13, DueStays DEF HasRow
<1>14. TimersFit'
  BY <1>2, <1>13 DEF TimersFit, LedgerTyped
<1>15. ResultsFit'
  <2> SUFFICES ASSUME NEW a \in results
               PROVE  a.at <= a.finished /\ a.finished <= time /\ HasRow(a.sch, a.at, a.src)'
    BY <1>2 DEF ResultsFit
  <2>1. a.at <= a.finished /\ a.finished <= time /\ HasRow(a.sch, a.at, a.src)
    BY DEF ResultsFit
  <2>2. a.at \in Nat /\ a.finished \in Nat
    BY DEF LedgerTyped, Attempts
  <2>3. a.at <= time
    BY <1>3, <2>1, <2>2
  <2> QED BY <1>13, <2>1, <2>2, <2>3
<1> QED BY <1>7, <1>8, <1>9, <1>11, <1>14, <1>15

\* A set of numbers up to b that is not empty has a greatest element.
LEMMA GreatestIn ==
  ASSUME NEW b \in Nat, NEW S \in SUBSET (0 .. b), S # {}
  PROVE  Sched!Max(S) \in S /\ \A y \in S : Sched!Max(S) >= y
<1> DEFINE Less == {p \in Nat \X Nat : p[1] < p[2]}
           D == {b - x : x \in S}
<1>1. IsWellFoundedOn(Less, Nat)
  BY NatLessThanWellFounded DEF OpToRel
<1>2. D \in SUBSET Nat /\ D # {}
  <2>1. \A x \in S : x \in 0 .. b /\ b - x \in Nat
    OBVIOUS
  <2> QED BY <2>1
<1>3. PICK d \in D : \A e \in D : <<e, d>> \notin Less
  <2> HIDE DEF Less, D
  <2> QED BY <1>1, <1>2, WFMin, Zenon
<1>4. PICK x \in S : d = b - x
  BY <1>3
<1>5. ASSUME NEW y \in S
      PROVE  x >= y
  <2>1. b - y \in D
    OBVIOUS
  <2>2. <<b - y, d>> \notin Less /\ <<b - y, d>> \in Nat \X Nat
    BY <1>2, <1>3, <2>1
  <2>3. ~(b - y < d)
    BY <2>2, Zenon
  <2> QED BY <1>4, <2>3
<1>6. Sched!Max(S) = CHOOSE z \in S : \A y \in S : z >= y
  BY DEF Sched!Max
<1> QED BY <1>4, <1>5, <1>6

\* A switch, a policy, a deployment, the hour and the end of a run leave the ledger and the
\* results as they are.
LEMMA LedgerKept ==
  ASSUME Sched!LedgerAssumption, LedgerSound, LedgerTyped', TimersFit',
         UNCHANGED <<windows, book, results>>, time' >= time
  PROVE  LedgerSound'
<1> USE DEF LedgerSound
<1>1. time \in Nat /\ time' \in Nat
  BY ScheduleConstants DEF LedgerTyped
<1>2. SlotsOnce' /\ RowsFit'
  BY DEF SlotsOnce, RowsFit, Sched!SameSlot
<1>3. BookFits'
  <2> SUFFICES ASSUME NEW l \in book
               PROVE  Covered(l)'
    BY DEF BookFits
  <2>1. Covered(l)
    BY DEF BookFits
  <2>2. l.cohort.start \in Nat
    BY DEF LedgerTyped, Books, Sched!Cohorts
  <2> QED BY <1>1, <2>1, <2>2 DEF Covered
<1>4. ResultsFit'
  <2>1. \A a \in results : a.finished \in Nat
    BY DEF LedgerTyped, Attempts
  <2> QED BY <1>1, <2>1 DEF ResultsFit, HasRow
<1> QED BY <1>2, <1>3, <1>4

LEMMA LedgerSwitch ==
  ASSUME Sched!LedgerAssumption, LedgerSound, NEW src \in Sources, Sched!SwitchSection(src)
  PROVE  LedgerSound'
<1>1. LedgerTyped'
  BY ScheduleConstants DEF LedgerSound, LedgerTyped, Sched!SwitchSection
<1>2. TimersFit'
  BY DEF LedgerSound, TimersFit, HasRow, Sched!SwitchSection
<1>3. time' >= time
  BY ScheduleConstants DEF LedgerSound, LedgerTyped, Sched!SwitchSection
<1> QED BY <1>1, <1>2, <1>3, LedgerKept DEF Sched!SwitchSection

LEMMA LedgerPolicy ==
  ASSUME Sched!LedgerAssumption, LedgerSound, NEW u \in Untils, Sched!SetPolicy(u)
  PROVE  LedgerSound'
<1>1. LedgerTyped'
  BY ScheduleConstants DEF LedgerSound, LedgerTyped, Sched!SetPolicy
<1>2. TimersFit'
  BY DEF LedgerSound, TimersFit, HasRow, Sched!SetPolicy
<1>3. time' >= time
  BY ScheduleConstants DEF LedgerSound, LedgerTyped, Sched!SetPolicy
<1> QED BY <1>1, <1>2, <1>3, LedgerKept DEF Sched!SetPolicy

LEMMA LedgerDeploy ==
  ASSUME Sched!LedgerAssumption, LedgerSound, NEW d \in Deployments, Sched!Deploy(d)
  PROVE  LedgerSound'
<1>1. LedgerTyped'
  BY ScheduleConstants DEF LedgerSound, LedgerTyped, Sched!Deploy
<1>2. TimersFit'
  BY DEF TimersFit, Sched!Deploy
<1>3. time' >= time
  BY ScheduleConstants DEF LedgerSound, LedgerTyped, Sched!Deploy
<1> QED BY <1>1, <1>2, <1>3, LedgerKept DEF Sched!Deploy

LEMMA LedgerTick ==
  ASSUME Sched!LedgerAssumption, LedgerSound, Sched!Tick
  PROVE  LedgerSound'
<1>1. LedgerTyped'
  BY ScheduleConstants DEF LedgerSound, LedgerTyped, Sched!Tick
<1>2. time' >= time /\ time' \in Nat /\ time \in Nat
  BY ScheduleConstants DEF LedgerSound, LedgerTyped, Sched!Tick
<1>3. TimersFit'
  <2>1. \A sch \in Schedules : timers[sch] \in Nat
    BY DEF LedgerSound, LedgerTyped
  <2> QED BY <1>2, <2>1 DEF LedgerSound, TimersFit, HasRow, Sched!Tick
<1> QED BY <1>1, <1>2, <1>3, LedgerKept DEF Sched!Tick

LEMMA LedgerEnd ==
  ASSUME Sched!LedgerAssumption, LedgerSound, NEW sch \in Schedules, Sched!EndUnrecorded(sch)
  PROVE  LedgerSound'
<1>1. LedgerTyped'
  BY ScheduleConstants DEF LedgerSound, LedgerTyped, Sched!EndUnrecorded
<1>2. TimersFit'
  <2> SUFFICES ASSUME NEW s \in Schedules, timers'[s] # 0
               PROVE  timers'[s] <= time' /\ \A src \in deployed'[s] : HasRow(s, timers[s], src)
                      /\ timers'[s] = timers[s]
    BY DEF TimersFit, HasRow, Sched!EndUnrecorded
  <2>1. timers'[s] = timers[s]
    BY DEF LedgerSound, LedgerTyped, Sched!EndUnrecorded
  <2> QED BY <2>1 DEF LedgerSound, TimersFit, Sched!EndUnrecorded
<1>3. time' >= time
  BY ScheduleConstants DEF LedgerSound, LedgerTyped, Sched!EndUnrecorded
<1> QED BY <1>1, <1>2, <1>3, LedgerKept DEF Sched!EndUnrecorded

\* A timer claims an occurrence that has come and has a row for each source of its scope.
LEMMA LedgerClaim ==
  ASSUME Sched!LedgerAssumption, LedgerSound, NEW sch \in Schedules, Sched!Claim(sch)
  PROVE  LedgerSound'
<1> DEFINE Times == {r.at : r \in Sched!Claimable(sch)}
           t == Sched!Max(Times)
<1>1. time \in Nat
  BY ScheduleConstants DEF LedgerSound, LedgerTyped
<1>2. Times \in SUBSET (0 .. time) /\ Times # {}
  BY <1>1 DEF LedgerSound, LedgerTyped, Windows, Sched!Claimable, Sched!Claim
<1>3. t \in Times
  <2> HIDE DEF Times
  <2> QED BY <1>1, <1>2, GreatestIn
<1>4. /\ Sched!ScopeMatches(sch, t) /\ timers' = [timers EXCEPT ![sch] = t]
      /\ part' = [part EXCEPT ![sch] = 0]
  BY DEF Sched!Claim
<1> HIDE DEF t
<1>5. t \in Nat /\ t <= time
  BY <1>1, <1>2, <1>3
<1>6. \A src \in deployed[sch] : HasRow(sch, t, src)
  BY <1>4 DEF Sched!ScopeMatches, HasRow
<1> HIDE DEF Times
<1>7. UNCHANGED <<time, deployed, switched, until, windows, book, results, moves>>
      /\ claims' = claims + 1 /\ claims < MaxRuns
  BY DEF Sched!Claim
<1>8. LedgerTyped'
  BY <1>4, <1>5, <1>7, ScheduleConstants DEF LedgerSound, LedgerTyped
<1>9. TimersFit'
  <2> SUFFICES ASSUME NEW s \in Schedules, timers'[s] # 0
               PROVE  timers'[s] <= time /\ \A src \in deployed[s] : HasRow(s, timers'[s], src)
    BY <1>7 DEF TimersFit, HasRow
  <2>1. CASE s = sch
    BY <1>4, <1>5, <1>6, <2>1 DEF LedgerSound, LedgerTyped
  <2>2. CASE s # sch
    <3>1. timers'[s] = timers[s]
      BY <1>4, <2>2 DEF LedgerSound, LedgerTyped
    <3> QED BY <3>1 DEF LedgerSound, TimersFit
  <2> QED BY <2>1, <2>2
<1> QED BY <1>1, <1>7, <1>8, <1>9, LedgerKept

\* The results of a run are those of its occurrence, now.
LEMMA RecordFacts ==
  ASSUME Sched!LedgerAssumption, LedgerSound, NEW sch \in Schedules, Sched!Record(sch)
  PROVE  \E new \in SUBSET Attempts :
           /\ results' = results \union new
           /\ \A a \in new : a.sch = sch /\ a.at = timers[sch] /\ a.src \in deployed[sch]
                             /\ a.finished = time
<1> DEFINE scope == deployed[sch] \cap Refreshes[sch][part[sch] + 1]
<1>1. PICK outcome \in [scope -> Sched!Outcomes] :
        results' = results \union {[sch |-> sch, at |-> timers[sch], src |-> src,
                                    outcome |-> outcome[src], finished |-> time]
                                   : src \in scope}
  BY DEF Sched!Record
<1> DEFINE new == {[sch |-> sch, at |-> timers[sch], src |-> src,
                    outcome |-> outcome[src], finished |-> time] : src \in scope}
<1>2. time \in Nat /\ timers[sch] \in Nat /\ scope \subseteq Sources
  BY ScheduleConstants DEF LedgerSound, LedgerTyped
<1>3. new \in SUBSET Attempts
  BY <1>2 DEF Attempts
<1>4. \A a \in new : a.sch = sch /\ a.at = timers[sch] /\ a.src \in deployed[sch]
                     /\ a.finished = time
  OBVIOUS
<1>5. results' = results \union new
  BY <1>1
<1> HIDE DEF new
<1> QED BY <1>3, <1>4, <1>5

LEMMA LedgerRecord ==
  ASSUME Sched!LedgerAssumption, LedgerSound, NEW sch \in Schedules, Sched!Record(sch)
  PROVE  LedgerSound'
<1> USE DEF LedgerSound
<1>1. PICK new \in SUBSET Attempts :
        /\ results' = results \union new
        /\ \A a \in new : a.sch = sch /\ a.at = timers[sch] /\ a.src \in deployed[sch]
                          /\ a.finished = time
  BY RecordFacts
<1>2. /\ timers[sch] # 0 /\ \E n \in {0, timers[sch]} : timers' = [timers EXCEPT ![sch] = n]
      /\ part' = [part EXCEPT ![sch] = @ + 1]
      /\ UNCHANGED <<time, deployed, switched, until, windows, book, claims, moves>>
  BY DEF Sched!Record
<1>3. LedgerTyped'
  BY <1>1, <1>2 DEF LedgerTyped
<1>4. SlotsOnce' /\ RowsFit' /\ BookFits'
  BY <1>2 DEF SlotsOnce, RowsFit, BookFits, Covered, Sched!SameSlot
<1>5. TimersFit'
  <2> SUFFICES ASSUME NEW s \in Schedules, timers'[s] # 0
               PROVE  timers'[s] = timers[s]
    BY <1>2 DEF TimersFit, HasRow
  <2> QED BY <1>2 DEF LedgerTyped
<1>6. ResultsFit'
  <2> SUFFICES ASSUME NEW a \in results'
               PROVE  a.at <= a.finished /\ a.finished <= time /\ HasRow(a.sch, a.at, a.src)
    BY <1>2 DEF ResultsFit, HasRow
  <2>1. CASE a \in results
    BY <2>1 DEF ResultsFit
  <2>2. CASE a \in new
    <3>1. timers[sch] <= time /\ HasRow(sch, timers[sch], a.src)
      BY <1>1, <1>2, <2>2 DEF TimersFit
    <3>2. time \in Nat
      BY ScheduleConstants DEF LedgerTyped
    <3> QED BY <1>1, <2>2, <3>1, <3>2
  <2> QED BY <1>1, <2>1, <2>2
<1> QED BY <1>3, <1>4, <1>5, <1>6

\* The invariant is inductive.
LEMMA LedgerNext ==
  ASSUME Sched!LedgerAssumption, LedgerSound, [Sched!Next]_(Sched!vars)
  PROVE  LedgerSound'
<1>1. ASSUME NEW h \in Horizons, Sched!Reconcile(h) PROVE LedgerSound'
  BY <1>1, LedgerReconcile
<1>2. ASSUME NEW src \in Sources, Sched!SwitchSection(src) PROVE LedgerSound'
  BY <1>2, LedgerSwitch
<1>3. ASSUME NEW u \in Untils, Sched!SetPolicy(u) PROVE LedgerSound'
  BY <1>3, LedgerPolicy
<1>4. ASSUME NEW d \in Deployments, Sched!Deploy(d) PROVE LedgerSound'
  BY <1>4, LedgerDeploy
<1>5. ASSUME NEW sch \in Schedules, Sched!Claim(sch) PROVE LedgerSound'
  BY <1>5, LedgerClaim
<1>6. ASSUME NEW sch \in Schedules, Sched!Record(sch) PROVE LedgerSound'
  BY <1>6, LedgerRecord
<1>7. ASSUME NEW sch \in Schedules, Sched!EndUnrecorded(sch) PROVE LedgerSound'
  BY <1>7, LedgerEnd
<1>8. ASSUME Sched!Tick PROVE LedgerSound'
  BY <1>8, LedgerTick
<1>9. CASE UNCHANGED Sched!vars
  <2>1. UNCHANGED <<time, deployed, switched, until, windows, book, timers, part, results, claims,
                  moves>>
    BY <1>9 DEF Sched!vars
  <2>2. LedgerTyped' /\ TimersFit'
    BY <2>1 DEF LedgerSound, LedgerTyped, TimersFit, HasRow
  <2>3. time' >= time
    BY <2>1, ScheduleConstants DEF LedgerSound, LedgerTyped
  <2> QED BY <2>1, <2>2, <2>3, LedgerKept
<1> QED BY <1>1, <1>2, <1>3, <1>4, <1>5, <1>6, <1>7, <1>8, <1>9 DEF Sched!Next

LEMMA SlotsCount ==
  \A S : Sched!Cardinality(S) = Cardinality(S)
BY Zenon DEF Sched!Cardinality, Cardinality

LEMMA SchedInvariant ==
  ASSUME Sched!LedgerAssumption
  PROVE  Sched!Spec => []LedgerSound
<1>1. Sched!Init => LedgerSound
  BY LedgerInit
<1>2. LedgerSound /\ [Sched!Next]_(Sched!vars) => LedgerSound'
  BY LedgerNext
<1> QED BY <1>1, <1>2, PTL DEF Sched!Spec

\* What the invariant says of the ledger and its report.
LEMMA SoundCoverage ==
  ASSUME Sched!LedgerAssumption, LedgerSound
  PROVE  /\ Sched!TypeOK /\ Sched!CoverageIsComplete /\ Sched!NoInventedObligation
         /\ Sched!ResultsHaveSlots /\ Sched!VerdictsAreFounded
<1> USE DEF LedgerSound
<1>1. Sched!TypeOK
  <2>1. book \subseteq Books /\ Sched!Cardinality(book) <= 1
    <3>1. Sched!Cardinality(book) = Cardinality(book)
      BY SlotsCount
    <3>2. CASE book = {}
      BY <3>1, <3>2, FS_EmptySet
    <3>3. CASE \E l \in Books : book = {l}
      BY <3>1, <3>3, FS_Singleton
    <3> QED BY <3>2, <3>3 DEF LedgerTyped
  <2>2. \A r, q \in windows : r.sch = q.sch /\ r.at = q.at /\ r.src = q.src => r = q
    BY DEF SlotsOnce, Sched!SameSlot
  <2> QED BY <2>1, <2>2 DEF LedgerTyped, Sched!TypeOK, Windows, Books, Attempts
<1>2. Sched!CoverageIsComplete
  <2> SUFFICES ASSUME NEW l \in book, NEW sch \in Schedules,
                      NEW src \in l.cohort.config.tracked[sch], NEW t \in Nominal[sch],
                      l.cohort.start < t, t < l.through
               PROVE  \E r \in windows :
                        /\ r.sch = sch /\ r.src = src /\ r.at = t /\ r.cohort = l.cohort
                        /\ r.eligible => src \in l.cohort.config.on
                        /\ sch \notin EarlyOnly /\ src \in l.cohort.config.on => r.eligible
    BY DEF Sched!CoverageIsComplete
  <2>1. Covered(l)
    BY DEF BookFits
  <2>2. PICK r \in windows : r.sch = sch /\ r.src = src /\ r.at = t /\ r.cohort = l.cohort
    BY <2>1 DEF Covered
  <2> QED BY <2>2 DEF RowsFit
<1>3. Sched!NoInventedObligation
  BY DEF RowsFit, Sched!NoInventedObligation
<1>4. Sched!ResultsHaveSlots
  BY DEF ResultsFit, HasRow, Sched!ResultsHaveSlots
<1>5. Sched!VerdictsAreFounded
  <2> SUFFICES ASSUME Sched!Observed, NEW l \in book, NEW sch \in Schedules,
                      NEW t \in Nominal[sch], l.cohort.start < t, t < time
               PROVE  \E r \in Sched!Slots : r.sch = sch /\ r.at = t
    BY DEF Sched!VerdictsAreFounded
  <2>1. book = {l} /\ l \in Books
    BY DEF LedgerTyped
  <2>2. time <= l.through /\ l.cohort.config.tracked[sch] # {}
    BY <2>1 DEF Sched!Observed
  <2>3. t < l.through
    BY <2>1, <2>2, ScheduleConstants DEF Books, LedgerTyped
  <2>4. PICK src : src \in l.cohort.config.tracked[sch]
    BY <2>2
  <2>5. Covered(l)
    BY DEF BookFits
  <2>6. PICK r \in windows : r.sch = sch /\ r.src = src /\ r.at = t /\ r.cohort = l.cohort
    BY <2>3, <2>4, <2>5 DEF Covered
  <2> QED BY <2>6 DEF Sched!Slots
<1> QED BY <1>1, <1>2, <1>3, <1>4, <1>5

\* The coverage that the report calls continuous has a row, of its cohort and decided before
\* its time, for every occurrence of every source; results have rows; a verdict rests on a
\* slot for every occurrence since the coverage began. For any schedules, inventories,
\* horizons, changes, gaps and runs.
THEOREM CoverageHolds ==
  ASSUME Sched!LedgerAssumption
  PROVE  Sched!Spec => [](/\ Sched!TypeOK /\ Sched!CoverageIsComplete
                          /\ Sched!NoInventedObligation /\ Sched!ResultsHaveSlots
                          /\ Sched!VerdictsAreFounded)
<1>1. LedgerSound => /\ Sched!TypeOK /\ Sched!CoverageIsComplete
                     /\ Sched!NoInventedObligation /\ Sched!ResultsHaveSlots
                     /\ Sched!VerdictsAreFounded
  BY SoundCoverage
<1> QED BY <1>1, SchedInvariant, PTL

\* A row whose time has come neither changes nor goes.
LEMMA DueRowsStay ==
  ASSUME Sched!LedgerAssumption, LedgerSound, [Sched!Next]_(Sched!vars)
  PROVE  Sched!DueDecisionsStayStep
<1> SUFFICES ASSUME NEW r \in windows, r.at <= time
             PROVE  r \in windows'
  BY DEF Sched!DueDecisionsStayStep
<1>1. CASE windows' = windows
  BY <1>1
<1>2. ASSUME NEW h \in Horizons, Sched!Reconcile(h)
      PROVE  r \in windows'
  <2>1. PICK cohort, kept :
          /\ windows' = kept \union {q \in Sched!Windows(time, time + h, cohort) :
                                       \A p \in kept : ~Sched!SameSlot(q, p)}
          /\ windows \ Sched!Outdated \subseteq kept
    BY <1>2, ReconcileFacts DEF LedgerSound
  <2> QED BY <2>1, DueStays DEF LedgerSound
<1>3. windows' = windows \/ \E h \in Horizons : Sched!Reconcile(h)
  BY DEF Sched!Next, Sched!vars, Sched!SwitchSection, Sched!SetPolicy, Sched!Deploy, Sched!Claim,
         Sched!Record, Sched!EndUnrecorded, Sched!Tick
<1> QED BY <1>1, <1>2, <1>3

\* The decision on an occurrence stands once it is due: no reconciliation, whatever changed
\* before it, rewrites its row.
THEOREM DueDecisionsStand ==
  ASSUME Sched!LedgerAssumption
  PROVE  Sched!Spec => [][Sched!DueDecisionsStayStep]_(Sched!vars)
<1>1. LedgerSound /\ [Sched!Next]_(Sched!vars) => [Sched!DueDecisionsStayStep]_(Sched!vars)
  BY DueRowsStay
<1> QED BY <1>1, SchedInvariant, PTL DEF Sched!Spec

\* Results only join, and those that join are of now.
LEMMA ResultsJoin ==
  ASSUME Sched!LedgerAssumption, LedgerSound, [Sched!Next]_(Sched!vars)
  PROVE  results \subseteq results' /\ \A a \in results' \ results : a.finished = time
<1>1. ASSUME NEW sch \in Schedules, Sched!Record(sch)
      PROVE  results \subseteq results' /\ \A a \in results' \ results : a.finished = time
  <2>1. PICK new \in SUBSET Attempts :
          /\ results' = results \union new
          /\ \A a \in new : a.sch = sch /\ a.at = timers[sch] /\ a.src \in deployed[sch]
                            /\ a.finished = time
    BY <1>1, RecordFacts
  <2> QED BY <2>1
<1>2. results' = results \/ \E sch \in Schedules : Sched!Record(sch)
  BY DEF Sched!Next, Sched!vars, Sched!SwitchSection, Sched!SetPolicy, Sched!Deploy, Sched!Claim,
         Sched!Reconcile, Sched!EndUnrecorded, Sched!Tick
<1> QED BY <1>1, <1>2

\* Nothing that joins the results after a deadline is in time.
LEMMA VerdictsStay ==
  ASSUME Sched!LedgerAssumption, LedgerSound, [Sched!Next]_(Sched!vars)
  PROVE  Sched!VerdictsAreFinalStep
<1> SUFFICES ASSUME NEW r \in Sched!Due, r.at + Life < time
             PROVE  /\ Sched!OnTimeFresh(r)' = Sched!OnTimeFresh(r)
                    /\ Sched!Nonfresh(r)' = Sched!Nonfresh(r)
                    /\ Sched!UpstreamPending(r)' = Sched!UpstreamPending(r)
                    /\ Sched!LateOnly(r) => Sched!LateOnly(r)'
  BY DEF Sched!VerdictsAreFinalStep
<1>1. r.at \in Nat /\ Life \in Nat /\ time \in Nat
  BY ScheduleConstants DEF Sched!Due, Sched!Slots, LedgerSound, LedgerTyped, Windows
<1>2. Sched!InTime(r)' = Sched!InTime(r)
  BY <1>1, ResultsJoin DEF Sched!InTime, Sched!Of
<1>3. Sched!Of(r) \ Sched!InTime(r) \subseteq (Sched!Of(r) \ Sched!InTime(r))'
  BY <1>2, ResultsJoin DEF Sched!Of
<1>4. /\ Sched!OnTimeFresh(r)' = Sched!OnTimeFresh(r)
      /\ Sched!OnTimeUpstream(r)' = Sched!OnTimeUpstream(r)
      /\ Sched!OnTimeTerminal(r)' = Sched!OnTimeTerminal(r)
  BY <1>2 DEF Sched!OnTimeFresh, Sched!OnTimeUpstream, Sched!OnTimeTerminal
<1>5. Sched!LateTerminal(r) => Sched!LateTerminal(r)'
  BY <1>3 DEF Sched!LateTerminal
<1>6. /\ Sched!Nonfresh(r)' = Sched!Nonfresh(r)
      /\ Sched!UpstreamPending(r)' = Sched!UpstreamPending(r)
  BY <1>4 DEF Sched!Nonfresh, Sched!UpstreamPending
<1>7. Sched!LateOnly(r) => Sched!LateOnly(r)'
  BY <1>4, <1>5 DEF Sched!LateOnly
<1> QED BY <1>4, <1>6, <1>7

\* Once its deadline has passed, a slot of the report changes only from missing to late, or
\* with the cohort: no late result turns a verdict.
THEOREM VerdictsStand ==
  ASSUME Sched!LedgerAssumption
  PROVE  Sched!Spec => [][Sched!VerdictsAreFinalStep]_(Sched!vars)
<1>1. LedgerSound /\ [Sched!Next]_(Sched!vars) => [Sched!VerdictsAreFinalStep]_(Sched!vars)
  BY VerdictsStay
<1> QED BY <1>1, SchedInvariant, PTL DEF Sched!Spec

\* The counters' sets partition the slots that are due.
LEMMA DueParts ==
  ASSUME LedgerTyped
  PROVE  /\ IsFiniteSet(Sched!Due)
         /\ Cardinality(Sched!Due) =
              Cardinality({r \in Sched!Due : Sched!OnTimeFresh(r)})
              + Cardinality({r \in Sched!Due : Sched!UpstreamPending(r)})
              + Cardinality({r \in Sched!Due : Sched!Nonfresh(r)})
              + Cardinality({r \in Sched!Due : Sched!LateOnly(r)})
              + Cardinality({r \in Sched!Due : Sched!Missing(r)})
<1> DEFINE D == Sched!Due
           F == {r \in D : Sched!OnTimeFresh(r)}
           U == {r \in D : Sched!UpstreamPending(r)}
           N == {r \in D : Sched!Nonfresh(r)}
           L == {r \in D : Sched!LateOnly(r)}
           M == {r \in D : Sched!Missing(r)}
<1>1. IsFiniteSet(D)
  <2>1. D \subseteq windows
    BY DEF Sched!Due, Sched!Slots
  <2> QED BY <2>1, FS_Subset DEF LedgerTyped
<1>2. /\ (F \union U) \intersect (N \union (L \union M)) = {} /\ F \intersect U = {}
      /\ N \intersect (L \union M) = {} /\ L \intersect M = {}
      /\ D = (F \union U) \union (N \union (L \union M))
  BY DEF Sched!UpstreamPending, Sched!Nonfresh, Sched!LateOnly, Sched!Missing
<1>3. F \subseteq D /\ U \subseteq D /\ N \subseteq D /\ L \subseteq D /\ M \subseteq D
  OBVIOUS
<1> HIDE DEF D, F, U, N, L, M
<1>4. ASSUME NEW A, NEW B, IsFiniteSet(A), IsFiniteSet(B), A \intersect B = {}
      PROVE  /\ IsFiniteSet(A \union B)
             /\ Cardinality(A \union B) = Cardinality(A) + Cardinality(B)
  <2>1. Cardinality(A) \in Nat /\ Cardinality(B) \in Nat
    BY <1>4, FS_CardinalityType
  <2>2. Cardinality(A \intersect B) = 0
    BY <1>4, FS_EmptySet
  <2>3. Cardinality(A \union B)
          = Cardinality(A) + Cardinality(B) - Cardinality(A \intersect B)
    BY <1>4, FS_Union
  <2>4. IsFiniteSet(A \union B)
    BY <1>4, FS_Union
  <2> QED BY <2>1, <2>2, <2>3, <2>4
<1>5. IsFiniteSet(F) /\ IsFiniteSet(U) /\ IsFiniteSet(N) /\ IsFiniteSet(L) /\ IsFiniteSet(M)
  BY <1>1, <1>3, FS_Subset
<1>6. /\ IsFiniteSet(L \union M)
      /\ Cardinality(L \union M) = Cardinality(L) + Cardinality(M)
  BY <1>2, <1>4, <1>5
<1>7. /\ IsFiniteSet(N \union (L \union M))
      /\ Cardinality(N \union (L \union M)) = Cardinality(N) + Cardinality(L \union M)
  BY <1>2, <1>4, <1>5, <1>6
<1>8. /\ IsFiniteSet(F \union U)
      /\ Cardinality(F \union U) = Cardinality(F) + Cardinality(U)
  BY <1>2, <1>4, <1>5
<1>9. Cardinality(D) = Cardinality(F \union U) + Cardinality(N \union (L \union M))
  BY <1>2, <1>4, <1>7, <1>8
<1>10. /\ Cardinality(F) \in Nat /\ Cardinality(U) \in Nat /\ Cardinality(N) \in Nat
       /\ Cardinality(L) \in Nat /\ Cardinality(M) \in Nat
  BY <1>5, FS_CardinalityType
<1>11. Cardinality(D) = Cardinality(F) + Cardinality(U) + Cardinality(N) + Cardinality(L)
                        + Cardinality(M)
  BY <1>6, <1>7, <1>8, <1>9, <1>10
<1> QED BY <1>1, <1>11 DEF D, F, U, N, L, M

\* The slots that a parser could have met are among those due, and those met among them.
LEMMA ParserSlots ==
  ASSUME LedgerTyped
  PROVE  LET met == Cardinality({r \in Sched!Due : Sched!OnTimeFresh(r)})
             could == Cardinality({r \in Sched!Due : ~Sched!UpstreamPending(r)})
         IN  /\ met \in Nat /\ could \in Nat /\ Cardinality(Sched!Due) \in Nat
             /\ met <= could /\ could <= Cardinality(Sched!Due)
<1> DEFINE F == {r \in Sched!Due : Sched!OnTimeFresh(r)}
           P == {r \in Sched!Due : ~Sched!UpstreamPending(r)}
<1>1. F \subseteq P /\ P \subseteq Sched!Due
  BY DEF Sched!UpstreamPending
<1>2. IsFiniteSet(Sched!Due)
  BY DueParts
<1> HIDE DEF F, P
<1>3. IsFiniteSet(P) /\ Cardinality(P) <= Cardinality(Sched!Due)
  BY <1>1, <1>2, FS_Subset
<1>4. IsFiniteSet(F) /\ Cardinality(F) <= Cardinality(P)
  BY <1>1, <1>3, FS_Subset
<1>5. Cardinality(F) \in Nat /\ Cardinality(P) \in Nat /\ Cardinality(Sched!Due) \in Nat
  BY <1>2, <1>3, <1>4, FS_CardinalityType
<1> QED BY <1>3, <1>4, <1>5 DEF F, P

LEMMA ReportSums ==
  ASSUME LedgerTyped
  PROVE  Sched!ReportAddsUp
<1> DEFINE all == Cardinality(Sched!Due)
           met == Cardinality({r \in Sched!Due : Sched!OnTimeFresh(r)})
           could == Cardinality({r \in Sched!Due : ~Sched!UpstreamPending(r)})
<1>1. /\ Sched!Count(Sched!OnTimeFresh) = met
      /\ Sched!Count(Sched!UpstreamPending)
           = Cardinality({r \in Sched!Due : Sched!UpstreamPending(r)})
      /\ Sched!Count(Sched!Nonfresh) = Cardinality({r \in Sched!Due : Sched!Nonfresh(r)})
      /\ Sched!Count(Sched!LateOnly) = Cardinality({r \in Sched!Due : Sched!LateOnly(r)})
      /\ Sched!Count(Sched!Missing) = Cardinality({r \in Sched!Due : Sched!Missing(r)})
  BY SlotsCount DEF Sched!Count
<1>2. Sched!Cardinality(Sched!Due) = all /\ Sched!ParserEligible = could
  BY SlotsCount DEF Sched!ParserEligible
<1>3. met \in Nat /\ could \in Nat /\ all \in Nat /\ met <= could /\ could <= all
  BY ParserSlots
<1>4. Sched!Cardinality(Sched!Due)
        = Sched!Count(Sched!OnTimeFresh) + Sched!Count(Sched!UpstreamPending)
          + Sched!Count(Sched!Nonfresh) + Sched!Count(Sched!LateOnly)
          + Sched!Count(Sched!Missing)
  BY <1>1, <1>2, DueParts
<1>5. ASSUME Sched!Objective(all) = "meeting"
      PROVE  Sched!Objective(could) = "meeting"
  <2>1. Sched!Observed /\ all # 0 /\ 100 * met >= 99 * all
    BY <1>1, <1>5 DEF Sched!Objective
  <2> HIDE DEF all, met, could
  <2>2. could # 0 /\ 100 * met >= 99 * could
    BY <1>3, <2>1
  <2> QED BY <1>1, <2>1, <2>2 DEF Sched!Objective
<1> QED BY <1>2, <1>4, <1>5 DEF Sched!ReportAddsUp

\* The counters of the report add up to the slots that are due, whatever attempts a slot has
\* had, and the verdict on the parsers is at least as good as the one on all slots.
THEOREM ReportIsExact ==
  ASSUME Sched!LedgerAssumption
  PROVE  Sched!Spec => []Sched!ReportAddsUp
<1>1. LedgerSound => Sched!ReportAddsUp
  BY ReportSums DEF LedgerSound
<1> QED BY <1>1, SchedInvariant, PTL
=============================================================================
