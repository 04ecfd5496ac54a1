------------------------ MODULE ConvergenceChainProofs ------------------------
(***************************************************************************)
(* Theorems about ConvergenceChain for any number of workers and sources,  *)
(* any policy and any bounds.                                              *)
(***************************************************************************)
EXTENDS ConvergenceChain, FiniteSetTheorems, TLAPS

\* The state a decision leads to is one of a chain that is made.
LEMMA InitialStateKind ==
  \A a : InitialState(a) \in Due \union Stopped
BY DEF InitialState, Due, Stopped

\* An expired lease leaves a chain.
LEMMA FreedType == TypeOK => Freed \in Chains
BY DEF TypeOK, Freed, Chains, ChainStates, Unresolved, Due

\* The first part of claim_due keeps the types and takes no index.
LEMMA SweptType ==
  ASSUME TypeOK
  PROVE  /\ Swept \in Chains
         /\ FreedAttempts \in Seq(Attempts)
         /\ Len(FreedAttempts) = Len(attempts)
         /\ \A i \in DOMAIN attempts :
              /\ FreedAttempts[i].action = attempts[i].action
              /\ FreedAttempts[i].owner = attempts[i].owner
<1>1. Freed \in Chains
  BY FreedType
<1>2. Swept \in Chains
  BY <1>1 DEF Swept, Chains, ChainStates
<1>3. attempts \in Seq(Attempts)
  BY DEF TypeOK
<1>4. CASE LeaseOver
  <2> DEFINE F(i) == IF attempts[i].state = "running"
                     THEN [attempts[i] EXCEPT !.state = "expired"]
                     ELSE attempts[i]
  <2>1. FreedAttempts = [i \in 1 .. Len(attempts) |-> F(i)]
    BY <1>3, <1>4 DEF FreedAttempts
  <2>2. \A i \in 1 .. Len(attempts) :
          F(i) \in Attempts /\ F(i).action = attempts[i].action
          /\ F(i).owner = attempts[i].owner
    <3> TAKE i \in 1 .. Len(attempts)
    <3>1. attempts[i] \in Attempts
      BY <1>3
    <3> QED BY <3>1 DEF Attempts
  <2> HIDE DEF F
  <2>3. FreedAttempts \in Seq(Attempts) /\ Len(FreedAttempts) = Len(attempts)
    BY <1>3, <2>1, <2>2
  <2> QED BY <1>2, <1>3, <2>1, <2>2, <2>3
<1>5. CASE ~LeaseOver
  BY <1>2, <1>3, <1>5 DEF FreedAttempts
<1> QED BY <1>4, <1>5

\* What create_or_get_chain writes is a chain that is made.
LEMMA WithReportType ==
  ASSUME TypeOK, NEW report \in Reports
  PROVE  WithReport(report) \in Chains
<1>1. report.action \in Retries \union Stops /\ report.source \in Sources
      /\ report.at \in Nat
  BY DEF Reports
<1>2. ASSUME report.action \in Retries
      PROVE  report.at + Delays[report.action][1] \in Nat
  <2>1. Delays[report.action] \in Seq(Nat \ {0}) /\ Delays[report.action] # <<>>
    BY <1>2, DecisionAssumption
  <2>2. Delays[report.action][1] \in Nat
    BY <2>1
  <2> QED BY <1>1, <2>2
<1>3. report.at + Horizon[report.action] \in Nat
  <2>1. Horizon[report.action] \in Nat \ {0}
    BY <1>1, DecisionAssumption
  <2> QED BY <1>1, <2>1
<1>4. Created(report) \in Chains
  BY <1>1, <1>2, <1>3, InitialStateKind
     DEF Created, NoChain, Chains, ChainStates, Unresolved, Decisions
<1>5. CASE chain.state = "none"
  BY <1>4, <1>5 DEF WithReport
<1>6. CASE chain.state # "none"
  BY <1>1, <1>6 DEF WithReport, TypeOK, Chains
<1> QED BY <1>5, <1>6

\* Attempts with an action are counted by a natural number.
LEMMA TriedType ==
  ASSUME TypeOK, NEW a
  PROVE  Tried(a) \in Nat
<1> DEFINE S == {i \in DOMAIN attempts : attempts[i].action = a}
<1>1. DOMAIN attempts = 1 .. Len(attempts) /\ Len(attempts) \in Nat
  BY DEF TypeOK
<1>2. IsFiniteSet(1 .. Len(attempts))
  BY <1>1, FS_Interval
<1>3. S \in SUBSET (1 .. Len(attempts))
  BY <1>1
<1>4. IsFiniteSet(S)
  BY <1>2, <1>3, FS_Subset
<1>5. Cardinality(S) \in Nat
  BY <1>4, FS_CardinalityType
<1> QED BY <1>5 DEF Tried

\* The next attempt of a rescheduled chain has a moment.
LEMMA DecidedType ==
  ASSUME TypeOK, NEW w \in Workers, NEW d \in Decisions
  PROVE  Decided(w, d) \in Chains
<1>1. Reschedules(w, d) => NextAt(w, d) \in Nat
  <2> SUFFICES ASSUME Reschedules(w, d)
               PROVE  NextAt(w, d) \in Nat
    OBVIOUS
  <2>1. Delays[d] \in Seq(Nat \ {0}) /\ d \in Retries
    BY DecisionAssumption DEF Reschedules
  <2>2. Tried(d) \in Nat
    BY TriedType
  <2>3. Delays[d][Tried(d) + 1] \in Nat
    BY <2>1, <2>2 DEF Reschedules
  <2> QED BY <2>3 DEF NextAt, TypeOK
<1> QED
  BY <1>1, InitialStateKind
     DEF Decided, TypeOK, Chains, ChainStates, Unresolved

-----------------------------------------------------------------------------
\* Type correctness, for any cohort, policy and number of workers.
THEOREM TypeCorrect == Spec => []TypeOK
<1>1. Init => TypeOK
  <2>1. NoChain \in Chains
    BY DEF NoChain, Chains, ChainStates
  <2> QED BY <2>1, BoundAssumption DEF Init, TypeOK
<1>2. TypeOK /\ [Next]_vars => TypeOK'
  <2> SUFFICES ASSUME TypeOK, [Next]_vars
               PROVE  TypeOK'
    OBVIOUS
  <2> USE DEF feedVars, plannerVars, storeVars, workerVars
  <2>1. CASE \E s \in Sources, a \in Retries \union Stops : Report(s, a)
    <3> PICK s \in Sources, a \in Retries \union Stops : Report(s, a)
      BY <2>1
    <3>1. [source |-> s, action |-> a, at |-> now] \in Reports
      BY DEF Reports, TypeOK
    <3> QED BY <3>1 DEF Report, TypeOK
  <2>2. CASE \E s \in Sources : PublishPrimary(s)
    BY <2>2 DEF PublishPrimary, TypeOK
  <2>3. CASE PlannerReads
    BY <2>3 DEF PlannerReads, TypeOK
  <2>4. CASE PlannerAdds
    <3>1. reports[planner.next] \in Reports
      BY <2>4 DEF PlannerAdds, TypeOK
    <3>2. chain' \in Chains
      BY <2>4, <3>1, WithReportType DEF PlannerAdds
    <3>3. planner' \in [step : {"idle", "planning", "reconciled"},
                        next : Nat \ {0}, last : 0 .. Len(reports)]
      <4>1. planner.next + 1 \in Nat \ {0}
        BY DEF TypeOK
      <4> QED BY <2>4, <4>1 DEF PlannerAdds, TypeOK
    <3> QED BY <2>4, <3>2, <3>3 DEF PlannerAdds, TypeOK
  <2>5. CASE PlannerReconciles
    <3>1. Reconciled \in Chains
      BY DEF Reconciled, TypeOK, Chains, ChainStates, Decisions
    <3> QED BY <2>5, <3>1 DEF PlannerReconciles, TypeOK
  <2>6. CASE PlannerAdvances
    <3>1. cursor' \in Nat
      BY <2>6 DEF PlannerAdvances, LastResult, TypeOK
    <3>2. planner' \in [step : {"idle", "planning", "reconciled"},
                        next : Nat \ {0}, last : 0 .. Len(reports)]
      BY <2>6 DEF PlannerAdvances, TypeOK
    <3> QED BY <2>6, <3>1, <3>2 DEF PlannerAdvances, TypeOK
  <2>7. CASE PlannerCrashes
    <3>1. crashes' \in 0 .. MaxCrashes
      BY <2>7, BoundAssumption DEF PlannerCrashes, TypeOK
    <3> QED BY <2>7, <3>1 DEF PlannerCrashes, TypeOK
  <2>8. CASE \E w \in Workers, a \in DOMAIN Eligible : Claim(w, a)
    <3> PICK w \in Workers, a \in DOMAIN Eligible : Claim(w, a)
      BY <2>8
    <3>1. Owner[w] \in Owners /\ a \in Retries /\ Lease[a] \in Nat
      BY WorkerAssumption DEF Owners
    <3>2. chain' \in Chains
      <4>1. Swept \in Chains /\ now + Lease[a] \in Nat
        BY <3>1, SweptType DEF TypeOK
      <4>2. chain' = [Swept EXCEPT !.state = "running", !.index = Swept.index + 1,
                                   !.nextAt = 0, !.owner = Owner[w],
                                   !.until = now + Lease[a]]
        BY DEF Claim
      <4>3. "running" \in ChainStates /\ Swept.index + 1 \in Nat
        BY <4>1 DEF Chains, ChainStates, Unresolved
      <4> QED BY <3>1, <4>1, <4>2, <4>3 DEF Chains
    <3>3. attempts' \in Seq(Attempts)
      <4>1. [action |-> a, owner |-> Owner[w], state |-> "running"] \in Attempts
        BY <3>1 DEF Attempts
      <4> QED BY <4>1, SweptType DEF Claim
    <3>4. [number |-> chain.index + 1, at |-> now, sources |-> chain.sources]
            \in [number : Nat, at : Nat, sources : SUBSET Sources]
      BY DEF TypeOK, Chains
    <3> QED BY <3>2, <3>3, <3>4 DEF Claim, TypeOK
  <2>9. CASE \E w \in Workers, a \in DOMAIN Eligible : Sweep(w, a)
    BY <2>9, SweptType DEF Sweep, TypeOK
  <2>10. CASE \E w \in Workers, d \in Decisions : Finish(w, d)
    <3> PICK w \in Workers, d \in Decisions : Finish(w, d)
      BY <2>10
    <3>1. attempts' \in Seq(Attempts)
      <4> DEFINE n == claim[w].number
                 row == [attempts[n] EXCEPT !.state = "finished"]
      <4>1. attempts' = [attempts EXCEPT ![n] = row]
        BY DEF Finish
      <4>2. ASSUME n \in DOMAIN attempts
            PROVE  row \in Attempts
        <5>1. attempts[n] \in Attempts
          BY <4>2 DEF TypeOK
        <5> QED BY <5>1 DEF Attempts
      <4>3. attempts \in Seq(Attempts)
        BY DEF TypeOK
      <4> HIDE DEF n, row
      <4>4. CASE n \in DOMAIN attempts
        BY <4>1, <4>2, <4>3, <4>4
      <4>5. CASE n \notin DOMAIN attempts
        <5>1. attempts' = attempts
          BY <4>1, <4>3, <4>5
        <5> QED BY <4>3, <5>1
      <4> QED BY <4>4, <4>5
    <3>2. recovered' \in SUBSET Sources
      BY DEF Finish, TypeOK
    <3> QED BY <3>1, <3>2, DecidedType DEF Finish, TypeOK
  <2>11. CASE \E w \in Workers : FinishTooLate(w)
    BY <2>11 DEF FinishTooLate, TypeOK
  <2>12. CASE \E w \in Workers : Crash(w)
    BY <2>12, BoundAssumption DEF Crash, TypeOK
  <2>13. CASE Tick
    BY <2>13 DEF Tick, TypeOK
  <2>14. CASE UNCHANGED vars
    BY <2>14 DEF vars, TypeOK
  <2> QED
    BY <2>1, <2>2, <2>3, <2>4, <2>5, <2>6, <2>7, <2>8, <2>9, <2>10, <2>11,
       <2>12, <2>13, <2>14
       DEF Next, Planner, Works, Polls
<1> QED BY <1>1, <1>2, PTL DEF Spec

-----------------------------------------------------------------------------
\* What the first part of claim_due leaves: a running chain only if its lease
\* holds, no running attempt of a chain that is due.
LEMMA SweptShape ==
  ASSUME TypeOK, Inv
  PROVE  /\ Swept.index = chain.index
         /\ Swept.sources = chain.sources
         /\ Swept.action = chain.action
         /\ Swept.state = "none" => chain.state = "none"
         /\ Swept.state # "running" => Swept.owner = NoOwner /\ Swept.until = 0
         /\ Swept.state = "running" => Swept = chain /\ FreedAttempts = attempts
         /\ \A i \in DOMAIN attempts :
              FreedAttempts[i].state = "running" =>
                i = chain.index /\ Swept.state \in {"running", "exhausted", "fresh"}
<1> USE DEF Inv, OneRunningAttempt
<1>1. chain \in Chains /\ attempts \in Seq(Attempts)
  BY DEF TypeOK
<1>2. CASE LeaseOver
  <2>1. /\ Freed.index = chain.index /\ Freed.sources = chain.sources
        /\ Freed.action = chain.action /\ Freed.state = "waiting"
        /\ Freed.owner = NoOwner /\ Freed.until = 0
    BY <1>1, <1>2 DEF Freed, Chains
  <2>2. /\ Swept.index = Freed.index /\ Swept.sources = Freed.sources
        /\ Swept.action = Freed.action /\ Swept.state \in {"waiting", "exhausted"}
        /\ Swept.owner = NoOwner /\ Swept.until = 0
    BY <2>1, FreedType DEF Swept, Chains
  <2>3. \A i \in DOMAIN attempts : FreedAttempts[i].state # "running"
    <3> TAKE i \in DOMAIN attempts
    <3>1. attempts[i] \in Attempts
      BY <1>1
    <3> QED BY <1>2, <3>1 DEF FreedAttempts, Attempts
  <2> QED BY <2>1, <2>2, <2>3
<1>3. CASE ~LeaseOver
  <2>1. Freed = chain /\ FreedAttempts = attempts
    BY <1>3 DEF Freed, FreedAttempts
  <2>2. CASE Swept = chain
    BY <2>1, <2>2
  <2>3. CASE Swept # chain
    <3>1. /\ Swept.state = "exhausted" /\ Swept.owner = NoOwner
          /\ Swept.until = 0 /\ Swept.index = chain.index
          /\ Swept.sources = chain.sources /\ Swept.action = chain.action
      BY <1>1, <2>1, <2>3 DEF Swept, Chains
    <3> QED BY <2>1, <3>1
  <2> QED BY <2>2, <2>3
<1> QED BY <1>2, <1>3

\* A worker that still may finish works on the newest attempt of a running
\* chain.
LEMMA FinisherIsNewest ==
  ASSUME TypeOK, Inv, NEW w \in Workers,
         pc[w] = "running", StillRunning(w), HoldsLease(w)
  PROVE  claim[w].number = chain.index /\ chain.state = "running"
BY WorkerAssumption
   DEF Inv, OneRunningAttempt, ClaimsKnown, StillRunning, HoldsLease

\* What finish_attempt makes of the chain.
LEMMA DecidedShape ==
  ASSUME TypeOK, NEW w \in Workers, NEW d \in Decisions
  PROVE  /\ Decided(w, d).index = chain.index
         /\ Decided(w, d).sources = chain.sources
         /\ Decided(w, d).owner = NoOwner
         /\ Decided(w, d).until = 0
         /\ Decided(w, d).state \in {"fresh", "exhausted"} \union Due \union Stopped
BY InitialStateKind DEF Decided, TypeOK, Chains

\* Sources are never taken out of a chain.
LEMMA SourcesGrow ==
  ASSUME TypeOK, Inv, [Next]_vars
  PROVE  chain.sources \subseteq chain'.sources
<1> USE DEF feedVars, plannerVars, storeVars, workerVars
<1>1. chain \in Chains
  BY DEF TypeOK
<1>2. CASE PlannerAdds
  BY <1>1, <1>2
     DEF PlannerAdds, WithReport, Chains, Inv, UnmadeIsEmpty
<1>3. CASE PlannerReconciles
  BY <1>1, <1>3 DEF PlannerReconciles, Reconciled, Chains
<1>4. CASE \E w \in Workers, a \in DOMAIN Eligible : Claim(w, a)
  <2>1. Swept \in Chains /\ Swept.sources = chain.sources
    BY SweptShape, SweptType
  <2> QED BY <1>4, <2>1 DEF Claim, Chains
<1>5. CASE \E w \in Workers, a \in DOMAIN Eligible : Sweep(w, a)
  BY <1>5, SweptShape DEF Sweep
<1>6. CASE \E w \in Workers, d \in Decisions : Finish(w, d)
  BY <1>6, DecidedShape DEF Finish
<1>7. CASE chain' = chain
  BY <1>7
<1> QED
  BY <1>2, <1>3, <1>4, <1>5, <1>6, <1>7
     DEF Next, vars, Planner, Works, Polls, Report, PublishPrimary,
         PlannerReads, PlannerAdvances, PlannerCrashes, FinishTooLate, Crash,
         Tick

\* The planner's part of the invariant.
LEMMA PlannerPart ==
  ASSUME TypeOK, Inv, [Next]_vars
  PROVE  PlannerCovers' /\ NoFailureSkipped'
<1> USE DEF feedVars, plannerVars, storeVars, workerVars
<1>1. /\ reports \in Seq(Reports) /\ cursor \in Nat
      /\ planner \in [step : {"idle", "planning", "reconciled"},
                      next : Nat \ {0}, last : 0 .. Len(reports)]
  BY DEF TypeOK
<1>2. PlannerCovers /\ NoFailureSkipped /\ chain.sources \subseteq chain'.sources
  BY SourcesGrow DEF Inv
<1>3. CASE \E s \in Sources, a \in Retries \union Stops : Report(s, a)
  <2> PICK s \in Sources, a \in Retries \union Stops : Report(s, a)
    BY <1>3
  <2>1. /\ Len(reports') = Len(reports) + 1
        /\ \A i \in 1 .. Len(reports) : reports'[i] = reports[i]
    BY <1>1 DEF Report
  <2>2. planner' = planner /\ cursor' = cursor
    BY DEF Report
  <2>3. \A i \in 1 .. cursor :
          i \in DOMAIN reports' /\ reports'[i].source \in chain'.sources
    <3>1. reports' \in Seq(Reports)
      BY <1>1 DEF Report, Reports, TypeOK
    <3> QED BY <1>1, <1>2, <2>1, <3>1 DEF PlannerCovers, NoFailureSkipped
  <2>4. ASSUME planner.step # "idle", NEW i \in 1 .. planner.next - 1
        PROVE  reports'[i].source \in chain'.sources
    BY <1>1, <1>2, <2>1, <2>4 DEF PlannerCovers
  <2> QED BY <1>1, <1>2, <2>1, <2>2, <2>3, <2>4 DEF PlannerCovers, NoFailureSkipped
<1>4. CASE PlannerReads
  BY <1>1, <1>2, <1>4 DEF PlannerReads, PlannerCovers, NoFailureSkipped
<1>5. CASE PlannerAdds
  <2>1. /\ planner.next \in 1 .. Len(reports)
        /\ reports[planner.next].source \in chain'.sources
    <3>1. planner.next \in 1 .. Len(reports)
      BY <1>1, <1>5 DEF PlannerAdds
    <3>2. reports[planner.next] \in Reports
      BY <1>1, <3>1
    <3>3. reports[planner.next].source \in WithReport(reports[planner.next]).sources
      BY <3>2 DEF WithReport, Created, NoChain, TypeOK, Chains, Reports
    <3> QED BY <1>5, <3>1, <3>3 DEF PlannerAdds
  <2>2. /\ planner' = [planner EXCEPT !.next = @ + 1] /\ reports' = reports
        /\ cursor' = cursor /\ planner.step = "planning"
        /\ planner.next <= planner.last
    BY <1>5 DEF PlannerAdds
  <2>3. /\ planner'.step = "planning" /\ planner'.next = planner.next + 1
        /\ planner'.last = planner.last
    BY <1>1, <2>2
  <2> QED BY <1>1, <1>2, <2>1, <2>2, <2>3 DEF PlannerCovers, NoFailureSkipped
<1>6. CASE PlannerReconciles
  <2>1. /\ planner'.step = "reconciled" /\ planner'.next = planner.next
        /\ planner'.last = planner.last /\ reports' = reports
        /\ cursor' = cursor /\ planner.step = "planning"
        /\ planner.next > planner.last
    BY <1>1, <1>6 DEF PlannerReconciles
  <2> QED BY <1>1, <1>2, <2>1 DEF PlannerCovers, NoFailureSkipped
<1>7. CASE PlannerAdvances
  <2>1. /\ planner'.step = "idle" /\ reports' = reports
        /\ planner.step = "reconciled"
        /\ cursor' = IF planner.last > cursor THEN planner.last ELSE cursor
    BY <1>1, <1>7 DEF PlannerAdvances, LastResult
  <2>2. cursor' <= Len(reports)
    BY <1>1, <1>2, <2>1 DEF PlannerCovers
  <2>3. \A i \in 1 .. cursor' : reports[i].source \in chain'.sources
    BY <1>1, <1>2, <2>1 DEF PlannerCovers, NoFailureSkipped
  <2> QED BY <1>1, <2>1, <2>2, <2>3 DEF PlannerCovers, NoFailureSkipped
<1>8. CASE PlannerCrashes
  <2>1. planner'.step = "idle" /\ reports' = reports /\ cursor' = cursor
    BY <1>1, <1>8 DEF PlannerCrashes
  <2> QED BY <1>1, <1>2, <2>1 DEF PlannerCovers, NoFailureSkipped
<1>9. CASE reports' = reports /\ planner' = planner /\ cursor' = cursor
  BY <1>1, <1>2, <1>9 DEF PlannerCovers, NoFailureSkipped
<1> QED
  BY <1>3, <1>4, <1>5, <1>6, <1>7, <1>8, <1>9
     DEF Next, vars, Planner, Works, Polls, PublishPrimary, Claim, Sweep,
         Finish, FinishTooLate, Crash, Tick

\* The workers' part of the invariant.
StorePart ==
  OneRunningAttempt /\ ClaimsKnown /\ OnlyEligibleClaimed /\ UnmadeIsEmpty

LEMMA StoreInductive ==
  ASSUME TypeOK, Inv, [Next]_vars
  PROVE  StorePart'
<1> USE DEF feedVars, plannerVars, storeVars, workerVars
<1>1. chain \in Chains /\ attempts \in Seq(Attempts)
  BY DEF TypeOK
<1>2. StorePart
  BY DEF Inv, StorePart
<1>3. CASE PlannerAdds
  <2>1. /\ WithReport(reports[planner.next]).index = chain.index
        /\ WithReport(reports[planner.next]).owner = chain.owner
        /\ WithReport(reports[planner.next]).until = chain.until
        /\ chain.state # "none"
             => WithReport(reports[planner.next]).state = chain.state
        /\ chain.state = "none" =>
             /\ WithReport(reports[planner.next]).state \in Due \union Stopped
             /\ Len(attempts) = 0
    BY <1>1, <1>2, InitialStateKind
       DEF WithReport, Created, NoChain, Chains, StorePart, OneRunningAttempt,
           UnmadeIsEmpty
  <2>2. /\ chain' = WithReport(reports[planner.next])
        /\ UNCHANGED <<attempts, pc, claim>>
    BY <1>3 DEF PlannerAdds
  <2>3. OneRunningAttempt'
    BY <1>1, <1>2, <2>1, <2>2 DEF StorePart, OneRunningAttempt, Due, Stopped
  <2>4. ClaimsKnown' /\ OnlyEligibleClaimed'
    BY <1>2, <2>2 DEF StorePart, ClaimsKnown, OnlyEligibleClaimed
  <2>5. UnmadeIsEmpty'
    BY <1>2, <2>1, <2>2 DEF StorePart, UnmadeIsEmpty, Due, Stopped
  <2> QED BY <2>3, <2>4, <2>5 DEF StorePart
<1>4. CASE PlannerReconciles
  <2>1. /\ chain' = Reconciled
        /\ UNCHANGED <<attempts, pc, claim>>
    BY <1>4 DEF PlannerReconciles
  <2>2. CASE Superseded
    <3>1. /\ Reconciled.state = "fresh" /\ Reconciled.owner = NoOwner
          /\ Reconciled.until = 0 /\ Reconciled.index = chain.index
      BY <1>1, <2>2 DEF Reconciled, Chains
    <3>2. OneRunningAttempt'
      BY <1>1, <1>2, <2>1, <3>1 DEF StorePart, OneRunningAttempt
    <3>3. ClaimsKnown' /\ OnlyEligibleClaimed' /\ UnmadeIsEmpty'
      BY <1>2, <2>1, <3>1
         DEF StorePart, ClaimsKnown, OnlyEligibleClaimed, UnmadeIsEmpty
    <3> QED BY <3>2, <3>3 DEF StorePart
  <2>3. CASE ~Superseded
    <3>1. chain' = chain
      BY <2>1, <2>3 DEF Reconciled
    <3> QED
      BY <1>2, <2>1, <3>1
         DEF StorePart, OneRunningAttempt, ClaimsKnown, OnlyEligibleClaimed,
             UnmadeIsEmpty
  <2> QED BY <2>2, <2>3
<1>5. CASE \E w \in Workers, a \in DOMAIN Eligible : Claim(w, a)
  <2> PICK w \in Workers, a \in DOMAIN Eligible : Claim(w, a)
    BY <1>5
  <2> DEFINE row == [action |-> a, owner |-> Owner[w], state |-> "running"]
             n == chain.index + 1
  <2>1. /\ Swept \in Chains /\ Swept.state \in Due /\ Swept.index = chain.index
        /\ Len(attempts) = chain.index /\ chain.index \in Nat
    BY <1>1, <1>2, SweptType, SweptShape
       DEF Claim, CanClaim, StorePart, OneRunningAttempt, Chains
  <2>2. /\ chain'.state = "running" /\ chain'.index = n
        /\ chain'.owner = Owner[w] /\ chain'.until = now + Lease[a]
    BY <2>1 DEF Claim, Chains
  <2>3. chain'.until # 0
    <3>1. Lease[a] \in Nat \ {0} /\ now \in Nat
      BY WorkerAssumption DEF TypeOK
    <3> QED BY <2>2, <3>1
  <2>4. /\ Len(attempts') = n /\ DOMAIN attempts' = 1 .. n
        /\ attempts'[n] = row
        /\ \A i \in 1 .. chain.index : attempts'[i] = FreedAttempts[i]
    BY <1>1, <2>1, SweptType DEF Claim
  <2>5. \A i \in 1 .. chain.index : FreedAttempts[i].state # "running"
    BY <1>1, <2>1, SweptShape DEF Due
  <2>6. OneRunningAttempt'
    BY <2>1, <2>2, <2>3, <2>4, <2>5 DEF OneRunningAttempt
  <2>7. /\ pc' = [pc EXCEPT ![w] = "running"]
        /\ claim' = [claim EXCEPT ![w] = [number |-> n, at |-> now,
                                          sources |-> chain.sources]]
        /\ chain.sources \subseteq Eligible[a]
    BY DEF Claim, CanClaim, Matches
  <2>8. ASSUME NEW v \in Workers, pc'[v] = "running"
        PROVE  /\ claim'[v].number \in DOMAIN attempts'
               /\ claim'[v].sources
                    \subseteq Eligible[attempts'[claim'[v].number].action]
    <3>1. CASE v = w
      <4>1. claim'[v].number = n /\ claim'[v].sources = chain.sources
        BY <2>7, <3>1 DEF TypeOK
      <4> QED BY <2>1, <2>4, <2>7, <4>1
    <3>2. CASE v # w
      <4>1. claim'[v] = claim[v] /\ pc[v] = "running"
        BY <2>7, <2>8, <3>2 DEF TypeOK
      <4>2. claim[v].number \in 1 .. chain.index
        BY <1>1, <1>2, <2>1, <4>1 DEF StorePart, ClaimsKnown
      <4>3. attempts'[claim[v].number].action = attempts[claim[v].number].action
        BY <1>1, <2>1, <2>4, <4>2, SweptType
      <4>4. claim[v].number \in DOMAIN attempts'
        BY <2>1, <2>4, <4>2
      <4> QED
        BY <1>2, <4>1, <4>3, <4>4 DEF StorePart, OnlyEligibleClaimed
    <3> QED BY <3>1, <3>2
  <2>9. ClaimsKnown' /\ OnlyEligibleClaimed'
    BY <2>8 DEF ClaimsKnown, OnlyEligibleClaimed
  <2>10. UnmadeIsEmpty'
    BY <2>2 DEF UnmadeIsEmpty
  <2> QED BY <2>6, <2>9, <2>10 DEF StorePart
<1>6. CASE \E w \in Workers, a \in DOMAIN Eligible : Sweep(w, a)
  <2>1. /\ chain' = Swept /\ attempts' = FreedAttempts
        /\ UNCHANGED <<pc, claim>>
    BY <1>6 DEF Sweep
  <2>2. OneRunningAttempt'
    BY <1>1, <1>2, <2>1, SweptType, SweptShape DEF StorePart, OneRunningAttempt
  <2>3. ClaimsKnown' /\ OnlyEligibleClaimed'
    <3>1. DOMAIN attempts' = DOMAIN attempts
      BY <1>1, <2>1, SweptType
    <3> QED
      BY <1>2, <2>1, <3>1, SweptType
         DEF StorePart, ClaimsKnown, OnlyEligibleClaimed
  <2>4. UnmadeIsEmpty'
    BY <1>2, <2>1, SweptShape DEF StorePart, UnmadeIsEmpty
  <2> QED BY <2>2, <2>3, <2>4 DEF StorePart
<1>7. CASE \E w \in Workers, d \in Decisions : Finish(w, d)
  <2> PICK w \in Workers, d \in Decisions : Finish(w, d)
    BY <1>7
  <2>1. claim[w].number = chain.index /\ chain.index \in DOMAIN attempts
    BY <1>2, FinisherIsNewest DEF Finish, StorePart, ClaimsKnown
  <2>2. /\ Len(attempts') = Len(attempts) /\ DOMAIN attempts' = DOMAIN attempts
        /\ attempts'[chain.index].state = "finished"
        /\ \A i \in DOMAIN attempts :
             /\ attempts'[i].action = attempts[i].action
             /\ i # chain.index => attempts'[i] = attempts[i]
    <3>1. attempts[chain.index] \in Attempts
      BY <1>1, <2>1
    <3> QED BY <1>1, <2>1, <3>1 DEF Finish, Attempts
  <2>3. /\ chain'.index = chain.index /\ chain'.owner = NoOwner
        /\ chain'.until = 0 /\ chain'.state \notin {"running", "none"}
    BY DecidedShape DEF Finish, Due, Stopped
  <2>4. OneRunningAttempt'
    BY <1>2, <2>1, <2>2, <2>3 DEF StorePart, OneRunningAttempt
  <2>5. claim' = claim /\ \A v \in Workers : pc'[v] = "running" => pc[v] = "running"
    BY DEF Finish, TypeOK
  <2>6. ClaimsKnown' /\ OnlyEligibleClaimed'
    BY <1>2, <2>2, <2>5 DEF StorePart, ClaimsKnown, OnlyEligibleClaimed
  <2>7. UnmadeIsEmpty'
    BY <2>3 DEF UnmadeIsEmpty
  <2> QED BY <2>4, <2>6, <2>7 DEF StorePart
<1>8. CASE /\ UNCHANGED <<storeVars, claim>>
           /\ \A v \in Workers : pc'[v] = "running" => pc[v] = "running"
  BY <1>2, <1>8
     DEF StorePart, OneRunningAttempt, ClaimsKnown, OnlyEligibleClaimed,
         UnmadeIsEmpty
<1> QED
  <2>1. CASE \E w \in Workers : FinishTooLate(w) \/ Crash(w)
    BY <1>8, <2>1 DEF FinishTooLate, Crash, TypeOK
  <2>2. CASE UNCHANGED <<storeVars, claim, pc>>
    BY <1>8, <2>2
  <2> QED
    BY <1>3, <1>4, <1>5, <1>6, <1>7, <2>1, <2>2
       DEF Next, vars, Planner, Works, Polls, Report, PublishPrimary,
           PlannerReads, PlannerAdvances, PlannerCrashes, Tick

-----------------------------------------------------------------------------
\* The inductive invariant of the ledger and its clients.
THEOREM InvHolds == Spec => []Inv
<1>1. Init => Inv
  BY DEF Init, Inv, OneRunningAttempt, ClaimsKnown, OnlyEligibleClaimed,
         UnmadeIsEmpty, PlannerCovers, NoFailureSkipped, NoChain
<1>2. TypeOK /\ Inv /\ [Next]_vars => Inv'
  BY StoreInductive, PlannerPart DEF Inv, StorePart
<1> QED BY <1>1, <1>2, TypeCorrect, PTL DEF Spec

\* At most one attempt of a chain may still decide it, however workers and
\* crashes interleave.
THEOREM OneAttemptRuns == Spec => []OneRunningAttempt
<1>1. Inv => OneRunningAttempt
  BY DEF Inv
<1> QED BY <1>1, InvHolds, PTL

\* The cursor never leaves a failure behind.
THEOREM NothingSkipped == Spec => []NoFailureSkipped
<1>1. Inv => NoFailureSkipped
  BY DEF Inv
<1> QED BY <1>1, InvHolds, PTL

\* Workers only repeat what they may.
THEOREM ClaimsAreEligible == Spec => []OnlyEligibleClaimed
<1>1. Inv => OnlyEligibleClaimed
  BY DEF Inv
<1> QED BY <1>1, InvHolds, PTL

\* Answers that come too late never change the chain.
THEOREM LateAnswersIgnored == Spec => OnlyNewestAttemptDecides
<1> DEFINE A == \A w \in Workers :
                  pc[w] = "running" /\ pc'[w] = "idle" /\ storeVars' # storeVars
                    => chain.state = "running" /\ claim[w].number = chain.index
<1>1. TypeOK /\ Inv /\ [Next]_vars => [A]_vars
  <2> SUFFICES ASSUME TypeOK, Inv, Next, NEW w \in Workers,
                      pc[w] = "running", pc'[w] = "idle",
                      storeVars' # storeVars
               PROVE  chain.state = "running" /\ claim[w].number = chain.index
    BY DEF vars
  <2>1. PICK v \in Workers :
          \/ \E a \in DOMAIN Eligible : Claim(v, a)
          \/ \E d \in Decisions : Finish(v, d)
    BY DEF Next, Planner, Works, Polls, Report, PublishPrimary, PlannerReads,
           PlannerAdds, PlannerReconciles, PlannerAdvances, PlannerCrashes,
           Sweep, FinishTooLate, Crash, Tick, plannerVars, workerVars,
           storeVars
  <2>2. CASE \E a \in DOMAIN Eligible : Claim(v, a)
    BY <2>2 DEF Claim, TypeOK
  <2>3. CASE \E d \in Decisions : Finish(v, d)
    <3>1. v = w
      BY <2>3 DEF Finish, TypeOK
    <3> QED BY <2>3, <3>1, FinisherIsNewest DEF Finish
  <2> QED BY <2>1, <2>2, <2>3
<1> QED BY <1>1, TypeCorrect, InvHolds, PTL DEF Spec, OnlyNewestAttemptDecides

\* A closed chain never goes back to work.
THEOREM ClosedIsFinal == Spec => ClosedStaysClosed
<1> DEFINE A == /\ chain.state = "fresh" => chain'.state = "fresh"
                /\ chain.state \in Stopped \union {"exhausted"}
                     => chain'.state \in {chain.state, "fresh"}
           closed == Stopped \union {"exhausted", "fresh"}
<1>1. TypeOK /\ Inv /\ [Next]_vars => [A]_vars
  <2> SUFFICES ASSUME TypeOK, Inv, Next, chain.state \in closed
               PROVE  \/ chain'.state = chain.state
                      \/ chain.state # "fresh" /\ chain'.state = "fresh"
    BY DEF vars
  <2>1. chain \in Chains
    BY DEF TypeOK
  <2>2. Swept = chain
    BY <2>1 DEF Swept, Freed, LeaseOver, Unresolved, Due, Stopped
  <2>3. CASE PlannerAdds
    BY <2>1, <2>3 DEF PlannerAdds, WithReport, Chains, Stopped
  <2>4. CASE PlannerReconciles
    BY <2>1, <2>4
       DEF PlannerReconciles, Reconciled, Superseded, Closable, Chains, Stopped,
           Due
  <2>5. ~ \E w \in Workers, a \in DOMAIN Eligible : Claim(w, a)
    BY <2>2 DEF Claim, CanClaim, Due, Stopped
  <2>6. CASE \E w \in Workers, a \in DOMAIN Eligible : Sweep(w, a)
    BY <2>2, <2>6 DEF Sweep
  <2>7. ~ \E w \in Workers, d \in Decisions : Finish(w, d)
    BY FinisherIsNewest DEF Finish, Stopped
  <2>8. CASE chain' = chain
    BY <2>8
  <2> QED
    BY <2>3, <2>4, <2>5, <2>6, <2>7, <2>8
       DEF Next, Planner, Works, Polls, Report, PublishPrimary, PlannerReads,
           PlannerAdvances, PlannerCrashes, FinishTooLate, Crash, Tick,
           storeVars
<1> QED BY <1>1, TypeCorrect, InvHolds, PTL DEF Spec, ClosedStaysClosed

\* has_due and claim_due agree in every state.
THEOREM HasDueIsExact == Spec => []HasDueAgrees
<1>1. TypeOK => HasDueAgrees
  <2> SUFFICES ASSUME TypeOK, NEW a \in DOMAIN Eligible
               PROVE  HasDue(a) <=> CanClaim(a)
    BY DEF HasDueAgrees
  <2>1. chain \in Chains /\ now \in Nat \ {0}
    BY DEF TypeOK
  <2>2. CASE LeaseOver
    <3>1. /\ Freed.state = "waiting" /\ Freed.nextAt = now
          /\ Freed.deadline = chain.deadline
      BY <2>1, <2>2 DEF Freed, Chains
    <3>2. chain.deadline > now => Swept = Freed
      BY <2>1, <3>1 DEF Swept, Chains
    <3>3. chain.deadline <= now => Swept.state = "exhausted"
      BY <2>1, <3>1, FreedType DEF Swept, Unresolved, Due, Chains
    <3> QED
      BY <2>1, <2>2, <3>1, <3>2, <3>3 DEF HasDue, CanClaim, Due, Chains
  <2>3. CASE ~LeaseOver
    <3>1. Freed = chain
      BY <2>3 DEF Freed
    <3>2. chain.deadline > now => Swept = chain
      BY <2>1, <3>1 DEF Swept, Chains
    <3>3. chain.deadline <= now => Swept.state \notin Due
      BY <2>1, <3>1 DEF Swept, Unresolved, Due, Chains
    <3> QED
      BY <2>1, <2>3, <3>1, <3>2, <3>3 DEF HasDue, CanClaim, Chains
  <2> QED BY <2>2, <2>3
<1> QED BY <1>1, TypeCorrect, PTL

-----------------------------------------------------------------------------
\* The attempts with an action are a finite set.
LEMMA FiniteTried ==
  ASSUME TypeOK, NEW a
  PROVE  IsFiniteSet({i \in DOMAIN attempts : attempts[i].action = a})
<1> DEFINE S == {i \in DOMAIN attempts : attempts[i].action = a}
<1>1. DOMAIN attempts = 1 .. Len(attempts) /\ Len(attempts) \in Nat
  BY DEF TypeOK
<1>2. IsFiniteSet(1 .. Len(attempts))
  BY <1>1, FS_Interval
<1>3. S \in SUBSET (1 .. Len(attempts))
  BY <1>1
<1> QED BY <1>2, <1>3, FS_Subset

\* The finished ones among them are counted by a natural number.
LEMMA FinishedCount ==
  ASSUME TypeOK, NEW a
  PROVE  /\ IsFiniteSet(FinishedWith(a))
         /\ Cardinality(FinishedWith(a)) \in Nat
<1> DEFINE S == {i \in DOMAIN attempts : attempts[i].action = a}
<1>1. IsFiniteSet(S)
  BY FiniteTried
<1>2. FinishedWith(a) \in SUBSET S
  BY DEF FinishedWith
<1> HIDE DEF S
<1>3. IsFiniteSet(FinishedWith(a))
  BY <1>1, <1>2, FS_Subset
<1> QED BY <1>3, FS_CardinalityType

\* claim_due's first part makes no chain due or running that was neither.
LEMMA SweptWasUnresolved ==
  ASSUME TypeOK, Swept.state \in Unresolved
  PROVE  chain.state \in Unresolved
<1>1. chain \in Chains
  BY DEF TypeOK
<1> QED
  BY <1>1, FreedType DEF Swept, Freed, LeaseOver, Unresolved, Due, Chains

\* Only the end of an attempt changes which attempts are finished: a claim
\* adds a running one, a sweep marks expired ones.
LEMMA FinishedStays ==
  ASSUME TypeOK, NEW a, NEW rows,
         Len(rows) >= Len(attempts), rows \in Seq(Attempts),
         \A i \in DOMAIN attempts :
           /\ rows[i].action = attempts[i].action
           /\ rows[i].state = "finished" <=> attempts[i].state = "finished",
         \A i \in DOMAIN rows :
           i > Len(attempts) => rows[i].state # "finished"
  PROVE  {i \in DOMAIN rows : rows[i].action = a /\ rows[i].state = "finished"}
           = FinishedWith(a)
<1>1. /\ DOMAIN attempts = 1 .. Len(attempts) /\ Len(attempts) \in Nat
      /\ DOMAIN rows = 1 .. Len(rows) /\ Len(rows) \in Nat
  BY DEF TypeOK
<1> QED BY <1>1 DEF FinishedWith

\* Neither a lease that expires nor a chain that is given up finishes an
\* attempt.
LEMMA FreedFinished ==
  ASSUME TypeOK, NEW i \in DOMAIN attempts
  PROVE  FreedAttempts[i].state = "finished" <=> attempts[i].state = "finished"
<1>1. attempts \in Seq(Attempts)
  BY DEF TypeOK
<1>2. attempts[i] \in Attempts
  BY <1>1
<1> QED BY <1>1, <1>2 DEF FreedAttempts, Attempts

\* The part of the invariant that bounds the attempts.
LEMMA BudgetStep ==
  ASSUME TypeOK, Inv, BudgetLeft, BoundedAttempts, [Next]_vars
  PROVE  BudgetLeft' /\ BoundedAttempts'
<1> USE DEF feedVars, plannerVars, storeVars, workerVars
<1>1. chain \in Chains /\ attempts \in Seq(Attempts) /\ OneRunningAttempt
  BY DEF TypeOK, Inv
<1>2. \A a \in Retries : Len(Delays[a]) \in Nat \ {0}
  BY DecisionAssumption
<1>3. ASSUME attempts' = attempts
      PROVE  /\ \A a : FinishedWith(a)' = FinishedWith(a)
             /\ BoundedAttempts'
  BY <1>3 DEF FinishedWith, BoundedAttempts
<1>4. CASE PlannerAdds
  <2>1. attempts' = attempts /\ chain' = WithReport(reports[planner.next])
    BY <1>4 DEF PlannerAdds
  <2>2. CASE chain.state = "none"
    <3>1. \A a : FinishedWith(a) = {}
      BY <1>1, <2>2 DEF FinishedWith, OneRunningAttempt, Inv, UnmadeIsEmpty
    <3>2. \A a : Cardinality(FinishedWith(a)) = 0
      BY <3>1, FS_EmptySet
    <3>3. reports[planner.next] \in Reports
      BY <1>4 DEF PlannerAdds, TypeOK
    <3>4. /\ chain'.action = reports[planner.next].action
          /\ chain'.state = InitialState(reports[planner.next].action)
      BY <2>1, <2>2 DEF WithReport, Created, NoChain
    <3>5. chain'.state \in Unresolved => chain'.action \in Retries
      BY <3>3, <3>4, DecisionAssumption
         DEF InitialState, Unresolved, Due, Reports
    <3>6. chain'.state # "running"
      BY <3>4, InitialStateKind DEF Due, Stopped
    <3> QED BY <1>2, <1>3, <2>1, <3>2, <3>5, <3>6 DEF BudgetLeft
  <2>3. CASE chain.state # "none"
    <3>1. /\ chain'.state = chain.state /\ chain'.action = chain.action
          /\ chain'.index = chain.index
      BY <1>1, <2>1, <2>3 DEF WithReport, Chains
    <3> QED BY <1>3, <2>1, <3>1 DEF BudgetLeft
  <2> QED BY <2>2, <2>3
<1>5. CASE PlannerReconciles
  <2>1. attempts' = attempts
    BY <1>5 DEF PlannerReconciles
  <2>2. chain' = chain \/ chain'.state = "fresh"
    BY <1>1, <1>5 DEF PlannerReconciles, Reconciled, Chains
  <2> QED BY <1>3, <2>1, <2>2 DEF BudgetLeft, Unresolved, Due
<1>6. CASE \E w \in Workers, a \in DOMAIN Eligible : Claim(w, a)
  <2> PICK w \in Workers, a \in DOMAIN Eligible : Claim(w, a)
    BY <1>6
  <2> DEFINE row == [action |-> a, owner |-> Owner[w], state |-> "running"]
  <2>1. /\ Swept \in Chains /\ Swept.state \in Due /\ Swept.index = chain.index
        /\ Swept.action = chain.action /\ chain.action = a
        /\ Len(attempts) = chain.index /\ chain.index \in Nat
    BY <1>1, SweptType, SweptShape
       DEF Claim, CanClaim, Matches, OneRunningAttempt, Chains
  <2>2. /\ chain'.state = "running" /\ chain'.index = chain.index + 1
        /\ chain'.action = a
    BY <2>1 DEF Claim, Chains
  <2>3. /\ attempts' \in Seq(Attempts) /\ Len(attempts') = chain.index + 1
        /\ attempts'[chain.index + 1] = row
        /\ \A i \in 1 .. chain.index : attempts'[i] = FreedAttempts[i]
    <3>1. row \in Attempts
      BY WorkerAssumption DEF Attempts, Owners
    <3> QED BY <2>1, <3>1, SweptType DEF Claim
  <2>4. \A d : FinishedWith(d)' = FinishedWith(d)
    <3>1. \A i \in DOMAIN attempts :
            /\ attempts'[i].action = attempts[i].action
            /\ attempts'[i].state = "finished" <=> attempts[i].state = "finished"
      BY <1>1, <2>1, <2>3, SweptType, FreedFinished
    <3>2. \A i \in DOMAIN attempts' :
            i > Len(attempts) => attempts'[i].state # "finished"
      BY <1>1, <2>1, <2>3
    <3> QED BY <2>1, <2>3, <3>1, <3>2, FinishedStays DEF FinishedWith
  <2>5. a \in Retries /\ Cardinality(FinishedWith(a)) < Len(Delays[a])
    <3>1. chain.state \in Unresolved
      BY <2>1, SweptWasUnresolved DEF Unresolved
    <3> QED BY <2>1, <3>1 DEF BudgetLeft
  <2>6. BudgetLeft'
    BY <2>2, <2>3, <2>4, <2>5 DEF BudgetLeft
  <2>7. BoundedAttempts'
    BY <2>4 DEF BoundedAttempts
  <2> QED BY <2>6, <2>7
<1>7. CASE \E w \in Workers, a \in DOMAIN Eligible : Sweep(w, a)
  <2>1. chain' = Swept /\ attempts' = FreedAttempts
    BY <1>7 DEF Sweep
  <2>2. \A d : FinishedWith(d)' = FinishedWith(d)
    BY <1>1, <2>1, SweptType, FreedFinished, FinishedStays DEF FinishedWith
  <2>3. BudgetLeft'
    <3>1. Swept.state \in Unresolved => chain.state \in Unresolved
      BY SweptWasUnresolved
    <3>2. Swept.state = "running" => attempts' = attempts /\ chain' = chain
      BY <2>1, SweptShape
    <3>3. chain'.action = chain.action
      BY <2>1, SweptShape
    <3> QED BY <2>1, <2>2, <3>1, <3>2, <3>3 DEF BudgetLeft
  <2>4. BoundedAttempts'
    BY <2>2 DEF BoundedAttempts
  <2> QED BY <2>3, <2>4
<1>8. CASE \E w \in Workers, d \in Decisions : Finish(w, d)
  <2> PICK w \in Workers, d \in Decisions : Finish(w, d)
    BY <1>8
  <2> PICK n, a : n = chain.index /\ a = chain.action
    OBVIOUS
  <2>1. /\ claim[w].number = n /\ n \in DOMAIN attempts
        /\ chain.state = "running" /\ attempts[n].state = "running"
    BY FinisherIsNewest DEF Finish, Inv, ClaimsKnown, OneRunningAttempt
  <2>2. /\ a \in Retries /\ attempts[n].action = a
        /\ Cardinality(FinishedWith(a)) < Len(Delays[a])
    BY <2>1 DEF BudgetLeft, Unresolved
  <2>3. /\ DOMAIN attempts' = DOMAIN attempts
        /\ attempts'[n].state = "finished" /\ attempts'[n].action = a
        /\ \A i \in DOMAIN attempts : i # n => attempts'[i] = attempts[i]
    <3>1. attempts[n] \in Attempts
      BY <1>1, <2>1
    <3> QED BY <1>1, <2>1, <2>2, <3>1 DEF Finish, Attempts
  <2>4. FinishedWith(a)' = FinishedWith(a) \union {n}
    <3>1. \A i \in DOMAIN attempts' :
            i \in FinishedWith(a)' <=> i \in FinishedWith(a) \union {n}
      BY <2>1, <2>2, <2>3 DEF FinishedWith
    <3> QED BY <2>1, <2>3, <3>1 DEF FinishedWith
  <2>5. \A c : c # a => FinishedWith(c)' = FinishedWith(c)
    <3> TAKE c
    <3> HAVE c # a
    <3>1. \A i \in DOMAIN attempts' :
            i \in FinishedWith(c)' <=> i \in FinishedWith(c)
      BY <2>1, <2>2, <2>3 DEF FinishedWith
    <3> QED BY <2>3, <3>1 DEF FinishedWith
  <2>6. Cardinality(FinishedWith(a)') = Cardinality(FinishedWith(a)) + 1
    <3>1. n \notin FinishedWith(a)
      BY <2>1 DEF FinishedWith
    <3> QED BY <2>4, <3>1, FinishedCount, FS_AddElement
  <2>7. BoundedAttempts'
    <3> SUFFICES ASSUME NEW c \in Retries
                 PROVE  Cardinality(FinishedWith(c)') <= Len(Delays[c])
      BY DEF BoundedAttempts
    <3>1. CASE c = a
      <4>1. Cardinality(FinishedWith(a)) \in Nat
        BY FinishedCount
      <4> QED BY <1>2, <2>2, <2>6, <3>1, <4>1
    <3>2. CASE c # a
      BY <2>5, <3>2 DEF BoundedAttempts
    <3> QED BY <3>1, <3>2
  <2>8. chain'.state # "running"
    BY DecidedShape DEF Finish, Due, Stopped
  <2>9. ASSUME chain'.state \in Unresolved
        PROVE  /\ d \in Retries /\ chain'.action = d
               /\ Cardinality(FinishedWith(d)') < Len(Delays[d])
    <3>1. chain'.action = d /\ Reschedules(w, d)
      BY <1>1, <2>9, DecisionAssumption
         DEF Finish, Decided, Chains, Unresolved, Due, InitialState, Decisions
    <3>2. d \in Retries /\ Tried(d) < Len(Delays[d])
      BY <3>1 DEF Reschedules
    <3> DEFINE S == {i \in DOMAIN attempts : attempts[i].action = d}
    <3>3. FinishedWith(d)' \in SUBSET S
      <4>1. \A i \in DOMAIN attempts : attempts'[i].action = attempts[i].action
        BY <2>2, <2>3
      <4> QED BY <2>3, <4>1 DEF FinishedWith
    <3>4. IsFiniteSet(S) /\ Cardinality(S) = Tried(d)
      BY FiniteTried DEF Tried
    <3> HIDE DEF S
    <3>5. /\ IsFiniteSet(FinishedWith(d)')
          /\ Cardinality(FinishedWith(d)') <= Tried(d)
      BY <3>3, <3>4, FS_Subset
    <3>6. Cardinality(FinishedWith(d)') \in Nat
      BY <3>5, FS_CardinalityType
    <3> QED BY <1>2, <3>1, <3>2, <3>5, <3>6, TriedType
  <2>10. BudgetLeft'
    BY <2>8, <2>9 DEF BudgetLeft, FinishedWith
  <2> QED BY <2>7, <2>10
<1>9. CASE UNCHANGED storeVars
  BY <1>3, <1>9 DEF BudgetLeft
<1> QED
  BY <1>4, <1>5, <1>6, <1>7, <1>8, <1>9
     DEF Next, vars, Planner, Works, Polls, Report, PublishPrimary,
         PlannerReads, PlannerAdvances, PlannerCrashes, FinishTooLate, Crash,
         Tick

\* A chain that is due or running never loses its last delay.
THEOREM AttemptsAreBounded == Spec => []BoundedAttempts
<1>1. Init => BudgetLeft /\ BoundedAttempts
  <2> SUFFICES ASSUME Init PROVE BudgetLeft /\ BoundedAttempts
    OBVIOUS
  <2>1. \A a : FinishedWith(a) = {}
    BY DEF Init, FinishedWith
  <2>2. \A a : Cardinality(FinishedWith(a)) = 0
    BY <2>1, FS_EmptySet
  <2>3. \A a \in Retries : Len(Delays[a]) \in Nat
    BY DecisionAssumption
  <2> QED
    BY <2>2, <2>3
       DEF Init, NoChain, BudgetLeft, BoundedAttempts, Unresolved, Due
<1>2. TypeOK /\ Inv /\ BudgetLeft /\ BoundedAttempts /\ [Next]_vars
        => (BudgetLeft /\ BoundedAttempts)'
  BY BudgetStep
<1> QED BY <1>1, <1>2, TypeCorrect, InvHolds, PTL DEF Spec
=============================================================================
