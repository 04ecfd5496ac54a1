--------------------------- MODULE RefreshRunProofs ---------------------------
(***************************************************************************)
(* Theorems about RefreshRun for any sources, phases, calls and processes,  *)
(* any settings of the sections and any caps; then about what a refresh     *)
(* calls: the cascade of providers of one page (ProviderCascade), for any   *)
(* pool of keys; the reviews of what it made (AIReview), for any settings   *)
(* of the lanes and any verdicts a review can return; and one fetch         *)
(* (FetchRoute), for any settings of its source.                            *)
(***************************************************************************)
EXTENDS RefreshRun, Sequences, FiniteSetTheorems, WellFoundedInduction, TLAPS

USE RefreshAssumption

\* A set of numbers that is not empty has a least element.
LEMMA LeastNumber ==
  ASSUME NEW S \in SUBSET Nat, S # {}
  PROVE  \E x \in S : \A y \in S : x <= y
<1> DEFINE Less == {p \in Nat \X Nat : p[1] < p[2]}
<1>1. IsWellFoundedOn(Less, Nat)
  BY NatLessThanWellFounded DEF OpToRel
<1>2. PICK x \in S : \A y \in S : <<y, x>> \notin Less
  <2> HIDE DEF Less
  <2> QED BY <1>1, WFMin, Zenon
<1>3. ASSUME NEW y \in S
      PROVE  x <= y
  <2>1. <<y, x>> \notin Less /\ <<y, x>> \in Nat \X Nat
    BY <1>2
  <2>2. ~(y < x)
    BY <2>1, Zenon
  <2> QED BY <2>2
<1> QED BY <1>3

LEMMA MinFacts ==
  ASSUME NEW S \in SUBSET Nat, S # {}
  PROVE  Min(S) \in S
BY LeastNumber DEF Min

\* The sources a call selects are sources.
LEMMA SelectedType ==
  ASSUME NEW names \in SUBSET Sources, NEW scheduled \in BOOLEAN
  PROVE  Selected(names, scheduled) \in SUBSET Sources
BY DEF Selected

\* A call takes one of its sources at a time.
LEMMA TodoType ==
  ASSUME TypeOK, NEW r \in Runs, run[r].todo # {}
  PROVE  Min(run[r].todo) \in run[r].todo /\ Min(run[r].todo) \in Sources
<1>1. run[r].todo \in SUBSET Sources
  BY DEF TypeOK, RunStates
<1>2. run[r].todo \in SUBSET Nat
  BY <1>1
<1> QED BY <1>1, <1>2, MinFacts

-----------------------------------------------------------------------------
\* Every step is one of these, of one call or of an administrator.
LEMMA StepCases ==
  ASSUME [Next]_vars
  PROVE  \/ \E r \in Runs :
              \/ \E named \in Requests, scheduled \in BOOLEAN : Call(r, named, scheduled)
              \/ TryLock(r) \/ Enter(r) \/ PreflightPasses(r) \/ PreflightFails(r)
              \/ \E s \in Sources : Start(r, s) \/ Raise(r, s) \/ Fallback(r, s) \/ Review(r, s)
              \/ \E s \in Sources, kind \in {"fresh", "failed", "proxy"}, refused \in BOOLEAN :
                   End(r, s, kind, refused)
              \/ NextPhase(r) \/ LastPhaseEnds(r) \/ PhaseFails(r) \/ Return(r)
         \/ \E s \in Sources : Upload(s)
         \/ UNCHANGED vars
BY DEF Next, Work

\* Other calls are left alone.
Only(r) == run' \in [Runs -> RunStates] /\ \A q \in Runs \ {r} : run'[q] = run[q]

\* What a call never changes once it has selected its sources.
KeepsSelection(r) ==
  /\ run'[r].named = run[r].named /\ run'[r].scheduled = run[r].scheduled
  /\ run'[r].selected = run[r].selected /\ run'[r].locked = run[r].locked
  /\ run'[r].held = run[r].held /\ run'[r].todo = run[r].todo

\* What only the phases change.
KeepsResults(r) ==
  /\ run'[r].active = run[r].active /\ run'[r].out = run[r].out
  /\ run'[r].results = run[r].results /\ run'[r].circuit = run[r].circuit

LEMMA BecomesFacts ==
  ASSUME TypeOK, NEW r \in Runs, NEW row \in RunStates, Becomes(r, row)
  PROVE  Only(r) /\ run'[r] = row
BY DEF Becomes, TypeOK, Only

\* What each step makes of its call, field by field.
LEMMA CallRow ==
  ASSUME TypeOK, NEW r \in Runs, NEW named \in Requests, NEW scheduled \in BOOLEAN,
         Call(r, named, scheduled)
  PROVE  /\ Only(r) /\ KeepsResults(r) /\ run[r].pc = "new" /\ run'[r].pc = "locking"
         /\ run'[r].todo = IF named = {} THEN Sources ELSE named
         /\ run'[r].named = named /\ run'[r].scheduled = scheduled
         /\ run'[r].held = run[r].held /\ run'[r].locked = run[r].locked
         /\ run'[r].selected = run[r].selected
<1> DEFINE todo == IF named = {} THEN Sources ELSE named
           row == [run[r] EXCEPT !.pc = "locking", !.named = named,
                                 !.scheduled = scheduled, !.todo = todo]
<1>1. run[r] \in RunStates /\ named \in SUBSET Sources /\ todo \in SUBSET Sources
  BY DEF TypeOK
<1> HIDE DEF todo
<1>2. /\ row \in RunStates /\ row.pc = "locking" /\ row.named = named
      /\ row.scheduled = scheduled /\ row.todo = todo
      /\ row.active = run[r].active /\ row.out = run[r].out
      /\ row.results = run[r].results /\ row.circuit = run[r].circuit
      /\ row.held = run[r].held /\ row.locked = run[r].locked
      /\ row.selected = run[r].selected
  BY <1>1 DEF RunStates, Steps
<1>3. Becomes(r, row) /\ run[r].pc = "new"
  BY DEF Call, todo
<1> HIDE DEF row
<1> QED BY <1>2, <1>3, BecomesFacts DEF todo, KeepsResults

LEMMA TryLockRow ==
  ASSUME TypeOK, NEW r \in Runs, TryLock(r)
  PROVE  \E s \in run[r].todo :
           /\ s \in Sources
           /\ Only(r) /\ KeepsResults(r) /\ run[r].pc = "locking" /\ run'[r].pc = "locking"
           /\ run'[r].todo = run[r].todo \ {s}
           /\ run'[r].named = run[r].named /\ run'[r].scheduled = run[r].scheduled
           /\ run'[r].selected = run[r].selected
           /\ \/ /\ lock[s] = NoRun /\ lock' = [lock EXCEPT ![s] = r]
                 /\ run'[r].held = run[r].held \union {s}
                 /\ run'[r].locked = run[r].locked
              \/ /\ lock' = lock /\ run'[r].held = run[r].held
                 /\ run'[r].locked = run[r].locked \union {s}
<1>1. PICK s : s = Min(run[r].todo)
  OBVIOUS
<1>2. s \in run[r].todo /\ s \in Sources /\ run[r] \in RunStates
  BY <1>1, TodoType DEF TryLock, TypeOK
<1>3. CASE Free(s)
  <2> DEFINE row == [run[r] EXCEPT !.todo = run[r].todo \ {s},
                                   !.held = run[r].held \union {s}]
  <2>1. /\ row \in RunStates /\ row.pc = run[r].pc /\ row.todo = run[r].todo \ {s}
        /\ row.held = run[r].held \union {s} /\ row.locked = run[r].locked
        /\ row.named = run[r].named /\ row.scheduled = run[r].scheduled
        /\ row.active = run[r].active /\ row.out = run[r].out
        /\ row.results = run[r].results /\ row.circuit = run[r].circuit
        /\ row.selected = run[r].selected
    BY <1>2 DEF RunStates
  <2>2. /\ lock[s] = NoRun /\ lock' = [lock EXCEPT ![s] = r] /\ Becomes(r, row)
        /\ run[r].pc = "locking"
    BY <1>1, <1>3 DEF TryLock, Free
  <2> HIDE DEF row
  <2>3. Only(r) /\ run'[r] = row
    BY <2>1, <2>2, BecomesFacts
  <2> QED BY <1>2, <2>1, <2>2, <2>3 DEF KeepsResults
<1>4. CASE ~Free(s)
  <2> DEFINE row == [run[r] EXCEPT !.todo = run[r].todo \ {s},
                                   !.locked = run[r].locked \union {s}]
  <2>1. /\ row \in RunStates /\ row.pc = run[r].pc /\ row.todo = run[r].todo \ {s}
        /\ row.held = run[r].held /\ row.locked = run[r].locked \union {s}
        /\ row.named = run[r].named /\ row.scheduled = run[r].scheduled
        /\ row.active = run[r].active /\ row.out = run[r].out
        /\ row.results = run[r].results /\ row.circuit = run[r].circuit
        /\ row.selected = run[r].selected
    BY <1>2 DEF RunStates
  <2>2. lock' = lock /\ Becomes(r, row) /\ run[r].pc = "locking"
    BY <1>1, <1>4 DEF TryLock
  <2> HIDE DEF row
  <2> QED BY <1>2, <2>1, <2>2, BecomesFacts DEF KeepsResults
<1> QED BY <1>3, <1>4

\* The names a call with locks goes on with.
Names(r) == IF run[r].locked = {} THEN run[r].named ELSE run[r].held

LEMMA EnterRow ==
  ASSUME TypeOK, NEW r \in Runs, Enter(r)
  PROVE  /\ Only(r) /\ KeepsResults(r) /\ run[r].pc = "locking" /\ run[r].todo = {}
         /\ run'[r].named = run[r].named /\ run'[r].scheduled = run[r].scheduled
         /\ run'[r].locked = run[r].locked /\ run'[r].held = run[r].held
         /\ run'[r].todo = run[r].todo
         /\ \/ /\ run[r].held = {} /\ run'[r].pc = "done"
               /\ run'[r].selected = run[r].selected
               /\ UNCHANGED <<attempts, tried>>
            \/ /\ run[r].held # {} /\ run'[r].pc = "preflight"
               /\ run'[r].selected = Selected(Names(r), run[r].scheduled)
               /\ attempts' = [attempts EXCEPT ![Process[r]] = 0]
               /\ tried' = [tried EXCEPT ![Process[r]] = [s \in Sources |-> 0]]
<1>1. run[r] \in RunStates /\ run[r].pc = "locking" /\ run[r].todo = {}
  BY DEF TypeOK, Enter
<1>2. CASE run[r].held = {}
  <2> DEFINE row == [run[r] EXCEPT !.pc = "done"]
  <2>1. /\ row \in RunStates /\ row.pc = "done"
        /\ row.named = run[r].named /\ row.scheduled = run[r].scheduled
        /\ row.active = run[r].active /\ row.out = run[r].out
        /\ row.results = run[r].results /\ row.circuit = run[r].circuit
        /\ row.held = run[r].held /\ row.locked = run[r].locked
        /\ row.selected = run[r].selected /\ row.todo = run[r].todo
    BY <1>1 DEF RunStates, Steps
  <2>2. Becomes(r, row) /\ UNCHANGED <<attempts, tried>>
    BY <1>2 DEF Enter
  <2> HIDE DEF row
  <2> QED BY <1>1, <1>2, <2>1, <2>2, BecomesFacts DEF KeepsResults
<1>3. CASE run[r].held # {}
  <2> DEFINE chosen == Selected(Names(r), run[r].scheduled)
             row == [run[r] EXCEPT !.pc = "preflight", !.selected = chosen]
  <2>1. chosen \in SUBSET Sources
    BY <1>1, SelectedType DEF Names, RunStates
  <2>2. /\ Becomes(r, row)
        /\ attempts' = [attempts EXCEPT ![Process[r]] = 0]
        /\ tried' = [tried EXCEPT ![Process[r]] = [s \in Sources |-> 0]]
    BY <1>3 DEF Enter, Names
  <2> HIDE DEF chosen
  <2>3. /\ row \in RunStates /\ row.pc = "preflight"
        /\ row.named = run[r].named /\ row.scheduled = run[r].scheduled
        /\ row.active = run[r].active /\ row.out = run[r].out
        /\ row.results = run[r].results /\ row.circuit = run[r].circuit
        /\ row.held = run[r].held /\ row.locked = run[r].locked
        /\ row.selected = chosen /\ row.todo = run[r].todo
    BY <1>1, <2>1 DEF RunStates, Steps
  <2> HIDE DEF row
  <2> QED BY <1>1, <1>3, <2>2, <2>3, BecomesFacts DEF chosen, KeepsResults
<1> QED BY <1>2, <1>3

\* Steps that only change what a call is doing, or its reviews and fallbacks.
LEMMA MoveRow ==
  ASSUME TypeOK, NEW r \in Runs,
         \/ PreflightPasses(r) \/ PreflightFails(r) \/ Return(r)
         \/ \E s \in Sources : Review(r, s) \/ Fallback(r, s)
  PROVE  /\ Only(r) /\ KeepsSelection(r) /\ KeepsResults(r)
         /\ \/ run'[r].pc = run[r].pc
            \/ run[r].pc = "preflight" /\ run'[r].pc \in {"fetching", "done"}
            \/ run[r].pc = "review" /\ run'[r].pc = "done"
<1>1. run[r] \in RunStates
  BY DEF TypeOK
<1>2. ASSUME NEW pc \in Steps, Becomes(r, [run[r] EXCEPT !.pc = pc])
      PROVE  Only(r) /\ KeepsSelection(r) /\ KeepsResults(r) /\ run'[r].pc = pc
  <2> DEFINE row == [run[r] EXCEPT !.pc = pc]
  <2>1. /\ row \in RunStates /\ row.pc = pc
        /\ row.active = run[r].active /\ row.out = run[r].out
        /\ row.results = run[r].results /\ row.circuit = run[r].circuit
        /\ row.named = run[r].named /\ row.scheduled = run[r].scheduled
        /\ row.held = run[r].held /\ row.locked = run[r].locked
        /\ row.selected = run[r].selected /\ row.todo = run[r].todo
    BY <1>1 DEF RunStates
  <2>2. Becomes(r, row)
    BY <1>2
  <2> HIDE DEF row
  <2> QED BY <2>1, <2>2, BecomesFacts DEF KeepsSelection, KeepsResults
<1>3. ASSUME NEW s \in Sources, Review(r, s)
      PROVE  Only(r) /\ KeepsSelection(r) /\ KeepsResults(r) /\ run'[r].pc = run[r].pc
  <2> DEFINE row == [run[r] EXCEPT !.reviewed = run[r].reviewed \union {s}]
  <2>1. /\ row \in RunStates /\ row.pc = run[r].pc
        /\ row.active = run[r].active /\ row.out = run[r].out
        /\ row.results = run[r].results /\ row.circuit = run[r].circuit
        /\ row.named = run[r].named /\ row.scheduled = run[r].scheduled
        /\ row.held = run[r].held /\ row.locked = run[r].locked
        /\ row.selected = run[r].selected /\ row.todo = run[r].todo
    BY <1>1 DEF RunStates
  <2>2. Becomes(r, row)
    BY <1>3 DEF Review
  <2> HIDE DEF row
  <2> QED BY <2>1, <2>2, BecomesFacts DEF KeepsSelection, KeepsResults
<1>4. ASSUME NEW s \in Sources, Fallback(r, s)
      PROVE  Only(r) /\ KeepsSelection(r) /\ KeepsResults(r) /\ run'[r].pc = run[r].pc
  <2> DEFINE tries == [run[r].tries EXCEPT ![s] = run[r].tries[s] + 1]
             row == [run[r] EXCEPT !.tries = tries]
  <2>1. tries \in [Sources -> 0 .. 2]
    BY <1>1, <1>4 DEF Fallback, RunStates
  <2>2. Becomes(r, row)
    BY <1>4 DEF Fallback
  <2> HIDE DEF tries
  <2>3. /\ row \in RunStates /\ row.pc = run[r].pc
        /\ row.active = run[r].active /\ row.out = run[r].out
        /\ row.results = run[r].results /\ row.circuit = run[r].circuit
        /\ row.named = run[r].named /\ row.scheduled = run[r].scheduled
        /\ row.held = run[r].held /\ row.locked = run[r].locked
        /\ row.selected = run[r].selected /\ row.todo = run[r].todo
    BY <1>1, <2>1 DEF RunStates
  <2> HIDE DEF row
  <2> QED BY <2>2, <2>3, BecomesFacts DEF KeepsSelection, KeepsResults
<1>5. CASE PreflightPasses(r)
  BY <1>2, <1>5 DEF PreflightPasses, Steps
<1>6. CASE PreflightFails(r) \/ Return(r)
  BY <1>2, <1>6 DEF PreflightFails, Return, Steps
<1> QED BY <1>3, <1>4, <1>5, <1>6

\* What a phase writes: the fetches under way, the outcomes and the circuit.
Fits(r, row, active, out, circuit) ==
  /\ row \in RunStates /\ row.pc = run[r].pc
  /\ row.active = active /\ row.out = out /\ row.circuit = circuit
  /\ row.results = run[r].results
  /\ row.named = run[r].named /\ row.scheduled = run[r].scheduled
  /\ row.held = run[r].held /\ row.locked = run[r].locked
  /\ row.selected = run[r].selected /\ row.todo = run[r].todo

LEMMA PhaseRow ==
  ASSUME TypeOK, NEW r \in Runs, NEW row, NEW active, NEW out, NEW circuit,
         Fits(r, row, active, out, circuit), Becomes(r, row)
  PROVE  /\ Only(r) /\ KeepsSelection(r) /\ run'[r].pc = run[r].pc
         /\ run'[r].active = active /\ run'[r].out = out /\ run'[r].circuit = circuit
         /\ run'[r].results = run[r].results
BY BecomesFacts DEF Fits, KeepsSelection

LEMMA StartRow ==
  ASSUME TypeOK, NEW r \in Runs, NEW s \in Sources, Start(r, s)
  PROVE  /\ Only(r) /\ KeepsSelection(r) /\ run[r].pc = "fetching" /\ run'[r].pc = "fetching"
         /\ s \in Due(r)
         /\ run'[r].results = run[r].results /\ run'[r].circuit = run[r].circuit
         /\ \/ run'[r].active = run[r].active
               /\ run'[r].out = [run[r].out EXCEPT ![s] = "failed"]
            \/ /\ ~run[r].circuit \/ s \in Proxyless
               /\ run'[r].active = run[r].active \union {s} /\ run'[r].out = run[r].out
<1>1. run[r] \in RunStates /\ run[r].pc = "fetching" /\ s \in Due(r)
  BY DEF TypeOK, Start
<1>2. /\ run[r].active \in SUBSET Sources /\ run[r].out \in [Sources -> Outcomes]
      /\ run[r].circuit \in BOOLEAN
  BY <1>1 DEF RunStates
<1>3. CASE run[r].circuit /\ s \notin Proxyless
  <2>1. PICK out : out = [run[r].out EXCEPT ![s] = "failed"]
    OBVIOUS
  <2>2. out \in [Sources -> Outcomes]
    BY <1>2, <2>1 DEF Outcomes
  <2>3. PICK row : row = [run[r] EXCEPT !.out = out]
    OBVIOUS
  <2>4. Becomes(r, row)
    BY <1>3, <2>1, <2>3 DEF Start
  <2>5. Fits(r, row, run[r].active, out, run[r].circuit)
    BY <1>1, <2>2, <2>3 DEF Fits, RunStates
  <2> QED BY <1>1, <2>1, <2>4, <2>5, PhaseRow
<1>4. CASE ~(run[r].circuit /\ s \notin Proxyless)
  <2>1. PICK active : active = run[r].active \union {s}
    OBVIOUS
  <2>2. active \in SUBSET Sources
    BY <1>2, <2>1
  <2>3. PICK row : row = [run[r] EXCEPT !.active = active]
    OBVIOUS
  <2>4. Becomes(r, row)
    BY <1>4, <2>1, <2>3 DEF Start
  <2>5. Fits(r, row, active, run[r].out, run[r].circuit)
    BY <1>1, <2>2, <2>3 DEF Fits, RunStates
  <2>6. ~run[r].circuit \/ s \in Proxyless
    BY <1>4, Zenon
  <2> QED BY <1>1, <2>1, <2>4, <2>5, <2>6, PhaseRow
<1> QED BY <1>3, <1>4

\* A fetch has ended, whatever it raised.
LEMMA EndRow ==
  ASSUME TypeOK, NEW r \in Runs, NEW s \in Sources,
         \/ Raise(r, s)
         \/ \E kind \in {"fresh", "failed", "proxy"}, refused \in BOOLEAN :
              End(r, s, kind, refused)
  PROVE  /\ Only(r) /\ KeepsSelection(r) /\ run[r].pc = "fetching" /\ run'[r].pc = "fetching"
         /\ s \in run[r].active /\ run'[r].active = run[r].active \ {s}
         /\ run'[r].results = run[r].results
         /\ run[r].circuit => run'[r].circuit
         /\ \E kind \in {"fresh", "failed", "proxy"} :
              /\ run'[r].out = [run[r].out EXCEPT ![s] = kind]
              /\ kind = "proxy" => run'[r].circuit
              /\ dataset' = IF kind = "fresh" THEN [dataset EXCEPT ![s] = r] ELSE dataset
<1>1. run[r] \in RunStates
  BY DEF TypeOK
<1>2. /\ run[r].active \in SUBSET Sources /\ run[r].out \in [Sources -> Outcomes]
      /\ run[r].circuit \in BOOLEAN
  BY <1>1 DEF RunStates
<1>3. PICK active : active = run[r].active \ {s}
  OBVIOUS
<1>4. CASE Raise(r, s)
  <2>1. PICK out : out = [run[r].out EXCEPT ![s] = "failed"]
    OBVIOUS
  <2>2. out \in [Sources -> Outcomes]
    BY <1>2, <2>1 DEF Outcomes
  <2>3. PICK row : row = [run[r] EXCEPT !.active = active, !.out = out]
    OBVIOUS
  <2>4. Becomes(r, row)
    BY <1>3, <1>4, <2>1, <2>3 DEF Raise
  <2>5. run[r].pc = "fetching" /\ s \in run[r].active /\ dataset' = dataset
    BY <1>4 DEF Raise
  <2>6. Fits(r, row, active, out, run[r].circuit)
    BY <1>1, <1>2, <1>3, <2>2, <2>3 DEF Fits, RunStates
  <2> QED BY <1>3, <2>1, <2>4, <2>5, <2>6, PhaseRow
<1>5. ASSUME NEW kind \in {"fresh", "failed", "proxy"}, NEW refused \in BOOLEAN,
             End(r, s, kind, refused)
      PROVE  /\ Only(r) /\ KeepsSelection(r)
             /\ run[r].pc = "fetching" /\ run'[r].pc = "fetching"
             /\ s \in run[r].active /\ run'[r].active = run[r].active \ {s}
             /\ run'[r].results = run[r].results
             /\ run[r].circuit => run'[r].circuit
             /\ run'[r].out = [run[r].out EXCEPT ![s] = kind]
             /\ kind = "proxy" => run'[r].circuit
             /\ dataset' = IF kind = "fresh" THEN [dataset EXCEPT ![s] = r] ELSE dataset
  <2> DEFINE out == [run[r].out EXCEPT ![s] = kind]
             circuit == run[r].circuit \/ refused
             row == [run[r] EXCEPT !.active = run[r].active \ {s}, !.out = out,
                                   !.circuit = circuit]
  <2>1. out \in [Sources -> Outcomes]
    BY <1>2 DEF Outcomes
  <2>2. circuit \in BOOLEAN
    BY Zenon
  <2>3. Becomes(r, row)
    BY <1>5, Zenon DEF End
  <2>4. /\ run[r].pc = "fetching" /\ s \in run[r].active
        /\ dataset' = IF kind = "fresh" THEN [dataset EXCEPT ![s] = r] ELSE dataset
    BY <1>5, Zenon DEF End
  <2>5. kind = "proxy" => circuit
    BY <1>5, Zenon DEF End
  <2>6. run[r].circuit => circuit
    BY Zenon
  <2> HIDE DEF out, circuit
  <2>7. Fits(r, row, run[r].active \ {s}, out, circuit)
    BY <1>1, <1>2, <2>1, <2>2 DEF Fits, RunStates
  <2> HIDE DEF row
  <2>8. /\ Only(r) /\ KeepsSelection(r) /\ run'[r].pc = run[r].pc
        /\ run'[r].active = run[r].active \ {s} /\ run'[r].out = out
        /\ run'[r].circuit = circuit /\ run'[r].results = run[r].results
    BY <2>3, <2>7, PhaseRow
  <2>9. run'[r].out = [run[r].out EXCEPT ![s] = kind]
    BY <2>8 DEF out
  <2> QED BY <2>4, <2>5, <2>6, <2>8, <2>9
<1> QED BY <1>4, <1>5

\* What a phase has found joins what the earlier ones found.
LEMMA MergedFacts ==
  ASSUME TypeOK, NEW r \in Runs
  PROVE  /\ Merged(r) \in [Sources -> Outcomes]
         /\ \A s \in Sources : Merged(r)[s] \in {run[r].out[s], run[r].results[s]}
         /\ \A s \in Sources : Merged(r)[s] = "none" <=>
              run[r].out[s] = "none" /\ run[r].results[s] = "none"
<1>1. run[r].out \in [Sources -> Outcomes] /\ run[r].results \in [Sources -> Outcomes]
  BY DEF TypeOK, RunStates
<1> QED BY <1>1 DEF Merged

LEMMA NextPhaseRow ==
  ASSUME TypeOK, NEW r \in Runs, NextPhase(r)
  PROVE  /\ Only(r) /\ KeepsSelection(r) /\ run[r].pc = "fetching" /\ run'[r].pc = "fetching"
         /\ run[r].active = {} /\ run'[r].active = {}
         /\ run'[r].circuit = run[r].circuit
         /\ run'[r].out = [s \in Sources |-> "none"] /\ run'[r].results = Merged(r)
<1>1. run[r] \in RunStates /\ PhaseOver(r) /\ run[r].phase < Phases
  BY DEF TypeOK, NextPhase
<1>2. PICK results : results = Merged(r)
  OBVIOUS
<1>3. PICK out : out = [s \in Sources |-> "none"]
  OBVIOUS
<1>4. results \in [Sources -> Outcomes] /\ out \in [Sources -> Outcomes]
  BY <1>2, <1>3, MergedFacts DEF Outcomes
<1>5. PICK row : row = [run[r] EXCEPT !.phase = run[r].phase + 1, !.results = results,
                                      !.out = out]
  OBVIOUS
<1>6. Becomes(r, row)
  BY <1>2, <1>3, <1>5 DEF NextPhase
<1>7. run[r].phase + 1 \in 1 .. Phases
  BY <1>1 DEF RunStates
<1>8. /\ row \in RunStates /\ row.pc = run[r].pc /\ row.active = run[r].active
      /\ row.out = out /\ row.results = results /\ row.circuit = run[r].circuit
      /\ row.named = run[r].named /\ row.scheduled = run[r].scheduled
      /\ row.held = run[r].held /\ row.locked = run[r].locked
      /\ row.selected = run[r].selected /\ row.todo = run[r].todo
  BY <1>1, <1>4, <1>5, <1>7 DEF RunStates
<1>9. Only(r) /\ run'[r] = row
  BY <1>6, <1>8, BecomesFacts
<1>10. run[r].pc = "fetching" /\ run[r].active = {}
  BY <1>1 DEF PhaseOver
<1> QED BY <1>2, <1>3, <1>8, <1>9, <1>10 DEF KeepsSelection

\* The results of a call are recorded, all of them or without the last phase's.
LEMMA RecordRow ==
  ASSUME TypeOK, NEW r \in Runs, LastPhaseEnds(r) \/ PhaseFails(r)
  PROVE  /\ Only(r) /\ KeepsSelection(r) /\ run[r].pc = "fetching" /\ run'[r].pc = "review"
         /\ run[r].active = {} /\ run'[r].active = {}
         /\ run'[r].out = run[r].out /\ run'[r].circuit = run[r].circuit
         /\ run'[r].results \in [Sources -> Outcomes]
         /\ \A s \in Sources : run'[r].results[s] \in {run[r].out[s], run[r].results[s]}
         /\ telemetry' = [telemetry EXCEPT ![r] = Terminal(r, run'[r].results)]
         /\ UNCHANGED <<lock, dataset, status, attempts, tried, spent, uploads>>
<1>1. run[r] \in RunStates /\ run[r].pc = "fetching" /\ run[r].active = {}
  BY DEF TypeOK, LastPhaseEnds, PhaseFails, PhaseOver
<1>2. PICK results : /\ results \in {Merged(r), run[r].results} /\ Record(r, results)
  BY DEF LastPhaseEnds, PhaseFails
<1>3. /\ results \in [Sources -> Outcomes]
      /\ \A s \in Sources : results[s] \in {run[r].out[s], run[r].results[s]}
  BY <1>1, <1>2, MergedFacts DEF RunStates
<1>4. PICK row : row = [run[r] EXCEPT !.pc = "review", !.results = results]
  OBVIOUS
<1>5. Becomes(r, row)
  BY <1>2, <1>4 DEF Record
<1>6. /\ row \in RunStates /\ row.pc = "review" /\ row.active = run[r].active
      /\ row.out = run[r].out /\ row.results = results /\ row.circuit = run[r].circuit
      /\ row.named = run[r].named /\ row.scheduled = run[r].scheduled
      /\ row.held = run[r].held /\ row.locked = run[r].locked
      /\ row.selected = run[r].selected /\ row.todo = run[r].todo
  BY <1>1, <1>3, <1>4 DEF RunStates, Steps
<1>7. Only(r) /\ run'[r] = row
  BY <1>5, <1>6, BecomesFacts
<1>8. /\ telemetry' = [telemetry EXCEPT ![r] = Terminal(r, results)]
      /\ UNCHANGED <<lock, dataset, status, attempts, tried, spent, uploads>>
  BY <1>2 DEF Record
<1> QED BY <1>1, <1>3, <1>6, <1>7, <1>8 DEF KeepsSelection

-----------------------------------------------------------------------------
\* Every reachable state is well typed.
LEMMA TypeStep ==
  ASSUME TypeOK, [Next]_vars
  PROVE  TypeOK'
<1> DEFINE Shared ==
      /\ lock \in [Sources -> Runs \union {NoRun}]
      /\ dataset \in [Sources -> Runs \union {NoRun, Admin}]
      /\ status \in [Sources -> [by : Runs \union {NoRun, Admin}, kind : Outcomes]]
      /\ telemetry \in [Runs -> [Sources -> Outcomes \union {"locked"}]]
      /\ attempts \in [{Process[q] : q \in Runs} -> 0 .. MaxPerRefresh]
      /\ tried \in [{Process[q] : q \in Runs} -> [Sources -> 0 .. MaxPerSource]]
      /\ spent \in [Runs -> Nat]
      /\ uploads \in 0 .. MaxUploads
<1>1. Shared
  BY DEF TypeOK
<1>2. SUFFICES run' \in [Runs -> RunStates] /\ Shared'
  BY DEF TypeOK
<1>3. ASSUME NEW r \in Runs, NEW named \in Requests, NEW scheduled \in BOOLEAN,
             Call(r, named, scheduled)
      PROVE  run' \in [Runs -> RunStates] /\ Shared'
  <2>1. Only(r)
    BY <1>3, CallRow
  <2>2. UNCHANGED <<lock, dataset, status, telemetry, attempts, tried, spent, uploads>>
    BY <1>3 DEF Call
  <2> QED BY <1>1, <2>1, <2>2 DEF Only
<1>4. ASSUME NEW r \in Runs, TryLock(r)
      PROVE  run' \in [Runs -> RunStates] /\ Shared'
  <2>1. UNCHANGED <<dataset, status, telemetry, attempts, tried, spent, uploads>>
    BY <1>4 DEF TryLock
  <2>2. PICK s \in Sources :
          Only(r) /\ (lock' = lock \/ lock' = [lock EXCEPT ![s] = r])
    BY <1>4, TryLockRow
  <2>3. run' \in [Runs -> RunStates] /\ lock' \in [Sources -> Runs \union {NoRun}]
    BY <1>1, <2>2 DEF Only
  <2> QED BY <1>1, <2>1, <2>3
<1>5. ASSUME NEW r \in Runs, Enter(r)
      PROVE  run' \in [Runs -> RunStates] /\ Shared'
  <2>1. UNCHANGED <<lock, dataset, status, spent, uploads>>
    BY <1>5 DEF Enter
  <2>2. telemetry' = [telemetry EXCEPT ![r] =
           [s \in Sources |-> IF s \in run[r].locked THEN "locked" ELSE "none"]]
    BY <1>5 DEF Enter
  <2>3. telemetry' \in [Runs -> [Sources -> Outcomes \union {"locked"}]]
    BY <1>1, <2>2 DEF Outcomes
  <2>4. \/ UNCHANGED <<attempts, tried>>
        \/ /\ attempts' = [attempts EXCEPT ![Process[r]] = 0]
           /\ tried' = [tried EXCEPT ![Process[r]] = [s \in Sources |-> 0]]
    BY <1>5, EnterRow
  <2>5. attempts' \in [{Process[q] : q \in Runs} -> 0 .. MaxPerRefresh]
    BY <1>1, <2>4
  <2>6. PICK zero : zero = [s \in Sources |-> 0]
    OBVIOUS
  <2>7. zero \in [Sources -> 0 .. MaxPerSource]
    BY <2>6
  <2>8. tried' \in [{Process[q] : q \in Runs} -> [Sources -> 0 .. MaxPerSource]]
    BY <1>1, <2>4, <2>6, <2>7
  <2> QED BY <1>1, <1>5, <2>1, <2>3, <2>5, <2>8, EnterRow DEF Only
<1>6. ASSUME NEW r \in Runs, PreflightPasses(r)
      PROVE  run' \in [Runs -> RunStates] /\ Shared'
  BY <1>1, <1>6, MoveRow DEF PreflightPasses, Only
<1>7. ASSUME NEW r \in Runs, PreflightFails(r)
      PROVE  run' \in [Runs -> RunStates] /\ Shared'
  <2>1. /\ UNCHANGED <<dataset, status, attempts, tried, spent, uploads>>
        /\ lock' = Released(r)
        /\ telemetry' = [telemetry EXCEPT ![r] =
             [s \in Sources |-> IF s \in run[r].selected THEN "failed" ELSE telemetry[r][s]]]
    BY <1>7 DEF PreflightFails
  <2>2. telemetry' \in [Runs -> [Sources -> Outcomes \union {"locked"}]]
    BY <1>1, <2>1 DEF Outcomes
  <2>3. lock' \in [Sources -> Runs \union {NoRun}]
    BY <1>1, <2>1 DEF Released
  <2> QED BY <1>1, <1>7, <2>1, <2>2, <2>3, MoveRow DEF Only
<1>8. ASSUME NEW r \in Runs, NEW s \in Sources, Start(r, s)
      PROVE  run' \in [Runs -> RunStates] /\ Shared'
  <2>1. /\ UNCHANGED <<lock, dataset, telemetry, attempts, tried, spent, uploads>>
        /\ status' = status \/ status' = FailedBy(r, s)
    BY <1>8 DEF Start
  <2>2. FailedBy(r, s) \in [Sources -> [by : Runs \union {NoRun, Admin}, kind : Outcomes]]
    BY <1>1 DEF FailedBy, Outcomes
  <2> QED BY <1>1, <1>8, <2>1, <2>2, StartRow DEF Only
<1>9. ASSUME NEW r \in Runs, NEW s \in Sources, Raise(r, s)
      PROVE  run' \in [Runs -> RunStates] /\ Shared'
  <2>1. /\ UNCHANGED <<lock, dataset, telemetry, attempts, tried, spent, uploads>>
        /\ status' = status \/ status' = FailedBy(r, s)
    BY <1>9 DEF Raise
  <2>2. FailedBy(r, s) \in [Sources -> [by : Runs \union {NoRun, Admin}, kind : Outcomes]]
    BY <1>1 DEF FailedBy, Outcomes
  <2>3. Only(r)
    BY <1>9, EndRow
  <2> QED BY <1>1, <2>1, <2>2, <2>3 DEF Only
<1>10. ASSUME NEW r \in Runs, NEW s \in Sources, NEW kind \in {"fresh", "failed", "proxy"},
              NEW refused \in BOOLEAN, End(r, s, kind, refused)
       PROVE  run' \in [Runs -> RunStates] /\ Shared'
  <2>1. /\ UNCHANGED <<lock, telemetry, attempts, tried, spent, uploads>>
        /\ status' = [status EXCEPT ![s] =
             [by |-> r, kind |-> IF kind = "proxy" THEN "failed" ELSE kind]]
        /\ dataset' = IF kind = "fresh" THEN [dataset EXCEPT ![s] = r] ELSE dataset
    BY <1>10, Zenon DEF End
  <2>2. status' \in [Sources -> [by : Runs \union {NoRun, Admin}, kind : Outcomes]]
    BY <1>1, <2>1 DEF Outcomes
  <2>3. dataset' \in [Sources -> Runs \union {NoRun, Admin}]
    BY <1>1, <2>1
  <2>4. \E k \in {"fresh", "failed", "proxy"}, f \in BOOLEAN : End(r, s, k, f)
    BY <1>10, Zenon
  <2>5. Only(r)
    BY <2>4, EndRow
  <2> QED BY <1>1, <2>1, <2>2, <2>3, <2>5 DEF Only
<1>11. ASSUME NEW r \in Runs, NEW s \in Sources, Fallback(r, s)
       PROVE  run' \in [Runs -> RunStates] /\ Shared'
  <2>1. PICK p \in {Process[q] : q \in Runs} : p = Process[r]
    OBVIOUS
  <2>2. /\ attempts' = [attempts EXCEPT ![p] = attempts[p] + 1]
        /\ tried' = [tried EXCEPT ![p] = [tried[p] EXCEPT ![s] = tried[p][s] + 1]]
        /\ spent' = [spent EXCEPT ![r] = spent[r] + 1]
        /\ UNCHANGED <<lock, dataset, status, telemetry, uploads>>
        /\ attempts[p] < MaxPerRefresh /\ tried[p][s] < MaxPerSource
    BY <1>11, <2>1 DEF Fallback, MayFallBack
  <2>3. attempts[p] + 1 \in 0 .. MaxPerRefresh
    BY <1>1, <2>2
  <2>4. tried[p] \in [Sources -> 0 .. MaxPerSource]
    BY <1>1
  <2>5. tried[p][s] + 1 \in 0 .. MaxPerSource
    BY <2>2, <2>4
  <2>6. attempts' \in [{Process[q] : q \in Runs} -> 0 .. MaxPerRefresh]
    BY <1>1, <2>2, <2>3
  <2>7. [tried[p] EXCEPT ![s] = tried[p][s] + 1] \in [Sources -> 0 .. MaxPerSource]
    BY <2>4, <2>5
  <2>8. tried' \in [{Process[q] : q \in Runs} -> [Sources -> 0 .. MaxPerSource]]
    BY <1>1, <2>2, <2>7
  <2>9. spent' \in [Runs -> Nat]
    BY <1>1, <2>2
  <2>10. Only(r)
    BY <1>11, MoveRow
  <2> QED BY <1>1, <2>2, <2>6, <2>8, <2>9, <2>10 DEF Only
<1>12. ASSUME NEW r \in Runs, NEW s \in Sources, Review(r, s)
       PROVE  run' \in [Runs -> RunStates] /\ Shared'
  <2>1. /\ UNCHANGED <<lock, dataset, telemetry, attempts, tried, spent, uploads>>
        /\ status' = [status EXCEPT ![s] =
             [by |-> r, kind |-> IF telemetry[r][s] = "fresh" THEN "fresh" ELSE "failed"]]
    BY <1>12 DEF Review
  <2>2. status' \in [Sources -> [by : Runs \union {NoRun, Admin}, kind : Outcomes]]
    BY <1>1, <2>1 DEF Outcomes
  <2>3. Only(r)
    BY <1>12, MoveRow
  <2> QED BY <1>1, <2>1, <2>2, <2>3 DEF Only
<1>13. ASSUME NEW r \in Runs, NextPhase(r)
       PROVE  run' \in [Runs -> RunStates] /\ Shared'
  <2>1. Only(r)
    BY <1>13, NextPhaseRow
  <2>2. UNCHANGED <<lock, dataset, status, telemetry, attempts, tried, spent, uploads>>
    BY <1>13 DEF NextPhase
  <2> QED BY <1>1, <2>1, <2>2 DEF Only
<1>14. ASSUME NEW r \in Runs, LastPhaseEnds(r) \/ PhaseFails(r)
       PROVE  run' \in [Runs -> RunStates] /\ Shared'
  <2>1. PICK results \in [Sources -> Outcomes] :
          telemetry' = [telemetry EXCEPT ![r] = Terminal(r, results)]
    BY <1>14, RecordRow
  <2>2. Terminal(r, results) \in [Sources -> Outcomes \union {"locked"}]
    BY <1>1 DEF Terminal, Outcomes
  <2>3. telemetry' \in [Runs -> [Sources -> Outcomes \union {"locked"}]]
    BY <1>1, <2>1, <2>2
  <2> QED BY <1>1, <1>14, <2>3, RecordRow DEF Only
<1>15. ASSUME NEW r \in Runs, Return(r)
       PROVE  run' \in [Runs -> RunStates] /\ Shared'
  <2>1. /\ UNCHANGED <<dataset, status, telemetry, attempts, tried, spent, uploads>>
        /\ lock' = Released(r)
    BY <1>15 DEF Return
  <2>2. lock' \in [Sources -> Runs \union {NoRun}]
    BY <1>1, <2>1 DEF Released
  <2> QED BY <1>1, <1>15, <2>1, <2>2, MoveRow DEF Only
<1>16. ASSUME NEW s \in Sources, Upload(s)
       PROVE  run' \in [Runs -> RunStates] /\ Shared'
  <2>1. /\ UNCHANGED <<run, lock, telemetry, attempts, tried, spent>>
        /\ uploads < MaxUploads /\ uploads' = uploads + 1
        /\ dataset' = [dataset EXCEPT ![s] = Admin]
        /\ status' = [status EXCEPT ![s] = [by |-> Admin, kind |-> "fresh"]]
    BY <1>16 DEF Upload
  <2>2. uploads' \in 0 .. MaxUploads
    BY <1>1, <2>1
  <2>3. dataset' \in [Sources -> Runs \union {NoRun, Admin}]
    BY <1>1, <2>1
  <2>4. status' \in [Sources -> [by : Runs \union {NoRun, Admin}, kind : Outcomes]]
    BY <1>1, <2>1 DEF Outcomes
  <2> QED BY <1>1, <2>1, <2>2, <2>3, <2>4 DEF TypeOK
<1>17. CASE UNCHANGED vars
  BY <1>1, <1>17 DEF vars, TypeOK
<1> HIDE DEF Shared
<1> QED BY <1>3, <1>4, <1>5, <1>6, <1>7, <1>8, <1>9, <1>10, <1>11, <1>12, <1>13, <1>14,
           <1>15, <1>16, <1>17, StepCases, Zenon

-----------------------------------------------------------------------------
\* What a call holds and is owed is not disturbed by the steps of the others:
\* they take no lock it holds, publish nothing under such a lock and record
\* nothing in its place.
LEMMA Undisturbed ==
  ASSUME TypeOK, NEW q \in Runs, LocksFit(q), ResultsFit(q), RecordFits(q),
         run'[q] = run[q], telemetry'[q] = telemetry[q],
         \A s \in Sources : lock[s] = q => lock'[s] = q /\ dataset'[s] \in {dataset[s], Admin}
  PROVE  LocksFit(q)' /\ ResultsFit(q)' /\ RecordFits(q)'
<1>1. run[q] \in RunStates
  BY DEF TypeOK
<1>2. run[q].held \in SUBSET Sources /\ run[q].selected \in SUBSET Sources
  BY <1>1 DEF RunStates
<1>3. Wanted(q)' = Wanted(q) /\ Asked(q)' = Asked(q)
  BY DEF Wanted, Asked
<1>4. LocksFit(q)'
  BY <1>2, <1>3 DEF LocksFit
<1>5. ASSUME NEW s \in Sources, run[q].pc \in {"fetching", "review"},
             s \in run[q].selected, dataset[s] \in {q, Admin}
      PROVE  dataset'[s] \in {q, Admin}
  <2>1. lock[s] = q
    BY <1>5 DEF LocksFit
  <2> QED BY <1>5, <2>1
<1>6. ResultsFit(q)'
  <2>1. ASSUME NEW s \in Sources, run'[q].pc = "fetching",
               "fresh" \in {run'[q].out[s], run'[q].results[s]}
        PROVE  dataset'[s] \in {q, Admin}
    BY <1>5, <2>1 DEF ResultsFit
  <2> QED BY <2>1 DEF ResultsFit
<1>7. RecordFits(q)'
  <2>1. ASSUME NEW s \in Sources, run'[q].pc = "review", telemetry'[q][s] = "fresh"
        PROVE  s \in run'[q].selected /\ dataset'[s] \in {q, Admin}
    BY <1>5, <2>1 DEF RecordFits
  <2> QED BY <2>1 DEF RecordFits
<1> QED BY <1>4, <1>6, <1>7

\* The selection stands while a call keeps its locks, and when it is over.
LEMMA SelectionStands ==
  ASSUME NEW r \in Runs, LocksFit(r), KeepsSelection(r),
         run[r].pc \in {"preflight", "fetching", "review"},
         run'[r].pc \in {"preflight", "fetching", "review", "done"},
         run'[r].pc # "done" => lock' = lock
  PROVE  LocksFit(r)'
<1>1. Wanted(r)' = Wanted(r) /\ Asked(r)' = Asked(r)
  BY DEF Wanted, Asked, KeepsSelection
<1> QED BY <1>1 DEF LocksFit, KeepsSelection

LEMMA CallFits ==
  ASSUME TypeOK, NEW r \in Runs, LocksFit(r), ResultsFit(r),
         NEW named \in Requests, NEW scheduled \in BOOLEAN, Call(r, named, scheduled)
  PROVE  LocksFit(r)' /\ ResultsFit(r)' /\ RecordFits(r)'
<1>1. /\ KeepsResults(r) /\ run[r].pc = "new" /\ run'[r].pc = "locking"
      /\ run'[r].todo = IF named = {} THEN Sources ELSE named
      /\ run'[r].named = named
      /\ run'[r].held = run[r].held /\ run'[r].locked = run[r].locked
      /\ run'[r].selected = run[r].selected
  BY CallRow
<1>2. LocksFit(r)'
  BY <1>1 DEF LocksFit, Asked
<1>3. ResultsFit(r)'
  BY <1>1 DEF ResultsFit, KeepsResults
<1>4. RecordFits(r)'
  BY <1>1 DEF RecordFits
<1> QED BY <1>2, <1>3, <1>4

LEMMA TryLockFits ==
  ASSUME TypeOK, NEW r \in Runs, LocksFit(r), ResultsFit(r), TryLock(r)
  PROVE  LocksFit(r)' /\ ResultsFit(r)' /\ RecordFits(r)'
<1>1. PICK s \in run[r].todo :
        /\ s \in Sources
        /\ KeepsResults(r) /\ run[r].pc = "locking" /\ run'[r].pc = "locking"
        /\ run'[r].todo = run[r].todo \ {s}
        /\ run'[r].named = run[r].named
        /\ run'[r].selected = run[r].selected
        /\ \/ /\ lock[s] = NoRun /\ lock' = [lock EXCEPT ![s] = r]
              /\ run'[r].held = run[r].held \union {s}
              /\ run'[r].locked = run[r].locked
           \/ /\ lock' = lock /\ run'[r].held = run[r].held
              /\ run'[r].locked = run[r].locked \union {s}
  BY TryLockRow
<1>2. lock \in [Sources -> Runs \union {NoRun}] /\ run[r] \in RunStates
  BY DEF TypeOK
<1>3. run[r].held \in SUBSET Sources
  BY <1>2 DEF RunStates
<1>4. Asked(r)' = Asked(r)
  BY <1>1 DEF Asked
<1>5. run'[r].todo \union run'[r].held \union run'[r].locked = Asked(r)
  BY <1>1 DEF LocksFit
<1>6. ASSUME NEW u \in run'[r].held
      PROVE  lock'[u] = r
  BY <1>1, <1>2, <1>3 DEF LocksFit
<1>7. LocksFit(r)'
  BY <1>1, <1>4, <1>5, <1>6 DEF LocksFit
<1>8. ResultsFit(r)'
  BY <1>1 DEF ResultsFit, KeepsResults
<1>9. RecordFits(r)'
  BY <1>1 DEF RecordFits
<1> QED BY <1>7, <1>8, <1>9

\* What a call selects of its locks is what it wants of them.
LEMMA SelectedFacts ==
  ASSUME TypeOK, NEW r \in Runs, LocksFit(r), run[r].pc = "locking", run[r].todo = {},
         run[r].held # {}
  PROVE  LET chosen == Selected(Names(r), run[r].scheduled) IN
           /\ chosen \subseteq run[r].held
           /\ run[r].scheduled => chosen \subseteq Enabled \intersect Authorized
           /\ Wanted(r) \subseteq chosen \union run[r].locked
<1>1. run[r].held \union run[r].locked = Asked(r)
  BY DEF LocksFit
<1>2. run[r] \in RunStates
  BY DEF TypeOK
<1>3. run[r].named \in SUBSET Sources /\ run[r].held \in SUBSET Sources
  BY <1>2 DEF RunStates
<1>4. CASE run[r].locked = {}
  BY <1>1, <1>3, <1>4 DEF Names, Selected, Asked, Wanted
<1>5. CASE run[r].locked # {}
  BY <1>1, <1>3, <1>5 DEF Names, Selected, Asked, Wanted
<1> QED BY <1>4, <1>5

LEMMA EnterFits ==
  ASSUME TypeOK, NEW r \in Runs, LocksFit(r), ResultsFit(r), Enter(r)
  PROVE  LocksFit(r)' /\ ResultsFit(r)' /\ RecordFits(r)'
<1>1. /\ KeepsResults(r) /\ run[r].pc = "locking" /\ run[r].todo = {}
      /\ run'[r].named = run[r].named /\ run'[r].scheduled = run[r].scheduled
      /\ run'[r].locked = run[r].locked /\ run'[r].held = run[r].held
      /\ run'[r].todo = run[r].todo
      /\ \/ /\ run[r].held = {} /\ run'[r].pc = "done"
            /\ run'[r].selected = run[r].selected
         \/ /\ run[r].held # {} /\ run'[r].pc = "preflight"
            /\ run'[r].selected = Selected(Names(r), run[r].scheduled)
  BY EnterRow
<1>2. /\ telemetry' = [telemetry EXCEPT ![r] =
           [s \in Sources |-> IF s \in run[r].locked THEN "locked" ELSE "none"]]
      /\ lock' = lock
  BY DEF Enter
<1>3. telemetry \in [Runs -> [Sources -> Outcomes \union {"locked"}]] /\ run[r] \in RunStates
  BY DEF TypeOK
<1>4. \A s \in Sources : telemetry'[r][s] = IF s \in run[r].locked THEN "locked" ELSE "none"
  BY <1>2, <1>3
<1>5. run[r].locked \in SUBSET Sources
  BY <1>3 DEF RunStates
<1>6. Wanted(r)' = Wanted(r) /\ Asked(r)' = Asked(r)
  BY <1>1 DEF Wanted, Asked
<1>7. run[r].held = {} => Wanted(r) \subseteq run[r].locked
  BY <1>1 DEF LocksFit, Wanted, Asked
<1>8. LocksFit(r)'
  <2>1. CASE run[r].held = {}
    BY <1>1, <1>6, <1>7, <2>1 DEF LocksFit
  <2>2. CASE run[r].held # {}
    <3>1. PICK chosen : chosen = Selected(Names(r), run[r].scheduled)
      OBVIOUS
    <3>2. /\ chosen \subseteq run[r].held
          /\ run[r].scheduled => chosen \subseteq Enabled \intersect Authorized
          /\ Wanted(r) \subseteq chosen \union run[r].locked
      BY <1>1, <2>2, <3>1, SelectedFacts
    <3>3. run'[r].pc = "preflight" /\ run'[r].selected = chosen
      BY <1>1, <2>2, <3>1
    <3> QED BY <1>1, <1>2, <1>6, <3>2, <3>3 DEF LocksFit
  <2> QED BY <2>1, <2>2
<1>9. ResultsFit(r)'
  <2>1. run[r].active = {}
    BY <1>1 DEF ResultsFit
  <2>2. \A s \in Sources : run[r].out[s] = "none" /\ run[r].results[s] = "none"
    BY <1>1 DEF ResultsFit
  <2> QED BY <1>1, <2>1, <2>2 DEF ResultsFit, KeepsResults
<1>10. RecordFits(r)'
  <2>1. run[r].held = {} => run'[r].selected = {}
    BY <1>1 DEF LocksFit
  <2> QED BY <1>1, <1>4, <1>5, <2>1 DEF RecordFits
<1> QED BY <1>8, <1>9, <1>10

LEMMA MoveFits ==
  ASSUME TypeOK, NEW r \in Runs, LocksFit(r), ResultsFit(r), RecordFits(r),
         \/ PreflightPasses(r) \/ PreflightFails(r) \/ Return(r)
         \/ \E s \in Sources : Review(r, s) \/ Fallback(r, s)
  PROVE  LocksFit(r)' /\ ResultsFit(r)' /\ RecordFits(r)'
<1>1. KeepsSelection(r) /\ KeepsResults(r) /\ dataset' = dataset
  BY MoveRow DEF PreflightPasses, PreflightFails, Return, Review, Fallback
<1>2. run[r] \in RunStates /\ telemetry \in [Runs -> [Sources -> Outcomes \union {"locked"}]]
  BY DEF TypeOK
<1>3. run[r].selected \in SUBSET Sources /\ run[r].locked \in SUBSET Sources
  BY <1>2 DEF RunStates
<1>4. CASE PreflightPasses(r)
  <2>1. run[r].pc = "preflight" /\ run'[r].pc = "fetching"
    <3> DEFINE row == [run[r] EXCEPT !.pc = "fetching"]
    <3>1. row \in RunStates /\ row.pc = "fetching"
      BY <1>2 DEF RunStates, Steps
    <3>2. Becomes(r, row) /\ run[r].pc = "preflight"
      BY <1>4 DEF PreflightPasses
    <3> HIDE DEF row
    <3> QED BY <3>1, <3>2, BecomesFacts
  <2>2. lock' = lock /\ telemetry' = telemetry
    BY <1>4 DEF PreflightPasses
  <2>3. LocksFit(r)'
    BY <1>1, <2>1, <2>2, SelectionStands
  <2>4. \A s \in Sources : run[r].out[s] = "none" /\ run[r].results[s] = "none"
    BY <2>1 DEF ResultsFit
  <2>5. ResultsFit(r)'
    BY <1>1, <2>1, <2>4 DEF ResultsFit, KeepsResults, KeepsSelection
  <2>6. RecordFits(r)'
    BY <1>1, <2>1, <2>2 DEF RecordFits, KeepsSelection
  <2> QED BY <2>3, <2>5, <2>6
<1>5. CASE PreflightFails(r) \/ Return(r)
  <2>1. run[r].pc \in {"preflight", "review"} /\ run'[r].pc = "done"
    <3> DEFINE row == [run[r] EXCEPT !.pc = "done"]
    <3>1. row \in RunStates /\ row.pc = "done"
      BY <1>2 DEF RunStates, Steps
    <3>2. Becomes(r, row) /\ run[r].pc \in {"preflight", "review"}
      BY <1>5 DEF PreflightFails, Return
    <3> HIDE DEF row
    <3> QED BY <3>1, <3>2, BecomesFacts
  <2>2. LocksFit(r)'
    BY <1>1, <2>1, SelectionStands
  <2>3. ResultsFit(r)'
    BY <1>1, <2>1 DEF ResultsFit, KeepsResults, KeepsSelection
  <2>4. CASE PreflightFails(r)
    <3>1. run[r].pc = "preflight"
      BY <2>4 DEF PreflightFails
    <3>2. telemetry' = [telemetry EXCEPT ![r] =
            [s \in Sources |-> IF s \in run[r].selected THEN "failed" ELSE telemetry[r][s]]]
      BY <2>4 DEF PreflightFails
    <3>3. \A s \in Sources :
            telemetry'[r][s] = IF s \in run[r].selected THEN "failed" ELSE telemetry[r][s]
      BY <1>2, <3>2
    <3>4. \A s \in run[r].locked : telemetry[r][s] = "locked"
      BY <1>3, <3>1 DEF RecordFits
    <3>5. \A s \in run[r].selected \union run[r].locked : telemetry'[r][s] # "none"
      BY <1>3, <3>3, <3>4
    <3> QED BY <1>1, <2>1, <2>2, <2>3, <3>5 DEF RecordFits, KeepsSelection
  <2>5. CASE Return(r)
    <3>1. run[r].pc = "review" /\ telemetry' = telemetry
      BY <2>5 DEF Return
    <3> QED BY <1>1, <2>1, <2>2, <2>3, <3>1 DEF RecordFits, KeepsSelection
  <2> QED BY <1>5, <2>4, <2>5
<1>6. CASE \E s \in Sources : Review(r, s) \/ Fallback(r, s)
  <2>1. /\ lock' = lock /\ telemetry' = telemetry
        /\ run[r].pc \in {"fetching", "review"}
    BY <1>6 DEF Review, Fallback
  <2>2. run'[r].pc = run[r].pc
    <3>1. CASE \E s \in Sources : Review(r, s)
      <4>1. PICK s \in Sources : Review(r, s)
        BY <3>1
      <4> DEFINE row == [run[r] EXCEPT !.reviewed = run[r].reviewed \union {s}]
      <4>2. row \in RunStates /\ row.pc = run[r].pc
        BY <1>2 DEF RunStates
      <4>3. Becomes(r, row)
        BY <4>1 DEF Review
      <4> HIDE DEF row
      <4> QED BY <4>2, <4>3, BecomesFacts
    <3>2. CASE \E s \in Sources : Fallback(r, s)
      <4>1. run[r].pc = "fetching"
        BY <3>2 DEF Fallback
      <4> QED BY <3>2, <4>1, MoveRow
    <3> QED BY <1>6, <3>1, <3>2
  <2>3. LocksFit(r)'
    BY <1>1, <2>1, <2>2, SelectionStands
  <2>4. ResultsFit(r)'
    BY <1>1, <2>1, <2>2 DEF ResultsFit, KeepsResults, KeepsSelection
  <2>5. RecordFits(r)'
    BY <1>1, <2>1, <2>2 DEF RecordFits, KeepsSelection
  <2> QED BY <2>3, <2>4, <2>5
<1> QED BY <1>4, <1>5, <1>6

LEMMA StartFits ==
  ASSUME TypeOK, NEW r \in Runs, LocksFit(r), ResultsFit(r), RecordFits(r),
         NEW s \in Sources, Start(r, s)
  PROVE  LocksFit(r)' /\ ResultsFit(r)' /\ RecordFits(r)'
<1>1. /\ KeepsSelection(r) /\ run[r].pc = "fetching" /\ run'[r].pc = "fetching"
      /\ run'[r].results = run[r].results /\ run'[r].circuit = run[r].circuit
      /\ s \in Due(r)
      /\ \/ run'[r].active = run[r].active
            /\ run'[r].out = [run[r].out EXCEPT ![s] = "failed"]
         \/ run'[r].active = run[r].active \union {s} /\ run'[r].out = run[r].out
  BY StartRow
<1>2. lock' = lock /\ dataset' = dataset /\ telemetry' = telemetry
  BY DEF Start
<1>3. run[r] \in RunStates
  BY DEF TypeOK
<1>4. run[r].out \in [Sources -> Outcomes] /\ s \in run[r].selected
  BY <1>1, <1>3 DEF RunStates, Due
<1>5. LocksFit(r)'
  BY <1>1, <1>2, SelectionStands
<1>6. \A u \in Sources : run'[r].out[u] \in {run[r].out[u]} \union (IF u = s THEN {"failed"} ELSE {})
  BY <1>1, <1>4
<1>7. ResultsFit(r)'
  BY <1>1, <1>2, <1>4, <1>6 DEF ResultsFit, KeepsSelection
<1>8. RecordFits(r)'
  BY <1>1, <1>2 DEF RecordFits, KeepsSelection
<1> QED BY <1>5, <1>7, <1>8

LEMMA EndFits ==
  ASSUME TypeOK, NEW r \in Runs, LocksFit(r), ResultsFit(r), RecordFits(r),
         NEW s \in Sources,
         \/ Raise(r, s)
         \/ \E kind \in {"fresh", "failed", "proxy"}, refused \in BOOLEAN :
              End(r, s, kind, refused)
  PROVE  LocksFit(r)' /\ ResultsFit(r)' /\ RecordFits(r)'
<1>1. PICK kind \in {"fresh", "failed", "proxy"} :
        /\ KeepsSelection(r) /\ run[r].pc = "fetching" /\ run'[r].pc = "fetching"
        /\ s \in run[r].active /\ run'[r].active = run[r].active \ {s}
        /\ run'[r].results = run[r].results
        /\ run[r].circuit => run'[r].circuit
        /\ run'[r].out = [run[r].out EXCEPT ![s] = kind]
        /\ kind = "proxy" => run'[r].circuit
        /\ dataset' = IF kind = "fresh" THEN [dataset EXCEPT ![s] = r] ELSE dataset
  BY EndRow
<1>2. lock' = lock /\ telemetry' = telemetry
  <2>1. CASE Raise(r, s)
    BY <2>1 DEF Raise
  <2>2. CASE \E k \in {"fresh", "failed", "proxy"}, f \in BOOLEAN : End(r, s, k, f)
    <3>1. PICK k \in {"fresh", "failed", "proxy"}, f \in BOOLEAN : End(r, s, k, f)
      BY <2>2, Zenon
    <3>2. UNCHANGED <<lock, telemetry, attempts, tried, spent, uploads>>
      BY <3>1, Zenon DEF End
    <3> QED BY <3>2
  <2> QED BY <2>1, <2>2, Zenon
<1>3. run[r] \in RunStates /\ dataset \in [Sources -> Runs \union {NoRun, Admin}]
  BY DEF TypeOK
<1>4. run[r].out \in [Sources -> Outcomes] /\ s \in run[r].selected
  BY <1>1, <1>3 DEF RunStates, ResultsFit
<1>5. LocksFit(r)'
  BY <1>1, <1>2, SelectionStands
<1>6. \A u \in Sources : run'[r].out[u] = IF u = s THEN kind ELSE run[r].out[u]
  BY <1>1, <1>4
<1>7. \A u \in Sources : dataset'[u] = IF u = s /\ kind = "fresh" THEN r ELSE dataset[u]
  BY <1>1, <1>3
<1>8. ResultsFit(r)'
  <2>1. /\ run'[r].active \subseteq run'[r].selected
        /\ run'[r].pc = "fetching"
    BY <1>1 DEF ResultsFit, KeepsSelection
  <2>2. ASSUME NEW u \in Sources
        PROVE  /\ run'[r].out[u] # "none" \/ run'[r].results[u] # "none"
                    => u \in run'[r].selected
               /\ "fresh" \in {run'[r].out[u], run'[r].results[u]} => dataset'[u] \in {r, Admin}
    <3>1. /\ run[r].out[u] # "none" \/ run[r].results[u] # "none" => u \in run[r].selected
          /\ "fresh" \in {run[r].out[u], run[r].results[u]} => dataset[u] \in {r, Admin}
      BY <1>1 DEF ResultsFit
    <3>2. run'[r].selected = run[r].selected /\ run'[r].results[u] = run[r].results[u]
      BY <1>1 DEF KeepsSelection
    <3>3. CASE u = s
      BY <1>4, <1>6, <1>7, <3>1, <3>2, <3>3
    <3>4. CASE u # s
      BY <1>6, <1>7, <3>1, <3>2, <3>4
    <3> QED BY <3>3, <3>4
  <2>3. ASSUME NEW u \in Sources
        PROVE  "proxy" \in {run'[r].out[u], run'[r].results[u]} => run'[r].circuit
    BY <1>1, <1>6 DEF ResultsFit
  <2> QED BY <2>1, <2>2, <2>3 DEF ResultsFit
<1>9. RecordFits(r)'
  BY <1>1, <1>2 DEF RecordFits, KeepsSelection
<1> QED BY <1>5, <1>8, <1>9

LEMMA NextPhaseFits ==
  ASSUME TypeOK, NEW r \in Runs, LocksFit(r), ResultsFit(r), RecordFits(r), NextPhase(r)
  PROVE  LocksFit(r)' /\ ResultsFit(r)' /\ RecordFits(r)'
<1>1. /\ KeepsSelection(r) /\ run[r].pc = "fetching" /\ run'[r].pc = "fetching"
      /\ run'[r].active = {} /\ run'[r].circuit = run[r].circuit
      /\ run'[r].out = [s \in Sources |-> "none"] /\ run'[r].results = Merged(r)
  BY NextPhaseRow
<1>2. lock' = lock /\ dataset' = dataset /\ telemetry' = telemetry
  BY DEF NextPhase
<1>3. LocksFit(r)'
  BY <1>1, <1>2, SelectionStands
<1>4. \A s \in Sources :
        /\ run'[r].out[s] = "none"
        /\ run'[r].results[s] \in {run[r].out[s], run[r].results[s]}
  BY <1>1, MergedFacts
<1>5. ResultsFit(r)'
  BY <1>1, <1>2, <1>4 DEF ResultsFit, KeepsSelection
<1>6. RecordFits(r)'
  BY <1>1, <1>2 DEF RecordFits, KeepsSelection
<1> QED BY <1>3, <1>5, <1>6

LEMMA RecordingFits ==
  ASSUME TypeOK, NEW r \in Runs, LocksFit(r), ResultsFit(r), RecordFits(r),
         LastPhaseEnds(r) \/ PhaseFails(r)
  PROVE  LocksFit(r)' /\ ResultsFit(r)' /\ RecordFits(r)'
<1>1. /\ KeepsSelection(r) /\ run[r].pc = "fetching" /\ run'[r].pc = "review"
      /\ run'[r].active = {} /\ run'[r].out = run[r].out
      /\ run'[r].circuit = run[r].circuit
      /\ \A s \in Sources : run'[r].results[s] \in {run[r].out[s], run[r].results[s]}
      /\ telemetry' = [telemetry EXCEPT ![r] = Terminal(r, run'[r].results)]
      /\ lock' = lock /\ dataset' = dataset
  BY RecordRow
<1>2. run[r] \in RunStates /\ telemetry \in [Runs -> [Sources -> Outcomes \union {"locked"}]]
  BY DEF TypeOK
<1>3. run[r].selected \in SUBSET Sources /\ run[r].locked \in SUBSET Sources
  BY <1>2 DEF RunStates
<1>4. LocksFit(r)'
  BY <1>1, SelectionStands
<1>5. ResultsFit(r)'
  BY <1>1 DEF ResultsFit, KeepsSelection
<1>6. PICK results : results = run'[r].results
  OBVIOUS
<1>7. \A s \in Sources : telemetry'[r][s] = Terminal(r, results)[s]
  BY <1>1, <1>2, <1>6
<1>8. \A s \in Sources :
        telemetry[r][s] = IF s \in run[r].locked THEN "locked" ELSE "none"
  BY <1>1 DEF RecordFits
<1>9. \A s \in Sources :
        /\ telemetry'[r][s] = "none" => s \notin run[r].selected \union run[r].locked
        /\ telemetry'[r][s] = "fresh" => s \in run[r].selected /\ results[s] = "fresh"
  BY <1>7, <1>8 DEF Terminal
<1>10. \A s \in Sources : results[s] = "fresh" => dataset'[s] \in {r, Admin}
  BY <1>1, <1>6 DEF ResultsFit
<1>11. RecordFits(r)'
  BY <1>1, <1>3, <1>9, <1>10 DEF RecordFits, KeepsSelection
<1> QED BY <1>4, <1>5, <1>11

\* The steps of a call leave the others what they hold.
LEMMA OthersFit ==
  ASSUME TypeOK, Inv, NEW r \in Runs, Only(r),
         \A q \in Runs \ {r} :
           /\ telemetry'[q] = telemetry[q]
           /\ \A s \in Sources :
                lock[s] = q => lock'[s] = q /\ dataset'[s] \in {dataset[s], Admin},
         LocksFit(r)' /\ ResultsFit(r)' /\ RecordFits(r)'
  PROVE  Inv'
<1>1. ASSUME NEW q \in Runs \ {r}
      PROVE  LocksFit(q)' /\ ResultsFit(q)' /\ RecordFits(q)'
  BY <1>1, Undisturbed DEF Inv, Only
<1> QED BY <1>1 DEF Inv

\* The invariant holds after every step.
LEMMA InvStep ==
  ASSUME TypeOK, Inv, [Next]_vars
  PROVE  Inv'
<1> DEFINE Kept(r) == \A q \in Runs \ {r} :
             /\ telemetry'[q] = telemetry[q]
             /\ \A s \in Sources :
                  lock[s] = q => lock'[s] = q /\ dataset'[s] \in {dataset[s], Admin}
<1>1. /\ lock \in [Sources -> Runs \union {NoRun}]
      /\ dataset \in [Sources -> Runs \union {NoRun, Admin}]
      /\ telemetry \in [Runs -> [Sources -> Outcomes \union {"locked"}]]
  BY DEF TypeOK
<1>2. ASSUME NEW r \in Runs, Only(r), Kept(r),
             LocksFit(r)' /\ ResultsFit(r)' /\ RecordFits(r)'
      PROVE  Inv'
  BY <1>2, OthersFit
<1>3. \A r \in Runs : LocksFit(r) /\ ResultsFit(r) /\ RecordFits(r)
  BY DEF Inv
<1>4. ASSUME NEW r \in Runs, NEW named \in Requests, NEW scheduled \in BOOLEAN,
             Call(r, named, scheduled)
      PROVE  Inv'
  <2>1. Kept(r)
    BY <1>1, <1>4 DEF Call
  <2>2. Only(r)
    BY <1>4, CallRow
  <2> QED BY <1>2, <1>3, <1>4, <2>1, <2>2, CallFits
<1>5. ASSUME NEW r \in Runs, TryLock(r)
      PROVE  Inv'
  <2>1. PICK s \in Sources :
          /\ Only(r)
          /\ \/ lock' = lock
             \/ lock[s] = NoRun /\ lock' = [lock EXCEPT ![s] = r]
    BY <1>5, TryLockRow
  <2>2. UNCHANGED <<dataset, telemetry>>
    BY <1>5 DEF TryLock
  <2>3. Kept(r)
    BY <1>1, <2>1, <2>2
  <2> QED BY <1>2, <1>3, <1>5, <2>1, <2>3, TryLockFits
<1>6. ASSUME NEW r \in Runs, Enter(r)
      PROVE  Inv'
  <2>1. /\ UNCHANGED <<lock, dataset>>
        /\ telemetry' = [telemetry EXCEPT ![r] =
             [s \in Sources |-> IF s \in run[r].locked THEN "locked" ELSE "none"]]
    BY <1>6 DEF Enter
  <2>2. Kept(r)
    BY <1>1, <2>1
  <2>3. Only(r)
    BY <1>6, EnterRow
  <2> QED BY <1>2, <1>3, <1>6, <2>2, <2>3, EnterFits
<1>7. ASSUME NEW r \in Runs,
             \/ PreflightPasses(r) \/ PreflightFails(r) \/ Return(r)
             \/ \E s \in Sources : Review(r, s) \/ Fallback(r, s)
      PROVE  Inv'
  <2>1. dataset' = dataset /\ (lock' = lock \/ lock' = Released(r))
    BY <1>7 DEF PreflightPasses, PreflightFails, Return, Review, Fallback
  <2>2. \/ telemetry' = telemetry
        \/ telemetry' = [telemetry EXCEPT ![r] =
             [s \in Sources |-> IF s \in run[r].selected THEN "failed" ELSE telemetry[r][s]]]
    BY <1>7 DEF PreflightPasses, PreflightFails, Return, Review, Fallback
  <2>3. \A q \in Runs \ {r} : telemetry'[q] = telemetry[q]
    BY <1>1, <2>2
  <2>4. \A q \in Runs \ {r} : \A s \in Sources : lock[s] = q => lock'[s] = q
    BY <1>1, <2>1 DEF Released
  <2>5. Kept(r)
    BY <2>1, <2>3, <2>4
  <2>6. Only(r)
    BY <1>7, MoveRow
  <2>7. LocksFit(r)' /\ ResultsFit(r)' /\ RecordFits(r)'
    BY <1>3, <1>7, MoveFits
  <2> QED BY <1>2, <2>5, <2>6, <2>7
<1>8. ASSUME NEW r \in Runs, NEW s \in Sources, Start(r, s)
      PROVE  Inv'
  <2>1. UNCHANGED <<lock, dataset, telemetry>>
    BY <1>8 DEF Start
  <2>2. Kept(r)
    BY <2>1
  <2>3. Only(r)
    BY <1>8, StartRow
  <2> QED BY <1>2, <1>3, <1>8, <2>2, <2>3, StartFits
<1>9. ASSUME NEW r \in Runs, NEW s \in Sources,
             \/ Raise(r, s)
             \/ \E kind \in {"fresh", "failed", "proxy"}, refused \in BOOLEAN :
                  End(r, s, kind, refused)
      PROVE  Inv'
  <2>1. UNCHANGED <<lock, telemetry>>
    <3>1. CASE Raise(r, s)
      BY <3>1 DEF Raise
    <3>2. CASE \E k \in {"fresh", "failed", "proxy"}, f \in BOOLEAN : End(r, s, k, f)
      <4>1. PICK k \in {"fresh", "failed", "proxy"}, f \in BOOLEAN : End(r, s, k, f)
        BY <3>2, Zenon
      <4>2. UNCHANGED <<lock, telemetry, attempts, tried, spent, uploads>>
        BY <4>1, Zenon DEF End
      <4> QED BY <4>2
    <3> QED BY <1>9, <3>1, <3>2, Zenon
  <2>2. /\ Only(r) /\ s \in run[r].active /\ run[r].pc = "fetching"
        /\ dataset' \in {dataset, [dataset EXCEPT ![s] = r]}
    BY <1>9, EndRow
  <2>3. lock[s] = r
    BY <1>3, <2>2 DEF LocksFit, ResultsFit
  <2>4. \A u \in Sources : u # s => dataset'[u] = dataset[u]
    BY <1>1, <2>2
  <2>5. Kept(r)
    BY <2>1, <2>3, <2>4
  <2>6. LocksFit(r)' /\ ResultsFit(r)' /\ RecordFits(r)'
    BY <1>3, <1>9, EndFits
  <2> QED BY <1>2, <2>2, <2>5, <2>6
<1>10. ASSUME NEW r \in Runs, NextPhase(r)
       PROVE  Inv'
  <2>1. UNCHANGED <<lock, dataset, telemetry>>
    BY <1>10 DEF NextPhase
  <2>2. Kept(r)
    BY <2>1
  <2>3. Only(r)
    BY <1>10, NextPhaseRow
  <2> QED BY <1>2, <1>3, <1>10, <2>2, <2>3, NextPhaseFits
<1>11. ASSUME NEW r \in Runs, LastPhaseEnds(r) \/ PhaseFails(r)
       PROVE  Inv'
  <2>1. PICK results : /\ UNCHANGED <<lock, dataset>> /\ Only(r)
                       /\ telemetry' = [telemetry EXCEPT ![r] = Terminal(r, results)]
    BY <1>11, RecordRow
  <2>2. Kept(r)
    BY <1>1, <2>1
  <2> QED BY <1>2, <1>3, <1>11, <2>1, <2>2, RecordingFits
<1>12. ASSUME NEW s \in Sources, Upload(s)
       PROVE  Inv'
  <2>1. /\ UNCHANGED <<run, lock, telemetry>>
        /\ dataset' = [dataset EXCEPT ![s] = Admin]
    BY <1>12 DEF Upload
  <2>2. \A u \in Sources : dataset'[u] \in {dataset[u], Admin}
    BY <1>1, <2>1
  <2>3. ASSUME NEW q \in Runs
        PROVE  LocksFit(q)' /\ ResultsFit(q)' /\ RecordFits(q)'
    BY <1>3, <2>1, <2>2, Undisturbed
  <2> QED BY <2>3 DEF Inv
<1>13. CASE UNCHANGED vars
  <2>1. UNCHANGED <<run, lock, dataset, telemetry>>
    BY <1>13 DEF vars
  <2>2. ASSUME NEW q \in Runs
        PROVE  LocksFit(q)' /\ ResultsFit(q)' /\ RecordFits(q)'
    BY <1>3, <2>1, Undisturbed
  <2> QED BY <2>2 DEF Inv
<1> QED BY <1>4, <1>5, <1>6, <1>7, <1>8, <1>9, <1>10, <1>11, <1>12, <1>13, StepCases, Zenon

LEMMA InvInit ==
  ASSUME Init
  PROVE  TypeOK /\ Inv
<1>1. NewRun \in RunStates
  BY DEF NewRun, RunStates, Steps, Outcomes
<1>2. TypeOK
  <2>1. run \in [Runs -> RunStates]
    BY <1>1 DEF Init
  <2> QED BY <2>1 DEF Init, TypeOK, Outcomes
<1>3. ASSUME NEW r \in Runs
      PROVE  LocksFit(r) /\ ResultsFit(r) /\ RecordFits(r)
  <2>1. run[r] = NewRun
    BY DEF Init
  <2> QED BY <2>1 DEF NewRun, LocksFit, ResultsFit, RecordFits
<1> QED BY <1>2, <1>3 DEF Inv

-----------------------------------------------------------------------------
\* Every reachable state is well typed, and calls, locks, results and records fit.
THEOREM InvHolds == Spec => [](TypeOK /\ Inv)
<1>1. Init => TypeOK /\ Inv
  BY InvInit
<1>2. (TypeOK /\ Inv) /\ [Next]_vars => (TypeOK /\ Inv)'
  BY TypeStep, InvStep
<1> QED BY <1>1, <1>2, PTL DEF Spec

\* Two calls never fetch one source at a time, and a call fetches only under the
\* lock of the source (fetcher.py, resource_locks.py).
THEOREM FetchesAreExclusive == Spec => []OneFetchPerSource
<1>1. Inv => OneFetchPerSource
  <2>1. ASSUME Inv, NEW r \in Runs, NEW s \in run[r].active
        PROVE  lock[s] = r
    BY <2>1 DEF Inv, LocksFit, ResultsFit
  <2> QED BY <2>1 DEF OneFetchPerSource
<1> QED BY <1>1, InvHolds, PTL

\* A call that has recorded its outcomes has one for every source it was asked
\* for, whatever was locked, refused or broke off.
THEOREM EveryoneIsAccounted == Spec => []EverySourceAccounted
<1>1. Inv => EverySourceAccounted
  BY DEF Inv, LocksFit, RecordFits, EverySourceAccounted
<1> QED BY <1>1, InvHolds, PTL

\* A scheduled call fetches nothing that is switched off or not authorized.
THEOREM SectionsAreRespected == Spec => []SchedulesRespectSections
<1>1. Inv => SchedulesRespectSections
  BY DEF Inv, LocksFit, ResultsFit, SchedulesRespectSections
<1> QED BY <1>1, InvHolds, PTL

\* What a call has recorded as fresh stays on disk until it releases its locks,
\* but for an upload of an administrator.
THEOREM FreshStaysPublished == Spec => []FreshIsPublished
<1>1. Inv => FreshIsPublished
  BY DEF Inv, RecordFits, FreshIsPublished
<1> QED BY <1>1, InvHolds, PTL

\* A refused proxy closes the rest of its call to the sources that need it, in
\* the phase that saw the refusal and in every later one.
THEOREM CircuitHolds == Spec => CircuitOutlivesPhase
<1>1. TypeOK /\ Inv /\ [Next]_vars => CircuitOutlivesPhaseStep
  <2> SUFFICES ASSUME TypeOK, Inv, [Next]_vars, NEW r \in Runs,
                      \E s \in Sources :
                        run[r].out[s] = "proxy" \/ run[r].results[s] = "proxy"
               PROVE  run'[r].active \ run[r].active \subseteq Proxyless
    BY DEF CircuitOutlivesPhaseStep
  <2>1. run[r].circuit
    BY Zenon DEF Inv, ResultsFit
  <2> DEFINE Closed == \/ run'[r].active \subseteq run[r].active
                       \/ \E u \in Proxyless : run'[r].active = run[r].active \union {u}
  <2>2. Closed
    <3>1. ASSUME NEW q \in Runs, Only(q), run'[q].active \subseteq run[q].active
          PROVE  Closed
      BY <3>1 DEF Only
    <3>2. ASSUME NEW q \in Runs, NEW s \in Sources, Start(q, s)
          PROVE  Closed
      <4>1. /\ Only(q)
            /\ \/ run'[q].active = run[q].active
               \/ /\ ~run[q].circuit \/ s \in Proxyless
                  /\ run'[q].active = run[q].active \union {s}
        BY <3>2, StartRow
      <4>2. CASE q = r
        BY <2>1, <4>1, <4>2
      <4>3. CASE q # r
        BY <4>1, <4>3 DEF Only
      <4> QED BY <4>2, <4>3
    <3>3. ASSUME NEW q \in Runs, NEW named \in Requests, NEW scheduled \in BOOLEAN,
                 Call(q, named, scheduled)
          PROVE  Closed
      <4>1. Only(q) /\ run'[q].active = run[q].active
        BY <3>3, CallRow DEF KeepsResults
      <4> QED BY <3>1, <4>1
    <3>4. ASSUME NEW q \in Runs, TryLock(q)
          PROVE  Closed
      <4>1. Only(q) /\ run'[q].active = run[q].active
        BY <3>4, TryLockRow DEF KeepsResults
      <4> QED BY <3>1, <4>1
    <3>5. ASSUME NEW q \in Runs, Enter(q)
          PROVE  Closed
      <4>1. Only(q) /\ run'[q].active = run[q].active
        BY <3>5, EnterRow DEF KeepsResults
      <4> QED BY <3>1, <4>1
    <3>6. ASSUME NEW q \in Runs,
                 \/ PreflightPasses(q) \/ PreflightFails(q) \/ Return(q)
                 \/ \E s \in Sources : Review(q, s) \/ Fallback(q, s)
          PROVE  Closed
      <4>1. Only(q) /\ run'[q].active = run[q].active
        BY <3>6, MoveRow DEF KeepsResults
      <4> QED BY <3>1, <4>1
    <3>7. ASSUME NEW q \in Runs, NEW s \in Sources,
                 \/ Raise(q, s)
                 \/ \E kind \in {"fresh", "failed", "proxy"}, refused \in BOOLEAN :
                      End(q, s, kind, refused)
          PROVE  Closed
      <4>1. Only(q) /\ run'[q].active = run[q].active \ {s}
        BY <3>7, EndRow
      <4> QED BY <3>1, <4>1
    <3>8. ASSUME NEW q \in Runs, NextPhase(q)
          PROVE  Closed
      <4>1. Only(q) /\ run'[q].active = {}
        BY <3>8, NextPhaseRow
      <4> QED BY <3>1, <4>1
    <3>9. ASSUME NEW q \in Runs, LastPhaseEnds(q) \/ PhaseFails(q)
          PROVE  Closed
      <4>1. Only(q) /\ run'[q].active = {}
        BY <3>9, RecordRow
      <4> QED BY <3>1, <4>1
    <3>10. ASSUME NEW s \in Sources, Upload(s)
           PROVE  Closed
      BY <3>10 DEF Upload
    <3>11. CASE UNCHANGED vars
      BY <3>11 DEF vars
    <3> HIDE DEF Closed
    <3> QED BY <3>2, <3>3, <3>4, <3>5, <3>6, <3>7, <3>8, <3>9, <3>10, <3>11, StepCases,
               Zenon
  <2> QED BY <2>2
<1> QED BY <1>1, InvHolds, PTL DEF Spec, CircuitOutlivesPhase

-----------------------------------------------------------------------------
(* What a process pays: each call that begins adds a cap, less what the     *)
(* counter of the call that began last still admits.                        *)

Processes == {Process[r] : r \in Runs}

SpendFits(p) ==
  IF Begun(p) = {} THEN Payments(p) = {}
  ELSE Cardinality(Payments(p)) + MaxPerRefresh <= MaxPerRefresh * Cardinality(Begun(p)) + attempts[p]

PaymentsFinite == \A p \in Processes : IsFiniteSet(Payments(p))

LEMMA BegunFinite ==
  ASSUME NEW p
  PROVE  IsFiniteSet(Begun(p)) /\ Cardinality(Begun(p)) \in Nat
         /\ (Begun(p) # {} => Cardinality(Begun(p)) > 0)
<1>1. IsFiniteSet(Runs) /\ Begun(p) \in SUBSET Runs
  BY DEF RefreshAssumption, Begun
<1>2. IsFiniteSet(Begun(p))
  BY <1>1, FS_Subset
<1> QED BY <1>2, FS_CardinalityType, FS_EmptySet

LEMMA NothingBegun ==
  ASSUME NEW p, Begun(p) = {}, Payments(p) = {}
  PROVE  Cardinality(Payments(p)) <= MaxPerRefresh * Cardinality(Begun(p))
<1>1. Cardinality(Payments(p)) = 0 /\ Cardinality(Begun(p)) = 0 /\ MaxPerRefresh \in Nat
  BY FS_EmptySet DEF RefreshAssumption
<1> QED BY <1>1

\* Steps that neither begin a call nor pay leave the account alone.
LEMMA SpendUndisturbed ==
  ASSUME TypeOK, NEW p \in Processes, SpendFits(p), UNCHANGED <<spent, attempts>>,
         \A q \in Runs : run[q].pc \in {"new", "locking"} <=> run'[q].pc \in {"new", "locking"}
  PROVE  SpendFits(p)'
<1>1. Begun(p)' = Begun(p)
  BY DEF Begun
<1>2. Payments(p)' = Payments(p)
  BY DEF Payments
<1> QED BY <1>1, <1>2 DEF SpendFits

\* A call that begins brings its cap, and resets the counter of its process.
LEMMA SpendEnter ==
  ASSUME TypeOK, NEW r \in Runs, Enter(r), NEW p \in Processes, SpendFits(p), PaymentsFinite
  PROVE  SpendFits(p)'
<1>1. /\ Only(r) /\ run[r].pc = "locking" /\ run'[r].pc \in {"done", "preflight"}
      /\ attempts' \in [Processes -> 0 .. MaxPerRefresh] /\ attempts \in [Processes -> 0 .. MaxPerRefresh]
      /\ attempts' = attempts \/ attempts' = [attempts EXCEPT ![Process[r]] = 0]
      /\ spent' = spent
  <2>1. /\ Only(r) /\ run[r].pc = "locking" /\ run'[r].pc \in {"done", "preflight"}
        /\ attempts' = attempts \/ attempts' = [attempts EXCEPT ![Process[r]] = 0]
    BY EnterRow
  <2>2. attempts \in [Processes -> 0 .. MaxPerRefresh] /\ 0 \in 0 .. MaxPerRefresh /\ spent' = spent
    BY DEF Enter, TypeOK, Processes, RefreshAssumption
  <2> QED BY <2>1, <2>2
<1>2. Payments(p)' = Payments(p)
  BY <1>1 DEF Payments
<1>3. CASE p # Process[r]
  <2>1. Begun(p)' = Begun(p) /\ attempts'[p] = attempts[p]
    BY <1>1, <1>3 DEF Begun, Only
  <2> QED BY <1>2, <2>1 DEF SpendFits
<1>4. CASE p = Process[r]
  <2>1. Begun(p)' = Begun(p) \union {r} /\ r \notin Begun(p)
    BY <1>1, <1>4 DEF Begun, Only
  <2>2. Cardinality(Begun(p)') = Cardinality(Begun(p)) + 1
    BY <2>1, BegunFinite, FS_AddElement
  <2>3. attempts'[p] \in Nat /\ attempts[p] \in 0 .. MaxPerRefresh /\ MaxPerRefresh \in Nat
        /\ (attempts'[p] = attempts[p] \/ attempts'[p] = 0)
    BY <1>1, <1>4 DEF RefreshAssumption
  <2>4. Cardinality(Payments(p)) \in Nat
    BY FS_CardinalityType DEF PaymentsFinite
  <2>5. Cardinality(Payments(p)) <= MaxPerRefresh * Cardinality(Begun(p))
    <3>1. CASE Begun(p) = {}
      BY <3>1, <2>3, NothingBegun DEF SpendFits
    <3>2. CASE Begun(p) # {}
      <4>1. Cardinality(Payments(p)) + MaxPerRefresh <= MaxPerRefresh * Cardinality(Begun(p)) + attempts[p]
        BY <3>2 DEF SpendFits
      <4>2. MaxPerRefresh * Cardinality(Begun(p)) \in Nat
        BY <2>3, BegunFinite
      <4> QED BY <2>3, <2>4, <4>1, <4>2
    <3> QED BY <3>1, <3>2
  <2>6. MaxPerRefresh * Cardinality(Begun(p)') = MaxPerRefresh * Cardinality(Begun(p)) + MaxPerRefresh
    BY <2>2, <2>3, BegunFinite
  <2>7. /\ Begun(p)' # {} /\ MaxPerRefresh * Cardinality(Begun(p)) \in Nat
        /\ Cardinality(Payments(p)') = Cardinality(Payments(p))
    BY <1>2, <2>1, <2>3, BegunFinite
  <2>8. Cardinality(Payments(p)') + MaxPerRefresh
          <= MaxPerRefresh * Cardinality(Begun(p)') + attempts'[p]
    <3> HIDE DEF Begun, Payments
    <3> QED BY <2>3, <2>4, <2>5, <2>6, <2>7
  <2> QED BY <2>7, <2>8 DEF SpendFits
<1> QED BY <1>3, <1>4

\* A fallback is counted as it is paid.
LEMMA SpendFallback ==
  ASSUME TypeOK, NEW r \in Runs, NEW s \in Sources, Fallback(r, s), NEW p \in Processes,
         SpendFits(p), PaymentsFinite
  PROVE  SpendFits(p)' /\ IsFiniteSet(Payments(p)')
<1>1. /\ Only(r) /\ run[r].pc = "fetching" /\ run'[r].pc = "fetching"
      /\ spent \in [Runs -> Nat] /\ spent' = [spent EXCEPT ![r] = @ + 1]
      /\ attempts \in [Processes -> 0 .. MaxPerRefresh]
      /\ attempts' = [attempts EXCEPT ![Process[r]] = @ + 1]
  <2>1. Fallback(r, s) => run[r].pc = "fetching"
    BY DEF Fallback
  <2> QED BY <2>1, MoveRow DEF Fallback, TypeOK, Processes
<1>2. Begun(p)' = Begun(p)
  BY <1>1 DEF Begun, Only
<1>3. CASE p # Process[r]
  <2>1. Payments(p)' = Payments(p)
    BY <1>1, <1>3 DEF Payments
  <2>2. attempts'[p] = attempts[p]
    BY <1>1, <1>3
  <2> QED BY <1>2, <2>1, <2>2 DEF SpendFits, PaymentsFinite
<1>4. CASE p = Process[r]
  <2>1. \A x : x \in Payments(p) <=>
                 \E q \in Runs, i \in Nat : Process[q] = p /\ i \in 1 .. spent[q] /\ x = <<q, i>>
    BY <1>1 DEF Payments
  <2>2. \A x : x \in Payments(p)' <=>
                 \E q \in Runs, i \in Nat : Process[q] = p /\ i \in 1 .. spent'[q] /\ x = <<q, i>>
    BY <1>1 DEF Payments
  <2> DEFINE last == <<r, spent[r] + 1>>
  <2>3. Payments(p)' = Payments(p) \union {last}
    <3>1. ASSUME NEW x \in Payments(p)'
          PROVE  x \in Payments(p) \union {last}
      <4>1. PICK q \in Runs, i \in Nat : Process[q] = p /\ i \in 1 .. spent'[q] /\ x = <<q, i>>
        BY <2>2, <3>1
      <4>2. CASE q = r /\ i = spent[r] + 1
        BY <4>1, <4>2
      <4>3. CASE ~(q = r /\ i = spent[r] + 1)
        <5>1. i \in 1 .. spent[q]
          BY <1>1, <4>1, <4>3
        <5> QED BY <2>1, <4>1, <5>1
      <4> QED BY <4>2, <4>3
    <3>2. ASSUME NEW x \in Payments(p)
          PROVE  x \in Payments(p)'
      <4>1. PICK q \in Runs, i \in Nat : Process[q] = p /\ i \in 1 .. spent[q] /\ x = <<q, i>>
        BY <2>1, <3>2
      <4>2. i \in 1 .. spent'[q]
        BY <1>1, <4>1
      <4> QED BY <2>2, <4>1, <4>2
    <3>3. last \in Payments(p)'
      <4>1. spent[r] + 1 \in Nat /\ spent[r] + 1 \in 1 .. spent'[r]
        BY <1>1
      <4> QED BY <1>4, <2>2, <4>1
    <3> QED BY <3>1, <3>2, <3>3
  <2>4. last \notin Payments(p)
    <3>1. ASSUME last \in Payments(p) PROVE FALSE
      <4>1. PICK q \in Runs, i \in Nat : Process[q] = p /\ i \in 1 .. spent[q] /\ last = <<q, i>>
        BY <2>1, <3>1
      <4> QED BY <1>1, <4>1
    <3> QED BY <3>1
  <2> HIDE DEF last
  <2>5. /\ IsFiniteSet(Payments(p)') /\ Cardinality(Payments(p)) \in Nat
        /\ Cardinality(Payments(p)') = Cardinality(Payments(p)) + 1
    BY <2>3, <2>4, FS_AddElement, FS_CardinalityType DEF PaymentsFinite
  <2>6. r \in Begun(p)
    BY <1>1, <1>4 DEF Begun
  <2>7. /\ attempts'[p] = attempts[p] + 1 /\ attempts[p] \in Nat
        /\ MaxPerRefresh * Cardinality(Begun(p)) \in Nat /\ MaxPerRefresh \in Nat
    BY <1>1, <1>4, BegunFinite DEF RefreshAssumption
  <2>8. Cardinality(Payments(p)) + MaxPerRefresh <= MaxPerRefresh * Cardinality(Begun(p)) + attempts[p]
    BY <2>6 DEF SpendFits
  <2>9. Cardinality(Payments(p)') + MaxPerRefresh
          <= MaxPerRefresh * Cardinality(Begun(p)') + attempts'[p]
    BY <1>2, <2>5, <2>7, <2>8
  <2> QED BY <1>2, <2>5, <2>6, <2>9 DEF SpendFits
<1> QED BY <1>3, <1>4

SpendSound == PaymentsFinite /\ \A p \in Processes : SpendFits(p)

LEMMA SpendStep ==
  ASSUME TypeOK, SpendSound, [Next]_vars
  PROVE  SpendSound'
<1>1. ASSUME UNCHANGED <<spent, attempts>>,
             \A q \in Runs : run[q].pc \in {"new", "locking"} <=> run'[q].pc \in {"new", "locking"}
      PROVE  SpendSound'
  <2>1. \A p \in Processes : Payments(p)' = Payments(p)
    BY <1>1 DEF Payments
  <2>2. PaymentsFinite'
    BY <2>1 DEF SpendSound, PaymentsFinite
  <2> QED BY <1>1, <2>2, SpendUndisturbed DEF SpendSound
<1>2. ASSUME NEW r \in Runs, Enter(r)
      PROVE  SpendSound'
  <2>1. \A p \in Processes : Payments(p)' = Payments(p)
    BY <1>2 DEF Enter, Payments
  <2>2. PaymentsFinite'
    BY <2>1 DEF SpendSound, PaymentsFinite
  <2> QED BY <1>2, <2>2, SpendEnter DEF SpendSound
<1>3. ASSUME NEW r \in Runs, NEW s \in Sources, Fallback(r, s)
      PROVE  SpendSound'
  BY <1>3, SpendFallback DEF SpendSound, PaymentsFinite
<1>4. ASSUME NEW r \in Runs, Only(r), UNCHANGED <<spent, attempts>>,
             run[r].pc \in {"new", "locking"} <=> run'[r].pc \in {"new", "locking"}
      PROVE  SpendSound'
  BY <1>1, <1>4 DEF Only
<1>5. ASSUME NEW r \in Runs, NEW named \in Requests, NEW scheduled \in BOOLEAN, Call(r, named, scheduled)
      PROVE  SpendSound'
  BY <1>4, <1>5, CallRow DEF Call
<1>6. ASSUME NEW r \in Runs, TryLock(r)
      PROVE  SpendSound'
  <2>1. Only(r) /\ run[r].pc = "locking" /\ run'[r].pc = "locking"
    BY <1>6, TryLockRow
  <2> QED BY <1>4, <1>6, <2>1 DEF TryLock
<1>7. ASSUME NEW r \in Runs, NEW s \in Sources, Start(r, s)
      PROVE  SpendSound'
  BY <1>4, <1>7, StartRow DEF Start
<1>8. ASSUME NEW r \in Runs, NEW s \in Sources,
             \/ Raise(r, s)
             \/ \E kind \in {"fresh", "failed", "proxy"}, refused \in BOOLEAN : End(r, s, kind, refused)
      PROVE  SpendSound'
  BY <1>4, <1>8, EndRow DEF Raise, End
<1>9. ASSUME NEW r \in Runs, NextPhase(r)
      PROVE  SpendSound'
  BY <1>4, <1>9, NextPhaseRow DEF NextPhase
<1>10. ASSUME NEW r \in Runs, LastPhaseEnds(r) \/ PhaseFails(r)
       PROVE  SpendSound'
  BY <1>4, <1>10, RecordRow
<1>11. ASSUME NEW r \in Runs,
              \/ PreflightPasses(r) \/ PreflightFails(r) \/ Return(r)
              \/ \E s \in Sources : Review(r, s)
       PROVE  SpendSound'
  <2>1. UNCHANGED <<spent, attempts>>
    BY <1>11 DEF PreflightPasses, PreflightFails, Return, Review
  <2> QED BY <1>4, <1>11, <2>1, MoveRow
<1>12. CASE \E s \in Sources : Upload(s)
  BY <1>1, <1>12 DEF Upload
<1>13. CASE UNCHANGED vars
  BY <1>1, <1>13 DEF vars
<1> QED BY <1>2, <1>3, <1>5, <1>6, <1>7, <1>8, <1>9, <1>10, <1>11, <1>12, <1>13, StepCases, Zenon

\* The paid fallbacks of a process stay within the cap for every call that began, although its
\* calls overlap and each that begins resets the counter of them all.
THEOREM FallbacksStayBounded == Spec => []SpendBounded
<1>1. Init => SpendSound
  <2> SUFFICES ASSUME Init, NEW p \in Processes
               PROVE  Begun(p) = {} /\ Payments(p) = {}
    BY FS_EmptySet DEF SpendSound, PaymentsFinite, SpendFits
  <2>1. \A r \in Runs : run[r].pc = "new" /\ spent[r] = 0
    BY DEF Init, NewRun
  <2> QED BY <2>1 DEF Begun, Payments
<1>2. TypeOK /\ SpendSound /\ [Next]_vars => SpendSound'
  BY SpendStep
<1>3. TypeOK /\ SpendSound => SpendBounded
  <2> SUFFICES ASSUME TypeOK, SpendSound, NEW p \in Processes
               PROVE  Cardinality(Payments(p)) <= MaxPerRefresh * Cardinality(Begun(p))
    BY DEF SpendBounded, Processes
  <2>1. /\ MaxPerRefresh \in Nat /\ attempts[p] \in 0 .. MaxPerRefresh /\ Cardinality(Payments(p)) \in Nat
        /\ SpendFits(p)
    BY FS_CardinalityType DEF TypeOK, Processes, SpendSound, PaymentsFinite, RefreshAssumption
  <2>2. CASE Begun(p) = {}
    BY <2>1, <2>2, NothingBegun DEF SpendFits
  <2>3. CASE Begun(p) # {}
    <3>1. Cardinality(Payments(p)) + MaxPerRefresh <= MaxPerRefresh * Cardinality(Begun(p)) + attempts[p]
      BY <2>1, <2>3 DEF SpendFits
    <3>2. MaxPerRefresh * Cardinality(Begun(p)) \in Nat
      BY <2>1, BegunFinite
    <3> QED BY <2>1, <3>1, <3>2
  <2> QED BY <2>2, <2>3
<1> QED BY <1>1, <1>2, <1>3, InvHolds, PTL DEF Spec

-----------------------------------------------------------------------------
(* The cascade of scrape providers, for any pool of Firecrawl keys.         *)

CONSTANTS Keys, MinAttempts, ScrapflyKeys, MinTurns

VARIABLES
  asked, hsguru, at, profile, attempt, live, rotations, spare, turned, calls, failed, account,
  result

Cascade == INSTANCE ProviderCascade

\* The turns are taken in order: whoever had one and was asked has failed, and the one
\* that answered is the one whose turn it is.
TurnsKept ==
  /\ failed = {p \in asked : \E i \in 1 .. 4 : i < at /\ Cascade!Order[i] = p}
  /\ result = "raised" => at = 5
  /\ account => at > 1

\* Every key given up was paid for once; when Firecrawl's turn ends without any other
\* request, no key is left, because the limit of the rotation is never below the number of keys.
RotationKept ==
  /\ rotations + Cardinality(live) <= Cardinality(Keys)
  /\ at = 1 => calls["firecrawl"] = 0 /\ rotations = 0
  /\ at = 2 /\ result = "none" => calls["firecrawl"] = rotations
  /\ at > 2 /\ "firecrawl" \in asked /\ calls["firecrawl"] = rotations => live = {}

\* Each request of a profile of Scrape.do is one of its two attempts, and the profiles are
\* taken upwards.
CostKept ==
  /\ profile >= Cascade!FirstProfile(hsguru)
  /\ at < 4 => attempt <= 2
  /\ at = 1 /\ result = "none" =>
       calls["scrape_do"] <= 2 * (profile - Cascade!FirstProfile(hsguru)) + attempt - 1
  /\ calls["scrape_do"] <= IF hsguru THEN 2 ELSE 4
  /\ at < 3 \/ (at = 3 /\ result = "none") => calls["brightdata"] = 0
  /\ calls["brightdata"] <= 1
  /\ at < 4 => calls["scrapfly"] = 0

\* All requests to Firecrawl but the last have given up a key, within the limit.
PoolKept == calls["firecrawl"] <= rotations + 1 /\ calls["firecrawl"] <= Cascade!Limit

\* So have those of a profile of Scrapfly.
TurnedKept ==
  /\ at = 4 /\ result = "none" =>
       /\ calls["scrapfly"] <= profile - Cascade!FirstProfile(hsguru) + turned
       /\ attempt - 1 <= Cascade!ScrapflyLimit
       /\ calls["scrapfly"] <=
            (IF profile > Cascade!FirstProfile(hsguru) THEN Cascade!ScrapflyLimit ELSE 0)
              + attempt - 1
  /\ calls["scrapfly"] <= (IF hsguru THEN 1 ELSE 2) + turned
  /\ calls["scrapfly"] <=
       IF hsguru THEN Cascade!ScrapflyLimit ELSE Cascade!ScrapflyLimit + Cascade!ScrapflyLimit

CascadeSound ==
  Cascade!TypeOK /\ TurnsKept /\ RotationKept /\ CostKept /\ PoolKept /\ TurnedKept

\* The four providers, in their order.
LEMMA OrderFacts ==
  /\ Cascade!Order[1] = "scrape_do" /\ Cascade!Order[2] = "firecrawl"
  /\ Cascade!Order[3] = "brightdata" /\ Cascade!Order[4] = "scrapfly"
  /\ Cascade!Providers = {"scrape_do", "firecrawl", "brightdata", "scrapfly"}
<1>1. DOMAIN Cascade!Order = 1 .. 4
  BY DEF Cascade!Order
<1>2. 1 .. 4 = {1, 2, 3, 4}
  OBVIOUS
<1> QED BY <1>1, <1>2 DEF Cascade!Order, Cascade!Providers

\* Whose turn it is.
LEMMA TurnFacts ==
  ASSUME CascadeSound, NEW p, Cascade!Turn(p)
  PROVE  /\ result = "none" /\ p \in asked
         /\ \/ p = "scrape_do" /\ at = 1
            \/ p = "firecrawl" /\ at = 2
            \/ p = "brightdata" /\ at = 3
            \/ p = "scrapfly" /\ at = 4
<1>1. at \in {1, 2, 3, 4}
  BY DEF CascadeSound, Cascade!TypeOK, Cascade!Turn
<1> QED BY <1>1, OrderFacts DEF Cascade!Turn

\* The instance's finite sets are those of the library's theorems.
LEMMA SameSets ==
  ASSUME NEW S
  PROVE  /\ Cascade!IsFiniteSet(S) <=> IsFiniteSet(S)
         /\ Cascade!Cardinality(S) = Cardinality(S)
<1>1. Cascade!IsFiniteSet(S) <=> IsFiniteSet(S)
  BY DEF Cascade!IsFiniteSet, IsFiniteSet
<1>2. Cascade!Cardinality(S) = Cardinality(S)
  BY DEF Cascade!Cardinality, Cardinality
<1> QED BY <1>1, <1>2

\* The limits of the two rotations are numbers.
LEMMA LimitTypes ==
  ASSUME Cascade!CascadeAssumption
  PROVE  Cascade!Limit \in Nat /\ Cascade!ScrapflyLimit \in Nat
<1>1. IsFiniteSet(Keys) /\ IsFiniteSet(ScrapflyKeys)
  BY SameSets DEF Cascade!CascadeAssumption
<1>2. Cascade!Cardinality(Keys) \in Nat /\ Cascade!Cardinality(ScrapflyKeys) \in Nat
  BY <1>1, SameSets, FS_CardinalityType
<1> QED BY <1>2 DEF Cascade!Limit, Cascade!ScrapflyLimit, Cascade!AtLeast, Cascade!CascadeAssumption

\* What a request adds to the bill.
LEMMA PaidFacts ==
  ASSUME Cascade!TypeOK, NEW p \in Cascade!Providers, Cascade!Paid(p)
  PROVE  /\ calls' \in [Cascade!Providers -> Nat]
         /\ calls'[p] = calls[p] + 1
         /\ \A q \in Cascade!Providers \ {p} : calls'[q] = calls[q]
BY DEF Cascade!TypeOK, Cascade!Paid

\* A key that is given up leaves one key less.
LEMMA RotateFacts ==
  ASSUME Cascade!CascadeAssumption, CascadeSound, NEW k \in live
  PROVE  rotations + 1 + Cardinality(live \ {k}) <= Cardinality(Keys)
<1>1. IsFiniteSet(Keys) /\ IsFiniteSet(live)
  BY SameSets, FS_Subset DEF Cascade!CascadeAssumption, CascadeSound, Cascade!TypeOK
<1>2. Cardinality(live \ {k}) = Cardinality(live) - 1
  BY <1>1, FS_RemoveElement
<1>3. Cardinality(live) \in Nat /\ Cardinality(Keys) \in Nat /\ rotations \in Nat
  BY <1>1, FS_CardinalityType DEF CascadeSound, Cascade!TypeOK
<1> QED BY <1>2, <1>3 DEF CascadeSound, RotationKept

\* At the limit of the rotation no key is left.
LEMMA LimitIsEnough ==
  ASSUME Cascade!CascadeAssumption, CascadeSound, rotations = Cascade!Limit
  PROVE  live = {}
<1>1. IsFiniteSet(Keys) /\ IsFiniteSet(live)
  BY SameSets, FS_Subset DEF Cascade!CascadeAssumption, CascadeSound, Cascade!TypeOK
<1>2. Cardinality(live) \in Nat /\ Cardinality(Keys) \in Nat
  BY <1>1, FS_CardinalityType
<1>3. Cascade!Limit >= Cardinality(Keys)
  BY <1>2, SameSets DEF Cascade!Limit, Cascade!AtLeast, Cascade!CascadeAssumption
<1>4. Cardinality(live) = 0
  BY <1>2, <1>3 DEF CascadeSound, RotationKept, Cascade!TypeOK
<1> QED BY <1>1, <1>4, FS_EmptySet

\* Before Scrapfly has its turn, and when it begins, nothing was paid there.
LEMMA TurnedFacts ==
  ASSUME Cascade!CascadeAssumption, Cascade!TypeOK, at <= 3,
         calls'["scrapfly"] = calls["scrapfly"], CostKept, UNCHANGED <<hsguru, turned>>,
         at' # 4 \/ (attempt' = 1 /\ profile' = Cascade!FirstProfile(hsguru))
  PROVE  TurnedKept'
<1> DEFINE First == Cascade!FirstProfile(hsguru)
           L == Cascade!ScrapflyLimit
<1>1. calls'["scrapfly"] = 0 /\ turned' \in Nat /\ at \in 1 .. 3
  BY DEF Cascade!TypeOK, CostKept
<1>2. L \in Nat
  BY LimitTypes
<1>3. First' = First /\ First \in 1 .. 2
  BY DEF Cascade!FirstProfile
<1> HIDE DEF First, L
<1>4. at' # 4 \/ (attempt' = 1 /\ profile' = First)
  BY DEF First
<1> QED BY <1>1, <1>2, <1>3, <1>4 DEF TurnedKept, First, L

\* What remains of a step for the turns: the next one, the same, or an answer.
Passes(p) ==
  /\ failed' = failed \cup {p} /\ at' = at + 1
  /\ profile' = Cascade!FirstProfile(hsguru) /\ attempt' = 1 /\ result' = result

\* An answer is accepted.
Accepted(p) == result' = p /\ UNCHANGED <<failed, at, profile, attempt>>

\* The next attempt, or the next profile.
Repeats ==
  /\ UNCHANGED <<failed, at, result>>
  /\ \/ attempt = 1 /\ attempt' = 2 /\ profile' = profile
     \/ profile = 1 /\ profile' = 2 /\ attempt' = 1

\* The turn of a provider is over: the book of the failed ones stays in step.
LEMMA NextTurn ==
  ASSUME CascadeSound, at <= 4, UNCHANGED asked, at' = at + 1,
         \/ Cascade!Order[at] \in asked /\ failed' = failed \cup {Cascade!Order[at]}
         \/ Cascade!Order[at] \notin asked /\ UNCHANGED failed
  PROVE  failed' = {p \in asked' : \E i \in 1 .. 4 : i < at' /\ Cascade!Order[i] = p}
<1>1. at \in 1 .. 4
  BY DEF CascadeSound, Cascade!TypeOK
<1>2. \A i \in 1 .. 4 : i < at' <=> i < at \/ i = at
  BY <1>1
<1>3. failed = {p \in asked : \E i \in 1 .. 4 : i < at /\ Cascade!Order[i] = p}
  BY DEF CascadeSound, TurnsKept
<1> DEFINE O(i) == Cascade!Order[i]
<1>4. failed = {p \in asked : \E i \in 1 .. 4 : i < at /\ O(i) = p}
  BY <1>3
<1>5. \/ O(at) \in asked /\ failed' = failed \cup {O(at)}
      \/ O(at) \notin asked /\ failed' = failed
  OBVIOUS
<1> HIDE DEF O
<1>6. failed' = {p \in asked' : \E i \in 1 .. 4 : i < at' /\ O(i) = p}
  BY <1>1, <1>2, <1>4, <1>5
<1> QED BY <1>6 DEF O

\* What a request of Scrape.do leaves behind.
LEMMA ScrapeDoRow ==
  ASSUME CascadeSound, Cascade!ScrapeDo
  PROVE  /\ result = "none" /\ at = 1 /\ "scrape_do" \in asked /\ Cascade!Paid("scrape_do")
         /\ Passes("scrape_do") \/ Accepted("scrape_do") \/ Repeats
         /\ account' \in BOOLEAN /\ (account' => account \/ Passes("scrape_do"))
         /\ UNCHANGED <<asked, hsguru, live, rotations, spare, turned>>
<1>1. result = "none" /\ at = 1 /\ "scrape_do" \in asked
  BY TurnFacts DEF Cascade!ScrapeDo
<1>2. \A p : Cascade!Fails(p) => Passes(p)
  BY DEF Cascade!Fails, Cascade!Advance, Passes
<1>3. Cascade!NextProfile("scrape_do") => Passes("scrape_do") \/ Repeats
  BY <1>2 DEF Cascade!NextProfile, Repeats
<1>4. Cascade!TransientFails => Passes("scrape_do") \/ Repeats
  BY <1>3 DEF Cascade!TransientFails, Repeats
<1>5. Cascade!Answers("scrape_do") => Passes("scrape_do") \/ Accepted("scrape_do")
  BY <1>2 DEF Cascade!Answers, Accepted
<1>6. account \in BOOLEAN
  BY DEF CascadeSound, Cascade!TypeOK
<1>7. Passes("scrape_do") \/ Accepted("scrape_do") \/ Repeats
  BY <1>2, <1>3, <1>4, <1>5, Zenon DEF Cascade!ScrapeDo, Cascade!AccountFails
<1>8. account' \in BOOLEAN /\ (account' => account \/ Passes("scrape_do"))
  <2>1. CASE UNCHANGED account
    BY <2>1, <1>6
  <2>2. CASE Cascade!AccountFails
    BY <2>2, <1>2 DEF Cascade!AccountFails
  <2> QED BY <2>1, <2>2, Zenon DEF Cascade!ScrapeDo
<1>9. Cascade!Paid("scrape_do") /\ UNCHANGED <<asked, hsguru, live, rotations, spare, turned>>
  BY DEF Cascade!ScrapeDo
<1> QED BY <1>1, <1>7, <1>8, <1>9

LEMMA ScrapeDoStep ==
  ASSUME Cascade!CascadeAssumption, CascadeSound, Cascade!ScrapeDo
  PROVE  CascadeSound'
<1> DEFINE First == Cascade!FirstProfile(hsguru)
<1>1. /\ result = "none" /\ at = 1 /\ "scrape_do" \in asked
      /\ Passes("scrape_do") \/ Accepted("scrape_do") \/ Repeats
      /\ account' \in BOOLEAN /\ (account' => account \/ Passes("scrape_do"))
      /\ UNCHANGED <<asked, hsguru, live, rotations, spare, turned>>
  BY ScrapeDoRow
<1>2. /\ calls' \in [Cascade!Providers -> Nat]
      /\ calls'["scrape_do"] = calls["scrape_do"] + 1
      /\ calls'["firecrawl"] = calls["firecrawl"]
      /\ calls'["brightdata"] = calls["brightdata"]
      /\ calls'["scrapfly"] = calls["scrapfly"]
  BY ScrapeDoRow, PaidFacts, OrderFacts DEF CascadeSound
<1>3. First \in 1 .. 2 /\ First' = First /\ First = IF hsguru THEN 2 ELSE 1
  BY <1>1 DEF Cascade!FirstProfile
<1>4. Cascade!TypeOK
  BY DEF CascadeSound
<1>5. Cascade!TypeOK'
  <2>1. /\ asked' \subseteq Cascade!Providers /\ hsguru' \in BOOLEAN /\ account' \in BOOLEAN
        /\ live' \subseteq Keys /\ rotations' \in Nat
        /\ spare' \subseteq ScrapflyKeys /\ turned' \in Nat /\ calls' \in [Cascade!Providers -> Nat]
    BY <1>1, <1>2, <1>4 DEF Cascade!TypeOK
  <2>2. CASE Passes("scrape_do")
    BY <1>1, <1>3, <1>4, <2>1, <2>2, OrderFacts DEF Cascade!TypeOK, Passes
  <2>3. CASE Accepted("scrape_do")
    BY <1>4, <2>1, <2>3, OrderFacts DEF Cascade!TypeOK, Accepted
  <2>4. CASE Repeats
    BY <1>4, <2>1, <2>4 DEF Cascade!TypeOK, Repeats
  <2> QED BY <1>1, <2>2, <2>3, <2>4
<1>6. TurnsKept'
  <2>1. CASE Passes("scrape_do")
    <3>1. failed' = {p \in asked' : \E i \in 1 .. 4 : i < at' /\ Cascade!Order[i] = p}
      BY <1>1, <2>1, NextTurn, OrderFacts DEF Passes
    <3> QED BY <3>1, <1>1, <2>1 DEF Passes, TurnsKept
  <2>2. CASE Accepted("scrape_do")
    BY <1>1, <2>2 DEF Accepted, TurnsKept, CascadeSound, Passes
  <2>3. CASE Repeats
    BY <1>1, <2>3 DEF Repeats, TurnsKept, CascadeSound, Passes
  <2> QED BY <1>1, <2>1, <2>2, <2>3
<1>7. RotationKept'
  BY <1>1, <1>2, <1>4 DEF RotationKept, CascadeSound, Passes, Accepted, Repeats, Cascade!TypeOK
<1>9. PoolKept'
  BY <1>1, <1>2 DEF CascadeSound, PoolKept
<1>10. TurnedKept'
  BY <1>1, <1>2, <1>4, TurnedFacts DEF CascadeSound, Passes, Accepted, Repeats
<1>8. CostKept'
  <2>0. /\ First <= profile /\ profile <= 2 /\ profile \in Nat /\ attempt \in 1 .. 2
        /\ calls["scrape_do"] \in Nat /\ calls["brightdata"] = 0 /\ calls["scrapfly"] = 0
        /\ calls["scrape_do"] <= 2 * (profile - First) + attempt - 1
    BY <1>1, <1>4, OrderFacts DEF CostKept, CascadeSound, Cascade!TypeOK
  <2>1. CASE Passes("scrape_do")
    BY <1>1, <1>2, <1>3, <2>0, <2>1 DEF CostKept, Passes
  <2>2. CASE Accepted("scrape_do")
    BY <1>1, <1>2, <1>3, <2>0, <2>2 DEF CostKept, Accepted
  <2>3. CASE Repeats
    BY <1>1, <1>2, <1>3, <2>0, <2>3 DEF CostKept, Repeats
  <2> QED BY <1>1, <2>1, <2>2, <2>3
<1> QED BY <1>5, <1>6, <1>7, <1>8, <1>9, <1>10 DEF CascadeSound

LEMMA FirecrawlStep ==
  ASSUME Cascade!CascadeAssumption, CascadeSound, Cascade!Firecrawl
  PROVE  CascadeSound'
<1>1. /\ result = "none" /\ at = 2 /\ "firecrawl" \in asked
      /\ UNCHANGED <<asked, hsguru, spare, turned, account>>
  BY TurnFacts DEF Cascade!Firecrawl
<1>2. Cascade!TypeOK /\ TurnsKept /\ RotationKept /\ CostKept /\ PoolKept
  BY DEF CascadeSound
<1>3. Cascade!FirstProfile(hsguru) \in 1 .. 2
  BY DEF Cascade!FirstProfile
<1>4. CASE Cascade!Fails("firecrawl") /\ UNCHANGED <<live, rotations, calls>> /\ live = {}
  <2>1. /\ failed' = failed \cup {"firecrawl"} /\ at' = 3 /\ attempt' = 1 /\ result' = result
        /\ profile' = Cascade!FirstProfile(hsguru)
    BY <1>1, <1>4 DEF Cascade!Fails, Cascade!Advance
  <2>2. Cascade!TypeOK'
    BY <1>1, <1>2, <1>3, <1>4, <2>1, OrderFacts DEF Cascade!TypeOK
  <2>3. TurnsKept'
    <3>1. failed' = {p \in asked' : \E i \in 1 .. 4 : i < at' /\ Cascade!Order[i] = p}
      BY <1>1, <2>1, NextTurn, OrderFacts
    <3> QED BY <1>1, <2>1, <3>1 DEF TurnsKept
  <2>4. RotationKept'
    BY <1>1, <1>2, <1>4, <2>1 DEF RotationKept
  <2>5. CostKept'
    BY <1>1, <1>2, <1>3, <1>4, <2>1 DEF CostKept
  <2>6. PoolKept' /\ TurnedKept'
    BY <1>1, <1>2, <1>4, <2>1, TurnedFacts DEF PoolKept
  <2> QED BY <2>2, <2>3, <2>4, <2>5, <2>6 DEF CascadeSound
<1>5. ASSUME Cascade!Paid("firecrawl")
      PROVE  /\ calls' \in [Cascade!Providers -> Nat]
             /\ calls'["firecrawl"] = calls["firecrawl"] + 1
             /\ calls'["scrape_do"] = calls["scrape_do"]
             /\ calls'["brightdata"] = calls["brightdata"]
             /\ calls'["scrapfly"] = calls["scrapfly"]
  BY <1>2, <1>5, PaidFacts, OrderFacts
<1>9. ASSUME Cascade!Paid("firecrawl"), rotations # Cascade!Limit, UNCHANGED rotations \/ rotations' = rotations + 1
      PROVE  PoolKept'
  <2>1. calls["firecrawl"] = rotations /\ rotations \in Nat
    BY <1>1, <1>2 DEF RotationKept, Cascade!TypeOK
  <2>2. rotations <= Cascade!Limit /\ Cascade!Limit \in Nat
    BY <1>2, <2>1, LimitTypes DEF PoolKept
  <2> QED BY <1>5, <1>9, <2>1, <2>2 DEF PoolKept
<1>6. ASSUME Cascade!Paid("firecrawl"), rotations # Cascade!Limit, NEW k \in live, live' = live \ {k},
             rotations' = rotations + 1, Cascade!Stay
      PROVE  CascadeSound'
  <2>1. Cascade!TypeOK'
    BY <1>1, <1>2, <1>5, <1>6 DEF Cascade!TypeOK, Cascade!Stay
  <2>2. TurnsKept'
    BY <1>1, <1>2, <1>6 DEF TurnsKept, Cascade!Stay
  <2>3. RotationKept'
    BY <1>1, <1>2, <1>5, <1>6, RotateFacts DEF RotationKept, Cascade!Stay
  <2>4. CostKept'
    BY <1>1, <1>2, <1>5, <1>6 DEF CostKept, Cascade!Stay
  <2>5. PoolKept' /\ TurnedKept'
    BY <1>1, <1>2, <1>5, <1>6, <1>9, TurnedFacts DEF Cascade!Stay
  <2> QED BY <2>1, <2>2, <2>3, <2>4, <2>5 DEF CascadeSound
<1>7. ASSUME Cascade!Paid("firecrawl"), rotations # Cascade!Limit, Cascade!Fails("firecrawl"), UNCHANGED <<live, rotations>>
      PROVE  CascadeSound'
  <2>1. /\ failed' = failed \cup {"firecrawl"} /\ at' = 3 /\ attempt' = 1 /\ result' = result
        /\ profile' = Cascade!FirstProfile(hsguru)
    BY <1>1, <1>7 DEF Cascade!Fails, Cascade!Advance
  <2>2. Cascade!TypeOK'
    BY <1>1, <1>2, <1>3, <1>5, <1>7, <2>1, OrderFacts DEF Cascade!TypeOK
  <2>3. TurnsKept'
    <3>1. failed' = {p \in asked' : \E i \in 1 .. 4 : i < at' /\ Cascade!Order[i] = p}
      BY <1>1, <2>1, NextTurn, OrderFacts
    <3> QED BY <1>1, <2>1, <3>1 DEF TurnsKept
  <2>4. RotationKept'
    <3>1. calls["firecrawl"] = rotations /\ rotations \in Nat
      BY <1>1, <1>2 DEF RotationKept, Cascade!TypeOK
    <3> QED BY <1>1, <1>2, <1>5, <1>7, <2>1, <3>1 DEF RotationKept
  <2>5. CostKept'
    BY <1>1, <1>2, <1>3, <1>5, <1>7, <2>1 DEF CostKept
  <2>6. PoolKept' /\ TurnedKept'
    BY <1>1, <1>2, <1>5, <1>7, <1>9, <2>1, TurnedFacts
  <2> QED BY <2>2, <2>3, <2>4, <2>5, <2>6 DEF CascadeSound
<1>8. ASSUME Cascade!Paid("firecrawl"), rotations # Cascade!Limit, Accepted("firecrawl"), UNCHANGED <<live, rotations>>
      PROVE  CascadeSound'
  <2>1. Cascade!TypeOK'
    BY <1>1, <1>2, <1>5, <1>8, OrderFacts DEF Cascade!TypeOK, Accepted
  <2>2. TurnsKept'
    BY <1>1, <1>2, <1>8 DEF TurnsKept, Accepted
  <2>3. RotationKept'
    BY <1>1, <1>2, <1>5, <1>8 DEF RotationKept, Accepted
  <2>4. CostKept'
    BY <1>1, <1>2, <1>5, <1>8 DEF CostKept, Accepted
  <2>5. PoolKept' /\ TurnedKept'
    BY <1>1, <1>2, <1>5, <1>8, <1>9, TurnedFacts DEF Accepted
  <2> QED BY <2>1, <2>2, <2>3, <2>4, <2>5 DEF CascadeSound
<1> QED BY <1>4, <1>6, <1>7, <1>8, LimitIsEnough DEF Cascade!Firecrawl, Cascade!Answers, Accepted

LEMMA BrightDataStep ==
  ASSUME Cascade!CascadeAssumption, CascadeSound, Cascade!BrightData
  PROVE  CascadeSound'
<1>1. /\ result = "none" /\ at = 3 /\ "brightdata" \in asked
      /\ UNCHANGED <<asked, hsguru, account, live, rotations, spare, turned>>
  BY TurnFacts DEF Cascade!BrightData
<1>2. Cascade!TypeOK /\ TurnsKept /\ RotationKept /\ CostKept /\ PoolKept
  BY DEF CascadeSound
<1>3. Cascade!FirstProfile(hsguru) \in 1 .. 2
  BY DEF Cascade!FirstProfile
<1>4. /\ calls' \in [Cascade!Providers -> Nat]
      /\ calls'["brightdata"] = calls["brightdata"] + 1
      /\ calls'["scrape_do"] = calls["scrape_do"]
      /\ calls'["firecrawl"] = calls["firecrawl"]
      /\ calls'["scrapfly"] = calls["scrapfly"]
  BY <1>2, PaidFacts, OrderFacts DEF Cascade!BrightData
<1>5. Passes("brightdata") \/ Accepted("brightdata")
  BY DEF Cascade!BrightData, Cascade!Answers, Cascade!Fails, Cascade!Advance, Passes, Accepted
<1>6. CASE Passes("brightdata")
  <2>1. Cascade!TypeOK'
    BY <1>1, <1>2, <1>3, <1>4, <1>6, OrderFacts DEF Cascade!TypeOK, Passes
  <2>2. TurnsKept'
    <3>1. failed' = {p \in asked' : \E i \in 1 .. 4 : i < at' /\ Cascade!Order[i] = p}
      BY <1>1, <1>6, NextTurn, OrderFacts DEF Passes
    <3> QED BY <1>1, <1>6, <3>1 DEF TurnsKept, Passes
  <2>3. RotationKept'
    BY <1>1, <1>2, <1>4, <1>6 DEF RotationKept, Passes
  <2>4. CostKept'
    BY <1>1, <1>2, <1>3, <1>4, <1>6 DEF CostKept, Passes
  <2>5. PoolKept' /\ TurnedKept'
    BY <1>1, <1>2, <1>4, <1>6, TurnedFacts DEF PoolKept, Passes
  <2> QED BY <2>1, <2>2, <2>3, <2>4, <2>5 DEF CascadeSound
<1>7. CASE Accepted("brightdata")
  <2>1. Cascade!TypeOK'
    BY <1>1, <1>2, <1>4, <1>7, OrderFacts DEF Cascade!TypeOK, Accepted
  <2>2. TurnsKept'
    BY <1>1, <1>2, <1>7 DEF TurnsKept, Accepted
  <2>3. RotationKept'
    BY <1>1, <1>2, <1>4, <1>7 DEF RotationKept, Accepted
  <2>4. CostKept'
    BY <1>1, <1>2, <1>4, <1>7 DEF CostKept, Accepted
  <2>5. PoolKept' /\ TurnedKept'
    BY <1>1, <1>2, <1>4, <1>7, TurnedFacts DEF PoolKept, Accepted
  <2> QED BY <2>1, <2>2, <2>3, <2>4, <2>5 DEF CascadeSound
<1> QED BY <1>5, <1>6, <1>7

\* A request of Scrapfly, or the end of a profile without one.
ScrapflyMoves ==
  \/ UNCHANGED calls /\ UNCHANGED turned
  \/ Cascade!Paid("scrapfly") /\ attempt <= Cascade!ScrapflyLimit /\ UNCHANGED turned

LEMMA ScrapflyRow ==
  ASSUME Cascade!CascadeAssumption, CascadeSound, Cascade!Scrapfly
  PROVE  /\ spare' \subseteq ScrapflyKeys /\ UNCHANGED <<asked, hsguru, account, live, rotations>>
         /\ \/ /\ Cascade!Paid("scrapfly") /\ attempt <= Cascade!ScrapflyLimit
               /\ turned' = turned + 1 /\ attempt' = attempt + 1
               /\ UNCHANGED <<at, profile, failed, result>>
            \/ /\ ScrapflyMoves
               /\ \/ Passes("scrapfly") \/ Accepted("scrapfly")
                  \/ profile = 1 /\ profile' = 2 /\ attempt' = 1 /\ UNCHANGED <<at, failed, result>>
<1>1. spare \subseteq ScrapflyKeys /\ attempt \in Nat /\ Cascade!ScrapflyLimit \in Nat
  BY LimitTypes DEF CascadeSound, Cascade!TypeOK
<1>2. UNCHANGED <<asked, hsguru, account, live, rotations>>
  BY DEF Cascade!Scrapfly
<1>3. ASSUME Cascade!NextProfile("scrapfly") \/ Cascade!Answers("scrapfly")
      PROVE  \/ Passes("scrapfly") \/ Accepted("scrapfly")
             \/ profile = 1 /\ profile' = 2 /\ attempt' = 1 /\ UNCHANGED <<at, failed, result>>
  BY <1>3 DEF Cascade!Answers, Cascade!NextProfile, Cascade!Fails, Cascade!Advance, Passes, Accepted
<1>4. CASE Cascade!NextProfile("scrapfly") /\ UNCHANGED <<spare, turned, calls>>
  BY <1>1, <1>2, <1>3, <1>4 DEF ScrapflyMoves
<1>5. CASE Cascade!Paid("scrapfly") /\ Cascade!TurnKey /\ ~(attempt > Cascade!ScrapflyLimit)
  <2>1. spare' \subseteq ScrapflyKeys
    BY <1>1, <1>5 DEF Cascade!TurnKey
  <2> QED BY <1>1, <1>2, <1>5, <2>1 DEF Cascade!TurnKey
<1>6. CASE /\ Cascade!Paid("scrapfly") /\ ~(attempt > Cascade!ScrapflyLimit)
           /\ Cascade!Answers("scrapfly") \/ Cascade!NextProfile("scrapfly")
           /\ UNCHANGED <<spare, turned>>
  BY <1>1, <1>2, <1>3, <1>6 DEF ScrapflyMoves
<1> QED BY <1>4, <1>5, <1>6, Zenon DEF Cascade!Scrapfly

LEMMA ScrapflyStep ==
  ASSUME Cascade!CascadeAssumption, CascadeSound, Cascade!Scrapfly
  PROVE  CascadeSound'
<1> DEFINE First == Cascade!FirstProfile(hsguru)
           L == Cascade!ScrapflyLimit
<1>1. /\ result = "none" /\ at = 4 /\ "scrapfly" \in asked
      /\ spare' \subseteq ScrapflyKeys /\ UNCHANGED <<asked, hsguru, account, live, rotations>>
  BY TurnFacts, ScrapflyRow DEF Cascade!Scrapfly
<1>2. Cascade!TypeOK /\ TurnsKept /\ RotationKept /\ CostKept /\ PoolKept /\ TurnedKept
  BY DEF CascadeSound
<1>3. First \in 1 .. 2 /\ First' = First /\ First = IF hsguru THEN 2 ELSE 1
  BY <1>1 DEF Cascade!FirstProfile
<1>4. L \in Nat /\ Cascade!Limit \in Nat
  BY LimitTypes
<1>5. /\ calls["scrapfly"] \in Nat /\ profile \in 1 .. 2 /\ First <= profile
      /\ attempt \in Nat \ {0} /\ attempt - 1 <= L /\ turned \in Nat
      /\ calls["scrapfly"] <= profile - First + turned
      /\ calls["scrapfly"] <= (IF profile > First THEN L ELSE 0) + attempt - 1
  BY <1>1, <1>2, OrderFacts DEF Cascade!TypeOK, CostKept, TurnedKept
<1>6. ASSUME Cascade!Paid("scrapfly")
      PROVE  /\ calls' \in [Cascade!Providers -> Nat]
             /\ calls'["scrapfly"] = calls["scrapfly"] + 1
             /\ calls'["scrape_do"] = calls["scrape_do"]
             /\ calls'["firecrawl"] = calls["firecrawl"]
             /\ calls'["brightdata"] = calls["brightdata"]
  BY <1>2, <1>6, PaidFacts, OrderFacts
<1>7. ASSUME ScrapflyMoves
      PROVE  /\ calls' \in [Cascade!Providers -> Nat] /\ turned' = turned
             /\ \/ calls'["scrapfly"] = calls["scrapfly"]
                \/ calls'["scrapfly"] = calls["scrapfly"] + 1 /\ attempt <= L
             /\ calls'["scrape_do"] = calls["scrape_do"]
             /\ calls'["firecrawl"] = calls["firecrawl"]
             /\ calls'["brightdata"] = calls["brightdata"]
  BY <1>2, <1>6, <1>7 DEF ScrapflyMoves, Cascade!TypeOK
<1> HIDE DEF First, L
<1>8. CASE ScrapflyMoves /\ Passes("scrapfly")
  <2>1. Cascade!TypeOK'
    BY <1>1, <1>2, <1>3, <1>5, <1>7, <1>8, OrderFacts DEF Cascade!TypeOK, Passes, First
  <2>2. TurnsKept'
    <3>1. failed' = {p \in asked' : \E i \in 1 .. 4 : i < at' /\ Cascade!Order[i] = p}
      BY <1>1, <1>8, NextTurn, OrderFacts DEF Passes
    <3> QED BY <1>1, <1>8, <3>1 DEF TurnsKept, Passes
  <2>3. RotationKept'
    BY <1>1, <1>2, <1>7, <1>8 DEF RotationKept, Passes
  <2>4. CostKept'
    BY <1>1, <1>2, <1>3, <1>5, <1>7, <1>8 DEF CostKept, Passes, First
  <2>5. PoolKept' /\ TurnedKept'
    BY <1>1, <1>2, <1>3, <1>4, <1>5, <1>7, <1>8 DEF PoolKept, TurnedKept, Passes, First, L
  <2> QED BY <2>1, <2>2, <2>3, <2>4, <2>5 DEF CascadeSound
<1>9. CASE ScrapflyMoves /\ Accepted("scrapfly")
  <2>1. Cascade!TypeOK'
    BY <1>1, <1>2, <1>5, <1>7, <1>9, OrderFacts DEF Cascade!TypeOK, Accepted
  <2>2. TurnsKept'
    BY <1>1, <1>2, <1>9 DEF TurnsKept, Accepted
  <2>3. RotationKept'
    BY <1>1, <1>2, <1>7, <1>9 DEF RotationKept, Accepted
  <2>4. CostKept'
    BY <1>1, <1>2, <1>3, <1>5, <1>7, <1>9 DEF CostKept, Accepted, First
  <2>5. PoolKept' /\ TurnedKept'
    BY <1>1, <1>2, <1>3, <1>4, <1>5, <1>7, <1>9 DEF PoolKept, TurnedKept, Accepted, First, L
  <2> QED BY <2>1, <2>2, <2>3, <2>4, <2>5 DEF CascadeSound
<1>10. CASE /\ ScrapflyMoves
            /\ profile = 1 /\ profile' = 2 /\ attempt' = 1 /\ UNCHANGED <<at, failed, result>>
  <2>1. Cascade!TypeOK'
    BY <1>1, <1>2, <1>5, <1>7, <1>10 DEF Cascade!TypeOK
  <2>2. TurnsKept'
    BY <1>1, <1>2, <1>10 DEF TurnsKept
  <2>3. RotationKept'
    BY <1>1, <1>2, <1>7, <1>10 DEF RotationKept
  <2>4. CostKept'
    BY <1>1, <1>2, <1>3, <1>5, <1>7, <1>10 DEF CostKept, First
  <2>5. PoolKept' /\ TurnedKept'
    BY <1>1, <1>2, <1>3, <1>4, <1>5, <1>7, <1>10 DEF PoolKept, TurnedKept, First, L
  <2> QED BY <2>1, <2>2, <2>3, <2>4, <2>5 DEF CascadeSound
<1>11. CASE /\ Cascade!Paid("scrapfly") /\ attempt <= L
            /\ turned' = turned + 1 /\ attempt' = attempt + 1
            /\ UNCHANGED <<at, profile, failed, result>>
  <2>1. Cascade!TypeOK'
    BY <1>1, <1>2, <1>5, <1>6, <1>11 DEF Cascade!TypeOK
  <2>2. TurnsKept'
    BY <1>1, <1>2, <1>11 DEF TurnsKept
  <2>3. RotationKept'
    BY <1>1, <1>2, <1>6, <1>11 DEF RotationKept
  <2>4. CostKept'
    BY <1>1, <1>2, <1>3, <1>5, <1>6, <1>11 DEF CostKept, First
  <2>5. PoolKept' /\ TurnedKept'
    BY <1>1, <1>2, <1>3, <1>4, <1>5, <1>6, <1>11 DEF PoolKept, TurnedKept, First, L
  <2> QED BY <2>1, <2>2, <2>3, <2>4, <2>5 DEF CascadeSound
<1> QED BY <1>8, <1>9, <1>10, <1>11, ScrapflyRow DEF L

LEMMA SkipStep ==
  ASSUME Cascade!CascadeAssumption, CascadeSound, Cascade!Skip
  PROVE  CascadeSound'
<1>1. /\ result = "none" /\ at \in 1 .. 4 /\ Cascade!Order[at] \notin asked /\ at' = at + 1
      /\ profile' = Cascade!FirstProfile(hsguru) /\ attempt' = 1
      /\ UNCHANGED <<asked, hsguru, live, rotations, spare, turned, calls, failed, account, result>>
  BY DEF Cascade!Skip, Cascade!Advance, CascadeSound, Cascade!TypeOK
<1>2. Cascade!TypeOK /\ TurnsKept /\ RotationKept /\ CostKept
  BY DEF CascadeSound
<1>3. Cascade!FirstProfile(hsguru) \in 1 .. 2
  BY DEF Cascade!FirstProfile
<1>4. Cascade!TypeOK'
  BY <1>1, <1>2, <1>3 DEF Cascade!TypeOK
<1>5. TurnsKept'
  <2>1. failed' = {p \in asked' : \E i \in 1 .. 4 : i < at' /\ Cascade!Order[i] = p}
    BY <1>1, NextTurn
  <2> QED BY <1>1, <1>2, <2>1 DEF TurnsKept
<1>6. RotationKept'
  <2>1. at = 2 => "firecrawl" \notin asked
    BY <1>1, OrderFacts
  <2> QED BY <1>1, <1>2, <2>1 DEF RotationKept
<1>7. CostKept'
  BY <1>1, <1>2, <1>3 DEF CostKept
<1>8. PoolKept'
  BY <1>1 DEF CascadeSound, PoolKept
<1>9. TurnedKept'
  <2>1. CASE at <= 3
    BY <1>1, <1>2, <2>1, TurnedFacts
  <2>2. CASE at = 4
    BY <1>1, <2>2 DEF CascadeSound, TurnedKept
  <2> QED BY <1>1, <2>1, <2>2
<1> QED BY <1>4, <1>5, <1>6, <1>7, <1>8, <1>9 DEF CascadeSound

LEMMA GiveUpStep ==
  ASSUME CascadeSound, Cascade!GiveUp
  PROVE  CascadeSound'
<1>1. /\ at = 5 /\ result = "none" /\ result' = "raised"
      /\ UNCHANGED <<asked, hsguru, at, profile, attempt, live, rotations, spare, turned, calls,
                     failed, account>>
  BY DEF Cascade!GiveUp
<1>2. Cascade!TypeOK'
  BY <1>1 DEF CascadeSound, Cascade!TypeOK
<1>3. TurnsKept'
  BY <1>1 DEF CascadeSound, TurnsKept
<1>4. RotationKept'
  BY <1>1 DEF CascadeSound, RotationKept
<1>5. CostKept'
  BY <1>1 DEF CascadeSound, CostKept
<1>6. PoolKept' /\ TurnedKept'
  BY <1>1 DEF CascadeSound, PoolKept, TurnedKept
<1> QED BY <1>2, <1>3, <1>4, <1>5, <1>6 DEF CascadeSound

LEMMA CascadeSoundInit ==
  ASSUME Cascade!CascadeAssumption, Cascade!Init
  PROVE  CascadeSound
<1>1. IsFiniteSet(Keys) /\ IsFiniteSet(live) /\ live \subseteq Keys
  BY SameSets, FS_Subset DEF Cascade!CascadeAssumption, Cascade!Init
<1>2. Cardinality(live) <= Cardinality(Keys) /\ Cardinality(live) \in Nat
  BY <1>1, FS_Subset, FS_CardinalityType
<1>3. Cascade!FirstProfile(hsguru) \in 1 .. 2
  BY DEF Cascade!FirstProfile
<1>4. Cascade!TypeOK
  <2>1. calls \in [Cascade!Providers -> Nat]
    BY DEF Cascade!Init
  <2>2. /\ asked \subseteq Cascade!Providers
        /\ at \in 1 .. 5 /\ profile \in 1 .. 2 /\ attempt \in Nat \ {0}
        /\ spare \subseteq ScrapflyKeys /\ turned \in Nat
    BY <1>3 DEF Cascade!Init
  <2>3. /\ live \subseteq Keys /\ rotations \in Nat /\ failed \subseteq Cascade!Providers
        /\ result \in Cascade!Providers \cup {"none", "raised"}
    BY DEF Cascade!Init
  <2>4. hsguru \in BOOLEAN /\ account \in BOOLEAN
    BY Zenon DEF Cascade!Init
  <2> QED BY <2>1, <2>2, <2>3, <2>4 DEF Cascade!TypeOK
<1>5. TurnsKept
  BY DEF Cascade!Init, TurnsKept
<1>6. RotationKept
  BY <1>2, OrderFacts DEF Cascade!Init, RotationKept
<1>7. CostKept
  BY <1>3, OrderFacts DEF Cascade!Init, CostKept
<1>8. PoolKept /\ TurnedKept
  BY LimitTypes, OrderFacts DEF Cascade!Init, PoolKept, TurnedKept
<1> QED BY <1>4, <1>5, <1>6, <1>7, <1>8 DEF CascadeSound

\* The books of the cascade are sound: the providers are asked in their order, and each
\* key and each profile that is tried is accounted for, for any pool and any floor of
\* the rotation.
THEOREM CascadeStaysSound ==
  ASSUME Cascade!CascadeAssumption
  PROVE  Cascade!Spec => []CascadeSound
<1>1. Cascade!Init => CascadeSound
  BY CascadeSoundInit
<1>2. CascadeSound /\ [Cascade!Next]_(Cascade!vars) => CascadeSound'
  <2>1. ASSUME CascadeSound, UNCHANGED Cascade!vars
        PROVE  CascadeSound'
    BY <2>1 DEF Cascade!vars, CascadeSound, Cascade!TypeOK, TurnsKept, RotationKept, CostKept,
           PoolKept, TurnedKept
  <2> QED BY <2>1, SkipStep, ScrapeDoStep, FirecrawlStep, BrightDataStep, ScrapflyStep,
             GiveUpStep, Zenon DEF Cascade!Next
<1> QED BY <1>1, <1>2, PTL DEF Cascade!Spec

\* A page is given up only when every provider that may be asked has failed, and
\* Firecrawl with every key that had credits: the floor of the rotation never cuts it short.
THEOREM EveryProviderHasItsTurn ==
  ASSUME Cascade!CascadeAssumption
  PROVE  Cascade!Spec => []Cascade!EveryProviderIsAsked
<1>1. CascadeSound => Cascade!EveryProviderIsAsked
  <2> SUFFICES ASSUME CascadeSound PROVE Cascade!EveryProviderIsAsked
    OBVIOUS
  <2>1. asked \subseteq {"scrape_do", "firecrawl", "brightdata", "scrapfly"}
    BY OrderFacts DEF CascadeSound, Cascade!TypeOK
  <2>2. ASSUME result = "raised"
        PROVE  failed = asked
    <3>1. at = 5
      BY <2>2 DEF CascadeSound, TurnsKept
    <3>2. \A p \in asked : \E i \in 1 .. 4 : i < at /\ Cascade!Order[i] = p
      <4>1. 1 \in 1 .. 4 /\ 2 \in 1 .. 4 /\ 3 \in 1 .. 4 /\ 4 \in 1 .. 4
        OBVIOUS
      <4>2. 1 < at /\ 2 < at /\ 3 < at /\ 4 < at
        BY <3>1
      <4> QED BY <2>1, <4>1, <4>2, OrderFacts
    <3> QED BY <3>2 DEF CascadeSound, TurnsKept
  <2>3. ASSUME "firecrawl" \in failed, calls["firecrawl"] = rotations
        PROVE  live = {}
    <3>1. PICK i \in 1 .. 4 : i < at /\ Cascade!Order[i] = "firecrawl"
      BY <2>3 DEF CascadeSound, TurnsKept
    <3>2. i = 2 /\ at \in Int
      BY <3>1, OrderFacts DEF CascadeSound, Cascade!TypeOK
    <3>3. "firecrawl" \in asked
      BY <2>3 DEF CascadeSound, TurnsKept
    <3> QED BY <2>3, <3>1, <3>2, <3>3 DEF CascadeSound, RotationKept
  <2> QED BY <2>2, <2>3 DEF Cascade!EveryProviderIsAsked
<1> QED BY <1>1, CascadeStaysSound, PTL

\* What a page costs is bounded by the profiles and their attempts, and a provider is paid
\* only after all those before it have failed or may not be asked.
THEOREM APageHasItsPrice ==
  ASSUME Cascade!CascadeAssumption
  PROVE  Cascade!Spec => [](Cascade!CostOfAPage /\ Cascade!BrightDataIsAResort)
<1>1. CascadeSound => Cascade!CostOfAPage
  <2> SUFFICES ASSUME CascadeSound PROVE Cascade!CostOfAPage
    OBVIOUS
  <2> DEFINE L == Cascade!ScrapflyLimit
  <2>1. L \in Nat /\ CostKept /\ PoolKept /\ TurnedKept
    BY LimitTypes DEF CascadeSound
  <2>2. calls["scrapfly"] <= IF hsguru THEN L ELSE L + L
    BY <2>1 DEF TurnedKept
  <2> HIDE DEF L
  <2>3. calls["scrapfly"] <= Cascade!Profiles * L
    <3>1. CASE hsguru
      BY <2>1, <2>2, <3>1 DEF Cascade!Profiles
    <3>2. CASE ~hsguru
      BY <2>1, <2>2, <3>2 DEF Cascade!Profiles
    <3> QED BY <3>1, <3>2
  <2> QED BY <2>1, <2>3 DEF CostKept, PoolKept, TurnedKept, Cascade!CostOfAPage, Cascade!Profiles, L
<1>2. CascadeSound => Cascade!BrightDataIsAResort
  <2> SUFFICES ASSUME CascadeSound PROVE Cascade!BrightDataIsAResort
    OBVIOUS
  <2>1. /\ asked \subseteq {"scrape_do", "firecrawl", "brightdata", "scrapfly"}
        /\ at \in 1 .. 5 /\ calls["brightdata"] \in Nat /\ calls["scrapfly"] \in Nat
    BY OrderFacts DEF CascadeSound, Cascade!TypeOK
  <2>2. failed = {p \in asked : \E i \in 1 .. 4 : i < at /\ Cascade!Order[i] = p}
    BY DEF CascadeSound, TurnsKept
  <2>3. ASSUME calls["brightdata"] > 0
        PROVE  asked \cap {"scrape_do", "firecrawl"} \subseteq failed
    <3>1. at >= 3
      BY <2>1, <2>3 DEF CascadeSound, CostKept
    <3>2. 1 < at /\ 2 < at /\ 1 \in 1 .. 4 /\ 2 \in 1 .. 4
      BY <2>1, <3>1
    <3> QED BY <2>2, <3>2, OrderFacts
  <2>4. ASSUME calls["scrapfly"] > 0
        PROVE  asked \ {"scrapfly"} \subseteq failed
    <3>1. at >= 4
      BY <2>1, <2>4 DEF CascadeSound, CostKept
    <3>2. 1 < at /\ 2 < at /\ 3 < at /\ 1 \in 1 .. 4 /\ 2 \in 1 .. 4 /\ 3 \in 1 .. 4
      BY <2>1, <3>1
    <3> QED BY <2>1, <2>2, <3>2, OrderFacts
  <2> QED BY <2>3, <2>4 DEF Cascade!BrightDataIsAResort
<1> QED BY <1>1, <1>2, CascadeStaysSound, PTL

\* A refused Scrape.do account is not asked again in the call, by no profile and no retry.
THEOREM RefusedAccountIsLeftAlone ==
  ASSUME Cascade!CascadeAssumption
  PROVE  Cascade!Spec => Cascade!AccountIsRespected
<1>1. ASSUME CascadeSound, [Cascade!Next]_(Cascade!vars)
      PROVE  Cascade!AccountIsRespectedStep
  <2> SUFFICES ASSUME account PROVE calls'["scrape_do"] = calls["scrape_do"]
    BY DEF Cascade!AccountIsRespectedStep
  <2>1. at > 1 /\ at \in Int
    BY <1>1 DEF CascadeSound, TurnsKept, Cascade!TypeOK
  <2>2. CASE Cascade!Skip \/ Cascade!GiveUp \/ UNCHANGED Cascade!vars
    BY <2>2 DEF Cascade!Skip, Cascade!GiveUp, Cascade!vars
  <2>3. CASE Cascade!ScrapeDo
    <3>1. at = 1
      BY <1>1, <2>3, ScrapeDoRow
    <3> QED BY <2>1, <3>1
  <2>4. ASSUME NEW p \in {"firecrawl", "brightdata", "scrapfly"}, Cascade!Paid(p)
        PROVE  calls'["scrape_do"] = calls["scrape_do"]
    BY <1>1, <2>4, PaidFacts, OrderFacts DEF CascadeSound
  <2>5. CASE Cascade!Firecrawl
    BY <2>4, <2>5 DEF Cascade!Firecrawl
  <2>6. CASE Cascade!BrightData
    BY <2>4, <2>6 DEF Cascade!BrightData
  <2>7. CASE Cascade!Scrapfly
    BY <2>4, <2>7 DEF Cascade!Scrapfly
  <2> QED BY <1>1, <2>2, <2>3, <2>5, <2>6, <2>7 DEF Cascade!Next
<1> QED BY <1>1, CascadeStaysSound, PTL DEF Cascade!Spec, Cascade!AccountIsRespected
-----------------------------------------------------------------------------
(* The reviews of a refresh, for any sources, verdicts, budgets, places,     *)
(* attempts and thresholds.                                                  *)

CONSTANTS Mode, Paid, Verdicts, Places, MaxReviews, Threshold, Attempts

VARIABLES phase, outcome, first, job, used, streak, open, attached, wide

Reviews == INSTANCE AIReview

States == {"none", "queued", "ready", "waiting", "asking", "pausing", "over"}

\* A review with any of these answers.
Rows(answers) ==
  [lane : Reviews!Lanes \cup {"none"}, st : States, attempt : 0 .. Attempts, late : BOOLEAN,
   answer : answers]

\* A review that has made no request: none, queued, or at its first attempt.
Fresh(j) == j.attempt <= 1 /\ j.st \in {"none", "queued", "ready"} /\ ~j.late

\* A review knows its lane and counts its attempts; its time can be up only after a request.
RowKept(j) ==
  /\ j.st # "none" => j.lane \in Reviews!Lanes /\ j.attempt >= 1
  /\ j.st \in {"none", "queued"} => Fresh(j)
  /\ j.st = "pausing" \/ j.late => j.attempt > 1

\* The reviews of a lane whose last request has been counted but has neither failed for
\* good nor been answered.
Pending(l) ==
  {s \in Sources : job[s].lane = l /\ (job[s].st = "asking" \/ (job[s].st # "over" /\ job[s].attempt > 1))}

Asking(l) == {s \in Sources : job[s].lane = l /\ job[s].st = "asking"}

\* The budget and the places hold, and a failure in a row, or a request that may still become
\* one, is a request of the lane.
LaneKept(l) ==
  /\ used[l] \in Nat /\ streak[l] \in Nat
  /\ used[l] <= MaxReviews[l]
  /\ Cardinality(Asking(l)) <= Places[l]
  /\ streak[l] + Cardinality(Pending(l)) <= used[l]
  /\ l \in open => used[l] >= Threshold

Typed ==
  /\ \E answers : job \in [Sources -> Rows(answers)]
  /\ used \in [Reviews!Lanes -> Nat] /\ streak \in [Reviews!Lanes -> Nat]
  /\ open \subseteq Reviews!Lanes

ReviewsSound ==
  /\ Typed
  /\ \A s \in Sources : RowKept(job[s])
  /\ \A l \in Reviews!Lanes : LaneKept(l)

\* The instance's finite sets are those of the library's theorems.
LEMMA SameReviewSets ==
  ASSUME NEW S
  PROVE  /\ Reviews!IsFiniteSet(S) <=> IsFiniteSet(S)
         /\ Reviews!Cardinality(S) = Cardinality(S)
<1>1. Reviews!IsFiniteSet(S) <=> IsFiniteSet(S)
  BY DEF Reviews!IsFiniteSet, IsFiniteSet
<1>2. Reviews!Cardinality(S) = Cardinality(S)
  BY DEF Reviews!Cardinality, Cardinality
<1> QED BY <1>1, <1>2

\* Counting some of the sources.
LEMMA CountSources ==
  ASSUME Reviews!ReviewAssumption
  PROVE  /\ \A S \in SUBSET Sources : IsFiniteSet(S) /\ Cardinality(S) \in Nat
         /\ \A S, T \in SUBSET Sources : S \subseteq T => Cardinality(S) <= Cardinality(T)
         /\ \A S, T \in SUBSET Sources : \A s \in Sources :
              T \subseteq S \cup {s} => Cardinality(T) <= Cardinality(S) + 1
         /\ \A S, T \in SUBSET Sources : \A s \in S :
              T \subseteq S \ {s} => Cardinality(T) + 1 <= Cardinality(S)
<1>0. IsFiniteSet(Sources)
  BY SameReviewSets DEF Reviews!ReviewAssumption
<1>1. \A S \in SUBSET Sources : IsFiniteSet(S) /\ Cardinality(S) \in Nat
  BY <1>0, FS_Subset, FS_CardinalityType
<1>2. \A S, T \in SUBSET Sources : S \subseteq T => Cardinality(S) <= Cardinality(T)
  BY <1>1, FS_Subset
<1>3. ASSUME NEW S \in SUBSET Sources, NEW T \in SUBSET Sources, NEW s \in Sources,
             T \subseteq S \cup {s}
      PROVE  Cardinality(T) <= Cardinality(S) + 1
  <2>1. Cardinality(T) <= Cardinality(S \cup {s}) /\ Cardinality(S \cup {s}) \in Nat
    BY <1>1, <1>2, <1>3
  <2>2. Cardinality(S \cup {s}) = Cardinality(S) \/ Cardinality(S \cup {s}) = Cardinality(S) + 1
    BY <1>1, FS_AddElement
  <2> QED BY <1>1, <2>1, <2>2
<1>4. ASSUME NEW S \in SUBSET Sources, NEW T \in SUBSET Sources, NEW s \in S, T \subseteq S \ {s}
      PROVE  Cardinality(T) + 1 <= Cardinality(S)
  <2>1. Cardinality(T) <= Cardinality(S \ {s})
    BY <1>2, <1>4
  <2>2. Cardinality(S \ {s}) = Cardinality(S) - 1
    BY <1>1, FS_RemoveElement
  <2> QED BY <1>1, <2>1, <2>2
<1> QED BY <1>1, <1>2, <1>3, <1>4

\* A step that counts no request and no failure.
LEMMA QuietStep ==
  ASSUME Reviews!ReviewAssumption, ReviewsSound, Typed', \A s \in Sources : RowKept(job'[s]),
         UNCHANGED <<used, streak, open>>,
         \A l \in Reviews!Lanes : Asking(l)' \subseteq Asking(l) /\ Pending(l)' \subseteq Pending(l)
  PROVE  ReviewsSound'
<1>1. ASSUME NEW l \in Reviews!Lanes
      PROVE  LaneKept(l)'
  <2>1. /\ Cardinality(Asking(l)') <= Cardinality(Asking(l))
        /\ Cardinality(Pending(l)') <= Cardinality(Pending(l))
        /\ Cardinality(Asking(l)') \in Nat /\ Cardinality(Asking(l)) \in Nat
        /\ Cardinality(Pending(l)') \in Nat /\ Cardinality(Pending(l)) \in Nat
    <3>1. /\ Asking(l) \in SUBSET Sources /\ Pending(l) \in SUBSET Sources
          /\ Asking(l)' \in SUBSET Sources /\ Pending(l)' \in SUBSET Sources
      BY DEF Asking, Pending
    <3> QED BY <3>1, CountSources
  <2>2. LaneKept(l) /\ MaxReviews[l] \in Nat /\ Places[l] \in Nat
    BY DEF ReviewsSound, Reviews!ReviewAssumption
  <2> QED BY <2>1, <2>2 DEF LaneKept
<1> QED BY <1>1 DEF ReviewsSound

\* The fields of a review.
LEMMA RowType ==
  ASSUME Typed, NEW s \in Sources
  PROVE  /\ job[s].lane \in Reviews!Lanes \cup {"none"} /\ job[s].st \in States
         /\ job[s].attempt \in 0 .. Attempts /\ job[s].late \in BOOLEAN
BY DEF Typed, Rows

\* Sources change to none or to reviews that have made no request, or stay.
Calm ==
  /\ UNCHANGED <<used, streak, open>>
  /\ \A s \in Sources : job'[s] = job[s] \/ (Fresh(job'[s]) /\ RowKept(job'[s]))

LEMMA CalmStep ==
  ASSUME Reviews!ReviewAssumption, ReviewsSound, Typed', Calm
  PROVE  ReviewsSound'
<1>1. \A s \in Sources : RowKept(job'[s])
  BY DEF ReviewsSound, Calm
<1>2. ASSUME NEW l \in Reviews!Lanes
      PROVE  Asking(l)' \subseteq Asking(l) /\ Pending(l)' \subseteq Pending(l)
  <2>1. Asking(l)' \subseteq Asking(l)
    BY DEF Asking, Calm, Fresh
  <2>2. ASSUME NEW s \in Sources, Fresh(job'[s])
        PROVE  ~(job'[s].st = "asking" \/ (job'[s].st # "over" /\ job'[s].attempt > 1))
    <3>1. PICK A : job' \in [Sources -> Rows(A)]
      BY DEF Typed
    <3>2. job'[s].attempt \in 0 .. Attempts
      BY <3>1 DEF Rows
    <3>3. job'[s].attempt \in Nat
      BY <3>2
    <3> QED BY <2>2, <3>3 DEF Fresh
  <2> QED BY <2>1, <2>2 DEF Pending, Calm
<1> QED BY <1>1, <1>2, QuietStep DEF Calm

\* One review changes and keeps its lane.
OnlyRow(s) ==
  /\ \A t \in Sources \ {s} : job'[t] = job[t]
  /\ job'[s].lane = job[s].lane

\* A review that gets other fields.
LEMMA SetFacts ==
  ASSUME Typed, NEW s \in Sources, NEW answers, NEW row \in Rows(answers),
         Reviews!Set(s, row)
  PROVE  /\ job'[s] = row /\ \A t \in Sources \ {s} : job'[t] = job[t]
         /\ \E all : job' \in [Sources -> Rows(all)]
<1>1. PICK before : job \in [Sources -> Rows(before)]
  BY DEF Typed
<1>2. row \in Rows(before \cup answers) /\ \A t \in Sources : job[t] \in Rows(before \cup answers)
  BY <1>1 DEF Rows
<1>3. job' = [job EXCEPT ![s] = row]
  BY DEF Reviews!Set
<1>4. job' \in [Sources -> Rows(before \cup answers)]
  BY <1>1, <1>2, <1>3
<1> QED BY <1>1, <1>3, <1>4

\* A review ends.
LEMMA OverFacts ==
  ASSUME Typed, NEW s \in Sources, NEW answer, Reviews!Over(s, answer)
  PROVE  /\ OnlyRow(s) /\ job'[s].st = "over" /\ job'[s].answer = answer
         /\ job'[s].attempt = job[s].attempt /\ job'[s].late = job[s].late
         /\ \E all : job' \in [Sources -> Rows(all)]
<1> DEFINE row == [job[s] EXCEPT !.st = "over", !.answer = answer]
<1>1. PICK before : job \in [Sources -> Rows(before)]
  BY DEF Typed
<1>2. /\ row \in Rows(before \cup {answer}) /\ row.st = "over" /\ row.lane = job[s].lane
      /\ row.attempt = job[s].attempt /\ row.late = job[s].late /\ row.answer = answer
  <2>1. job[s] \in Rows(before)
    BY <1>1
  <2>2. job[s] \in Rows(before \cup {answer}) /\ "over" \in States
    BY <2>1 DEF Rows, States
  <2>3. row \in Rows(before \cup {answer})
    BY <2>2 DEF Rows
  <2>4. /\ row.st = "over" /\ row.lane = job[s].lane
        /\ row.attempt = job[s].attempt /\ row.late = job[s].late /\ row.answer = answer
    BY <2>1 DEF Rows
  <2> QED BY <2>3, <2>4
<1>3. Reviews!Set(s, row)
  BY DEF Reviews!Over
<1> HIDE DEF row
<1>4. /\ job'[s] = row /\ \A t \in Sources \ {s} : job'[t] = job[t]
      /\ \E all : job' \in [Sources -> Rows(all)]
  BY <1>2, <1>3, SetFacts
<1> QED BY <1>2, <1>4 DEF OnlyRow

\* Who is asking and pending when one review has changed.
LEMMA OnlyFacts ==
  ASSUME NEW s \in Sources, OnlyRow(s), NEW l
  PROVE  /\ Asking(l)' \subseteq Asking(l) \cup (IF job'[s].st = "asking" THEN {s} ELSE {})
         /\ job[s].lane # l => Asking(l)' = Asking(l) /\ Pending(l)' = Pending(l)
         /\ Pending(l)' \subseteq Pending(l) \cup
              (IF job'[s].st = "asking" \/ (job'[s].st # "over" /\ job'[s].attempt > 1) THEN {s} ELSE {})
         /\ job'[s].st = "over" => Pending(l)' \subseteq Pending(l) \ {s}
BY DEF OnlyRow, Asking, Pending

\* A review that ends without a request, or after one that was not the service's fault.
LEMMA EndsQuietly ==
  ASSUME Reviews!ReviewAssumption, ReviewsSound, NEW s \in Sources, NEW answer,
         job[s].st # "none", Reviews!Over(s, answer), UNCHANGED <<used, streak, open>>
  PROVE  ReviewsSound'
<1>1. /\ OnlyRow(s) /\ job'[s].st = "over"
      /\ job'[s].attempt = job[s].attempt /\ job'[s].late = job[s].late
      /\ \E all : job' \in [Sources -> Rows(all)]
  BY OverFacts DEF ReviewsSound
<1>2. Typed'
  BY <1>1 DEF ReviewsSound, Typed
<1>3. \A t \in Sources : RowKept(job'[t])
  <2>1. RowKept(job[s]) /\ \A t \in Sources : RowKept(job[t])
    BY DEF ReviewsSound
  <2>2. RowKept(job'[s])
    BY <1>1, <2>1 DEF RowKept, OnlyRow
  <2> QED BY <1>1, <2>1, <2>2 DEF OnlyRow
<1>4. \A l \in Reviews!Lanes : Asking(l)' \subseteq Asking(l) /\ Pending(l)' \subseteq Pending(l)
  BY <1>1, OnlyFacts
<1> QED BY <1>2, <1>3, <1>4, QuietStep

\* A review whose last request has failed.
LEMMA EndsFailed ==
  ASSUME Reviews!ReviewAssumption, ReviewsSound, NEW s \in Sources, NEW answer,
         s \in Pending(job[s].lane), Reviews!Over(s, answer), Reviews!Failure(job[s].lane)
  PROVE  ReviewsSound'
<1> DEFINE mine == job[s].lane
<1>1. /\ OnlyRow(s) /\ job'[s].st = "over"
      /\ job'[s].attempt = job[s].attempt /\ job'[s].late = job[s].late
      /\ \E all : job' \in [Sources -> Rows(all)]
  BY OverFacts DEF ReviewsSound
<1>2. \A t \in Sources : RowKept(job'[t])
  <2>1. RowKept(job[s]) /\ \A t \in Sources : RowKept(job[t])
    BY DEF ReviewsSound
  <2>2. job[s].attempt \in Nat /\ 0 \in Nat /\ Attempts \in Nat
    BY RowType DEF ReviewsSound, Reviews!ReviewAssumption
  <2>3. job[s].st # "none"
    BY <2>1, <2>2 DEF Pending, RowKept, Fresh
  <2>4. RowKept(job'[s])
    BY <1>1, <2>1, <2>3 DEF RowKept, OnlyRow
  <2> QED BY <1>1, <2>1, <2>4 DEF OnlyRow
<1>3. mine \in Reviews!Lanes
  BY <1>1, <1>2 DEF OnlyRow, RowKept
<1>4. /\ streak' = [streak EXCEPT ![mine] = streak[mine] + 1] /\ used' = used
      /\ open' = IF streak[mine] + 1 >= Threshold THEN open \cup {mine} ELSE open
  BY DEF Reviews!Failure
<1>5. Typed'
  BY <1>1, <1>3, <1>4 DEF ReviewsSound, Typed
<1>6. ASSUME NEW l \in Reviews!Lanes
      PROVE  LaneKept(l)'
  <2>1. LaneKept(l) /\ MaxReviews[l] \in Nat /\ Places[l] \in Nat /\ Threshold \in Nat
        /\ streak \in [Reviews!Lanes -> Nat]
    BY DEF ReviewsSound, Reviews!ReviewAssumption, Typed
  <2>2. Asking(l)' \subseteq Asking(l) /\ Pending(l)' \subseteq Pending(l) \ {s}
    BY <1>1, OnlyFacts
  <2>3. /\ Asking(l) \in SUBSET Sources /\ Pending(l) \in SUBSET Sources
        /\ Asking(l)' \in SUBSET Sources /\ Pending(l)' \in SUBSET Sources
    BY DEF Asking, Pending
  <2>4. /\ Cardinality(Asking(l)') <= Cardinality(Asking(l))
        /\ Cardinality(Pending(l)') <= Cardinality(Pending(l))
        /\ l = mine => Cardinality(Pending(l)') + 1 <= Cardinality(Pending(l))
        /\ Cardinality(Asking(l)') \in Nat /\ Cardinality(Asking(l)) \in Nat
        /\ Cardinality(Pending(l)') \in Nat /\ Cardinality(Pending(l)) \in Nat
    <3>1. Pending(l)' \subseteq Pending(l)
      BY <2>2
    <3>2. l = mine => s \in Pending(l)
      OBVIOUS
    <3> QED BY <2>2, <2>3, <3>1, <3>2, CountSources
  <2>5. CASE l = mine
    <3>1. streak'[l] = streak[l] + 1 /\ (l \in open' => l \in open \/ streak[l] + 1 >= Threshold)
      BY <1>3, <1>4, <2>1, <2>5
    <3> QED BY <1>4, <2>1, <2>4, <2>5, <3>1 DEF LaneKept
  <2>6. CASE l # mine
    <3>1. streak'[l] = streak[l] /\ (l \in open' => l \in open)
      BY <1>3, <1>4, <2>1, <2>6
    <3> QED BY <1>4, <2>1, <2>4, <3>1 DEF LaneKept
  <2> QED BY <2>5, <2>6
<1> QED BY <1>2, <1>5, <1>6 DEF ReviewsSound

\* An answer, whatever it says.
LEMMA AnsweredStep ==
  ASSUME Reviews!ReviewAssumption, ReviewsSound, NEW s \in Sources, NEW answer,
         Reviews!Answered(s, answer)
  PROVE  ReviewsSound'
<1> DEFINE mine == job[s].lane
<1>1. /\ job[s].st = "asking" /\ Reviews!Over(s, answer) /\ UNCHANGED <<used, open>>
      /\ streak' = [streak EXCEPT ![mine] = 0]
  BY DEF Reviews!Answered
<1>2. /\ OnlyRow(s) /\ job'[s].st = "over"
      /\ job'[s].attempt = job[s].attempt /\ job'[s].late = job[s].late
      /\ \E all : job' \in [Sources -> Rows(all)]
  BY <1>1, OverFacts DEF ReviewsSound
<1>3. \A t \in Sources : RowKept(job'[t])
  <2>1. RowKept(job[s]) /\ \A t \in Sources : RowKept(job[t])
    BY DEF ReviewsSound
  <2>2. RowKept(job'[s])
    BY <1>1, <1>2, <2>1 DEF RowKept, OnlyRow
  <2> QED BY <1>2, <2>1, <2>2 DEF OnlyRow
<1>4. Typed'
  BY <1>1, <1>2 DEF ReviewsSound, Typed
<1>5. ASSUME NEW l \in Reviews!Lanes
      PROVE  LaneKept(l)'
  <2>1. LaneKept(l) /\ MaxReviews[l] \in Nat /\ Places[l] \in Nat
        /\ streak \in [Reviews!Lanes -> Nat]
    BY DEF ReviewsSound, Reviews!ReviewAssumption, Typed
  <2>2. Asking(l)' \subseteq Asking(l) /\ Pending(l)' \subseteq Pending(l)
    BY <1>2, OnlyFacts
  <2>3. /\ Asking(l) \in SUBSET Sources /\ Pending(l) \in SUBSET Sources
        /\ Asking(l)' \in SUBSET Sources /\ Pending(l)' \in SUBSET Sources
    BY DEF Asking, Pending
  <2>4. /\ Cardinality(Asking(l)') <= Cardinality(Asking(l))
        /\ Cardinality(Pending(l)') <= Cardinality(Pending(l))
        /\ Cardinality(Asking(l)') \in Nat /\ Cardinality(Asking(l)) \in Nat
        /\ Cardinality(Pending(l)') \in Nat /\ Cardinality(Pending(l)) \in Nat
    BY <2>2, <2>3, CountSources
  <2>5. streak'[l] = streak[l] \/ streak'[l] = 0
    BY <1>1, <2>1
  <2> QED BY <1>1, <2>1, <2>4, <2>5 DEF LaneKept
<1> QED BY <1>3, <1>4, <1>5 DEF ReviewsSound

\* A review that goes on without a request.
LEMMA GoesOn ==
  ASSUME Reviews!ReviewAssumption, ReviewsSound, NEW s \in Sources, NEW answers,
         NEW row \in Rows(answers), Reviews!Set(s, row), UNCHANGED <<used, streak, open>>,
         row.lane = job[s].lane, RowKept(row), row.st # "asking",
         row.st # "over" /\ row.attempt > 1 => s \in Pending(row.lane)
  PROVE  ReviewsSound'
<1>1. /\ job'[s] = row /\ \A t \in Sources \ {s} : job'[t] = job[t]
      /\ \E all : job' \in [Sources -> Rows(all)]
  BY SetFacts DEF ReviewsSound
<1>2. Typed' /\ OnlyRow(s)
  BY <1>1 DEF ReviewsSound, Typed, OnlyRow
<1>3. \A t \in Sources : RowKept(job'[t])
  BY <1>1 DEF ReviewsSound
<1>4. ASSUME NEW l \in Reviews!Lanes
      PROVE  Asking(l)' \subseteq Asking(l) /\ Pending(l)' \subseteq Pending(l)
  <2>1. CASE job[s].lane # l
    BY <1>2, <2>1, OnlyFacts
  <2>2. CASE job[s].lane = l
    BY <1>1, <1>2, <2>2, OnlyFacts
  <2> QED BY <2>1, <2>2
<1> QED BY <1>2, <1>3, <1>4, QuietStep

\* What a refresh queues or drops has made no request.
NewRow(j) == j \in Rows({Reviews!NoAnswer}) /\ Fresh(j) /\ RowKept(j)

LEMMA NewRows ==
  ASSUME Reviews!ReviewAssumption
  PROVE  /\ NewRow(Reviews!NoJob)
         /\ \A l \in Reviews!Lanes : /\ NewRow(Reviews!QueuedJob(l))
                                     /\ NewRow([Reviews!QueuedJob(l) EXCEPT !.st = "ready"])
<1>1. 0 \in 0 .. Attempts /\ 1 \in 0 .. Attempts
  BY DEF Reviews!ReviewAssumption
<1>2. NewRow(Reviews!NoJob)
  BY <1>1 DEF NewRow, Rows, Fresh, RowKept, States, Reviews!NoJob
<1>3. ASSUME NEW l \in Reviews!Lanes
      PROVE  NewRow(Reviews!QueuedJob(l)) /\ NewRow([Reviews!QueuedJob(l) EXCEPT !.st = "ready"])
  <2> DEFINE queued == Reviews!QueuedJob(l)
             ready == [queued EXCEPT !.st = "ready"]
  <2>1. Reviews!NoJob \in Rows({Reviews!NoAnswer}) /\ Reviews!NoJob.late = FALSE
    BY <1>2 DEF NewRow, Reviews!NoJob
  <2>2. "queued" \in States /\ "ready" \in States
    BY DEF States
  <2>3. queued \in Rows({Reviews!NoAnswer})
    BY <1>1, <2>1, <2>2 DEF Reviews!QueuedJob, Rows
  <2>4. queued.lane = l /\ queued.st = "queued" /\ queued.attempt = 1 /\ queued.late = FALSE
    BY <2>1 DEF Reviews!QueuedJob, Rows
  <2> HIDE DEF queued
  <2>5. ready \in Rows({Reviews!NoAnswer})
    BY <2>2, <2>3 DEF Rows
  <2>6. ready.lane = l /\ ready.st = "ready" /\ ready.attempt = 1 /\ ready.late = FALSE
    BY <2>3, <2>4 DEF Rows
  <2> HIDE DEF ready
  <2>7. NewRow(queued) /\ NewRow(ready)
    BY <2>3, <2>4, <2>5, <2>6 DEF NewRow, Fresh, RowKept
  <2> QED BY <2>7 DEF queued, ready
<1> QED BY <1>2, <1>3

\* Steps of the refresh itself.
LEMMA RefreshStep ==
  ASSUME Reviews!ReviewAssumption, ReviewsSound, NEW answers,
         UNCHANGED <<used, streak, open>>, job' = [s \in Sources |-> job'[s]],
         \A s \in Sources : \/ job'[s] = job[s]
                            \/ job'[s] \in Rows(answers) /\ Fresh(job'[s]) /\ RowKept(job'[s])
  PROVE  ReviewsSound'
<1>1. PICK before : job \in [Sources -> Rows(before)]
  BY DEF ReviewsSound, Typed
<1>2. \A s \in Sources : job'[s] \in Rows(before \cup answers)
  BY <1>1 DEF Rows
<1>3. job' \in [Sources -> Rows(before \cup answers)]
  BY <1>2
<1>4. Typed'
  BY <1>3 DEF ReviewsSound, Typed
<1>5. Calm
  BY DEF Calm
<1> QED BY <1>4, <1>5, CalmStep

\* One source's review is queued or dropped.
LEMMA OneQueued ==
  ASSUME Reviews!ReviewAssumption, ReviewsSound, NEW s, NEW row, NewRow(row),
         UNCHANGED <<used, streak, open>>, job' = [job EXCEPT ![s] = row]
  PROVE  ReviewsSound'
<1>1. PICK before : job \in [Sources -> Rows(before)]
  BY DEF ReviewsSound, Typed
<1>2. job' = [t \in Sources |-> job'[t]] /\ \A t \in Sources : job'[t] = job[t] \/ job'[t] = row
  BY <1>1
<1> QED BY <1>2, RefreshStep DEF NewRow

LEMMA NothingQueued ==
  ASSUME Reviews!ReviewAssumption, ReviewsSound, UNCHANGED <<used, streak, open, job>>
  PROVE  ReviewsSound'
BY DEF ReviewsSound, Typed, LaneKept, Asking, Pending

\* A queue that is full drops the review.
LEMMA EnqueuedRow ==
  ASSUME NEW l \in Reviews!Lanes, NEW s
  PROVE  \/ Reviews!Enqueued(l, s) = [job EXCEPT ![s] = Reviews!QueuedJob(l)]
         \/ Reviews!Enqueued(l, s) = [job EXCEPT ![s] = Reviews!NoJob]
BY DEF Reviews!Enqueued

\* The steps by which a source ends or goes on to its fallback.
LEMMA SourceStep ==
  ASSUME Reviews!ReviewAssumption, ReviewsSound, NEW s \in Sources,
         \/ Reviews!CandidateRejected(s) \/ Reviews!CandidatePasses(s)
         \/ Reviews!FallbackFails(s) \/ Reviews!FetchFails(s) \/ Reviews!Decide(s)
  PROVE  ReviewsSound'
<1>1. UNCHANGED <<used, streak, open>>
  BY DEF Reviews!CandidateRejected, Reviews!CandidatePasses, Reviews!FallbackFails,
         Reviews!FetchFails, Reviews!Decide, Reviews!Unreviewed
<1>2. "candidate" \in Reviews!Lanes /\ "diagnosis" \in Reviews!Lanes
  BY DEF Reviews!Lanes
<1>3. Reviews!Reject(s) => job' = Reviews!Enqueued("diagnosis", s)
  BY DEF Reviews!Reject
<1>4. \/ UNCHANGED job
      \/ job' = [job EXCEPT ![s] = Reviews!NoJob]
      \/ job' = [job EXCEPT ![s] = [Reviews!QueuedJob("candidate") EXCEPT !.st = "ready"]]
      \/ job' = Reviews!Enqueued("candidate", s)
      \/ job' = Reviews!Enqueued("diagnosis", s)
  BY <1>3, Zenon DEF Reviews!CandidateRejected, Reviews!CandidatePasses, Reviews!FallbackFails,
         Reviews!FetchFails, Reviews!Decide
<1>5. \/ UNCHANGED job
      \/ \E row : NewRow(row) /\ job' = [job EXCEPT ![s] = row]
  BY <1>2, <1>4, NewRows, EnqueuedRow
<1> QED BY <1>1, <1>5, OneQueued, NothingQueued

LEMMA RefreshFailsStep ==
  ASSUME Reviews!ReviewAssumption, ReviewsSound, Reviews!RefreshFails
  PROVE  ReviewsSound'
<1>1. UNCHANGED <<used, streak, open>> /\ "diagnosis" \in Reviews!Lanes
  BY DEF Reviews!RefreshFails, Reviews!Lanes
<1>2. \E s : job' = [job EXCEPT ![s] = [Reviews!QueuedJob("diagnosis") EXCEPT !.st = "ready"]]
  BY DEF Reviews!RefreshFails
<1> QED BY <1>1, <1>2, NewRows, OneQueued

LEMMA FlushStep ==
  ASSUME Reviews!ReviewAssumption, ReviewsSound, Reviews!Flush
  PROVE  ReviewsSound'
<1>1. UNCHANGED <<used, streak, open>> /\ "diagnosis" \in Reviews!Lanes
  BY DEF Reviews!Flush, Reviews!Unreviewed, Reviews!Lanes
<1>2. PICK chosen :
        job' = [s \in Sources |->
                  IF s \in chosen THEN [Reviews!QueuedJob("diagnosis") EXCEPT !.st = "ready"]
                  ELSE IF job[s].st = "queued" THEN [job[s] EXCEPT !.st = "ready"] ELSE job[s]]
  BY Zenon DEF Reviews!Flush
<1>3. PICK before : job \in [Sources -> Rows(before)]
  BY DEF ReviewsSound, Typed
<1>4. ASSUME NEW s \in Sources
      PROVE  \/ job'[s] = job[s]
             \/ /\ job'[s] \in Rows(before \cup {Reviews!NoAnswer})
                /\ Fresh(job'[s]) /\ RowKept(job'[s])
  <2>1. CASE s \in chosen
    <3>1. job'[s] = [Reviews!QueuedJob("diagnosis") EXCEPT !.st = "ready"]
      BY <1>2, <2>1
    <3>2. NewRow(job'[s])
      BY <1>1, <3>1, NewRows
    <3> QED BY <3>2 DEF NewRow, Rows
  <2>2. CASE s \notin chosen /\ job[s].st = "queued"
    <3>1. job'[s] = [job[s] EXCEPT !.st = "ready"]
      BY <1>2, <2>2
    <3>2. job[s] \in Rows(before) /\ RowKept(job[s])
      BY <1>3 DEF ReviewsSound
    <3>3. /\ job'[s].st = "ready" /\ job'[s].attempt = job[s].attempt
          /\ job'[s].late = job[s].late /\ job'[s].lane = job[s].lane
      BY <3>1, <3>2 DEF Rows
    <3>4. job'[s] \in Rows(before \cup {Reviews!NoAnswer})
      BY <3>1, <3>2 DEF Rows, States
    <3> QED BY <2>2, <3>2, <3>3, <3>4 DEF Fresh, RowKept
  <2>3. CASE s \notin chosen /\ job[s].st # "queued"
    BY <1>2, <2>3
  <2> QED BY <2>1, <2>2, <2>3
<1>5. job' = [s \in Sources |-> job'[s]]
  BY <1>2
<1> QED BY <1>1, <1>4, <1>5, RefreshStep

LEMMA AttachStep ==
  ASSUME Reviews!ReviewAssumption, ReviewsSound, Reviews!Attach
  PROVE  ReviewsSound'
<1>1. /\ UNCHANGED <<used, streak, open>>
      /\ job' = [s \in Sources |-> IF job[s].st = "over" THEN job[s] ELSE Reviews!NoJob]
  BY DEF Reviews!Attach, Reviews!Unreviewed
<1>2. job' = [s \in Sources |-> job'[s]]
  BY <1>1
<1>3. \A s \in Sources : job'[s] = job[s] \/ job'[s] = Reviews!NoJob
  BY <1>1
<1> QED BY <1>1, <1>2, <1>3, NewRows, RefreshStep DEF NewRow

-----------------------------------------------------------------------------
\* A review that was never sent.
LEMMA NotSentStep ==
  ASSUME Reviews!ReviewAssumption, ReviewsSound, NEW s \in Sources, Reviews!NotSent(s)
  PROVE  ReviewsSound'
<1>1. /\ job[s].st = "ready" /\ Reviews!Over(s, Reviews!Telling("error"))
      /\ UNCHANGED <<used, streak, open>>
  BY DEF Reviews!NotSent, Reviews!MayBegin, Reviews!NoFailure
<1> QED BY <1>1, EndsQuietly

\* A review whose time is up, or that waits between two attempts, has made a request.
LEMMA PendingFacts ==
  ASSUME ReviewsSound, NEW s \in Sources
  PROVE  /\ job[s].st = "asking" => s \in Pending(job[s].lane)
         /\ job[s].st # "over" /\ (job[s].late \/ job[s].st = "pausing") => s \in Pending(job[s].lane)
         /\ job[s].st # "over" /\ job[s].attempt > 1 => s \in Pending(job[s].lane)
         /\ job[s].st # "none" => job[s].lane \in Reviews!Lanes /\ job[s].attempt >= 1
<1>1. RowKept(job[s])
  BY DEF ReviewsSound
<1> QED BY <1>1 DEF RowKept, Pending

\* A review takes another state.
LEMMA MovesTo ==
  ASSUME Reviews!ReviewAssumption, ReviewsSound, NEW s \in Sources,
         NEW st \in {"waiting", "ready"}, job[s].st \notin {"none", "queued", "over"},
         Reviews!Set(s, [job[s] EXCEPT !.st = st]), UNCHANGED <<used, streak, open>>
  PROVE  ReviewsSound'
<1> DEFINE row == [job[s] EXCEPT !.st = st]
<1>1. PICK before : job[s] \in Rows(before)
  BY DEF ReviewsSound, Typed
<1>2. row \in Rows(before)
  BY <1>1 DEF Rows, States
<1>3. row.st = st /\ row.lane = job[s].lane /\ row.attempt = job[s].attempt /\ row.late = job[s].late
  BY <1>1 DEF Rows
<1>4. RowKept(job[s])
  BY DEF ReviewsSound
<1> HIDE DEF row
<1>5. RowKept(row) /\ row.st # "asking"
  BY <1>3, <1>4 DEF RowKept
<1>6. row.st # "over" /\ row.attempt > 1 => s \in Pending(row.lane)
  BY <1>3, PendingFacts
<1>7. Reviews!Set(s, row)
  BY DEF row
<1> QED BY <1>2, <1>3, <1>5, <1>6, <1>7, GoesOn

LEMMA AttemptStep ==
  ASSUME Reviews!ReviewAssumption, ReviewsSound, NEW s \in Sources, Reviews!Attempt(s)
  PROVE  ReviewsSound'
<1> DEFINE mine == job[s].lane
<1>1. job[s].st = "ready" /\ job[s].late \in BOOLEAN
  BY RowType DEF Reviews!Attempt, Reviews!MayBegin, ReviewsSound
<1>2. \/ job[s].late /\ Reviews!Over(s, Reviews!Telling("error")) /\ Reviews!Failure(mine)
      \/ Reviews!Over(s, Reviews!Telling("skipped")) /\ Reviews!NoFailure
      \/ Reviews!Set(s, [job[s] EXCEPT !.st = "waiting"]) /\ Reviews!NoFailure
  BY DEF Reviews!Attempt
<1>3. CASE job[s].late /\ Reviews!Over(s, Reviews!Telling("error")) /\ Reviews!Failure(mine)
  BY <1>1, <1>3, PendingFacts, EndsFailed
<1>4. CASE Reviews!Over(s, Reviews!Telling("skipped")) /\ Reviews!NoFailure
  BY <1>1, <1>4, EndsQuietly DEF Reviews!NoFailure
<1>5. CASE Reviews!Set(s, [job[s] EXCEPT !.st = "waiting"]) /\ Reviews!NoFailure
  BY <1>1, <1>5, MovesTo DEF Reviews!NoFailure
<1> QED BY <1>2, <1>3, <1>4, <1>5

LEMMA ResumeStep ==
  ASSUME Reviews!ReviewAssumption, ReviewsSound, NEW s \in Sources, Reviews!Resume(s)
  PROVE  ReviewsSound'
<1>1. /\ job[s].st = "pausing" /\ Reviews!Set(s, [job[s] EXCEPT !.st = "ready"])
      /\ UNCHANGED <<used, streak, open>>
  BY DEF Reviews!Resume, Reviews!NoFailure
<1> QED BY <1>1, MovesTo

LEMMA ExpireStep ==
  ASSUME Reviews!ReviewAssumption, ReviewsSound, NEW s \in Sources, Reviews!Expire(s)
  PROVE  ReviewsSound'
<1>1. \/ /\ job[s].st = "waiting" /\ Reviews!Over(s, Reviews!Telling("skipped"))
         /\ Reviews!NoFailure
      \/ /\ job[s].st = "asking" /\ Reviews!Over(s, Reviews!Telling("error"))
         /\ Reviews!Failure(job[s].lane)
      \/ /\ job[s].st = "pausing" /\ Reviews!Set(s, [job[s] EXCEPT !.late = TRUE])
         /\ Reviews!NoFailure
  BY DEF Reviews!Expire
<1>2. CASE /\ job[s].st = "waiting" /\ Reviews!Over(s, Reviews!Telling("skipped"))
           /\ Reviews!NoFailure
  BY <1>2, EndsQuietly DEF Reviews!NoFailure
<1>3. CASE /\ job[s].st = "asking" /\ Reviews!Over(s, Reviews!Telling("error"))
           /\ Reviews!Failure(job[s].lane)
  BY <1>3, PendingFacts, EndsFailed
<1>4. CASE /\ job[s].st = "pausing" /\ Reviews!Set(s, [job[s] EXCEPT !.late = TRUE])
           /\ Reviews!NoFailure
  <2> DEFINE row == [job[s] EXCEPT !.late = TRUE]
  <2>1. PICK before : job[s] \in Rows(before)
    BY DEF ReviewsSound, Typed
  <2>2. row \in Rows(before)
    BY <2>1 DEF Rows
  <2>3. row.st = "pausing" /\ row.lane = job[s].lane /\ row.attempt = job[s].attempt
    BY <1>4, <2>1 DEF Rows
  <2>4. RowKept(job[s])
    BY DEF ReviewsSound
  <2>5. Reviews!Set(s, row) /\ UNCHANGED <<used, streak, open>>
    BY <1>4 DEF Reviews!NoFailure
  <2> HIDE DEF row
  <2>6. RowKept(row) /\ (row.st # "over" /\ row.attempt > 1 => s \in Pending(row.lane))
    BY <1>4, <2>3, <2>4, PendingFacts DEF RowKept
  <2> QED BY <2>2, <2>3, <2>5, <2>6, GoesOn
<1> QED BY <1>1, <1>2, <1>3, <1>4

LEMMA AnswerFailsStep ==
  ASSUME Reviews!ReviewAssumption, ReviewsSound, NEW s \in Sources, NEW transient \in BOOLEAN,
         Reviews!AnswerFails(s, transient)
  PROVE  ReviewsSound'
<1>1. job[s].st = "asking"
  BY DEF Reviews!AnswerFails
<1>2. CASE /\ transient /\ job[s].attempt < Attempts
           /\ Reviews!Set(s, [job[s] EXCEPT !.st = "pausing", !.attempt = @ + 1])
           /\ Reviews!NoFailure
  <2> DEFINE row == [job[s] EXCEPT !.st = "pausing", !.attempt = @ + 1]
  <2>1. PICK before : job[s] \in Rows(before)
    BY DEF ReviewsSound, Typed
  <2>2. job[s].attempt \in 0 .. Attempts /\ Attempts \in Nat /\ "pausing" \in States
    BY <2>1 DEF Rows, Reviews!ReviewAssumption, States
  <2>3. job[s].attempt + 1 \in 0 .. Attempts
    BY <1>2, <2>2
  <2>4. row \in Rows(before)
    BY <2>1, <2>2, <2>3 DEF Rows
  <2>5. row.st = "pausing" /\ row.lane = job[s].lane /\ row.attempt = job[s].attempt + 1
    BY <2>1 DEF Rows
  <2>6. job[s].attempt >= 1 /\ s \in Pending(job[s].lane) /\ job[s].lane \in Reviews!Lanes
    BY <1>1, PendingFacts
  <2>7. Reviews!Set(s, row) /\ UNCHANGED <<used, streak, open>>
    BY <1>2 DEF Reviews!NoFailure
  <2> HIDE DEF row
  <2>8. RowKept(row)
    BY <2>2, <2>5, <2>6 DEF RowKept
  <2> QED BY <2>4, <2>5, <2>6, <2>7, <2>8, GoesOn
<1>3. CASE Reviews!Over(s, Reviews!Telling("error")) /\ Reviews!Failure(job[s].lane)
  BY <1>1, <1>3, PendingFacts, EndsFailed
<1> QED BY <1>2, <1>3 DEF Reviews!AnswerFails

LEMMA AskStep ==
  ASSUME Reviews!ReviewAssumption, ReviewsSound, NEW s \in Sources, Reviews!Ask(s)
  PROVE  ReviewsSound'
<1> DEFINE mine == job[s].lane
           row == [job[s] EXCEPT !.st = "asking"]
<1>1. /\ job[s].st = "waiting" /\ Reviews!Cardinality(Reviews!InFlight(mine)) < Places[mine]
      /\ \/ Reviews!Over(s, Reviews!Telling("skipped")) /\ Reviews!NoFailure
         \/ /\ mine \notin open /\ ~Reviews!Full(mine) /\ Reviews!Set(s, row)
            /\ used' = [used EXCEPT ![mine] = used[mine] + 1] /\ UNCHANGED <<streak, open>>
  BY DEF Reviews!Ask
<1>2. CASE Reviews!Over(s, Reviews!Telling("skipped")) /\ Reviews!NoFailure
  BY <1>1, <1>2, EndsQuietly DEF Reviews!NoFailure
<1>3. CASE /\ mine \notin open /\ ~Reviews!Full(mine) /\ Reviews!Set(s, row)
           /\ used' = [used EXCEPT ![mine] = used[mine] + 1] /\ UNCHANGED <<streak, open>>
  <2>1. PICK before : job[s] \in Rows(before)
    BY DEF ReviewsSound, Typed
  <2>2. row \in Rows(before)
    BY <2>1 DEF Rows, States
  <2>3. /\ row.st = "asking" /\ row.lane = job[s].lane /\ row.attempt = job[s].attempt
        /\ row.late = job[s].late
    BY <2>1 DEF Rows
  <2> HIDE DEF row
  <2>4. /\ job'[s] = row /\ \A t \in Sources \ {s} : job'[t] = job[t]
        /\ \E all : job' \in [Sources -> Rows(all)]
    BY <1>3, <2>2, SetFacts DEF ReviewsSound
  <2>5. mine \in Reviews!Lanes /\ used \in [Reviews!Lanes -> Nat]
    BY <1>1, PendingFacts DEF ReviewsSound, Typed
  <2>6. Typed'
    BY <1>3, <2>4, <2>5 DEF ReviewsSound, Typed
  <2>7. \A t \in Sources : RowKept(job'[t])
    <3>1. \A t \in Sources : RowKept(job[t])
      BY DEF ReviewsSound
    <3>2. RowKept(row)
      BY <1>1, <2>3, <3>1 DEF RowKept
    <3> QED BY <2>4, <3>1, <3>2
  <2>8. OnlyRow(s)
    BY <2>3, <2>4 DEF OnlyRow
  <2>9. Cardinality(Asking(mine)) < Places[mine]
    <3>1. Reviews!InFlight(mine) = Asking(mine)
      BY DEF Reviews!InFlight, Reviews!Jobs, Asking
    <3> QED BY <1>1, <3>1, SameReviewSets
  <2>10. used[mine] < MaxReviews[mine]
    BY <1>3, <2>5 DEF Reviews!Full, Reviews!ReviewAssumption
  <2>11. ASSUME NEW l \in Reviews!Lanes
         PROVE  LaneKept(l)'
    <3>1. LaneKept(l) /\ MaxReviews[l] \in Nat /\ Places[l] \in Nat
      BY DEF ReviewsSound, Reviews!ReviewAssumption
    <3>2. /\ Asking(l) \in SUBSET Sources /\ Pending(l) \in SUBSET Sources
          /\ Asking(l)' \in SUBSET Sources /\ Pending(l)' \in SUBSET Sources
      BY DEF Asking, Pending
    <3>3. CASE l # mine
      <4>1. Asking(l)' = Asking(l) /\ Pending(l)' = Pending(l) /\ used'[l] = used[l]
        BY <1>3, <2>5, <2>8, <3>3, OnlyFacts
      <4> QED BY <1>3, <3>1, <4>1 DEF LaneKept
    <3>4. CASE l = mine
      <4>1. /\ Asking(l)' \subseteq Asking(l) \cup {s} /\ Pending(l)' \subseteq Pending(l) \cup {s}
        BY <2>8, OnlyFacts
      <4>2. /\ Cardinality(Asking(l)') <= Cardinality(Asking(l)) + 1
            /\ Cardinality(Pending(l)') <= Cardinality(Pending(l)) + 1
            /\ Cardinality(Asking(l)') \in Nat /\ Cardinality(Asking(l)) \in Nat
            /\ Cardinality(Pending(l)') \in Nat /\ Cardinality(Pending(l)) \in Nat
        BY <3>2, <4>1, CountSources
      <4>3. used'[l] = used[l] + 1
        BY <1>3, <2>5, <3>4
      <4> QED BY <1>3, <2>9, <2>10, <3>1, <3>4, <4>2, <4>3 DEF LaneKept
    <3> QED BY <3>3, <3>4
  <2> QED BY <2>6, <2>7, <2>11 DEF ReviewsSound
<1> QED BY <1>1, <1>2, <1>3

LEMMA ReviewsSoundInit ==
  ASSUME Reviews!ReviewAssumption, Reviews!Init
  PROVE  ReviewsSound
<1>1. /\ job = [s \in Sources |-> Reviews!NoJob] /\ used = [l \in Reviews!Lanes |-> 0]
      /\ streak = [l \in Reviews!Lanes |-> 0] /\ open = {}
  BY DEF Reviews!Init
<1>2. NewRow(Reviews!NoJob) /\ Reviews!NoJob.st = "none" /\ Reviews!NoJob.attempt = 0
  BY NewRows DEF Reviews!NoJob
<1>3. job \in [Sources -> Rows({Reviews!NoAnswer})]
  BY <1>1, <1>2 DEF NewRow
<1>4. Typed
  BY <1>1, <1>3 DEF Typed
<1>5. \A s \in Sources : RowKept(job[s])
  BY <1>1, <1>2 DEF NewRow
<1>6. ASSUME NEW l \in Reviews!Lanes
      PROVE  LaneKept(l)
  <2>1. Asking(l) = {} /\ Pending(l) = {}
    BY <1>1, <1>2 DEF Asking, Pending
  <2>2. Cardinality({}) = 0
    BY FS_EmptySet
  <2>3. MaxReviews[l] \in Nat /\ Places[l] \in Nat
    BY DEF Reviews!ReviewAssumption
  <2> QED BY <1>1, <2>1, <2>2, <2>3 DEF LaneKept
<1> QED BY <1>4, <1>5, <1>6 DEF ReviewsSound

LEMMA ReviewsSoundNext ==
  ASSUME Reviews!ReviewAssumption, ReviewsSound, [Reviews!Next]_(Reviews!vars)
  PROVE  ReviewsSound'
<1>1. ASSUME NEW s \in Sources,
             Reviews!Diagnose(s) \/ \E v \in Verdicts : Reviews!Answer(s, v)
      PROVE  ReviewsSound'
  <2>1. \E answer : Reviews!Answered(s, answer)
    BY <1>1 DEF Reviews!Diagnose, Reviews!Answer
  <2> QED BY <2>1, AnsweredStep
<1>2. CASE UNCHANGED Reviews!vars
  BY <1>2, NothingQueued DEF Reviews!vars
<1> QED BY <1>1, <1>2, RefreshFailsStep, FlushStep, AttachStep, SourceStep, NotSentStep, AttemptStep,
           AskStep, ExpireStep, ResumeStep, AnswerFailsStep, Zenon DEF Reviews!Next

\* No lane of the reviews asks more than its budget or takes more than its places, and its
\* circuit opens on failures of its own requests only, for any sources, budgets, places,
\* attempts and thresholds, whichever reviews are retried, expire or wait.
THEOREM LanesStayBounded ==
  ASSUME Reviews!ReviewAssumption
  PROVE  Reviews!Spec => [](ReviewsSound /\ Reviews!LanesAreBounded)
<1>1. Reviews!Init => ReviewsSound
  BY ReviewsSoundInit
<1>2. ReviewsSound /\ [Reviews!Next]_(Reviews!vars) => ReviewsSound'
  BY ReviewsSoundNext
<1>3. ReviewsSound => Reviews!LanesAreBounded
  <2> SUFFICES ASSUME ReviewsSound, NEW l \in Reviews!Lanes
               PROVE  /\ used[l] <= MaxReviews[l]
                      /\ Reviews!Cardinality(Reviews!InFlight(l)) <= Places[l]
                      /\ l \in open => used[l] >= Threshold
    BY DEF Reviews!LanesAreBounded
  <2>1. Reviews!InFlight(l) = Asking(l)
    BY DEF Reviews!InFlight, Reviews!Jobs, Asking
  <2> QED BY <2>1, SameReviewSets DEF ReviewsSound, LaneKept
<1> QED BY <1>1, <1>2, <1>3, PTL DEF Reviews!Spec

\* A circuit that has opened stays open, and its lane asks nothing more, also for a review
\* that was waiting for its place when it opened.
THEOREM OpenCircuitHolds ==
  ASSUME Reviews!ReviewAssumption
  PROVE  Reviews!Spec => [][Reviews!CircuitHoldsStep]_(Reviews!vars)
<1>1. ASSUME ReviewsSound, [Reviews!Next]_(Reviews!vars)
      PROVE  Reviews!CircuitHoldsStep
  <2>1. CASE UNCHANGED <<used, open>>
    BY <2>1 DEF Reviews!CircuitHoldsStep
  <2>2. ASSUME NEW l, Reviews!Failure(l)
        PROVE  Reviews!CircuitHoldsStep
    BY <2>2 DEF Reviews!Failure, Reviews!CircuitHoldsStep
  <2>3. ASSUME NEW s \in Sources, Reviews!Ask(s)
        PROVE  Reviews!CircuitHoldsStep
    <3>1. \/ Reviews!NoFailure
          \/ /\ job[s].lane \notin open /\ UNCHANGED open
             /\ used' = [used EXCEPT ![job[s].lane] = used[job[s].lane] + 1]
      BY <2>3 DEF Reviews!Ask
    <3>2. used \in [Reviews!Lanes -> Nat] /\ open \subseteq Reviews!Lanes
      BY <1>1 DEF ReviewsSound, Typed
    <3> QED BY <2>1, <3>1, <3>2 DEF Reviews!NoFailure, Reviews!CircuitHoldsStep
  <2>4. ASSUME NEW s \in Sources, Reviews!Attempt(s) \/ Reviews!Expire(s)
               \/ \E transient \in BOOLEAN : Reviews!AnswerFails(s, transient)
        PROVE  Reviews!CircuitHoldsStep
    <3>1. Reviews!NoFailure \/ Reviews!Failure(job[s].lane)
      BY <2>4 DEF Reviews!Attempt, Reviews!Expire, Reviews!AnswerFails
    <3> QED BY <2>1, <2>2, <3>1 DEF Reviews!NoFailure
  <2>5. ASSUME NEW s \in Sources,
               \/ Reviews!CandidateRejected(s) \/ Reviews!CandidatePasses(s)
               \/ Reviews!FallbackFails(s) \/ Reviews!FetchFails(s) \/ Reviews!Decide(s)
               \/ Reviews!NotSent(s) \/ Reviews!Resume(s)
        PROVE  Reviews!CircuitHoldsStep
    BY <2>1, <2>5 DEF Reviews!CandidateRejected, Reviews!CandidatePasses, Reviews!FallbackFails,
         Reviews!FetchFails, Reviews!Decide, Reviews!NotSent, Reviews!Resume,
         Reviews!Unreviewed, Reviews!NoFailure
  <2>6. ASSUME NEW s \in Sources,
               Reviews!Diagnose(s) \/ \E v \in Verdicts : Reviews!Answer(s, v)
        PROVE  Reviews!CircuitHoldsStep
    BY <2>1, <2>6 DEF Reviews!Diagnose, Reviews!Answer, Reviews!Answered
  <2>7. CASE Reviews!RefreshFails \/ Reviews!Flush \/ Reviews!Attach \/ UNCHANGED Reviews!vars
    BY <2>1, <2>7 DEF Reviews!RefreshFails, Reviews!Flush, Reviews!Attach, Reviews!Unreviewed,
         Reviews!vars
  <2> QED BY <1>1, <2>3, <2>4, <2>5, <2>6, <2>7, Zenon DEF Reviews!Next
<1>2. Reviews!Spec => []ReviewsSound
  BY LanesStayBounded, PTL
<1> QED BY <1>1, <1>2, PTL DEF Reviews!Spec

-----------------------------------------------------------------------------
(* What a review says and what becomes of its source.                       *)

\* What RejectionIsBacked demands of an answer.
Backed(a) ==
  /\ Mode = "quarantine" /\ a.state = "ok"
  /\ a.raw.verdict = "fail" /\ a.raw.confident
  /\ a.raw.reasons # {} /\ a.raw.reasons \subseteq Reviews!Actionable
  /\ \A r \in a.raw.reasons : Reviews!CheckOf[r] \notin a.raw.passed

\* A verdict is one the model gave, normalized.
Judged(a) ==
  a.state = "ok" =>
    \E v \in Verdicts : a = [state |-> "ok", verdict |-> Reviews!Normalized(v), raw |-> v]

\* The reasons a verdict may name are finitely many.
LEMMA ReasonsAreFinite == IsFiniteSet(Reviews!Reasons)
<1>1. Reviews!Actionable = {"identity_mismatch", "login_wall", "challenge_page",
        "unexpected_empty", "suspicious_truncation", "schema_mismatch", "implausible_values"}
  BY DEF Reviews!Actionable, Reviews!CheckOf
<1>2. Reviews!Reasons = {"identity_mismatch"} \cup ({"login_wall"} \cup ({"challenge_page"} \cup
        ({"unexpected_empty"} \cup ({"suspicious_truncation"} \cup ({"schema_mismatch"} \cup
        ({"implausible_values"} \cup ({"none"} \cup ({"low_sample_expected"} \cup
        {"deterministic_conflict"}))))))))
  BY <1>1 DEF Reviews!Reasons
<1> QED BY <1>2, FS_Singleton, FS_Union

\* Two reasons are more than one.
LEMMA TwoReasons ==
  ASSUME NEW R \in SUBSET Reviews!Reasons, NEW x \in R, NEW y \in R, x # y
  PROVE  Reviews!Cardinality(R) > 1
<1>1. IsFiniteSet(R)
  BY ReasonsAreFinite, FS_Subset
<1>2. Cardinality(R \ {x}) = Cardinality(R) - 1 /\ IsFiniteSet(R \ {x})
  BY <1>1, FS_RemoveElement
<1>3. Cardinality(R \ {x}) # 0
  BY <1>2, FS_EmptySet
<1>4. Cardinality(R \ {x}) \in Nat /\ Cardinality(R) \in Nat
  BY <1>1, <1>2, FS_CardinalityType
<1> QED BY <1>2, <1>3, <1>4, SameReviewSets

\* A verdict the code rejects on holds together.
LEMMA QuarantineIsBacked ==
  ASSUME Reviews!ReviewAssumption, NEW a, Judged(a), Reviews!ShouldQuarantine(a)
  PROVE  Backed(a)
<1>1. /\ a.state = "ok" /\ Mode = "quarantine"
      /\ a.verdict.verdict = "fail" /\ a.verdict.confident
  BY DEF Reviews!ShouldQuarantine
<1>2. PICK v \in Verdicts : a = [state |-> "ok", verdict |-> Reviews!Normalized(v), raw |-> v]
  BY <1>1 DEF Judged
<1>3. v \in [verdict : {"pass", "fail", "uncertain"}, confident : BOOLEAN,
             passed : SUBSET Reviews!Checks, reasons : SUBSET Reviews!Reasons]
  BY DEF Reviews!ReviewAssumption
<1> DEFINE effective == IF v.verdict = Reviews!Signal(v) THEN v.verdict ELSE "uncertain"
<1>4. Reviews!Normalized(v).verdict = effective /\ Reviews!Normalized(v).confident = v.confident
  BY <1>3 DEF Reviews!Normalized
<1>5. v.verdict = "fail" /\ Reviews!Signal(v) = "fail" /\ v.confident /\ a.raw = v
  BY <1>1, <1>2, <1>4
<1> DEFINE named == v.reasons \intersect Reviews!Actionable
<1>6. /\ v.passed # Reviews!Checks /\ named # {} /\ ~Reviews!Contradicts(v.reasons)
      /\ \A r \in named : Reviews!CheckOf[r] \notin v.passed
  BY <1>5 DEF Reviews!Signal
<1>7. v.reasons \subseteq Reviews!Actionable
  <2>1. v.reasons \intersect {"deterministic_conflict", "low_sample_expected"} = {}
    BY <1>6 DEF Reviews!Contradicts
  <2>2. "none" \notin v.reasons
    <3>1. "none" \notin Reviews!Actionable
      BY DEF Reviews!Actionable, Reviews!CheckOf
    <3>2. PICK x \in named : x # "none"
      BY <1>6, <3>1
    <3>3. "none" \in v.reasons => Reviews!Cardinality(v.reasons) > 1
      BY <1>3, <3>2, TwoReasons
    <3> QED BY <1>6, <3>3 DEF Reviews!Contradicts
  <2> QED BY <1>3, <2>1, <2>2 DEF Reviews!Reasons
<1> QED BY <1>1, <1>5, <1>6, <1>7 DEF Backed

\* A verdict that passes saw every check pass.
LEMMA PassIsWhole ==
  ASSUME Reviews!ReviewAssumption, NEW a, Judged(a), a.state = "ok", a.verdict.verdict = "pass"
  PROVE  a.raw.passed = Reviews!Checks /\ a.raw.reasons = {"none"}
<1>1. PICK v \in Verdicts : a = [state |-> "ok", verdict |-> Reviews!Normalized(v), raw |-> v]
  BY DEF Judged
<1>2. v \in [verdict : {"pass", "fail", "uncertain"}, confident : BOOLEAN,
             passed : SUBSET Reviews!Checks, reasons : SUBSET Reviews!Reasons]
  BY DEF Reviews!ReviewAssumption
<1> DEFINE effective == IF v.verdict = Reviews!Signal(v) THEN v.verdict ELSE "uncertain"
<1>3. Reviews!Normalized(v).verdict = effective
  BY <1>2 DEF Reviews!Normalized
<1>4. Reviews!Signal(v) = "pass" /\ a.raw = v
  BY <1>1, <1>3
<1> QED BY <1>4 DEF Reviews!Signal

\* What the outcome of a source, the reason its own candidate was given up, its review, and
\* the candidate's and the diagnosis's answers in its status have to do with each other.
Kept(o, f, j, c, d) ==
  /\ o = "fetching" => j = Reviews!NoJob /\ (IF f = "quarantined" THEN Backed(c) ELSE c = Reviews!NoAnswer)
  /\ o = "reviewing" => Mode = "quarantine" /\ j.lane = "candidate"
  /\ o = "quarantined" => Backed(c) /\ (j = Reviews!NoJob \/ (j.lane = "candidate" /\ j.st = "over"))
  /\ j.lane = "diagnosis" \/ d # Reviews!NoAnswer => o \in {"failed", "rejected"}
  /\ j.lane = "candidate" =>
       /\ Judged(j.answer) /\ o \in {"reviewing", "served", "quarantined"}
       /\ Mode = "quarantine" /\ o # "reviewing" => j.st = "over" /\ j.answer = c
  /\ Judged(c)
  /\ o \in Reviews!Ended /\ Reviews!ShouldQuarantine(c) => o = "quarantined"
  /\ Mode = "observe" /\ c # Reviews!NoAnswer => o = "served"

KeptAt(s) ==
  Kept(outcome[s], first[s], job[s], attached[s]["candidate"], attached[s]["diagnosis"])

SourcesTyped ==
  /\ phase \in {"refresh", "flush", "done"} /\ wide \in BOOLEAN
  /\ outcome \in [Sources -> Reviews!Ended \cup {"fetching", "reviewing"}]
  /\ first \in [Sources -> {"none", "rejected", "quarantined"}]
  /\ \E answers : attached \in [Sources -> [Reviews!Lanes -> answers]]

\* When the refresh is over every source has ended; when it failed as a whole all of them
\* have failed, and one diagnosis speaks for them.
SourcesSound ==
  /\ SourcesTyped
  /\ phase # "refresh" => \A s \in Sources : outcome[s] \in Reviews!Ended
  /\ wide => phase # "refresh" /\ \A s \in Sources : outcome[s] = "failed"
  /\ wide /\ phase = "flush" => \A s \in Sources : \E t \in Sources : job[t].lane # "none"
  /\ \A s \in Sources : KeptAt(s)

LEMMA NoJobFacts ==
  /\ Reviews!NoJob.lane = "none" /\ Reviews!NoJob.st = "none"
  /\ Reviews!NoJob.answer = Reviews!NoAnswer /\ Reviews!NoAnswer.state = "none"
  /\ Judged(Reviews!NoAnswer) /\ ~Reviews!ShouldQuarantine(Reviews!NoAnswer)
  /\ ~Backed(Reviews!NoAnswer)
BY DEF Reviews!NoJob, Reviews!NoAnswer, Judged, Reviews!ShouldQuarantine, Backed

LEMMA QueuedFacts ==
  ASSUME NEW l
  PROVE  /\ Reviews!QueuedJob(l).lane = l /\ Reviews!QueuedJob(l).answer = Reviews!NoAnswer
         /\ [Reviews!QueuedJob(l) EXCEPT !.st = "ready"].lane = l
         /\ [Reviews!QueuedJob(l) EXCEPT !.st = "ready"].answer = Reviews!NoAnswer
BY DEF Reviews!QueuedJob, Reviews!NoJob

\* A review that is queued or dropped.
LEMMA EnqueuedFacts ==
  ASSUME ReviewsSound, NEW s \in Sources, NEW l, job' = Reviews!Enqueued(l, s)
  PROVE  /\ \A t \in Sources \ {s} : job'[t] = job[t]
         /\ \/ job'[s] = Reviews!NoJob
            \/ job'[s].lane = l /\ job'[s].answer = Reviews!NoAnswer
<1>1. PICK before : job \in [Sources -> Rows(before)]
  BY DEF ReviewsSound, Typed
<1>2. CASE job' = [job EXCEPT ![s] = Reviews!QueuedJob(l)]
  <2>1. job'[s] = Reviews!QueuedJob(l) /\ \A t \in Sources \ {s} : job'[t] = job[t]
    BY <1>1, <1>2
  <2> QED BY <2>1, QueuedFacts
<1>3. CASE job' = [job EXCEPT ![s] = Reviews!NoJob]
  BY <1>1, <1>3
<1> QED BY <1>2, <1>3 DEF Reviews!Enqueued

\* A step of one source.
Elsewhere(s) ==
  \A t \in Sources \ {s} : /\ outcome'[t] = outcome[t] /\ first'[t] = first[t]
                           /\ job'[t] = job[t] /\ attached'[t] = attached[t]

LEMMA OneSource ==
  ASSUME SourcesSound, NEW s \in Sources, SourcesTyped', UNCHANGED <<phase, wide>>,
         Elsewhere(s), KeptAt(s)', phase = "refresh"
  PROVE  SourcesSound'
<1>1. \A t \in Sources : KeptAt(t)'
  BY DEF Elsewhere, SourcesSound, KeptAt
<1> QED BY <1>1 DEF SourcesSound

\* A step of one review: nothing that has ended so changes.
LEMMA OneReview ==
  ASSUME SourcesSound, NEW s \in Sources, UNCHANGED <<phase, wide, outcome, first, attached>>,
         \A t \in Sources \ {s} : job'[t] = job[t], job'[s].lane = job[s].lane,
         job[s].st \notin {"none", "over"},
         job[s].lane = "candidate" => Judged(job'[s].answer)
  PROVE  SourcesSound'
<1>1. KeptAt(s)'
  <2>1. KeptAt(s)
    BY DEF SourcesSound
  <2>2. job[s] # Reviews!NoJob
    BY NoJobFacts
  <2>3. outcome[s] \notin {"fetching", "quarantined"}
    BY <2>1, <2>2 DEF KeptAt, Kept
  <2> QED BY <2>1, <2>3 DEF KeptAt, Kept
<1>2. \A t \in Sources : KeptAt(t)'
  BY <1>1 DEF SourcesSound, KeptAt
<1>3. SourcesTyped'
  BY DEF SourcesSound, SourcesTyped
<1>4. \A t \in Sources : job'[t].lane = job[t].lane
  OBVIOUS
<1> QED BY <1>2, <1>3, <1>4 DEF SourcesSound

LEMMA TypedStep ==
  ASSUME SourcesTyped, NEW s \in Sources, UNCHANGED <<phase, wide>>,
         NEW o \in Reviews!Ended \cup {"fetching", "reviewing"},
         UNCHANGED outcome \/ outcome' = [outcome EXCEPT ![s] = o],
         NEW f \in {"none", "rejected", "quarantined"},
         UNCHANGED first \/ first' = [first EXCEPT ![s] = f],
         NEW answers, attached' \in [Sources -> [Reviews!Lanes -> answers]]
  PROVE  SourcesTyped'
<1>1. outcome' \in [Sources -> Reviews!Ended \cup {"fetching", "reviewing"}]
  BY DEF SourcesTyped
<1>2. first' \in [Sources -> {"none", "rejected", "quarantined"}]
  BY DEF SourcesTyped
<1>3. phase' \in {"refresh", "flush", "done"} /\ wide' \in BOOLEAN
  BY DEF SourcesTyped
<1> QED BY <1>1, <1>2, <1>3 DEF SourcesTyped

LEMMA CandidateRejectedStep ==
  ASSUME ReviewsSound, SourcesSound, NEW s \in Sources, Reviews!CandidateRejected(s)
  PROVE  SourcesSound'
<1>1. /\ phase = "refresh" /\ outcome[s] = "fetching" /\ UNCHANGED <<phase, wide>>
      /\ attached' = [attached EXCEPT ![s]["candidate"] = Reviews!NoAnswer]
  BY DEF Reviews!CandidateRejected, Reviews!Unreviewed
<1>2. PICK answers : attached \in [Sources -> [Reviews!Lanes -> answers]]
  BY DEF SourcesSound, SourcesTyped
<1>3. "candidate" \in Reviews!Lanes /\ "diagnosis" \in Reviews!Lanes
  BY DEF Reviews!Lanes
<1>4. /\ attached'[s]["candidate"] = Reviews!NoAnswer
      /\ attached'[s]["diagnosis"] = attached[s]["diagnosis"]
      /\ \A t \in Sources \ {s} : attached'[t] = attached[t]
      /\ attached' \in [Sources -> [Reviews!Lanes -> answers \cup {Reviews!NoAnswer}]]
  BY <1>1, <1>2, <1>3
<1>5. KeptAt(s) /\ SourcesTyped /\ "rejected" \in Reviews!Ended
  BY DEF SourcesSound, Reviews!Ended
<1>6. CASE first' = [first EXCEPT ![s] = "rejected"] /\ UNCHANGED <<outcome, job>>
  <2>1. SourcesTyped'
    BY <1>1, <1>4, <1>5, <1>6, TypedStep
  <2>2. first'[s] = "rejected" /\ \A t \in Sources \ {s} : first'[t] = first[t]
    BY <1>5, <1>6 DEF SourcesTyped
  <2>3. KeptAt(s)'
    BY <1>1, <1>4, <1>5, <1>6, <2>2, NoJobFacts DEF KeptAt, Kept
  <2>4. Elsewhere(s)
    BY <1>4, <1>6, <2>2 DEF Elsewhere
  <2> QED BY <1>1, <2>1, <2>3, <2>4, OneSource
<1>7. CASE Reviews!Reject(s) /\ UNCHANGED first
  <2>1. /\ outcome' = [outcome EXCEPT ![s] = "rejected"]
        /\ job' = Reviews!Enqueued("diagnosis", s)
    BY <1>7 DEF Reviews!Reject, Reviews!End
  <2>2. /\ \A t \in Sources \ {s} : job'[t] = job[t]
        /\ job'[s] = Reviews!NoJob \/ job'[s].lane = "diagnosis"
    BY <2>1, EnqueuedFacts
  <2>3. outcome'[s] = "rejected" /\ \A t \in Sources \ {s} : outcome'[t] = outcome[t]
    BY <1>5, <2>1 DEF SourcesTyped
  <2>4. SourcesTyped'
    BY <1>1, <1>4, <1>5, <1>7, <2>1, TypedStep
  <2>5. KeptAt(s)'
    BY <1>1, <1>4, <1>5, <2>2, <2>3, NoJobFacts DEF KeptAt, Kept
  <2>6. Elsewhere(s)
    BY <1>4, <1>7, <2>2, <2>3 DEF Elsewhere
  <2> QED BY <1>1, <2>4, <2>5, <2>6, OneSource
<1> QED BY <1>6, <1>7 DEF Reviews!CandidateRejected

\* A source that ends, or whose candidate is shown to the model, keeps the answers it has.
LEMMA SourceMoves ==
  ASSUME SourcesSound, NEW s \in Sources, UNCHANGED <<phase, wide, first, attached>>,
         phase = "refresh", NEW o \in Reviews!Ended \cup {"fetching", "reviewing"},
         outcome' = [outcome EXCEPT ![s] = o], \A t \in Sources \ {s} : job'[t] = job[t],
         Kept(o, first[s], job'[s], attached[s]["candidate"], attached[s]["diagnosis"])
  PROVE  SourcesSound'
<1>1. PICK answers : attached \in [Sources -> [Reviews!Lanes -> answers]]
  BY DEF SourcesSound, SourcesTyped
<1>2. SourcesTyped /\ attached' \in [Sources -> [Reviews!Lanes -> answers]]
  BY <1>1 DEF SourcesSound
<1>3. SourcesTyped'
  BY <1>2, TypedStep, Zenon
<1>4. outcome'[s] = o /\ \A t \in Sources \ {s} : outcome'[t] = outcome[t]
  BY <1>2 DEF SourcesTyped
<1>5. KeptAt(s)'
  BY <1>4 DEF KeptAt
<1>6. Elsewhere(s)
  BY <1>4 DEF Elsewhere
<1> QED BY <1>3, <1>5, <1>6, OneSource

LEMMA RejectStep ==
  ASSUME ReviewsSound, SourcesSound, NEW s \in Sources, UNCHANGED <<phase, wide, first, attached>>,
         phase = "refresh", Reviews!Reject(s), Judged(attached[s]["candidate"]),
         ~Reviews!ShouldQuarantine(attached[s]["candidate"]),
         Mode = "observe" => attached[s]["candidate"] = Reviews!NoAnswer
  PROVE  SourcesSound'
<1>1. outcome' = [outcome EXCEPT ![s] = "rejected"] /\ job' = Reviews!Enqueued("diagnosis", s)
  BY DEF Reviews!Reject, Reviews!End
<1>2. /\ \A t \in Sources \ {s} : job'[t] = job[t]
      /\ job'[s] = Reviews!NoJob \/ job'[s].lane = "diagnosis"
  BY <1>1, EnqueuedFacts
<1>3. Kept("rejected", first[s], job'[s], attached[s]["candidate"], attached[s]["diagnosis"])
  BY <1>2, NoJobFacts DEF Kept
<1>4. "rejected" \in Reviews!Ended
  BY DEF Reviews!Ended
<1> QED BY <1>1, <1>2, <1>3, <1>4, SourceMoves

\* The answers of a source that is being fetched.
LEMMA FetchingFacts ==
  ASSUME SourcesSound, NEW s \in Sources, outcome[s] = "fetching"
  PROVE  /\ job[s] = Reviews!NoJob /\ attached[s]["diagnosis"] = Reviews!NoAnswer
         /\ Judged(attached[s]["candidate"])
         /\ first[s] = "quarantined" => Backed(attached[s]["candidate"])
         /\ first[s] # "quarantined" \/ Mode # "quarantine" => attached[s]["candidate"] = Reviews!NoAnswer
BY DEF SourcesSound, KeptAt, Kept, Backed

LEMMA CandidatePassesStep ==
  ASSUME Reviews!ReviewAssumption, ReviewsSound, SourcesSound, NEW s \in Sources,
         Reviews!CandidatePasses(s)
  PROVE  SourcesSound'
<1>1. /\ phase = "refresh" /\ outcome[s] = "fetching"
      /\ UNCHANGED <<phase, wide, first, attached>>
  BY DEF Reviews!CandidatePasses, Reviews!Unreviewed
<1>2. PICK before : job \in [Sources -> Rows(before)]
  BY DEF ReviewsSound, Typed
<1>3. "reviewing" \notin Reviews!Ended /\ "served" \in Reviews!Ended
  BY DEF Reviews!Ended
<1>4. CASE Mode = "quarantine"
  <2>1. /\ outcome' = [outcome EXCEPT ![s] = "reviewing"]
        /\ job' = [job EXCEPT ![s] = [Reviews!QueuedJob("candidate") EXCEPT !.st = "ready"]]
    BY <1>4 DEF Reviews!CandidatePasses, Reviews!End
  <2>2. /\ job'[s] = [Reviews!QueuedJob("candidate") EXCEPT !.st = "ready"]
        /\ \A t \in Sources \ {s} : job'[t] = job[t]
    BY <1>2, <2>1
  <2>3. job'[s].lane = "candidate" /\ job'[s].answer = Reviews!NoAnswer
    BY <2>2, QueuedFacts
  <2>4. Kept("reviewing", first[s], job'[s], attached[s]["candidate"], attached[s]["diagnosis"])
    BY <1>1, <1>3, <1>4, <2>3, FetchingFacts, NoJobFacts DEF Kept
  <2> QED BY <1>1, <2>1, <2>2, <2>4, SourceMoves
<1>5. CASE Mode # "quarantine"
  <2>1. attached[s]["candidate"] = Reviews!NoAnswer
    BY <1>1, <1>5, FetchingFacts
  <2>2. CASE Reviews!Reject(s)
    BY <1>1, <2>1, <2>2, NoJobFacts, RejectStep
  <2>3. CASE Reviews!End(s, "served") /\ job' = Reviews!Enqueued("candidate", s)
    <3>1. outcome' = [outcome EXCEPT ![s] = "served"]
      BY <2>3 DEF Reviews!End
    <3>2. /\ \A t \in Sources \ {s} : job'[t] = job[t]
          /\ \/ job'[s] = Reviews!NoJob
             \/ job'[s].lane = "candidate" /\ job'[s].answer = Reviews!NoAnswer
      BY <2>3, EnqueuedFacts
    <3>3. Kept("served", first[s], job'[s], attached[s]["candidate"], attached[s]["diagnosis"])
      BY <1>1, <1>5, <2>1, <3>2, FetchingFacts, NoJobFacts DEF Kept
    <3> QED BY <1>1, <1>3, <3>1, <3>2, <3>3, SourceMoves
  <2> QED BY <1>5, <2>2, <2>3 DEF Reviews!CandidatePasses
<1> QED BY <1>4, <1>5

LEMMA FallbackFailsStep ==
  ASSUME Reviews!ReviewAssumption, ReviewsSound, SourcesSound, NEW s \in Sources,
         Reviews!FallbackFails(s)
  PROVE  SourcesSound'
<1>1. /\ phase = "refresh" /\ outcome[s] = "fetching" /\ first[s] # "none"
      /\ UNCHANGED <<phase, wide, first, attached>>
  BY DEF Reviews!FallbackFails, Reviews!Unreviewed
<1>2. first[s] \in {"rejected", "quarantined"} /\ "quarantined" \in Reviews!Ended
  BY <1>1 DEF SourcesSound, SourcesTyped, Reviews!Ended
<1>3. CASE first[s] = "rejected"
  <2>1. Reviews!Reject(s)
    BY <1>3 DEF Reviews!FallbackFails
  <2>2. attached[s]["candidate"] = Reviews!NoAnswer
    BY <1>1, <1>3, FetchingFacts
  <2> QED BY <1>1, <2>1, <2>2, NoJobFacts, RejectStep
<1>4. CASE first[s] = "quarantined"
  <2>1. outcome' = [outcome EXCEPT ![s] = "quarantined"] /\ UNCHANGED job
    BY <1>4 DEF Reviews!FallbackFails, Reviews!End
  <2>2. Mode = "quarantine" /\ Backed(attached[s]["candidate"])
    BY <1>1, <1>4, FetchingFacts DEF Backed
  <2>3. Kept("quarantined", first[s], job'[s], attached[s]["candidate"], attached[s]["diagnosis"])
    BY <1>1, <2>1, <2>2, FetchingFacts, NoJobFacts DEF Kept
  <2> QED BY <1>1, <1>2, <2>1, <2>3, SourceMoves
<1> QED BY <1>2, <1>3, <1>4

LEMMA FetchFailsStep ==
  ASSUME SourcesSound, NEW s \in Sources, Reviews!FetchFails(s)
  PROVE  SourcesSound'
<1>1. /\ phase = "refresh" /\ outcome[s] = "fetching" /\ first[s] = "none"
      /\ UNCHANGED <<phase, wide, first, attached, job>>
      /\ outcome' = [outcome EXCEPT ![s] = "failed"]
  BY DEF Reviews!FetchFails, Reviews!Unreviewed, Reviews!End
<1>2. Kept("failed", first[s], job'[s], attached[s]["candidate"], attached[s]["diagnosis"])
  BY <1>1, FetchingFacts, NoJobFacts DEF Kept
<1>3. "failed" \in Reviews!Ended
  BY DEF Reviews!Ended
<1> QED BY <1>1, <1>2, <1>3, SourceMoves

\* The review of a candidate decides.
LEMMA DecideStep ==
  ASSUME Reviews!ReviewAssumption, ReviewsSound, SourcesSound, NEW s \in Sources, Reviews!Decide(s)
  PROVE  SourcesSound'
<1> DEFINE a == job[s].answer
<1>1. /\ outcome[s] = "reviewing" /\ job[s].st = "over" /\ UNCHANGED <<phase, wide>>
      /\ attached' = [attached EXCEPT ![s]["candidate"] = a]
  BY DEF Reviews!Decide, Reviews!Unreviewed
<1>2. PICK answers : attached \in [Sources -> [Reviews!Lanes -> answers]]
  BY DEF SourcesSound, SourcesTyped
<1>3. PICK before : job \in [Sources -> Rows(before)]
  BY DEF ReviewsSound, Typed
<1>4. /\ "candidate" \in Reviews!Lanes /\ "diagnosis" \in Reviews!Lanes
      /\ "reviewing" \notin Reviews!Ended
      /\ "quarantined" \in Reviews!Ended /\ "served" \in Reviews!Ended /\ "rejected" \in Reviews!Ended
  BY DEF Reviews!Lanes, Reviews!Ended
<1>5. KeptAt(s) /\ SourcesTyped
  BY DEF SourcesSound
<1>6. phase = "refresh"
  BY <1>1, <1>4 DEF SourcesSound
<1>7. /\ attached'[s]["candidate"] = a
      /\ attached'[s]["diagnosis"] = attached[s]["diagnosis"]
      /\ \A t \in Sources \ {s} : attached'[t] = attached[t]
      /\ attached' \in [Sources -> [Reviews!Lanes -> answers \cup {a}]]
  BY <1>1, <1>2, <1>4
<1>8. /\ Mode = "quarantine" /\ job[s].lane = "candidate" /\ Judged(a)
      /\ attached[s]["diagnosis"] = Reviews!NoAnswer
  BY <1>1, <1>5 DEF KeptAt, Kept
<1>9. CASE Reviews!ShouldQuarantine(a)
  <2>1. Backed(a)
    BY <1>8, <1>9, QuarantineIsBacked
  <2>2. CASE /\ first' = [first EXCEPT ![s] = "quarantined"]
             /\ outcome' = [outcome EXCEPT ![s] = "fetching"]
             /\ job' = [job EXCEPT ![s] = Reviews!NoJob]
    <3>1. SourcesTyped'
      BY <1>1, <1>5, <1>7, <2>2, TypedStep
    <3>2. /\ first'[s] = "quarantined" /\ outcome'[s] = "fetching" /\ job'[s] = Reviews!NoJob
          /\ \A t \in Sources \ {s} : first'[t] = first[t] /\ outcome'[t] = outcome[t] /\ job'[t] = job[t]
      BY <1>3, <1>5, <2>2 DEF SourcesTyped
    <3>3. "fetching" \notin Reviews!Ended
      BY DEF Reviews!Ended
    <3>4. KeptAt(s)'
      BY <1>7, <1>8, <2>1, <3>2, <3>3, NoJobFacts DEF KeptAt, Kept
    <3>5. Elsewhere(s)
      BY <1>7, <3>2 DEF Elsewhere
    <3> QED BY <1>1, <1>6, <3>1, <3>4, <3>5, OneSource
  <2>3. CASE outcome' = [outcome EXCEPT ![s] = "quarantined"] /\ UNCHANGED <<first, job>>
    <3>1. SourcesTyped'
      BY <1>1, <1>4, <1>5, <1>7, <2>3, TypedStep
    <3>2. outcome'[s] = "quarantined" /\ \A t \in Sources \ {s} : outcome'[t] = outcome[t]
      BY <1>5, <2>3 DEF SourcesTyped
    <3>3. KeptAt(s)'
      BY <1>1, <1>7, <1>8, <2>1, <2>3, <3>2 DEF KeptAt, Kept
    <3>4. Elsewhere(s)
      BY <1>7, <2>3, <3>2 DEF Elsewhere
    <3> QED BY <1>1, <1>6, <3>1, <3>3, <3>4, OneSource
  <2> QED BY <1>9, <2>2, <2>3 DEF Reviews!Decide, Reviews!End
<1>10. CASE ~Reviews!ShouldQuarantine(a)
  <2>1. UNCHANGED first
    BY <1>10 DEF Reviews!Decide
  <2>2. CASE outcome' = [outcome EXCEPT ![s] = "served"] /\ UNCHANGED job
    <3>1. SourcesTyped'
      BY <1>1, <1>4, <1>5, <1>7, <2>1, <2>2, TypedStep
    <3>2. outcome'[s] = "served" /\ \A t \in Sources \ {s} : outcome'[t] = outcome[t]
      BY <1>5, <2>2 DEF SourcesTyped
    <3>3. KeptAt(s)'
      BY <1>1, <1>7, <1>8, <1>10, <2>1, <2>2, <3>2 DEF KeptAt, Kept
    <3>4. Elsewhere(s)
      BY <1>7, <2>1, <2>2, <3>2 DEF Elsewhere
    <3> QED BY <1>1, <1>6, <3>1, <3>3, <3>4, OneSource
  <2>3. CASE Reviews!Reject(s)
    <3>1. outcome' = [outcome EXCEPT ![s] = "rejected"] /\ job' = Reviews!Enqueued("diagnosis", s)
      BY <2>3 DEF Reviews!Reject, Reviews!End
    <3>2. /\ \A t \in Sources \ {s} : job'[t] = job[t]
          /\ job'[s] = Reviews!NoJob \/ job'[s].lane = "diagnosis"
      BY <3>1, EnqueuedFacts
    <3>3. SourcesTyped'
      BY <1>1, <1>4, <1>5, <1>7, <2>1, <3>1, TypedStep
    <3>4. outcome'[s] = "rejected" /\ \A t \in Sources \ {s} : outcome'[t] = outcome[t]
      BY <1>5, <3>1 DEF SourcesTyped
    <3>5. KeptAt(s)'
      BY <1>7, <1>8, <1>10, <3>2, <3>4, NoJobFacts DEF KeptAt, Kept
    <3>6. Elsewhere(s)
      BY <1>7, <2>1, <3>2, <3>4 DEF Elsewhere
    <3> QED BY <1>1, <1>6, <3>3, <3>5, <3>6, OneSource
  <2> QED BY <1>10, <2>2, <2>3 DEF Reviews!Decide, Reviews!End
<1> QED BY <1>9, <1>10

\* A review that goes on keeps its answer and its lane; one that ends tells what it saw.
LEMMA ReviewStep ==
  ASSUME ReviewsSound, SourcesSound, NEW s \in Sources,
         \/ Reviews!NotSent(s) \/ Reviews!Attempt(s) \/ Reviews!Ask(s) \/ Reviews!Expire(s)
         \/ Reviews!Resume(s) \/ Reviews!Diagnose(s) \/ (\E v \in Verdicts : Reviews!Answer(s, v))
         \/ \E transient \in BOOLEAN : Reviews!AnswerFails(s, transient)
  PROVE  SourcesSound'
<1>1. UNCHANGED <<phase, wide, outcome, first, attached>> /\ job[s].st \notin {"none", "over"}
  BY DEF Reviews!NotSent, Reviews!Attempt, Reviews!Ask, Reviews!Expire, Reviews!Resume,
         Reviews!Diagnose, Reviews!Answer, Reviews!Answered, Reviews!AnswerFails,
         Reviews!MayBegin, Reviews!ReviewVars
<1>2. PICK before : job \in [Sources -> Rows(before)]
  BY DEF ReviewsSound, Typed
<1>3. KeptAt(s)
  BY DEF SourcesSound
<1>4. ASSUME NEW answer, Reviews!Over(s, answer), job[s].lane = "candidate" => Judged(answer)
      PROVE  SourcesSound'
  <2>1. /\ \A t \in Sources \ {s} : job'[t] = job[t]
        /\ job'[s].lane = job[s].lane /\ job'[s].answer = answer
    BY <1>4, OverFacts DEF ReviewsSound, OnlyRow
  <2> QED BY <1>1, <1>4, <2>1, OneReview
<1>5. ASSUME NEW row, Reviews!Set(s, row), row.lane = job[s].lane, row.answer = job[s].answer
      PROVE  SourcesSound'
  <2>1. job'[s] = row /\ \A t \in Sources \ {s} : job'[t] = job[t]
    BY <1>2, <1>5 DEF Reviews!Set
  <2>2. job[s].lane = "candidate" => Judged(job'[s].answer)
    BY <1>3, <1>5, <2>1 DEF KeptAt, Kept
  <2> QED BY <1>1, <1>5, <2>1, <2>2, OneReview
<1>6. Judged(Reviews!Telling("error")) /\ Judged(Reviews!Telling("skipped"))
  BY DEF Judged, Reviews!Telling
<1>7. ASSUME NEW st
      PROVE  /\ [job[s] EXCEPT !.st = st].lane = job[s].lane
             /\ [job[s] EXCEPT !.st = st].answer = job[s].answer
  BY <1>2 DEF Rows
<1>8. CASE Reviews!NotSent(s)
  BY <1>4, <1>6, <1>8 DEF Reviews!NotSent
<1>9. CASE Reviews!Attempt(s)
  <2>1. \/ Reviews!Over(s, Reviews!Telling("error")) \/ Reviews!Over(s, Reviews!Telling("skipped"))
        \/ Reviews!Set(s, [job[s] EXCEPT !.st = "waiting"])
    BY <1>9 DEF Reviews!Attempt
  <2> QED BY <1>4, <1>5, <1>6, <1>7, <2>1
<1>10. CASE Reviews!Ask(s)
  <2>1. \/ Reviews!Over(s, Reviews!Telling("skipped"))
        \/ Reviews!Set(s, [job[s] EXCEPT !.st = "asking"])
    BY <1>10 DEF Reviews!Ask
  <2> QED BY <1>4, <1>5, <1>6, <1>7, <2>1
<1>11. CASE Reviews!Resume(s)
  BY <1>5, <1>7, <1>11 DEF Reviews!Resume
<1>12. CASE Reviews!Expire(s)
  <2>1. \/ Reviews!Over(s, Reviews!Telling("error")) \/ Reviews!Over(s, Reviews!Telling("skipped"))
        \/ Reviews!Set(s, [job[s] EXCEPT !.late = TRUE])
    BY <1>12 DEF Reviews!Expire
  <2>2. /\ [job[s] EXCEPT !.late = TRUE].lane = job[s].lane
        /\ [job[s] EXCEPT !.late = TRUE].answer = job[s].answer
    BY <1>2 DEF Rows
  <2> QED BY <1>4, <1>5, <1>6, <2>1, <2>2
<1>13. ASSUME NEW transient \in BOOLEAN, Reviews!AnswerFails(s, transient)
       PROVE  SourcesSound'
  <2> DEFINE row == [job[s] EXCEPT !.st = "pausing", !.attempt = @ + 1]
  <2>1. Reviews!Over(s, Reviews!Telling("error")) \/ Reviews!Set(s, row)
    BY <1>13 DEF Reviews!AnswerFails
  <2>2. row.lane = job[s].lane /\ row.answer = job[s].answer
    BY <1>2 DEF Rows
  <2> HIDE DEF row
  <2> QED BY <1>4, <1>5, <1>6, <2>1, <2>2
<1>14. CASE Reviews!Diagnose(s)
  <2>1. job[s].lane # "candidate" /\ Reviews!Over(s, Reviews!Telling("ok"))
    BY <1>14 DEF Reviews!Diagnose, Reviews!Answered
  <2> QED BY <1>4, <2>1
<1>15. ASSUME NEW v \in Verdicts, Reviews!Answer(s, v)
       PROVE  SourcesSound'
  <2> DEFINE answer == [state |-> "ok", verdict |-> Reviews!Normalized(v), raw |-> v]
  <2>1. Reviews!Over(s, answer)
    BY <1>15 DEF Reviews!Answer, Reviews!Answered
  <2>2. Judged(answer)
    BY DEF Judged
  <2> QED BY <1>4, <2>1, <2>2
<1> QED BY <1>8, <1>9, <1>10, <1>11, <1>12, <1>13, <1>14, <1>15

\* The first source of some there are.
LEMMA FirstSource ==
  ASSUME Reviews!ReviewAssumption, Sources # {}
  PROVE  LET speaker == CHOOSE s \in Sources : \A t \in Sources : s <= t IN speaker \in Sources
<1>1. Sources \in SUBSET Nat
  BY DEF Reviews!ReviewAssumption
<1> DEFINE Less == {p \in Nat \X Nat : p[1] < p[2]}
<1>2. IsWellFoundedOn(Less, Nat)
  BY NatLessThanWellFounded DEF OpToRel
<1>3. PICK x \in Sources : \A y \in Sources : <<y, x>> \notin Less
  <2> HIDE DEF Less
  <2> QED BY <1>1, <1>2, WFMin, Zenon
<1>4. ASSUME NEW y \in Sources
      PROVE  x <= y
  <2>1. <<y, x>> \notin Less /\ <<y, x>> \in Nat \X Nat
    BY <1>1, <1>3
  <2>2. ~(y < x)
    BY <2>1, Zenon
  <2> QED BY <1>1, <2>2
<1> QED BY <1>4

LEMMA RefreshFailsKeeps ==
  ASSUME Reviews!ReviewAssumption, ReviewsSound, SourcesSound, Reviews!RefreshFails
  PROVE  SourcesSound'
<1> DEFINE speaker == CHOOSE s \in Sources : \A t \in Sources : s <= t
           row == [Reviews!QueuedJob("diagnosis") EXCEPT !.st = "ready"]
<1>1. /\ phase = "refresh" /\ \A s \in Sources : outcome[s] = "fetching" /\ first[s] = "none"
      /\ outcome' = [s \in Sources |-> "failed"] /\ phase' = "flush" /\ wide' = TRUE
      /\ job' = [job EXCEPT ![speaker] = row] /\ UNCHANGED <<first, attached>>
  BY DEF Reviews!RefreshFails
<1>2. PICK before : job \in [Sources -> Rows(before)]
  BY DEF ReviewsSound, Typed
<1>3. row.lane = "diagnosis"
  BY QueuedFacts
<1> HIDE DEF row
<1>4. "failed" \in Reviews!Ended
  BY DEF Reviews!Ended
<1>5. SourcesTyped'
  <2>1. outcome' \in [Sources -> Reviews!Ended \cup {"fetching", "reviewing"}]
    BY <1>1, <1>4
  <2>2. SourcesTyped
    BY DEF SourcesSound
  <2> QED BY <1>1, <2>1, <2>2 DEF SourcesTyped
<1>6. ASSUME NEW s \in Sources
      PROVE  KeptAt(s)'
  <2>1. job'[s] = job[s] \/ job'[s] = row
    BY <1>1, <1>2
  <2>2. outcome'[s] = "failed" /\ attached'[s] = attached[s]
    BY <1>1
  <2>3. /\ job[s] = Reviews!NoJob /\ attached[s]["diagnosis"] = Reviews!NoAnswer
        /\ attached[s]["candidate"] = Reviews!NoAnswer
    BY <1>1, FetchingFacts
  <2> QED BY <1>3, <2>1, <2>2, <2>3, NoJobFacts DEF KeptAt, Kept
<1>7. \A s \in Sources : \E t \in Sources : job'[t].lane # "none"
  <2> SUFFICES ASSUME Sources # {} PROVE \E t \in Sources : job'[t].lane # "none"
    OBVIOUS
  <2>1. speaker \in Sources
    BY FirstSource
  <2> HIDE DEF speaker
  <2>2. job'[speaker] = row
    BY <1>1, <1>2, <2>1
  <2> QED BY <1>3, <2>1, <2>2
<1> QED BY <1>1, <1>4, <1>5, <1>6, <1>7 DEF SourcesSound

LEMMA FlushKeeps ==
  ASSUME Reviews!ReviewAssumption, ReviewsSound, SourcesSound, Reviews!Flush
  PROVE  SourcesSound'
<1> DEFINE ready == [Reviews!QueuedJob("diagnosis") EXCEPT !.st = "ready"]
<1>1. /\ phase = "refresh" /\ \A s \in Sources : outcome[s] \in Reviews!Ended
      /\ phase' = "flush" /\ UNCHANGED <<outcome, first, attached, wide>>
  BY DEF Reviews!Flush, Reviews!Unreviewed
<1>2. PICK chosen \in SUBSET {s \in Sources : Reviews!Diagnosable(s)} :
        job' = [s \in Sources |->
                  IF s \in chosen THEN ready
                  ELSE IF job[s].st = "queued" THEN [job[s] EXCEPT !.st = "ready"] ELSE job[s]]
  <2> DEFINE room == MaxReviews["diagnosis"] - Reviews!Cardinality(Reviews!Jobs("diagnosis"))
             earlier(s) == {t \in Sources : t < s /\ Reviews!Diagnosable(t)}
             picked == {s \in Sources : Reviews!Diagnosable(s) /\ Reviews!Cardinality(earlier(s)) < room}
  <2>1. job' = [s \in Sources |->
                  IF s \in picked THEN ready
                  ELSE IF job[s].st = "queued" THEN [job[s] EXCEPT !.st = "ready"] ELSE job[s]]
    BY Zenon DEF Reviews!Flush
  <2>2. picked \in SUBSET {s \in Sources : Reviews!Diagnosable(s)}
    OBVIOUS
  <2> HIDE DEF picked
  <2> QED BY <2>1, <2>2, Zenon
<1>3. PICK before : job \in [Sources -> Rows(before)]
  BY DEF ReviewsSound, Typed
<1>4. ready.lane = "diagnosis"
  BY QueuedFacts
<1> HIDE DEF ready
<1>5. SourcesTyped'
  BY <1>1 DEF SourcesSound, SourcesTyped
<1>6. ASSUME NEW s \in Sources
      PROVE  KeptAt(s)'
  <2>1. KeptAt(s)
    BY DEF SourcesSound
  <2>2. CASE s \in chosen
    <3>1. job'[s] = ready /\ outcome[s] \in {"failed", "rejected"}
      BY <1>2, <2>2 DEF Reviews!Diagnosable
    <3> QED BY <1>1, <1>4, <2>1, <3>1 DEF KeptAt, Kept
  <2>3. CASE s \notin chosen /\ job[s].st = "queued"
    <3>1. job'[s] = [job[s] EXCEPT !.st = "ready"]
      BY <1>2, <2>3
    <3>2. job'[s].lane = job[s].lane /\ job'[s].answer = job[s].answer
      BY <1>3, <3>1 DEF Rows
    <3>3. job[s] # Reviews!NoJob /\ "reviewing" \notin Reviews!Ended
      BY <2>3, NoJobFacts DEF Reviews!Ended
    <3>4. /\ outcome[s] \notin {"fetching", "reviewing", "quarantined"}
          /\ job[s].lane = "candidate" => Mode # "quarantine"
      BY <1>1, <2>1, <2>3, <3>3 DEF KeptAt, Kept
    <3> QED BY <1>1, <2>1, <3>2, <3>4 DEF KeptAt, Kept
  <2>4. CASE s \notin chosen /\ job[s].st # "queued"
    <3>1. job'[s] = job[s]
      BY <1>2, <2>4
    <3> QED BY <1>1, <2>1, <3>1 DEF KeptAt
  <2> QED BY <2>2, <2>3, <2>4
<1>7. ~wide
  BY <1>1 DEF SourcesSound
<1> QED BY <1>1, <1>5, <1>6, <1>7 DEF SourcesSound

LEMMA AttachKeeps ==
  ASSUME Reviews!ReviewAssumption, ReviewsSound, SourcesSound, Reviews!Attach
  PROVE  SourcesSound'
<1> DEFINE owner(s) == IF wide THEN CHOOSE t \in Sources : job[t].lane # "none" ELSE s
<1>1. /\ phase = "flush" /\ phase' = "done" /\ UNCHANGED <<outcome, first, wide>>
      /\ attached' =
           [s \in Sources |->
              IF job[owner(s)].st = "over"
              THEN [attached[s] EXCEPT ![job[owner(s)].lane] = job[owner(s)].answer] ELSE attached[s]]
      /\ job' = [s \in Sources |-> IF job[s].st = "over" THEN job[s] ELSE Reviews!NoJob]
  BY Zenon DEF Reviews!Attach, Reviews!Unreviewed
<1>2. PICK before : job \in [Sources -> Rows(before)]
  BY DEF ReviewsSound, Typed
<1>3. PICK answers : attached \in [Sources -> [Reviews!Lanes -> answers]]
  BY DEF SourcesSound, SourcesTyped
<1>4. \A s \in Sources : outcome[s] \in Reviews!Ended
  BY <1>1 DEF SourcesSound
<1>5. /\ Reviews!Lanes = {"candidate", "diagnosis"}
      /\ "reviewing" \notin Reviews!Ended /\ "fetching" \notin Reviews!Ended
  BY DEF Reviews!Lanes, Reviews!Ended
<1>6. ASSUME NEW s \in Sources
      PROVE  /\ owner(s) \in Sources
             /\ wide => job[owner(s)].lane = "diagnosis"
             /\ ~wide => owner(s) = s
  <2>1. CASE ~wide
    BY <2>1
  <2>2. CASE wide
    <3>1. \E t \in Sources : job[t].lane # "none"
      BY <1>1, <2>2 DEF SourcesSound
    <3>2. owner(s) \in Sources /\ job[owner(s)].lane # "none"
      BY <2>2, <3>1
    <3> HIDE DEF owner
    <3>3. outcome[owner(s)] = "failed" /\ KeptAt(owner(s))
      BY <2>2, <3>2 DEF SourcesSound
    <3>4. job[owner(s)].lane # "candidate"
      BY <3>3 DEF KeptAt, Kept
    <3>5. job[owner(s)].lane \in Reviews!Lanes \cup {"none"}
      BY <3>2, RowType DEF ReviewsSound
    <3> QED BY <1>5, <2>2, <3>2, <3>4, <3>5
  <2> QED BY <2>1, <2>2
<1> HIDE DEF owner
<1>7. ASSUME NEW s \in Sources
      PROVE  /\ attached'[s] \in [Reviews!Lanes -> answers \cup {job[t].answer : t \in Sources}]
             /\ \A l \in Reviews!Lanes :
                  attached'[s][l] = IF job[owner(s)].st = "over" /\ job[owner(s)].lane = l
                                    THEN job[owner(s)].answer ELSE attached[s][l]
  <2>1. attached'[s] = IF job[owner(s)].st = "over"
                       THEN [attached[s] EXCEPT ![job[owner(s)].lane] = job[owner(s)].answer]
                       ELSE attached[s]
    BY <1>1
  <2>2. attached[s] \in [Reviews!Lanes -> answers]
    BY <1>3
  <2>3. job[owner(s)].answer \in {job[t].answer : t \in Sources}
    BY <1>6
  <2> QED BY <2>1, <2>2, <2>3
<1>8. SourcesTyped'
  <2> DEFINE all == answers \cup {job[t].answer : t \in Sources}
  <2>1. attached' = [s \in Sources |-> attached'[s]]
    BY <1>1
  <2>2. attached' \in [Sources -> [Reviews!Lanes -> all]]
    BY <1>7, <2>1
  <2>3. SourcesTyped
    BY DEF SourcesSound
  <2> HIDE DEF all
  <2> QED BY <1>1, <2>2, <2>3 DEF SourcesTyped
<1>9. ASSUME NEW s \in Sources
      PROVE  KeptAt(s)'
  <2> DEFINE j == job[owner(s)]
  <2>1. KeptAt(s) /\ KeptAt(owner(s)) /\ outcome[s] \in Reviews!Ended
    BY <1>4, <1>6 DEF SourcesSound
  <2>2. /\ attached'[s]["candidate"]
              = IF j.st = "over" /\ j.lane = "candidate" THEN j.answer ELSE attached[s]["candidate"]
        /\ attached'[s]["diagnosis"]
              = IF j.st = "over" /\ j.lane = "diagnosis" THEN j.answer ELSE attached[s]["diagnosis"]
    BY <1>5, <1>7
  <2>3. job'[s] = IF job[s].st = "over" THEN job[s] ELSE Reviews!NoJob
    BY <1>1
  <2>4. CASE wide
    <3>1. outcome[s] = "failed" /\ j.lane = "diagnosis"
      BY <1>6, <2>4 DEF SourcesSound
    <3> HIDE DEF j
    <3>2. attached'[s]["candidate"] = attached[s]["candidate"]
      BY <2>2, <3>1
    <3> QED BY <1>1, <2>1, <2>3, <3>1, <3>2, NoJobFacts DEF KeptAt, Kept
  <2>5. CASE ~wide
    <3>1. j = job[s]
      BY <1>6, <2>5
    <3> HIDE DEF j
    <3>2. CASE ~(j.st = "over" /\ j.lane \in Reviews!Lanes)
      <4>1. attached'[s]["candidate"] = attached[s]["candidate"]
            /\ attached'[s]["diagnosis"] = attached[s]["diagnosis"]
        BY <1>5, <2>2, <3>2
      <4> QED BY <1>1, <1>5, <2>1, <2>3, <3>1, <3>2, <4>1, NoJobFacts DEF KeptAt, Kept
    <3>3. CASE j.st = "over" /\ j.lane = "diagnosis"
      <4>1. attached'[s]["candidate"] = attached[s]["candidate"]
        BY <2>2, <3>3
      <4> QED BY <1>1, <1>5, <2>1, <2>3, <3>1, <3>3, <4>1, NoJobFacts DEF KeptAt, Kept
    <3>4. CASE j.st = "over" /\ j.lane = "candidate"
      <4>1. /\ attached'[s]["candidate"] = j.answer /\ job'[s] = job[s]
            /\ attached'[s]["diagnosis"] = attached[s]["diagnosis"]
        BY <2>2, <2>3, <3>1, <3>4
      <4>2. Mode = "quarantine" => attached'[s]["candidate"] = attached[s]["candidate"]
        BY <1>5, <2>1, <3>1, <3>4, <4>1 DEF KeptAt, Kept
      <4>3. CASE Mode = "quarantine"
        BY <1>1, <2>1, <4>1, <4>2, <4>3 DEF KeptAt
      <4>4. CASE Mode # "quarantine"
        <5>1. outcome[s] = "served" /\ Judged(j.answer)
          BY <1>5, <2>1, <3>1, <3>4, <4>4 DEF KeptAt, Kept, Backed
        <5>2. ~Reviews!ShouldQuarantine(j.answer)
          BY <4>4 DEF Reviews!ShouldQuarantine
        <5> QED BY <1>1, <2>1, <3>1, <3>4, <4>1, <4>4, <5>1, <5>2 DEF KeptAt, Kept
      <4> QED BY <4>3, <4>4
    <3> QED BY <1>5, <3>2, <3>3, <3>4
  <2> QED BY <2>4, <2>5
<1> QED BY <1>1, <1>4, <1>8, <1>9 DEF SourcesSound

LEMMA SourcesSoundInit ==
  ASSUME Reviews!Init
  PROVE  SourcesSound
<1>1. /\ phase = "refresh" /\ outcome = [s \in Sources |-> "fetching"] /\ wide = FALSE
      /\ first = [s \in Sources |-> "none"] /\ job = [s \in Sources |-> Reviews!NoJob]
      /\ attached = [s \in Sources |-> [l \in Reviews!Lanes |-> Reviews!NoAnswer]]
  BY Zenon DEF Reviews!Init
<1>2. attached \in [Sources -> [Reviews!Lanes -> {Reviews!NoAnswer}]]
  BY <1>1
<1>3. wide \in BOOLEAN
  BY <1>1, Zenon
<1>4. SourcesTyped
  BY <1>1, <1>2, <1>3 DEF SourcesTyped
<1>5. "candidate" \in Reviews!Lanes /\ "diagnosis" \in Reviews!Lanes
  BY DEF Reviews!Lanes
<1>6. "fetching" \notin Reviews!Ended
  BY DEF Reviews!Ended
<1>7. ASSUME NEW s \in Sources
      PROVE  KeptAt(s)
  BY <1>1, <1>5, <1>6, NoJobFacts DEF KeptAt, Kept
<1> QED BY <1>1, <1>4, <1>7 DEF SourcesSound

LEMMA SourcesSoundNext ==
  ASSUME Reviews!ReviewAssumption, ReviewsSound, SourcesSound, [Reviews!Next]_(Reviews!vars)
  PROVE  SourcesSound'
<1>1. CASE UNCHANGED Reviews!vars
  BY <1>1 DEF Reviews!vars, SourcesSound, SourcesTyped, KeptAt
<1> QED BY <1>1, RefreshFailsKeeps, FlushKeeps, AttachKeeps, CandidateRejectedStep,
           CandidatePassesStep, FallbackFailsStep, FetchFailsStep, DecideStep, ReviewStep,
           Zenon DEF Reviews!Next

\* Nothing is rejected on a verdict that does not hold together, whatever fallback is asked in
\* between, and every review in a status is that of its own outcome: for any sources, verdicts
\* and budgets, in either mode.
THEOREM ReviewsStayTrue ==
  ASSUME Reviews!ReviewAssumption
  PROVE  Reviews!Spec => [](Reviews!TypeOK /\ Reviews!RejectionIsBacked /\ Reviews!ReviewsBelong)
<1>1. Reviews!Init => SourcesSound
  BY SourcesSoundInit
<1>2. ReviewsSound /\ SourcesSound /\ [Reviews!Next]_(Reviews!vars) => SourcesSound'
  BY SourcesSoundNext
<1>3. ReviewsSound /\ SourcesSound => Reviews!TypeOK
  <2> SUFFICES ASSUME ReviewsSound, SourcesSound PROVE Reviews!TypeOK
    OBVIOUS
  <2>1. \A s \in Sources :
          /\ job[s].lane \in Reviews!Lanes \cup {"none"} /\ job[s].st \in States
          /\ job[s].attempt \in 0 .. Attempts /\ job[s].late \in BOOLEAN
    BY RowType DEF ReviewsSound
  <2> QED BY <2>1 DEF ReviewsSound, Typed, SourcesSound, SourcesTyped, States, Reviews!TypeOK
<1>4. SourcesSound => Reviews!RejectionIsBacked
  BY DEF SourcesSound, KeptAt, Kept, Backed, Reviews!RejectionIsBacked
<1>5. SourcesSound => Reviews!ReviewsBelong
  <2> SUFFICES ASSUME SourcesSound, NEW s \in Sources
               PROVE  /\ attached[s]["diagnosis"] # Reviews!NoAnswer => outcome[s] \in {"failed", "rejected"}
                      /\ LET a == attached[s]["candidate"] IN
                         /\ a.state = "ok" /\ a.verdict.verdict = "pass" =>
                              a.raw.passed = Reviews!Checks /\ a.raw.reasons = {"none"}
                         /\ outcome[s] \in Reviews!Ended /\ Reviews!ShouldQuarantine(a)
                              => outcome[s] = "quarantined"
                         /\ Mode = "observe" /\ a # Reviews!NoAnswer => outcome[s] = "served"
    BY DEF Reviews!ReviewsBelong
  <2>1. KeptAt(s)
    BY DEF SourcesSound
  <2> QED BY <2>1, PassIsWhole DEF KeptAt, Kept
<1>6. Reviews!Spec => []ReviewsSound
  BY LanesStayBounded, PTL
<1> QED BY <1>1, <1>2, <1>3, <1>4, <1>5, <1>6, PTL DEF Reviews!Spec

-----------------------------------------------------------------------------
\* When the flush begins, either every failed source has a diagnosis queued or the lane is full:
\* the first one left out would have had all those before it in the queue.
LEMMA FlushFills ==
  ASSUME Reviews!ReviewAssumption, ReviewsSound, Reviews!Flush, NEW s \in Sources,
         Reviews!Diagnosable(s)'
  PROVE  Cardinality(Reviews!Jobs("diagnosis")') >= MaxReviews["diagnosis"]
<1> DEFINE before == Reviews!Jobs("diagnosis")
           room == MaxReviews["diagnosis"] - Reviews!Cardinality(before)
           earlier(t) == {u \in Sources : u < t /\ Reviews!Diagnosable(u)}
           chosen == {t \in Sources : Reviews!Diagnosable(t) /\ Reviews!Cardinality(earlier(t)) < room}
           ready == [Reviews!QueuedJob("diagnosis") EXCEPT !.st = "ready"]
<1>1. /\ UNCHANGED outcome
      /\ job' = [t \in Sources |->
                   IF t \in chosen THEN ready
                   ELSE IF job[t].st = "queued" THEN [job[t] EXCEPT !.st = "ready"] ELSE job[t]]
  BY Zenon DEF Reviews!Flush
<1>2. PICK answers : job \in [Sources -> Rows(answers)]
  BY DEF ReviewsSound, Typed
<1>3. ready.lane = "diagnosis"
  BY QueuedFacts
<1>4. \A t \in Sources : job'[t].lane = IF t \in chosen THEN "diagnosis" ELSE job[t].lane
  <2> HIDE DEF chosen, ready
  <2> SUFFICES ASSUME NEW t \in Sources
               PROVE  job'[t].lane = IF t \in chosen THEN "diagnosis" ELSE job[t].lane
    OBVIOUS
  <2>1. job[t] \in Rows(answers)
    BY <1>2
  <2>2. [job[t] EXCEPT !.st = "ready"].lane = job[t].lane
    BY <2>1 DEF Rows
  <2> QED BY <1>1, <1>3, <2>2
<1>5. Reviews!Jobs("diagnosis")' = before \cup chosen
  <2> HIDE DEF chosen
  <2>1. chosen \subseteq Sources
    BY DEF chosen
  <2> QED BY <1>4, <2>1 DEF Reviews!Jobs
<1>6. before \cap chosen = {}
  BY DEF Reviews!Jobs, Reviews!Diagnosable
<1>7. s \notin chosen /\ Reviews!Diagnosable(s)
  <2>1. outcome[s] \in {"failed", "rejected"} /\ job'[s].lane # "diagnosis"
    BY <1>1 DEF Reviews!Diagnosable
  <2> HIDE DEF chosen
  <2> QED BY <1>4, <2>1 DEF Reviews!Diagnosable
<1> DEFINE left == {t \in Sources : Reviews!Diagnosable(t) /\ t \notin chosen}
<1>8. PICK u \in left : \A t \in left : u <= t
  <2>1. left # {} /\ left \in SUBSET Nat
    BY <1>7 DEF Reviews!ReviewAssumption
  <2> HIDE DEF left
  <2> QED BY <2>1, LeastNumber
<1>9. earlier(u) \subseteq chosen
  <2> SUFFICES ASSUME NEW t \in earlier(u) PROVE t \in chosen
    OBVIOUS
  <2>1. t \in Sources /\ t < u /\ Reviews!Diagnosable(t) /\ t \in Nat /\ u \in Nat
    BY <1>8 DEF Reviews!ReviewAssumption
  <2> HIDE DEF chosen, earlier
  <2>2. t \notin left
    BY <1>8, <2>1
  <2> QED BY <2>1, <2>2
<1>10. Cardinality(earlier(u)) >= room
  <2>1. u \in Sources /\ Reviews!Diagnosable(u) /\ ~(Reviews!Cardinality(earlier(u)) < room)
    BY <1>8
  <2>2. Cardinality(earlier(u)) \in Nat
    BY CountSources
  <2>3. room \in Int
    <3>1. Cardinality(before) \in Nat
      BY CountSources DEF Reviews!Jobs
    <3>2. MaxReviews["diagnosis"] \in Nat
      BY DEF Reviews!ReviewAssumption, Reviews!Lanes
    <3> QED BY <3>1, <3>2, SameReviewSets
  <2> HIDE DEF room, earlier
  <2> QED BY <2>1, <2>2, <2>3, SameReviewSets
<1>11. Cardinality(before \cup chosen) = Cardinality(before) + Cardinality(chosen)
  <2>1. before \in SUBSET Sources /\ chosen \in SUBSET Sources
    BY DEF Reviews!Jobs
  <2>2. IsFiniteSet(before) /\ IsFiniteSet(chosen) /\ Cardinality(before) \in Nat /\ Cardinality(chosen) \in Nat
    BY <2>1, CountSources
  <2> HIDE DEF before, chosen
  <2>3. Cardinality(before \cup chosen) = Cardinality(before) + Cardinality(chosen) - Cardinality(before \cap chosen)
    BY <2>2, FS_Union
  <2>4. Cardinality(before \cap chosen) = 0
    <3>1. before \cap chosen = {}
      BY <1>6 DEF before, chosen
    <3> QED BY <3>1, FS_EmptySet
  <2> QED BY <2>2, <2>3, <2>4
<1>12. /\ Cardinality(earlier(u)) <= Cardinality(chosen)
       /\ Cardinality(before) \in Nat /\ Cardinality(chosen) \in Nat
  <2>1. before \in SUBSET Sources /\ chosen \in SUBSET Sources /\ earlier(u) \in SUBSET Sources
    BY DEF Reviews!Jobs
  <2> HIDE DEF before, chosen, earlier
  <2> QED BY <1>9, <2>1, CountSources
<1>13. room = MaxReviews["diagnosis"] - Cardinality(before) /\ MaxReviews["diagnosis"] \in Nat
  BY SameReviewSets DEF Reviews!ReviewAssumption, Reviews!Lanes
<1> HIDE DEF before, chosen, earlier, room
<1>14. Cardinality(earlier(u)) \in Nat
  BY CountSources DEF earlier
<1>15. Cardinality(Reviews!Jobs("diagnosis")') = Cardinality(before) + Cardinality(chosen)
  BY <1>5, <1>11
<1>16. Cardinality(before) + Cardinality(chosen) >= MaxReviews["diagnosis"]
  BY <1>10, <1>12, <1>13, <1>14
<1> QED BY <1>15, <1>16

\* No step of a review gives or takes a diagnosis.
LEMMA LanesStay ==
  ASSUME ReviewsSound, NEW s \in Sources,
         \/ Reviews!NotSent(s) \/ Reviews!Attempt(s) \/ Reviews!Ask(s) \/ Reviews!Expire(s)
         \/ Reviews!Resume(s) \/ Reviews!Diagnose(s) \/ (\E v \in Verdicts : Reviews!Answer(s, v))
         \/ \E transient \in BOOLEAN : Reviews!AnswerFails(s, transient)
  PROVE  UNCHANGED <<phase, wide, outcome>> /\ \A t \in Sources : job'[t].lane = job[t].lane
<1>1. UNCHANGED <<phase, wide, outcome>>
  BY DEF Reviews!NotSent, Reviews!Attempt, Reviews!Ask, Reviews!Expire, Reviews!Resume,
         Reviews!Diagnose, Reviews!Answer, Reviews!Answered, Reviews!AnswerFails, Reviews!ReviewVars
<1>2. PICK before : job \in [Sources -> Rows(before)]
  BY DEF ReviewsSound, Typed
<1>3. ASSUME NEW answer, Reviews!Over(s, answer)
      PROVE  \A t \in Sources : job'[t].lane = job[t].lane
  BY <1>3, OverFacts DEF ReviewsSound, OnlyRow
<1>4. ASSUME NEW row, Reviews!Set(s, row), row.lane = job[s].lane
      PROVE  \A t \in Sources : job'[t].lane = job[t].lane
  BY <1>2, <1>4 DEF Reviews!Set
<1>5. /\ \A st : [job[s] EXCEPT !.st = st].lane = job[s].lane
      /\ [job[s] EXCEPT !.late = TRUE].lane = job[s].lane
      /\ [job[s] EXCEPT !.st = "pausing", !.attempt = @ + 1].lane = job[s].lane
  BY <1>2 DEF Rows
<1>6. \/ \E answer : Reviews!Over(s, answer)
      \/ \E st : Reviews!Set(s, [job[s] EXCEPT !.st = st])
      \/ Reviews!Set(s, [job[s] EXCEPT !.late = TRUE])
      \/ Reviews!Set(s, [job[s] EXCEPT !.st = "pausing", !.attempt = @ + 1])
  BY Zenon DEF Reviews!NotSent, Reviews!Attempt, Reviews!Ask, Reviews!Expire, Reviews!Resume,
         Reviews!Diagnose, Reviews!Answer, Reviews!Answered, Reviews!AnswerFails
<1> QED BY <1>1, <1>3, <1>4, <1>5, <1>6

\* A failure goes without a diagnosis only when the lane's requests are all spoken for, for
\* any number of failures and any budget.
THEOREM NoFailureIsForgotten ==
  ASSUME Reviews!ReviewAssumption
  PROVE  Reviews!Spec => []Reviews!FailuresAreDiagnosed
<1>1. Reviews!Init => Reviews!FailuresAreDiagnosed
  BY DEF Reviews!Init, Reviews!FailuresAreDiagnosed
<1>2. ReviewsSound /\ SourcesSound /\ Reviews!FailuresAreDiagnosed /\ [Reviews!Next]_(Reviews!vars)
        => Reviews!FailuresAreDiagnosed'
  <2> SUFFICES ASSUME ReviewsSound, SourcesSound, Reviews!FailuresAreDiagnosed,
                      [Reviews!Next]_(Reviews!vars), phase' = "flush", ~wide',
                      NEW s \in Sources, Reviews!Diagnosable(s)'
               PROVE  Cardinality(Reviews!Jobs("diagnosis")') >= MaxReviews["diagnosis"]
    BY SameReviewSets DEF Reviews!FailuresAreDiagnosed
  <2>1. CASE Reviews!Flush
    BY <2>1, FlushFills
  <2>2. ASSUME UNCHANGED <<phase, wide, outcome>>, \A t \in Sources : job'[t].lane = job[t].lane
        PROVE  Cardinality(Reviews!Jobs("diagnosis")') >= MaxReviews["diagnosis"]
    <3>1. Reviews!Jobs("diagnosis")' = Reviews!Jobs("diagnosis")
      BY <2>2 DEF Reviews!Jobs
    <3>2. Reviews!Diagnosable(s)
      BY <2>2 DEF Reviews!Diagnosable
    <3> QED BY <2>2, <3>1, <3>2, SameReviewSets DEF Reviews!FailuresAreDiagnosed
  <2>3. CASE Reviews!RefreshFails \/ Reviews!Attach
    BY <2>3 DEF Reviews!RefreshFails, Reviews!Attach
  <2>4. ASSUME NEW t \in Sources,
               \/ Reviews!CandidateRejected(t) \/ Reviews!CandidatePasses(t)
               \/ Reviews!FallbackFails(t) \/ Reviews!FetchFails(t)
        PROVE  FALSE
    BY <2>4 DEF Reviews!CandidateRejected, Reviews!CandidatePasses, Reviews!FallbackFails,
                Reviews!FetchFails
  <2>5. ASSUME NEW t \in Sources, Reviews!Decide(t)
        PROVE  FALSE
    BY <2>5 DEF Reviews!Decide, SourcesSound, Reviews!Ended
  <2>6. CASE UNCHANGED Reviews!vars
    BY <2>2, <2>6 DEF Reviews!vars
  <2> QED BY <2>1, <2>2, <2>3, <2>4, <2>5, <2>6, LanesStay, Zenon DEF Reviews!Next
<1>3. Reviews!Spec => [](ReviewsSound /\ SourcesSound)
  <2>1. Reviews!Init => SourcesSound
    BY SourcesSoundInit
  <2>2. ReviewsSound /\ SourcesSound /\ [Reviews!Next]_(Reviews!vars) => SourcesSound'
    BY SourcesSoundNext
  <2>3. Reviews!Spec => []ReviewsSound
    BY LanesStayBounded, PTL
  <2> QED BY <2>1, <2>2, <2>3, PTL DEF Reviews!Spec
<1> QED BY <1>1, <1>2, <1>3, PTL DEF Reviews!Spec

-----------------------------------------------------------------------------
(* One fetch, for any settings of its source and any cap on its fallbacks.   *)

CONSTANTS Confs, Faults

VARIABLES conf, pc, depth, within, reason, shadow, refused, candidate, routeCalls, saved,
          state, writes, opened, closed

Route == INSTANCE FetchRoute WITH calls <- routeCalls

Candidates == [route : Route!Routes, gate : BOOLEAN, ai : BOOLEAN]

RouteTyped ==
  /\ conf \in Confs /\ depth \in 1 .. 2 /\ within \in BOOLEAN /\ refused \in BOOLEAN
  /\ pc \in {"begin", "route", "cascade", "cascadeSaved", "shadowed", "api", "apiSaved",
             "apiRejected", "apiFailed", "resumed", "page", "answer", "judge", "pageSaved"}
            \cup Route!Ended
  /\ reason \in {"none", "primary", "api", "exception", "challenge", "http", "quality"}
  /\ shadow \in {"none", "free", "paid", "done"}
  /\ candidate \in Candidates
  /\ routeCalls \in [{"primary", "fallback", "page", "unix", "shadow"} -> Nat]
  /\ saved \in Seq(Candidates)
  /\ state \in {"none", "ok", "cached", "partial", "quality_error", "fetch_error", "blocked",
                "http_error"}
  /\ writes \in Nat /\ opened \in Nat /\ closed \in Nat

\* Which sources come where: an API-only one never to a page, one outside the Firecrawl
\* lists and a direct confirmation never to the cascade.
PlacesKept ==
  /\ conf.apiOnly => /\ pc \notin {"page", "answer", "judge", "pageSaved"}
                     /\ routeCalls["page"] = 0 /\ routeCalls["unix"] = 0
  /\ conf.direct \/ conf.standard => pc \notin {"cascade", "cascadeSaved", "shadowed"}
  /\ conf.direct => /\ depth = 1 /\ shadow \in {"none", "done"}
                    /\ \A k \in DOMAIN routeCalls : routeCalls[k] = 0

\* A shadow request runs beside its page or after its cascade only, and a refused page has
\* ended its fetch.
ShadowKept ==
  /\ shadow \in {"free", "paid"} => pc \in {"answer", "shadowed"}
  /\ refused => pc \in {"done", "raised", "resumed"}

\* The cascade is asked as a fallback by a fetch that ends with its answer, unless that cannot
\* be written, and within the limit of its source.
FallbackKept ==
  /\ pc \in {"cascade", "cascadeSaved"} => reason # "none"
  /\ routeCalls["fallback"] <= MaxPerSource
  /\ ~Faults =>
       /\ routeCalls["fallback"] <= 1
       /\ routeCalls["fallback"] = 1 =>
            pc \in Route!Ended \/ (pc \in {"cascade", "cascadeSaved"} /\ reason # "primary")

\* The rounds of a fetch, the next one counted from the decision to start over: one until the
\* first has been left, two until another new login is made after the second one raised.
Rounds == opened + (IF pc = "begin" THEN 1 ELSE 0)
InFirst ==
  depth = 1 /\ (pc \in {"begin", "route", "api", "apiRejected", "apiSaved"} \/ reason = "primary")
RoundsKept ==
  /\ (pc = "resumed" => within) /\ (within => depth = 2)
  /\ Rounds <= 3
  /\ within \/ depth = 1 => Rounds <= 2
  /\ InFirst => Rounds <= 1
  /\ routeCalls["primary"] <= opened
  /\ pc = "route" => routeCalls["primary"] < opened

\* The candidate saved last is the one at hand.
JustSaved == saved # <<>> /\ saved[Len(saved)] = candidate

\* A status is written at the end only, and only that of a fetch that has just saved is "ok".
WritesKept ==
  /\ pc \notin {"shadowed", "done", "cancelled"} => writes = 0
  /\ pc \in {"shadowed", "done"} => writes = 1 \/ (pc = "done" /\ Faults /\ conf.standard /\ writes = 0)
  /\ pc \in {"cascadeSaved", "apiSaved", "pageSaved"} => JustSaved
  /\ pc \in {"shadowed", "done"} /\ state = "ok" => conf.standard \/ JustSaved

\* Nothing goes on after a save: statuses can be written, or the cards are standard.
Quiet == conf.standard \/ ~Faults
ReportKept ==
  Quiet =>
    /\ pc \in {"begin", "route", "cascade", "api", "apiRejected", "apiFailed", "resumed", "page",
               "answer", "judge", "raised"} => saved = <<>>
    /\ saved = <<>> \/ Len(saved) = 1
    /\ pc \in {"shadowed", "done"} /\ saved # <<>> =>
         state \in {"ok", "cached"} /\ (conf.standard \/ state = "ok")

RouteSound ==
  /\ RouteTyped /\ PlacesKept /\ ShadowKept /\ FallbackKept /\ RoundsKept /\ WritesKept
  /\ ReportKept /\ Route!OnlyPassedIsSaved /\ Route!StandardAlwaysReports

FetchStates ==
  {"none", "ok", "cached", "partial", "quality_error", "fetch_error", "blocked", "http_error"}
Failures == {"partial", "quality_error", "fetch_error", "blocked", "http_error"}
Whys == {"api", "exception", "challenge", "http", "quality"}

\* A verdict is one on a candidate of its route.
LEMMA VerdictFacts ==
  ASSUME NEW route \in Route!Routes, NEW c \in Route!Verdicts(route)
  PROVE  c \in Candidates
BY DEF Route!Verdicts, Candidates

\* A failing route never ends as if it had published.
LEMMA FailureFacts ==
  ASSUME NEW why \in Whys
  PROVE  Route!Failure(why) \in Failures
BY DEF Route!Failure, Whys, Failures

\* One call more, of one route.
LEMMA CountFacts ==
  ASSUME RouteTyped, NEW k \in {"primary", "fallback", "page", "unix", "shadow"}, Route!Count(k)
  PROVE  /\ routeCalls' \in [{"primary", "fallback", "page", "unix", "shadow"} -> Nat]
         /\ routeCalls'[k] = routeCalls[k] + 1
         /\ \A l \in {"primary", "fallback", "page", "unix", "shadow"} \ {k} :
              routeCalls'[l] = routeCalls[l]
BY DEF RouteTyped, Route!Count

\* The one state a failure is never written as is a new publication, but for standard cards.
LEMMA ReportedFacts ==
  ASSUME NEW s \in Failures, NEW w \in Route!Reported(s)
  PROVE  w \in FetchStates /\ (~conf.standard => w # "ok")
BY DEF Route!Reported, Failures, FetchStates

\* A candidate is saved once it has passed.
LEMMA SaveSound ==
  ASSUME Route!FetchAssumption, RouteSound, NEW c \in Candidates, Route!Passes(c),
         saved' = Append(saved, c), candidate' = c,
         UNCHANGED <<conf, depth, within, reason, shadow, refused, routeCalls, opened, state, writes,
                     closed>>,
         \/ pc = "api" /\ pc' = "apiSaved"
         \/ pc = "judge" /\ pc' = "pageSaved"
         \/ pc = "cascade" /\ pc' = "cascadeSaved"
  PROVE  RouteSound'
<1>1. /\ saved' \in Seq(Candidates) /\ Len(saved') = Len(saved) + 1
      /\ \A i \in DOMAIN saved' : saved'[i] = c \/ (i \in DOMAIN saved /\ saved'[i] = saved[i])
      /\ saved' # <<>> /\ saved'[Len(saved')] = c
  <2>1. /\ saved' \in Seq(Candidates) /\ Len(saved') = Len(saved) + 1 /\ Len(saved) \in Nat
        /\ \A i \in DOMAIN saved' : saved'[i] = c \/ (i \in DOMAIN saved /\ saved'[i] = saved[i])
    BY DEF RouteSound, RouteTyped
  <2>2. saved'[Len(saved) + 1] = c
    BY DEF RouteSound, RouteTyped
  <2>3. Len(saved') # 0 /\ (saved' = <<>> => Len(saved') = 0)
    BY <2>1
  <2>4. saved'[Len(saved')] = c
    BY <2>1, <2>2
  <2> QED BY <2>1, <2>3, <2>4, Zenon
<1>2. RouteTyped'
  BY <1>1 DEF RouteSound, RouteTyped
<1>3. PlacesKept' /\ ShadowKept' /\ FallbackKept'
  BY DEF RouteSound, PlacesKept, ShadowKept, FallbackKept, Route!Ended
<1>4. RoundsKept'
  BY DEF RouteSound, RouteTyped, RoundsKept, Rounds, InFirst
<1>5. WritesKept'
  BY <1>1 DEF RouteSound, WritesKept, JustSaved
<1>6. ReportKept'
  <2>1. saved = <<>> => Len(saved) = 0
    OBVIOUS
  <2> QED BY <1>1, <2>1 DEF RouteSound, ReportKept, Quiet
<1>7. Route!OnlyPassedIsSaved'
  BY <1>1 DEF RouteSound, Route!OnlyPassedIsSaved, Route!Passes
<1> QED BY <1>2, <1>3, <1>4, <1>5, <1>6, <1>7 DEF RouteSound, Route!StandardAlwaysReports

\* A fetch ends with a failure, perhaps after a paid answer of ParsesUnix.
LEMMA FinishSound ==
  ASSUME Route!FetchAssumption, RouteSound, NEW s \in Failures, Route!Finish(s),
         pc \in {"api", "apiRejected", "apiFailed", "page", "answer", "judge", "cascade", "cascadeSaved"},
         pc = "cascadeSaved" => ~Quiet,
         shadow' \in {"none", "done"}, candidate' \in Candidates, refused' \in BOOLEAN,
         UNCHANGED <<conf, depth, within, reason, saved, opened>>,
         UNCHANGED routeCalls \/ (pc = "page" /\ Route!Count("unix"))
  PROVE  RouteSound'
<1>1. /\ pc' = "done" /\ state' \in FetchStates /\ (~conf.standard => state' # "ok")
      /\ writes' = 1 \/ (Faults /\ conf.standard /\ writes' = 0)
      /\ closed' \in Nat
  <2>1. writes = 0 /\ closed \in Nat
    BY DEF RouteSound, RouteTyped, WritesKept
  <2>2. state' \in FetchStates /\ (~conf.standard => state' # "ok")
    BY ReportedFacts DEF Route!Finish
  <2> QED BY <2>1, <2>2 DEF Route!Finish
<1>2. RouteTyped'
  BY <1>1, CountFacts DEF RouteSound, RouteTyped, FetchStates, Route!Ended
<1>3. UNCHANGED routeCalls \/ (~conf.apiOnly /\ ~conf.direct)
  BY DEF RouteSound, RouteTyped, PlacesKept, Route!FetchAssumption
<1>4. /\ routeCalls'["fallback"] = routeCalls["fallback"]
      /\ routeCalls'["primary"] = routeCalls["primary"]
  BY CountFacts DEF RouteSound
<1>5. PlacesKept'
  BY <1>1, <1>3, <1>4 DEF RouteSound, PlacesKept
<1>6. ShadowKept' /\ FallbackKept' /\ RoundsKept'
  BY <1>1, <1>4 DEF RouteSound, RouteTyped, ShadowKept, FallbackKept, RoundsKept, Rounds, InFirst, Route!Ended
<1>7. WritesKept'
  BY <1>1 DEF WritesKept
<1>8. ReportKept'
  BY <1>1 DEF RouteSound, ReportKept, Quiet
<1>9. Route!OnlyPassedIsSaved' /\ Route!StandardAlwaysReports'
  BY <1>1 DEF RouteSound, Route!OnlyPassedIsSaved, Route!StandardAlwaysReports
<1> QED BY <1>2, <1>5, <1>6, <1>7, <1>8, <1>9 DEF RouteSound

\* An exception: nothing has been saved before it, or a status cannot be written.
LEMMA RaiseSound ==
  ASSUME Route!FetchAssumption, RouteSound, NEW part, Route!RaiseIn(part),
         pc \notin Route!Ended \cup {"shadowed", "resumed"},
         Faults \/ pc \notin {"cascade", "cascadeSaved"},
         pc \in {"cascadeSaved", "apiSaved", "pageSaved"} => ~Quiet,
         Faults \/ ~conf.standard \/ part = "api" \/ conf.mode = "invalid",
         shadow' \in {"none", "done"}, candidate' \in Candidates, refused' \in BOOLEAN,
         part = "api" => refused' = FALSE,
         UNCHANGED <<conf, depth, within, reason, saved, opened>>,
         UNCHANGED routeCalls \/ (pc = "page" /\ Route!Count("unix"))
  PROVE  RouteSound'
<1>1. /\ pc' \in {"apiFailed", "resumed", "raised"}
      /\ pc' = "apiFailed" <=> part = "api"
      /\ pc' = "resumed" => within
      /\ UNCHANGED <<state, writes, closed>>
  BY DEF Route!RaiseIn, Route!Raise, Route!Keep
<1>2. RouteTyped'
  BY <1>1, CountFacts DEF RouteSound, RouteTyped, Route!Ended
<1>3. UNCHANGED routeCalls \/ (~conf.apiOnly /\ ~conf.direct)
  BY DEF RouteSound, RouteTyped, PlacesKept, Route!FetchAssumption
<1>4. /\ routeCalls'["fallback"] = routeCalls["fallback"]
      /\ routeCalls'["primary"] = routeCalls["primary"]
  BY CountFacts DEF RouteSound
<1>5. PlacesKept'
  BY <1>1, <1>3, <1>4 DEF RouteSound, PlacesKept
<1>6. ShadowKept' /\ FallbackKept'
  BY <1>1, <1>4 DEF RouteSound, RouteTyped, ShadowKept, FallbackKept, Route!Ended
<1>7. RoundsKept'
  BY <1>1, <1>4 DEF RouteSound, RouteTyped, RoundsKept, Rounds, InFirst
<1>8. WritesKept'
  BY <1>1 DEF RouteSound, WritesKept, Route!Ended
<1>9. ReportKept'
  <2>1. Quiet => saved = <<>>
    BY DEF RouteSound, RouteTyped, ReportKept, Route!Ended
  <2> QED BY <1>1, <2>1 DEF ReportKept, Quiet
<1>10. Route!OnlyPassedIsSaved' /\ Route!StandardAlwaysReports'
  BY <1>1 DEF RouteSound, Route!OnlyPassedIsSaved, Route!StandardAlwaysReports
<1> QED BY <1>2, <1>5, <1>6, <1>7, <1>8, <1>9, <1>10 DEF RouteSound

\* A part ends with a failure, written or not.
LEMMA EndsSound ==
  ASSUME Route!FetchAssumption, RouteSound, NEW part, NEW s \in Failures, Route!Ends(part, s),
         pc \in {"api", "apiRejected", "apiFailed", "page", "answer", "judge", "cascade", "cascadeSaved"},
         pc = "cascadeSaved" => ~Quiet,
         shadow' \in {"none", "done"}, candidate' \in Candidates, refused' \in BOOLEAN,
         part = "api" => refused' = FALSE,
         UNCHANGED <<conf, depth, within, reason, saved, opened>>,
         UNCHANGED routeCalls \/ (pc = "page" /\ Route!Count("unix"))
  PROVE  RouteSound'
<1>1. CASE Route!Finish(s)
  BY <1>1, FinishSound
<1>2. CASE Faults /\ Route!RaiseIn(part)
  <2>1. /\ pc \notin Route!Ended \cup {"shadowed", "resumed"}
        /\ pc \in {"cascadeSaved", "apiSaved", "pageSaved"} => ~Quiet
    BY DEF Route!Ended
  <2> QED BY <1>2, <2>1, RaiseSound
<1> QED BY <1>1, <1>2 DEF Route!Ends

\* A failing route asks the cascade, or ends with its failure.
LEMMA FallBackSound ==
  ASSUME Route!FetchAssumption, RouteSound, NEW why \in Whys, NEW ends \in Failures,
         Route!FallBack(why, ends), pc \in {"apiRejected", "page", "answer", "judge"},
         shadow' \in {"none", "done"}, candidate' \in Candidates, refused' = FALSE,
         UNCHANGED <<conf, depth, within, saved, opened>>
  PROVE  RouteSound'
<1>1. CASE Route!Ends(why, ends) /\ UNCHANGED <<reason, routeCalls>>
  BY <1>1, EndsSound
<1>2. CASE /\ Route!CascadeAllowed(why) /\ pc' = "cascade" /\ reason' = why
           /\ Route!Count("fallback") /\ Route!Keep
  <2>1. /\ routeCalls'["fallback"] = routeCalls["fallback"] + 1
        /\ routeCalls["fallback"] \in Nat /\ routeCalls["fallback"] < MaxPerSource
        /\ MaxPerSource \in Nat
        /\ ~Faults => routeCalls["fallback"] = 0
        /\ \A k \in {"primary", "page", "unix", "shadow"} : routeCalls'[k] = routeCalls[k]
    <3>1. /\ RouteTyped /\ FallbackKept /\ MaxPerSource \in Nat /\ why # "primary"
      BY DEF RouteSound, Route!FetchAssumption, Whys
    <3>2. routeCalls["fallback"] < MaxPerSource
      BY <1>2, <3>1 DEF Route!CascadeAllowed
    <3>3. routeCalls["fallback"] \in Nat
      BY <3>1 DEF RouteTyped
    <3>4. ~Faults => routeCalls["fallback"] = 0
      BY <3>1, <3>3 DEF FallbackKept, Route!Ended
    <3>5. /\ routeCalls'["fallback"] = routeCalls["fallback"] + 1
          /\ \A k \in {"primary", "page", "unix", "shadow"} : routeCalls'[k] = routeCalls[k]
      BY <1>2, <3>1, CountFacts
    <3> QED BY <3>1, <3>2, <3>3, <3>4, <3>5
  <2>2. RouteTyped'
    BY <1>2, CountFacts DEF RouteSound, RouteTyped, Whys, Route!Keep
  <2>3. PlacesKept'
    BY <1>2, <2>1 DEF RouteSound, RouteTyped, PlacesKept, Route!CascadeAllowed, Route!FetchAssumption
  <2>4. ShadowKept' /\ FallbackKept'
    BY <1>2, <2>1 DEF RouteSound, ShadowKept, FallbackKept, Whys, Route!Ended
  <2>5. RoundsKept'
    BY <1>2, <2>1 DEF RouteSound, RouteTyped, RoundsKept, Rounds, InFirst, Whys
  <2>6. WritesKept' /\ ReportKept'
    BY <1>2 DEF RouteSound, WritesKept, ReportKept, Quiet, Route!Keep
  <2>7. Route!OnlyPassedIsSaved' /\ Route!StandardAlwaysReports'
    BY <1>2 DEF RouteSound, Route!OnlyPassedIsSaved, Route!StandardAlwaysReports
  <2> QED BY <2>2, <2>3, <2>4, <2>5, <2>6, <2>7 DEF RouteSound
<1> QED BY <1>1, <1>2 DEF Route!FallBack

\* A fetch starts over after a new login.
LEMMA StartOverSound ==
  ASSUME Route!FetchAssumption, RouteSound, NEW inApi \in BOOLEAN, Route!MayRelogin,
         Route!StartOver(inApi), Route!Keep, inApi => pc = "apiRejected",
         pc \in {"api", "apiRejected", "judge"}, UNCHANGED <<conf, routeCalls, saved, opened>>
  PROVE  RouteSound'
<1>1. RouteTyped'
  <2>1. Route!Nothing \in Candidates
    BY DEF Candidates, Route!Routes, Route!Nothing
  <2>2. /\ pc' = "begin" /\ depth' = 2 /\ reason' = "none" /\ refused' = FALSE
        /\ candidate' \in Candidates
        /\ shadow' \in {"none", "done"}
    BY <2>1 DEF Route!StartOver, Route!ShadowAwaited
  <2>3. conf' \in Confs
    BY DEF RouteSound, RouteTyped
  <2>5. depth' \in 1 .. 2
    BY <2>2
  <2>6. refused' \in BOOLEAN /\ within' \in BOOLEAN
    BY <2>2 DEF Route!StartOver
  <2>4. UNCHANGED <<routeCalls, saved, opened, state, writes, closed>>
    BY DEF Route!Keep
  <2> QED BY <2>2, <2>3, <2>4, <2>5, <2>6 DEF RouteSound, RouteTyped
<1>2. PlacesKept' /\ ShadowKept'
  BY DEF RouteSound, PlacesKept, ShadowKept, Route!StartOver, Route!MayRelogin, Route!Retry,
         Route!ShadowAwaited
<1>3. FallbackKept'
  BY DEF RouteSound, RouteTyped, FallbackKept, Route!StartOver, Route!MayRelogin, Route!Retry, Route!Ended
<1>4. RoundsKept'
  BY DEF RouteSound, RouteTyped, RoundsKept, Rounds, InFirst, Route!StartOver, Route!MayRelogin, Route!Retry
<1>5. WritesKept' /\ ReportKept' /\ Route!OnlyPassedIsSaved' /\ Route!StandardAlwaysReports'
  BY DEF RouteSound, WritesKept, ReportKept, Quiet, Route!OnlyPassedIsSaved, Route!StandardAlwaysReports,
         Route!StartOver, Route!Keep
<1> QED BY <1>1, <1>2, <1>3, <1>4, <1>5 DEF RouteSound

\* The answer of the API is saved, kept out or rejected.
LEMMA ApiAnswerSound ==
  ASSUME Route!FetchAssumption, RouteSound, Route!ApiAnswer
  PROVE  RouteSound'
<1>1. PICK c \in Route!Verdicts("api") :
        /\ candidate' = c
        /\ \/ Route!Passes(c) /\ saved' = Append(saved, c) /\ pc' = "apiSaved" /\ Route!Keep
           \/ Route!Passes(c) /\ Route!Ends("api", "partial") /\ UNCHANGED saved
           \/ ~Route!Passes(c) /\ pc' = "apiRejected" /\ UNCHANGED saved /\ Route!Keep
  BY DEF Route!ApiAnswer
<1>2. pc = "api" /\ UNCHANGED <<conf, depth, within, reason, shadow, refused, routeCalls, opened>>
  BY DEF Route!ApiAnswer
<1>3. c \in Candidates /\ shadow \in {"none", "done"} /\ refused = FALSE
  <2>1. c \in Candidates
    BY VerdictFacts DEF Route!Routes
  <2> QED BY <2>1, <1>2 DEF RouteSound, RouteTyped, ShadowKept
<1>4. CASE Route!Passes(c) /\ saved' = Append(saved, c) /\ pc' = "apiSaved" /\ Route!Keep
  BY <1>1, <1>2, <1>3, <1>4, SaveSound DEF Route!Keep
<1>5. CASE Route!Passes(c) /\ Route!Ends("api", "partial") /\ UNCHANGED saved
  <2>1. "partial" \in Failures
    BY DEF Failures
  <2> QED BY <1>1, <1>2, <1>3, <1>5, <2>1, EndsSound
<1>6. CASE ~Route!Passes(c) /\ pc' = "apiRejected" /\ UNCHANGED saved /\ Route!Keep
  BY <1>1, <1>2, <1>3, <1>6
     DEF RouteSound, RouteTyped, PlacesKept, ShadowKept, FallbackKept, RoundsKept, Rounds, InFirst,
         WritesKept, JustSaved, ReportKept, Quiet, Route!Keep,
         Route!OnlyPassedIsSaved, Route!StandardAlwaysReports, Route!Ended
<1> QED BY <1>1, <1>4, <1>5, <1>6

LEMMA ApiRejectedSound ==
  ASSUME Route!FetchAssumption, RouteSound, Route!ApiRejected
  PROVE  RouteSound'
<1>1. /\ pc = "apiRejected" /\ UNCHANGED <<conf, saved, opened>>
      /\ shadow \in {"none", "done"} /\ refused = FALSE /\ candidate \in Candidates
      /\ "api" \in Whys /\ "quality_error" \in Failures
  BY DEF Route!ApiRejected, RouteSound, RouteTyped, ShadowKept, Whys, Failures
<1>2. CASE Route!MayRelogin /\ Route!StartOver(TRUE) /\ Route!Keep /\ UNCHANGED routeCalls
  BY <1>1, <1>2, StartOverSound
<1>3. CASE Route!FallBack("api", "quality_error") /\ UNCHANGED <<depth, within, shadow, refused, candidate>>
  BY <1>1, <1>3, FallBackSound
<1>4. CASE /\ Route!Ends("api", "quality_error")
           /\ UNCHANGED <<reason, routeCalls, depth, within, shadow, refused, candidate>>
  BY <1>1, <1>4, EndsSound
<1>5. CASE /\ Route!RaiseIn("api") /\ Faults
           /\ UNCHANGED <<reason, routeCalls, depth, within, shadow, refused, candidate>>
  <2>1. pc \notin Route!Ended \cup {"shadowed", "resumed"}
    BY <1>1 DEF Route!Ended
  <2> QED BY <1>1, <1>5, <2>1, RaiseSound
<1> QED BY <1>2, <1>3, <1>4, <1>5 DEF Route!ApiRejected

LEMMA ApiRaisesSound ==
  ASSUME Route!FetchAssumption, RouteSound, Route!ApiRaises
  PROVE  RouteSound'
<1>1. /\ pc = "api" /\ UNCHANGED <<conf, routeCalls, saved, opened>>
      /\ shadow \in {"none", "done"} /\ refused = FALSE /\ candidate \in Candidates
      /\ "quality_error" \in Failures
      /\ pc \notin Route!Ended \cup {"shadowed", "resumed"}
  BY DEF Route!ApiRaises, RouteSound, RouteTyped, ShadowKept, Failures, Route!Ended
<1>2. CASE Route!MayRelogin /\ Route!StartOver(FALSE) /\ Route!Keep
  BY <1>1, <1>2, StartOverSound
<1>3. CASE /\ Route!Ends("handler", "quality_error")
           /\ UNCHANGED <<depth, within, reason, shadow, refused, candidate>>
  BY <1>1, <1>3, EndsSound
<1>4. CASE Route!RaiseIn("api") /\ UNCHANGED <<depth, within, reason, shadow, refused, candidate>>
  BY <1>1, <1>4, RaiseSound
<1>5. CASE Faults /\ Route!Raise /\ UNCHANGED <<depth, within, reason, shadow, refused, candidate>>
  <2>1. Route!RaiseIn("handler")
    BY <1>5 DEF Route!RaiseIn
  <2> QED BY <1>1, <1>5, <2>1, RaiseSound
<1> QED BY <1>2, <1>3, <1>4, <1>5 DEF Route!ApiRaises

LEMMA ApiFailsSound ==
  ASSUME Route!FetchAssumption, RouteSound, Route!ApiFails
  PROVE  RouteSound'
<1>1. /\ pc = "apiFailed"
      /\ UNCHANGED <<conf, depth, within, reason, shadow, refused, candidate, routeCalls, saved, opened>>
      /\ shadow \in {"none", "done"} /\ refused = FALSE /\ candidate \in Candidates
      /\ "fetch_error" \in Failures
  BY DEF Route!ApiFails, RouteSound, RouteTyped, ShadowKept, Failures
<1>2. CASE Route!BrowserAllowed /\ pc' = "page" /\ Route!Keep
  BY <1>1, <1>2
     DEF RouteSound, RouteTyped, PlacesKept, ShadowKept, FallbackKept, RoundsKept, Rounds, InFirst,
         WritesKept, JustSaved, ReportKept, Quiet, Route!Keep, Route!OnlyPassedIsSaved,
         Route!StandardAlwaysReports, Route!Ended, Route!BrowserAllowed, Route!FetchAssumption
<1>3. CASE Route!Ends("handler", "fetch_error")
  BY <1>1, <1>3, EndsSound
<1> QED BY <1>2, <1>3 DEF Route!ApiFails

LEMMA ResumeSound ==
  ASSUME Route!FetchAssumption, RouteSound, Route!Resume
  PROVE  RouteSound'
<1>1. /\ pc = "resumed" /\ pc' = "apiFailed" /\ depth' = 1 /\ within' = FALSE /\ reason' = "none"
      /\ refused' = FALSE
      /\ UNCHANGED <<conf, shadow, candidate, routeCalls, saved, opened>>
      /\ UNCHANGED <<state, writes, closed>>
  BY DEF Route!Resume, Route!Keep
<1>2. RouteTyped'
  <2>1. depth' \in 1 .. 2
    BY <1>1
  <2>2. within' \in BOOLEAN /\ refused' \in BOOLEAN
    BY <1>1
  <2> QED BY <1>1, <2>1, <2>2 DEF RouteSound, RouteTyped
<1>3. PlacesKept' /\ ShadowKept'
  BY <1>1 DEF RouteSound, PlacesKept, ShadowKept
<1>4. FallbackKept' /\ RoundsKept'
  BY <1>1 DEF RouteSound, RouteTyped, FallbackKept, RoundsKept, Rounds, InFirst, Route!Ended
<1>5. WritesKept' /\ ReportKept' /\ Route!OnlyPassedIsSaved' /\ Route!StandardAlwaysReports'
  BY <1>1 DEF RouteSound, WritesKept, ReportKept, Quiet, Route!OnlyPassedIsSaved, Route!StandardAlwaysReports
<1> QED BY <1>2, <1>3, <1>4, <1>5 DEF RouteSound

LEMMA PageAnswersSound ==
  ASSUME Route!FetchAssumption, RouteSound, Route!PageAnswers
  PROVE  RouteSound'
<1>1. /\ pc = "answer" /\ UNCHANGED <<conf, depth, within, saved, opened>>
      /\ shadow' \in {"none", "done"} /\ refused = FALSE /\ candidate \in Candidates
      /\ {"exception", "challenge", "http"} \subseteq Whys
      /\ {"fetch_error", "blocked", "http_error"} \subseteq Failures
  BY DEF Route!PageAnswers, Route!ShadowAwaited, RouteSound, RouteTyped, ShadowKept, Whys, Failures
<1>2. CASE Route!PageFails(FALSE) /\ UNCHANGED candidate
  <2>1. refused' = FALSE /\ Route!FallBack("exception", "fetch_error")
    BY <1>2 DEF Route!PageFails, Route!AllowsPaidFallback
  <2> QED BY <1>1, <1>2, <2>1, FallBackSound
<1>3. ASSUME NEW why \in {"challenge", "http"}, NEW ends \in {"blocked", "http_error"},
             Route!FallBack(why, ends), UNCHANGED <<refused, candidate>>
      PROVE  RouteSound'
  BY <1>1, <1>3, FallBackSound
<1>4. CASE /\ pc' = "judge" /\ candidate' \in Route!Verdicts("page")
           /\ Route!Keep /\ UNCHANGED <<refused, reason, routeCalls>>
  <2>1. candidate' \in Candidates
    BY <1>4, VerdictFacts DEF Route!Routes
  <2> QED BY <1>1, <1>4, <2>1
     DEF RouteSound, RouteTyped, PlacesKept, ShadowKept, FallbackKept, RoundsKept, Rounds, InFirst,
         WritesKept, JustSaved, ReportKept, Quiet, Route!Keep,
         Route!OnlyPassedIsSaved, Route!StandardAlwaysReports, Route!Ended
<1> QED BY <1>2, <1>3, <1>4 DEF Route!PageAnswers

LEMMA UnixAnswersSound ==
  ASSUME Route!FetchAssumption, RouteSound, Route!UnixAnswers
  PROVE  RouteSound'
<1>1. /\ pc = "page" /\ UNCHANGED <<conf, depth, within, shadow, saved, opened>>
      /\ shadow \in {"none", "done"} /\ refused = FALSE /\ candidate \in Candidates
      /\ ~conf.apiOnly /\ ~conf.direct /\ ~conf.standard
      /\ "fetch_error" \in Failures
  BY DEF Route!UnixAnswers, RouteSound, RouteTyped, ShadowKept, PlacesKept, Failures, Route!FetchAssumption
<1>2. ASSUME NEW paid \in BOOLEAN,
             routeCalls' = [routeCalls EXCEPT !["unix"] = @ + IF paid THEN 1 ELSE 0],
             pc' = "judge", Route!Keep, UNCHANGED <<refused, reason>>,
             \/ candidate' \in Route!Verdicts(IF paid THEN "unixPaid" ELSE "unix")
             \/ candidate' \in Route!Verdicts("free")
      PROVE  RouteSound'
  <2>1. candidate' \in Candidates
    BY <1>2, VerdictFacts DEF Route!Routes
  <2>2. /\ routeCalls' \in [{"primary", "fallback", "page", "unix", "shadow"} -> Nat]
        /\ \A k \in {"primary", "fallback", "page", "shadow"} : routeCalls'[k] = routeCalls[k]
    BY <1>2 DEF RouteSound, RouteTyped
  <2> QED BY <1>1, <1>2, <2>1, <2>2
     DEF RouteSound, RouteTyped, PlacesKept, ShadowKept, FallbackKept, RoundsKept, Rounds, InFirst,
         WritesKept, JustSaved, ReportKept, Quiet, Route!Keep,
         Route!OnlyPassedIsSaved, Route!StandardAlwaysReports, Route!Ended
<1>3. CASE /\ Route!Ends("exception", "fetch_error") /\ refused' = TRUE
           /\ Route!Count("unix") /\ UNCHANGED <<reason, candidate>>
  BY <1>1, <1>3, EndsSound
<1>4. CASE Route!PageFails(TRUE) /\ UNCHANGED candidate
  <2>1. refused' = TRUE /\ Route!Ends("exception", "fetch_error") /\ UNCHANGED <<reason, routeCalls>>
    BY <1>4 DEF Route!PageFails, Route!AllowsPaidFallback
  <2> QED BY <1>1, <1>4, <2>1, EndsSound
<1> QED BY <1>2, <1>3, <1>4 DEF Route!UnixAnswers

LEMMA PageJudgedSound ==
  ASSUME Route!FetchAssumption, RouteSound, Route!PageJudged
  PROVE  RouteSound'
<1>1. /\ pc = "judge" /\ UNCHANGED <<conf, opened>>
      /\ shadow \in {"none", "done"} /\ refused = FALSE /\ candidate \in Candidates
      /\ "quality" \in Whys /\ {"quality_error", "partial"} \subseteq Failures
      /\ ~conf.standard /\ pc \notin Route!Ended \cup {"shadowed", "resumed"}
  BY DEF Route!PageJudged, RouteSound, RouteTyped, ShadowKept, PlacesKept, Whys, Failures,
         Route!FetchAssumption, Route!Ended
<1>2. CASE Route!Raise /\ UNCHANGED <<depth, within, reason, shadow, refused, candidate, routeCalls, saved>>
  <2>1. Route!RaiseIn("quality")
    BY <1>2 DEF Route!RaiseIn
  <2> QED BY <1>1, <1>2, <2>1, RaiseSound
<1>3. CASE Route!MayRelogin /\ Route!StartOver(FALSE) /\ Route!Keep /\ UNCHANGED <<routeCalls, saved>>
  BY <1>1, <1>3, StartOverSound
<1>4. CASE /\ Route!FallBack("quality", "quality_error")
           /\ UNCHANGED <<depth, within, shadow, refused, candidate, saved>>
  BY <1>1, <1>4, FallBackSound
<1>5. CASE /\ Route!Ends("quality", "partial") /\ UNCHANGED saved
           /\ UNCHANGED <<depth, within, reason, shadow, refused, candidate, routeCalls>>
  BY <1>1, <1>5, EndsSound
<1>6. CASE /\ Route!Passes(candidate)
           /\ saved' = Append(saved, candidate) /\ pc' = "pageSaved" /\ Route!Keep
           /\ UNCHANGED <<depth, within, reason, shadow, refused, candidate, routeCalls>>
  BY <1>1, <1>6, SaveSound DEF Route!Keep
<1> QED BY <1>2, <1>3, <1>4, <1>5, <1>6 DEF Route!PageJudged

\* A call of the cascade ends with a failure, or without a status.
LEMMA CascadeSteps ==
  ASSUME Route!FetchAssumption, RouteSound, pc \in {"cascade", "cascadeSaved"},
         pc = "cascadeSaved" => ~Quiet,
         UNCHANGED <<conf, depth, within, reason, refused, routeCalls, opened, saved>>,
         candidate' \in Candidates,
         \/ Route!CascadeNothing
         \/ \E s \in Failures : Route!CascadeEnds(s)
  PROVE  RouteSound'
<1>1. /\ shadow \in {"none", "done"} /\ refused = FALSE
      /\ ~conf.direct /\ ~conf.standard
      /\ reason # "primary" => reason \in Whys
      /\ reason = "primary" /\ ~Faults => routeCalls["fallback"] = 0
  BY DEF RouteSound, RouteTyped, ShadowKept, PlacesKept, FallbackKept, Whys, Route!Ended
<1>2. ASSUME NEW s \in Failures, NEW part, Route!Ends(part, s), UNCHANGED shadow
      PROVE  RouteSound'
  BY <1>1, <1>2, EndsSound
<1>3. ASSUME reason = "primary", Route!NextRoute, Route!Keep, UNCHANGED shadow
      PROVE  RouteSound'
  <2>1. pc' \in {"api", "page"} /\ (conf.apiOnly => pc' = "api")
    BY <1>3 DEF Route!NextRoute, RouteSound, RouteTyped, Route!FetchAssumption
  <2> QED BY <1>1, <1>3, <2>1
     DEF RouteSound, RouteTyped, PlacesKept, ShadowKept, FallbackKept, RoundsKept, Rounds, InFirst,
         WritesKept, JustSaved, ReportKept, Quiet, Route!Keep,
         Route!OnlyPassedIsSaved, Route!StandardAlwaysReports, Route!Ended
<1>4. ASSUME NEW s \in Failures, reason = "primary", pc' = "shadowed", state' \in Route!Reported(s),
             writes' = writes + 1, UNCHANGED closed, shadow' = "free"
      PROVE  RouteSound'
  <2>1. state' \in FetchStates /\ state' # "ok"
    BY <1>1, <1>4, ReportedFacts
  <2>2. RouteTyped'
    BY <1>4, <2>1 DEF RouteSound, RouteTyped, FetchStates
  <2>3. PlacesKept' /\ ShadowKept' /\ FallbackKept' /\ RoundsKept'
    BY <1>1, <1>4 DEF RouteSound, RouteTyped, PlacesKept, ShadowKept, FallbackKept, RoundsKept, Rounds,
                      InFirst, Route!Ended
  <2>4. WritesKept' /\ ReportKept' /\ Route!OnlyPassedIsSaved' /\ Route!StandardAlwaysReports'
    BY <1>1, <1>4, <2>1
       DEF RouteSound, RouteTyped, WritesKept, ReportKept, Quiet, Route!OnlyPassedIsSaved,
           Route!StandardAlwaysReports
  <2> QED BY <2>2, <2>3, <2>4 DEF RouteSound
<1>5. CASE Route!CascadeNothing
  <2>1. reason # "primary" => Route!Failure(reason) \in Failures
    BY <1>1, FailureFacts
  <2> QED BY <1>2, <1>3, <1>5, <2>1 DEF Route!CascadeNothing
<1>6. CASE \E s \in Failures : Route!CascadeEnds(s)
  <2>1. PICK s \in Failures : Route!CascadeEnds(s)
    BY <1>6
  <2>2. CASE Route!Finish(s) /\ UNCHANGED shadow
    <3>1. Route!Ends("page", s)
      BY <2>2 DEF Route!Ends
    <3> QED BY <1>2, <2>2, <3>1
  <2>3. CASE ~(Route!Finish(s) /\ UNCHANGED shadow)
    BY <1>4, <2>1, <2>3 DEF Route!CascadeEnds
  <2> QED BY <2>2, <2>3
<1> QED BY <1>5, <1>6

LEMMA CascadeAnswersSound ==
  ASSUME Route!FetchAssumption, RouteSound, Route!Cascade
  PROVE  RouteSound'
<1>1. /\ pc = "cascade" /\ UNCHANGED <<conf, depth, within, reason, refused, routeCalls, opened>>
      /\ candidate \in Candidates /\ {"quality_error", "partial"} \subseteq Failures
  BY DEF Route!Cascade, RouteSound, RouteTyped, Failures
<1>2. CASE Route!CascadeNothing /\ UNCHANGED <<candidate, saved>>
  BY <1>1, <1>2, CascadeSteps
<1>3. ASSUME NEW c \in Route!Verdicts("cascade"), candidate' = c,
             \/ /\ ~Route!Passes(c) /\ UNCHANGED saved
                /\ IF reason = "primary" THEN Route!CascadeNothing ELSE Route!CascadeWrites("quality_error")
             \/ Route!Passes(c) /\ Route!CascadeWrites("partial") /\ UNCHANGED saved
             \/ /\ Route!Passes(c) /\ saved' = Append(saved, c)
                /\ pc' = "cascadeSaved" /\ Route!Keep /\ UNCHANGED shadow
      PROVE  RouteSound'
  <2>1. c \in Candidates
    BY VerdictFacts DEF Route!Routes
  <2>2. CASE /\ UNCHANGED saved
             /\ Route!CascadeNothing \/ Route!CascadeEnds("quality_error") \/ Route!CascadeEnds("partial")
    BY <1>1, <1>3, <2>1, <2>2, CascadeSteps
  <2>3. CASE /\ Route!Passes(c) /\ saved' = Append(saved, c)
             /\ pc' = "cascadeSaved" /\ Route!Keep /\ UNCHANGED shadow
    BY <1>1, <1>3, <2>1, <2>3, SaveSound DEF Route!Keep
  <2> QED BY <1>3, <2>2, <2>3 DEF Route!CascadeWrites
<1> QED BY <1>2, <1>3 DEF Route!Cascade

\* A fetch that has just saved ends with "ok".
LEMMA SavedEnds ==
  ASSUME Route!FetchAssumption, RouteSound, pc \in {"cascadeSaved", "apiSaved", "pageSaved"},
         pc' \in {"done", "shadowed"}, pc' = "shadowed" => pc = "cascadeSaved" /\ reason = "primary",
         state' \in Route!Reported("ok"),
         writes' = writes + 1 \/ (pc' = "done" /\ Faults /\ conf.standard /\ UNCHANGED writes),
         closed' \in Nat, IF pc' = "done" THEN UNCHANGED shadow ELSE shadow' = "free",
         UNCHANGED <<conf, depth, within, reason, refused, candidate, routeCalls, saved, opened>>
  PROVE  RouteSound'
<1>1. /\ state' \in FetchStates /\ state' \in {"ok", "cached"} /\ (conf.standard \/ state' = "ok")
      /\ writes = 0 /\ JustSaved /\ shadow \in {"none", "done"} /\ refused = FALSE
      /\ pc = "cascadeSaved" => ~conf.direct /\ ~conf.standard
  BY DEF Route!Reported, FetchStates, RouteSound, RouteTyped, WritesKept, ShadowKept, PlacesKept
<1>2. RouteTyped'
  BY <1>1 DEF RouteSound, RouteTyped, FetchStates, Route!Ended
<1>3. PlacesKept' /\ ShadowKept'
  BY <1>1 DEF RouteSound, RouteTyped, PlacesKept, ShadowKept, Route!FetchAssumption
<1>4. FallbackKept' /\ RoundsKept'
  BY <1>1 DEF RouteSound, RouteTyped, FallbackKept, RoundsKept, Rounds, InFirst, Route!Ended
<1>5. WritesKept'
  <2>1. JustSaved'
    BY <1>1 DEF JustSaved
  <2> QED BY <1>1, <2>1 DEF WritesKept
<1>6. ReportKept'
  BY <1>1 DEF RouteSound, ReportKept, Quiet
<1> QED BY <1>2, <1>3, <1>4, <1>5, <1>6
    DEF RouteSound, Route!OnlyPassedIsSaved, Route!StandardAlwaysReports

LEMMA CascadeReportSound ==
  ASSUME Route!FetchAssumption, RouteSound, Route!CascadeReport
  PROVE  RouteSound'
<1>1. /\ pc = "cascadeSaved"
      /\ UNCHANGED <<conf, depth, within, reason, refused, candidate, routeCalls, saved, opened>>
      /\ ~conf.standard /\ writes \in Nat /\ closed \in Nat /\ candidate \in Candidates
  BY DEF Route!CascadeReport, RouteSound, RouteTyped, PlacesKept
<1>2. CASE Faults /\ Route!CascadeNothing
  <2>1. ~Quiet
    BY <1>1, <1>2 DEF Quiet
  <2> QED BY <1>1, <1>2, <2>1, CascadeSteps
<1>3. CASE Route!Finish("ok") /\ UNCHANGED shadow
  <2>1. /\ pc' = "done" /\ state' \in Route!Reported("ok") /\ writes' = writes + 1 /\ closed' \in Nat
    BY <1>1, <1>3 DEF Route!Finish
  <2> QED BY <1>1, <1>3, <2>1, SavedEnds
<1>4. CASE /\ reason = "primary" /\ pc' = "shadowed" /\ state' \in Route!Reported("ok") /\ writes' = writes + 1
           /\ shadow' = "free" /\ UNCHANGED closed
  <2>1. closed' \in Nat /\ pc' # "done"
    BY <1>1, <1>4
  <2> QED BY <1>1, <1>4, <2>1, SavedEnds
<1> QED BY <1>2, <1>3, <1>4 DEF Route!CascadeReport, Route!CascadeWrites, Route!CascadeEnds

LEMMA ReportSound ==
  ASSUME Route!FetchAssumption, RouteSound, Route!ApiReport \/ Route!PageReport
  PROVE  RouteSound'
<1>1. /\ pc \in {"apiSaved", "pageSaved"}
      /\ UNCHANGED <<conf, depth, within, reason, shadow, refused, candidate, routeCalls, saved, opened>>
      /\ shadow \in {"none", "done"} /\ refused = FALSE /\ candidate \in Candidates
      /\ pc = "pageSaved" => ~conf.standard
      /\ closed \in Nat /\ pc \notin Route!Ended \cup {"shadowed", "resumed"}
  BY DEF Route!ApiReport, Route!PageReport, RouteSound, RouteTyped, ShadowKept, PlacesKept,
         Route!FetchAssumption, Route!Ended
<1>2. CASE Route!Finish("ok")
  <2>1. /\ pc' = "done" /\ state' \in Route!Reported("ok") /\ closed' \in Nat
        /\ writes' = writes + 1 \/ (Faults /\ conf.standard /\ UNCHANGED writes)
    BY <1>1, <1>2 DEF Route!Finish
  <2> QED BY <1>1, <2>1, SavedEnds
<1>3. ASSUME NEW part \in {"api", "page"}, Faults, ~conf.standard, Route!RaiseIn(part)
      PROVE  RouteSound'
  <2>1. ~Quiet
    BY <1>3 DEF Quiet
  <2> QED BY <1>1, <1>3, <2>1, RaiseSound
<1> QED BY <1>1, <1>2, <1>3 DEF Route!ApiReport, Route!PageReport, Route!Ends

\* The steps that save and end nothing.
LEMMA RouteBeginSound ==
  ASSUME Route!FetchAssumption, RouteSound, Route!Begin
  PROVE  RouteSound'
<1>1. /\ pc = "begin"
      /\ UNCHANGED <<conf, depth, within, reason, shadow, refused, candidate, routeCalls, saved>>
      /\ shadow \in {"none", "done"} /\ candidate \in Candidates /\ refused = FALSE
      /\ pc \notin Route!Ended \cup {"shadowed", "resumed"}
  BY DEF Route!Begin, RouteSound, RouteTyped, ShadowKept, Route!Ended
<1>2. CASE pc' = "route" /\ opened' = opened + 1 /\ Route!Keep
  BY <1>1, <1>2
     DEF RouteSound, RouteTyped, PlacesKept, ShadowKept, FallbackKept, RoundsKept, Rounds, InFirst,
         WritesKept, JustSaved, ReportKept, Quiet, Route!Keep,
         Route!OnlyPassedIsSaved, Route!StandardAlwaysReports, Route!Ended
<1>3. CASE Route!Raise /\ UNCHANGED opened /\ (Faults \/ ~conf.standard)
  <2>1. Route!RaiseIn("begin")
    BY <1>3 DEF Route!RaiseIn
  <2> QED BY <1>1, <1>3, <2>1, RaiseSound
<1> QED BY <1>2, <1>3 DEF Route!Begin, Route!Readable

LEMMA ChooseRouteSound ==
  ASSUME Route!FetchAssumption, RouteSound, Route!ChooseRoute
  PROVE  RouteSound'
<1>1. /\ pc = "route" /\ UNCHANGED <<conf, depth, within, shadow, refused, candidate, saved, opened>>
      /\ shadow \in {"none", "done"} /\ candidate \in Candidates /\ refused = FALSE
      /\ pc \notin Route!Ended \cup {"shadowed", "resumed"}
  BY DEF Route!ChooseRoute, RouteSound, RouteTyped, ShadowKept, Route!Ended
<1>2. CASE Route!NextRoute /\ Route!Keep /\ UNCHANGED <<reason, routeCalls>>
  <2>1. pc' \in {"api", "page"} /\ (pc' = "page" => ~conf.apiOnly)
    BY <1>2 DEF Route!NextRoute, RouteSound, RouteTyped, Route!FetchAssumption
  <2> QED BY <1>1, <1>2, <2>1
     DEF RouteSound, RouteTyped, PlacesKept, ShadowKept, FallbackKept, RoundsKept, Rounds, InFirst,
         WritesKept, JustSaved, ReportKept, Quiet, Route!Keep,
         Route!OnlyPassedIsSaved, Route!StandardAlwaysReports, Route!Ended
<1>3. CASE /\ conf.primary /\ Route!CascadeAllowed("primary") /\ Route!Keep
           /\ pc' = "cascade" /\ reason' = "primary" /\ Route!Count("primary")
  <2>1. ~conf.direct /\ ~conf.standard
    BY <1>3 DEF Route!CascadeAllowed, RouteSound, RouteTyped, Route!FetchAssumption
  <2>2. /\ routeCalls' \in [{"primary", "fallback", "page", "unix", "shadow"} -> Nat]
        /\ routeCalls'["primary"] = routeCalls["primary"] + 1
        /\ \A k \in {"fallback", "page", "unix", "shadow"} : routeCalls'[k] = routeCalls[k]
    BY <1>3, CountFacts DEF RouteSound
  <2> QED BY <1>1, <1>3, <2>1, <2>2
     DEF RouteSound, RouteTyped, PlacesKept, ShadowKept, FallbackKept, RoundsKept, Rounds, InFirst,
         WritesKept, JustSaved, ReportKept, Quiet, Route!Keep,
         Route!OnlyPassedIsSaved, Route!StandardAlwaysReports, Route!Ended
<1>4. CASE conf.mode = "invalid" /\ Route!Raise /\ UNCHANGED <<reason, routeCalls>>
  <2>1. Route!RaiseIn("route")
    BY <1>4 DEF Route!RaiseIn
  <2> QED BY <1>1, <1>4, <2>1, RaiseSound
<1> QED BY <1>2, <1>3, <1>4 DEF Route!ChooseRoute

LEMMA ShadowSound ==
  ASSUME Route!FetchAssumption, RouteSound, Route!ShadowPays \/ Route!ShadowedPrimary
  PROVE  RouteSound'
<1>1. CASE Route!ShadowPays
  <2>1. /\ shadow = "free" /\ shadow' = "paid"
        /\ UNCHANGED <<conf, pc, depth, within, reason, refused, candidate, saved, state, writes, opened, closed>>
        /\ routeCalls' \in [{"primary", "fallback", "page", "unix", "shadow"} -> Nat]
        /\ \A k \in {"primary", "fallback", "page", "unix"} : routeCalls'[k] = routeCalls[k]
    BY <1>1, CountFacts DEF Route!ShadowPays, RouteSound
  <2> QED BY <2>1
     DEF RouteSound, RouteTyped, PlacesKept, ShadowKept, FallbackKept, RoundsKept, Rounds, InFirst,
         WritesKept, JustSaved, ReportKept, Quiet,
         Route!OnlyPassedIsSaved, Route!StandardAlwaysReports, Route!Ended
<1>2. CASE Route!ShadowedPrimary
  <2>1. /\ pc = "shadowed" /\ pc' = "done" /\ shadow' \in {"none", "done"} /\ closed' \in Nat
        /\ UNCHANGED <<conf, depth, within, reason, refused, candidate, routeCalls, saved, state, writes, opened>>
    BY <1>2 DEF Route!ShadowedPrimary, Route!ShadowAwaited, RouteSound, RouteTyped
  <2> QED BY <2>1
     DEF RouteSound, RouteTyped, PlacesKept, ShadowKept, FallbackKept, RoundsKept, Rounds, InFirst,
         WritesKept, JustSaved, ReportKept, Quiet,
         Route!OnlyPassedIsSaved, Route!StandardAlwaysReports, Route!Ended
<1> QED BY <1>1, <1>2

LEMMA ApiMissingSound ==
  ASSUME Route!FetchAssumption, RouteSound, Route!ApiMissing
  PROVE  RouteSound'
<1>1. /\ pc = "api" /\ pc' = "page" /\ ~conf.apiOnly
      /\ UNCHANGED <<conf, depth, within, reason, shadow, refused, candidate, routeCalls, saved, opened>>
      /\ UNCHANGED <<state, writes, closed>> /\ ~conf.direct /\ ~conf.standard
  BY DEF Route!ApiMissing, Route!Keep, Route!FetchAssumption, RouteSound, RouteTyped
<1> QED BY <1>1
     DEF RouteSound, RouteTyped, PlacesKept, ShadowKept, FallbackKept, RoundsKept, Rounds, InFirst,
         WritesKept, JustSaved, ReportKept, Quiet,
         Route!OnlyPassedIsSaved, Route!StandardAlwaysReports, Route!Ended

LEMMA PageBeginsSound ==
  ASSUME Route!FetchAssumption, RouteSound, Route!PageBegins
  PROVE  RouteSound'
<1>1. /\ pc = "page" /\ pc' = "answer" /\ ~conf.direct /\ ~conf.apiOnly
      /\ shadow' \in {"none", "done", "free"}
      /\ UNCHANGED <<conf, depth, within, reason, refused, candidate, saved, opened, state, writes, closed>>
  BY DEF Route!PageBegins, Route!Keep, RouteSound, RouteTyped, PlacesKept, ShadowKept, Route!FetchAssumption
<1>2. /\ routeCalls' \in [{"primary", "fallback", "page", "unix", "shadow"} -> Nat]
      /\ \A k \in {"primary", "fallback", "unix", "shadow"} : routeCalls'[k] = routeCalls[k]
  BY CountFacts DEF Route!PageBegins, RouteSound
<1> QED BY <1>1, <1>2
     DEF RouteSound, RouteTyped, PlacesKept, ShadowKept, FallbackKept, RoundsKept, Rounds, InFirst,
         WritesKept, JustSaved, ReportKept, Quiet,
         Route!OnlyPassedIsSaved, Route!StandardAlwaysReports, Route!Ended

LEMMA CancelSound ==
  ASSUME Route!FetchAssumption, RouteSound, Route!Cancel
  PROVE  RouteSound'
<1>1. /\ pc' = "cancelled" /\ shadow' \in {"none", "done"}
      /\ pc \notin Route!Ended /\ pc # "begin"
      /\ UNCHANGED <<conf, depth, within, reason, refused, candidate, routeCalls, saved, opened>>
      /\ UNCHANGED <<state, writes, closed>>
  BY DEF Route!Cancel, Route!ShadowAwaited, Route!Keep, Route!Ended, RouteSound, RouteTyped
<1>2. RouteTyped' /\ PlacesKept' /\ ShadowKept'
  BY <1>1 DEF RouteSound, RouteTyped, PlacesKept, ShadowKept, Route!Ended, Route!Cancel
<1>3. FallbackKept' /\ RoundsKept'
  BY <1>1 DEF RouteSound, FallbackKept, RoundsKept, Rounds, InFirst, Route!Ended
<1>4. WritesKept' /\ ReportKept' /\ Route!OnlyPassedIsSaved' /\ Route!StandardAlwaysReports'
  BY <1>1 DEF RouteSound, WritesKept, ReportKept, Quiet, Route!OnlyPassedIsSaved, Route!StandardAlwaysReports
<1> QED BY <1>2, <1>3, <1>4 DEF RouteSound

LEMMA RouteSoundInit ==
  ASSUME Route!FetchAssumption, Route!Init
  PROVE  RouteSound
<1>1. Route!Nothing \in Candidates
  BY DEF Candidates, Route!Routes, Route!Nothing
<1>2. RouteTyped
  <2>1. saved \in Seq(Candidates)
    BY DEF Route!Init
  <2>2. /\ routeCalls \in [{"primary", "fallback", "page", "unix", "shadow"} -> Nat]
        /\ candidate \in Candidates
    BY <1>1 DEF Route!Init
  <2>3. /\ conf \in Confs /\ pc = "begin" /\ reason = "none" /\ shadow = "none" /\ state = "none"
        /\ writes = 0 /\ opened = 0 /\ closed = 0
    BY DEF Route!Init
  <2>4. depth \in 1 .. 2
    BY DEF Route!Init
  <2>5. within \in BOOLEAN /\ refused \in BOOLEAN
    BY DEF Route!Init
  <2> QED BY <2>1, <2>2, <2>3, <2>4, <2>5 DEF RouteTyped
<1>3. /\ PlacesKept /\ ShadowKept /\ FallbackKept
      /\ RoundsKept /\ WritesKept /\ ReportKept
  BY DEF Route!Init, Route!FetchAssumption, PlacesKept, ShadowKept, FallbackKept, RoundsKept, Rounds,
         InFirst, WritesKept, ReportKept
<1> QED BY <1>2, <1>3
    DEF Route!Init, RouteSound, Route!OnlyPassedIsSaved, Route!StandardAlwaysReports

LEMMA RouteSoundNext ==
  ASSUME Route!FetchAssumption, RouteSound, [Route!Next]_(Route!vars)
  PROVE  RouteSound'
<1>1. CASE UNCHANGED Route!vars
  BY <1>1 DEF Route!vars, RouteSound, RouteTyped, PlacesKept, ShadowKept, FallbackKept, RoundsKept, Rounds, InFirst,
         WritesKept, JustSaved, ReportKept, Quiet,
              Route!OnlyPassedIsSaved, Route!StandardAlwaysReports
<1> QED BY <1>1, RouteBeginSound, ChooseRouteSound, CascadeAnswersSound, CascadeReportSound,
           ShadowSound, ApiAnswerSound, ApiMissingSound, ApiRejectedSound,
           ApiRaisesSound, ApiFailsSound, ResumeSound, ReportSound, PageBeginsSound, PageAnswersSound, UnixAnswersSound,
           PageJudgedSound, CancelSound, Zenon DEF Route!Next

LEMMA RouteStaysSound ==
  ASSUME Route!FetchAssumption
  PROVE  Route!Spec => []RouteSound
<1>1. Route!Init => RouteSound
  BY RouteSoundInit
<1>2. RouteSound /\ [Route!Next]_(Route!vars) => RouteSound'
  BY RouteSoundNext
<1> QED BY <1>1, <1>2, PTL DEF Route!Spec

\* A fetch that ends has written one status, "ok" only of the candidate it has just saved, for
\* any settings of the source; while statuses can be written every publication is reported so;
\* what is saved has passed the gate and the reviewer; no shadow request outlives its fetch; and
\* what the standard cards have published is reported whatever fails.
THEOREM FetchesReportTheirEnds ==
  ASSUME Route!FetchAssumption
  PROVE  Route!Spec => [](/\ Route!TypeOK /\ Route!OnlyPassedIsSaved /\ Route!ShadowEnds
                          /\ Route!PublishedIsReported /\ Route!StandardAlwaysReports)
<1>1. RouteSound => Route!PublishedIsReported
  BY DEF RouteSound, RouteTyped, WritesKept, JustSaved, ReportKept, Quiet, Route!PublishedIsReported
<1>2. RouteSound => Route!StandardAlwaysReports /\ Route!OnlyPassedIsSaved
  BY DEF RouteSound
<1>3. RouteSound => Route!ShadowEnds
  BY DEF RouteSound, RouteTyped, ShadowKept, Route!ShadowEnds, Route!Ended
<1>4. RouteSound => Route!TypeOK
  BY DEF RouteSound, RouteTyped, Candidates, Route!TypeOK
<1> QED BY <1>1, <1>2, <1>3, <1>4, RouteStaysSound, PTL

\* A fetch pays for the fallback cascade once, or within the limit of its source when statuses
\* cannot be written, and for the primary one once in each of at most three rounds; a page that
\* ParsesUnix refused is not bought from the cascade; a direct confirmation pays nothing, and an
\* API-only source is never fetched as a page.
THEOREM FetchesArePaidOnce ==
  ASSUME Route!FetchAssumption
  PROVE  Route!Spec => [](Route!OneFallback /\ Route!RefusedStaysRefused /\ Route!ConfirmationIsFree)
<1>1. RouteSound => Route!OneFallback
  BY DEF RouteSound, RouteTyped, FallbackKept, RoundsKept, Rounds, Route!OneFallback
<1>2. RouteSound => Route!RefusedStaysRefused
  BY DEF RouteSound, ShadowKept, Route!RefusedStaysRefused
<1>3. RouteSound => Route!ConfirmationIsFree
  BY DEF RouteSound, PlacesKept, Route!ConfirmationIsFree
<1> QED BY <1>1, <1>2, <1>3, RouteStaysSound, PTL

\* While statuses can be written, a fetch starts over only before it has saved anything or paid
\* for a fallback, and no repetition is itself repeated.
THEOREM RetryStaysClean ==
  ASSUME Route!FetchAssumption, ~Faults
  PROVE  Route!Spec => Route!RetryIsClean
<1>1. ASSUME RouteSound, [Route!Next]_(Route!vars)
      PROVE  Route!RetryIsCleanStep
  <2>1. ASSUME pc \in {"api", "apiRejected", "judge"}, Route!MayRelogin
        PROVE  depth = 1 /\ saved = <<>> /\ routeCalls["fallback"] = 0
    BY <1>1, <2>1 DEF RouteSound, RouteTyped, FallbackKept, ReportKept, Quiet, Route!MayRelogin,
                      Route!Retry, Route!Ended
  <2>2. CASE UNCHANGED Route!vars
    BY <2>2 DEF Route!vars, Route!RetryIsCleanStep
  <2>3. CASE \/ Route!Begin \/ Route!ChooseRoute \/ Route!Cascade \/ Route!CascadeReport
             \/ Route!ShadowPays \/ Route!ShadowedPrimary
    <3>1. pc' = "begin" => pc = "begin"
      BY <2>3 DEF Route!Begin, Route!ChooseRoute, Route!Cascade, Route!CascadeReport, Route!ShadowPays,
                  Route!ShadowedPrimary, Route!NextRoute, Route!CascadeNothing, Route!CascadeEnds,
                  Route!CascadeWrites, Route!Finish, Route!Ends, Route!RaiseIn, Route!Raise
    <3> QED BY <3>1 DEF Route!RetryIsCleanStep
  <2>4. CASE \/ Route!ApiAnswer \/ Route!ApiMissing \/ Route!ApiFails \/ Route!Resume
             \/ Route!ApiReport \/ Route!PageBegins \/ Route!PageAnswers \/ Route!UnixAnswers
             \/ Route!PageReport \/ Route!Cancel
    <3>1. pc' = "begin" => pc = "begin"
      BY <2>4 DEF Route!ApiAnswer, Route!ApiMissing, Route!ApiFails, Route!Resume, Route!ApiReport,
                  Route!PageBegins, Route!PageAnswers, Route!UnixAnswers, Route!PageReport,
                  Route!Cancel, Route!Finish, Route!PageFails, Route!FallBack, Route!Ends,
                  Route!RaiseIn, Route!Raise
    <3> QED BY <3>1 DEF Route!RetryIsCleanStep
  <2>5. CASE Route!ApiRejected \/ Route!ApiRaises \/ Route!PageJudged
    <3>1. pc \in {"api", "apiRejected", "judge"}
      BY <2>5 DEF Route!ApiRejected, Route!ApiRaises, Route!PageJudged
    <3>2. Route!MayRelogin \/ pc' # "begin"
      BY <2>5 DEF Route!ApiRejected, Route!ApiRaises, Route!PageJudged, Route!FallBack, Route!Finish,
                  Route!Ends, Route!RaiseIn, Route!Raise
    <3> QED BY <2>1, <3>1, <3>2 DEF Route!RetryIsCleanStep
  <2> QED BY <1>1, <2>2, <2>3, <2>4, <2>5, Zenon DEF Route!Next
<1> QED BY <1>1, RouteStaysSound, PTL DEF Route!Spec, Route!RetryIsClean
=============================================================================
