--------------------------- MODULE AccountsProofs ---------------------------
(***************************************************************************)
(* Proofs about what is shared between the processes of the system: the    *)
(* pools of provider keys (KeyPool), for any keys, limits and costs, any   *)
(* number of scrapes, periods and losses; the tokens of the public API     *)
(* with their limits (ApiAccess), for any tokens, quotas, requests and     *)
(* failures; the locks of the parser jobs (ResourceLocks), for any jobs,   *)
(* resources, lists of lock sets, deaths and failed writes; the channels   *)
(* to HSReplay (HsReplayTransport), for any tasks, channels and budgets;   *)
(* and the rotation of browsers (BackendRotation), for any backends,       *)
(* rounds and thresholds.                                                  *)
(***************************************************************************)
EXTENDS KeyPool, ResourceLocks, FiniteSetTheorems, WellFoundedInduction, TLAPS

-----------------------------------------------------------------------------
(* Finite sets, by induction: a family of subsets of S that has the empty  *)
(* one, and with a set what it is with one more element, has S.            *)

LEMMA SubsetInduction ==
  ASSUME NEW S, IsFiniteSet(S), NEW F, {} \in F,
         \A T \in SUBSET S : \A x \in S \ T : T \in F => T \union {x} \in F
  PROVE  S \in F
<1> DEFINE Others == {T \in SUBSET S : T \notin F}
<1>1. SUFFICES ASSUME S \notin F PROVE FALSE
  OBVIOUS
<1>2. IsWellFoundedOn(StrictSubsetOrdering(S), SUBSET S)
  BY FS_StrictSubsetOrderingWellFounded, FS_FiniteSubsetsOfFinite
<1>3. PICK T \in Others : \A U \in Others : <<U, T>> \notin StrictSubsetOrdering(S)
  <2>1. Others \subseteq SUBSET S /\ Others # {}
    BY <1>1
  <2> HIDE DEF Others
  <2> QED BY <1>2, <2>1, WFMin
<1>4. PICK x \in T : TRUE
  BY <1>3
<1>5. T \ {x} \in F
  <2>1. <<T \ {x}, T>> \in StrictSubsetOrdering(S)
    BY <1>3 DEF StrictSubsetOrdering
  <2> QED BY <1>3, <2>1
<1>6. (T \ {x}) \union {x} = T
  BY <1>4
<1> QED BY <1>3, <1>4, <1>5, <1>6

\* A pool always has a first key among some of its keys (_first_available_label).
LEMMA LeastKey ==
  ASSUME PoolAssumption, NEW S \in SUBSET Keys, S # {}
  PROVE  Min(S) \in S
<1> DEFINE F == {T \in SUBSET Keys : T = {} \/ \E k \in T : \A l \in T : k <= l}
<1>1. IsFiniteSet(S) /\ S \subseteq Nat
  BY FS_Subset DEF PoolAssumption
<1>2. ASSUME NEW T \in SUBSET S, NEW x \in S \ T, T \in F
      PROVE  T \union {x} \in F
  <2>1. CASE T = {}
    BY <2>1, <1>1
  <2>2. CASE T # {}
    <3>1. PICK k \in T : \A l \in T : k <= l
      BY <1>2, <2>2
    <3>2. CASE k <= x
      BY <3>1, <3>2, <1>1
    <3>3. CASE ~(k <= x)
      <4>1. \A l \in T \union {x} : x <= l
        BY <3>1, <3>3, <1>1
      <4> QED BY <4>1
    <3> QED BY <3>2, <3>3
  <2> QED BY <2>1, <2>2
<1>3. {} \in F
  OBVIOUS
<1>4. S \in F
  <2> HIDE DEF F
  <2> QED BY <1>1, <1>2, <1>3, SubsetInduction
<1> QED BY <1>4 DEF Min

\* Some request is the dearest.
LEMMA DearestRequest ==
  ASSUME PoolAssumption
  PROVE  Max(Costs) \in Costs /\ Max(Costs) \in Nat /\ \A c \in Costs : c <= Max(Costs)
<1> DEFINE F == {T \in SUBSET Costs : T = {} \/ \E c \in T : \A d \in T : d <= c}
<1>1. IsFiniteSet(Costs) /\ Costs \subseteq Nat /\ Costs # {}
  BY DEF PoolAssumption
<1>2. ASSUME NEW T \in SUBSET Costs, NEW x \in Costs \ T, T \in F
      PROVE  T \union {x} \in F
  <2>1. CASE T = {}
    BY <2>1, <1>1
  <2>2. CASE T # {}
    <3>1. PICK c \in T : \A d \in T : d <= c
      BY <1>2, <2>2
    <3>2. CASE x <= c
      BY <3>1, <3>2, <1>1
    <3>3. CASE ~(x <= c)
      <4>1. \A d \in T \union {x} : d <= x
        BY <3>1, <3>3, <1>1
      <4> QED BY <4>1
    <3> QED BY <3>2, <3>3
  <2> QED BY <2>1, <2>2
<1>3. {} \in F
  OBVIOUS
<1>4. Costs \in F
  <2> HIDE DEF F
  <2> QED BY <1>1, <1>2, <1>3, SubsetInduction
<1> QED BY <1>1, <1>4 DEF Max

-----------------------------------------------------------------------------
(* What the operations on the file keep.                                   *)

\* The active key of a merged file can be used: a key that is out, or has used
\* up its credits, is never handed out (_merge_state).
Mergeable(f, g) ==
  /\ g \in Files /\ g.period = period
  /\ g.active # 0 => ~g.out[g.active] /\ g.used[g.active] < Limit[g.active]
  /\ f.period = period =>
       /\ g.used = f.used
       /\ \A k \in Keys : g.out[k] <=> f.out[k] \/ f.used[k] >= Limit[k]
  /\ f.period # period => \A k \in Keys : g.used[k] = 0 /\ ~g.out[k]

LEMMA FirstIsUsable ==
  ASSUME PoolAssumption, NEW f \in Files
  PROVE  /\ First(f) \in Keys \union {0}
         /\ First(f) # 0 => ~f.out[First(f)] /\ f.used[First(f)] < Limit[First(f)]
<1>1. Available(f) \subseteq Keys
  BY DEF Available
<1>2. CASE Available(f) = {}
  BY <1>2 DEF First
<1>3. CASE Available(f) # {}
  <2>1. First(f) \in Available(f)
    BY <1>1, <1>3, LeastKey DEF First
  <2> QED BY <1>1, <2>1 DEF Available
<1> QED BY <1>2, <1>3

LEMMA MergedIsUsable ==
  ASSUME PoolAssumption, NEW f \in Files, period \in Nat
  PROVE  Mergeable(f, Merged(f))
<1>1. CASE Outdated(f)
  <2>1. Min(Keys) \in Keys
    BY LeastKey DEF PoolAssumption
  <2>2. Merged(f) = Empty(period)
    BY <1>1 DEF Merged
  <2>3. Merged(f) \in Files
    BY <2>1, <2>2 DEF Empty, Files
  <2>4. /\ Merged(f).period = period /\ Merged(f).active = Min(Keys)
        /\ \A k \in Keys : Merged(f).used[k] = 0 /\ ~Merged(f).out[k]
    BY <2>2 DEF Empty
  <2>5. \A k \in Keys : 0 < Limit[k]
    BY DEF PoolAssumption
  <2> QED BY <1>1, <2>1, <2>3, <2>4, <2>5 DEF Outdated, Mergeable
<1>2. CASE ~Outdated(f)
  <2> DEFINE g == [f EXCEPT !.out = [k \in Keys |-> f.out[k] \/ f.used[k] >= Limit[k]]]
  <2>1. /\ g \in Files /\ g.period = f.period /\ g.used = f.used /\ g.active = f.active
        /\ \A k \in Keys : g.out[k] <=> f.out[k] \/ f.used[k] >= Limit[k]
    BY DEF Files, PoolAssumption
  <2>2. Merged(f) = IF g.active # 0 /\ ~g.out[g.active] THEN g
                    ELSE [g EXCEPT !.active = First(g)]
    BY <1>2 DEF Merged
  <2>3. f.period = period
    BY <1>2 DEF Outdated
  <2> HIDE DEF g
  <2>4. CASE g.active # 0 /\ ~g.out[g.active]
    BY <2>1, <2>2, <2>3, <2>4 DEF Mergeable, Files, PoolAssumption
  <2>5. CASE ~(g.active # 0 /\ ~g.out[g.active])
    <3>1. Merged(f) = [g EXCEPT !.active = First(g)]
      BY <2>2, <2>5
    <3>2. /\ First(g) \in Keys \union {0}
          /\ First(g) # 0 => ~g.out[First(g)] /\ g.used[First(g)] < Limit[First(g)]
      BY <2>1, FirstIsUsable
    <3> QED BY <2>1, <2>3, <3>1, <3>2 DEF Mergeable, Files
  <2> QED BY <2>4, <2>5
<1> QED BY <1>1, <1>2

\* A report adds to one key's count and takes a key out that has used up its
\* credits (record_scrapfly_credits).
LEMMA ReportedCounts ==
  ASSUME PoolAssumption, NEW f \in Files, NEW k \in Keys, NEW c \in Nat
  PROVE  /\ Reported(f, k, c) \in Files
         /\ Reported(f, k, c).period = f.period
         /\ \A l \in Keys : Reported(f, k, c).used[l] = f.used[l] + (IF l = k THEN c ELSE 0)
         /\ \A l \in Keys : Reported(f, k, c).out[l] <=>
              f.out[l] \/ (l = k /\ f.used[k] + c >= Limit[k])
<1> DEFINE g == [f EXCEPT !.used[k] = @ + c, !.out[k] = @ \/ f.used[k] + c >= Limit[k]]
<1>1. /\ g \in Files /\ g.period = f.period /\ g.used = [f.used EXCEPT ![k] = @ + c]
      /\ \A l \in Keys : g.out[l] <=> f.out[l] \/ (l = k /\ f.used[k] + c >= Limit[k])
  <2> DEFINE full == f.out[k] \/ f.used[k] + c >= Limit[k]
  <2>1. f.used \in [Keys -> Nat] /\ f.out \in [Keys -> BOOLEAN] /\ full \in BOOLEAN
    BY DEF Files
  <2>2. g = [f EXCEPT !.used = [f.used EXCEPT ![k] = @ + c], !.out = [f.out EXCEPT ![k] = full]]
    BY DEF Files
  <2>3. \A l \in Keys : f.out[l] \/ (l = k /\ f.used[k] + c >= Limit[k])
                        <=> IF l = k THEN full ELSE f.out[l]
    OBVIOUS
  <2> HIDE DEF full, g
  <2>4. /\ [f.used EXCEPT ![k] = @ + c] \in [Keys -> Nat]
        /\ [f.out EXCEPT ![k] = full] \in [Keys -> BOOLEAN]
    BY <2>1
  <2>5. /\ g \in Files /\ g.period = f.period /\ g.used = [f.used EXCEPT ![k] = @ + c]
        /\ g.out = [f.out EXCEPT ![k] = full]
    BY <2>2, <2>4 DEF Files
  <2> QED BY <2>1, <2>3, <2>5
<1>2. Reported(f, k, c) = IF g.used[k] >= Limit[k] THEN [g EXCEPT !.active = First(g)]
                          ELSE IF g.active = 0 THEN [g EXCEPT !.active = k]
                          ELSE g
  BY DEF Reported
<1> HIDE DEF g
<1>3. First(g) \in Keys \union {0}
  BY <1>1, FirstIsUsable
<1>4. /\ Reported(f, k, c) \in Files /\ Reported(f, k, c).period = g.period
      /\ Reported(f, k, c).used = g.used /\ Reported(f, k, c).out = g.out
  BY <1>1, <1>2, <1>3 DEF Files
<1>5. \A l \in Keys : g.used[l] = f.used[l] + (IF l = k THEN c ELSE 0)
  BY <1>1 DEF Files
<1> QED BY <1>1, <1>4, <1>5

\* A mark takes out one key and changes no count (mark_scrapfly_key_exhausted).
LEMMA MarkedCounts ==
  ASSUME PoolAssumption, NEW f \in Files, NEW k \in Keys
  PROVE  /\ Marked(f, k) \in Files
         /\ Marked(f, k).period = f.period
         /\ Marked(f, k).used = f.used
         /\ \A l \in Keys : Marked(f, k).out[l] <=> f.out[l] \/ l = k
<1> DEFINE g == [f EXCEPT !.out[k] = TRUE]
<1>1. /\ g \in Files /\ g.period = f.period /\ g.used = f.used
      /\ \A l \in Keys : g.out[l] <=> f.out[l] \/ l = k
  BY DEF Files
<1>2. Marked(f, k) = [g EXCEPT !.active = First(g)]
  BY DEF Marked
<1> HIDE DEF g
<1>3. First(g) \in Keys \union {0}
  BY <1>1, FirstIsUsable
<1> QED BY <1>1, <1>2, <1>3 DEF Files

\* The file a lost one is replaced by.
LEMMA NoFile ==
  ASSUME PoolAssumption
  PROVE  /\ [Empty(0) EXCEPT !.active = 0] \in Files
         /\ [Empty(0) EXCEPT !.active = 0].period = 0
         /\ \A k \in Keys : [Empty(0) EXCEPT !.active = 0].used[k] = 0
BY DEF Empty, Files

-----------------------------------------------------------------------------
(* The scrapes and the file are sound.                                     *)

\* A scrape that waits for an answer or has one holds a key; one that goes on to
\* the next key has attempts left, and nothing is dated after the period that is.
WorkerSound(v) ==
  /\ v.at <= period
  /\ v.pc \in {"sent", "billed", "refused"} => v.key \in Keys
  /\ v.pc = "billed" => v.cost \in Costs
  /\ v.pc = "idle" => v.tries = 0
  /\ v.pc = "again" => v.tries < AttemptLimit
  /\ v.pc = "refused" /\ v.at = period => v.key \in refusedNow

PoolSound ==
  /\ TypeOK
  /\ file.period <= period
  /\ \A w \in Workers : WorkerSound(worker[w])

LEMMA RestingSound ==
  ASSUME PoolAssumption, period \in Nat
  PROVE  Resting \in WorkerStates /\ WorkerSound(Resting)
BY DEF PoolAssumption, Resting, WorkerStates, WorkerSound

LEMMA PoolSoundInit ==
  ASSUME PoolAssumption, Init
  PROVE  PoolSound
<1>1. period = 1 /\ file \in Files /\ file.period = 0
  BY NoFile DEF Init
<1>2. \A w \in Workers : worker[w] \in WorkerStates /\ WorkerSound(worker[w])
  BY <1>1, RestingSound DEF Init
<1>3. worker \in [Workers -> WorkerStates]
  BY <1>2 DEF Init
<1> QED BY <1>1, <1>2, <1>3 DEF Init, PoolSound, TypeOK, PoolAssumption

\* Merging the file leaves the pool sound.
LEMMA MergedSound ==
  ASSUME PoolAssumption, PoolSound
  PROVE  Mergeable(file, Merged(file))
BY MergedIsUsable DEF PoolSound, TypeOK

\* A step that changes one scrape keeps the others sound if neither the period
\* nor the refusals of the period go back.
LEMMA OthersStaySound ==
  ASSUME PoolSound, NEW w \in Workers, NEW v \in WorkerStates,
         period' = period, refusedNow \subseteq refusedNow',
         worker' = [worker EXCEPT ![w] = v], WorkerSound(v)'
  PROVE  /\ worker' \in [Workers -> WorkerStates]
         /\ \A x \in Workers : WorkerSound(worker[x])'
<1>1. worker \in [Workers -> WorkerStates]
  BY DEF PoolSound, TypeOK
<1>2. ASSUME NEW x \in Workers PROVE WorkerSound(worker[x])'
  <2>1. CASE x = w
    BY <1>1, <2>1 DEF WorkerSound
  <2>2. CASE x # w
    <3>1. worker'[x] = worker[x] /\ WorkerSound(worker[x])
      BY <1>1, <2>2 DEF PoolSound
    <3> QED BY <3>1 DEF WorkerSound
  <2> QED BY <2>1, <2>2
<1> QED BY <1>1, <1>2
\* Scrapes that stop, one by one or all that are left, are sound as well.
LEMMA StoppedSound ==
  ASSUME PoolAssumption, PoolSound, NEW w \in Workers, period' = period,
         refusedNow \subseteq refusedNow', worker' = [worker EXCEPT ![w] = Resting]
  PROVE  /\ worker' \in [Workers -> WorkerStates]
         /\ \A x \in Workers : WorkerSound(worker[x])'
<1>1. Resting \in WorkerStates /\ WorkerSound(Resting)'
  BY DEF PoolSound, TypeOK, PoolAssumption, Resting, WorkerStates, WorkerSound
<1> QED BY <1>1, OthersStaySound

LEMMA AcquireSound ==
  ASSUME PoolAssumption, PoolSound, NEW w \in Workers, Acquire(w)
  PROVE  PoolSound'
<1>1. Mergeable(file, file')
  BY MergedSound DEF Acquire
<1>2. /\ file' \in Files /\ file'.period = period /\ period' = period
      /\ file'.active \in Keys \union {0}
  BY <1>1 DEF Mergeable, Acquire, Files
<1>3. /\ worker' \in [Workers -> WorkerStates]
      /\ \A x \in Workers : WorkerSound(worker[x])'
  <2>1. CASE file'.active = 0
    BY <2>1, StoppedSound DEF Acquire
  <2>2. CASE file'.active # 0
    <3>1. PICK v : v = [worker[w] EXCEPT !.pc = "sent", !.key = file'.active, !.at = period,
                                         !.tries = @ + 1]
      OBVIOUS
    <3>2. /\ worker[w] \in WorkerStates /\ worker[w].tries \in Nat
          /\ worker[w].tries < AttemptLimit /\ AttemptLimit \in Nat /\ period \in Nat
      BY DEF PoolSound, WorkerSound, TypeOK, WorkerStates, Acquire, PoolAssumption
    <3>3. worker' = [worker EXCEPT ![w] = v]
      BY <2>2, <3>1 DEF Acquire
    <3>4. PICK key \in Keys : key = file'.active
      BY <1>2, <2>2
    <3>5. v = [worker[w] EXCEPT !.pc = "sent", !.key = key, !.at = period,
                                !.tries = worker[w].tries + 1]
      BY <3>1, <3>4
    <3>6. worker[w].tries + 1 \in 0 .. AttemptLimit
      BY <3>2
    <3>7. v.pc = "sent" /\ v.key \in Keys /\ v \in WorkerStates /\ v.at = period
      BY <3>2, <3>5, <3>6 DEF WorkerStates
    <3>8. /\ v.pc = "sent" /\ v.key \in Keys /\ v.at = period'
          /\ v \in WorkerStates
      BY <1>2, <3>7
    <3>9. WorkerSound(v)'
      BY <1>2, <3>2, <3>8 DEF WorkerSound
    <3> QED BY <3>3, <3>8, <3>9, OthersStaySound DEF Acquire
  <2> QED BY <2>1, <2>2
<1> QED BY <1>2, <1>3 DEF PoolSound, TypeOK, Acquire

LEMMA AnswerSound ==
  ASSUME PoolAssumption, PoolSound, NEW w \in Workers, Answer(w)
  PROVE  PoolSound'
<1>1. /\ worker[w] \in WorkerStates /\ worker[w].key \in Keys /\ worker[w].pc = "sent"
      /\ worker \in [Workers -> WorkerStates] /\ spent \in [Keys -> Nat] /\ period \in Nat
      /\ refusedNow \subseteq Keys /\ Costs \subseteq Nat /\ period' = period
  BY DEF PoolSound, WorkerSound, TypeOK, Answer, PoolAssumption
<1> DEFINE k == worker[w].key
<1>2. ASSUME NEW c \in Costs,
             spent' = [spent EXCEPT ![k] = @ + c],
             worker' = [worker EXCEPT ![w].pc = "billed", ![w].cost = c, ![w].at = period],
             UNCHANGED refusedNow
      PROVE  PoolSound'
  <2>1. PICK v : v = [worker[w] EXCEPT !.pc = "billed", !.cost = c, !.at = period]
    OBVIOUS
  <2>2. worker' = [worker EXCEPT ![w] = v]
    BY <1>1, <1>2, <2>1 DEF WorkerStates
  <2>3. /\ v.pc = "billed" /\ v.key \in Keys /\ v.cost \in Costs /\ v.at = period
        /\ v \in WorkerStates
    BY <1>1, <1>2, <2>1 DEF WorkerStates
  <2>6. WorkerSound(v)'
    BY <1>1, <2>3 DEF WorkerSound
  <2>4. /\ worker' \in [Workers -> WorkerStates]
        /\ \A x \in Workers : WorkerSound(worker[x])'
    BY <1>2, <2>2, <2>3, <2>6, OthersStaySound DEF Answer
  <2>5. spent' \in [Keys -> Nat]
    BY <1>1, <1>2
  <2> QED BY <1>2, <2>4, <2>5 DEF PoolSound, TypeOK, Answer
<1>3. ASSUME worker' = [worker EXCEPT ![w].pc = "refused", ![w].at = period],
             refusedNow' = refusedNow \union {k}, UNCHANGED spent
      PROVE  PoolSound'
  <2>1. PICK v : v = [worker[w] EXCEPT !.pc = "refused", !.at = period]
    OBVIOUS
  <2>2. worker' = [worker EXCEPT ![w] = v]
    BY <1>1, <1>3, <2>1 DEF WorkerStates
  <2>3. /\ v.pc = "refused" /\ v.key = k /\ v.at = period
        /\ v \in WorkerStates
    BY <1>1, <2>1 DEF WorkerStates
  <2>5. WorkerSound(v)'
    BY <1>1, <1>3, <2>3 DEF WorkerSound
  <2>4. /\ worker' \in [Workers -> WorkerStates]
        /\ \A x \in Workers : WorkerSound(worker[x])'
    BY <1>3, <2>2, <2>3, <2>5, OthersStaySound DEF Answer
  <2> QED BY <1>1, <1>3, <2>4 DEF PoolSound, TypeOK, Answer
<1> QED BY <1>2, <1>3 DEF Answer

LEMMA ReportSound ==
  ASSUME PoolAssumption, PoolSound, NEW w \in Workers, Report(w)
  PROVE  PoolSound'
<1>1. worker[w].key \in Keys /\ worker[w].cost \in Nat
  BY DEF PoolSound, WorkerSound, Report, PoolAssumption
<1>2. Merged(file) \in Files /\ Merged(file).period = period
  BY MergedSound DEF Mergeable
<1>3. file' \in Files /\ file'.period = period
  <2>1. PICK f \in Files, k \in Keys, c \in Nat :
          f = Merged(file) /\ k = worker[w].key /\ c = worker[w].cost
    BY <1>1, <1>2
  <2>2. Reported(f, k, c) \in Files /\ Reported(f, k, c).period = f.period
    BY ReportedCounts
  <2> QED BY <1>2, <2>1, <2>2 DEF Report
<1>4. /\ worker' \in [Workers -> WorkerStates]
      /\ \A x \in Workers : WorkerSound(worker[x])'
  BY StoppedSound DEF Report
<1> QED BY <1>3, <1>4 DEF PoolSound, TypeOK, Report

LEMMA MarkExhaustedSound ==
  ASSUME PoolAssumption, PoolSound, NEW w \in Workers, MarkExhausted(w)
  PROVE  PoolSound'
<1>1. /\ worker[w] \in WorkerStates /\ worker[w].key \in Keys /\ period \in Nat
      /\ AttemptLimit \in Nat
  BY DEF PoolSound, WorkerSound, TypeOK, MarkExhausted, PoolAssumption
<1>2. Merged(file) \in Files /\ Merged(file).period = period
  BY MergedSound DEF Mergeable
<1>3. file' \in Files /\ file'.period = period
  BY <1>1, <1>2, MarkedCounts DEF MarkExhausted
<1>4. /\ worker' \in [Workers -> WorkerStates]
      /\ \A x \in Workers : WorkerSound(worker[x])'
  <2>1. CASE worker[w].tries = AttemptLimit
    <3>1. worker' = [worker EXCEPT ![w] = Resting]
      BY <2>1 DEF MarkExhausted
    <3> QED BY <3>1, StoppedSound DEF MarkExhausted
  <2>2. CASE worker[w].tries # AttemptLimit
    <3>1. PICK v : /\ v = [worker[w] EXCEPT !.pc = "again", !.key = 0, !.at = 0]
                   /\ worker' = [worker EXCEPT ![w] = v]
      BY <2>2 DEF MarkExhausted
    <3>2. /\ v.pc = "again" /\ v.at = 0 /\ v.tries < AttemptLimit
          /\ v \in WorkerStates
      <4>1. worker[w].tries \in 0 .. AttemptLimit /\ 0 \in Nat
        BY <1>1 DEF WorkerStates
      <4>2. worker[w].tries < AttemptLimit
        BY <1>1, <2>2, <4>1
      <4> QED BY <1>1, <3>1, <4>1, <4>2 DEF WorkerStates
    <3>3. WorkerSound(v)'
      BY <1>1, <3>2 DEF WorkerSound, MarkExhausted
    <3> QED BY <3>1, <3>2, <3>3, OthersStaySound DEF MarkExhausted
  <2> QED BY <2>1, <2>2
<1> QED BY <1>3, <1>4 DEF PoolSound, TypeOK, MarkExhausted

LEMMA DieSound ==
  ASSUME PoolAssumption, PoolSound, NEW w \in Workers, Die(w)
  PROVE  PoolSound'
<1>1. /\ worker' \in [Workers -> WorkerStates]
      /\ \A x \in Workers : WorkerSound(worker[x])'
  BY StoppedSound DEF Die
<1>2. lost' \in [Keys -> Nat]
  <2>1. lost \in [Keys -> Nat] /\ (worker[w].pc = "billed" => worker[w].cost \in Nat)
    BY DEF PoolSound, TypeOK, WorkerSound, PoolAssumption
  <2>2. CASE worker[w].pc = "billed" /\ worker[w].at = period
    <3>1. PICK k \in Keys, c \in Nat : lost' = [lost EXCEPT ![k] = lost[k] + c]
      BY <2>1, <2>2 DEF Die, PoolSound, WorkerSound
    <3> QED BY <2>1, <3>1
  <2>3. CASE ~(worker[w].pc = "billed" /\ worker[w].at = period)
    BY <2>1, <2>3 DEF Die
  <2> QED BY <2>2, <2>3
<1>3. losses' \in 0 .. MaxLost
  BY DEF Die, PoolSound, TypeOK, PoolAssumption
<1> QED BY <1>1, <1>2, <1>3 DEF PoolSound, TypeOK, Die

LEMMA TurnPeriodSound ==
  ASSUME PoolAssumption, PoolSound, TurnPeriod
  PROVE  PoolSound'
<1>1. /\ period \in Nat /\ period' = period + 1 /\ file' = file /\ worker' = worker
      /\ file.period \in Nat /\ \A x \in Workers : worker[x].at \in Nat
  BY DEF PoolSound, TypeOK, TurnPeriod, Files, WorkerStates
<1>2. \A x \in Workers : WorkerSound(worker[x])'
  BY <1>1 DEF PoolSound, WorkerSound
<1> QED BY <1>1, <1>2 DEF PoolSound, TypeOK, TurnPeriod

LEMMA PoolSoundNext ==
  ASSUME PoolAssumption, PoolSound, [Next]_vars
  PROVE  PoolSound'
<1>1. ASSUME NEW w \in Workers, Fail(w) PROVE PoolSound'
  <2>1. /\ worker' \in [Workers -> WorkerStates]
        /\ \A x \in Workers : WorkerSound(worker[x])'
    BY <1>1, StoppedSound DEF Fail
  <2> QED BY <1>1, <2>1 DEF PoolSound, TypeOK, Fail
<1>2. CASE Snapshot
  BY <1>2, MergedSound DEF Snapshot, Mergeable, PoolSound, TypeOK, WorkerSound
<1>3. CASE LoseFile
  <2>1. file' \in Files /\ file'.period = 0 /\ losses' \in 0 .. MaxLost
    BY <1>3, NoFile DEF LoseFile, PoolSound, TypeOK, PoolAssumption
  <2> QED BY <1>3, <2>1 DEF LoseFile, PoolSound, TypeOK, WorkerSound
<1>4. CASE UNCHANGED vars
  BY <1>4 DEF vars, PoolSound, TypeOK, WorkerSound
<1> QED BY <1>1, <1>2, <1>3, <1>4, AcquireSound, AnswerSound, ReportSound, MarkExhaustedSound,
           DieSound, TurnPeriodSound DEF Next

\* The pool stays sound: with keys, limits and costs as the code takes them, the
\* file and every scrape have their types, whoever is refused holds a key, and no
\* scrape tries more keys than its loop allows.
THEOREM PoolStaysSound ==
  ASSUME PoolAssumption
  PROVE  Spec => []PoolSound
<1>1. Init => PoolSound
  BY PoolSoundInit
<1>2. PoolSound /\ [Next]_vars => PoolSound'
  BY PoolSoundNext
<1> QED BY <1>1, <1>2, PTL DEF Spec
-----------------------------------------------------------------------------
(* A key that is out stays out.                                            *)

\* Only taking a key begins a request.
LEMMA OnlyAcquireSends ==
  ASSUME PoolSound, [Next]_vars, ~(\E w \in Workers : Acquire(w)),
         NEW x \in Workers, worker'[x].pc = "sent"
  PROVE  worker[x].pc = "sent"
<1>1. worker \in [Workers -> WorkerStates]
  BY DEF PoolSound, TypeOK
<1>2. ASSUME NEW w \in Workers, worker' = [worker EXCEPT ![w] = Resting]
      PROVE  worker[x].pc = "sent"
  BY <1>1, <1>2 DEF Resting
<1>3. ASSUME NEW w \in Workers, Answer(w) PROVE worker[x].pc = "sent"
  <2>1. CASE x = w
    BY <1>3, <2>1 DEF Answer
  <2>2. CASE x # w
    BY <1>1, <1>3, <2>2 DEF Answer
  <2> QED BY <2>1, <2>2
<1>4. ASSUME NEW w \in Workers, MarkExhausted(w) PROVE worker[x].pc = "sent"
  <2>1. CASE worker[w].tries = AttemptLimit
    BY <1>2, <1>4, <2>1 DEF MarkExhausted
  <2>2. CASE worker[w].tries # AttemptLimit
    <3>1. worker' = [worker EXCEPT ![w] =
                       [worker[w] EXCEPT !.pc = "again", !.key = 0, !.at = 0]]
      BY <1>4, <2>2 DEF MarkExhausted
    <3> QED BY <1>1, <3>1 DEF WorkerStates
  <2> QED BY <2>1, <2>2
<1>5. ASSUME UNCHANGED worker PROVE worker[x].pc = "sent"
  BY <1>5
<1> QED BY <1>2, <1>3, <1>4, <1>5
        DEF Next, Fail, Report, Die, Snapshot, LoseFile, TurnPeriod, vars

\* What Reported and Marked do to the file of the pool.
LEMMA ReportCounts ==
  ASSUME PoolAssumption, PoolSound, NEW w \in Workers, Report(w)
  PROVE  /\ worker[w].key \in Keys /\ worker[w].cost \in Nat
         /\ file'.period = period
         /\ \A k \in Keys :
              /\ file'.used[k] = Merged(file).used[k]
                                  + (IF k = worker[w].key THEN worker[w].cost ELSE 0)
              /\ file'.out[k] <=> Merged(file).out[k]
                                  \/ (k = worker[w].key /\ file'.used[k] >= Limit[k])
<1>1. worker[w].key \in Keys /\ worker[w].cost \in Nat
  BY DEF PoolSound, WorkerSound, Report, PoolAssumption
<1>2. PICK f \in Files, k \in Keys, c \in Nat :
        f = Merged(file) /\ k = worker[w].key /\ c = worker[w].cost
  BY <1>1, MergedSound DEF Mergeable
<1>3. f.period = period
  BY <1>2, MergedSound DEF Mergeable
<1>4. file' = Reported(f, k, c)
  BY <1>2 DEF Report
<1>5. /\ Reported(f, k, c).period = f.period
      /\ \A l \in Keys : Reported(f, k, c).used[l] = f.used[l] + (IF l = k THEN c ELSE 0)
      /\ \A l \in Keys : Reported(f, k, c).out[l] <=>
              f.out[l] \/ (l = k /\ f.used[k] + c >= Limit[k])
  BY ReportedCounts
<1> QED BY <1>1, <1>2, <1>3, <1>4, <1>5

LEMMA MarkCounts ==
  ASSUME PoolAssumption, PoolSound, NEW w \in Workers, MarkExhausted(w)
  PROVE  /\ worker[w].key \in Keys
         /\ file'.period = period
         /\ file'.used = Merged(file).used
         /\ \A k \in Keys : file'.out[k] <=> Merged(file).out[k] \/ k = worker[w].key
<1>1. worker[w].key \in Keys
  BY DEF PoolSound, WorkerSound, MarkExhausted, PoolAssumption
<1>2. PICK f \in Files, k \in Keys : f = Merged(file) /\ k = worker[w].key
  BY <1>1, MergedSound DEF Mergeable
<1>3. f.period = period
  BY <1>2, MergedSound DEF Mergeable
<1>4. file' = Marked(f, k)
  BY <1>2 DEF MarkExhausted
<1>5. /\ Marked(f, k).period = f.period
      /\ Marked(f, k).used = f.used
      /\ \A l \in Keys : Marked(f, k).out[l] <=> f.out[l] \/ l = k
  BY MarkedCounts
<1> QED BY <1>1, <1>2, <1>3, <1>4, <1>5

LEMMA ExhaustedStaysOutNext ==
  ASSUME PoolAssumption, PoolSound, [Next]_vars
  PROVE  ExhaustedStaysOutStep
<1> SUFFICES ASSUME NEW k \in Keys, Merged(file).out[k], period' = period, file'.period # 0
             PROVE  /\ file'.out[k] \/ file'.used[k] >= Limit[k] \/ UNCHANGED file
                    /\ \A x \in Workers :
                         worker[x].pc # "sent" /\ worker'[x].pc = "sent" => worker'[x].key # k
  BY DEF ExhaustedStaysOutStep
<1>1. ASSUME NEW w \in Workers, Acquire(w)
      PROVE  /\ file'.out[k]
             /\ \A x \in Workers :
                  worker[x].pc # "sent" /\ worker'[x].pc = "sent" => worker'[x].key # k
  <2>1. file' = Merged(file) /\ Mergeable(file, file')
    BY <1>1, MergedSound DEF Acquire
  <2>2. file'.active # 0 => file'.active # k
    BY <2>1 DEF Mergeable
  <2>3. ASSUME NEW x \in Workers, worker[x].pc # "sent", worker'[x].pc = "sent"
        PROVE  worker'[x].key # k
    <3>1. worker \in [Workers -> WorkerStates]
      BY DEF PoolSound, TypeOK
    <3>2. x = w /\ file'.active # 0
      BY <1>1, <2>3, <3>1 DEF Acquire, Resting
    <3>3. worker'[w] = [worker[w] EXCEPT !.pc = "sent", !.key = file'.active, !.at = period,
                                         !.tries = @ + 1]
      BY <1>1, <3>1, <3>2 DEF Acquire
    <3>4. worker'[w].key = file'.active
      BY <3>1, <3>3 DEF WorkerStates
    <3> QED BY <2>2, <3>2, <3>4
  <2> QED BY <2>1, <2>3
<1>2. ASSUME ~(\E w \in Workers : Acquire(w)), NEW x \in Workers,
             worker[x].pc # "sent", worker'[x].pc = "sent"
      PROVE  FALSE
  BY <1>2, OnlyAcquireSends
<1>3. ASSUME NEW w \in Workers, Report(w) PROVE file'.out[k]
  BY <1>3, ReportCounts
<1>4. ASSUME NEW w \in Workers, MarkExhausted(w) PROVE file'.out[k]
  BY <1>4, MarkCounts
<1>5. CASE Snapshot
  BY <1>2, <1>5 DEF Snapshot
<1>6. ~LoseFile
  BY NoFile DEF LoseFile
<1> QED BY <1>1, <1>2, <1>3, <1>4, <1>5, <1>6 DEF Next, Answer, Fail, Die, TurnPeriod, vars

\* Whichever key the reports of other requests make active, no scrape takes a key
\* that is out until the period turns or the file is lost (acquire_scrapfly_key).
THEOREM ExhaustedKeyStaysOut ==
  ASSUME PoolAssumption
  PROVE  Spec => ExhaustedStaysOut
<1>1. PoolSound /\ [Next]_vars => ExhaustedStaysOutStep
  BY ExhaustedStaysOutNext
<1> QED BY <1>1, PoolStaysSound, PTL DEF Spec, ExhaustedStaysOut
-----------------------------------------------------------------------------
(* Every bill is counted.                                                  *)

Dear == 1 .. Max(Costs)
CountNow(k) == IF file.period = period THEN file.used[k] ELSE 0

LEMMA MergedCount ==
  ASSUME PoolAssumption, PoolSound
  PROVE  \A k \in Keys : Merged(file).used[k] = CountNow(k) /\ CountNow(k) \in Nat
<1>1. Mergeable(file, Merged(file))
  BY MergedSound
<1> QED BY <1>1 DEF Mergeable, CountNow, PoolSound, TypeOK, Files

\* BillsCounted, with what a merge would find in the file.
BillsCountedNow ==
  \A k \in Keys : spent[k] <= CountNow(k) + lost[k] + Cardinality(OnTheWay(k))

LEMMA WayIsFinite ==
  ASSUME PoolAssumption
  PROVE  \A k \in Keys : IsFiniteSet(OnTheWay(k)) /\ Cardinality(OnTheWay(k)) \in Nat
<1>1. IsFiniteSet(Dear)
  BY DearestRequest, FS_Interval DEF Dear
<1>2. IsFiniteSet(Workers \X Dear)
  BY <1>1, FS_Product DEF PoolAssumption
<1>3. ASSUME NEW k \in Keys PROVE OnTheWay(k) \in SUBSET (Workers \X Dear)
  BY DEF OnTheWay, Unreported, Dear
<1> QED BY <1>2, <1>3, FS_Subset, FS_CardinalityType

LEMMA WayIsFiniteNext ==
  ASSUME PoolAssumption
  PROVE  \A k \in Keys : IsFiniteSet(OnTheWay(k)') /\ Cardinality(OnTheWay(k)') \in Nat
<1>1. IsFiniteSet(Dear)
  BY DearestRequest, FS_Interval DEF Dear
<1>2. IsFiniteSet(Workers \X Dear)
  BY <1>1, FS_Product DEF PoolAssumption
<1>3. ASSUME NEW k \in Keys PROVE OnTheWay(k)' \in SUBSET (Workers \X Dear)
  BY DEF OnTheWay, Unreported, Dear
<1> QED BY <1>2, <1>3, FS_Subset, FS_CardinalityType

\* The credits of one scrape, as pairs.
LEMMA PairsOfOne ==
  ASSUME NEW w, NEW c \in Nat
  PROVE  IsFiniteSet({w} \X (1 .. c)) /\ Cardinality({w} \X (1 .. c)) = c
<1>1. IsFiniteSet({w}) /\ Cardinality({w}) = 1
  BY FS_Singleton
<1>2. IsFiniteSet(1 .. c) /\ Cardinality(1 .. c) = c
  BY FS_Interval
<1>3. /\ IsFiniteSet({w} \X (1 .. c))
      /\ Cardinality({w} \X (1 .. c)) = Cardinality({w}) * Cardinality(1 .. c)
  BY <1>1, <1>2, FS_Product
<1> QED BY <1>1, <1>2, <1>3

\* A scrape that is done with its bill takes its credits off the way, and no
\* other's.
LEMMA WayLosesOne ==
  ASSUME PoolAssumption, PoolSound, NEW w \in Workers, period' = period,
         \A x \in Workers \ {w} : worker'[x] = worker[x],
         worker'[w].pc # "billed", NEW k \in Keys
  PROVE  Cardinality(OnTheWay(k)) = Cardinality(OnTheWay(k)')
           + (IF w \in Unreported(k) THEN worker[w].cost ELSE 0)
<1>1. Unreported(k)' = Unreported(k) \ {w}
  BY DEF Unreported
<1>2. CASE w \notin Unreported(k)
  <2>1. OnTheWay(k)' = OnTheWay(k)
    BY <1>1, <1>2 DEF OnTheWay, Unreported
  <2> QED BY <1>2, <2>1, WayIsFinite
<1>3. CASE w \in Unreported(k)
  <2> DEFINE own == {w} \X (1 .. worker[w].cost)
  <2>1. worker[w].cost \in Costs
    BY <1>3 DEF PoolSound, WorkerSound, Unreported
  <2>2. worker[w].cost \in Nat /\ worker[w].cost <= Max(Costs) /\ Max(Costs) \in Nat
    BY <2>1, DearestRequest DEF PoolAssumption
  <2>3. OnTheWay(k) = OnTheWay(k)' \union own
    <3>1. ASSUME NEW x \in Workers, NEW i \in Dear
          PROVE  <<x, i>> \in OnTheWay(k) <=> <<x, i>> \in OnTheWay(k)' \union own
      BY <1>1, <1>3, <2>2 DEF OnTheWay, Unreported, Dear
    <3>2. OnTheWay(k) \subseteq Workers \X Dear /\ OnTheWay(k)' \subseteq Workers \X Dear
      BY DEF OnTheWay, Unreported, Dear
    <3>3. own \subseteq Workers \X Dear
      BY <2>2 DEF Dear
    <3> HIDE DEF own
    <3> QED BY <3>1, <3>2, <3>3
  <2>4. OnTheWay(k)' \intersect own = {}
    BY <1>1 DEF OnTheWay
  <2>5. IsFiniteSet(own) /\ Cardinality(own) = worker[w].cost
    BY <2>2, PairsOfOne
  <2> HIDE DEF own
  <2>6. IsFiniteSet(OnTheWay(k)') /\ Cardinality(OnTheWay(k)') \in Nat
    BY WayIsFiniteNext
  <2>7. Cardinality(OnTheWay(k)' \union own)
          = Cardinality(OnTheWay(k)') + Cardinality(own) - Cardinality({})
    BY <2>4, <2>5, <2>6, FS_Union
  <2>8. Cardinality({}) = 0
    BY FS_EmptySet
  <2> QED BY <1>3, <2>2, <2>3, <2>5, <2>6, <2>7, <2>8
<1> QED BY <1>2, <1>3

\* A bill brings its credits on the way.
LEMMA WayGainsOne ==
  ASSUME PoolAssumption, PoolSound, NEW w \in Workers, period' = period,
         \A x \in Workers \ {w} : worker'[x] = worker[x],
         worker[w].pc # "billed", worker'[w].pc = "billed", worker'[w].at = period,
         NEW c \in Costs, worker'[w].cost = c, NEW k \in Keys
  PROVE  Cardinality(OnTheWay(k)') = Cardinality(OnTheWay(k))
           + (IF worker'[w].key = k THEN c ELSE 0)
<1>1. Unreported(k)' = IF worker'[w].key = k THEN Unreported(k) \union {w} ELSE Unreported(k)
  BY DEF Unreported
<1>2. w \notin Unreported(k)
  BY DEF Unreported
<1>3. CASE worker'[w].key # k
  <2>1. OnTheWay(k)' = OnTheWay(k)
    BY <1>1, <1>2, <1>3 DEF OnTheWay, Unreported
  <2> QED BY <1>3, <2>1, WayIsFinite
<1>4. CASE worker'[w].key = k
  <2> DEFINE own == {w} \X (1 .. c)
  <2>1. c \in Nat /\ c <= Max(Costs) /\ Max(Costs) \in Nat
    BY DearestRequest DEF PoolAssumption
  <2>2. OnTheWay(k)' = OnTheWay(k) \union own
    <3>1. ASSUME NEW x \in Workers, NEW i \in Dear
          PROVE  <<x, i>> \in OnTheWay(k)' <=> <<x, i>> \in OnTheWay(k) \union own
      BY <1>1, <1>2, <1>4, <2>1 DEF OnTheWay, Unreported, Dear
    <3>2. OnTheWay(k) \subseteq Workers \X Dear /\ OnTheWay(k)' \subseteq Workers \X Dear
      BY DEF OnTheWay, Unreported, Dear
    <3>3. own \subseteq Workers \X Dear
      BY <2>1 DEF Dear
    <3> HIDE DEF own
    <3> QED BY <3>1, <3>2, <3>3
  <2>3. OnTheWay(k) \intersect own = {}
    BY <1>2 DEF OnTheWay
  <2>4. IsFiniteSet(own) /\ Cardinality(own) = c
    BY <2>1, PairsOfOne
  <2> HIDE DEF own
  <2>5. IsFiniteSet(OnTheWay(k)) /\ Cardinality(OnTheWay(k)) \in Nat
    BY WayIsFinite
  <2>6. Cardinality(OnTheWay(k) \union own)
          = Cardinality(OnTheWay(k)) + Cardinality(own) - Cardinality({})
    BY <2>3, <2>4, <2>5, FS_Union
  <2>7. Cardinality({}) = 0
    BY FS_EmptySet
  <2> QED BY <1>4, <2>1, <2>2, <2>4, <2>5, <2>6, <2>7
<1> QED BY <1>3, <1>4
LEMMA AnswerIsCounted ==
  ASSUME PoolAssumption, PoolSound, BillsCountedNow, NEW w \in Workers, Answer(w)
  PROVE  BillsCountedNow'
<1>1. /\ worker[w] \in WorkerStates /\ worker[w].key \in Keys /\ worker[w].pc = "sent"
      /\ worker \in [Workers -> WorkerStates] /\ spent \in [Keys -> Nat]
      /\ lost \in [Keys -> Nat] /\ period' = period /\ file' = file /\ lost' = lost
  BY DEF PoolSound, WorkerSound, TypeOK, Answer
<1>2. \A k \in Keys : CountNow(k)' = CountNow(k) /\ CountNow(k) \in Nat
  BY <1>1, MergedCount DEF CountNow
<1> DEFINE key == worker[w].key
<1>3. ASSUME NEW c \in Costs,
             spent' = [spent EXCEPT ![key] = @ + c],
             worker' = [worker EXCEPT ![w].pc = "billed", ![w].cost = c, ![w].at = period]
      PROVE  BillsCountedNow'
  <2>1. /\ \A x \in Workers \ {w} : worker'[x] = worker[x]
        /\ worker'[w].pc = "billed" /\ worker'[w].at = period /\ worker'[w].cost = c
        /\ worker'[w].key = key
    BY <1>1, <1>3 DEF WorkerStates
  <2>2. \A k \in Keys : Cardinality(OnTheWay(k)') = Cardinality(OnTheWay(k))
                                                    + (IF key = k THEN c ELSE 0)
    <3>1. worker[w].pc # "billed"
      BY <1>1
    <3> QED BY <1>1, <2>1, <3>1, WayGainsOne
  <2>3. \A k \in Keys : /\ spent[k] \in Nat
                        /\ spent'[k] = spent[k] + (IF key = k THEN c ELSE 0)
    BY <1>1, <1>3
  <2>4. c \in Nat
    BY DEF PoolAssumption
  <2> SUFFICES ASSUME NEW k \in Keys
               PROVE  spent'[k] <= CountNow(k)' + lost'[k] + Cardinality(OnTheWay(k)')
    BY DEF BillsCountedNow
  <2>5. spent[k] <= CountNow(k) + lost[k] + Cardinality(OnTheWay(k))
    BY DEF BillsCountedNow
  <2>6. Cardinality(OnTheWay(k)) \in Nat /\ lost[k] \in Nat
    BY <1>1, WayIsFinite
  <2> QED BY <1>1, <1>2, <2>2, <2>3, <2>4, <2>5, <2>6
<1>4. ASSUME worker' = [worker EXCEPT ![w].pc = "refused", ![w].at = period], UNCHANGED spent
      PROVE  BillsCountedNow'
  <2>1. \A k \in Keys : Cardinality(OnTheWay(k)) = Cardinality(OnTheWay(k)')
    <3>1. /\ \A x \in Workers \ {w} : worker'[x] = worker[x]
          /\ worker'[w].pc # "billed"
      BY <1>1, <1>4 DEF WorkerStates
    <3>2. \A k \in Keys : w \notin Unreported(k)
      BY <1>1 DEF Unreported
    <3> QED BY <1>1, <3>1, <3>2, WayLosesOne, WayIsFiniteNext
  <2> QED BY <1>1, <1>2, <1>4, <2>1 DEF BillsCountedNow
<1> QED BY <1>3, <1>4 DEF Answer

\* A scrape that is done leaves the count as it was if what it still had to
\* report was counted, or lost, in the same step.
LEMMA DoneIsCounted ==
  ASSUME PoolAssumption, PoolSound, BillsCountedNow, NEW w \in Workers, period' = period,
         spent' = spent, worker' = [worker EXCEPT ![w] = Resting],
         NEW more \in [Keys -> Nat],
         \A k \in Keys : /\ CountNow(k)' + lost'[k] = CountNow(k) + lost[k] + more[k]
                         /\ w \in Unreported(k) => worker[w].cost <= more[k]
                         /\ CountNow(k)' \in Nat /\ lost'[k] \in Nat
  PROVE  BillsCountedNow'
<1> SUFFICES ASSUME NEW k \in Keys
             PROVE  spent'[k] <= CountNow(k)' + lost'[k] + Cardinality(OnTheWay(k)')
  BY DEF BillsCountedNow
<1>1. /\ \A x \in Workers \ {w} : worker'[x] = worker[x]
      /\ worker'[w].pc # "billed"
  BY DEF PoolSound, TypeOK, Resting
<1>2. Cardinality(OnTheWay(k)) = Cardinality(OnTheWay(k)')
        + (IF w \in Unreported(k) THEN worker[w].cost ELSE 0)
  BY <1>1, WayLosesOne
<1>3. w \in Unreported(k) => worker[w].cost \in Nat
  BY DEF Unreported, PoolSound, WorkerSound, PoolAssumption
<1>4. spent[k] <= CountNow(k) + lost[k] + Cardinality(OnTheWay(k))
  BY DEF BillsCountedNow
<1>5. Cardinality(OnTheWay(k)') \in Nat /\ CountNow(k) \in Nat
  BY WayIsFiniteNext, MergedCount
<1>6. spent[k] \in Nat /\ lost[k] \in Nat
  BY DEF PoolSound, TypeOK
<1> QED BY <1>2, <1>3, <1>4, <1>5, <1>6

LEMMA ReportIsCounted ==
  ASSUME PoolAssumption, PoolSound, BillsCountedNow, NEW w \in Workers, Report(w)
  PROVE  BillsCountedNow'
<1> DEFINE key == worker[w].key
           cost == worker[w].cost
<1>1. key \in Keys /\ cost \in Nat
  BY ReportCounts
<1>2. \A k \in Keys : file'.used[k] = Merged(file).used[k] + (IF k = key THEN cost ELSE 0)
  BY ReportCounts
<1>3. \A k \in Keys : CountNow(k)' = file'.used[k]
  BY ReportCounts DEF Report, CountNow
<1> HIDE DEF key, cost
<1> DEFINE more == [k \in Keys |-> IF k = key THEN cost ELSE 0]
<1>4. more \in [Keys -> Nat]
  BY <1>1
<1>5. /\ period' = period /\ spent' = spent /\ lost' = lost
      /\ worker' = [worker EXCEPT ![w] = Resting]
  BY DEF Report
<1>6. ASSUME NEW k \in Keys
      PROVE  /\ CountNow(k)' + lost'[k] = CountNow(k) + lost[k] + more[k]
             /\ w \in Unreported(k) => worker[w].cost <= more[k]
             /\ CountNow(k)' \in Nat /\ lost'[k] \in Nat
  <2>1. lost[k] \in Nat /\ CountNow(k) \in Nat /\ Merged(file).used[k] = CountNow(k)
    BY MergedCount DEF PoolSound, TypeOK
  <2>2. w \in Unreported(k) => k = key /\ worker[w].cost = cost
    BY DEF Unreported, key, cost
  <2> QED BY <1>1, <1>2, <1>3, <1>5, <2>1, <2>2
<1> HIDE DEF more
<1> QED BY <1>4, <1>5, <1>6, DoneIsCounted

LEMMA DieIsCounted ==
  ASSUME PoolAssumption, PoolSound, BillsCountedNow, NEW w \in Workers, Die(w)
  PROVE  BillsCountedNow'
<1> DEFINE missing == worker[w].pc = "billed" /\ worker[w].at = period
           more == [k \in Keys |-> IF missing /\ k = worker[w].key THEN worker[w].cost ELSE 0]
<1>1. worker[w].pc = "billed" => worker[w].key \in Keys /\ worker[w].cost \in Nat
  BY DEF PoolSound, WorkerSound, PoolAssumption
<1>2. more \in [Keys -> Nat]
  BY <1>1
<1>3. /\ period' = period /\ spent' = spent /\ file' = file
      /\ worker' = [worker EXCEPT ![w] = Resting]
  BY DEF Die
<1>4. lost \in [Keys -> Nat]
  BY DEF PoolSound, TypeOK
<1>5. \A k \in Keys : lost'[k] = lost[k] + more[k]
  <2>1. CASE missing
    <3>1. lost' = [lost EXCEPT ![worker[w].key] = @ + worker[w].cost]
      BY <2>1 DEF Die
    <3> QED BY <1>1, <1>4, <2>1, <3>1
  <2>2. CASE ~missing
    BY <1>4, <2>2 DEF Die
  <2> QED BY <2>1, <2>2
<1>6. ASSUME NEW k \in Keys
      PROVE  /\ CountNow(k)' + lost'[k] = CountNow(k) + lost[k] + more[k]
             /\ w \in Unreported(k) => worker[w].cost <= more[k]
             /\ CountNow(k)' \in Nat /\ lost'[k] \in Nat
  <2>1. CountNow(k)' = CountNow(k) /\ CountNow(k) \in Nat
    BY <1>3, MergedCount DEF CountNow
  <2>2. w \in Unreported(k) => missing /\ k = worker[w].key
    BY DEF Unreported
  <2>3. more[k] \in Nat /\ lost[k] \in Nat
    BY <1>2, <1>4
  <2> QED BY <1>1, <1>5, <2>1, <2>2, <2>3
<1> HIDE DEF more, missing
<1> QED BY <1>2, <1>3, <1>6, DoneIsCounted

LEMMA BillsCountedNext ==
  ASSUME PoolAssumption, PoolSound, PoolSound', BillsCountedNow, [Next]_vars
  PROVE  BillsCountedNow'
<1>1. /\ worker \in [Workers -> WorkerStates] /\ spent \in [Keys -> Nat]
      /\ lost \in [Keys -> Nat]
  BY DEF PoolSound, TypeOK
<1>2. \A k \in Keys : CountNow(k) \in Nat /\ CountNow(k)' \in Nat
  BY DEF CountNow, PoolSound, TypeOK, Files
<1>3. \A k \in Keys : Cardinality(OnTheWay(k)) \in Nat /\ Cardinality(OnTheWay(k)') \in Nat
  BY WayIsFinite, WayIsFiniteNext
\* A step that begins or ends no bill of a request leaves what is on the way.
<1>4. ASSUME UNCHANGED <<period, spent, lost>>,
             \A k \in Keys : CountNow(k)' = CountNow(k),
             NEW w \in Workers, \A x \in Workers \ {w} : worker'[x] = worker[x],
             worker[w].pc # "billed", worker'[w].pc # "billed"
      PROVE  BillsCountedNow'
  <2>1. \A k \in Keys : w \notin Unreported(k)
    BY <1>4 DEF Unreported
  <2>2. \A k \in Keys : Cardinality(OnTheWay(k)) = Cardinality(OnTheWay(k)')
    BY <1>3, <1>4, <2>1, WayLosesOne
  <2> QED BY <1>4, <2>2 DEF BillsCountedNow
<1>5. ASSUME UNCHANGED <<period, spent, lost, worker>>,
             \A k \in Keys : CountNow(k)' = CountNow(k)
      PROVE  BillsCountedNow'
  <2>1. \A k \in Keys : OnTheWay(k)' = OnTheWay(k)
    BY <1>5 DEF OnTheWay, Unreported
  <2> QED BY <1>5, <2>1 DEF BillsCountedNow
\* A merge changes no count.
<1>6. ASSUME file' = Merged(file), period' = period
      PROVE  \A k \in Keys : CountNow(k)' = CountNow(k)
  <2>1. Mergeable(file, file')
    BY <1>6, MergedSound
  <2> QED BY <1>6, <2>1, MergedCount DEF Mergeable, CountNow
<1>7. ASSUME NEW w \in Workers, Acquire(w) PROVE BillsCountedNow'
  <2>1. /\ \A x \in Workers \ {w} : worker'[x] = worker[x]
        /\ worker[w].pc # "billed" /\ worker'[w].pc # "billed"
    <3>1. CASE file'.active = 0
      BY <1>1, <1>7, <3>1 DEF Acquire, Resting
    <3>2. CASE file'.active # 0
      <4>1. worker' = [worker EXCEPT ![w] =
                         [worker[w] EXCEPT !.pc = "sent", !.key = file'.active, !.at = period,
                                           !.tries = @ + 1]]
        BY <1>7, <3>2 DEF Acquire
      <4>2. worker'[w].pc = "sent"
        BY <1>1, <4>1 DEF WorkerStates
      <4> QED BY <1>1, <1>7, <4>1, <4>2 DEF Acquire
    <3> QED BY <3>1, <3>2
  <2> QED BY <1>4, <1>6, <1>7, <2>1 DEF Acquire
<1>8. ASSUME NEW w \in Workers, Fail(w) PROVE BillsCountedNow'
  <2>1. /\ \A x \in Workers \ {w} : worker'[x] = worker[x]
        /\ worker[w].pc # "billed" /\ worker'[w].pc # "billed"
    BY <1>1, <1>8 DEF Fail, Resting
  <2>2. \A k \in Keys : CountNow(k)' = CountNow(k)
    BY <1>8 DEF Fail, CountNow
  <2> QED BY <1>4, <1>8, <2>1, <2>2 DEF Fail
<1>9. ASSUME NEW w \in Workers, MarkExhausted(w) PROVE BillsCountedNow'
  <2>1. /\ \A x \in Workers \ {w} : worker'[x] = worker[x]
        /\ worker[w].pc # "billed" /\ worker'[w].pc # "billed"
    <3>1. CASE worker[w].tries = AttemptLimit
      BY <1>1, <1>9, <3>1 DEF MarkExhausted, Resting
    <3>2. CASE worker[w].tries # AttemptLimit
      <4>1. worker' = [worker EXCEPT ![w] =
                         [worker[w] EXCEPT !.pc = "again", !.key = 0, !.at = 0]]
        BY <1>9, <3>2 DEF MarkExhausted
      <4>2. worker'[w].pc = "again"
        BY <1>1, <4>1 DEF WorkerStates
      <4> QED BY <1>1, <1>9, <4>1, <4>2 DEF MarkExhausted
    <3> QED BY <3>1, <3>2
  <2>2. \A k \in Keys : CountNow(k)' = CountNow(k)
    <3>1. /\ file'.period = period /\ period' = period
          /\ file'.used = Merged(file).used
      BY <1>9, MarkCounts DEF MarkExhausted
    <3> QED BY <3>1, MergedCount DEF CountNow
  <2> QED BY <1>4, <1>9, <2>1, <2>2 DEF MarkExhausted
<1>10. CASE Snapshot
  BY <1>5, <1>6, <1>10 DEF Snapshot
<1>11. CASE LoseFile
  <2>1. lost' = spent /\ spent' = spent
    BY <1>11 DEF LoseFile
  <2> QED BY <1>1, <1>2, <1>3, <2>1 DEF BillsCountedNow
<1>12. CASE TurnPeriod
  <2>1. \A k \in Keys : spent'[k] = 0 /\ lost'[k] = 0
    BY <1>12 DEF TurnPeriod
  <2> QED BY <1>2, <1>3, <2>1 DEF BillsCountedNow
<1>13. CASE UNCHANGED vars
  <2>1. \A k \in Keys : CountNow(k)' = CountNow(k)
    BY <1>13 DEF vars, CountNow
  <2> QED BY <1>5, <1>13, <2>1 DEF vars
<1> QED BY <1>7, <1>8, <1>9, <1>10, <1>11, <1>12, <1>13, AnswerIsCounted, ReportIsCounted,
           DieIsCounted DEF Next

\* No bill is dropped: what the provider billed a key in this period is in the
\* count that the next access will find, on its way there, or was lost with a
\* process or the file (record_scrapfly_credits, _merge_state).
THEOREM EveryBillIsCounted ==
  ASSUME PoolAssumption
  PROVE  Spec => []BillsCounted
<1>1. Init => BillsCountedNow
  <2> SUFFICES ASSUME Init PROVE BillsCountedNow
    OBVIOUS
  <2>1. PoolSound
    BY PoolSoundInit
  <2>2. \A k \in Keys : spent[k] = 0 /\ lost[k] = 0 /\ CountNow(k) \in Nat
                        /\ Cardinality(OnTheWay(k)) \in Nat
    BY <2>1, MergedCount, WayIsFinite DEF Init
  <2> QED BY <2>2 DEF BillsCountedNow
<1>2. PoolSound /\ PoolSound' /\ BillsCountedNow /\ [Next]_vars => BillsCountedNow'
  BY BillsCountedNext
<1>3. PoolSound /\ BillsCountedNow => BillsCounted
  BY MergedCount DEF BillsCountedNow, BillsCounted
<1> QED BY <1>1, <1>2, <1>3, PoolStaysSound, PTL DEF Spec
-----------------------------------------------------------------------------
(* A key is not overspent by more than a request of each scrape.           *)

\* Scrapes whose request for a key is not reported, whenever it was sent.
Held(k) == {w \in Workers : worker[w].pc \in {"sent", "billed"} /\ worker[w].key = k}

\* The count of a key stays below its limit until the last request it was handed
\* out for: the dearest requests of the scrapes that hold it are room to spare.
CountKept(k, count) ==
  count + Cardinality(Held(k) \X Dear) <= Limit[k] - 1 + Cardinality(Workers \X Dear)

CountsKept == \A k \in Keys : CountKept(k, file.used[k])

LEMMA DearPairs ==
  ASSUME PoolAssumption, NEW S \in SUBSET Workers
  PROVE  /\ IsFiniteSet(S) /\ IsFiniteSet(Dear) /\ Cardinality(Dear) = Max(Costs)
         /\ IsFiniteSet(S \X Dear) /\ Cardinality(S \X Dear) \in Nat
         /\ Cardinality(S \X Dear) <= Cardinality(Workers \X Dear)
         /\ Cardinality(Workers \X Dear) \in Nat
<1>1. /\ IsFiniteSet(Dear) /\ Cardinality(Dear) = Max(Costs)
  BY DearestRequest, FS_Interval DEF Dear
<1>2. IsFiniteSet(Workers \X Dear) /\ IsFiniteSet(S)
  BY <1>1, FS_Product, FS_Subset DEF PoolAssumption
<1>3. (S \X Dear) \in SUBSET (Workers \X Dear)
  OBVIOUS
<1> HIDE DEF Dear
<1> QED BY <1>1, <1>2, <1>3, FS_Subset, FS_CardinalityType

\* A key whose count is below its limit has room for every scrape.
LEMMA RoomBelowLimit ==
  ASSUME PoolAssumption, NEW k \in Keys, NEW n \in Nat, n < Limit[k]
  PROVE  CountKept(k, n) /\ CountKept(k, n)'
<1>1. Limit[k] \in Nat
  BY DEF PoolAssumption
<1>2. Held(k) \in SUBSET Workers /\ Held(k)' \in SUBSET Workers
  BY DEF Held
<1>3. /\ Cardinality(Held(k) \X Dear) \in Nat
      /\ Cardinality(Held(k) \X Dear) <= Cardinality(Workers \X Dear)
      /\ Cardinality(Held(k)' \X Dear) \in Nat
      /\ Cardinality(Held(k)' \X Dear) <= Cardinality(Workers \X Dear)
      /\ Cardinality(Workers \X Dear) \in Nat
  BY <1>2, DearPairs
<1> QED BY <1>1, <1>3 DEF CountKept

\* Fewer holders and a lower count leave as much room.
LEMMA RoomStays ==
  ASSUME PoolAssumption, NEW k \in Keys, NEW n \in Nat, NEW m \in Nat, m <= n,
         CountKept(k, n), Held(k)' \subseteq Held(k)
  PROVE  CountKept(k, m)'
<1>1. Held(k) \in SUBSET Workers /\ Held(k)' \in SUBSET Workers
  BY DEF Held
<1>2. /\ IsFiniteSet(Held(k) \X Dear) /\ Cardinality(Held(k) \X Dear) \in Nat
      /\ Cardinality(Held(k)' \X Dear) \in Nat /\ Cardinality(Workers \X Dear) \in Nat
  BY <1>1, DearPairs
<1>3. Cardinality(Held(k)' \X Dear) <= Cardinality(Held(k) \X Dear)
  <2>1. (Held(k)' \X Dear) \in SUBSET (Held(k) \X Dear)
    OBVIOUS
  <2> QED BY <1>2, <2>1, FS_Subset
<1>4. Limit[k] \in Nat
  BY DEF PoolAssumption
<1> QED BY <1>2, <1>3, <1>4 DEF CountKept

\* A holder that reports frees the room its request took.
LEMMA RoomOfOne ==
  ASSUME PoolAssumption, NEW k \in Keys, NEW w \in Held(k), Held(k)' = Held(k) \ {w},
         NEW n \in Nat, NEW c \in Nat, c <= Max(Costs), CountKept(k, n)
  PROVE  CountKept(k, n + c)'
<1> DEFINE rest == Held(k) \ {w}
<1>1. /\ Held(k) \in SUBSET Workers /\ rest \in SUBSET Workers /\ {w} \in SUBSET Workers
      /\ Held(k)' = rest
  BY DEF Held
<1>2. /\ Cardinality(Held(k) \X Dear) \in Nat /\ Cardinality(rest \X Dear) \in Nat
      /\ IsFiniteSet(rest \X Dear) /\ IsFiniteSet({w} \X Dear)
      /\ Cardinality(Workers \X Dear) \in Nat
  BY <1>1, DearPairs
<1>3. Cardinality({w} \X Dear) = Max(Costs) /\ Max(Costs) \in Nat
  BY DearestRequest, PairsOfOne DEF Dear
<1>4. Held(k) \X Dear = (rest \X Dear) \union ({w} \X Dear)
  OBVIOUS
<1>5. (rest \X Dear) \intersect ({w} \X Dear) = {}
  OBVIOUS
<1> HIDE DEF rest
<1>6. Cardinality(Held(k) \X Dear)
        = Cardinality(rest \X Dear) + Cardinality({w} \X Dear) - Cardinality({})
  BY <1>2, <1>4, <1>5, FS_Union
<1>7. Cardinality({}) = 0 /\ Limit[k] \in Nat
  BY FS_EmptySet DEF PoolAssumption
<1>8. Cardinality(Held(k)' \X Dear) = Cardinality(rest \X Dear)
  BY <1>1
<1>9. n + Cardinality(Held(k) \X Dear) <= Limit[k] - 1 + Cardinality(Workers \X Dear)
  BY DEF CountKept
<1>10. n + c + Cardinality(Held(k)' \X Dear) <= Limit[k] - 1 + Cardinality(Workers \X Dear)
  BY <1>2, <1>3, <1>6, <1>7, <1>8, <1>9
<1> QED BY <1>10 DEF CountKept

\* A merge leaves the room of every key.
LEMMA RoomOfMerged ==
  ASSUME PoolAssumption, PoolSound, CountsKept
  PROVE  \A k \in Keys : Merged(file).used[k] \in Nat /\ CountKept(k, Merged(file).used[k])
<1> SUFFICES ASSUME NEW k \in Keys
             PROVE  Merged(file).used[k] \in Nat /\ CountKept(k, Merged(file).used[k])
  OBVIOUS
<1>1. Mergeable(file, Merged(file))
  BY MergedSound
<1>2. CASE file.period = period
  BY <1>1, <1>2 DEF Mergeable, CountsKept, PoolSound, TypeOK, Files
<1>3. CASE file.period # period
  <2>1. Merged(file).used[k] = 0
    BY <1>1, <1>3 DEF Mergeable
  <2>2. 0 \in Nat /\ 0 < Limit[k]
    BY DEF PoolAssumption
  <2> QED BY <2>1, <2>2, RoomBelowLimit
<1> QED BY <1>2, <1>3

LEMMA CountsKeptNext ==
  ASSUME PoolAssumption, PoolSound, PoolSound', CountsKept, [Next]_vars
  PROVE  CountsKept'
<1>1. worker \in [Workers -> WorkerStates]
  BY DEF PoolSound, TypeOK
<1>2. \A k \in Keys : file.used[k] \in Nat /\ file'.used[k] \in Nat
  BY DEF PoolSound, TypeOK, Files
<1>3. \A k \in Keys : Merged(file).used[k] \in Nat /\ CountKept(k, Merged(file).used[k])
  BY RoomOfMerged
\* A step that hands out no key and adds to no count.
<1>4. ASSUME \A k \in Keys : \/ file'.used[k] = file.used[k]
                             \/ file'.used[k] = Merged(file).used[k]
                             \/ file'.used[k] = 0,
             \A k \in Keys : Held(k)' \subseteq Held(k)
      PROVE  CountsKept'
  <2> SUFFICES ASSUME NEW k \in Keys PROVE CountKept(k, file.used[k])'
    BY DEF CountsKept, CountKept
  <2>1. CASE file'.used[k] = file.used[k]
    <3>1. PICK n \in Nat : n = file.used[k]
      BY <1>2
    <3>2. CountKept(k, n)'
      BY <1>4, <3>1, RoomStays DEF CountsKept
    <3> QED BY <2>1, <3>1, <3>2 DEF CountKept
  <2>2. CASE file'.used[k] = Merged(file).used[k]
    <3>1. PICK n \in Nat : n = Merged(file).used[k]
      BY <1>3
    <3>2. CountKept(k, n)'
      BY <1>3, <1>4, <3>1, RoomStays
    <3> QED BY <2>2, <3>1, <3>2 DEF CountKept
  <2>3. CASE file'.used[k] = 0
    <3>1. CountKept(k, 0)'
      BY RoomBelowLimit DEF PoolAssumption
    <3> QED BY <2>3, <3>1 DEF CountKept
  <2> QED BY <1>4, <2>1, <2>2, <2>3
<1>5. ASSUME NEW w \in Workers, \A x \in Workers \ {w} : worker'[x] = worker[x],
             worker'[w].pc \notin {"sent", "billed"}
      PROVE  \A k \in Keys : Held(k)' = Held(k) \ {w}
  BY <1>5 DEF Held
<1>6. ASSUME NEW w \in Workers, worker' = [worker EXCEPT ![w] = Resting]
      PROVE  \A k \in Keys : Held(k)' = Held(k) \ {w}
  BY <1>1, <1>5, <1>6 DEF Resting
<1>7. ASSUME NEW w \in Workers, Acquire(w) PROVE CountsKept'
  <2>1. file' = Merged(file) /\ Mergeable(file, file')
    BY <1>7, MergedSound DEF Acquire
  <2>2. CASE file'.active = 0
    BY <1>4, <1>6, <1>7, <2>1, <2>2 DEF Acquire
  <2>3. CASE file'.active # 0
    <3>1. worker' = [worker EXCEPT ![w] =
                       [worker[w] EXCEPT !.pc = "sent", !.key = file'.active, !.at = period,
                                         !.tries = @ + 1]]
      BY <1>7, <2>3 DEF Acquire
    <3>2. /\ worker'[w].key = file'.active
          /\ \A x \in Workers \ {w} : worker'[x] = worker[x]
      BY <1>1, <3>1 DEF WorkerStates
    <3> SUFFICES ASSUME NEW k \in Keys PROVE CountKept(k, file.used[k])'
      BY DEF CountsKept, CountKept
    <3>3. PICK n \in Nat : n = file'.used[k]
      BY <1>2
    <3>4. CASE k = file'.active
      <4>1. n < Limit[k]
        BY <2>1, <2>3, <3>3, <3>4 DEF Mergeable
      <4>2. CountKept(k, n)'
        BY <4>1, RoomBelowLimit
      <4> QED BY <3>3, <4>2 DEF CountKept
    <3>5. CASE k # file'.active
      <4>1. Held(k)' \subseteq Held(k)
        BY <3>2, <3>5 DEF Held
      <4>2. CountKept(k, n)
        BY <1>3, <2>1, <3>3
      <4>3. CountKept(k, n)'
        BY <4>1, <4>2, RoomStays
      <4> QED BY <3>3, <4>3 DEF CountKept
    <3> QED BY <3>4, <3>5
  <2> QED BY <2>2, <2>3
<1>8. ASSUME NEW w \in Workers, Answer(w) PROVE CountsKept'
  <2>1. \A k \in Keys : Held(k)' \subseteq Held(k)
    <3>1. worker[w].pc = "sent" /\ worker'[w].key = worker[w].key
      <4>1. worker[w].pc = "sent" /\ worker[w] \in WorkerStates
        BY <1>1, <1>8 DEF Answer
      <4>2. ASSUME NEW c, worker' = [worker EXCEPT ![w].pc = "billed", ![w].cost = c,
                                                   ![w].at = period]
            PROVE  worker'[w].key = worker[w].key
        BY <1>1, <4>1, <4>2 DEF WorkerStates
      <4>3. ASSUME worker' = [worker EXCEPT ![w].pc = "refused", ![w].at = period]
            PROVE  worker'[w].key = worker[w].key
        BY <1>1, <4>1, <4>3 DEF WorkerStates
      <4> QED BY <1>8, <4>1, <4>2, <4>3 DEF Answer
    <3>2. \A x \in Workers \ {w} : worker'[x] = worker[x]
      BY <1>1, <1>8 DEF Answer
    <3> QED BY <3>1, <3>2 DEF Held
  <2> QED BY <1>4, <1>8, <2>1 DEF Answer
<1>9. ASSUME NEW w \in Workers, Report(w) PROVE CountsKept'
  <2>1. /\ worker[w].key \in Keys /\ worker[w].cost \in Nat
        /\ \A k \in Keys : file'.used[k] = Merged(file).used[k]
                            + (IF k = worker[w].key THEN worker[w].cost ELSE 0)
    BY <1>9, ReportCounts
  <2>2. \A k \in Keys : Held(k)' = Held(k) \ {w}
    BY <1>6, <1>9 DEF Report
  <2>3. worker[w].cost <= Max(Costs) /\ w \in Held(worker[w].key)
    BY <1>9, DearestRequest DEF Report, PoolSound, WorkerSound, Held
  <2> SUFFICES ASSUME NEW k \in Keys PROVE CountKept(k, file.used[k])'
    BY DEF CountsKept, CountKept
  <2>4. PICK n \in Nat : n = Merged(file).used[k] /\ CountKept(k, n)
    BY <1>3
  <2>5. CASE k = worker[w].key
    <3>1. PICK c \in Nat : c = worker[w].cost
      BY <2>1
    <3>2. CountKept(k, n + c)'
      BY <2>2, <2>3, <2>4, <2>5, <3>1, RoomOfOne
    <3>3. file'.used[k] = n + c
      BY <2>1, <2>4, <2>5, <3>1
    <3> QED BY <3>2, <3>3 DEF CountKept
  <2>6. CASE k # worker[w].key
    <3>1. CountKept(k, n)'
      BY <2>2, <2>4, RoomStays
    <3>2. file'.used[k] = n
      BY <2>1, <2>4, <2>6
    <3> QED BY <3>1, <3>2 DEF CountKept
  <2> QED BY <2>5, <2>6
<1>10. ASSUME NEW w \in Workers, MarkExhausted(w) PROVE CountsKept'
  <2>1. file'.used = Merged(file).used
    BY <1>10, MarkCounts
  <2>2. \A k \in Keys : Held(k)' \subseteq Held(k)
    <3>1. CASE worker[w].tries = AttemptLimit
      BY <1>6, <1>10, <3>1 DEF MarkExhausted
    <3>2. CASE worker[w].tries # AttemptLimit
      <4>1. worker' = [worker EXCEPT ![w] =
                         [worker[w] EXCEPT !.pc = "again", !.key = 0, !.at = 0]]
        BY <1>10, <3>2 DEF MarkExhausted
      <4>2. /\ worker'[w].pc = "again"
            /\ \A x \in Workers \ {w} : worker'[x] = worker[x]
        BY <1>1, <4>1 DEF WorkerStates
      <4> QED BY <1>5, <4>2
    <3> QED BY <3>1, <3>2
  <2> QED BY <1>4, <2>1, <2>2
<1>11. ASSUME NEW w \in Workers, Fail(w) \/ Die(w) PROVE CountsKept'
  BY <1>4, <1>6, <1>11 DEF Fail, Die
<1>12. CASE UNCHANGED worker
  <2>1. \A k \in Keys : Held(k)' = Held(k)
    BY <1>12 DEF Held
  <2>2. CASE Snapshot
    BY <1>4, <2>1, <2>2 DEF Snapshot
  <2>3. CASE LoseFile
    <3>1. \A k \in Keys : file'.used[k] = 0
      BY <2>3, NoFile DEF LoseFile
    <3> QED BY <1>4, <2>1, <3>1
  <2>4. CASE UNCHANGED file
    BY <1>4, <2>1, <2>4
  <2>5. CASE \E w \in Workers : Acquire(w) \/ Answer(w) \/ Fail(w) \/ Report(w)
                                \/ MarkExhausted(w) \/ Die(w)
    BY <1>7, <1>8, <1>9, <1>10, <1>11, <2>5
  <2> QED BY <2>2, <2>3, <2>4, <2>5 DEF Next, TurnPeriod, vars
<1> QED BY <1>7, <1>8, <1>9, <1>10, <1>11, <1>12 DEF Next, Snapshot, LoseFile, TurnPeriod, vars

\* Whatever is reported late, in whatever order and across whatever turns of the
\* period, the provider bills a key at most one dearest request of each scrape
\* beyond the last credit of its limit, and what was lost (acquire_scrapfly_key).
THEOREM OverspendIsBounded ==
  ASSUME PoolAssumption
  PROVE  Spec => []OverspendBounded
<1>1. Init => CountsKept
  <2> SUFFICES ASSUME Init, NEW k \in Keys PROVE CountKept(k, file.used[k])
    BY DEF CountsKept
  <2>1. file.used[k] = 0 /\ 0 < Limit[k]
    BY NoFile DEF Init, PoolAssumption
  <2> QED BY <2>1, RoomBelowLimit
<1>2. PoolSound /\ PoolSound' /\ CountsKept /\ [Next]_vars => CountsKept'
  BY CountsKeptNext
<1>3. PoolSound /\ CountsKept /\ BillsCounted => OverspendBounded
  <2> SUFFICES ASSUME PoolSound, CountsKept, BillsCounted, NEW k \in Keys
               PROVE  spent[k] <= Limit[k] - 1 + Cardinality(Workers) * Max(Costs) + lost[k]
    BY DEF OverspendBounded
  <2>1. Merged(file).used[k] \in Nat /\ CountKept(k, Merged(file).used[k])
    BY RoomOfMerged
  <2>2. Cardinality(OnTheWay(k)) <= Cardinality(Held(k) \X Dear)
    <3>1. OnTheWay(k) \in SUBSET (Held(k) \X Dear)
      BY DEF OnTheWay, Unreported, Held, Dear
    <3>2. IsFiniteSet(Held(k) \X Dear)
      <4>1. Held(k) \in SUBSET Workers
        BY DEF Held
      <4> QED BY <4>1, DearPairs
    <3> QED BY <3>1, <3>2, FS_Subset
  <2>3. /\ Cardinality(OnTheWay(k)) \in Nat /\ Cardinality(Held(k) \X Dear) \in Nat
        /\ Cardinality(Workers \X Dear) \in Nat
    <3>1. Held(k) \in SUBSET Workers
      BY DEF Held
    <3> QED BY <3>1, WayIsFinite, DearPairs
  <2>4. Cardinality(Workers \X Dear) = Cardinality(Workers) * Max(Costs)
    <3>1. IsFiniteSet(Workers) /\ IsFiniteSet(Dear) /\ Cardinality(Dear) = Max(Costs)
      BY DearPairs DEF PoolAssumption
    <3>2. Cardinality(Workers \X Dear) = Cardinality(Workers) * Cardinality(Dear)
      BY <3>1, FS_Product
    <3> QED BY <3>1, <3>2
  <2>5. spent[k] <= Merged(file).used[k] + lost[k] + Cardinality(OnTheWay(k))
    BY DEF BillsCounted
  <2>6. spent[k] \in Nat /\ lost[k] \in Nat /\ Limit[k] \in Nat
    BY DEF PoolSound, TypeOK, PoolAssumption
  <2>7. spent[k] <= Limit[k] - 1 + Cardinality(Workers \X Dear) + lost[k]
    BY <2>1, <2>2, <2>3, <2>5, <2>6 DEF CountKept
  <2> QED BY <2>4, <2>7
<1> QED BY <1>1, <1>2, <1>3, PoolStaysSound, EveryBillIsCounted, PTL DEF Spec
-----------------------------------------------------------------------------
(* A turn of the period costs at most one usable key per scrape.           *)

\* Scrapes whose refusal is from a period that is over.
LateRefusals == {w \in Workers : worker[w].pc = "refused" /\ worker[w].at # period}

\* OutWithoutCause, as the file says it.
OutNow == {k \in Keys : /\ file.period = period /\ file.out[k]
                        /\ file.used[k] < Limit[k] /\ k \notin refusedNow}

FewKeysOutNow == Cardinality(OutNow) + Cardinality(LateRefusals) <= Cardinality(Workers)

LEMMA OutIsOutNow ==
  ASSUME PoolAssumption, PoolSound
  PROVE  OutWithoutCause = OutNow
<1>1. Mergeable(file, Merged(file))
  BY MergedSound
<1>2. \A k \in Keys : file.used[k] \in Nat /\ Limit[k] \in Nat
  BY DEF PoolSound, TypeOK, Files, PoolAssumption
<1>3. CASE file.period = period
  BY <1>1, <1>2, <1>3 DEF Mergeable, OutWithoutCause, OutNow
<1>4. CASE file.period # period
  BY <1>1, <1>4 DEF Mergeable, OutWithoutCause, OutNow
<1> QED BY <1>3, <1>4

LEMMA OutSetsAreFinite ==
  ASSUME PoolAssumption
  PROVE  /\ IsFiniteSet(OutNow) /\ Cardinality(OutNow) \in Nat
         /\ IsFiniteSet(OutNow') /\ Cardinality(OutNow') \in Nat
         /\ IsFiniteSet(LateRefusals) /\ Cardinality(LateRefusals) \in Nat
         /\ IsFiniteSet(LateRefusals') /\ Cardinality(LateRefusals') \in Nat
         /\ Cardinality(LateRefusals') <= Cardinality(Workers)
         /\ Cardinality(Workers) \in Nat
<1>1. /\ OutNow \in SUBSET Keys /\ OutNow' \in SUBSET Keys
      /\ LateRefusals \in SUBSET Workers /\ LateRefusals' \in SUBSET Workers
  BY DEF OutNow, LateRefusals
<1> QED BY <1>1, FS_Subset, FS_CardinalityType DEF PoolAssumption

\* No key more and no late refusal more.
LEMMA FewStayFew ==
  ASSUME PoolAssumption, FewKeysOutNow, OutNow' \subseteq OutNow,
         LateRefusals' \subseteq LateRefusals
  PROVE  FewKeysOutNow'
<1>1. /\ Cardinality(OutNow') <= Cardinality(OutNow)
      /\ Cardinality(LateRefusals') <= Cardinality(LateRefusals)
  BY OutSetsAreFinite, FS_Subset
<1>2. Cardinality(Workers)' = Cardinality(Workers)
  OBVIOUS
<1> QED BY <1>1, <1>2, OutSetsAreFinite DEF FewKeysOutNow

LEMMA FewKeysOutNext ==
  ASSUME PoolAssumption, PoolSound, PoolSound', FewKeysOutNow, [Next]_vars
  PROVE  FewKeysOutNow'
<1>1. worker \in [Workers -> WorkerStates]
  BY DEF PoolSound, TypeOK
<1>2. Mergeable(file, Merged(file))
  BY MergedSound
<1>3. \A k \in Keys : file.used[k] \in Nat /\ Limit[k] \in Nat
  BY DEF PoolSound, TypeOK, Files, PoolAssumption
\* What a merge takes out has used up its credits.
<1>4. ASSUME NEW k \in Keys, period' = period, k \notin refusedNow, Merged(file).out[k],
             Merged(file).used[k] < Limit[k]
      PROVE  k \in OutNow
  BY <1>2, <1>3, <1>4 DEF Mergeable, OutNow
<1>5. ASSUME NEW w \in Workers, worker' = [worker EXCEPT ![w] = Resting], period' = period
      PROVE  LateRefusals' = LateRefusals \ {w}
  BY <1>1, <1>5 DEF LateRefusals, Resting
<1>6. ASSUME NEW w \in Workers, Acquire(w) PROVE FewKeysOutNow'
  <2>1. OutNow' \subseteq OutNow
    BY <1>4, <1>6 DEF Acquire, OutNow
  <2>2. LateRefusals' \subseteq LateRefusals
    <3>1. CASE file'.active = 0
      BY <1>5, <1>6, <3>1 DEF Acquire
    <3>2. CASE file'.active # 0
      <4>1. worker' = [worker EXCEPT ![w] =
                         [worker[w] EXCEPT !.pc = "sent", !.key = file'.active, !.at = period,
                                           !.tries = @ + 1]]
        BY <1>6, <3>2 DEF Acquire
      <4>2. worker'[w].pc = "sent" /\ \A x \in Workers \ {w} : worker'[x] = worker[x]
        BY <1>1, <4>1 DEF WorkerStates
      <4> QED BY <1>6, <4>2 DEF Acquire, LateRefusals
    <3> QED BY <3>1, <3>2
  <2> QED BY <2>1, <2>2, FewStayFew
<1>7. ASSUME NEW w \in Workers, Answer(w) PROVE FewKeysOutNow'
  <2>1. OutNow' \subseteq OutNow
    BY <1>7 DEF Answer, OutNow
  <2>2. /\ worker'[w].at = period /\ \A x \in Workers \ {w} : worker'[x] = worker[x]
    <3>1. ASSUME NEW c, worker' = [worker EXCEPT ![w].pc = "billed", ![w].cost = c,
                                                 ![w].at = period]
          PROVE  worker'[w].at = period /\ \A x \in Workers \ {w} : worker'[x] = worker[x]
      BY <1>1, <3>1 DEF WorkerStates
    <3>2. ASSUME worker' = [worker EXCEPT ![w].pc = "refused", ![w].at = period]
          PROVE  worker'[w].at = period /\ \A x \in Workers \ {w} : worker'[x] = worker[x]
      BY <1>1, <3>2 DEF WorkerStates
    <3> QED BY <1>7, <3>1, <3>2 DEF Answer
  <2>3. LateRefusals' \subseteq LateRefusals
    BY <1>7, <2>2 DEF Answer, LateRefusals
  <2> QED BY <2>1, <2>3, FewStayFew
<1>8. ASSUME NEW w \in Workers, Report(w) PROVE FewKeysOutNow'
  <2>1. OutNow' \subseteq OutNow
    <3>1. \A k \in Keys : Merged(file).used[k] \in Nat
      BY <1>2 DEF Mergeable, Files
    <3>2. ASSUME NEW k \in OutNow' PROVE k \in OutNow
      <4>1. /\ k \in Keys /\ k \notin refusedNow /\ period' = period
            /\ Merged(file).out[k] /\ Merged(file).used[k] < Limit[k]
        <5>1. /\ k \in Keys /\ file'.out[k] /\ file'.used[k] < Limit[k]
              /\ k \notin refusedNow /\ period' = period
          BY <1>8, <3>2 DEF OutNow, Report
        <5>2. /\ worker[w].cost \in Nat
              /\ file'.used[k] = Merged(file).used[k]
                                 + (IF k = worker[w].key THEN worker[w].cost ELSE 0)
              /\ file'.out[k] <=> Merged(file).out[k]
                                 \/ (k = worker[w].key /\ file'.used[k] >= Limit[k])
          BY <1>8, <5>1, ReportCounts
        <5>3. Merged(file).used[k] \in Nat /\ Limit[k] \in Nat
          BY <1>3, <3>1, <5>1
        <5> QED BY <5>1, <5>2, <5>3
      <4> QED BY <1>4, <4>1
    <3> QED BY <3>2
  <2>2. LateRefusals' \subseteq LateRefusals
    BY <1>5, <1>8 DEF Report
  <2> QED BY <2>1, <2>2, FewStayFew
\* A late refusal takes one key out, and is over.
<1>9. ASSUME NEW w \in Workers, MarkExhausted(w) PROVE FewKeysOutNow'
  <2> DEFINE key == worker[w].key
  <2>1. OutNow' \subseteq OutNow \union {key}
    <3>1. ASSUME NEW k \in OutNow', k # key PROVE k \in OutNow
      <4>1. /\ k \in Keys /\ k \notin refusedNow /\ period' = period
            /\ Merged(file).out[k] /\ Merged(file).used[k] < Limit[k]
        BY <1>9, <3>1, MarkCounts DEF OutNow, MarkExhausted
      <4> QED BY <1>4, <4>1
    <3> QED BY <3>1
  <2>2. LateRefusals' = LateRefusals \ {w}
    <3>1. CASE worker[w].tries = AttemptLimit
      BY <1>5, <1>9, <3>1 DEF MarkExhausted
    <3>2. CASE worker[w].tries # AttemptLimit
      <4>1. worker' = [worker EXCEPT ![w] =
                         [worker[w] EXCEPT !.pc = "again", !.key = 0, !.at = 0]]
        BY <1>9, <3>2 DEF MarkExhausted
      <4>2. worker'[w].pc = "again" /\ \A x \in Workers \ {w} : worker'[x] = worker[x]
        BY <1>1, <4>1 DEF WorkerStates
      <4> QED BY <1>9, <4>2 DEF MarkExhausted, LateRefusals
    <3> QED BY <3>1, <3>2
  <2>3. CASE worker[w].at = period
    <3>1. key \in refusedNow
      BY <1>9, <2>3 DEF MarkExhausted, PoolSound, WorkerSound
    <3>2. OutNow' \subseteq OutNow
      BY <1>9, <2>1, <3>1 DEF MarkExhausted, OutNow
    <3> QED BY <2>2, <3>2, FewStayFew
  <2>4. CASE worker[w].at # period
    <3>1. w \in LateRefusals
      BY <1>9, <2>4 DEF MarkExhausted, LateRefusals
    <3>2. Cardinality(LateRefusals') = Cardinality(LateRefusals) - 1
      BY <2>2, <3>1, OutSetsAreFinite, FS_RemoveElement
    <3>3. /\ IsFiniteSet(OutNow \union {key})
          /\ Cardinality(OutNow \union {key}) \in Nat
          /\ Cardinality(OutNow \union {key}) <= Cardinality(OutNow) + 1
      <4>1. IsFiniteSet(OutNow) /\ Cardinality(OutNow) \in Nat
        BY OutSetsAreFinite
      <4>2. /\ IsFiniteSet(OutNow \union {key})
            /\ Cardinality(OutNow \union {key})
                 = IF key \in OutNow THEN Cardinality(OutNow) ELSE Cardinality(OutNow) + 1
        BY <4>1, FS_AddElement
      <4> QED BY <4>1, <4>2
    <3>4. Cardinality(OutNow') <= Cardinality(OutNow \union {key})
      <4>1. OutNow' \in SUBSET (OutNow \union {key})
        BY <2>1
      <4> QED BY <3>3, <4>1, FS_Subset
    <3> QED BY <3>2, <3>3, <3>4, OutSetsAreFinite DEF FewKeysOutNow
  <2> QED BY <2>3, <2>4
<1>10. ASSUME NEW w \in Workers, Fail(w) \/ Die(w) PROVE FewKeysOutNow'
  <2>1. OutNow' = OutNow
    BY <1>10 DEF Fail, Die, OutNow
  <2>2. LateRefusals' \subseteq LateRefusals
    BY <1>5, <1>10 DEF Fail, Die
  <2> QED BY <2>1, <2>2, FewStayFew
<1>11. CASE Snapshot
  <2>1. OutNow' \subseteq OutNow
    BY <1>4, <1>11 DEF Snapshot, OutNow
  <2>2. LateRefusals' = LateRefusals
    BY <1>11 DEF Snapshot, LateRefusals
  <2> QED BY <2>1, <2>2, FewStayFew
\* Without a file of the period no key is out.
<1>12. ASSUME OutNow' = {} PROVE FewKeysOutNow'
  BY <1>12, OutSetsAreFinite, FS_EmptySet DEF FewKeysOutNow
<1>13. CASE LoseFile
  <2>1. file'.period = 0 /\ period' = period /\ period # 0
    BY <1>13, NoFile DEF LoseFile, PoolSound, TypeOK
  <2> QED BY <1>12, <2>1 DEF OutNow
<1>14. CASE TurnPeriod
  <2>1. period' = period + 1 /\ file' = file /\ file.period <= period
    BY <1>14 DEF TurnPeriod, PoolSound
  <2>2. period \in Nat /\ file.period \in Nat
    BY DEF PoolSound, TypeOK, Files
  <2>3. file'.period # period'
    BY <2>1, <2>2
  <2> QED BY <1>12, <2>3 DEF OutNow
<1>15. CASE UNCHANGED vars
  BY <1>15 DEF vars, FewKeysOutNow, OutNow, LateRefusals
<1> QED BY <1>6, <1>7, <1>8, <1>9, <1>10, <1>11, <1>13, <1>14, <1>15 DEF Next

\* Refusals that arrive after a turn of the period, from however many scrapes, take
\* no more keys of the new period out than there are scrapes (mark_scrapfly_key_exhausted
\* does not compare the period of the lease).
THEOREM FewKeysAreOutWithoutCause ==
  ASSUME PoolAssumption
  PROVE  Spec => []FewKeysOutWithoutCause
<1>1. Init => FewKeysOutNow
  <2> SUFFICES ASSUME Init PROVE FewKeysOutNow
    OBVIOUS
  <2>1. file.period # period
    BY NoFile DEF Init
  <2>2. OutNow = {} /\ LateRefusals = {}
    BY <2>1 DEF OutNow, LateRefusals, Init, Resting
  <2> QED BY <2>2, FS_EmptySet, OutSetsAreFinite DEF FewKeysOutNow
<1>2. PoolSound /\ PoolSound' /\ FewKeysOutNow /\ [Next]_vars => FewKeysOutNow'
  BY FewKeysOutNext
<1>3. PoolSound /\ FewKeysOutNow => FewKeysOutWithoutCause
  BY OutIsOutNow DEF FewKeysOutNow, FewKeysOutWithoutCause, LateRefusals
<1> QED BY <1>1, <1>2, <1>3, PoolStaysSound, PTL DEF Spec
-----------------------------------------------------------------------------
(* The tokens of the readers: a module of its own, with its own variables. *)

CONSTANTS Requests, Legacy, Managers, MonthlyQuota, Rate, Lifetime, Interval, Window,
          MonthLength, MaxWait, MaxTime

VARIABLES now, token, usage, lock, counter, request

Access == INSTANCE ApiAccess WITH Quota <- MonthlyQuota

\* The instance counts its sets with the same operators.
LEMMA SameSets ==
  /\ \A S : Access!Cardinality(S) = Cardinality(S)
  /\ \A S : Access!IsFiniteSet(S) <=> IsFiniteSet(S)
<1>1. \A S : Access!Cardinality(S) = Cardinality(S)
  BY Zenon DEF Access!Cardinality, Cardinality
<1>2. \A S : Access!IsFiniteSet(S) <=> IsFiniteSet(S)
  BY SMT DEF Access!IsFiniteSet, IsFiniteSet
<1> QED BY <1>1, <1>2

LEMMA RequestsAreFinite ==
  ASSUME Access!AccessAssumption
  PROVE  IsFiniteSet(Requests)
BY SameSets DEF Access!AccessAssumption
-----------------------------------------------------------------------------
(* Months follow one another.                                              *)

LEMMA MonthsInOrder ==
  ASSUME Access!AccessAssumption
  PROVE  /\ \A t \in Nat : Access!Month(t) \in Nat
         /\ \A t \in Nat, u \in Nat : t <= u => Access!Month(t) <= Access!Month(u)
         /\ \A t \in 0 .. MaxTime : Access!Month(t) \in Access!Months
<1>1. \A t \in Nat : Access!Month(t) \in Nat
  BY DEF Access!AccessAssumption, Access!Month
<1>2. \A t \in Nat, u \in Nat : t <= u => Access!Month(t) <= Access!Month(u)
  BY DEF Access!AccessAssumption, Access!Month
<1>3. \A t \in 0 .. MaxTime : t \in Nat /\ t <= MaxTime
  BY DEF Access!AccessAssumption
<1>4. \A t \in 0 .. MaxTime : Access!Month(t) \in Nat /\ Access!Month(t) <= Access!Month(MaxTime)
  BY <1>1, <1>2, <1>3 DEF Access!AccessAssumption
<1> QED BY <1>1, <1>2, <1>4 DEF Access!Months, Access!AccessAssumption

-----------------------------------------------------------------------------
(* The token, its counters and the requests are sound.                     *)

Early == {"new", "touching", "counting", "locking", "writing"}

AccessRequests ==
  [pc : Early \union {"routing", "answering", "completing", "done"},
   auth : Nat \union {Access!Never}, at : Nat \union {Access!Never},
   counted : {<<>>} \union (Access!Layers \X Nat), charged : Nat \union {Access!Never},
   status : {Access!None, "ok", "error", "limited", "unbooked"}, gone : BOOLEAN,
   booked : Nat \union {Access!Never}]

\* A request is charged once, on its way from the lock to the route, and booked
\* once, when it ends; who waits for the lock does so for MaxWait at most.
RequestSound(r, v) ==
  /\ v.auth # Access!Never => v.auth <= now
  /\ v.pc = "new" => v.auth = Access!Never
  /\ v.pc \in {"touching", "locking", "writing"} =>
       v.at # Access!Never /\ v.at <= now /\ now - v.at <= MaxWait /\ r \notin Legacy
  /\ v.pc = "touching" => v.auth = v.at
  /\ v.pc \in {"new", "touching", "counting"} => v.counted = <<>>
  /\ v.charged # Access!Never => v.charged <= Access!Month(now) /\ v.pc \notin Early
  /\ v.pc \in {"routing", "answering"} /\ r \notin Legacy => v.charged # Access!Never
  /\ v.pc = "completing" => v.charged # Access!Never /\ r \notin Legacy
  /\ v.booked # Access!Never => v.pc = "done" /\ v.charged # Access!Never /\ v.charged <= v.booked
  /\ v.status = "ok" => v.pc \in {"completing", "done"}

Tokens == [expires : Nat \union {Access!Never}, used : Nat \union {Access!Never},
           revoked : Nat \union {Access!Never}, by : Managers \union {Access!None}]

AccessSound ==
  /\ now \in 0 .. MaxTime
  /\ token \in Tokens /\ (token.revoked # Access!Never => token.by # Access!None)
  /\ usage \in [Access!Months -> [requests : Nat, errors : Nat]]
  /\ lock \in Requests \union {Access!None}
  /\ counter \in [Access!Layers -> [n : Nat, until : Nat]]
  /\ request \in [Requests -> AccessRequests]
  /\ \A r \in Requests : RequestSound(r, request[r])
  /\ \A r \in Requests : request[r].pc = "writing" <=> lock = r

LEMMA AccessSoundInit ==
  ASSUME Access!AccessAssumption, Access!Init
  PROVE  AccessSound
<1>1. now = 0 /\ now \in 0 .. MaxTime /\ MaxWait \in Nat
  BY DEF Access!Init, Access!AccessAssumption
<1>2. Access!NewRequest \in AccessRequests /\ Access!NewRequest.pc = "new" /\ Access!NewRequest.auth = Access!Never
      /\ Access!NewRequest.charged = Access!Never /\ Access!NewRequest.booked = Access!Never /\ Access!NewRequest.counted = <<>>
      /\ Access!NewRequest.status = Access!None
  BY DEF Access!NewRequest, AccessRequests, Early, Access!Never
<1>3. \A r \in Requests : request[r] = Access!NewRequest
  BY DEF Access!Init
<1>4. \A r \in Requests : RequestSound(r, request[r]) /\ request[r].pc # "writing"
  BY <1>2, <1>3 DEF RequestSound, Access!None
<1>5. request \in [Requests -> AccessRequests]
  BY <1>2 DEF Access!Init
<1>6. token \in Tokens /\ token.revoked = Access!Never
  BY DEF Access!Init, Tokens
<1>7. lock = Access!None /\ \A r \in Requests : lock # r
  BY DEF Access!Init, Access!AccessAssumption
<1>8. /\ usage \in [Access!Months -> [requests : Nat, errors : Nat]]
      /\ counter \in [Access!Layers -> [n : Nat, until : Nat]]
  BY DEF Access!Init, Access!NoCount
<1> QED BY <1>1, <1>4, <1>5, <1>6, <1>7, <1>8 DEF AccessSound

\* A step that changes one request, in its time.
LEMMA RequestsStaySound ==
  ASSUME AccessSound, NEW r \in Requests, NEW v \in AccessRequests, now' = now,
         request' = [request EXCEPT ![r] = v], RequestSound(r, v)
  PROVE  /\ request' \in [Requests -> AccessRequests]
         /\ \A x \in Requests : RequestSound(x, request[x])'
         /\ request'[r] = v /\ \A x \in Requests \ {r} : request'[x] = request[x]
<1>1. request \in [Requests -> AccessRequests]
  BY DEF AccessSound
<1>2. request'[r] = v /\ \A x \in Requests \ {r} : request'[x] = request[x]
  BY <1>1
<1>3. ASSUME NEW x \in Requests PROVE RequestSound(x, request[x])'
  <2>1. PICK u : u = request'[x]
    OBVIOUS
  <2>2. RequestSound(x, u)
    BY <1>2, <2>1 DEF AccessSound
  <2> QED BY <2>1, <2>2 DEF RequestSound
<1> QED BY <1>1, <1>2, <1>3

\* A request that is over before the lock.
LEMMA OverSound ==
  ASSUME Access!AccessAssumption, AccessSound, NEW r \in Requests,
         NEW status \in {Access!None, "ok", "error", "limited", "unbooked"}
  PROVE  /\ Access!Over(r, status) \in AccessRequests
         /\ Access!Over(r, status).pc = "done" /\ Access!Over(r, status).status = status
         /\ Access!Over(r, status).auth = Access!Never /\ Access!Over(r, status).counted = request[r].counted
         /\ Access!Over(r, status).charged = request[r].charged
         /\ Access!Over(r, status).booked = request[r].booked
         /\ RequestSound(r, Access!Over(r, status))
<1>1. request[r] \in AccessRequests /\ RequestSound(r, request[r])
  BY DEF AccessSound
<1>2. /\ Access!Over(r, status) \in AccessRequests
      /\ Access!Over(r, status).pc = "done" /\ Access!Over(r, status).status = status
      /\ Access!Over(r, status).auth = Access!Never /\ Access!Over(r, status).counted = request[r].counted
      /\ Access!Over(r, status).charged = request[r].charged
      /\ Access!Over(r, status).booked = request[r].booked
  BY <1>1 DEF Access!Over, AccessRequests
<1>3. RequestSound(r, Access!Over(r, status))
  BY <1>1, <1>2 DEF RequestSound, Early
<1> QED BY <1>2, <1>3

\* A request that goes on to its booking, or ends.
LEMMA EndedSound ==
  ASSUME Access!AccessAssumption, AccessSound, NEW r \in Requests, NEW status \in {"ok", "error"},
         request[r].pc \in {"routing", "answering"}
  PROVE  /\ Access!Ended(r, status) \in AccessRequests
         /\ Access!Ended(r, status).pc = (IF r \in Legacy THEN "done" ELSE "completing")
         /\ Access!Ended(r, status).status = status
         /\ Access!Ended(r, status).auth = request[r].auth
         /\ Access!Ended(r, status).counted = request[r].counted
         /\ Access!Ended(r, status).charged = request[r].charged
         /\ Access!Ended(r, status).booked = request[r].booked
         /\ RequestSound(r, Access!Ended(r, status))
<1>1. request[r] \in AccessRequests /\ RequestSound(r, request[r])
  BY DEF AccessSound
<1>2. PICK p : p = (IF r \in Legacy THEN "done" ELSE "completing")
  OBVIOUS
<1>3. Access!Ended(r, status) = [request[r] EXCEPT !.pc = p, !.status = status, !.at = Access!Never]
  BY <1>2 DEF Access!Ended
<1>4. p \in {"done", "completing"}
  BY <1>2
<1>5. /\ Access!Ended(r, status) \in AccessRequests
      /\ Access!Ended(r, status).pc = p
      /\ Access!Ended(r, status).status = status /\ Access!Ended(r, status).auth = request[r].auth
      /\ Access!Ended(r, status).counted = request[r].counted
      /\ Access!Ended(r, status).charged = request[r].charged
      /\ Access!Ended(r, status).booked = request[r].booked
  BY <1>1, <1>3, <1>4 DEF AccessRequests
<1>6. RequestSound(r, Access!Ended(r, status))
  BY <1>1, <1>2, <1>4, <1>5 DEF RequestSound, Early
<1> QED BY <1>2, <1>5, <1>6

-----------------------------------------------------------------------------
(* Every step keeps them sound, and changes a request as its action says.  *)

\* What became of request r is v.
StepOf(r, v) ==
  /\ Access!Charge(r) \/ v.charged = request[r].charged
  /\ Access!Complete(r) \/ v.booked = request[r].booked
  /\ (\E layer \in Access!Layers, both \in BOOLEAN : Access!Count(r, layer, both))
       \/ v.counted = request[r].counted
  /\ request[r].pc = "done" => v = request[r]
  /\ v.pc = "writing" =>
       Access!Reserve(r) \/ (request[r].pc = "writing" /\ v.at = request[r].at)
  /\ v.pc = "done" /\ v.status = "ok" /\ r \notin Legacy =>
       Access!Complete(r) \/ request[r].pc = "done"
  /\ v.auth # Access!Never /\ v.pc \notin {"touching", "done"} =>
       \/ Access!Touch(r) \/ Access!Authenticate(r)
       \/ v.auth = request[r].auth /\ request[r].pc \notin {"touching", "done"}
  /\ v.pc = "answering" /\ r \notin Legacy => request[r].pc = "answering" \/ Access!Valid

AccessStep == AccessSound' /\ \A x \in Requests : StepOf(x, request'[x])

LEMMA StayingIsAStep == \A x \in Requests : StepOf(x, request[x])
BY DEF StepOf

LEMMA RequestStepSound ==
  ASSUME Access!AccessAssumption, AccessSound, NEW r \in Requests, NEW v \in AccessRequests,
         now' = now, lock' = lock, request' = [request EXCEPT ![r] = v], RequestSound(r, v),
         StepOf(r, v), v.pc = "writing" <=> request[r].pc = "writing",
         token' \in Tokens, token'.revoked # Access!Never => token'.by # Access!None,
         usage' \in [Access!Months -> [requests : Nat, errors : Nat]],
         counter' \in [Access!Layers -> [n : Nat, until : Nat]]
  PROVE  AccessStep
<1>1. /\ request' \in [Requests -> AccessRequests]
      /\ \A x \in Requests : RequestSound(x, request[x])'
      /\ request'[r] = v /\ \A x \in Requests \ {r} : request'[x] = request[x]
  BY RequestsStaySound
<1>2. \A x \in Requests : request[x].pc = "writing" <=> lock = x
  BY DEF AccessSound
<1>3. \A x \in Requests : request'[x].pc = "writing" <=> lock' = x
  BY <1>1, <1>2
<1>4. now' \in 0 .. MaxTime /\ lock' \in Requests \union {Access!None}
  BY DEF AccessSound
<1>5. AccessSound'
  BY <1>1, <1>3, <1>4 DEF AccessSound
<1>6. \A x \in Requests : StepOf(x, request'[x])
  <2>1. StepOf(r, request'[r])
    BY <1>1
  <2>2. ASSUME NEW x \in Requests \ {r} PROVE StepOf(x, request'[x])
    BY <1>1, StayingIsAStep
  <2> QED BY <2>1, <2>2
<1> QED BY <1>5, <1>6 DEF AccessStep

LEMMA AuthenticateSound ==
  ASSUME Access!AccessAssumption, AccessSound, NEW r \in Requests, Access!Authenticate(r)
  PROVE  AccessStep
<1> DEFINE stale == token.used = Access!Never \/ now - token.used >= Interval
<1>1. request[r] \in AccessRequests /\ RequestSound(r, request[r]) /\ request[r].pc = "new"
      /\ now \in Nat
  BY DEF AccessSound, Access!Authenticate
<1>2. UNCHANGED <<now, token, usage, lock, counter>>
  BY DEF Access!Authenticate
<1>3. request[r].counted = <<>> /\ request[r].charged = Access!Never /\ request[r].booked = Access!Never
      /\ request[r].status # "ok"
  BY <1>1 DEF RequestSound, Early
<1>4. CASE r \in Legacy
  <2>1. PICK v : v = [request[r] EXCEPT !.pc = "counting"]
    OBVIOUS
  <2>2. v \in AccessRequests /\ v.pc = "counting" /\ v.counted = <<>> /\ v.charged = Access!Never
        /\ v.booked = Access!Never /\ v.status = request[r].status /\ v.auth = request[r].auth
    BY <1>1, <1>3, <2>1 DEF AccessRequests, Early
  <2>3. RequestSound(r, v) /\ StepOf(r, v)
    BY <1>1, <1>3, <2>2 DEF StepOf, RequestSound
  <2>4. request' = [request EXCEPT ![r] = v]
    BY <1>4, <2>1 DEF Access!Authenticate, Access!Set
  <2> QED BY <1>1, <1>2, <2>2, <2>3, <2>4, RequestStepSound DEF AccessSound
<1>5. CASE r \notin Legacy /\ ~Access!Valid
  <2>1. request' = [request EXCEPT ![r] = Access!Over(r, "error")]
    BY <1>5 DEF Access!Authenticate, Access!Set
  <2>2. Access!Over(r, "error") \in AccessRequests /\ Access!Over(r, "error").pc = "done"
        /\ RequestSound(r, Access!Over(r, "error")) /\ StepOf(r, Access!Over(r, "error"))
    BY <1>1, OverSound DEF StepOf
  <2> QED BY <1>1, <1>2, <2>1, <2>2, RequestStepSound DEF AccessSound
<1>6. CASE r \notin Legacy /\ Access!Valid /\ stale
  <2>1. PICK v : v = [request[r] EXCEPT !.auth = now, !.at = now, !.pc = "touching"]
    OBVIOUS
  <2>2. v \in AccessRequests /\ v.pc = "touching" /\ v.counted = <<>> /\ v.charged = Access!Never
        /\ v.booked = Access!Never /\ v.status = request[r].status /\ v.auth = now /\ v.at = now
    BY <1>1, <1>3, <2>1 DEF AccessRequests, Early
  <2>3. RequestSound(r, v) /\ StepOf(r, v)
    BY <1>1, <1>3, <1>6, <2>2 DEF StepOf, RequestSound, Access!Never, Access!AccessAssumption
  <2>4. request' = [request EXCEPT ![r] = v]
    BY <1>6, <2>1 DEF Access!Authenticate, Access!Set
  <2> QED BY <1>1, <1>2, <2>2, <2>3, <2>4, RequestStepSound DEF AccessSound
<1>7. CASE r \notin Legacy /\ Access!Valid /\ ~stale
  <2>1. PICK v : v = [request[r] EXCEPT !.auth = now, !.at = request[r].at, !.pc = "counting"]
    OBVIOUS
  <2>2. v \in AccessRequests /\ v.pc = "counting" /\ v.counted = <<>> /\ v.charged = Access!Never
        /\ v.booked = Access!Never /\ v.status = request[r].status /\ v.auth = now
    BY <1>1, <1>3, <2>1 DEF AccessRequests, Early
  <2>3. RequestSound(r, v) /\ StepOf(r, v)
    BY <1>1, <1>3, <1>7, <2>2 DEF StepOf, RequestSound, Access!Never
  <2>4. request' = [request EXCEPT ![r] = v]
    BY <1>7, <2>1 DEF Access!Authenticate, Access!Set
  <2> QED BY <1>1, <1>2, <2>2, <2>3, <2>4, RequestStepSound DEF AccessSound
<1> QED BY <1>4, <1>5, <1>6, <1>7

LEMMA TouchSound ==
  ASSUME Access!AccessAssumption, AccessSound, NEW r \in Requests, Access!Touch(r)
  PROVE  AccessStep
<1>1. request[r] \in AccessRequests /\ RequestSound(r, request[r]) /\ request[r].pc = "touching"
  BY DEF AccessSound, Access!Touch
<1>2. PICK v : v = [request[r] EXCEPT !.pc = "counting", !.at = Access!Never]
  OBVIOUS
<1>3. v \in AccessRequests /\ v.pc = "counting" /\ v.counted = request[r].counted
      /\ v.charged = request[r].charged /\ v.booked = request[r].booked
      /\ v.status = request[r].status /\ v.auth = request[r].auth
  BY <1>1, <1>2 DEF AccessRequests, Early
<1>4. RequestSound(r, v) /\ StepOf(r, v)
  BY <1>1, <1>3 DEF StepOf, RequestSound, Early
<1>5. token' = [token EXCEPT !.used = request[r].auth]
      /\ token \in Tokens /\ (token.revoked # Access!Never => token.by # Access!None)
  BY DEF Access!Touch, AccessSound
<1>6. token' \in Tokens /\ (token'.revoked # Access!Never => token'.by # Access!None)
  BY <1>1, <1>5 DEF Tokens, AccessRequests
<1>7. request' = [request EXCEPT ![r] = v] /\ UNCHANGED <<now, usage, lock, counter>>
  BY <1>2 DEF Access!Touch, Access!Set
<1> QED BY <1>1, <1>3, <1>4, <1>6, <1>7, RequestStepSound DEF AccessSound

LEMMA CounterTyped ==
  ASSUME Access!AccessAssumption, AccessSound, NEW r \in Requests, NEW layer \in Access!Layers,
         NEW both \in BOOLEAN, Access!Count(r, layer, both)
  PROVE  counter' \in [Access!Layers -> [n : Nat, until : Nat]]
<1>1. /\ counter \in [Access!Layers -> [n : Nat, until : Nat]] /\ now + Window \in Nat
  BY DEF AccessSound, Access!AccessAssumption
<1>2. ASSUME NEW l \in Access!Layers PROVE Access!Incremented(counter[l]) \in [n : Nat, until : Nat]
  <2>1. PICK c \in [n : Nat, until : Nat] : c = counter[l]
    BY <1>1
  <2>2. CASE c = Access!NoCount
    BY <1>1, <2>1, <2>2 DEF Access!Incremented
  <2>3. CASE c # Access!NoCount
    <3>1. Access!Incremented(c) = [c EXCEPT !.n = c.n + 1]
      BY <2>3 DEF Access!Incremented
    <3> QED BY <2>1, <3>1
  <2> QED BY <2>2, <2>3
<1> QED BY <1>1, <1>2 DEF Access!Count

LEMMA CountSound ==
  ASSUME Access!AccessAssumption, AccessSound, NEW r \in Requests, NEW layer \in Access!Layers,
         NEW both \in BOOLEAN, Access!Count(r, layer, both)
  PROVE  AccessStep
<1>1. request[r] \in AccessRequests /\ RequestSound(r, request[r]) /\ request[r].pc = "counting"
      /\ now \in Nat
  BY DEF AccessSound, Access!Count
<1>2. counter' \in [Access!Layers -> [n : Nat, until : Nat]] /\ UNCHANGED <<now, token, usage, lock>>
  BY CounterTyped DEF Access!Count
<1>3. request[r].charged = Access!Never /\ request[r].booked = Access!Never /\ request[r].status # "ok"
  BY <1>1 DEF RequestSound, Early
<1>4. CASE counter'[layer].n > Rate
  <2>1. request' = [request EXCEPT ![r] = Access!Over(r, "limited")]
    BY <1>4 DEF Access!Count, Access!Set
  <2>2. Access!Over(r, "limited") \in AccessRequests /\ Access!Over(r, "limited").pc = "done"
        /\ RequestSound(r, Access!Over(r, "limited")) /\ StepOf(r, Access!Over(r, "limited"))
    BY <1>1, OverSound DEF StepOf
  <2> QED BY <1>1, <1>2, <2>1, <2>2, RequestStepSound DEF AccessSound
<1>5. CASE ~(counter'[layer].n > Rate)
  <2>1. PICK p : p = (IF r \in Legacy THEN "routing" ELSE "locking")
    OBVIOUS
  <2>2. PICK c : c = <<layer, counter'[layer].until>>
    OBVIOUS
  <2>3. c \in Access!Layers \X Nat
    BY <1>2, <2>2
  <2>4. PICK v : v = [request[r] EXCEPT !.pc = p, !.at = now, !.counted = c]
    OBVIOUS
  <2>5. p \in {"routing", "locking"} /\ (p = "routing" <=> r \in Legacy)
    BY <2>1
  <2>6. v \in AccessRequests /\ v.pc = p /\ v.counted = c /\ v.at = now
        /\ v.charged = Access!Never /\ v.booked = Access!Never
        /\ v.status = request[r].status /\ v.auth = request[r].auth
    BY <1>1, <1>3, <2>3, <2>4, <2>5 DEF AccessRequests, Early
  <2>7. RequestSound(r, v) /\ StepOf(r, v)
    BY <1>1, <1>3, <2>5, <2>6 DEF StepOf, RequestSound, Access!Never, Access!AccessAssumption
  <2>8. request' = [request EXCEPT ![r] = v]
    BY <1>5, <2>1, <2>2, <2>4 DEF Access!Count, Access!Set
  <2> QED BY <1>1, <1>2, <2>5, <2>6, <2>7, <2>8, RequestStepSound DEF AccessSound
<1> QED BY <1>4, <1>5

LEMMA ReserveSound ==
  ASSUME Access!AccessAssumption, AccessSound, NEW r \in Requests, Access!Reserve(r)
  PROVE  AccessStep
<1>1. request[r] \in AccessRequests /\ RequestSound(r, request[r]) /\ request[r].pc = "locking"
      /\ lock = Access!None /\ UNCHANGED <<now, token, usage, counter>>
  BY DEF AccessSound, Access!Reserve
<1>2. CASE usage[Access!Month(request[r].at)].requests >= MonthlyQuota
  <2>1. request' = [request EXCEPT ![r] = Access!Over(r, "limited")] /\ lock' = lock
    BY <1>2 DEF Access!Reserve, Access!Set
  <2>2. Access!Over(r, "limited") \in AccessRequests /\ Access!Over(r, "limited").pc = "done"
        /\ RequestSound(r, Access!Over(r, "limited")) /\ StepOf(r, Access!Over(r, "limited"))
    BY <1>1, OverSound DEF StepOf
  <2> QED BY <1>1, <2>1, <2>2, RequestStepSound DEF AccessSound
<1>3. CASE ~(usage[Access!Month(request[r].at)].requests >= MonthlyQuota)
  <2>1. PICK v : v = [request[r] EXCEPT !.pc = "writing"]
    OBVIOUS
  <2>2. v \in AccessRequests /\ v.pc = "writing" /\ v.counted = request[r].counted
        /\ v.at = request[r].at /\ v.charged = request[r].charged
        /\ v.booked = request[r].booked
        /\ v.status = request[r].status /\ v.auth = request[r].auth
    BY <1>1, <2>1 DEF AccessRequests, Early
  <2>3. RequestSound(r, v) /\ StepOf(r, v)
    BY <1>1, <2>2 DEF StepOf, RequestSound, Early
  <2>4. request' = [request EXCEPT ![r] = v] /\ lock' = r
    BY <1>3, <2>1 DEF Access!Reserve, Access!Set
  <2>5. /\ request' \in [Requests -> AccessRequests]
        /\ \A x \in Requests : RequestSound(x, request[x])'
        /\ request'[r] = v /\ \A x \in Requests \ {r} : request'[x] = request[x]
    BY <1>1, <2>2, <2>3, <2>4, RequestsStaySound
  <2>6. \A x \in Requests : request[x].pc # "writing"
    BY <1>1 DEF AccessSound, Access!AccessAssumption
  <2>7. \A x \in Requests : request'[x].pc = "writing" <=> lock' = x
    BY <2>2, <2>4, <2>5, <2>6
  <2>8. \A x \in Requests : StepOf(x, request'[x])
    BY <2>3, <2>5, StayingIsAStep
  <2> QED BY <1>1, <2>4, <2>5, <2>7, <2>8 DEF AccessSound, AccessStep
<1> QED BY <1>2, <1>3

\* What a charge does to the request.
LEMMA ChargedRequest ==
  ASSUME Access!AccessAssumption, AccessSound, NEW r \in Requests, Access!Charge(r)
  PROVE  \E v \in AccessRequests :
           /\ v.charged = Access!Month(request[r].at) /\ v.charged <= Access!Month(now)
           /\ v.counted = request[r].counted /\ v.booked = request[r].booked
           /\ v.status = request[r].status /\ v.auth = request[r].auth
           /\ v.pc \in {"done", "routing"} /\ RequestSound(r, v) /\ StepOf(r, v)
           /\ request' = [request EXCEPT ![r] = v]
<1>1. request[r] \in AccessRequests /\ RequestSound(r, request[r]) /\ request[r].pc = "writing"
      /\ now \in Nat
  BY DEF AccessSound, Access!Charge, Access!AccessAssumption
<1>2. request[r].at \in Nat /\ request[r].at <= now /\ r \notin Legacy
      /\ request[r].booked = Access!Never /\ request[r].status # "ok"
  BY <1>1 DEF RequestSound, AccessRequests, Access!Never
<1>3. PICK m : m = Access!Month(request[r].at)
  OBVIOUS
<1>4. m \in Nat /\ Access!Month(now) \in Nat /\ m <= Access!Month(now)
  BY <1>1, <1>2, <1>3, MonthsInOrder
<1>5. PICK p : p = (IF request[r].gone THEN "done" ELSE "routing")
  OBVIOUS
<1>6. p \in {"done", "routing"}
  BY <1>5
<1>7. PICK v : v = [request[r] EXCEPT !.charged = m, !.at = Access!Never, !.pc = p]
  OBVIOUS
<1>8. v \in AccessRequests /\ v.pc = p /\ v.counted = request[r].counted
      /\ v.charged = m /\ v.booked = request[r].booked
      /\ v.status = request[r].status /\ v.auth = request[r].auth
  BY <1>1, <1>4, <1>6, <1>7 DEF AccessRequests, Early
<1>9. RequestSound(r, v) /\ StepOf(r, v)
  BY <1>1, <1>2, <1>4, <1>6, <1>8 DEF StepOf, RequestSound, Early, Access!Never
<1>10. request' = [request EXCEPT ![r] = v]
  BY <1>3, <1>5, <1>7 DEF Access!Charge, Access!Set
<1> QED BY <1>3, <1>4, <1>6, <1>8, <1>9, <1>10

LEMMA ChargeSound ==
  ASSUME Access!AccessAssumption, AccessSound, NEW r \in Requests, Access!Charge(r)
  PROVE  AccessStep
<1>1. request[r].pc = "writing" /\ lock' = Access!None /\ UNCHANGED <<now, token, counter>>
  BY DEF Access!Charge
<1>2. PICK v \in AccessRequests :
           /\ v.pc \in {"done", "routing"} /\ RequestSound(r, v) /\ StepOf(r, v)
           /\ request' = [request EXCEPT ![r] = v]
  BY ChargedRequest
<1>3. /\ request' \in [Requests -> AccessRequests]
      /\ \A x \in Requests : RequestSound(x, request[x])'
      /\ request'[r] = v /\ \A x \in Requests \ {r} : request'[x] = request[x]
  BY <1>1, <1>2, RequestsStaySound
<1>4. \A x \in Requests : request[x].pc = "writing" <=> lock = x
  BY DEF AccessSound
<1>5. \A x \in Requests : request'[x].pc # "writing" /\ lock' # x
  BY <1>1, <1>2, <1>3, <1>4 DEF Access!AccessAssumption
<1>6. PICK m : m = Access!Month(request[r].at)
  OBVIOUS
<1>7. usage' = [usage EXCEPT ![m].requests = @ + 1]
  BY <1>6 DEF Access!Charge
<1>8. usage \in [Access!Months -> [requests : Nat, errors : Nat]]
  BY DEF AccessSound
<1>9. ASSUME NEW x \in Access!Months
      PROVE  usage'[x] = (IF x = m THEN [usage[x] EXCEPT !.requests = @ + 1] ELSE usage[x])
  BY <1>7, <1>8
<1>10. ASSUME NEW x \in Access!Months PROVE usage'[x] \in [requests : Nat, errors : Nat]
  <2>1. PICK u \in [requests : Nat, errors : Nat] : u = usage[x]
    BY <1>8
  <2>2. [u EXCEPT !.requests = u.requests + 1] \in [requests : Nat, errors : Nat]
    OBVIOUS
  <2> QED BY <1>9, <2>1, <2>2
<1>11. usage' = [x \in Access!Months |-> usage'[x]]
  BY <1>7, <1>8
<1>12. \A x \in Requests : StepOf(x, request'[x])
  BY <1>2, <1>3, StayingIsAStep
<1> QED BY <1>1, <1>3, <1>5, <1>10, <1>11, <1>12 DEF AccessSound, AccessStep

LEMMA BusySound ==
  ASSUME Access!AccessAssumption, AccessSound, NEW r \in Requests, Access!Busy(r)
  PROVE  AccessStep
<1>1. PICK s : s = (IF request[r].pc = "completing" THEN "unbooked" ELSE "error")
  OBVIOUS
<1>2. s \in {"unbooked", "error"}
  BY <1>1
<1>3. request' = [request EXCEPT ![r] = Access!Over(r, s)]
  BY <1>1 DEF Access!Busy, Access!Set
<1>4. request[r].pc \in {"touching", "locking", "completing"}
      /\ UNCHANGED <<now, token, usage, lock, counter>>
  BY DEF Access!Busy
<1>5. Access!Over(r, s) \in AccessRequests /\ Access!Over(r, s).pc = "done"
      /\ RequestSound(r, Access!Over(r, s)) /\ StepOf(r, Access!Over(r, s))
  BY <1>2, <1>4, OverSound DEF StepOf
<1> QED BY <1>3, <1>4, <1>5, RequestStepSound DEF AccessSound

\* Route, Answer and Cancel end a request in the same way.
LEMMA EndStepSound ==
  ASSUME Access!AccessAssumption, AccessSound, NEW r \in Requests, NEW status \in {"ok", "error"},
         request[r].pc \in {"routing", "answering"},
         request' = [request EXCEPT ![r] = Access!Ended(r, status)],
         UNCHANGED <<now, token, usage, lock, counter>>
  PROVE  AccessStep
<1>1. /\ Access!Ended(r, status) \in AccessRequests /\ RequestSound(r, Access!Ended(r, status))
      /\ Access!Ended(r, status).pc \in {"done", "completing"}
      /\ StepOf(r, Access!Ended(r, status))
  BY EndedSound DEF StepOf
<1> QED BY <1>1, RequestStepSound DEF AccessSound

LEMMA RouteSound ==
  ASSUME Access!AccessAssumption, AccessSound, NEW r \in Requests, Access!Route(r)
  PROVE  AccessStep
<1>1. request[r] \in AccessRequests /\ RequestSound(r, request[r]) /\ request[r].pc = "routing"
      /\ UNCHANGED <<now, token, usage, lock, counter>>
  BY DEF AccessSound, Access!Route
<1>2. CASE r \in Legacy \/ Access!Valid
  <2>1. PICK v : v = [request[r] EXCEPT !.pc = "answering"]
    OBVIOUS
  <2>2. v \in AccessRequests /\ v.pc = "answering" /\ v.counted = request[r].counted
        /\ v.charged = request[r].charged /\ v.booked = request[r].booked
        /\ v.status = request[r].status /\ v.auth = request[r].auth
    BY <1>1, <2>1 DEF AccessRequests, Early
  <2>3. RequestSound(r, v) /\ StepOf(r, v)
    BY <1>1, <1>2, <2>2 DEF StepOf, RequestSound, Early
  <2>4. request' = [request EXCEPT ![r] = v]
    BY <1>2, <2>1 DEF Access!Route, Access!Set
  <2> QED BY <1>1, <2>2, <2>3, <2>4, RequestStepSound DEF AccessSound
<1>3. CASE ~(r \in Legacy \/ Access!Valid)
  <2>1. request' = [request EXCEPT ![r] = Access!Ended(r, "error")]
    BY <1>3 DEF Access!Route, Access!Set
  <2> QED BY <1>1, <2>1, EndStepSound
<1> QED BY <1>2, <1>3

LEMMA AnsweringSound ==
  ASSUME Access!AccessAssumption, AccessSound, NEW r \in Requests, NEW status \in {"ok", "error"},
         Access!Answer(r, status)
  PROVE  AccessStep
BY EndStepSound DEF Access!Answer, Access!Set

\* What the end of a request does to it: it is booked, or there is nothing to book.
LEMMA CompletedRequest ==
  ASSUME Access!AccessAssumption, AccessSound, NEW r \in Requests, Access!Complete(r)
  PROVE  \E v \in AccessRequests :
           /\ v.pc = "done" /\ v.auth = Access!Never
           /\ v.charged = request[r].charged /\ v.counted = request[r].counted
           /\ v.status = request[r].status /\ RequestSound(r, v) /\ StepOf(r, v)
           /\ IF usage[Access!Month(now)].requests = 0 THEN v.booked = request[r].booked
                                               ELSE v.booked = Access!Month(now)
           /\ request' = [request EXCEPT ![r] = v]
<1>1. request[r] \in AccessRequests /\ RequestSound(r, request[r]) /\ request[r].pc = "completing"
      /\ now \in Nat
  BY DEF AccessSound, Access!Complete, Access!AccessAssumption
<1>2. PICK m : m = Access!Month(now)
  OBVIOUS
<1>3. m \in Nat /\ request[r].charged # Access!Never /\ request[r].charged <= m
  BY <1>1, <1>2, MonthsInOrder DEF RequestSound
<1>4. PICK s : s = request[r].status
  OBVIOUS
<1>5. s \in {Access!None, "ok", "error", "limited", "unbooked"}
  BY <1>1, <1>4 DEF AccessRequests
<1>6. PICK o : o = Access!Over(r, s)
  OBVIOUS
<1>7. /\ o \in AccessRequests
      /\ o.pc = "done" /\ o.status = s
      /\ o.auth = Access!Never /\ o.counted = request[r].counted
      /\ o.charged = request[r].charged
      /\ o.booked = request[r].booked
      /\ RequestSound(r, o)
  BY <1>5, <1>6, OverSound
<1>8. CASE usage[m].requests = 0
  <2>1. request' = [request EXCEPT ![r] = o]
    BY <1>2, <1>4, <1>6, <1>8 DEF Access!Complete, Access!Set
  <2>2. StepOf(r, o)
    BY <1>1, <1>7 DEF StepOf
  <2> QED BY <1>2, <1>4, <1>7, <1>8, <2>1, <2>2
<1>9. CASE usage[m].requests # 0
  <2>1. PICK v : v = [o EXCEPT !.booked = m]
    OBVIOUS
  <2>2. /\ v \in AccessRequests
        /\ v.pc = "done" /\ v.status = s /\ v.auth = Access!Never /\ v.counted = request[r].counted
        /\ v.charged = request[r].charged /\ v.booked = m
    BY <1>3, <1>7, <2>1 DEF AccessRequests
  <2>3. RequestSound(r, v) /\ StepOf(r, v)
    BY <1>1, <1>2, <1>3, <2>2 DEF StepOf, RequestSound, Early
  <2>4. request' = [request EXCEPT ![r] = v]
    BY <1>2, <1>4, <1>6, <1>9, <2>1 DEF Access!Complete, Access!Set
  <2> QED BY <1>2, <1>4, <1>9, <2>2, <2>3, <2>4
<1> QED BY <1>8, <1>9

LEMMA CompleteSound ==
  ASSUME Access!AccessAssumption, AccessSound, NEW r \in Requests, Access!Complete(r)
  PROVE  AccessStep
<1>1. request[r].pc = "completing" /\ UNCHANGED <<now, token, lock, counter>>
  BY DEF Access!Complete
<1>2. PICK v \in AccessRequests :
        v.pc = "done" /\ RequestSound(r, v) /\ StepOf(r, v) /\ request' = [request EXCEPT ![r] = v]
  BY CompletedRequest
<1>3. PICK m : m = Access!Month(now)
  OBVIOUS
<1>4. PICK e : e = (IF request[r].status = "error" THEN 1 ELSE 0)
  OBVIOUS
<1>5. e \in Nat /\ usage \in [Access!Months -> [requests : Nat, errors : Nat]]
  BY <1>4 DEF AccessSound
<1>6. usage' = usage \/ usage' = [usage EXCEPT ![m].errors = @ + e]
  BY <1>3, <1>4 DEF Access!Complete
<1>7. usage' \in [Access!Months -> [requests : Nat, errors : Nat]]
  BY <1>5, <1>6
<1> QED BY <1>1, <1>2, <1>7, RequestStepSound DEF AccessSound

LEMMA CancelSound ==
  ASSUME Access!AccessAssumption, AccessSound, NEW r \in Requests, Access!Cancel(r)
  PROVE  AccessStep
<1>1. request[r] \in AccessRequests /\ RequestSound(r, request[r])
      /\ UNCHANGED <<now, token, usage, lock, counter>>
  BY DEF AccessSound, Access!Cancel
<1>2. CASE /\ request[r].pc \in {"locking", "writing"}
           /\ Access!Set(r, [request[r] EXCEPT !.gone = TRUE, !.status = "error"])
  <2>1. PICK v : v = [request[r] EXCEPT !.gone = TRUE, !.status = "error"]
    OBVIOUS
  <2>2. v \in AccessRequests /\ v.pc = request[r].pc /\ v.counted = request[r].counted
        /\ v.charged = request[r].charged /\ v.booked = request[r].booked
        /\ v.status = "error" /\ v.auth = request[r].auth /\ v.at = request[r].at
    BY <1>1, <2>1 DEF AccessRequests
  <2>3. RequestSound(r, v) /\ StepOf(r, v)
    BY <1>1, <1>2, <2>2 DEF StepOf, RequestSound, Early
  <2>4. request' = [request EXCEPT ![r] = v]
    BY <1>2, <2>1 DEF Access!Set
  <2> QED BY <1>1, <2>2, <2>3, <2>4, RequestStepSound DEF AccessSound
<1>3. CASE request[r].pc \in {"routing", "answering"} /\ Access!Set(r, Access!Ended(r, "error"))
  BY <1>1, <1>3, EndStepSound DEF Access!Set
<1> QED BY <1>2, <1>3 DEF Access!Cancel

LEMMA TickSound ==
  ASSUME Access!AccessAssumption, AccessSound, Access!Tick
  PROVE  AccessStep
<1>1. now \in 0 .. MaxTime /\ now' = now + 1 /\ now' \in 0 .. MaxTime /\ now \in Nat
      /\ MaxWait \in Nat /\ UNCHANGED <<token, usage, lock, request>>
  BY DEF AccessSound, Access!Tick, Access!AccessAssumption
<1>2. counter' \in [Access!Layers -> [n : Nat, until : Nat]]
  BY DEF AccessSound, Access!Tick, Access!NoCount
<1>3. Access!Month(now) \in Nat /\ Access!Month(now + 1) \in Nat /\ Access!Month(now) <= Access!Month(now + 1)
  BY <1>1, MonthsInOrder
<1>4. ASSUME NEW r \in Requests PROVE RequestSound(r, request[r])'
  <2>1. PICK v \in AccessRequests : v = request[r]
    BY DEF AccessSound
  <2>2. RequestSound(r, v)
    BY <2>1 DEF AccessSound
  <2>3. v.pc \in {"touching", "locking", "writing"} => now - v.at < MaxWait
    BY <2>1 DEF Access!Tick
  <2>4. v.auth \in Nat \union {Access!Never} /\ v.at \in Nat \union {Access!Never}
        /\ v.charged \in Nat \union {Access!Never}
    BY <2>1 DEF AccessRequests
  <2>5. PICK t : t = now + 1
    OBVIOUS
  <2>6. /\ v.auth # Access!Never => v.auth <= t
        /\ v.pc \in {"touching", "locking", "writing"} =>
             v.at # Access!Never /\ v.at <= t /\ t - v.at <= MaxWait /\ r \notin Legacy
    BY <1>1, <2>2, <2>3, <2>4, <2>5 DEF RequestSound, Access!Never
  <2>7. v.charged # Access!Never => v.charged <= Access!Month(t) /\ v.pc \notin Early
    BY <1>3, <2>2, <2>4, <2>5 DEF RequestSound, Access!Never
  <2>8. now' = t /\ request'[r] = v
    BY <1>1, <2>1, <2>5
  <2> QED BY <2>2, <2>6, <2>7, <2>8 DEF RequestSound, Access!Month
<1>5. \A r \in Requests : request'[r].pc = "writing" <=> lock' = r
  BY <1>1 DEF AccessSound
<1>6. \A r \in Requests : StepOf(r, request'[r])
  BY <1>1, StayingIsAStep
<1> QED BY <1>1, <1>2, <1>4, <1>5, <1>6 DEF AccessSound, AccessStep

\* A step of the store alone.
LEMMA StoreStepSound ==
  ASSUME Access!AccessAssumption, AccessSound, UNCHANGED <<now, usage, lock, counter, request>>,
         token' \in Tokens, token'.revoked # Access!Never => token'.by # Access!None
  PROVE  AccessStep
<1>1. \A r \in Requests : RequestSound(r, request[r])'
  BY DEF AccessSound, RequestSound, Access!Month
<1>2. \A r \in Requests : StepOf(r, request'[r])
  BY StayingIsAStep
<1> QED BY <1>1, <1>2 DEF AccessSound, AccessStep

LEMMA IssueSound ==
  ASSUME Access!AccessAssumption, AccessSound, Access!Issue
  PROVE  AccessStep
<1>1. PICK t : t = now + Lifetime
  OBVIOUS
<1>2. t \in Nat
  BY <1>1 DEF AccessSound, Access!AccessAssumption
<1>3. token' = [token EXCEPT !.expires = t] /\ token \in Tokens
      /\ (token.revoked # Access!Never => token.by # Access!None)
  BY <1>1 DEF Access!Issue, AccessSound
<1>4. token' \in Tokens /\ token'.revoked = token.revoked /\ token'.by = token.by
  BY <1>2, <1>3 DEF Tokens
<1> QED BY <1>3, <1>4, StoreStepSound DEF Access!Issue

\* The first revocation stays on record.
LEMMA RevokedToken ==
  ASSUME Access!AccessAssumption, AccessSound, NEW m \in Managers, Access!Revoke(m)
  PROVE  /\ token' \in Tokens /\ token'.by # Access!None
         /\ token.revoked # Access!Never => token'.revoked = token.revoked
         /\ token.by # Access!None => token'.by = token.by
<1>1. token \in Tokens /\ now \in Nat /\ m # Access!None
  BY DEF AccessSound, Access!AccessAssumption
<1>2. PICK t : t = (IF token.revoked = Access!Never THEN now ELSE token.revoked)
  OBVIOUS
<1>3. PICK b : b = (IF token.by = Access!None THEN m ELSE token.by)
  OBVIOUS
<1>4. t \in Nat \union {Access!Never} /\ b \in Managers \union {Access!None} /\ b # Access!None
      /\ (token.revoked # Access!Never => t = token.revoked)
      /\ (token.by # Access!None => b = token.by)
  BY <1>1, <1>2, <1>3 DEF Tokens
<1>5. token' = [token EXCEPT !.revoked = t, !.by = b]
  BY <1>2, <1>3 DEF Access!Revoke
<1>6. token' \in Tokens /\ token'.revoked = t /\ token'.by = b
  BY <1>1, <1>4, <1>5 DEF Tokens
<1> QED BY <1>4, <1>6

LEMMA AccessSoundNext ==
  ASSUME Access!AccessAssumption, AccessSound, [Access!Next]_(Access!vars)
  PROVE  AccessStep
<1>1. CASE Access!Issue
  BY <1>1, IssueSound
<1>2. CASE Access!Tick
  BY <1>2, TickSound
<1>3. ASSUME NEW m \in Managers, Access!Revoke(m) PROVE AccessStep
  BY <1>3, RevokedToken, StoreStepSound DEF Access!Revoke
<1>4. ASSUME NEW r \in Requests,
             \/ Access!Authenticate(r) \/ Access!Touch(r) \/ Access!Reserve(r) \/ Access!Charge(r) \/ Access!Busy(r) \/ Access!Route(r)
             \/ Access!Complete(r) \/ Access!Cancel(r)
      PROVE  AccessStep
  BY <1>4, AuthenticateSound, TouchSound, ReserveSound, ChargeSound, BusySound, RouteSound,
     CompleteSound, CancelSound
<1>5. ASSUME NEW r \in Requests, NEW status \in {"ok", "error"}, Access!Answer(r, status)
      PROVE  AccessStep
  BY <1>5, AnsweringSound
<1>6. ASSUME NEW r \in Requests, NEW layer \in Access!Layers, NEW both \in BOOLEAN,
             Access!Count(r, layer, both)
      PROVE  AccessStep
  BY <1>6, CountSound
<1>7. CASE UNCHANGED Access!vars
  BY <1>7, StoreStepSound DEF Access!vars, AccessSound
<1> QED BY <1>1, <1>2, <1>3, <1>4, <1>5, <1>6, <1>7 DEF Access!Next

\* What one process, thread or clock reads of the token, its counters and the
\* requests is what the others may have left there (api_token_limits.py over the
\* store): the type invariant of ApiAccess, with what it rests on.
THEOREM AccessStaysSound ==
  ASSUME Access!AccessAssumption
  PROVE  Access!Spec => [](AccessSound /\ Access!TypeOK)
<1>1. Access!Init => AccessSound
  BY AccessSoundInit
<1>2. AccessSound /\ [Access!Next]_(Access!vars) => AccessSound'
  BY AccessSoundNext DEF AccessStep
<1>3. ASSUME AccessSound PROVE Access!TypeOK
  <2>1. \A r \in Requests : request[r] \in AccessRequests
    BY <1>3 DEF AccessSound
  <2>2. \A r \in Requests :
          /\ request[r].pc \in {"new", "touching", "counting", "locking", "writing", "routing",
                                "answering", "completing", "done"}
          /\ request[r].status \in {Access!None, "ok", "error", "limited", "unbooked"}
    BY <2>1 DEF AccessRequests, Early
  <2>3. \A m \in Access!Months : usage[m] \in [requests : Nat, errors : Nat]
    BY <1>3 DEF AccessSound
  <2> QED BY <1>3, <2>2, <2>3 DEF AccessSound, Access!TypeOK, Tokens
<1> QED BY <1>1, <1>2, <1>3, PTL DEF Access!Spec

\* What a step leaves alone.
LEMMA StoreSteps ==
  ASSUME Access!AccessAssumption, AccessSound, [Access!Next]_(Access!vars)
  PROVE  /\ (\A x \in Requests : ~Access!Charge(x)) =>
              \A m \in Access!Months : usage'[m].requests = usage[m].requests
         /\ (\A x \in Requests : ~Access!Complete(x)) =>
              \A m \in Access!Months : usage'[m].errors = usage[m].errors
         /\ (\A x \in Requests : ~Access!Touch(x)) => token'.used = token.used
         /\ ~Access!Tick /\ (\A x \in Requests, layer \in Access!Layers, both \in BOOLEAN :
                        ~Access!Count(x, layer, both)) => counter' = counter
         /\ now' \in Nat /\ now <= now' /\ (~Access!Tick => now' = now)
         /\ token.revoked # Access!Never => token'.revoked = token.revoked /\ token'.by = token.by
<1> DEFINE Usages == [Access!Months -> [requests : Nat, errors : Nat]]
<1>1. token \in Tokens /\ (token.revoked # Access!Never => token.by # Access!None) /\ now \in Nat
      /\ usage \in Usages
  BY DEF AccessSound
<1>2. CASE Access!Issue
  <2>1. PICK t : token' = [token EXCEPT !.expires = t]
    BY <1>2 DEF Access!Issue
  <2>2. token'.used = token.used /\ token'.revoked = token.revoked /\ token'.by = token.by
    BY <1>1, <2>1 DEF Tokens
  <2> QED BY <1>1, <1>2, <2>2 DEF Access!Issue
<1>3. CASE Access!Tick
  BY <1>1, <1>3 DEF Access!Tick
<1>4. ASSUME NEW m \in Managers, Access!Revoke(m)
      PROVE  /\ token'.used = token.used /\ UNCHANGED <<now, usage, counter>>
             /\ token.revoked # Access!Never => token'.revoked = token.revoked /\ token'.by = token.by
  <2>1. PICK t, b : token' = [token EXCEPT !.revoked = t, !.by = b]
    BY <1>4 DEF Access!Revoke
  <2>2. token'.used = token.used
    BY <1>1, <2>1 DEF Tokens
  <2> QED BY <1>1, <1>4, <2>2, RevokedToken DEF Access!Revoke
<1>5. ASSUME NEW r \in Requests, Access!Authenticate(r) \/ Access!Reserve(r) \/ Access!Busy(r) \/ Access!Route(r) \/ Access!Cancel(r)
      PROVE  UNCHANGED <<now, token, usage, counter>>
  BY <1>5 DEF Access!Authenticate, Access!Reserve, Access!Busy, Access!Route, Access!Cancel
<1>6. ASSUME NEW r \in Requests, Access!Touch(r)
      PROVE  /\ token'.revoked = token.revoked /\ token'.by = token.by
             /\ UNCHANGED <<now, usage, counter>>
  <2>1. PICK t : token' = [token EXCEPT !.used = t]
    BY <1>6 DEF Access!Touch
  <2> QED BY <1>1, <1>6, <2>1 DEF Access!Touch, Tokens
<1>7. ASSUME NEW r \in Requests, Access!Charge(r)
      PROVE  /\ UNCHANGED <<now, token, counter>>
             /\ \A m \in Access!Months : usage'[m].errors = usage[m].errors
  <2>1. PICK k : usage' = [usage EXCEPT ![k].requests = @ + 1]
    BY <1>7 DEF Access!Charge
  <2>2. \A m \in Access!Months : usage'[m].errors = usage[m].errors
    BY <1>1, <2>1
  <2> QED BY <1>7, <2>2 DEF Access!Charge
<1>8. ASSUME NEW r \in Requests, Access!Complete(r)
      PROVE  /\ UNCHANGED <<now, token, counter>>
             /\ \A m \in Access!Months : usage'[m].requests = usage[m].requests
  <2>1. usage' = usage \/ \E k, e : usage' = [usage EXCEPT ![k].errors = @ + e]
    BY <1>8 DEF Access!Complete
  <2>2. \A m \in Access!Months : usage'[m].requests = usage[m].requests
    BY <1>1, <2>1
  <2> QED BY <1>8, <2>2 DEF Access!Complete
<1>9. ASSUME NEW r \in Requests, NEW status \in {"ok", "error"}, Access!Answer(r, status)
      PROVE  UNCHANGED <<now, token, usage, counter>>
  BY <1>9 DEF Access!Answer
<1>10. ASSUME NEW r \in Requests, NEW layer \in Access!Layers, NEW both \in BOOLEAN,
              Access!Count(r, layer, both)
       PROVE  UNCHANGED <<now, token, usage>>
  BY <1>10 DEF Access!Count
<1>11. CASE UNCHANGED Access!vars
  BY <1>1, <1>11 DEF Access!vars
<1>12. CASE \E m \in Managers : Access!Revoke(m)
  BY <1>1, <1>4, <1>12
<1>13. CASE \E r \in Requests :
              Access!Authenticate(r) \/ Access!Reserve(r) \/ Access!Busy(r) \/ Access!Route(r) \/ Access!Cancel(r)
  BY <1>1, <1>5, <1>13
<1>14. CASE \E r \in Requests : Access!Touch(r)
  BY <1>1, <1>6, <1>14
<1>15. CASE \E r \in Requests : Access!Charge(r)
  BY <1>1, <1>7, <1>15
<1>16. CASE \E r \in Requests : Access!Complete(r)
  BY <1>1, <1>8, <1>16
<1>17. CASE \E r \in Requests, status \in {"ok", "error"} : Access!Answer(r, status)
  BY <1>1, <1>9, <1>17
<1>18. CASE \E r \in Requests, layer \in Access!Layers, both \in BOOLEAN : Access!Count(r, layer, both)
  BY <1>1, <1>10, <1>18
<1> QED BY <1>2, <1>3, <1>11, <1>12, <1>13, <1>14, <1>15, <1>16, <1>17, <1>18 DEF Access!Next

\* A revocation is final, keeps its date and its author, and no request reaches its
\* route's work after it: the route authenticates it again (require_any_api_token).
THEOREM RevocationIsFinal ==
  ASSUME Access!AccessAssumption
  PROVE  Access!Spec => Access!RevokedStaysOut
<1>1. Access!Spec => []AccessSound
  BY AccessStaysSound, PTL
<1>2. ASSUME AccessSound, [Access!Next]_(Access!vars) PROVE Access!RevokedStaysOutStep
  <2>1. \A x \in Requests : StepOf(x, request'[x])
    BY <1>2, AccessSoundNext DEF AccessStep
  <2>2. token.revoked # Access!Never => token'.revoked = token.revoked /\ token'.by = token.by
    BY <1>2, StoreSteps
  <2>3. ASSUME NEW r \in Requests \ Legacy, token.revoked # Access!Never, request'[r].pc = "answering"
        PROVE  request[r].pc = "answering"
    BY <2>1, <2>3 DEF StepOf, Access!Valid
  <2> QED BY <2>2, <2>3 DEF Access!RevokedStaysOutStep
<1>3. AccessSound /\ [Access!Next]_(Access!vars) => [Access!RevokedStaysOutStep]_(Access!vars)
  BY <1>2
<1> QED BY <1>1, <1>3, PTL DEF Access!Spec, Access!RevokedStaysOut

-----------------------------------------------------------------------------
(* The quota of a month, and its books.                                    *)

ChargedIn(m) == {r \in Requests : request[r].charged = m}

\* The thread that holds the lock has room for its charge.
QuotaHolds ==
  /\ \A m \in Access!Months : /\ usage[m].requests = Cardinality(ChargedIn(m))
                       /\ usage[m].requests <= MonthlyQuota
  /\ \A r \in Requests :
       request[r].pc = "writing" => usage[Access!Month(request[r].at)].requests < MonthlyQuota

LEMMA QuotaHoldsInit ==
  ASSUME Access!AccessAssumption, Access!Init
  PROVE  QuotaHolds
<1>1. \A r \in Requests : request[r].pc = "new" /\ request[r].charged = Access!Never
  BY DEF Access!Init, Access!NewRequest
<1>2. ASSUME NEW m \in Access!Months PROVE usage[m].requests = Cardinality(ChargedIn(m))
  <2>1. m # Access!Never /\ usage[m].requests = 0
    BY DEF Access!Init, Access!Months, Access!Never, Access!AccessAssumption, Access!Month
  <2>2. ChargedIn(m) = {}
    BY <1>1, <2>1 DEF ChargedIn
  <2> QED BY <2>1, <2>2, FS_EmptySet
<1>3. \A m \in Access!Months : usage[m].requests <= MonthlyQuota
  BY DEF Access!Init, Access!AccessAssumption
<1> QED BY <1>1, <1>2, <1>3 DEF QuotaHolds

\* A charge adds its request to those of the month.
LEMMA ChargedGrow ==
  ASSUME Access!AccessAssumption, AccessSound, NEW r \in Requests, Access!Charge(r), NEW m \in Access!Months
  PROVE  /\ Access!Month(request[r].at) \in Access!Months
         /\ m = Access!Month(request[r].at) =>
              Cardinality(ChargedIn(m)') = Cardinality(ChargedIn(m)) + 1
         /\ m # Access!Month(request[r].at) => Cardinality(ChargedIn(m)') = Cardinality(ChargedIn(m))
<1>1. PICK v \in AccessRequests :
        v.charged = Access!Month(request[r].at) /\ request' = [request EXCEPT ![r] = v]
  BY ChargedRequest
<1>2. request'[r] = v /\ \A x \in Requests \ {r} : request'[x] = request[x]
  BY <1>1 DEF AccessSound
<1>3. request[r].pc = "writing" /\ RequestSound(r, request[r]) /\ request[r] \in AccessRequests
  BY DEF Access!Charge, AccessSound
<1>4. request[r].charged = Access!Never /\ request[r].at \in 0 .. MaxTime
  BY <1>3 DEF RequestSound, Early, AccessRequests, AccessSound, Access!Never, Access!AccessAssumption
<1>5. Access!Month(request[r].at) \in Access!Months /\ m # Access!Never
  BY <1>4, MonthsInOrder DEF Access!Months, Access!Never, Access!AccessAssumption
<1>6. IsFiniteSet(ChargedIn(m)) /\ r \notin ChargedIn(m)
  <2>1. ChargedIn(m) \subseteq Requests
    BY DEF ChargedIn
  <2> QED BY <1>4, <1>5, <2>1, FS_Subset, RequestsAreFinite DEF ChargedIn
<1>7. CASE m = Access!Month(request[r].at)
  <2>1. ChargedIn(m)' = ChargedIn(m) \union {r}
    BY <1>1, <1>2, <1>7 DEF ChargedIn
  <2> QED BY <1>5, <1>6, <1>7, <2>1, FS_AddElement
<1>8. CASE m # Access!Month(request[r].at)
  <2>1. ChargedIn(m)' = ChargedIn(m)
    BY <1>1, <1>2, <1>4, <1>5, <1>8 DEF ChargedIn
  <2> QED BY <1>5, <1>8, <2>1
<1> QED BY <1>7, <1>8

LEMMA QuotaHoldsCharge ==
  ASSUME Access!AccessAssumption, AccessSound, QuotaHolds, NEW r \in Requests, Access!Charge(r)
  PROVE  QuotaHolds'
<1>1. PICK k : k = Access!Month(request[r].at)
  OBVIOUS
<1>2. usage' = [usage EXCEPT ![k].requests = @ + 1]
  BY <1>1 DEF Access!Charge
<1>3. request[r].pc = "writing" /\ lock' = Access!None /\ usage[k].requests < MonthlyQuota
  BY <1>1 DEF Access!Charge, QuotaHolds
<1>4. ASSUME NEW m \in Access!Months
      PROVE  /\ usage'[m].requests = Cardinality(ChargedIn(m)')
             /\ usage'[m].requests <= MonthlyQuota
  <2>1. usage[m].requests = Cardinality(ChargedIn(m)) /\ usage[m].requests <= MonthlyQuota
        /\ usage[m].requests \in Nat /\ usage \in [Access!Months -> [requests : Nat, errors : Nat]]
    BY DEF QuotaHolds, AccessSound
  <2>2. CASE m = k
    <3>1. usage'[m].requests = usage[m].requests + 1
      BY <1>2, <2>1, <2>2
    <3>2. Cardinality(ChargedIn(m)') = Cardinality(ChargedIn(m)) + 1
      BY <1>1, <2>2, ChargedGrow
    <3> QED BY <1>3, <2>1, <2>2, <3>1, <3>2 DEF Access!AccessAssumption
  <2>3. CASE m # k
    <3>1. usage'[m].requests = usage[m].requests
      BY <1>2, <2>1, <2>3
    <3>2. Cardinality(ChargedIn(m)') = Cardinality(ChargedIn(m))
      BY <1>1, <2>3, ChargedGrow
    <3> QED BY <2>1, <3>1, <3>2
  <2> QED BY <2>2, <2>3
<1>5. AccessSound'
  BY ChargeSound DEF AccessStep
<1>6. \A x \in Requests : request'[x].pc # "writing"
  BY <1>3, <1>5 DEF AccessSound, Access!AccessAssumption
<1> QED BY <1>4, <1>6 DEF QuotaHolds

LEMMA QuotaHoldsNext ==
  ASSUME Access!AccessAssumption, AccessSound, QuotaHolds, [Access!Next]_(Access!vars)
  PROVE  QuotaHolds'
<1>1. CASE \E r \in Requests : Access!Charge(r)
  BY <1>1, QuotaHoldsCharge
<1>2. CASE \A r \in Requests : ~Access!Charge(r)
  <2>1. \A x \in Requests : StepOf(x, request'[x])
    BY AccessSoundNext DEF AccessStep
  <2>2. \A m \in Access!Months : usage'[m].requests = usage[m].requests
    BY <1>2, StoreSteps
  <2>3. \A m : ChargedIn(m)' = ChargedIn(m)
    BY <1>2, <2>1 DEF StepOf, ChargedIn
  <2>4. ASSUME NEW r \in Requests, request'[r].pc = "writing"
        PROVE  usage'[Access!Month(request'[r].at)].requests < MonthlyQuota
    <3>1. request'[r].at \in 0 .. MaxTime
      BY <2>4, AccessSoundNext
      DEF AccessStep, AccessSound, RequestSound, AccessRequests, Access!Never, Access!AccessAssumption
    <3>2. PICK k \in Access!Months : k = Access!Month(request'[r].at)
      BY <3>1, MonthsInOrder
    <3>3. CASE Access!Reserve(r)
      <4>1. request[r].at = request'[r].at /\ usage[Access!Month(request[r].at)].requests < MonthlyQuota
        <5>1. lock = Access!None /\ (usage[Access!Month(request[r].at)].requests >= MonthlyQuota => lock' = lock)
          BY <3>3 DEF Access!Reserve
        <5>2. lock' = r /\ r # Access!None
          BY <2>4, AccessSoundNext DEF AccessStep, AccessSound, Access!AccessAssumption
        <5>3. ~(usage[Access!Month(request[r].at)].requests >= MonthlyQuota)
          BY <5>1, <5>2
        <5>4. request' = [request EXCEPT ![r] = [request[r] EXCEPT !.pc = "writing"]]
          BY <3>3, <5>3 DEF Access!Reserve, Access!Set
        <5>5. PICK v : v = [request[r] EXCEPT !.pc = "writing"]
          OBVIOUS
        <5>6. request[r] \in AccessRequests /\ request'[r] = v
          BY <5>4, <5>5 DEF AccessSound
        <5>7. request'[r].at = request[r].at
          BY <5>5, <5>6 DEF AccessRequests
        <5>8. usage[k].requests \in Nat
          BY DEF AccessSound
        <5> QED BY <3>2, <5>3, <5>7, <5>8 DEF Access!AccessAssumption
      <4> QED BY <2>2, <3>2, <4>1
    <3>4. CASE request[r].pc = "writing" /\ request'[r].at = request[r].at
      BY <2>2, <3>2, <3>4 DEF QuotaHolds
    <3> QED BY <2>1, <2>4, <3>3, <3>4 DEF StepOf
  <2>5. \A m \in Access!Months : /\ usage'[m].requests = Cardinality(ChargedIn(m)')
                          /\ usage'[m].requests <= MonthlyQuota
    BY <2>2, <2>3 DEF QuotaHolds
  <2> QED BY <2>4, <2>5 DEF QuotaHolds, Access!Month
<1> QED BY <1>1, <1>2

\* However many requests ask at once, and whenever the month turns, the month's quota
\* is charged once for each request let through and never passed (reserve_request).
THEOREM QuotaIsKept ==
  ASSUME Access!AccessAssumption
  PROVE  Access!Spec => []Access!QuotaKept
<1>1. Access!Spec => []AccessSound
  BY AccessStaysSound, PTL
<1>2. Access!Init => QuotaHolds
  BY QuotaHoldsInit
<1>3. AccessSound /\ QuotaHolds /\ [Access!Next]_(Access!vars) => QuotaHolds'
  BY QuotaHoldsNext
<1>4. QuotaHolds => Access!QuotaKept
  BY SameSets DEF QuotaHolds, Access!QuotaKept, ChargedIn
<1> QED BY <1>1, <1>2, <1>3, <1>4, PTL DEF Access!Spec

BookedErrors(m) == {r \in Requests : request[r].booked = m /\ request[r].status = "error"}

\* BooksAddUp, a conjunct each.
ErrorsAddUp == \A m \in Access!Months : usage[m].errors = Cardinality(BookedErrors(m))
AnswersAddUp ==
  \A r \in Requests :
    request[r].status = "ok" /\ request[r].pc = "done" /\ r \notin Legacy =>
      request[r].booked # Access!Never \/ request[r].charged < Access!Month(now)

LEMMA BooksInit ==
  ASSUME Access!AccessAssumption, Access!Init
  PROVE  ErrorsAddUp /\ AnswersAddUp
<1>1. \A r \in Requests : request[r].pc = "new" /\ request[r].booked = Access!Never
  BY DEF Access!Init, Access!NewRequest
<1>2. ASSUME NEW m \in Access!Months PROVE usage[m].errors = Cardinality(BookedErrors(m))
  <2>1. m # Access!Never /\ usage[m].errors = 0
    BY DEF Access!Init, Access!Months, Access!Never, Access!AccessAssumption, Access!Month
  <2>2. BookedErrors(m) = {}
    BY <1>1, <2>1 DEF BookedErrors
  <2> QED BY <2>1, <2>2, FS_EmptySet
<1> QED BY <1>1, <1>2 DEF ErrorsAddUp, AnswersAddUp

\* Booking a request adds its error, if it is one, to those of the month.
LEMMA BooksComplete ==
  ASSUME Access!AccessAssumption, AccessSound, ErrorsAddUp, NEW r \in Requests, Access!Complete(r)
  PROVE  ErrorsAddUp'
<1>1. PICK k : k = Access!Month(now)
  OBVIOUS
<1>2. k \in Access!Months /\ usage \in [Access!Months -> [requests : Nat, errors : Nat]]
  BY <1>1, MonthsInOrder DEF AccessSound
<1>3. PICK v \in AccessRequests :
        /\ v.status = request[r].status
        /\ IF usage[k].requests = 0 THEN v.booked = request[r].booked ELSE v.booked = k
        /\ request' = [request EXCEPT ![r] = v]
  BY <1>1, CompletedRequest
<1>4. request'[r] = v /\ \A x \in Requests \ {r} : request'[x] = request[x]
  BY <1>3 DEF AccessSound
<1>5. request[r].booked = Access!Never
  BY DEF Access!Complete, AccessSound, RequestSound
<1>6. \A m \in Access!Months : m # Access!Never
  BY DEF Access!Months, Access!Never, Access!AccessAssumption, Access!Month
<1>7. ASSUME NEW m \in Access!Months PROVE usage'[m].errors = Cardinality(BookedErrors(m)')
  <2>1. usage[m].errors = Cardinality(BookedErrors(m)) /\ usage[m].errors \in Nat
    BY <1>2 DEF ErrorsAddUp
  <2>2. CASE usage[k].requests = 0
    <3>1. usage' = usage
      BY <1>1, <2>2 DEF Access!Complete
    <3>2. BookedErrors(m)' = BookedErrors(m)
      BY <1>3, <1>4, <2>2 DEF BookedErrors
    <3> QED BY <2>1, <3>1, <3>2
  <2>3. CASE usage[k].requests # 0 /\ m # k
    <3>1. usage'[m] = usage[m]
      BY <1>1, <1>2, <2>3 DEF Access!Complete
    <3>2. BookedErrors(m)' = BookedErrors(m)
      BY <1>3, <1>4, <1>5, <1>6, <2>3 DEF BookedErrors
    <3> QED BY <2>1, <3>1, <3>2
  <2>4. CASE usage[k].requests # 0 /\ m = k
    <3>1. PICK e : e = (IF request[r].status = "error" THEN 1 ELSE 0)
      OBVIOUS
    <3>2. usage' = [usage EXCEPT ![k].errors = @ + e]
      BY <1>1, <2>4, <3>1 DEF Access!Complete
    <3>3. usage'[m].errors = usage[m].errors + e
      BY <1>2, <2>4, <3>2
    <3>4. BookedErrors(m)' = (IF request[r].status = "error" THEN BookedErrors(m) \union {r}
                                                             ELSE BookedErrors(m))
      BY <1>3, <1>4, <1>5, <1>6, <2>4 DEF BookedErrors
    <3>5. IsFiniteSet(BookedErrors(m)) /\ r \notin BookedErrors(m)
      <4>1. BookedErrors(m) \subseteq Requests
        BY DEF BookedErrors
      <4> QED BY <1>5, <1>6, <4>1, FS_Subset, RequestsAreFinite DEF BookedErrors
    <3>6. Cardinality(BookedErrors(m) \union {r}) = Cardinality(BookedErrors(m)) + 1
      BY <3>5, FS_AddElement
    <3> QED BY <2>1, <3>1, <3>3, <3>4, <3>6
  <2> QED BY <2>2, <2>3, <2>4
<1> QED BY <1>7 DEF ErrorsAddUp

\* What is left to book when a month has had no request was charged before it.
LEMMA UnbookedWasCharged ==
  ASSUME Access!AccessAssumption, AccessSound, QuotaHolds, NEW r \in Requests, Access!Complete(r)
  PROVE  request'[r].booked # Access!Never \/ request'[r].charged < Access!Month(now)
<1>1. PICK k : k = Access!Month(now)
  OBVIOUS
<1>2. k \in Access!Months /\ k \in Nat
  BY <1>1, MonthsInOrder DEF AccessSound, Access!AccessAssumption
<1>3. PICK v \in AccessRequests :
        /\ v.charged = request[r].charged
        /\ IF usage[k].requests = 0 THEN v.booked = request[r].booked ELSE v.booked = k
        /\ request' = [request EXCEPT ![r] = v]
  BY <1>1, CompletedRequest
<1>4. request'[r] = v
  BY <1>3 DEF AccessSound
<1>5. request[r].charged # Access!Never /\ request[r].charged <= k
  BY <1>1 DEF Access!Complete, AccessSound, RequestSound
<1>6. CASE usage[k].requests # 0
  BY <1>2, <1>3, <1>4, <1>6 DEF Access!Never
<1>7. CASE usage[k].requests = 0
  <2>1. ChargedIn(k) \subseteq Requests /\ IsFiniteSet(Requests)
    BY RequestsAreFinite DEF ChargedIn
  <2>2. IsFiniteSet(ChargedIn(k)) /\ Cardinality(ChargedIn(k)) = 0
    BY <1>2, <1>7, <2>1, FS_Subset DEF QuotaHolds
  <2>3. r \notin ChargedIn(k)
    BY <2>2, FS_EmptySet
  <2>4. request[r].charged # k /\ request[r].charged \in Nat
    BY <1>5, <2>3 DEF ChargedIn, AccessSound, AccessRequests
  <2> QED BY <1>1, <1>2, <1>3, <1>4, <1>5, <2>4
<1> QED BY <1>6, <1>7

LEMMA BooksNext ==
  ASSUME Access!AccessAssumption, AccessSound, QuotaHolds, ErrorsAddUp, AnswersAddUp, [Access!Next]_(Access!vars)
  PROVE  ErrorsAddUp' /\ AnswersAddUp'
<1>1. \A x \in Requests : StepOf(x, request'[x])
  BY AccessSoundNext DEF AccessStep
<1>2. ErrorsAddUp'
  <2>1. CASE \E r \in Requests : Access!Complete(r)
    BY <2>1, BooksComplete
  <2>2. CASE \A r \in Requests : ~Access!Complete(r)
    <3>1. \A m \in Access!Months : usage'[m].errors = usage[m].errors
      BY <2>2, StoreSteps
    <3>2. ASSUME NEW m \in Access!Months PROVE BookedErrors(m)' = BookedErrors(m)
      <4>1. m # Access!Never
        BY DEF Access!Months, Access!Never, Access!AccessAssumption, Access!Month
      <4>2. ASSUME NEW x \in Requests
            PROVE  /\ request'[x].booked = request[x].booked
                   /\ request[x].booked # Access!Never => request'[x] = request[x]
        BY <1>1, <2>2 DEF StepOf, AccessSound, RequestSound
      <4> QED BY <4>1, <4>2 DEF BookedErrors
    <3> QED BY <3>1, <3>2 DEF ErrorsAddUp
  <2> QED BY <2>1, <2>2
<1>3. ASSUME NEW r \in Requests,
             request'[r].status = "ok", request'[r].pc = "done", r \notin Legacy
      PROVE  request'[r].booked # Access!Never \/ request'[r].charged < Access!Month(now')
  <2>1. Access!Month(now) \in Nat /\ Access!Month(now') \in Nat /\ Access!Month(now) <= Access!Month(now')
    BY StoreSteps, MonthsInOrder DEF AccessSound
  <2>2. request'[r].charged \in Nat \union {Access!Never}
    BY AccessSoundNext DEF AccessStep, AccessSound, AccessRequests
  <2>3. CASE Access!Complete(r)
    BY <2>1, <2>2, <2>3, UnbookedWasCharged DEF Access!Never
  <2>4. CASE request[r].pc = "done"
    <3>1. request'[r] = request[r]
      BY <1>1, <2>4 DEF StepOf
    <3> QED BY <1>3, <2>1, <2>2, <2>4, <3>1 DEF AnswersAddUp, Access!Never
  <2> QED BY <1>1, <1>3, <2>3, <2>4 DEF StepOf
<1> QED BY <1>2, <1>3 DEF AnswersAddUp, Access!Month

\* Errors are those of requests that were charged, at most one each; a request that
\* was charged and answered is missing from the books only when the month turned
\* under it, when it was cancelled while it was charged, or when the lock was not to
\* be had (complete_request).
THEOREM TheBooksAddUp ==
  ASSUME Access!AccessAssumption
  PROVE  Access!Spec => []Access!BooksAddUp
<1>1. Access!Spec => []AccessSound
  BY AccessStaysSound, PTL
<1>2. Access!Init => QuotaHolds /\ ErrorsAddUp /\ AnswersAddUp
  BY QuotaHoldsInit, BooksInit
<1>3. AccessSound /\ QuotaHolds /\ ErrorsAddUp /\ AnswersAddUp /\ [Access!Next]_(Access!vars) =>
        QuotaHolds' /\ ErrorsAddUp' /\ AnswersAddUp'
  BY QuotaHoldsNext, BooksNext
<1>4. ASSUME AccessSound, ErrorsAddUp, AnswersAddUp PROVE Access!BooksAddUp
  <2>1. ASSUME NEW r \in Requests, request[r].booked # Access!Never
        PROVE  request[r].charged \in 0 .. request[r].booked
    <3>1. /\ request[r].charged # Access!Never /\ request[r].charged <= request[r].booked
          /\ request[r].charged \in Nat \union {Access!Never}
          /\ request[r].booked \in Nat \union {Access!Never}
      BY <1>4, <2>1 DEF AccessSound, RequestSound, AccessRequests
    <3> QED BY <2>1, <3>1 DEF Access!Never
  <2> QED BY <1>4, <2>1, SameSets DEF Access!BooksAddUp, ErrorsAddUp, AnswersAddUp, BookedErrors
<1> QED BY <1>1, <1>2, <1>3, <1>4, PTL DEF Access!Spec

-----------------------------------------------------------------------------
(* The last use of the token.                                              *)

LEMMA LastUsedNext ==
  ASSUME Access!AccessAssumption, AccessSound, Access!LastUsedIsRecent, [Access!Next]_(Access!vars)
  PROVE  Access!LastUsedIsRecent'
<1>1. \A x \in Requests : StepOf(x, request'[x])
  BY AccessSoundNext DEF AccessStep
<1>2. Interval + MaxWait \in Nat /\ MaxWait < Interval + MaxWait /\ Interval <= Interval + MaxWait
      /\ now \in Nat /\ token.used \in Nat \union {Access!Never} /\ 0 < Interval + MaxWait
  BY DEF Access!AccessAssumption, AccessSound, Tokens
<1>3. ASSUME NEW x \in Requests, Access!Touch(x)
      PROVE  /\ token'.used = request[x].auth /\ request'[x].auth = request[x].auth
             /\ request[x].auth \in Nat /\ now - request[x].auth <= MaxWait
  <2>1. request[x] \in AccessRequests /\ RequestSound(x, request[x])
        /\ request[x].pc = "touching"
    BY <1>3 DEF AccessSound, Access!Touch
  <2>2. request[x].auth \in Nat /\ now - request[x].auth <= MaxWait
    BY <2>1 DEF RequestSound, AccessRequests, Access!Never
  <2>3. PICK a : a = request[x].auth
    OBVIOUS
  <2>4. token' = [token EXCEPT !.used = a]
    BY <1>3, <2>3 DEF Access!Touch
  <2>5. PICK v : v = [request[x] EXCEPT !.pc = "counting", !.at = Access!Never]
    OBVIOUS
  <2>6. v.auth = request[x].auth
    BY <2>1, <2>5 DEF AccessRequests
  <2>7. request' = [request EXCEPT ![x] = v]
    BY <1>3, <2>5 DEF Access!Touch, Access!Set
  <2> QED BY <2>2, <2>3, <2>4, <2>6, <2>7 DEF AccessSound, Tokens
<1>4. SUFFICES ASSUME NEW r \in Requests,
                      request'[r].auth # Access!Never, request'[r].pc \notin {"touching", "done"}
               PROVE  token'.used # Access!Never /\ request'[r].auth - token'.used < Interval + MaxWait
  BY DEF Access!LastUsedIsRecent, Access!Never
<1>5. CASE Access!Touch(r)
  BY <1>2, <1>3, <1>5 DEF Access!Never
<1>6. CASE Access!Authenticate(r)
  <2> DEFINE stale == token.used = Access!Never \/ now - token.used >= Interval
  <2>1. request[r] \in AccessRequests /\ RequestSound(r, request[r]) /\ request[r].pc = "new"
    BY <1>6 DEF Access!Authenticate, AccessSound
  <2>2. r \notin Legacy /\ Access!Valid
    <3>1. CASE r \in Legacy
      <4>1. request'[r] = [request[r] EXCEPT !.pc = "counting"]
        BY <1>6, <3>1 DEF Access!Authenticate, Access!Set, AccessSound
      <4> QED BY <1>4, <2>1, <4>1 DEF RequestSound, AccessRequests
    <3>2. CASE r \notin Legacy /\ ~Access!Valid
      <4>1. request'[r] = Access!Over(r, "error")
        BY <1>6, <3>2 DEF Access!Authenticate, Access!Set, AccessSound
      <4> QED BY <1>4, <4>1, OverSound
    <3> QED BY <3>1, <3>2
  <2>3. CASE stale
    <3>1. request'[r] = [request[r] EXCEPT !.auth = now, !.at = now, !.pc = "touching"]
      BY <1>6, <2>2, <2>3 DEF Access!Authenticate, Access!Set, AccessSound
    <3> QED BY <1>4, <2>1, <3>1 DEF AccessRequests
  <2>4. CASE ~stale
    <3>1. request'[r] = [request[r] EXCEPT !.auth = now, !.at = request[r].at, !.pc = "counting"]
      BY <1>6, <2>2, <2>4 DEF Access!Authenticate, Access!Set, AccessSound
    <3>2. request'[r].auth = now
      BY <2>1, <3>1 DEF AccessRequests
    <3>3. token' = token
      BY <1>6 DEF Access!Authenticate
    <3> QED BY <1>2, <2>4, <3>2, <3>3 DEF Access!AccessAssumption, Access!Never
  <2> QED BY <2>3, <2>4
<1>7. CASE request'[r].auth = request[r].auth /\ request[r].pc \notin {"touching", "done"}
  <2>1. /\ token.used # Access!Never /\ request[r].auth - token.used < Interval + MaxWait
        /\ request[r].auth <= now /\ request[r].auth \in Nat
    BY <1>4, <1>7 DEF Access!LastUsedIsRecent, AccessSound, RequestSound, AccessRequests
  <2>2. CASE \E x \in Requests : Access!Touch(x)
    <3>1. PICK x \in Requests : Access!Touch(x)
      BY <2>2
    <3>2. PICK a \in Nat : a = request[x].auth /\ token'.used = a /\ now - a <= MaxWait
      BY <1>3, <3>1
    <3>3. PICK b \in Nat : b = request[r].auth /\ b <= now
      BY <2>1
    <3>4. b - a <= MaxWait /\ a # Access!Never
      BY <1>2, <3>2, <3>3 DEF Access!AccessAssumption, Access!Never
    <3> QED BY <1>2, <1>7, <3>2, <3>3, <3>4 DEF Access!AccessAssumption
  <2>3. CASE \A x \in Requests : ~Access!Touch(x)
    <3>1. token'.used = token.used
      BY <2>3, StoreSteps
    <3> QED BY <1>7, <2>1, <3>1
  <2> QED BY <2>2, <2>3
<1> QED BY <1>1, <1>4, <1>5, <1>6, <1>7 DEF StepOf

\* last_used_at lags behind a use by less than the interval between two writes and the
\* longest wait for the lock, although a late writer may set it back (authenticate).
THEOREM LastUseIsRecent ==
  ASSUME Access!AccessAssumption
  PROVE  Access!Spec => []Access!LastUsedIsRecent
<1>1. Access!Spec => []AccessSound
  BY AccessStaysSound, PTL
<1>2. Access!Init => Access!LastUsedIsRecent
  BY DEF Access!Init, Access!NewRequest, Access!LastUsedIsRecent
<1>3. AccessSound /\ Access!LastUsedIsRecent /\ [Access!Next]_(Access!vars) => Access!LastUsedIsRecent'
  BY LastUsedNext
<1> QED BY <1>1, <1>2, <1>3, PTL DEF Access!Spec

-----------------------------------------------------------------------------
(* The counters of the rate limit.                                         *)

CountedBy(c) == {r \in Requests : request[r].counted = c}

\* A counter that has not expired knows of all it let through; what was counted by
\* no live counter was counted by one that is gone for good.
CountersHold ==
  /\ \A l \in Access!Layers : counter[l] # Access!NoCount => counter[l].until > now
  /\ \A r \in Requests, l \in Access!Layers, u \in Nat :
       request[r].counted = <<l, u>> /\ u > now => counter[l] # Access!NoCount /\ counter[l].until = u
  /\ \A l \in Access!Layers, u \in Nat :
       /\ Cardinality(CountedBy(<<l, u>>)) <= Rate
       /\ counter[l] # Access!NoCount /\ counter[l].until = u =>
            Cardinality(CountedBy(<<l, u>>)) <= counter[l].n

LEMMA CountedIsSomething == \A l \in Access!Layers, u \in Nat : <<l, u>> # <<>>
<1>1. ASSUME NEW l \in Access!Layers, NEW u \in Nat PROVE <<l, u>> # <<>>
  <2>1. Len(<<l, u>>) = 2 /\ Len(<<>>) = 0
    OBVIOUS
  <2> QED BY <2>1
<1> QED BY <1>1

LEMMA CountersHoldInit ==
  ASSUME Access!AccessAssumption, Access!Init
  PROVE  CountersHold
<1>1. \A r \in Requests : request[r].counted = <<>>
  BY DEF Access!Init, Access!NewRequest
<1>2. \A l \in Access!Layers : counter[l] = Access!NoCount
  BY DEF Access!Init
<1>3. ASSUME NEW l \in Access!Layers, NEW u \in Nat PROVE Cardinality(CountedBy(<<l, u>>)) <= Rate
  <2>1. CountedBy(<<l, u>>) = {}
    BY <1>1, CountedIsSomething DEF CountedBy
  <2> QED BY <2>1, FS_EmptySet DEF Access!AccessAssumption
<1> QED BY <1>1, <1>2, <1>3 DEF CountersHold

\* What one more count does to a counter.
LEMMA OneMore ==
  ASSUME Access!AccessAssumption, AccessSound, CountersHold, NEW l \in Access!Layers
  PROVE  /\ Access!Incremented(counter[l]) # Access!NoCount
         /\ Access!Incremented(counter[l]).until \in Nat /\ Access!Incremented(counter[l]).until > now
         /\ Access!Incremented(counter[l]).n \in Nat
         /\ Cardinality(CountedBy(<<l, Access!Incremented(counter[l]).until>>)) + 1
              <= Access!Incremented(counter[l]).n
         /\ counter[l] # Access!NoCount => Access!Incremented(counter[l]).until = counter[l].until
         /\ \A u \in Nat : Cardinality(CountedBy(<<l, u>>)) \in Nat
<1>1. counter[l] \in [n : Nat, until : Nat] /\ now \in Nat /\ now + Window \in Nat
      /\ now + Window > now
  BY DEF AccessSound, Access!AccessAssumption
<1>2. ASSUME NEW u \in Nat PROVE Cardinality(CountedBy(<<l, u>>)) \in Nat
  <2>1. CountedBy(<<l, u>>) \subseteq Requests
    BY DEF CountedBy
  <2> QED BY <2>1, FS_Subset, FS_CardinalityType, RequestsAreFinite
<1>3. CASE counter[l] = Access!NoCount
  <2>1. Access!Incremented(counter[l]) = [n |-> 1, until |-> now + Window]
    BY <1>3 DEF Access!Incremented
  <2>2. CountedBy(<<l, now + Window>>) = {}
    BY <1>1, <1>3 DEF CountersHold, CountedBy
  <2>3. Cardinality(CountedBy(<<l, now + Window>>)) = 0
    BY <2>2, FS_EmptySet
  <2> QED BY <1>1, <1>2, <1>3, <2>1, <2>3 DEF Access!NoCount
<1>4. CASE counter[l] # Access!NoCount
  <2>1. PICK c \in [n : Nat, until : Nat] : c = counter[l]
    BY <1>1
  <2>2. Access!Incremented(c) = [c EXCEPT !.n = c.n + 1]
    BY <1>4, <2>1 DEF Access!Incremented
  <2>3. Access!Incremented(c).n = c.n + 1 /\ Access!Incremented(c).until = c.until
    BY <2>2
  <2>4. c.until > now /\ Cardinality(CountedBy(<<l, c.until>>)) <= c.n
    BY <1>4, <2>1 DEF CountersHold
  <2>5. Access!Incremented(c) # Access!NoCount
    BY <2>1, <2>3 DEF Access!NoCount
  <2> QED BY <1>2, <2>1, <2>3, <2>4, <2>5
<1> QED BY <1>3, <1>4

\* What a count does to the requests.
LEMMA CountedRequest ==
  ASSUME Access!AccessAssumption, AccessSound, NEW r \in Requests, NEW layer \in Access!Layers,
         NEW both \in BOOLEAN, Access!Count(r, layer, both)
  PROVE  /\ request[r].counted = <<>>
         /\ \A x \in Requests \ {r} : request'[x] = request[x]
         /\ IF counter'[layer].n > Rate
            THEN request'[r].counted = <<>>
            ELSE request'[r].counted = <<layer, counter'[layer].until>>
<1>1. request[r] \in AccessRequests /\ request[r].counted = <<>>
  BY DEF Access!Count, AccessSound, RequestSound
<1>2. CASE counter'[layer].n > Rate
  <2>1. request' = [request EXCEPT ![r] = Access!Over(r, "limited")]
    BY <1>2 DEF Access!Count, Access!Set
  <2>2. Access!Over(r, "limited").counted = <<>>
    BY <1>1, OverSound
  <2> QED BY <1>1, <1>2, <2>1, <2>2 DEF AccessSound
<1>3. CASE ~(counter'[layer].n > Rate)
  <2>1. PICK p : p = (IF r \in Legacy THEN "routing" ELSE "locking")
    OBVIOUS
  <2>2. PICK c : c = <<layer, counter'[layer].until>>
    OBVIOUS
  <2>3. PICK v : v = [request[r] EXCEPT !.pc = p, !.at = now, !.counted = c]
    OBVIOUS
  <2>4. v.counted = c
    BY <1>1, <2>3 DEF AccessRequests
  <2>5. request' = [request EXCEPT ![r] = v]
    BY <1>3, <2>1, <2>2, <2>3 DEF Access!Count, Access!Set
  <2> QED BY <1>1, <1>3, <2>2, <2>4, <2>5 DEF AccessSound
<1> QED BY <1>2, <1>3

LEMMA CountersHoldCount ==
  ASSUME Access!AccessAssumption, AccessSound, CountersHold, NEW r \in Requests,
         NEW layer \in Access!Layers, NEW both \in BOOLEAN, Access!Count(r, layer, both)
  PROVE  CountersHold'
<1>1. /\ request[r].counted = <<>>
      /\ \A x \in Requests \ {r} : request'[x] = request[x]
      /\ IF counter'[layer].n > Rate
         THEN request'[r].counted = <<>>
         ELSE request'[r].counted = <<layer, counter'[layer].until>>
  BY CountedRequest
<1>2. now' = now /\ (both => layer = "local")
  BY DEF Access!Count
<1>3. \A l \in Access!Layers : counter'[l] = (IF l = layer \/ both THEN Access!Incremented(counter[l])
                                                          ELSE counter[l])
  BY DEF Access!Count
<1>4. ASSUME NEW l \in Access!Layers
      PROVE  /\ counter'[l] # Access!NoCount => counter'[l].until > now /\ counter'[l].until \in Nat
             /\ counter[l] # Access!NoCount =>
                  counter'[l] # Access!NoCount /\ counter'[l].until = counter[l].until
             /\ counter'[layer] # Access!NoCount
  <2>1. PICK i : i = Access!Incremented(counter[l])
    OBVIOUS
  <2>2. /\ i # Access!NoCount /\ i.until \in Nat /\ i.until > now
        /\ counter[l] # Access!NoCount => i.until = counter[l].until
    BY <2>1, OneMore
  <2>3. /\ counter[l] # Access!NoCount => counter[l].until > now
        /\ counter[l].until \in Nat
    BY DEF CountersHold, AccessSound
  <2>4. counter'[l] = i \/ counter'[l] = counter[l]
    BY <1>3, <2>1
  <2>5. counter'[layer] # Access!NoCount
    BY <1>3, OneMore
  <2> QED BY <2>2, <2>3, <2>4, <2>5
<1>5. ASSUME NEW x \in Requests, NEW l \in Access!Layers, NEW u \in Nat,
             request'[x].counted = <<l, u>>, u > now
      PROVE  counter'[l] # Access!NoCount /\ counter'[l].until = u
  <2>1. CASE x = r
    <3>1. <<l, u>> = <<layer, counter'[layer].until>>
      BY <1>1, <1>5, <2>1, CountedIsSomething
    <3> QED BY <1>4, <3>1
  <2>2. CASE x # r
    <3>1. counter[l] # Access!NoCount /\ counter[l].until = u
      BY <1>1, <1>5, <2>2 DEF CountersHold
    <3> QED BY <1>4, <3>1
  <2> QED BY <2>1, <2>2
<1>6. ASSUME NEW l \in Access!Layers, NEW u \in Nat
      PROVE  /\ Cardinality(CountedBy(<<l, u>>)') <= Rate
             /\ counter'[l] # Access!NoCount /\ counter'[l].until = u =>
                  Cardinality(CountedBy(<<l, u>>)') <= counter'[l].n
  <2>1. PICK k \in Nat : k = Cardinality(CountedBy(<<l, u>>))
    BY OneMore
  <2>2. k <= Rate /\ (counter[l] # Access!NoCount /\ counter[l].until = u => k <= counter[l].n)
    BY <2>1 DEF CountersHold
  <2>3. PICK i : i = Access!Incremented(counter[l])
    OBVIOUS
  <2>4. i.n \in Nat /\ (i.until = u => k + 1 <= i.n)
    BY <2>1, <2>3, OneMore
  <2>5. CASE request'[r].counted = <<l, u>>
    <3>1. /\ <<l, u>> = <<layer, counter'[layer].until>> /\ ~(counter'[layer].n > Rate)
      BY <1>1, <2>5
    <3>2. l = layer /\ counter'[l] = i /\ i.until = u /\ ~(i.n > Rate)
      BY <1>3, <2>3, <3>1
    <3>3. CountedBy(<<l, u>>)' = CountedBy(<<l, u>>) \union {r} /\ r \notin CountedBy(<<l, u>>)
      BY <1>1, <2>5 DEF CountedBy
    <3>4. IsFiniteSet(CountedBy(<<l, u>>))
      <4>1. CountedBy(<<l, u>>) \subseteq Requests
        BY DEF CountedBy
      <4> QED BY <4>1, FS_Subset, RequestsAreFinite
    <3>5. Cardinality(CountedBy(<<l, u>>)') = k + 1
      BY <2>1, <3>3, <3>4, FS_AddElement
    <3> QED BY <2>4, <3>2, <3>5 DEF Access!AccessAssumption
  <2>6. CASE request'[r].counted # <<l, u>>
    <3>1. CountedBy(<<l, u>>)' = CountedBy(<<l, u>>)
      BY <1>1, <2>6 DEF CountedBy
    <3>2. counter'[l] = i \/ counter'[l] = counter[l]
      BY <1>3, <2>3
    <3> QED BY <2>1, <2>2, <2>4, <3>1, <3>2
  <2> QED BY <2>5, <2>6
<1> QED BY <1>2, <1>4, <1>5, <1>6 DEF CountersHold

LEMMA CountersHoldTick ==
  ASSUME Access!AccessAssumption, AccessSound, CountersHold, Access!Tick
  PROVE  CountersHold'
<1>1. now \in Nat /\ now' = now + 1 /\ request' = request
      /\ counter \in [Access!Layers -> [n : Nat, until : Nat]]
  BY DEF AccessSound, Access!Tick
<1>2. \A l \in Access!Layers : counter'[l] = (IF counter[l].until <= now' THEN Access!NoCount ELSE counter[l])
  BY DEF Access!Tick
<1>3. \A l \in Access!Layers : counter'[l] # Access!NoCount => counter'[l].until > now' /\ counter'[l] = counter[l]
  BY <1>1, <1>2
<1>4. ASSUME NEW r \in Requests, NEW l \in Access!Layers, NEW u \in Nat,
             request'[r].counted = <<l, u>>, u > now'
      PROVE  counter'[l] # Access!NoCount /\ counter'[l].until = u
  <2>1. u > now /\ request[r].counted = <<l, u>>
    BY <1>1, <1>4
  <2>2. counter[l] # Access!NoCount /\ counter[l].until = u
    BY <2>1 DEF CountersHold
  <2> QED BY <1>1, <1>2, <1>4, <2>2
<1>5. \A l \in Access!Layers, u \in Nat : CountedBy(<<l, u>>)' = CountedBy(<<l, u>>)
  BY <1>1 DEF CountedBy
<1> QED BY <1>3, <1>4, <1>5 DEF CountersHold

LEMMA CountersHoldNext ==
  ASSUME Access!AccessAssumption, AccessSound, CountersHold, [Access!Next]_(Access!vars)
  PROVE  CountersHold'
<1>1. CASE \E r \in Requests, layer \in Access!Layers, both \in BOOLEAN : Access!Count(r, layer, both)
  BY <1>1, CountersHoldCount
<1>2. CASE Access!Tick
  BY <1>2, CountersHoldTick
<1>3. CASE ~Access!Tick /\ \A r \in Requests, layer \in Access!Layers, both \in BOOLEAN :
                      ~Access!Count(r, layer, both)
  <2>1. \A x \in Requests : request'[x].counted = request[x].counted
    BY <1>3, AccessSoundNext DEF AccessStep, StepOf
  <2>2. counter' = counter /\ now' = now
    BY <1>3, StoreSteps
  <2>3. \A c : CountedBy(c)' = CountedBy(c)
    BY <2>1 DEF CountedBy
  <2> QED BY <2>1, <2>2, <2>3 DEF CountersHold
<1> QED BY <1>1, <1>2, <1>3

\* A counter lets no more than the limit through before it expires, and a request that
\* Redis counted without answering is counted again rather than let through
\* (TieredCache.increment).
THEOREM RateIsKept ==
  ASSUME Access!AccessAssumption
  PROVE  Access!Spec => []Access!RateKept
<1>1. Access!Spec => []AccessSound
  BY AccessStaysSound, PTL
<1>2. Access!Init => CountersHold
  BY CountersHoldInit
<1>3. AccessSound /\ CountersHold /\ [Access!Next]_(Access!vars) => CountersHold'
  BY CountersHoldNext
<1>4. ASSUME AccessSound, CountersHold PROVE Access!RateKept
  <2>1. ASSUME NEW r \in Requests, request[r].counted # <<>>
        PROVE  Cardinality({s \in Requests : request[s].counted = request[r].counted}) <= Rate
    <3>1. request[r].counted \in Access!Layers \X Nat
      BY <1>4, <2>1 DEF AccessSound, AccessRequests
    <3>2. PICK l \in Access!Layers, u \in Nat : request[r].counted = <<l, u>>
      BY <3>1
    <3> QED BY <1>4, <3>2 DEF CountersHold, CountedBy
  <2> QED BY <2>1, SameSets DEF Access!RateKept
<1> QED BY <1>1, <1>2, <1>3, <1>4, PTL DEF Access!Spec

-----------------------------------------------------------------------------
(* The locks of the parser jobs (ResourceLocks): no resource is worked     *)
(* with twice, the lock files of a working job describe it, and a job that *)
(* is back holds nothing.                                                  *)

\* A job between its first lock and the end of its work.
UnderWay(j) == pc[j] \in {"taking", "locked", "running"}

\* A flock has one owner.
OneOwner == \A j, k \in Jobs : j # k => held[j] \intersect held[k] = {}

\* The lock to be described next has been taken.
NextIsHeld ==
  \A j \in Jobs : \A r \in Resources : pc[j] = "locked" /\ IsNext(j, r) => r \in held[j]

\* What a job needs it holds, has still to try, or goes without.
NeedsAreCovered ==
  \A j \in Jobs : UnderWay(j) => Needs(j) \subseteq held[j] \union todo[j] \union skipped[j]

\* A flock is described, but for the one taken last.
HeldAreDescribed ==
  \A j \in Jobs : \A r \in Resources :
    UnderWay(j) /\ r \in held[j] =>
      described[r] = j \/ (pc[j] = "locked" /\ IsNext(j, r))

LocksInv == /\ LocksTypeOK /\ OneOwner /\ NextIsHeld /\ NeedsAreCovered /\ HeldAreDescribed
            /\ IdleHoldNothing

-----------------------------------------------------------------------------
\* The lock sets are sets of resources (ResourceLockSet.__init__).
LEMMA StagesAreResources ==
  ASSUME LocksAssumption, NEW j \in Jobs, NEW s \in 1 .. Len(Stages[j])
  PROVE  Stages[j][s] \in SUBSET Resources
  <1>1. Stages[j] \in Seq(SUBSET Resources)
    BY DEF LocksAssumption
  <1> QED
    BY <1>1

\* A job has a first lock set.
LEMMA FirstStage ==
  ASSUME LocksAssumption, NEW j \in Jobs
  PROVE  1 \in 1 .. Len(Stages[j])
  <1>1. Stages[j] \in Seq(SUBSET Resources) /\ Len(Stages[j]) > 0
    BY DEF LocksAssumption
  <1> QED
    BY <1>1

\* The next lock is one: the names of a set are in one order.
LEMMA NextIsOne ==
  ASSUME LocksAssumption, NEW j \in Jobs, NEW r \in Resources, NEW q \in Resources,
         IsNext(j, r), IsNext(j, q)
  PROVE  r = q
  <1>1. r \in Nat /\ q \in Nat
    BY DEF LocksAssumption
  <1>2. r <= q /\ q <= r
    BY DEF IsNext
  <1> QED
    BY <1>1, <1>2

\* What a job needs changes with its stage only.
LEMMA NeedsFollowStage ==
  ASSUME LocksAssumption, NEW j \in Jobs, stage'[j] = stage[j]
  PROVE  Needs(j)' = Needs(j)
  BY DEF Needs

-----------------------------------------------------------------------------
\* Every variable keeps its type (ResourceLockSet).
LEMMA LocksInitType ==
  ASSUME LocksAssumption
  PROVE  LocksInit => LocksTypeOK
<1> SUFFICES ASSUME LocksInit PROVE LocksTypeOK
  OBVIOUS
<1>1. \A j \in Jobs : stage[j] \in 1 .. Len(Stages[j]) /\ stage[j] \in Nat
  BY FirstStage DEF LocksInit
<1> QED
  BY <1>1 DEF LocksAssumption, LocksInit, LocksTypeOK

\* The second set of the analysis, or the end of the work.
LEMMA FinishWorkType ==
  ASSUME LocksAssumption, LocksTypeOK, NEW j \in Jobs, FinishWork(j)
  PROVE  LocksTypeOK'
<1>1. CASE stage[j] < Len(Stages[j])
  <2>1. stage[j] + 1 \in 1 .. Len(Stages[j]) /\ stage[j] + 1 \in Nat
    BY <1>1 DEF LocksAssumption, LocksTypeOK
  <2>2. Stages[j][stage[j] + 1] \in SUBSET Resources
    BY <2>1, StagesAreResources
  <2>3. todo' \in [Jobs -> SUBSET Resources]
    BY <1>1, <2>2 DEF FinishWork, LocksTypeOK
  <2>4. stage' \in [Jobs -> Nat] /\ \A k \in Jobs : stage'[k] \in 1 .. Len(Stages[k])
    BY <1>1, <2>1 DEF FinishWork, LocksTypeOK
  <2>5. /\ pc' \in [Jobs -> {"idle", "taking", "locked", "running", "releasing"}]
        /\ \A k \in Jobs : pc'[k] = "running" => todo'[k] = {}
    BY <1>1 DEF FinishWork, LocksTypeOK
  <2>6. UNCHANGED <<held, skipped, described, faults>>
    BY DEF FinishWork
  <2> QED
    BY <2>3, <2>4, <2>5, <2>6 DEF LocksTypeOK
<1>2. CASE ~(stage[j] < Len(Stages[j]))
  BY <1>2 DEF FinishWork, LocksTypeOK
<1> QED
  BY <1>1, <1>2

\* Every step of the module keeps the types.
LEMMA LocksNextType ==
  ASSUME LocksAssumption
  PROVE  LocksTypeOK /\ [LocksNext]_lockVars => LocksTypeOK'
<1> SUFFICES ASSUME LocksTypeOK, [LocksNext]_lockVars PROVE LocksTypeOK'
  OBVIOUS
<1>1. CASE UNCHANGED lockVars
  BY <1>1 DEF LocksTypeOK, lockVars
<1>2. ASSUME NEW j \in Jobs, Start(j) PROVE LocksTypeOK'
  <2>1. 1 \in 1 .. Len(Stages[j]) /\ Stages[j][1] \in SUBSET Resources
    BY FirstStage, StagesAreResources
  <2>2. stage' \in [Jobs -> Nat] /\ \A k \in Jobs : stage'[k] \in 1 .. Len(Stages[k])
    BY <1>2, <2>1 DEF Start, LocksTypeOK
  <2>3. todo' \in [Jobs -> SUBSET Resources] /\ skipped' \in [Jobs -> SUBSET Resources]
    BY <1>2, <2>1 DEF Start, LocksTypeOK
  <2>4. /\ pc' \in [Jobs -> {"idle", "taking", "locked", "running", "releasing"}]
        /\ \A k \in Jobs : pc'[k] = "running" => todo'[k] = {}
    BY <1>2 DEF Start, LocksTypeOK
  <2> QED
    BY <1>2, <2>2, <2>3, <2>4 DEF Start, LocksTypeOK
<1>3. ASSUME NEW j \in Jobs, NEW r \in Resources, Take(j, r) PROVE LocksTypeOK'
  BY <1>3 DEF Take, LocksTypeOK
<1>4. ASSUME NEW j \in Jobs, NEW r \in Resources, Describe(j, r) PROVE LocksTypeOK'
  BY <1>4 DEF Describe, LocksTypeOK
<1>5. ASSUME NEW j \in Jobs, NEW r \in Resources, Refused(j, r) PROVE LocksTypeOK'
  BY <1>5 DEF Refused, LocksTypeOK
<1>6. ASSUME NEW j \in Jobs, NEW r \in Resources, SkipLocked(j, r) PROVE LocksTypeOK'
  BY <1>6 DEF SkipLocked, LocksTypeOK
<1>7. ASSUME NEW j \in Jobs, FinishWork(j) PROVE LocksTypeOK'
  BY <1>7, FinishWorkType
<1>8. ASSUME NEW j \in Jobs, Release(j) PROVE LocksTypeOK'
  BY <1>8 DEF Release, LocksTypeOK
<1>9. ASSUME NEW j \in Jobs, NEW r \in Resources, WriteFails(j, r) PROVE LocksTypeOK'
  BY <1>9 DEF LocksAssumption, WriteFails, LocksTypeOK
<1>10. ASSUME NEW j \in Jobs, ProcessDies(j) PROVE LocksTypeOK'
  BY <1>10 DEF LocksAssumption, ProcessDies, LocksTypeOK
<1> QED
  BY <1>1, <1>2, <1>3, <1>4, <1>5, <1>6, <1>7, <1>8, <1>9, <1>10 DEF LocksNext, Step

THEOREM LocksTypeCorrect ==
  ASSUME LocksAssumption
  PROVE  LocksSpec => []LocksTypeOK
  BY LocksInitType, LocksNextType, PTL DEF LocksSpec

-----------------------------------------------------------------------------
LEMMA LocksInitInv ==
  ASSUME LocksAssumption
  PROVE  LocksInit => LocksInv
<1> SUFFICES ASSUME LocksInit PROVE LocksInv
  OBVIOUS
<1>1. LocksTypeOK
  BY LocksInitType
<1>2. OneOwner /\ NextIsHeld /\ NeedsAreCovered /\ HeldAreDescribed /\ IdleHoldNothing
  BY DEF LocksInit, OneOwner, NextIsHeld, NeedsAreCovered, HeldAreDescribed, IdleHoldNothing, UnderWay
<1> QED
  BY <1>1, <1>2 DEF LocksInv

\* A timer starts the job with its first set; it held nothing.
LEMMA StartKeeps ==
  ASSUME LocksAssumption, LocksInv, LocksTypeOK', NEW j \in Jobs, Start(j)
  PROVE  LocksInv'
<1> USE DEF LocksInv
<1>1. held' = held /\ described' = described
  BY DEF Start
<1>2. /\ pc'[j] = "taking" /\ stage'[j] = 1 /\ todo'[j] = Stages[j][1] /\ held[j] = {}
      /\ \A k \in Jobs \ {j} : /\ pc'[k] = pc[k] /\ todo'[k] = todo[k]
                               /\ stage'[k] = stage[k] /\ skipped'[k] = skipped[k]
  BY DEF Start, LocksTypeOK, IdleHoldNothing
<1>3. OneOwner' /\ IdleHoldNothing'
  BY <1>1, <1>2 DEF OneOwner, IdleHoldNothing
<1>4. NextIsHeld'
  BY <1>1, <1>2 DEF NextIsHeld, IsNext
<1>5. NeedsAreCovered'
  <2>1. Needs(j)' = Stages[j][1]
    BY <1>2 DEF Needs
  <2>2. \A k \in Jobs \ {j} : Needs(k)' = Needs(k)
    BY <1>2, NeedsFollowStage
  <2> QED
    BY <1>1, <1>2, <2>1, <2>2 DEF NeedsAreCovered, UnderWay
<1>6. HeldAreDescribed'
  BY <1>1, <1>2 DEF HeldAreDescribed, IsNext, UnderWay
<1> QED
  BY <1>3, <1>4, <1>5, <1>6

\* The flock of a free resource is granted.
LEMMA TakeKeeps ==
  ASSUME LocksAssumption, LocksInv, LocksTypeOK',
         NEW j \in Jobs, NEW r \in Resources, Take(j, r)
  PROVE  LocksInv'
<1> USE DEF LocksInv
<1>1. stage' = stage /\ todo' = todo /\ skipped' = skipped /\ described' = described
  BY DEF Take
<1>2. /\ pc[j] = "taking" /\ pc'[j] = "locked" /\ held'[j] = held[j] \union {r}
      /\ IsNext(j, r) /\ \A k \in Jobs : r \notin held[k]
      /\ \A k \in Jobs \ {j} : pc'[k] = pc[k] /\ held'[k] = held[k]
  BY DEF Take, LocksTypeOK, Free
<1>3. OneOwner' /\ IdleHoldNothing'
  BY <1>2 DEF OneOwner, IdleHoldNothing
<1>4. NextIsHeld'
  <2> SUFFICES ASSUME NEW k \in Jobs, NEW q \in Resources,
                      pc'[k] = "locked", IsNext(k, q)'
               PROVE  q \in held'[k]
    BY DEF NextIsHeld
  <2>1. IsNext(k, q)
    BY <1>1 DEF IsNext
  <2>2. CASE k = j
    BY <1>2, <2>1, <2>2, NextIsOne
  <2>3. CASE k # j
    BY <1>2, <2>1, <2>3 DEF NextIsHeld
  <2> QED
    BY <2>2, <2>3
<1>5. NeedsAreCovered'
  <2>1. \A k \in Jobs : Needs(k)' = Needs(k)
    BY <1>1, NeedsFollowStage
  <2> QED
    BY <1>1, <1>2, <2>1 DEF NeedsAreCovered, UnderWay
<1>6. HeldAreDescribed'
  <2>1. \A k \in Jobs, q \in Resources : IsNext(k, q)' <=> IsNext(k, q)
    BY <1>1 DEF IsNext
  <2> QED
    BY <1>1, <1>2, <2>1 DEF HeldAreDescribed, UnderWay
<1> QED
  BY <1>3, <1>4, <1>5, <1>6

\* The owner is written into the file it has just locked.
LEMMA DescribeKeeps ==
  ASSUME LocksAssumption, LocksInv, LocksTypeOK',
         NEW j \in Jobs, NEW r \in Resources, Describe(j, r)
  PROVE  LocksInv'
<1> USE DEF LocksInv
<1>1. stage' = stage /\ held' = held /\ skipped' = skipped
  BY DEF Describe
<1>2. /\ pc[j] = "locked" /\ pc'[j] \in {"running", "taking"} /\ IsNext(j, r)
      /\ todo'[j] = todo[j] \ {r}
      /\ \A k \in Jobs \ {j} : pc'[k] = pc[k] /\ todo'[k] = todo[k]
  BY DEF Describe, LocksTypeOK
<1>3. described'[r] = j /\ \A q \in Resources \ {r} : described'[q] = described[q]
  BY DEF Describe, LocksTypeOK
<1>4. r \in held[j]
  BY <1>2 DEF NextIsHeld
<1>5. OneOwner' /\ IdleHoldNothing'
  BY <1>1, <1>2 DEF OneOwner, IdleHoldNothing
<1>6. NextIsHeld'
  BY <1>1, <1>2 DEF NextIsHeld, IsNext
<1>7. NeedsAreCovered'
  <2>1. \A k \in Jobs : Needs(k)' = Needs(k)
    BY <1>1, NeedsFollowStage
  <2> QED
    BY <1>1, <1>2, <1>4, <2>1 DEF NeedsAreCovered, UnderWay
<1>8. HeldAreDescribed'
  <2> SUFFICES ASSUME NEW k \in Jobs, NEW q \in Resources, UnderWay(k)', q \in held[k]
               PROVE  described'[q] = k \/ (pc'[k] = "locked" /\ IsNext(k, q)')
    BY <1>1 DEF HeldAreDescribed
  <2>1. CASE k = j
    <3>1. UnderWay(k)
      BY <1>2, <2>1 DEF UnderWay
    <3>2. described[q] = k \/ IsNext(j, q)
      BY <2>1, <3>1 DEF HeldAreDescribed
    <3>3. CASE IsNext(j, q)
      BY <1>2, <1>3, <2>1, <3>3, NextIsOne
    <3> QED
      BY <1>3, <2>1, <3>2, <3>3
  <2>2. CASE k # j
    <3>1. q # r
      BY <1>4, <2>2 DEF OneOwner
    <3>2. UnderWay(k) /\ (IsNext(k, q)' <=> IsNext(k, q))
      BY <1>2, <2>2 DEF UnderWay, IsNext
    <3> QED
      BY <1>2, <1>3, <2>2, <3>1, <3>2 DEF HeldAreDescribed
  <2> QED
    BY <2>1, <2>2
<1> QED
  BY <1>5, <1>6, <1>7, <1>8

\* Another process has the lock: a job of mode "all" turns back.
LEMMA RefusedKeeps ==
  ASSUME LocksAssumption, LocksInv, LocksTypeOK',
         NEW j \in Jobs, NEW r \in Resources, Refused(j, r)
  PROVE  LocksInv'
<1> USE DEF LocksInv
<1>1. UNCHANGED <<stage, todo, held, skipped, described>>
  BY DEF Refused
<1>2. /\ pc'[j] = "releasing"
      /\ \A k \in Jobs \ {j} : pc'[k] = pc[k]
  BY DEF Refused, LocksTypeOK
<1>3. OneOwner' /\ IdleHoldNothing'
  BY <1>1, <1>2 DEF OneOwner, IdleHoldNothing
<1>4. NextIsHeld' /\ HeldAreDescribed'
  BY <1>1, <1>2 DEF NextIsHeld, HeldAreDescribed, IsNext, UnderWay
<1>5. NeedsAreCovered'
  <2>1. \A k \in Jobs : Needs(k)' = Needs(k)
    BY <1>1, NeedsFollowStage
  <2> QED
    BY <1>1, <1>2, <2>1 DEF NeedsAreCovered, UnderWay
<1> QED
  BY <1>3, <1>4, <1>5

\* A job of mode "each" leaves the resource out.
LEMMA SkipLockedKeeps ==
  ASSUME LocksAssumption, LocksInv, LocksTypeOK',
         NEW j \in Jobs, NEW r \in Resources, SkipLocked(j, r)
  PROVE  LocksInv'
<1> USE DEF LocksInv
<1>1. stage' = stage /\ held' = held /\ described' = described
  BY DEF SkipLocked
<1>2. /\ pc[j] = "taking" /\ pc'[j] \in {"taking", "releasing", "running"}
      /\ todo'[j] = todo[j] \ {r} /\ skipped'[j] = skipped[j] \union {r}
      /\ \A k \in Jobs \ {j} : /\ pc'[k] = pc[k] /\ todo'[k] = todo[k]
                               /\ skipped'[k] = skipped[k]
  BY DEF SkipLocked, LocksTypeOK
<1>3. OneOwner' /\ IdleHoldNothing'
  BY <1>1, <1>2 DEF OneOwner, IdleHoldNothing
<1>4. NextIsHeld' /\ HeldAreDescribed'
  BY <1>1, <1>2 DEF NextIsHeld, HeldAreDescribed, IsNext, UnderWay
<1>5. NeedsAreCovered'
  <2>1. \A k \in Jobs : Needs(k)' = Needs(k)
    BY <1>1, NeedsFollowStage
  <2> QED
    BY <1>1, <1>2, <2>1 DEF NeedsAreCovered, UnderWay
<1> QED
  BY <1>3, <1>4, <1>5

\* The work of a set is done; what the job holds stays held in its next set.
LEMMA FinishWorkKeeps ==
  ASSUME LocksAssumption, LocksInv, LocksTypeOK', NEW j \in Jobs, FinishWork(j)
  PROVE  LocksInv'
<1> USE DEF LocksInv
<1>1. UNCHANGED <<held, skipped, described>>
  BY DEF FinishWork
<1>2. /\ pc[j] = "running" /\ todo[j] = {} /\ pc'[j] \in {"taking", "releasing"}
      /\ \A k \in Jobs \ {j} : /\ pc'[k] = pc[k] /\ todo'[k] = todo[k]
                               /\ stage'[k] = stage[k]
  BY DEF FinishWork, LocksTypeOK
<1>3. OneOwner' /\ IdleHoldNothing'
  BY <1>1, <1>2 DEF OneOwner, IdleHoldNothing
<1>4. NextIsHeld' /\ HeldAreDescribed'
  BY <1>1, <1>2 DEF NextIsHeld, HeldAreDescribed, IsNext, UnderWay
<1>5. NeedsAreCovered'
  <2>1. \A k \in Jobs \ {j} : Needs(k)' = Needs(k)
    BY <1>2, NeedsFollowStage
  <2>2. ASSUME pc'[j] = "taking"
        PROVE  Needs(j)' = Needs(j) \union todo'[j]
    <3>1. /\ stage'[j] = stage[j] + 1 /\ stage[j] \in Nat
          /\ stage[j] >= 1 /\ todo'[j] = Stages[j][stage[j] + 1]
      BY <2>2 DEF FinishWork, LocksTypeOK
    <3>2. 1 .. (stage[j] + 1) = 1 .. stage[j] \union {stage[j] + 1}
      BY <3>1
    <3> QED
      BY <3>1, <3>2 DEF Needs
  <2> QED
    BY <1>1, <1>2, <2>1, <2>2 DEF NeedsAreCovered, UnderWay
<1> QED
  BY <1>3, <1>4, <1>5

\* The flocks go back one by one; the job is idle when the last is gone.
LEMMA ReleaseKeeps ==
  ASSUME LocksAssumption, LocksInv, LocksTypeOK', NEW j \in Jobs, Release(j)
  PROVE  LocksInv'
<1> USE DEF LocksInv
<1>1. UNCHANGED <<stage, todo, skipped, described>>
  BY DEF Release
<1>2. /\ pc[j] = "releasing" /\ pc'[j] \in {"idle", "releasing"}
      /\ held'[j] \subseteq held[j] /\ (pc'[j] = "idle" => held'[j] = {})
      /\ \A k \in Jobs \ {j} : pc'[k] = pc[k] /\ held'[k] = held[k]
  BY DEF Release, LocksTypeOK
<1>3. OneOwner' /\ IdleHoldNothing'
  BY <1>2 DEF OneOwner, IdleHoldNothing
<1>4. NextIsHeld' /\ HeldAreDescribed'
  BY <1>1, <1>2 DEF NextIsHeld, HeldAreDescribed, IsNext, UnderWay
<1>5. NeedsAreCovered'
  <2>1. \A k \in Jobs : Needs(k)' = Needs(k)
    BY <1>1, NeedsFollowStage
  <2> QED
    BY <1>1, <1>2, <2>1 DEF NeedsAreCovered, UnderWay
<1> QED
  BY <1>3, <1>4, <1>5

\* An owner that cannot be written spoils the job's own lock file only.
LEMMA WriteFailsKeeps ==
  ASSUME LocksAssumption, LocksInv, LocksTypeOK',
         NEW j \in Jobs, NEW r \in Resources, WriteFails(j, r)
  PROVE  LocksInv'
<1> USE DEF LocksInv
<1>1. UNCHANGED <<stage, todo, held, skipped>>
  BY DEF WriteFails
<1>2. /\ pc[j] = "locked" /\ pc'[j] = "releasing" /\ IsNext(j, r)
      /\ \A k \in Jobs \ {j} : pc'[k] = pc[k]
      /\ \A q \in Resources \ {r} : described'[q] = described[q]
  BY DEF WriteFails, LocksTypeOK
<1>3. r \in held[j]
  BY <1>2 DEF NextIsHeld
<1>4. OneOwner' /\ IdleHoldNothing'
  BY <1>1, <1>2 DEF OneOwner, IdleHoldNothing
<1>5. NextIsHeld'
  BY <1>1, <1>2 DEF NextIsHeld, IsNext
<1>6. HeldAreDescribed'
  <2> SUFFICES ASSUME NEW k \in Jobs, NEW q \in Resources, UnderWay(k)', q \in held[k]
               PROVE  described'[q] = k \/ (pc'[k] = "locked" /\ IsNext(k, q)')
    BY <1>1 DEF HeldAreDescribed
  <2>1. k # j
    BY <1>2 DEF UnderWay
  <2>2. q # r
    BY <1>3, <2>1 DEF OneOwner
  <2>3. UnderWay(k) /\ (IsNext(k, q)' <=> IsNext(k, q))
    BY <1>1, <1>2, <2>1 DEF UnderWay, IsNext
  <2> QED
    BY <1>2, <2>1, <2>2, <2>3 DEF HeldAreDescribed
<1>7. NeedsAreCovered'
  <2>1. \A k \in Jobs : Needs(k)' = Needs(k)
    BY <1>1, NeedsFollowStage
  <2> QED
    BY <1>1, <1>2, <2>1 DEF NeedsAreCovered, UnderWay
<1> QED
  BY <1>4, <1>5, <1>6, <1>7

\* The kernel closes the files of a dead process.
LEMMA DieKeeps ==
  ASSUME LocksAssumption, LocksInv, LocksTypeOK', NEW j \in Jobs, ProcessDies(j)
  PROVE  LocksInv'
<1> USE DEF LocksInv
<1>1. UNCHANGED <<stage, todo, skipped, described>>
  BY DEF ProcessDies
<1>2. /\ pc'[j] = "idle" /\ held'[j] = {}
      /\ \A k \in Jobs \ {j} : pc'[k] = pc[k] /\ held'[k] = held[k]
  BY DEF ProcessDies, LocksTypeOK
<1>3. OneOwner' /\ IdleHoldNothing'
  BY <1>2 DEF OneOwner, IdleHoldNothing
<1>4. NextIsHeld' /\ HeldAreDescribed'
  BY <1>1, <1>2 DEF NextIsHeld, HeldAreDescribed, IsNext, UnderWay
<1>5. NeedsAreCovered'
  <2>1. \A k \in Jobs : Needs(k)' = Needs(k)
    BY <1>1, NeedsFollowStage
  <2> QED
    BY <1>1, <1>2, <2>1 DEF NeedsAreCovered, UnderWay
<1> QED
  BY <1>3, <1>4, <1>5

LEMMA LocksInvIsInductive ==
  ASSUME LocksAssumption
  PROVE  LocksInv /\ [LocksNext]_lockVars => LocksInv'
<1> SUFFICES ASSUME LocksInv, [LocksNext]_lockVars PROVE LocksInv'
  OBVIOUS
<1>0. LocksTypeOK'
  BY LocksNextType DEF LocksInv
<1>1. CASE UNCHANGED lockVars
  BY <1>0, <1>1 DEF LocksInv, OneOwner, NextIsHeld, NeedsAreCovered, HeldAreDescribed,
                    IdleHoldNothing, UnderWay, Needs, IsNext, lockVars
<1>2. ASSUME NEW j \in Jobs, Step(j) PROVE LocksInv'
  <2>1. CASE Start(j)
    BY <1>0, <2>1, StartKeeps
  <2>2. ASSUME NEW r \in Resources,
               Take(j, r) \/ Describe(j, r) \/ Refused(j, r) \/ SkipLocked(j, r)
        PROVE  LocksInv'
    BY <1>0, <2>2, TakeKeeps, DescribeKeeps, RefusedKeeps, SkipLockedKeeps
  <2>3. CASE FinishWork(j)
    BY <1>0, <2>3, FinishWorkKeeps
  <2>4. CASE Release(j)
    BY <1>0, <2>4, ReleaseKeeps
  <2> QED
    BY <1>2, <2>1, <2>2, <2>3, <2>4 DEF Step
<1>3. ASSUME NEW j \in Jobs, NEW r \in Resources, WriteFails(j, r) PROVE LocksInv'
  BY <1>0, <1>3, WriteFailsKeeps
<1>4. ASSUME NEW j \in Jobs, ProcessDies(j) PROVE LocksInv'
  BY <1>0, <1>4, DieKeeps
<1> QED
  BY <1>1, <1>2, <1>3, <1>4 DEF LocksNext

LEMMA LocksInvHolds ==
  ASSUME LocksAssumption
  PROVE  LocksSpec => []LocksInv
  BY LocksInitInv, LocksInvIsInductive, PTL DEF LocksSpec

\* What a working job works with, it holds.
LEMMA UsedIsHeld ==
  ASSUME LocksAssumption, LocksInv, NEW j \in Jobs
  PROVE  Uses(j) \subseteq held[j]
<1>1. CASE pc[j] = "running"
  <2>1. todo[j] = {}
    BY <1>1 DEF LocksInv, LocksTypeOK
  <2>2. Needs(j) \subseteq held[j] \union todo[j] \union skipped[j]
    BY <1>1 DEF LocksInv, NeedsAreCovered, UnderWay
  <2> QED
    BY <2>1, <2>2 DEF Uses
<1>2. CASE pc[j] # "running"
  BY <1>2 DEF Uses
<1> QED
  BY <1>1, <1>2

-----------------------------------------------------------------------------
\* Two jobs never work with one resource, whatever their sets, their modes, the
\* deaths and the failed writes (acquire, refresh_sources).
THEOREM WorkIsNotShared ==
  ASSUME LocksAssumption
  PROVE  LocksSpec => []NoSharedWork
<1>1. LocksInv => NoSharedWork
  <2> SUFFICES ASSUME LocksInv, NEW j \in Jobs, NEW k \in Jobs, j # k
               PROVE  Uses(j) \intersect Uses(k) = {}
    BY DEF NoSharedWork
  <2>1. held[j] \intersect held[k] = {}
    BY DEF LocksInv, OneOwner
  <2> QED
    BY <2>1, UsedIsHeld
<1> QED
  BY <1>1, LocksInvHolds, PTL

\* The lock files of a working job name it (ResourceLock.acquire's metadata).
THEOREM OwnersAreNamed ==
  ASSUME LocksAssumption
  PROVE  LocksSpec => []WorkersAreDescribed
<1>1. LocksInv => WorkersAreDescribed
  <2> SUFFICES ASSUME LocksInv, NEW j \in Jobs, NEW r \in Uses(j)
               PROVE  described[r] = j
    BY DEF WorkersAreDescribed
  <2>1. pc[j] = "running"
    BY DEF Uses
  <2>2. r \in held[j] /\ r \in Resources
    BY UsedIsHeld DEF LocksInv, LocksTypeOK
  <2> QED
    BY <2>1, <2>2 DEF LocksInv, HeldAreDescribed, UnderWay
<1> QED
  BY <1>1, LocksInvHolds, PTL

\* A job that is back left no flock behind, however it ended (release).
THEOREM NothingLeftBehind ==
  ASSUME LocksAssumption
  PROVE  LocksSpec => []IdleHoldNothing
<1>1. LocksInv => IdleHoldNothing
  BY DEF LocksInv
<1> QED
  BY <1>1, LocksInvHolds, PTL

-----------------------------------------------------------------------------
(* The snapshots of HSReplay (HsReplayTransport).                           *)

CONSTANTS Tasks, SourceOf, KeyOf, Channels, Proxied, MaxRequests, MaxCredits, AnswerCosts,
          TriesPerChannel

VARIABLES task, gate, cache, circuit, probe, place, scrapes, scrapeCredits, transports,
          scrapeSpent, unseen, through

Hs == INSTANCE HsReplayTransport WITH
  Costs <- AnswerCosts, Attempts <- TriesPerChannel,
  requests <- scrapes, credits <- scrapeCredits, spent <- scrapeSpent

Steps == {"new", "gate", "next", "probing", "asking", "scraping", "paying", "done"}

\* A task that holds its snapshot's lock, and one that is on a channel.
Fetching == {"next", "probing", "asking", "scraping", "paying"}
OnChannel == {"probing", "asking", "scraping", "paying"}

TaskStates ==
  [pc : Steps, at : 1 .. Len(Channels) + 1, try : 1 .. TriesPerChannel, refused : BOOLEAN,
   alone : BOOLEAN, via : Hs!Labels \cup {"none"},
   outcome : {"none", "ok", "proxy", "error", "cancelled"}]

ProbeStates ==
  [st : {"none", "running", "done"}, by : Tasks \cup {"none"},
   result : {"none", "ok", "refused", "failed"}]

BudgetTyped ==
  /\ place \in Tasks \cup {"none"}
  /\ scrapes \in Nat /\ scrapeCredits \in Nat /\ scrapeSpent \in Nat /\ unseen \in Nat

HsTyped ==
  /\ task \in [Tasks -> TaskStates]
  /\ gate \in [Hs!Keys -> Tasks \cup {"none"}]
  /\ cache \in [Hs!Keys -> Hs!Labels \cup {"none"}]
  /\ circuit \in BOOLEAN /\ probe \in ProbeStates /\ through \in Nat
  /\ BudgetTyped
  /\ transports \in [Hs!SourcesOf -> SUBSET Hs!Labels]
  /\ \A t \in Tasks : task[t].pc \in OnChannel => task[t].at <= Len(Channels)

\* A task that has been refused knows a closed circuit; until it has met a channel that
\* does without the proxy, all it has passed needed it.
TurnTrue(v, refusing) ==
  /\ v.refused => refusing
  /\ v.pc = "probing" => Channels[v.at] \in Proxied
  /\ v.pc = "asking" => v.alone \/ Channels[v.at] \in Proxied
  /\ v.pc \in {"scraping", "paying"} => v.alone
  /\ ~v.alone => \A i \in 1 .. Len(Channels) : i < v.at => Channels[i] \in Proxied
  /\ v.outcome = "none" \/ v.pc = "done"
  /\ v.outcome = "proxy" => refusing /\ Hs!Labels \subseteq Proxied

TurnsAreTrue == \A t \in Tasks : TurnTrue(task[t], circuit)

\* Before the probe nothing has gone through the proxy, beside it nothing does.
ProbeIsFirst ==
  /\ probe.st = "none" => through = 0
  /\ probe.st = "running" => through = 1
  /\ probe.result = "refused" => circuit
  /\ \A t \in Tasks : task[t].pc = "asking" /\ Channels[task[t].at] \in Proxied => probe.st = "done"

\* Whoever pays has the place, and one credit of his is counted already.
PlaceIsPaid ==
  /\ \A t \in Tasks : task[t].pc = "paying" <=> place = t
  /\ scrapes <= MaxRequests
  /\ scrapeCredits <= MaxCredits + Hs!MaxCost - 1
  /\ place = "none" => scrapeSpent - unseen <= scrapeCredits
  /\ place # "none" => scrapeCredits <= MaxCredits /\ scrapeSpent - unseen <= scrapeCredits - 1

TransportSound ==
  /\ HsTyped /\ TurnsAreTrue /\ ProbeIsFirst /\ Hs!OneFetchPerSnapshot /\ PlaceIsPaid
  /\ Hs!AttributionIsTrue

\* The dearest answer.
LEMMA DearestAnswer ==
  ASSUME Hs!TransportAssumption
  PROVE  /\ Hs!MaxCost \in AnswerCosts /\ Hs!MaxCost \in Nat /\ Hs!MaxCost >= 1
         /\ \A c \in AnswerCosts : c \in Nat /\ c <= Hs!MaxCost
<1> DEFINE F == {T \in SUBSET AnswerCosts : T = {} \/ \E c \in T : \A d \in T : d <= c}
<1>1. IsFiniteSet(AnswerCosts) /\ AnswerCosts \subseteq Nat /\ AnswerCosts # {}
  <2>1. Hs!IsFiniteSet(AnswerCosts) <=> IsFiniteSet(AnswerCosts)
    BY SMT DEF Hs!IsFiniteSet, IsFiniteSet
  <2> QED BY <2>1 DEF Hs!TransportAssumption
<1>2. ASSUME NEW T \in SUBSET AnswerCosts, NEW x \in AnswerCosts \ T, T \in F
      PROVE  T \cup {x} \in F
  <2>1. CASE T = {}
    BY <2>1, <1>1
  <2>2. CASE T # {}
    <3>1. PICK c \in T : \A d \in T : d <= c
      BY <1>2, <2>2
    <3>2. CASE x <= c
      BY <3>1, <3>2, <1>1
    <3>3. CASE ~(x <= c)
      <4>1. \A d \in T \cup {x} : d <= x
        BY <3>1, <3>3, <1>1
      <4> QED BY <4>1
    <3> QED BY <3>2, <3>3
  <2> QED BY <2>1, <2>2
<1>3. {} \in F
  OBVIOUS
<1>4. AnswerCosts \in F
  <2> HIDE DEF F
  <2> QED BY <1>1, <1>2, <1>3, SubsetInduction
<1>5. PICK c \in AnswerCosts : \A d \in AnswerCosts : d <= c
  BY <1>1, <1>4
<1>6. Hs!MaxCost \in AnswerCosts /\ \A d \in AnswerCosts : d <= Hs!MaxCost
  BY <1>5 DEF Hs!MaxCost
<1> QED BY <1>1, <1>6 DEF Hs!TransportAssumption

LEMMA ChannelsAreMany ==
  ASSUME Hs!TransportAssumption
  PROVE  /\ Len(Channels) \in Nat
         /\ \A i \in 1 .. Len(Channels) : Channels[i] \in Hs!Labels
         /\ \A x \in Hs!Labels : \E i \in 1 .. Len(Channels) : x = Channels[i]
         /\ "none" \notin Tasks /\ MaxRequests \in Nat /\ MaxCredits \in Nat
         /\ TriesPerChannel \in Nat /\ TriesPerChannel >= 1
         /\ \A t \in Tasks : KeyOf[t] \in Hs!Keys /\ SourceOf[t] \in Hs!SourcesOf
<1>1. Channels \in Seq(STRING)
  BY DEF Hs!TransportAssumption
<1>2. Len(Channels) \in Nat /\ DOMAIN Channels = 1 .. Len(Channels)
  BY <1>1
<1> QED BY <1>2 DEF Hs!TransportAssumption, Hs!Labels, Hs!Keys, Hs!SourcesOf, Hs!None

LEMMA TransportInit ==
  ASSUME Hs!TransportAssumption, Hs!Init
  PROVE  TransportSound
<1> USE DEF Hs!Init, Hs!NewTask, Hs!NoProbe, Hs!None
<1>1. HsTyped
  <2>1. Hs!NewTask \in TaskStates /\ Hs!NewTask.pc = "new"
    BY ChannelsAreMany DEF TaskStates, Steps
  <2>2. Hs!NoProbe \in ProbeStates
    BY DEF ProbeStates
  <2> HIDE DEF Hs!NewTask, Hs!NoProbe
  <2>3. task \in [Tasks -> TaskStates] /\ \A t \in Tasks : task[t].pc = "new"
    BY <2>1
  <2> QED BY <2>2, <2>3 DEF HsTyped, BudgetTyped, OnChannel
<1>2. TurnsAreTrue
  BY ChannelsAreMany DEF TurnsAreTrue, TurnTrue
<1>3. ProbeIsFirst /\ Hs!OneFetchPerSnapshot
  BY DEF ProbeIsFirst, Hs!OneFetchPerSnapshot
<1>4. PlaceIsPaid
  BY ChannelsAreMany, DearestAnswer DEF PlaceIsPaid
<1>5. Hs!AttributionIsTrue
  BY DEF Hs!AttributionIsTrue
<1> QED BY <1>1, <1>2, <1>3, <1>4, <1>5 DEF TransportSound

\* What a step may make of a task's record: it ends without its snapshot, ...
LEMMA EndedMoves ==
  ASSUME Hs!TransportAssumption, HsTyped, NEW t \in Tasks,
         NEW o \in {"proxy", "error", "cancelled"}, NEW f, f = Hs!Ended(t, o)
  PROVE  /\ f \in TaskStates /\ f.pc = "done" /\ f.at = task[t].at
         /\ f.refused = task[t].refused /\ f.alone = task[t].alone /\ f.outcome = o
<1>1. task[t] \in TaskStates
  BY DEF HsTyped
<1> QED BY <1>1 DEF TaskStates, Steps, Hs!Ended

\* ... it passes a channel, ...
LEMMA ChannelMoves ==
  ASSUME Hs!TransportAssumption, HsTyped, NEW t \in Tasks, task[t].at <= Len(Channels)
  PROVE  /\ LET f == Hs!Failed(t) IN
            /\ f \in TaskStates /\ f.pc = "next" /\ f.at = task[t].at + 1
            /\ f.refused = task[t].refused /\ f.alone = task[t].alone
            /\ f.outcome = task[t].outcome
         /\ LET f == Hs!Refused(t) IN
            /\ f \in TaskStates /\ f.pc = "next" /\ f.at = task[t].at + 1 /\ f.refused = TRUE
            /\ f.alone = task[t].alone /\ f.outcome = task[t].outcome
<1>1. task[t] \in TaskStates
  BY DEF HsTyped
<1>2. task[t].at + 1 \in 1 .. Len(Channels) + 1 /\ 1 \in 1 .. TriesPerChannel
  BY <1>1, ChannelsAreMany DEF TaskStates
<1>3. LET f == Hs!Failed(t) IN
      /\ f \in TaskStates /\ f.pc = "next" /\ f.at = task[t].at + 1
      /\ f.refused = task[t].refused /\ f.alone = task[t].alone
      /\ f.outcome = task[t].outcome
  BY <1>1, <1>2 DEF TaskStates, Steps, Hs!Failed
<1> QED BY <1>3 DEF TaskStates, Hs!Refused

\* ... or it goes on.
LEMMA PcMoves ==
  ASSUME Hs!TransportAssumption, HsTyped, NEW t \in Tasks, NEW p \in Steps,
         NEW f, f = [task[t] EXCEPT !.pc = p]
  PROVE  /\ f \in TaskStates /\ f.pc = p /\ f.at = task[t].at /\ f.refused = task[t].refused
         /\ f.alone = task[t].alone /\ f.outcome = task[t].outcome
<1>1. task[t] \in TaskStates
  BY DEF HsTyped
<1> QED BY <1>1 DEF TaskStates

\* A step of one task leaves the others as they are.
LEMMA OneTaskMoves ==
  ASSUME HsTyped, NEW t \in Tasks, NEW f \in TaskStates, Hs!Set(t, f)
  PROVE  /\ task' \in [Tasks -> TaskStates] /\ task'[t] = f
         /\ \A u \in Tasks \ {t} : task'[u] = task[u]
BY DEF HsTyped, Hs!Set

\* A task that goes on keeps its lock, and the snapshots are what they were.
LEMMA Walks ==
  ASSUME Hs!TransportAssumption, TransportSound, NEW t \in Tasks, NEW f \in TaskStates,
         Hs!Set(t, f), UNCHANGED <<gate, cache, transports>>,
         task[t].outcome = "none", f.outcome = "none",
         f.pc \in Fetching => task[t].pc \in Fetching,
         f.pc \in OnChannel => f.at <= Len(Channels),
         TurnTrue(f, circuit'), circuit' \in BOOLEAN, circuit => circuit',
         probe' \in ProbeStates, through' \in Nat, ProbeIsFirst', BudgetTyped', PlaceIsPaid'
  PROVE  TransportSound'
<1>1. HsTyped /\ TurnsAreTrue /\ Hs!OneFetchPerSnapshot /\ Hs!AttributionIsTrue
  BY DEF TransportSound
<1>2. /\ task' \in [Tasks -> TaskStates] /\ task'[t] = f
      /\ \A u \in Tasks \ {t} : task'[u] = task[u]
  BY <1>1, OneTaskMoves
<1>3. HsTyped'
  BY <1>1, <1>2 DEF HsTyped
<1>4. TurnsAreTrue'
  BY <1>1, <1>2 DEF TurnsAreTrue, TurnTrue
<1>5. Hs!OneFetchPerSnapshot'
  BY <1>1, <1>2 DEF Hs!OneFetchPerSnapshot, Fetching
<1>6. Hs!AttributionIsTrue'
  <2>1. ASSUME NEW s
        PROVE  {task'[u].via : u \in {v \in Tasks : SourceOf[v] = s /\ task'[v].outcome = "ok"}}
                 = {task[u].via : u \in {v \in Tasks : SourceOf[v] = s /\ task[v].outcome = "ok"}}
    BY <1>2
  <2> QED BY <1>1, <2>1 DEF Hs!AttributionIsTrue
<1> QED BY <1>3, <1>4, <1>5, <1>6 DEF TransportSound

\* A task that ends gives its lock back, with its snapshot or without it.
LEMMA Leaves ==
  ASSUME Hs!TransportAssumption, TransportSound, NEW t \in Tasks, NEW f \in TaskStates,
         Hs!Set(t, f), f.pc = "done", gate' = Hs!Released(t), task[t].outcome = "none",
         UNCHANGED <<circuit, probe, through>>, TurnTrue(f, circuit),
         \/ cache' = cache
         \/ /\ task[t].pc \in Fetching
            /\ \E l \in Hs!Labels : cache' = [cache EXCEPT ![KeyOf[t]] = l],
         \/ f.outcome # "ok" /\ transports' = transports
         \/ /\ f.outcome = "ok" /\ f.via \in Hs!Labels
            /\ transports' = [transports EXCEPT ![SourceOf[t]] = @ \cup {f.via}],
         BudgetTyped', PlaceIsPaid'
  PROVE  TransportSound'
<1>1. /\ HsTyped /\ TurnsAreTrue /\ Hs!OneFetchPerSnapshot /\ Hs!AttributionIsTrue
      /\ ProbeIsFirst
  BY DEF TransportSound
<1>2. /\ task' \in [Tasks -> TaskStates] /\ task'[t] = f
      /\ \A u \in Tasks \ {t} : task'[u] = task[u]
  BY <1>1, OneTaskMoves
<1>0. /\ "none" \notin Tasks /\ KeyOf[t] \in Hs!Keys /\ SourceOf[t] \in Hs!SourcesOf
      /\ \A u \in Tasks : KeyOf[u] \in Hs!Keys
  BY ChannelsAreMany
<1>3. /\ gate' \in [Hs!Keys -> Tasks \cup {"none"}]
      /\ \A k \in Hs!Keys : gate'[k] = gate[k] \/ (gate[k] = t /\ gate'[k] = "none")
  BY <1>0, <1>1 DEF HsTyped, Hs!Released, Hs!None
<1>4. /\ cache' \in [Hs!Keys -> Hs!Labels \cup {"none"}]
      /\ \A k \in Hs!Keys : cache'[k] = cache[k] \/ (k = KeyOf[t] /\ task[t].pc \in Fetching)
  BY <1>0, <1>1 DEF HsTyped
<1>5. transports' \in [Hs!SourcesOf -> SUBSET Hs!Labels]
  BY <1>0, <1>1 DEF HsTyped
<1>6. HsTyped'
  BY <1>1, <1>2, <1>3, <1>4, <1>5 DEF HsTyped, OnChannel
<1>7. TurnsAreTrue'
  BY <1>1, <1>2 DEF TurnsAreTrue
<1>8. ProbeIsFirst'
  BY <1>1, <1>2 DEF ProbeIsFirst
<1>9. Hs!OneFetchPerSnapshot'
  <2> SUFFICES ASSUME NEW u \in Tasks, task'[u].pc \in Fetching
               PROVE  gate'[KeyOf[u]] = u /\ cache'[KeyOf[u]] = "none"
    BY DEF Hs!OneFetchPerSnapshot, Fetching, Hs!None
  <2>1. u # t /\ task[u].pc \in Fetching
    BY <1>2 DEF Fetching
  <2>2. gate[KeyOf[u]] = u /\ cache[KeyOf[u]] = "none"
    BY <1>1, <2>1 DEF Hs!OneFetchPerSnapshot, Fetching, Hs!None
  <2>3. task[t].pc \in Fetching => gate[KeyOf[t]] = t
    BY <1>1 DEF Hs!OneFetchPerSnapshot, Fetching
  <2> QED BY <1>0, <1>3, <1>4, <2>1, <2>2, <2>3
<1>10. Hs!AttributionIsTrue'
  <2> DEFINE Ways(s) == {task[u].via : u \in {v \in Tasks : SourceOf[v] = s /\ task[v].outcome = "ok"}}
             New(s) == {task'[u].via : u \in {v \in Tasks : SourceOf[v] = s /\ task'[v].outcome = "ok"}}
  <2>1. \A s \in Hs!SourcesOf : transports[s] = Ways(s)
    BY <1>1 DEF Hs!AttributionIsTrue
  <2>2. CASE f.outcome # "ok" /\ transports' = transports
    <3>1. \A s : New(s) = Ways(s)
      BY <1>2, <2>2
    <3> QED BY <2>1, <2>2, <3>1 DEF Hs!AttributionIsTrue
  <2>3. CASE /\ f.outcome = "ok" /\ f.via \in Hs!Labels
             /\ transports' = [transports EXCEPT ![SourceOf[t]] = @ \cup {f.via}]
    <3>1. \A s : s # SourceOf[t] => New(s) = Ways(s)
      BY <1>2, <2>3
    <3>2. New(SourceOf[t]) = Ways(SourceOf[t]) \cup {f.via}
      BY <1>2, <2>3
    <3>3. \A s \in Hs!SourcesOf : transports'[s] = New(s)
      <4> HIDE DEF Ways, New
      <4> QED BY <1>1, <2>1, <2>3, <3>1, <3>2 DEF HsTyped
    <3> QED BY <3>3 DEF Hs!AttributionIsTrue
  <2> QED BY <2>2, <2>3
<1> QED BY <1>6, <1>7, <1>8, <1>9, <1>10, PlaceIsPaid' DEF TransportSound

\* Who neither paid nor pays leaves the budget as it is.
LEMMA BudgetRests ==
  ASSUME TransportSound, NEW t \in Tasks, NEW f \in TaskStates, Hs!Set(t, f),
         task[t].pc # "paying", f.pc # "paying", UNCHANGED <<place, Hs!budgetVars>>
  PROVE  BudgetTyped' /\ PlaceIsPaid'
<1>1. HsTyped /\ PlaceIsPaid
  BY DEF TransportSound
<1>2. /\ task' \in [Tasks -> TaskStates] /\ task'[t] = f
      /\ \A u \in Tasks \ {t} : task'[u] = task[u]
  BY <1>1, OneTaskMoves
<1>3. UNCHANGED <<place, scrapes, scrapeCredits, scrapeSpent, unseen>>
  BY DEF Hs!budgetVars
<1>4. Hs!MaxCost' = Hs!MaxCost
  BY DEF Hs!MaxCost
<1> QED BY <1>1, <1>2, <1>3, <1>4 DEF HsTyped, BudgetTyped, PlaceIsPaid

\* Who sends nothing through the proxy before the probe's end does not disturb it.
LEMMA ProbeRests ==
  ASSUME TransportSound, NEW t \in Tasks, NEW f \in TaskStates, Hs!Set(t, f),
         f.pc = "asking" => Channels[f.at] \notin Proxied \/ probe.st = "done",
         probe' = probe, through' = through \/ (probe.st = "done" /\ through' = through + 1),
         circuit => circuit'
  PROVE  probe' \in ProbeStates /\ through' \in Nat /\ ProbeIsFirst'
<1>1. HsTyped /\ ProbeIsFirst
  BY DEF TransportSound
<1>2. /\ task'[t] = f /\ \A u \in Tasks \ {t} : task'[u] = task[u]
  BY <1>1, OneTaskMoves
<1> QED BY <1>1, <1>2 DEF HsTyped, ProbeIsFirst

\* A task that takes a step of its own, without Scrape.do.
LEMMA Strolls ==
  ASSUME Hs!TransportAssumption, TransportSound, NEW t \in Tasks, NEW f \in TaskStates,
         Hs!Set(t, f), UNCHANGED <<gate, cache, transports, place, Hs!budgetVars>>,
         task[t].pc # "paying", f.pc # "paying",
         task[t].outcome = "none", f.outcome = "none",
         f.pc \in Fetching => task[t].pc \in Fetching,
         f.pc \in OnChannel => f.at <= Len(Channels),
         TurnTrue(f, circuit'), circuit' \in BOOLEAN, circuit => circuit',
         f.pc = "asking" => Channels[f.at] \notin Proxied \/ probe.st = "done",
         probe' = probe, through' = through \/ (probe.st = "done" /\ through' = through + 1)
  PROVE  TransportSound'
<1>1. BudgetTyped' /\ PlaceIsPaid'
  BY BudgetRests
<1>2. probe' \in ProbeStates /\ through' \in Nat /\ ProbeIsFirst'
  BY ProbeRests
<1> QED BY <1>1, <1>2, Walks

\* What is known of a task.
LEMMA TaskKnown ==
  ASSUME Hs!TransportAssumption, TransportSound, NEW t \in Tasks
  PROVE  /\ HsTyped /\ task[t] \in TaskStates /\ TurnTrue(task[t], circuit)
         /\ task[t].pc \in OnChannel => task[t].at <= Len(Channels)
         /\ task[t].pc # "done" => task[t].outcome = "none"
         /\ circuit \in BOOLEAN /\ ProbeIsFirst /\ PlaceIsPaid
         /\ task[t].at \in Nat /\ task[t].at >= 1
         /\ Len(Channels) \in Nat
<1>1. HsTyped /\ TurnsAreTrue /\ ProbeIsFirst /\ PlaceIsPaid
  BY DEF TransportSound
<1> QED BY <1>1, ChannelsAreMany DEF HsTyped, TaskStates, TurnsAreTrue, TurnTrue

\* Past a channel that failed, or that the proxy's refusal closed.
LEMMA FailedTurn ==
  ASSUME Hs!TransportAssumption, TransportSound, NEW t \in Tasks, task[t].pc \in OnChannel
  PROVE  /\ Hs!Failed(t) \in TaskStates /\ Hs!Failed(t).pc = "next"
         /\ Hs!Failed(t).outcome = "none" /\ TurnTrue(Hs!Failed(t), circuit)
<1>1. /\ task[t] \in TaskStates /\ TurnTrue(task[t], circuit) /\ task[t].at <= Len(Channels)
      /\ task[t].outcome = "none" /\ HsTyped /\ task[t].at \in Nat /\ Len(Channels) \in Nat
  BY TaskKnown DEF OnChannel
<1> DEFINE f == Hs!Failed(t)
<1>2. /\ f \in TaskStates /\ f.pc = "next" /\ f.at = task[t].at + 1
      /\ f.refused = task[t].refused /\ f.alone = task[t].alone /\ f.outcome = task[t].outcome
  BY <1>1, ChannelMoves
<1> HIDE DEF f
<1>3. ~f.alone => \A i \in 1 .. Len(Channels) : i < f.at => Channels[i] \in Proxied
  <2> SUFFICES ASSUME ~f.alone, NEW i \in 1 .. Len(Channels), i < f.at
               PROVE  Channels[i] \in Proxied
    OBVIOUS
  <2>1. ~task[t].alone /\ (i < task[t].at \/ i = task[t].at)
    BY <1>1, <1>2
  <2>2. CASE i < task[t].at
    BY <1>1, <2>1, <2>2 DEF TurnTrue
  <2>3. CASE i = task[t].at
    BY <1>1, <2>1, <2>3 DEF TurnTrue, OnChannel
  <2> QED BY <2>1, <2>2, <2>3
<1>4. TurnTrue(f, circuit)
  BY <1>1, <1>2, <1>3 DEF TurnTrue
<1> QED BY <1>1, <1>2, <1>4 DEF f

LEMMA RefusedTurn ==
  ASSUME Hs!TransportAssumption, TransportSound, NEW t \in Tasks,
         task[t].pc # "done", task[t].at <= Len(Channels), Channels[task[t].at] \in Proxied
  PROVE  /\ Hs!Refused(t) \in TaskStates /\ Hs!Refused(t).pc = "next"
         /\ Hs!Refused(t).outcome = "none" /\ TurnTrue(Hs!Refused(t), TRUE)
<1>1. /\ task[t] \in TaskStates /\ TurnTrue(task[t], circuit)
      /\ task[t].outcome = "none" /\ HsTyped /\ task[t].at \in Nat /\ Len(Channels) \in Nat
  BY TaskKnown
<1> DEFINE f == Hs!Refused(t)
<1>2. /\ f \in TaskStates /\ f.pc = "next" /\ f.at = task[t].at + 1
      /\ f.alone = task[t].alone /\ f.outcome = task[t].outcome
  BY <1>1, ChannelMoves
<1> HIDE DEF f
<1>3. ~f.alone => \A i \in 1 .. Len(Channels) : i < f.at => Channels[i] \in Proxied
  <2> SUFFICES ASSUME ~f.alone, NEW i \in 1 .. Len(Channels), i < f.at
               PROVE  Channels[i] \in Proxied
    OBVIOUS
  <2>1. ~task[t].alone /\ (i < task[t].at \/ i = task[t].at)
    BY <1>1, <1>2
  <2>2. CASE i < task[t].at
    BY <1>1, <2>1, <2>2 DEF TurnTrue
  <2> QED BY <2>1, <2>2
<1>4. TurnTrue(f, TRUE)
  BY <1>1, <1>2, <1>3 DEF TurnTrue
<1> QED BY <1>1, <1>2, <1>4 DEF f

\* A source asks for a snapshot it needs.
LEMMA CallKeeps ==
  ASSUME Hs!TransportAssumption, TransportSound, NEW t \in Tasks, Hs!Call(t)
  PROVE  TransportSound'
<1> DEFINE f == [task[t] EXCEPT !.pc = "gate"]
<1>0. task[t].pc = "new" /\ Hs!Set(t, f)
      /\ UNCHANGED <<gate, cache, circuit, probe, place, transports, through, Hs!budgetVars>>
  BY DEF Hs!Call
<1>1. TurnTrue(task[t], circuit) /\ HsTyped /\ task[t].outcome = "none" /\ circuit \in BOOLEAN
  BY <1>0, TaskKnown
<1>e. f = [task[t] EXCEPT !.pc = "gate"]
  OBVIOUS
<1> HIDE DEF f
<1>2. /\ f \in TaskStates /\ f.pc = "gate" /\ f.at = task[t].at
      /\ f.refused = task[t].refused /\ f.alone = task[t].alone /\ f.outcome = "none"
  BY <1>1, <1>e, PcMoves DEF Steps
<1>3. TurnTrue(f, circuit')
  BY <1>0, <1>1, <1>2 DEF TurnTrue
<1> QED BY <1>0, <1>1, <1>2, <1>3, Strolls DEF Fetching, OnChannel

\* A channel that does without the proxy.
LEMMA TryIndependentKeeps ==
  ASSUME Hs!TransportAssumption, TransportSound, NEW t \in Tasks, Hs!TryIndependent(t)
  PROVE  TransportSound'
<1>0. /\ task[t].pc = "next" /\ task[t].at <= Len(Channels) /\ Channels[task[t].at] \notin Proxied
      /\ UNCHANGED <<gate, cache, circuit, probe, place, transports, through, Hs!budgetVars>>
  BY DEF Hs!TryIndependent, Hs!Label
<1>1. TurnTrue(task[t], circuit) /\ HsTyped /\ task[t].outcome = "none" /\ circuit \in BOOLEAN
  BY <1>0, TaskKnown
<1>2. PICK p \in {"scraping", "asking"} : Hs!Set(t, [task[t] EXCEPT !.alone = TRUE, !.pc = p])
  BY DEF Hs!TryIndependent
<1> DEFINE f == [task[t] EXCEPT !.alone = TRUE, !.pc = p]
<1>3. Hs!Set(t, f)
  BY <1>2
<1>4. p \in Steps /\ task[t] \in TaskStates
  BY <1>1, <1>2 DEF Steps, HsTyped
<1>5. /\ f \in TaskStates /\ f.pc = p /\ f.at = task[t].at
      /\ f.refused = task[t].refused /\ f.alone = TRUE /\ f.outcome = "none"
  BY <1>1, <1>4 DEF TaskStates
<1> HIDE DEF f
<1>6. TurnTrue(f, circuit')
  BY <1>0, <1>1, <1>2, <1>5 DEF TurnTrue
<1> QED BY <1>0, <1>1, <1>2, <1>3, <1>5, <1>6, Strolls DEF Fetching, OnChannel

\* A request leaves through the proxy once the probe has ended.
LEMMA SendKeeps ==
  ASSUME Hs!TransportAssumption, TransportSound, NEW t \in Tasks, Hs!Send(t),
         task[t].pc \in {"next", "probing"}, task[t].at <= Len(Channels),
         Channels[task[t].at] \in Proxied, probe.st = "done",
         UNCHANGED <<gate, cache, circuit, probe, place, transports, Hs!budgetVars>>
  PROVE  TransportSound'
<1>1. TurnTrue(task[t], circuit) /\ HsTyped /\ task[t].outcome = "none" /\ circuit \in BOOLEAN
  BY TaskKnown
<1>2. CASE circuit
  <2>1. Hs!Set(t, Hs!Refused(t)) /\ through' = through
    BY <1>2 DEF Hs!Send
  <2>2. /\ Hs!Refused(t) \in TaskStates /\ Hs!Refused(t).pc = "next"
        /\ Hs!Refused(t).outcome = "none" /\ TurnTrue(Hs!Refused(t), TRUE)
    BY RefusedTurn
  <2>3. circuit = TRUE /\ circuit' = TRUE
    BY <1>1, <1>2
  <2> QED BY <1>1, <2>1, <2>2, <2>3, Strolls DEF Fetching, OnChannel
<1>3. CASE ~circuit
  <2> DEFINE f == [task[t] EXCEPT !.pc = "asking"]
  <2>1. Hs!Set(t, f) /\ through' = through + 1
    BY <1>3 DEF Hs!Send
  <2>e. f = [task[t] EXCEPT !.pc = "asking"]
    OBVIOUS
  <2> HIDE DEF f
  <2>2. /\ f \in TaskStates /\ f.pc = "asking" /\ f.at = task[t].at
        /\ f.refused = task[t].refused /\ f.alone = task[t].alone /\ f.outcome = "none"
    BY <1>1, <2>e, PcMoves DEF Steps
  <2>3. TurnTrue(f, circuit')
    BY <1>1, <2>2 DEF TurnTrue
  <2> QED BY <1>1, <2>1, <2>2, <2>3, Strolls DEF Fetching, OnChannel
<1> QED BY <1>1, <1>2, <1>3

\* A channel through the proxy: closed, probed, or asked.
LEMMA TryProxiedKeeps ==
  ASSUME Hs!TransportAssumption, TransportSound, NEW t \in Tasks, Hs!TryProxied(t)
  PROVE  TransportSound'
<1>0. /\ task[t].pc = "next" /\ task[t].at <= Len(Channels) /\ Channels[task[t].at] \in Proxied
      /\ UNCHANGED <<gate, cache, circuit, place, transports, Hs!budgetVars>>
  BY DEF Hs!TryProxied, Hs!Label
<1>1. /\ TurnTrue(task[t], circuit) /\ HsTyped /\ task[t].outcome = "none"
      /\ circuit \in BOOLEAN /\ ProbeIsFirst /\ PlaceIsPaid
  BY <1>0, TaskKnown
<1> DEFINE f == [task[t] EXCEPT !.pc = "probing"]
<1>e. f = [task[t] EXCEPT !.pc = "probing"]
  OBVIOUS
<1> HIDE DEF f
<1>2. /\ f \in TaskStates /\ f.pc = "probing" /\ f.at = task[t].at
      /\ f.refused = task[t].refused /\ f.alone = task[t].alone /\ f.outcome = "none"
  BY <1>1, <1>e, PcMoves DEF Steps
<1>a. probe.st \in {"none", "running", "done"}
  BY <1>1 DEF HsTyped, ProbeStates
<1>3. \/ circuit /\ Hs!Set(t, Hs!Refused(t)) /\ UNCHANGED <<probe, through>>
      \/ ~circuit /\ probe.st = "done" /\ Hs!Send(t) /\ UNCHANGED probe
      \/ ~circuit /\ probe.st = "running" /\ Hs!Set(t, f) /\ UNCHANGED <<probe, through>>
      \/ /\ ~circuit /\ probe.st = "none" /\ Hs!Set(t, f) /\ through' = through + 1
         /\ probe' = [st |-> "running", by |-> t, result |-> "none"]
  <2>1. CASE circuit
    BY <2>1 DEF Hs!TryProxied
  <2>2. CASE ~circuit /\ probe.st = "done"
    BY <2>2 DEF Hs!TryProxied
  <2>3. CASE ~circuit /\ probe.st = "running"
    BY <2>3 DEF f, Hs!TryProxied
  <2>4. CASE ~circuit /\ probe.st = "none"
    BY <2>4 DEF f, Hs!TryProxied, Hs!None
  <2> QED BY <1>1, <1>a, <2>1, <2>2, <2>3, <2>4
<1>4. TurnTrue(f, circuit')
  BY <1>0, <1>1, <1>2 DEF TurnTrue
<1>5. CASE circuit /\ Hs!Set(t, Hs!Refused(t)) /\ UNCHANGED <<probe, through>>
  <2>1. /\ Hs!Refused(t) \in TaskStates /\ Hs!Refused(t).pc = "next"
        /\ Hs!Refused(t).outcome = "none" /\ TurnTrue(Hs!Refused(t), TRUE)
    BY <1>0, RefusedTurn
  <2>2. circuit = TRUE /\ circuit' = TRUE
    BY <1>0, <1>1, <1>5
  <2> QED BY <1>0, <1>1, <1>5, <2>1, <2>2, Strolls DEF Fetching, OnChannel
<1>6. CASE ~circuit /\ probe.st = "done" /\ Hs!Send(t) /\ UNCHANGED probe
  BY <1>0, <1>6, SendKeeps
<1>7. CASE ~circuit /\ probe.st = "running" /\ Hs!Set(t, f) /\ UNCHANGED <<probe, through>>
  BY <1>0, <1>1, <1>2, <1>4, <1>7, Strolls DEF Fetching, OnChannel
<1>8. CASE /\ ~circuit /\ probe.st = "none" /\ Hs!Set(t, f) /\ through' = through + 1
           /\ probe' = [st |-> "running", by |-> t, result |-> "none"]
  <2>1. BudgetTyped' /\ PlaceIsPaid'
    BY <1>0, <1>2, <1>8, BudgetRests
  <2>2. probe' \in ProbeStates /\ probe'.st = "running" /\ probe'.result = "none"
    BY <1>8 DEF ProbeStates
  <2>3. through' = 1
    BY <1>1, <1>8 DEF ProbeIsFirst
  <2>4. \A u \in Tasks : task'[u].pc = "asking" => Channels[task'[u].at] \notin Proxied
    <3>1. task'[t] = f /\ \A u \in Tasks \ {t} : task'[u] = task[u]
      BY <1>1, <1>2, <1>8, OneTaskMoves
    <3>2. \A u \in Tasks : task[u].pc = "asking" => Channels[task[u].at] \notin Proxied
      <4>1. probe.st # "done"
        BY <1>8
      <4> QED BY <1>1, <4>1 DEF ProbeIsFirst
    <3> QED BY <1>2, <3>1, <3>2
  <2>5. ProbeIsFirst'
    BY <2>2, <2>3, <2>4 DEF ProbeIsFirst
  <2> QED BY <1>0, <1>1, <1>2, <1>4, <1>8, <2>1, <2>2, <2>3, <2>5, Walks DEF Fetching, OnChannel
<1> QED BY <1>3, <1>5, <1>6, <1>7, <1>8

\* The channel failed.
LEMMA AnswerFailsKeeps ==
  ASSUME Hs!TransportAssumption, TransportSound, NEW t \in Tasks, Hs!AnswerFails(t)
  PROVE  TransportSound'
<1>0. /\ task[t].pc = "asking" /\ Hs!Set(t, Hs!Failed(t))
      /\ UNCHANGED <<gate, cache, circuit, probe, place, transports, through, Hs!budgetVars>>
  BY DEF Hs!AnswerFails
<1>1. task[t].outcome = "none" /\ circuit \in BOOLEAN
  BY <1>0, TaskKnown
<1>2. /\ Hs!Failed(t) \in TaskStates /\ Hs!Failed(t).pc = "next"
      /\ Hs!Failed(t).outcome = "none" /\ TurnTrue(Hs!Failed(t), circuit)
  BY <1>0, FailedTurn DEF OnChannel
<1>3. TurnTrue(Hs!Failed(t), circuit')
  BY <1>0, <1>2
<1> QED BY <1>0, <1>1, <1>2, <1>3, Strolls DEF Fetching, OnChannel

\* Another attempt on the channel, unless the proxy has refused meanwhile.
LEMMA AskAgainKeeps ==
  ASSUME Hs!TransportAssumption, TransportSound, NEW t \in Tasks, Hs!AskAgain(t)
  PROVE  TransportSound'
<1> DEFINE f == [task[t] EXCEPT !.try = @ + 1]
<1>0. /\ task[t].pc = "asking" /\ task[t].try < TriesPerChannel
      /\ UNCHANGED <<gate, cache, circuit, probe, place, transports, Hs!budgetVars>>
  BY DEF Hs!AskAgain
<1>1. /\ TurnTrue(task[t], circuit) /\ HsTyped /\ task[t].outcome = "none"
      /\ circuit \in BOOLEAN /\ ProbeIsFirst /\ task[t].at <= Len(Channels)
  BY <1>0, TaskKnown DEF OnChannel
<1>2. \/ /\ Channels[task[t].at] \in Proxied /\ circuit
         /\ Hs!Set(t, Hs!Refused(t)) /\ through' = through
      \/ Channels[task[t].at] \notin Proxied /\ Hs!Set(t, f) /\ through' = through
      \/ Channels[task[t].at] \in Proxied /\ Hs!Set(t, f) /\ through' = through + 1
  <2>1. CASE Channels[task[t].at] \notin Proxied
    BY <2>1 DEF Hs!AskAgain, Hs!Label
  <2>2. CASE Channels[task[t].at] \in Proxied /\ circuit
    BY <2>2 DEF Hs!AskAgain, Hs!Label
  <2>3. CASE Channels[task[t].at] \in Proxied /\ ~circuit
    BY <2>3 DEF Hs!AskAgain, Hs!Label
  <2> QED BY <2>1, <2>2, <2>3
<1>3. /\ f \in TaskStates /\ f.pc = "asking" /\ f.at = task[t].at
      /\ f.refused = task[t].refused /\ f.alone = task[t].alone /\ f.outcome = "none"
  <2>1. task[t] \in TaskStates /\ task[t].try + 1 \in 1 .. TriesPerChannel
    BY <1>0, <1>1, ChannelsAreMany DEF HsTyped, TaskStates
  <2> QED BY <1>0, <1>1, <2>1 DEF TaskStates
<1> HIDE DEF f
<1>4. TurnTrue(f, circuit')
  BY <1>0, <1>1, <1>3 DEF TurnTrue
<1>5. Channels[task[t].at] \in Proxied => probe.st = "done"
  BY <1>0, <1>1 DEF ProbeIsFirst
<1>6. CASE /\ Channels[task[t].at] \in Proxied /\ circuit
           /\ Hs!Set(t, Hs!Refused(t)) /\ through' = through
  <2>1. /\ Hs!Refused(t) \in TaskStates /\ Hs!Refused(t).pc = "next"
        /\ Hs!Refused(t).outcome = "none" /\ TurnTrue(Hs!Refused(t), TRUE)
    BY <1>0, <1>1, <1>6, RefusedTurn
  <2>2. circuit = TRUE /\ circuit' = TRUE
    BY <1>0, <1>1, <1>6
  <2> QED BY <1>0, <1>1, <1>6, <2>1, <2>2, Strolls DEF Fetching, OnChannel
<1>7. CASE /\ Hs!Set(t, f) /\ (Channels[task[t].at] \notin Proxied \/ probe.st = "done")
           /\ through' = through \/ (probe.st = "done" /\ through' = through + 1)
  BY <1>0, <1>1, <1>3, <1>4, <1>7, Strolls DEF Fetching, OnChannel
<1> QED BY <1>2, <1>5, <1>6, <1>7

\* The proxy refuses a request: from now on it is closed to all.
LEMMA ProxyRefusesKeeps ==
  ASSUME Hs!TransportAssumption, TransportSound, NEW t \in Tasks, Hs!ProxyRefuses(t)
  PROVE  TransportSound'
<1>0. /\ task[t].pc = "asking" /\ Channels[task[t].at] \in Proxied
      /\ circuit' = TRUE /\ Hs!Set(t, Hs!Refused(t))
      /\ UNCHANGED <<gate, cache, probe, place, transports, through, Hs!budgetVars>>
  BY DEF Hs!ProxyRefuses, Hs!Label
<1>1. task[t].outcome = "none" /\ task[t].at <= Len(Channels)
  BY <1>0, TaskKnown DEF OnChannel
<1>2. /\ Hs!Refused(t) \in TaskStates /\ Hs!Refused(t).pc = "next"
      /\ Hs!Refused(t).outcome = "none" /\ TurnTrue(Hs!Refused(t), TRUE)
  BY <1>0, <1>1, RefusedTurn
<1> QED BY <1>0, <1>1, <1>2, Strolls DEF Fetching, OnChannel

\* A page was refused: the proxy is closed.
LEMMA PageRefusedKeeps ==
  ASSUME Hs!TransportAssumption, TransportSound, Hs!PageRefused
  PROVE  TransportSound'
<1>0. /\ circuit' = TRUE
      /\ UNCHANGED <<task, gate, cache, probe, place, transports, through, scrapes,
                     scrapeCredits, scrapeSpent, unseen>>
  BY DEF Hs!PageRefused, Hs!budgetVars
<1>1. /\ HsTyped /\ TurnsAreTrue /\ ProbeIsFirst /\ Hs!OneFetchPerSnapshot /\ PlaceIsPaid
      /\ Hs!AttributionIsTrue
  BY DEF TransportSound
<1>2. HsTyped'
  BY <1>0, <1>1 DEF HsTyped, BudgetTyped
<1>3. TurnsAreTrue'
  BY <1>0, <1>1 DEF TurnsAreTrue, TurnTrue
<1>4. ProbeIsFirst' /\ Hs!OneFetchPerSnapshot' /\ Hs!AttributionIsTrue'
  BY <1>0, <1>1 DEF ProbeIsFirst, Hs!OneFetchPerSnapshot, Hs!AttributionIsTrue
<1>5. PlaceIsPaid'
  BY <1>0, <1>1 DEF PlaceIsPaid
<1> QED BY <1>2, <1>3, <1>4, <1>5 DEF TransportSound

\* The probe ends, and with a refusal the proxy's time.
LEMMA ProbeEndsKeeps ==
  ASSUME Hs!TransportAssumption, TransportSound, NEW result \in {"ok", "refused", "failed"},
         Hs!ProbeEnds(result)
  PROVE  TransportSound'
<1>0. /\ probe.st = "running" /\ probe' = [probe EXCEPT !.st = "done", !.result = result]
      /\ circuit' = (circuit \/ result = "refused")
      /\ UNCHANGED <<task, gate, cache, place, transports, through, scrapes,
                     scrapeCredits, scrapeSpent, unseen>>
  BY DEF Hs!ProbeEnds, Hs!budgetVars
<1>1. /\ HsTyped /\ TurnsAreTrue /\ ProbeIsFirst /\ Hs!OneFetchPerSnapshot /\ PlaceIsPaid
      /\ Hs!AttributionIsTrue
  BY DEF TransportSound
<1>2. probe' \in ProbeStates /\ probe'.st = "done"
  BY <1>0, <1>1 DEF HsTyped, ProbeStates
<1>3. circuit' \in BOOLEAN /\ (circuit => circuit')
  BY <1>0, <1>1 DEF HsTyped
<1>4. HsTyped'
  BY <1>0, <1>1, <1>2, <1>3 DEF HsTyped, BudgetTyped
<1>5. TurnsAreTrue'
  BY <1>0, <1>1, <1>3 DEF TurnsAreTrue, TurnTrue
<1>6. ProbeIsFirst' /\ Hs!OneFetchPerSnapshot' /\ Hs!AttributionIsTrue'
  <2>1. probe'.result = result
    BY <1>0, <1>1 DEF HsTyped, ProbeStates
  <2>2. ProbeIsFirst'
    BY <1>0, <1>1, <1>2, <2>1 DEF ProbeIsFirst
  <2> QED BY <1>0, <1>1, <2>2 DEF Hs!OneFetchPerSnapshot, Hs!AttributionIsTrue
<1>7. PlaceIsPaid'
  BY <1>0, <1>1 DEF PlaceIsPaid
<1> QED BY <1>4, <1>5, <1>6, <1>7 DEF TransportSound

\* A task that got its snapshot, outside Scrape.do's place.
LEMMA GotKeeps ==
  ASSUME Hs!TransportAssumption, TransportSound, NEW t \in Tasks, NEW l \in Hs!Labels,
         Hs!Got(t, l), task[t].pc \notin {"done", "paying"},
         \/ cache' = cache
         \/ task[t].pc \in Fetching /\ cache' = [cache EXCEPT ![KeyOf[t]] = l],
         UNCHANGED <<circuit, probe, through, place, Hs!budgetVars>>
  PROVE  TransportSound'
<1> DEFINE f == [Hs!Ended(t, "ok") EXCEPT !.via = l]
<1>1. TurnTrue(task[t], circuit) /\ HsTyped /\ task[t].outcome = "none"
  BY TaskKnown
<1>2. /\ f \in TaskStates /\ f.pc = "done" /\ f.at = task[t].at /\ f.refused = task[t].refused
      /\ f.alone = task[t].alone /\ f.via = l /\ f.outcome = "ok"
  <2>1. task[t] \in TaskStates
    BY <1>1 DEF HsTyped
  <2> QED BY <2>1 DEF TaskStates, Steps, Hs!Ended
<1>3. /\ Hs!Set(t, f) /\ gate' = Hs!Released(t)
      /\ transports' = [transports EXCEPT ![SourceOf[t]] = @ \cup {l}]
  BY DEF Hs!Got
<1> HIDE DEF f
<1>4. TurnTrue(f, circuit)
  BY <1>1, <1>2 DEF TurnTrue
<1>5. BudgetTyped' /\ PlaceIsPaid'
  BY <1>2, <1>3, BudgetRests
<1>6. /\ f.outcome = "ok" /\ f.via \in Hs!Labels
      /\ transports' = [transports EXCEPT ![SourceOf[t]] = @ \cup {f.via}]
  BY <1>2, <1>3
<1>7. \/ cache' = cache
      \/ task[t].pc \in Fetching /\ \E m \in Hs!Labels : cache' = [cache EXCEPT ![KeyOf[t]] = m]
  OBVIOUS
<1> QED BY <1>1, <1>2, <1>3, <1>4, <1>5, <1>6, <1>7, Leaves

\* A task that ends without its snapshot.
LEMMA EndedKeeps ==
  ASSUME Hs!TransportAssumption, TransportSound, NEW t \in Tasks,
         NEW o \in {"proxy", "error", "cancelled"}, Hs!Set(t, Hs!Ended(t, o)),
         task[t].pc # "done", gate' = Hs!Released(t),
         o = "proxy" => circuit /\ Hs!Labels \subseteq Proxied,
         UNCHANGED <<circuit, probe, through, cache, transports>>, BudgetTyped', PlaceIsPaid'
  PROVE  TransportSound'
<1> DEFINE f == Hs!Ended(t, o)
<1>1. TurnTrue(task[t], circuit) /\ HsTyped /\ task[t].outcome = "none"
  BY TaskKnown
<1>e. f = Hs!Ended(t, o) /\ Hs!Set(t, f)
  OBVIOUS
<1> HIDE DEF f
<1>2. /\ f \in TaskStates /\ f.pc = "done" /\ f.at = task[t].at /\ f.refused = task[t].refused
      /\ f.alone = task[t].alone /\ f.outcome = o
  BY <1>1, <1>e, EndedMoves
<1>4. TurnTrue(f, circuit)
  BY <1>1, <1>2 DEF TurnTrue
<1>5. f.outcome # "ok"
  BY <1>2
<1> QED BY <1>1, <1>2, <1>e, <1>4, <1>5, Leaves

\* The snapshot's lock is free: another task has fetched it, or this one will.
LEMMA EnterKeeps ==
  ASSUME Hs!TransportAssumption, TransportSound, NEW t \in Tasks, Hs!Enter(t)
  PROVE  TransportSound'
<1>0. /\ task[t].pc = "gate" /\ gate[KeyOf[t]] = "none"
      /\ UNCHANGED <<cache, circuit, probe, place, through, Hs!budgetVars>>
  BY DEF Hs!Enter, Hs!None
<1>1. /\ HsTyped /\ TurnsAreTrue /\ ProbeIsFirst /\ Hs!OneFetchPerSnapshot /\ PlaceIsPaid
      /\ Hs!AttributionIsTrue
  BY DEF TransportSound
<1>2. TurnTrue(task[t], circuit) /\ task[t].outcome = "none"
  BY <1>0, TaskKnown
<1>3. /\ "none" \notin Tasks /\ KeyOf[t] \in Hs!Keys /\ \A u \in Tasks : KeyOf[u] \in Hs!Keys
  BY ChannelsAreMany
<1>4. CASE cache[KeyOf[t]] # "none"
  <2>1. Hs!Got(t, cache[KeyOf[t]])
    BY <1>4 DEF Hs!Enter, Hs!None
  <2>2. cache[KeyOf[t]] \in Hs!Labels
    BY <1>1, <1>3, <1>4 DEF HsTyped
  <2> QED BY <1>0, <2>1, <2>2, GotKeeps
<1>5. CASE cache[KeyOf[t]] = "none"
  <2> DEFINE f == [task[t] EXCEPT !.pc = "next"]
  <2>1. /\ gate' = [gate EXCEPT ![KeyOf[t]] = t] /\ Hs!Set(t, f) /\ transports' = transports
    BY <1>5 DEF Hs!Enter, Hs!None
  <2>e. f = [task[t] EXCEPT !.pc = "next"]
    OBVIOUS
  <2> HIDE DEF f
  <2>2. /\ f \in TaskStates /\ f.pc = "next" /\ f.at = task[t].at
        /\ f.refused = task[t].refused /\ f.alone = task[t].alone /\ f.outcome = task[t].outcome
    BY <1>1, <2>e, PcMoves DEF Steps
  <2>3. /\ task' \in [Tasks -> TaskStates] /\ task'[t] = f
        /\ \A u \in Tasks \ {t} : task'[u] = task[u]
    BY <1>1, <2>1, <2>2, OneTaskMoves
  <2>4. BudgetTyped' /\ PlaceIsPaid'
    BY <1>0, <2>1, <2>2, BudgetRests
  <2>5. ProbeIsFirst'
    BY <1>0, <2>1, <2>2, ProbeRests
  <2>6. HsTyped'
    BY <1>0, <1>1, <1>3, <2>1, <2>2, <2>3, <2>4 DEF HsTyped, OnChannel
  <2>7. TurnsAreTrue'
    <3>1. TurnTrue(f, circuit)
      BY <1>2, <2>2 DEF TurnTrue
    <3> QED BY <1>0, <1>1, <2>3, <3>1 DEF TurnsAreTrue
  <2>8. Hs!OneFetchPerSnapshot'
    <3> SUFFICES ASSUME NEW u \in Tasks,
                        task'[u].pc \in {"next", "probing", "asking", "scraping", "paying"}
                 PROVE  gate'[KeyOf[u]] = u /\ cache'[KeyOf[u]] = "none"
      BY DEF Hs!OneFetchPerSnapshot, Hs!None
    <3>1. CASE u = t
      BY <1>0, <1>1, <1>3, <1>5, <2>1, <3>1 DEF HsTyped
    <3>2. CASE u # t
      <4>1. gate[KeyOf[u]] = u /\ cache[KeyOf[u]] = "none"
        BY <1>1, <2>3, <3>2 DEF Hs!OneFetchPerSnapshot, Hs!None
      <4>2. KeyOf[u] # KeyOf[t]
        BY <1>0, <1>3, <4>1
      <4> QED BY <1>0, <1>1, <1>3, <2>1, <4>1, <4>2 DEF HsTyped
    <3> QED BY <3>1, <3>2
  <2>9. Hs!AttributionIsTrue'
    <3>1. ASSUME NEW s
          PROVE  {task'[u].via : u \in {v \in Tasks : SourceOf[v] = s /\ task'[v].outcome = "ok"}}
                   = {task[u].via : u \in {v \in Tasks : SourceOf[v] = s /\ task[v].outcome = "ok"}}
      BY <1>2, <2>2, <2>3
    <3> QED BY <1>1, <2>1, <3>1 DEF Hs!AttributionIsTrue
  <2> QED BY <2>4, <2>5, <2>6, <2>7, <2>8, <2>9 DEF TransportSound
<1> QED BY <1>4, <1>5

\* No channel is left.
LEMMA GiveUpKeeps ==
  ASSUME Hs!TransportAssumption, TransportSound, NEW t \in Tasks, Hs!GiveUp(t)
  PROVE  TransportSound'
<1> DEFINE o == IF task[t].refused /\ ~task[t].alone THEN "proxy" ELSE "error"
<1>0. /\ task[t].pc = "next" /\ task[t].at > Len(Channels)
      /\ Hs!Set(t, Hs!Ended(t, o)) /\ gate' = Hs!Released(t)
      /\ UNCHANGED <<cache, circuit, probe, place, transports, through, Hs!budgetVars>>
  BY DEF Hs!GiveUp
<1>1. o \in {"proxy", "error", "cancelled"} /\ (o = "proxy" => task[t].refused /\ ~task[t].alone)
  OBVIOUS
<1> HIDE DEF o
<1>2. TurnTrue(task[t], circuit) /\ HsTyped
  BY TaskKnown
<1>3. o = "proxy" => circuit /\ Hs!Labels \subseteq Proxied
  <2> SUFFICES ASSUME o = "proxy"
               PROVE  circuit /\ Hs!Labels \subseteq Proxied
    OBVIOUS
  <2>1. circuit /\ \A i \in 1 .. Len(Channels) : i < task[t].at => Channels[i] \in Proxied
    BY <1>1, <1>2 DEF TurnTrue
  <2>2. \A i \in 1 .. Len(Channels) : i < task[t].at
    BY <1>0, ChannelsAreMany, TaskKnown
  <2>3. \A x \in Hs!Labels : \E i \in 1 .. Len(Channels) : x = Channels[i]
    BY ChannelsAreMany
  <2> QED BY <2>1, <2>2, <2>3
<1>4. BudgetTyped' /\ PlaceIsPaid'
  <2>1. /\ Hs!Ended(t, o) \in TaskStates /\ Hs!Ended(t, o).pc = "done"
    BY <1>1, <1>2, EndedMoves
  <2> QED BY <1>0, <2>1, BudgetRests
<1> QED BY <1>0, <1>1, <1>3, <1>4, EndedKeeps

\* The snapshot has come.
LEMMA AnswerKeeps ==
  ASSUME Hs!TransportAssumption, TransportSound, NEW t \in Tasks, Hs!Answer(t)
  PROVE  TransportSound'
<1>1. /\ task[t].pc = "asking" /\ Hs!Got(t, Channels[task[t].at])
      /\ cache' = [cache EXCEPT ![KeyOf[t]] = Channels[task[t].at]]
      /\ UNCHANGED <<circuit, probe, place, through, Hs!budgetVars>>
  BY DEF Hs!Answer, Hs!Label
<1>2. Channels[task[t].at] \in Hs!Labels
  BY <1>1, TaskKnown, ChannelsAreMany DEF OnChannel
<1> QED BY <1>1, <1>2, GotKeeps DEF Fetching

\* The probe's end, as a task that waited for it sees it.
LEMMA ProbeSeenKeeps ==
  ASSUME Hs!TransportAssumption, TransportSound, NEW t \in Tasks, Hs!ProbeSeen(t)
  PROVE  TransportSound'
<1>0. /\ task[t].pc = "probing" /\ probe.st = "done"
      /\ UNCHANGED <<circuit, probe, place, Hs!budgetVars>>
  BY DEF Hs!ProbeSeen
<1>1. /\ TurnTrue(task[t], circuit) /\ task[t].outcome = "none" /\ circuit \in BOOLEAN
      /\ task[t].at <= Len(Channels) /\ HsTyped /\ ProbeIsFirst
  BY <1>0, TaskKnown DEF OnChannel
<1>2. Channels[task[t].at] \in Proxied /\ Channels[task[t].at] \in Hs!Labels
  BY <1>0, <1>1, TaskKnown, ChannelsAreMany DEF TurnTrue
<1>3. \/ /\ probe.result = "refused" /\ Hs!Set(t, Hs!Refused(t))
         /\ UNCHANGED <<gate, cache, transports, through>>
      \/ Hs!Set(t, Hs!Failed(t)) /\ UNCHANGED <<gate, cache, transports, through>>
      \/ /\ Hs!Got(t, Channels[task[t].at]) /\ through' = through
         /\ cache' = [cache EXCEPT ![KeyOf[t]] = Channels[task[t].at]]
      \/ Hs!Send(t) /\ UNCHANGED <<gate, cache, transports>>
  BY DEF Hs!ProbeSeen, Hs!Label
<1>4. CASE /\ probe.result = "refused" /\ Hs!Set(t, Hs!Refused(t))
           /\ UNCHANGED <<gate, cache, transports, through>>
  <2>1. /\ Hs!Refused(t) \in TaskStates /\ Hs!Refused(t).pc = "next"
        /\ Hs!Refused(t).outcome = "none" /\ TurnTrue(Hs!Refused(t), TRUE)
    BY <1>0, <1>1, <1>2, RefusedTurn
  <2>2. circuit' = TRUE
    BY <1>0, <1>1, <1>4 DEF ProbeIsFirst
  <2> QED BY <1>0, <1>1, <1>4, <2>1, <2>2, Strolls DEF Fetching, OnChannel
<1>5. CASE Hs!Set(t, Hs!Failed(t)) /\ UNCHANGED <<gate, cache, transports, through>>
  <2>1. /\ Hs!Failed(t) \in TaskStates /\ Hs!Failed(t).pc = "next"
        /\ Hs!Failed(t).outcome = "none" /\ TurnTrue(Hs!Failed(t), circuit)
    BY <1>0, FailedTurn DEF OnChannel
  <2>2. TurnTrue(Hs!Failed(t), circuit')
    BY <1>0, <2>1
  <2> QED BY <1>0, <1>1, <1>5, <2>1, <2>2, Strolls DEF Fetching, OnChannel
<1>6. CASE /\ Hs!Got(t, Channels[task[t].at]) /\ through' = through
           /\ cache' = [cache EXCEPT ![KeyOf[t]] = Channels[task[t].at]]
  BY <1>0, <1>2, <1>6, GotKeeps DEF Fetching
<1>7. CASE Hs!Send(t) /\ UNCHANGED <<gate, cache, transports>>
  BY <1>0, <1>1, <1>2, <1>7, SendKeeps
<1> QED BY <1>3, <1>4, <1>5, <1>6, <1>7

\* Whoever leaves Scrape.do's place has at most one credit to his name that is not
\* counted, or the whole of one he was never told of.
LEMMA PlaceLeft ==
  ASSUME Hs!TransportAssumption, TransportSound, NEW t \in Tasks, NEW f \in TaskStates,
         Hs!Set(t, f), task[t].pc = "paying", f.pc # "paying", place' = "none",
         scrapes' = scrapes, NEW c \in AnswerCosts, scrapeSpent' = scrapeSpent + c,
         \/ scrapeCredits' = Hs!Accounted(c) /\ unseen' = unseen
         \/ /\ scrapeCredits' = scrapeCredits
            /\ unseen' = unseen + (Hs!Accounted(c) - scrapeCredits)
  PROVE  BudgetTyped' /\ PlaceIsPaid'
<1>1. HsTyped /\ PlaceIsPaid /\ BudgetTyped
  BY DEF TransportSound, HsTyped
<1>2. /\ task' \in [Tasks -> TaskStates] /\ task'[t] = f
      /\ \A u \in Tasks \ {t} : task'[u] = task[u]
  BY <1>1, OneTaskMoves
<1>3. /\ c \in Nat /\ c <= Hs!MaxCost /\ Hs!MaxCost \in Nat /\ Hs!MaxCost >= 1
      /\ MaxCredits \in Nat /\ MaxRequests \in Nat /\ "none" \notin Tasks
  BY DearestAnswer, ChannelsAreMany
<1>4. Hs!MaxCost' = Hs!MaxCost
  BY DEF Hs!MaxCost
<1>5. place = t /\ place # "none" /\ \A u \in Tasks \ {t} : task[u].pc # "paying"
  BY <1>1, <1>3 DEF PlaceIsPaid
<1>6. \A u \in Tasks : task'[u].pc = "paying" <=> place' = u
  BY <1>2, <1>3, <1>5
<1>7. /\ scrapeCredits <= MaxCredits /\ scrapeSpent - unseen <= scrapeCredits - 1
      /\ scrapes <= MaxRequests /\ scrapes \in Nat /\ scrapeCredits \in Nat
      /\ scrapeSpent \in Nat /\ unseen \in Nat
  BY <1>1, <1>5 DEF PlaceIsPaid, BudgetTyped
<1>8. Hs!Accounted(c) = scrapeCredits + (IF c > 1 THEN c - 1 ELSE 0)
  BY DEF Hs!Accounted
<1>9. BudgetTyped'
  BY <1>3, <1>7, <1>8 DEF BudgetTyped
<1>10. /\ scrapeCredits' <= MaxCredits + Hs!MaxCost - 1
       /\ scrapeSpent' - unseen' <= scrapeCredits'
  <2>1. CASE scrapeCredits' = Hs!Accounted(c) /\ unseen' = unseen
    BY <1>3, <1>7, <1>8, <2>1
  <2>2. CASE /\ scrapeCredits' = scrapeCredits
             /\ unseen' = unseen + (Hs!Accounted(c) - scrapeCredits)
    BY <1>3, <1>7, <1>8, <2>2
  <2> QED BY <2>1, <2>2
<1> QED BY <1>4, <1>6, <1>7, <1>9, <1>10 DEF PlaceIsPaid

\* A Scrape.do request is reserved, or its budget is used up.
LEMMA ReserveKeeps ==
  ASSUME Hs!TransportAssumption, TransportSound, NEW t \in Tasks, Hs!Reserve(t)
  PROVE  TransportSound'
<1>0. /\ task[t].pc = "scraping" /\ place = "none"
      /\ UNCHANGED <<gate, cache, circuit, probe, transports, through, scrapeSpent, unseen>>
  BY DEF Hs!Reserve, Hs!None
<1>1. /\ TurnTrue(task[t], circuit) /\ HsTyped /\ task[t].outcome = "none"
      /\ circuit \in BOOLEAN /\ PlaceIsPaid /\ BudgetTyped /\ task[t].at <= Len(Channels)
  BY <1>0, TaskKnown DEF HsTyped, OnChannel
<1>2. CASE Hs!MayReserve
  <2> DEFINE f == [task[t] EXCEPT !.pc = "paying"]
  <2>1. /\ scrapes' = scrapes + 1 /\ scrapeCredits' = scrapeCredits + 1
        /\ place' = t /\ Hs!Set(t, f)
    BY <1>2 DEF Hs!Reserve
  <2>e. f = [task[t] EXCEPT !.pc = "paying"]
    OBVIOUS
  <2> HIDE DEF f
  <2>2. /\ f \in TaskStates /\ f.pc = "paying" /\ f.at = task[t].at
        /\ f.refused = task[t].refused /\ f.alone = task[t].alone /\ f.outcome = "none"
    BY <1>1, <2>e, PcMoves DEF Steps
  <2>3. /\ task' \in [Tasks -> TaskStates] /\ task'[t] = f
        /\ \A u \in Tasks \ {t} : task'[u] = task[u]
    BY <1>1, <2>1, <2>2, OneTaskMoves
  <2>4. /\ Hs!MaxCost \in Nat /\ Hs!MaxCost >= 1 /\ Hs!MaxCost' = Hs!MaxCost
        /\ MaxCredits \in Nat /\ MaxRequests \in Nat /\ "none" \notin Tasks
    <3>1. Hs!MaxCost' = Hs!MaxCost
      BY DEF Hs!MaxCost
    <3> QED BY <3>1, DearestAnswer, ChannelsAreMany
  <2>5. scrapes < MaxRequests /\ scrapeCredits + 1 <= MaxCredits
    BY <1>2 DEF Hs!MayReserve
  <2>6. /\ scrapes \in Nat /\ scrapeCredits \in Nat /\ scrapeSpent \in Nat /\ unseen \in Nat
        /\ scrapeSpent - unseen <= scrapeCredits
    BY <1>0, <1>1 DEF BudgetTyped, PlaceIsPaid
  <2>7. \A u \in Tasks : task'[u].pc = "paying" <=> place' = u
    <3>1. \A u \in Tasks : task[u].pc # "paying"
      BY <1>0, <1>1, <2>4 DEF PlaceIsPaid
    <3> QED BY <2>1, <2>2, <2>3, <3>1
  <2>8. BudgetTyped'
    BY <1>0, <2>1, <2>6 DEF BudgetTyped
  <2>9. PlaceIsPaid'
    <3>1. /\ scrapes' <= MaxRequests /\ scrapeCredits' <= MaxCredits + Hs!MaxCost - 1
          /\ place' # "none" /\ scrapeCredits' <= MaxCredits
          /\ scrapeSpent' - unseen' <= scrapeCredits' - 1
      BY <1>0, <2>1, <2>4, <2>5, <2>6
    <3> QED BY <2>4, <2>7, <3>1 DEF PlaceIsPaid
  <2>10. probe' \in ProbeStates /\ through' \in Nat /\ ProbeIsFirst'
    BY <1>0, <2>1, <2>2, ProbeRests
  <2>11. TurnTrue(f, circuit')
    BY <1>0, <1>1, <2>2 DEF TurnTrue
  <2> QED BY <1>0, <1>1, <2>1, <2>2, <2>8, <2>9, <2>10, <2>11, Walks DEF Fetching, OnChannel
<1>3. CASE ~Hs!MayReserve
  <2>1. Hs!Set(t, Hs!Failed(t)) /\ UNCHANGED <<place, Hs!budgetVars>>
    BY <1>0, <1>3 DEF Hs!Reserve, Hs!budgetVars
  <2>2. /\ Hs!Failed(t) \in TaskStates /\ Hs!Failed(t).pc = "next"
        /\ Hs!Failed(t).outcome = "none" /\ TurnTrue(Hs!Failed(t), circuit)
    BY <1>0, FailedTurn DEF OnChannel
  <2>3. TurnTrue(Hs!Failed(t), circuit')
    BY <1>0, <2>2
  <2> QED BY <1>0, <1>1, <2>1, <2>2, <2>3, Strolls DEF Fetching, OnChannel
<1> QED BY <1>2, <1>3

\* Scrape.do has answered, at a cost.
LEMMA ScrapedKeeps ==
  ASSUME Hs!TransportAssumption, TransportSound, NEW t \in Tasks, NEW cost \in AnswerCosts,
         NEW kind \in {"ok", "busy", "bad"}, Hs!Scraped(t, cost, kind)
  PROVE  TransportSound'
<1>0. /\ task[t].pc = "paying" /\ place' = "none"
      /\ scrapeCredits' = Hs!Accounted(cost) /\ scrapeSpent' = scrapeSpent + cost
      /\ UNCHANGED <<circuit, probe, scrapes, unseen, through>>
  BY DEF Hs!Scraped, Hs!None
<1>1. /\ TurnTrue(task[t], circuit) /\ HsTyped /\ task[t].outcome = "none"
      /\ circuit \in BOOLEAN /\ task[t].at <= Len(Channels) /\ task[t] \in TaskStates
  BY <1>0, TaskKnown DEF OnChannel
<1>2. Channels[task[t].at] \in Hs!Labels
  BY <1>0, TaskKnown, ChannelsAreMany DEF OnChannel
<1>3. \/ /\ Hs!Got(t, Channels[task[t].at])
         /\ cache' = [cache EXCEPT ![KeyOf[t]] = Channels[task[t].at]]
      \/ /\ task[t].try < TriesPerChannel
         /\ Hs!Set(t, [task[t] EXCEPT !.pc = "scraping", !.try = @ + 1])
         /\ UNCHANGED <<gate, cache, transports>>
      \/ Hs!Set(t, Hs!Failed(t)) /\ UNCHANGED <<gate, cache, transports>>
  BY DEF Hs!Scraped, Hs!Label
<1>4. CASE /\ Hs!Got(t, Channels[task[t].at])
           /\ cache' = [cache EXCEPT ![KeyOf[t]] = Channels[task[t].at]]
  <2> DEFINE l == Channels[task[t].at]
             f == [Hs!Ended(t, "ok") EXCEPT !.via = l]
  <2>1. l \in Hs!Labels
    BY <1>2
  <2>2. /\ Hs!Set(t, f) /\ gate' = Hs!Released(t)
        /\ transports' = [transports EXCEPT ![SourceOf[t]] = @ \cup {l}]
        /\ cache' = [cache EXCEPT ![KeyOf[t]] = l]
    BY <1>4 DEF Hs!Got
  <2> HIDE DEF l
  <2>3. /\ f \in TaskStates /\ f.pc = "done" /\ f.at = task[t].at /\ f.refused = task[t].refused
        /\ f.alone = task[t].alone /\ f.via = l /\ f.outcome = "ok"
    BY <1>1, <2>1 DEF TaskStates, Steps, Hs!Ended
  <2> HIDE DEF f
  <2>4. TurnTrue(f, circuit)
    BY <1>1, <2>3 DEF TurnTrue
  <2>5. BudgetTyped' /\ PlaceIsPaid'
    BY <1>0, <2>2, <2>3, PlaceLeft
  <2>6. /\ f.outcome = "ok" /\ f.via \in Hs!Labels
        /\ transports' = [transports EXCEPT ![SourceOf[t]] = @ \cup {f.via}]
    BY <2>1, <2>2, <2>3
  <2>7. task[t].pc \in Fetching /\ \E m \in Hs!Labels : cache' = [cache EXCEPT ![KeyOf[t]] = m]
    BY <1>0, <2>1, <2>2 DEF Fetching
  <2> QED BY <1>0, <1>1, <2>2, <2>3, <2>4, <2>5, <2>6, <2>7, Leaves
<1>5. CASE /\ task[t].try < TriesPerChannel
           /\ Hs!Set(t, [task[t] EXCEPT !.pc = "scraping", !.try = @ + 1])
           /\ UNCHANGED <<gate, cache, transports>>
  <2> DEFINE f == [task[t] EXCEPT !.pc = "scraping", !.try = @ + 1]
  <2>1. Hs!Set(t, f)
    BY <1>5
  <2>2. /\ f \in TaskStates /\ f.pc = "scraping" /\ f.at = task[t].at
        /\ f.refused = task[t].refused /\ f.alone = task[t].alone /\ f.outcome = "none"
    <3>1. task[t].try + 1 \in 1 .. TriesPerChannel
      BY <1>1, <1>5, ChannelsAreMany DEF TaskStates
    <3> QED BY <1>1, <3>1 DEF TaskStates, Steps
  <2> HIDE DEF f
  <2>3. TurnTrue(f, circuit')
    BY <1>0, <1>1, <2>2 DEF TurnTrue
  <2>4. BudgetTyped' /\ PlaceIsPaid'
    BY <1>0, <2>1, <2>2, PlaceLeft
  <2>5. probe' \in ProbeStates /\ through' \in Nat /\ ProbeIsFirst'
    BY <1>0, <2>1, <2>2, ProbeRests
  <2> QED BY <1>0, <1>1, <1>5, <2>1, <2>2, <2>3, <2>4, <2>5, Walks DEF Fetching, OnChannel
<1>6. CASE Hs!Set(t, Hs!Failed(t)) /\ UNCHANGED <<gate, cache, transports>>
  <2>1. /\ Hs!Failed(t) \in TaskStates /\ Hs!Failed(t).pc = "next"
        /\ Hs!Failed(t).outcome = "none" /\ TurnTrue(Hs!Failed(t), circuit)
    BY <1>0, FailedTurn DEF OnChannel
  <2>2. TurnTrue(Hs!Failed(t), circuit')
    BY <1>0, <2>1
  <2>3. BudgetTyped' /\ PlaceIsPaid'
    BY <1>0, <1>6, <2>1, PlaceLeft
  <2>4. probe' \in ProbeStates /\ through' \in Nat /\ ProbeIsFirst'
    BY <1>0, <1>6, <2>1, ProbeRests
  <2> QED BY <1>0, <1>1, <1>6, <2>1, <2>2, <2>3, <2>4, Walks DEF Fetching, OnChannel
<1> QED BY <1>3, <1>4, <1>5, <1>6

\* The connection breaks: what the call has cost is not known.
LEMMA ScrapeBreaksKeeps ==
  ASSUME Hs!TransportAssumption, TransportSound, NEW t \in Tasks, NEW cost \in AnswerCosts,
         Hs!ScrapeBreaks(t, cost)
  PROVE  TransportSound'
<1>0. /\ task[t].pc = "paying" /\ place' = "none" /\ Hs!Set(t, Hs!Failed(t))
      /\ scrapeSpent' = scrapeSpent + cost
      /\ unseen' = unseen + (Hs!Accounted(cost) - scrapeCredits)
      /\ UNCHANGED <<gate, cache, circuit, probe, scrapes, scrapeCredits, transports, through>>
  BY DEF Hs!ScrapeBreaks, Hs!None
<1>1. task[t].outcome = "none" /\ circuit \in BOOLEAN
  BY <1>0, TaskKnown
<1>2. /\ Hs!Failed(t) \in TaskStates /\ Hs!Failed(t).pc = "next"
      /\ Hs!Failed(t).outcome = "none" /\ TurnTrue(Hs!Failed(t), circuit)
  BY <1>0, FailedTurn DEF OnChannel
<1>3. TurnTrue(Hs!Failed(t), circuit')
  BY <1>0, <1>2
<1>4. BudgetTyped' /\ PlaceIsPaid'
  BY <1>0, <1>2, PlaceLeft
<1>5. probe' \in ProbeStates /\ through' \in Nat /\ ProbeIsFirst'
  BY <1>0, <1>2, ProbeRests
<1> QED BY <1>0, <1>1, <1>2, <1>3, <1>4, <1>5, Walks DEF Fetching, OnChannel

\* The time of the source is up.
LEMMA CancelKeeps ==
  ASSUME Hs!TransportAssumption, TransportSound, NEW t \in Tasks, Hs!Cancel(t)
  PROVE  TransportSound'
<1> DEFINE f == Hs!Ended(t, "cancelled")
<1>0. /\ task[t].pc # "done" /\ Hs!Set(t, f) /\ gate' = Hs!Released(t)
      /\ place' = IF place = t THEN "none" ELSE place
      /\ UNCHANGED <<cache, circuit, probe, scrapes, scrapeCredits, transports, through>>
  BY DEF Hs!Cancel, Hs!None
<1>1. HsTyped /\ PlaceIsPaid
  BY TaskKnown
<1>e. f = Hs!Ended(t, "cancelled")
  OBVIOUS
<1> HIDE DEF f
<1>2. f \in TaskStates /\ f.pc = "done"
  BY <1>1, <1>e, EndedMoves
<1>3. BudgetTyped' /\ PlaceIsPaid'
  <2>1. CASE task[t].pc # "paying"
    <3>1. scrapeSpent' = scrapeSpent /\ unseen' = unseen
      BY <2>1 DEF Hs!Cancel
    <3>2. place' = place
      BY <1>0, <1>1, <2>1 DEF PlaceIsPaid
    <3> QED BY <1>0, <1>2, <2>1, <3>1, <3>2, BudgetRests DEF Hs!budgetVars
  <2>2. CASE task[t].pc = "paying"
    <3>1. PICK c \in AnswerCosts : /\ scrapeSpent' = scrapeSpent + c
                                   /\ unseen' = unseen + (Hs!Accounted(c) - scrapeCredits)
      BY <2>2 DEF Hs!Cancel
    <3>2. place' = "none"
      BY <1>0, <1>1, <2>2 DEF PlaceIsPaid
    <3> QED BY <1>0, <1>2, <2>2, <3>1, <3>2, PlaceLeft
  <2> QED BY <2>1, <2>2
<1> QED BY <1>0, <1>3, <1>e, EndedKeeps

LEMMA TransportStays ==
  ASSUME TransportSound, UNCHANGED Hs!vars
  PROVE  TransportSound'
<1>1. UNCHANGED <<task, gate, cache, circuit, probe, place, scrapes, scrapeCredits, transports,
                  scrapeSpent, unseen, through>>
  BY DEF Hs!vars
<1>2. /\ HsTyped /\ TurnsAreTrue /\ ProbeIsFirst /\ Hs!OneFetchPerSnapshot /\ PlaceIsPaid
      /\ Hs!AttributionIsTrue
  BY DEF TransportSound
<1>3. HsTyped' /\ TurnsAreTrue' /\ ProbeIsFirst'
  BY <1>1, <1>2 DEF HsTyped, BudgetTyped, TurnsAreTrue, TurnTrue, ProbeIsFirst
<1>4. Hs!OneFetchPerSnapshot' /\ Hs!AttributionIsTrue' /\ PlaceIsPaid'
  BY <1>1, <1>2 DEF Hs!OneFetchPerSnapshot, Hs!AttributionIsTrue, PlaceIsPaid
<1> QED BY <1>3, <1>4 DEF TransportSound

LEMMA TransportNext ==
  ASSUME Hs!TransportAssumption, TransportSound, [Hs!Next]_Hs!vars
  PROVE  TransportSound'
<1>1. CASE UNCHANGED Hs!vars
  BY <1>1, TransportStays
<1>2. CASE Hs!PageRefused
  BY <1>2, PageRefusedKeeps
<1>3. ASSUME NEW result \in {"ok", "refused", "failed"}, Hs!ProbeEnds(result)
      PROVE  TransportSound'
  BY <1>3, ProbeEndsKeeps
<1>4. ASSUME NEW t \in Tasks,
             \/ Hs!Call(t) \/ Hs!Enter(t) \/ Hs!GiveUp(t) \/ Hs!TryIndependent(t)
             \/ Hs!TryProxied(t) \/ Hs!ProbeSeen(t) \/ Hs!Answer(t) \/ Hs!AnswerFails(t)
             \/ Hs!AskAgain(t) \/ Hs!ProxyRefuses(t) \/ Hs!Reserve(t) \/ Hs!Cancel(t)
      PROVE  TransportSound'
  BY <1>4, CallKeeps, EnterKeeps, GiveUpKeeps, TryIndependentKeeps, TryProxiedKeeps,
     ProbeSeenKeeps, AnswerKeeps, AnswerFailsKeeps, AskAgainKeeps, ProxyRefusesKeeps,
     ReserveKeeps, CancelKeeps
<1>5. ASSUME NEW t \in Tasks, NEW cost \in AnswerCosts, Hs!ScrapeBreaks(t, cost)
      PROVE  TransportSound'
  BY <1>5, ScrapeBreaksKeeps
<1>6. ASSUME NEW t \in Tasks, NEW cost \in AnswerCosts, NEW kind \in {"ok", "busy", "bad"},
             Hs!Scraped(t, cost, kind)
      PROVE  TransportSound'
  BY <1>6, ScrapedKeeps
<1> QED BY <1>1, <1>2, <1>3, <1>4, <1>5, <1>6 DEF Hs!Next

\* What the run checks of a refresh's requests follows.
LEMMA SoundTransport ==
  ASSUME Hs!TransportAssumption, TransportSound
  PROVE  /\ Hs!TypeOK /\ Hs!OneProbe /\ Hs!OneFetchPerSnapshot /\ Hs!ScrapeBudgetKept
         /\ Hs!GivesUpRightly /\ Hs!AttributionIsTrue
<1>1. /\ HsTyped /\ TurnsAreTrue /\ ProbeIsFirst /\ Hs!OneFetchPerSnapshot /\ PlaceIsPaid
      /\ Hs!AttributionIsTrue /\ BudgetTyped
  BY DEF TransportSound, HsTyped
<1>2. Hs!TypeOK
  <2>1. \A t \in Tasks : task[t] \in TaskStates
    BY <1>1 DEF HsTyped
  <2>2. probe.st \in {"none", "running", "done"}
    BY <1>1 DEF HsTyped, ProbeStates
  <2> QED BY <1>1, <2>1, <2>2 DEF Hs!TypeOK, HsTyped, BudgetTyped, TaskStates, Steps, Hs!None
<1>3. Hs!OneProbe
  <2>1. probe.st \in {"none", "running", "done"}
    BY <1>1 DEF HsTyped, ProbeStates
  <2>2. probe.st # "done" => through \in {0, 1}
    BY <1>1, <2>1 DEF ProbeIsFirst
  <2>3. probe.st # "done" => \A t \in Tasks : ~(task[t].pc = "asking" /\ Hs!Label(t) \in Proxied)
    BY <1>1 DEF ProbeIsFirst, Hs!Label
  <2> QED BY <2>2, <2>3 DEF Hs!OneProbe
<1>4. Hs!ScrapeBudgetKept
  <2> DEFINE P == {t \in Tasks : task[t].pc = "paying"}
  <2>1. P \subseteq {place}
    BY <1>1 DEF PlaceIsPaid
  <2>2. Cardinality(P) <= 1
    <3>1. IsFiniteSet({place}) /\ Cardinality({place}) = 1
      BY FS_Singleton
    <3>2. Cardinality(P) <= Cardinality({place})
      BY <2>1, <3>1, FS_Subset
    <3> QED BY <3>1, <3>2
  <2>3. Hs!Cardinality(P) = Cardinality(P)
    BY Zenon DEF Hs!Cardinality, Cardinality
  <2>4. /\ scrapes <= MaxRequests /\ scrapeSpent - unseen <= MaxCredits + Hs!MaxCost - 1
    <3>1. /\ MaxCredits \in Nat /\ Hs!MaxCost \in Nat /\ scrapes \in Nat
          /\ scrapeCredits \in Nat /\ scrapeSpent \in Nat /\ unseen \in Nat /\ Hs!MaxCost >= 1
      BY <1>1, ChannelsAreMany, DearestAnswer DEF BudgetTyped
    <3>2. CASE place = "none"
      BY <1>1, <3>1, <3>2 DEF PlaceIsPaid
    <3>3. CASE place # "none"
      BY <1>1, <3>1, <3>3 DEF PlaceIsPaid
    <3> QED BY <3>2, <3>3
  <2> QED BY <2>2, <2>3, <2>4 DEF Hs!ScrapeBudgetKept
<1>5. Hs!GivesUpRightly
  BY <1>1 DEF Hs!GivesUpRightly, TurnsAreTrue, TurnTrue
<1> QED BY <1>1, <1>2, <1>3, <1>4, <1>5

\* With any channels, limits, tasks and costs: nothing goes through the proxy beside the
\* probe, a snapshot is fetched by one task and never twice, Scrape.do is paid within its
\* budget and asked one call at a time, a task blames the proxy only when it had no other
\* channel, and the channels reported are those the snapshots came through
\* (fetch_hsreplay_json).
THEOREM TransportIsKept ==
  ASSUME Hs!TransportAssumption
  PROVE  Hs!Spec =>
           [](/\ Hs!TypeOK /\ Hs!OneProbe /\ Hs!OneFetchPerSnapshot /\ Hs!ScrapeBudgetKept
              /\ Hs!GivesUpRightly /\ Hs!AttributionIsTrue)
<1>1. Hs!Init => TransportSound
  BY TransportInit
<1>2. TransportSound /\ [Hs!Next]_(Hs!vars) => TransportSound'
  BY TransportNext
<1>3. TransportSound =>
        /\ Hs!TypeOK /\ Hs!OneProbe /\ Hs!OneFetchPerSnapshot /\ Hs!ScrapeBudgetKept
        /\ Hs!GivesUpRightly /\ Hs!AttributionIsTrue
  BY SoundTransport
<1> QED BY <1>1, <1>2, <1>3, PTL DEF Hs!Spec

\* Once the proxy has refused a request of a refresh, nothing is sent through it any more,
\* whoever waited for the probe or was about to ask again
\* (_current_proxy_circuit_error).
THEOREM RefusedProxyRests ==
  Hs!Spec => [][Hs!RefusedProxyRestsStep]_(Hs!vars)
<1>1. ASSUME [Hs!Next]_(Hs!vars), circuit
      PROVE  circuit' /\ through' = through
  <2>1. CASE UNCHANGED Hs!vars
    BY <1>1, <2>1 DEF Hs!vars
  <2>2. CASE Hs!PageRefused
    BY <1>1, <2>2 DEF Hs!PageRefused
  <2>3. ASSUME NEW result \in {"ok", "refused", "failed"}, Hs!ProbeEnds(result)
        PROVE  circuit' /\ through' = through
    BY <1>1, <2>3 DEF Hs!ProbeEnds
  <2>4. ASSUME NEW t \in Tasks, Hs!TryProxied(t)
        PROVE  circuit' /\ through' = through
    BY <1>1, <2>4 DEF Hs!TryProxied
  <2>5. ASSUME NEW t \in Tasks, Hs!ProbeSeen(t)
        PROVE  circuit' /\ through' = through
    BY <1>1, <2>5 DEF Hs!ProbeSeen, Hs!Send
  <2>6. ASSUME NEW t \in Tasks, Hs!AskAgain(t)
        PROVE  circuit' /\ through' = through
    BY <1>1, <2>6 DEF Hs!AskAgain
  <2>7. ASSUME NEW t \in Tasks, Hs!ProxyRefuses(t)
        PROVE  circuit' /\ through' = through
    BY <1>1, <2>7 DEF Hs!ProxyRefuses
  <2>8. ASSUME NEW t \in Tasks,
               \/ Hs!Call(t) \/ Hs!Enter(t) \/ Hs!GiveUp(t) \/ Hs!TryIndependent(t)
               \/ Hs!Answer(t) \/ Hs!AnswerFails(t) \/ Hs!Reserve(t) \/ Hs!Cancel(t)
        PROVE  circuit' /\ through' = through
    BY <1>1, <2>8 DEF Hs!Call, Hs!Enter, Hs!GiveUp, Hs!TryIndependent, Hs!Answer,
       Hs!AnswerFails, Hs!Reserve, Hs!Cancel
  <2>9. ASSUME NEW t \in Tasks, NEW cost \in AnswerCosts,
               \/ Hs!ScrapeBreaks(t, cost)
               \/ \E kind \in {"ok", "busy", "bad"} : Hs!Scraped(t, cost, kind)
        PROVE  circuit' /\ through' = through
    BY <1>1, <2>9 DEF Hs!ScrapeBreaks, Hs!Scraped
  <2> QED BY <1>1, <2>1, <2>2, <2>3, <2>4, <2>5, <2>6, <2>7, <2>8, <2>9 DEF Hs!Next
<1>2. [Hs!Next]_(Hs!vars) => Hs!RefusedProxyRestsStep
  BY <1>1 DEF Hs!RefusedProxyRestsStep
<1> QED BY <1>2, PTL DEF Hs!Spec

-----------------------------------------------------------------------------
(* A page fetched with browsers (BackendRotation).                          *)

CONSTANTS PageSources, SiteOf, Backends, BrowserProxied, Missing, Rounds, FailureThreshold,
          Faults

VARIABLES failures, tries

Br == INSTANCE BackendRotation WITH
  Sources <- PageSources, Proxied <- BrowserProxied, Threshold <- FailureThreshold

PageStates ==
  [pc : {"new", "choosing", "trying", "pausing", "ok", "proxy", "error", "cancelled"},
   at : 1 .. Len(Backends) + 1, round : 1 .. Rounds, retryable : BOOLEAN, free : BOOLEAN,
   challenged : SUBSET Br!Names, refused : BOOLEAN, excused : SUBSET Br!Names]

FailureCounts == [PageSources \cup Br!Sites -> [Br!Names -> [Br!Kinds -> Nat]]]

PagesTyped ==
  /\ task \in [PageSources -> PageStates]
  /\ failures \in FailureCounts
  /\ circuit \in BOOLEAN /\ tries \in [PageSources -> [Br!Names -> Nat]]

\* In its turn v a fetch has tried every backend that nothing spoke against once in each
\* round, up to where it is; n counts its attempts.
RoundKept(v, n, refusing) ==
  /\ v.refused => refusing
  /\ v.free => v.retryable
  /\ v.pc = "trying" => v.at <= Len(Backends)
  /\ v.pc = "pausing" => v.round < Rounds /\ v.at > Len(Backends)
  /\ v.pc \notin {"ok", "cancelled"} =>
       \A i \in 1 .. Len(Backends) :
         Backends[i] \notin v.excused =>
           n[Backends[i]] = IF i < v.at \/ (i = v.at /\ v.pc = "trying") THEN v.round
                            ELSE v.round - 1
  /\ v.pc = "error" => ~v.refused /\ v.at > Len(Backends) /\ (v.retryable => v.round = Rounds)
  /\ v.pc = "proxy" => v.refused /\ (v.free => v.round = Rounds)

RoundsAreKept == \A s \in PageSources : RoundKept(task[s], tries[s], circuit)

\* Those whose failures of a kind are held against the scope x, and those among them whose
\* attempt on b is under way.
InScope(x, k) == {s \in PageSources : Br!Scope(s, k) = x}
UnderWayOn(x, b, k) ==
  {s \in PageSources : task[s].pc = "trying" /\ Backends[task[s].at] = b /\ Br!Scope(s, k) = x}

HammerKept ==
  \A x \in PageSources \cup Br!Sites, b \in Br!Names, k \in Br!Kinds :
    failures[x][b][k] + Cardinality(UnderWayOn(x, b, k))
      <= FailureThreshold - 1 + Cardinality(InScope(x, k))

RotationSound == PagesTyped /\ RoundsAreKept /\ HammerKept

LEMMA BackendsAreMany ==
  ASSUME Br!RotationAssumption
  PROVE  /\ Len(Backends) \in Nat
         /\ \A i \in 1 .. Len(Backends) : Backends[i] \in Br!Names
         /\ \A b \in Br!Names : \E i \in 1 .. Len(Backends) : b = Backends[i]
         /\ \A i, j \in 1 .. Len(Backends) : Backends[i] = Backends[j] => i = j
         /\ Rounds \in Nat /\ Rounds >= 1 /\ FailureThreshold \in Nat /\ FailureThreshold >= 1
<1>1. Backends \in Seq(STRING)
  BY DEF Br!RotationAssumption
<1>2. Len(Backends) \in Nat /\ DOMAIN Backends = 1 .. Len(Backends)
  BY <1>1
<1> QED BY <1>2 DEF Br!RotationAssumption, Br!Names

LEMMA SourcesAreFinite ==
  ASSUME Br!RotationAssumption
  PROVE  IsFiniteSet(PageSources)
<1>1. Br!IsFiniteSet(PageSources) <=> IsFiniteSet(PageSources)
  BY SMT DEF Br!IsFiniteSet, IsFiniteSet
<1> QED BY <1>1 DEF Br!RotationAssumption

LEMMA ScopesAreFinite ==
  ASSUME Br!RotationAssumption, NEW x, NEW b, NEW k
  PROVE  /\ IsFiniteSet(InScope(x, k)) /\ IsFiniteSet(UnderWayOn(x, b, k))
         /\ Cardinality(InScope(x, k)) \in Nat /\ Cardinality(UnderWayOn(x, b, k)) \in Nat
         /\ UnderWayOn(x, b, k) \subseteq InScope(x, k)
<1>1. /\ InScope(x, k) \subseteq PageSources /\ UnderWayOn(x, b, k) \subseteq PageSources
      /\ UnderWayOn(x, b, k) \subseteq InScope(x, k)
  BY DEF InScope, UnderWayOn
<1> HIDE DEF InScope, UnderWayOn
<1>2. IsFiniteSet(InScope(x, k)) /\ IsFiniteSet(UnderWayOn(x, b, k))
  BY <1>1, SourcesAreFinite, FS_Subset
<1> QED BY <1>1, <1>2, FS_CardinalityType

LEMMA ScopesAreScopes ==
  ASSUME NEW s \in PageSources, NEW k
  PROVE  Br!Scope(s, k) \in PageSources \cup Br!Sites
BY DEF Br!Scope, Br!Sites

LEMMA RotationInit ==
  ASSUME Br!RotationAssumption, Br!Init
  PROVE  RotationSound
<1>0. /\ task = [s \in PageSources |-> Br!NewTask]
      /\ failures = [x \in PageSources \cup Br!Sites |-> [b \in Br!Names |-> [k \in Br!Kinds |-> 0]]]
      /\ circuit = FALSE /\ tries = [s \in PageSources |-> [b \in Br!Names |-> 0]]
  BY DEF Br!Init
<1>1. /\ Br!NewTask \in PageStates /\ Br!NewTask.pc = "new" /\ Br!NewTask.at = 1
      /\ Br!NewTask.round = 1 /\ Br!NewTask.refused = FALSE /\ Br!NewTask.free = FALSE
  BY BackendsAreMany DEF Br!NewTask, PageStates
<1> HIDE DEF Br!NewTask
<1>2. PagesTyped
  BY <1>0, <1>1 DEF PagesTyped, FailureCounts
<1>3. RoundsAreKept
  <2> SUFFICES ASSUME NEW s \in PageSources
               PROVE  RoundKept(task[s], tries[s], circuit)
    BY DEF RoundsAreKept
  <2>1. task[s] = Br!NewTask /\ \A b \in Br!Names : tries[s][b] = 0
    BY <1>0
  <2>2. \A i \in 1 .. Len(Backends) : tries[s][Backends[i]] = 0 /\ ~(i < 1)
    BY <2>1, BackendsAreMany
  <2> QED BY <1>0, <1>1, <2>1, <2>2 DEF RoundKept
<1>4. HammerKept
  <2> SUFFICES ASSUME NEW x \in PageSources \cup Br!Sites, NEW b \in Br!Names, NEW k \in Br!Kinds
               PROVE  failures[x][b][k] + Cardinality(UnderWayOn(x, b, k))
                        <= FailureThreshold - 1 + Cardinality(InScope(x, k))
    BY DEF HammerKept
  <2>1. failures[x][b][k] = 0
    BY <1>0
  <2>2. UnderWayOn(x, b, k) = {}
    BY <1>0, <1>1 DEF UnderWayOn
  <2>3. Cardinality(UnderWayOn(x, b, k)) = 0
    BY <2>2, FS_EmptySet
  <2> QED BY <2>1, <2>3, ScopesAreFinite, BackendsAreMany
<1> QED BY <1>2, <1>3, <1>4 DEF RotationSound

\* A step of one fetch leaves the others as they are.
LEMMA OnePageMoves ==
  ASSUME PagesTyped, NEW s \in PageSources, NEW f \in PageStates, Br!Set(s, f)
  PROVE  /\ task' \in [PageSources -> PageStates] /\ task'[s] = f
         /\ \A u \in PageSources \ {s} : task'[u] = task[u]
BY DEF PagesTyped, Br!Set

LEMMA PageKnown ==
  ASSUME Br!RotationAssumption, RotationSound, NEW s \in PageSources
  PROVE  /\ PagesTyped /\ task[s] \in PageStates /\ RoundKept(task[s], tries[s], circuit)
         /\ task[s].at \in Nat /\ task[s].at >= 1 /\ task[s].round \in Nat
         /\ task[s].round >= 1 /\ task[s].round <= Rounds
         /\ task[s].at <= Len(Backends) + 1 /\ circuit \in BOOLEAN
<1>1. PagesTyped /\ RoundsAreKept
  BY DEF RotationSound
<1> QED BY <1>1, BackendsAreMany DEF PagesTyped, PageStates, RoundsAreKept

\* A fetch takes a step without an attempt.
LEMMA RoundsRest ==
  ASSUME Br!RotationAssumption, RotationSound, NEW s \in PageSources, NEW f \in PageStates,
         Br!Set(s, f), tries' = tries, RoundKept(f, tries[s], circuit'),
         circuit' \in BOOLEAN, circuit => circuit', failures' \in FailureCounts
  PROVE  PagesTyped' /\ RoundsAreKept'
<1>1. PagesTyped /\ RoundsAreKept
  BY DEF RotationSound
<1>2. /\ task' \in [PageSources -> PageStates] /\ task'[s] = f
      /\ \A u \in PageSources \ {s} : task'[u] = task[u]
  BY <1>1, OnePageMoves
<1>3. PagesTyped'
  BY <1>1, <1>2 DEF PagesTyped, FailureCounts
<1>4. RoundsAreKept'
  <2> SUFFICES ASSUME NEW u \in PageSources
               PROVE  RoundKept(task'[u], tries'[u], circuit')
    BY DEF RoundsAreKept
  <2>1. CASE u = s
    BY <1>2, <2>1
  <2>2. CASE u # s
    <3>1. RoundKept(task[u], tries[u], circuit) /\ task'[u] = task[u]
      BY <1>1, <1>2, <2>2 DEF RoundsAreKept
    <3> QED BY <3>1 DEF RoundKept
  <2> QED BY <2>1, <2>2
<1> QED BY <1>3, <1>4

\* Nothing more is held against anybody, and no attempt begins.
LEMMA HammerRests ==
  ASSUME Br!RotationAssumption, RotationSound, NEW s \in PageSources, NEW f \in PageStates,
         Br!Set(s, f), f.pc # "trying", failures' \in FailureCounts,
         \A x \in PageSources \cup Br!Sites, b \in Br!Names, k \in Br!Kinds :
           failures'[x][b][k] <= failures[x][b][k]
  PROVE  HammerKept'
<1>1. PagesTyped /\ HammerKept
  BY DEF RotationSound
<1>2. /\ task'[s] = f /\ \A u \in PageSources \ {s} : task'[u] = task[u]
  BY <1>1, OnePageMoves
<1> SUFFICES ASSUME NEW x \in PageSources \cup Br!Sites, NEW b \in Br!Names, NEW k \in Br!Kinds
             PROVE  failures'[x][b][k] + Cardinality(UnderWayOn(x, b, k)')
                      <= FailureThreshold - 1 + Cardinality(InScope(x, k))
  BY DEF HammerKept, InScope, Br!Scope
<1>3. UnderWayOn(x, b, k)' \subseteq UnderWayOn(x, b, k)
  BY <1>2 DEF UnderWayOn, Br!Scope
<1>4. /\ Cardinality(UnderWayOn(x, b, k)') \in Nat
      /\ Cardinality(UnderWayOn(x, b, k)') <= Cardinality(UnderWayOn(x, b, k))
  <2>1. IsFiniteSet(UnderWayOn(x, b, k))
    BY ScopesAreFinite
  <2> HIDE DEF UnderWayOn
  <2> QED BY <1>3, <2>1, FS_Subset, FS_CardinalityType
<1>5. /\ failures[x][b][k] + Cardinality(UnderWayOn(x, b, k))
           <= FailureThreshold - 1 + Cardinality(InScope(x, k))
      /\ failures[x][b][k] \in Nat /\ failures'[x][b][k] \in Nat
      /\ failures'[x][b][k] <= failures[x][b][k]
  BY <1>1 DEF HammerKept, PagesTyped, FailureCounts
<1>6. /\ Cardinality(UnderWayOn(x, b, k)) \in Nat /\ Cardinality(InScope(x, k)) \in Nat
      /\ FailureThreshold \in Nat
  BY ScopesAreFinite, BackendsAreMany
<1> QED BY <1>4, <1>5, <1>6

\* A failure is counted when its attempt ends.
LEMMA HammerCounted ==
  ASSUME Br!RotationAssumption, RotationSound, NEW s \in PageSources, NEW f \in PageStates,
         Br!Set(s, f), task[s].pc = "trying", f.pc # "trying", NEW kind \in Br!Kinds,
         failures' = Br!Counted(s, kind)
  PROVE  HammerKept' /\ failures' \in FailureCounts
<1>1. PagesTyped /\ HammerKept
  BY DEF RotationSound
<1>2. /\ task'[s] = f /\ \A u \in PageSources \ {s} : task'[u] = task[u]
  BY <1>1, OnePageMoves
<1> DEFINE z == Br!Scope(s, kind)
           a == Backends[task[s].at]
<1>3. z \in PageSources \cup Br!Sites /\ a \in Br!Names
  <2>1. task[s].at \in 1 .. Len(Backends)
    BY PageKnown, BackendsAreMany DEF RoundKept
  <2> QED BY <2>1, BackendsAreMany, ScopesAreScopes
<1>4. failures' = [failures EXCEPT ![z][a][kind] = @ + 1]
  BY DEF Br!Counted, Br!Backend
<1> HIDE DEF z
<1>5. /\ failures' \in FailureCounts
      /\ failures'[z][a][kind] = failures[z][a][kind] + 1
      /\ \A x \in PageSources \cup Br!Sites, b \in Br!Names, k \in Br!Kinds :
           failures'[x][b][k] = failures[x][b][k] \/ (x = z /\ b = a /\ k = kind)
  <2> HIDE DEF a
  <2> QED BY <1>1, <1>3, <1>4 DEF PagesTyped, FailureCounts
<1>6. HammerKept'
  <2> SUFFICES ASSUME NEW x \in PageSources \cup Br!Sites, NEW b \in Br!Names, NEW k \in Br!Kinds
               PROVE  failures'[x][b][k] + Cardinality(UnderWayOn(x, b, k)')
                        <= FailureThreshold - 1 + Cardinality(InScope(x, k))
    BY DEF HammerKept, InScope, Br!Scope
  <2>1. UnderWayOn(x, b, k)' \subseteq UnderWayOn(x, b, k)
    BY <1>2 DEF UnderWayOn, Br!Scope
  <2>2. /\ IsFiniteSet(UnderWayOn(x, b, k)) /\ Cardinality(UnderWayOn(x, b, k)) \in Nat
        /\ Cardinality(InScope(x, k)) \in Nat /\ FailureThreshold \in Nat
    BY ScopesAreFinite, BackendsAreMany
  <2>3. /\ failures[x][b][k] + Cardinality(UnderWayOn(x, b, k))
             <= FailureThreshold - 1 + Cardinality(InScope(x, k))
        /\ failures[x][b][k] \in Nat
    BY <1>1 DEF HammerKept, PagesTyped, FailureCounts
  <2>4. CASE failures'[x][b][k] = failures[x][b][k]
    <3>1. /\ Cardinality(UnderWayOn(x, b, k)') \in Nat
          /\ Cardinality(UnderWayOn(x, b, k)') <= Cardinality(UnderWayOn(x, b, k))
      <4> HIDE DEF UnderWayOn
      <4> QED BY <2>1, <2>2, FS_Subset, FS_CardinalityType
    <3> QED BY <2>2, <2>3, <2>4, <3>1
  <2>5. CASE x = z /\ b = a /\ k = kind
    <3>1. s \in UnderWayOn(x, b, k) /\ UnderWayOn(x, b, k)' \subseteq UnderWayOn(x, b, k) \ {s}
      BY <1>2, <2>1, <2>5 DEF UnderWayOn, z, Br!Scope
    <3>2. /\ Cardinality(UnderWayOn(x, b, k)') \in Nat
          /\ Cardinality(UnderWayOn(x, b, k)') <= Cardinality(UnderWayOn(x, b, k)) - 1
      <4> HIDE DEF UnderWayOn
      <4> DEFINE R == UnderWayOn(x, b, k) \ {s}
      <4>1. IsFiniteSet(R) /\ Cardinality(R) = Cardinality(UnderWayOn(x, b, k)) - 1
        BY <2>2, <3>1, FS_RemoveElement
      <4>2. UnderWayOn(x, b, k)' \subseteq R
        BY <3>1
      <4> HIDE DEF R
      <4> QED BY <4>1, <4>2, FS_Subset, FS_CardinalityType
    <3>3. failures'[x][b][k] = failures[x][b][k] + 1
      BY <1>5, <2>5
    <3> QED BY <2>2, <2>3, <3>2, <3>3
  <2> QED BY <1>5, <2>4, <2>5
<1> QED BY <1>5, <1>6

\* Nothing was counted.
LEMMA HammerStill ==
  ASSUME Br!RotationAssumption, RotationSound, NEW s \in PageSources, NEW f \in PageStates,
         Br!Set(s, f), f.pc # "trying", failures' = failures
  PROVE  HammerKept' /\ failures' \in FailureCounts
<1>1. PagesTyped
  BY DEF RotationSound
<1>2. /\ failures' \in FailureCounts
      /\ \A x \in PageSources \cup Br!Sites, b \in Br!Names, k \in Br!Kinds :
           failures'[x][b][k] <= failures[x][b][k]
  BY <1>1 DEF PagesTyped, FailureCounts
<1> QED BY <1>2, HammerRests

LEMMA BeginKeepsRounds ==
  ASSUME Br!RotationAssumption, RotationSound, NEW s \in PageSources, Br!Begin(s)
  PROVE  RotationSound'
<1> DEFINE f == [task[s] EXCEPT !.pc = "choosing", !.refused = circuit]
<1>0. task[s].pc = "new" /\ Br!Set(s, f) /\ UNCHANGED <<failures, circuit, tries>>
  BY DEF Br!Begin
<1>1. /\ task[s] \in PageStates /\ RoundKept(task[s], tries[s], circuit) /\ circuit \in BOOLEAN
  BY PageKnown
<1>2. /\ f \in PageStates /\ f.pc = "choosing" /\ f.refused = circuit /\ f.at = task[s].at
      /\ f.round = task[s].round /\ f.free = task[s].free /\ f.retryable = task[s].retryable
      /\ f.excused = task[s].excused
  BY <1>1 DEF PageStates
<1> HIDE DEF f
<1>3. RoundKept(f, tries[s], circuit')
  BY <1>0, <1>1, <1>2 DEF RoundKept
<1>4. HammerKept' /\ failures' \in FailureCounts
  BY <1>0, <1>2, HammerStill
<1> QED BY <1>0, <1>1, <1>2, <1>3, <1>4, RoundsRest DEF RotationSound

LEMMA SkipKeepsRounds ==
  ASSUME Br!RotationAssumption, RotationSound, NEW s \in PageSources, Br!Skip(s)
  PROVE  RotationSound'
<1> DEFINE b == Backends[task[s].at]
           f == [task[s] EXCEPT !.at = @ + 1, !.refused = @ \/ circuit,
                                !.excused = @ \cup {b}]
<1>0. /\ task[s].pc = "choosing" /\ task[s].at <= Len(Backends) /\ Br!Set(s, f)
      /\ UNCHANGED <<failures, circuit, tries>>
  BY DEF Br!Skip, Br!Left, Br!Backend
<1>1. /\ task[s] \in PageStates /\ RoundKept(task[s], tries[s], circuit) /\ circuit \in BOOLEAN
      /\ task[s].at \in Nat /\ task[s].at >= 1
  BY PageKnown
<1>2. Len(Backends) \in Nat /\ b \in Br!Names /\ task[s].at + 1 \in 1 .. Len(Backends) + 1
  BY <1>0, <1>1, BackendsAreMany
<1>3. /\ f \in PageStates /\ f.pc = "choosing" /\ f.refused = (task[s].refused \/ circuit)
      /\ f.at = task[s].at + 1 /\ f.round = task[s].round /\ f.free = task[s].free
      /\ f.retryable = task[s].retryable /\ f.excused = task[s].excused \cup {b}
  <2> HIDE DEF b
  <2> QED BY <1>0, <1>1, <1>2 DEF PageStates
<1> HIDE DEF f
<1>4. \A i \in 1 .. Len(Backends) : Backends[i] \notin f.excused =>
        tries[s][Backends[i]] = IF i < f.at THEN f.round ELSE f.round - 1
  <2> SUFFICES ASSUME NEW i \in 1 .. Len(Backends), Backends[i] \notin f.excused
               PROVE  tries[s][Backends[i]] = IF i < f.at THEN f.round ELSE f.round - 1
    OBVIOUS
  <2>1. i # task[s].at /\ Backends[i] \notin task[s].excused
    BY <1>3
  <2>2. tries[s][Backends[i]] = IF i < task[s].at THEN task[s].round ELSE task[s].round - 1
    BY <1>0, <1>1, <2>1 DEF RoundKept
  <2>3. i < task[s].at <=> i < f.at
    BY <1>1, <1>2, <1>3, <2>1
  <2> QED BY <1>3, <2>2, <2>3
<1>5. RoundKept(f, tries[s], circuit')
  BY <1>0, <1>1, <1>3, <1>4 DEF RoundKept
<1>6. HammerKept' /\ failures' \in FailureCounts
  BY <1>0, <1>3, HammerStill
<1> QED BY <1>0, <1>1, <1>3, <1>5, <1>6, RoundsRest DEF RotationSound

\* An attempt begins only where nothing is open, so that what is held against the backend
\* is below the threshold, and everybody's attempts are still to come.
LEMMA TryKeepsRounds ==
  ASSUME Br!RotationAssumption, RotationSound, NEW s \in PageSources, Br!Try(s)
  PROVE  RotationSound'
<1> DEFINE b == Backends[task[s].at]
           f == [task[s] EXCEPT !.pc = "trying", !.refused = @ \/ circuit]
<1>0. /\ task[s].pc = "choosing" /\ task[s].at <= Len(Backends) /\ Br!Set(s, f)
      /\ tries' = [tries EXCEPT ![s][b] = @ + 1] /\ ~Br!Open(s, b)
      /\ UNCHANGED <<failures, circuit>>
  BY DEF Br!Try, Br!Left, Br!Backend, Br!Spoiled
<1>1. /\ task[s] \in PageStates /\ RoundKept(task[s], tries[s], circuit) /\ circuit \in BOOLEAN
      /\ task[s].at \in Nat /\ task[s].at >= 1 /\ PagesTyped /\ task[s].round \in Nat
  BY PageKnown
<1>2. /\ Len(Backends) \in Nat /\ b \in Br!Names /\ task[s].at \in 1 .. Len(Backends)
      /\ \A i, j \in 1 .. Len(Backends) : Backends[i] = Backends[j] => i = j
      /\ \A i \in 1 .. Len(Backends) : Backends[i] \in Br!Names
  BY <1>0, <1>1, BackendsAreMany
<1>3. /\ f \in PageStates /\ f.pc = "trying" /\ f.refused = (task[s].refused \/ circuit)
      /\ f.at = task[s].at /\ f.round = task[s].round /\ f.free = task[s].free
      /\ f.retryable = task[s].retryable /\ f.excused = task[s].excused
  BY <1>1 DEF PageStates
<1> HIDE DEF f
<1>4. /\ task' \in [PageSources -> PageStates] /\ task'[s] = f
      /\ \A u \in PageSources \ {s} : task'[u] = task[u]
  BY <1>0, <1>1, <1>3, OnePageMoves
<1>5. /\ tries' \in [PageSources -> [Br!Names -> Nat]]
      /\ \A u \in PageSources \ {s} : tries'[u] = tries[u]
      /\ tries'[s][b] = tries[s][b] + 1
      /\ \A c \in Br!Names \ {b} : tries'[s][c] = tries[s][c]
  <2> HIDE DEF b
  <2> QED BY <1>0, <1>1, <1>2 DEF PagesTyped
<1>6. PagesTyped'
  BY <1>0, <1>1, <1>4, <1>5 DEF PagesTyped
<1>7. RoundsAreKept'
  <2> SUFFICES ASSUME NEW u \in PageSources
               PROVE  RoundKept(task'[u], tries'[u], circuit')
    BY DEF RoundsAreKept
  <2>1. CASE u = s
    <3>1. \A i \in 1 .. Len(Backends) : Backends[i] \notin f.excused =>
            tries'[s][Backends[i]] = IF i < f.at \/ i = f.at THEN f.round ELSE f.round - 1
      <4> SUFFICES ASSUME NEW i \in 1 .. Len(Backends), Backends[i] \notin f.excused
                   PROVE  tries'[s][Backends[i]]
                            = IF i < f.at \/ i = f.at THEN f.round ELSE f.round - 1
        OBVIOUS
      <4>1. tries[s][Backends[i]] = IF i < task[s].at THEN task[s].round ELSE task[s].round - 1
        BY <1>0, <1>1, <1>3 DEF RoundKept
      <4>2. CASE i = task[s].at
        BY <1>1, <1>3, <1>5, <4>1, <4>2
      <4>3. CASE i # task[s].at
        <5>1. Backends[i] \in Br!Names \ {b}
          BY <1>2, <4>3
        <5>2. tries'[s][Backends[i]] = tries[s][Backends[i]]
          <6> HIDE DEF b
          <6> QED BY <1>5, <5>1
        <5> QED BY <1>3, <4>1, <4>3, <5>2
      <4> QED BY <4>2, <4>3
    <3>2. RoundKept(f, tries'[s], circuit')
      BY <1>0, <1>1, <1>3, <3>1 DEF RoundKept
    <3> QED BY <1>4, <2>1, <3>2
  <2>2. CASE u # s
    <3>1. RoundKept(task[u], tries[u], circuit)
      BY DEF RotationSound, RoundsAreKept
    <3> QED BY <1>0, <1>4, <1>5, <2>2, <3>1
  <2> QED BY <2>1, <2>2
<1>8. HammerKept'
  <2> SUFFICES ASSUME NEW x \in PageSources \cup Br!Sites, NEW c \in Br!Names, NEW k \in Br!Kinds
               PROVE  failures[x][c][k] + Cardinality(UnderWayOn(x, c, k)')
                        <= FailureThreshold - 1 + Cardinality(InScope(x, k))
    BY <1>0 DEF HammerKept, InScope, Br!Scope
  <2>1. /\ IsFiniteSet(UnderWayOn(x, c, k)) /\ Cardinality(UnderWayOn(x, c, k)) \in Nat
        /\ Cardinality(InScope(x, k)) \in Nat /\ FailureThreshold \in Nat
        /\ IsFiniteSet(InScope(x, k))
    BY ScopesAreFinite, BackendsAreMany
  <2>2. /\ failures[x][c][k] + Cardinality(UnderWayOn(x, c, k))
             <= FailureThreshold - 1 + Cardinality(InScope(x, k))
        /\ failures[x][c][k] \in Nat
    BY <1>1 DEF RotationSound, HammerKept, PagesTyped, FailureCounts
  <2>3. CASE c = b /\ Br!Scope(s, k) = x
    <3>1. failures[x][c][k] < FailureThreshold
      BY <1>0, <2>1, <2>2, <2>3 DEF Br!Open
    <3>2. UnderWayOn(x, c, k)' \subseteq InScope(x, k)
      BY DEF UnderWayOn, InScope, Br!Scope
    <3>3. /\ Cardinality(UnderWayOn(x, c, k)') \in Nat
          /\ Cardinality(UnderWayOn(x, c, k)') <= Cardinality(InScope(x, k))
      <4> HIDE DEF UnderWayOn, InScope
      <4> QED BY <2>1, <3>2, FS_Subset, FS_CardinalityType
    <3> QED BY <2>1, <2>2, <3>1, <3>3
  <2>4. CASE ~(c = b /\ Br!Scope(s, k) = x)
    <3>1. UnderWayOn(x, c, k)' \subseteq UnderWayOn(x, c, k)
      BY <1>3, <1>4, <2>4 DEF UnderWayOn, Br!Scope
    <3>2. /\ Cardinality(UnderWayOn(x, c, k)') \in Nat
          /\ Cardinality(UnderWayOn(x, c, k)') <= Cardinality(UnderWayOn(x, c, k))
      <4> HIDE DEF UnderWayOn
      <4> QED BY <2>1, <3>1, FS_Subset, FS_CardinalityType
    <3> QED BY <2>1, <2>2, <3>2
  <2> QED BY <2>3, <2>4
<1> QED BY <1>6, <1>7, <1>8 DEF RotationSound

\* A success forgives the backend.
LEMMA SucceedKeepsRounds ==
  ASSUME Br!RotationAssumption, RotationSound, NEW s \in PageSources, Br!Succeed(s)
  PROVE  RotationSound'
<1> DEFINE f == [task[s] EXCEPT !.pc = "ok"]
           a == Backends[task[s].at]
           Forgiven(x) == [failures[x] EXCEPT ![a] =
                             [k \in Br!Kinds |-> IF Br!Scope(s, k) = x THEN 0 ELSE @[k]]]
<1>0. /\ task[s].pc = "trying" /\ Br!Set(s, f) /\ UNCHANGED <<circuit, tries>>
      /\ failures' = [x \in DOMAIN failures |->
                        IF x \notin {s, SiteOf[s]} THEN failures[x] ELSE Forgiven(x)]
  BY DEF Br!Succeed, Br!Backend
<1>1. /\ task[s] \in PageStates /\ RoundKept(task[s], tries[s], circuit) /\ circuit \in BOOLEAN
      /\ PagesTyped
  BY PageKnown
<1>2. /\ f \in PageStates /\ f.pc = "ok" /\ f.refused = task[s].refused
      /\ f.free = task[s].free /\ f.retryable = task[s].retryable
  BY <1>1 DEF PageStates
<1>3. RoundKept(f, tries[s], circuit')
  <2> HIDE DEF f
  <2> QED BY <1>0, <1>1, <1>2 DEF RoundKept
<1> HIDE DEF f
<1>4. ASSUME NEW x \in PageSources \cup Br!Sites
      PROVE  /\ Forgiven(x) \in [Br!Names -> [Br!Kinds -> Nat]]
             /\ \A b \in Br!Names, k \in Br!Kinds : Forgiven(x)[b][k] <= failures[x][b][k]
  <2>1. failures[x] \in [Br!Names -> [Br!Kinds -> Nat]]
    BY <1>1 DEF PagesTyped, FailureCounts
  <2> DEFINE z == [k \in Br!Kinds |-> IF Br!Scope(s, k) = x THEN 0 ELSE failures[x][a][k]]
  <2>a. a \in Br!Names
    <3>1. task[s].at \in 1 .. Len(Backends)
      BY <1>0, <1>1, PageKnown, BackendsAreMany DEF RoundKept
    <3> QED BY <3>1, BackendsAreMany
  <2>2. Forgiven(x) = [failures[x] EXCEPT ![a] = z]
    OBVIOUS
  <2> HIDE DEF a
  <2>3. z \in [Br!Kinds -> Nat] /\ \A k \in Br!Kinds : z[k] <= failures[x][a][k]
    BY <2>1, <2>a
  <2> HIDE DEF z
  <2>4. [failures[x] EXCEPT ![a] = z] \in [Br!Names -> [Br!Kinds -> Nat]]
    BY <2>1, <2>3
  <2>5. \A b \in Br!Names, k \in Br!Kinds :
          [failures[x] EXCEPT ![a] = z][b][k] <= failures[x][b][k]
    BY <2>1, <2>3, <2>a
  <2> HIDE DEF Forgiven
  <2> QED BY <2>2, <2>4, <2>5
<1> HIDE DEF Forgiven, a
<1>5. DOMAIN failures = PageSources \cup Br!Sites
  BY <1>1 DEF PagesTyped, FailureCounts
<1>6. failures' \in FailureCounts
  BY <1>0, <1>1, <1>4, <1>5 DEF PagesTyped, FailureCounts
<1>7. \A x \in PageSources \cup Br!Sites, b \in Br!Names, k \in Br!Kinds :
        failures'[x][b][k] <= failures[x][b][k]
  <2> SUFFICES ASSUME NEW x \in PageSources \cup Br!Sites, NEW b \in Br!Names, NEW k \in Br!Kinds
               PROVE  failures'[x][b][k] <= failures[x][b][k]
    OBVIOUS
  <2>1. failures[x][b][k] \in Nat
    BY <1>1 DEF PagesTyped, FailureCounts
  <2>2. failures'[x] = failures[x] \/ failures'[x] = Forgiven(x)
    BY <1>0, <1>5
  <2> QED BY <1>4, <2>1, <2>2
<1>8. HammerKept'
  BY <1>0, <1>2, <1>6, <1>7, HammerRests
<1> QED BY <1>0, <1>1, <1>2, <1>3, <1>6, <1>8, RoundsRest DEF RotationSound

\* A failed attempt: it was the round's on that backend.
LEMMA PassedRound ==
  ASSUME Br!RotationAssumption, RotationSound, NEW s \in PageSources, task[s].pc = "trying",
         NEW f \in PageStates, f.pc = "choosing", f.at = task[s].at + 1,
         f.round = task[s].round, f.excused = task[s].excused,
         NEW closed \in BOOLEAN, f.refused => closed, f.free => f.retryable
  PROVE  RoundKept(f, tries[s], closed)
<1>1. /\ RoundKept(task[s], tries[s], circuit) /\ task[s].at \in Nat /\ Len(Backends) \in Nat
  BY PageKnown, BackendsAreMany
<1>2. \A i \in 1 .. Len(Backends) : (i < task[s].at \/ i = task[s].at) <=> i < f.at
  BY <1>1
<1>3. \A i \in 1 .. Len(Backends) : Backends[i] \notin f.excused =>
        tries[s][Backends[i]] = IF i < f.at THEN f.round ELSE f.round - 1
  BY <1>1, <1>2 DEF RoundKept
<1> QED BY <1>3 DEF RoundKept

LEMMA FailKeepsRounds ==
  ASSUME Br!RotationAssumption, RotationSound, NEW s \in PageSources, NEW kind \in Faults,
         Br!Fail(s, kind)
  PROVE  RotationSound'
<1> DEFINE f == [Br!Passed(s) EXCEPT !.retryable = TRUE,
                                     !.free = @ \/ Br!Backend(s) \notin BrowserProxied]
<1>0. /\ task[s].pc = "trying" /\ Br!Set(s, f) /\ UNCHANGED <<circuit, tries>>
      /\ failures' = Br!Counted(s, kind) /\ kind \in Br!Kinds
  BY DEF Br!Fail, Br!Kinds
<1>1. /\ task[s] \in PageStates /\ RoundKept(task[s], tries[s], circuit) /\ circuit \in BOOLEAN
      /\ task[s].at + 1 \in 1 .. Len(Backends) + 1
  <2>1. /\ task[s] \in PageStates /\ RoundKept(task[s], tries[s], circuit)
        /\ task[s].at \in Nat /\ task[s].at >= 1 /\ Len(Backends) \in Nat /\ circuit \in BOOLEAN
    BY PageKnown, BackendsAreMany
  <2>2. task[s].at <= Len(Backends)
    BY <1>0, <2>1 DEF RoundKept
  <2> QED BY <2>1, <2>2
<1>2. /\ f \in PageStates /\ f.pc = "choosing" /\ f.at = task[s].at + 1
      /\ f.round = task[s].round /\ f.excused = task[s].excused
      /\ f.refused = task[s].refused /\ f.retryable = TRUE
  BY <1>1 DEF PageStates, Br!Passed
<1> HIDE DEF f
<1>3. RoundKept(f, tries[s], circuit)
  <2>1. f.refused => circuit
    BY <1>1, <1>2 DEF RoundKept
  <2> QED BY <1>0, <1>1, <1>2, <2>1, PassedRound
<1>4. HammerKept' /\ failures' \in FailureCounts
  BY <1>0, <1>2, HammerCounted
<1> QED BY <1>0, <1>1, <1>2, <1>3, <1>4, RoundsRest DEF RotationSound

LEMMA ChallengeKeepsRounds ==
  ASSUME Br!RotationAssumption, RotationSound, NEW s \in PageSources, Br!Challenge(s)
  PROVE  RotationSound'
<1> DEFINE a == Br!Backend(s)
           f == [Br!Passed(s) EXCEPT !.challenged = @ \cup {a}]
<1>0. /\ task[s].pc = "trying" /\ Br!Set(s, f) /\ UNCHANGED <<circuit, tries>>
      /\ failures' = Br!Counted(s, "blocked") /\ "blocked" \in Br!Kinds
  BY DEF Br!Challenge, Br!Kinds
<1>1. /\ task[s] \in PageStates /\ RoundKept(task[s], tries[s], circuit) /\ circuit \in BOOLEAN
      /\ task[s].at + 1 \in 1 .. Len(Backends) + 1 /\ a \in Br!Names
  <2>1. /\ task[s] \in PageStates /\ RoundKept(task[s], tries[s], circuit)
        /\ task[s].at \in Nat /\ task[s].at >= 1 /\ Len(Backends) \in Nat /\ circuit \in BOOLEAN
    BY PageKnown, BackendsAreMany
  <2>2. task[s].at <= Len(Backends)
    BY <1>0, <2>1 DEF RoundKept
  <2> QED BY <2>1, <2>2, BackendsAreMany DEF Br!Backend
<1> HIDE DEF a
<1>2. /\ f \in PageStates /\ f.pc = "choosing" /\ f.at = task[s].at + 1
      /\ f.round = task[s].round /\ f.excused = task[s].excused
      /\ f.refused = task[s].refused /\ f.retryable = task[s].retryable
      /\ f.free = task[s].free
  BY <1>1 DEF PageStates, Br!Passed
<1> HIDE DEF f
<1>3. RoundKept(f, tries[s], circuit)
  <2>1. (f.refused => circuit) /\ (f.free => f.retryable)
    BY <1>1, <1>2 DEF RoundKept
  <2> QED BY <1>0, <1>1, <1>2, <2>1, PassedRound
<1>4. HammerKept' /\ failures' \in FailureCounts
  BY <1>0, <1>2, HammerCounted
<1> QED BY <1>0, <1>1, <1>2, <1>3, <1>4, RoundsRest DEF RotationSound

LEMMA RefusalKeepsRounds ==
  ASSUME Br!RotationAssumption, RotationSound, NEW s \in PageSources, Br!ProxyRefuses(s)
  PROVE  RotationSound'
<1> DEFINE f == [Br!Passed(s) EXCEPT !.refused = TRUE]
<1>0. /\ task[s].pc = "trying" /\ Br!Set(s, f) /\ tries' = tries /\ circuit' = TRUE
      /\ failures' = Br!Counted(s, "proxy") /\ "proxy" \in Br!Kinds
  BY DEF Br!ProxyRefuses, Br!Kinds
<1>1. /\ task[s] \in PageStates /\ RoundKept(task[s], tries[s], circuit) /\ circuit \in BOOLEAN
      /\ task[s].at + 1 \in 1 .. Len(Backends) + 1
  <2>1. /\ task[s] \in PageStates /\ RoundKept(task[s], tries[s], circuit)
        /\ task[s].at \in Nat /\ task[s].at >= 1 /\ Len(Backends) \in Nat /\ circuit \in BOOLEAN
    BY PageKnown, BackendsAreMany
  <2>2. task[s].at <= Len(Backends)
    BY <1>0, <2>1 DEF RoundKept
  <2> QED BY <2>1, <2>2
<1>2. /\ f \in PageStates /\ f.pc = "choosing" /\ f.at = task[s].at + 1
      /\ f.round = task[s].round /\ f.excused = task[s].excused
      /\ f.retryable = task[s].retryable /\ f.free = task[s].free
  BY <1>1 DEF PageStates, Br!Passed
<1> HIDE DEF f
<1>3. RoundKept(f, tries[s], TRUE)
  <2>1. f.free => f.retryable
    BY <1>1, <1>2 DEF RoundKept
  <2> QED BY <1>0, <1>2, <2>1, PassedRound
<1>4. HammerKept' /\ failures' \in FailureCounts
  BY <1>0, <1>2, HammerCounted
<1>5. circuit' \in BOOLEAN /\ (circuit => circuit') /\ RoundKept(f, tries[s], circuit')
  BY <1>0, <1>3
<1> QED BY <1>0, <1>2, <1>4, <1>5, RoundsRest DEF RotationSound

LEMMA EndRoundKeepsRounds ==
  ASSUME Br!RotationAssumption, RotationSound, NEW s \in PageSources, Br!EndRound(s)
  PROVE  RotationSound'
<1>0. /\ task[s].pc = "choosing" /\ task[s].at > Len(Backends)
      /\ UNCHANGED <<failures, circuit, tries>>
  BY DEF Br!EndRound
<1>1. /\ task[s] \in PageStates /\ RoundKept(task[s], tries[s], circuit) /\ circuit \in BOOLEAN
      /\ task[s].round \in Nat /\ task[s].round <= Rounds /\ Rounds \in Nat
  BY PageKnown, BackendsAreMany
<1>2. PICK p \in {"pausing", "proxy", "error"} :
        /\ Br!Set(s, [task[s] EXCEPT !.pc = p])
        /\ p = "pausing" => task[s].round < Rounds
        /\ p = "proxy" => task[s].refused /\ (task[s].free => task[s].round = Rounds)
        /\ p = "error" => ~task[s].refused /\ (task[s].retryable => task[s].round = Rounds)
  <2>1. CASE Br!WorthARound(s)
    BY <2>1 DEF Br!EndRound, Br!WorthARound
  <2>2. CASE ~Br!WorthARound(s) /\ task[s].refused
    <3>1. task[s].free => task[s].round = Rounds
      BY <1>1, <2>2 DEF Br!WorthARound, RoundKept
    <3> QED BY <2>2, <3>1 DEF Br!EndRound
  <2>3. CASE ~Br!WorthARound(s) /\ ~task[s].refused
    <3>1. task[s].retryable => task[s].round = Rounds
      BY <1>1, <2>3 DEF Br!WorthARound
    <3> QED BY <2>3, <3>1 DEF Br!EndRound
  <2> QED BY <2>1, <2>2, <2>3
<1> DEFINE f == [task[s] EXCEPT !.pc = p]
<1>3. /\ f \in PageStates /\ f.pc = p /\ f.at = task[s].at
      /\ f.round = task[s].round /\ f.excused = task[s].excused
      /\ f.retryable = task[s].retryable /\ f.free = task[s].free
      /\ f.refused = task[s].refused
  BY <1>1, <1>2 DEF PageStates
<1>4. Br!Set(s, f)
  BY <1>2
<1> HIDE DEF f
<1>5. RoundKept(f, tries[s], circuit')
  BY <1>0, <1>1, <1>2, <1>3 DEF RoundKept
<1>6. HammerKept' /\ failures' \in FailureCounts
  BY <1>0, <1>2, <1>3, <1>4, HammerStill
<1> QED BY <1>0, <1>1, <1>3, <1>4, <1>5, <1>6, RoundsRest DEF RotationSound

LEMMA NextRoundKeepsRounds ==
  ASSUME Br!RotationAssumption, RotationSound, NEW s \in PageSources, Br!NextRound(s)
  PROVE  RotationSound'
<1> DEFINE f == [task[s] EXCEPT !.pc = "choosing", !.at = 1, !.round = @ + 1,
                                !.retryable = FALSE, !.free = FALSE]
<1>0. /\ task[s].pc = "pausing" /\ Br!Set(s, f) /\ UNCHANGED <<failures, circuit, tries>>
  BY DEF Br!NextRound
<1>1. /\ task[s] \in PageStates /\ RoundKept(task[s], tries[s], circuit) /\ circuit \in BOOLEAN
      /\ task[s].round \in Nat /\ Rounds \in Nat /\ Len(Backends) \in Nat
      /\ task[s].at \in Nat /\ task[s].round >= 1
  BY PageKnown, BackendsAreMany
<1>2. /\ task[s].round + 1 \in 1 .. Rounds /\ 1 \in 1 .. Len(Backends) + 1
      /\ task[s].at > Len(Backends)
  BY <1>0, <1>1 DEF RoundKept
<1>3. /\ f \in PageStates /\ f.pc = "choosing" /\ f.at = 1
      /\ f.round = task[s].round + 1 /\ f.excused = task[s].excused
      /\ f.retryable = FALSE /\ f.free = FALSE /\ f.refused = task[s].refused
  BY <1>1, <1>2 DEF PageStates
<1> HIDE DEF f
<1>4. \A i \in 1 .. Len(Backends) : Backends[i] \notin f.excused =>
        tries[s][Backends[i]] = IF i < f.at THEN f.round ELSE f.round - 1
  <2> SUFFICES ASSUME NEW i \in 1 .. Len(Backends), Backends[i] \notin f.excused
               PROVE  tries[s][Backends[i]] = IF i < f.at THEN f.round ELSE f.round - 1
    OBVIOUS
  <2>1. i < task[s].at /\ ~(i < f.at)
    BY <1>1, <1>2, <1>3
  <2>2. tries[s][Backends[i]] = task[s].round
    BY <1>0, <1>1, <1>3, <2>1 DEF RoundKept
  <2> QED BY <1>1, <1>3, <2>1, <2>2
<1>5. RoundKept(f, tries[s], circuit')
  BY <1>0, <1>1, <1>3, <1>4 DEF RoundKept
<1>6. HammerKept' /\ failures' \in FailureCounts
  BY <1>0, <1>3, HammerStill
<1> QED BY <1>0, <1>1, <1>3, <1>5, <1>6, RoundsRest DEF RotationSound

LEMMA CancelKeepsRounds ==
  ASSUME Br!RotationAssumption, RotationSound, NEW s \in PageSources, Br!Cancel(s)
  PROVE  RotationSound'
<1> DEFINE f == [task[s] EXCEPT !.pc = "cancelled"]
<1>0. Br!Set(s, f) /\ UNCHANGED <<failures, circuit, tries>>
  BY DEF Br!Cancel
<1>1. /\ task[s] \in PageStates /\ RoundKept(task[s], tries[s], circuit) /\ circuit \in BOOLEAN
  BY PageKnown
<1>2. /\ f \in PageStates /\ f.pc = "cancelled" /\ f.refused = task[s].refused
      /\ f.retryable = task[s].retryable /\ f.free = task[s].free
  BY <1>1 DEF PageStates
<1> HIDE DEF f
<1>3. RoundKept(f, tries[s], circuit')
  BY <1>0, <1>1, <1>2 DEF RoundKept
<1>4. HammerKept' /\ failures' \in FailureCounts
  BY <1>0, <1>2, HammerStill
<1> QED BY <1>0, <1>1, <1>2, <1>3, <1>4, RoundsRest DEF RotationSound

LEMMA RotationNext ==
  ASSUME Br!RotationAssumption, RotationSound, [Br!Next]_(Br!vars)
  PROVE  RotationSound'
<1>1. CASE UNCHANGED Br!vars
  <2>1. UNCHANGED <<task, failures, circuit, tries>>
    BY <1>1 DEF Br!vars
  <2>2. PagesTyped' /\ RoundsAreKept'
    BY <2>1 DEF RotationSound, PagesTyped, FailureCounts, RoundsAreKept, RoundKept
  <2>3. \A x, b, k : UnderWayOn(x, b, k)' = UnderWayOn(x, b, k)
    BY <2>1 DEF UnderWayOn, Br!Scope
  <2>4. HammerKept'
    BY <2>1, <2>3 DEF RotationSound, HammerKept, InScope, Br!Scope
  <2> QED BY <2>2, <2>4 DEF RotationSound
<1>2. ASSUME NEW s \in PageSources,
             \/ Br!Begin(s) \/ Br!Cancel(s) \/ Br!Skip(s) \/ Br!Try(s) \/ Br!Succeed(s)
             \/ Br!Challenge(s) \/ Br!ProxyRefuses(s) \/ Br!EndRound(s) \/ Br!NextRound(s)
      PROVE  RotationSound'
  BY <1>2, BeginKeepsRounds, CancelKeepsRounds, SkipKeepsRounds, TryKeepsRounds,
     SucceedKeepsRounds, ChallengeKeepsRounds, RefusalKeepsRounds, EndRoundKeepsRounds,
     NextRoundKeepsRounds
<1>3. ASSUME NEW s \in PageSources, NEW kind \in Faults, Br!Fail(s, kind)
      PROVE  RotationSound'
  BY <1>3, FailKeepsRounds
<1> QED BY <1>1, <1>2, <1>3 DEF Br!Next

LEMMA SoundRotation ==
  ASSUME Br!RotationAssumption, RotationSound
  PROVE  Br!TypeOK /\ Br!HammeringBounded /\ Br!GivesUpLate
<1>1. PagesTyped /\ RoundsAreKept /\ HammerKept
  BY DEF RotationSound
<1>2. Br!TypeOK
  <2>1. \A s \in PageSources : task[s] \in PageStates
    BY <1>1 DEF PagesTyped
  <2> QED BY <1>1, <2>1 DEF PagesTyped, PageStates, FailureCounts, Br!TypeOK
<1>3. Br!HammeringBounded
  <2> SUFFICES ASSUME NEW x \in PageSources \cup Br!Sites, NEW b \in Br!Names, NEW k \in Br!Kinds
               PROVE  failures[x][b][k] < FailureThreshold + Cardinality(InScope(x, k))
    <3>1. \A x, k : Br!Cardinality({s \in PageSources : Br!Scope(s, k) = x})
                      = Cardinality(InScope(x, k))
      BY Zenon DEF Br!Cardinality, Cardinality, InScope
    <3> QED BY <3>1 DEF Br!HammeringBounded
  <2>1. /\ failures[x][b][k] + Cardinality(UnderWayOn(x, b, k))
             <= FailureThreshold - 1 + Cardinality(InScope(x, k))
        /\ failures[x][b][k] \in Nat
    BY <1>1 DEF HammerKept, PagesTyped, FailureCounts
  <2>2. /\ Cardinality(UnderWayOn(x, b, k)) \in Nat /\ Cardinality(InScope(x, k)) \in Nat
        /\ FailureThreshold \in Nat
    BY ScopesAreFinite, BackendsAreMany
  <2> QED BY <2>1, <2>2
<1>4. Br!GivesUpLate
  <2> SUFFICES ASSUME NEW s \in PageSources
               PROVE  /\ task[s].pc = "error" =>
                           /\ ~task[s].refused
                           /\ \A b \in Br!Names \ task[s].excused : tries[s][b] = task[s].round
                           /\ task[s].retryable => task[s].round = Rounds
                      /\ task[s].pc = "proxy" =>
                           circuit /\ (task[s].free => task[s].round = Rounds)
    BY DEF Br!GivesUpLate
  <2>1. RoundKept(task[s], tries[s], circuit) /\ task[s].at \in Nat
    BY PageKnown
  <2>2. ASSUME task[s].pc = "error", NEW b \in Br!Names \ task[s].excused
        PROVE  tries[s][b] = task[s].round
    <3>1. PICK i \in 1 .. Len(Backends) : b = Backends[i]
      BY BackendsAreMany
    <3>2. i < task[s].at
      BY <2>1, <2>2, BackendsAreMany DEF RoundKept
    <3> QED BY <2>1, <2>2, <3>1, <3>2 DEF RoundKept
  <2> QED BY <2>1, <2>2 DEF RoundKept
<1> QED BY <1>2, <1>3, <1>4

\* With any backends, sources, sites, kinds of failure, rounds and thresholds: what is held
\* against a backend passes the threshold by no more than the attempts that were under
\* way, and a fetch gives up only after it has tried everything nothing speaks against,
\* in every round that was worth it, and blames the proxy exactly when it was refused
\* (fetch_html).
THEOREM RotationIsKept ==
  ASSUME Br!RotationAssumption
  PROVE  Br!Spec => [](Br!TypeOK /\ Br!HammeringBounded /\ Br!GivesUpLate)
<1>1. Br!Init => RotationSound
  BY RotationInit
<1>2. RotationSound /\ [Br!Next]_(Br!vars) => RotationSound'
  BY RotationNext
<1>3. RotationSound => Br!TypeOK /\ Br!HammeringBounded /\ Br!GivesUpLate
  BY SoundRotation
<1> QED BY <1>1, <1>2, <1>3, PTL DEF Br!Spec

\* An attempt is made only with a backend that is not spoiled.
LEMMA SpoiledRestsNext ==
  ASSUME RotationSound, [Br!Next]_(Br!vars)
  PROVE  Br!SpoiledRestsStep
<1>1. PagesTyped
  BY DEF RotationSound
<1> SUFFICES ASSUME NEW s \in PageSources, NEW b \in Br!Names,
                    \/ b \in task[s].challenged \/ Br!Open(s, b)
                    \/ circuit /\ b \in BrowserProxied
             PROVE  tries'[s][b] = tries[s][b]
  BY DEF Br!SpoiledRestsStep
<1>2. ASSUME NEW u \in PageSources, Br!Try(u)
      PROVE  tries'[s][b] = tries[s][b]
  <2>1. tries' = [tries EXCEPT ![u][Br!Backend(u)] = @ + 1]
    BY <1>2 DEF Br!Try
  <2>2. CASE u = s /\ Br!Backend(u) = b
    BY <1>2, <2>2 DEF Br!Try, Br!Refuses, Br!Spoiled
  <2>3. CASE ~(u = s /\ Br!Backend(u) = b)
    <3> HIDE DEF Br!Backend
    <3> QED BY <1>1, <2>1, <2>3 DEF PagesTyped
  <2> QED BY <2>2, <2>3
<1>3. ASSUME tries' = tries
      PROVE  tries'[s][b] = tries[s][b]
  BY <1>3
<1>4. (\E u \in PageSources : Br!Try(u)) \/ tries' = tries
  BY DEF Br!Next, Br!vars, Br!Begin, Br!Cancel, Br!Skip, Br!Succeed, Br!Challenge,
     Br!ProxyRefuses, Br!EndRound, Br!NextRound, Br!Fail
<1> QED BY <1>2, <1>3, <1>4

\* A backend that has been spoiled for a source, by its own challenge page, by failures of
\* other sources or by a refusal of the proxy, is not tried while it is
\* (_open_circuit, fetch_html).
THEOREM SpoiledBackendRests ==
  ASSUME Br!RotationAssumption
  PROVE  Br!Spec => [][Br!SpoiledRestsStep]_(Br!vars)
<1>1. Br!Init => RotationSound
  BY RotationInit
<1>2. RotationSound /\ [Br!Next]_(Br!vars) => RotationSound'
  BY RotationNext
<1>3. RotationSound /\ [Br!Next]_(Br!vars) => Br!SpoiledRestsStep
  BY SpoiledRestsNext
<1> QED BY <1>1, <1>2, <1>3, PTL DEF Br!Spec
=============================================================================
