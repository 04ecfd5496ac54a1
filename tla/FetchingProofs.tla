---------------------------- MODULE FetchingProofs ----------------------------
(***************************************************************************)
(* The properties of the run "fetching", proved of the module it checks    *)
(* (MCFetching).  A behaviour of it is one of a refresh, of a fetch, of a  *)
(* cascade or of the reviews, as its level says; RefreshRunProofs has the  *)
(* theorems about each of these, for any constants.  Here they are used    *)
(* with the constants of the instances, and the refresh still has any.     *)
(***************************************************************************)
EXTENDS MCFetching, Sequences, FiniteSetTheorems, TLAPS

-----------------------------------------------------------------------------
(* The theorems, by the number of sources of the instances they are for.   *)

OfAny == INSTANCE RefreshRunProofs WITH
  Keys <- {"k1", "k2", "k3"}, MinAttempts <- 2, ScrapflyKeys <- {"s1", "s2"}, MinTurns <- 1,
  Mode <- "quarantine", Paid <- {}, Verdicts <- {}, Places <- PerLane(1),
  MaxReviews <- PerLane(1), Threshold <- 1, Attempts <- 1,
  Confs <- AllConfs, Faults <- FALSE

OfTwo == INSTANCE RefreshRunProofs WITH
  Sources <- 1 .. 2, Proxyless <- {}, Billed <- 1 .. 2, Enabled <- 1 .. 2,
  Authorized <- 1 .. 2, PhaseOf <- [s \in 1 .. 2 |-> 1], Phases <- 1, Parallel <- {1},
  Requests <- {{1}, {2}}, MaxUploads <- 1,
  Keys <- {}, MinAttempts <- 0, ScrapflyKeys <- {}, MinTurns <- 0,
  Mode <- "quarantine", Paid <- {1}, Verdicts <- SomeVerdicts, Places <- PerLane(1),
  MaxReviews <- PerLane(2), Threshold <- 1, Attempts <- 2,
  Confs <- AllConfs, Faults <- FALSE

OfThree == INSTANCE RefreshRunProofs WITH
  Sources <- 1 .. 3, Proxyless <- {}, Billed <- {}, Enabled <- {}, Authorized <- {},
  PhaseOf <- [s \in 1 .. 3 |-> 1], Phases <- 1, Parallel <- {1}, Requests <- {},
  MaxPerSource <- 2, Keys <- {}, MinAttempts <- 0, ScrapflyKeys <- {}, MinTurns <- 0,
  Mode <- "observe", Paid <- {1}, Verdicts <- SomeVerdicts, Places <- PerLane(1),
  MaxReviews <- PerLane(2), Threshold <- 2, Attempts <- 1,
  Confs <- AllConfs, Faults <- FALSE

OfOne == INSTANCE RefreshRunProofs WITH
  Sources <- {1}, Proxyless <- {}, Billed <- {}, Enabled <- {}, Authorized <- {},
  PhaseOf <- [s \in {1} |-> 1], Phases <- 1, Parallel <- {1}, Requests <- {},
  MaxPerSource <- 2, Keys <- {}, MinAttempts <- 0, ScrapflyKeys <- {}, MinTurns <- 0,
  Mode <- "quarantine", Paid <- {}, Verdicts <- ManyVerdicts, Places <- PerLane(1),
  MaxReviews <- PerLane(1), Threshold <- 2, Attempts <- 1,
  Confs <- AllConfs, Faults <- TRUE

\* The sources of the instances are finitely many, in the words of each of them.

LEMMA OfAnyFits ==
  /\ OfAny!IsFiniteSet(Runs) /\ OfAny!IsFiniteSet(Sources) /\ Sources \subseteq Nat
  /\ NoRun \notin Runs /\ Admin \notin Runs
  /\ Enabled \subseteq Sources /\ Authorized \subseteq Sources
  /\ Phases \in Nat \ {0} /\ Parallel \subseteq 1 .. Phases
  /\ PhaseOf \in [Sources -> 1 .. Phases]
  /\ Requests \subseteq SUBSET (Sources)
  /\ {Concurrency, MaxPerRefresh, MaxPerSource, MaxUploads} \subseteq Nat
<1>1. IsFiniteSet(Runs) /\ IsFiniteSet(Sources)
  BY RefreshAssumption
<1>2. OfAny!IsFiniteSet(Runs) /\ OfAny!IsFiniteSet(Sources)
  BY <1>1, Zenon DEF OfAny!IsFiniteSet, IsFiniteSet
<1>3. {Concurrency, MaxPerRefresh, MaxPerSource, MaxUploads} \subseteq Nat
  BY RefreshAssumption
<1> QED BY <1>2, <1>3, RefreshAssumption

LEMMA OfTwoFits ==
  /\ OfTwo!IsFiniteSet(Runs) /\ OfTwo!IsFiniteSet(1 .. 2) /\ 1 .. 2 \subseteq Nat
  /\ NoRun \notin Runs /\ Admin \notin Runs
  /\ 1 .. 2 \subseteq 1 .. 2 /\ 1 .. 2 \subseteq 1 .. 2
  /\ 1 \in Nat \ {0} /\ {1} \subseteq 1 .. 1
  /\ [s \in 1 .. 2 |-> 1] \in [1 .. 2 -> 1 .. 1]
  /\ {{1}, {2}} \subseteq SUBSET (1 .. 2)
  /\ {Concurrency, MaxPerRefresh, MaxPerSource, 1} \subseteq Nat
<1>1. IsFiniteSet(Runs) /\ IsFiniteSet(1 .. 2)
  <2>1. 1 \in Int /\ 2 \in Int
    OBVIOUS
  <2>2. IsFiniteSet(1 .. 2)
    BY <2>1, FS_Interval, Zenon
  <2> QED BY <2>2, RefreshAssumption
<1>2. OfTwo!IsFiniteSet(Runs) /\ OfTwo!IsFiniteSet(1 .. 2)
  BY <1>1, Zenon DEF OfTwo!IsFiniteSet, IsFiniteSet
<1>3. {Concurrency, MaxPerRefresh, MaxPerSource, 1} \subseteq Nat
  BY RefreshAssumption
<1> QED BY <1>2, <1>3, RefreshAssumption

LEMMA OfThreeFits ==
  /\ OfThree!IsFiniteSet(Runs) /\ OfThree!IsFiniteSet(1 .. 3) /\ 1 .. 3 \subseteq Nat
  /\ NoRun \notin Runs /\ Admin \notin Runs
  /\ {} \subseteq 1 .. 3 /\ {} \subseteq 1 .. 3
  /\ 1 \in Nat \ {0} /\ {1} \subseteq 1 .. 1
  /\ [s \in 1 .. 3 |-> 1] \in [1 .. 3 -> 1 .. 1]
  /\ {} \subseteq SUBSET (1 .. 3)
  /\ {Concurrency, MaxPerRefresh, 2, MaxUploads} \subseteq Nat
<1>1. IsFiniteSet(Runs) /\ IsFiniteSet(1 .. 3)
  <2>1. 1 \in Int /\ 3 \in Int
    OBVIOUS
  <2>2. IsFiniteSet(1 .. 3)
    BY <2>1, FS_Interval, Zenon
  <2> QED BY <2>2, RefreshAssumption
<1>2. OfThree!IsFiniteSet(Runs) /\ OfThree!IsFiniteSet(1 .. 3)
  BY <1>1, Zenon DEF OfThree!IsFiniteSet, IsFiniteSet
<1>3. {Concurrency, MaxPerRefresh, 2, MaxUploads} \subseteq Nat
  BY RefreshAssumption
<1> QED BY <1>2, <1>3, RefreshAssumption

LEMMA OfOneFits ==
  /\ OfOne!IsFiniteSet(Runs) /\ OfOne!IsFiniteSet({1}) /\ {1} \subseteq Nat
  /\ NoRun \notin Runs /\ Admin \notin Runs
  /\ {} \subseteq {1} /\ {} \subseteq {1}
  /\ 1 \in Nat \ {0} /\ {1} \subseteq 1 .. 1
  /\ [s \in {1} |-> 1] \in [{1} -> 1 .. 1]
  /\ {} \subseteq SUBSET ({1})
  /\ {Concurrency, MaxPerRefresh, 2, MaxUploads} \subseteq Nat
<1>1. IsFiniteSet(Runs) /\ IsFiniteSet({1})
  BY RefreshAssumption, FS_Singleton
<1>2. OfOne!IsFiniteSet(Runs) /\ OfOne!IsFiniteSet({1})
  BY <1>1, Zenon DEF OfOne!IsFiniteSet, IsFiniteSet
<1>3. {Concurrency, MaxPerRefresh, 2, MaxUploads} \subseteq Nat
  BY RefreshAssumption
<1> QED BY <1>2, <1>3, RefreshAssumption

\* The refresh the theorems speak of is that of the run.
LEMMA SameRefresh ==
  /\ OfAny!Init <=> Init
  /\ [OfAny!Next]_(OfAny!vars) <=> [Next]_vars
  /\ OfAny!TypeOK <=> TypeOK
  /\ OfAny!EverySourceAccounted <=> EverySourceAccounted
  /\ OfAny!SchedulesRespectSections <=> SchedulesRespectSections
  /\ OfAny!FreshIsPublished <=> FreshIsPublished
  /\ OfAny!CircuitOutlivesPhaseStep <=> CircuitOutlivesPhaseStep
<1>1. OfAny!Init <=> Init
  BY Zenon DEF
    OfAny!NewRun, OfAny!Init, NewRun, Init
<1>2. [OfAny!Next]_(OfAny!vars) <=> [Next]_vars
  BY Zenon DEF
    OfAny!Cardinality, OfAny!Min, OfAny!vars, OfAny!Becomes, OfAny!Call, OfAny!Free,
    OfAny!TryLock, OfAny!Selected, OfAny!Released, OfAny!Enter, OfAny!PreflightPasses,
    OfAny!PreflightFails, OfAny!Due, OfAny!Width, OfAny!FailedBy, OfAny!Start,
    OfAny!MayFallBack, OfAny!Fallback, OfAny!End, OfAny!Raise, OfAny!Merged, OfAny!PhaseOver,
    OfAny!NextPhase, OfAny!Terminal, OfAny!Record, OfAny!LastPhaseEnds, OfAny!PhaseFails,
    OfAny!Review, OfAny!Return, OfAny!Upload, OfAny!Work, OfAny!Next, Cardinality, Min, vars,
    Becomes, Call, Free, TryLock, Selected, Released, Enter, PreflightPasses, PreflightFails,
    Due, Width, FailedBy, Start, MayFallBack, Fallback, End, Raise, Merged, PhaseOver,
    NextPhase, Terminal, Record, LastPhaseEnds, PhaseFails, Review, Return, Upload, Work, Next
<1>3. OfAny!TypeOK <=> TypeOK
  BY Zenon DEF
    OfAny!Outcomes, OfAny!Steps, OfAny!RunStates, OfAny!TypeOK, Outcomes, Steps, RunStates,
    TypeOK
<1>4. OfAny!EverySourceAccounted <=> EverySourceAccounted
  BY Zenon DEF
    OfAny!Wanted, OfAny!EverySourceAccounted, Wanted, EverySourceAccounted
<1>5. OfAny!SchedulesRespectSections <=> SchedulesRespectSections
  BY Zenon DEF
    OfAny!SchedulesRespectSections, SchedulesRespectSections
<1>6. OfAny!FreshIsPublished <=> FreshIsPublished
  BY Zenon DEF
    OfAny!FreshIsPublished, FreshIsPublished
<1>7. OfAny!CircuitOutlivesPhaseStep <=> CircuitOutlivesPhaseStep
  BY Zenon DEF
    OfAny!CircuitOutlivesPhaseStep, CircuitOutlivesPhaseStep
<1> QED BY <1>1, <1>2, <1>3, <1>4, <1>5, <1>6, <1>7

\* So is the refresh that pays for fallbacks.
LEMMA SamePaid ==
  /\ OfTwo!Init <=> PaidCalls!Init
  /\ [OfTwo!Next]_(OfTwo!vars) <=> [PaidCalls!Next]_(PaidCalls!vars)
  /\ OfTwo!EverySourceAccounted <=> PaidCalls!EverySourceAccounted
  /\ OfTwo!FreshIsPublished <=> PaidCalls!FreshIsPublished
  /\ OfTwo!SpendBounded <=> PaidCalls!SpendBounded
<1>1. OfTwo!Init <=> PaidCalls!Init
  BY Zenon DEF
    OfTwo!NewRun, OfTwo!Init, PaidCalls!NewRun, PaidCalls!Init
<1>2. [OfTwo!Next]_(OfTwo!vars) <=> [PaidCalls!Next]_(PaidCalls!vars)
  BY Zenon DEF
    OfTwo!Cardinality, OfTwo!Min, OfTwo!vars, OfTwo!Becomes, OfTwo!Call, OfTwo!Free,
    OfTwo!TryLock, OfTwo!Selected, OfTwo!Released, OfTwo!Enter, OfTwo!PreflightPasses,
    OfTwo!PreflightFails, OfTwo!Due, OfTwo!Width, OfTwo!FailedBy, OfTwo!Start,
    OfTwo!MayFallBack, OfTwo!Fallback, OfTwo!End, OfTwo!Raise, OfTwo!Merged, OfTwo!PhaseOver,
    OfTwo!NextPhase, OfTwo!Terminal, OfTwo!Record, OfTwo!LastPhaseEnds, OfTwo!PhaseFails,
    OfTwo!Review, OfTwo!Return, OfTwo!Upload, OfTwo!Work, OfTwo!Next, PaidCalls!Cardinality,
    PaidCalls!Min, PaidCalls!vars, PaidCalls!Becomes, PaidCalls!Call, PaidCalls!Free, PaidCalls!TryLock, PaidCalls!Selected,
    PaidCalls!Released, PaidCalls!Enter, PaidCalls!PreflightPasses, PaidCalls!PreflightFails, PaidCalls!Due,
    PaidCalls!Width, PaidCalls!FailedBy, PaidCalls!Start, PaidCalls!MayFallBack, PaidCalls!Fallback, PaidCalls!End,
    PaidCalls!Raise, PaidCalls!Merged, PaidCalls!PhaseOver, PaidCalls!NextPhase, PaidCalls!Terminal, PaidCalls!Record,
    PaidCalls!LastPhaseEnds, PaidCalls!PhaseFails, PaidCalls!Review, PaidCalls!Return, PaidCalls!Upload, PaidCalls!Work,
    PaidCalls!Next
<1>3. OfTwo!EverySourceAccounted <=> PaidCalls!EverySourceAccounted
  BY Zenon DEF
    OfTwo!Wanted, OfTwo!EverySourceAccounted, PaidCalls!Wanted, PaidCalls!EverySourceAccounted
<1>4. OfTwo!FreshIsPublished <=> PaidCalls!FreshIsPublished
  BY Zenon DEF
    OfTwo!FreshIsPublished, PaidCalls!FreshIsPublished
<1>5. OfTwo!SpendBounded <=> PaidCalls!SpendBounded
  BY Zenon DEF
    OfTwo!Cardinality, OfTwo!Begun, OfTwo!Payments, OfTwo!SpendBounded, PaidCalls!Cardinality,
    PaidCalls!Begun, PaidCalls!Payments, PaidCalls!SpendBounded
<1> QED BY <1>1, <1>2, <1>3, <1>4, <1>5

\* So is the fetch whose statuses can be written.
LEMMA SameRoute ==
  /\ OfThree!Route!Init <=> Route!Init
  /\ [OfThree!Route!Next]_(OfThree!Route!vars) <=> [Route!Next]_(Route!vars)
  /\ OfThree!Route!TypeOK <=> Route!TypeOK
  /\ OfThree!Route!OnlyPassedIsSaved <=> Route!OnlyPassedIsSaved
  /\ OfThree!Route!ShadowEnds <=> Route!ShadowEnds
  /\ OfThree!Route!PublishedIsReported <=> Route!PublishedIsReported
  /\ OfThree!Route!OneFallback <=> Route!OneFallback
  /\ OfThree!Route!RefusedStaysRefused <=> Route!RefusedStaysRefused
  /\ OfThree!Route!ConfirmationIsFree <=> Route!ConfirmationIsFree
  /\ OfThree!Route!RetryIsCleanStep <=> Route!RetryIsCleanStep
<1>1. OfThree!Route!Init <=> Route!Init
  BY Zenon DEF
    OfThree!Route!Nothing, OfThree!Route!Init, Route!Nothing, Route!Init
<1>2. [OfThree!Route!Next]_(OfThree!Route!vars) <=> [Route!Next]_(Route!vars)
  BY Zenon DEF
    OfThree!Route!vars, OfThree!Route!Nothing, OfThree!Route!Retry, OfThree!Route!Reported,
    OfThree!Route!Finish, OfThree!Route!Keep, OfThree!Route!Raise, OfThree!Route!RaiseIn,
    OfThree!Route!Ends, OfThree!Route!Count, OfThree!Route!CascadeAllowed,
    OfThree!Route!Failure, OfThree!Route!NextRoute, OfThree!Route!FallBack,
    OfThree!Route!Readable, OfThree!Route!Begin, OfThree!Route!ChooseRoute,
    OfThree!Route!Passes, OfThree!Route!Verdicts, OfThree!Route!CascadeEnds,
    OfThree!Route!CascadeNothing, OfThree!Route!CascadeWrites, OfThree!Route!Cascade,
    OfThree!Route!CascadeReport, OfThree!Route!ShadowAwaited, OfThree!Route!ShadowPays,
    OfThree!Route!ShadowedPrimary, OfThree!Route!StartOver, OfThree!Route!MayRelogin,
    OfThree!Route!ApiAnswer, OfThree!Route!ApiMissing, OfThree!Route!ApiRejected,
    OfThree!Route!BrowserAllowed, OfThree!Route!ApiRaises, OfThree!Route!ApiFails,
    OfThree!Route!Resume, OfThree!Route!ApiReport, OfThree!Route!AllowsPaidFallback,
    OfThree!Route!PageFails, OfThree!Route!PageBegins, OfThree!Route!PageAnswers,
    OfThree!Route!UnixAnswers, OfThree!Route!PageJudged, OfThree!Route!PageReport,
    OfThree!Route!Cancel, OfThree!Route!Next, Route!vars, Route!Nothing, Route!Retry,
    Route!Reported, Route!Finish, Route!Keep, Route!Raise, Route!RaiseIn, Route!Ends,
    Route!Count, Route!CascadeAllowed, Route!Failure, Route!NextRoute, Route!FallBack,
    Route!Readable, Route!Begin, Route!ChooseRoute, Route!Passes, Route!Verdicts,
    Route!CascadeEnds, Route!CascadeNothing, Route!CascadeWrites, Route!Cascade,
    Route!CascadeReport, Route!ShadowAwaited, Route!ShadowPays, Route!ShadowedPrimary,
    Route!StartOver, Route!MayRelogin, Route!ApiAnswer, Route!ApiMissing, Route!ApiRejected,
    Route!BrowserAllowed, Route!ApiRaises, Route!ApiFails, Route!Resume, Route!ApiReport,
    Route!AllowsPaidFallback, Route!PageFails, Route!PageBegins, Route!PageAnswers,
    Route!UnixAnswers, Route!PageJudged, Route!PageReport, Route!Cancel, Route!Next
<1>3. OfThree!Route!TypeOK <=> Route!TypeOK
  BY Zenon DEF
    OfThree!Route!Routes, OfThree!Route!Ended, OfThree!Route!TypeOK, Route!Routes,
    Route!Ended, Route!TypeOK
<1>4. OfThree!Route!OnlyPassedIsSaved <=> Route!OnlyPassedIsSaved
  BY Zenon DEF
    OfThree!Route!OnlyPassedIsSaved, Route!OnlyPassedIsSaved
<1>5. OfThree!Route!ShadowEnds <=> Route!ShadowEnds
  BY Zenon DEF
    OfThree!Route!Ended, OfThree!Route!ShadowEnds, Route!Ended, Route!ShadowEnds
<1>6. OfThree!Route!PublishedIsReported <=> Route!PublishedIsReported
  BY Zenon DEF
    OfThree!Route!PublishedIsReported, Route!PublishedIsReported
<1>7. OfThree!Route!OneFallback <=> Route!OneFallback
  BY Zenon DEF
    OfThree!Route!OneFallback, Route!OneFallback
<1>8. OfThree!Route!RefusedStaysRefused <=> Route!RefusedStaysRefused
  BY Zenon DEF
    OfThree!Route!RefusedStaysRefused, Route!RefusedStaysRefused
<1>9. OfThree!Route!ConfirmationIsFree <=> Route!ConfirmationIsFree
  BY Zenon DEF
    OfThree!Route!ConfirmationIsFree, Route!ConfirmationIsFree
<1>10. OfThree!Route!RetryIsCleanStep <=> Route!RetryIsCleanStep
  BY Zenon DEF
    OfThree!Route!RetryIsCleanStep, Route!RetryIsCleanStep
<1> QED BY <1>1, <1>2, <1>3, <1>4, <1>5, <1>6, <1>7, <1>8, <1>9, <1>10

\* So is the fetch whose statuses may be impossible to write.
LEMMA SameFaulty ==
  /\ OfOne!Route!Init <=> Faulty!Init
  /\ [OfOne!Route!Next]_(OfOne!Route!vars) <=> [Faulty!Next]_(Faulty!vars)
  /\ OfOne!Route!PublishedIsReported <=> Faulty!PublishedIsReported
  /\ OfOne!Route!StandardAlwaysReports <=> Faulty!StandardAlwaysReports
  /\ OfOne!Route!OneFallback <=> Faulty!OneFallback
  /\ OfOne!Route!RefusedStaysRefused <=> Faulty!RefusedStaysRefused
<1>1. OfOne!Route!Init <=> Faulty!Init
  BY Zenon DEF
    OfOne!Route!Nothing, OfOne!Route!Init, Faulty!Nothing, Faulty!Init
<1>2. [OfOne!Route!Next]_(OfOne!Route!vars) <=> [Faulty!Next]_(Faulty!vars)
  BY Zenon DEF
    OfOne!Route!vars, OfOne!Route!Nothing, OfOne!Route!Retry, OfOne!Route!Reported,
    OfOne!Route!Finish, OfOne!Route!Keep, OfOne!Route!Raise, OfOne!Route!RaiseIn,
    OfOne!Route!Ends, OfOne!Route!Count, OfOne!Route!CascadeAllowed, OfOne!Route!Failure,
    OfOne!Route!NextRoute, OfOne!Route!FallBack, OfOne!Route!Readable, OfOne!Route!Begin,
    OfOne!Route!ChooseRoute, OfOne!Route!Passes, OfOne!Route!Verdicts,
    OfOne!Route!CascadeEnds, OfOne!Route!CascadeNothing, OfOne!Route!CascadeWrites,
    OfOne!Route!Cascade, OfOne!Route!CascadeReport, OfOne!Route!ShadowAwaited,
    OfOne!Route!ShadowPays, OfOne!Route!ShadowedPrimary, OfOne!Route!StartOver,
    OfOne!Route!MayRelogin, OfOne!Route!ApiAnswer, OfOne!Route!ApiMissing,
    OfOne!Route!ApiRejected, OfOne!Route!BrowserAllowed, OfOne!Route!ApiRaises,
    OfOne!Route!ApiFails, OfOne!Route!Resume, OfOne!Route!ApiReport,
    OfOne!Route!AllowsPaidFallback, OfOne!Route!PageFails, OfOne!Route!PageBegins,
    OfOne!Route!PageAnswers, OfOne!Route!UnixAnswers, OfOne!Route!PageJudged,
    OfOne!Route!PageReport, OfOne!Route!Cancel, OfOne!Route!Next, Faulty!vars,
    Faulty!Nothing, Faulty!Retry, Faulty!Reported, Faulty!Finish, Faulty!Keep, Faulty!Raise,
    Faulty!RaiseIn, Faulty!Ends, Faulty!Count, Faulty!CascadeAllowed, Faulty!Failure,
    Faulty!NextRoute, Faulty!FallBack, Faulty!Readable, Faulty!Begin, Faulty!ChooseRoute,
    Faulty!Passes, Faulty!Verdicts, Faulty!CascadeEnds, Faulty!CascadeNothing,
    Faulty!CascadeWrites, Faulty!Cascade, Faulty!CascadeReport, Faulty!ShadowAwaited,
    Faulty!ShadowPays, Faulty!ShadowedPrimary, Faulty!StartOver, Faulty!MayRelogin,
    Faulty!ApiAnswer, Faulty!ApiMissing, Faulty!ApiRejected, Faulty!BrowserAllowed,
    Faulty!ApiRaises, Faulty!ApiFails, Faulty!Resume, Faulty!ApiReport,
    Faulty!AllowsPaidFallback, Faulty!PageFails, Faulty!PageBegins, Faulty!PageAnswers,
    Faulty!UnixAnswers, Faulty!PageJudged, Faulty!PageReport, Faulty!Cancel, Faulty!Next
<1>3. OfOne!Route!PublishedIsReported <=> Faulty!PublishedIsReported
  BY Zenon DEF
    OfOne!Route!PublishedIsReported, Faulty!PublishedIsReported
<1>4. OfOne!Route!StandardAlwaysReports <=> Faulty!StandardAlwaysReports
  BY Zenon DEF
    OfOne!Route!StandardAlwaysReports, Faulty!StandardAlwaysReports
<1>5. OfOne!Route!OneFallback <=> Faulty!OneFallback
  BY Zenon DEF
    OfOne!Route!OneFallback, Faulty!OneFallback
<1>6. OfOne!Route!RefusedStaysRefused <=> Faulty!RefusedStaysRefused
  BY Zenon DEF
    OfOne!Route!RefusedStaysRefused, Faulty!RefusedStaysRefused
<1> QED BY <1>1, <1>2, <1>3, <1>4, <1>5, <1>6

\* So is the cascade.
LEMMA SameCascade ==
  /\ OfAny!Cascade!Init <=> Cascade!Init
  /\ [OfAny!Cascade!Next]_(OfAny!Cascade!vars) <=> [Cascade!Next]_(Cascade!vars)
  /\ OfAny!Cascade!TypeOK <=> Cascade!TypeOK
  /\ OfAny!Cascade!EveryProviderIsAsked <=> Cascade!EveryProviderIsAsked
  /\ OfAny!Cascade!CostOfAPage <=> Cascade!CostOfAPage
  /\ OfAny!Cascade!BrightDataIsAResort <=> Cascade!BrightDataIsAResort
  /\ OfAny!Cascade!AccountIsRespectedStep <=> Cascade!AccountIsRespectedStep
<1>1. OfAny!Cascade!Init <=> Cascade!Init
  BY Zenon DEF
    OfAny!Cascade!Order, OfAny!Cascade!Providers, OfAny!Cascade!FirstProfile,
    OfAny!Cascade!Init, Cascade!Order, Cascade!Providers, Cascade!FirstProfile, Cascade!Init
<1>2. [OfAny!Cascade!Next]_(OfAny!Cascade!vars) <=> [Cascade!Next]_(Cascade!vars)
  BY Zenon DEF
    OfAny!Cascade!Cardinality, OfAny!Cascade!Order, OfAny!Cascade!vars,
    OfAny!Cascade!FirstProfile, OfAny!Cascade!Turn, OfAny!Cascade!Paid,
    OfAny!Cascade!Advance, OfAny!Cascade!Stay, OfAny!Cascade!Fails, OfAny!Cascade!Answers,
    OfAny!Cascade!NextProfile, OfAny!Cascade!Skip, OfAny!Cascade!AccountFails,
    OfAny!Cascade!TransientFails, OfAny!Cascade!ScrapeDo, OfAny!Cascade!AtLeast,
    OfAny!Cascade!Limit, OfAny!Cascade!ScrapflyLimit, OfAny!Cascade!Firecrawl,
    OfAny!Cascade!BrightData, OfAny!Cascade!TurnKey, OfAny!Cascade!Scrapfly,
    OfAny!Cascade!GiveUp, OfAny!Cascade!Next, Cascade!Cardinality, Cascade!Order,
    Cascade!vars, Cascade!FirstProfile, Cascade!Turn, Cascade!Paid, Cascade!Advance,
    Cascade!Stay, Cascade!Fails, Cascade!Answers, Cascade!NextProfile, Cascade!Skip,
    Cascade!AccountFails, Cascade!TransientFails, Cascade!ScrapeDo, Cascade!AtLeast,
    Cascade!Limit, Cascade!ScrapflyLimit, Cascade!Firecrawl, Cascade!BrightData,
    Cascade!TurnKey, Cascade!Scrapfly, Cascade!GiveUp, Cascade!Next
<1>3. OfAny!Cascade!TypeOK <=> Cascade!TypeOK
  BY Zenon DEF
    OfAny!Cascade!Order, OfAny!Cascade!Providers, OfAny!Cascade!TypeOK, Cascade!Order,
    Cascade!Providers, Cascade!TypeOK
<1>4. OfAny!Cascade!EveryProviderIsAsked <=> Cascade!EveryProviderIsAsked
  BY Zenon DEF
    OfAny!Cascade!EveryProviderIsAsked, Cascade!EveryProviderIsAsked
<1>5. OfAny!Cascade!CostOfAPage <=> Cascade!CostOfAPage
  BY Zenon DEF
    OfAny!Cascade!Cardinality, OfAny!Cascade!AtLeast, OfAny!Cascade!Limit,
    OfAny!Cascade!ScrapflyLimit, OfAny!Cascade!Profiles, OfAny!Cascade!CostOfAPage,
    Cascade!Cardinality, Cascade!AtLeast, Cascade!Limit, Cascade!ScrapflyLimit,
    Cascade!Profiles, Cascade!CostOfAPage
<1>6. OfAny!Cascade!BrightDataIsAResort <=> Cascade!BrightDataIsAResort
  BY Zenon DEF
    OfAny!Cascade!BrightDataIsAResort, Cascade!BrightDataIsAResort
<1>7. OfAny!Cascade!AccountIsRespectedStep <=> Cascade!AccountIsRespectedStep
  BY Zenon DEF
    OfAny!Cascade!AccountIsRespectedStep, Cascade!AccountIsRespectedStep
<1> QED BY <1>1, <1>2, <1>3, <1>4, <1>5, <1>6, <1>7

\* So are the reviews in quarantine mode.
LEMMA SameQuarantining ==
  /\ OfTwo!Reviews!Init <=> Quarantining!Init
  /\ [OfTwo!Reviews!Next]_(OfTwo!Reviews!vars) <=> [Quarantining!Next]_(Quarantining!vars)
  /\ OfTwo!Reviews!TypeOK <=> Quarantining!TypeOK
  /\ OfTwo!Reviews!RejectionIsBacked <=> Quarantining!RejectionIsBacked
  /\ OfTwo!Reviews!ReviewsBelong <=> Quarantining!ReviewsBelong
  /\ OfTwo!Reviews!FailuresAreDiagnosed <=> Quarantining!FailuresAreDiagnosed
  /\ OfTwo!Reviews!LanesAreBounded <=> Quarantining!LanesAreBounded
  /\ OfTwo!Reviews!CircuitHoldsStep <=> Quarantining!CircuitHoldsStep
<1>1. OfTwo!Reviews!Init <=> Quarantining!Init
  BY Zenon DEF
    OfTwo!Reviews!Lanes, OfTwo!Reviews!NoAnswer, OfTwo!Reviews!NoJob, OfTwo!Reviews!Init,
    Quarantining!Lanes, Quarantining!NoAnswer, Quarantining!NoJob, Quarantining!Init
<1>2. [OfTwo!Reviews!Next]_(OfTwo!Reviews!vars) <=> [Quarantining!Next]_(Quarantining!vars)
  BY Zenon DEF
    OfTwo!Reviews!Cardinality, OfTwo!Reviews!vars, OfTwo!Reviews!Checks,
    OfTwo!Reviews!CheckOf, OfTwo!Reviews!Actionable, OfTwo!Reviews!NoAnswer,
    OfTwo!Reviews!Telling, OfTwo!Reviews!NoJob, OfTwo!Reviews!QueuedJob, OfTwo!Reviews!Ended,
    OfTwo!Reviews!Jobs, OfTwo!Reviews!Contradicts, OfTwo!Reviews!Signal,
    OfTwo!Reviews!Normalized, OfTwo!Reviews!ShouldQuarantine, OfTwo!Reviews!Unreviewed,
    OfTwo!Reviews!Enqueued, OfTwo!Reviews!End, OfTwo!Reviews!Reject,
    OfTwo!Reviews!CandidateRejected, OfTwo!Reviews!CandidatePasses,
    OfTwo!Reviews!FallbackFails, OfTwo!Reviews!FetchFails, OfTwo!Reviews!Decide,
    OfTwo!Reviews!RefreshFails, OfTwo!Reviews!Diagnosable, OfTwo!Reviews!Flush,
    OfTwo!Reviews!ReviewVars, OfTwo!Reviews!Set, OfTwo!Reviews!Over, OfTwo!Reviews!Full,
    OfTwo!Reviews!Failure, OfTwo!Reviews!NoFailure, OfTwo!Reviews!Begun,
    OfTwo!Reviews!MayBegin, OfTwo!Reviews!NotSent, OfTwo!Reviews!Attempt,
    OfTwo!Reviews!InFlight, OfTwo!Reviews!Ask, OfTwo!Reviews!Expire, OfTwo!Reviews!Answered,
    OfTwo!Reviews!Answer, OfTwo!Reviews!Diagnose, OfTwo!Reviews!AnswerFails,
    OfTwo!Reviews!Resume, OfTwo!Reviews!Attach, OfTwo!Reviews!Next, Quarantining!Cardinality,
    Quarantining!vars, Quarantining!Checks, Quarantining!CheckOf, Quarantining!Actionable,
    Quarantining!NoAnswer, Quarantining!Telling, Quarantining!NoJob, Quarantining!QueuedJob,
    Quarantining!Ended, Quarantining!Jobs, Quarantining!Contradicts, Quarantining!Signal,
    Quarantining!Normalized, Quarantining!ShouldQuarantine, Quarantining!Unreviewed,
    Quarantining!Enqueued, Quarantining!End, Quarantining!Reject,
    Quarantining!CandidateRejected, Quarantining!CandidatePasses, Quarantining!FallbackFails,
    Quarantining!FetchFails, Quarantining!Decide, Quarantining!RefreshFails,
    Quarantining!Diagnosable, Quarantining!Flush, Quarantining!ReviewVars, Quarantining!Set,
    Quarantining!Over, Quarantining!Full, Quarantining!Failure, Quarantining!NoFailure,
    Quarantining!Begun, Quarantining!MayBegin, Quarantining!NotSent, Quarantining!Attempt,
    Quarantining!InFlight, Quarantining!Ask, Quarantining!Expire, Quarantining!Answered,
    Quarantining!Answer, Quarantining!Diagnose, Quarantining!AnswerFails,
    Quarantining!Resume, Quarantining!Attach, Quarantining!Next
<1>3. OfTwo!Reviews!TypeOK <=> Quarantining!TypeOK
  BY Zenon DEF
    OfTwo!Reviews!Lanes, OfTwo!Reviews!Ended, OfTwo!Reviews!TypeOK, Quarantining!Lanes,
    Quarantining!Ended, Quarantining!TypeOK
<1>4. OfTwo!Reviews!RejectionIsBacked <=> Quarantining!RejectionIsBacked
  BY Zenon DEF
    OfTwo!Reviews!CheckOf, OfTwo!Reviews!Actionable, OfTwo!Reviews!RejectionIsBacked,
    Quarantining!CheckOf, Quarantining!Actionable, Quarantining!RejectionIsBacked
<1>5. OfTwo!Reviews!ReviewsBelong <=> Quarantining!ReviewsBelong
  BY Zenon DEF
    OfTwo!Reviews!Checks, OfTwo!Reviews!NoAnswer, OfTwo!Reviews!Ended,
    OfTwo!Reviews!ShouldQuarantine, OfTwo!Reviews!ReviewsBelong, Quarantining!Checks,
    Quarantining!NoAnswer, Quarantining!Ended, Quarantining!ShouldQuarantine,
    Quarantining!ReviewsBelong
<1>6. OfTwo!Reviews!FailuresAreDiagnosed <=> Quarantining!FailuresAreDiagnosed
  BY Zenon DEF
    OfTwo!Reviews!Cardinality, OfTwo!Reviews!Jobs, OfTwo!Reviews!Diagnosable,
    OfTwo!Reviews!FailuresAreDiagnosed, Quarantining!Cardinality, Quarantining!Jobs,
    Quarantining!Diagnosable, Quarantining!FailuresAreDiagnosed
<1>7. OfTwo!Reviews!LanesAreBounded <=> Quarantining!LanesAreBounded
  BY Zenon DEF
    OfTwo!Reviews!Cardinality, OfTwo!Reviews!Lanes, OfTwo!Reviews!Jobs,
    OfTwo!Reviews!InFlight, OfTwo!Reviews!LanesAreBounded, Quarantining!Cardinality,
    Quarantining!Lanes, Quarantining!Jobs, Quarantining!InFlight, Quarantining!LanesAreBounded
<1>8. OfTwo!Reviews!CircuitHoldsStep <=> Quarantining!CircuitHoldsStep
  BY Zenon DEF
    OfTwo!Reviews!CircuitHoldsStep, Quarantining!CircuitHoldsStep
<1> QED BY <1>1, <1>2, <1>3, <1>4, <1>5, <1>6, <1>7, <1>8

\* So are those in observe mode.
LEMMA SameObserving ==
  /\ OfThree!Reviews!Init <=> Observing!Init
  /\ [OfThree!Reviews!Next]_(OfThree!Reviews!vars) <=> [Observing!Next]_(Observing!vars)
  /\ OfThree!Reviews!ReviewsBelong <=> Observing!ReviewsBelong
  /\ OfThree!Reviews!FailuresAreDiagnosed <=> Observing!FailuresAreDiagnosed
  /\ OfThree!Reviews!LanesAreBounded <=> Observing!LanesAreBounded
<1>1. OfThree!Reviews!Init <=> Observing!Init
  BY Zenon DEF
    OfThree!Reviews!Lanes, OfThree!Reviews!NoAnswer, OfThree!Reviews!NoJob,
    OfThree!Reviews!Init, Observing!Lanes, Observing!NoAnswer, Observing!NoJob, Observing!Init
<1>2. [OfThree!Reviews!Next]_(OfThree!Reviews!vars) <=> [Observing!Next]_(Observing!vars)
  BY Zenon DEF
    OfThree!Reviews!Cardinality, OfThree!Reviews!vars, OfThree!Reviews!Checks,
    OfThree!Reviews!CheckOf, OfThree!Reviews!Actionable, OfThree!Reviews!NoAnswer,
    OfThree!Reviews!Telling, OfThree!Reviews!NoJob, OfThree!Reviews!QueuedJob,
    OfThree!Reviews!Ended, OfThree!Reviews!Jobs, OfThree!Reviews!Contradicts,
    OfThree!Reviews!Signal, OfThree!Reviews!Normalized, OfThree!Reviews!ShouldQuarantine,
    OfThree!Reviews!Unreviewed, OfThree!Reviews!Enqueued, OfThree!Reviews!End,
    OfThree!Reviews!Reject, OfThree!Reviews!CandidateRejected,
    OfThree!Reviews!CandidatePasses, OfThree!Reviews!FallbackFails,
    OfThree!Reviews!FetchFails, OfThree!Reviews!Decide, OfThree!Reviews!RefreshFails,
    OfThree!Reviews!Diagnosable, OfThree!Reviews!Flush, OfThree!Reviews!ReviewVars,
    OfThree!Reviews!Set, OfThree!Reviews!Over, OfThree!Reviews!Full, OfThree!Reviews!Failure,
    OfThree!Reviews!NoFailure, OfThree!Reviews!Begun, OfThree!Reviews!MayBegin,
    OfThree!Reviews!NotSent, OfThree!Reviews!Attempt, OfThree!Reviews!InFlight,
    OfThree!Reviews!Ask, OfThree!Reviews!Expire, OfThree!Reviews!Answered,
    OfThree!Reviews!Answer, OfThree!Reviews!Diagnose, OfThree!Reviews!AnswerFails,
    OfThree!Reviews!Resume, OfThree!Reviews!Attach, OfThree!Reviews!Next,
    Observing!Cardinality, Observing!vars, Observing!Checks, Observing!CheckOf,
    Observing!Actionable, Observing!NoAnswer, Observing!Telling, Observing!NoJob,
    Observing!QueuedJob, Observing!Ended, Observing!Jobs, Observing!Contradicts,
    Observing!Signal, Observing!Normalized, Observing!ShouldQuarantine, Observing!Unreviewed,
    Observing!Enqueued, Observing!End, Observing!Reject, Observing!CandidateRejected,
    Observing!CandidatePasses, Observing!FallbackFails, Observing!FetchFails,
    Observing!Decide, Observing!RefreshFails, Observing!Diagnosable, Observing!Flush,
    Observing!ReviewVars, Observing!Set, Observing!Over, Observing!Full, Observing!Failure,
    Observing!NoFailure, Observing!Begun, Observing!MayBegin, Observing!NotSent,
    Observing!Attempt, Observing!InFlight, Observing!Ask, Observing!Expire,
    Observing!Answered, Observing!Answer, Observing!Diagnose, Observing!AnswerFails,
    Observing!Resume, Observing!Attach, Observing!Next
<1>3. OfThree!Reviews!ReviewsBelong <=> Observing!ReviewsBelong
  BY Zenon DEF
    OfThree!Reviews!Checks, OfThree!Reviews!NoAnswer, OfThree!Reviews!Ended,
    OfThree!Reviews!ShouldQuarantine, OfThree!Reviews!ReviewsBelong, Observing!Checks,
    Observing!NoAnswer, Observing!Ended, Observing!ShouldQuarantine, Observing!ReviewsBelong
<1>4. OfThree!Reviews!FailuresAreDiagnosed <=> Observing!FailuresAreDiagnosed
  BY Zenon DEF
    OfThree!Reviews!Cardinality, OfThree!Reviews!Jobs, OfThree!Reviews!Diagnosable,
    OfThree!Reviews!FailuresAreDiagnosed, Observing!Cardinality, Observing!Jobs,
    Observing!Diagnosable, Observing!FailuresAreDiagnosed
<1>5. OfThree!Reviews!LanesAreBounded <=> Observing!LanesAreBounded
  BY Zenon DEF
    OfThree!Reviews!Cardinality, OfThree!Reviews!Lanes, OfThree!Reviews!Jobs,
    OfThree!Reviews!InFlight, OfThree!Reviews!LanesAreBounded, Observing!Cardinality,
    Observing!Lanes, Observing!Jobs, Observing!InFlight, Observing!LanesAreBounded
<1> QED BY <1>1, <1>2, <1>3, <1>4, <1>5

\* So are those of one source with every verdict.
LEMMA SameJudging ==
  /\ OfOne!Reviews!Init <=> Judging!Init
  /\ [OfOne!Reviews!Next]_(OfOne!Reviews!vars) <=> [Judging!Next]_(Judging!vars)
  /\ OfOne!Reviews!RejectionIsBacked <=> Judging!RejectionIsBacked
  /\ OfOne!Reviews!ReviewsBelong <=> Judging!ReviewsBelong
<1>1. OfOne!Reviews!Init <=> Judging!Init
  BY Zenon DEF
    OfOne!Reviews!Lanes, OfOne!Reviews!NoAnswer, OfOne!Reviews!NoJob, OfOne!Reviews!Init,
    Judging!Lanes, Judging!NoAnswer, Judging!NoJob, Judging!Init
<1>2. [OfOne!Reviews!Next]_(OfOne!Reviews!vars) <=> [Judging!Next]_(Judging!vars)
  BY Zenon DEF
    OfOne!Reviews!Cardinality, OfOne!Reviews!vars, OfOne!Reviews!Checks,
    OfOne!Reviews!CheckOf, OfOne!Reviews!Actionable, OfOne!Reviews!NoAnswer,
    OfOne!Reviews!Telling, OfOne!Reviews!NoJob, OfOne!Reviews!QueuedJob, OfOne!Reviews!Ended,
    OfOne!Reviews!Jobs, OfOne!Reviews!Contradicts, OfOne!Reviews!Signal,
    OfOne!Reviews!Normalized, OfOne!Reviews!ShouldQuarantine, OfOne!Reviews!Unreviewed,
    OfOne!Reviews!Enqueued, OfOne!Reviews!End, OfOne!Reviews!Reject,
    OfOne!Reviews!CandidateRejected, OfOne!Reviews!CandidatePasses,
    OfOne!Reviews!FallbackFails, OfOne!Reviews!FetchFails, OfOne!Reviews!Decide,
    OfOne!Reviews!RefreshFails, OfOne!Reviews!Diagnosable, OfOne!Reviews!Flush,
    OfOne!Reviews!ReviewVars, OfOne!Reviews!Set, OfOne!Reviews!Over, OfOne!Reviews!Full,
    OfOne!Reviews!Failure, OfOne!Reviews!NoFailure, OfOne!Reviews!Begun,
    OfOne!Reviews!MayBegin, OfOne!Reviews!NotSent, OfOne!Reviews!Attempt,
    OfOne!Reviews!InFlight, OfOne!Reviews!Ask, OfOne!Reviews!Expire, OfOne!Reviews!Answered,
    OfOne!Reviews!Answer, OfOne!Reviews!Diagnose, OfOne!Reviews!AnswerFails,
    OfOne!Reviews!Resume, OfOne!Reviews!Attach, OfOne!Reviews!Next, Judging!Cardinality,
    Judging!vars, Judging!Checks, Judging!CheckOf, Judging!Actionable, Judging!NoAnswer,
    Judging!Telling, Judging!NoJob, Judging!QueuedJob, Judging!Ended, Judging!Jobs,
    Judging!Contradicts, Judging!Signal, Judging!Normalized, Judging!ShouldQuarantine,
    Judging!Unreviewed, Judging!Enqueued, Judging!End, Judging!Reject,
    Judging!CandidateRejected, Judging!CandidatePasses, Judging!FallbackFails,
    Judging!FetchFails, Judging!Decide, Judging!RefreshFails, Judging!Diagnosable,
    Judging!Flush, Judging!ReviewVars, Judging!Set, Judging!Over, Judging!Full,
    Judging!Failure, Judging!NoFailure, Judging!Begun, Judging!MayBegin, Judging!NotSent,
    Judging!Attempt, Judging!InFlight, Judging!Ask, Judging!Expire, Judging!Answered,
    Judging!Answer, Judging!Diagnose, Judging!AnswerFails, Judging!Resume, Judging!Attach,
    Judging!Next
<1>3. OfOne!Reviews!RejectionIsBacked <=> Judging!RejectionIsBacked
  BY Zenon DEF
    OfOne!Reviews!CheckOf, OfOne!Reviews!Actionable, OfOne!Reviews!RejectionIsBacked,
    Judging!CheckOf, Judging!Actionable, Judging!RejectionIsBacked
<1>4. OfOne!Reviews!ReviewsBelong <=> Judging!ReviewsBelong
  BY Zenon DEF
    OfOne!Reviews!Checks, OfOne!Reviews!NoAnswer, OfOne!Reviews!Ended,
    OfOne!Reviews!ShouldQuarantine, OfOne!Reviews!ReviewsBelong, Judging!Checks,
    Judging!NoAnswer, Judging!Ended, Judging!ShouldQuarantine, Judging!ReviewsBelong
<1> QED BY <1>1, <1>2, <1>3, <1>4

\* The constants of the instances are such as the theorems assume.
LEMMA InstancesFit ==
  /\ OfThree!Route!FetchAssumption /\ OfOne!Route!FetchAssumption
  /\ OfAny!Cascade!CascadeAssumption
  /\ OfTwo!Reviews!ReviewAssumption /\ OfThree!Reviews!ReviewAssumption
  /\ OfOne!Reviews!ReviewAssumption
<1>1. /\ Route!FetchAssumption /\ Faulty!FetchAssumption /\ Cascade!CascadeAssumption
      /\ Quarantining!ReviewAssumption /\ Observing!ReviewAssumption /\ Judging!ReviewAssumption
  BY FetchingAssumption DEF FetchingAssumption
<1>2. OfThree!Route!FetchAssumption
  BY <1>1, Zenon DEF Route!FetchAssumption, OfThree!Route!FetchAssumption,
     Route!ConfType, OfThree!Route!ConfType
<1>3. OfOne!Route!FetchAssumption
  BY <1>1, Zenon DEF Faulty!FetchAssumption, OfOne!Route!FetchAssumption,
     Faulty!ConfType, OfOne!Route!ConfType
<1>4. OfAny!Cascade!CascadeAssumption
  BY <1>1, Zenon DEF Cascade!CascadeAssumption, OfAny!Cascade!CascadeAssumption,
     Cascade!IsFiniteSet, OfAny!Cascade!IsFiniteSet
<1>5. OfTwo!Reviews!ReviewAssumption
  BY <1>1, Zenon DEF Quarantining!ReviewAssumption, OfTwo!Reviews!ReviewAssumption,
     Quarantining!Lanes, OfTwo!Reviews!Lanes, Quarantining!Checks, OfTwo!Reviews!Checks, Quarantining!CheckOf, OfTwo!Reviews!CheckOf, Quarantining!Actionable, OfTwo!Reviews!Actionable, Quarantining!Reasons, OfTwo!Reviews!Reasons, Quarantining!IsFiniteSet, OfTwo!Reviews!IsFiniteSet
<1>6. OfThree!Reviews!ReviewAssumption
  BY <1>1, Zenon DEF Observing!ReviewAssumption, OfThree!Reviews!ReviewAssumption,
     Observing!Lanes, OfThree!Reviews!Lanes, Observing!Checks, OfThree!Reviews!Checks, Observing!CheckOf, OfThree!Reviews!CheckOf, Observing!Actionable, OfThree!Reviews!Actionable, Observing!Reasons, OfThree!Reviews!Reasons, Observing!IsFiniteSet, OfThree!Reviews!IsFiniteSet
<1>7. OfOne!Reviews!ReviewAssumption
  BY <1>1, Zenon DEF Judging!ReviewAssumption, OfOne!Reviews!ReviewAssumption,
     Judging!Lanes, OfOne!Reviews!Lanes, Judging!Checks, OfOne!Reviews!Checks, Judging!CheckOf, OfOne!Reviews!CheckOf, Judging!Actionable, OfOne!Reviews!Actionable, Judging!Reasons, OfOne!Reviews!Reasons, Judging!IsFiniteSet, OfOne!Reviews!IsFiniteSet
<1> QED BY <1>2, <1>3, <1>4, <1>5, <1>6, <1>7

-----------------------------------------------------------------------------
(* Of every level, its behaviours are those of its instance.               *)

\* A behaviour is of one level.
LEMMA LevelStays == [MCNext]_mcVars => level' = level
BY DEF MCNext, ReviewNext, mcVars

LEMMA RefreshLevel == MCSpec => OfAny!Spec \/ []~(level = "refresh")
<1>1. MCInit /\ level = "refresh" => Init
  BY DEF MCInit
<1>2. level = "refresh" /\ [MCNext]_mcVars => [Next]_vars /\ (level = "refresh")'
  BY DEF MCNext, ReviewNext, mcVars
<1>3. ~(level = "refresh") /\ [MCNext]_mcVars => (~(level = "refresh"))'
  BY LevelStays
<1> QED BY <1>1, <1>2, <1>3, SameRefresh, PTL DEF MCSpec, OfAny!Spec

LEMMA PaidLevel == MCSpec => OfTwo!Spec \/ []~(level = "paid")
<1>1. MCInit /\ level = "paid" => PaidCalls!Init
  BY DEF MCInit
<1>2. level = "paid" /\ [MCNext]_mcVars => [PaidCalls!Next]_(PaidCalls!vars) /\ (level = "paid")'
  BY DEF MCNext, ReviewNext, mcVars, vars, PaidCalls!vars
<1>3. ~(level = "paid") /\ [MCNext]_mcVars => (~(level = "paid"))'
  BY LevelStays
<1> QED BY <1>1, <1>2, <1>3, SamePaid, PTL DEF MCSpec, OfTwo!Spec

LEMMA RouteLevel == MCSpec => OfThree!Route!Spec \/ []~(level = "route")
<1>1. MCInit /\ level = "route" => Route!Init
  BY DEF MCInit
<1>2. level = "route" /\ [MCNext]_mcVars => [Route!Next]_(Route!vars) /\ (level = "route")'
  BY DEF MCNext, ReviewNext, mcVars, routeVars, Route!vars
<1>3. ~(level = "route") /\ [MCNext]_mcVars => (~(level = "route"))'
  BY LevelStays
<1> QED BY <1>1, <1>2, <1>3, SameRoute, PTL DEF MCSpec, OfThree!Route!Spec

LEMMA FaultyLevel == MCSpec => OfOne!Route!Spec \/ []~(level = "faulty")
<1>1. MCInit /\ level = "faulty" => Route!Init
  BY DEF MCInit
<1>2. Route!Init <=> Faulty!Init
  BY Zenon DEF
    Route!Nothing, Route!Init, Faulty!Nothing, Faulty!Init
<1>3. level = "faulty" /\ [MCNext]_mcVars => [Faulty!Next]_(Faulty!vars) /\ (level = "faulty")'
  BY DEF MCNext, ReviewNext, mcVars, routeVars, Faulty!vars
<1>4. ~(level = "faulty") /\ [MCNext]_mcVars => (~(level = "faulty"))'
  BY LevelStays
<1> QED BY <1>1, <1>2, <1>3, <1>4, SameFaulty, PTL DEF MCSpec, OfOne!Route!Spec

LEMMA CascadeLevel == MCSpec => OfAny!Cascade!Spec \/ []~(level = "cascade")
<1>1. MCInit /\ level = "cascade" => Cascade!Init
  BY DEF MCInit
<1>2. level = "cascade" /\ [MCNext]_mcVars => [Cascade!Next]_(Cascade!vars) /\ (level = "cascade")'
  BY DEF MCNext, ReviewNext, mcVars, cascadeVars, Cascade!vars
<1>3. ~(level = "cascade") /\ [MCNext]_mcVars => (~(level = "cascade"))'
  BY LevelStays
<1> QED BY <1>1, <1>2, <1>3, SameCascade, PTL DEF MCSpec, OfAny!Cascade!Spec

LEMMA QuarantineLevel == MCSpec => OfTwo!Reviews!Spec \/ []~(level = "quarantine")
<1>1. MCInit /\ level = "quarantine" => Quarantining!Init
  BY DEF MCInit, ReviewInit
<1>2. level = "quarantine" /\ [MCNext]_mcVars
        => [Quarantining!Next]_(Quarantining!vars) /\ (level = "quarantine")'
  BY DEF MCNext, ReviewNext, mcVars, aiVars, Quarantining!vars
<1>3. ~(level = "quarantine") /\ [MCNext]_mcVars => (~(level = "quarantine"))'
  BY LevelStays
<1> QED BY <1>1, <1>2, <1>3, SameQuarantining, PTL DEF MCSpec, OfTwo!Reviews!Spec

LEMMA ObserveLevel == MCSpec => OfThree!Reviews!Spec \/ []~(level = "observe")
<1>1. MCInit /\ level = "observe" => Observing!Init
  BY DEF MCInit, ReviewInit
<1>2. level = "observe" /\ [MCNext]_mcVars
        => [Observing!Next]_(Observing!vars) /\ (level = "observe")'
  BY DEF MCNext, ReviewNext, mcVars, aiVars, Observing!vars
<1>3. ~(level = "observe") /\ [MCNext]_mcVars => (~(level = "observe"))'
  BY LevelStays
<1> QED BY <1>1, <1>2, <1>3, SameObserving, PTL DEF MCSpec, OfThree!Reviews!Spec

LEMMA VerdictLevel == MCSpec => OfOne!Reviews!Spec \/ []~(level = "verdict")
<1>1. MCInit /\ level = "verdict" => Judging!Init
  BY DEF MCInit, ReviewInit
<1>2. level = "verdict" /\ [MCNext]_mcVars
        => [Judging!Next]_(Judging!vars) /\ (level = "verdict")'
  BY DEF MCNext, ReviewNext, mcVars, aiVars, Judging!vars
<1>3. ~(level = "verdict") /\ [MCNext]_mcVars => (~(level = "verdict"))'
  BY LevelStays
<1> QED BY <1>1, <1>2, <1>3, SameJudging, PTL DEF MCSpec, OfOne!Reviews!Spec

-----------------------------------------------------------------------------
(* The properties of the run.                                              *)

\* What a refresh records is true and complete, in the run as a whole: every source of a
\* call has one outcome, the sections that are switched off and the sources that are not
\* authorized stay out, and what is recorded as fresh is on disk.
THEOREM AccountsHold == MCSpec => []AccountsAreTrue
<1>1. OfAny!Spec => [](/\ OfAny!TypeOK /\ OfAny!EverySourceAccounted
                       /\ OfAny!SchedulesRespectSections /\ OfAny!FreshIsPublished)
  <2>1. OfAny!Spec => [](OfAny!TypeOK /\ OfAny!Inv)
    BY OfAny!InvHolds, OfAnyFits, PTL
  <2>2. OfAny!Spec => []OfAny!EverySourceAccounted
    BY OfAny!EveryoneIsAccounted, OfAnyFits, PTL
  <2>3. OfAny!Spec => []OfAny!SchedulesRespectSections
    BY OfAny!SectionsAreRespected, OfAnyFits, PTL
  <2>4. OfAny!Spec => []OfAny!FreshIsPublished
    BY OfAny!FreshStaysPublished, OfAnyFits, PTL
  <2> QED BY <2>1, <2>2, <2>3, <2>4, PTL
<1>2. OfTwo!Spec => [](OfTwo!EverySourceAccounted /\ OfTwo!FreshIsPublished)
  <2>1. OfTwo!Spec => []OfTwo!EverySourceAccounted
    BY OfTwo!EveryoneIsAccounted, OfTwoFits, PTL
  <2>2. OfTwo!Spec => []OfTwo!FreshIsPublished
    BY OfTwo!FreshStaysPublished, OfTwoFits, PTL
  <2> QED BY <2>1, <2>2, PTL
<1>3. MCSpec => [](level = "refresh" => /\ TypeOK /\ EverySourceAccounted
                                        /\ SchedulesRespectSections /\ FreshIsPublished)
  BY <1>1, RefreshLevel, SameRefresh, PTL
<1>4. MCSpec => [](level = "paid" => PaidCalls!EverySourceAccounted /\ PaidCalls!FreshIsPublished)
  BY <1>2, PaidLevel, SamePaid, PTL
<1> QED BY <1>3, <1>4, PTL DEF AccountsAreTrue

\* The money of a refresh, a fetch and a page is bounded, whatever fails, in the run as a
\* whole: fallbacks by the cap of each call, a fetch by one fallback, or, when its
\* statuses cannot be written, by the limit of its source, a page by its profiles and by the
\* rotation of its keys, the reviews by the budget of their lane.
THEOREM SpendingHolds == MCSpec => []SpendingIsBounded
<1>1. MCSpec => [](level = "paid" => PaidCalls!SpendBounded)
  <2>1. OfTwo!Spec => []OfTwo!SpendBounded
    BY OfTwo!FallbacksStayBounded, OfTwoFits, PTL
  <2> QED BY <2>1, PaidLevel, SamePaid, PTL
<1>2. MCSpec => [](level = "route" =>
                     Route!OneFallback /\ Route!RefusedStaysRefused /\ Route!ConfirmationIsFree)
  <2>1. OfThree!Route!FetchAssumption
    BY InstancesFit
  <2>2. OfThree!Route!Spec
          => [](/\ OfThree!Route!OneFallback /\ OfThree!Route!RefusedStaysRefused
                /\ OfThree!Route!ConfirmationIsFree)
    BY <2>1, OfThree!FetchesArePaidOnce, OfThreeFits, PTL
  <2> QED BY <2>2, RouteLevel, SameRoute, PTL
<1>3. MCSpec => [](level = "faulty" => Faulty!OneFallback /\ Faulty!RefusedStaysRefused)
  <2>1. OfOne!Route!FetchAssumption
    BY InstancesFit
  <2>2. OfOne!Route!Spec
          => [](/\ OfOne!Route!OneFallback /\ OfOne!Route!RefusedStaysRefused
                /\ OfOne!Route!ConfirmationIsFree)
    BY <2>1, OfOne!FetchesArePaidOnce, OfOneFits, PTL
  <2> QED BY <2>2, FaultyLevel, SameFaulty, PTL
<1>4. MCSpec => [](level = "cascade" => Cascade!CostOfAPage)
  <2>1. OfAny!Cascade!CascadeAssumption
    BY InstancesFit
  <2>2. OfAny!Cascade!Spec => [](OfAny!Cascade!CostOfAPage /\ OfAny!Cascade!BrightDataIsAResort)
    BY <2>1, OfAny!APageHasItsPrice, OfAnyFits, PTL
  <2> QED BY <2>2, CascadeLevel, SameCascade, PTL
<1>5. MCSpec => [](level = "quarantine" => Quarantining!LanesAreBounded)
  <2>1. OfTwo!Reviews!ReviewAssumption
    BY InstancesFit
  <2>2. OfTwo!Reviews!Spec => [](OfTwo!ReviewsSound /\ OfTwo!Reviews!LanesAreBounded)
    BY <2>1, OfTwo!LanesStayBounded, OfTwoFits, PTL
  <2> QED BY <2>2, QuarantineLevel, SameQuarantining, PTL
<1>6. MCSpec => [](level = "observe" => Observing!LanesAreBounded)
  <2>1. OfThree!Reviews!ReviewAssumption
    BY InstancesFit
  <2>2. OfThree!Reviews!Spec => [](OfThree!ReviewsSound /\ OfThree!Reviews!LanesAreBounded)
    BY <2>1, OfThree!LanesStayBounded, OfThreeFits, PTL
  <2> QED BY <2>2, ObserveLevel, SameObserving, PTL
<1> QED BY <1>1, <1>2, <1>3, <1>4, <1>5, <1>6, PTL DEF SpendingIsBounded

\* A fetch says what it did and a review what it saw, in the run as a whole: what is
\* published is reported, nothing is saved or rejected without its reason, and no failure
\* goes without a diagnosis that its lane could have asked for.
THEOREM ReportsHold == MCSpec => []FetchesAreReported
<1>1. MCSpec => [](level = "route" =>
                     /\ Route!TypeOK /\ Route!OnlyPassedIsSaved
                     /\ Route!ShadowEnds /\ Route!PublishedIsReported)
  <2>1. OfThree!Route!FetchAssumption
    BY InstancesFit
  <2>2. OfThree!Route!Spec
          => [](/\ OfThree!Route!TypeOK /\ OfThree!Route!OnlyPassedIsSaved
                /\ OfThree!Route!ShadowEnds /\ OfThree!Route!PublishedIsReported
                /\ OfThree!Route!StandardAlwaysReports)
    BY <2>1, OfThree!FetchesReportTheirEnds, OfThreeFits, PTL
  <2> QED BY <2>2, RouteLevel, SameRoute, PTL
<1>2. MCSpec => [](level = "faulty" =>
                     Faulty!PublishedIsReported /\ Faulty!StandardAlwaysReports)
  <2>1. OfOne!Route!FetchAssumption
    BY InstancesFit
  <2>2. OfOne!Route!Spec
          => [](/\ OfOne!Route!TypeOK /\ OfOne!Route!OnlyPassedIsSaved
                /\ OfOne!Route!ShadowEnds /\ OfOne!Route!PublishedIsReported
                /\ OfOne!Route!StandardAlwaysReports)
    BY <2>1, OfOne!FetchesReportTheirEnds, OfOneFits, PTL
  <2> QED BY <2>2, FaultyLevel, SameFaulty, PTL
<1>3. MCSpec => [](level = "quarantine" =>
                     /\ Quarantining!TypeOK /\ Quarantining!RejectionIsBacked
                     /\ Quarantining!ReviewsBelong /\ Quarantining!FailuresAreDiagnosed)
  <2>1. OfTwo!Reviews!ReviewAssumption
    BY InstancesFit
  <2>2. OfTwo!Reviews!Spec
          => [](/\ OfTwo!Reviews!TypeOK /\ OfTwo!Reviews!RejectionIsBacked
                /\ OfTwo!Reviews!ReviewsBelong)
    BY <2>1, OfTwo!ReviewsStayTrue, OfTwoFits, PTL
  <2>3. OfTwo!Reviews!Spec => []OfTwo!Reviews!FailuresAreDiagnosed
    BY <2>1, OfTwo!NoFailureIsForgotten, OfTwoFits, PTL
  <2> QED BY <2>2, <2>3, QuarantineLevel, SameQuarantining, PTL
<1>4. MCSpec => [](level = "observe" =>
                     Observing!ReviewsBelong /\ Observing!FailuresAreDiagnosed)
  <2>1. OfThree!Reviews!ReviewAssumption
    BY InstancesFit
  <2>2. OfThree!Reviews!Spec
          => [](/\ OfThree!Reviews!TypeOK /\ OfThree!Reviews!RejectionIsBacked
                /\ OfThree!Reviews!ReviewsBelong)
    BY <2>1, OfThree!ReviewsStayTrue, OfThreeFits, PTL
  <2>3. OfThree!Reviews!Spec => []OfThree!Reviews!FailuresAreDiagnosed
    BY <2>1, OfThree!NoFailureIsForgotten, OfThreeFits, PTL
  <2> QED BY <2>2, <2>3, ObserveLevel, SameObserving, PTL
<1>5. MCSpec => [](level = "verdict" => Judging!RejectionIsBacked /\ Judging!ReviewsBelong)
  <2>1. OfOne!Reviews!ReviewAssumption
    BY InstancesFit
  <2>2. OfOne!Reviews!Spec
          => [](/\ OfOne!Reviews!TypeOK /\ OfOne!Reviews!RejectionIsBacked
                /\ OfOne!Reviews!ReviewsBelong)
    BY <2>1, OfOne!ReviewsStayTrue, OfOneFits, PTL
  <2> QED BY <2>2, VerdictLevel, SameJudging, PTL
<1> QED BY <1>1, <1>2, <1>3, <1>4, <1>5, PTL DEF FetchesAreReported

\* The providers of a page are asked in their order, and all of them before the page is
\* given up, in the run as a whole.
THEOREM ProvidersAreAsked == MCSpec => []EveryProviderIsAsked
<1>1. OfAny!Cascade!CascadeAssumption
  BY InstancesFit
<1>2. OfAny!Cascade!Spec => []OfAny!CascadeSound
  BY <1>1, OfAny!CascadeStaysSound, OfAnyFits, PTL
<1>3. OfAny!CascadeSound => OfAny!Cascade!TypeOK
  BY DEF OfAny!CascadeSound
<1>4. OfAny!Cascade!Spec => []OfAny!Cascade!EveryProviderIsAsked
  BY <1>1, OfAny!EveryProviderHasItsTurn, OfAnyFits, PTL
<1>5. OfAny!Cascade!Spec => [](OfAny!Cascade!CostOfAPage /\ OfAny!Cascade!BrightDataIsAResort)
  BY <1>1, OfAny!APageHasItsPrice, OfAnyFits, PTL
<1>6. MCSpec => [](level = "cascade" =>
                     /\ Cascade!TypeOK /\ Cascade!EveryProviderIsAsked
                     /\ Cascade!BrightDataIsAResort)
  BY <1>2, <1>3, <1>4, <1>5, CascadeLevel, SameCascade, PTL
<1> QED BY <1>6, PTL DEF EveryProviderIsAsked

\* A refusal, once found, holds, in the run as a whole: of the proxy for the phases of its
\* call, of an account for the cascade that met it, of a lost session for the fetch, of a
\* lane's circuit for its reviews.
THEOREM RefusalsStand == MCSpec => RefusalsHold
<1>1. MCSpec => [][level = "refresh" => CircuitOutlivesPhaseStep]_mcVars
  <2>1. OfAny!Spec => [][OfAny!CircuitOutlivesPhaseStep]_(OfAny!vars)
    BY OfAny!CircuitHolds, OfAnyFits, PTL DEF OfAny!CircuitOutlivesPhase
  <2>2. UNCHANGED OfAny!vars => UNCHANGED vars
    BY DEF OfAny!vars, vars
  <2>3. UNCHANGED vars => CircuitOutlivesPhaseStep
    BY DEF vars, CircuitOutlivesPhaseStep
  <2> QED BY <2>1, <2>2, <2>3, RefreshLevel, SameRefresh, PTL
<1>2. MCSpec => [][level = "cascade" => Cascade!AccountIsRespectedStep]_mcVars
  <2>1. OfAny!Cascade!CascadeAssumption
    BY InstancesFit
  <2>2. OfAny!Cascade!Spec => [][OfAny!Cascade!AccountIsRespectedStep]_(OfAny!Cascade!vars)
    BY <2>1, OfAny!RefusedAccountIsLeftAlone, OfAnyFits, PTL DEF OfAny!Cascade!AccountIsRespected
  <2>3. UNCHANGED OfAny!Cascade!vars => Cascade!AccountIsRespectedStep
    BY DEF OfAny!Cascade!vars, Cascade!AccountIsRespectedStep
  <2> QED BY <2>2, <2>3, CascadeLevel, SameCascade, PTL
<1>3. MCSpec => [][level = "route" => Route!RetryIsCleanStep]_mcVars
  <2>1. OfThree!Route!FetchAssumption /\ ~FALSE
    BY InstancesFit
  <2>2. OfThree!Route!Spec => [][OfThree!Route!RetryIsCleanStep]_(OfThree!Route!vars)
    BY <2>1, OfThree!RetryStaysClean, OfThreeFits, PTL DEF OfThree!Route!RetryIsClean
  <2>3. UNCHANGED OfThree!Route!vars => Route!RetryIsCleanStep
    BY DEF OfThree!Route!vars, Route!RetryIsCleanStep
  <2> QED BY <2>2, <2>3, RouteLevel, SameRoute, PTL
<1>4. MCSpec => [][level = "quarantine" => Quarantining!CircuitHoldsStep]_mcVars
  <2>1. OfTwo!Reviews!ReviewAssumption
    BY InstancesFit
  <2>2. OfTwo!Reviews!Spec => [][OfTwo!Reviews!CircuitHoldsStep]_(OfTwo!Reviews!vars)
    BY <2>1, OfTwo!OpenCircuitHolds, OfTwoFits, PTL
  <2>3. UNCHANGED OfTwo!Reviews!vars => Quarantining!CircuitHoldsStep
    BY DEF OfTwo!Reviews!vars, Quarantining!CircuitHoldsStep
  <2> QED BY <2>2, <2>3, QuarantineLevel, SameQuarantining, PTL
<1> QED BY <1>1, <1>2, <1>3, <1>4, PTL DEF RefusalsHold
===============================================================================
