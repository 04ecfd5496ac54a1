---------------------------- MODULE BackendRotation ----------------------------
(***************************************************************************)
(* How a page is fetched with browsers (fetch_html of                      *)
(* src/app/scrapers/rotator.py): in rounds, one backend after the other,   *)
(* until one shows a page that passes the gate.  The sources of a refresh  *)
(* share what they learn: a backend that fails twice in the same way is    *)
(* left out, for its source or for the whole site, and after a refusal of  *)
(* the residential proxy nobody goes through it.                           *)
(***************************************************************************)
EXTENDS Integers, Sequences, FiniteSets

CONSTANTS
  Sources, SiteOf,
  Backends,        \* the sequence of backends
  Proxied,         \* those that go through the residential proxy
  Missing,         \* those that are not installed
  Rounds,
  Threshold,
  Faults           \* the kinds of failure that are worth another round

VARIABLES
  task,
  failures,        \* how often a backend failed, by scope and kind
  circuit,         \* the proxy has refused
  tries            \* history: attempts of a source on a backend

vars == <<task, failures, circuit, tries>>

Names == {Backends[i] : i \in DOMAIN Backends}
Sites == {SiteOf[s] : s \in Sources}
Kinds == Faults \union {"blocked", "proxy"}

\* Backends are an ordered list without repetitions; a circuit opens after some
\* failures, and there is a first round.
RotationAssumption ==
  /\ IsFiniteSet(Sources)
  /\ Backends \in Seq(STRING)
  /\ \A i, j \in DOMAIN Backends : Backends[i] = Backends[j] => i = j
  /\ Rounds \in Nat \ {0} /\ Threshold \in Nat \ {0}

\* A timeout or a thin page says something of the source, a block of the site.
Scope(s, kind) == IF kind \in {"timeout", "quality"} THEN s ELSE SiteOf[s]

NewTask ==
  [pc |-> "new", at |-> 1, round |-> 1, retryable |-> FALSE, free |-> FALSE,
   challenged |-> {}, refused |-> FALSE, excused |-> {}]

TypeOK ==
  /\ \A s \in Sources :
       /\ task[s].pc \in {"new", "choosing", "trying", "pausing", "ok", "proxy", "error", "cancelled"}
       /\ task[s].at \in 1 .. Len(Backends) + 1 /\ task[s].round \in 1 .. Rounds
       /\ task[s].challenged \subseteq Names /\ task[s].excused \subseteq Names
  /\ failures \in [Sources \union Sites -> [Names -> [Kinds -> Nat]]]
  /\ circuit \in BOOLEAN /\ tries \in [Sources -> [Names -> Nat]]

Init ==
  /\ task = [s \in Sources |-> NewTask]
  /\ failures = [x \in Sources \union Sites |-> [b \in Names |-> [k \in Kinds |-> 0]]]
  /\ circuit = FALSE /\ tries = [s \in Sources |-> [b \in Names |-> 0]]

-----------------------------------------------------------------------------
Backend(s) == Backends[task[s].at]
Open(s, b) == \E k \in Kinds : failures[Scope(s, k)][b][k] >= Threshold

Set(s, fields) == task' = [task EXCEPT ![s] = fields]

Begin(s) ==
  /\ task[s].pc = "new"
  /\ Set(s, [task[s] EXCEPT !.pc = "choosing", !.refused = circuit])
  /\ UNCHANGED <<failures, circuit, tries>>

Left(s) == task[s].pc = "choosing" /\ task[s].at <= Len(Backends)
Refuses(s) == (task[s].refused \/ circuit) /\ Backend(s) \in Proxied
Spoiled(s) == Backend(s) \in task[s].challenged \/ Open(s, Backend(s)) \/ Backend(s) \in Missing

Skip(s) ==
  /\ Left(s) /\ (Refuses(s) \/ Spoiled(s))
  /\ Set(s, [task[s] EXCEPT !.at = @ + 1, !.refused = @ \/ circuit,
                            !.excused = @ \union {Backend(s)}])
  /\ UNCHANGED <<failures, circuit, tries>>

Try(s) ==
  /\ Left(s) /\ ~Refuses(s) /\ ~Spoiled(s)
  /\ Set(s, [task[s] EXCEPT !.pc = "trying", !.refused = @ \/ circuit])
  /\ tries' = [tries EXCEPT ![s][Backend(s)] = @ + 1]
  /\ UNCHANGED <<failures, circuit>>

\* A success forgives the backend what is held against it in its scopes.
Succeed(s) ==
  /\ task[s].pc = "trying"
  /\ Set(s, [task[s] EXCEPT !.pc = "ok"])
  /\ failures' = [x \in DOMAIN failures |->
                    IF x \notin {s, SiteOf[s]} THEN failures[x]
                    ELSE [failures[x] EXCEPT ![Backend(s)] =
                            [k \in Kinds |-> IF Scope(s, k) = x THEN 0 ELSE @[k]]]]
  /\ UNCHANGED <<circuit, tries>>

Counted(s, kind) == [failures EXCEPT ![Scope(s, kind)][Backend(s)][kind] = @ + 1]
Passed(s) == [task[s] EXCEPT !.pc = "choosing", !.at = @ + 1]

Fail(s, kind) ==
  /\ task[s].pc = "trying"
  /\ Set(s, [Passed(s) EXCEPT !.retryable = TRUE, !.free = @ \/ Backend(s) \notin Proxied])
  /\ failures' = Counted(s, kind)
  /\ UNCHANGED <<circuit, tries>>

\* A challenge page is what this backend gets: it is not tried again.
Challenge(s) ==
  /\ task[s].pc = "trying"
  /\ Set(s, [Passed(s) EXCEPT !.challenged = @ \union {Backend(s)}])
  /\ failures' = Counted(s, "blocked")
  /\ UNCHANGED <<circuit, tries>>

ProxyRefuses(s) ==
  /\ task[s].pc = "trying" /\ Backend(s) \in Proxied
  /\ Set(s, [Passed(s) EXCEPT !.refused = TRUE])
  /\ failures' = Counted(s, "proxy") /\ circuit' = TRUE
  /\ UNCHANGED tries

WorthARound(s) ==
  /\ task[s].retryable /\ (task[s].refused => task[s].free) /\ task[s].round < Rounds

EndRound(s) ==
  /\ task[s].pc = "choosing" /\ task[s].at > Len(Backends)
  /\ Set(s, [task[s] EXCEPT !.pc = IF WorthARound(s) THEN "pausing"
                                   ELSE IF task[s].refused THEN "proxy" ELSE "error"])
  /\ UNCHANGED <<failures, circuit, tries>>

NextRound(s) ==
  /\ task[s].pc = "pausing"
  /\ Set(s, [task[s] EXCEPT !.pc = "choosing", !.at = 1, !.round = @ + 1,
                            !.retryable = FALSE, !.free = FALSE])
  /\ UNCHANGED <<failures, circuit, tries>>

\* The time of the source is up while it waits.
Cancel(s) ==
  /\ task[s].pc \in {"trying", "pausing"}
  /\ Set(s, [task[s] EXCEPT !.pc = "cancelled"])
  /\ UNCHANGED <<failures, circuit, tries>>

Next ==
  \E s \in Sources :
    \/ Begin(s) \/ Cancel(s) \/ Skip(s) \/ Try(s) \/ Succeed(s) \/ Challenge(s) \/ ProxyRefuses(s)
    \/ EndRound(s) \/ NextRound(s)
    \/ \E kind \in Faults : Fail(s, kind)

Spec == Init /\ [][Next]_vars

-----------------------------------------------------------------------------
\* However many sources of a site are fetched side by side, what is held against a
\* backend passes the threshold by no more than the attempts under way when it was
\* reached (_open_circuit, _record_backend_success).
HammeringBounded ==
  \A x \in Sources \union Sites, b \in Names, k \in Kinds :
    failures[x][b][k] < Threshold + Cardinality({s \in Sources : Scope(s, k) = x})

\* A fetch gives up only after it has tried every backend that nothing speaks
\* against, in every round as long as something was worth repeating; and it blames
\* the proxy exactly when it was refused (the end of fetch_html).
GivesUpLate ==
  \A s \in Sources :
    /\ task[s].pc = "error" =>
         /\ ~task[s].refused
         /\ \A b \in Names \ task[s].excused : tries[s][b] = task[s].round
         /\ task[s].retryable => task[s].round = Rounds
    /\ task[s].pc = "proxy" => circuit /\ (task[s].free => task[s].round = Rounds)

\* A backend that is spoiled for a source, by its own challenge page, by failures
\* of other sources or by a refusal of the proxy, is not tried in a later round.
SpoiledRestsStep ==
  \A s \in Sources, b \in Names :
    (b \in task[s].challenged \/ Open(s, b) \/ (circuit /\ b \in Proxied)) =>
      tries'[s][b] = tries[s][b]
=============================================================================
