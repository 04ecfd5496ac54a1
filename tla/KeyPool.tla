------------------------------ MODULE KeyPool -------------------------------
(***************************************************************************)
(* The pool of provider keys with monthly credits (app/scrapfly_keys.py,   *)
(* app/firecrawl_keys.py, which follow the same steps) and the loop that   *)
(* uses it (scrape_url_sync, _scrape_via_firecrawl).  Workers of several   *)
(* processes take a key, send the request, and report its credits or that  *)
(* the key was refused; each access to key-usage.json is one step under a  *)
(* flock.  Keys are numbered in the order of the setting, 0 is "none".     *)
(*                                                                         *)
(* "spent" is the provider's account, which the program never sees.        *)
(***************************************************************************)
EXTENDS Integers, FiniteSets, FiniteSetsExt

CONSTANTS
  Workers,
  Keys,            \* 1 .. n, in the order of the setting
  Limit,           \* credit_limit of a key
  Quota,           \* what the provider really grants for a key and a period
  Costs,           \* credits a request may cost
  AttemptLimit,    \* attempts of one scrape
  MaxPeriods,      \* bound: credit periods
  MaxLost          \* bound: workers that die, files that are lost

VARIABLES
  period,          \* the credit period by the calendar
  file,            \* key-usage.json; its period is 0 if there is none
  worker,          \* the workers' scrapes
  spent,           \* credits the provider billed in this period, by key
  lost,            \* credits of this period that were never reported, by key
  refusedNow,      \* keys the provider refused in this period
  losses

vars == <<period, file, worker, spent, lost, refusedNow, losses>>

\* A pool has a key, a key has a limit (parse_scrapfly_api_keys sets 1 at least),
\* and there is a dearest request.
PoolAssumption ==
  /\ IsFiniteSet(Workers)
  /\ IsFiniteSet(Keys) /\ Keys \subseteq Nat \ {0} /\ Keys # {}
  /\ Limit \in [Keys -> Nat \ {0}] /\ Quota \in [Keys -> Nat]
  /\ IsFiniteSet(Costs) /\ Costs \subseteq Nat /\ Costs # {}
  /\ AttemptLimit \in Nat \ {0} /\ MaxPeriods \in Nat /\ MaxLost \in Nat

-----------------------------------------------------------------------------
Files == [period : Nat, active : Keys \union {0}, used : [Keys -> Nat],
          out : [Keys -> BOOLEAN]]

WorkerStates == [pc : {"idle", "again", "sent", "billed", "refused"}, key : Keys \union {0},
                 cost : Costs \union {0}, at : Nat, tries : 0 .. AttemptLimit]

TypeOK ==
  /\ period \in Nat \ {0}
  /\ file \in Files
  /\ worker \in [Workers -> WorkerStates]
  /\ spent \in [Keys -> Nat]
  /\ lost \in [Keys -> Nat]
  /\ refusedNow \subseteq Keys
  /\ losses \in 0 .. MaxLost

Resting == [pc |-> "idle", key |-> 0, cost |-> 0, at |-> 0, tries |-> 0]

\* _first_available_label
Available(f) == {k \in Keys : ~f.out[k] /\ f.used[k] < Limit[k]}
First(f) == IF Available(f) = {} THEN 0 ELSE Min(Available(f))

\* _empty_state: the first key is active
Empty(p) == [period |-> p, active |-> Min(Keys), used |-> [k \in Keys |-> 0],
             out |-> [k \in Keys |-> FALSE]]

\* The file is missing, unreadable, or of another period.
Outdated(f) == f.period # period

\* Mutant: the active key is kept although it is used up.
MergedKeepingActive(f) ==
  IF Outdated(f) THEN Empty(period)
  ELSE [f EXCEPT !.out = [k \in Keys |-> f.out[k] \/ f.used[k] >= Limit[k]]]

\* _merge_state
Merged(f) ==
  IF Outdated(f) THEN Empty(period)
  ELSE LET g == [f EXCEPT !.out = [k \in Keys |-> f.out[k] \/ f.used[k] >= Limit[k]]]
       IN  IF g.active # 0 /\ ~g.out[g.active] THEN g ELSE [g EXCEPT !.active = First(g)]

Init ==
  /\ period = 1
  /\ file = [Empty(0) EXCEPT !.active = 0]
  /\ worker = [w \in Workers |-> Resting]
  /\ spent = [k \in Keys |-> 0]
  /\ lost = [k \in Keys |-> 0]
  /\ refusedNow = {}
  /\ losses = 0

-----------------------------------------------------------------------------
\* acquire_*_key: the merged state is written back; without a usable key the
\* scrape fails.
Acquire(w) ==
  /\ worker[w].pc \in {"idle", "again"}
  /\ file' = Merged(file)
  /\ worker' = [worker EXCEPT ![w] =
       IF file'.active = 0 THEN Resting
       ELSE [worker[w] EXCEPT !.pc = "sent", !.key = file'.active, !.at = period,
                              !.tries = @ + 1]]
  /\ UNCHANGED <<period, spent, lost, refusedNow, losses>>

\* The provider bills the request, or refuses a key that has no credits left.
Answer(w) ==
  /\ worker[w].pc = "sent"
  /\ LET k == worker[w].key IN
     \/ \E c \in Costs :
          /\ spent[k] + c <= Quota[k]
          /\ spent' = [spent EXCEPT ![k] = @ + c]
          /\ worker' = [worker EXCEPT ![w].pc = "billed", ![w].cost = c, ![w].at = period]
          /\ UNCHANGED refusedNow
     \/ /\ \E c \in Costs : spent[k] + c > Quota[k]
        /\ worker' = [worker EXCEPT ![w].pc = "refused", ![w].at = period]
        /\ refusedNow' = refusedNow \union {k}
        /\ UNCHANGED spent
  /\ UNCHANGED <<period, file, lost, losses>>

\* The request fails otherwise: nothing is reported and the scrape fails.
Fail(w) ==
  /\ worker[w].pc = "sent"
  /\ worker' = [worker EXCEPT ![w] = Resting]
  /\ UNCHANGED <<period, file, spent, lost, refusedNow, losses>>

\* Mutant: the count is taken from before the lock.
ReportedOnce(f, k, c) == [f EXCEPT !.used[k] = IF f.used[k] = 0 THEN c ELSE @]

\* record_*_credits
Reported(f, k, c) ==
  LET g == [f EXCEPT !.used[k] = @ + c, !.out[k] = @ \/ f.used[k] + c >= Limit[k]]
  IN  IF g.used[k] >= Limit[k] THEN [g EXCEPT !.active = First(g)]
      ELSE IF g.active = 0 THEN [g EXCEPT !.active = k]
      ELSE g

Report(w) ==
  /\ worker[w].pc = "billed"
  /\ file' = Reported(Merged(file), worker[w].key, worker[w].cost)
  /\ worker' = [worker EXCEPT ![w] = Resting]
  /\ UNCHANGED <<period, spent, lost, refusedNow, losses>>

\* mark_*_key_exhausted
Marked(f, k) ==
  LET g == [f EXCEPT !.out[k] = TRUE] IN [g EXCEPT !.active = First(g)]

\* After a refusal the scrape tries the next key, as often as its loop allows.
MarkExhausted(w) ==
  /\ worker[w].pc = "refused"
  /\ file' = Marked(Merged(file), worker[w].key)
  /\ worker' = [worker EXCEPT ![w] =
       IF worker[w].tries = AttemptLimit THEN Resting
       ELSE [worker[w] EXCEPT !.pc = "again", !.key = 0, !.at = 0]]
  /\ UNCHANGED <<period, spent, lost, refusedNow, losses>>

\* *_key_usage_snapshot writes the merged state; peek_*_key only if the period
\* changed.
Snapshot ==
  /\ file' = Merged(file)
  /\ UNCHANGED <<period, worker, spent, lost, refusedNow, losses>>

\* A process dies; what its request cost is reported by nobody.
Die(w) ==
  /\ losses < MaxLost
  /\ worker[w].pc # "idle"
  /\ lost' = IF worker[w].pc = "billed" /\ worker[w].at = period
             THEN [lost EXCEPT ![worker[w].key] = @ + worker[w].cost] ELSE lost
  /\ worker' = [worker EXCEPT ![w] = Resting]
  /\ losses' = losses + 1
  /\ UNCHANGED <<period, file, spent, refusedNow>>

\* key-usage.json is lost or damaged: the next access begins an empty state.
LoseFile ==
  /\ losses < MaxLost
  /\ file' = [Empty(0) EXCEPT !.active = 0]
  /\ lost' = spent
  /\ losses' = losses + 1
  /\ UNCHANGED <<period, worker, spent, refusedNow>>

\* The reset day: the provider grants new credits.
TurnPeriod ==
  /\ period < MaxPeriods
  /\ period' = period + 1
  /\ spent' = [k \in Keys |-> 0]
  /\ lost' = [k \in Keys |-> 0]
  /\ refusedNow' = {}
  /\ UNCHANGED <<file, worker, losses>>

Next ==
  \/ \E w \in Workers : \/ Acquire(w) \/ Answer(w) \/ Fail(w)
                        \/ Report(w) \/ MarkExhausted(w) \/ Die(w)
  \/ Snapshot
  \/ LoseFile
  \/ TurnPeriod

Spec == Init /\ [][Next]_vars

-----------------------------------------------------------------------------
(* Properties.                                                             *)

\* What the provider bills for a key passes its limit by no more than one
\* request of each worker, and by what was lost: a key is not handed out again
\* once its count has reached the limit, whatever is reported late or across the
\* turn of the period.
OverspendBounded ==
  \A k \in Keys :
    spent[k] <= Limit[k] - 1 + Cardinality(Workers) * Max(Costs) + lost[k]

Unreported(k) == {w \in Workers : /\ worker[w].pc = "billed"
                                  /\ worker[w].key = k
                                  /\ worker[w].at = period}

\* Its credits on their way to the file, one by one.
OnTheWay(k) == {p \in Unreported(k) \X (1 .. Max(Costs)) : p[2] <= worker[p[1]].cost}

\* What the provider billed in this period is counted, still to be reported, or
\* was lost with a process or the file: neither concurrent reports nor a report
\* across the turn of the period drops any of it.
BillsCounted ==
  \A k \in Keys :
    spent[k] <= Merged(file).used[k] + lost[k] + Cardinality(OnTheWay(k))

\* A refusal that arrives after the turn of the period marks the key for the
\* whole new period, though the provider would take it: the code does not
\* compare the period of the lease.  No more keys are lost to this than there
\* are scrapes; whatever else was out before the turn is usable again.
OutWithoutCause == {k \in Keys : /\ Merged(file).out[k]
                                 /\ Merged(file).used[k] < Limit[k]
                                 /\ k \notin refusedNow}

FewKeysOutWithoutCause ==
  Cardinality(OutWithoutCause)
    + Cardinality({w \in Workers : worker[w].pc = "refused" /\ worker[w].at # period})
      <= Cardinality(Workers)

\* Until the period turns or the file is lost, a scrape that was refused a key
\* never takes it again, and neither does any other scrape, whichever label the
\* reports of other requests made active meanwhile.
ExhaustedStaysOutStep ==
  \A k \in Keys : Merged(file).out[k] /\ period' = period /\ file'.period # 0
    => /\ file'.out[k] \/ file'.used[k] >= Limit[k] \/ UNCHANGED file
       /\ \A w \in Workers :
            worker[w].pc # "sent" /\ worker'[w].pc = "sent" => worker'[w].key # k

ExhaustedStaysOut == [][ExhaustedStaysOutStep]_vars
=============================================================================
