--------------------------- MODULE HsReplayTransport ---------------------------
(***************************************************************************)
(* The HSReplay JSON requests of one refresh (src/app/hsreplay_client.py). *)
(* Tasks of several sources ask for the snapshots they need; tasks that    *)
(* need the same one wait for each other and share what the first one      *)
(* fetched.  A snapshot is asked for through one channel after the other.  *)
(* The first request through the residential proxy is a probe the others   *)
(* wait for; a refusal closes the proxy for the rest of the refresh.       *)
(* Scrape.do has a budget of requests and credits of its own.              *)
(*                                                                         *)
(* A task may be cancelled at any time, by the time limit of its source:   *)
(* the probe it started runs on.  Checking the circuit and sending a       *)
(* request are one step; the headers of an answer are left out.            *)
(***************************************************************************)
EXTENDS Integers, Sequences, FiniteSets

CONSTANTS
  Tasks,
  SourceOf,        \* the source of a task
  KeyOf,           \* the snapshot it needs
  Channels,        \* the sequence of channels, in their order of preference
  Proxied,         \* those that go through the residential proxy
  MaxRequests,     \* Scrape.do calls of a refresh
  MaxCredits,
  Costs,           \* credits an answer may cost
  Attempts         \* attempts on one channel

VARIABLES
  task,
  gate,            \* the task that holds a snapshot's lock
  cache,           \* the channel a snapshot came through
  circuit,         \* the proxy has refused a request of this refresh
  probe,
  place,           \* the task that talks to Scrape.do
  requests, credits,
  transports,      \* the channels a source's snapshots came through
  spent,           \* history: credits the answers have cost
  unseen,          \* history: those nobody accounted for
  through          \* history: requests sent through the proxy

vars == <<task, gate, cache, circuit, probe, place, requests, credits, transports,
          spent, unseen, through>>

None == "none"
Keys == {KeyOf[t] : t \in Tasks}
SourcesOf == {SourceOf[t] : t \in Tasks}
Labels == {Channels[i] : i \in DOMAIN Channels}
MaxCost == CHOOSE c \in Costs : \A d \in Costs : d <= c

\* Channels are an ordered list, limits are whole numbers, and an answer costs
\* something.
TransportAssumption ==
  /\ None \notin Tasks
  /\ Channels \in Seq(STRING)
  /\ MaxRequests \in Nat /\ MaxCredits \in Nat /\ Attempts \in Nat \ {0}
  /\ IsFiniteSet(Costs) /\ Costs \subseteq Nat /\ \E c \in Costs : c >= 1

NewTask ==
  [pc |-> "new", at |-> 1, try |-> 1, refused |-> FALSE, alone |-> FALSE,
   via |-> None, outcome |-> None]

NoProbe == [st |-> "none", by |-> None, result |-> None]

TypeOK ==
  /\ \A t \in Tasks :
       /\ task[t].pc \in {"new", "gate", "next", "probing", "asking", "scraping", "paying", "done"}
       /\ task[t].at \in 1 .. Len(Channels) + 1 /\ task[t].try \in 1 .. Attempts
       /\ task[t].refused \in BOOLEAN /\ task[t].alone \in BOOLEAN
       /\ task[t].via \in Labels \union {None}
       /\ task[t].outcome \in {None, "ok", "proxy", "error", "cancelled"}
  /\ gate \in [Keys -> Tasks \union {None}] /\ cache \in [Keys -> Labels \union {None}]
  /\ circuit \in BOOLEAN /\ probe.st \in {"none", "running", "done"}
  /\ place \in Tasks \union {None}
  /\ requests \in Nat /\ credits \in Nat /\ spent \in Nat /\ unseen \in Nat /\ through \in Nat
  /\ transports \in [SourcesOf -> SUBSET Labels]

Init ==
  /\ task = [t \in Tasks |-> NewTask]
  /\ gate = [k \in Keys |-> None] /\ cache = [k \in Keys |-> None]
  /\ circuit = FALSE /\ probe = NoProbe /\ place = None
  /\ requests = 0 /\ credits = 0 /\ transports = [s \in SourcesOf |-> {}]
  /\ spent = 0 /\ unseen = 0 /\ through = 0

-----------------------------------------------------------------------------
budgetVars == <<requests, credits, spent, unseen>>

Label(t) == Channels[task[t].at]

Set(t, fields) == task' = [task EXCEPT ![t] = fields]
Released(t) == [gate EXCEPT ![KeyOf[t]] = IF @ = t THEN None ELSE @]

\* On to the next channel.
Failed(t) == [task[t] EXCEPT !.pc = "next", !.at = @ + 1, !.try = 1]

\* A channel skipped, or given up, because the proxy refuses.
Refused(t) == [Failed(t) EXCEPT !.refused = TRUE]

Ended(t, outcome) == [task[t] EXCEPT !.pc = "done", !.outcome = outcome]

Got(t, label) ==
  /\ Set(t, [Ended(t, "ok") EXCEPT !.via = label])
  /\ transports' = [transports EXCEPT ![SourceOf[t]] = @ \union {label}]
  /\ gate' = Released(t)

Call(t) ==
  /\ task[t].pc = "new" /\ Set(t, [task[t] EXCEPT !.pc = "gate"])
  /\ UNCHANGED <<gate, cache, circuit, probe, place, transports, through, budgetVars>>

Enter(t) ==
  /\ task[t].pc = "gate" /\ gate[KeyOf[t]] = None
  /\ IF cache[KeyOf[t]] # None THEN Got(t, cache[KeyOf[t]])
     ELSE /\ gate' = [gate EXCEPT ![KeyOf[t]] = t]
          /\ Set(t, [task[t] EXCEPT !.pc = "next"])
          /\ UNCHANGED transports
  /\ UNCHANGED <<cache, circuit, probe, place, through, budgetVars>>

GiveUp(t) ==
  /\ task[t].pc = "next" /\ task[t].at > Len(Channels)
  /\ Set(t, Ended(t, IF task[t].refused /\ ~task[t].alone THEN "proxy" ELSE "error"))
  /\ gate' = Released(t)
  /\ UNCHANGED <<cache, circuit, probe, place, transports, through, budgetVars>>

TryIndependent(t) ==
  /\ task[t].pc = "next" /\ task[t].at <= Len(Channels) /\ Label(t) \notin Proxied
  /\ Set(t, [task[t] EXCEPT !.alone = TRUE,
                            !.pc = IF Label(t) = "scrape_do" THEN "scraping" ELSE "asking"])
  /\ UNCHANGED <<gate, cache, circuit, probe, place, transports, through, budgetVars>>

\* A request leaves through the proxy, unless it has been refused meanwhile.
Send(t) ==
  IF circuit THEN Set(t, Refused(t)) /\ UNCHANGED through
  ELSE Set(t, [task[t] EXCEPT !.pc = "asking"]) /\ through' = through + 1

TryProxied(t) ==
  /\ task[t].pc = "next" /\ task[t].at <= Len(Channels) /\ Label(t) \in Proxied
  /\ CASE circuit -> Set(t, Refused(t)) /\ UNCHANGED <<probe, through>>
       [] ~circuit /\ probe.st = "done" -> Send(t) /\ UNCHANGED probe
       [] ~circuit /\ probe.st = "running" ->
            Set(t, [task[t] EXCEPT !.pc = "probing"]) /\ UNCHANGED <<probe, through>>
       [] OTHER ->
            /\ probe' = [st |-> "running", by |-> t, result |-> None]
            /\ Set(t, [task[t] EXCEPT !.pc = "probing"])
            /\ through' = through + 1
  /\ UNCHANGED <<gate, cache, circuit, place, transports, budgetVars>>

\* The probe ends, whether or not the task that began it still waits.
ProbeEnds(result) ==
  /\ probe.st = "running"
  /\ probe' = [probe EXCEPT !.st = "done", !.result = result]
  /\ circuit' = (circuit \/ result = "refused")
  /\ UNCHANGED <<task, gate, cache, place, transports, through, budgetVars>>

\* What the probe found is the answer of the task that began it.  A refusal
\* holds for all that waited; after anything else they send their own.
ProbeSeen(t) ==
  /\ task[t].pc = "probing" /\ probe.st = "done"
  /\ CASE probe.result = "refused" ->
            Set(t, Refused(t)) /\ UNCHANGED <<gate, cache, transports, through>>
       [] probe.result = "failed" /\ probe.by = t ->
            Set(t, Failed(t)) /\ UNCHANGED <<gate, cache, transports, through>>
       [] probe.result = "ok" /\ probe.by = t ->
            Got(t, Label(t)) /\ cache' = [cache EXCEPT ![KeyOf[t]] = Label(t)] /\ UNCHANGED through
       [] OTHER -> Send(t) /\ UNCHANGED <<gate, cache, transports>>
  /\ UNCHANGED <<circuit, probe, place, budgetVars>>

\* A body that fits its contract is the snapshot.
Answer(t) ==
  /\ task[t].pc = "asking"
  /\ Got(t, Label(t)) /\ cache' = [cache EXCEPT ![KeyOf[t]] = Label(t)]
  /\ UNCHANGED <<circuit, probe, place, through, budgetVars>>

AnswerFails(t) ==
  /\ task[t].pc = "asking" /\ Set(t, Failed(t))
  /\ UNCHANGED <<gate, cache, circuit, probe, place, transports, through, budgetVars>>

\* A blocked session is tried again on the channel.
AskAgain(t) ==
  /\ task[t].pc = "asking" /\ task[t].try < Attempts
  /\ CASE Label(t) \notin Proxied -> Set(t, [task[t] EXCEPT !.try = @ + 1]) /\ UNCHANGED through
       [] Label(t) \in Proxied /\ circuit -> Set(t, Refused(t)) /\ UNCHANGED through
       [] OTHER -> Set(t, [task[t] EXCEPT !.try = @ + 1]) /\ through' = through + 1
  /\ UNCHANGED <<gate, cache, circuit, probe, place, transports, budgetVars>>

ProxyRefuses(t) ==
  /\ task[t].pc = "asking" /\ Label(t) \in Proxied
  /\ circuit' = TRUE /\ Set(t, Refused(t))
  /\ UNCHANGED <<gate, cache, probe, place, transports, through, budgetVars>>

\* A page of HSReplay is refused: pages are not asked for through the gate.
PageRefused ==
  /\ ~circuit /\ circuit' = TRUE
  /\ UNCHANGED <<task, gate, cache, probe, place, transports, through, budgetVars>>

-----------------------------------------------------------------------------
(* Scrape.do.                                                              *)

MayReserve == requests < MaxRequests /\ credits + 1 <= MaxCredits

Reserve(t) ==
  /\ task[t].pc = "scraping" /\ place = None
  /\ IF MayReserve
     THEN /\ requests' = requests + 1 /\ credits' = credits + 1
          /\ place' = t /\ Set(t, [task[t] EXCEPT !.pc = "paying"])
     ELSE Set(t, Failed(t)) /\ UNCHANGED <<requests, credits, place>>
  /\ UNCHANGED <<gate, cache, circuit, probe, transports, through, spent, unseen>>

Accounted(cost) == credits + (IF cost > 1 THEN cost - 1 ELSE 0)

\* An answer whose cost breaks the budget is dropped, whatever it says.
Scraped(t, cost, kind) ==
  /\ task[t].pc = "paying" /\ place' = None
  /\ credits' = Accounted(cost) /\ spent' = spent + cost
  /\ CASE credits' <= MaxCredits /\ kind = "ok" ->
            Got(t, Label(t)) /\ cache' = [cache EXCEPT ![KeyOf[t]] = Label(t)]
       [] credits' <= MaxCredits /\ kind = "busy" /\ task[t].try < Attempts ->
            /\ Set(t, [task[t] EXCEPT !.pc = "scraping", !.try = @ + 1])
            /\ UNCHANGED <<gate, cache, transports>>
       [] OTHER -> Set(t, Failed(t)) /\ UNCHANGED <<gate, cache, transports>>
  /\ UNCHANGED <<circuit, probe, requests, unseen, through>>

\* The connection breaks: what the call cost is not known.
ScrapeBreaks(t, cost) ==
  /\ task[t].pc = "paying" /\ place' = None
  /\ spent' = spent + cost /\ unseen' = unseen + (Accounted(cost) - credits)
  /\ Set(t, Failed(t))
  /\ UNCHANGED <<gate, cache, circuit, probe, requests, credits, transports, through>>

\* The time of the source is up.
Cancel(t) ==
  /\ task[t].pc \notin {"new", "done"}
  /\ Set(t, Ended(t, "cancelled")) /\ gate' = Released(t)
  /\ place' = IF place = t THEN None ELSE place
  /\ \/ task[t].pc # "paying" /\ UNCHANGED <<spent, unseen>>
     \/ /\ task[t].pc = "paying"
        /\ \E cost \in Costs : spent' = spent + cost /\ unseen' = unseen + (Accounted(cost) - credits)
  /\ UNCHANGED <<cache, circuit, probe, requests, credits, transports, through>>

Next ==
  \/ PageRefused
  \/ \E result \in {"ok", "refused", "failed"} : ProbeEnds(result)
  \/ \E t \in Tasks :
       \/ Call(t) \/ Enter(t) \/ GiveUp(t) \/ TryIndependent(t) \/ TryProxied(t)
       \/ ProbeSeen(t) \/ Answer(t) \/ AnswerFails(t) \/ AskAgain(t) \/ ProxyRefuses(t)
       \/ Reserve(t) \/ Cancel(t)
       \/ \E cost \in Costs :
            ScrapeBreaks(t, cost) \/ \E kind \in {"ok", "busy", "bad"} : Scraped(t, cost, kind)

Spec == Init /\ [][Next]_vars

-----------------------------------------------------------------------------
\* Until the probe is answered it is the only request that goes through the proxy,
\* also when the task that began it has been cancelled
\* (_fetch_body_with_proxy_probe_gate).
OneProbe ==
  probe.st # "done" =>
    /\ \A t \in Tasks : ~(task[t].pc = "asking" /\ Label(t) \in Proxied)
    /\ through <= 1

\* After a refusal nothing is sent through the proxy any more, whoever waited for
\* the probe or was about to try again (_current_proxy_circuit_error).
RefusedProxyRestsStep == circuit => circuit' /\ through' = through

\* A snapshot is fetched by one task at a time and never fetched twice
\* (fetch_hsreplay_json).
OneFetchPerSnapshot ==
  \A t \in Tasks :
    task[t].pc \in {"next", "probing", "asking", "scraping", "paying"} =>
      gate[KeyOf[t]] = t /\ cache[KeyOf[t]] = None

\* Scrape.do answers one call at a time; the calls stay within the budget, and the
\* credits pass it by less than one answer, apart from what an answer that never
\* came has cost (_reserve_scrape_do_request, _account_scrape_do_actual_cost).
ScrapeBudgetKept ==
  /\ Cardinality({t \in Tasks : task[t].pc = "paying"}) <= 1
  /\ requests <= MaxRequests
  /\ spent - unseen <= MaxCredits + MaxCost - 1

\* A task gives up for the proxy only when it was refused and no channel was left
\* that does without it (the end of _fetch_hsreplay_json_serialized).
GivesUpRightly ==
  \A t \in Tasks :
    task[t].outcome = "proxy" => circuit /\ Labels \subseteq Proxied

\* The channels reported for a source are those its snapshots came through, those
\* it found in the cache included (_record_json_transport).
AttributionIsTrue ==
  \A s \in SourcesOf :
    transports[s] = {task[t].via : t \in {u \in Tasks : SourceOf[u] = s /\ task[u].outcome = "ok"}}
=============================================================================
