-------------------------- MODULE MCConvergenceChain --------------------------
(* Small instances of ConvergenceChain for TLC. *)
EXTENDS ConvergenceChain, TLC

CONSTANTS s1, s2, shared

\* The lengths of the lists matter, and that delays, leases and deadlines
\* overlap.  retry_local is executed by no worker.
ShortDelays ==
  [a \in Retries |-> IF a = "retry_transport" THEN <<1, 2>> ELSE <<1>>]

ShortHorizons ==
  [a \in Retries \union Stops |-> IF a = "retry_local" THEN 2 ELSE MaxTime - 1]

Executed == Retries \ {"retry_local"}

\* Only the first source can be probed.
Probes ==
  [a \in Executed |-> IF a = "probe_upstream" THEN {s1} ELSE Sources]

ShortLeases == [a \in Executed |-> IF a = "probe_upstream" THEN 1 ELSE 2]

SameOwner == [w \in Workers |-> shared]

\* What an idle process remembers is never read again, and a publication
\* matters only when it is newer than the failure that makes the chain.
LiveView ==
  <<now, reports, cursor, storeVars, pc, crashes,
    [s \in Sources |-> reports # <<>> /\ freshAt[s] > reports[1].at],
    IF planner.step = "planning" THEN <<planner>>
    ELSE IF planner.step = "idle" THEN <<>> ELSE <<planner.last>>,
    [w \in Workers |-> IF pc[w] = "idle" THEN <<>> ELSE <<claim[w]>>]>>

WorkerSymmetry == Permutations(Workers)
=============================================================================
