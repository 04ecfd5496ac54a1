---------------------------- MODULE ResourceLocks ----------------------------
(***************************************************************************)
(* The locks of the parser jobs (app/resource_locks.py) and the ways they  *)
(* are used.  A job names the resources it needs, in one set or, as the    *)
(* archetype analysis does, in a second set for its publication; the locks *)
(* of a set are taken one by one, without waiting, in the order of their   *)
(* names.  A job of mode "all" gives up everything at the first lock that  *)
(* another process holds, a job of mode "each" (refresh_sources) leaves    *)
(* that resource out and goes on.  The lock is a flock on a file that is   *)
(* never removed; the file holds the owner's description, written after    *)
(* the flock.  The kernel frees the flocks of a process that dies.         *)
(*                                                                         *)
(* Resources are numbered in the order of their names.                     *)
(***************************************************************************)
EXTENDS Integers, Sequences, FiniteSets

CONSTANTS
  Jobs,
  Resources,
  Stages,          \* Stages[j] : the lock sets of a job, one after the other
  Mode,            \* Mode[j] : "all" or "each"
  Nobody,          \* no owner, or a description nobody can read
  MaxFaults        \* bound: deaths and failed writes

\* The lock sets are sequences of sets of resources, no job is "nobody".
LocksAssumption ==
  /\ Resources \subseteq Nat
  /\ Stages \in [Jobs -> Seq(SUBSET Resources)]
  /\ \A j \in Jobs : Len(Stages[j]) > 0
                     /\ \A s \in 1 .. Len(Stages[j]) : IsFiniteSet(Stages[j][s])
  /\ Mode \in [Jobs -> {"all", "each"}]
  /\ Nobody \notin Jobs
  /\ MaxFaults \in Nat

VARIABLES
  pc,              \* where a job is
  stage,           \* which of its sets it works with
  todo,            \* the locks it has not tried yet
  held,            \* its flocks
  skipped,         \* the resources a job of mode "each" goes without
  described,       \* whom the lock file describes
  faults

lockVars == <<pc, stage, todo, held, skipped, described, faults>>

Needs(j) == UNION {Stages[j][s] : s \in 1 .. stage[j]}

LocksTypeOK ==
  /\ pc \in [Jobs -> {"idle", "taking", "locked", "running", "releasing"}]
  /\ \A j \in Jobs : stage[j] \in 1 .. Len(Stages[j])
  /\ stage \in [Jobs -> Nat]
  /\ todo \in [Jobs -> SUBSET Resources]
  /\ held \in [Jobs -> SUBSET Resources]
  /\ skipped \in [Jobs -> SUBSET Resources]
  /\ described \in [Resources -> Jobs \union {Nobody}]
  /\ faults \in 0 .. MaxFaults
  /\ \A j \in Jobs : pc[j] = "running" => todo[j] = {}

LocksInit ==
  /\ pc = [j \in Jobs |-> "idle"]
  /\ stage = [j \in Jobs |-> 1]
  /\ todo = [j \in Jobs |-> {}]
  /\ held = [j \in Jobs |-> {}]
  /\ skipped = [j \in Jobs |-> {}]
  /\ described = [r \in Resources |-> Nobody]
  /\ faults = 0

\* flock would succeed
Free(r) == \A k \in Jobs : r \notin held[k]

\* the next lock of the sorted set
IsNext(j, r) == r \in todo[j] /\ \A q \in todo[j] : r <= q

-----------------------------------------------------------------------------
\* A timer or a caller starts the job, which tries its first set.
Start(j) ==
  /\ pc[j] = "idle"
  /\ pc' = [pc EXCEPT ![j] = "taking"]
  /\ stage' = [stage EXCEPT ![j] = 1]
  /\ todo' = [todo EXCEPT ![j] = Stages[j][1]]
  /\ skipped' = [skipped EXCEPT ![j] = {}]
  /\ UNCHANGED <<held, described, faults>>

\* Mutant: the process does not ask whether the flock was granted.
TakeUnasked(j, r) ==
  /\ pc[j] = "taking" /\ IsNext(j, r)
  /\ held' = [held EXCEPT ![j] = @ \union {r}]
  /\ pc' = [pc EXCEPT ![j] = "locked"]
  /\ UNCHANGED <<stage, todo, skipped, described, faults>>

\* The flock is granted; the description still is the previous owner's.
Take(j, r) ==
  /\ pc[j] = "taking" /\ IsNext(j, r)
  /\ Free(r)
  /\ held' = [held EXCEPT ![j] = @ \union {r}]
  /\ pc' = [pc EXCEPT ![j] = "locked"]
  /\ UNCHANGED <<stage, todo, skipped, described, faults>>

\* The description is written, and the next lock or the work begins.
Describe(j, r) ==
  /\ pc[j] = "locked" /\ IsNext(j, r)
  /\ described' = [described EXCEPT ![r] = j]
  /\ todo' = [todo EXCEPT ![j] = @ \ {r}]
  /\ pc' = [pc EXCEPT ![j] = IF todo[j] = {r} THEN "running" ELSE "taking"]
  /\ UNCHANGED <<stage, held, skipped, faults>>

\* Another process holds the lock: ResourceLocked, and the flocks go back.
Refused(j, r) ==
  /\ pc[j] = "taking" /\ IsNext(j, r)
  /\ ~Free(r)
  /\ Mode[j] = "all"
  /\ pc' = [pc EXCEPT ![j] = "releasing"]
  /\ UNCHANGED <<stage, todo, held, skipped, described, faults>>

\* refresh_sources leaves the locked source out; with none left it returns.
SkipLocked(j, r) ==
  /\ pc[j] = "taking" /\ IsNext(j, r)
  /\ ~Free(r)
  /\ Mode[j] = "each"
  /\ todo' = [todo EXCEPT ![j] = @ \ {r}]
  /\ skipped' = [skipped EXCEPT ![j] = @ \union {r}]
  /\ pc' = [pc EXCEPT ![j] = IF todo[j] # {r} THEN "taking"
                             ELSE IF held[j] = {} THEN "releasing" ELSE "running"]
  /\ UNCHANGED <<stage, held, described, faults>>

\* The work of a set is done: the next set is tried, or the locks go back.
FinishWork(j) ==
  /\ pc[j] = "running"
  /\ IF stage[j] < Len(Stages[j])
     THEN /\ stage' = [stage EXCEPT ![j] = @ + 1]
          /\ todo' = [todo EXCEPT ![j] = Stages[j][stage[j] + 1]]
          /\ pc' = [pc EXCEPT ![j] = "taking"]
     ELSE /\ pc' = [pc EXCEPT ![j] = "releasing"]
          /\ UNCHANGED <<stage, todo>>
  /\ UNCHANGED <<held, skipped, described, faults>>

\* release: one flock after the other, the last one first
Release(j) ==
  /\ pc[j] = "releasing"
  /\ IF held[j] = {}
     THEN /\ pc' = [pc EXCEPT ![j] = "idle"]
          /\ UNCHANGED held
     ELSE /\ \E r \in held[j] : /\ \A q \in held[j] : q <= r
                                /\ held' = [held EXCEPT ![j] = @ \ {r}]
          /\ UNCHANGED pc
  /\ UNCHANGED <<stage, todo, skipped, described, faults>>

\* The description cannot be written: the file stays empty, acquire releases
\* what it has and raises.
WriteFails(j, r) ==
  /\ faults < MaxFaults
  /\ pc[j] = "locked" /\ IsNext(j, r)
  /\ described' = [described EXCEPT ![r] = Nobody]
  /\ pc' = [pc EXCEPT ![j] = "releasing"]
  /\ faults' = faults + 1
  /\ UNCHANGED <<stage, todo, held, skipped>>

\* The process dies and the kernel closes its files.
ProcessDies(j) ==
  /\ faults < MaxFaults
  /\ pc[j] # "idle"
  /\ pc' = [pc EXCEPT ![j] = "idle"]
  /\ held' = [held EXCEPT ![j] = {}]
  /\ faults' = faults + 1
  /\ UNCHANGED <<stage, todo, skipped, described>>

Step(j) ==
  \/ Start(j)
  \/ \E r \in Resources : \/ Take(j, r)
                          \/ Describe(j, r)
                          \/ Refused(j, r)
                          \/ SkipLocked(j, r)
  \/ FinishWork(j)
  \/ Release(j)

LocksNext == \E j \in Jobs : \/ Step(j)
                        \/ \E r \in Resources : WriteFails(j, r)
                        \/ ProcessDies(j)

LocksSpec == LocksInit /\ [][LocksNext]_lockVars

-----------------------------------------------------------------------------
\* The resources a job works with.
Uses(j) == IF pc[j] = "running" THEN Needs(j) \ skipped[j] ELSE {}

\* Two jobs never work with one resource: a job that goes on after a refusal
\* has left that resource out, one that goes on to a second set still has the
\* first (acquire, refresh_sources, the publication guard of the analysis).
NoSharedWork ==
  \A j, k \in Jobs : j # k => Uses(j) \intersect Uses(k) = {}

\* The lock files of a working job describe that job, whoever else tried the
\* locks, failed to write or died (the owner an outcome reports).
WorkersAreDescribed ==
  \A j \in Jobs : \A r \in Uses(j) : described[r] = j

\* A job that is back from its run, refused, failed or finished, has left no
\* flock behind (release in acquire's except branch and in the callers).
IdleHoldNothing ==
  \A j \in Jobs : pc[j] = "idle" => held[j] = {}
=============================================================================
