-------------------------- MODULE PublishedDataset --------------------------
(***************************************************************************)
(* What the protected publication channel promises its readers and its    *)
(* administrator, without files, locks, attempts or processes: one served  *)
(* version, the versions a rollback may return to, and the mutable copy    *)
(* behind them.  DatasetPublication implements it.                         *)
(***************************************************************************)
EXTENDS Integers, FiniteSets

CONSTANTS
  Versions,    \* dataset versions
  NoVersion,   \* nothing can be served
  FetchedAt,   \* fetched_at of each version
  Retention,   \* versions kept, the served one included
  Repairs      \* the start-up repair runs beside the refreshes

VARIABLES
  served,      \* the version readers are given
  kept,        \* the versions a rollback may choose from
  copy,        \* the compatibility copy
  losses       \* files damaged or lost, writes that failed

vars == <<served, kept, copy, losses>>

TypeOK ==
  /\ served \in Versions \union {NoVersion}
  /\ kept \in SUBSET (Versions \ {served})
  /\ Cardinality(kept) < Retention
  /\ copy \in Versions \union {NoVersion}
  /\ losses \in Nat

\* Nothing is published; a dataset of before the channel may exist.
Init ==
  /\ served = NoVersion
  /\ kept = {}
  /\ copy \in Versions \union {NoVersion}
  /\ losses = 0

\* What may be kept when v takes over: what was there, the replaced version
\* in any case, and all of it unless the retention is exhausted.
Keep(v) ==
  LET pool == (kept \union {served}) \ {v, NoVersion}
  IN  /\ kept' \subseteq pool
      /\ served \notin {v, NoVersion} => served \in kept'
      /\ Cardinality(kept') < Retention
      /\ kept' # pool => Cardinality(kept') = Retention - 1

\* A refresh replaces the served version by a newer one.
Publish(v) ==
  /\ served # NoVersion
  /\ FetchedAt[v] > FetchedAt[served]
  /\ served' = v
  /\ Keep(v)
  /\ UNCHANGED <<copy, losses>>

\* A refresh publishes where nothing can be served; records that survived
\* become available again.
Restore(v) ==
  /\ served = NoVersion
  /\ served' = v
  /\ kept' \in SUBSET (Versions \ {v})
  /\ Cardinality(kept') < Retention
  /\ UNCHANGED <<copy, losses>>

\* The administrator returns to a kept version.
Rollback(v) ==
  /\ v \in kept
  /\ served' = v
  /\ Keep(v)
  /\ UNCHANGED <<copy, losses>>

\* The start-up repair decides outside of the transaction that publishes: all
\* it promises is not to lose what it replaces.
Repair(v) ==
  /\ Repairs
  /\ served # NoVersion
  /\ served' = v
  /\ Keep(v)
  /\ UNCHANGED <<copy, losses>>

\* The copy is brought up to date, with what is served at that moment.
Reconcile ==
  /\ served # NoVersion
  /\ copy' = served
  /\ UNCHANGED <<served, kept, losses>>

\* A file is lost outside of the program, or a write of the copy fails: the one
\* way in which a served or kept version disappears.
Lose ==
  /\ losses' = losses + 1
  /\ served' \in {served, NoVersion}
  /\ kept' \in SUBSET kept
  /\ copy' = copy

Next ==
  \/ \E v \in Versions : Publish(v) \/ Restore(v) \/ Rollback(v)
                        \/ Repair(v)
  \/ Reconcile
  \/ Lose

Spec == Init /\ [][Next]_vars
=============================================================================
