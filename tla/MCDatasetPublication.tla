------------------------ MODULE MCDatasetPublication ------------------------
(* Small instances of DatasetPublication for TLC. *)
EXTENDS DatasetPublication, TLC

CONSTANTS v1, v2, v3

\* v1 < v2 < v3 in time.
FetchOrder == [v \in Versions |-> CASE v = v1 -> 1 [] v = v2 -> 2 [] OTHER -> 3]

\* What an idle writer remembers is never read again, except its number.
Live(w) ==
  IF pc[w] = "idle" THEN <<>>
  ELSE <<role[w], ver[w], IF role[w] = "bootstrap" THEN base[w] ELSE NoVersion,
         IF pc[w] = "reconciling" \/ pc[w] \in {"cached", "uncached"}
         THEN outcome[w] ELSE "ok">>

LiveView ==
  <<attemptVars, files, manifestVars, syncVars, lock, pc, gen, boundVars,
    [w \in Writers |-> Live(w)]>>

WriterSymmetry == Permutations(Writers)
=============================================================================
