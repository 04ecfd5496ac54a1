-------------------------------- MODULE SyncJob --------------------------------
(***************************************************************************)
(* The shell script that runs the syncs of the panel one at a time         *)
(* (panel/scripts/run_sync_job.sh).  A run waits hours for the global      *)
(* lock, runs the commands of its job while they end well and tells the    *)
(* status file what became of it.  The status file is read, changed,       *)
(* written to a temporary file and renamed into place; a run that gives up *)
(* waiting does so without the lock, beside the run that has it, and all   *)
(* share the temporary file.  A file that is empty or cannot be parsed     *)
(* says of every job what an absent one does.                              *)
(*                                                                         *)
(* The locks belong to open files, which the commands inherit: they are    *)
(* free when the shell and its command are gone.                           *)
(***************************************************************************)
EXTENDS Integers, FiniteSets

CONSTANTS
  Runs,            \* activations of the unit, by its timer or by hand
  JobOf,           \* the job each is for
  Commands,        \* the number of commands of each job
  MaxKills         \* bound: shells that die

VARIABLES
  pc,
  locks,           \* the runs whose processes have the global lock open and locked
  stage,           \* the command of a run, 0: none
  live,            \* the runs whose command is alive
  exit,            \* the code of the last command
  copy,            \* the page a run made of the status file it has read
  verdict,         \* what it says there of its job
  temp,            \* the temporary file, if there is one
  handle,          \* what has become of the temporary file a run has open
  mixed,           \* the runs whose open file another has opened or written, too
  status,
  stopped,         \* the runs told to stop
  kills,
  lost             \* history: the jobs whose entry was overwritten beside the lock, or
                   \* could not be written

files == <<temp, handle, mixed>>
vars == <<pc, locks, stage, live, exit, copy, verdict, files, status, stopped, kills, lost>>

SyncJobs == {JobOf[r] : r \in Runs}
Words == {"none", "running", "ok", "error", "canceled", "lock_timeout", "skipped_locked"}
NoCopy == [j \in SyncJobs |-> "none"]

TypeOK ==
  /\ pc \in [Runs -> {"idle", "waiting", "reading", "opening", "writing", "renaming",
                      "commands", "done", "dead"}]
  /\ locks \in SUBSET Runs /\ stage \in [Runs -> Nat] /\ live \subseteq Runs
  /\ exit \in [Runs -> BOOLEAN] /\ copy \in [Runs -> [SyncJobs -> Words]]
  /\ verdict \in [Runs -> Words] /\ status \in [SyncJobs -> Words]
  /\ temp \subseteq [SyncJobs -> Words] /\ Cardinality(temp) <= 1
  /\ handle \in [Runs -> {"temp", "status", "gone"}] /\ mixed \subseteq Runs
  /\ stopped \subseteq Runs /\ kills \in 0 .. MaxKills /\ lost \subseteq SyncJobs

Init ==
  /\ pc = [r \in Runs |-> "idle"] /\ locks = {} /\ stage = [r \in Runs |-> 0]
  /\ live = {} /\ exit = [r \in Runs |-> TRUE] /\ copy = [r \in Runs |-> NoCopy]
  /\ temp = {} /\ handle = [r \in Runs |-> "temp"] /\ mixed = {}
  /\ verdict = [r \in Runs |-> "none"] /\ status = NoCopy /\ stopped = {} /\ kills = 0
  /\ lost = {}

Start(r) ==
  /\ pc[r] = "idle"
  /\ pc' = [pc EXCEPT ![r] = "waiting"]
  /\ UNCHANGED <<locks, stage, live, exit, copy, verdict, files, status, stopped, kills, lost>>

Tell(r, word) ==
  /\ verdict' = [verdict EXCEPT ![r] = word]
  /\ pc' = [pc EXCEPT ![r] = "reading"]

\* The lock of the job itself is taken under the global one, and is free.
TakeLock(r) ==
  /\ pc[r] = "waiting" /\ locks = {}
  /\ locks' = {r} /\ Tell(r, "running")
  /\ UNCHANGED <<stage, live, exit, copy, files, status, stopped, kills, lost>>

LockTimeout(r) ==
  /\ pc[r] = "waiting" /\ locks # {}
  /\ Tell(r, "lock_timeout")
  /\ UNCHANGED <<locks, stage, live, exit, copy, files, status, stopped, kills, lost>>

ReadStatus(r) ==
  /\ pc[r] = "reading"
  /\ copy' = [copy EXCEPT ![r] = [status EXCEPT ![JobOf[r]] = verdict[r]]]
  /\ pc' = [pc EXCEPT ![r] = "opening"]
  /\ UNCHANGED <<locks, stage, live, exit, verdict, files, status, stopped, kills, lost>>

\* The runs that have the present temporary file open.
Sharing == {q \in Runs : pc[q] = "writing" /\ handle[q] = "temp"}

\* write_text truncates the file, under whoever has it open or has written it.
OpenTemp(r) ==
  /\ pc[r] = "opening"
  /\ temp' = {NoCopy}
  /\ mixed' = IF Sharing = {} THEN mixed ELSE mixed \union Sharing \union {r}
  /\ pc' = [pc EXCEPT ![r] = "writing"]
  /\ UNCHANGED <<locks, stage, live, exit, copy, verdict, handle, status, stopped, kills, lost>>

\* The entries that no longer say what was told of their jobs.  Those of other jobs go
\* back to what they were when the file was read.
Overwritten(r) ==
  (lost \union {j \in SyncJobs : status'[j] # status[j]} \union {JobOf[r]})
    \ {j \in {JobOf[r]} : status'[j] = verdict[r]}

\* The page goes to the file that was opened, whatever it is called by now; two pages in
\* one file may leave no page.
WriteTemp(r) ==
  /\ pc[r] = "writing"
  /\ \E page \in {copy[r]} \union (IF r \in mixed THEN {NoCopy} ELSE {}) :
       CASE handle[r] = "temp" -> temp' = {page} /\ UNCHANGED <<status, lost>>
         [] handle[r] = "status" -> status' = page /\ lost' = Overwritten(r) /\ UNCHANGED temp
         [] handle[r] = "gone" -> UNCHANGED <<temp, status, lost>>
  /\ pc' = [pc EXCEPT ![r] = "renaming"] /\ copy' = [copy EXCEPT ![r] = NoCopy]
  /\ handle' = [handle EXCEPT ![r] = "temp"] /\ mixed' = mixed \ {r}
  /\ UNCHANGED <<locks, stage, live, exit, verdict, stopped, kills>>

\* The temporary file becomes the status file, whosever page it holds; one that others
\* have open is theirs still.
Rename(r) ==
  /\ pc[r] = "renaming" /\ temp # {}
  /\ temp' = {} /\ status' \in temp /\ lost' = Overwritten(r)
  /\ handle' = [q \in Runs |-> IF pc[q] # "writing" THEN "temp"
                               ELSE IF handle[q] = "temp" THEN "status" ELSE "gone"]
  /\ IF verdict[r] = "running"
     THEN pc' = [pc EXCEPT ![r] = "commands"] /\ UNCHANGED locks
     ELSE pc' = [pc EXCEPT ![r] = "done"] /\ locks' = locks \ {r}
  /\ UNCHANGED <<stage, live, exit, copy, verdict, mixed, stopped, kills>>

\* Another run has renamed it already: the shell ends (set -e), before its commands if it
\* was to say that they run.
RenameFails(r) ==
  /\ pc[r] = "renaming" /\ temp = {}
  /\ pc' = [pc EXCEPT ![r] = "done"] /\ locks' = locks \ {r}
  /\ lost' = lost \union {JobOf[r]}
  /\ UNCHANGED <<stage, live, exit, copy, verdict, files, status, stopped, kills>>

\* The next command runs while the ones before it ended well.
NextCommand(r) ==
  /\ pc[r] = "commands" /\ r \notin live /\ r \notin stopped
  /\ exit[r] /\ stage[r] < Commands[JobOf[r]]
  /\ stage' = [stage EXCEPT ![r] = @ + 1] /\ live' = live \union {r}
  /\ UNCHANGED <<pc, locks, exit, copy, verdict, files, status, stopped, kills, lost>>

\* A command that outlives its shell frees the lock with its end.
CommandEnds(r, ok) ==
  /\ r \in live
  /\ live' = live \ {r} /\ exit' = [exit EXCEPT ![r] = ok]
  /\ locks' = IF pc[r] = "dead" THEN locks \ {r} ELSE locks
  /\ UNCHANGED <<pc, stage, copy, verdict, files, status, stopped, kills, lost>>

\* The smoke tests of the urls decide with the code of the last of them.
Conclude(r) ==
  /\ pc[r] = "commands" /\ r \notin live /\ r \notin stopped
  /\ ~exit[r] \/ stage[r] = Commands[JobOf[r]]
  /\ \/ exit[r] /\ Tell(r, "ok")
     \/ Tell(r, "error")
  /\ UNCHANGED <<locks, stage, live, exit, copy, files, status, stopped, kills, lost>>

\* The trap runs when the command in the foreground has ended.
Terminate(r) ==
  /\ pc[r] = "commands" /\ r \notin stopped /\ kills < MaxKills
  /\ stopped' = stopped \union {r} /\ kills' = kills + 1
  /\ UNCHANGED <<pc, locks, stage, live, exit, copy, verdict, files, status, lost>>

HandleTermination(r) ==
  /\ pc[r] = "commands" /\ r \in stopped /\ r \notin live
  /\ Tell(r, "canceled")
  /\ UNCHANGED <<locks, stage, live, exit, copy, files, status, stopped, kills, lost>>

\* Killed outright, or told to stop before the trap is set.
Die(r) ==
  /\ pc[r] \notin {"idle", "done", "dead"} /\ kills < MaxKills
  /\ pc' = [pc EXCEPT ![r] = "dead"] /\ kills' = kills + 1
  /\ locks' = IF r \in live THEN locks ELSE locks \ {r}
  /\ UNCHANGED <<stage, live, exit, copy, verdict, files, status, stopped, lost>>

Next ==
  \E r \in Runs :
    \/ Start(r) \/ TakeLock(r) \/ LockTimeout(r) \/ ReadStatus(r)
    \/ OpenTemp(r) \/ WriteTemp(r) \/ Rename(r) \/ RenameFails(r)
    \/ NextCommand(r) \/ \E ok \in BOOLEAN : CommandEnds(r, ok)
    \/ Conclude(r) \/ Terminate(r) \/ HandleTermination(r) \/ Die(r)

Spec == Init /\ [][Next]_vars

-----------------------------------------------------------------------------
\* No two commands write the tables of the panel at a time, not even when the shell
\* of one has died.
OneSyncAtATime == Cardinality(live) <= 1

\* A job that is told to be well has run all its commands, each of them well; one
\* told to be running has a run, unless the run died or a run that gave up waiting
\* wrote the file beside it.
StatusTells ==
  \A j \in SyncJobs \ lost :
    /\ status[j] = "ok" => \E r \in Runs : JobOf[r] = j /\ exit[r] /\ stage[r] = Commands[j]
    /\ status[j] = "running" =>
         \E r \in Runs : JobOf[r] = j /\ pc[r] \notin {"idle", "waiting", "done"}

\* A command runs only after those before it ended well.
CommandsInOrderStep ==
  \A r \in Runs : stage'[r] # stage[r] => exit[r] /\ r \notin live /\ r \notin stopped
=============================================================================
