------------------------------- MODULE Copias -------------------------------
(* Backups of the database (apps/core/services.py, backup_database) over the   *)
(* saves of Registo: pg_dump into a file named by the second, then gzip.       *)
(*                                                                            *)
(* The daily task, the button of the administrator, the script that runs in    *)
(* the container of the database and the one that reacts to a low battery      *)
(* share one directory and know nothing of each other.                         *)
EXTENDS Registo

CONSTANTS
  Backups,     \* processes that make one backup each, at most
  LastSecond,  \* bound: the clock
  MaxFailures  \* bound: pg_dump processes that fail

\* What pg_dump reads, and a file: the process that opened it last, the snapshot
\* it holds, None when it holds parts of two, and whether that is all of it.
Images == [rows : [Entities -> Row \cup {None}],
           outbox : [Entities -> Seq([operation : {"create", "update", "delete"}, row : Row])]]
Files == [by : Backups, image : Images \cup {None}, whole : BOOLEAN]

ASSUME CopiasAssumption ==
  /\ LastSecond \in Nat /\ MaxFailures \in Nat
  /\ IsFiniteSet(Backups) /\ IsFiniteSet(Workers)
  /\ None \notin Images \cup Files

VARIABLES
  now,       \* the clock that names the files
  dumps,     \* second -> the file .sql, or None
  archives,  \* second -> the file .sql.gz, or None
  backup,    \* process -> step, second and, for backup.sh, no --force
  source,    \* process -> the .sql its gzip has opened, or None
  stopping,  \* the process of the shutdown by the battery, or None
  failures

backupVars == <<now, dumps, archives, backup, source, stopping, failures>>
allVars == <<vars, backupVars>>

Seconds == 0 .. LastSecond

\* The rows committed when pg_dump starts.
Snapshot == [rows |-> rows, outbox |-> outbox]

File(b, image, whole) == [by |-> b, image |-> image, whole |-> whole]

Owned(b, file) == file # None /\ file.by = b

At(b, step) == backup[b].step = step
GoTo(b, step) == backup' = [backup EXCEPT ![b].step = step]

\* Another process is still writing the file of b's second.
Contended(b, step) ==
  \E o \in Backups \ {b} : At(o, step) /\ backup[o].second = backup[b].second

-----------------------------------------------------------------------------
Tick ==
  /\ now < LastSecond /\ now' = now + 1
  /\ UNCHANGED <<dumps, archives, backup, source, stopping, failures>>

\* backup_list_view "run_now", the daily Schedule of Django-Q, the command, and
\* scripts/backup.sh: the second is read.
BackupRequest(b, forced) ==
  /\ At(b, "none")
  /\ backup' = [backup EXCEPT ![b] = [step |-> "named", second |-> now, forced |-> forced]]
  /\ UNCHANGED <<now, dumps, archives, source, stopping, failures>>

\* ups_graceful_shutdown.sh: a last backup, if web is running.
LowBattery(b) ==
  /\ stopping = None /\ At(b, "none")
  /\ stopping' = b
  /\ backup' = [backup EXCEPT ![b] = [step |-> "named", second |-> now, forced |-> TRUE]]
  /\ UNCHANGED <<now, dumps, archives, source, failures>>

\* pg_dump takes its snapshot and truncates the file, in which another one may
\* still be writing, and which a gzip may be reading.
DumpStarts(b) ==
  LET s == backup[b].second
      read == {o \in Backups : source[o] # None /\ backup[o].second = s /\ dumps[s] # None}
  IN /\ At(b, "named") /\ GoTo(b, "dump")
     /\ dumps' = [dumps EXCEPT ![s] =
                    File(b, IF Contended(b, "dump") THEN None ELSE Snapshot, FALSE)]
     /\ source' = [o \in Backups |-> IF o \in read THEN [source[o] EXCEPT !.whole = FALSE]
                                    ELSE source[o]]
     /\ UNCHANGED <<now, archives, stopping, failures>>

\* It ends; the file may have been truncated by another one, or removed by gzip.
DumpEnds(b) ==
  LET s == backup[b].second
  IN /\ At(b, "dump") /\ GoTo(b, "dumped")
     /\ dumps' = IF Owned(b, dumps[s])
                 THEN [dumps EXCEPT ![s].whole = dumps[s].image # None] ELSE dumps
     /\ UNCHANGED <<now, archives, source, stopping, failures>>

\* Fault: the pipe of pg_dump into gzip, which ends well although pg_dump fails.
DumpFailsUnseen(b) ==
  /\ At(b, "dump") /\ failures < MaxFailures /\ failures' = failures + 1
  /\ GoTo(b, "dumped")
  /\ UNCHANGED <<now, dumps, archives, source, stopping>>

\* check=True, set -e: gzip does not run. What there is of the dump stays.
DumpFails(b) ==
  /\ At(b, "dump") /\ failures < MaxFailures /\ failures' = failures + 1
  /\ GoTo(b, "failed")
  /\ UNCHANGED <<now, dumps, archives, source, stopping>>

(* gzip opens both files. Without --force it refuses an archive that exists,   *)
(* and either way a dump that another gzip has removed.                        *)
GzipStarts(b) ==
  LET s == backup[b].second
  IN /\ At(b, "dumped")
     /\ IF dumps[s] = None \/ (~ backup[b].forced /\ archives[s] # None)
        THEN GoTo(b, "failed") /\ UNCHANGED <<archives, source>>
        ELSE /\ GoTo(b, "gzip")
             /\ source' = [source EXCEPT ![b] = dumps[s]]
             /\ archives' = [archives EXCEPT ![s] = File(b, dumps[s].image, FALSE)]
     /\ UNCHANGED <<now, dumps, stopping, failures>>

\* The archive is complete, unless another gzip has replaced it; the dump is
\* removed, whoever has written it.
GzipEnds(b) ==
  LET s == backup[b].second
  IN /\ At(b, "gzip") /\ GoTo(b, "done")
     /\ archives' = IF Owned(b, archives[s])
                    THEN [archives EXCEPT ![s].whole = source[b].whole] ELSE archives
     /\ dumps' = [dumps EXCEPT ![s] = None]
     /\ source' = [source EXCEPT ![b] = None]
     /\ UNCHANGED <<now, stopping, failures>>

\* An error of gzip removes what it has written.
GzipFails(b) ==
  LET s == backup[b].second
  IN /\ At(b, "gzip") /\ GoTo(b, "failed")
     /\ failures < MaxFailures /\ failures' = failures + 1
     /\ archives' = IF Owned(b, archives[s]) THEN [archives EXCEPT ![s] = None] ELSE archives
     /\ source' = [source EXCEPT ![b] = None]
     /\ UNCHANGED <<now, dumps, stopping>>

Running(b) == backup[b].step \in {"named", "dump", "dumped", "gzip"}

\* A backup is killed with its container, and leaves its files as they are.
Killed(b) ==
  /\ Running(b) /\ GoTo(b, "killed")
  /\ crashes < MaxCrashes /\ crashes' = crashes + 1
  /\ source' = [source EXCEPT ![b] = None]
  /\ UNCHANGED <<rows, outbox, trail, lock, pc, task, requests>>
  /\ UNCHANGED <<now, dumps, archives, stopping, failures>>

(* docker compose stop, whether the last backup has succeeded or not, and      *)
(* docker compose up later: every process ends, and its transaction with it.   *)
Stop ==
  LET killed == {b \in Backups : Running(b)}
      dead == {w \in Workers : pc[w] # "idle"}
  IN /\ stopping # None /\ ~ Running(stopping)
     /\ stopping' = None
     /\ crashes' = crashes + Cardinality(killed) + Cardinality(dead) /\ crashes' <= MaxCrashes
     /\ backup' = [b \in Backups |-> IF b \in killed THEN [backup[b] EXCEPT !.step = "killed"]
                                     ELSE backup[b]]
     /\ source' = [b \in Backups |-> None]
     /\ pc' = [w \in Workers |-> "idle"] /\ task' = [w \in Workers |-> None]
     /\ lock' = [e \in Entities |-> None]
     /\ UNCHANGED <<rows, outbox, trail, requests, now, dumps, archives, failures>>

\* _list_backups: any file of that name, complete or not.
Listed == {s \in Seconds : archives[s] # None}

BackupsInit ==
  /\ now = 0 /\ failures = 0 /\ stopping = None
  /\ dumps = [s \in Seconds |-> None] /\ archives = [s \in Seconds |-> None]
  /\ backup = [b \in Backups |-> [step |-> "none", second |-> 0, forced |-> TRUE]]
  /\ source = [b \in Backups |-> None]

BackupStep(b) ==
  \/ \E forced \in BOOLEAN : BackupRequest(b, forced)
  \/ LowBattery(b)
  \/ DumpStarts(b) \/ DumpEnds(b) \/ DumpFails(b)
  \/ GzipStarts(b) \/ GzipEnds(b) \/ GzipFails(b)

CopiasInit == Init /\ BackupsInit

CopiasNext ==
  \/ Next /\ UNCHANGED backupVars
  \/ (Tick \/ \E b \in Backups : BackupStep(b)) /\ UNCHANGED vars
  \/ Stop \/ \E b \in Backups : Killed(b)

CopiasSpec == CopiasInit /\ [][CopiasNext]_allVars

-----------------------------------------------------------------------------
\* The seconds at which two backups or more were named.
Shared ==
  {s \in Seconds : Cardinality({b \in Backups : ~ At(b, "none") /\ backup[b].second = s}) > 1}

Damaged ==
  {s \in Listed : ~ archives[s].whole /\ \A b \in Backups : At(b, "gzip") => backup[b].second # s}

\* backup_database, "so a failing pg_dump can't produce a corrupt-but-successful-
\* looking .sql.gz": whatever fails, an archive that nobody is writing holds a
\* whole database, unless its backup was killed or shared its second with
\* another; and in the database it restores, the rows that are saved in a
\* transaction are recorded in the outbox, at whatever moment the dump began.
ArchivesRestore ==
  /\ \A s \in Damaged \ Shared : \E b \in Backups : At(b, "killed") /\ backup[b].second = s
  /\ \A s \in Listed : archives[s].whole =>
       \A e \in Locked : \E n \in DOMAIN archives[s].image.outbox[e] :
         archives[s].image.outbox[e][n].row = archives[s].image.rows[e]
=============================================================================
