----------------------------- MODULE LogLoading -----------------------------
(***************************************************************************)
(* Loading an uploaded bGeigie log file into the table bgeigie_logs        *)
(* (app/models/bgeigie_import.rb, BgeigieImport#process), one SQL          *)
(* statement at a time.  Every statement is its own transaction, and every *)
(* run of process goes through one and the same table, bgeigie_logs_tmp.   *)
(*                                                                         *)
(* A run is carried out by a delayed_job worker (ProcessBgeigieImportJob)  *)
(* or by a web thread (the action process_button, which calls process      *)
(* inside the request).                                                    *)
(***************************************************************************)
EXTENDS Integers, FiniteSets

CONSTANTS
    Imports,      \* uploaded files, i.e. rows of measurement_imports
    Lines,        \* sane lines of log files; a line stands for its md5sum
    File,         \* File[i] is the set of lines of the file of import i
    Unloadable,   \* imports whose file psql's \copy refuses
    Deletable,    \* imports their owner may destroy
    Workers,      \* delayed_job worker processes
    Requests,     \* web requests for the action process_button
    NoImport,     \* SQL NULL in the column bgeigie_import_id
    MaxAttempts,  \* delayed_job gives a job up after this many failures
    MaxCrashes    \* bound on the number of killed processes

Actors == Workers \cup Requests

ASSUME FileAssumption == File \in [Imports -> SUBSET Lines]
ASSUME SubsetAssumption == Unloadable \subseteq Imports /\ Deletable \subseteq Imports
ASSUME NullAssumption == NoImport \notin Imports
ASSUME ActorsAssumption == Workers \cap Requests = {}
ASSUME BoundAssumption == MaxAttempts \in Nat \ {0} /\ MaxCrashes \in Nat
ASSUME FiniteAssumption == IsFiniteSet(Imports) /\ IsFiniteSet(Lines)

VARIABLES
    import,       \* rows of measurement_imports
    bgeigie_logs, \* rows of bgeigie_logs
    tmp,          \* the table bgeigie_logs_tmp
    job,          \* the ProcessBgeigieImportJob of each import
    run,          \* what each worker and web thread is doing
    crashes       \* processes killed so far

vars == <<import, bgeigie_logs, tmp, job, run, crashes>>

-----------------------------------------------------------------------------
(* Types *)

\* Flags of the store status_details that process sets.
Details == {"process_file", "import_bgeigie_logs", "compute_latlng"}

ImportRow ==
    [stored: BOOLEAN, status: {"unprocessed", "processed"}, rejected: BOOLEAN,
     measurements_count: Nat, details: SUBSET Details]

NewImport ==
    [stored |-> TRUE, status |-> "unprocessed", rejected |-> FALSE,
     measurements_count |-> 0, details |-> {}]

\* A row of bgeigie_logs or of bgeigie_logs_tmp: md5sum, bgeigie_import_id,
\* and whether computed_location is set.
LogRow == [line: Lines, owner: Imports \cup {NoImport}, located: BOOLEAN]

TmpTable == [exists: BOOLEAN, rows: SUBSET LogRow]
NoTable == [exists |-> FALSE, rows |-> {}]

Job == [state: {"none", "queued", "running", "done", "failed"}, attempts: Nat]

Steps == {"idle", "answered", "create_tmp_file", "drop", "create", "copy", "reject",
          "set_id", "latlng", "select", "insert", "count", "set_count", "confirm_logs",
          "ensure_drop", "confirm_latlng", "set_status", "check_auto_approve"}

\* details is the run's own copy of status_details, pending the rows that the
\* snapshot of a running INSERT ... SELECT holds, written those of them it has
\* inserted and not committed, and counted the result of the last count.
Run == [pc: Steps, import: Imports \cup {NoImport}, details: SUBSET Details,
        pending: SUBSET LogRow, written: SUBSET LogRow, counted: Nat, raised: BOOLEAN]

IdleRun == [pc |-> "idle", import |-> NoImport, details |-> {},
            pending |-> {}, written |-> {}, counted |-> 0, raised |-> FALSE]

TypeOK ==
    /\ import \in [Imports -> ImportRow]
    /\ bgeigie_logs \subseteq LogRow
    /\ tmp \in TmpTable
    /\ job \in [Imports -> Job]
    /\ run \in [Actors -> Run]
    /\ crashes \in 0 .. MaxCrashes

LinesIn(rows) == {r.line : r \in rows}
LogsOf(i) == {r \in bgeigie_logs : r.owner = i}

Init ==
    /\ import = [i \in Imports |-> [NewImport EXCEPT !.stored = FALSE]]
    /\ bgeigie_logs = {}
    /\ tmp = NoTable
    /\ job = [i \in Imports |-> [state |-> "none", attempts |-> 0]]
    /\ run = [a \in Actors |-> IdleRun]
    /\ crashes = 0

-----------------------------------------------------------------------------
(* Uploads, and the queue that delayed_job keeps *)

\* An upload is saved and its processing job enqueued.
Upload(i) ==
    /\ job[i].state = "none"
    /\ import' = [import EXCEPT ![i] = NewImport]
    /\ job' = [job EXCEPT ![i].state = "queued"]
    /\ UNCHANGED <<bgeigie_logs, tmp, run, crashes>>

\* A fresh instance of the import is read and process is entered.
Enter(a, i) ==
    /\ import[i].stored
    /\ run' = [run EXCEPT ![a] = [IdleRun EXCEPT !.pc = "create_tmp_file",
                                    !.import = i, !.details = import[i].details]]
    /\ UNCHANGED <<import, bgeigie_logs, tmp, crashes>>

\* A failed attempt is rescheduled until MaxAttempts is reached.
Reschedule(j) ==
    [state |-> IF j.attempts + 1 < MaxAttempts THEN "queued" ELSE "failed",
     attempts |-> j.attempts + 1]

StartJob(w, i) ==
    /\ run[w].pc = "idle"
    /\ job[i].state = "queued"
    /\ job' = [job EXCEPT ![i].state = "running"]
    /\ Enter(w, i)

\* The import was destroyed: find raises RecordNotFound.
JobNotFound(w, i) ==
    /\ run[w].pc = "idle"
    /\ job[i].state = "queued"
    /\ ~import[i].stored
    /\ job' = [job EXCEPT ![i] = Reschedule(@)]
    /\ UNCHANGED <<import, bgeigie_logs, tmp, run, crashes>>

process_button(q, i) ==
    /\ run[q].pc = "idle"
    /\ Enter(q, i)
    /\ UNCHANGED job

-----------------------------------------------------------------------------
(* The statements of process.  i is the import of the run of actor a. *)

\* UPDATE measurement_imports ... WHERE id = i: no row, no effect.
Write(i, row) == import' = [import EXCEPT ![i] = IF @.stored THEN row ELSE @]

\* confirm_status saves the run's own copy of status_details as a whole.
Confirmed(a, item) == run[a].details \cup {item}

Goto(a, pc) == run' = [run EXCEPT ![a].pc = pc]

\* An exception inside import_to_bgeigie_logs leads to its ensure clause.
Raise(a) == run' = [run EXCEPT ![a].pc = "ensure_drop", ![a].raised = TRUE]

\* INSERT ... SELECT holds a lock on the table it reads until it is done,
\* so that DROP TABLE waits for it.
TmpUnlocked == \A b \in Actors : run[b].pc # "insert"

create_tmp_file(a) ==
    LET i == run[a].import IN
    /\ run[a].pc = "create_tmp_file"
    /\ Write(i, [import[i] EXCEPT !.details = Confirmed(a, "process_file")])
    /\ run' = [run EXCEPT ![a].pc = "drop", ![a].details = Confirmed(a, "process_file")]
    /\ UNCHANGED <<bgeigie_logs, tmp, job, crashes>>

\* Fault: the leftover of a killed run is not dropped.
fault_keep_leftover(a) ==
    /\ run[a].pc = "drop"
    /\ Goto(a, "create")
    /\ UNCHANGED <<import, bgeigie_logs, tmp, job, crashes>>

\* DROP TABLE IF EXISTS bgeigie_logs_tmp
drop_if_exists(a) ==
    /\ run[a].pc = "drop"
    /\ TmpUnlocked
    /\ tmp' = NoTable
    /\ Goto(a, "create")
    /\ UNCHANGED <<import, bgeigie_logs, job, crashes>>

\* Fault: the table is created before the DROP, and so is not there.
fault_create_before_drop(a) ==
    /\ run[a].pc = "create"
    /\ Goto(a, "copy")
    /\ UNCHANGED <<import, bgeigie_logs, tmp, job, crashes>>

\* CREATE TABLE raises if the table exists.
create_tmp_table(a) ==
    /\ run[a].pc = "create"
    /\ \/ /\ ~tmp.exists
          /\ tmp' = [exists |-> TRUE, rows |-> {}]
          /\ Goto(a, "copy")
       \/ /\ tmp.exists
          /\ Raise(a)
          /\ UNCHANGED tmp
    /\ UNCHANGED <<import, bgeigie_logs, job, crashes>>

\* psql loads the file, all of it or none; the exit status is looked at next.
run_psql_command(a) ==
    LET i == run[a].import
        loads == tmp.exists /\ i \notin Unloadable
    IN
    /\ run[a].pc = "copy"
    /\ \/ /\ loads
          /\ tmp' = [tmp EXCEPT !.rows = @ \cup
                       [line: File[i], owner: {NoImport}, located: {FALSE}]]
          /\ Goto(a, "set_id")
       \/ /\ ~loads
          /\ Goto(a, "reject")
          /\ UNCHANGED tmp
    /\ UNCHANGED <<import, bgeigie_logs, job, crashes>>

\* Fault: the status is set to rejected, which is a flag and no status.
fault_status_rejected(a) ==
    LET i == run[a].import IN
    /\ run[a].pc = "reject"
    /\ Write(i, [import[i] EXCEPT !.rejected = TRUE, !.status = "rejected"])
    /\ Goto(a, "ensure_drop")
    /\ UNCHANGED <<bgeigie_logs, tmp, job, crashes>>

process_unsuccessful(a) ==
    LET i == run[a].import IN
    /\ run[a].pc = "reject"
    /\ Write(i, [import[i] EXCEPT !.rejected = TRUE, !.status = "processed"])
    /\ Goto(a, "ensure_drop")
    /\ UNCHANGED <<bgeigie_logs, tmp, job, crashes>>

\* Fault: an UPDATE is repeated until the table is there.
fault_retry_statement(a, rows, next) ==
    /\ tmp.exists
    /\ tmp' = [tmp EXCEPT !.rows = rows]
    /\ Goto(a, next)
    /\ UNCHANGED <<import, bgeigie_logs, job, crashes>>

\* An UPDATE of every row of the temporary table; it raises without one.
UpdateTmp(a, rows, next) ==
    /\ \/ /\ tmp.exists
          /\ tmp' = [tmp EXCEPT !.rows = rows]
          /\ Goto(a, next)
       \/ /\ ~tmp.exists
          /\ Raise(a)
          /\ UNCHANGED tmp
    /\ UNCHANGED <<import, bgeigie_logs, job, crashes>>

WithOwner(r, i) == [r EXCEPT !.owner = i]
WithLocation(r) == [r EXCEPT !.located = TRUE]

\* Fault: bgeigie_import_id is left NULL.
fault_no_import_id(a) ==
    /\ run[a].pc = "set_id"
    /\ UpdateTmp(a, tmp.rows, "latlng")

set_bgeigie_import_id(a) ==
    /\ run[a].pc = "set_id"
    /\ UpdateTmp(a, {WithOwner(r, run[a].import) : r \in tmp.rows}, "latlng")

\* Fault: computed_location is left NULL.
fault_no_location(a) ==
    /\ run[a].pc = "latlng"
    /\ UpdateTmp(a, tmp.rows, "select")

compute_latlng_from_nmea(a) ==
    /\ run[a].pc = "latlng"
    /\ UpdateTmp(a, {WithLocation(r) : r \in tmp.rows}, "select")

\* Fault: a file that shares a line with an earlier one is skipped.
fault_skip_overlapping ==
    IF LinesIn(tmp.rows) \cap LinesIn(bgeigie_logs) = {} THEN tmp.rows ELSE {}

\* Rows whose md5sum the left join does not find in bgeigie_logs.
Missing == {r \in tmp.rows : r.line \notin LinesIn(bgeigie_logs)}

\* The INSERT ... SELECT takes its snapshot,
populate_select(a) ==
    /\ run[a].pc = "select"
    /\ \/ /\ tmp.exists
          /\ run' = [run EXCEPT ![a].pc = "insert", ![a].pending = Missing]
       \/ /\ ~tmp.exists
          /\ Raise(a)
    /\ UNCHANGED <<import, bgeigie_logs, tmp, job, crashes>>

\* The INSERT of b would violate the unique index on md5sum with row r.
Violates(b, r) == r.line \in LinesIn(bgeigie_logs \cup run[b].written)

\* The INSERT of b waits with row r until that of c is committed or undone.
Waits(b, c, r) == b # c /\ r.line \in LinesIn(run[c].written)

Unwritten(b) == run[b].pending \ run[b].written

\* INSERTs that have come to wait for each other.
InDeadlock(a) ==
    \E D \in SUBSET Actors :
        /\ a \in D
        /\ \A b \in D : \E c \in D, r \in Unwritten(b) : Waits(b, c, r)

\* The statement fails, and with it everything it has written.
Undo(a) ==
    run' = [run EXCEPT ![a].pc = "ensure_drop", ![a].raised = TRUE,
                       ![a].pending = {}, ![a].written = {}]

\* and inserts its rows, in any order, unless the unique index is violated,
populate_insert(a) ==
    /\ run[a].pc = "insert"
    /\ \/ \E r \in Unwritten(a) :
             /\ ~Violates(a, r)
             /\ \A c \in Actors : ~Waits(a, c, r)
             /\ run' = [run EXCEPT ![a].written = @ \cup {r}]
       \/ /\ \/ \E r \in Unwritten(a) : Violates(a, r)
             \/ InDeadlock(a)
          /\ Undo(a)
    /\ UNCHANGED <<import, bgeigie_logs, tmp, job, crashes>>

\* all of them or none.
populate_commit(a) ==
    /\ run[a].pc = "insert"
    /\ run[a].written = run[a].pending
    /\ bgeigie_logs' = bgeigie_logs \cup run[a].pending
    /\ run' = [run EXCEPT ![a].pc = "count", ![a].pending = {}, ![a].written = {}]
    /\ UNCHANGED <<import, tmp, job, crashes>>

\* Fault: the lines of the file are counted, not the logs of the import.
fault_count_file(a) ==
    /\ run[a].pc = "count"
    /\ run' = [run EXCEPT ![a].pc = "set_count",
                          ![a].counted = Cardinality(File[run[a].import])]
    /\ UNCHANGED <<import, bgeigie_logs, tmp, job, crashes>>

\* SELECT COUNT(*), whose result is written by the next statement.
count_logs(a) ==
    /\ run[a].pc = "count"
    /\ run' = [run EXCEPT ![a].pc = "set_count",
                          ![a].counted = Cardinality(LogsOf(run[a].import))]
    /\ UNCHANGED <<import, bgeigie_logs, tmp, job, crashes>>

set_measurements_count(a) ==
    LET i == run[a].import IN
    /\ run[a].pc = "set_count"
    /\ Write(i, [import[i] EXCEPT !.measurements_count = run[a].counted])
    /\ Goto(a, "confirm_logs")
    /\ UNCHANGED <<bgeigie_logs, tmp, job, crashes>>

confirm_import_bgeigie_logs(a) ==
    LET i == run[a].import IN
    /\ run[a].pc = "confirm_logs"
    /\ Write(i, [import[i] EXCEPT !.details = Confirmed(a, "import_bgeigie_logs")])
    /\ run' = [run EXCEPT ![a].pc = "ensure_drop",
                          ![a].details = Confirmed(a, "import_bgeigie_logs")]
    /\ UNCHANGED <<bgeigie_logs, tmp, job, crashes>>

\* The run of a ends.  A worker's attempt at its job ends with it, a request is
\* answered.
EndRun(a, outcome) ==
    \/ /\ a \in Workers
       /\ run' = [run EXCEPT ![a] = IdleRun]
       /\ job' = [job EXCEPT ![run[a].import] = outcome]
    \/ /\ a \in Requests
       /\ run' = [run EXCEPT ![a] = [IdleRun EXCEPT !.pc = "answered"]]
       /\ UNCHANGED job

\* DROP TABLE in the ensure clause raises if the table is gone.
drop_tmp_table(a) ==
    LET raises == run[a].raised \/ ~tmp.exists IN
    /\ run[a].pc = "ensure_drop"
    /\ TmpUnlocked
    /\ tmp' = NoTable
    /\ \/ ~raises /\ Goto(a, "confirm_latlng") /\ UNCHANGED job
       \/ raises /\ EndRun(a, Reschedule(job[run[a].import]))
    /\ UNCHANGED <<import, bgeigie_logs, crashes>>

Succeed(j) == [j EXCEPT !.state = "done"]

confirm_compute_latlng(a) ==
    LET i == run[a].import IN
    /\ run[a].pc = "confirm_latlng"
    /\ Write(i, [import[i] EXCEPT !.details = Confirmed(a, "compute_latlng")])
    /\ run' = [run EXCEPT ![a].pc = "set_status",
                          ![a].details = Confirmed(a, "compute_latlng")]
    /\ UNCHANGED <<bgeigie_logs, tmp, job, crashes>>

set_status(a) ==
    LET i == run[a].import IN
    /\ run[a].pc = "set_status"
    /\ Write(i, [import[i] EXCEPT !.status = "processed"])
    /\ Goto(a, "check_auto_approve")
    /\ UNCHANGED <<bgeigie_logs, tmp, job, crashes>>

\* The last call of process, whose rules are a module of their own, and with it
\* the end of the job.
check_auto_approve(a) ==
    /\ run[a].pc = "check_auto_approve"
    /\ EndRun(a, Succeed(job[run[a].import]))
    /\ UNCHANGED <<import, bgeigie_logs, tmp, crashes>>

-----------------------------------------------------------------------------
(* The environment *)

\* The owner destroys an import, and its logs with it, in one transaction.
destroy(i) ==
    /\ i \in Deletable
    /\ import[i].stored
    /\ import' = [import EXCEPT ![i].stored = FALSE]
    /\ bgeigie_logs' = bgeigie_logs \ LogsOf(i)
    /\ UNCHANGED <<tmp, job, run, crashes>>

\* Fault: the lock of a killed worker on its job never expires.
fault_lock_stays(j) == j

\* A process is killed, and a statement it was in is undone.  The lock it held
\* on its job expires, and the job is queued again.
Requeue(j) == [j EXCEPT !.state = "queued"]

Crash(a) ==
    /\ crashes < MaxCrashes
    /\ run[a].pc \notin {"idle", "answered"}
    /\ EndRun(a, Requeue(job[run[a].import]))
    /\ crashes' = crashes + 1
    /\ UNCHANGED <<import, bgeigie_logs, tmp>>

ProcessStep(a) ==
    \/ create_tmp_file(a)
    \/ drop_if_exists(a)
    \/ create_tmp_table(a)
    \/ run_psql_command(a)
    \/ process_unsuccessful(a)
    \/ set_bgeigie_import_id(a)
    \/ compute_latlng_from_nmea(a)
    \/ populate_select(a)
    \/ populate_insert(a)
    \/ populate_commit(a)
    \/ count_logs(a)
    \/ set_measurements_count(a)
    \/ confirm_import_bgeigie_logs(a)
    \/ drop_tmp_table(a)
    \/ confirm_compute_latlng(a)
    \/ set_status(a)
    \/ check_auto_approve(a)

TakeJob(w) == \E i \in Imports : StartJob(w, i) \/ JobNotFound(w, i)

Next ==
    \/ \E i \in Imports : Upload(i) \/ destroy(i)
    \/ \E w \in Workers : TakeJob(w)
    \/ \E q \in Requests, i \in Imports : process_button(q, i)
    \/ \E a \in Actors : ProcessStep(a) \/ Crash(a)

\* Workers take jobs, and workers and requests get on with their statements.
Fairness ==
    /\ \A w \in Workers : WF_vars(TakeJob(w))
    /\ \A a \in Actors : WF_vars(ProcessStep(a))

Spec == Init /\ [][Next]_vars
FairSpec == Spec /\ Fairness

-----------------------------------------------------------------------------
(* Properties *)

\* No one is working on import i, and no attempt at it is still due.
Settled(i) ==
    /\ job[i].state \notin {"queued", "running"}
    /\ \A a \in Actors : run[a].import # i

\* Every stored log line belongs to the import whose file it was read from and
\* has its location computed: set_bgeigie_import_id and
\* compute_latlng_from_nmea update every row of the shared table.
OwnLines ==
    \A r \in bgeigie_logs :
        r.owner \in Imports /\ r.line \in File[r.owner] /\ r.located

\* Once a file is loaded and nothing is pending, each of its lines is in
\* bgeigie_logs, under this import or under an earlier one that had the line,
\* however often the run was killed and repeated.
NoLineLost ==
    \A i \in Imports :
        Settled(i) /\ "import_bgeigie_logs" \in import[i].details
            => File[i] \subseteq LinesIn(bgeigie_logs)

\* Once a run at an import is over, measurements_count, shown to moderators, is
\* the number of logs the import really has: the count, its UPDATE and the status
\* are three statements, between which the worker may be killed.
CountAgrees ==
    \A i \in Imports :
        import[i].stored /\ Settled(i) /\ import[i].status = "processed"
            => import[i].measurements_count = Cardinality(LogsOf(i))

\* The table that a killed run leaves never makes process reject a good file: with
\* a single actor it rejects only what psql cannot load.  (A second actor can drop
\* the table before \copy, and then process does reject a good file.)
RejectedOnlyIfUnloadable ==
    \A i \in Imports : import[i].rejected => i \in Unloadable

\* With a single actor a run recovers from whatever a killed one left behind: the
\* only attempts that fail are those whose import was destroyed.
OnlyDestroyedImportsFail ==
    \A i \in Imports : job[i].attempts > 0 => ~import[i].stored

\* However runs get in each other's way, a job is done or given up in the end: no
\* run waits forever for the shared table or for the INSERT of another run.
JobsEnd ==
    \A i \in Imports :
        job[i].state \in {"queued", "running"} ~> job[i].state \in {"done", "failed"}

\* Every upload is eventually processed, or destroyed by its owner.
EventuallyProcessed ==
    \A i \in Imports :
        import[i].stored ~> (import[i].status = "processed" \/ ~import[i].stored)

\* What processing amounts to with one worker: each import is loaded in one
\* atomic step, with a location and under its own id.
Store == INSTANCE LogStore WITH
    stored <- {i \in Imports : import[i].stored},
    logs <- bgeigie_logs

AtomicLoads == Store!Spec
=============================================================================
