-------------------------- MODULE LogLoadingProofs --------------------------
(***************************************************************************)
(* What is proved about LogLoading for all files, imports and bounds: its  *)
(* type invariant for any number of workers and requests, OwnLines and     *)
(* AtomicLoads for a single one.                                           *)
(***************************************************************************)
EXTENDS LogLoading, TLAPS, FiniteSetTheorems

-----------------------------------------------------------------------------
(* Types *)

\* There are finitely many possible rows, so that rows can be counted.
LEMMA LogRowFinite == IsFiniteSet(LogRow)
<1> DEFINE Owners == Imports \cup {NoImport}
           Triples == (Lines \X Owners) \X BOOLEAN
           AsRow == [t \in Triples |->
                       [line |-> t[1][1], owner |-> t[1][2], located |-> t[2]]]
<1>1. IsFiniteSet(Owners)
  BY FS_AddElement, FiniteAssumption
<1>2. IsFiniteSet(BOOLEAN)
  <2>1. IsFiniteSet({TRUE}) /\ IsFiniteSet({FALSE})
    BY FS_Singleton
  <2>2. BOOLEAN = {TRUE} \cup {FALSE}
    OBVIOUS
  <2> QED BY <2>1, <2>2, FS_Union
<1>3. IsFiniteSet(Triples)
  BY <1>1, <1>2, FS_Product, FiniteAssumption
<1>4. AsRow \in Surjection(Triples, LogRow)
  <2>1. AsRow \in [Triples -> LogRow]
    BY DEF LogRow
  <2>2. ASSUME NEW r \in LogRow
        PROVE  \E t \in Triples : AsRow[t] = r
    <3>1. <<<<r.line, r.owner>>, r.located>> \in Triples
      BY DEF LogRow
    <3>2. AsRow[<<<<r.line, r.owner>>, r.located>>] = r
      BY <3>1 DEF LogRow
    <3> QED BY <3>1, <3>2
  <2> QED BY <2>1, <2>2 DEF Surjection
<1> QED BY <1>3, <1>4, FS_Surjection

LEMMA CountType ==
    ASSUME bgeigie_logs \subseteq LogRow, NEW i \in Imports
    PROVE  Cardinality(LogsOf(i)) \in Nat
<1>1. LogsOf(i) \subseteq LogRow
  BY DEF LogsOf
<1> QED BY <1>1, LogRowFinite, FS_Subset, FS_CardinalityType

\* A run that is under way has an import.
RunsHaveImport ==
    \A a \in Actors : run[a].pc \notin {"idle", "answered"} => run[a].import \in Imports

TypeInv == TypeOK /\ RunsHaveImport

LEMMA TypeInit == Init => TypeInv
<1> SUFFICES ASSUME Init
             PROVE  TypeInv
  OBVIOUS
<1>1. import \in [Imports -> ImportRow]
  BY DEF Init, NewImport, ImportRow
<1>2. bgeigie_logs \subseteq LogRow /\ tmp \in TmpTable
  BY DEF Init, NoTable, TmpTable
<1>3. job \in [Imports -> Job]
  BY DEF Init, Job
<1>4. run \in [Actors -> Run]
  BY DEF Init, IdleRun, Run, Steps
<1>5. crashes \in 0 .. MaxCrashes
  BY BoundAssumption DEF Init
<1>6. RunsHaveImport
  BY DEF Init, IdleRun, RunsHaveImport
<1> QED BY <1>1, <1>2, <1>3, <1>4, <1>5, <1>6 DEF TypeInv, TypeOK

LEMMA EnterType ==
    ASSUME TypeInv, NEW a \in Actors, NEW i \in Imports, Enter(a, i)
    PROVE  TypeInv' \/ job' \notin [Imports -> Job]
BY DEF TypeInv, TypeOK, RunsHaveImport, Enter, ImportRow, Run, IdleRun, Steps

LEMMA EndRunType ==
    ASSUME TypeInv, NEW a \in Actors, NEW j \in Job, EndRun(a, j)
    PROVE  /\ job' \in [Imports -> Job]
           /\ run' \in [Actors -> Run]
           /\ RunsHaveImport'
<1> DEFINE Ended == [IdleRun EXCEPT !.pc = "answered"]
<1>1. run' = [run EXCEPT ![a] = IdleRun] \/ run' = [run EXCEPT ![a] = Ended]
  BY DEF EndRun
<1>2. IdleRun \in Run /\ Ended \in Run
  BY DEF IdleRun, Run, Steps
<1>3. IdleRun.pc = "idle" /\ Ended.pc = "answered"
  BY DEF IdleRun
<1>4. run' \in [Actors -> Run]
  BY <1>1, <1>2 DEF TypeInv, TypeOK
<1>5. RunsHaveImport'
  <2> SUFFICES ASSUME NEW b \in Actors, run'[b].pc \notin {"idle", "answered"}
               PROVE  run'[b].import \in Imports
    BY DEF RunsHaveImport
  <2>1. b # a
    BY <1>1, <1>3 DEF TypeInv, TypeOK
  <2>2. run'[b] = run[b]
    BY <1>1, <2>1 DEF TypeInv, TypeOK
  <2> QED BY <2>2 DEF TypeInv, RunsHaveImport
<1>6. job' \in [Imports -> Job]
  BY DEF EndRun, TypeInv, TypeOK
<1> QED BY <1>4, <1>5, <1>6

LEMMA OutcomeType ==
    ASSUME NEW j \in Job
    PROVE  Reschedule(j) \in Job /\ Succeed(j) \in Job /\ Requeue(j) \in Job
BY DEF Job, Reschedule, Succeed, Requeue

LEMMA RunType ==
    ASSUME TypeInv, NEW a \in Actors, run[a].import \in Imports,
           NEW r \in Run, r.import = run[a].import, run' = [run EXCEPT ![a] = r]
    PROVE  run' \in [Actors -> Run] /\ RunsHaveImport'
BY DEF TypeInv, TypeOK, RunsHaveImport

LEMMA GotoType ==
    ASSUME TypeInv, NEW a \in Actors, run[a].import \in Imports,
           NEW p \in Steps, Goto(a, p) \/ (Raise(a) /\ p = "ensure_drop")
    PROVE  run' \in [Actors -> Run] /\ RunsHaveImport'
<1>1. run[a] \in Run
  BY DEF TypeInv, TypeOK
<1>2. CASE Goto(a, p)
  <2> DEFINE r == [run[a] EXCEPT !.pc = p]
  <2>1. r \in Run /\ r.import = run[a].import
    BY <1>1 DEF Run
  <2>2. run' = [run EXCEPT ![a] = r]
    BY <1>2 DEF Goto
  <2> QED BY <2>1, <2>2, RunType
<1>3. CASE Raise(a)
  <2> DEFINE r == [run[a] EXCEPT !.pc = "ensure_drop", !.raised = TRUE]
  <2>1. r \in Run /\ r.import = run[a].import
    BY <1>1 DEF Run, Steps
  <2>2. run' = [run EXCEPT ![a] = r]
    BY <1>3 DEF Raise
  <2> QED BY <2>1, <2>2, RunType
<1> QED BY <1>2, <1>3

LEMMA WriteType ==
    ASSUME TypeInv, NEW i \in Imports, NEW r \in ImportRow, Write(i, r)
    PROVE  import' \in [Imports -> ImportRow]
BY DEF TypeInv, TypeOK, Write

LEMMA ProcessStepType ==
    ASSUME TypeInv, NEW a \in Actors, ProcessStep(a)
    PROVE  TypeInv'
<1> DEFINE i == run[a].import
<1>p. run[a].pc \notin {"idle", "answered"}
  <2> USE DEF ProcessStep
  <2>1. run[a].pc \in Steps \ {"idle", "answered"}
    BY DEF Steps, create_tmp_file, drop_if_exists, create_tmp_table, run_psql_command,
       process_unsuccessful, set_bgeigie_import_id, compute_latlng_from_nmea, populate_select,
       populate_insert, populate_commit, count_logs, set_measurements_count,
       confirm_import_bgeigie_logs, drop_tmp_table, confirm_compute_latlng, set_status,
       check_auto_approve
  <2> QED BY <2>1
<1>i. i \in Imports /\ import[i] \in ImportRow /\ run[a] \in Run
  BY <1>p DEF TypeInv, TypeOK, RunsHaveImport
<1>d. \A item \in Details : Confirmed(a, item) \in SUBSET Details
  BY <1>i DEF Confirmed, Run
<1>1. CASE create_tmp_file(a)
  <2> DEFINE d == Confirmed(a, "process_file")
             r == [run[a] EXCEPT !.pc = "drop", !.details = d]
  <2>1. d \in SUBSET Details
    BY <1>d DEF Details
  <2>2. import' \in [Imports -> ImportRow]
    <3>1. [import[i] EXCEPT !.details = d] \in ImportRow
      BY <1>i, <2>1 DEF ImportRow
    <3> QED BY <1>1, <1>i, <3>1, WriteType DEF create_tmp_file
  <2>3. r \in Run /\ r.import = i
    BY <1>i, <2>1 DEF Run, Steps
  <2>4. run' = [run EXCEPT ![a] = r]
    BY <1>1 DEF create_tmp_file
  <2>5. run' \in [Actors -> Run] /\ RunsHaveImport'
    BY <1>i, <2>3, <2>4, RunType
  <2> QED BY <1>1, <2>2, <2>5 DEF create_tmp_file, TypeInv, TypeOK
<1>2. CASE drop_if_exists(a)
  <2>1. run' \in [Actors -> Run] /\ RunsHaveImport'
    BY <1>2, <1>i, GotoType DEF drop_if_exists, Steps
  <2> QED BY <1>2, <2>1 DEF drop_if_exists, TypeInv, TypeOK, NoTable, TmpTable
<1>3. CASE create_tmp_table(a)
  <2>1. run' \in [Actors -> Run] /\ RunsHaveImport'
    BY <1>3, <1>i, GotoType DEF create_tmp_table, Steps
  <2>2. tmp' = [exists |-> TRUE, rows |-> {}] \/ tmp' = tmp
    BY <1>3 DEF create_tmp_table
  <2>3. tmp' \in TmpTable
    <3>1. tmp \in TmpTable
      BY DEF TypeInv, TypeOK
    <3>2. [exists |-> TRUE, rows |-> {}] \in TmpTable
      BY DEF TmpTable
    <3> QED BY <2>2, <3>1, <3>2
  <2> QED BY <1>3, <2>1, <2>3 DEF create_tmp_table, TypeInv, TypeOK
<1>4. CASE run_psql_command(a)
  <2>1. run' \in [Actors -> Run] /\ RunsHaveImport'
    BY <1>4, <1>i, GotoType DEF run_psql_command, Steps
  <2>2. tmp' \in TmpTable
    <3>1. [line: File[i], owner: {NoImport}, located: {FALSE}] \subseteq LogRow
      BY <1>i, FileAssumption DEF LogRow
    <3> QED BY <1>4, <3>1 DEF run_psql_command, TypeInv, TypeOK, TmpTable
  <2> QED BY <1>4, <2>1, <2>2 DEF run_psql_command, TypeInv, TypeOK
<1>5. CASE process_unsuccessful(a)
  <2>1. run' \in [Actors -> Run] /\ RunsHaveImport'
    BY <1>5, <1>i, GotoType DEF process_unsuccessful, Steps
  <2>2. [import[i] EXCEPT !.rejected = TRUE, !.status = "processed"] \in ImportRow
    BY <1>i DEF ImportRow
  <2>3. import' \in [Imports -> ImportRow]
    BY <1>5, <1>i, <2>2, WriteType DEF process_unsuccessful
  <2> QED BY <1>5, <2>1, <2>3 DEF process_unsuccessful, TypeInv, TypeOK
<1>6. CASE set_bgeigie_import_id(a)
  <2>1. run' \in [Actors -> Run] /\ RunsHaveImport'
    BY <1>6, <1>i, GotoType DEF set_bgeigie_import_id, UpdateTmp, Steps
  <2>2. {WithOwner(r, i) : r \in tmp.rows} \subseteq LogRow
    BY <1>i DEF TypeInv, TypeOK, TmpTable, LogRow, WithOwner
  <2> QED BY <1>6, <2>1, <2>2 DEF set_bgeigie_import_id, UpdateTmp, TypeInv, TypeOK, TmpTable
<1>7. CASE compute_latlng_from_nmea(a)
  <2>1. run' \in [Actors -> Run] /\ RunsHaveImport'
    BY <1>7, <1>i, GotoType DEF compute_latlng_from_nmea, UpdateTmp, Steps
  <2>2. {WithLocation(r) : r \in tmp.rows} \subseteq LogRow
    BY <1>i DEF TypeInv, TypeOK, TmpTable, LogRow, WithLocation
  <2> QED BY <1>7, <2>1, <2>2 DEF compute_latlng_from_nmea, UpdateTmp, TypeInv, TypeOK, TmpTable
<1>8. CASE populate_select(a)
  <2> DEFINE r == [run[a] EXCEPT !.pc = "insert", !.pending = Missing]
  <2>1. r \in Run /\ r.import = i
    BY <1>i DEF Run, Steps, Missing, TypeInv, TypeOK, TmpTable
  <2>2. run' = [run EXCEPT ![a] = r] \/ Raise(a)
    BY <1>8 DEF populate_select
  <2>3. run' \in [Actors -> Run] /\ RunsHaveImport'
    BY <1>i, <2>1, <2>2, RunType, GotoType DEF Steps
  <2> QED BY <1>8, <2>3 DEF populate_select, TypeInv, TypeOK
<1>9. CASE populate_insert(a)
  <2>1. CASE \E x \in Unwritten(a) : run' = [run EXCEPT ![a].written = @ \cup {x}]
    <3>1. PICK x \in Unwritten(a) : run' = [run EXCEPT ![a].written = @ \cup {x}]
      BY <2>1
    <3> DEFINE r == [run[a] EXCEPT !.written = @ \cup {x}]
    <3>2. r \in Run /\ r.import = i
      BY <1>i, <3>1 DEF Run, Unwritten
    <3>3. run' = [run EXCEPT ![a] = r]
      BY <3>1
    <3> QED BY <1>9, <1>i, <3>2, <3>3, RunType DEF populate_insert, TypeInv, TypeOK
  <2>2. CASE Undo(a)
    <3> DEFINE r == [run[a] EXCEPT !.pc = "ensure_drop", !.raised = TRUE,
                                   !.pending = {}, !.written = {}]
    <3>1. r \in Run /\ r.import = i
      BY <1>i DEF Run, Steps
    <3>2. run' = [run EXCEPT ![a] = r]
      BY <2>2 DEF Undo
    <3> QED BY <1>9, <1>i, <3>1, <3>2, RunType DEF populate_insert, TypeInv, TypeOK
  <2> QED BY <1>9, <2>1, <2>2 DEF populate_insert
<1>10. CASE populate_commit(a)
  <2> DEFINE r == [run[a] EXCEPT !.pc = "count", !.pending = {}, !.written = {}]
  <2>1. r \in Run /\ r.import = i
    BY <1>i DEF Run, Steps
  <2>2. run' = [run EXCEPT ![a] = r]
    BY <1>10 DEF populate_commit
  <2>3. run' \in [Actors -> Run] /\ RunsHaveImport'
    BY <1>i, <2>1, <2>2, RunType
  <2>4. bgeigie_logs' \subseteq LogRow
    BY <1>10, <1>i DEF populate_commit, TypeInv, TypeOK, Run
  <2> QED BY <1>10, <2>3, <2>4 DEF populate_commit, TypeInv, TypeOK
<1>11. CASE count_logs(a)
  <2> DEFINE n == Cardinality(LogsOf(i))
             r == [run[a] EXCEPT !.pc = "set_count", !.counted = n]
  <2>1. n \in Nat
    BY <1>i, CountType DEF TypeInv, TypeOK
  <2>2. r \in Run /\ r.import = i
    BY <1>i, <2>1 DEF Run, Steps
  <2>3. run' = [run EXCEPT ![a] = r]
    BY <1>11 DEF count_logs
  <2>4. run' \in [Actors -> Run] /\ RunsHaveImport'
    BY <1>i, <2>2, <2>3, RunType
  <2> QED BY <1>11, <2>4 DEF count_logs, TypeInv, TypeOK
<1>12. CASE set_measurements_count(a)
  <2>1. run' \in [Actors -> Run] /\ RunsHaveImport'
    BY <1>12, <1>i, GotoType DEF set_measurements_count, Steps
  <2>2. [import[i] EXCEPT !.measurements_count = run[a].counted] \in ImportRow
    BY <1>i DEF ImportRow, Run
  <2>3. import' \in [Imports -> ImportRow]
    BY <1>12, <1>i, <2>2, WriteType DEF set_measurements_count
  <2> QED BY <1>12, <2>1, <2>3 DEF set_measurements_count, TypeInv, TypeOK
<1>13. CASE confirm_import_bgeigie_logs(a)
  <2> DEFINE d == Confirmed(a, "import_bgeigie_logs")
             r == [run[a] EXCEPT !.pc = "ensure_drop", !.details = d]
  <2>1. d \in SUBSET Details
    BY <1>d DEF Details
  <2>2. import' \in [Imports -> ImportRow]
    <3>1. [import[i] EXCEPT !.details = d] \in ImportRow
      BY <1>i, <2>1 DEF ImportRow
    <3> QED BY <1>13, <1>i, <3>1, WriteType DEF confirm_import_bgeigie_logs
  <2>3. r \in Run /\ r.import = i
    BY <1>i, <2>1 DEF Run, Steps
  <2>4. run' = [run EXCEPT ![a] = r]
    BY <1>13 DEF confirm_import_bgeigie_logs
  <2>5. run' \in [Actors -> Run] /\ RunsHaveImport'
    BY <1>i, <2>3, <2>4, RunType
  <2> QED BY <1>13, <2>2, <2>5 DEF confirm_import_bgeigie_logs, TypeInv, TypeOK
<1>14. CASE drop_tmp_table(a)
  <2>1. Reschedule(job[i]) \in Job
    BY <1>i, OutcomeType DEF TypeInv, TypeOK
  <2>2. CASE Goto(a, "confirm_latlng") /\ UNCHANGED job
    <3>1. run' \in [Actors -> Run] /\ RunsHaveImport'
      BY <2>2, <1>i, GotoType DEF Steps
    <3> QED BY <1>14, <2>2, <3>1 DEF drop_tmp_table, TypeInv, TypeOK, NoTable, TmpTable
  <2>3. CASE EndRun(a, Reschedule(job[i]))
    <3>1. run' \in [Actors -> Run] /\ job' \in [Imports -> Job] /\ RunsHaveImport'
      BY <2>1, <2>3, EndRunType
    <3> QED BY <1>14, <3>1 DEF drop_tmp_table, TypeInv, TypeOK, NoTable, TmpTable
  <2> QED BY <1>14, <2>2, <2>3 DEF drop_tmp_table
<1>15. CASE confirm_compute_latlng(a)
  <2> DEFINE d == Confirmed(a, "compute_latlng")
             r == [run[a] EXCEPT !.pc = "set_status", !.details = d]
  <2>1. d \in SUBSET Details
    BY <1>d DEF Details
  <2>2. import' \in [Imports -> ImportRow]
    <3>1. [import[i] EXCEPT !.details = d] \in ImportRow
      BY <1>i, <2>1 DEF ImportRow
    <3> QED BY <1>15, <1>i, <3>1, WriteType DEF confirm_compute_latlng
  <2>3. r \in Run /\ r.import = i
    BY <1>i, <2>1 DEF Run, Steps
  <2>4. run' = [run EXCEPT ![a] = r]
    BY <1>15 DEF confirm_compute_latlng
  <2>5. run' \in [Actors -> Run] /\ RunsHaveImport'
    BY <1>i, <2>3, <2>4, RunType
  <2> QED BY <1>15, <2>2, <2>5 DEF confirm_compute_latlng, TypeInv, TypeOK
<1>16. CASE set_status(a)
  <2>1. run' \in [Actors -> Run] /\ RunsHaveImport'
    BY <1>16, <1>i, GotoType DEF set_status, Steps
  <2>2. [import[i] EXCEPT !.status = "processed"] \in ImportRow
    BY <1>i DEF ImportRow
  <2>3. import' \in [Imports -> ImportRow]
    BY <1>16, <1>i, <2>2, WriteType DEF set_status
  <2> QED BY <1>16, <2>1, <2>3 DEF set_status, TypeInv, TypeOK
<1>17. CASE check_auto_approve(a)
  <2>1. Succeed(job[i]) \in Job
    BY <1>i, OutcomeType DEF TypeInv, TypeOK
  <2>2. run' \in [Actors -> Run] /\ job' \in [Imports -> Job] /\ RunsHaveImport'
    BY <1>17, <2>1, EndRunType DEF check_auto_approve
  <2> QED BY <1>17, <2>2 DEF check_auto_approve, TypeInv, TypeOK
<1> QED
  BY <1>1, <1>2, <1>3, <1>4, <1>5, <1>6, <1>7, <1>8, <1>9, <1>10, <1>11, <1>12, <1>13, <1>14,
     <1>15, <1>16, <1>17 DEF ProcessStep

LEMMA TypeStep == TypeInv /\ [Next]_vars => TypeInv'
<1> SUFFICES ASSUME TypeInv, [Next]_vars
             PROVE  TypeInv'
  OBVIOUS
<1>1. CASE UNCHANGED vars
  BY <1>1 DEF TypeInv, TypeOK, RunsHaveImport, vars
<1>2. ASSUME NEW i \in Imports, Upload(i)
      PROVE  TypeInv'
  BY <1>2 DEF TypeInv, TypeOK, RunsHaveImport, Upload, NewImport, ImportRow, Job, Details
<1>3. ASSUME NEW i \in Imports, destroy(i)
      PROVE  TypeInv'
  BY <1>3 DEF TypeInv, TypeOK, RunsHaveImport, destroy, ImportRow
<1>4. ASSUME NEW w \in Workers, NEW i \in Imports, StartJob(w, i)
      PROVE  TypeInv'
  <2>1. w \in Actors /\ Enter(w, i)
    BY <1>4 DEF StartJob, Actors
  <2>2. job' \in [Imports -> Job]
    BY <1>4 DEF StartJob, TypeInv, TypeOK, Job
  <2> QED BY <2>1, <2>2, EnterType
<1>5. ASSUME NEW w \in Workers, NEW i \in Imports, JobNotFound(w, i)
      PROVE  TypeInv'
  <2>1. Reschedule(job[i]) \in Job
    BY OutcomeType DEF TypeInv, TypeOK
  <2> QED BY <1>5, <2>1 DEF JobNotFound, TypeInv, TypeOK, RunsHaveImport
<1>6. ASSUME NEW q \in Requests, NEW i \in Imports, process_button(q, i)
      PROVE  TypeInv'
  <2>1. q \in Actors /\ Enter(q, i)
    BY <1>6 DEF process_button, Actors
  <2>2. job' \in [Imports -> Job]
    BY <1>6 DEF process_button, TypeInv, TypeOK
  <2> QED BY <2>1, <2>2, EnterType
<1>7. ASSUME NEW a \in Actors, Crash(a)
      PROVE  TypeInv'
  <2>1. Requeue(job[run[a].import]) \in Job
    BY <1>7, OutcomeType DEF Crash, TypeInv, TypeOK, RunsHaveImport
  <2>2. run' \in [Actors -> Run] /\ job' \in [Imports -> Job] /\ RunsHaveImport'
    BY <1>7, <2>1, EndRunType DEF Crash
  <2>3. crashes' \in 0 .. MaxCrashes
    BY <1>7, BoundAssumption DEF Crash, TypeInv, TypeOK
  <2> QED BY <1>7, <2>2, <2>3 DEF Crash, TypeInv, TypeOK
<1> QED
  BY <1>1, <1>2, <1>3, <1>4, <1>5, <1>6, <1>7, ProcessStepType DEF Next, TakeJob

\* Every variable keeps its type, whatever the number of workers and requests.
THEOREM Typing == Spec => []TypeOK
<1>1. Spec => []TypeInv
  BY TypeInit, TypeStep, PTL DEF Spec
<1> QED BY <1>1, PTL DEF TypeInv

-----------------------------------------------------------------------------
(* A single actor has the temporary table to itself *)

Serial == \A a, b \in Actors : a = b

Rows(i, owner, located) == [line: File[i], owner: {owner}, located: {located}]

\* What the temporary table holds from statement to statement.
TableInv ==
    \A a \in Actors : LET i == run[a].import IN
        /\ run[a].pc = "copy" => tmp.rows = {}
        /\ run[a].pc = "set_id" => tmp.rows = Rows(i, NoImport, FALSE)
        /\ run[a].pc = "latlng" => tmp.rows = Rows(i, i, FALSE)
        /\ run[a].pc = "select" => tmp.rows = Rows(i, i, TRUE)
        /\ run[a].pc = "insert" => run[a].pending \subseteq Rows(i, i, TRUE)

OwnInv == TypeInv /\ TableInv /\ OwnLines

\* Entering process, and ending a run, say nothing about the table.
LEMMA TableUnclaimed ==
    ASSUME TableInv, NEW a \in Actors, NEW r, run \in [Actors -> Run],
           run' = [run EXCEPT ![a] = r],
           r.pc \notin {"copy", "set_id", "latlng", "select", "insert"},
           UNCHANGED tmp \/ \A b \in Actors : b = a
    PROVE  TableInv'
<1> SUFFICES ASSUME NEW b \in Actors
             PROVE  LET i == run'[b].import IN
                      /\ run'[b].pc = "copy" => tmp'.rows = {}
                      /\ run'[b].pc = "set_id" => tmp'.rows = Rows(i, NoImport, FALSE)
                      /\ run'[b].pc = "latlng" => tmp'.rows = Rows(i, i, FALSE)
                      /\ run'[b].pc = "select" => tmp'.rows = Rows(i, i, TRUE)
                      /\ run'[b].pc = "insert" => run'[b].pending \subseteq Rows(i, i, TRUE)
  BY DEF TableInv, Rows
<1>1. CASE b = a
  BY <1>1
<1>2. CASE b # a
  <2>1. run'[b] = run[b] /\ tmp' = tmp
    BY <1>2
  <2> QED BY <2>1 DEF TableInv
<1> QED BY <1>1, <1>2

\* A single actor finds the table as its last statement left it.
LEMMA TableStep ==
    ASSUME Serial, TypeInv, TableInv, NEW a \in Actors, ProcessStep(a)
    PROVE  TableInv'
<1> DEFINE i == run[a].import
<1>t. run \in [Actors -> Run]
  BY DEF TypeInv, TypeOK
<1>s. \A b \in Actors : b = a
  BY DEF Serial
<1> SUFFICES /\ run'[a].pc = "copy" => tmp'.rows = {}
             /\ run'[a].pc = "set_id" => tmp'.rows = Rows(run'[a].import, NoImport, FALSE)
             /\ run'[a].pc = "latlng" =>
                  tmp'.rows = Rows(run'[a].import, run'[a].import, FALSE)
             /\ run'[a].pc = "select" =>
                  tmp'.rows = Rows(run'[a].import, run'[a].import, TRUE)
             /\ run'[a].pc = "insert" =>
                  run'[a].pending \subseteq Rows(run'[a].import, run'[a].import, TRUE)
  BY <1>s DEF TableInv, Rows
<1>r. ASSUME Raise(a)
      PROVE  run'[a].pc = "ensure_drop"
  BY <1>r, <1>t DEF Raise
<1>e. ASSUME NEW j, EndRun(a, j)
      PROVE  run'[a].pc \in {"idle", "answered"}
  <2> DEFINE answered == [IdleRun EXCEPT !.pc = "answered"]
  <2>1. run' = [run EXCEPT ![a] = IdleRun] \/ run' = [run EXCEPT ![a] = answered]
    BY <1>e DEF EndRun
  <2>2. IdleRun.pc = "idle" /\ answered.pc = "answered"
    BY DEF IdleRun
  <2> QED BY <2>1, <2>2, <1>t
<1>1. CASE create_tmp_file(a)
  BY <1>1, <1>t DEF create_tmp_file
<1>2. CASE drop_if_exists(a)
  BY <1>2, <1>t DEF drop_if_exists, Goto
<1>3. CASE create_tmp_table(a)
  <2>1. CASE tmp' = [exists |-> TRUE, rows |-> {}] /\ Goto(a, "copy")
    BY <2>1, <1>t DEF Goto
  <2>2. CASE Raise(a)
    BY <2>2, <1>r
  <2> QED BY <1>3, <2>1, <2>2 DEF create_tmp_table
<1>4. CASE run_psql_command(a)
  <2>1. tmp \in TmpTable /\ tmp.rows = {}
    BY <1>4 DEF run_psql_command, TableInv, TypeInv, TypeOK
  <2>2. CASE Goto(a, "reject")
    BY <2>2, <1>t DEF Goto
  <2>3. CASE /\ tmp' = [tmp EXCEPT !.rows = @ \cup Rows(i, NoImport, FALSE)]
             /\ Goto(a, "set_id")
    <3>1. tmp'.rows = Rows(i, NoImport, FALSE)
      BY <2>1, <2>3 DEF TmpTable
    <3>2. run'[a].pc = "set_id" /\ run'[a].import = i
      BY <2>3, <1>t DEF Goto, Run
    <3> QED BY <3>1, <3>2
  <2> QED BY <1>4, <2>2, <2>3 DEF run_psql_command, Rows
<1>5. CASE process_unsuccessful(a)
  BY <1>5, <1>t DEF process_unsuccessful, Goto
<1>6. CASE set_bgeigie_import_id(a)
  <2>1. tmp \in TmpTable /\ tmp.rows = Rows(i, NoImport, FALSE)
    BY <1>6 DEF set_bgeigie_import_id, TableInv, TypeInv, TypeOK
  <2>2. CASE Raise(a)
    BY <2>2, <1>r
  <2>3. CASE /\ tmp' = [tmp EXCEPT !.rows = {WithOwner(r, i) : r \in tmp.rows}]
             /\ Goto(a, "latlng")
    <3>1. tmp'.rows = {WithOwner(r, i) : r \in Rows(i, NoImport, FALSE)}
      BY <2>1, <2>3 DEF TmpTable
    <3>2. {WithOwner(r, i) : r \in Rows(i, NoImport, FALSE)} = Rows(i, i, FALSE)
      <4>1. ASSUME NEW r \in Rows(i, NoImport, FALSE)
            PROVE  WithOwner(r, i) \in Rows(i, i, FALSE)
        BY DEF Rows, WithOwner
      <4>2. ASSUME NEW r \in Rows(i, i, FALSE)
            PROVE  \E s \in Rows(i, NoImport, FALSE) : r = WithOwner(s, i)
        <5>1. [r EXCEPT !.owner = NoImport] \in Rows(i, NoImport, FALSE)
          BY DEF Rows
        <5>2. r = WithOwner([r EXCEPT !.owner = NoImport], i)
          BY DEF Rows, WithOwner
        <5> QED BY <5>1, <5>2
      <4> QED BY <4>1, <4>2
    <3>3. run'[a].pc = "latlng" /\ run'[a].import = i
      BY <2>3, <1>t DEF Goto, Run
    <3> QED BY <3>1, <3>2, <3>3
  <2> QED BY <1>6, <2>2, <2>3 DEF set_bgeigie_import_id, UpdateTmp
<1>7. CASE compute_latlng_from_nmea(a)
  <2>1. tmp \in TmpTable /\ tmp.rows = Rows(i, i, FALSE)
    BY <1>7 DEF compute_latlng_from_nmea, TableInv, TypeInv, TypeOK
  <2>2. CASE Raise(a)
    BY <2>2, <1>r
  <2>3. CASE /\ tmp' = [tmp EXCEPT !.rows = {WithLocation(r) : r \in tmp.rows}]
             /\ Goto(a, "select")
    <3>1. tmp'.rows = {WithLocation(r) : r \in Rows(i, i, FALSE)}
      BY <2>1, <2>3 DEF TmpTable
    <3>2. {WithLocation(r) : r \in Rows(i, i, FALSE)} = Rows(i, i, TRUE)
      <4>1. ASSUME NEW r \in Rows(i, i, FALSE)
            PROVE  WithLocation(r) \in Rows(i, i, TRUE)
        BY DEF Rows, WithLocation
      <4>2. ASSUME NEW r \in Rows(i, i, TRUE)
            PROVE  \E s \in Rows(i, i, FALSE) : r = WithLocation(s)
        <5>1. [r EXCEPT !.located = FALSE] \in Rows(i, i, FALSE)
          BY DEF Rows
        <5>2. r = WithLocation([r EXCEPT !.located = FALSE])
          BY DEF Rows, WithLocation
        <5> QED BY <5>1, <5>2
      <4> QED BY <4>1, <4>2
    <3>3. run'[a].pc = "select" /\ run'[a].import = i
      BY <2>3, <1>t DEF Goto, Run
    <3> QED BY <3>1, <3>2, <3>3
  <2> QED BY <1>7, <2>2, <2>3 DEF compute_latlng_from_nmea, UpdateTmp
<1>8. CASE populate_select(a)
  <2>1. CASE Raise(a)
    BY <2>1, <1>r
  <2>2. CASE run' = [run EXCEPT ![a].pc = "insert", ![a].pending = Missing]
    <3>1. /\ run'[a].pc = "insert" /\ run'[a].import = i
          /\ run'[a].pending = Missing
      BY <2>2, <1>t DEF Run
    <3>2. Missing \subseteq Rows(i, i, TRUE)
      BY <1>8 DEF populate_select, Missing, TableInv
    <3> QED BY <3>1, <3>2
  <2> QED BY <1>8, <2>1, <2>2 DEF populate_select
<1>9. CASE populate_insert(a)
  <2>1. CASE \E x \in Unwritten(a) : run' = [run EXCEPT ![a].written = @ \cup {x}]
    <3>1. /\ run'[a].pc = "insert" /\ run'[a].import = i
          /\ run'[a].pending = run[a].pending
      BY <1>9, <2>1, <1>t DEF populate_insert, Run
    <3>2. run[a].pending \subseteq Rows(i, i, TRUE)
      BY <1>9 DEF populate_insert, TableInv
    <3> QED BY <3>1, <3>2
  <2>2. CASE Undo(a)
    <3>1. run'[a].pc = "ensure_drop"
      BY <2>2, <1>t DEF Undo
    <3> QED BY <3>1
  <2> QED BY <1>9, <2>1, <2>2 DEF populate_insert
<1>10. CASE populate_commit(a)
  BY <1>10, <1>t DEF populate_commit
<1>11. CASE count_logs(a)
  BY <1>11, <1>t DEF count_logs
<1>12. CASE set_measurements_count(a)
  BY <1>12, <1>t DEF set_measurements_count, Goto
<1>13. CASE confirm_import_bgeigie_logs(a)
  BY <1>13, <1>t DEF confirm_import_bgeigie_logs
<1>14. CASE drop_tmp_table(a)
  <2>1. CASE Goto(a, "confirm_latlng")
    BY <2>1, <1>t DEF Goto
  <2>2. CASE EndRun(a, Reschedule(job[i]))
    BY <2>2, <1>e
  <2> QED BY <1>14, <2>1, <2>2 DEF drop_tmp_table
<1>15. CASE confirm_compute_latlng(a)
  BY <1>15, <1>t DEF confirm_compute_latlng
<1>16. CASE set_status(a)
  BY <1>16, <1>t DEF set_status, Goto
<1>17. CASE check_auto_approve(a)
  BY <1>17, <1>e DEF check_auto_approve
<1> QED
  BY <1>1, <1>2, <1>3, <1>4, <1>5, <1>6, <1>7, <1>8, <1>9, <1>10, <1>11, <1>12, <1>13, <1>14,
     <1>15, <1>16, <1>17 DEF ProcessStep

LEMMA OwnStep ==
    ASSUME Serial
    PROVE  OwnInv /\ [Next]_vars => OwnInv'
<1> SUFFICES ASSUME OwnInv, [Next]_vars
             PROVE  OwnInv'
  OBVIOUS
<1>t. TypeInv' /\ run \in [Actors -> Run]
  BY TypeStep DEF OwnInv, TypeInv, TypeOK
<1>1. CASE UNCHANGED vars
  BY <1>1, <1>t DEF OwnInv, TableInv, OwnLines, vars
<1>2. ASSUME NEW i \in Imports, Upload(i) \/ destroy(i)
      PROVE  OwnInv'
  <2>1. UNCHANGED <<tmp, run>> /\ bgeigie_logs' \subseteq bgeigie_logs
    BY <1>2 DEF Upload, destroy
  <2> QED BY <2>1, <1>t DEF OwnInv, TableInv, OwnLines
<1>3. ASSUME NEW a \in Actors, NEW i \in Imports, Enter(a, i)
      PROVE  OwnInv'
  <2> DEFINE r == [IdleRun EXCEPT !.pc = "create_tmp_file", !.import = i,
                                  !.details = import[i].details]
  <2>1. run' = [run EXCEPT ![a] = r] /\ UNCHANGED <<tmp, bgeigie_logs>>
    BY <1>3 DEF Enter
  <2>2. r.pc = "create_tmp_file"
    BY DEF IdleRun
  <2>3. TableInv'
    BY <2>1, <2>2, <1>t, TableUnclaimed DEF OwnInv
  <2> QED BY <2>1, <2>3, <1>t DEF OwnInv, OwnLines
<1>4. ASSUME NEW w \in Workers, TakeJob(w)
      PROVE  OwnInv'
  <2>1. ASSUME NEW i \in Imports, JobNotFound(w, i)
        PROVE  OwnInv'
    BY <2>1, <1>t DEF JobNotFound, OwnInv, TableInv, OwnLines
  <2> QED BY <1>3, <1>4, <2>1 DEF TakeJob, StartJob, Actors
<1>5. ASSUME NEW a \in Actors, Crash(a)
      PROVE  OwnInv'
  <2> DEFINE answered == [IdleRun EXCEPT !.pc = "answered"]
  <2>1. /\ run' = [run EXCEPT ![a] = IdleRun] \/ run' = [run EXCEPT ![a] = answered]
        /\ UNCHANGED <<tmp, bgeigie_logs>>
    BY <1>5 DEF Crash, EndRun
  <2>2. IdleRun.pc = "idle" /\ answered.pc = "answered"
    BY DEF IdleRun
  <2>3. TableInv'
    BY <2>1, <2>2, <1>t, TableUnclaimed DEF OwnInv
  <2> QED BY <2>1, <2>3, <1>t DEF OwnInv, OwnLines
<1>6. ASSUME NEW a \in Actors, ProcessStep(a)
      PROVE  OwnInv'
  <2>1. TableInv'
    BY <1>6, TableStep DEF OwnInv
  <2>2. CASE UNCHANGED bgeigie_logs
    BY <2>1, <2>2, <1>t DEF OwnInv, OwnLines
  <2>3. CASE populate_commit(a)
    <3> DEFINE i == run[a].import
    <3>1. i \in Imports
      BY <2>3 DEF populate_commit, OwnInv, TypeInv, RunsHaveImport
    <3>2. \A r \in run[a].pending : r.owner = i /\ r.line \in File[i] /\ r.located
      BY <2>3 DEF populate_commit, OwnInv, TableInv, Rows
    <3>3. bgeigie_logs' \subseteq bgeigie_logs \cup run[a].pending
      BY <2>3 DEF populate_commit
    <3> QED BY <2>1, <3>1, <3>2, <3>3, <1>t DEF OwnInv, OwnLines
  <2> QED
    BY <1>6, <2>2, <2>3
       DEF ProcessStep, create_tmp_file, drop_if_exists, create_tmp_table, run_psql_command,
           process_unsuccessful, set_bgeigie_import_id, compute_latlng_from_nmea, UpdateTmp,
           populate_select, populate_insert, count_logs, set_measurements_count,
           confirm_import_bgeigie_logs, drop_tmp_table, confirm_compute_latlng, set_status,
           check_auto_approve
<1> QED
  BY <1>1, <1>2, <1>3, <1>4, <1>5, <1>6 DEF Next, process_button, Actors

\* With a single worker, and nobody pressing process_button, every log line
\* belongs to the import whose file it came from.
THEOREM LinesStayWithTheirImport ==
    ASSUME Serial
    PROVE  Spec => []OwnLines
<1>1. Init => OwnInv
  <2> SUFFICES ASSUME Init
               PROVE  OwnInv
    OBVIOUS
  <2>1. TableInv /\ OwnLines
    BY DEF Init, TableInv, OwnLines, IdleRun
  <2> QED BY <2>1, TypeInit DEF OwnInv
<1>2. OwnInv /\ [Next]_vars => OwnInv'
  BY OwnStep
<1>3. OwnInv => OwnLines
  BY DEF OwnInv
<1> QED BY <1>1, <1>2, <1>3, PTL DEF Spec

-----------------------------------------------------------------------------
(* A single actor loads each file in one step, if no import is destroyed *)

\* An import is there as soon as it has a job, and while it is worked on.
StoredInv ==
    /\ \A i \in Imports : job[i].state = "none" => ~import[i].stored
    /\ \A a \in Actors :
          run[a].pc \notin {"idle", "answered"} => import[run[a].import].stored

\* The snapshot of an INSERT still is what bgeigie_logs lacks.
PendingInv ==
    \A a \in Actors :
        run[a].pc = "insert" =>
            run[a].pending = [line: Store!Unstored(run[a].import),
                              owner: {run[a].import}, located: {TRUE}]

AtomicInv == OwnInv /\ StoredInv /\ PendingInv

LEMMA ProcessStepStored ==
    ASSUME TypeInv, NEW a \in Actors, ProcessStep(a)
    PROVE  \A k \in Imports : import'[k].stored = import[k].stored
<1> DEFINE i == run[a].import
<1>p. run[a].pc \notin {"idle", "answered"}
  BY DEF ProcessStep, create_tmp_file, drop_if_exists, create_tmp_table, run_psql_command,
     process_unsuccessful, set_bgeigie_import_id, compute_latlng_from_nmea, populate_select,
     populate_insert, populate_commit, count_logs, set_measurements_count,
     confirm_import_bgeigie_logs, drop_tmp_table, confirm_compute_latlng, set_status,
     check_auto_approve
<1>i. i \in Imports /\ import[i] \in ImportRow /\ import \in [Imports -> ImportRow]
  BY <1>p DEF TypeInv, TypeOK, RunsHaveImport
<1>w. ASSUME NEW r, r.stored = import[i].stored, Write(i, r)
      PROVE  \A k \in Imports : import'[k].stored = import[k].stored
  BY <1>w, <1>i DEF Write
<1>1. CASE create_tmp_file(a)
  BY <1>1, <1>i, <1>w DEF create_tmp_file, ImportRow
<1>2. CASE process_unsuccessful(a)
  BY <1>2, <1>i, <1>w DEF process_unsuccessful, ImportRow
<1>3. CASE set_measurements_count(a)
  BY <1>3, <1>i, <1>w DEF set_measurements_count, ImportRow
<1>4. CASE confirm_import_bgeigie_logs(a)
  BY <1>4, <1>i, <1>w DEF confirm_import_bgeigie_logs, ImportRow
<1>5. CASE confirm_compute_latlng(a)
  BY <1>5, <1>i, <1>w DEF confirm_compute_latlng, ImportRow
<1>6. CASE set_status(a)
  BY <1>6, <1>i, <1>w DEF set_status, ImportRow
<1>7. CASE UNCHANGED import
  BY <1>7
<1> QED
  BY <1>1, <1>2, <1>3, <1>4, <1>5, <1>6, <1>7
     DEF ProcessStep, drop_if_exists, create_tmp_table, run_psql_command, set_bgeigie_import_id,
         compute_latlng_from_nmea, UpdateTmp, populate_select, populate_insert, populate_commit,
         count_logs, drop_tmp_table, check_auto_approve

\* What a single actor's INSERT commits is a load.
LEMMA InsertLoads ==
    ASSUME AtomicInv, NEW a \in Actors, populate_commit(a)
    PROVE  Store!Load(run[a].import)
<1> DEFINE i == run[a].import
           pending == [line: Store!Unstored(i), owner: {i}, located: {TRUE}]
<1>1. /\ i \in Imports /\ import[i].stored /\ run[a].pc = "insert"
      /\ run[a].pending = pending
  BY DEF populate_commit, AtomicInv, OwnInv, TypeInv, RunsHaveImport, StoredInv, PendingInv
<1>2. bgeigie_logs' = bgeigie_logs \cup pending
  BY <1>1 DEF populate_commit
<1>3. UNCHANGED import
  BY DEF populate_commit
<1> QED BY <1>1, <1>2, <1>3 DEF Store!Load

LEMMA StoredStep ==
    ASSUME Deletable = {}, TypeInv, StoredInv, [Next]_vars
    PROVE  StoredInv'
<1>t. job \in [Imports -> Job] /\ run \in [Actors -> Run] /\ import \in [Imports -> ImportRow]
  BY DEF TypeInv, TypeOK
\* An actor that begins or goes on with a stored import.
<1>a. ASSUME NEW a \in Actors, NEW r, run' = [run EXCEPT ![a] = r],
             r.pc \notin {"idle", "answered"} => r.import \in Imports /\ import[r.import].stored,
             \A k \in Imports : import'[k].stored = import[k].stored,
             \A k \in Imports : job'[k].state = "none" => job[k].state = "none"
      PROVE  StoredInv'
  BY <1>a, <1>t DEF StoredInv, TypeInv, RunsHaveImport
<1>1. CASE UNCHANGED vars
  BY <1>1 DEF StoredInv, vars
<1>2. ASSUME NEW i \in Imports, Upload(i)
      PROVE  StoredInv'
  BY <1>2, <1>t DEF Upload, NewImport, StoredInv, TypeInv, RunsHaveImport, Job
<1>3. ASSUME NEW i \in Imports, NEW w \in Workers, StartJob(w, i)
      PROVE  StoredInv'
  <2> DEFINE r == [IdleRun EXCEPT !.pc = "create_tmp_file", !.import = i,
                                  !.details = import[i].details]
  <2>1. run' = [run EXCEPT ![w] = r] /\ import[i].stored /\ UNCHANGED import
    BY <1>3 DEF StartJob, Enter
  <2>2. r.import = i
    BY DEF IdleRun
  <2>3. \A k \in Imports : job'[k].state = "none" => job[k].state = "none"
    BY <1>3, <1>t DEF StartJob, Job
  <2> HIDE DEF r
  <2> QED BY <1>a, <2>1, <2>2, <2>3 DEF Actors
<1>4. ASSUME NEW i \in Imports, NEW w \in Workers, JobNotFound(w, i)
      PROVE  StoredInv'
  BY <1>4, <1>t DEF JobNotFound, StoredInv, Reschedule, Job
<1>5. ASSUME NEW i \in Imports, NEW q \in Requests, process_button(q, i)
      PROVE  StoredInv'
  <2> DEFINE r == [IdleRun EXCEPT !.pc = "create_tmp_file", !.import = i,
                                  !.details = import[i].details]
  <2>1. run' = [run EXCEPT ![q] = r] /\ import[i].stored /\ UNCHANGED <<import, job>>
    BY <1>5 DEF process_button, Enter
  <2>2. r.import = i
    BY DEF IdleRun
  <2> HIDE DEF r
  <2> QED BY <1>a, <2>1, <2>2 DEF Actors
<1>e. ASSUME NEW a \in Actors, run[a].pc \notin {"idle", "answered"}, NEW j, EndRun(a, j),
             j.state # "none", \A k \in Imports : import'[k].stored = import[k].stored
      PROVE  StoredInv'
  <2> DEFINE answered == [IdleRun EXCEPT !.pc = "answered"]
  <2>1. run' = [run EXCEPT ![a] = IdleRun] \/ run' = [run EXCEPT ![a] = answered]
    BY <1>e DEF EndRun
  <2>2. IdleRun.pc = "idle" /\ answered.pc = "answered"
    BY DEF IdleRun
  <2>3. \A k \in Imports : job'[k].state = "none" => job[k].state = "none"
    BY <1>e, <1>t DEF EndRun
  <2> HIDE DEF answered
  <2> QED BY <1>a, <1>e, <2>1, <2>2, <2>3
<1>o. \A k \in Imports : /\ Reschedule(job[k]).state # "none"
                         /\ Succeed(job[k]).state # "none"
                         /\ Requeue(job[k]).state # "none"
  BY <1>t DEF Reschedule, Succeed, Requeue, Job
<1>6. ASSUME NEW a \in Actors, Crash(a)
      PROVE  StoredInv'
  BY <1>6, <1>e, <1>o DEF Crash, TypeInv, RunsHaveImport
<1>7. ASSUME NEW a \in Actors, ProcessStep(a)
      PROVE  StoredInv'
  <2>1. \A k \in Imports : import'[k].stored = import[k].stored
    BY <1>7, ProcessStepStored
  <2>p. run[a].pc \notin {"idle", "answered"}
    BY <1>7 DEF ProcessStep, create_tmp_file, drop_if_exists, create_tmp_table, run_psql_command,
       process_unsuccessful, set_bgeigie_import_id, compute_latlng_from_nmea, populate_select,
       populate_insert, populate_commit, count_logs, set_measurements_count,
       confirm_import_bgeigie_logs, drop_tmp_table, confirm_compute_latlng, set_status,
       check_auto_approve
  <2>r. run[a] \in Run /\ run[a].import \in Imports /\ import[run[a].import].stored
    BY <2>p DEF TypeInv, TypeOK, RunsHaveImport, StoredInv
  <2>2. ASSUME NEW r, r.import = run[a].import, run' = [run EXCEPT ![a] = r], UNCHANGED job
        PROVE  StoredInv'
    BY <1>a, <2>1, <2>2, <2>r
  <2>3. ASSUME NEW p, Goto(a, p) \/ Raise(a), UNCHANGED job
        PROVE  StoredInv'
    <3> DEFINE there == [run[a] EXCEPT !.pc = p]
               raised == [run[a] EXCEPT !.pc = "ensure_drop", !.raised = TRUE]
    <3>1. there.import = run[a].import /\ raised.import = run[a].import
      BY <2>r DEF Run
    <3>2. run' = [run EXCEPT ![a] = there] \/ run' = [run EXCEPT ![a] = raised]
      BY <2>3 DEF Goto, Raise
    <3> HIDE DEF there, raised
    <3> QED BY <2>2, <2>3, <3>1, <3>2
  <2>4. CASE \/ create_tmp_file(a) \/ confirm_import_bgeigie_logs(a)
             \/ confirm_compute_latlng(a)
    <3>1. PICK p, d : run' = [run EXCEPT ![a].pc = p, ![a].details = d]
      BY <2>4 DEF create_tmp_file, confirm_import_bgeigie_logs, confirm_compute_latlng
    <3> DEFINE r == [run[a] EXCEPT !.pc = p, !.details = d]
    <3>2. r.import = run[a].import /\ run' = [run EXCEPT ![a] = r] /\ UNCHANGED job
      BY <2>4, <2>r, <3>1
         DEF Run, create_tmp_file, confirm_import_bgeigie_logs, confirm_compute_latlng
    <3> HIDE DEF r
    <3> QED BY <2>2, <3>2
  <2>5. CASE populate_select(a)
    <3> DEFINE r == [run[a] EXCEPT !.pc = "insert", !.pending = Missing]
    <3>1. r.import = run[a].import
      BY <2>r DEF Run
    <3>2. (run' = [run EXCEPT ![a] = r] \/ Raise(a)) /\ UNCHANGED job
      BY <2>5 DEF populate_select
    <3> HIDE DEF r
    <3> QED BY <2>2, <2>3, <3>1, <3>2
  <2>6. CASE populate_insert(a)
    <3>1. CASE Undo(a)
      <4> DEFINE x == [run[a] EXCEPT !.pc = "ensure_drop", !.raised = TRUE,
                                     !.pending = {}, !.written = {}]
      <4>1. x.import = run[a].import
        BY <2>r DEF Run
      <4>2. run' = [run EXCEPT ![a] = x] /\ UNCHANGED job
        BY <2>6, <3>1 DEF populate_insert, Undo
      <4> HIDE DEF x
      <4> QED BY <2>2, <4>1, <4>2
    <3>2. ASSUME NEW y, run' = [run EXCEPT ![a].written = @ \cup {y}]
          PROVE  StoredInv'
      <4> DEFINE r == [run[a] EXCEPT !.written = @ \cup {y}]
      <4>1. r.import = run[a].import
        BY <2>r DEF Run
      <4>2. run' = [run EXCEPT ![a] = r] /\ UNCHANGED job
        BY <2>6, <3>2 DEF populate_insert
      <4> HIDE DEF r
      <4> QED BY <2>2, <4>1, <4>2
    <3> QED BY <2>6, <3>1, <3>2 DEF populate_insert
  <2>7. CASE populate_commit(a)
    <3> DEFINE r == [run[a] EXCEPT !.pc = "count", !.pending = {}, !.written = {}]
    <3>1. r.import = run[a].import
      BY <2>r DEF Run
    <3>2. run' = [run EXCEPT ![a] = r] /\ UNCHANGED job
      BY <2>7 DEF populate_commit
    <3> HIDE DEF r
    <3> QED BY <2>2, <3>1, <3>2
  <2>8. CASE count_logs(a)
    <3> DEFINE r == [run[a] EXCEPT !.pc = "set_count",
                                   !.counted = Cardinality(LogsOf(run[a].import))]
    <3>1. r.import = run[a].import
      BY <2>r DEF Run
    <3>2. run' = [run EXCEPT ![a] = r] /\ UNCHANGED job
      BY <2>8 DEF count_logs
    <3> HIDE DEF r
    <3> QED BY <2>2, <3>1, <3>2
  <2>9. CASE drop_tmp_table(a) \/ check_auto_approve(a)
    BY <1>e, <1>o, <2>1, <2>3, <2>9, <2>p, <2>r DEF drop_tmp_table, check_auto_approve
  <2>10. CASE \/ drop_if_exists(a) \/ create_tmp_table(a) \/ run_psql_command(a)
              \/ process_unsuccessful(a) \/ set_bgeigie_import_id(a)
              \/ compute_latlng_from_nmea(a) \/ set_measurements_count(a) \/ set_status(a)
    BY <2>3, <2>10 DEF drop_if_exists, create_tmp_table, run_psql_command, process_unsuccessful,
       set_bgeigie_import_id, compute_latlng_from_nmea, UpdateTmp, set_measurements_count,
       set_status
  <2> QED BY <1>7, <2>4, <2>5, <2>6, <2>7, <2>8, <2>9, <2>10 DEF ProcessStep
<1> QED
  BY <1>1, <1>2, <1>3, <1>4, <1>5, <1>6, <1>7 DEF Next, TakeJob, destroy

LEMMA PendingStep ==
    ASSUME Serial, Deletable = {}, OwnInv, PendingInv, [Next]_vars
    PROVE  PendingInv'
<1>t. run \in [Actors -> Run]
  BY DEF OwnInv, TypeInv, TypeOK
\* A run that is not at its INSERT afterwards.
<1>n. ASSUME NEW a \in Actors, run'[a].pc # "insert"
      PROVE  PendingInv'
  BY <1>n DEF Serial, PendingInv
<1>k. ASSUME UNCHANGED <<run, bgeigie_logs>>
      PROVE  PendingInv'
  BY <1>k DEF PendingInv, Store!Unstored
<1>1. ASSUME NEW a \in Actors, NEW i \in Imports, Enter(a, i)
      PROVE  PendingInv'
  <2> DEFINE r == [IdleRun EXCEPT !.pc = "create_tmp_file", !.import = i,
                                  !.details = import[i].details]
  <2>1. r.pc = "create_tmp_file"
    BY DEF IdleRun
  <2>2. run' = [run EXCEPT ![a] = r]
    BY <1>1 DEF Enter
  <2> HIDE DEF r
  <2>3. run'[a].pc # "insert"
    BY <1>t, <2>1, <2>2
  <2> QED BY <1>n, <2>3
<1>e. ASSUME NEW a \in Actors, NEW j, EndRun(a, j)
      PROVE  PendingInv'
  <2> DEFINE answered == [IdleRun EXCEPT !.pc = "answered"]
  <2>1. run' = [run EXCEPT ![a] = IdleRun] \/ run' = [run EXCEPT ![a] = answered]
    BY <1>e DEF EndRun
  <2>2. IdleRun.pc = "idle" /\ answered.pc = "answered"
    BY DEF IdleRun
  <2> HIDE DEF answered
  <2>3. run'[a].pc # "insert"
    BY <1>t, <2>1, <2>2
  <2> QED BY <1>n, <2>3
<1>2. ASSUME NEW a \in Actors, populate_select(a)
      PROVE  PendingInv'
  <2> DEFINE i == run[a].import
  <2>1. CASE Raise(a)
    <3>1. run'[a].pc # "insert"
      BY <1>t, <2>1 DEF Raise
    <3> QED BY <1>n, <3>1
  <2>2. CASE run' = [run EXCEPT ![a].pc = "insert", ![a].pending = Missing]
    <3>1. run'[a].import = i /\ run'[a].pending = Missing /\ bgeigie_logs' = bgeigie_logs
      BY <1>2, <1>t, <2>2 DEF populate_select, Run
    <3>2. Missing = [line: Store!Unstored(i), owner: {i}, located: {TRUE}]
      <4>1. tmp.rows = Rows(i, i, TRUE)
        BY <1>2 DEF populate_select, OwnInv, TableInv
      <4>2. \A l : l \notin LinesIn(bgeigie_logs) <=> \A r \in bgeigie_logs : r.line # l
        BY DEF LinesIn
      <4>3. \A r \in Rows(i, i, TRUE) :
                r.line \notin LinesIn(bgeigie_logs) <=> r.line \in Store!Unstored(i)
        <5> SUFFICES ASSUME NEW r \in Rows(i, i, TRUE)
                     PROVE  r.line \notin LinesIn(bgeigie_logs) <=> r.line \in Store!Unstored(i)
          OBVIOUS
        <5>1. r.line \in File[i]
          BY DEF Rows
        <5> QED BY <4>2, <5>1 DEF Store!Unstored
      <4>4. Store!Unstored(i) \subseteq File[i]
        BY DEF Store!Unstored
      <4>5. Missing = {r \in Rows(i, i, TRUE) : r.line \in Store!Unstored(i)}
        BY <4>1, <4>3 DEF Missing
      <4> QED BY <4>4, <4>5 DEF Rows
    <3>3. Store!Unstored(i) = {l \in File[i] : \A r \in bgeigie_logs' : r.line # l}
      BY <3>1 DEF Store!Unstored
    <3>4. \A b \in Actors : b = a
      BY DEF Serial
    <3> QED BY <3>1, <3>2, <3>3, <3>4 DEF PendingInv, Store!Unstored
  <2> QED BY <1>2, <2>1, <2>2 DEF populate_select
<1>g. ASSUME NEW a \in Actors, NEW p \in Steps, p # "insert", Goto(a, p) \/ Raise(a)
      PROVE  PendingInv'
  <2>1. run'[a].pc # "insert"
    <3>1. CASE Goto(a, p)
      BY <1>g, <1>t, <3>1 DEF Goto
    <3>2. CASE Raise(a)
      BY <1>t, <3>2 DEF Raise
    <3> QED BY <1>g, <3>1, <3>2
  <2> QED BY <1>n, <2>1
<1>3. ASSUME NEW a \in Actors, populate_insert(a)
      PROVE  PendingInv'
  <2>1. CASE \E x \in Unwritten(a) : run' = [run EXCEPT ![a].written = @ \cup {x}]
    <3>1. /\ run'[a].import = run[a].import
          /\ run'[a].pc = run[a].pc
          /\ run'[a].pending = run[a].pending
      BY <1>t, <2>1 DEF Run
    <3>2. UNCHANGED bgeigie_logs /\ \A b \in Actors : b = a
      BY <1>3 DEF populate_insert, Serial
    <3>3. run[a].pending = [line: Store!Unstored(run[a].import),
                            owner: {run[a].import}, located: {TRUE}]
      BY <1>3 DEF populate_insert, PendingInv
    <3>4. Store!Unstored(run[a].import) =
            {l \in File[run[a].import] : \A r \in bgeigie_logs' : r.line # l}
      BY <3>2 DEF Store!Unstored
    <3> QED BY <3>1, <3>2, <3>3, <3>4 DEF PendingInv, Store!Unstored
  <2>2. CASE Undo(a)
    <3>1. run'[a].pc # "insert"
      BY <1>t, <2>2 DEF Undo
    <3> QED BY <1>n, <3>1
  <2> QED BY <1>3, <2>1, <2>2 DEF populate_insert
<1>4. ASSUME NEW a \in Actors,
             \/ create_tmp_file(a) \/ populate_commit(a) \/ count_logs(a)
             \/ confirm_import_bgeigie_logs(a) \/ confirm_compute_latlng(a)
      PROVE  PendingInv'
  <2>1. run'[a].pc # "insert"
    <3>1. CASE create_tmp_file(a)
      BY <1>t, <3>1 DEF create_tmp_file
    <3>2. CASE populate_commit(a)
      BY <1>t, <3>2 DEF populate_commit
    <3>3. CASE count_logs(a)
      BY <1>t, <3>3 DEF count_logs
    <3>4. CASE confirm_import_bgeigie_logs(a)
      BY <1>t, <3>4 DEF confirm_import_bgeigie_logs
    <3>5. CASE confirm_compute_latlng(a)
      BY <1>t, <3>5 DEF confirm_compute_latlng
    <3> QED BY <1>4, <3>1, <3>2, <3>3, <3>4, <3>5
  <2> QED BY <1>n, <2>1
<1>5. ASSUME NEW a \in Actors, ProcessStep(a)
      PROVE  PendingInv'
  BY <1>2, <1>3, <1>4, <1>5, <1>e, <1>g
     DEF Steps, ProcessStep, drop_if_exists, create_tmp_table, run_psql_command,
         process_unsuccessful, set_bgeigie_import_id, compute_latlng_from_nmea, UpdateTmp,
         set_measurements_count, drop_tmp_table, set_status, check_auto_approve
<1>6. CASE \/ UNCHANGED vars
           \/ \E i \in Imports : Upload(i)
           \/ \E w \in Workers, i \in Imports : JobNotFound(w, i)
  BY <1>6, <1>k DEF vars, Upload, JobNotFound
<1> QED
  BY <1>1, <1>5, <1>6, <1>e DEF Next, TakeJob, StartJob, process_button, destroy, Crash, Actors

LEMMA AtomicInit == Init => AtomicInv /\ Store!Init
<1> SUFFICES ASSUME Init
             PROVE  AtomicInv /\ Store!Init
  OBVIOUS
<1>1. \A i \in Imports : ~import[i].stored
  BY DEF Init, NewImport
<1>2. \A a \in Actors : run[a].pc = "idle"
  BY DEF Init, IdleRun
<1>3. TableInv /\ OwnLines
  BY <1>2 DEF Init, TableInv, OwnLines
<1>4. StoredInv /\ PendingInv
  BY <1>1, <1>2 DEF StoredInv, PendingInv
<1>5. Store!Init
  BY <1>1 DEF Init, Store!Init
<1> QED BY <1>3, <1>4, <1>5, TypeInit DEF AtomicInv, OwnInv

LEMMA StoreStep ==
    ASSUME Deletable = {}, AtomicInv, [Next]_vars
    PROVE  [Store!Next]_<<{i \in Imports : import[i].stored}, bgeigie_logs>>
<1> DEFINE stored == {i \in Imports : import[i].stored}
<1>t. TypeInv /\ import \in [Imports -> ImportRow]
  BY DEF AtomicInv, OwnInv, TypeInv, TypeOK
<1>k. ASSUME \A k \in Imports : import'[k].stored = import[k].stored
      PROVE  stored' = stored
  BY <1>k
<1>1. ASSUME NEW i \in Imports, Upload(i)
      PROVE  Store!Save(i)
  <2>1. ~import[i].stored
    BY <1>1 DEF Upload, AtomicInv, StoredInv
  <2>2. NewImport.stored
    BY DEF NewImport
  <2>3. stored' = stored \cup {i}
    BY <1>1, <1>t, <2>2 DEF Upload
  <2> QED BY <1>1, <2>1, <2>3 DEF Upload, Store!Save
<1>2. ASSUME NEW a \in Actors, ProcessStep(a), ~populate_commit(a)
      PROVE  stored' = stored /\ bgeigie_logs' = bgeigie_logs
  <2>1. bgeigie_logs' = bgeigie_logs
    BY <1>2 DEF ProcessStep, create_tmp_file, drop_if_exists, create_tmp_table,
       run_psql_command, process_unsuccessful, set_bgeigie_import_id,
       compute_latlng_from_nmea, UpdateTmp, populate_select, populate_insert, count_logs,
       set_measurements_count, confirm_import_bgeigie_logs, drop_tmp_table,
       confirm_compute_latlng, set_status, check_auto_approve
  <2> QED BY <1>2, <1>k, <1>t, <2>1, ProcessStepStored
<1>3. ASSUME NEW a \in Actors, populate_commit(a)
      PROVE  \E i \in Imports : Store!Load(i)
  <2>1. run[a].import \in Imports
    BY <1>3, <1>t DEF populate_commit, TypeInv, RunsHaveImport
  <2> QED BY <1>3, <2>1, InsertLoads
<1>4. CASE \/ UNCHANGED vars
           \/ \E w \in Workers : TakeJob(w)
           \/ \E q \in Requests, i \in Imports : process_button(q, i)
           \/ \E a \in Actors : Crash(a)
  <2>1. UNCHANGED <<import, bgeigie_logs>>
    BY <1>4 DEF vars, TakeJob, StartJob, JobNotFound, process_button, Enter, Crash
  <2> QED BY <2>1
<1> QED BY <1>1, <1>2, <1>3, <1>4 DEF Next, destroy, Store!Next

\* With a single worker, and as long as nobody destroys an import, process is
\* one atomic insertion of the file's new lines, located and under the right
\* id, whatever is killed in between.
THEOREM LoadsAreAtomic ==
    ASSUME Serial, Deletable = {}
    PROVE  Spec => AtomicLoads
<1>1. AtomicInv /\ [Next]_vars => AtomicInv'
  <2> SUFFICES ASSUME AtomicInv, [Next]_vars
               PROVE  AtomicInv'
    OBVIOUS
  <2>1. OwnInv'
    BY OwnStep DEF AtomicInv
  <2>2. StoredInv'
    BY StoredStep DEF AtomicInv, OwnInv
  <2>3. PendingInv'
    BY PendingStep DEF AtomicInv
  <2> QED BY <2>1, <2>2, <2>3 DEF AtomicInv
<1>2. AtomicInv /\ [Next]_vars =>
        [Store!Next]_<<{i \in Imports : import[i].stored}, bgeigie_logs>>
  BY StoreStep
<1> QED BY <1>1, <1>2, AtomicInit, PTL DEF Spec, AtomicLoads, Store!Spec, Store!vars
=============================================================================
