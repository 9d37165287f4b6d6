-------------------------- MODULE LogRecoveryProofs --------------------------
(***************************************************************************)
(* What is proved about LogLoading besides LogLoadingProofs, for a single  *)
(* actor that does all the processing: its runs recover from whatever a    *)
(* killed one left behind, good files are never rejected, counts agree,    *)
(* and no line is lost.                                                    *)
(***************************************************************************)
EXTENDS LogLoadingProofs

-----------------------------------------------------------------------------
(* A single actor's statements never raise *)

Busy(a) == run[a].pc \notin {"idle", "answered"}

UniqueIn(rows) == \A r, s \in rows : r.line = s.line => r = s

\* The rows of an INSERT do not violate the unique index.
Fits(a) ==
    /\ run[a].written \subseteq run[a].pending
    /\ UniqueIn(run[a].pending)
    /\ LinesIn(run[a].pending) \cap LinesIn(bgeigie_logs) = {}

\* From the CREATE TABLE to the DROP TABLE of the ensure clause
WithTable ==
    {"copy", "reject", "set_id", "latlng", "select", "insert", "count", "set_count",
     "confirm_logs", "ensure_drop"}

\* The table is there when a statement needs it, and gone when it is created.
SmoothInv ==
    \A a \in Actors :
        /\ ~run[a].raised
        /\ run[a].pc # "insert" => run[a].written = {}
        /\ run[a].pc = "create" => ~tmp.exists
        /\ run[a].pc \in WithTable => tmp.exists
        /\ run[a].pc = "insert" => Fits(a)
        /\ run[a].pc = "reject" => run[a].import \in Unloadable

\* What Goto changes of a run.
LEMMA GotoFields ==
    ASSUME TypeInv, NEW a \in Actors, NEW p, Goto(a, p)
    PROVE  /\ run'[a].pc = p
           /\ run'[a].import = run[a].import
           /\ run'[a].details = run[a].details
           /\ run'[a].pending = run[a].pending
           /\ run'[a].written = run[a].written
           /\ run'[a].counted = run[a].counted
           /\ run'[a].raised = run[a].raised
<1>1. run \in [Actors -> Run] /\ run[a] \in Run
  BY DEF TypeInv, TypeOK
<1> QED BY <1>1 DEF Goto, Run

\* What is left of a run that ends.
LEMMA EndRunFields ==
    ASSUME TypeInv, NEW a \in Actors, NEW j, EndRun(a, j)
    PROVE  /\ run'[a].pc \in {"idle", "answered"}
           /\ run'[a].import = NoImport
           /\ run'[a].written = {}
           /\ ~run'[a].raised
<1> DEFINE answered == [IdleRun EXCEPT !.pc = "answered"]
<1>1. run' = [run EXCEPT ![a] = IdleRun] \/ run' = [run EXCEPT ![a] = answered]
  BY DEF EndRun
<1>2. /\ IdleRun.pc = "idle" /\ IdleRun.import = NoImport
      /\ IdleRun.written = {} /\ ~IdleRun.raised
      /\ answered.pc = "answered" /\ answered.import = NoImport
      /\ answered.written = {} /\ ~answered.raised
  BY DEF IdleRun
<1>3. run \in [Actors -> Run]
  BY DEF TypeInv, TypeOK
<1> HIDE DEF answered
<1> QED BY <1>1, <1>2, <1>3

\* What a run begins with.
LEMMA EnterFields ==
    ASSUME TypeInv, NEW a \in Actors, NEW i \in Imports, Enter(a, i)
    PROVE  /\ run'[a].pc = "create_tmp_file"
           /\ run'[a].import = i
           /\ run'[a].details = import[i].details
           /\ run'[a].written = {}
           /\ ~run'[a].raised
<1> DEFINE r == [IdleRun EXCEPT !.pc = "create_tmp_file", !.import = i,
                                !.details = import[i].details]
<1>1. run' = [run EXCEPT ![a] = r]
  BY DEF Enter
<1>2. /\ r.pc = "create_tmp_file" /\ r.import = i
      /\ r.details = import[i].details /\ r.written = {} /\ ~r.raised
  BY DEF IdleRun
<1>3. run \in [Actors -> Run]
  BY DEF TypeInv, TypeOK
<1> HIDE DEF r
<1> QED BY <1>1, <1>2, <1>3

\* The lines of one file can be inserted side by side.
LEMMA RowsUnique ==
    ASSUME NEW i, NEW rows, rows \subseteq Rows(i, i, TRUE)
    PROVE  UniqueIn(rows)
<1> SUFFICES ASSUME NEW r \in rows, NEW s \in rows, r.line = s.line
             PROVE  r = s
  BY DEF UniqueIn
<1>1. /\ r = [line |-> r.line, owner |-> i, located |-> TRUE]
      /\ s = [line |-> s.line, owner |-> i, located |-> TRUE]
  BY DEF Rows
<1> QED BY <1>1

\* With nobody else about, an INSERT neither fails nor waits.
LEMMA InsertGoesOn ==
    ASSUME NEW a \in Actors, \A b \in Actors : b = a, Fits(a), populate_insert(a)
    PROVE  \E x \in Unwritten(a) : run' = [run EXCEPT ![a].written = @ \cup {x}]
<1>1. ASSUME NEW r \in Unwritten(a)
      PROVE  ~Violates(a, r)
  BY DEF Fits, UniqueIn, LinesIn, Unwritten, Violates
<1>2. ~InDeadlock(a)
  BY DEF InDeadlock, Waits
<1> QED BY <1>1, <1>2 DEF populate_insert

LEMMA SmoothProcessStep ==
    ASSUME Serial, OwnInv, SmoothInv, NEW a \in Actors, ProcessStep(a)
    PROVE  SmoothInv'
<1> DEFINE i == run[a].import
<1>t. TypeInv /\ run \in [Actors -> Run] /\ tmp \in TmpTable /\ run[a] \in Run
  BY DEF OwnInv, TypeInv, TypeOK
<1>q. ~run[a].raised
  BY DEF SmoothInv
<1>s. \A b \in Actors : b = a
  BY DEF Serial
<1>v. run[a].pc # "insert" => run[a].written = {}
  BY DEF SmoothInv
<1> SUFFICES /\ ~run'[a].raised
             /\ run'[a].pc # "insert" => run'[a].written = {}
             /\ run'[a].pc = "create" => ~tmp'.exists
             /\ run'[a].pc \in WithTable => tmp'.exists
             /\ run'[a].pc = "insert" => Fits(a)'
             /\ run'[a].pc = "reject" => run'[a].import \in Unloadable
  BY <1>s DEF SmoothInv, Fits, UniqueIn, LinesIn
<1>1. CASE create_tmp_file(a)
  <2>1. run'[a].pc = "drop" /\ run'[a].raised = run[a].raised
        /\ run'[a].written = run[a].written
    BY <1>1, <1>t DEF create_tmp_file, Run
  <2>9. run[a].written = {}
    BY <1>1, <1>v DEF create_tmp_file
  <2> QED BY <2>9, <2>1, <1>q DEF WithTable
<1>2. CASE drop_if_exists(a)
  <2>1. run'[a].pc = "create" /\ run'[a].raised = run[a].raised
        /\ run'[a].written = run[a].written
    BY <1>2, <1>t, GotoFields DEF drop_if_exists
  <2>2. ~tmp'.exists
    BY <1>2 DEF drop_if_exists, NoTable
  <2>9. run[a].written = {}
    BY <1>2, <1>v DEF drop_if_exists
  <2> QED BY <2>9, <2>1, <2>2, <1>q DEF WithTable
<1>3. CASE create_tmp_table(a)
  <2>1. ~tmp.exists
    BY <1>3 DEF create_tmp_table, SmoothInv
  <2>2. tmp' = [exists |-> TRUE, rows |-> {}] /\ Goto(a, "copy")
    BY <1>3, <2>1 DEF create_tmp_table
  <2>3. run'[a].pc = "copy" /\ run'[a].raised = run[a].raised /\ tmp'.exists
        /\ run'[a].written = run[a].written
    BY <2>2, <1>t, GotoFields
  <2>9. run[a].written = {}
    BY <1>3, <1>v DEF create_tmp_table
  <2> QED BY <2>9, <2>3, <1>q
<1>4. CASE run_psql_command(a)
  <2>1. tmp.exists
    BY <1>4 DEF run_psql_command, SmoothInv, WithTable
  <2>2. tmp'.exists
    BY <1>4, <2>1, <1>t DEF run_psql_command, TmpTable
  <2>9. run[a].written = {}
    BY <1>4, <1>v DEF run_psql_command
  <2>3. CASE Goto(a, "set_id")
    BY <2>2, <2>3, <2>9, <1>q, <1>t, GotoFields
  <2>4. CASE Goto(a, "reject") /\ i \in Unloadable
    BY <2>2, <2>4, <2>9, <1>q, <1>t, GotoFields
  <2> QED BY <1>4, <2>1, <2>3, <2>4 DEF run_psql_command
<1>5. CASE process_unsuccessful(a)
  <2>1. tmp'.exists
    BY <1>5 DEF process_unsuccessful, SmoothInv, WithTable
  <2>2. run'[a].pc = "ensure_drop" /\ run'[a].raised = run[a].raised
        /\ run'[a].written = run[a].written
    BY <1>5, <1>t, GotoFields DEF process_unsuccessful
  <2>9. run[a].written = {}
    BY <1>5, <1>v DEF process_unsuccessful
  <2> QED BY <2>9, <2>1, <2>2, <1>q
<1>6. CASE set_bgeigie_import_id(a)
  <2>1. tmp.exists
    BY <1>6 DEF set_bgeigie_import_id, SmoothInv, WithTable
  <2>2. tmp'.exists /\ Goto(a, "latlng")
    BY <1>6, <2>1, <1>t DEF set_bgeigie_import_id, UpdateTmp, TmpTable
  <2>3. run'[a].pc = "latlng" /\ run'[a].raised = run[a].raised
        /\ run'[a].written = run[a].written
    BY <2>2, <1>t, GotoFields
  <2>9. run[a].written = {}
    BY <1>6, <1>v DEF set_bgeigie_import_id
  <2> QED BY <2>9, <2>2, <2>3, <1>q
<1>7. CASE compute_latlng_from_nmea(a)
  <2>1. tmp.exists
    BY <1>7 DEF compute_latlng_from_nmea, SmoothInv, WithTable
  <2>2. tmp'.exists /\ Goto(a, "select")
    BY <1>7, <2>1, <1>t DEF compute_latlng_from_nmea, UpdateTmp, TmpTable
  <2>3. run'[a].pc = "select" /\ run'[a].raised = run[a].raised
        /\ run'[a].written = run[a].written
    BY <2>2, <1>t, GotoFields
  <2>9. run[a].written = {}
    BY <1>7, <1>v DEF compute_latlng_from_nmea
  <2> QED BY <2>9, <2>2, <2>3, <1>q
<1>8. CASE populate_select(a)
  <2>1. tmp.exists
    BY <1>8 DEF populate_select, SmoothInv, WithTable
  <2>2. /\ run' = [run EXCEPT ![a].pc = "insert", ![a].pending = Missing]
        /\ UNCHANGED <<tmp, bgeigie_logs>>
    BY <1>8, <2>1 DEF populate_select
  <2>3. /\ run'[a].pc = "insert" /\ run'[a].pending = Missing
        /\ run'[a].written = {} /\ run'[a].raised = run[a].raised
    BY <1>8, <1>v, <2>2, <1>t DEF Run, populate_select
  <2>4. UniqueIn(Missing)
    <3>1. Missing \subseteq Rows(i, i, TRUE)
      BY <1>8 DEF populate_select, Missing, OwnInv, TableInv
    <3> QED BY <3>1, RowsUnique
  <2>5. LinesIn(Missing) \cap LinesIn(bgeigie_logs) = {}
    BY DEF Missing, LinesIn
  <2>6. Fits(a)'
    BY <2>2, <2>3, <2>4, <2>5 DEF Fits, UniqueIn, LinesIn
  <2> QED BY <2>1, <2>2, <2>3, <2>6, <1>q
<1>9. CASE populate_insert(a)
  <2>1. tmp'.exists /\ Fits(a)
    BY <1>9 DEF populate_insert, SmoothInv, WithTable
  <2>2. PICK x \in Unwritten(a) : run' = [run EXCEPT ![a].written = @ \cup {x}]
    BY <1>9, <1>s, <2>1, InsertGoesOn
  <2>3. /\ run'[a].pc = "insert" /\ run'[a].pending = run[a].pending
        /\ run'[a].written = run[a].written \cup {x} /\ run'[a].raised = run[a].raised
    BY <1>9, <2>2, <1>t DEF Run, populate_insert
  <2>4. Fits(a)'
    BY <1>9, <2>1, <2>3 DEF Fits, UniqueIn, LinesIn, Unwritten, populate_insert
  <2> QED BY <2>1, <2>3, <2>4, <1>q
<1>10. CASE populate_commit(a)
  <2>1. tmp'.exists
    BY <1>10 DEF populate_commit, SmoothInv, WithTable
  <2>2. /\ run'[a].pc = "count" /\ run'[a].written = {}
        /\ run'[a].raised = run[a].raised
    BY <1>10, <1>t DEF populate_commit, Run
  <2> QED BY <2>1, <2>2, <1>q
<1>11. CASE count_logs(a)
  <2>1. tmp'.exists
    BY <1>11 DEF count_logs, SmoothInv, WithTable
  <2>2. /\ run'[a].pc = "set_count" /\ run'[a].written = {}
        /\ run'[a].raised = run[a].raised
    BY <1>11, <1>t, <1>v DEF count_logs, Run
  <2> QED BY <2>1, <2>2, <1>q
<1>12. CASE set_measurements_count(a)
  <2>1. tmp'.exists
    BY <1>12 DEF set_measurements_count, SmoothInv, WithTable
  <2>2. /\ run'[a].pc = "confirm_logs" /\ run'[a].written = {}
        /\ run'[a].raised = run[a].raised
    BY <1>12, <1>t, <1>v, GotoFields DEF set_measurements_count
  <2> QED BY <2>1, <2>2, <1>q
<1>13. CASE confirm_import_bgeigie_logs(a)
  <2>1. tmp'.exists
    BY <1>13 DEF confirm_import_bgeigie_logs, SmoothInv, WithTable
  <2>2. /\ run'[a].pc = "ensure_drop" /\ run'[a].written = {}
        /\ run'[a].raised = run[a].raised
    BY <1>13, <1>t, <1>v DEF confirm_import_bgeigie_logs, Run
  <2> QED BY <2>1, <2>2, <1>q
<1>14. CASE drop_tmp_table(a)
  <2>1. tmp.exists
    BY <1>14 DEF drop_tmp_table, SmoothInv, WithTable
  <2>2. Goto(a, "confirm_latlng")
    BY <1>14, <2>1, <1>q DEF drop_tmp_table
  <2>3. /\ run'[a].pc = "confirm_latlng" /\ run'[a].written = {}
        /\ run'[a].raised = run[a].raised
    BY <1>14, <2>2, <1>t, <1>v, GotoFields DEF drop_tmp_table
  <2> QED BY <2>3, <1>q DEF WithTable
<1>15. CASE confirm_compute_latlng(a)
  <2>1. /\ run'[a].pc = "set_status" /\ run'[a].written = {}
        /\ run'[a].raised = run[a].raised
    BY <1>15, <1>t, <1>v DEF confirm_compute_latlng, Run
  <2> QED BY <2>1, <1>q DEF WithTable
<1>16. CASE set_status(a)
  <2>1. /\ run'[a].pc = "check_auto_approve" /\ run'[a].written = {}
        /\ run'[a].raised = run[a].raised
    BY <1>16, <1>t, <1>v, GotoFields DEF set_status
  <2> QED BY <2>1, <1>q DEF WithTable
<1>17. CASE check_auto_approve(a)
  <2>1. /\ run'[a].pc \in {"idle", "answered"} /\ run'[a].written = {}
        /\ ~run'[a].raised
    BY <1>17, <1>t, EndRunFields DEF check_auto_approve
  <2> QED BY <2>1 DEF WithTable
<1> QED
  BY <1>1, <1>2, <1>3, <1>4, <1>5, <1>6, <1>7, <1>8, <1>9, <1>10, <1>11, <1>12, <1>13, <1>14,
     <1>15, <1>16, <1>17 DEF ProcessStep

LEMMA SmoothStep ==
    ASSUME Serial, OwnInv, SmoothInv, [Next]_vars
    PROVE  SmoothInv'
<1>t. TypeInv
  BY DEF OwnInv
\* A run that is about to begin or has ended.
<1>n. ASSUME NEW a \in Actors, ~run'[a].raised, run'[a].written = {},
             run'[a].pc \in {"idle", "answered", "create_tmp_file"}
      PROVE  SmoothInv'
  BY <1>n DEF Serial, SmoothInv, WithTable
<1>1. CASE UNCHANGED vars
  BY <1>1 DEF vars, SmoothInv, Fits, UniqueIn, LinesIn
<1>2. ASSUME UNCHANGED <<tmp, run>>, bgeigie_logs' \subseteq bgeigie_logs
      PROVE  SmoothInv'
  BY <1>2 DEF SmoothInv, Fits, UniqueIn, LinesIn
<1>3. ASSUME NEW i \in Imports, Upload(i) \/ destroy(i)
      PROVE  SmoothInv'
  BY <1>2, <1>3 DEF Upload, destroy
<1>4. ASSUME NEW a \in Actors, NEW i \in Imports, Enter(a, i)
      PROVE  SmoothInv'
  <2>1. run'[a].pc = "create_tmp_file" /\ ~run'[a].raised
        /\ run'[a].written = {}
    BY <1>4, <1>t, EnterFields
  <2> QED BY <2>1, <1>n
<1>5. ASSUME NEW w \in Workers, TakeJob(w)
      PROVE  SmoothInv'
  <2>1. ASSUME NEW i \in Imports, JobNotFound(w, i)
        PROVE  SmoothInv'
    BY <2>1, <1>2 DEF JobNotFound
  <2> QED BY <1>4, <1>5, <2>1 DEF TakeJob, StartJob, Actors
<1>6. ASSUME NEW q \in Requests, NEW i \in Imports, process_button(q, i)
      PROVE  SmoothInv'
  BY <1>4, <1>6 DEF process_button, Actors
<1>7. ASSUME NEW a \in Actors, Crash(a)
      PROVE  SmoothInv'
  <2>1. run'[a].pc \in {"idle", "answered"} /\ ~run'[a].raised
        /\ run'[a].written = {}
    BY <1>7, <1>t, EndRunFields DEF Crash
  <2> QED BY <2>1, <1>n
<1> QED
  BY <1>1, <1>3, <1>5, <1>6, <1>7, SmoothProcessStep DEF Next

LEMMA SmoothInit == Init => OwnInv /\ SmoothInv
<1> SUFFICES ASSUME Init
             PROVE  OwnInv /\ SmoothInv
  OBVIOUS
<1>1. \A a \in Actors : run[a].pc = "idle" /\ run[a].written = {} /\ ~run[a].raised
  BY DEF Init, IdleRun
<1>2. TableInv /\ OwnLines /\ SmoothInv
  BY <1>1 DEF Init, TableInv, OwnLines, SmoothInv, WithTable
<1> QED BY <1>2, TypeInit DEF OwnInv

-----------------------------------------------------------------------------
(* Who is rejected, and whose job fails *)

\* A failed attempt is never one at an import that is still there.
AttemptInv ==
    \A i \in Imports :
        job[i].attempts > 0 => ~import[i].stored /\ job[i].state # "none"

RecoveryInv ==
    OwnInv /\ SmoothInv /\ RejectedOnlyIfUnloadable /\ AttemptInv

\* What the steps of a single actor do to flags and attempts.
LEMMA ProcessStepFlags ==
    ASSUME OwnInv, SmoothInv, NEW a \in Actors, ProcessStep(a)
    PROVE  /\ \A k \in Imports :
                 import'[k].rejected =>
                     import[k].rejected \/ (k = run[a].import /\ k \in Unloadable)
           /\ \A k \in Imports : job'[k].attempts = job[k].attempts
           /\ \A k \in Imports : job'[k].state = job[k].state \/ job'[k].state = "done"
<1> DEFINE i == run[a].import
<1>p. Busy(a)
  BY DEF Busy, ProcessStep, create_tmp_file, drop_if_exists, create_tmp_table, run_psql_command,
     process_unsuccessful, set_bgeigie_import_id, compute_latlng_from_nmea, populate_select,
     populate_insert, populate_commit, count_logs, set_measurements_count,
     confirm_import_bgeigie_logs, drop_tmp_table, confirm_compute_latlng, set_status,
     check_auto_approve
<1>t. /\ TypeInv
      /\ i \in Imports /\ import[i] \in ImportRow /\ import \in [Imports -> ImportRow]
      /\ job \in [Imports -> Job]
  BY <1>p DEF Busy, OwnInv, TypeInv, TypeOK, RunsHaveImport
<1>w. ASSUME NEW r, Write(i, r), r.rejected => import[i].rejected \/ i \in Unloadable
      PROVE  \A k \in Imports :
                 import'[k].rejected => import[k].rejected \/ (k = i /\ k \in Unloadable)
  BY <1>w, <1>t DEF Write
<1>1. CASE create_tmp_file(a)
  BY <1>1, <1>t, <1>w DEF create_tmp_file, ImportRow
<1>2. CASE process_unsuccessful(a)
  <2>1. i \in Unloadable
    BY <1>2 DEF process_unsuccessful, SmoothInv
  <2> QED BY <1>2, <1>w, <2>1 DEF process_unsuccessful
<1>3. CASE set_measurements_count(a)
  BY <1>3, <1>t, <1>w DEF set_measurements_count, ImportRow
<1>4. CASE confirm_import_bgeigie_logs(a)
  BY <1>4, <1>t, <1>w DEF confirm_import_bgeigie_logs, ImportRow
<1>5. CASE drop_tmp_table(a)
  <2>1. tmp.exists /\ ~run[a].raised
    BY <1>5 DEF drop_tmp_table, SmoothInv, WithTable
  <2> QED BY <1>5, <2>1 DEF drop_tmp_table
<1>6. CASE confirm_compute_latlng(a)
  BY <1>6, <1>t, <1>w DEF confirm_compute_latlng, ImportRow
<1>7. CASE set_status(a)
  BY <1>7, <1>t, <1>w DEF set_status, ImportRow
<1>8. CASE check_auto_approve(a)
  <2>1. UNCHANGED job \/ job' = [job EXCEPT ![i] = Succeed(job[i])]
    BY <1>8 DEF check_auto_approve, EndRun
  <2>2. Succeed(job[i]).attempts = job[i].attempts /\ Succeed(job[i]).state = "done"
    BY <1>t DEF Succeed, Job
  <2>3. UNCHANGED import
    BY <1>8 DEF check_auto_approve
  <2> QED BY <1>t, <2>1, <2>2, <2>3
<1>9. CASE UNCHANGED <<import, job>>
  BY <1>9
<1> QED
  BY <1>1, <1>2, <1>3, <1>4, <1>5, <1>6, <1>7, <1>8, <1>9
     DEF ProcessStep, drop_if_exists, create_tmp_table, run_psql_command,
         set_bgeigie_import_id, compute_latlng_from_nmea, UpdateTmp, populate_select,
         populate_insert, populate_commit, count_logs

LEMMA AttemptStep ==
    ASSUME RecoveryInv, [Next]_vars
    PROVE  AttemptInv' /\ RejectedOnlyIfUnloadable'
<1>t. /\ TypeInv /\ AttemptInv /\ RejectedOnlyIfUnloadable
      /\ import \in [Imports -> ImportRow] /\ job \in [Imports -> Job]
  BY DEF RecoveryInv, OwnInv, TypeInv, TypeOK
<1>1. CASE UNCHANGED <<import, job>>
  BY <1>1, <1>t DEF AttemptInv, RejectedOnlyIfUnloadable
<1>2. ASSUME NEW i \in Imports, Upload(i)
      PROVE  AttemptInv' /\ RejectedOnlyIfUnloadable'
  <2>1. ~NewImport.rejected /\ job[i].attempts = 0
    BY <1>2, <1>t DEF Upload, NewImport, AttemptInv, Job
  <2> QED BY <1>2, <1>t, <2>1 DEF Upload, AttemptInv, RejectedOnlyIfUnloadable, Job
<1>3. ASSUME NEW i \in Imports, destroy(i)
      PROVE  AttemptInv' /\ RejectedOnlyIfUnloadable'
  BY <1>3, <1>t DEF destroy, AttemptInv, RejectedOnlyIfUnloadable, ImportRow
<1>4. ASSUME NEW w \in Workers, NEW i \in Imports, StartJob(w, i)
      PROVE  AttemptInv' /\ RejectedOnlyIfUnloadable'
  BY <1>4, <1>t DEF StartJob, Enter, AttemptInv, RejectedOnlyIfUnloadable, Job
<1>5. ASSUME NEW w \in Workers, NEW i \in Imports, JobNotFound(w, i)
      PROVE  AttemptInv' /\ RejectedOnlyIfUnloadable'
  BY <1>5, <1>t DEF JobNotFound, Reschedule, AttemptInv, RejectedOnlyIfUnloadable, Job
<1>6. ASSUME NEW a \in Actors, Crash(a)
      PROVE  AttemptInv' /\ RejectedOnlyIfUnloadable'
  <2> DEFINE i == run[a].import
  <2>1. i \in Imports /\ UNCHANGED import
    BY <1>6, <1>t DEF Crash, TypeInv, RunsHaveImport
  <2>2. UNCHANGED job \/ job' = [job EXCEPT ![i] = Requeue(job[i])]
    BY <1>6 DEF Crash, EndRun
  <2>3. Requeue(job[i]).attempts = job[i].attempts /\ Requeue(job[i]).state = "queued"
    BY <1>t, <2>1 DEF Requeue, Job
  <2> QED BY <1>t, <2>1, <2>2, <2>3 DEF AttemptInv, RejectedOnlyIfUnloadable
<1>7. ASSUME NEW a \in Actors, ProcessStep(a)
      PROVE  AttemptInv' /\ RejectedOnlyIfUnloadable'
  <2>1. \A k \in Imports : import'[k].stored = import[k].stored
    BY <1>7, <1>t, ProcessStepStored
  <2> QED BY <1>7, <1>t, <2>1, ProcessStepFlags
          DEF RecoveryInv, AttemptInv, RejectedOnlyIfUnloadable
<1> QED
  BY <1>1, <1>2, <1>3, <1>4, <1>5, <1>6, <1>7 DEF Next, TakeJob, process_button, Enter, vars

LEMMA RecoveryInit == Init => RecoveryInv
<1> SUFFICES ASSUME Init
             PROVE  RecoveryInv
  OBVIOUS
<1>1. AttemptInv /\ RejectedOnlyIfUnloadable
  BY DEF Init, NewImport, AttemptInv, RejectedOnlyIfUnloadable
<1> QED BY <1>1, SmoothInit DEF RecoveryInv

LEMMA RecoveryStep ==
    ASSUME Serial
    PROVE  RecoveryInv /\ [Next]_vars => RecoveryInv'
<1> SUFFICES ASSUME RecoveryInv, [Next]_vars
             PROVE  RecoveryInv'
  OBVIOUS
<1>1. OwnInv' /\ SmoothInv'
  BY OwnStep, SmoothStep DEF RecoveryInv
<1> QED BY <1>1, AttemptStep DEF RecoveryInv

\* With a single worker, a run is never the reason that an attempt fails,
\* however many runs were killed before it and whatever their leftovers: an
\* attempt fails only at an import that is not there any more.
THEOREM RunsRecover ==
    ASSUME Serial
    PROVE  Spec => []OnlyDestroyedImportsFail
<1>1. RecoveryInv /\ [Next]_vars => RecoveryInv'
  BY RecoveryStep
<1>2. RecoveryInv => OnlyDestroyedImportsFail
  BY DEF RecoveryInv, AttemptInv, OnlyDestroyedImportsFail
<1> QED BY <1>1, <1>2, RecoveryInit, PTL DEF Spec

\* With a single actor, process rejects no file that psql can load, whatever table
\* killed runs have left: nobody else is there to drop the table before \copy.
THEOREM GoodFilesPass ==
    ASSUME Serial
    PROVE  Spec => []RejectedOnlyIfUnloadable
<1>1. RecoveryInv /\ [Next]_vars => RecoveryInv'
  BY RecoveryStep
<1>2. RecoveryInv => RejectedOnlyIfUnloadable
  BY DEF RecoveryInv
<1> QED BY <1>1, <1>2, RecoveryInit, PTL DEF Spec

-----------------------------------------------------------------------------
(* Counts *)

Counted(i) == import[i].measurements_count = Cardinality(LogsOf(i))

\* Where a run is between \copy and the count, and once it has written that
Loading == {"set_id", "latlng", "select", "insert", "count", "set_count", "confirm_logs"}
AfterCount ==
    {"confirm_logs", "ensure_drop", "confirm_latlng", "set_status", "check_auto_approve"}

\* A count is right once it has been taken, and stays so until the next run at
\* the import, of which there is none after the job is done.
CountInv ==
    /\ \A i \in Imports :
          /\ job[i].state \in {"none", "failed"} => ~import[i].stored
          /\ job[i].state \in {"running", "done"} => Requests = {}
          /\ job[i].state = "done" /\ import[i].stored => Counted(i)
          /\ i \in Unloadable => LogsOf(i) = {} /\ import[i].measurements_count = 0
    /\ \A a \in Actors : Busy(a) =>
          /\ job[run[a].import].state # "none"
          /\ a \in Workers => job[run[a].import].state = "running"
          /\ run[a].pc \in Loading => run[a].import \notin Unloadable
          /\ import[run[a].import].stored =>
                /\ run[a].pc = "set_count" =>
                      run[a].counted = Cardinality(LogsOf(run[a].import))
                /\ run[a].pc \in AfterCount => Counted(run[a].import)

LEMMA CountProcessStep ==
    ASSUME Serial, RecoveryInv, CountInv, NEW a \in Actors, ProcessStep(a)
    PROVE  CountInv'
<1> DEFINE i == run[a].import
<1>p. Busy(a)
  BY DEF Busy, ProcessStep, create_tmp_file, drop_if_exists, create_tmp_table, run_psql_command,
     process_unsuccessful, set_bgeigie_import_id, compute_latlng_from_nmea, populate_select,
     populate_insert, populate_commit, count_logs, set_measurements_count,
     confirm_import_bgeigie_logs, drop_tmp_table, confirm_compute_latlng, set_status,
     check_auto_approve
<1>t. /\ TypeInv /\ OwnInv /\ SmoothInv
      /\ i \in Imports /\ import \in [Imports -> ImportRow] /\ import[i] \in ImportRow
      /\ run \in [Actors -> Run] /\ run[a] \in Run /\ job \in [Imports -> Job]
      /\ bgeigie_logs \subseteq LogRow
  BY <1>p DEF Busy, RecoveryInv, OwnInv, TypeInv, TypeOK, RunsHaveImport
<1>s. \A b \in Actors : b = a
  BY DEF Serial
<1>d. job[i].state # "done"
  BY <1>p, <1>t DEF CountInv, Actors
<1>k. \A k \in Imports : import'[k].stored = import[k].stored
  BY <1>t, ProcessStepStored
\* A step that leaves the logs and the jobs alone.
<1>a. ASSUME NEW p, p = run'[a].pc, run'[a].import = i, UNCHANGED <<bgeigie_logs, job>>,
             \A k \in Imports : import'[k].measurements_count = import[k].measurements_count,
             p \in Loading => i \notin Unloadable,
             p = "set_count" => run'[a].counted = Cardinality(LogsOf(i)),
             p \in AfterCount /\ import[i].stored => Counted(i)
      PROVE  CountInv'
  <2>1. \A k \in Imports : LogsOf(k)' = LogsOf(k)
    BY <1>a DEF LogsOf
  <2>2. \A k \in Imports : Counted(k)' <=> Counted(k)
    BY <1>a, <2>1 DEF Counted
  <2> QED BY <1>a, <1>k, <1>p, <1>s, <1>t, <2>1, <2>2 DEF CountInv, Busy
<1>w. ASSUME NEW r, Write(i, r), r.measurements_count = import[i].measurements_count
      PROVE  \A k \in Imports : import'[k].measurements_count = import[k].measurements_count
  BY <1>w, <1>t DEF Write
<1>1. CASE create_tmp_file(a)
  <2>1. run'[a].pc = "drop" /\ run'[a].import = i
    BY <1>1, <1>t DEF create_tmp_file, Run
  <2>2. \A k \in Imports : import'[k].measurements_count = import[k].measurements_count
    BY <1>1, <1>t, <1>w DEF create_tmp_file, ImportRow
  <2> QED BY <1>1, <1>a, <2>1, <2>2 DEF create_tmp_file, Loading, AfterCount
<1>2. CASE drop_if_exists(a)
  <2>1. run'[a].pc = "create" /\ run'[a].import = i
    BY <1>2, <1>t, GotoFields DEF drop_if_exists
  <2> QED BY <1>2, <1>a, <2>1 DEF drop_if_exists, Loading, AfterCount
<1>3. CASE create_tmp_table(a)
  <2>1. Goto(a, "copy")
    BY <1>3, <1>t DEF create_tmp_table, SmoothInv
  <2>2. run'[a].pc = "copy" /\ run'[a].import = i
    BY <2>1, <1>t, GotoFields
  <2> QED BY <1>3, <1>a, <2>2 DEF create_tmp_table, Loading, AfterCount
<1>4. CASE run_psql_command(a)
  <2>1. CASE Goto(a, "set_id") /\ i \notin Unloadable
    <3>1. run'[a].pc = "set_id" /\ run'[a].import = i
      BY <2>1, <1>t, GotoFields
    <3> QED BY <1>4, <1>a, <2>1, <3>1 DEF run_psql_command, Loading, AfterCount
  <2>2. CASE Goto(a, "reject")
    <3>1. run'[a].pc = "reject" /\ run'[a].import = i
      BY <2>2, <1>t, GotoFields
    <3> QED BY <1>4, <1>a, <3>1 DEF run_psql_command, Loading, AfterCount
  <2> QED BY <1>4, <2>1, <2>2 DEF run_psql_command
<1>5. CASE process_unsuccessful(a)
  <2>1. run'[a].pc = "ensure_drop" /\ run'[a].import = i
    BY <1>5, <1>t, GotoFields DEF process_unsuccessful
  <2>2. \A k \in Imports : import'[k].measurements_count = import[k].measurements_count
    BY <1>5, <1>t, <1>w DEF process_unsuccessful, ImportRow
  <2>3. Counted(i)
    <3>1. i \in Unloadable
      BY <1>5, <1>t DEF process_unsuccessful, SmoothInv
    <3> QED BY <1>t, <3>1, FS_EmptySet DEF CountInv, Counted
  <2> QED BY <1>5, <1>a, <2>1, <2>2, <2>3 DEF process_unsuccessful, Loading, AfterCount
<1>6. CASE set_bgeigie_import_id(a)
  <2>1. Goto(a, "latlng") /\ i \notin Unloadable
    BY <1>6, <1>p, <1>t DEF set_bgeigie_import_id, UpdateTmp, SmoothInv, WithTable, CountInv, Loading
  <2>2. run'[a].pc = "latlng" /\ run'[a].import = i
    BY <2>1, <1>t, GotoFields
  <2> QED BY <1>6, <1>a, <2>1, <2>2 DEF set_bgeigie_import_id, UpdateTmp, Loading, AfterCount
<1>7. CASE compute_latlng_from_nmea(a)
  <2>1. Goto(a, "select") /\ i \notin Unloadable
    BY <1>7, <1>p, <1>t DEF compute_latlng_from_nmea, UpdateTmp, SmoothInv, WithTable, CountInv, Loading
  <2>2. run'[a].pc = "select" /\ run'[a].import = i
    BY <2>1, <1>t, GotoFields
  <2> QED BY <1>7, <1>a, <2>1, <2>2 DEF compute_latlng_from_nmea, UpdateTmp, Loading, AfterCount
<1>8. CASE populate_select(a)
  <2>1. tmp.exists /\ i \notin Unloadable
    BY <1>8, <1>p, <1>t DEF populate_select, SmoothInv, WithTable, CountInv, Loading
  <2>2. run' = [run EXCEPT ![a].pc = "insert", ![a].pending = Missing]
    BY <1>8, <2>1 DEF populate_select
  <2>3. run'[a].pc = "insert" /\ run'[a].import = i
    BY <2>2, <1>t DEF Run
  <2> QED BY <1>8, <1>a, <2>1, <2>3 DEF populate_select, Loading, AfterCount
<1>9. CASE populate_insert(a)
  <2>1. Fits(a) /\ i \notin Unloadable
    BY <1>9, <1>p, <1>t DEF populate_insert, SmoothInv, CountInv, Loading
  <2>2. PICK x : run' = [run EXCEPT ![a].written = @ \cup {x}]
    BY <1>9, <1>s, <2>1, InsertGoesOn
  <2>3. run'[a].pc = "insert" /\ run'[a].import = i
    BY <1>9, <2>2, <1>t DEF Run, populate_insert
  <2> QED BY <1>9, <1>a, <2>1, <2>3 DEF populate_insert, AfterCount
<1>10. CASE populate_commit(a)
  <2>1. i \notin Unloadable
    BY <1>10, <1>p, <1>t DEF populate_commit, CountInv, Loading
  <2>2. /\ bgeigie_logs' = bgeigie_logs \cup run[a].pending
        /\ UNCHANGED <<import, job>>
    BY <1>10 DEF populate_commit
  <2>3. run'[a].pc = "count" /\ run'[a].import = i
    BY <1>10, <1>t DEF Run, populate_commit
  <2>4. \A r \in run[a].pending : r.owner = i
    BY <1>10, <1>t DEF populate_commit, OwnInv, TableInv, Rows
  <2>5. \A k \in Imports \ {i} : LogsOf(k)' = LogsOf(k)
    BY <2>2, <2>4 DEF LogsOf
  <2>6. \A k \in Imports \ {i} : Counted(k)' <=> Counted(k)
    BY <2>2, <2>5 DEF Counted
  <2> QED BY <1>d, <1>p, <1>s, <2>1, <2>2, <2>3, <2>5, <2>6 DEF CountInv, Busy, AfterCount
<1>11. CASE count_logs(a)
  <2>1. /\ run'[a].pc = "set_count" /\ run'[a].import = i
        /\ run'[a].counted = Cardinality(LogsOf(i))
    BY <1>11, <1>t DEF count_logs, Run
  <2>2. i \notin Unloadable
    BY <1>11, <1>p DEF count_logs, CountInv, Loading
  <2> QED BY <1>11, <1>a, <2>1, <2>2 DEF count_logs, AfterCount
<1>12. CASE set_measurements_count(a)
  <2>1. run'[a].pc = "confirm_logs" /\ run'[a].import = i
    BY <1>12, <1>t, GotoFields DEF set_measurements_count
  <2>2. \A k \in Imports : LogsOf(k)' = LogsOf(k)
    BY <1>12 DEF set_measurements_count, LogsOf
  <2>3. import[i].stored => Counted(i)'
    <3>1. import[i].stored => import'[i].measurements_count = run[a].counted
      BY <1>12, <1>t DEF set_measurements_count, Write, ImportRow
    <3>2. import[i].stored => run[a].counted = Cardinality(LogsOf(i))
      BY <1>12, <1>p DEF set_measurements_count, CountInv
    <3> QED BY <2>1, <2>2, <3>1, <3>2, <1>t DEF Counted
  <2>4. \A k \in Imports \ {i} : import'[k] = import[k]
    BY <1>12, <1>t DEF set_measurements_count, Write
  <2>5. \A k \in Imports \ {i} : Counted(k)' <=> Counted(k)
    BY <2>2, <2>4 DEF Counted
  <2>6. i \notin Unloadable
    BY <1>12, <1>p DEF set_measurements_count, CountInv, Loading
  <2>7. UNCHANGED job
    BY <1>12 DEF set_measurements_count
  <2> QED BY <1>d, <1>k, <1>p, <1>s, <1>t, <2>1, <2>2, <2>3, <2>4, <2>5, <2>6, <2>7
          DEF CountInv, Busy
<1>13. CASE confirm_import_bgeigie_logs(a)
  <2>1. run'[a].pc = "ensure_drop" /\ run'[a].import = i
    BY <1>13, <1>t DEF confirm_import_bgeigie_logs, Run
  <2>2. \A k \in Imports : import'[k].measurements_count = import[k].measurements_count
    BY <1>13, <1>t, <1>w DEF confirm_import_bgeigie_logs, ImportRow
  <2>3. import[i].stored => Counted(i)
    BY <1>13, <1>p DEF confirm_import_bgeigie_logs, CountInv, AfterCount
  <2> QED BY <1>13, <1>a, <2>1, <2>2, <2>3 DEF confirm_import_bgeigie_logs, Loading
<1>14. CASE drop_tmp_table(a)
  <2>1. Goto(a, "confirm_latlng") /\ UNCHANGED job
    BY <1>14, <1>t DEF drop_tmp_table, SmoothInv, WithTable
  <2>2. run'[a].pc = "confirm_latlng" /\ run'[a].import = i
    BY <2>1, <1>t, GotoFields
  <2>3. import[i].stored => Counted(i)
    BY <1>14, <1>p DEF drop_tmp_table, CountInv, AfterCount
  <2> QED BY <1>14, <1>a, <2>1, <2>2, <2>3 DEF drop_tmp_table, Loading
<1>15. CASE confirm_compute_latlng(a)
  <2>1. run'[a].pc = "set_status" /\ run'[a].import = i
    BY <1>15, <1>t DEF confirm_compute_latlng, Run
  <2>2. \A k \in Imports : import'[k].measurements_count = import[k].measurements_count
    BY <1>15, <1>t, <1>w DEF confirm_compute_latlng, ImportRow
  <2>3. import[i].stored => Counted(i)
    BY <1>15, <1>p DEF confirm_compute_latlng, CountInv, AfterCount
  <2> QED BY <1>15, <1>a, <2>1, <2>2, <2>3 DEF confirm_compute_latlng, Loading
<1>16. CASE set_status(a)
  <2>1. run'[a].pc = "check_auto_approve" /\ run'[a].import = i
    BY <1>16, <1>t, GotoFields DEF set_status
  <2>2. \A k \in Imports : import'[k].measurements_count = import[k].measurements_count
    BY <1>16, <1>t, <1>w DEF set_status, ImportRow
  <2>3. import[i].stored => Counted(i)
    BY <1>16, <1>p DEF set_status, CountInv, AfterCount
  <2> QED BY <1>16, <1>a, <2>1, <2>2, <2>3 DEF set_status, Loading
<1>17. CASE check_auto_approve(a)
  <2>1. run'[a].pc \in {"idle", "answered"}
    BY <1>17, <1>t, EndRunFields DEF check_auto_approve
  <2>2. \A k \in Imports : import'[k] = import[k]
    BY <1>17 DEF check_auto_approve
  <2>3. \A k \in Imports : LogsOf(k)' = LogsOf(k)
    BY <1>17 DEF check_auto_approve, LogsOf
  <2>4. \A k \in Imports : Counted(k)' <=> Counted(k)
    BY <2>2, <2>3 DEF Counted
  <2>5. import[i].stored => Counted(i)
    BY <1>17, <1>p DEF check_auto_approve, CountInv, AfterCount
  <2>6. \/ a \in Workers /\ job' = [job EXCEPT ![i] = Succeed(job[i])]
        \/ UNCHANGED job
    BY <1>17 DEF check_auto_approve, EndRun
  <2>7. a \in Workers => Requests = {}
    BY <1>p, <1>t DEF CountInv
  <2>8. Succeed(job[i]).state = "done"
    BY <1>t DEF Succeed, Job
  <2>9. \A b \in Actors : ~ Busy(b)'
    BY <1>s, <2>1 DEF Busy
  <2> QED BY <1>k, <1>t, <2>2, <2>3, <2>4, <2>5, <2>6, <2>7, <2>8, <2>9 DEF CountInv
<1> QED
  BY <1>1, <1>2, <1>3, <1>4, <1>5, <1>6, <1>7, <1>8, <1>9, <1>10, <1>11, <1>12, <1>13, <1>14,
     <1>15, <1>16, <1>17 DEF ProcessStep

LEMMA CountStep ==
    ASSUME Serial, RecoveryInv, CountInv, [Next]_vars
    PROVE  CountInv'
<1>t. /\ TypeInv
      /\ import \in [Imports -> ImportRow] /\ run \in [Actors -> Run]
      /\ job \in [Imports -> Job]
  BY DEF RecoveryInv, OwnInv, TypeInv, TypeOK
<1>u. ASSUME UNCHANGED bgeigie_logs
      PROVE  \A k \in Imports : LogsOf(k)' = LogsOf(k)
  BY <1>u DEF LogsOf
<1>1. CASE UNCHANGED vars
  BY <1>1 DEF vars, CountInv, Busy, Counted, LogsOf
<1>2. ASSUME NEW i \in Imports, Upload(i)
      PROVE  CountInv'
  <2>1. /\ job[i].state = "none" /\ UNCHANGED <<run, bgeigie_logs>>
        /\ import' = [import EXCEPT ![i] = NewImport]
        /\ job' = [job EXCEPT ![i].state = "queued"]
    BY <1>2 DEF Upload
  <2>2. \A k \in Imports \ {i} : import'[k] = import[k] /\ job'[k] = job[k]
    BY <2>1, <1>t
  <2>3. import'[i].measurements_count = 0 /\ job'[i].state = "queued"
    BY <2>1, <1>t DEF NewImport, Job
  <2>4. \A k \in Imports : LogsOf(k)' = LogsOf(k)
    BY <2>1, <1>u
  <2>5. \A k \in Imports \ {i} : Counted(k)' <=> Counted(k)
    BY <2>2, <2>4 DEF Counted
  <2>6. \A b \in Actors : Busy(b) => run[b].import \in Imports \ {i}
    BY <1>t, <2>1 DEF CountInv, Busy, TypeInv, RunsHaveImport
  <2>7. \A b \in Actors : Busy(b)' <=> Busy(b)
    BY <2>1 DEF Busy
  <2> QED BY <2>1, <2>2, <2>3, <2>4, <2>5, <2>6, <2>7 DEF CountInv, Loading, AfterCount
<1>3. ASSUME NEW i \in Imports, destroy(i)
      PROVE  CountInv'
  <2>1. /\ UNCHANGED <<job, run>> /\ ~import'[i].stored
        /\ import'[i].measurements_count = import[i].measurements_count
    BY <1>3, <1>t DEF destroy, ImportRow
  <2>2. \A k \in Imports \ {i} : import'[k] = import[k]
    BY <1>3, <1>t DEF destroy
  <2>3. \A k \in Imports \ {i} : LogsOf(k)' = LogsOf(k)
    BY <1>3 DEF destroy, LogsOf
  <2>4. LogsOf(i)' = {}
    BY <1>3 DEF destroy, LogsOf
  <2>5. \A k \in Imports \ {i} : Counted(k)' <=> Counted(k)
    BY <2>2, <2>3 DEF Counted
  <2>6. \A b \in Actors : Busy(b)' <=> Busy(b)
    BY <2>1 DEF Busy
  <2>7. \A b \in Actors : Busy(b) => run[b].import \in Imports
    BY <1>t DEF Busy, TypeInv, RunsHaveImport
  <2> QED BY <2>1, <2>2, <2>3, <2>4, <2>5, <2>6, <2>7 DEF CountInv, Loading, AfterCount
<1>4. ASSUME NEW w \in Workers, NEW i \in Imports, StartJob(w, i)
      PROVE  CountInv'
  <2>1. /\ run'[w].pc = "create_tmp_file" /\ run'[w].import = i
        /\ UNCHANGED <<import, bgeigie_logs>> /\ import[i].stored
    BY <1>4, <1>t, EnterFields DEF StartJob, Enter, Actors
  <2>2. job'[i].state = "running" /\ \A k \in Imports \ {i} : job'[k] = job[k]
    BY <1>4, <1>t DEF StartJob, Job
  <2>3. \A b \in Actors : b = w
    BY DEF Serial, Actors
  <2>4. Requests = {}
    BY <2>3, ActorsAssumption DEF Actors
  <2>5. \A k \in Imports : LogsOf(k)' = LogsOf(k) /\ (Counted(k)' <=> Counted(k))
    BY <2>1, <1>u DEF Counted
  <2> QED BY <2>1, <2>2, <2>3, <2>4, <2>5 DEF CountInv, Loading, AfterCount
<1>5. ASSUME NEW w \in Workers, NEW i \in Imports, JobNotFound(w, i)
      PROVE  CountInv'
  <2>1. ~import[i].stored /\ UNCHANGED <<import, bgeigie_logs, run>>
    BY <1>5 DEF JobNotFound
  <2>2. /\ job'[i].state \in {"queued", "failed"}
        /\ \A k \in Imports \ {i} : job'[k] = job[k]
    BY <1>5, <1>t DEF JobNotFound, Reschedule
  <2>3. \A b \in Actors : ~ Busy(b)'
    BY <1>5 DEF Serial, Actors, JobNotFound, Busy
  <2>4. \A k \in Imports : LogsOf(k)' = LogsOf(k) /\ (Counted(k)' <=> Counted(k))
    BY <2>1, <1>u DEF Counted
  <2> QED BY <2>1, <2>2, <2>3, <2>4 DEF CountInv, Loading, AfterCount
<1>6. ASSUME NEW q \in Requests, NEW i \in Imports, process_button(q, i)
      PROVE  CountInv'
  <2>1. /\ run'[q].pc = "create_tmp_file" /\ run'[q].import = i
        /\ UNCHANGED <<import, bgeigie_logs, job>> /\ import[i].stored
    BY <1>6, <1>t, EnterFields DEF process_button, Enter, Actors
  <2>2. \A b \in Actors : b = q
    BY DEF Serial, Actors
  <2>3. q \notin Workers
    BY ActorsAssumption
  <2>4. \A k \in Imports : LogsOf(k)' = LogsOf(k) /\ (Counted(k)' <=> Counted(k))
    BY <2>1, <1>u DEF Counted
  <2> QED BY <2>1, <2>2, <2>3, <2>4 DEF CountInv, Loading, AfterCount
<1>7. ASSUME NEW a \in Actors, Crash(a)
      PROVE  CountInv'
  <2> DEFINE i == run[a].import
  <2>1. /\ run'[a].pc \in {"idle", "answered"} /\ UNCHANGED <<import, bgeigie_logs>>
        /\ i \in Imports
    BY <1>7, <1>t, EndRunFields DEF Crash, TypeInv, RunsHaveImport
  <2>2. UNCHANGED job \/ job' = [job EXCEPT ![i] = Requeue(job[i])]
    BY <1>7 DEF Crash, EndRun
  <2>3. Requeue(job[i]).state = "queued"
    BY <1>t, <2>1 DEF Requeue, Job
  <2>4. \A b \in Actors : ~ Busy(b)'
    BY <2>1 DEF Serial, Busy
  <2>5. \A k \in Imports : LogsOf(k)' = LogsOf(k) /\ (Counted(k)' <=> Counted(k))
    BY <2>1, <1>u DEF Counted
  <2> QED BY <1>t, <2>1, <2>2, <2>3, <2>4, <2>5 DEF CountInv, Loading, AfterCount
<1> QED
  BY <1>1, <1>2, <1>3, <1>4, <1>5, <1>6, <1>7, CountProcessStep DEF Next, TakeJob

\* With a single worker, measurements_count agrees with bgeigie_logs once a
\* file is processed, whatever was killed, retried or destroyed before.
THEOREM CountsAgree ==
    ASSUME Serial
    PROVE  Spec => []CountAgrees
<1>1. Init => RecoveryInv /\ CountInv
  <2> SUFFICES ASSUME Init
               PROVE  CountInv
    BY RecoveryInit
  <2>1. \A i \in Imports : /\ job[i].state = "none" /\ ~import[i].stored
                           /\ import[i].measurements_count = 0 /\ LogsOf(i) = {}
    BY DEF Init, NewImport, LogsOf
  <2>2. \A a \in Actors : ~ Busy(a)
    BY DEF Init, IdleRun, Busy
  <2> QED BY <2>1, <2>2 DEF CountInv
<1>2. RecoveryInv /\ CountInv /\ [Next]_vars => RecoveryInv' /\ CountInv'
  BY RecoveryStep, CountStep
<1>3. RecoveryInv /\ CountInv => CountAgrees
  <2> SUFFICES ASSUME RecoveryInv, CountInv, NEW i \in Imports,
                      import[i].stored, Settled(i)
               PROVE  Counted(i)
    BY DEF CountAgrees, Counted
  <2>1. job[i].state \in {"none", "done", "failed"}
    BY DEF Settled, RecoveryInv, OwnInv, TypeInv, TypeOK, Job
  <2> QED BY <2>1 DEF CountInv
<1> QED BY <1>1, <1>2, <1>3, PTL DEF Spec

-----------------------------------------------------------------------------
(* Lines *)

Loaded(i) == File[i] \subseteq LinesIn(bgeigie_logs)

Flagged(details) == "import_bgeigie_logs" \in details

\* Where a run is between its INSERT and the flag
Unflagged == {"count", "set_count", "confirm_logs"}

\* The lines are stored from the INSERT on: when the flag that says so is set,
\* and while a run knows of them and has not said so yet.
LossInv ==
    /\ \A i \in Imports : Flagged(import[i].details) => Loaded(i)
    /\ \A a \in Actors :
          Busy(a) /\ (run[a].pc \in Unflagged \/ Flagged(run[a].details))
              => Loaded(run[a].import)

\* Logs only grow where no import is destroyed.
LEMMA LoadedStays ==
    ASSUME NEW i \in Imports, Loaded(i), bgeigie_logs \subseteq bgeigie_logs'
    PROVE  Loaded(i)'
BY DEF Loaded, LinesIn

LEMMA LossProcessStep ==
    ASSUME Serial, AtomicInv, LossInv, NEW a \in Actors, ProcessStep(a)
    PROVE  LossInv'
<1> DEFINE i == run[a].import
<1>p. Busy(a)
  BY DEF Busy, ProcessStep, create_tmp_file, drop_if_exists, create_tmp_table, run_psql_command,
     process_unsuccessful, set_bgeigie_import_id, compute_latlng_from_nmea, populate_select,
     populate_insert, populate_commit, count_logs, set_measurements_count,
     confirm_import_bgeigie_logs, drop_tmp_table, confirm_compute_latlng, set_status,
     check_auto_approve
<1>t. /\ TypeInv
      /\ i \in Imports /\ import \in [Imports -> ImportRow] /\ import[i] \in ImportRow
      /\ run \in [Actors -> Run] /\ run[a] \in Run
  BY <1>p DEF Busy, AtomicInv, OwnInv, TypeInv, TypeOK, RunsHaveImport
<1>s. \A b \in Actors : b = a
  BY DEF Serial
<1>g. bgeigie_logs \subseteq bgeigie_logs'
  BY DEF ProcessStep, create_tmp_file, drop_if_exists, create_tmp_table, run_psql_command,
     process_unsuccessful, set_bgeigie_import_id, compute_latlng_from_nmea, UpdateTmp,
     populate_select, populate_insert, populate_commit, count_logs, set_measurements_count,
     confirm_import_bgeigie_logs, drop_tmp_table, confirm_compute_latlng, set_status,
     check_auto_approve
<1>l. \A k \in Imports : Loaded(k) => Loaded(k)'
  BY <1>g, LoadedStays
\* A step that sets no flag before the lines are there.
<1>a. ASSUME \A k \in Imports : Flagged(import'[k].details) =>
                 Flagged(import[k].details) \/ (k = i /\ Loaded(i)),
             run'[a].pc \in {"idle", "answered"} \/
                 /\ run'[a].import = i
                 /\ run'[a].pc \in Unflagged \/ Flagged(run'[a].details) => Loaded(i)
      PROVE  LossInv'
  BY <1>a, <1>l, <1>s, <1>t DEF LossInv, Busy
<1>f. /\ Flagged(run[a].details) => Loaded(i)
      /\ Flagged(import[i].details) => Loaded(i)
  BY <1>p, <1>t DEF LossInv
<1>c. /\ Flagged(Confirmed(a, "process_file")) <=> Flagged(run[a].details)
      /\ Flagged(Confirmed(a, "compute_latlng")) <=> Flagged(run[a].details)
  BY DEF Flagged, Confirmed
<1>w. ASSUME NEW r, Write(i, r), Flagged(r.details) => Loaded(i)
      PROVE  \A k \in Imports : Flagged(import'[k].details) =>
                 Flagged(import[k].details) \/ (k = i /\ Loaded(i))
  BY <1>w, <1>t DEF Write
\* A step that only moves on.
<1>m. ASSUME NEW p, p \notin Unflagged, Goto(a, p) \/ Raise(a), UNCHANGED import
      PROVE  LossInv'
  <2>1. CASE Goto(a, p)
    <3>1. run'[a].pc = p /\ run'[a].import = i /\ run'[a].details = run[a].details
      BY <2>1, <1>t, GotoFields
    <3> QED BY <3>1, <1>a, <1>f, <1>m DEF Unflagged
  <2>2. CASE Raise(a)
    <3>1. /\ run'[a].pc = "ensure_drop" /\ run'[a].import = i
          /\ run'[a].details = run[a].details
      BY <2>2, <1>t DEF Raise, Run
    <3> QED BY <3>1, <1>a, <1>f, <1>m DEF Unflagged
  <2> QED BY <1>m, <2>1, <2>2
<1>1. CASE create_tmp_file(a)
  <2>1. /\ run'[a].pc = "drop" /\ run'[a].import = i
        /\ run'[a].details = Confirmed(a, "process_file")
    BY <1>1, <1>t DEF create_tmp_file, Run
  <2>2. \A k \in Imports : Flagged(import'[k].details) =>
            Flagged(import[k].details) \/ (k = i /\ Loaded(i))
    BY <1>1, <1>c, <1>f, <1>t, <1>w DEF create_tmp_file, ImportRow
  <2> QED BY <1>a, <1>c, <1>f, <2>1, <2>2 DEF Unflagged
<1>2. CASE drop_if_exists(a)
  BY <1>2, <1>m DEF Unflagged, drop_if_exists
<1>3. CASE create_tmp_table(a)
  BY <1>3, <1>m DEF Unflagged, create_tmp_table
<1>4. CASE run_psql_command(a)
  BY <1>4, <1>m DEF Unflagged, run_psql_command
<1>5. CASE process_unsuccessful(a)
  <2>1. /\ run'[a].pc = "ensure_drop" /\ run'[a].import = i
        /\ run'[a].details = run[a].details
    BY <1>5, <1>t, GotoFields DEF process_unsuccessful
  <2>2. \A k \in Imports : Flagged(import'[k].details) =>
            Flagged(import[k].details) \/ (k = i /\ Loaded(i))
    BY <1>5, <1>f, <1>t, <1>w DEF process_unsuccessful, ImportRow
  <2> QED BY <1>a, <1>f, <2>1, <2>2 DEF Unflagged
<1>6. CASE set_bgeigie_import_id(a)
  BY <1>6, <1>m DEF Unflagged, set_bgeigie_import_id, UpdateTmp
<1>7. CASE compute_latlng_from_nmea(a)
  BY <1>7, <1>m DEF Unflagged, compute_latlng_from_nmea, UpdateTmp
<1>8. CASE populate_select(a)
  <2>1. CASE run' = [run EXCEPT ![a].pc = "insert", ![a].pending = Missing]
    <3>1. /\ run'[a].pc = "insert" /\ run'[a].import = i
          /\ run'[a].details = run[a].details
      BY <2>1, <1>t DEF Run
    <3> QED BY <1>8, <1>a, <1>f, <3>1 DEF populate_select, Unflagged
  <2> QED BY <1>8, <1>m, <2>1 DEF populate_select, Unflagged
<1>9. CASE populate_insert(a)
  <2>1. CASE Undo(a)
    <3>1. /\ run'[a].pc = "ensure_drop" /\ run'[a].import = i
          /\ run'[a].details = run[a].details
      BY <2>1, <1>t DEF Run, Undo
    <3> QED BY <1>9, <1>a, <1>f, <3>1 DEF populate_insert, Unflagged
  <2>2. ASSUME NEW x, run' = [run EXCEPT ![a].written = @ \cup {x}]
        PROVE  LossInv'
    <3>1. /\ run'[a].pc = "insert" /\ run'[a].import = i
          /\ run'[a].details = run[a].details
      BY <1>9, <2>2, <1>t DEF Run, populate_insert
    <3> QED BY <1>9, <1>a, <1>f, <3>1 DEF populate_insert, Unflagged
  <2> QED BY <1>9, <2>1, <2>2 DEF populate_insert
<1>10. CASE populate_commit(a)
  <2>1. bgeigie_logs' = bgeigie_logs \cup
            [line: Store!Unstored(i), owner: {i}, located: {TRUE}]
    BY <1>10, InsertLoads DEF Store!Load
  <2>2. Loaded(i)'
    <3> SUFFICES ASSUME NEW l \in File[i]
                 PROVE  l \in LinesIn(bgeigie_logs')
      <4>1. run'[a].import = i
        BY <1>10, <1>t DEF populate_commit, Run
      <4> QED BY <4>1 DEF Loaded, LinesIn
    <3>1. CASE \E r \in bgeigie_logs : r.line = l
      BY <1>g, <3>1 DEF LinesIn
    <3>2. CASE l \in Store!Unstored(i)
      <4> DEFINE r == [line |-> l, owner |-> i, located |-> TRUE]
      <4>1. r \in bgeigie_logs' /\ r.line = l
        BY <2>1, <3>2
      <4> QED BY <4>1 DEF LinesIn
    <3> QED BY <3>1, <3>2 DEF Store!Unstored
  <2>3. run'[a].import = i
    BY <1>10, <1>t DEF populate_commit, Run
  <2>4. UNCHANGED import
    BY <1>10 DEF populate_commit
  <2> QED BY <1>l, <1>s, <2>2, <2>3, <2>4 DEF LossInv
<1>11. CASE count_logs(a)
  <2>1. Loaded(i)
    BY <1>11, <1>p DEF count_logs, LossInv, Unflagged
  <2>2. run'[a].import = i
    BY <1>11, <1>t DEF count_logs, Run
  <2> QED BY <1>11, <1>a, <2>1, <2>2 DEF count_logs
<1>12. CASE set_measurements_count(a)
  <2>1. Loaded(i)
    BY <1>12, <1>p DEF set_measurements_count, LossInv, Unflagged
  <2>2. \A k \in Imports : Flagged(import'[k].details) =>
            Flagged(import[k].details) \/ (k = i /\ Loaded(i))
    BY <1>12, <1>w, <2>1 DEF set_measurements_count
  <2>3. run'[a].import = i
    BY <1>12, <1>t, GotoFields DEF set_measurements_count
  <2> QED BY <1>a, <2>1, <2>2, <2>3
<1>13. CASE confirm_import_bgeigie_logs(a)
  <2>1. Loaded(i)
    BY <1>13, <1>p DEF confirm_import_bgeigie_logs, LossInv, Unflagged
  <2>2. \A k \in Imports : Flagged(import'[k].details) =>
            Flagged(import[k].details) \/ (k = i /\ Loaded(i))
    BY <1>13, <1>w, <2>1 DEF confirm_import_bgeigie_logs
  <2>3. run'[a].import = i
    BY <1>13, <1>t DEF confirm_import_bgeigie_logs, Run
  <2> QED BY <1>a, <2>1, <2>2, <2>3
<1>14. CASE drop_tmp_table(a)
  <2>1. CASE Goto(a, "confirm_latlng")
    BY <1>14, <1>m, <2>1 DEF drop_tmp_table, Unflagged
  <2>2. CASE EndRun(a, Reschedule(job[i]))
    <3>1. run'[a].pc \in {"idle", "answered"}
      BY <2>2, <1>t, EndRunFields
    <3> QED BY <1>14, <1>a, <3>1 DEF drop_tmp_table
  <2> QED BY <1>14, <2>1, <2>2 DEF drop_tmp_table
<1>15. CASE confirm_compute_latlng(a)
  <2>1. /\ run'[a].pc = "set_status" /\ run'[a].import = i
        /\ run'[a].details = Confirmed(a, "compute_latlng")
    BY <1>15, <1>t DEF confirm_compute_latlng, Run
  <2>2. \A k \in Imports : Flagged(import'[k].details) =>
            Flagged(import[k].details) \/ (k = i /\ Loaded(i))
    BY <1>15, <1>c, <1>f, <1>t, <1>w DEF confirm_compute_latlng, ImportRow
  <2> QED BY <1>a, <1>c, <1>f, <2>1, <2>2 DEF Unflagged
<1>16. CASE set_status(a)
  <2>1. /\ run'[a].pc = "check_auto_approve" /\ run'[a].import = i
        /\ run'[a].details = run[a].details
    BY <1>16, <1>t, GotoFields DEF set_status
  <2>2. \A k \in Imports : Flagged(import'[k].details) =>
            Flagged(import[k].details) \/ (k = i /\ Loaded(i))
    BY <1>16, <1>f, <1>t, <1>w DEF set_status, ImportRow
  <2> QED BY <1>a, <1>f, <2>1, <2>2 DEF Unflagged
<1>17. CASE check_auto_approve(a)
  <2>1. run'[a].pc \in {"idle", "answered"}
    BY <1>17, <1>t, EndRunFields DEF check_auto_approve
  <2> QED BY <1>17, <1>a, <2>1 DEF check_auto_approve
<1> QED
  BY <1>1, <1>2, <1>3, <1>4, <1>5, <1>6, <1>7, <1>8, <1>9, <1>10, <1>11, <1>12, <1>13, <1>14,
     <1>15, <1>16, <1>17 DEF ProcessStep

LEMMA LossStep ==
    ASSUME Serial, Deletable = {}, AtomicInv, LossInv, [Next]_vars
    PROVE  LossInv'
<1>t. /\ TypeInv /\ import \in [Imports -> ImportRow] /\ run \in [Actors -> Run]
  BY DEF AtomicInv, OwnInv, TypeInv, TypeOK
<1>u. ASSUME UNCHANGED bgeigie_logs
      PROVE  \A k \in Imports : Loaded(k)' <=> Loaded(k)
  BY <1>u DEF Loaded
<1>i. \A b \in Actors : Busy(b) => run[b].import \in Imports
  BY <1>t DEF Busy, TypeInv, RunsHaveImport
\* A step that leaves the imports and the runs at their statements alone.
<1>a. ASSUME UNCHANGED bgeigie_logs,
             \A k \in Imports : Flagged(import'[k].details) => Flagged(import[k].details),
             \A b \in Actors : \/ run'[b] = run[b]
                               \/ run'[b].pc \in {"idle", "answered"}
                               \/ /\ run'[b].pc = "create_tmp_file"
                                  /\ run'[b].import \in Imports
                                  /\ run'[b].details = import[run'[b].import].details
      PROVE  LossInv'
  BY <1>a, <1>i, <1>u DEF LossInv, Busy, Unflagged
<1>1. CASE UNCHANGED vars
  BY <1>1, <1>a DEF vars
<1>2. ASSUME NEW i \in Imports, Upload(i)
      PROVE  LossInv'
  <2>1. ~Flagged(NewImport.details)
    BY DEF Flagged, NewImport
  <2> QED BY <1>2, <1>a, <1>t, <2>1 DEF Upload
<1>3. ASSUME NEW a \in Actors, NEW i \in Imports, Enter(a, i)
      PROVE  LossInv'
  <2>1. /\ run'[a].pc = "create_tmp_file" /\ run'[a].import = i
        /\ run'[a].details = import[i].details
    BY <1>3, <1>t, EnterFields
  <2>2. \A b \in Actors : b = a
    BY DEF Serial
  <2>3. UNCHANGED <<import, bgeigie_logs>>
    BY <1>3 DEF Enter
  <2> QED BY <1>a, <2>1, <2>2, <2>3
<1>4. ASSUME NEW w \in Workers, TakeJob(w)
      PROVE  LossInv'
  <2>1. ASSUME NEW i \in Imports, JobNotFound(w, i)
        PROVE  LossInv'
    BY <2>1, <1>a DEF JobNotFound
  <2> QED BY <1>3, <1>4, <2>1 DEF TakeJob, StartJob, Actors
<1>5. ASSUME NEW q \in Requests, NEW i \in Imports, process_button(q, i)
      PROVE  LossInv'
  BY <1>3, <1>5 DEF process_button, Actors
<1>6. ASSUME NEW a \in Actors, Crash(a)
      PROVE  LossInv'
  <2>1. run'[a].pc \in {"idle", "answered"}
    BY <1>6, <1>t, EndRunFields DEF Crash
  <2>2. \A b \in Actors : b = a
    BY DEF Serial
  <2> QED BY <1>6, <1>a, <2>1, <2>2 DEF Crash
<1> QED
  BY <1>1, <1>2, <1>4, <1>5, <1>6, LossProcessStep DEF Next, destroy

\* With a single worker, and as long as nobody destroys an import, every line of
\* a loaded file is in bgeigie_logs, whatever was killed and repeated.
THEOREM NoLineIsLost ==
    ASSUME Serial, Deletable = {}
    PROVE  Spec => []NoLineLost
<1>1. Init => AtomicInv /\ LossInv
  <2> SUFFICES ASSUME Init
               PROVE  LossInv
    BY AtomicInit
  <2>1. \A i \in Imports : ~Flagged(import[i].details)
    BY DEF Init, NewImport, Flagged
  <2>2. \A a \in Actors : ~ Busy(a)
    BY DEF Init, IdleRun, Busy
  <2> QED BY <2>1, <2>2 DEF LossInv
<1>2. AtomicInv /\ LossInv /\ [Next]_vars => AtomicInv' /\ LossInv'
  <2> SUFFICES ASSUME AtomicInv, LossInv, [Next]_vars
               PROVE  AtomicInv' /\ LossInv'
    OBVIOUS
  <2>1. OwnInv' /\ StoredInv' /\ PendingInv'
    BY OwnStep, StoredStep, PendingStep DEF AtomicInv, OwnInv
  <2> QED BY <2>1, LossStep DEF AtomicInv
<1>3. AtomicInv /\ LossInv => NoLineLost
  BY DEF LossInv, NoLineLost, Flagged, Loaded
<1> QED BY <1>1, <1>2, <1>3, PTL DEF Spec
=============================================================================
