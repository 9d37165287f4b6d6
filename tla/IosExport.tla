----------------------------- MODULE IosExport -----------------------------
(***************************************************************************)
(* The export of measurements for the iOS app: the cron task               *)
(* dump_measurements_ios, which CronsController starts, the SQL script it  *)
(* runs, and the transactions that insert measurements meanwhile.          *)
(*                                                                         *)
(* The script exports all measurements whenever the greatest id is above   *)
(* the one it noted in the table iOSLastExport when it last exported.  Its *)
(* psql session is not one transaction: every statement sees what has been *)
(* committed until then.                                                   *)
(***************************************************************************)
EXTENDS Integers

CONSTANTS
    Requests,    \* POSTs to /cron that name this task, again and again
    Writers,     \* database sessions that insert measurements
    MaxId,       \* bound on the ids of measurements
    Clean,       \* ids of measurements that no filter of the query removes
    Destroyable, \* measurements that a moderator may delete
    Killable,    \* steps at which the script may be killed
    MaxCrashes,  \* bound on the number of times it is
    CopyMayFail, \* whether the disk may be full when psql writes the CSV file
    OneDisk,     \* whether /tmp and public/system are on one file system
    Absent       \* a file that does not exist

Ids == 1 .. MaxId
Files == {"ios13_32", "ios13"}

Script == {"query", "copy", "delete_marks", "insert_mark", "test_csv",
           "build", "import", "clip", "clip_rest", "move_32", "move_16"}

ASSUME BoundAssumption == MaxId \in Nat /\ MaxCrashes \in Nat
ASSUME SubsetAssumption ==
    /\ Clean \subseteq Ids
    /\ Destroyable \subseteq Ids
    /\ Killable \subseteq Script
    /\ CopyMayFail \in BOOLEAN /\ OneDisk \in BOOLEAN
ASSUME AbsentAssumption == \A rows \in SUBSET Ids : Absent # rows

VARIABLES
    measurements,  \* ids of the committed rows of measurements
    last_id,       \* the sequence behind measurements.id
    open,          \* ids of the rows that each open transaction has inserted
    iOSLastExport, \* the values of LastMaxID
    csv,           \* public/system/ios13_32.csv: ids of the rows it is made of
    tmp,           \* the SQLite files in /tmp
    published,     \* the SQLite files in public/system
    run,           \* what each request is doing
    crashes        \* scripts killed so far

data == <<measurements, last_id, open>>
files == <<csv, tmp, published>>
vars == <<data, iOSLastExport, files, run, crashes>>

-----------------------------------------------------------------------------
(* Types *)

\* exported is the table Temp2, expired the rows of iOSLastExport that the
\* transaction under way has deleted.
Run == [pc: {"idle", "system"} \cup Script, exported: SUBSET Ids, expired: SUBSET Ids]
Idle == [pc |-> "idle", exported |-> {}, expired |-> {}]

File == (SUBSET Ids) \cup {Absent}

TypeOK ==
    /\ measurements \subseteq Ids
    /\ last_id \in 0 .. MaxId
    /\ open \in [Writers -> SUBSET Ids]
    /\ iOSLastExport \subseteq Ids
    /\ csv \in SUBSET Ids
    /\ tmp \in [Files -> File]
    /\ published \in [Files -> File]
    /\ run \in [Requests -> Run]
    /\ crashes \in 0 .. MaxCrashes

Init ==
    /\ measurements = {}
    /\ last_id = 0
    /\ open = [w \in Writers |-> {}]
    /\ iOSLastExport = {}
    /\ csv = {}
    /\ tmp = [f \in Files |-> Absent]
    /\ published = [f \in Files |-> Absent]
    /\ run = [q \in Requests |-> Idle]
    /\ crashes = 0

-----------------------------------------------------------------------------
(* Measurements.  An id is taken from the sequence when a row is inserted, and *)
(* the row is seen by others when its transaction commits: finalize! inserts   *)
(* all logs of an import in one, the API one measurement.                      *)

insert(w) ==
    /\ last_id < MaxId
    /\ last_id' = last_id + 1
    /\ open' = [open EXCEPT ![w] = @ \cup {last_id + 1}]
    /\ UNCHANGED <<measurements, iOSLastExport, files, run, crashes>>

end_transaction(w) ==
    /\ open[w] # {}
    /\ open' = [open EXCEPT ![w] = {}]
    /\ \/ measurements' = measurements \cup open[w]
       \/ UNCHANGED measurements
    /\ UNCHANGED <<last_id, iOSLastExport, files, run, crashes>>

destroy(m) ==
    /\ m \in measurements \cap Destroyable
    /\ measurements' = measurements \ {m}
    /\ UNCHANGED <<last_id, open, iOSLastExport, files, run, crashes>>

-----------------------------------------------------------------------------
(* CronsController#create *)

At(q, pc) == run[q].pc = pc
Goto(q, pc) == run' = [run EXCEPT ![q].pc = pc]
Exit(q) == run' = [run EXCEPT ![q] = Idle]

\* What ps ax lists: scripts, and not the requests about to start one.
InScript(q) == run[q].pc \in Script

\* The answer 403 to a request while the script runs changes nothing.
running_same_job(q) ==
    /\ At(q, "idle")
    /\ \A p \in Requests : ~InScript(p)
    /\ Goto(q, "system")
    /\ UNCHANGED <<data, iOSLastExport, files, crashes>>

start(q) ==
    /\ At(q, "system")
    /\ Goto(q, "query")
    /\ UNCHANGED <<data, iOSLastExport, files, crashes>>

-----------------------------------------------------------------------------
(* dump_measurements_ios.sql *)

\* MAX(id) > COALESCE(MAX(LastMaxID), 0), for the rows marks of iOSLastExport
Newer(marks) == \E m \in measurements : \A k \in marks : m > k

\* Fault: only what is above the mark is exported.
fault_query_new_rows(q) ==
    /\ At(q, "query")
    /\ run' = [run EXCEPT ![q].pc = "copy",
                 ![q].exported = {m \in measurements \cap Clean : Newer(iOSLastExport) /\
                                    \A k \in iOSLastExport : m > k}]
    /\ UNCHANGED <<data, iOSLastExport, files, crashes>>

\* The primary data query; binning makes Temp2 of its result.
query(q) ==
    /\ At(q, "query")
    /\ run' = [run EXCEPT ![q].pc = "copy",
                 ![q].exported = {m \in measurements \cap Clean : Newer(iOSLastExport)}]
    /\ UNCHANGED <<data, iOSLastExport, files, crashes>>

\* psql goes on to the next statement when \copy fails.
copy(q) ==
    /\ At(q, "copy")
    /\ \E rows \in SUBSET run[q].exported :
          /\ rows # run[q].exported => CopyMayFail
          /\ csv' = rows
    /\ Goto(q, "delete_marks")
    /\ UNCHANGED <<data, iOSLastExport, tmp, published, crashes>>

\* Fault: the DELETE is committed on its own.
fault_delete_commits(q) ==
    /\ At(q, "delete_marks")
    /\ iOSLastExport' = {k \in iOSLastExport : run[q].exported = {} \/ ~Newer({k})}
    /\ Goto(q, "insert_mark")
    /\ UNCHANGED <<data, files, crashes>>

\* The mark is replaced in one transaction of two statements,
delete_marks(q) ==
    /\ At(q, "delete_marks")
    /\ run' = [run EXCEPT ![q].pc = "insert_mark",
                 ![q].expired = {k \in iOSLastExport : run[q].exported # {} /\ Newer({k})}]
    /\ UNCHANGED <<data, iOSLastExport, files, crashes>>

\* Fault: a mark is set whether or not there is anything to export.
fault_mark_nothing(q) ==
    /\ At(q, "insert_mark")
    /\ \E max \in measurements \cup {0} :
          /\ \A m \in measurements : m <= max
          /\ iOSLastExport' = (iOSLastExport \ run[q].expired) \cup {max}
    /\ run' = [run EXCEPT ![q].pc = "test_csv", ![q].expired = {}]
    /\ UNCHANGED <<data, files, crashes>>

\* the second of which reads MAX(id) again.  (A DELETE of rows that another
\* transaction has deleted waits for its end and then finds nothing to do, so
\* that the order of the two is immaterial.)
insert_mark(q) ==
    LET kept == iOSLastExport \ run[q].expired
        due == run[q].exported # {} /\ Newer(kept)
    IN
    /\ At(q, "insert_mark")
    /\ \/ /\ due
          /\ \E max \in measurements :
                /\ \A m \in measurements : m <= max
                /\ iOSLastExport' = kept \cup {max}
       \/ /\ ~due
          /\ iOSLastExport' = kept
    /\ run' = [run EXCEPT ![q].pc = "test_csv", ![q].expired = {}]
    /\ UNCHANGED <<data, files, crashes>>

-----------------------------------------------------------------------------
(* The rest of the shell script, which exits at the first command that fails *)

\* Fault: the SQLite files are rebuilt whatever psql has written.
fault_build_always(q) ==
    /\ At(q, "test_csv")
    /\ Goto(q, "build")
    /\ UNCHANGED <<data, iOSLastExport, files, crashes>>

\* [ -s ios13_32.csv ]
test_csv(q) ==
    /\ At(q, "test_csv")
    /\ \/ csv # {} /\ Goto(q, "build")
       \/ csv = {} /\ Exit(q)
    /\ UNCHANGED <<data, iOSLastExport, files, crashes>>

\* The file in /tmp is removed and begun anew, here with a part of the rows in
\* it, at which a kill leaves it,
build(q) ==
    /\ At(q, "build")
    /\ \E rows \in SUBSET csv : tmp' = [tmp EXCEPT !["ios13_32"] = rows]
    /\ Goto(q, "import")
    /\ UNCHANGED <<data, iOSLastExport, csv, published, crashes>>

\* and filled.  (Each run of several at once is taken to write all of the file;
\* what they make of each other's is not modelled.)
import(q) ==
    /\ At(q, "import")
    /\ tmp' = [tmp EXCEPT !["ios13_32"] = csv]
    /\ Goto(q, "clip")
    /\ UNCHANGED <<data, iOSLastExport, csv, published, crashes>>

\* cp overwrites what a killed run has left.
clip(q) ==
    /\ At(q, "clip")
    /\ \/ /\ tmp["ios13_32"] # Absent
          /\ \E rows \in SUBSET tmp["ios13_32"] : tmp' = [tmp EXCEPT !["ios13"] = rows]
          /\ Goto(q, "clip_rest")
       \/ /\ tmp["ios13_32"] = Absent
          /\ Exit(q)
          /\ UNCHANGED tmp
    /\ UNCHANGED <<data, iOSLastExport, csv, published, crashes>>

clip_rest(q) ==
    /\ At(q, "clip_rest")
    /\ tmp' = [tmp EXCEPT !["ios13"] = tmp["ios13_32"]]
    /\ Goto(q, "move_32")
    /\ UNCHANGED <<data, iOSLastExport, csv, published, crashes>>

\* A rename on one file system; otherwise mv copies, and the published file is
\* half-made until it has.
Move(q, f, next) ==
    /\ \/ /\ tmp[f] # Absent
          /\ \E rows \in SUBSET tmp[f] :
                /\ rows # tmp[f] => ~OneDisk
                /\ published' = [published EXCEPT ![f] = rows]
                /\ IF rows = tmp[f]
                   THEN next /\ tmp' = [tmp EXCEPT ![f] = Absent]
                   ELSE UNCHANGED <<run, tmp>>
       \/ /\ tmp[f] = Absent
          /\ Exit(q)
          /\ UNCHANGED <<published, tmp>>
    /\ UNCHANGED <<data, iOSLastExport, csv, crashes>>

move_32(q) == At(q, "move_32") /\ Move(q, "ios13_32", Goto(q, "move_16"))
move_16(q) == At(q, "move_16") /\ Move(q, "ios13", Exit(q))

\* An open transaction of a killed psql is rolled back.
Crash(q) ==
    /\ crashes < MaxCrashes
    /\ run[q].pc \in Killable
    /\ crashes' = crashes + 1
    /\ Exit(q)
    /\ UNCHANGED <<data, iOSLastExport, files>>

-----------------------------------------------------------------------------
(* The specification *)

ScriptStep(q) ==
    \/ query(q) \/ copy(q) \/ delete_marks(q) \/ insert_mark(q)
    \/ test_csv(q) \/ build(q) \/ import(q) \/ clip(q) \/ clip_rest(q)
    \/ move_32(q) \/ move_16(q)

RequestStep(q) == running_same_job(q) \/ start(q) \/ ScriptStep(q)

Next ==
    \/ \E w \in Writers : insert(w) \/ end_transaction(w)
    \/ \E m \in Ids : destroy(m)
    \/ \E q \in Requests : RequestStep(q) \/ Crash(q)

\* cron.yaml has the task run every eight hours, and scripts run on.
Fairness == \A q \in Requests : WF_vars(RequestStep(q))

Spec == Init /\ [][Next]_vars
FairSpec == Spec /\ Fairness

-----------------------------------------------------------------------------
(* Properties *)

InFile(m, f) == published[f] # Absent /\ m \in published[f]

\* A measurement that the app's file has once shown stays in it as long as it
\* is in the database: neither a run that finds nothing new nor one that is
\* killed, while it makes a file or between two commands, and repeated replaces
\* the file by less; as long as one run at a time finds room on the disk, and
\* /tmp is on the file system of public/system.
DataStaysPublished ==
    [][\A m \in Ids, f \in Files :
          InFile(m, f) /\ m \in measurements' => InFile(m, f)']_vars

\* The mark never falls: a run that replaces it and is killed before, between
\* and after its two statements leaves a row of iOSLastExport that is as great.
\* (Rows that are deleted are not the ones the mark is taken from: if the
\* greatest goes between the two statements, the mark does fall.)
MarkNeverFalls ==
    [][\A k \in iOSLastExport : \E l \in iOSLastExport' : l >= k]_vars

\* What has been missed is made up for: once scripts are no longer killed, if
\* something is above the mark while no run is under way, all that is in the
\* database then gets published unless it is deleted first, including late rows
\* with ids below the mark, although runs were killed before they had set it.
CatchUp ==
    \A m \in Clean :
        /\ m \in measurements /\ Newer(iOSLastExport)
        /\ crashes = MaxCrashes
        /\ \A q \in Requests : ~InScript(q)
        ~> InFile(m, "ios13_32") \/ m \notin measurements
=============================================================================
