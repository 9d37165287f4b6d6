-------------------------- MODULE ImportLifecycle --------------------------
(***************************************************************************)
(* The life of a bGeigie import from upload to publication                 *)
(* (app/controllers/bgeigie_imports_controller.rb, app/jobs, and           *)
(* app/models/bgeigie_import.rb): web requests that read a row and then    *)
(* write it, and the two jobs that delayed_job runs.                       *)
(*                                                                         *)
(* Every update_column(s), INSERT and enqueuing is a transaction of its    *)
(* own, so that is the grain of the steps.  A request starts with a page,  *)
(* whose buttons reflect the row when the page was rendered; its handler   *)
(* runs later.                                                             *)
(*                                                                         *)
(* Of process the model keeps the insertion of the lines and the dropping  *)
(* of the shared scratch table.  A run that no other run overlaps does     *)
(* what the file says (LogLoading shows this statement by statement); of   *)
(* an overlapped run any outcome LogLoading knows is possible.             *)
(*                                                                         *)
(* Requests come from the pages of the site.  A client that sends its own  *)
(* PATCH can set any column, for update permits every parameter.           *)
(***************************************************************************)
EXTENDS Integers, FiniteSets

CONSTANTS
    Imports,      \* uploaded files, i.e. rows of measurement_imports
    Unloadable,   \* imports whose file psql's \copy refuses
    Empty,        \* imports whose file has no line that is new
    Workers,      \* delayed_job worker processes
    Requests,     \* web requests, each served once
    Offers,       \* the requests users make
    MayOverlap,   \* whether two runs of process may overlap
    NoImport, NoRequest, NoStatus,
    MaxAttempts,  \* delayed_job gives a job up after this many failures
    Killable,     \* workers and requests whose process may be killed
    MaxCrashes    \* bound on the number of killed processes

Actors == Workers \cup Requests

Ops == {"create", "update", "submit", "approve", "reject", "send_email",
        "resolve", "fixdrive", "process_button", "destroy"}

ASSUME ActorsAssumption == Workers \cap Requests = {} /\ Killable \subseteq Actors
ASSUME OffersAssumption == Offers \subseteq Ops /\ MayOverlap \in BOOLEAN
ASSUME ImportsAssumption == Unloadable \subseteq Imports /\ Empty \subseteq Imports
ASSUME BoundAssumption == MaxAttempts \in Nat \ {0} /\ MaxCrashes \in Nat
ASSUME NullAssumption == NoImport \notin Imports /\ NoRequest \notin Requests

VARIABLES
    row,          \* rows of measurement_imports
    logs,         \* whether bgeigie_logs has rows of the import
    measurements, \* the rows of measurements made from the import's logs
    job,          \* the job each request has enqueued
    act,          \* what each worker and request is doing
    crashes       \* processes killed so far

vars == <<row, logs, measurements, job, act, crashes>>

-----------------------------------------------------------------------------
(* Types *)

Statuses == {"unprocessed", "processed", "submitted", "done", "awaiting_response"}
ASSUME NoStatusAssumption == NoStatus \notin Statuses

\* last_contact is previous_status of the last uploader_contact_history.
Row == [life: {"new", "stored", "destroyed"}, status: Statuses,
        approved: BOOLEAN, rejected: BOOLEAN, would_auto_approve: BOOLEAN,
        last_contact: Statuses \cup {NoStatus}]

NewRow == [life |-> "stored", status |-> "unprocessed",
           approved |-> FALSE, rejected |-> FALSE, would_auto_approve |-> FALSE,
           last_contact |-> NoStatus]

\* keyed: the measurements that finalize! inserts, with an md5sum that a unique
\* index protects.  copies: how often fixdrive! has inserted them without one.
Published == [keyed: BOOLEAN, copies: Nat]

Job == [state: {"none", "queued", "running", "done", "failed"},
        kind: {"process", "finalize"}, import: Imports \cup {NoImport}, attempts: Nat]
NoJob == [state |-> "none", kind |-> "process", import |-> NoImport, attempts |-> 0]

\* A request is at its op while its page is displayed.
Statements == {"create_enqueue", "update_would_approve", "submit_row", "auto_approve",
    "approve_enqueue", "reject_status", "create_history", "set_awaiting",
    "resolve_status", "fixdrive_done", "destroy_row", "process", "load", "drop",
    "process_status", "process_rules", "finalize", "finalize_done"}

\* disturbed: another run of process has overlapped this one.
Act == [pc: {"idle", "answered"} \cup Ops \cup Statements,
        import: Imports \cup {NoImport}, job: Requests \cup {NoRequest},
        seen: Statuses \cup {NoStatus}, disturbed: BOOLEAN]
Idle == [pc |-> "idle", import |-> NoImport, job |-> NoRequest, seen |-> NoStatus,
         disturbed |-> FALSE]

TypeOK ==
    /\ row \in [Imports -> Row]
    /\ logs \in [Imports -> BOOLEAN]
    /\ measurements \in [Imports -> Published]
    /\ job \in [Requests -> Job]
    /\ act \in [Actors -> Act]
    /\ crashes \in 0 .. MaxCrashes

Init ==
    /\ row = [i \in Imports |-> [NewRow EXCEPT !.life = "new"]]
    /\ logs = [i \in Imports |-> FALSE]
    /\ measurements = [i \in Imports |-> [keyed |-> FALSE, copies |-> 0]]
    /\ job = [q \in Requests |-> NoJob]
    /\ act = [a \in Actors |-> Idle]
    /\ crashes = 0

-----------------------------------------------------------------------------
(* Pages *)

Stored(i) == row[i].life = "stored"
Is(i, statuses) == row[i].status \in statuses

\* Fault: "Fix Drive" is offered before the approval.
fault_fixdrive_unapproved(op, i) ==
    \/ op = "create" /\ row[i].life = "new"
    \/ op \in {"submit", "fixdrive"} /\ Stored(i)

\* The buttons and tabs of app/views/bgeigie_imports for the owner and for
\* moderators together.
Button(op, i) ==
    \/ op = "create" /\ row[i].life = "new"
    \/ op \in {"update", "destroy"} /\ Stored(i)
    \/ op = "send_email" /\ Stored(i) /\ ~Is(i, {"awaiting_response"})
    \/ op = "submit" /\ Stored(i) /\ ~row[i].approved /\ Is(i, {"processed", "done"})
    \/ /\ op \in {"approve", "reject", "process_button", "resolve"}
       /\ Stored(i) /\ ~row[i].rejected /\ ~row[i].approved
       /\ op = "approve" => Is(i, {"submitted"})
       /\ op = "process_button" => Is(i, {"unprocessed"})
       /\ op = "resolve" => Is(i, {"awaiting_response"})
    \/ op = "fixdrive" /\ Stored(i) /\ ~row[i].rejected /\ row[i].approved


Open(q, op, i) ==
    /\ act[q].pc = "idle"
    /\ op \in Offers
    /\ Button(op, i)
    /\ act' = [act EXCEPT ![q].pc = op, ![q].import = i]
    /\ UNCHANGED <<row, logs, measurements, job, crashes>>

-----------------------------------------------------------------------------
(* Helpers of the statements *)

At(a, pcs) == act[a].pc \in pcs
Goto(a, pc) == act' = [act EXCEPT ![a].pc = pc]
Answer(q) == act' = [act EXCEPT ![q] = [Idle EXCEPT !.pc = "answered"]]

\* update_columns: no row, no effect.
Write(i, r) == row' = [row EXCEPT ![i] = IF Stored(i) THEN r ELSE @]

\* A job ends, one way or another; a request is answered.
End(a, outcome) ==
    \/ /\ a \in Workers
       /\ act' = [act EXCEPT ![a] = Idle]
       /\ job' = [job EXCEPT ![act[a].job] = outcome]
    \/ a \in Requests /\ Answer(a) /\ UNCHANGED job

Succeed(j) == [j EXCEPT !.state = "done"]

\* Fault: the lock of a killed worker on its job never expires.
fault_lock_stays(j) == j

Requeue(j) == [j EXCEPT !.state = "queued"]

Reschedule(j) ==
    [j EXCEPT !.state = IF j.attempts + 1 < MaxAttempts THEN "queued" ELSE "failed",
              !.attempts = @ + 1]

Enqueue(q, kind, i) ==
    job' = [job EXCEPT ![q] = [state |-> "queued", kind |-> kind, import |-> i, attempts |-> 0]]

-----------------------------------------------------------------------------
(* Statements of the controller's actions; q is the request, i its import *)

\* find raises RecordNotFound, or destroy answers 404.
NotFound(q) ==
    /\ At(q, Ops \ {"create"})
    /\ ~Stored(act[q].import)
    /\ Answer(q)
    /\ UNCHANGED <<row, logs, measurements, job, crashes>>

\* A second upload of the file fails the validation of md5sum.
create(q, i) ==
    /\ At(q, {"create"})
    /\ \/ /\ row[i].life = "new"
          /\ row' = [row EXCEPT ![i] = NewRow]
          /\ Goto(q, "create_enqueue")
       \/ /\ row[i].life # "new"
          /\ Answer(q)
          /\ UNCHANGED row
    /\ UNCHANGED <<logs, measurements, job, crashes>>

create_enqueue(q, i) ==
    /\ At(q, {"create_enqueue"})
    /\ Enqueue(q, "process", i)
    /\ Answer(q)
    /\ UNCHANGED <<row, logs, measurements, crashes>>

\* The row is read.  The rule column of the subtype "Cosmic" and the fields of
\* the form, written next, are not kept here.
update(q, i) ==
    /\ At(q, {"update"}) /\ Stored(i)
    /\ Goto(q, "update_would_approve")
    /\ UNCHANGED <<row, logs, measurements, job, crashes>>

\* Computed from rule columns read earlier: those of an import without logs
\* have not all been set.
update_would_approve(q, i) ==
    /\ At(q, {"update_would_approve"})
    /\ \E would \in BOOLEAN :
          /\ would => logs[i]
          /\ Write(i, [row[i] EXCEPT !.would_auto_approve = would])
    /\ Answer(q)
    /\ UNCHANGED <<logs, measurements, job, crashes>>

submit(q, i) ==
    /\ At(q, {"submit"}) /\ Stored(i)
    /\ \/ row[i].would_auto_approve /\ Goto(q, "auto_approve")
       \/ ~row[i].would_auto_approve /\ Goto(q, "submit_row")
    /\ UNCHANGED <<row, logs, measurements, job, crashes>>

submit_row(q, i) ==
    /\ At(q, {"submit_row"})
    /\ Write(i, [row[i] EXCEPT !.status = "submitted", !.rejected = FALSE])
    /\ Answer(q)
    /\ UNCHANGED <<logs, measurements, job, crashes>>

\* Fault: no job is enqueued.
fault_no_finalize_job(q, i) ==
    /\ At(q, {"approve"}) /\ Stored(i)
    /\ Write(i, [row[i] EXCEPT !.approved = TRUE])
    /\ Answer(q)
    /\ UNCHANGED <<logs, measurements, job, crashes>>

\* approve! by a moderator, or by submit
approve(q, i) ==
    /\ \/ At(q, {"approve"}) /\ Stored(i)
       \/ At(q, {"auto_approve"})
    /\ Write(i, [row[i] EXCEPT !.approved = TRUE])
    /\ Goto(q, "approve_enqueue")
    /\ UNCHANGED <<logs, measurements, job, crashes>>

approve_enqueue(q, i) ==
    /\ At(q, {"approve_enqueue"})
    /\ Enqueue(q, "finalize", i)
    /\ Answer(q)
    /\ UNCHANGED <<row, logs, measurements, crashes>>

\* Fault: rejecting an import takes its approval back.
fault_reject_unapproves(q, i) ==
    /\ At(q, {"reject"}) /\ Stored(i)
    /\ Write(i, [row[i] EXCEPT !.rejected = TRUE, !.approved = FALSE])
    /\ Goto(q, "reject_status")
    /\ UNCHANGED <<logs, measurements, job, crashes>>

reject(q, i) ==
    /\ At(q, {"reject"}) /\ Stored(i)
    /\ Write(i, [row[i] EXCEPT !.rejected = TRUE])
    /\ Goto(q, "reject_status")
    /\ UNCHANGED <<logs, measurements, job, crashes>>

\* Fault: the status is set to rejected, which is a flag and no status.
fault_status_rejected(q, i) ==
    /\ At(q, {"reject_status"})
    /\ Write(i, [row[i] EXCEPT !.status = "rejected"])
    /\ Answer(q)
    /\ UNCHANGED <<logs, measurements, job, crashes>>

reject_status(q, i) ==
    /\ At(q, {"reject_status"})
    /\ Write(i, [row[i] EXCEPT !.status = "processed"])
    /\ Answer(q)
    /\ UNCHANGED <<logs, measurements, job, crashes>>

\* The mail goes out after the row is read and before the history is written.
send_email(q, i) ==
    /\ At(q, {"send_email"}) /\ Stored(i)
    /\ act' = [act EXCEPT ![q].pc = "create_history", ![q].seen = row[i].status]
    /\ UNCHANGED <<row, logs, measurements, job, crashes>>

create_history(q, i) ==
    /\ At(q, {"create_history"})
    /\ Write(i, [row[i] EXCEPT !.last_contact = act[q].seen])
    /\ Goto(q, "set_awaiting")
    /\ UNCHANGED <<logs, measurements, job, crashes>>

set_awaiting(q, i) ==
    /\ At(q, {"set_awaiting"})
    /\ Write(i, [row[i] EXCEPT !.status = "awaiting_response"])
    /\ Answer(q)
    /\ UNCHANGED <<logs, measurements, job, crashes>>

resolve(q, i) ==
    /\ At(q, {"resolve"}) /\ Stored(i)
    /\ \/ /\ row[i].last_contact = NoStatus
          /\ Answer(q)
       \/ /\ row[i].last_contact # NoStatus
          /\ act' = [act EXCEPT ![q].pc = "resolve_status", ![q].seen = row[i].last_contact]
    /\ UNCHANGED <<row, logs, measurements, job, crashes>>

resolve_status(q, i) ==
    /\ At(q, {"resolve_status"})
    /\ Write(i, [row[i] EXCEPT !.status = act[q].seen])
    /\ Answer(q)
    /\ UNCHANGED <<logs, measurements, job, crashes>>

fixdrive(q, i) ==
    /\ At(q, {"fixdrive"}) /\ Stored(i)
    /\ measurements' = [measurements EXCEPT ![i].copies = IF logs[i] THEN @ + 1 ELSE @]
    /\ Goto(q, "fixdrive_done")
    /\ UNCHANGED <<row, logs, job, crashes>>

destroy(q, i) ==
    /\ At(q, {"destroy"}) /\ Stored(i)
    /\ \/ row[i].approved /\ Answer(q)
       \/ ~row[i].approved /\ Goto(q, "destroy_row")
    /\ UNCHANGED <<row, logs, measurements, job, crashes>>

\* The row goes, its logs and its contact histories with it; a run of process
\* that has not inserted its lines yet will insert them all the same.
destroy_row(q, i) ==
    /\ At(q, {"destroy_row"})
    /\ Write(i, [row[i] EXCEPT !.life = "destroyed"])
    /\ logs' = [logs EXCEPT ![i] = FALSE]
    /\ Answer(q)
    /\ UNCHANGED <<measurements, job, crashes>>

-----------------------------------------------------------------------------
(* Jobs, and the statements of process and finalize! *)

Running(w, q, pc) ==
    /\ act' = [act EXCEPT ![w] = [Idle EXCEPT !.pc = pc, !.import = job[q].import, !.job = q]]
    /\ job' = [job EXCEPT ![q].state = "running"]

TakeJob(w, q) ==
    /\ At(w, {"idle"})
    /\ job[q].state = "queued"
    /\ \/ /\ Stored(job[q].import)
          /\ Running(w, q, job[q].kind)
       \/ /\ ~Stored(job[q].import)
          /\ job' = [job EXCEPT ![q] = Reschedule(@)]
          /\ UNCHANGED act
    /\ UNCHANGED <<row, logs, measurements, crashes>>

\* Runs of process that are using bgeigie_logs_tmp.
Loading == {a \in Actors : At(a, {"load", "drop"})}

\* The table is dropped and created.  A process_button request runs process
\* itself.
process(a, i) ==
    /\ \/ At(a, {"process_button"}) /\ Stored(i)
       \/ At(a, {"process"})
    /\ Loading = {} \/ MayOverlap
    /\ act' = [b \in Actors |->
                 IF b = a
                 THEN [act[a] EXCEPT !.pc = "load", !.disturbed = Loading # {}]
                 ELSE [act[b] EXCEPT !.disturbed = @ \/ b \in Loading]]
    /\ UNCHANGED <<row, logs, measurements, job, crashes>>

Refused(i) == [row[i] EXCEPT !.rejected = TRUE, !.status = "processed"]

\* The file of i is copied, and its new lines are inserted.
Load(i) ==
    /\ Write(i, IF i \in Unloadable THEN Refused(i) ELSE row[i])
    /\ logs' = [logs EXCEPT ![i] = @ \/ i \notin Unloadable \cup Empty]

\* Another run's table may be missing, or its lines in it and under its id: the
\* file may be refused, and lines inserted for any of the uploads.
LoadDisturbed(i) ==
    /\ \E r \in {row[i], Refused(i)} : Write(i, r)
    /\ \E gain \in SUBSET {k \in Imports : row[k].life # "new"} :
          logs' = [k \in Imports |-> logs[k] \/ k \in gain]

load(a, i) ==
    /\ At(a, {"load"})
    /\ \/ ~act[a].disturbed /\ Load(i)
       \/ act[a].disturbed /\ LoadDisturbed(i)
    /\ Goto(a, "drop")
    /\ UNCHANGED <<measurements, job, crashes>>

\* A statement of an overlapped run may fail, and the exception leaves process.
drop_tmp_table(a, i) ==
    /\ At(a, {"drop"})
    /\ \/ /\ act' = [act EXCEPT ![a].pc = "process_status", ![a].disturbed = FALSE]
          /\ UNCHANGED job
       \/ act[a].disturbed /\ End(a, Reschedule(job[act[a].job]))
    /\ UNCHANGED <<row, logs, measurements, crashes>>

process_status(a, i) ==
    /\ At(a, {"process_status"})
    /\ Write(i, [row[i] EXCEPT !.status = "processed"])
    /\ Goto(a, "process_rules")
    /\ UNCHANGED <<logs, measurements, job, crashes>>

\* The five rules need a log to be evaluated at all.
process_rules(a, i) ==
    /\ At(a, {"process_rules"})
    /\ \E would \in BOOLEAN :
          /\ would => logs[i]
          /\ Write(i, [row[i] EXCEPT !.would_auto_approve = would])
    /\ End(a, Succeed(job[act[a].job]))
    /\ UNCHANGED <<logs, measurements, crashes>>

\* Fault: the status is written before the measurements.
fault_done_first(a, i) ==
    /\ At(a, {"finalize"})
    /\ \/ /\ row[i].status # "done"
          /\ Write(i, [row[i] EXCEPT !.status = "done"])
          /\ UNCHANGED <<measurements, act>>
       \/ /\ row[i].status = "done"
          /\ measurements' = [measurements EXCEPT ![i].keyed = logs[i]]
          /\ Goto(a, "finalize_done")
          /\ UNCHANGED row
    /\ UNCHANGED <<job, logs, crashes>>

\* import_measurements; the unique index on md5sum refuses a second time.
finalize(a, i) ==
    /\ At(a, {"finalize"})
    /\ \/ /\ ~(logs[i] /\ measurements[i].keyed)
          /\ measurements' = [measurements EXCEPT ![i].keyed = @ \/ logs[i]]
          /\ Goto(a, "finalize_done")
          /\ UNCHANGED job
       \/ /\ logs[i] /\ measurements[i].keyed
          /\ End(a, Reschedule(job[act[a].job]))
          /\ UNCHANGED measurements
    /\ UNCHANGED <<row, logs, crashes>>

finalize_done(a, i) ==
    /\ At(a, {"finalize_done", "fixdrive_done"})
    /\ Write(i, [row[i] EXCEPT !.status = "done"])
    /\ End(a, Succeed(job[act[a].job]))
    /\ UNCHANGED <<logs, measurements, crashes>>

\* A killed process leaves its request unanswered, or its job to be taken again
\* when the lock on it has expired.
Crash(a) ==
    /\ a \in Killable
    /\ crashes < MaxCrashes
    /\ At(a, Statements)
    /\ End(a, Requeue(job[act[a].job]))
    /\ crashes' = crashes + 1
    /\ UNCHANGED <<row, logs, measurements>>

-----------------------------------------------------------------------------
(* The specification *)

RequestStatement(q, i) ==
    \/ create(q, i) \/ create_enqueue(q, i)
    \/ update(q, i) \/ update_would_approve(q, i)
    \/ submit(q, i) \/ submit_row(q, i)
    \/ approve(q, i) \/ approve_enqueue(q, i)
    \/ reject(q, i) \/ reject_status(q, i)
    \/ send_email(q, i) \/ create_history(q, i) \/ set_awaiting(q, i)
    \/ resolve(q, i) \/ resolve_status(q, i)
    \/ fixdrive(q, i) \/ destroy(q, i) \/ destroy_row(q, i)

SharedStatement(a, i) ==
    \/ process(a, i) \/ load(a, i) \/ drop_tmp_table(a, i)
    \/ process_status(a, i) \/ process_rules(a, i)
    \/ finalize(a, i) \/ finalize_done(a, i)

RequestStep(q) ==
    \/ NotFound(q)
    \/ RequestStatement(q, act[q].import)
    \/ SharedStatement(q, act[q].import)

WorkerStep(w) ==
    \/ \E q \in Requests : TakeJob(w, q)
    \/ SharedStatement(w, act[w].import)

Next ==
    \/ \E q \in Requests, op \in Ops, i \in Imports : Open(q, op, i)
    \/ \E q \in Requests : RequestStep(q)
    \/ \E w \in Workers : WorkerStep(w)
    \/ \E a \in Actors : Crash(a)

\* Workers work, and a request whose handler has begun is carried through;
\* nobody has to press a button.
Fairness ==
    /\ \A w \in Workers : WF_vars(WorkerStep(w))
    /\ \A q \in Requests : WF_vars(At(q, Statements) /\ RequestStep(q))

Spec == Init /\ [][Next]_vars
FairSpec == Spec /\ Fairness

-----------------------------------------------------------------------------
(* Properties *)

IsPublished(i) == measurements[i].keyed \/ measurements[i].copies > 0

\* Nothing is published that was not approved: neither a retried or doubled
\* FinalizeBgeigieImportJob nor "Fix Drive" publishes the logs of an import
\* whose approval is not recorded.
PublishedOnlyApproved == \A i \in Imports : IsPublished(i) => row[i].approved

\* An import shown as done has its logs published, through stale pages, repeated
\* submissions, approvals and jobs, killed workers and further runs of process,
\* as long as runs of process do not overlap and nobody rejects the import.
DoneMeansPublished ==
    \A i \in Imports : Stored(i) /\ row[i].status = "done" /\ logs[i] => IsPublished(i)

\* Once approved, loaded logs are eventually published, although workers may be
\* killed at any statement and approvals may be repeated; as long as runs of
\* process do not overlap, nobody rejects and no web request is killed.
ApprovedGetsPublished ==
    \A i \in Imports : row[i].approved /\ logs[i] ~> IsPublished(i) \/ ~Stored(i)

\* Every upload leaves the state unprocessed, although its worker may be killed
\* at any statement and its owner press the button that processes it; as long as
\* runs of process do not overlap (an exception uses up an attempt of the job),
\* nobody contacts the uploader or rejects, and no web request is killed.
UploadGetsProcessed ==
    \A i \in Imports :
        Stored(i) /\ row[i].status = "unprocessed" ~> row[i].status # "unprocessed" \/ ~Stored(i)

\* A finalized import ends up done, as the API reports it.
FinalizedIsDone ==
    \A i \in Imports : measurements[i].keyed ~> row[i].status = "done" \/ ~Stored(i)

Phase(i) ==
    IF IsPublished(i) THEN "published" ELSE IF row[i].approved THEN "approved" ELSE "pending"

Moderation == INSTANCE Publication WITH phase <- [i \in Imports |-> Phase(i)]

\* Approval is never undone and comes before publication, and a published
\* import stays published: no request or job takes an import backwards.
OnlyForward == Moderation!Spec
=============================================================================
