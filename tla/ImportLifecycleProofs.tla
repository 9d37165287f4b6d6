----------------------- MODULE ImportLifecycleProofs -----------------------
(***************************************************************************)
(* What is proved about ImportLifecycle, for any number of imports,        *)
(* requests, workers and killed processes: nothing is published that was   *)
(* not approved, every behaviour is one that Publication allows, and, as   *)
(* long as nobody rejects imports and runs of process do not overlap, an   *)
(* import that is shown as done is published.                              *)
(***************************************************************************)
EXTENDS ImportLifecycle, TLAPS

-----------------------------------------------------------------------------
(* The inductive invariant *)

\* An import that finalize! may be run for: approved, or gone in the meantime.
Licensed(i) == row[i].approved \/ row[i].life = "destroyed"

RowInv ==
    \A i \in Imports :
        /\ row[i].life = "new" => ~row[i].approved
        /\ IsPublished(i) => row[i].approved

JobInv ==
    \A q \in Requests :
        job[q].state # "none" =>
            /\ job[q].import \in Imports
            /\ job[q].kind = "finalize" => Licensed(job[q].import)

ActorInv ==
    \A a \in Actors :
        act[a].pc \notin {"idle", "answered"} =>
            /\ act[a].import \in Imports
            /\ act[a].pc # "create" => row[act[a].import].life # "new"
            /\ act[a].pc = "approve_enqueue" => Licensed(act[a].import)
            /\ act[a].pc \in {"finalize", "fixdrive"} => row[act[a].import].approved
            /\ act[a].pc = "resolve_status" => act[a].seen \in Statuses
            /\ a \in Workers => act[a].job \in Requests /\ job[act[a].job].state # "none"

Moderated == TypeOK /\ RowInv /\ JobInv /\ ActorInv

\* What a step makes of the rows, the jobs and the actors; approvals stay.
RowsSound ==
    /\ row' \in [Imports -> Row]
    /\ logs' \in [Imports -> BOOLEAN]
    /\ measurements' \in [Imports -> Published]
    /\ RowInv'
    /\ \A i \in Imports :
          /\ row[i].life # "new" => row'[i].life # "new"
          /\ row[i].life = "destroyed" => row'[i].life = "destroyed"
          /\ row[i].approved => row'[i].approved

JobsSound ==
    /\ job' \in [Requests -> Job]
    /\ JobInv'
    /\ \A q \in Requests : job[q].state # "none" => job'[q].state # "none"

ActorsSound == act' \in [Actors -> Act] /\ ActorInv'

-----------------------------------------------------------------------------
(* How the statements change a row, a job or an actor *)

LEMMA RowsKept ==
    ASSUME Moderated, UNCHANGED <<row, logs, measurements>>
    PROVE  RowsSound
BY DEF Moderated, TypeOK, RowInv, RowsSound, Stored, IsPublished

LEMMA RowWritten ==
    ASSUME Moderated, NEW i \in Imports, NEW r \in Row, r.life = row[i].life,
           row[i].approved => r.approved, Write(i, r), UNCHANGED <<logs, measurements>>
    PROVE  RowsSound
BY DEF Moderated, TypeOK, RowInv, RowsSound, Stored, IsPublished, Write

LEMMA JobsKept ==
    ASSUME Moderated, RowsSound, UNCHANGED job
    PROVE  JobsSound
BY DEF Moderated, TypeOK, JobInv, RowsSound, JobsSound, Licensed

LEMMA JobEnqueued ==
    ASSUME Moderated, RowsSound, NEW q \in Requests, NEW i \in Imports,
           NEW kind \in {"process", "finalize"},
           kind = "finalize" => row'[i].approved \/ row'[i].life = "destroyed",
           Enqueue(q, kind, i)
    PROVE  JobsSound
<1> DEFINE j == [state |-> "queued", kind |-> kind, import |-> i, attempts |-> 0]
<1>1. j \in Job /\ j.state = "queued" /\ j.import = i /\ j.kind = kind
  BY DEF Job
<1>2. job' = [job EXCEPT ![q] = j]
  BY DEF Enqueue
<1> HIDE DEF j
<1> QED BY <1>1, <1>2 DEF Moderated, TypeOK, JobInv, RowsSound, JobsSound, Licensed

LEMMA JobAdvanced ==
    ASSUME Moderated, RowsSound, NEW q \in Requests, job[q].state # "none",
           NEW j \in Job, j.state # "none", j.import = job[q].import, j.kind = job[q].kind,
           job' = [job EXCEPT ![q] = j]
    PROVE  JobsSound
BY DEF Moderated, TypeOK, JobInv, RowsSound, JobsSound, Licensed

LEMMA ActorsKept ==
    ASSUME Moderated, RowsSound, JobsSound, UNCHANGED act
    PROVE  ActorsSound
BY DEF Moderated, TypeOK, ActorInv, RowsSound, JobsSound, ActorsSound, Licensed

LEMMA ActorStopped ==
    ASSUME Moderated, RowsSound, JobsSound, NEW a \in Actors, NEW r \in Act,
           r.pc \in {"idle", "answered"}, act' = [act EXCEPT ![a] = r]
    PROVE  ActorsSound
BY DEF Moderated, TypeOK, ActorInv, RowsSound, JobsSound, ActorsSound, Licensed

\* The next statement of a handler or of a job.
LEMMA ActorContinued ==
    ASSUME Moderated, RowsSound, JobsSound, NEW a \in Actors,
           act[a].pc \notin {"idle", "answered"},
           NEW r \in Act, r.import = act[a].import, r.job = act[a].job,
           r.pc \notin {"create", "fixdrive", "finalize"},
           row'[r.import].life # "new",
           r.pc = "resolve_status" => r.seen \in Statuses,
           r.pc = "approve_enqueue" =>
               row'[r.import].approved \/ row'[r.import].life = "destroyed",
           act' = [act EXCEPT ![a] = r]
    PROVE  ActorsSound
BY DEF Moderated, TypeOK, ActorInv, RowsSound, JobsSound, ActorsSound, Licensed

\* A run of process begins, and disturbs those under way.
LEMMA LoadingBegun ==
    ASSUME Moderated, RowsSound, JobsSound, NEW a \in Actors,
           act[a].pc \in {"process", "process_button"},
           act' = [b \in Actors |->
                     IF b = a
                     THEN [act[a] EXCEPT !.pc = "load", !.disturbed = Loading # {}]
                     ELSE [act[b] EXCEPT !.disturbed = @ \/ b \in Loading]]
    PROVE  ActorsSound
<1> DEFINE busy == Loading # {}
           r == [act[a] EXCEPT !.pc = "load", !.disturbed = busy]
           late(b) == act[b].disturbed \/ b \in Loading
           s(b) == [act[b] EXCEPT !.disturbed = late(b)]
<1>t. act \in [Actors -> Act]
  BY DEF Moderated, TypeOK
<1>1. r \in Act /\ r.pc = "load" /\ r.import = act[a].import /\ r.job = act[a].job
  <2>1. busy \in BOOLEAN
    OBVIOUS
  <2> HIDE DEF busy
  <2> QED BY <1>t, <2>1 DEF Act, Statements
<1>2. ASSUME NEW b \in Actors
      PROVE  /\ s(b) \in Act /\ s(b).pc = act[b].pc /\ s(b).import = act[b].import
             /\ s(b).job = act[b].job /\ s(b).seen = act[b].seen
  <2>1. late(b) \in BOOLEAN
    BY <1>t DEF Act
  <2> HIDE DEF late
  <2> QED BY <1>t, <2>1 DEF Act
<1>3. /\ act'[a] = r
      /\ \A b \in Actors \ {a} : act'[b] = s(b)
  OBVIOUS
<1>4. act' \in [Actors -> Act]
  <2>1. act' = [b \in Actors |-> IF b = a THEN r ELSE s(b)]
    OBVIOUS
  <2> HIDE DEF r, s
  <2> QED BY <1>1, <1>2, <2>1
<1> HIDE DEF r, s
<1>5. ASSUME NEW b \in Actors, act'[b].pc \notin {"idle", "answered"}
      PROVE  /\ act'[b].import \in Imports
             /\ act'[b].pc # "create" => row'[act'[b].import].life # "new"
             /\ act'[b].pc = "approve_enqueue" =>
                   row'[act'[b].import].approved \/ row'[act'[b].import].life = "destroyed"
             /\ act'[b].pc \in {"finalize", "fixdrive"} => row'[act'[b].import].approved
             /\ act'[b].pc = "resolve_status" => act'[b].seen \in Statuses
             /\ b \in Workers => act'[b].job \in Requests /\ job'[act'[b].job].state # "none"
  <2>1. CASE b = a
    <3>1. act'[b].pc = "load" /\ act'[b].import = act[a].import /\ act'[b].job = act[a].job
      BY <2>1, <1>1, <1>3
    <3>2. /\ act[a].import \in Imports /\ row[act[a].import].life # "new"
          /\ a \in Workers => act[a].job \in Requests /\ job[act[a].job].state # "none"
      BY DEF Moderated, ActorInv
    <3> QED BY <2>1, <3>1, <3>2 DEF RowsSound, JobsSound
  <2>2. CASE b # a
    <3> DEFINE i == act[b].import
    <3>1. /\ act'[b].pc = act[b].pc /\ act'[b].import = i
          /\ act'[b].job = act[b].job /\ act'[b].seen = act[b].seen
      BY <2>2, <1>2, <1>3
    <3>2. /\ i \in Imports
          /\ act[b].pc # "create" => row[i].life # "new"
          /\ act[b].pc = "approve_enqueue" => row[i].approved \/ row[i].life = "destroyed"
          /\ act[b].pc \in {"finalize", "fixdrive"} => row[i].approved
          /\ act[b].pc = "resolve_status" => act[b].seen \in Statuses
          /\ b \in Workers => act[b].job \in Requests /\ job[act[b].job].state # "none"
      BY <3>1, <1>5 DEF Moderated, ActorInv, Licensed
    <3> HIDE DEF i
    <3> QED BY <3>1, <3>2 DEF RowsSound, JobsSound
  <2> QED BY <2>1, <2>2
<1> QED BY <1>4, <1>5 DEF ActorsSound, ActorInv, Licensed

\* What an actor in the middle of something has.
LEMMA BusyActor ==
    ASSUME Moderated, NEW a \in Actors, act[a].pc \notin {"idle", "answered"}
    PROVE  /\ act[a] \in Act
           /\ act[a].import \in Imports
           /\ row[act[a].import] \in Row
           /\ a \in Workers => act[a].job \in Requests /\ job[act[a].job] \in Job
BY DEF Moderated, TypeOK, ActorInv

LEMMA Answered ==
    ASSUME Moderated, RowsSound, JobsSound, NEW a \in Actors, Answer(a)
    PROVE  ActorsSound
<1> DEFINE r == [Idle EXCEPT !.pc = "answered"]
<1>1. r \in Act /\ r.pc = "answered"
  BY DEF Act, Idle
<1>2. act' = [act EXCEPT ![a] = r]
  BY DEF Answer
<1> QED BY <1>1, <1>2, ActorStopped

LEMMA Gone ==
    ASSUME Moderated, RowsSound, JobsSound, NEW a \in Actors,
           act[a].pc \notin {"idle", "answered", "create"},
           NEW p \in Statements \ {"approve_enqueue", "finalize", "resolve_status"}, Goto(a, p)
    PROVE  ActorsSound
<1> DEFINE r == [act[a] EXCEPT !.pc = p]
<1>1. act[a] \in Act /\ act[a].import \in Imports
  BY BusyActor
<1>2. r \in Act /\ r.import = act[a].import /\ r.job = act[a].job /\ r.pc = p
  BY <1>1 DEF Act
<1>3. p \notin {"create", "fixdrive", "finalize"}
  BY DEF Statements
<1>4. row'[act[a].import].life # "new"
  BY <1>1 DEF Moderated, ActorInv, RowsSound
<1>5. act' = [act EXCEPT ![a] = r]
  BY DEF Goto
<1> HIDE DEF r
<1> QED BY <1>1, <1>2, <1>3, <1>4, <1>5, ActorContinued

LEMMA Outcome ==
    ASSUME NEW j \in Job, j.state # "none",
           NEW k \in {Succeed(j), Requeue(j), Reschedule(j)}
    PROVE  k \in Job /\ k.state # "none" /\ k.import = j.import /\ k.kind = j.kind
<1>1. CASE k = Succeed(j)
  BY <1>1 DEF Job, Succeed
<1>2. CASE k = Requeue(j)
  BY <1>2 DEF Job, Requeue
<1>3. CASE k = Reschedule(j)
  <2> DEFINE s == IF j.attempts + 1 < MaxAttempts THEN "queued" ELSE "failed"
             n == j.attempts + 1
  <2>1. s \in {"queued", "failed"} /\ n \in Nat
    BY DEF Job
  <2>2. k = [j EXCEPT !.state = s, !.attempts = n]
    BY <1>3 DEF Reschedule
  <2> HIDE DEF s, n
  <2> QED BY <2>1, <2>2 DEF Job
<1> QED BY <1>1, <1>2, <1>3

LEMMA Ended ==
    ASSUME Moderated, RowsSound, NEW a \in Actors, act[a].pc \notin {"idle", "answered"},
           NEW j, End(a, j),
           a \in Workers => j \in { Succeed(job[act[a].job]), Requeue(job[act[a].job]),
                                    Reschedule(job[act[a].job]) }
    PROVE  JobsSound /\ ActorsSound
<1>1. CASE /\ a \in Workers
           /\ act' = [act EXCEPT ![a] = Idle]
           /\ job' = [job EXCEPT ![act[a].job] = j]
  <2> DEFINE q == act[a].job
  <2>1. q \in Requests /\ job[q] \in Job /\ job[q].state # "none"
    BY <1>1, BusyActor DEF Moderated, ActorInv
  <2>2. j \in Job /\ j.state # "none" /\ j.import = job[q].import /\ j.kind = job[q].kind
    BY <1>1, <2>1, Outcome
  <2>3. JobsSound
    BY <1>1, <2>1, <2>2, JobAdvanced
  <2>4. Idle \in Act /\ Idle.pc = "idle"
    BY DEF Idle, Act
  <2> QED BY <1>1, <2>3, <2>4, ActorStopped
<1>2. CASE a \in Requests /\ Answer(a) /\ UNCHANGED job
  BY <1>2, JobsKept, Answered
<1> QED BY <1>1, <1>2 DEF End

-----------------------------------------------------------------------------
(* Every step keeps the invariant *)

AllSound == RowsSound /\ JobsSound /\ ActorsSound

LEMMA RequestKeeps ==
    ASSUME Moderated, NEW q \in Requests, RequestStatement(q, act[q].import)
    PROVE  AllSound
<1> DEFINE i == act[q].import
<1> USE DEF At
<1>q. q \in Actors /\ q \notin Workers
  BY ActorsAssumption DEF Actors
<1>b. ASSUME act[q].pc \notin {"idle", "answered"}
      PROVE  /\ act[q] \in Act /\ i \in Imports /\ row[i] \in Row
  BY <1>b, <1>q, BusyActor
\* A row is written, the job left alone, the request answered or continued.
<1>w. ASSUME NEW r \in Row, r.life = row[i].life, row[i].approved => r.approved,
             act[q].pc \notin {"idle", "answered", "create"},
             Write(i, r), UNCHANGED <<logs, measurements, job>>,
             \/ Answer(q)
             \/ \E p \in Statements \ {"approve_enqueue", "finalize", "resolve_status"} : Goto(q, p)
      PROVE  AllSound
  <2>1. RowsSound
    BY <1>w, <1>b, RowWritten
  <2>2. JobsSound
    BY <1>w, <2>1, JobsKept
  <2>3. ActorsSound
    BY <1>w, <1>q, <2>1, <2>2, Answered, Gone
  <2> QED BY <2>1, <2>2, <2>3 DEF AllSound
\* Nothing is written, the request answered or continued.
<1>n. ASSUME act[q].pc \notin {"idle", "answered", "create"},
             UNCHANGED <<row, logs, measurements, job>>,
             \/ Answer(q)
             \/ \E p \in Statements \ {"approve_enqueue", "finalize", "resolve_status"} : Goto(q, p)
      PROVE  AllSound
  <2>1. RowsSound
    BY <1>n, RowsKept
  <2>2. JobsSound
    BY <1>n, <2>1, JobsKept
  <2>3. ActorsSound
    BY <1>n, <1>q, <2>1, <2>2, Answered, Gone
  <2> QED BY <2>1, <2>2, <2>3 DEF AllSound
<1>1. CASE create(q, i)
  <2>1. act[q].pc = "create"
    BY <1>1 DEF create
  <2>2. CASE row[i].life = "new" /\ row' = [row EXCEPT ![i] = NewRow] /\ Goto(q, "create_enqueue")
    <3> DEFINE r == [act[q] EXCEPT !.pc = "create_enqueue"]
    <3>1. NewRow \in Row /\ NewRow.life = "stored"
      BY DEF NewRow, Row, Statuses
    <3>2. RowsSound
      BY <1>1, <1>b, <2>1, <2>2, <3>1
         DEF create, Moderated, TypeOK, RowInv, RowsSound, Stored, IsPublished
    <3>3. JobsSound
      BY <1>1, <3>2, JobsKept DEF create
    <3>4. r \in Act /\ r.import = i /\ r.job = act[q].job /\ r.pc = "create_enqueue"
      BY <1>b, <2>1 DEF Act, Statements
    <3>5. act' = [act EXCEPT ![q] = r]
      BY <2>2 DEF Goto
    <3>6. row'[i].life = "stored"
      BY <1>b, <2>1, <2>2, <3>1 DEF Moderated, TypeOK
    <3> HIDE DEF r
    <3>7. ActorsSound
      BY <1>q, <2>1, <3>2, <3>3, <3>4, <3>5, <3>6, ActorContinued
    <3> QED BY <3>2, <3>3, <3>7 DEF AllSound
  <2>3. CASE Answer(q) /\ UNCHANGED row
    <3>1. RowsSound
      BY <1>1, <2>3, RowsKept DEF create
    <3>2. JobsSound
      BY <1>1, <3>1, JobsKept DEF create
    <3>3. ActorsSound
      BY <1>q, <2>3, <3>1, <3>2, Answered
    <3> QED BY <3>1, <3>2, <3>3 DEF AllSound
  <2> QED BY <1>1, <2>2, <2>3 DEF create
<1>2. CASE create_enqueue(q, i)
  <2>1. i \in Imports /\ RowsSound
    BY <1>2, <1>b, RowsKept DEF create_enqueue
  <2>2. JobsSound
    BY <1>2, <2>1, JobEnqueued DEF create_enqueue
  <2>3. ActorsSound
    BY <1>2, <1>q, <2>1, <2>2, Answered DEF create_enqueue
  <2> QED BY <2>1, <2>2, <2>3 DEF AllSound
<1>30. CASE update(q, i)
  BY <1>30, <1>n DEF update, Statements
<1>3. CASE update_would_approve(q, i)
  <2>1. PICK would \in BOOLEAN : Write(i, [row[i] EXCEPT !.would_auto_approve = would])
    BY <1>3 DEF update_would_approve
  <2> DEFINE r == [row[i] EXCEPT !.would_auto_approve = would]
  <2>2. r \in Row /\ r.life = row[i].life /\ r.approved = row[i].approved
    BY <1>3, <1>b DEF update_would_approve, Row
  <2> QED BY <1>3, <1>w, <2>1, <2>2 DEF update_would_approve
<1>4. CASE submit(q, i)
  BY <1>4, <1>n DEF submit, Statements
<1>5. CASE submit_row(q, i)
  <2> DEFINE r == [row[i] EXCEPT !.status = "submitted", !.rejected = FALSE]
  <2>1. r \in Row /\ r.life = row[i].life /\ (row[i].approved => r.approved)
    BY <1>5, <1>b DEF submit_row, Row, Statuses
  <2> QED BY <1>5, <1>w, <2>1 DEF submit_row
<1>6. CASE approve(q, i)
  <2> DEFINE r == [row[i] EXCEPT !.approved = TRUE]
             next == [act[q] EXCEPT !.pc = "approve_enqueue"]
  <2>0. act[q].pc \in {"approve", "auto_approve"}
    BY <1>6 DEF approve
  <2>1. i \in Imports /\ r \in Row /\ r.life = row[i].life /\ (row[i].approved => r.approved)
    BY <2>0, <1>b DEF Row
  <2>2. RowsSound
    BY <1>6, <2>1, RowWritten DEF approve
  <2>3. JobsSound
    BY <1>6, <2>2, JobsKept DEF approve
  <2>4. row[i].life # "new"
    BY <1>q, <2>0 DEF Moderated, ActorInv
  <2>5. row'[i].life # "new" /\ (row'[i].approved \/ row'[i].life = "destroyed")
    <3>1. CASE Stored(i)
      BY <1>6, <2>1, <2>4, <3>1 DEF approve, Write, Moderated, TypeOK, Row
    <3>2. CASE ~Stored(i)
      BY <1>6, <1>b, <2>0, <2>1, <2>4, <3>2 DEF approve, Write, Moderated, TypeOK, Row, Stored
    <3> QED BY <3>1, <3>2
  <2>6. next \in Act /\ next.import = i /\ next.job = act[q].job /\ next.pc = "approve_enqueue"
    BY <1>b, <2>0 DEF Act, Statements
  <2>7. act' = [act EXCEPT ![q] = next]
    BY <1>6 DEF approve, Goto
  <2> HIDE DEF next
  <2>8. ActorsSound
    BY <1>q, <2>0, <2>2, <2>3, <2>5, <2>6, <2>7, ActorContinued
  <2> QED BY <2>2, <2>3, <2>8 DEF AllSound
<1>7. CASE approve_enqueue(q, i)
  <2>1. i \in Imports /\ RowsSound /\ Licensed(i) /\ row' = row
    BY <1>7, <1>b, <1>q, RowsKept DEF approve_enqueue, Moderated, ActorInv
  <2>2. JobsSound
    BY <1>7, <2>1, JobEnqueued DEF approve_enqueue, Licensed
  <2>3. ActorsSound
    BY <1>7, <1>q, <2>1, <2>2, Answered DEF approve_enqueue
  <2> QED BY <2>1, <2>2, <2>3 DEF AllSound
<1>8. CASE reject(q, i)
  <2> DEFINE r == [row[i] EXCEPT !.rejected = TRUE]
  <2>1. r \in Row /\ r.life = row[i].life /\ (row[i].approved => r.approved)
    BY <1>8, <1>b DEF reject, Row, Statuses
  <2> QED BY <1>8, <1>w, <2>1 DEF reject, Statements
<1>9. CASE reject_status(q, i)
  <2> DEFINE r == [row[i] EXCEPT !.status = "processed"]
  <2>1. r \in Row /\ r.life = row[i].life /\ (row[i].approved => r.approved)
    BY <1>9, <1>b DEF reject_status, Row, Statuses
  <2> QED BY <1>9, <1>w, <2>1 DEF reject_status
<1>10. ASSUME act[q].pc \notin {"idle", "answered", "create"},
              NEW p \in {"create_history", "resolve_status"}, NEW s \in Statuses \cup {NoStatus},
              p = "resolve_status" => s \in Statuses,
              act' = [act EXCEPT ![q].pc = p, ![q].seen = s],
              UNCHANGED <<row, logs, measurements, job>>
       PROVE  AllSound
  <2> DEFINE r == [act[q] EXCEPT !.pc = p, !.seen = s]
  <2>1. RowsSound
    BY <1>10, RowsKept
  <2>2. JobsSound
    BY <1>10, <2>1, JobsKept
  <2>3. /\ r \in Act /\ r.import = i /\ r.job = act[q].job /\ r.pc = p /\ r.seen = s
        /\ r.pc \notin {"create", "fixdrive", "approve_enqueue", "finalize"}
    BY <1>10, <1>b DEF Act, Statements
  <2>4. act' = [act EXCEPT ![q] = r]
    BY <1>10
  <2>5. row'[i].life # "new" /\ act[q].pc \notin {"idle", "answered"}
    BY <1>10, <1>q DEF Moderated, ActorInv
  <2>6. r.pc = "resolve_status" => r.seen \in Statuses
    BY <1>10, <2>3
  <2> HIDE DEF r
  <2>7. ActorsSound
    BY <1>q, <2>1, <2>2, <2>3, <2>4, <2>5, <2>6, ActorContinued
  <2> QED BY <2>1, <2>2, <2>7 DEF AllSound
<1>11. CASE send_email(q, i)
  <2>1. act[q].pc = "send_email" /\ row[i].status \in Statuses
    BY <1>11, <1>b DEF send_email, Row
  <2> QED BY <1>11, <1>10, <2>1 DEF send_email
<1>12. CASE create_history(q, i)
  <2> DEFINE r == [row[i] EXCEPT !.last_contact = act[q].seen]
  <2>1. r \in Row /\ r.life = row[i].life /\ (row[i].approved => r.approved)
    BY <1>12, <1>b DEF create_history, Row, Act
  <2> QED BY <1>12, <1>w, <2>1 DEF create_history, Statements
<1>13. CASE set_awaiting(q, i)
  <2> DEFINE r == [row[i] EXCEPT !.status = "awaiting_response"]
  <2>1. r \in Row /\ r.life = row[i].life /\ (row[i].approved => r.approved)
    BY <1>13, <1>b DEF set_awaiting, Row, Statuses
  <2> QED BY <1>13, <1>w, <2>1 DEF set_awaiting
<1>14. CASE resolve(q, i)
  <2>1. act[q].pc = "resolve" /\ row[i].last_contact \in Statuses \cup {NoStatus}
    BY <1>14, <1>b DEF resolve, Row
  <2>2. CASE Answer(q)
    BY <1>14, <1>n, <2>1, <2>2 DEF resolve
  <2>3. CASE /\ row[i].last_contact # NoStatus
             /\ act' = [act EXCEPT ![q].pc = "resolve_status", ![q].seen = row[i].last_contact]
    BY <1>14, <1>10, <2>1, <2>3 DEF resolve
  <2> QED BY <1>14, <2>2, <2>3 DEF resolve
<1>15. CASE resolve_status(q, i)
  <2> DEFINE r == [row[i] EXCEPT !.status = act[q].seen]
  <2>1. act[q].pc = "resolve_status" /\ act[q].seen \in Statuses
    BY <1>15, <1>q DEF resolve_status, Moderated, ActorInv
  <2>2. r \in Row /\ r.life = row[i].life /\ (row[i].approved => r.approved)
    BY <1>b, <2>1 DEF Row
  <2> QED BY <1>15, <1>w, <2>1, <2>2 DEF resolve_status
<1>16. CASE fixdrive(q, i)
  <2>1. act[q].pc = "fixdrive" /\ i \in Imports /\ row[i].life = "stored" /\ row[i].approved
    BY <1>16, <1>b, <1>q DEF fixdrive, Stored, Moderated, ActorInv
  <2>2. RowsSound
    BY <1>16, <2>1 DEF fixdrive, Moderated, TypeOK, RowInv, RowsSound, Stored, IsPublished, Published
  <2>3. JobsSound
    BY <1>16, <2>2, JobsKept DEF fixdrive
  <2>4. ActorsSound
    BY <1>16, <1>q, <2>1, <2>2, <2>3, Gone DEF fixdrive, Statements
  <2> QED BY <2>2, <2>3, <2>4 DEF AllSound
<1>17. CASE destroy(q, i)
  BY <1>17, <1>n DEF destroy, Statements
<1>18. CASE destroy_row(q, i)
  <2>1. act[q].pc = "destroy_row" /\ i \in Imports /\ row[i].life # "new"
    BY <1>18, <1>b, <1>q DEF destroy_row, Moderated, ActorInv
  <2>2. RowsSound
    <3> DEFINE r == [row[i] EXCEPT !.life = "destroyed"]
    <3>1. r \in Row /\ r.life = "destroyed" /\ r.approved = row[i].approved
      BY <1>b, <2>1 DEF Row
    <3>2. row' = [row EXCEPT ![i] = IF Stored(i) THEN r ELSE @]
      BY <1>18 DEF destroy_row, Write
    <3> HIDE DEF r
    <3>3. row' \in [Imports -> Row]
      BY <3>1, <3>2 DEF Moderated, TypeOK
    <3>4. RowInv'
      BY <1>18, <2>1, <3>1, <3>2
         DEF destroy_row, Moderated, TypeOK, RowInv, Stored, IsPublished
    <3> QED BY <1>18, <2>1, <3>1, <3>2, <3>3, <3>4
            DEF destroy_row, Moderated, TypeOK, RowsSound, Stored
  <2>3. JobsSound
    BY <1>18, <2>2, JobsKept DEF destroy_row
  <2>4. ActorsSound
    BY <1>18, <1>q, <2>2, <2>3, Answered DEF destroy_row
  <2> QED BY <2>2, <2>3, <2>4 DEF AllSound
<1> QED
  BY <1>1, <1>2, <1>30, <1>3, <1>4, <1>5, <1>6, <1>7, <1>8, <1>9, <1>11, <1>12, <1>13, <1>14,
     <1>15, <1>16, <1>17, <1>18 DEF RequestStatement

LEMMA SharedKeeps ==
    ASSUME Moderated, NEW a \in Actors, SharedStatement(a, act[a].import)
    PROVE  AllSound
<1> DEFINE i == act[a].import
<1> USE DEF At
<1>p. act[a].pc \notin {"idle", "answered", "create", "fixdrive"}
  BY DEF SharedStatement, process, load, drop_tmp_table, process_status, process_rules, finalize,
     finalize_done
<1>b. act[a] \in Act /\ i \in Imports /\ row[i] \in Row /\ row[i].life # "new"
  BY <1>p, BusyActor DEF Moderated, ActorInv
<1>1. CASE process(a, i)
  <2>1. RowsSound
    BY <1>1, RowsKept DEF process
  <2>2. JobsSound
    BY <1>1, <2>1, JobsKept DEF process
  <2>3. ActorsSound
    BY <1>1, <2>1, <2>2, LoadingBegun DEF process
  <2> QED BY <2>1, <2>2, <2>3 DEF AllSound
<1>6. CASE load(a, i)
  <2>r. Refused(i) \in Row /\ Refused(i).life = row[i].life /\ Refused(i).approved = row[i].approved
    BY <1>b DEF Refused, Row, Statuses
  <2>1. \E r \in {row[i], Refused(i)} : Write(i, r)
    BY <1>6 DEF load, Load, LoadDisturbed
  <2>2. logs' \in [Imports -> BOOLEAN]
    <3>1. CASE Load(i)
      BY <3>1, <1>b DEF Load, Moderated, TypeOK
    <3>2. CASE LoadDisturbed(i)
      BY <3>2 DEF LoadDisturbed, Moderated, TypeOK
    <3> QED BY <1>6, <3>1, <3>2 DEF load
  <2>3. PICK r \in {row[i], Refused(i)} : Write(i, r)
    BY <2>1
  <2>4. r \in Row /\ r.life = row[i].life /\ r.approved = row[i].approved
    BY <1>b, <2>r, <2>3
  <2>5. row' = [row EXCEPT ![i] = IF Stored(i) THEN r ELSE row[i]] /\ measurements' = measurements
    BY <1>6, <2>3 DEF load, Write
  <2>6. row' \in [Imports -> Row]
    BY <1>b, <2>4, <2>5 DEF Moderated, TypeOK
  <2>7. \A k \in Imports : row'[k].life = row[k].life /\ row'[k].approved = row[k].approved
    BY <1>b, <2>4, <2>5 DEF Moderated, TypeOK
  <2>8. RowsSound
    BY <2>2, <2>5, <2>6, <2>7 DEF Moderated, TypeOK, RowInv, RowsSound, IsPublished
  <2>9. JobsSound
    BY <1>6, <2>8, JobsKept DEF load
  <2>10. ActorsSound
    BY <1>6, <1>p, <2>8, <2>9, Gone DEF load, Statements
  <2> QED BY <2>8, <2>9, <2>10 DEF AllSound
<1>7. CASE drop_tmp_table(a, i)
  <2>1. RowsSound
    BY <1>7, RowsKept DEF drop_tmp_table
  <2>2. CASE /\ act' = [act EXCEPT ![a].pc = "process_status", ![a].disturbed = FALSE]
             /\ UNCHANGED job
    <3> DEFINE r == [act[a] EXCEPT !.pc = "process_status", !.disturbed = FALSE]
    <3>1. JobsSound
      BY <2>1, <2>2, JobsKept
    <3>2. r \in Act /\ r.import = i /\ r.job = act[a].job /\ r.pc = "process_status"
      BY <1>b DEF Act, Statements
    <3>3. act' = [act EXCEPT ![a] = r]
      BY <2>2
    <3>4. row'[i].life # "new"
      BY <1>b, <2>1 DEF RowsSound
    <3> HIDE DEF r
    <3>5. ActorsSound
      BY <1>p, <2>1, <3>1, <3>2, <3>3, <3>4, ActorContinued
    <3> QED BY <2>1, <3>1, <3>5 DEF AllSound
  <2>3. CASE End(a, Reschedule(job[act[a].job]))
    <3>1. JobsSound /\ ActorsSound
      BY <1>p, <2>1, <2>3, Ended
    <3> QED BY <2>1, <3>1 DEF AllSound
  <2> QED BY <1>7, <2>2, <2>3 DEF drop_tmp_table
<1>2. CASE process_status(a, i)
  <2> DEFINE r == [row[i] EXCEPT !.status = "processed"]
  <2>1. r \in Row /\ r.life = row[i].life /\ r.approved = row[i].approved
    BY <1>b DEF Row, Statuses
  <2>2. RowsSound
    BY <1>2, <1>b, <2>1, RowWritten DEF process_status
  <2>3. JobsSound
    BY <1>2, <2>2, JobsKept DEF process_status
  <2>4. ActorsSound
    BY <1>2, <1>p, <2>2, <2>3, Gone DEF process_status, Statements
  <2> QED BY <2>2, <2>3, <2>4 DEF AllSound
<1>3. CASE process_rules(a, i)
  <2>1. PICK would \in BOOLEAN : Write(i, [row[i] EXCEPT !.would_auto_approve = would])
    BY <1>3 DEF process_rules
  <2> DEFINE r == [row[i] EXCEPT !.would_auto_approve = would]
  <2>2. r \in Row /\ r.life = row[i].life /\ r.approved = row[i].approved
    BY <1>b DEF Row
  <2>3. RowsSound
    BY <1>3, <1>b, <2>1, <2>2, RowWritten DEF process_rules
  <2>4. JobsSound /\ ActorsSound
    BY <1>3, <1>p, <2>3, Ended DEF process_rules
  <2> QED BY <2>3, <2>4 DEF AllSound
<1>4. CASE finalize(a, i)
  <2>1. row[i].approved
    BY <1>4, <1>p DEF finalize, Moderated, ActorInv
  <2>2. CASE /\ measurements' = [measurements EXCEPT ![i].keyed = @ \/ logs[i]]
             /\ Goto(a, "finalize_done")
             /\ UNCHANGED job
    <3>1. RowsSound
      BY <1>4, <1>b, <2>1, <2>2
         DEF finalize, Moderated, TypeOK, RowInv, RowsSound, Stored, IsPublished, Published
    <3>2. JobsSound
      BY <2>2, <3>1, JobsKept
    <3>3. ActorsSound
      BY <1>p, <2>2, <3>1, <3>2, Gone DEF Statements
    <3> QED BY <3>1, <3>2, <3>3 DEF AllSound
  <2>3. CASE End(a, Reschedule(job[act[a].job])) /\ UNCHANGED measurements
    <3>1. RowsSound
      BY <1>4, <2>3, RowsKept DEF finalize
    <3>2. JobsSound /\ ActorsSound
      BY <1>p, <2>3, <3>1, Ended
    <3> QED BY <3>1, <3>2 DEF AllSound
  <2> QED BY <1>4, <2>2, <2>3 DEF finalize
<1>5. CASE finalize_done(a, i)
  <2> DEFINE r == [row[i] EXCEPT !.status = "done"]
  <2>1. r \in Row /\ r.life = row[i].life /\ r.approved = row[i].approved
    BY <1>b DEF Row, Statuses
  <2>2. RowsSound
    BY <1>5, <1>b, <2>1, RowWritten DEF finalize_done
  <2>3. JobsSound /\ ActorsSound
    BY <1>5, <1>p, <2>2, Ended DEF finalize_done
  <2> QED BY <2>2, <2>3 DEF AllSound
<1> QED BY <1>1, <1>2, <1>3, <1>4, <1>5, <1>6, <1>7 DEF SharedStatement

LEMMA OpenKeeps ==
    ASSUME Moderated, NEW q \in Requests, NEW op \in Ops, NEW i \in Imports, Open(q, op, i)
    PROVE  AllSound
<1>q. q \in Actors /\ q \notin Workers
  BY ActorsAssumption DEF Actors
<1>1. RowsSound
  BY RowsKept DEF Open
<1>2. JobsSound
  BY <1>1, JobsKept DEF Open
<1> DEFINE r == [act[q] EXCEPT !.pc = op, !.import = i]
<1>3. r \in Act /\ r.pc = op /\ r.import = i
  BY <1>q DEF Moderated, TypeOK, Act
<1>4. act' = [act EXCEPT ![q] = r]
  BY DEF Open
<1>5. /\ op # "create" => row'[i].life # "new"
      /\ op = "fixdrive" => row'[i].approved
  BY DEF Open, Button, Stored, Ops
<1>6. op \notin {"approve_enqueue", "finalize", "resolve_status"}
  BY DEF Ops
<1> HIDE DEF r
<1>7. act' \in [Actors -> Act]
  BY <1>3, <1>4 DEF Moderated, TypeOK
<1>8. ActorInv'
  BY <1>q, <1>1, <1>2, <1>3, <1>4, <1>5, <1>6
     DEF Moderated, TypeOK, ActorInv, RowsSound, JobsSound, Licensed
<1> QED BY <1>1, <1>2, <1>7, <1>8 DEF AllSound, ActorsSound

LEMMA TakeJobKeeps ==
    ASSUME Moderated, NEW w \in Workers, NEW q \in Requests, TakeJob(w, q)
    PROVE  AllSound
<1>w. w \in Actors
  BY DEF Actors
<1>j. job[q] \in Job /\ job[q].state = "queued" /\ job[q].import \in Imports
  BY DEF TakeJob, Moderated, TypeOK, JobInv
<1>1. RowsSound
  BY RowsKept DEF TakeJob
<1>2. CASE Stored(job[q].import) /\ Running(w, q, job[q].kind)
  <2> DEFINE k == [job[q] EXCEPT !.state = "running"]
             r == [Idle EXCEPT !.pc = job[q].kind, !.import = job[q].import, !.job = q]
  <2>1. k \in Job /\ k.state = "running" /\ k.import = job[q].import /\ k.kind = job[q].kind
    BY <1>j DEF Job
  <2>2. job' = [job EXCEPT ![q] = k]
    BY <1>2 DEF Running
  <2>3. JobsSound
    BY <1>1, <1>j, <2>1, <2>2, JobAdvanced
  <2>4. /\ r \in Act /\ r.pc = job[q].kind /\ r.import = job[q].import /\ r.job = q
        /\ r.pc \in {"process", "finalize"}
    BY <1>j DEF Job, Idle, Act, Statements
  <2>5. act' = [act EXCEPT ![w] = r]
    BY <1>2 DEF Running
  <2>6. /\ row'[job[q].import].life # "new"
        /\ job[q].kind = "finalize" => row[job[q].import].approved
        /\ row' = row
        /\ job'[q].state # "none"
    BY <1>2, <1>j, <2>1, <2>2 DEF TakeJob, Stored, Moderated, TypeOK, JobInv, Licensed
  <2> HIDE DEF k, r
  <2>7. act' \in [Actors -> Act]
    BY <2>4, <2>5 DEF Moderated, TypeOK
  <2>8. ActorInv'
    <3> SUFFICES ASSUME NEW b \in Actors, act'[b].pc \notin {"idle", "answered"}
                 PROVE  /\ act'[b].import \in Imports
                        /\ act'[b].pc # "create" => row'[act'[b].import].life # "new"
                        /\ act'[b].pc = "approve_enqueue" =>
                              \/ row'[act'[b].import].approved
                              \/ row'[act'[b].import].life = "destroyed"
                        /\ act'[b].pc \in {"finalize", "fixdrive"} =>
                              row'[act'[b].import].approved
                        /\ act'[b].pc = "resolve_status" => act'[b].seen \in Statuses
                        /\ b \in Workers =>
                              act'[b].job \in Requests /\ job'[act'[b].job].state # "none"
      BY DEF ActorInv, Licensed
    <3>1. CASE b = w
      <4>1. act'[b] = r
        BY <3>1, <2>5, <1>w DEF Moderated, TypeOK
      <4> QED BY <4>1, <1>j, <2>4, <2>6 DEF Licensed
    <3>2. CASE b # w
      <4>1. act'[b] = act[b]
        BY <3>2, <2>5, <1>w DEF Moderated, TypeOK
      <4> QED BY <4>1, <2>3, <2>6 DEF Moderated, ActorInv, JobsSound, Licensed
    <3> QED BY <3>1, <3>2
  <2> QED BY <1>1, <2>3, <2>7, <2>8 DEF AllSound, ActorsSound
<1>3. CASE job' = [job EXCEPT ![q] = Reschedule(@)] /\ UNCHANGED act
  <2>1. job' = [job EXCEPT ![q] = Reschedule(job[q])]
    BY <1>3
  <2>2. JobsSound
    BY <1>1, <1>j, <2>1, Outcome, JobAdvanced
  <2>3. ActorsSound
    BY <1>1, <1>3, <2>2, ActorsKept
  <2> QED BY <1>1, <2>2, <2>3 DEF AllSound
<1> QED BY <1>2, <1>3 DEF TakeJob

LEMMA ModeratedInit == Init => Moderated
<1> SUFFICES ASSUME Init
             PROVE  Moderated
  OBVIOUS
<1>1. row \in [Imports -> Row] /\ \A i \in Imports : row[i].life = "new" /\ ~row[i].approved
  <2> DEFINE r == [NewRow EXCEPT !.life = "new"]
  <2>1. r \in Row /\ r.life = "new" /\ ~r.approved
    BY DEF NewRow, Row, Statuses
  <2>2. row = [i \in Imports |-> r]
    BY DEF Init
  <2> HIDE DEF r
  <2> QED BY <2>1, <2>2
<1>2. job \in [Requests -> Job] /\ \A q \in Requests : job[q].state = "none"
  BY DEF Init, NoJob, Job
<1>3. act \in [Actors -> Act] /\ \A a \in Actors : act[a].pc = "idle"
  BY DEF Init, Idle, Act
<1>4. logs \in [Imports -> BOOLEAN] /\ \A i \in Imports : ~logs[i]
  BY DEF Init
<1>5. /\ measurements \in [Imports -> Published]
      /\ \A i \in Imports : ~measurements[i].keyed /\ measurements[i].copies = 0
  BY DEF Init, Published
<1>6. crashes \in 0 .. MaxCrashes
  BY BoundAssumption DEF Init
<1>7. TypeOK
  BY <1>1, <1>2, <1>3, <1>4, <1>5, <1>6 DEF TypeOK
<1>8. RowInv
  BY <1>1, <1>4, <1>5 DEF RowInv, IsPublished
<1>9. JobInv /\ ActorInv
  BY <1>2, <1>3 DEF JobInv, ActorInv
<1> QED BY <1>7, <1>8, <1>9 DEF Moderated

LEMMA StepSound ==
    ASSUME Moderated, [Next]_vars
    PROVE  Moderated' /\ RowsSound
<1>c. ASSUME AllSound, crashes' \in 0 .. MaxCrashes
      PROVE  Moderated' /\ RowsSound
  BY <1>c DEF AllSound, RowsSound, JobsSound, ActorsSound, Moderated, TypeOK
<1>u. ASSUME UNCHANGED crashes
      PROVE  crashes' \in 0 .. MaxCrashes
  BY <1>u DEF Moderated, TypeOK
<1>1. CASE UNCHANGED vars
  <2>1. Moderated'
    BY <1>1 DEF vars, Moderated, TypeOK, RowInv, JobInv, ActorInv, Stored, IsPublished, Licensed
  <2>2. RowsSound
    BY <1>1, RowsKept DEF vars
  <2> QED BY <2>1, <2>2
<1>2. ASSUME NEW q \in Requests, NEW op \in Ops, NEW i \in Imports, Open(q, op, i)
      PROVE  Moderated' /\ RowsSound
  BY <1>2, <1>c, <1>u, OpenKeeps DEF Open
<1>3. ASSUME NEW q \in Requests, NotFound(q)
      PROVE  Moderated' /\ RowsSound
  <2>1. q \in Actors
    BY DEF Actors
  <2>2. RowsSound
    BY <1>3, RowsKept DEF NotFound
  <2>3. JobsSound
    BY <1>3, <2>2, JobsKept DEF NotFound
  <2>4. ActorsSound
    BY <1>3, <2>1, <2>2, <2>3, Answered DEF NotFound
  <2> QED BY <1>3, <1>c, <1>u, <2>2, <2>3, <2>4 DEF AllSound, NotFound
<1>4. ASSUME NEW q \in Requests, RequestStatement(q, act[q].import)
      PROVE  Moderated' /\ RowsSound
  <2>1. UNCHANGED crashes
    BY <1>4 DEF RequestStatement, create, create_enqueue, update, update_would_approve, submit,
       submit_row, approve, approve_enqueue, reject, reject_status, send_email, create_history, set_awaiting, resolve,
       resolve_status, fixdrive, destroy, destroy_row
  <2> QED BY <1>4, <1>c, <1>u, <2>1, RequestKeeps
<1>5. ASSUME NEW a \in Actors, SharedStatement(a, act[a].import)
      PROVE  Moderated' /\ RowsSound
  <2>1. UNCHANGED crashes
    BY <1>5 DEF SharedStatement, process, load, drop_tmp_table, process_status, process_rules,
       finalize, finalize_done
  <2> QED BY <1>5, <1>c, <1>u, <2>1, SharedKeeps
<1>6. ASSUME NEW w \in Workers, NEW q \in Requests, TakeJob(w, q)
      PROVE  Moderated' /\ RowsSound
  BY <1>6, <1>c, <1>u, TakeJobKeeps DEF TakeJob
<1>7. ASSUME NEW a \in Actors, Crash(a)
      PROVE  Moderated' /\ RowsSound
  <2>1. act[a].pc \notin {"idle", "answered"}
    BY <1>7 DEF Crash, At, Statements
  <2>2. RowsSound
    BY <1>7, RowsKept DEF Crash
  <2>3. JobsSound /\ ActorsSound
    BY <1>7, <2>1, <2>2, Ended DEF Crash
  <2>4. crashes' \in 0 .. MaxCrashes
    BY <1>7, BoundAssumption DEF Crash, Moderated, TypeOK
  <2> QED BY <1>c, <2>2, <2>3, <2>4 DEF AllSound
<1> QED
  BY <1>1, <1>2, <1>3, <1>4, <1>5, <1>6, <1>7 DEF Next, RequestStep, WorkerStep, Actors

LEMMA ModeratedStep == Moderated /\ [Next]_vars => Moderated'
BY StepSound

\* Every variable keeps its type, whatever pages, however stale, requests come
\* from and whichever runs of process overlap: in particular resolve never writes
\* back the status of a contact that there was not.
THEOREM ImportTyping == Spec => []TypeOK
<1>1. Moderated => TypeOK
  BY DEF Moderated
<1> QED BY <1>1, ModeratedInit, ModeratedStep, PTL DEF Spec

\* Whatever pages, however stale, requests come from, and whichever runs of
\* process overlap, nothing is published whose approval is not recorded.
THEOREM ApprovalComesFirst == Spec => []PublishedOnlyApproved
<1>1. Moderated => PublishedOnlyApproved
  BY DEF Moderated, RowInv, PublishedOnlyApproved
<1> QED BY <1>1, ModeratedInit, ModeratedStep, PTL DEF Spec

-----------------------------------------------------------------------------
(* Every behaviour is one of Publication *)

\* A step writes one row or the measurements of one import, never both.
LEMMA OneAtATime ==
    ASSUME Moderated, [Next]_vars
    PROVE  \/ UNCHANGED <<row, measurements>>
           \/ /\ UNCHANGED measurements
              /\ \E i \in Imports : \A k \in Imports \ {i} : row'[k] = row[k]
           \/ /\ UNCHANGED row
              /\ \E i \in Imports :
                    /\ \A k \in Imports \ {i} : measurements'[k] = measurements[k]
                    /\ IsPublished(i) => IsPublished(i)'
<1>t. /\ row \in [Imports -> Row] /\ measurements \in [Imports -> Published]
      /\ \A a \in Actors : act[a].pc \notin {"idle", "answered"} => act[a].import \in Imports
  BY DEF Moderated, TypeOK, ActorInv
<1>w. ASSUME NEW a \in Actors, act[a].pc \notin {"idle", "answered"}, NEW r,
             \/ Write(act[a].import, r)
             \/ row' = [row EXCEPT ![act[a].import] = r]
             \/ UNCHANGED row
      PROVE  /\ act[a].import \in Imports
             /\ \A k \in Imports \ {act[a].import} : row'[k] = row[k]
  BY <1>w, <1>t DEF Write
<1>m. ASSUME NEW i \in Imports, NEW r \in Published, measurements' = [measurements EXCEPT ![i] = r],
             IsPublished(i) => r.keyed \/ r.copies > 0
      PROVE  /\ \A k \in Imports \ {i} : measurements'[k] = measurements[k]
             /\ IsPublished(i) => IsPublished(i)'
  <2>1. \A k \in Imports \ {i} : measurements'[k] = measurements[k]
    BY <1>m, <1>t
  <2>2. measurements'[i] = r
    BY <1>m, <1>t
  <2>3. IsPublished(i) => IsPublished(i)'
    BY <1>m, <2>2, Zenon DEF IsPublished
  <2> QED BY <2>1, <2>3
<1>1. ASSUME NEW q \in Requests, RequestStatement(q, act[q].import), ~fixdrive(q, act[q].import)
      PROVE  /\ UNCHANGED measurements
             /\ \E i \in Imports : \A k \in Imports \ {i} : row'[k] = row[k]
  <2> DEFINE i == act[q].import
  <2> USE DEF At
  <2>a. q \in Actors
    BY DEF Actors
  <2>1. CASE create(q, i)
    <3>1. act[q].pc = "create" /\ (row' = [row EXCEPT ![i] = NewRow] \/ UNCHANGED row)
      BY <2>1 DEF create
    <3> QED BY <2>1, <2>a, <3>1, <1>w DEF create
  <2>2. CASE \/ create_enqueue(q, i) \/ submit(q, i) \/ approve_enqueue(q, i)
             \/ update(q, i) \/ send_email(q, i) \/ resolve(q, i) \/ destroy(q, i)
    <3>1. act[q].pc \notin {"idle", "answered"} /\ UNCHANGED <<row, measurements>>
      BY <2>2 DEF create_enqueue, update, submit, approve_enqueue, send_email, resolve, destroy
    <3> QED BY <2>a, <3>1, <1>w
  <2>3. CASE update_would_approve(q, i)
    <3>1. PICK would \in BOOLEAN : Write(i, [row[i] EXCEPT !.would_auto_approve = would])
      BY <2>3 DEF update_would_approve
    <3> QED BY <2>3, <2>a, <3>1, <1>w DEF update_would_approve
  <2>4. CASE submit_row(q, i)
    BY <2>4, <2>a, <1>w DEF submit_row
  <2>5. CASE approve(q, i)
    BY <2>5, <2>a, <1>w DEF approve
  <2>6. CASE reject(q, i)
    BY <2>6, <2>a, <1>w DEF reject
  <2>7. CASE reject_status(q, i)
    BY <2>7, <2>a, <1>w DEF reject_status
  <2>8. CASE create_history(q, i)
    BY <2>8, <2>a, <1>w DEF create_history
  <2>9. CASE set_awaiting(q, i)
    BY <2>9, <2>a, <1>w DEF set_awaiting
  <2>10. CASE resolve_status(q, i)
    BY <2>10, <2>a, <1>w DEF resolve_status
  <2>11. CASE destroy_row(q, i)
    BY <2>11, <2>a, <1>w DEF destroy_row
  <2> QED
    BY <1>1, <2>1, <2>2, <2>3, <2>4, <2>5, <2>6, <2>7, <2>8, <2>9, <2>10, <2>11
       DEF RequestStatement
<1>2. ASSUME NEW q \in Requests, fixdrive(q, act[q].import)
      PROVE  /\ UNCHANGED row
             /\ \E i \in Imports :
                   /\ \A k \in Imports \ {i} : measurements'[k] = measurements[k]
                   /\ IsPublished(i) => IsPublished(i)'
  <2> DEFINE i == act[q].import
             n == IF logs[i] THEN measurements[i].copies + 1 ELSE measurements[i].copies
             r == [measurements[i] EXCEPT !.copies = n]
  <2>1. q \in Actors /\ act[q].pc = "fixdrive" /\ i \in Imports
    BY <1>2, <1>t DEF fixdrive, At, Actors
  <2>2. n \in Nat /\ n >= measurements[i].copies
    BY <2>1, <1>t DEF Published
  <2>3. measurements' = [measurements EXCEPT ![i] = r] /\ UNCHANGED row
    BY <1>2 DEF fixdrive
  <2> HIDE DEF n
  <2>4. r \in Published /\ r.keyed = measurements[i].keyed /\ r.copies = n
    BY <2>1, <2>2, <1>t DEF Published
  <2>5. measurements[i].copies > 0 => r.copies > 0
    BY <2>1, <2>2, <2>4, <1>t DEF Published
  <2> HIDE DEF r
  <2>6. IsPublished(i) => r.keyed \/ r.copies > 0
    BY <2>4, <2>5, Zenon DEF IsPublished
  <2> HIDE DEF i
  <2> QED BY <2>1, <2>3, <2>4, <2>6, <1>m
<1>3. ASSUME NEW a \in Actors, SharedStatement(a, act[a].import), ~finalize(a, act[a].import)
      PROVE  /\ UNCHANGED measurements
             /\ \E i \in Imports : \A k \in Imports \ {i} : row'[k] = row[k]
  <2> DEFINE i == act[a].import
  <2> USE DEF At
  <2>1. CASE process(a, i)
    BY <2>1, <1>w DEF process
  <2>5. CASE load(a, i)
    <3>1. \E r \in {row[i], Refused(i)} : Write(i, r)
      BY <2>5 DEF load, Load, LoadDisturbed
    <3>2. PICK r : Write(i, r)
      BY <3>1
    <3> QED BY <2>5, <3>2, <1>w DEF load
  <2>6. CASE drop_tmp_table(a, i)
    BY <2>6, <1>w DEF drop_tmp_table
  <2>2. CASE process_status(a, i)
    BY <2>2, <1>w DEF process_status
  <2>3. CASE process_rules(a, i)
    <3>1. PICK would \in BOOLEAN : Write(i, [row[i] EXCEPT !.would_auto_approve = would])
      BY <2>3 DEF process_rules
    <3> QED BY <2>3, <3>1, <1>w DEF process_rules
  <2>4. CASE finalize_done(a, i)
    BY <2>4, <1>w DEF finalize_done
  <2> QED BY <1>3, <2>1, <2>2, <2>3, <2>4, <2>5, <2>6 DEF SharedStatement
<1>4. ASSUME NEW a \in Actors, finalize(a, act[a].import)
      PROVE  \/ UNCHANGED <<row, measurements>>
             \/ /\ UNCHANGED row
                /\ \E i \in Imports :
                      /\ \A k \in Imports \ {i} : measurements'[k] = measurements[k]
                      /\ IsPublished(i) => IsPublished(i)'
  <2> DEFINE i == act[a].import
             r == [measurements[i] EXCEPT !.keyed = @ \/ logs[i]]
  <2>1. act[a].pc = "finalize" /\ i \in Imports
    BY <1>4, <1>t DEF finalize, At
  <2>2. CASE measurements' = [measurements EXCEPT ![i].keyed = @ \/ logs[i]]
    <3>1. /\ r \in Published /\ r.copies = measurements[i].copies
          /\ measurements[i].keyed => r.keyed
      BY <2>1, <1>t DEF Published, Moderated, TypeOK
    <3>2. measurements' = [measurements EXCEPT ![i] = r]
      BY <2>2
    <3> HIDE DEF r
    <3>3. IsPublished(i) => r.keyed \/ r.copies > 0
      BY <3>1, Zenon DEF IsPublished
    <3>4. UNCHANGED row
      BY <1>4 DEF finalize
    <3>5. i \in Imports
      BY <2>1
    <3> HIDE DEF i
    <3> QED BY <3>1, <3>2, <3>3, <3>4, <3>5, <1>m
  <2> QED BY <1>4, <2>2 DEF finalize
<1>5. CASE \/ UNCHANGED vars
           \/ \E q \in Requests, op \in Ops, i \in Imports : Open(q, op, i)
           \/ \E q \in Requests : NotFound(q)
           \/ \E w \in Workers, q \in Requests : TakeJob(w, q)
           \/ \E a \in Actors : Crash(a)
  BY <1>5 DEF vars, Open, NotFound, TakeJob, Crash
<1>6. \/ UNCHANGED vars
      \/ \E q \in Requests, op \in Ops, i \in Imports : Open(q, op, i)
      \/ \E q \in Requests : NotFound(q)
      \/ \E q \in Requests : RequestStatement(q, act[q].import)
      \/ \E w \in Workers, q \in Requests : TakeJob(w, q)
      \/ \E a \in Actors : SharedStatement(a, act[a].import)
      \/ \E a \in Actors : Crash(a)
  BY DEF Next, RequestStep, WorkerStep, Actors
<1> QED BY <1>1, <1>2, <1>3, <1>4, <1>5, <1>6

LEMMA PhaseInit == Init => Moderation!Init
<1> SUFFICES ASSUME Init
             PROVE  Moderation!Init
  OBVIOUS
<1>1. \A i \in Imports : Phase(i) = "pending"
  <2>1. \A i \in Imports : ~IsPublished(i)
    BY DEF Init, IsPublished
  <2>2. \A i \in Imports : ~row[i].approved
    BY ModeratedInit DEF Init, NewRow
  <2> QED BY <2>1, <2>2 DEF Phase
<1> QED BY <1>1 DEF Moderation!Init

\* When the phase of one import alone changes, forwards, Publication takes a
\* step.
LEMMA OnePhase ==
    ASSUME NEW i \in Imports,
           \A k \in Imports \ {i} : Phase(k)' = Phase(k),
           \/ Phase(i)' = Phase(i)
           \/ Phase(i) = "pending" /\ Phase(i)' = "approved"
           \/ Phase(i) = "approved" /\ Phase(i)' = "published"
    PROVE  [Moderation!Next]_([k \in Imports |-> Phase(k)])
<1> DEFINE phase == [k \in Imports |-> Phase(k)]
<1>1. \A k \in Imports : phase[k] = Phase(k) /\ phase'[k] = Phase(k)'
  OBVIOUS
<1>2. phase' = [phase EXCEPT ![i] = Phase(i)']
  BY <1>1
<1>3. CASE Phase(i)' = Phase(i)
  <2>1. phase' = phase
    BY <1>3
  <2> QED BY <2>1
<1>4. CASE Phase(i) = "pending" /\ Phase(i)' = "approved"
  <2>1. Moderation!Approve(i)
    BY <1>1, <1>2, <1>4 DEF Moderation!Approve
  <2> QED BY <2>1 DEF Moderation!Next
<1>5. CASE Phase(i) = "approved" /\ Phase(i)' = "published"
  <2>1. Moderation!Publish(i)
    BY <1>1, <1>2, <1>5 DEF Moderation!Publish
  <2> QED BY <2>1 DEF Moderation!Next
<1> QED BY <1>3, <1>4, <1>5

LEMMA PhaseStep ==
    ASSUME Moderated, [Next]_vars
    PROVE  [Moderation!Next]_([k \in Imports |-> Phase(k)])
<1>1. Moderated' /\ RowsSound
  BY StepSound
<1>2. \A k \in Imports : row[k].approved => row'[k].approved
  BY <1>1 DEF RowsSound
<1>3. \A k \in Imports : IsPublished(k)' => row'[k].approved
  BY <1>1 DEF Moderated, RowInv
<1>4. CASE UNCHANGED <<row, measurements>>
  <2>1. \A k \in Imports : Phase(k)' = Phase(k)
    BY <1>4 DEF Phase, IsPublished
  <2> QED BY <2>1
<1>5. ASSUME NEW i \in Imports, UNCHANGED measurements,
             \A k \in Imports \ {i} : row'[k] = row[k]
      PROVE  [Moderation!Next]_([k \in Imports |-> Phase(k)])
  <2>1. \A k \in Imports \ {i} : Phase(k)' = Phase(k)
    BY <1>5 DEF Phase, IsPublished
  <2>2. IsPublished(i)' = IsPublished(i)
    BY <1>5 DEF IsPublished
  <2>3. \/ Phase(i)' = Phase(i)
        \/ Phase(i) = "pending" /\ Phase(i)' = "approved"
    BY <1>2, <2>2 DEF Phase
  <2> QED BY <2>1, <2>3, OnePhase
<1>6. ASSUME NEW i \in Imports, UNCHANGED row,
             \A k \in Imports \ {i} : measurements'[k] = measurements[k],
             IsPublished(i) => IsPublished(i)'
      PROVE  [Moderation!Next]_([k \in Imports |-> Phase(k)])
  <2>1. \A k \in Imports \ {i} : Phase(k)' = Phase(k)
    BY <1>6 DEF Phase, IsPublished
  <2>2. \/ Phase(i)' = Phase(i)
        \/ Phase(i) = "approved" /\ Phase(i)' = "published"
    BY <1>3, <1>6 DEF Phase
  <2> QED BY <2>1, <2>2, OnePhase
<1> QED BY <1>4, <1>5, <1>6, OneAtATime

\* ImportLifecycle implements Publication: approval is never undone and comes
\* before publication, which is not undone either.
THEOREM LifecycleOnlyForward == Spec => OnlyForward
<1>1. Moderated /\ [Next]_vars => [Moderation!Next]_([i \in Imports |-> Phase(i)])
  BY PhaseStep
<1> QED
  BY <1>1, PhaseInit, ModeratedInit, ModeratedStep, PTL
     DEF Spec, OnlyForward, Moderation!Spec

-----------------------------------------------------------------------------
(* An import that is shown as done is published, as long as nobody rejects *)
(* imports and runs of process do not overlap: rejecting one that is not   *)
(* loaded yet makes it processed all the same, and so open to a submission *)
(* and an approval that overtake the loading, and a run that is overlapped *)
(* may load nothing or be refused, and be repeated.  The inductive         *)
(* invariant:                                                              *)

Bare(i) == i \in Unloadable \cup Empty

\* The logs that import i will ever have are there.
Ready(i) == row[i].life = "destroyed" \/ logs[i] \/ Bare(i)

\* They are published.
Shown(i) == row[i].life = "destroyed" \/ IsPublished(i) \/ Bare(i)

\* What the status of import i, or one it is to go back to, says of its logs.
AfterProcess == {"processed", "submitted", "done"}
Suits(i, status) ==
    /\ status \in AfterProcess => Ready(i)
    /\ status = "done" => Shown(i)

RowsReady ==
    \A i \in Imports :
        /\ Suits(i, row[i].status) /\ Suits(i, row[i].last_contact)
        /\ row[i].would_auto_approve \/ row[i].approved => Ready(i)
        /\ logs[i] => ~ Bare(i)

JobsReady ==
    \A q \in Requests :
        job[q].state # "none" /\ job[q].kind = "finalize" => Ready(job[q].import)

AfterLoading ==
    {"submit", "submit_row", "approve", "auto_approve", "approve_enqueue", "fixdrive",
     "drop", "process_status", "finalize"}
AfterPublishing == {"finalize_done", "fixdrive_done"}
WithStatus == {"create_history", "resolve_status"}
Rejecting == {"reject", "reject_status"}
Stopped == {"idle", "answered"}

ActorsReady ==
    \A a \in Actors :
        act[a].pc \notin Stopped =>
            /\ act[a].pc \notin Rejecting
            /\ act[a].pc \in AfterLoading => Ready(act[a].import)
            /\ act[a].pc \in AfterPublishing => Shown(act[a].import)
            /\ act[a].pc \in WithStatus => Suits(act[a].import, act[a].seen)

Undisturbed == \A a \in Actors : ~ act[a].disturbed

DoneInv == RowsReady /\ JobsReady /\ ActorsReady

\* The same of the next state, of an import that is named in this one.
ReadyNext(i) == row'[i].life = "destroyed" \/ logs'[i] \/ Bare(i)
ShownNext(i) ==
    \/ row'[i].life = "destroyed"
    \/ measurements'[i].keyed \/ measurements'[i].copies > 0
    \/ Bare(i)
SuitsNext(i, status) ==
    /\ status \in AfterProcess => ReadyNext(i)
    /\ status = "done" => ShownNext(i)

\* Neither is taken back.
Lasting ==
    \A i \in Imports :
        (Ready(i) => ReadyNext(i)) /\ (Shown(i) => ShownNext(i))

LEMMA SuitsLasts ==
    ASSUME Lasting, NEW i \in Imports, NEW status, Suits(i, status)
    PROVE  SuitsNext(i, status)
BY DEF Lasting, Suits, SuitsNext

\* An import whose logs or measurements grow, in a step that keeps rows sound.
LEMMA GrowthLasts ==
    ASSUME RowsSound, \A i \in Imports : logs[i] => logs'[i],
           \A i \in Imports :
               /\ measurements[i].keyed => measurements'[i].keyed
               /\ measurements[i].copies > 0 => measurements'[i].copies > 0
    PROVE  Lasting
BY DEF RowsSound, Lasting, Ready, Shown, ReadyNext, ShownNext, IsPublished

LEMMA LogsLast ==
    ASSUME Moderated, [Next]_vars, RowsSound
    PROVE  Lasting
<1>t. /\ row \in [Imports -> Row] /\ logs \in [Imports -> BOOLEAN]
      /\ measurements \in [Imports -> Published]
  BY DEF Moderated, TypeOK
<1>b. ASSUME NEW a \in Actors, act[a].pc \notin {"idle", "answered"}
      PROVE  act[a].import \in Imports
  BY <1>b DEF Moderated, ActorInv
<1>1. CASE UNCHANGED <<logs, measurements>>
  BY <1>1, GrowthLasts
<1>2. ASSUME NEW q \in Requests, fixdrive(q, act[q].import)
      PROVE  Lasting
  <2> DEFINE i == act[q].import
  <2>1. i \in Imports
    BY <1>2, <1>b DEF fixdrive, At, Actors
  <2>2. /\ UNCHANGED logs
        /\ measurements' = [measurements EXCEPT ![i].copies =
               IF logs[i] THEN measurements[i].copies + 1 ELSE measurements[i].copies]
    BY <1>2 DEF fixdrive
  <2> QED BY <1>t, <2>1, <2>2, GrowthLasts DEF Published
<1>3. ASSUME NEW q \in Requests, destroy_row(q, act[q].import)
      PROVE  Lasting
  <2> DEFINE i == act[q].import
             r == [row[i] EXCEPT !.life = "destroyed"]
  <2>1. i \in Imports /\ row[i].life # "new" /\ row[i] \in Row
    BY <1>3, <1>b, <1>t DEF destroy_row, At, Actors, Moderated, ActorInv
  <2>2. r.life = "destroyed"
    BY <2>1 DEF Row
  <2>3. row' = [row EXCEPT ![i] = IF Stored(i) THEN r ELSE row[i]]
    BY <1>3 DEF destroy_row, Write
  <2>4. row[i].life \in {"stored", "destroyed"}
    BY <2>1 DEF Row
  <2> HIDE DEF r
  <2>5. row'[i].life = "destroyed"
    BY <1>t, <2>1, <2>2, <2>3, <2>4 DEF Stored
  <2>6. UNCHANGED measurements /\ logs' = [logs EXCEPT ![i] = FALSE]
    BY <1>3 DEF destroy_row
  <2> QED BY <1>t, <2>1, <2>5, <2>6
          DEF RowsSound, Lasting, Ready, Shown, ReadyNext, ShownNext, IsPublished
<1>4. ASSUME NEW a \in Actors, load(a, act[a].import)
      PROVE  Lasting
  <2> DEFINE i == act[a].import
  <2>1. i \in Imports
    BY <1>4, <1>b DEF load, At
  <2>2. \A k \in Imports : logs[k] => logs'[k]
    <3>1. CASE Load(i)
      BY <3>1, <1>t, <2>1, Zenon DEF Load
    <3>2. CASE LoadDisturbed(i)
      BY <3>2 DEF LoadDisturbed
    <3> QED BY <1>4, <3>1, <3>2 DEF load
  <2> QED BY <1>4, <2>2, GrowthLasts DEF load
<1>5. ASSUME NEW a \in Actors, finalize(a, act[a].import)
      PROVE  Lasting
  <2> DEFINE i == act[a].import
             keyed == measurements[i].keyed \/ logs[i]
  <2>1. i \in Imports
    BY <1>5, <1>b DEF finalize, At
  <2>2. UNCHANGED logs
    BY <1>5 DEF finalize
  <2>3. CASE measurements' = [measurements EXCEPT ![i].keyed = keyed]
    <3>1. measurements[i].keyed => keyed
      OBVIOUS
    <3> HIDE DEF keyed
    <3> QED BY <1>t, <2>1, <2>2, <2>3, <3>1, GrowthLasts DEF Published
  <2> QED BY <1>5, <1>1, <2>2, <2>3 DEF finalize
<1> QED
  BY <1>1, <1>2, <1>3, <1>4, <1>5
     DEF Next, vars, Open, RequestStep, WorkerStep, NotFound, TakeJob, Crash, RequestStatement,
         SharedStatement, create, create_enqueue, update, update_would_approve, submit,
         submit_row, approve, approve_enqueue, reject, reject_status, send_email,
         create_history, set_awaiting, resolve, resolve_status, destroy, process,
         drop_tmp_table, process_status, process_rules, finalize_done, Actors

-----------------------------------------------------------------------------
(* How the statements keep the parts of the invariant *)

LEMMA RowsStay ==
    ASSUME Lasting, RowsReady, UNCHANGED <<row, logs>>
    PROVE  RowsReady'
BY DEF Lasting, RowsReady, Suits, Ready, Shown, ReadyNext, ShownNext, IsPublished

LEMMA RowUpdated ==
    ASSUME Moderated, Lasting, RowsReady, NEW i \in Imports, NEW r \in Row, Write(i, r),
           \A k \in Imports : logs'[k] => ~ Bare(k),
           SuitsNext(i, r.status), SuitsNext(i, r.last_contact),
           r.would_auto_approve \/ r.approved => ReadyNext(i)
    PROVE  RowsReady'
<1> DEFINE v == IF Stored(i) THEN r ELSE row[i]
<1>0. row' = [row EXCEPT ![i] = v] /\ v \in {r, row[i]} /\ row \in [Imports -> Row]
  BY DEF Write, Moderated, TypeOK
<1> HIDE DEF v
<1>1. \A k \in Imports : row'[k] = row[k] \/ (k = i /\ row'[k] = r)
  BY <1>0
<1>2. \A k \in Imports : /\ SuitsNext(k, row'[k].status) /\ SuitsNext(k, row'[k].last_contact)
                         /\ row'[k].would_auto_approve \/ row'[k].approved => ReadyNext(k)
  BY <1>1, SuitsLasts DEF RowsReady, Lasting
<1> QED BY <1>2 DEF RowsReady, Suits, SuitsNext, Ready, Shown, ReadyNext, ShownNext, IsPublished

LEMMA JobsStay ==
    ASSUME Moderated, Lasting, JobsReady,
           \A q \in Requests : \/ job'[q] = job[q]
                               \/ /\ job[q].state # "none"
                                  /\ job'[q].kind = job[q].kind
                                  /\ job'[q].import = job[q].import
                               \/ /\ job'[q].kind = "finalize" =>
                                        job'[q].import \in Imports /\ ReadyNext(job'[q].import)
    PROVE  JobsReady'
<1> SUFFICES ASSUME NEW q \in Requests, job'[q].state # "none", job'[q].kind = "finalize"
             PROVE  ReadyNext(job'[q].import)
  BY DEF JobsReady, Ready, ReadyNext
<1> QED BY DEF Moderated, JobInv, JobsReady, Lasting

\* An actor goes on with r.
LEMMA ActorsStay ==
    ASSUME Moderated, Lasting, ActorsReady, NEW a \in Actors, NEW r,
           act' = [act EXCEPT ![a] = r],
           r.pc \notin Stopped =>
               /\ r.pc \notin Rejecting
               /\ r.pc \in AfterLoading => ReadyNext(r.import)
               /\ r.pc \in AfterPublishing => ShownNext(r.import)
               /\ r.pc \in WithStatus => SuitsNext(r.import, r.seen)
    PROVE  ActorsReady'
<1> SUFFICES ASSUME NEW b \in Actors, act'[b].pc \notin Stopped
             PROVE  /\ act'[b].pc \notin Rejecting
                    /\ act'[b].pc \in AfterLoading => ReadyNext(act'[b].import)
                    /\ act'[b].pc \in AfterPublishing => ShownNext(act'[b].import)
                    /\ act'[b].pc \in WithStatus => SuitsNext(act'[b].import, act'[b].seen)
  BY DEF ActorsReady, Suits, SuitsNext, Ready, Shown, ReadyNext, ShownNext, IsPublished
<1>1. CASE b = a /\ act'[b] = r
  BY <1>1
<1>2. CASE act'[b] = act[b]
  <2>1. act[b].import \in Imports
    BY <1>2 DEF Moderated, ActorInv, Stopped
  <2> QED BY <1>2, <2>1, SuitsLasts DEF ActorsReady, Lasting
<1> QED BY <1>1, <1>2 DEF Moderated, TypeOK

LEMMA ActorsRest ==
    ASSUME Moderated, Lasting, ActorsReady, UNCHANGED act
    PROVE  ActorsReady'
<1> SUFFICES ASSUME NEW b \in Actors, act[b].pc \notin Stopped
             PROVE  /\ act[b].pc \notin Rejecting
                    /\ act[b].pc \in AfterLoading => ReadyNext(act[b].import)
                    /\ act[b].pc \in AfterPublishing => ShownNext(act[b].import)
                    /\ act[b].pc \in WithStatus => SuitsNext(act[b].import, act[b].seen)
  BY DEF ActorsReady, Suits, SuitsNext, Ready, Shown, ReadyNext, ShownNext, IsPublished
<1>1. act[b].import \in Imports
  BY DEF Moderated, ActorInv, Stopped
<1> QED BY <1>1, SuitsLasts DEF ActorsReady, Lasting

LEMMA ActorsEnd ==
    ASSUME Moderated, Lasting, ActorsReady, NEW a \in Actors, NEW j, End(a, j) \/ Answer(a)
    PROVE  ActorsReady'
<1> DEFINE answered == [Idle EXCEPT !.pc = "answered"]
<1>1. Idle.pc \in Stopped /\ answered.pc \in Stopped
  BY DEF Idle, Stopped
<1>2. act' = [act EXCEPT ![a] = Idle] \/ act' = [act EXCEPT ![a] = answered]
  BY DEF End, Answer
<1> HIDE DEF answered
<1> QED BY <1>1, <1>2, ActorsStay

LEMMA ActorsGo ==
    ASSUME Moderated, Lasting, ActorsReady, NEW a \in Actors, act[a].pc \notin Stopped,
           NEW p, Goto(a, p),
           p \notin Rejecting \cup WithStatus,
           p \in AfterLoading => ReadyNext(act[a].import),
           p \in AfterPublishing => ShownNext(act[a].import)
    PROVE  ActorsReady'
<1> DEFINE r == [act[a] EXCEPT !.pc = p]
<1>1. r.pc = p /\ r.import = act[a].import /\ r.seen = act[a].seen
  BY DEF Moderated, TypeOK, Act
<1>2. act' = [act EXCEPT ![a] = r]
  BY DEF Goto
<1> HIDE DEF r
<1> QED BY <1>1, <1>2, ActorsStay

\* A run of process begins.
LEMMA ActorsBegin ==
    ASSUME Moderated, Lasting, ActorsReady, NEW a \in Actors,
           act[a].pc \in {"process", "process_button"},
           act' = [b \in Actors |->
                     IF b = a
                     THEN [act[a] EXCEPT !.pc = "load", !.disturbed = Loading # {}]
                     ELSE [act[b] EXCEPT !.disturbed = @ \/ b \in Loading]]
    PROVE  ActorsReady'
<1>t. act \in [Actors -> Act]
  BY DEF Moderated, TypeOK
<1> SUFFICES ASSUME NEW b \in Actors, act'[b].pc \notin Stopped
             PROVE  /\ act'[b].pc \notin Rejecting
                    /\ act'[b].pc \in AfterLoading => ReadyNext(act'[b].import)
                    /\ act'[b].pc \in AfterPublishing => ShownNext(act'[b].import)
                    /\ act'[b].pc \in WithStatus => SuitsNext(act'[b].import, act'[b].seen)
  BY DEF ActorsReady, Suits, SuitsNext, Ready, Shown, ReadyNext, ShownNext, IsPublished
<1> DEFINE busy == Loading # {}
           late == act[b].disturbed \/ b \in Loading
<1>1. act'[b] = IF b = a THEN [act[a] EXCEPT !.pc = "load", !.disturbed = busy]
                         ELSE [act[b] EXCEPT !.disturbed = late]
  OBVIOUS
<1> HIDE DEF busy, late
<1>2. CASE b = a
  <2>1. act'[b].pc = "load"
    BY <1>t, <1>1, <1>2 DEF Act
  <2> QED BY <2>1 DEF Rejecting, AfterLoading, AfterPublishing, WithStatus
<1>3. CASE b # a
  <2>1. act'[b].pc = act[b].pc /\ act'[b].import = act[b].import /\ act'[b].seen = act[b].seen
    BY <1>t, <1>1, <1>3 DEF Act
  <2>2. act[b].import \in Imports
    BY <2>1 DEF Moderated, ActorInv, Stopped
  <2> QED BY <2>1, <2>2, SuitsLasts DEF ActorsReady, Lasting
<1> QED BY <1>2, <1>3

LEMMA JobsEnd ==
    ASSUME Moderated, Lasting, JobsReady, NEW a \in Actors, act[a].pc \notin Stopped,
           NEW j, End(a, j),
           a \in Workers => j \in { Succeed(job[act[a].job]), Requeue(job[act[a].job]),
                                    Reschedule(job[act[a].job]) }
    PROVE  JobsReady'
<1>1. CASE /\ a \in Workers
           /\ job' = [job EXCEPT ![act[a].job] = j]
  <2> DEFINE q == act[a].job
  <2>1. q \in Requests /\ job[q] \in Job /\ job[q].state # "none"
    BY <1>1, BusyActor DEF Moderated, ActorInv, Stopped
  <2>2. j.import = job[q].import /\ j.kind = job[q].kind
    BY <1>1, <2>1, Outcome
  <2> QED BY <1>1, <2>1, <2>2, JobsStay DEF Moderated, TypeOK
<1>2. CASE UNCHANGED job
  BY <1>2, JobsStay
<1> QED BY <1>1, <1>2 DEF End

-----------------------------------------------------------------------------
(* Every step keeps the invariant *)

LEMMA RequestKeepsDone ==
    ASSUME Moderated, Lasting, DoneInv, NEW q \in Requests, RequestStatement(q, act[q].import)
    PROVE  DoneInv'
<1> DEFINE i == act[q].import
<1>d. RowsReady /\ JobsReady /\ ActorsReady
  BY DEF DoneInv
<1>b. /\ q \in Actors /\ q \notin Workers /\ act[q].pc \notin Stopped
      /\ i \in Imports /\ row[i] \in Row
      /\ act[q].pc \notin Rejecting
  <2>1. q \in Actors /\ q \notin Workers
    BY ActorsAssumption DEF Actors
  <2>2. act[q].pc \notin Stopped
    BY DEF RequestStatement, create, create_enqueue, update, update_would_approve, submit,
       submit_row, approve, approve_enqueue, reject, reject_status, send_email, create_history,
       set_awaiting, resolve, resolve_status, fixdrive, destroy, destroy_row, At, Stopped
  <2> QED BY <1>d, <2>1, <2>2, BusyActor DEF Stopped, ActorsReady
<1>i. i \in Imports
  BY <1>b
<1>a. /\ act[q].pc \in AfterLoading => Ready(i) /\ ReadyNext(i)
      /\ act[q].pc \in WithStatus => SuitsNext(i, act[q].seen)
  BY <1>b, <1>d, SuitsLasts DEF ActorsReady, Lasting
<1>f. /\ SuitsNext(i, row[i].status) /\ SuitsNext(i, row[i].last_contact)
      /\ row[i].would_auto_approve \/ row[i].approved => ReadyNext(i)
      /\ logs[i] => ReadyNext(i)
      /\ \A k \in Imports : logs[k] => ~ Bare(k)
  BY <1>b, <1>d, SuitsLasts DEF RowsReady, Lasting, Ready
\* The row is written, and the request answered or continued.
<1>w. ASSUME NEW r \in Row, Write(i, r), UNCHANGED <<logs, job>>,
             SuitsNext(i, r.status), SuitsNext(i, r.last_contact),
             r.would_auto_approve \/ r.approved => ReadyNext(i),
             \/ Answer(q)
             \/ Goto(q, "set_awaiting")
             \/ Goto(q, "approve_enqueue") /\ ReadyNext(i)
      PROVE  DoneInv'
  <2>1. RowsReady'
    BY <1>w, <1>d, <1>f, <1>i, RowUpdated
  <2>2. JobsReady'
    BY <1>w, <1>d, JobsStay
  <2>3. ActorsReady'
    BY <1>w, <1>b, <1>d, ActorsEnd, ActorsGo
       DEF Rejecting, WithStatus, AfterLoading, AfterPublishing
  <2> QED BY <2>1, <2>2, <2>3 DEF DoneInv
\* Nothing is written but by the actor.
<1>n. ASSUME UNCHANGED <<row, logs, job>>, ActorsReady'
      PROVE  DoneInv'
  BY <1>n, <1>d, RowsStay, JobsStay DEF DoneInv
<1>1. CASE create(q, i)
  <2>1. ActorsReady' /\ JobsReady'
    BY <1>1, <1>b, <1>d, ActorsEnd, ActorsGo, JobsStay
       DEF create, Rejecting, WithStatus, AfterLoading, AfterPublishing
  <2>2. CASE UNCHANGED row
    BY <1>1, <1>n, <2>1, <2>2 DEF create
  <2>3. CASE row' = [row EXCEPT ![i] = NewRow]
    <3>1. /\ NewRow.status \notin AfterProcess /\ NewRow.last_contact \notin AfterProcess
          /\ ~NewRow.would_auto_approve /\ ~NewRow.approved
          /\ NewRow.last_contact # "done" /\ NewRow.status # "done"
      BY NoStatusAssumption DEF NewRow, AfterProcess, Statuses
    <3>2. \A k \in Imports : row'[k] = row[k] \/ row'[k] = NewRow
      BY <2>3 DEF Moderated, TypeOK
    <3>3. \A k \in Imports :
              /\ SuitsNext(k, row'[k].status) /\ SuitsNext(k, row'[k].last_contact)
              /\ row'[k].would_auto_approve \/ row'[k].approved => ReadyNext(k)
              /\ logs'[k] => ~ Bare(k)
      <4> SUFFICES ASSUME NEW k \in Imports
                   PROVE  /\ SuitsNext(k, row'[k].status) /\ SuitsNext(k, row'[k].last_contact)
                          /\ row'[k].would_auto_approve \/ row'[k].approved => ReadyNext(k)
                          /\ logs'[k] => ~ Bare(k)
        OBVIOUS
      <4>0. logs' = logs
        BY <1>1 DEF create
      <4>1. CASE row'[k] = row[k]
        BY <4>0, <4>1, <1>d, SuitsLasts DEF RowsReady, Lasting
      <4>2. CASE row'[k] = NewRow
        BY <4>0, <4>2, <1>f, <3>1 DEF SuitsNext
      <4> QED BY <3>2, <4>1, <4>2
    <3>4. RowsReady'
      BY <3>3 DEF RowsReady, Suits, SuitsNext, Ready, Shown, ReadyNext, ShownNext, IsPublished
    <3> QED BY <2>1, <3>4 DEF DoneInv
  <2> QED BY <1>1, <2>2, <2>3 DEF create
<1>2. CASE create_enqueue(q, i)
  <2> DEFINE j == [state |-> "queued", kind |-> "process", import |-> i, attempts |-> 0]
  <2>1. job' = [job EXCEPT ![q] = j] /\ j.kind = "process"
    BY <1>2 DEF create_enqueue, Enqueue
  <2> HIDE DEF j
  <2>2. JobsReady'
    BY <1>d, <2>1, JobsStay DEF Moderated, TypeOK
  <2>3. RowsReady' /\ ActorsReady'
    BY <1>2, <1>b, <1>d, RowsStay, ActorsEnd DEF create_enqueue
  <2> QED BY <2>2, <2>3 DEF DoneInv
<1>30. CASE update(q, i)
  <2>1. ActorsReady'
    BY <1>30, <1>b, <1>d, ActorsGo
       DEF update, Rejecting, WithStatus, AfterLoading, AfterPublishing
  <2> QED BY <1>30, <1>n, <2>1 DEF update
<1>3. CASE update_would_approve(q, i)
  <2>1. PICK would \in BOOLEAN :
            /\ would => logs[i]
            /\ Write(i, [row[i] EXCEPT !.would_auto_approve = would])
    BY <1>3 DEF update_would_approve
  <2> DEFINE r == [row[i] EXCEPT !.would_auto_approve = would]
  <2>2. /\ r \in Row /\ r.status = row[i].status /\ r.last_contact = row[i].last_contact
        /\ r.approved = row[i].approved /\ r.would_auto_approve = would
    BY <1>b DEF Row
  <2> HIDE DEF r
  <2>3. Write(i, r) /\ (r.would_auto_approve \/ r.approved => ReadyNext(i))
    BY <1>f, <2>1, <2>2 DEF r
  <2> QED BY <1>3, <1>f, <1>w, <2>2, <2>3 DEF update_would_approve
<1>4. CASE submit(q, i)
  <2>1. Ready(i) /\ ReadyNext(i)
    BY <1>4, <1>a DEF submit, At, AfterLoading
  <2>2. ActorsReady'
    BY <1>4, <1>b, <1>d, <2>1, ActorsGo
       DEF submit, Rejecting, WithStatus, AfterPublishing
  <2> QED BY <1>4, <1>n, <2>2 DEF submit
<1>5. CASE submit_row(q, i)
  <2> DEFINE r == [row[i] EXCEPT !.status = "submitted", !.rejected = FALSE]
  <2>1. /\ r \in Row /\ r.status = "submitted" /\ r.last_contact = row[i].last_contact
        /\ r.approved = row[i].approved /\ r.would_auto_approve = row[i].would_auto_approve
    BY <1>b DEF Row, Statuses
  <2>2. ReadyNext(i)
    BY <1>5, <1>a DEF submit_row, At, AfterLoading
  <2>3. Write(i, r)
    BY <1>5 DEF submit_row
  <2>4. SuitsNext(i, "submitted")
    BY <2>2 DEF SuitsNext
  <2> HIDE DEF r
  <2> QED BY <1>5, <1>f, <1>w, <2>1, <2>2, <2>3, <2>4 DEF submit_row
<1>6. CASE approve(q, i)
  <2> DEFINE r == [row[i] EXCEPT !.approved = TRUE]
  <2>1. /\ r \in Row /\ r.status = row[i].status /\ r.last_contact = row[i].last_contact
    BY <1>b DEF Row
  <2>2. ReadyNext(i)
    BY <1>6, <1>a DEF approve, At, AfterLoading
  <2>3. Write(i, r)
    BY <1>6 DEF approve
  <2> HIDE DEF r
  <2> QED BY <1>6, <1>f, <1>w, <2>1, <2>2, <2>3 DEF approve
<1>7. CASE approve_enqueue(q, i)
  <2> DEFINE j == [state |-> "queued", kind |-> "finalize", import |-> i, attempts |-> 0]
  <2>1. job' = [job EXCEPT ![q] = j] /\ j.import = i
    BY <1>7 DEF approve_enqueue, Enqueue
  <2>2. ReadyNext(i)
    BY <1>7, <1>a DEF approve_enqueue, At, AfterLoading
  <2> HIDE DEF j
  <2>3. JobsReady'
    BY <1>d, <1>i, <2>1, <2>2, JobsStay DEF Moderated, TypeOK
  <2>4. RowsReady' /\ ActorsReady'
    BY <1>7, <1>b, <1>d, RowsStay, ActorsEnd DEF approve_enqueue
  <2> QED BY <2>3, <2>4 DEF DoneInv
<1>8. CASE reject(q, i) \/ reject_status(q, i)
  BY <1>8, <1>b DEF reject, reject_status, At, Rejecting
<1>9. CASE send_email(q, i)
  <2> DEFINE r == [act[q] EXCEPT !.pc = "create_history", !.seen = row[i].status]
  <2>1. r.pc = "create_history" /\ r.import = i /\ r.seen = row[i].status
    BY <1>b DEF Moderated, TypeOK, Act
  <2>2. act' = [act EXCEPT ![q] = r]
    BY <1>9 DEF send_email
  <2> HIDE DEF r
  <2>3. ActorsReady'
    BY <1>b, <1>d, <1>f, <2>1, <2>2, ActorsStay DEF Rejecting, AfterLoading, AfterPublishing
  <2> QED BY <1>9, <1>n, <2>3 DEF send_email
<1>10. CASE create_history(q, i)
  <2> DEFINE r == [row[i] EXCEPT !.last_contact = act[q].seen]
  <2>1. /\ r \in Row /\ r.status = row[i].status /\ r.last_contact = act[q].seen
        /\ r.approved = row[i].approved /\ r.would_auto_approve = row[i].would_auto_approve
    BY <1>b DEF Row, Moderated, TypeOK, Act
  <2>2. SuitsNext(i, act[q].seen)
    BY <1>10, <1>a DEF create_history, At, WithStatus
  <2>3. Write(i, r)
    BY <1>10 DEF create_history
  <2> HIDE DEF r
  <2> QED BY <1>10, <1>f, <1>w, <2>1, <2>2, <2>3 DEF create_history
<1>11. CASE set_awaiting(q, i)
  <2> DEFINE r == [row[i] EXCEPT !.status = "awaiting_response"]
  <2>1. /\ r \in Row /\ r.status = "awaiting_response" /\ r.last_contact = row[i].last_contact
        /\ r.approved = row[i].approved /\ r.would_auto_approve = row[i].would_auto_approve
    BY <1>b DEF Row, Statuses
  <2>2. SuitsNext(i, "awaiting_response")
    BY DEF SuitsNext, AfterProcess
  <2>3. Write(i, r)
    BY <1>11 DEF set_awaiting
  <2> HIDE DEF r
  <2> QED BY <1>11, <1>f, <1>w, <2>1, <2>2, <2>3 DEF set_awaiting
<1>12. CASE resolve(q, i)
  <2>1. CASE Answer(q)
    <3>1. ActorsReady'
      BY <1>b, <1>d, <2>1, ActorsEnd
    <3> QED BY <1>12, <1>n, <3>1 DEF resolve
  <2>2. CASE act' = [act EXCEPT ![q].pc = "resolve_status", ![q].seen = row[i].last_contact]
    <3> DEFINE r == [act[q] EXCEPT !.pc = "resolve_status", !.seen = row[i].last_contact]
    <3>1. r.pc = "resolve_status" /\ r.import = i /\ r.seen = row[i].last_contact
      BY <1>b DEF Moderated, TypeOK, Act
    <3>2. act' = [act EXCEPT ![q] = r]
      BY <2>2
    <3> HIDE DEF r
    <3>3. ActorsReady'
      BY <1>b, <1>d, <1>f, <3>1, <3>2, ActorsStay DEF Rejecting, AfterLoading, AfterPublishing
    <3> QED BY <1>12, <1>n, <3>3 DEF resolve
  <2> QED BY <1>12, <2>1, <2>2 DEF resolve
<1>13. CASE resolve_status(q, i)
  <2> DEFINE r == [row[i] EXCEPT !.status = act[q].seen]
  <2>1. /\ r \in Row /\ r.status = act[q].seen /\ r.last_contact = row[i].last_contact
        /\ r.approved = row[i].approved /\ r.would_auto_approve = row[i].would_auto_approve
    BY <1>13, <1>b DEF Row, resolve_status, At, Moderated, ActorInv, Stopped
  <2>2. SuitsNext(i, act[q].seen)
    BY <1>13, <1>a DEF resolve_status, At, WithStatus
  <2>3. Write(i, r)
    BY <1>13 DEF resolve_status
  <2> HIDE DEF r
  <2> QED BY <1>13, <1>f, <1>w, <2>1, <2>2, <2>3 DEF resolve_status
<1>14. CASE fixdrive(q, i)
  <2>1. Ready(i) /\ ReadyNext(i)
    BY <1>14, <1>a DEF fixdrive, At, AfterLoading
  <2>2. logs[i] => measurements'[i].copies > 0
    BY <1>14, <1>i DEF fixdrive, Moderated, TypeOK, Published
  <2>3. Shown(i) \/ logs[i]
    BY <2>1 DEF Ready, Shown
  <2>4. ShownNext(i)
    BY <1>i, <2>2, <2>3 DEF Lasting, ShownNext
  <2>5. Goto(q, "fixdrive_done") /\ UNCHANGED <<row, logs, job>>
    BY <1>14 DEF fixdrive
  <2>6. ActorsReady'
    BY <1>b, <1>d, <2>4, <2>5, ActorsGo DEF Rejecting, WithStatus, AfterLoading
  <2> QED BY <1>n, <2>5, <2>6
<1>15. CASE destroy(q, i)
  <2>1. ActorsReady'
    BY <1>15, <1>b, <1>d, ActorsEnd, ActorsGo
       DEF destroy, Rejecting, WithStatus, AfterLoading, AfterPublishing
  <2> QED BY <1>15, <1>n, <2>1 DEF destroy
<1>16. CASE destroy_row(q, i)
  <2> DEFINE r == [row[i] EXCEPT !.life = "destroyed"]
  <2>1. /\ r \in Row /\ r.status = row[i].status /\ r.last_contact = row[i].last_contact
        /\ r.approved = row[i].approved /\ r.would_auto_approve = row[i].would_auto_approve
    BY <1>b DEF Row
  <2>2. Write(i, r) /\ logs' = [logs EXCEPT ![i] = FALSE] /\ UNCHANGED job /\ Answer(q)
    BY <1>16 DEF destroy_row
  <2>3. \A k \in Imports : logs'[k] => ~ Bare(k)
    BY <1>f, <2>2 DEF Moderated, TypeOK
  <2> HIDE DEF r
  <2>4. RowsReady'
    BY <1>d, <1>f, <1>i, <2>1, <2>2, <2>3, RowUpdated
  <2>5. ActorsReady' /\ JobsReady'
    BY <1>b, <1>d, <2>2, ActorsEnd, JobsStay
  <2> QED BY <2>4, <2>5 DEF DoneInv
<1> QED
  BY <1>1, <1>2, <1>30, <1>3, <1>4, <1>5, <1>6, <1>7, <1>8, <1>9, <1>10, <1>11, <1>12, <1>13,
     <1>14, <1>15, <1>16 DEF RequestStatement

LEMMA SharedKeepsDone ==
    ASSUME Moderated, Lasting, DoneInv, Undisturbed,
           NEW a \in Actors, SharedStatement(a, act[a].import)
    PROVE  DoneInv'
<1> DEFINE i == act[a].import
<1>d. RowsReady /\ JobsReady /\ ActorsReady
  BY DEF DoneInv
<1>b. act[a].pc \notin Stopped /\ i \in Imports /\ row[i] \in Row
  <2>1. act[a].pc \notin Stopped
    BY DEF SharedStatement, process, load, drop_tmp_table, process_status, process_rules,
       finalize, finalize_done, At, Stopped
  <2> QED BY <2>1, BusyActor DEF Stopped
<1>i. i \in Imports
  BY <1>b
<1>f. /\ SuitsNext(i, row[i].status) /\ SuitsNext(i, row[i].last_contact)
      /\ row[i].would_auto_approve \/ row[i].approved => ReadyNext(i)
      /\ logs[i] => Ready(i) /\ ReadyNext(i)
      /\ \A k \in Imports : logs[k] => ~ Bare(k)
  BY <1>i, <1>d, SuitsLasts DEF RowsReady, Lasting, Ready
<1>6. CASE process(a, i)
  <2>1. ActorsReady'
    BY <1>6, <1>d, ActorsBegin DEF process, At
  <2> QED BY <1>6, <1>d, <2>1, RowsStay, JobsStay DEF process, DoneInv
<1>7. CASE drop_tmp_table(a, i)
  <2> DEFINE r == [act[a] EXCEPT !.pc = "process_status", !.disturbed = FALSE]
  <2>1. act' = [act EXCEPT ![a] = r] /\ UNCHANGED <<row, logs, job>>
    BY <1>7 DEF drop_tmp_table, Undisturbed
  <2>2. r.pc = "process_status" /\ r.import = i
    BY <1>b DEF Moderated, TypeOK, Act
  <2>3. ReadyNext(i)
    BY <1>7, <1>b, <1>d DEF drop_tmp_table, At, ActorsReady, AfterLoading, Lasting
  <2> HIDE DEF r
  <2>4. ActorsReady'
    BY <1>d, <2>1, <2>2, <2>3, ActorsStay DEF Rejecting, AfterPublishing, WithStatus
  <2> QED BY <1>d, <2>1, <2>4, RowsStay, JobsStay DEF DoneInv
<1>1. CASE load(a, i)
  <2> DEFINE bad == [row[i] EXCEPT !.rejected = TRUE, !.status = "processed"]
             r == IF i \in Unloadable THEN bad ELSE row[i]
             v == logs[i] \/ i \notin Unloadable \cup Empty
  <2>1. Write(i, r) /\ logs' = [logs EXCEPT ![i] = v]
    BY <1>1 DEF load, Load, Refused, Undisturbed
  <2>2. /\ bad \in Row /\ bad.status = "processed" /\ bad.last_contact = row[i].last_contact
        /\ bad.approved = row[i].approved
        /\ bad.would_auto_approve = row[i].would_auto_approve
    BY <1>b DEF Row, Statuses
  <2>3. \A k \in Imports : logs'[k] => ~ Bare(k)
    <3>1. v => ~ Bare(i)
      BY <1>f, <1>i DEF Bare
    <3> HIDE DEF v
    <3> QED BY <1>f, <2>1, <3>1 DEF Moderated, TypeOK
  <2>4. ReadyNext(i)
    <3>1. CASE ~ Bare(i)
      <4>1. v
        BY <3>1 DEF Bare
      <4> HIDE DEF v
      <4> QED BY <1>i, <2>1, <4>1 DEF ReadyNext, Moderated, TypeOK
    <3>2. CASE Bare(i)
      BY <3>2 DEF ReadyNext
    <3> QED BY <3>1, <3>2
  <2>5. /\ r \in Row /\ r.last_contact = row[i].last_contact
        /\ r.status = row[i].status \/ r.status = "processed"
    BY <1>b, <2>2
  <2>6. SuitsNext(i, r.status)
    BY <1>f, <2>4, <2>5 DEF SuitsNext
  <2> HIDE DEF r, bad, v
  <2>7. RowsReady'
    BY <1>d, <1>f, <1>i, <2>1, <2>3, <2>4, <2>5, <2>6, RowUpdated
  <2>8. ActorsReady'
    BY <1>1, <1>b, <1>d, <2>4, ActorsGo DEF load, Rejecting, WithStatus, AfterPublishing
  <2>9. JobsReady'
    BY <1>1, <1>d, JobsStay DEF load
  <2> QED BY <2>7, <2>8, <2>9 DEF DoneInv
<1>2. CASE process_status(a, i)
  <2> DEFINE r == [row[i] EXCEPT !.status = "processed"]
  <2>1. /\ r \in Row /\ r.status = "processed" /\ r.last_contact = row[i].last_contact
        /\ r.approved = row[i].approved /\ r.would_auto_approve = row[i].would_auto_approve
    BY <1>b DEF Row, Statuses
  <2>2. ReadyNext(i)
    BY <1>2, <1>b, <1>d DEF process_status, At, ActorsReady, AfterLoading, Lasting
  <2>3. Write(i, r) /\ UNCHANGED <<logs, job>>
    BY <1>2 DEF process_status
  <2>4. SuitsNext(i, "processed")
    BY <2>2 DEF SuitsNext
  <2> HIDE DEF r
  <2>5. RowsReady' /\ JobsReady'
    BY <1>d, <1>f, <1>i, <2>1, <2>2, <2>3, <2>4, RowUpdated, JobsStay
  <2>6. ActorsReady'
    BY <1>2, <1>b, <1>d, ActorsGo
       DEF process_status, Rejecting, WithStatus, AfterLoading, AfterPublishing
  <2> QED BY <2>5, <2>6 DEF DoneInv
<1>3. CASE process_rules(a, i)
  <2>1. PICK would \in BOOLEAN :
            /\ would => logs[i]
            /\ Write(i, [row[i] EXCEPT !.would_auto_approve = would])
    BY <1>3 DEF process_rules
  <2> DEFINE r == [row[i] EXCEPT !.would_auto_approve = would]
  <2>2. /\ r \in Row /\ r.status = row[i].status /\ r.last_contact = row[i].last_contact
        /\ r.approved = row[i].approved /\ r.would_auto_approve = would
    BY <1>b DEF Row
  <2>3. Write(i, r)
    BY <2>1
  <2> HIDE DEF r
  <2>4. r.would_auto_approve \/ r.approved => ReadyNext(i)
    BY <1>f, <2>1, <2>2
  <2>5. UNCHANGED logs
    BY <1>3 DEF process_rules
  <2>6. RowsReady'
    BY <1>d, <1>f, <1>i, <2>2, <2>3, <2>4, <2>5, RowUpdated
  <2>7. ActorsReady' /\ JobsReady'
    BY <1>3, <1>b, <1>d, ActorsEnd, JobsEnd DEF process_rules
  <2> QED BY <2>6, <2>7 DEF DoneInv
<1>4. CASE finalize(a, i)
  <2>1. Ready(i)
    BY <1>4, <1>b, <1>d DEF finalize, At, ActorsReady, AfterLoading
  <2>2. RowsReady'
    BY <1>4, <1>d, RowsStay DEF finalize
  <2>3. CASE /\ measurements' = [measurements EXCEPT ![i].keyed = @ \/ logs[i]]
             /\ Goto(a, "finalize_done")
             /\ UNCHANGED job
    <3> DEFINE keyed == measurements[i].keyed \/ logs[i]
    <3>1. measurements' = [measurements EXCEPT ![i].keyed = keyed]
      BY <2>3
    <3>2. logs[i] => keyed
      OBVIOUS
    <3> HIDE DEF keyed
    <3>3. logs[i] => measurements'[i].keyed
      BY <1>i, <3>1, <3>2 DEF Moderated, TypeOK, Published
    <3>4. Shown(i) \/ logs[i]
      BY <2>1 DEF Ready, Shown
    <3>5. ShownNext(i)
      BY <1>i, <3>3, <3>4 DEF Lasting, ShownNext
    <3>6. ActorsReady'
      BY <1>b, <1>d, <2>3, <3>5, ActorsGo DEF Rejecting, WithStatus, AfterLoading
    <3>7. JobsReady'
      BY <1>d, <2>3, JobsStay
    <3> QED BY <2>2, <3>6, <3>7 DEF DoneInv
  <2>4. CASE End(a, Reschedule(job[act[a].job]))
    <3>1. ActorsReady' /\ JobsReady'
      BY <1>b, <1>d, <2>4, ActorsEnd, JobsEnd
    <3> QED BY <2>2, <3>1 DEF DoneInv
  <2> QED BY <1>4, <2>3, <2>4 DEF finalize
<1>5. CASE finalize_done(a, i)
  <2> DEFINE r == [row[i] EXCEPT !.status = "done"]
  <2>1. /\ r \in Row /\ r.status = "done" /\ r.last_contact = row[i].last_contact
        /\ r.approved = row[i].approved /\ r.would_auto_approve = row[i].would_auto_approve
    BY <1>b DEF Row, Statuses
  <2>2. Shown(i) /\ ShownNext(i)
    BY <1>5, <1>b, <1>d DEF finalize_done, At, ActorsReady, AfterPublishing, Lasting
  <2>3. Ready(i)
    <3>1. row[i].approved => Ready(i)
      BY <1>d, <1>i DEF RowsReady
    <3>2. IsPublished(i) => row[i].approved
      BY <1>i DEF Moderated, RowInv
    <3> QED BY <2>2, <3>1, <3>2 DEF Shown, Ready
  <2>4. SuitsNext(i, "done")
    BY <1>i, <2>2, <2>3 DEF SuitsNext, Lasting
  <2>5. Write(i, r) /\ UNCHANGED logs
    BY <1>5 DEF finalize_done
  <2> HIDE DEF r
  <2>6. RowsReady'
    BY <1>d, <1>f, <1>i, <2>1, <2>4, <2>5, RowUpdated
  <2>7. ActorsReady' /\ JobsReady'
    BY <1>5, <1>b, <1>d, ActorsEnd, JobsEnd DEF finalize_done
  <2> QED BY <2>6, <2>7 DEF DoneInv
<1> QED BY <1>1, <1>2, <1>3, <1>4, <1>5, <1>6, <1>7 DEF SharedStatement

LEMMA OpenKeepsDone ==
    ASSUME Moderated, Lasting, DoneInv, "reject" \notin Offers,
           NEW q \in Requests, NEW op \in Ops, NEW i \in Imports, Open(q, op, i)
    PROVE  DoneInv'
<1>d. RowsReady /\ JobsReady /\ ActorsReady
  BY DEF DoneInv
<1> DEFINE r == [act[q] EXCEPT !.pc = op, !.import = i]
<1>1. q \in Actors /\ r.pc = op /\ r.import = i
  BY DEF Actors, Moderated, TypeOK, Act
<1>2. act' = [act EXCEPT ![q] = r]
  BY DEF Open
<1>3. op \notin Rejecting \cup AfterPublishing \cup WithStatus
  BY DEF Open, Ops, Rejecting, AfterPublishing, WithStatus
<1>4. op \in AfterLoading => Ready(i)
  <2>1. op \in AfterLoading => op \in {"submit", "approve", "fixdrive"}
    BY DEF Ops, AfterLoading
  <2>2. op \in {"submit", "approve", "fixdrive"} =>
            row[i].status \in AfterProcess \/ row[i].approved
    BY DEF Open, Button, Is, AfterProcess
  <2> QED BY <1>d, <2>1, <2>2 DEF RowsReady, Suits
<1>5. op \in AfterLoading => ReadyNext(i)
  BY <1>4 DEF Lasting
<1> HIDE DEF r
<1>6. ActorsReady'
  BY <1>d, <1>1, <1>2, <1>3, <1>5, ActorsStay
<1> QED BY <1>d, <1>6, RowsStay, JobsStay DEF Open, DoneInv

LEMMA TakeJobKeepsDone ==
    ASSUME Moderated, Lasting, DoneInv, NEW w \in Workers, NEW q \in Requests, TakeJob(w, q)
    PROVE  DoneInv'
<1>d. RowsReady /\ JobsReady /\ ActorsReady
  BY DEF DoneInv
<1>j. job[q] \in Job /\ job[q].state = "queued" /\ job[q].import \in Imports /\ w \in Actors
  BY DEF TakeJob, Moderated, TypeOK, JobInv, Actors
<1>1. RowsReady'
  BY <1>d, RowsStay DEF TakeJob
<1>2. CASE Running(w, q, job[q].kind)
  <2> DEFINE k == [job[q] EXCEPT !.state = "running"]
             r == [Idle EXCEPT !.pc = job[q].kind, !.import = job[q].import, !.job = q]
  <2>1. k.import = job[q].import /\ k.kind = job[q].kind /\ job' = [job EXCEPT ![q] = k]
    BY <1>2, <1>j DEF Running, Job
  <2>2. r.pc = job[q].kind /\ r.import = job[q].import /\ act' = [act EXCEPT ![w] = r]
    BY <1>2 DEF Running, Idle
  <2> HIDE DEF k, r
  <2>3. JobsReady'
    BY <1>d, <1>j, <2>1, JobsStay DEF Moderated, TypeOK
  <2>4. r.pc \in {"process", "finalize"} /\ (r.pc = "finalize" => ReadyNext(r.import))
    BY <1>d, <1>j, <2>2 DEF JobsReady, Lasting, Job
  <2>5. ActorsReady'
    BY <1>d, <1>j, <2>2, <2>4, ActorsStay
       DEF Rejecting, AfterLoading, AfterPublishing, WithStatus
  <2> QED BY <1>1, <2>3, <2>5 DEF DoneInv
<1>3. CASE job' = [job EXCEPT ![q] = Reschedule(@)] /\ UNCHANGED act
  <2>1. job' = [job EXCEPT ![q] = Reschedule(job[q])]
    BY <1>3
  <2>2. Reschedule(job[q]).import = job[q].import /\ Reschedule(job[q]).kind = job[q].kind
    BY <1>j, Outcome
  <2>3. JobsReady'
    BY <1>d, <1>j, <2>1, <2>2, JobsStay DEF Moderated, TypeOK
  <2> QED BY <1>1, <1>3, <1>d, <2>3, ActorsRest DEF DoneInv
<1> QED BY <1>2, <1>3 DEF TakeJob

\* Runs of process that may not overlap are not disturbed.
LEMMA NoneDisturbed ==
    ASSUME MayOverlap = FALSE, Moderated, Undisturbed, [Next]_vars
    PROVE  Undisturbed'
<1>t. act \in [Actors -> Act]
  BY DEF Moderated, TypeOK
<1>a. ASSUME NEW a \in Actors, NEW r, ~ r.disturbed, act' = [act EXCEPT ![a] = r]
      PROVE  Undisturbed'
  BY <1>a, <1>t DEF Undisturbed
<1>s. ASSUME NEW a \in Actors, Answer(a) \/ \E j : End(a, j)
      PROVE  Undisturbed'
  <2> DEFINE answered == [Idle EXCEPT !.pc = "answered"]
  <2>1. ~ Idle.disturbed /\ ~ answered.disturbed
    BY DEF Idle
  <2>2. act' = [act EXCEPT ![a] = Idle] \/ act' = [act EXCEPT ![a] = answered]
    BY <1>s DEF End, Answer
  <2> HIDE DEF answered
  <2> QED BY <1>a, <2>1, <2>2
<1>g. ASSUME NEW a \in Actors, NEW p, Goto(a, p)
      PROVE  Undisturbed'
  <2> DEFINE r == [act[a] EXCEPT !.pc = p]
  <2>1. ~ r.disturbed
    BY <1>t DEF Act, Undisturbed
  <2>2. act' = [act EXCEPT ![a] = r]
    BY <1>g DEF Goto
  <2> HIDE DEF r
  <2> QED BY <1>a, <2>1, <2>2
<1>e. ASSUME NEW a \in Actors, NEW p, NEW s, act' = [act EXCEPT ![a].pc = p, ![a].seen = s]
      PROVE  Undisturbed'
  <2> DEFINE r == [act[a] EXCEPT !.pc = p, !.seen = s]
  <2>1. ~ r.disturbed
    BY <1>t DEF Act, Undisturbed
  <2>2. act' = [act EXCEPT ![a] = r]
    BY <1>e
  <2> HIDE DEF r
  <2> QED BY <1>a, <2>1, <2>2
<1>1. CASE UNCHANGED act
  BY <1>1 DEF Undisturbed
<1>2. ASSUME NEW q \in Requests, NEW op \in Ops, NEW i \in Imports, Open(q, op, i)
      PROVE  Undisturbed'
  <2> DEFINE r == [act[q] EXCEPT !.pc = op, !.import = i]
  <2>1. q \in Actors
    BY DEF Actors
  <2>2. ~ r.disturbed
    BY <1>t, <2>1 DEF Act, Undisturbed
  <2>3. act' = [act EXCEPT ![q] = r]
    BY <1>2 DEF Open
  <2> HIDE DEF r
  <2> QED BY <1>a, <2>1, <2>2, <2>3
<1>3. ASSUME NEW q \in Requests, RequestStatement(q, act[q].import) \/ NotFound(q)
      PROVE  Undisturbed'
  <2>1. q \in Actors
    BY DEF Actors
  <2>2. \/ Answer(q)
        \/ \E p : Goto(q, p)
        \/ \E p, s : act' = [act EXCEPT ![q].pc = p, ![q].seen = s]
    BY <1>3 DEF RequestStatement, NotFound, create, create_enqueue, update, update_would_approve,
       submit, submit_row, approve, approve_enqueue, reject, reject_status, send_email,
       create_history, set_awaiting, resolve, resolve_status, fixdrive, destroy, destroy_row
  <2> QED BY <1>s, <1>g, <1>e, <2>1, <2>2
<1>4. ASSUME NEW a \in Actors, process(a, act[a].import)
      PROVE  Undisturbed'
  <2>1. Loading = {}
    BY <1>4 DEF process
  <2>2. act' = [b \in Actors |->
                  IF b = a
                  THEN [act[a] EXCEPT !.pc = "load", !.disturbed = Loading # {}]
                  ELSE [act[b] EXCEPT !.disturbed = act[b].disturbed \/ b \in Loading]]
    BY <1>4 DEF process
  <2>3. ASSUME NEW b \in Actors
        PROVE  ~ act'[b].disturbed
    <3> DEFINE busy == Loading # {}
               late == act[b].disturbed \/ b \in Loading
    <3>1. ~ busy /\ ~ late
      BY <2>1 DEF Undisturbed
    <3>2. act'[b] = IF b = a THEN [act[a] EXCEPT !.pc = "load", !.disturbed = busy]
                             ELSE [act[b] EXCEPT !.disturbed = late]
      BY <2>2
    <3> HIDE DEF busy, late
    <3> QED BY <1>t, <3>1, <3>2 DEF Act
  <2> QED BY <2>3 DEF Undisturbed
<1>5. ASSUME NEW a \in Actors, drop_tmp_table(a, act[a].import)
      PROVE  Undisturbed'
  <2>1. CASE act' = [act EXCEPT ![a].pc = "process_status", ![a].disturbed = FALSE]
    <3> DEFINE r == [act[a] EXCEPT !.pc = "process_status", !.disturbed = FALSE]
    <3>1. ~ r.disturbed
      BY <1>t DEF Act
    <3>2. act' = [act EXCEPT ![a] = r]
      BY <2>1
    <3> HIDE DEF r
    <3> QED BY <1>a, <3>1, <3>2
  <2>2. CASE End(a, Reschedule(job[act[a].job]))
    BY <1>s, <2>2
  <2> QED BY <1>5, <2>1, <2>2 DEF drop_tmp_table
<1>6. ASSUME NEW a \in Actors, SharedStatement(a, act[a].import)
      PROVE  Undisturbed'
  <2>1. CASE load(a, act[a].import)
    BY <1>g, <2>1 DEF load
  <2>2. CASE process_status(a, act[a].import)
    BY <1>g, <2>2 DEF process_status
  <2>3. CASE process_rules(a, act[a].import)
    BY <1>s, <2>3 DEF process_rules
  <2>4. CASE finalize(a, act[a].import)
    BY <1>g, <1>s, <2>4 DEF finalize
  <2>5. CASE finalize_done(a, act[a].import)
    BY <1>s, <2>5 DEF finalize_done
  <2> QED BY <1>4, <1>5, <1>6, <2>1, <2>2, <2>3, <2>4, <2>5 DEF SharedStatement
<1>7. ASSUME NEW w \in Workers, NEW q \in Requests, TakeJob(w, q)
      PROVE  Undisturbed'
  <2> DEFINE r == [Idle EXCEPT !.pc = job[q].kind, !.import = job[q].import, !.job = q]
  <2>1. ~ r.disturbed /\ w \in Actors
    BY DEF Idle, Actors
  <2>2. act' = [act EXCEPT ![w] = r] \/ UNCHANGED act
    BY <1>7 DEF TakeJob, Running
  <2> HIDE DEF r
  <2> QED BY <1>1, <1>a, <2>1, <2>2
<1>8. ASSUME NEW a \in Actors, Crash(a)
      PROVE  Undisturbed'
  BY <1>8, <1>s DEF Crash
<1> QED
  BY <1>1, <1>2, <1>3, <1>6, <1>7, <1>8 DEF vars, Next, RequestStep, WorkerStep, Actors

LEMMA DoneStep ==
    ASSUME Undisturbed, "reject" \notin Offers, Moderated, DoneInv, [Next]_vars
    PROVE  DoneInv'
<1>l. Lasting
  BY StepSound, LogsLast
<1>d. RowsReady /\ JobsReady /\ ActorsReady
  BY DEF DoneInv
<1>1. CASE UNCHANGED vars
  BY <1>1, <1>d, <1>l, RowsStay, JobsStay, ActorsRest DEF vars, DoneInv
<1>2. ASSUME NEW q \in Requests, NotFound(q)
      PROVE  DoneInv'
  BY <1>2, <1>d, <1>l, RowsStay, JobsStay, ActorsEnd DEF NotFound, DoneInv, Actors
<1>3. ASSUME NEW a \in Actors, Crash(a)
      PROVE  DoneInv'
  <2>1. act[a].pc \notin Stopped
    BY <1>3 DEF Crash, At, Statements, Stopped
  <2> QED BY <1>3, <1>d, <1>l, <2>1, RowsStay, JobsEnd, ActorsEnd DEF Crash, DoneInv
<1> QED
  BY <1>1, <1>2, <1>3, <1>l, OpenKeepsDone, RequestKeepsDone, SharedKeepsDone, TakeJobKeepsDone
     DEF Next, RequestStep, WorkerStep, Actors

\* Requests that come from pages, however stale, and jobs that are killed,
\* retried and doubled show no import as done whose logs are not published, as
\* long as nobody rejects and no two runs of process overlap.
THEOREM DoneIsPublished ==
    ASSUME MayOverlap = FALSE, "reject" \notin Offers
    PROVE  Spec => []DoneMeansPublished
<1>1. Init => Moderated /\ Undisturbed /\ DoneInv
  <2> SUFFICES ASSUME Init
               PROVE  Undisturbed /\ DoneInv
    BY ModeratedInit
  <2> DEFINE r == [NewRow EXCEPT !.life = "new"]
  <2>1. /\ r.status \notin AfterProcess /\ r.last_contact \notin AfterProcess
        /\ r.status # "done" /\ r.last_contact # "done"
        /\ ~ r.would_auto_approve /\ ~ r.approved
    BY NoStatusAssumption DEF NewRow, AfterProcess, Statuses
  <2>2. row = [i \in Imports |-> r] /\ \A i \in Imports : ~ logs[i]
    BY DEF Init
  <2> HIDE DEF r
  <2>3. RowsReady
    BY <2>1, <2>2 DEF RowsReady, Suits
  <2>4. JobsReady /\ ActorsReady
    BY DEF Init, NoJob, Idle, JobsReady, ActorsReady, Stopped
  <2>5. Undisturbed
    BY DEF Init, Idle, Undisturbed
  <2> QED BY <2>3, <2>4, <2>5 DEF DoneInv
<1>2. /\ Moderated /\ Undisturbed /\ DoneInv /\ [Next]_vars
      => Moderated' /\ Undisturbed' /\ DoneInv'
  BY StepSound, NoneDisturbed, DoneStep
<1>3. Moderated /\ DoneInv => DoneMeansPublished
  BY DEF DoneInv, RowsReady, Suits, Shown, DoneMeansPublished, Stored
<1> QED BY <1>1, <1>2, <1>3, PTL DEF Spec
=============================================================================
