-------------------------- MODULE IosExportProofs --------------------------
(***************************************************************************)
(* Proofs about IosExport: its types, the mark that never falls, and the   *)
(* files that never lose a measurement.                                    *)
(***************************************************************************)
EXTENDS IosExport, TLAPS

(* Every action in one list, so that a proof has one step for each. *)
LEMMA Steps ==
    ASSUME Next
    PROVE  \/ \E w \in Writers : insert(w) \/ end_transaction(w)
           \/ \E m \in Ids : destroy(m)
           \/ \E q \in Requests :
                 \/ running_same_job(q) \/ start(q)
                 \/ query(q) \/ copy(q) \/ delete_marks(q) \/ insert_mark(q)
                 \/ test_csv(q) \/ build(q) \/ import(q) \/ clip(q) \/ clip_rest(q)
                 \/ move_32(q) \/ move_16(q)
                 \/ Crash(q)
  BY DEF Next, RequestStep, ScriptStep

\* The record of q after a step; nobody else's changes.
Becomes(q, pc, exported, expired) ==
    /\ run' \in [Requests -> Run]
    /\ run'[q].pc = pc /\ run'[q].exported = exported /\ run'[q].expired = expired
    /\ \A p \in Requests : p # q => run'[p] = run[p]

LEMMA NewRun ==
    ASSUME TypeOK, NEW q \in Requests, NEW r \in Run, run' = [run EXCEPT ![q] = r]
    PROVE  Becomes(q, r.pc, r.exported, r.expired)
  BY DEF TypeOK, Becomes

LEMMA GotoRun ==
    ASSUME TypeOK, NEW q \in Requests, NEW pc \in {"idle", "system"} \cup Script, Goto(q, pc)
    PROVE  Becomes(q, pc, run[q].exported, run[q].expired)
  BY DEF TypeOK, Goto, Run, Becomes

LEMMA ExitRun ==
    ASSUME TypeOK, NEW q \in Requests, Exit(q)
    PROVE  Becomes(q, "idle", {}, {})
  BY DEF TypeOK, Exit, Run, Idle, Becomes

LEMMA QueryRun ==
    ASSUME TypeOK, NEW q \in Requests, query(q)
    PROVE  Becomes(q, "copy", {m \in measurements \cap Clean : Newer(iOSLastExport)},
                   run[q].expired)
  <1> DEFINE rows == {m \in measurements \cap Clean : Newer(iOSLastExport)}
             r == [run[q] EXCEPT !.pc = "copy", !.exported = rows]
  <1>1. rows \in SUBSET Ids
    BY DEF TypeOK
  <1>2. run' = [run EXCEPT ![q] = r]
    BY DEF query
  <1> HIDE DEF rows
  <1>3. r \in Run /\ r.pc = "copy" /\ r.exported = rows /\ r.expired = run[q].expired
    BY <1>1 DEF TypeOK, Run, Script
  <1> HIDE DEF r
  <1>4. Becomes(q, "copy", rows, run[q].expired)
    BY <1>2, <1>3, NewRun
  <1> QED
    BY <1>4 DEF rows

LEMMA DeleteRun ==
    ASSUME TypeOK, NEW q \in Requests, delete_marks(q)
    PROVE  Becomes(q, "insert_mark", run[q].exported,
                   {k \in iOSLastExport : run[q].exported # {} /\ Newer({k})})
  <1> DEFINE rows == {k \in iOSLastExport : run[q].exported # {} /\ Newer({k})}
             r == [run[q] EXCEPT !.pc = "insert_mark", !.expired = rows]
  <1>1. rows \in SUBSET Ids
    BY DEF TypeOK
  <1>2. run' = [run EXCEPT ![q] = r]
    BY DEF delete_marks
  <1> HIDE DEF rows
  <1>3. r \in Run /\ r.pc = "insert_mark" /\ r.exported = run[q].exported /\ r.expired = rows
    BY <1>1 DEF TypeOK, Run, Script
  <1> HIDE DEF r
  <1>4. Becomes(q, "insert_mark", run[q].exported, rows)
    BY <1>2, <1>3, NewRun
  <1> QED
    BY <1>4 DEF rows

LEMMA InsertRun ==
    ASSUME TypeOK, NEW q \in Requests, insert_mark(q)
    PROVE  Becomes(q, "test_csv", run[q].exported, {})
  <1> DEFINE r == [run[q] EXCEPT !.pc = "test_csv", !.expired = {}]
  <1>1. run' = [run EXCEPT ![q] = r]
    BY DEF insert_mark
  <1>2. r \in Run /\ r.pc = "test_csv" /\ r.exported = run[q].exported /\ r.expired = {}
    BY DEF TypeOK, Run, Script
  <1> HIDE DEF r
  <1> QED
    BY <1>1, <1>2, NewRun

LEMMA TypeStep == TypeOK /\ [Next]_vars => TypeOK'
  <1> SUFFICES ASSUME TypeOK, [Next]_vars PROVE TypeOK'
    OBVIOUS
  <1> USE BoundAssumption, SubsetAssumption
  <1>1. CASE UNCHANGED vars
    BY <1>1 DEF TypeOK, vars, data, files
  <1>2. ASSUME NEW w \in Writers, insert(w) PROVE TypeOK'
    BY <1>2 DEF TypeOK, insert, files, Ids
  <1>3. ASSUME NEW w \in Writers, end_transaction(w) PROVE TypeOK'
    BY <1>3 DEF TypeOK, end_transaction, files
  <1>4. ASSUME NEW m \in Ids, destroy(m) PROVE TypeOK'
    BY <1>4 DEF TypeOK, destroy, files
  <1>5. ASSUME NEW q \in Requests, running_same_job(q) \/ start(q) PROVE TypeOK'
    BY <1>5, GotoRun DEF TypeOK, running_same_job, start, data, files, Script, Becomes
  <1>6. ASSUME NEW q \in Requests, query(q) PROVE TypeOK'
    BY <1>6, QueryRun DEF TypeOK, query, data, files, Becomes
  <1>7. ASSUME NEW q \in Requests, copy(q) PROVE TypeOK'
    <2>1. run' \in [Requests -> Run] /\ run[q].exported \subseteq Ids
      BY <1>7, GotoRun DEF TypeOK, copy, Script, Run, Becomes
    <2> QED
      BY <1>7, <2>1 DEF TypeOK, copy, data
  <1>8. ASSUME NEW q \in Requests, delete_marks(q) PROVE TypeOK'
    BY <1>8, DeleteRun DEF TypeOK, delete_marks, data, files, Becomes
  <1>9. ASSUME NEW q \in Requests, insert_mark(q) PROVE TypeOK'
    <2>1. run' \in [Requests -> Run]
      BY <1>9, InsertRun DEF Becomes
    <2>2. iOSLastExport' \subseteq Ids
      BY <1>9 DEF TypeOK, insert_mark
    <2> QED
      BY <1>9, <2>1, <2>2 DEF TypeOK, insert_mark, data, files
  <1>10. ASSUME NEW q \in Requests, test_csv(q) PROVE TypeOK'
    <2>1. run' \in [Requests -> Run]
      BY <1>10, GotoRun, ExitRun DEF test_csv, Script, Becomes
    <2> QED
      BY <1>10, <2>1 DEF TypeOK, test_csv, data, files
  <1>11. ASSUME NEW q \in Requests, build(q) \/ import(q) PROVE TypeOK'
    <2>1. run' \in [Requests -> Run]
      BY <1>11, GotoRun DEF build, import, Script, Becomes
    <2>2. PICK rows \in SUBSET csv : tmp' = [tmp EXCEPT !["ios13_32"] = rows]
      BY <1>11 DEF build, import
    <2> QED
      BY <1>11, <2>1, <2>2 DEF TypeOK, build, import, data, File, Files
  <1>12. ASSUME NEW q \in Requests, clip(q) \/ clip_rest(q) PROVE TypeOK'
    <2>1. run' \in [Requests -> Run]
      BY <1>12, GotoRun, ExitRun DEF clip, clip_rest, Script, Becomes
    <2>2. tmp' \in [Files -> File]
      <3>1. CASE clip_rest(q)
        BY <3>1 DEF TypeOK, clip_rest, Files
      <3>2. CASE clip(q)
        BY <3>2 DEF TypeOK, clip, File, Files
      <3> QED
        BY <1>12, <3>1, <3>2
    <2> QED
      BY <1>12, <2>1, <2>2 DEF TypeOK, clip, clip_rest, data
  <1>13. ASSUME NEW q \in Requests, NEW f \in Files,
                \/ Move(q, f, Goto(q, "move_16"))
                \/ Move(q, f, Exit(q))
         PROVE  TypeOK'
    <2>1. run' \in [Requests -> Run]
      BY <1>13, GotoRun, ExitRun DEF Move, Script, Becomes, TypeOK
    <2>2. published' \in [Files -> File] /\ tmp' \in [Files -> File]
      BY <1>13 DEF TypeOK, Move, File
    <2> QED
      BY <1>13, <2>1, <2>2 DEF TypeOK, Move, data
  <1>14. ASSUME NEW q \in Requests, Crash(q) PROVE TypeOK'
    BY <1>14, ExitRun DEF TypeOK, Crash, data, files, Becomes
  <1> QED
    BY <1>1, <1>2, <1>3, <1>4, <1>5, <1>6, <1>7, <1>8, <1>9, <1>10, <1>11, <1>12,
       <1>13, <1>14, Steps DEF move_32, move_16, Files

LEMMA TypeInit == Init => TypeOK
  BY BoundAssumption DEF Init, TypeOK, Run, Idle, File

(* Every variable of the export keeps its type; in particular a mark is      *)
(* always the id of a measurement, never NULL or 0.                          *)
THEOREM ExportTyping == Spec => []TypeOK
  BY TypeInit, TypeStep, PTL DEF Spec

-----------------------------------------------------------------------------
(* The mark *)

\* A row of iOSLastExport that a run has deleted, but not yet replaced, is
\* below a measurement, and the run has something to export.
ExpiredInv ==
    \A q \in Requests : \A k \in run[q].expired :
        /\ run[q].pc = "insert_mark"
        /\ run[q].exported # {}
        /\ \E m \in measurements : m > k

MarkInv == TypeOK /\ ExpiredInv

LEMMA ExpiredStep ==
    ASSUME Destroyable = {}, MarkInv, [Next]_vars
    PROVE  ExpiredInv'
  <1> USE DEF MarkInv, ExpiredInv, TypeOK
  <1>1. CASE UNCHANGED vars
    BY <1>1 DEF vars, data
  <1>2. ASSUME NEW w \in Writers, insert(w) \/ end_transaction(w) PROVE ExpiredInv'
    BY <1>2 DEF insert, end_transaction
  <1>3. ASSUME NEW m \in Ids, destroy(m) PROVE ExpiredInv'
    BY <1>3 DEF destroy
  <1>4. ASSUME NEW q \in Requests, delete_marks(q) PROVE ExpiredInv'
    <2> SUFFICES ASSUME NEW p \in Requests, NEW k \in run'[p].expired
                 PROVE  /\ run'[p].pc = "insert_mark" /\ run'[p].exported # {}
                        /\ \E m \in measurements : m > k
      BY <1>4 DEF delete_marks, data
    <2>1. CASE p = q
      BY <1>4, <2>1, DeleteRun DEF Becomes, Newer
    <2>2. CASE p # q
      BY <1>4, <2>2 DEF delete_marks, Run
    <2> QED
      BY <2>1, <2>2
  <1>5. ASSUME NEW q \in Requests,
               \/ running_same_job(q) \/ start(q)
               \/ query(q) \/ copy(q) \/ insert_mark(q)
               \/ test_csv(q) \/ build(q) \/ import(q) \/ clip(q) \/ clip_rest(q)
               \/ move_32(q) \/ move_16(q) \/ Crash(q)
        PROVE  ExpiredInv'
    <2>1. UNCHANGED measurements
      BY <1>5 DEF running_same_job, start, query, copy, insert_mark, test_csv, build, import,
                  clip, clip_rest, move_32, move_16, Move, Crash, data
    <2>2. ASSUME NEW p \in Requests PROVE run'[p] = run[p] \/ run'[p].expired = {}
      <3>1. CASE insert_mark(q)
        BY <3>1, InsertRun DEF Becomes
      <3>2. CASE query(q)
        <4>1. run[q].expired = {}
          BY <3>2 DEF query, At
        <4> QED
          BY <3>2, <4>1, QueryRun DEF Becomes
      <3>3. CASE ~insert_mark(q) /\ ~query(q)
        <4>1. \/ Exit(q) \/ UNCHANGED run
              \/ \E pc \in {"idle", "system"} \cup Script : Goto(q, pc)
          BY <1>5, <3>3 DEF running_same_job, start, copy, test_csv, build, import,
                            clip, clip_rest, move_32, move_16, Move, Crash, Script
        <4>2. Exit(q) \/ run[q].pc # "insert_mark"
          BY <1>5, <3>3 DEF running_same_job, start, copy, test_csv, build, import,
                            clip, clip_rest, move_32, move_16, At, Crash
        <4>3. CASE Exit(q)
          BY <4>3, ExitRun DEF Becomes
        <4>4. CASE run[q].pc # "insert_mark" /\ \E pc \in {"idle", "system"} \cup Script : Goto(q, pc)
          <5>1. run[q].expired = {}
            BY <4>4
          <5> QED
            BY <4>4, <5>1, GotoRun DEF Becomes
        <4>5. CASE UNCHANGED run
          BY <4>5
        <4> QED
          BY <4>1, <4>2, <4>3, <4>4, <4>5
      <3> QED
        BY <1>5, <3>1, <3>2, <3>3
    <2> QED
      BY <2>1, <2>2
  <1> QED
    BY <1>1, <1>2, <1>3, <1>4, <1>5, Steps

LEMMA MarkStep ==
    ASSUME MarkInv, [Next]_vars
    PROVE  \A k \in iOSLastExport : \E l \in iOSLastExport' : l >= k
  <1> SUFFICES ASSUME NEW k \in iOSLastExport
               PROVE  \E l \in iOSLastExport' : l >= k
    OBVIOUS
  <1> USE DEF MarkInv, TypeOK
  <1>0. k \in Nat
    BY DEF Ids
  <1>1. CASE iOSLastExport' = iOSLastExport
    BY <1>0, <1>1
  <1>2. ASSUME NEW q \in Requests, insert_mark(q) PROVE \E l \in iOSLastExport' : l >= k
    <2> DEFINE kept == iOSLastExport \ run[q].expired
    <2>1. CASE k \in kept
      BY <1>0, <1>2, <2>1 DEF insert_mark
    <2>2. CASE k \notin kept
      <3>1. PICK m \in measurements : m > k
        BY <2>2 DEF ExpiredInv
      <3>2. CASE \E max \in measurements :
                    (\A n \in measurements : n <= max) /\ iOSLastExport' = kept \cup {max}
        <4>1. PICK max \in measurements : m <= max /\ iOSLastExport' = kept \cup {max}
          BY <3>2
        <4>2. m \in Nat /\ max \in Nat
          BY DEF Ids
        <4> QED
          BY <1>0, <3>1, <4>1, <4>2
      <3>3. CASE ~Newer(kept) /\ iOSLastExport' = kept
        <4>1. PICK l \in kept : ~(m > l)
          BY <3>3 DEF Newer
        <4>2. m \in Nat /\ l \in Nat
          BY DEF Ids
        <4> QED
          BY <1>0, <3>1, <3>3, <4>1, <4>2
      <3>4. run[q].exported # {}
        BY <2>2 DEF ExpiredInv
      <3> QED
        BY <1>2, <3>2, <3>3, <3>4 DEF insert_mark
    <2> QED
      BY <2>1, <2>2
  <1> QED
    BY <1>1, <1>2, Steps
       DEF vars, insert, end_transaction, destroy, running_same_job, start, query, copy,
           delete_marks, test_csv, build, import, clip, clip_rest, move_32, move_16, Move, Crash

LEMMA MarkInit == Init => MarkInv
  BY TypeInit DEF Init, MarkInv, ExpiredInv, Idle

(* The mark in iOSLastExport never falls, however many runs replace it at    *)
(* once, as long as no measurement is deleted while they do.                 *)
THEOREM MarkOnlyRises ==
    ASSUME Destroyable = {}
    PROVE  Spec => MarkNeverFalls
  <1>1. MarkInv /\ [Next]_vars => MarkInv'
    BY TypeStep, ExpiredStep DEF MarkInv
  <1>2. MarkInv /\ [Next]_vars
            => [\A k \in iOSLastExport : \E l \in iOSLastExport' : l >= k]_vars
    BY MarkStep
  <1> QED
    BY MarkInit, <1>1, <1>2, PTL DEF Spec, MarkNeverFalls
-----------------------------------------------------------------------------
(* The files *)

\* One request at a time: the check for the same job is never raced.
Serial == \A p, q \in Requests : p = q

\* An id is committed once, by the transaction that took it.
SequenceInv ==
    /\ \A m \in measurements : m <= last_id
    /\ \A w \in Writers : \A m \in open[w] :
          /\ m <= last_id /\ m \notin measurements
          /\ \A v \in Writers : m \in open[v] => v = w

\* m was committed when it was read, and no filter removes it.
Read(m) == m \in Clean /\ m <= last_id /\ \A w \in Writers : m \notin open[w]

RowsInv ==
    /\ \A m \in csv : Read(m)
    /\ \A q \in Requests : \A m \in run[q].exported : Read(m)
    /\ \A f \in Files :
          /\ tmp[f] # Absent => \A m \in tmp[f] : Read(m)
          /\ published[f] # Absent => \A m \in published[f] : Read(m)

\* What file f must not lose.
Shown(f) == {m \in measurements : InFile(m, f)}

\* What is on its way into a file has all that the file shows.
PipelineInv ==
    \A q \in Requests :
        /\ run[q].pc = "copy" =>
              run[q].exported = {} \/ \A f \in Files : Shown(f) \subseteq run[q].exported
        /\ run[q].pc \in {"delete_marks", "insert_mark", "test_csv"} =>
              csv = {} \/ \A f \in Files : Shown(f) \subseteq csv
        /\ run[q].pc \in {"build", "import"} => \A f \in Files : Shown(f) \subseteq csv
        /\ run[q].pc \in {"clip", "clip_rest"} /\ tmp["ios13_32"] # Absent =>
              \A f \in Files : Shown(f) \subseteq tmp["ios13_32"]
        /\ run[q].pc = "move_32" =>
              \A f \in Files : tmp[f] # Absent => Shown(f) \subseteq tmp[f]
        /\ run[q].pc = "move_16" /\ tmp["ios13"] # Absent =>
              Shown("ios13") \subseteq tmp["ios13"]

FileInv == TypeOK /\ SequenceInv /\ RowsInv /\ PipelineInv

LEMMA DataUnlessWriter ==
    ASSUME Next, ~\E w \in Writers : insert(w) \/ end_transaction(w)
    PROVE  UNCHANGED <<last_id, open>> /\ measurements' \subseteq measurements
  BY Steps DEF destroy, running_same_job, start, query, copy, delete_marks, insert_mark,
               test_csv, build, import, clip, clip_rest, move_32, move_16, Move, Crash, data

LEMMA SequenceStep ==
    ASSUME TypeOK, SequenceInv, [Next]_vars
    PROVE  SequenceInv'
  <1> USE DEF TypeOK, SequenceInv
  <1>1. CASE UNCHANGED vars
    BY <1>1 DEF vars, data
  <1>2. ASSUME NEW w \in Writers, insert(w) PROVE SequenceInv'
    <2>1. \A v \in Writers : open'[v] = IF v = w THEN open[v] \cup {last_id + 1} ELSE open[v]
      BY <1>2 DEF insert
    <2>2. last_id' = last_id + 1 /\ measurements' = measurements /\ last_id \in Nat
      BY <1>2, BoundAssumption DEF insert
    <2>3. (\A m \in measurements : m \in Nat) /\ \A v \in Writers : \A m \in open[v] : m \in Nat
      BY DEF Ids
    <2>4. \A m \in measurements' : m <= last_id'
      BY <2>2, <2>3
    <2>5. ASSUME NEW v \in Writers, NEW m \in open'[v]
          PROVE  /\ m <= last_id' /\ m \notin measurements'
                 /\ \A u \in Writers : m \in open'[u] => u = v
      <3>1. m \in open[v] \/ (m = last_id + 1 /\ v = w)
        BY <2>1
      <3>2. m <= last_id + 1 /\ m \notin measurements
        BY <2>2, <2>3, <3>1
      <3>3. ASSUME NEW u \in Writers, m \in open'[u] PROVE u = v
        <4>1. m \in open[u] \/ (m = last_id + 1 /\ u = w)
          BY <2>1, <3>3
        <4>2. last_id + 1 \notin open[u] /\ last_id + 1 \notin open[v]
          BY <2>2, <2>3
        <4> QED
          BY <3>1, <4>1, <4>2
      <3> QED
        BY <2>2, <3>2, <3>3
    <2> QED
      BY <2>4, <2>5
  <1>3. ASSUME NEW w \in Writers, end_transaction(w) PROVE SequenceInv'
    <2>1. \A v \in Writers : open'[v] = IF v = w THEN {} ELSE open[v]
      BY <1>3 DEF end_transaction
    <2>2. last_id' = last_id /\ measurements' \subseteq measurements \cup open[w]
      BY <1>3 DEF end_transaction
    <2> QED
      BY <2>1, <2>2
  <1>4. CASE Next /\ ~\E w \in Writers : insert(w) \/ end_transaction(w)
    BY <1>4, DataUnlessWriter
  <1> QED
    BY <1>1, <1>2, <1>3, <1>4

LEMMA ReadStep ==
    ASSUME TypeOK, [Next]_vars, NEW m, Read(m)
    PROVE  Read(m)'
  <1> USE DEF TypeOK, Read
  <1>1. CASE UNCHANGED vars
    BY <1>1 DEF vars, data
  <1>2. ASSUME NEW w \in Writers, insert(w) PROVE Read(m)'
    <2>1. m \in Nat /\ last_id \in Nat
      BY SubsetAssumption, BoundAssumption DEF Ids
    <2>2. \A v \in Writers : open'[v] \subseteq open[v] \cup {last_id + 1}
      BY <1>2 DEF insert
    <2> QED
      BY <1>2, <2>1, <2>2 DEF insert
  <1>3. ASSUME NEW w \in Writers, end_transaction(w) PROVE Read(m)'
    <2>1. \A v \in Writers : open'[v] \subseteq open[v]
      BY <1>3 DEF end_transaction
    <2> QED
      BY <1>3, <2>1 DEF end_transaction
  <1>4. CASE Next /\ ~\E w \in Writers : insert(w) \/ end_transaction(w)
    BY <1>4, DataUnlessWriter
  <1> QED
    BY <1>1, <1>2, <1>3, <1>4

LEMMA ShownStep ==
    ASSUME FileInv, [Next]_vars, NEW f \in Files, published'[f] = published[f]
    PROVE  Shown(f)' \subseteq Shown(f)
  <1> SUFFICES ASSUME NEW m \in measurements', InFile(m, f)' PROVE m \in measurements /\ InFile(m, f)
    BY DEF Shown
  <1>1. InFile(m, f) /\ Read(m)
    BY DEF InFile, FileInv, RowsInv
  <1>2. ASSUME NEW w \in Writers, insert(w) \/ end_transaction(w) PROVE m \in measurements
    BY <1>1, <1>2 DEF insert, end_transaction, Read
  <1>3. CASE UNCHANGED vars
    <2>1. measurements' = measurements
      BY <1>3 DEF vars, data
    <2> QED
      BY <1>1, <2>1
  <1> QED
    BY <1>1, <1>2, <1>3, DataUnlessWriter
LEMMA RowsStep ==
    ASSUME FileInv, [Next]_vars
    PROVE  RowsInv'
  <1> USE DEF FileInv
  <1>r. ASSUME NEW m, Read(m) PROVE Read(m)'
    BY <1>r, ReadStep
  <1> DEFINE Good == /\ \A m \in csv' : Read(m)
                     /\ \A q \in Requests : \A m \in run'[q].exported : Read(m)
                     /\ \A f \in Files :
                           /\ tmp'[f] # Absent => \A m \in tmp'[f] : Read(m)
                           /\ published'[f] # Absent => \A m \in published'[f] : Read(m)
  <1> SUFFICES Good
    BY <1>r DEF RowsInv
  <1> USE DEF TypeOK, RowsInv
  <1>1. CASE UNCHANGED vars
    BY <1>1 DEF vars, files
  <1>2. ASSUME NEW w \in Writers, insert(w) \/ end_transaction(w) PROVE Good
    BY <1>2 DEF insert, end_transaction, files
  <1>3. ASSUME NEW m \in Ids, destroy(m) PROVE Good
    BY <1>3 DEF destroy, files
  <1>4. ASSUME NEW q \in Requests, query(q) PROVE Good
    <2>1. \A m \in measurements \cap Clean : Read(m)
      BY DEF SequenceInv, Read
    <2> QED
      BY <1>4, <2>1, QueryRun DEF query, files, Becomes
  <1>5. ASSUME NEW q \in Requests, delete_marks(q) PROVE Good
    BY <1>5, DeleteRun DEF delete_marks, files, Becomes
  <1>6. ASSUME NEW q \in Requests, insert_mark(q) PROVE Good
    BY <1>6, InsertRun DEF insert_mark, files, Becomes
  <1>7. ASSUME NEW q \in Requests,
               \/ running_same_job(q) \/ start(q) \/ copy(q) \/ test_csv(q)
               \/ build(q) \/ import(q) \/ clip(q) \/ clip_rest(q)
               \/ move_32(q) \/ move_16(q) \/ Crash(q)
        PROVE  Good
    <2>1. \/ Exit(q) \/ UNCHANGED run
          \/ \E pc \in {"idle", "system"} \cup Script : Goto(q, pc)
      BY <1>7 DEF running_same_job, start, copy, test_csv, build, import,
                  clip, clip_rest, move_32, move_16, Move, Crash, Script
    <2>2. \A p \in Requests : \A m \in run'[p].exported : Read(m)
      BY <2>1, ExitRun, GotoRun DEF Becomes
    <2>3. \A m \in csv' : Read(m)
      BY <1>7 DEF running_same_job, start, copy, test_csv, build, import,
                  clip, clip_rest, move_32, move_16, Move, Crash, files
    <2>4. ASSUME NEW f \in Files, tmp'[f] # Absent PROVE \A m \in tmp'[f] : Read(m)
      <3>1. \/ tmp'[f] = tmp[f] \/ tmp'[f] \subseteq csv \/ tmp'[f] = Absent
            \/ tmp["ios13_32"] # Absent /\ tmp'[f] \subseteq tmp["ios13_32"]
            \/ tmp'[f] = tmp["ios13_32"]
        BY <1>7 DEF running_same_job, start, copy, test_csv, build, import,
                    clip, clip_rest, move_32, move_16, Move, Crash, files, Files
      <3> QED
        BY <2>4, <3>1 DEF Files
    <2>5. ASSUME NEW f \in Files, published'[f] # Absent
          PROVE  \A m \in published'[f] : Read(m)
      <3>1. \/ published'[f] = published[f]
            \/ tmp[f] # Absent /\ published'[f] \subseteq tmp[f]
        BY <1>7 DEF running_same_job, start, copy, test_csv, build, import,
                    clip, clip_rest, move_32, move_16, Move, Crash, files, Files
      <3> QED
        BY <2>5, <3>1
    <2> QED
      BY <2>2, <2>3, <2>4, <2>5
  <1> QED
    BY <1>1, <1>2, <1>3, <1>4, <1>5, <1>6, <1>7, Steps

LEMMA PipelineStep ==
    ASSUME Serial, CopyMayFail = FALSE, OneDisk = TRUE, FileInv, [Next]_vars
    PROVE  PipelineInv'
  <1> USE DEF FileInv
  <1>s. ASSUME published' = published, NEW f \in Files PROVE Shown(f)' \subseteq Shown(f)
    BY <1>s, ShownStep
  <1>1. ASSUME UNCHANGED <<files, run>> PROVE PipelineInv'
    BY <1>1, <1>s DEF files, PipelineInv, Files
  <1>2. ASSUME NEW q \in Requests, running_same_job(q) \/ start(q) \/ Crash(q) \/ Exit(q)
        PROVE  PipelineInv'
    <2>1. run'[q].pc \in {"system", "query", "idle"}
      BY <1>2, GotoRun, ExitRun DEF running_same_job, start, Crash, Becomes, Script
    <2> QED
      BY <2>1 DEF Serial, PipelineInv
  <1>3. ASSUME NEW q \in Requests, query(q) PROVE PipelineInv'
    <2> DEFINE rows == {m \in measurements \cap Clean : Newer(iOSLastExport)}
    <2>1. run'[q].pc = "copy" /\ run'[q].exported = rows
      BY <1>3, QueryRun DEF Becomes
    <2>2. ASSUME NEW f \in Files, rows # {} PROVE Shown(f)' \subseteq rows
      <3>1. Shown(f) \subseteq Clean
        BY DEF Shown, InFile, RowsInv, Read
      <3>2. Shown(f) \subseteq measurements /\ Newer(iOSLastExport)
        BY <2>2 DEF Shown
      <3>3. Shown(f)' \subseteq Shown(f)
        BY <1>3, <1>s DEF query, files
      <3> QED
        BY <3>1, <3>2, <3>3
    <2> QED
      BY <2>1, <2>2 DEF Serial, PipelineInv
  <1>4. ASSUME NEW q \in Requests, copy(q) PROVE PipelineInv'
    <2>1. run'[q].pc = "delete_marks"
      BY <1>4, GotoRun DEF copy, Becomes, Script
    <2>2. csv' = run[q].exported /\ published' = published
      BY <1>4 DEF copy
    <2>3. csv' = {} \/ \A f \in Files : Shown(f)' \subseteq csv'
      BY <1>4, <1>s, <2>2 DEF copy, At, PipelineInv
    <2> QED
      BY <2>1, <2>3 DEF Serial, PipelineInv
  <1>5. ASSUME NEW q \in Requests, delete_marks(q) \/ insert_mark(q) PROVE PipelineInv'
    <2>1. run'[q].pc \in {"insert_mark", "test_csv"}
      BY <1>5, DeleteRun, InsertRun DEF Becomes
    <2>2. csv' = csv /\ published' = published
      BY <1>5 DEF delete_marks, insert_mark, files
    <2>3. csv' = {} \/ \A f \in Files : Shown(f)' \subseteq csv'
      BY <1>5, <1>s, <2>2 DEF delete_marks, insert_mark, At, PipelineInv
    <2> QED
      BY <2>1, <2>3 DEF Serial, PipelineInv
  <1>6. ASSUME NEW q \in Requests, test_csv(q), ~Exit(q) PROVE PipelineInv'
    <2>1. run'[q].pc = "build"
      BY <1>6, GotoRun DEF test_csv, Becomes, Script
    <2>2. csv' = csv /\ published' = published /\ csv # {}
      BY <1>6 DEF test_csv, files
    <2>3. \A f \in Files : Shown(f)' \subseteq csv'
      BY <1>6, <1>s, <2>2 DEF test_csv, At, PipelineInv
    <2> QED
      BY <2>1, <2>3 DEF Serial, PipelineInv
  <1>11. ASSUME NEW q \in Requests, build(q) PROVE PipelineInv'
    <2>1. run'[q].pc = "import"
      BY <1>11, GotoRun DEF build, Becomes, Script
    <2>2. csv' = csv /\ published' = published
      BY <1>11 DEF build
    <2>3. \A f \in Files : Shown(f)' \subseteq csv'
      BY <1>11, <1>s, <2>2 DEF build, At, PipelineInv
    <2> QED
      BY <2>1, <2>3 DEF Serial, PipelineInv
  <1>7. ASSUME NEW q \in Requests, import(q) PROVE PipelineInv'
    <2>1. run'[q].pc = "clip"
      BY <1>7, GotoRun DEF import, Becomes, Script
    <2>2. tmp'["ios13_32"] = csv /\ published' = published
      BY <1>7 DEF import, TypeOK, Files
    <2>3. \A f \in Files : Shown(f)' \subseteq tmp'["ios13_32"]
      BY <1>7, <1>s, <2>2 DEF import, At, PipelineInv
    <2> QED
      BY <2>1, <2>3 DEF Serial, PipelineInv
  <1>12. ASSUME NEW q \in Requests, clip(q), ~Exit(q) PROVE PipelineInv'
    <2>1. run'[q].pc = "clip_rest"
      BY <1>12, GotoRun DEF clip, Becomes, Script
    <2>2. /\ tmp["ios13_32"] # Absent /\ published' = published
          /\ tmp'["ios13_32"] = tmp["ios13_32"]
      BY <1>12 DEF clip, TypeOK, Files
    <2>3. \A f \in Files : Shown(f)' \subseteq tmp'["ios13_32"]
      BY <1>12, <1>s, <2>2 DEF clip, At, PipelineInv
    <2> QED
      BY <2>1, <2>3 DEF Serial, PipelineInv
  <1>8. ASSUME NEW q \in Requests, clip_rest(q) PROVE PipelineInv'
    <2>1. run'[q].pc = "move_32"
      BY <1>8, GotoRun DEF clip_rest, Becomes, Script
    <2>2. published' = published /\ \A f \in Files : tmp'[f] = tmp["ios13_32"]
      BY <1>8 DEF clip_rest, TypeOK, Files
    <2>3. \A f \in Files : tmp'[f] # Absent => Shown(f)' \subseteq tmp'[f]
      BY <1>8, <1>s, <2>2 DEF clip_rest, At, PipelineInv
    <2> QED
      BY <2>1, <2>3 DEF Serial, PipelineInv
  <1>9. ASSUME NEW q \in Requests, move_32(q), ~Exit(q) PROVE PipelineInv'
    <2>1. run'[q].pc = "move_16"
      BY <1>9, GotoRun DEF move_32, Move, Becomes, Script
    <2>2. tmp'["ios13"] = tmp["ios13"] /\ published'["ios13"] = published["ios13"]
      BY <1>9 DEF move_32, Move, TypeOK, Files
    <2>3. Shown("ios13")' \subseteq Shown("ios13")
      BY <2>2, ShownStep DEF Files
    <2>4. tmp'["ios13"] # Absent => Shown("ios13")' \subseteq tmp'["ios13"]
      BY <1>9, <2>2, <2>3 DEF move_32, At, PipelineInv, Files
    <2> QED
      BY <2>1, <2>4 DEF Serial, PipelineInv
  <1>10. ASSUME NEW q \in Requests, move_16(q) PROVE Exit(q)
    BY <1>10 DEF move_16, Move
  <1> QED
    BY <1>1, <1>2, <1>3, <1>4, <1>5, <1>6, <1>7, <1>8, <1>9, <1>10, <1>11, <1>12, Steps
       DEF vars, insert, end_transaction, destroy

LEMMA FileInit == Init => FileInv
  BY TypeInit DEF Init, FileInv, SequenceInv, RowsInv, PipelineInv, Idle, Files

LEMMA NothingLost ==
    ASSUME FileInv, Serial, OneDisk = TRUE, [Next]_vars, NEW m \in Ids, NEW f \in Files,
           InFile(m, f), m \in measurements'
    PROVE  InFile(m, f)'
  <1>1. CASE published'[f] = published[f]
    BY <1>1 DEF InFile
  <1>2. ASSUME NEW q \in Requests, move_32(q) \/ move_16(q), published'[f] # published[f]
        PROVE  InFile(m, f)'
    <2>1. /\ tmp[f] # Absent /\ published'[f] = tmp[f] /\ UNCHANGED data
          /\ Shown(f) \subseteq tmp[f]
      BY <1>2 DEF move_32, move_16, Move, At, FileInv, PipelineInv, TypeOK, Files
    <2> QED
      BY <2>1 DEF InFile, Shown, data
  <1> QED
    BY <1>1, <1>2, Steps
       DEF vars, files, insert, end_transaction, destroy, running_same_job, start, query, copy,
           delete_marks, insert_mark, test_csv, build, import, clip, clip_rest, Crash

(* With one run at a time, room on the disk and all files on one file        *)
(* system, a measurement in the files of the app stays there while it is in  *)
(* the database, however often the script is killed, in whatever command,    *)
(* and whatever is inserted or deleted while it runs.                        *)
THEOREM FilesOnlyGrow ==
    ASSUME Serial, CopyMayFail = FALSE, OneDisk = TRUE
    PROVE  Spec => DataStaysPublished
  <1>1. FileInv /\ [Next]_vars => FileInv'
    BY TypeStep, SequenceStep, RowsStep, PipelineStep DEF FileInv
  <1>2. FileInv /\ [Next]_vars
            => [\A m \in Ids, f \in Files :
                   InFile(m, f) /\ m \in measurements' => InFile(m, f)']_vars
    BY NothingLost
  <1> QED
    BY FileInit, <1>1, <1>2, PTL DEF Spec, DataStaysPublished

=============================================================================
