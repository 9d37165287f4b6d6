------------------------------ MODULE LogStore ------------------------------
(***************************************************************************)
(* What the processing of uploads promises of the table bgeigie_logs: an   *)
(* import gets the lines of its file that are not stored yet, all of them  *)
(* at once, and its logs go when it goes.  LogLoading is shown to          *)
(* implement this as long as a single worker processes the uploads.        *)
(***************************************************************************)
CONSTANTS
    Imports,  \* uploaded files
    Lines,    \* lines of log files
    File      \* File[i] is the set of lines of the file of import i

VARIABLES
    stored,   \* the imports there are
    logs      \* the stored lines: of which import, and with which location

vars == <<stored, logs>>

Init == stored = {} /\ logs = {}

Save(i) ==
    /\ i \notin stored
    /\ stored' = stored \cup {i}
    /\ UNCHANGED logs

Unstored(i) == {l \in File[i] : \A r \in logs : r.line # l}

Load(i) ==
    /\ i \in stored
    /\ logs' = logs \cup [line: Unstored(i), owner: {i}, located: {TRUE}]
    /\ UNCHANGED stored

Destroy(i) ==
    /\ i \in stored
    /\ stored' = stored \ {i}
    /\ logs' = {r \in logs : r.owner # i}

Next == \E i \in Imports : Save(i) \/ Load(i) \/ Destroy(i)

Spec == Init /\ [][Next]_vars
=============================================================================
