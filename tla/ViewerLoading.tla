--------------------------- MODULE ViewerLoading ---------------------------
(***************************************************************************)
(* How the bGeigie log viewer gets logs onto a map                         *)
(* (app/assets/javascripts/bgeigie_viewer.js): the transfer manager XFM    *)
(* with its tasks XF, the manager WWM of the web workers, the point        *)
(* vectors of MKS, and BVM, which ties them together.                      *)
(*                                                                         *)
(* The script of the page is single threaded: an event handler runs to its *)
(* end, callbacks it calls included.  A handler is therefore one action,   *)
(* and what it calls is a function from the state of the page to the state *)
(* of the page.  Between two handlers the order is free: transfers answer  *)
(* in any order, and so do the workers, each of which takes its messages   *)
(* one after the other.                                                    *)
(*                                                                         *)
(* The points of a log are one chunk, named by the log.  Sorting a vector  *)
(* permutes points; here it keeps the chunks as they are.                  *)
(***************************************************************************)
EXTENDS Integers, Sequences, FiniteSets, SequencesExt

CONSTANTS
    Logs,         \* bGeigie logs known to the API
    Tiny,         \* logs with fewer than two points
    Redundant,    \* logs all of whose points other logs hide
    Queries,      \* list queries of the API
    Pages,        \* Pages[q]: the pages of answers to q, sequences of logs
    PageLimit,    \* PageLimit[q]: how many pages of q the page asks for
    IdLists,      \* the lists of log ids a user may type
    Direct,       \* logs a page may load by the URL of the file
    WorkerCount,  \* navigator.hardwareConcurrency
    Para,         \* XFM.para
    VastAt,       \* chunks from which MKS gives up on prefiltering
    SortLimit,    \* chunks from which on the vectors are not sorted
    NoUI,         \* whether the page has no transfer bar
    Careful,      \* see Allowed
    Faults,       \* the ways in which a transfer may fail
    MaxAsks,      \* bound on the requests of the user
    MaxPurges,    \* bound on the purges of the user
    MaxFaults     \* bound on the failing transfers

Workers == 0 .. WorkerCount - 1
FaultKinds == {"status", "network", "empty"}

ASSUME LogsAssumption ==
    /\ Tiny \subseteq Logs /\ Redundant \subseteq Logs /\ Direct \subseteq Logs
    /\ IdLists \subseteq Seq(Logs)
    /\ Pages \in [Queries -> Seq(Seq(Logs))]
    /\ PageLimit \in [Queries -> Nat \ {0}]
ASSUME SizesAssumption ==
    /\ WorkerCount \in Nat \ {0} /\ Para \in Nat
    /\ VastAt \in Nat /\ SortLimit \in Nat \ {0} /\ NoUI \in BOOLEAN
ASSUME BoundsAssumption ==
    /\ Faults \subseteq FaultKinds /\ Careful \in BOOLEAN
    /\ MaxAsks \in Nat /\ MaxPurges \in Nat /\ MaxFaults \in Nat

VARIABLES
    page,    \* the objects of the page, see Page
    markers, \* whether there are markers on the map
    asks,    \* requests of the user so far
    purges,  \* purges so far
    faults   \* how many transfers have failed in which way

vars == <<page, markers, asks, purges, faults>>

-----------------------------------------------------------------------------
(* Types *)

\* XF: one transfer.  kind and of (and page, for a query) make up its URL.
Task ==
    [kind: {"log", "id", "query"}, of: Logs \cup Queries, page: Nat,
     started: BOOLEAN, done: BOOLEAN, error: BOOLEAN, callbackDone: BOOLEAN]

NewTask(kind, of, n) ==
    [kind |-> kind, of |-> of, page |-> n, started |-> FALSE,
     done |-> FALSE, error |-> FALSE, callbackDone |-> FALSE]

\* The columns litcpms, litcp5s and valids: absent, one value per point, or
\* of another length than the columns every log has.
Extra == {"none", "full", "short"}

\* A message to a worker, together with what the reply to it carries.
Job == [op: {"parse", "prefilter", "sort"}, points: Seq(Logs), extra: Extra]

Page ==
    [\* XFM
     tasks: Seq(Task), queue: Seq(Nat), logIds: SUBSET Logs,
     \* WWM
     jobs: [Workers -> Seq(Job)], isBusy: [Workers -> BOOLEAN], index: Workers,
     \* MKS: the vectors (<<>> stands for null).  offered is not in the code:
     \* what they held when sortcb last asked for markers.
     points: Seq(Logs), extra: Extra, vast: BOOLEAN, offered: SUBSET Logs,
     \* BVM: the transfer bar, and the running timers that will hide it
     bar: {"hidden", "visible"}, timers: Nat]

Idle ==
    [tasks |-> <<>>, queue |-> <<>>, logIds |-> {},
     jobs |-> [w \in Workers |-> <<>>],
     isBusy |-> [w \in Workers |-> FALSE], index |-> 0,
     points |-> <<>>, extra |-> "none", vast |-> FALSE, offered |-> {},
     bar |-> "hidden", timers |-> 0]

-----------------------------------------------------------------------------
(* WWM *)

\* Op(s), with s bound to its value: a handler is a long chain of calls.
On(s, Op(_)) == CHOOSE t \in {Op(x) : x \in {s}} : TRUE

\* The last idle worker, or else the next one in turn.
GetWorkerForDispatch(s, w) ==
    LET idle == {x \in Workers : ~ s.isBusy[x]}
    IN  IF idle # {} THEN w \in idle /\ \A x \in idle : x <= w
        ELSE w = (s.index + 1) % WorkerCount

Dispatch(page0, job) ==
    On(page0, LAMBDA s :
        LET w == CHOOSE x \in Workers : GetWorkerForDispatch(s, x)
        IN  [s EXCEPT !.jobs[w] = Append(@, job),
                      !.isBusy[w] = TRUE,
                      !.index = IF \A x \in Workers : s.isBusy[x]
                                THEN w ELSE @])

\* Worker 0 is never given back: the test is idx > 0.
ReportWorkerIsDone(s, w) == IF w > 0 THEN [s EXCEPT !.isBusy[w] = FALSE] ELSE s

\* terminate() also drops the messages on their way to and from a worker.
TerminateWorkers(s) ==
    [s EXCEPT !.jobs = Idle.jobs, !.isBusy = Idle.isBusy, !.index = 0]

DispatchLogParseToVec(s, log) ==
    Dispatch(s, [op |-> "parse", points |-> <<log>>,
                 extra |-> IF s.points = <<>> THEN "full" ELSE "short"])

-----------------------------------------------------------------------------
(* MKS *)

AddData(s, points, extra) ==
    IF points = <<>> \/ (Len(points) = 1 /\ points[1] \in Tiny) THEN s
    ELSE [s EXCEPT !.points = @ \o points,
                   !.extra = IF s.points = <<>> /\ @ = "none" THEN extra
                             ELSE "none"]

SortByQuadKey(s) ==
    [Dispatch(s, [op |-> "sort", points |-> s.points,
                  extra |-> IF s.extra = "none" THEN "short" ELSE s.extra])
     EXCEPT !.points = <<>>, !.extra = "none"]

\* Fault: the transfer manager is not told.
fault_keep_ids(s) == [s EXCEPT !.points = <<>>, !.extra = "none"]

\* Comes last, and begins with the image of the transfer bar: without a bar it
\* dies there, and the log ids stay.
ClearAllLogIds(ids) == IF NoUI THEN ids ELSE {}

PurgeData(s) ==
    [s EXCEPT !.points = <<>>, !.extra = "none", !.offered = {},
              !.logIds = ClearAllLogIds(@)]

\* onmaps is looked up for every marker: with markers on the map and no
\* vectors the handler dies at the first of them.
RemoveAllMarkersFromMapAndPurgeData ==
    IF markers /\ page.points = <<>> THEN UNCHANGED <<page, markers>>
    ELSE page' = PurgeData(page) /\ markers' = FALSE

-----------------------------------------------------------------------------
(* BVM.Init_XFM *)

\* Fault: markers are asked for only the first time.
fault_show_first(s) ==
    LET quiet == TerminateWorkers(s)
    IN  [quiet EXCEPT !.offered = IF @ = {} THEN ToSet(s.points) ELSE @,
                      !.timers = @ + 1]

\* sortcb asks for the markers of what is in the vectors, which are added frame
\* by frame for the visible extent (ViewerMap), and sets a timer.
ShowData(s) ==
    LET quiet == TerminateWorkers(s)
    IN  [quiet EXCEPT !.offered = IF s.points = <<>> THEN @ ELSE ToSet(s.points),
                      !.timers = @ + 1]

\* xfmcbe, which XFM calls as fxCallbackEnd
CallbackEnd(page0) ==
    On(page0, LAMBDA s :
        IF s.points = <<>> \/ Len(s.points) >= SortLimit
        THEN ShowData(s) ELSE SortByQuadKey(s))

-----------------------------------------------------------------------------
(* XFM and XF *)

\* The tasks that count against Para.  A failed one never stops counting:
\* the code asks for a field isError, which no task has.
ActiveTaskCount(s) ==
    Cardinality({i \in DOMAIN s.tasks :
                    s.tasks[i].started /\ ~ s.tasks[i].callbackDone})

HttpGet(s, i) == [s EXCEPT !.tasks[i].started = TRUE]

\* Fault: the task is left in the queue.
fault_peek(s) == IF s.queue = <<>> THEN s ELSE HttpGet(s, Last(s.queue))

\* The queue is a stack.
ProcessNextInQueue(s) ==
    IF s.queue = <<>> THEN s
    ELSE HttpGet([s EXCEPT !.queue = Front(@)], Last(s.queue))

\* Fault: nothing is ever queued.
fault_start_all(s, i) == HttpGet(s, i)

StartTask(s, i) ==
    IF ActiveTaskCount(s) <= Para \/ s.tasks[i].kind # "log"
    THEN HttpGet(s, i)
    ELSE [s EXCEPT !.queue = Append(@, i)]

\* Fault: a log on the map is loaded again.
fault_add_again(page0, task) ==
    On(page0, LAMBDA s :
        StartTask([s EXCEPT !.tasks = Append(@, task), !.bar = "visible"],
                  Len(s.tasks) + 1))

AddTask(page0, task) ==
    On(page0, LAMBDA s :
        IF task.kind = "log" /\ task.of \in s.logIds THEN s
        ELSE StartTask([s EXCEPT !.tasks = Append(@, task), !.bar = "visible"],
                       Len(s.tasks) + 1))

AllDone(s) ==
    \A i \in DOMAIN s.tasks : s.tasks[i].callbackDone \/ s.tasks[i].error

UpdateLogIdsFromXF(page0, i) ==
    On(page0, LAMBDA s :
        IF /\ s.tasks[i].kind = "log"
           /\ s.tasks[i].callbackDone
           /\ ~ s.tasks[i].error
        THEN [s EXCEPT !.logIds = @ \cup {s.tasks[i].of}]
        ELSE s)

XFCallback(page0, i) ==
    On(UpdateLogIdsFromXF(page0, i), LAMBDA s :
        LET next == IF s.tasks[i].kind = "log" /\ s.tasks[i].error
                    THEN ProcessNextInQueue(s) ELSE s
        IN  IF AllDone(next) THEN CallbackEnd(next) ELSE next)

SetSuccess(s, i) == XFCallback([s EXCEPT !.tasks[i].callbackDone = TRUE], i)

SetError(s, i) ==
    XFCallback([s EXCEPT !.tasks[i].done = TRUE, !.tasks[i].error = TRUE], i)

\* The first task of a set of indexes, as the loops with a break find it.
First(I) == CHOOSE i \in I : \A j \in I : i <= j


ReportResultsSuccessForLogId(page0, log) ==
    On(page0, LAMBDA s :
        LET open == {i \in DOMAIN s.tasks :
                        /\ s.tasks[i].kind = "log" /\ s.tasks[i].of = log
                        /\ s.tasks[i].done
                        /\ ~ s.tasks[i].error /\ ~ s.tasks[i].callbackDone}
        IN  IF open = {} THEN s
            ELSE On(SetSuccess(s, First(open)), ProcessNextInQueue))

ReportResultsErrorForURL(page0, task) ==
    On(page0, LAMBDA s :
        LET answered == {i \in DOMAIN s.tasks :
                            /\ s.tasks[i].kind = task.kind
                            /\ s.tasks[i].of = task.of
                            /\ s.tasks[i].page = task.page
                            /\ s.tasks[i].done /\ ~ s.tasks[i].error}
        IN  IF answered = {} THEN s ELSE SetError(s, First(answered)))

-----------------------------------------------------------------------------
(* BVM: what is asked for, and the callbacks of the transfers *)

GetLogFile(s, log) == AddTask(s, NewTask("log", log, 0))
GetJSONAsyncByQuery(s, q, n) == AddTask(s, NewTask("query", q, n))

\* A transfer for each of the logs in turn: GetLogFile or, with the kind "id",
\* GetJSONAsync.
GetEach(page0, kind, logs) ==
    LET after[n \in 0 .. Len(logs)] ==
            IF n = 0 THEN page0
            ELSE AddTask(after[n - 1], NewTask(kind, logs[n], 0))
    IN  after[Len(logs)]

\* The logs on page n of q that have measurements, none past the last page.
Listed(q, n) == IF n <= Len(Pages[q]) THEN Pages[q][n] ELSE <<>>

\* A page that was the last one asked for counts as an error as well.
QueryCallback(s, task, logs) ==
    LET added == GetEach(s, "log", logs)
    IN  IF logs # <<>> /\ task.page < PageLimit[task.of]
        THEN GetJSONAsyncByQuery(added, task.of, task.page + 1)
        ELSE ReportResultsErrorForURL(added, task)

\* fxCallback of task i for an answer with status 200, empty or not.
Callback(s, i, empty) ==
    LET task == s.tasks[i]
    IN  CASE task.kind = "log" -> DispatchLogParseToVec(s, task.of)
          [] task.kind = "id" ->
                IF empty THEN ReportResultsErrorForURL(s, task)
                ELSE GetLogFile(s, task.of)
          [] task.kind = "query" ->
                QueryCallback(s, task,
                    IF empty THEN <<>> ELSE Listed(task.of, task.page))

\* HttpEventReadyStateChange with readyState 4 and status 200
Received(s, i, empty) ==
    LET called == Callback([s EXCEPT !.tasks[i].done = TRUE], i, empty)
    IN  IF s.tasks[i].kind = "log" THEN called ELSE SetSuccess(called, i)

-----------------------------------------------------------------------------
(* Replies of the workers (WWM.AddWorkerCallback) *)

GetDataAndDispatchPrefilterVec(s, job) ==
    LET log == job.points[1]
        vast == s.vast \/ Len(s.points) > VastAt
        seen == [s EXCEPT !.vast = vast]
    IN  IF s.points = <<>> \/ vast \/ s.extra # "none"
        THEN ReportResultsSuccessForLogId(
                 AddData(seen, job.points, job.extra), log)
        ELSE Dispatch(seen, [job EXCEPT !.op = "prefilter", !.extra = "none"])

ParsedLog(s, w, job) ==
    GetDataAndDispatchPrefilterVec(ReportWorkerIsDone(s, w), job)

FilteredLog(s, w, job) ==
    LET log == job.points[1]
        added == IF log \in Redundant THEN s
                 ELSE AddData(s, job.points, "none")
    IN  ReportResultsSuccessForLogId(ReportWorkerIsDone(added, w), log)

\* Fault: the extra columns are kept for several logs.
fault_keep_columns(s, w, job) ==
    ShowData(ReportWorkerIsDone(AddData(s, job.points, job.extra), w))

SortedData(s, w, job) ==
    LET single == Cardinality(ToSet(job.points)) = 1
        added == AddData(s, job.points, IF single THEN job.extra ELSE "none")
    IN  ShowData(ReportWorkerIsDone(added, w))

-----------------------------------------------------------------------------
(* Actions *)

\* A careful user asks for logs only while the transfer bar is hidden, and
\* for several only if none of them is on the map.
Allowed == asks < MaxAsks /\ (Careful => page.bar = "hidden")

Ask(s) ==
    /\ Allowed
    /\ page' = s
    /\ asks' = asks + 1
    /\ UNCHANGED <<markers, purges, faults>>

\* AddLogsByQueryFromString with a list of ids
AskIds(ids) ==
    /\ Careful => ToSet(ids) \cap page.logIds = {}
    /\ Ask(GetEach(page, "id", ids))

\* AddLogsByQueryFromString with a text to search for, or none
AskQuery(q) ==
    /\ Careful => \A n \in 1 .. PageLimit[q] :
                      ToSet(Listed(q, n)) \cap page.logIds = {}
    /\ Ask(GetJSONAsyncByQuery(page, q, 1))

\* GetLogFileDirectFromUrlAsync
AskLogFile(log) == Ask(GetLogFile(page, log))

Purge ==
    /\ purges < MaxPurges
    /\ Careful => page.bar = "hidden"
    /\ RemoveAllMarkersFromMapAndPurgeData
    /\ purges' = purges + 1
    /\ UNCHANGED <<asks, faults>>

InFlight(i) == page.tasks[i].started /\ ~ page.tasks[i].done

Receive(i) ==
    /\ InFlight(i)
    /\ page' = Received(page, i, FALSE)
    /\ UNCHANGED <<markers, asks, purges, faults>>

Fault(kind) ==
    /\ kind \in Faults
    /\ MapThenSumSet(LAMBDA k : faults[k], FaultKinds) < MaxFaults
    /\ faults' = [faults EXCEPT ![kind] = @ + 1]
    /\ UNCHANGED <<markers, asks, purges>>

\* Status 200 and nothing in it: no logs, or a log without a file.
ReceiveEmpty(i) ==
    /\ InFlight(i) /\ page.tasks[i].kind # "log"
    /\ Fault("empty")
    /\ page' = Received(page, i, TRUE)

\* Another status than 200
ReceiveError(i) ==
    /\ InFlight(i)
    /\ Fault("status")
    /\ page' = SetError(page, i)

\* A broken connection: readystatechange reports status 0, and then the
\* event error (HttpEventError) reports the same task again.
Disconnect(i) ==
    /\ InFlight(i)
    /\ Fault("network")
    /\ page' = SetError(SetError(page, i), i)

WorkerReplies(w) ==
    /\ page.jobs[w] # <<>>
    /\ LET job == Head(page.jobs[w])
           s == [page EXCEPT !.jobs[w] = Tail(@)]
       IN  page' = CASE job.op = "parse" -> ParsedLog(s, w, job)
                     [] job.op = "prefilter" -> FilteredLog(s, w, job)
                     [] job.op = "sort" -> SortedData(s, w, job)
    /\ UNCHANGED <<markers, asks, purges, faults>>

\* The timer sortcb has set 2.5 seconds ago, whatever is drawn by now
HideBar ==
    /\ page.timers > 0
    /\ page' = [page EXCEPT !.bar = "hidden", !.timers = @ - 1]
    /\ UNCHANGED <<markers, asks, purges, faults>>

\* Frames and moves of the map put markers on it and take them off, which
\* ViewerMap is about; both need the vectors.
Redraw ==
    /\ page.points # <<>>
    /\ markers' = ~ markers
    /\ UNCHANGED <<page, asks, purges, faults>>

-----------------------------------------------------------------------------

Init ==
    /\ page = Idle
    /\ markers = FALSE
    /\ asks = 0
    /\ purges = 0
    /\ faults = [k \in FaultKinds |-> 0]

User ==
    \/ \E ids \in IdLists : AskIds(ids)
    \/ \E q \in Queries : AskQuery(q)
    \/ \E log \in Direct : AskLogFile(log)
    \/ Purge

Answer(i) == Receive(i) \/ ReceiveEmpty(i) \/ ReceiveError(i) \/ Disconnect(i)

Next ==
    \/ User
    \/ \E i \in DOMAIN page.tasks : Answer(i)
    \/ \E w \in Workers : WorkerReplies(w)
    \/ HideBar
    \/ Redraw

Spec == Init /\ [][Next]_vars

\* Every transfer is answered or fails in the end, every worker works through
\* its messages, and timers fire.
MaxTasks == MaxAsks * (2 * Cardinality(Logs) + 2)
Fairness ==
    /\ \A i \in 1 .. MaxTasks : WF_vars(i \in DOMAIN page.tasks /\ Answer(i))
    /\ \A w \in Workers : WF_vars(WorkerReplies(w))
    /\ WF_vars(HideBar)

FairSpec == Spec /\ Fairness

-----------------------------------------------------------------------------
(* Properties *)

TypeOK ==
    /\ page.tasks \in Seq(Task)
    /\ page.queue \in Seq({i \in DOMAIN page.tasks :
                            page.tasks[i].kind = "log" /\ ~ page.tasks[i].started})
    /\ page.logIds \subseteq Logs
    /\ page.jobs \in [Workers -> Seq(Job)]
    /\ page.isBusy \in [Workers -> BOOLEAN]
    /\ page.index \in Workers
    /\ page.points \in Seq(Logs)
    /\ page.extra \in Extra
    /\ page.offered \subseteq Logs
    /\ page.bar \in {"hidden", "visible"}
    /\ page.timers \in Nat
    /\ markers \in BOOLEAN

\* The logs in a vector that is being sorted.
Sorting ==
    {log \in Logs : \E w \in Workers : \E k \in DOMAIN page.jobs[w] :
        /\ page.jobs[w][k].op = "sort"
        /\ log \in ToSet(page.jobs[w][k].points)}

\* Disconnect and ReceiveEmpty report the end of one transfer twice.
NoneReportedTwice == faults["network"] = 0 /\ faults["empty"] = 0

\* A log that the page takes for loaded, and will therefore not load again,
\* has its points in the vectors, unless it has none to show.
NothingLost ==
    NoneReportedTwice =>
    \A log \in page.logIds \ (Tiny \cup Redundant) :
        log \in ToSet(page.points) \cup Sorting

\* The points of a log are in the vectors at most once.
LoadedOnce == NoneReportedTwice => IsInjective(page.points)

\* The extra columns are read at the index of a point: they are there for
\* every point or not at all, and only while one log is on the map.
ExtraColumnsAligned ==
    NoneReportedTwice =>
    /\ page.extra # "short"
    /\ page.extra = "full" => Len(page.points) = 1

\* No more than Para + 1 files are downloaded at once.
BoundedDownloads ==
    NoneReportedTwice =>
    Cardinality({i \in DOMAIN page.tasks :
                    page.tasks[i].kind = "log" /\ InFlight(i)}) <= Para + 1

\* The bar goes away only when all of the work before drawing is over: no
\* transfer is open, no vector is with a worker, and markers have been asked
\* for of everything in the vectors.  That these are on the map by then nobody
\* promises: frames go on drawing, and the timer does not look at them.
BarHidesLast ==
    [][page.bar = "visible" /\ page'.bar = "hidden" /\ NoneReportedTwice =>
        /\ AllDone(page')
        /\ Sorting' = {}
        /\ ToSet(page'.points) = page'.offered]_vars


=============================================================================
