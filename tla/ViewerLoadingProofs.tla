------------------------ MODULE ViewerLoadingProofs ------------------------
(***************************************************************************)
(* What the run ViewLoads checks of ViewerLoading on a small instance,     *)
(* proved for all logs, lists, limits and numbers of workers.              *)
(***************************************************************************)
EXTENDS ViewerLoading, OrderingProofs

-----------------------------------------------------------------------------
(* The page, handler by handler *)

\* A transfer is done only after it has started, and fails or is called back
\* only after it is done.  Queries ask for pages within their limit.
SoundTask ==
    {t \in Task :
        /\ t.done => t.started
        /\ t.error \/ t.callbackDone => t.done
        /\ t.kind = "query" => t.of \in Queries /\ t.page \in 1 .. PageLimit[t.of]
        /\ t.kind # "query" => t.of \in Logs}

\* Workers parse and filter one log at a time.
SoundJob == {j \in Job : j.op # "sort" => Len(j.points) = 1}

SoundPage ==
    [tasks: Seq(SoundTask), queue: Seq(Nat), logIds: SUBSET Logs,
     jobs: [Workers -> Seq(SoundJob)], isBusy: [Workers -> BOOLEAN],
     index: Workers,
     points: Seq(Logs), extra: Extra, vast: BOOLEAN, offered: SUBSET Logs,
     bar: {"hidden", "visible"}, timers: Nat]

\* What waits in the queue are logs that have not started, each once.
Waiting(s) ==
    /\ \A k \in DOMAIN s.queue :
          /\ s.queue[k] \in DOMAIN s.tasks
          /\ s.tasks[s.queue[k]].kind = "log"
          /\ ~ s.tasks[s.queue[k]].started
    /\ \A k, l \in DOMAIN s.queue : s.queue[k] = s.queue[l] => k = l

Sound(s) == s \in SoundPage /\ Waiting(s)

\* The downloads of files that are not over: at most Para + 1.
Downloads(s) ==
    {i \in DOMAIN s.tasks :
        /\ s.tasks[i].kind = "log" /\ s.tasks[i].started
        /\ ~ s.tasks[i].callbackDone /\ ~ s.tasks[i].error}

Bounded(s) == Cardinality(Downloads(s)) <= Para + 1

-----------------------------------------------------------------------------
(* What is on its way to the map *)

\* AllDone says that there are none.
Open(s) ==
    {i \in DOMAIN s.tasks : ~ s.tasks[i].callbackDone /\ ~ s.tasks[i].error}

\* The logs a transfer asks for, with those it will ask for later.
Asked(t) ==
    IF t.kind = "query"
    THEN {log \in Logs : \E n \in t.page .. PageLimit[t.of] :
            log \in ToSet(Pages[t.of][n])}
    ELSE {t.of}

\* No log is asked for twice, or asked for while it is on the map.
AskedOnce(s) ==
    /\ \A i \in Open(s) : Asked(s.tasks[i]) \cap s.logIds = {}
    /\ \A i, j \in Open(s) :
          i # j => Asked(s.tasks[i]) \cap Asked(s.tasks[j]) = {}

\* A transfer that is done and still open is the file of a log that a worker
\* has.  The last page of a list ends as an error.
Handled(s) ==
    \A i \in DOMAIN s.tasks :
        LET t == s.tasks[i]
        IN  /\ t.done /\ t.kind # "log" => t.callbackDone \/ t.error
            /\ t.done /\ t.kind = "query" /\ t.page = PageLimit[t.of] => t.error

\* Each log that a worker has belongs to an open transfer that is done, and no
\* two of them to the same.
AtWork(s) ==
    /\ \A w \in Workers : \A k \in DOMAIN s.jobs[w] :
          LET j == s.jobs[w][k]
          IN  /\ j.op # "sort"
              /\ \E i \in Open(s) :
                    /\ s.tasks[i].kind = "log" /\ s.tasks[i].done
                    /\ s.tasks[i].of = j.points[1]
              /\ s.points = <<>> => j.op = "parse" /\ j.extra = "full"
    /\ \A v, w \in Workers : \A k \in DOMAIN s.jobs[v], l \in DOMAIN s.jobs[w] :
          s.jobs[v][k].points[1] = s.jobs[w][l].points[1] => v = w /\ k = l

\* The vectors hold the points of the logs in ids, each once.
Complete(points, ids) ==
    /\ \A k, l \in DOMAIN points : points[k] = points[l] => k = l
    /\ ToSet(points) \subseteq ids \ Tiny
    /\ ids \ (Tiny \cup Redundant) \subseteq ToSet(points)

Vectors(s) ==
    /\ Complete(s.points, s.logIds)
    /\ s.extra = IF Len(s.points) = 1 THEN "full" ELSE "none"

UnderWay(s) ==
    /\ s.bar = "visible" /\ s.timers = 0
    /\ s.offered \subseteq ToSet(s.points)
    /\ Vectors(s) /\ AtWork(s)

Loading(s) == Open(s) # {} /\ UnderWay(s)

SortingAt(s, w) ==
    /\ Len(s.jobs[w]) = 1
    /\ \A v \in Workers \ {w} : s.jobs[v] = <<>>
    /\ LET j == s.jobs[w][1]
       IN  /\ j.op = "sort" /\ j.points # <<>>
           /\ Len(j.points) = 1 => j.extra = "full"
           /\ Complete(j.points, s.logIds)
           /\ s.offered \subseteq ToSet(j.points)

BeingSorted(s) ==
    /\ Open(s) = {}
    /\ s.bar = "visible" /\ s.timers = 0
    /\ s.points = <<>> /\ s.extra = "none"
    /\ \E w \in Workers : SortingAt(s, w)

Shown(s) ==
    /\ Open(s) = {}
    /\ \/ s.bar = "visible" /\ s.timers = 1
       \/ s.bar = "hidden" /\ s.timers = 0
    /\ \A w \in Workers : s.jobs[w] = <<>>
    /\ Vectors(s)
    /\ s.offered = ToSet(s.points)

Orderly(s) ==
    /\ AskedOnce(s) /\ Handled(s)
    /\ Loading(s) \/ BeingSorted(s) \/ Shown(s)

\* A list has as many pages as the viewer asks for, none of them empty, and
\* names no log twice.
TidyLists ==
    /\ \A q \in Queries : \A n \in 1 .. PageLimit[q] :
          n <= Len(Pages[q]) /\ Pages[q][n] # <<>>
    /\ \A q \in Queries : \A m, n \in 1 .. PageLimit[q] :
          \A k \in DOMAIN Pages[q][m], l \in DOMAIN Pages[q][n] :
              Pages[q][m][k] = Pages[q][n][l] => m = n /\ k = l
    /\ \A ids \in IdLists : \A k, l \in DOMAIN ids : ids[k] = ids[l] => k = l

SoundInv ==
    /\ Sound(page)
    /\ faults \in [FaultKinds -> Nat]
    /\ faults["network"] = 0 => Bounded(page)

OrderlyInv == NoneReportedTwice => Orderly(page)

-----------------------------------------------------------------------------
LEMMA GetEachSteps ==
    ASSUME NEW s, NEW kind, NEW logs \in Seq(Logs)
    PROVE  \E after :
              /\ after[0] = s
              /\ \A n \in 1 .. Len(logs) :
                    after[n] = AddTask(after[n - 1], NewTask(kind, logs[n], 0))
              /\ GetEach(s, kind, logs) = after[Len(logs)]
<1> DEFINE N == Len(logs)
           Next1(t, n) == AddTask(t, NewTask(kind, logs[n], 0))
           Rec(f, m) == f = [n \in 0 .. m |-> IF n = 0 THEN s ELSE Next1(f[n - 1], n)]
           T == {m \in 0 .. N : ~ \E f : Rec(f, m)}
<1>1. N \in Nat
  OBVIOUS
<1>2. T = {}
  <2> SUFFICES ASSUME T # {} PROVE FALSE
    OBVIOUS
  <2>1. PICK m \in T : \A k \in T : m <= k
    <3>1. T \in SUBSET Nat
      BY <1>1
    <3> HIDE DEF T
    <3> QED
      BY <3>1, LeastNat
  <2>2. m \in 0 .. N /\ ~ \E f : Rec(f, m)
    BY <2>1
  <2>3. m # 0
    <3> DEFINE g == [n \in 0 .. 0 |-> s]
    <3>1. Rec(g, 0)
      OBVIOUS
    <3> QED
      BY <2>2, <3>1
  <2>4. m - 1 \in 0 .. N /\ m - 1 \notin T
    <3>1. m - 1 \in 0 .. N /\ ~ (m <= m - 1)
      BY <1>1, <2>2, <2>3
    <3> HIDE DEF T
    <3> QED
      BY <2>1, <3>1
  <2>5. PICK f : Rec(f, m - 1)
    BY <2>4
  <2> DEFINE g == [n \in 0 .. m |-> IF n = m THEN Next1(f[m - 1], m) ELSE f[n]]
  <2>6. Rec(g, m)
    <3>1. ASSUME NEW n \in 0 .. m
          PROVE  g[n] = IF n = 0 THEN s ELSE Next1(g[n - 1], n)
      <4> HIDE DEF Next1
      <4>1. CASE n = m
        <5>1. g[n] = Next1(f[m - 1], m) /\ g[n - 1] = f[m - 1]
          BY <1>1, <2>2, <2>3, <4>1
        <5> QED
          BY <2>3, <4>1, <5>1
      <4>2. CASE n # m
        <5>1. n \in 0 .. m - 1 /\ g[n] = f[n]
          BY <1>1, <2>2, <4>2
        <5>2. f[n] = IF n = 0 THEN s ELSE Next1(f[n - 1], n)
          BY <2>5, <5>1
        <5>3. n # 0 => g[n - 1] = f[n - 1]
          BY <1>1, <2>2, <4>2
        <5> QED
          BY <5>1, <5>2, <5>3
      <4> QED
        BY <4>1, <4>2
    <3> HIDE DEF Next1
    <3> QED
      BY <3>1
  <2> QED
    BY <2>2, <2>6
<1> DEFINE after == CHOOSE f : Rec(f, N)
<1>3. Rec(after, N)
  <2>1. \E f : Rec(f, N)
    BY <1>1, <1>2
  <2> QED
    BY <2>1
<1>4. GetEach(s, kind, logs) = after[N]
  BY DEF GetEach
<1> HIDE DEF after
<1>5. after[0] = s
  BY <1>1, <1>3
<1>6. \A n \in 1 .. N : after[n] = Next1(after[n - 1], n)
  <2> HIDE DEF Next1
  <2> QED
    BY <1>1, <1>3
<1> QED
  BY <1>4, <1>5, <1>6

-----------------------------------------------------------------------------
(* WWM *)

\* What a handler leaves alone.
SameXFM(s, t) == t.tasks = s.tasks /\ t.queue = s.queue /\ t.logIds = s.logIds
SameWWM(s, t) == t.jobs = s.jobs /\ t.isBusy = s.isBusy /\ t.index = s.index
SameMKS(s, t) ==
    t.points = s.points /\ t.extra = s.extra /\ t.vast = s.vast /\ t.offered = s.offered
SameBVM(s, t) == t.bar = s.bar /\ t.timers = s.timers

Sent(s, t, job) ==
    \E w \in Workers : t.jobs = [s.jobs EXCEPT ![w] = Append(s.jobs[w], job)]

LEMMA WorkerToDispatch ==
    ASSUME NEW s \in SoundPage
    PROVE  \E w \in Workers : GetWorkerForDispatch(s, w)
<1> DEFINE idle == {x \in Workers : ~ s.isBusy[x]}
           T == {u \in Nat : \A x \in idle : x <= u}
<1>0. Workers = 0 .. WorkerCount - 1 /\ WorkerCount \in Nat /\ WorkerCount > 0
  BY SizesAssumption DEF Workers
<1>1. CASE idle = {}
  <2>1. s.index \in Workers
    BY DEF SoundPage
  <2>2. (s.index + 1) % WorkerCount \in Workers
    BY <1>0, <2>1
  <2> QED
    BY <1>1, <2>2 DEF GetWorkerForDispatch
<1>2. CASE idle # {}
  <2>1. WorkerCount - 1 \in T
    BY <1>0
  <2>2. PICK u \in T : \A v \in T : u <= v
    <3>1. T \in SUBSET Nat /\ T # {}
      BY <2>1
    <3> HIDE DEF T
    <3> QED
      BY <3>1, LeastNat
  <2>3. u \in Nat /\ \A x \in idle : x <= u
    BY <2>2
  <2>4. u \in idle
    <3> SUFFICES ASSUME u \notin idle PROVE FALSE
      OBVIOUS
    <3>1. \A x \in idle : x \in Nat /\ x <= u - 1
      BY <1>0, <2>3
    <3>2. u - 1 \in T
      BY <1>2, <2>3, <3>1
    <3>3. ~ (u <= u - 1)
      BY <2>3
    <3> HIDE DEF T
    <3> QED
      BY <2>2, <3>2, <3>3
  <2> QED
    BY <1>2, <2>3, <2>4 DEF GetWorkerForDispatch
<1> QED
  BY <1>1, <1>2

LEMMA DispatchDoes ==
    ASSUME NEW s \in SoundPage, NEW job \in SoundJob
    PROVE  LET r == Dispatch(s, job)
           IN  /\ r \in SoundPage
               /\ SameXFM(s, r) /\ SameMKS(s, r) /\ SameBVM(s, r)
               /\ Sent(s, r, job)
<1> DEFINE w == CHOOSE x \in Workers : GetWorkerForDispatch(s, x)
           n == IF \A x \in Workers : s.isBusy[x] THEN w ELSE s.index
           r == Dispatch(s, job)
<1>1. w \in Workers
  BY WorkerToDispatch
<1>2. r = [s EXCEPT !.jobs[w] = Append(@, job),
                    !.isBusy[w] = TRUE,
                    !.index = IF \A x \in Workers : s.isBusy[x] THEN w ELSE @]
  BY DEF Dispatch, On
<1> HIDE DEF w
<1>3. n \in Workers
  BY <1>1 DEF SoundPage
<1>4. /\ s.jobs \in [Workers -> Seq(SoundJob)]
      /\ s.isBusy \in [Workers -> BOOLEAN]
  BY DEF SoundPage
<1>5. /\ [s.jobs EXCEPT ![w] = Append(s.jobs[w], job)] \in [Workers -> Seq(SoundJob)]
      /\ [s.isBusy EXCEPT ![w] = TRUE] \in [Workers -> BOOLEAN]
  BY <1>1, <1>4
<1>6. r = [s EXCEPT !.jobs = [s.jobs EXCEPT ![w] = Append(s.jobs[w], job)],
                    !.isBusy = [s.isBusy EXCEPT ![w] = TRUE],
                    !.index = n]
  BY <1>2 DEF SoundPage
<1> HIDE DEF n, r
<1>7. /\ r \in SoundPage
      /\ r.jobs = [s.jobs EXCEPT ![w] = Append(s.jobs[w], job)]
      /\ SameXFM(s, r) /\ SameMKS(s, r) /\ SameBVM(s, r)
  BY <1>3, <1>5, <1>6 DEF SoundPage, SameXFM, SameMKS, SameBVM
<1> QED
  BY <1>1, <1>7 DEF Sent, r

LEMMA ReportDoneDoes ==
    ASSUME NEW s \in SoundPage, NEW w \in Workers
    PROVE  LET r == ReportWorkerIsDone(s, w)
           IN  /\ r \in SoundPage
               /\ SameXFM(s, r) /\ SameMKS(s, r) /\ SameBVM(s, r)
               /\ r.jobs = s.jobs
<1>1. s.isBusy \in [Workers -> BOOLEAN]
  BY DEF SoundPage
<1>2. [s.isBusy EXCEPT ![w] = FALSE] \in [Workers -> BOOLEAN]
  BY <1>1
<1> QED
  BY <1>2 DEF ReportWorkerIsDone, SoundPage, SameXFM, SameMKS, SameBVM

LEMMA TerminateDoes ==
    ASSUME NEW s \in SoundPage
    PROVE  LET r == TerminateWorkers(s)
           IN  /\ r \in SoundPage
               /\ SameXFM(s, r) /\ SameMKS(s, r) /\ SameBVM(s, r)
               /\ \A w \in Workers : r.jobs[w] = <<>>
<1>1. /\ Idle.jobs = [w \in Workers |-> <<>>]
      /\ Idle.isBusy = [w \in Workers |-> FALSE]
  BY DEF Idle
<1>2. /\ Idle.jobs \in [Workers -> Seq(SoundJob)]
      /\ Idle.isBusy \in [Workers -> BOOLEAN]
      /\ 0 \in Workers
  BY <1>1, SizesAssumption DEF Workers
<1> QED
  BY <1>1, <1>2 DEF TerminateWorkers, SoundPage, SameXFM, SameMKS, SameBVM

-----------------------------------------------------------------------------
(* MKS, and the end of all transfers *)

LEMMA AddDataDoes ==
    ASSUME NEW s \in SoundPage, NEW points \in Seq(Logs), NEW extra \in Extra
    PROVE  LET r == AddData(s, points, extra)
           IN  /\ r \in SoundPage
               /\ SameXFM(s, r) /\ SameWWM(s, r) /\ SameBVM(s, r)
               /\ r.vast = s.vast /\ r.offered = s.offered
               /\ IF points = <<>> \/ (Len(points) = 1 /\ points[1] \in Tiny)
                  THEN r.points = s.points /\ r.extra = s.extra
                  ELSE /\ r.points = s.points \o points
                       /\ r.extra = IF s.points = <<>> /\ s.extra = "none"
                                    THEN extra ELSE "none"
<1>1. s.points \in Seq(Logs) /\ s.points \o points \in Seq(Logs) /\ "none" \in Extra
  BY DEF SoundPage, Extra
<1> QED
  BY <1>1 DEF AddData, SoundPage, SameXFM, SameWWM, SameBVM

LEMMA SortDoes ==
    ASSUME NEW s \in SoundPage
    PROVE  LET r == SortByQuadKey(s)
           IN  /\ r \in SoundPage
               /\ SameXFM(s, r) /\ SameBVM(s, r)
               /\ r.vast = s.vast /\ r.offered = s.offered
               /\ r.points = <<>> /\ r.extra = "none"
               /\ Sent(s, r, [op |-> "sort", points |-> s.points,
                              extra |-> IF s.extra = "none" THEN "short"
                                        ELSE s.extra])
<1> DEFINE job == [op |-> "sort", points |-> s.points,
                   extra |-> IF s.extra = "none" THEN "short" ELSE s.extra]
           d == Dispatch(s, job)
<1>1. job \in SoundJob
  BY DEF SoundJob, Job, SoundPage, Extra
<1> HIDE DEF job
<1>2. /\ d \in SoundPage
      /\ SameXFM(s, d) /\ SameMKS(s, d) /\ SameBVM(s, d)
      /\ Sent(s, d, job)
  BY <1>1, DispatchDoes
<1>3. SortByQuadKey(s) = [d EXCEPT !.points = <<>>, !.extra = "none"]
  BY DEF SortByQuadKey, job
<1> HIDE DEF d
<1>4. <<>> \in Seq(Logs) /\ "none" \in Extra
  BY DEF Extra
<1> DEFINE r == SortByQuadKey(s)
<1>5. /\ r \in SoundPage
      /\ SameXFM(d, r) /\ SameWWM(d, r) /\ SameBVM(d, r)
      /\ r.vast = d.vast /\ r.offered = d.offered
      /\ r.points = <<>> /\ r.extra = "none"
  BY <1>2, <1>3, <1>4 DEF SoundPage, SameXFM, SameWWM, SameBVM
<1> HIDE DEF r
<1>6. Sent(s, r, job)
  BY <1>2, <1>5 DEF Sent, SameWWM
<1>7. r \in SoundPage /\ r.points = <<>> /\ r.extra = "none"
  BY <1>5
<1>8. SameXFM(s, r) /\ SameBVM(s, r) /\ r.vast = s.vast /\ r.offered = s.offered
  BY <1>2, <1>5 DEF SameXFM, SameBVM, SameMKS
<1> QED
  BY <1>6, <1>7, <1>8 DEF r, job

LEMMA ShowDoes ==
    ASSUME NEW s \in SoundPage
    PROVE  LET r == ShowData(s)
           IN  /\ r \in SoundPage
               /\ SameXFM(s, r)
               /\ r.points = s.points /\ r.extra = s.extra /\ r.vast = s.vast
               /\ r.offered = IF s.points = <<>> THEN s.offered ELSE ToSet(s.points)
               /\ \A w \in Workers : r.jobs[w] = <<>>
               /\ r.bar = s.bar /\ r.timers = s.timers + 1
<1> DEFINE q == TerminateWorkers(s)
           d == IF s.points = <<>> THEN s.offered ELSE ToSet(s.points)
<1>1. /\ q \in SoundPage
      /\ SameXFM(s, q) /\ SameMKS(s, q) /\ SameBVM(s, q)
      /\ \A w \in Workers : q.jobs[w] = <<>>
  BY TerminateDoes
<1>2. ShowData(s) = [q EXCEPT !.offered = IF s.points = <<>> THEN @ ELSE ToSet(s.points),
                              !.timers = @ + 1]
  BY DEF ShowData
<1> HIDE DEF q
<1>3. s.points \in Seq(Logs) /\ s.offered \subseteq Logs /\ s.timers \in Nat
  BY DEF SoundPage
<1>4. d \subseteq Logs
  BY <1>3, ElementOfSeq DEF ToSet
<1>5. q.offered = s.offered /\ q.timers = s.timers
  BY <1>1 DEF SameMKS, SameBVM
<1>6. ShowData(s) = [q EXCEPT !.offered = d, !.timers = s.timers + 1]
  BY <1>1, <1>2, <1>5 DEF SoundPage
<1> HIDE DEF d
<1> DEFINE r == ShowData(s)
<1>7. /\ r \in SoundPage
      /\ SameXFM(q, r) /\ SameWWM(q, r)
      /\ r.points = q.points /\ r.extra = q.extra /\ r.vast = q.vast
      /\ r.offered = d
      /\ r.bar = q.bar /\ r.timers = s.timers + 1
  <2>1. q \in SoundPage /\ d \in SUBSET Logs /\ s.timers + 1 \in Nat
    BY <1>1, <1>3, <1>4
  <2> DEFINE n == s.timers + 1
  <2> HIDE DEF n
  <2>2. r = [q EXCEPT !.offered = d, !.timers = n]
    BY <1>6 DEF n
  <2>3. n \in Nat
    BY <2>1 DEF n
  <2> HIDE DEF r
  <2>4. r \in SoundPage
    BY <2>1, <2>2, <2>3 DEF SoundPage
  <2>5. /\ SameXFM(q, r) /\ SameWWM(q, r)
        /\ r.points = q.points /\ r.extra = q.extra /\ r.vast = q.vast
        /\ r.offered = d
        /\ r.bar = q.bar /\ r.timers = n
    BY <2>1, <2>2 DEF SoundPage, SameXFM, SameWWM
  <2> QED
    BY <2>4, <2>5 DEF n
<1> HIDE DEF r
<1>8. /\ SameXFM(s, r)
      /\ r.points = s.points /\ r.extra = s.extra /\ r.vast = s.vast
      /\ \A w \in Workers : r.jobs[w] = <<>>
      /\ r.bar = s.bar
  BY <1>1, <1>7 DEF SameXFM, SameWWM, SameMKS, SameBVM
<1> QED
  BY <1>7, <1>8 DEF d, r

LEMMA CallbackEndDoes ==
    ASSUME NEW s \in SoundPage
    PROVE  CallbackEnd(s) \in SoundPage /\ SameXFM(s, CallbackEnd(s))
           /\ CallbackEnd(s).bar = s.bar
<1>1. CallbackEnd(s) = IF s.points = <<>> \/ Len(s.points) >= SortLimit
                       THEN ShowData(s) ELSE SortByQuadKey(s)
  BY DEF CallbackEnd, On
<1> QED
  BY <1>1, ShowDoes, SortDoes DEF SameBVM

LEMMA PurgeDoes ==
    ASSUME NEW s \in SoundPage
    PROVE  LET r == PurgeData(s)
           IN  /\ r \in SoundPage
               /\ SameWWM(s, r) /\ SameBVM(s, r)
               /\ r.tasks = s.tasks /\ r.queue = s.queue
               /\ r.points = <<>> /\ r.extra = "none" /\ r.offered = {}
               /\ ~ NoUI => r.logIds = {}
<1>1. <<>> \in Seq(Logs) /\ "none" \in Extra
  BY DEF Extra
<1> QED
  BY <1>1 DEF PurgeData, ClearAllLogIds, SoundPage, SameWWM, SameBVM

-----------------------------------------------------------------------------
(* XFM: the tasks and the queue *)

\* Two states of a task that differ at most in whether it has started.
Alike(t, u) ==
    /\ t.kind = u.kind /\ t.of = u.of /\ t.page = u.page
    /\ t.done = u.done /\ t.error = u.error /\ t.callbackDone = u.callbackDone

AlikeTasks(s, t) ==
    /\ DOMAIN t.tasks = DOMAIN s.tasks
    /\ \A i \in DOMAIN s.tasks : Alike(s.tasks[i], t.tasks[i])

LEMMA TaskFacts ==
    ASSUME NEW s \in SoundPage
    PROVE  /\ s.tasks \in Seq(SoundTask) /\ Len(s.tasks) \in Nat
           /\ DOMAIN s.tasks = 1 .. Len(s.tasks)
           /\ \A i \in DOMAIN s.tasks : s.tasks[i] \in SoundTask
<1>1. s.tasks \in Seq(SoundTask)
  BY DEF SoundPage
<1> QED
  BY <1>1, LenProperties, ElementOfSeq

LEMMA SoundTaskFields ==
    ASSUME NEW t \in SoundTask
    PROVE  /\ t \in Task
           /\ t.kind \in {"log", "id", "query"}
           /\ t.started \in BOOLEAN /\ t.done \in BOOLEAN
           /\ t.error \in BOOLEAN /\ t.callbackDone \in BOOLEAN
           /\ t.done => t.started
           /\ t.error \/ t.callbackDone => t.done
           /\ t.kind = "query" => t.of \in Queries /\ t.page \in 1 .. PageLimit[t.of]
           /\ t.kind # "query" => t.of \in Logs
  BY DEF SoundTask, Task

LEMMA TaskChanged ==
    ASSUME NEW s \in SoundPage, NEW i \in DOMAIN s.tasks, NEW t \in SoundTask
    PROVE  LET r == [s EXCEPT !.tasks = [s.tasks EXCEPT ![i] = t]]
           IN  /\ r \in SoundPage
               /\ DOMAIN r.tasks = DOMAIN s.tasks
               /\ r.tasks[i] = t
               /\ \A j \in DOMAIN s.tasks : j # i => r.tasks[j] = s.tasks[j]
               /\ r.queue = s.queue /\ r.logIds = s.logIds
               /\ SameWWM(s, r) /\ SameMKS(s, r) /\ SameBVM(s, r)
<1> DEFINE ts == [s.tasks EXCEPT ![i] = t]
           r == [s EXCEPT !.tasks = ts]
<1>1. s.tasks \in Seq(SoundTask) /\ DOMAIN s.tasks = 1 .. Len(s.tasks)
  BY TaskFacts
<1>2. /\ ts \in Seq(SoundTask) /\ DOMAIN ts = DOMAIN s.tasks
      /\ ts[i] = t
      /\ \A j \in DOMAIN s.tasks : j # i => ts[j] = s.tasks[j]
  BY <1>1, ExceptSeq
<1> HIDE DEF ts
<1>3. /\ r \in SoundPage /\ r.tasks = ts
      /\ r.queue = s.queue /\ r.logIds = s.logIds
      /\ SameWWM(s, r) /\ SameMKS(s, r) /\ SameBVM(s, r)
  BY <1>2 DEF SoundPage, SameWWM, SameMKS, SameBVM
<1> QED
  BY <1>2, <1>3 DEF ts

LEMMA HttpGetDoes ==
    ASSUME NEW s \in SoundPage, NEW i \in DOMAIN s.tasks
    PROVE  LET r == HttpGet(s, i)
           IN  /\ r \in SoundPage
               /\ AlikeTasks(s, r)
               /\ r.tasks[i].started
               /\ \A j \in DOMAIN s.tasks : j # i => r.tasks[j] = s.tasks[j]
               /\ r.queue = s.queue /\ r.logIds = s.logIds
               /\ SameWWM(s, r) /\ SameMKS(s, r) /\ SameBVM(s, r)
<1> DEFINE t == [s.tasks[i] EXCEPT !.started = TRUE]
           r == [s EXCEPT !.tasks = [s.tasks EXCEPT ![i] = t]]
<1>1. s.tasks[i] \in SoundTask
  BY TaskFacts
<1>2. t \in SoundTask /\ Alike(s.tasks[i], t) /\ t.started
  BY <1>1 DEF SoundTask, Task, Alike
<1>3. HttpGet(s, i) = r
  BY DEF HttpGet, SoundPage
<1> HIDE DEF t
<1>4. /\ r \in SoundPage
      /\ DOMAIN r.tasks = DOMAIN s.tasks
      /\ r.tasks[i] = t
      /\ \A j \in DOMAIN s.tasks : j # i => r.tasks[j] = s.tasks[j]
      /\ r.queue = s.queue /\ r.logIds = s.logIds
      /\ SameWWM(s, r) /\ SameMKS(s, r) /\ SameBVM(s, r)
  BY <1>2, TaskChanged
<1> HIDE DEF r
<1>5. AlikeTasks(s, r)
  BY <1>2, <1>4 DEF AlikeTasks, Alike
<1> QED
  BY <1>2, <1>3, <1>4, <1>5

LEMMA OneMore ==
    ASSUME NEW S, IsFiniteSet(S), NEW x, NEW T, T \subseteq S \cup {x}
    PROVE  /\ IsFiniteSet(T) /\ Cardinality(T) \in Nat /\ Cardinality(S) \in Nat
           /\ Cardinality(T) <= Cardinality(S) + 1
<1> DEFINE U == S \cup {x}
<1>1. Cardinality(S) \in Nat
  BY FS_CardinalityType
<1>2. /\ IsFiniteSet(U)
      /\ Cardinality(U) = Cardinality(S) \/ Cardinality(U) = Cardinality(S) + 1
  BY FS_AddElement
<1> HIDE DEF U
<1>3. Cardinality(U) <= Cardinality(S) + 1 /\ Cardinality(U) \in Nat
  BY <1>1, <1>2
<1>4. /\ IsFiniteSet(T) /\ Cardinality(T) <= Cardinality(U)
      /\ Cardinality(T) \in Nat
  BY <1>2, FS_Subset, FS_CardinalityType DEF U
<1> QED
  BY <1>1, <1>3, <1>4

LEMMA DownloadsFinite ==
    ASSUME NEW s \in SoundPage
    PROVE  /\ IsFiniteSet(Downloads(s)) /\ Cardinality(Downloads(s)) \in Nat
           /\ IsFiniteSet(DOMAIN s.tasks)
<1>1. IsFiniteSet(DOMAIN s.tasks)
  BY TaskFacts, FS_Interval
<1>2. IsFiniteSet(Downloads(s))
  BY <1>1, FS_Subset DEF Downloads
<1> QED
  BY <1>1, <1>2, FS_CardinalityType

LEMMA ProcessNextDoes ==
    ASSUME NEW s, Sound(s)
    PROVE  LET r == ProcessNextInQueue(s)
           IN  /\ Sound(r)
               /\ AlikeTasks(s, r)
               /\ r.logIds = s.logIds
               /\ SameWWM(s, r) /\ SameMKS(s, r) /\ SameBVM(s, r)
               /\ s.queue = <<>> => r = s
               /\ \E j : Downloads(r) \subseteq Downloads(s) \cup {j}
<1> DEFINE r == ProcessNextInQueue(s)
<1>0. s \in SoundPage /\ Waiting(s)
  BY DEF Sound
<1>1. CASE s.queue = <<>>
  <2>1. r = s
    BY <1>1 DEF ProcessNextInQueue
  <2>2. AlikeTasks(s, s) /\ SameWWM(s, s) /\ SameMKS(s, s) /\ SameBVM(s, s)
    BY DEF AlikeTasks, Alike, SameWWM, SameMKS, SameBVM
  <2> QED
    BY <2>1, <2>2
<1>2. CASE s.queue # <<>>
  <2> DEFINE i == s.queue[Len(s.queue)]
             q == SubSeq(s.queue, 1, Len(s.queue) - 1)
             u == [s EXCEPT !.queue = q]
  <2>1. s.queue \in Seq(Nat) /\ Len(s.queue) \in Nat /\ Len(s.queue) > 0
        /\ DOMAIN s.queue = 1 .. Len(s.queue)
    BY <1>0, <1>2 DEF SoundPage
  <2>2. /\ q \in Seq(Nat) /\ DOMAIN q = 1 .. Len(s.queue) - 1
        /\ \A k \in 1 .. Len(s.queue) - 1 : q[k] = s.queue[k]
    BY <2>1
  <2>3. /\ i \in DOMAIN s.tasks /\ s.tasks[i].kind = "log" /\ ~ s.tasks[i].started
        /\ \A k \in 1 .. Len(s.queue) - 1 : s.queue[k] # i
    BY <1>0, <2>1 DEF Waiting
  <2>4. r = HttpGet(u, i)
    BY <1>2 DEF ProcessNextInQueue, Front, Last
  <2> HIDE DEF q, i
  <2>5. /\ u \in SoundPage /\ u.tasks = s.tasks /\ u.queue = q /\ u.logIds = s.logIds
        /\ SameWWM(s, u) /\ SameMKS(s, u) /\ SameBVM(s, u)
    BY <1>0, <2>2 DEF SoundPage, SameWWM, SameMKS, SameBVM
  <2> HIDE DEF u
  <2>6. /\ r \in SoundPage
        /\ AlikeTasks(u, r)
        /\ \A j \in DOMAIN s.tasks : j # i => r.tasks[j] = s.tasks[j]
        /\ r.queue = q /\ r.logIds = s.logIds
        /\ SameWWM(u, r) /\ SameMKS(u, r) /\ SameBVM(u, r)
    BY <2>3, <2>4, <2>5, HttpGetDoes
  <2> HIDE DEF r
  <2> DEFINE n == Len(s.queue)
  <2>10. /\ n \in Nat /\ DOMAIN s.queue = 1 .. n
         /\ DOMAIN q = 1 .. n - 1 /\ r.queue = q
         /\ \A k \in 1 .. n - 1 : q[k] = s.queue[k]
    BY <2>1, <2>2, <2>6
  <2>7. Waiting(r)
    <3> HIDE DEF n
    <3>0. \A k \in DOMAIN r.queue :
              k \in 1 .. n - 1 /\ k \in DOMAIN s.queue /\ r.queue[k] = s.queue[k]
      BY <2>10
    <3>1. ASSUME NEW k \in DOMAIN r.queue
          PROVE  /\ r.queue[k] \in DOMAIN r.tasks
                 /\ r.tasks[r.queue[k]].kind = "log"
                 /\ ~ r.tasks[r.queue[k]].started
      <4>1. k \in 1 .. n - 1 /\ k \in DOMAIN s.queue
            /\ r.queue[k] = s.queue[k]
        BY <3>0
      <4>2. /\ s.queue[k] \in DOMAIN s.tasks
            /\ s.tasks[s.queue[k]].kind = "log"
            /\ ~ s.tasks[s.queue[k]].started
        BY <1>0, <4>1 DEF Waiting
      <4>3. r.tasks[s.queue[k]] = s.tasks[s.queue[k]]
        BY <2>3, <2>6, <4>1, <4>2 DEF n
      <4> QED
        BY <2>5, <2>6, <4>1, <4>2, <4>3 DEF AlikeTasks
    <3>2. ASSUME NEW k \in DOMAIN r.queue, NEW l \in DOMAIN r.queue,
                 r.queue[k] = r.queue[l]
          PROVE  k = l
      BY <1>0, <3>0, <3>2 DEF Waiting
    <3> QED
      BY <3>1, <3>2 DEF Waiting
  <2>8. AlikeTasks(s, r) /\ SameWWM(s, r) /\ SameMKS(s, r) /\ SameBVM(s, r)
    BY <2>5, <2>6 DEF AlikeTasks, SameWWM, SameMKS, SameBVM
  <2>9. Downloads(r) \subseteq Downloads(s) \cup {i}
    BY <2>6, <2>8 DEF Downloads, AlikeTasks
  <2> QED
    BY <1>2, <2>6, <2>7, <2>8, <2>9 DEF Sound, r
<1> QED
  BY <1>1, <1>2

\* A task that starts at once, or waits in the queue when it is a log and
\* Para + 1 tasks are active.
LEMMA StartTaskDoes ==
    ASSUME NEW s, Sound(s), NEW i \in DOMAIN s.tasks, ~ s.tasks[i].started,
           \A k \in DOMAIN s.queue : s.queue[k] # i
    PROVE  LET r == StartTask(s, i)
           IN  /\ Sound(r)
               /\ AlikeTasks(s, r)
               /\ \A j \in DOMAIN s.tasks : j # i => r.tasks[j] = s.tasks[j]
               /\ r.logIds = s.logIds
               /\ SameWWM(s, r) /\ SameMKS(s, r) /\ SameBVM(s, r)
               /\ Bounded(s) => Bounded(r)
<1> DEFINE r == StartTask(s, i)
<1>0. s \in SoundPage /\ Waiting(s)
  BY DEF Sound
<1>1. CASE ActiveTaskCount(s) <= Para \/ s.tasks[i].kind # "log"
  <2>1. r = HttpGet(s, i)
    BY <1>1 DEF StartTask
  <2>2. /\ r \in SoundPage
        /\ AlikeTasks(s, r)
        /\ \A j \in DOMAIN s.tasks : j # i => r.tasks[j] = s.tasks[j]
        /\ r.queue = s.queue /\ r.logIds = s.logIds
        /\ SameWWM(s, r) /\ SameMKS(s, r) /\ SameBVM(s, r)
    BY <1>0, <2>1, HttpGetDoes
  <2> HIDE DEF r
  <2>3. Waiting(r)
    <3>1. \A k \in DOMAIN s.queue :
              /\ s.queue[k] \in DOMAIN s.tasks
              /\ r.tasks[s.queue[k]] = s.tasks[s.queue[k]]
      BY <1>0, <2>2 DEF Waiting
    <3> QED
      BY <1>0, <2>2, <3>1 DEF Waiting, AlikeTasks
  <2>4. ASSUME Bounded(s) PROVE Bounded(r)
    <3> DEFINE A == {j \in DOMAIN s.tasks :
                        s.tasks[j].started /\ ~ s.tasks[j].callbackDone}
    <3>1. /\ IsFiniteSet(Downloads(s)) /\ Cardinality(Downloads(s)) \in Nat
          /\ IsFiniteSet(DOMAIN s.tasks) /\ Para \in Nat
      BY <1>0, DownloadsFinite, SizesAssumption
    <3>2. CASE s.tasks[i].kind # "log"
      <4>1. Downloads(r) \subseteq Downloads(s)
        BY <2>2, <3>2 DEF Downloads, AlikeTasks, Alike
      <4>2. Cardinality(Downloads(r)) <= Cardinality(Downloads(s))
            /\ Cardinality(Downloads(r)) \in Nat
        BY <3>1, <4>1, FS_Subset, FS_CardinalityType
      <4> QED
        BY <2>4, <3>1, <4>2 DEF Bounded
    <3>3. CASE ActiveTaskCount(s) <= Para
      <4>1. Downloads(r) \subseteq Downloads(s) \cup {i}
        BY <2>2 DEF Downloads, AlikeTasks
      <4>2. IsFiniteSet(A) /\ Cardinality(A) <= Para
        <5>1. Cardinality(A) <= Para
          BY <3>3 DEF ActiveTaskCount
        <5>2. A \subseteq DOMAIN s.tasks
          OBVIOUS
        <5> HIDE DEF A
        <5> QED
          BY <3>1, <5>1, <5>2, FS_Subset
      <4>3. Downloads(s) \subseteq A
        BY DEF Downloads
      <4> HIDE DEF A
      <4>4. Cardinality(Downloads(s)) <= Cardinality(A) /\ Cardinality(A) \in Nat
        BY <4>2, <4>3, FS_Subset, FS_CardinalityType
      <4>5. /\ Cardinality(Downloads(r)) <= Cardinality(Downloads(s)) + 1
            /\ Cardinality(Downloads(r)) \in Nat
        BY <3>1, <4>1, OneMore
      <4> QED
        BY <3>1, <4>2, <4>4, <4>5 DEF Bounded
    <3> QED
      BY <1>1, <3>2, <3>3
  <2> QED
    BY <2>2, <2>3, <2>4 DEF Sound, r
<1>2. CASE ~ (ActiveTaskCount(s) <= Para \/ s.tasks[i].kind # "log")
  <2> DEFINE q == Append(s.queue, i)
             n == Len(s.queue)
  <2>1. r = [s EXCEPT !.queue = q]
    BY <1>2, <1>0 DEF StartTask, SoundPage
  <2>2. s.queue \in Seq(Nat) /\ i \in Nat /\ n \in Nat /\ DOMAIN s.queue = 1 .. n
    BY <1>0, TaskFacts DEF SoundPage
  <2>3. /\ q \in Seq(Nat) /\ DOMAIN q = 1 .. n + 1 /\ q[n + 1] = i
        /\ \A k \in 1 .. n : q[k] = s.queue[k]
    BY <2>2
  <2> HIDE DEF q, n
  <2>4. /\ r \in SoundPage /\ r.queue = q /\ r.tasks = s.tasks
        /\ r.logIds = s.logIds
        /\ SameWWM(s, r) /\ SameMKS(s, r) /\ SameBVM(s, r)
    BY <1>0, <2>1, <2>3 DEF SoundPage, SameWWM, SameMKS, SameBVM
  <2> HIDE DEF r
  <2>5. Waiting(r)
    <3>1. \A k \in DOMAIN r.queue :
              \/ k \in 1 .. n /\ k \in DOMAIN s.queue /\ r.queue[k] = s.queue[k]
              \/ k = n + 1 /\ r.queue[k] = i
      BY <2>2, <2>3, <2>4
    <3>2. s.tasks[i].kind = "log"
      BY <1>2
    <3>3. ASSUME NEW k \in DOMAIN r.queue
          PROVE  /\ r.queue[k] \in DOMAIN r.tasks
                 /\ r.tasks[r.queue[k]].kind = "log"
                 /\ ~ r.tasks[r.queue[k]].started
      BY <1>0, <2>4, <3>1, <3>2 DEF Waiting
    <3>4. ASSUME NEW k \in DOMAIN r.queue, NEW l \in DOMAIN r.queue,
                 r.queue[k] = r.queue[l]
          PROVE  k = l
      BY <1>0, <3>1, <3>4 DEF Waiting
    <3> QED
      BY <3>3, <3>4 DEF Waiting
  <2>6. AlikeTasks(s, r) /\ Downloads(r) = Downloads(s)
    BY <2>4 DEF AlikeTasks, Alike, Downloads
  <2> QED
    BY <2>4, <2>5, <2>6 DEF Sound, Bounded, r
<1> QED
  BY <1>1, <1>2

\* AddTask: nothing for a log on the map, and one more task otherwise.
LEMMA AddTaskDoes ==
    ASSUME NEW s, Sound(s), NEW t \in SoundTask, ~ t.started
    PROVE  LET r == AddTask(s, t)
               n == Len(s.tasks)
           IN  /\ Sound(r)
               /\ r.logIds = s.logIds /\ r.timers = s.timers
               /\ SameWWM(s, r) /\ SameMKS(s, r)
               /\ Bounded(s) => Bounded(r)
               /\ \A i \in DOMAIN s.tasks :
                     i \in DOMAIN r.tasks /\ r.tasks[i] = s.tasks[i]
               /\ IF t.kind = "log" /\ t.of \in s.logIds
                  THEN r = s
                  ELSE /\ Len(r.tasks) = n + 1
                       /\ Alike(t, r.tasks[n + 1])
                       /\ r.bar = "visible"
<1> DEFINE r == AddTask(s, t)
           n == Len(s.tasks)
           ts == Append(s.tasks, t)
           u == [s EXCEPT !.tasks = ts, !.bar = "visible"]
<1>0. s \in SoundPage /\ Waiting(s)
  BY DEF Sound
<1>1. CASE t.kind = "log" /\ t.of \in s.logIds
  <2>1. r = s
    BY <1>1 DEF AddTask, On
  <2>2. SameWWM(s, s) /\ SameMKS(s, s)
    BY DEF SameWWM, SameMKS
  <2> QED
    BY <1>1, <2>1, <2>2
<1>2. CASE ~ (t.kind = "log" /\ t.of \in s.logIds)
  <2>1. r = StartTask(u, n + 1)
    BY <1>0, <1>2 DEF AddTask, On, SoundPage
  <2>2. s.tasks \in Seq(SoundTask) /\ n \in Nat /\ DOMAIN s.tasks = 1 .. n
    BY <1>0, TaskFacts
  <2>3. /\ ts \in Seq(SoundTask) /\ DOMAIN ts = 1 .. n + 1 /\ ts[n + 1] = t
        /\ \A k \in 1 .. n : ts[k] = s.tasks[k]
    BY <2>2
  <2> HIDE DEF ts, n
  <2>4. /\ u \in SoundPage /\ u.tasks = ts /\ u.queue = s.queue
        /\ u.logIds = s.logIds /\ u.timers = s.timers /\ u.bar = "visible"
        /\ SameWWM(s, u) /\ SameMKS(s, u)
    BY <1>0, <2>3 DEF SoundPage, SameWWM, SameMKS
  <2> HIDE DEF u
  <2>5. \A k \in DOMAIN s.tasks :
            k \in DOMAIN u.tasks /\ u.tasks[k] = s.tasks[k] /\ k # n + 1
    BY <2>2, <2>3, <2>4
  <2>6. \A k \in DOMAIN u.tasks : k = n + 1 \/ k \in DOMAIN s.tasks
    BY <2>2, <2>3, <2>4
  <2>7. n + 1 \in DOMAIN u.tasks /\ u.tasks[n + 1] = t
    BY <2>2, <2>3, <2>4
  <2>8. /\ Waiting(u)
        /\ \A k \in DOMAIN u.queue : u.queue[k] # n + 1
    BY <1>0, <2>4, <2>5 DEF Waiting
  <2>9. Downloads(u) = Downloads(s)
    <3>1. Downloads(u) \subseteq Downloads(s)
      BY <2>5, <2>6, <2>7 DEF Downloads
    <3>2. Downloads(s) \subseteq Downloads(u)
      BY <2>5 DEF Downloads
    <3> QED
      BY <3>1, <3>2
  <2> HIDE DEF r
  <2>10. /\ Sound(r)
         /\ AlikeTasks(u, r)
         /\ \A j \in DOMAIN u.tasks : j # n + 1 => r.tasks[j] = u.tasks[j]
         /\ r.logIds = u.logIds
         /\ SameWWM(u, r) /\ SameMKS(u, r) /\ SameBVM(u, r)
         /\ Bounded(u) => Bounded(r)
    BY <2>1, <2>4, <2>7, <2>8, StartTaskDoes DEF Sound
  <2>11. Len(r.tasks) = n + 1 /\ Alike(t, r.tasks[n + 1])
    <3>1. DOMAIN r.tasks = 1 .. n + 1
      BY <2>3, <2>4, <2>10 DEF AlikeTasks
    <3>2. DOMAIN r.tasks = 1 .. Len(r.tasks) /\ Len(r.tasks) \in Nat
      BY <2>10, TaskFacts DEF Sound
    <3>3. Len(r.tasks) = n + 1
      BY <2>2, <3>1, <3>2
    <3> QED
      BY <2>7, <2>10, <3>3 DEF AlikeTasks
  <2>12. \A i \in DOMAIN s.tasks : i \in DOMAIN r.tasks /\ r.tasks[i] = s.tasks[i]
    BY <2>5, <2>10 DEF AlikeTasks
  <2>13. SameWWM(s, r) /\ SameMKS(s, r) /\ r.timers = s.timers /\ r.bar = "visible"
    BY <2>4, <2>10 DEF SameWWM, SameMKS, SameBVM
  <2>14. Bounded(s) => Bounded(r)
    BY <2>9, <2>10 DEF Bounded
  <2>15. r.logIds = s.logIds
    BY <2>4, <2>10
  <2> QED
    BY <1>2, <2>10, <2>11, <2>12, <2>13, <2>14, <2>15 DEF r, n
<1> QED
  BY <1>1, <1>2

-----------------------------------------------------------------------------
(* A transfer for each log of a list *)

\* r is s after the first n of logs have been asked for.
AskedFor(s, r, kind, logs, n) ==
    /\ Sound(r)
    /\ r.logIds = s.logIds /\ r.timers = s.timers
    /\ SameWWM(s, r) /\ SameMKS(s, r)
    /\ Bounded(s) => Bounded(r)
    /\ \A i \in DOMAIN s.tasks : i \in DOMAIN r.tasks /\ r.tasks[i] = s.tasks[i]
    /\ (kind = "log" => ToSet(logs) \cap s.logIds = {}) =>
          /\ Len(r.tasks) = Len(s.tasks) + n
          /\ \A k \in 1 .. n :
                Alike(NewTask(kind, logs[k], 0), r.tasks[Len(s.tasks) + k])
          /\ IF n = 0 THEN r = s ELSE r.bar = "visible"

LEMMA NewTaskSound ==
    ASSUME NEW kind \in {"log", "id"}, NEW log \in Logs
    PROVE  /\ NewTask(kind, log, 0) \in SoundTask
           /\ ~ NewTask(kind, log, 0).started
           /\ NewTask(kind, log, 0).kind = kind /\ NewTask(kind, log, 0).of = log
  BY DEF NewTask, SoundTask, Task

LEMMA NewQuerySound ==
    ASSUME NEW q \in Queries, NEW n \in 1 .. PageLimit[q]
    PROVE  /\ NewTask("query", q, n) \in SoundTask
           /\ ~ NewTask("query", q, n).started
           /\ NewTask("query", q, n).kind = "query"
<1>1. PageLimit[q] \in Nat
  BY LogsAssumption
<1> QED
  BY <1>1 DEF NewTask, SoundTask, Task

LEMMA AskedForOneMore ==
    ASSUME NEW s, Sound(s), NEW kind \in {"log", "id"}, NEW logs \in Seq(Logs),
           NEW n \in 1 .. Len(logs), NEW r, AskedFor(s, r, kind, logs, n - 1)
    PROVE  AskedFor(s, AddTask(r, NewTask(kind, logs[n], 0)), kind, logs, n)
<1> DEFINE t == NewTask(kind, logs[n], 0)
           v == AddTask(r, t)
           fresh == kind = "log" => ToSet(logs) \cap s.logIds = {}
           L == Len(s.tasks)
<1>0. /\ Len(logs) \in Nat /\ n \in Nat /\ n # 0 /\ DOMAIN logs = 1 .. Len(logs)
      /\ logs[n] \in Logs /\ logs[n] \in ToSet(logs)
  BY ElementOfSeq DEF ToSet
<1>1. t \in SoundTask /\ ~ t.started /\ t.kind = kind /\ t.of = logs[n]
  BY <1>0, NewTaskSound
<1>2. /\ Sound(r)
      /\ r.logIds = s.logIds /\ r.timers = s.timers
      /\ SameWWM(s, r) /\ SameMKS(s, r)
      /\ Bounded(s) => Bounded(r)
      /\ \A i \in DOMAIN s.tasks : i \in DOMAIN r.tasks /\ r.tasks[i] = s.tasks[i]
  BY DEF AskedFor
<1>3. fresh => /\ Len(r.tasks) = L + (n - 1)
               /\ \A k \in 1 .. n - 1 :
                     Alike(NewTask(kind, logs[k], 0), r.tasks[L + k])
  BY DEF AskedFor
<1> HIDE DEF t
<1>4. /\ Sound(v)
      /\ v.logIds = r.logIds /\ v.timers = r.timers
      /\ SameWWM(r, v) /\ SameMKS(r, v)
      /\ Bounded(r) => Bounded(v)
      /\ \A i \in DOMAIN r.tasks : i \in DOMAIN v.tasks /\ v.tasks[i] = r.tasks[i]
      /\ ~ (t.kind = "log" /\ t.of \in r.logIds) =>
            /\ Len(v.tasks) = Len(r.tasks) + 1
            /\ Alike(t, v.tasks[Len(r.tasks) + 1])
            /\ v.bar = "visible"
  BY <1>1, <1>2, AddTaskDoes
<1>5. L \in Nat /\ DOMAIN s.tasks = 1 .. L
      /\ DOMAIN r.tasks = 1 .. Len(r.tasks)
  BY <1>2, TaskFacts DEF Sound
<1> HIDE DEF v, L
<1>6. /\ v.logIds = s.logIds /\ v.timers = s.timers
      /\ SameWWM(s, v) /\ SameMKS(s, v)
      /\ Bounded(s) => Bounded(v)
      /\ \A i \in DOMAIN s.tasks : i \in DOMAIN v.tasks /\ v.tasks[i] = s.tasks[i]
  BY <1>2, <1>4 DEF SameWWM, SameMKS
<1>7. ASSUME fresh
      PROVE  /\ Len(v.tasks) = L + n
             /\ v.bar = "visible"
             /\ \A k \in 1 .. n :
                   Alike(NewTask(kind, logs[k], 0), v.tasks[L + k])
  <2>1. ~ (t.kind = "log" /\ t.of \in r.logIds)
    BY <1>0, <1>1, <1>2, <1>7
  <2>2. Len(r.tasks) = L + n - 1
    BY <1>0, <1>3, <1>5, <1>7
  <2>3. Len(r.tasks) + 1 = L + n
    BY <1>0, <1>5, <2>2
  <2>4. Len(v.tasks) = L + n /\ v.bar = "visible" /\ Alike(t, v.tasks[L + n])
    BY <1>4, <2>1, <2>3
  <2>5. ASSUME NEW k \in 1 .. n
        PROVE  Alike(NewTask(kind, logs[k], 0), v.tasks[L + k])
    <3>1. CASE k = n
      BY <2>4, <3>1 DEF t
    <3>2. CASE k # n
      <4>1. k \in 1 .. n - 1 /\ L + k \in DOMAIN r.tasks
        BY <1>0, <1>5, <2>2, <3>2
      <4> QED
        BY <1>3, <1>4, <1>7, <4>1
    <3> QED
      BY <3>1, <3>2
  <2> QED
    BY <2>4, <2>5
<1>8. Sound(v)
  BY <1>4
<1> HIDE DEF fresh
<1>9. AskedFor(s, v, kind, logs, n)
  BY <1>0, <1>6, <1>7, <1>8 DEF AskedFor, fresh, L
<1> QED
  BY <1>9 DEF v, t

LEMMA GetEachDoes ==
    ASSUME NEW s, Sound(s), NEW kind \in {"log", "id"}, NEW logs \in Seq(Logs)
    PROVE  AskedFor(s, GetEach(s, kind, logs), kind, logs, Len(logs))
<1> DEFINE N == Len(logs)
<1>1. N \in Nat
  OBVIOUS
<1>2. PICK after :
          /\ after[0] = s
          /\ \A n \in 1 .. N :
                after[n] = AddTask(after[n - 1], NewTask(kind, logs[n], 0))
          /\ GetEach(s, kind, logs) = after[N]
  BY GetEachSteps
<1> DEFINE T == {n \in 0 .. N : ~ AskedFor(s, after[n], kind, logs, n)}
<1>3. AskedFor(s, s, kind, logs, 0)
  <2>1. SameWWM(s, s) /\ SameMKS(s, s) /\ Len(s.tasks) \in Nat
    BY TaskFacts DEF SameWWM, SameMKS, Sound
  <2> QED
    BY <2>1 DEF AskedFor
<1>4. T = {}
  <2> SUFFICES ASSUME T # {} PROVE FALSE
    OBVIOUS
  <2>1. T \in SUBSET Nat
    BY <1>1
  <2>2. PICK n \in T : \A m \in T : n <= m
    <3> HIDE DEF T
    <3> QED
      BY <2>1, LeastNat
  <2>3. n \in 0 .. N /\ ~ AskedFor(s, after[n], kind, logs, n)
    BY <2>2
  <2>4. n # 0
    BY <1>2, <1>3, <2>3
  <2>5. n \in 1 .. N /\ n - 1 \in 0 .. N /\ ~ (n <= n - 1)
    BY <1>1, <2>3, <2>4
  <2>6. n - 1 \notin T
    <3> HIDE DEF T
    <3> QED
      BY <2>2, <2>5
  <2>7. AskedFor(s, after[n - 1], kind, logs, n - 1)
    BY <2>5, <2>6
  <2>8. AskedFor(s, after[n], kind, logs, n)
    BY <1>2, <2>5, <2>7, AskedForOneMore
  <2> QED
    BY <2>3, <2>8
<1> QED
  BY <1>1, <1>2, <1>4

-----------------------------------------------------------------------------
(* The end of a transfer *)

LEMMA SameTasksSound ==
    ASSUME NEW s, Sound(s), NEW r \in SoundPage, r.tasks = s.tasks, r.queue = s.queue
    PROVE  /\ Sound(r) /\ Downloads(r) = Downloads(s) /\ Open(r) = Open(s)
           /\ Bounded(s) => Bounded(r)
<1>1. Waiting(r)
  BY DEF Sound, Waiting
<1>2. Downloads(r) = Downloads(s) /\ Open(r) = Open(s)
  BY DEF Downloads, Open
<1> QED
  BY <1>1, <1>2 DEF Sound, Bounded

LEMMA FirstIsOne ==
    ASSUME NEW I \in SUBSET Nat, I # {}
    PROVE  First(I) \in I
  BY LeastNat DEF First

\* What follows when a task is over: the end of all of them, perhaps.
Ended(x) == IF Open(x) = {} THEN CallbackEnd(x) ELSE x

LEMMA EndedSound ==
    ASSUME NEW x, Sound(x)
    PROVE  /\ Sound(Ended(x)) /\ SameXFM(x, Ended(x))
           /\ Downloads(Ended(x)) = Downloads(x)
           /\ Bounded(x) => Bounded(Ended(x))
<1>1. x \in SoundPage
  BY DEF Sound
<1>2. Ended(x) \in SoundPage /\ SameXFM(x, Ended(x))
  BY <1>1, CallbackEndDoes DEF Ended, SameXFM
<1> QED
  BY <1>2, SameTasksSound DEF SameXFM

\* x is s with task i called back, and its log taken for loaded.
CalledBack(s, x, i) ==
    /\ Sound(x)
    /\ DOMAIN x.tasks = DOMAIN s.tasks
    /\ x.tasks[i] = [s.tasks[i] EXCEPT !.callbackDone = TRUE]
    /\ \A j \in DOMAIN s.tasks : j # i => x.tasks[j] = s.tasks[j]
    /\ x.queue = s.queue
    /\ x.logIds = IF s.tasks[i].kind = "log" THEN s.logIds \cup {s.tasks[i].of}
                  ELSE s.logIds
    /\ SameWWM(s, x) /\ SameMKS(s, x) /\ SameBVM(s, x)

LEMMA XFCallbackDoes ==
    ASSUME NEW s, NEW i
    PROVE  LET u == UpdateLogIdsFromXF(s, i)
               x == IF u.tasks[i].kind = "log" /\ u.tasks[i].error
                    THEN ProcessNextInQueue(u) ELSE u
           IN  XFCallback(s, i) = Ended(x)
<1>1. \A x : AllDone(x) <=> Open(x) = {}
  BY DEF AllDone, Open
<1> QED
  BY <1>1 DEF XFCallback, On, Ended

LEMMA SetSuccessDoes ==
    ASSUME NEW s, Sound(s), NEW i \in DOMAIN s.tasks, s.tasks[i].done,
           s.tasks[i].kind = "log" => ~ s.tasks[i].error
    PROVE  \E x : CalledBack(s, x, i) /\ SetSuccess(s, i) = Ended(x)
<1> DEFINE t == [s.tasks[i] EXCEPT !.callbackDone = TRUE]
           v == [s EXCEPT !.tasks = [s.tasks EXCEPT ![i] = t]]
           ids == IF t.kind = "log" THEN s.logIds \cup {t.of} ELSE s.logIds
           x == [v EXCEPT !.logIds = ids]
<1>0. s \in SoundPage /\ Waiting(s) /\ s.tasks[i] \in SoundTask
  BY TaskFacts DEF Sound
<1>1. /\ t \in SoundTask /\ t.kind = s.tasks[i].kind /\ t.of = s.tasks[i].of
      /\ t.callbackDone /\ t.error = s.tasks[i].error
      /\ t.started = s.tasks[i].started
  BY <1>0 DEF SoundTask, Task
<1>2. [s EXCEPT !.tasks[i].callbackDone = TRUE] = v
  BY <1>0 DEF SoundPage
<1> HIDE DEF t
<1>3. /\ v \in SoundPage
      /\ DOMAIN v.tasks = DOMAIN s.tasks
      /\ v.tasks[i] = t
      /\ \A j \in DOMAIN s.tasks : j # i => v.tasks[j] = s.tasks[j]
      /\ v.queue = s.queue /\ v.logIds = s.logIds
      /\ SameWWM(s, v) /\ SameMKS(s, v) /\ SameBVM(s, v)
  BY <1>0, <1>1, TaskChanged
<1> HIDE DEF v
<1>4. ids \in SUBSET Logs
  BY <1>0, <1>1, SoundTaskFields DEF SoundPage
<1>5. UpdateLogIdsFromXF(v, i) = x
  <2>1. t.kind = "log" => ~ t.error
    BY <1>1
  <2>2. v.tasks[i] = t /\ t.callbackDone /\ v.logIds = s.logIds
    BY <1>1, <1>3
  <2>3. CASE t.kind = "log"
    BY <1>3, <2>1, <2>2, <2>3 DEF UpdateLogIdsFromXF, On, SoundPage
  <2>4. CASE t.kind # "log"
    <3>1. x = v
      BY <1>3, <2>4 DEF SoundPage
    <3> QED
      BY <2>2, <2>4, <3>1 DEF UpdateLogIdsFromXF, On
  <2> QED
    BY <2>3, <2>4
<1> HIDE DEF ids
<1>6. /\ x \in SoundPage /\ x.tasks = v.tasks /\ x.queue = v.queue /\ x.logIds = ids
      /\ SameWWM(v, x) /\ SameMKS(v, x) /\ SameBVM(v, x)
  BY <1>3, <1>4 DEF SoundPage, SameWWM, SameMKS, SameBVM
<1> HIDE DEF x
<1>7. Sound(x)
  <2>1. \A j \in DOMAIN s.tasks :
            /\ x.tasks[j].kind = s.tasks[j].kind
            /\ x.tasks[j].started = s.tasks[j].started
    BY <1>1, <1>3, <1>6
  <2>2. Waiting(x)
    BY <1>0, <1>3, <1>6, <2>1 DEF Waiting
  <2> QED
    BY <1>6, <2>2 DEF Sound
<1>8. CalledBack(s, x, i)
  BY <1>1, <1>3, <1>6, <1>7
     DEF CalledBack, SameWWM, SameMKS, SameBVM, ids, t
<1>9. SetSuccess(s, i) = Ended(x)
  <2>1. SetSuccess(s, i) = XFCallback(v, i)
    BY <1>2 DEF SetSuccess
  <2>2. ~ (x.tasks[i].kind = "log" /\ x.tasks[i].error)
    BY <1>1, <1>3, <1>6
  <2> QED
    BY <1>5, <2>1, <2>2, XFCallbackDoes
<1> QED
  BY <1>8, <1>9

\* x is s with task i failed, and perhaps a task of the queue in its place.
Failed(s, x, i) ==
    /\ Sound(x)
    /\ DOMAIN x.tasks = DOMAIN s.tasks
    /\ Alike([s.tasks[i] EXCEPT !.done = TRUE, !.error = TRUE], x.tasks[i])
    /\ \A j \in DOMAIN s.tasks : j # i => Alike(s.tasks[j], x.tasks[j])
    /\ x.logIds = s.logIds
    /\ SameWWM(s, x) /\ SameMKS(s, x) /\ SameBVM(s, x)
    /\ \E j : Downloads(x) \subseteq (Downloads(s) \ {i}) \cup {j}
    /\ s.tasks[i].kind # "log" => Downloads(x) \subseteq Downloads(s)

LEMMA SetErrorDoes ==
    ASSUME NEW s, Sound(s), NEW i \in DOMAIN s.tasks, s.tasks[i].started
    PROVE  \E x : Failed(s, x, i) /\ SetError(s, i) = Ended(x)
<1> DEFINE t == [s.tasks[i] EXCEPT !.done = TRUE, !.error = TRUE]
           v == [s EXCEPT !.tasks = [s.tasks EXCEPT ![i] = t]]
           x == IF t.kind = "log" THEN ProcessNextInQueue(v) ELSE v
<1>0. s \in SoundPage /\ Waiting(s) /\ s.tasks[i] \in SoundTask
  BY TaskFacts DEF Sound
<1>1. /\ t \in SoundTask /\ t.kind = s.tasks[i].kind /\ t.of = s.tasks[i].of
      /\ t.error /\ t.started = s.tasks[i].started
  BY <1>0 DEF SoundTask, Task
<1>2. [s EXCEPT !.tasks[i].done = TRUE, !.tasks[i].error = TRUE] = v
  BY <1>0 DEF SoundPage
<1> HIDE DEF t
<1>3. /\ v \in SoundPage
      /\ DOMAIN v.tasks = DOMAIN s.tasks
      /\ v.tasks[i] = t
      /\ \A j \in DOMAIN s.tasks : j # i => v.tasks[j] = s.tasks[j]
      /\ v.queue = s.queue /\ v.logIds = s.logIds
      /\ SameWWM(s, v) /\ SameMKS(s, v) /\ SameBVM(s, v)
  BY <1>0, <1>1, TaskChanged
<1> HIDE DEF v
<1>4. Sound(v)
  <2>1. \A j \in DOMAIN s.tasks :
            /\ v.tasks[j].kind = s.tasks[j].kind
            /\ v.tasks[j].started = s.tasks[j].started
    BY <1>1, <1>3
  <2>2. Waiting(v)
    BY <1>0, <1>3, <2>1 DEF Waiting
  <2> QED
    BY <1>3, <2>2 DEF Sound
<1>5. Downloads(v) \subseteq Downloads(s) \ {i}
  BY <1>1, <1>3 DEF Downloads
<1>6. AlikeTasks(v, v) /\ SameWWM(v, v) /\ SameMKS(v, v) /\ SameBVM(v, v)
  BY DEF AlikeTasks, Alike, SameWWM, SameMKS, SameBVM
<1>7. /\ Sound(x) /\ AlikeTasks(v, x) /\ x.logIds = v.logIds
      /\ SameWWM(v, x) /\ SameMKS(v, x) /\ SameBVM(v, x)
      /\ \E j : Downloads(x) \subseteq Downloads(v) \cup {j}
      /\ t.kind # "log" => x = v
  BY <1>4, <1>6, ProcessNextDoes
<1> HIDE DEF x
<1>8. Failed(s, x, i)
  <2>1. Alike(t, x.tasks[i])
    BY <1>3, <1>7 DEF AlikeTasks
  <2>2. DOMAIN x.tasks = DOMAIN s.tasks
        /\ \A j \in DOMAIN s.tasks : j # i => Alike(s.tasks[j], x.tasks[j])
    BY <1>3, <1>7 DEF AlikeTasks
  <2>3. \E j : Downloads(x) \subseteq (Downloads(s) \ {i}) \cup {j}
    BY <1>5, <1>7
  <2>4. s.tasks[i].kind # "log" => Downloads(x) \subseteq Downloads(s)
    BY <1>1, <1>5, <1>7
  <2>5. SameWWM(s, x) /\ SameMKS(s, x) /\ SameBVM(s, x) /\ x.logIds = s.logIds
    BY <1>3, <1>7 DEF SameWWM, SameMKS, SameBVM
  <2> QED
    BY <1>7, <2>1, <2>2, <2>3, <2>4, <2>5 DEF Failed, t
<1>9. SetError(s, i) = Ended(x)
  <2>1. SetError(s, i) = XFCallback(v, i)
    BY <1>2 DEF SetError
  <2>2. UpdateLogIdsFromXF(v, i) = v
    BY <1>1, <1>3 DEF UpdateLogIdsFromXF, On
  <2>3. v.tasks[i].error /\ v.tasks[i].kind = t.kind
    BY <1>1, <1>3
  <2> QED
    BY <2>1, <2>2, <2>3, XFCallbackDoes DEF x
<1> QED
  BY <1>8, <1>9

-----------------------------------------------------------------------------
(* What every handler keeps: a sound page, and the bound on the downloads *)

Keeps(s, r) ==
    /\ Sound(r)
    /\ Bounded(s) => Bounded(r)
    /\ \A j \in DOMAIN s.tasks :
          /\ j \in DOMAIN r.tasks /\ r.tasks[j].kind = s.tasks[j].kind
          /\ s.tasks[j].done => r.tasks[j].done

LEMMA KeepsTwice ==
    ASSUME NEW s, NEW t, NEW r, Keeps(s, t), Keeps(t, r)
    PROVE  Keeps(s, r)
  BY DEF Keeps

LEMMA KeepsSameTasks ==
    ASSUME NEW s, Sound(s), NEW r \in SoundPage, SameXFM(s, r)
    PROVE  Keeps(s, r)
  BY SameTasksSound DEF Keeps, SameXFM

LEMMA FewerDownloads ==
    ASSUME NEW s \in SoundPage, NEW r, Downloads(r) \subseteq Downloads(s), Bounded(s)
    PROVE  Bounded(r)
<1>1. /\ IsFiniteSet(Downloads(s)) /\ Cardinality(Downloads(s)) \in Nat
      /\ Para \in Nat
  BY DownloadsFinite, SizesAssumption
<1>2. /\ Cardinality(Downloads(r)) \in Nat
      /\ Cardinality(Downloads(r)) <= Cardinality(Downloads(s))
  BY <1>1, FS_Subset, FS_CardinalityType
<1> QED
  BY <1>1, <1>2 DEF Bounded

\* One download in the place of another.
LEMMA SwappedDownload ==
    ASSUME NEW s \in SoundPage, NEW r, NEW i \in Downloads(s), NEW j,
           Downloads(r) \subseteq (Downloads(s) \ {i}) \cup {j}, Bounded(s)
    PROVE  Bounded(r)
<1> DEFINE D == Downloads(s) \ {i}
<1>1. /\ IsFiniteSet(Downloads(s)) /\ Cardinality(Downloads(s)) \in Nat
      /\ Para \in Nat
  BY DownloadsFinite, SizesAssumption
<1>2. IsFiniteSet(D) /\ Cardinality(D) = Cardinality(Downloads(s)) - 1
  BY <1>1, FS_RemoveElement
<1> HIDE DEF D
<1>3. /\ Cardinality(Downloads(r)) \in Nat /\ Cardinality(D) \in Nat
      /\ Cardinality(Downloads(r)) <= Cardinality(D) + 1
  BY <1>2, OneMore DEF D
<1> QED
  BY <1>1, <1>2, <1>3 DEF Bounded

LEMMA CalledBackKeeps ==
    ASSUME NEW s, Sound(s), NEW i \in DOMAIN s.tasks, NEW x, CalledBack(s, x, i)
    PROVE  /\ Keeps(s, x)
           /\ Downloads(x) \subseteq Downloads(s) \ {i}
<1>1. s \in SoundPage /\ s.tasks[i] \in SoundTask
  BY TaskFacts DEF Sound
<1>2. /\ x.tasks[i].callbackDone /\ x.tasks[i].done = s.tasks[i].done
      /\ x.tasks[i].kind = s.tasks[i].kind
  BY <1>1 DEF CalledBack, SoundTask, Task
<1>3. Downloads(x) \subseteq Downloads(s) \ {i}
  BY <1>2 DEF CalledBack, Downloads
<1>4. Bounded(s) => Bounded(x)
  BY <1>1, <1>3, FewerDownloads
<1> QED
  BY <1>2, <1>3, <1>4 DEF Keeps, CalledBack

LEMMA EndedKeeps ==
    ASSUME NEW x, Sound(x)
    PROVE  Keeps(x, Ended(x))
  BY EndedSound DEF Keeps, SameXFM

LEMMA SetSuccessKeeps ==
    ASSUME NEW s, Sound(s), NEW i \in DOMAIN s.tasks, s.tasks[i].done,
           s.tasks[i].kind = "log" => ~ s.tasks[i].error
    PROVE  Keeps(s, SetSuccess(s, i))
<1>1. PICK x : CalledBack(s, x, i) /\ SetSuccess(s, i) = Ended(x)
  BY SetSuccessDoes
<1>2. Keeps(s, x)
  BY <1>1, CalledBackKeeps
<1>3. Keeps(x, Ended(x))
  BY <1>2, EndedKeeps DEF Keeps
<1> QED
  BY <1>1, <1>2, <1>3, KeepsTwice

\* The bound needs the task that fails to make room; the rest does not.
LEMMA SetErrorSound ==
    ASSUME NEW s, Sound(s), NEW i \in DOMAIN s.tasks, s.tasks[i].started
    PROVE  /\ Sound(SetError(s, i))
           /\ i \in DOMAIN SetError(s, i).tasks /\ SetError(s, i).tasks[i].started
           /\ s.tasks[i].kind = "log" /\ i \in Downloads(s) => Keeps(s, SetError(s, i))
           /\ s.tasks[i].kind # "log" => Keeps(s, SetError(s, i))
<1>1. PICK x : Failed(s, x, i) /\ SetError(s, i) = Ended(x)
  BY SetErrorDoes
<1>2. s \in SoundPage /\ s.tasks[i] \in SoundTask
  BY TaskFacts DEF Sound
<1>3. /\ Sound(x) /\ DOMAIN x.tasks = DOMAIN s.tasks
      /\ \A j \in DOMAIN s.tasks :
            /\ x.tasks[j].kind = s.tasks[j].kind
            /\ s.tasks[j].done => x.tasks[j].done
      /\ x.tasks[i].done
  BY <1>1, <1>2 DEF Failed, Alike, SoundTask, Task
<1>4. Sound(Ended(x)) /\ Keeps(x, Ended(x)) /\ SameXFM(x, Ended(x))
  BY <1>3, EndedSound, EndedKeeps
<1>5. x.tasks[i] \in SoundTask
  BY <1>3, TaskFacts DEF Sound
<1>6. i \in DOMAIN Ended(x).tasks /\ Ended(x).tasks[i].started
  BY <1>3, <1>4, <1>5, SoundTaskFields DEF SameXFM
<1>7. ASSUME i \in Downloads(s) PROVE Keeps(s, x)
  <2>1. PICK j : Downloads(x) \subseteq (Downloads(s) \ {i}) \cup {j}
    BY <1>1 DEF Failed
  <2>2. Bounded(s) => Bounded(x)
    BY <1>2, <1>7, <2>1, SwappedDownload
  <2> QED
    BY <1>3, <2>2 DEF Keeps
<1>8. ASSUME s.tasks[i].kind # "log" PROVE Keeps(s, x)
  <2>1. Bounded(s) => Bounded(x)
    BY <1>1, <1>2, <1>8, FewerDownloads DEF Failed
  <2> QED
    BY <1>3, <2>1 DEF Keeps
<1> QED
  BY <1>1, <1>4, <1>6, <1>7, <1>8, KeepsTwice

\* The tasks that a worker or a callback may report.
OpenLogs(s, log) ==
    {i \in DOMAIN s.tasks :
        /\ s.tasks[i].kind = "log" /\ s.tasks[i].of = log /\ s.tasks[i].done
        /\ ~ s.tasks[i].error /\ ~ s.tasks[i].callbackDone}

Answered(s, task) ==
    {i \in DOMAIN s.tasks :
        /\ s.tasks[i].kind = task.kind /\ s.tasks[i].of = task.of
        /\ s.tasks[i].page = task.page
        /\ s.tasks[i].done /\ ~ s.tasks[i].error}

LEMMA ReportSuccessDoes ==
    ASSUME NEW s, Sound(s), NEW log
    PROVE  LET r == ReportResultsSuccessForLogId(s, log)
           IN  IF OpenLogs(s, log) = {} THEN r = s
               ELSE \E i \in OpenLogs(s, log) : \E x :
                       CalledBack(s, x, i) /\ r = ProcessNextInQueue(Ended(x))
<1> DEFINE O == OpenLogs(s, log)
           r == ReportResultsSuccessForLogId(s, log)
<1>1. r = IF O = {} THEN s ELSE ProcessNextInQueue(SetSuccess(s, First(O)))
  BY DEF ReportResultsSuccessForLogId, On, OpenLogs
<1>2. CASE O = {}
  BY <1>1, <1>2
<1>3. CASE O # {}
  <2>1. O \in SUBSET Nat
    BY TaskFacts DEF Sound, OpenLogs
  <2>2. First(O) \in O
    BY <1>3, <2>1, FirstIsOne
  <2>3. PICK x : CalledBack(s, x, First(O)) /\ SetSuccess(s, First(O)) = Ended(x)
    BY <2>2, SetSuccessDoes DEF OpenLogs
  <2> QED
    BY <1>1, <1>3, <2>2, <2>3
<1> QED
  BY <1>2, <1>3

LEMMA ReportErrorDoes ==
    ASSUME NEW s, Sound(s), NEW task
    PROVE  LET r == ReportResultsErrorForURL(s, task)
           IN  IF Answered(s, task) = {} THEN r = s
               ELSE \E i \in Answered(s, task) : r = SetError(s, i)
<1> DEFINE A == Answered(s, task)
<1>1. ReportResultsErrorForURL(s, task) = IF A = {} THEN s ELSE SetError(s, First(A))
  BY DEF ReportResultsErrorForURL, On, Answered
<1>2. A \in SUBSET Nat
  BY TaskFacts DEF Sound, Answered
<1> QED
  BY <1>1, <1>2, FirstIsOne

LEMMA ReportSuccessKeeps ==
    ASSUME NEW s, Sound(s), NEW log
    PROVE  Keeps(s, ReportResultsSuccessForLogId(s, log))
<1> DEFINE r == ReportResultsSuccessForLogId(s, log)
<1>1. CASE OpenLogs(s, log) = {}
  <2>1. r = s
    BY <1>1, ReportSuccessDoes
  <2> QED
    BY <2>1 DEF Keeps
<1>2. CASE OpenLogs(s, log) # {}
  <2>0. PICK i \in OpenLogs(s, log) :
            \E x : CalledBack(s, x, i) /\ r = ProcessNextInQueue(Ended(x))
    BY <1>2, ReportSuccessDoes
  <2>1. PICK x : CalledBack(s, x, i) /\ r = ProcessNextInQueue(Ended(x))
    BY <2>0
  <2>2. i \in DOMAIN s.tasks /\ s \in SoundPage
    BY DEF OpenLogs, Sound
  <2>3. Keeps(s, x) /\ Downloads(x) \subseteq Downloads(s) \ {i}
    BY <2>1, <2>2, CalledBackKeeps
  <2>4. /\ Sound(Ended(x)) /\ Keeps(x, Ended(x))
        /\ Downloads(Ended(x)) = Downloads(x)
    BY <2>3, EndedSound, EndedKeeps DEF Keeps
  <2> DEFINE y == Ended(x)
  <2> HIDE DEF r, y
  <2>5. /\ Sound(r) /\ AlikeTasks(y, r)
        /\ \E j : Downloads(r) \subseteq Downloads(y) \cup {j}
    BY <2>1, <2>4, ProcessNextDoes DEF y
  <2>6. PICK j : Downloads(r) \subseteq (Downloads(s) \ {i}) \cup {j}
    BY <2>3, <2>4, <2>5 DEF y
  <2>7. i \in Downloads(s)
    <3>1. s.tasks[i] \in SoundTask
      BY <2>2, TaskFacts
    <3> QED
      BY <2>2, <3>1, SoundTaskFields DEF OpenLogs, Downloads
  <2>8. Bounded(s) => Bounded(r)
    BY <2>2, <2>6, <2>7, SwappedDownload
  <2>9. Keeps(s, y)
    BY <2>3, <2>4, KeepsTwice DEF y
  <2>10. \A k \in DOMAIN s.tasks :
            /\ k \in DOMAIN r.tasks /\ r.tasks[k].kind = s.tasks[k].kind
            /\ s.tasks[k].done => r.tasks[k].done
    BY <2>5, <2>9 DEF Keeps, AlikeTasks, Alike
  <2> QED
    BY <2>5, <2>8, <2>10 DEF Keeps, r
<1> QED
  BY <1>1, <1>2

LEMMA ReportErrorKeeps ==
    ASSUME NEW s, Sound(s), NEW task, task.kind # "log"
    PROVE  Keeps(s, ReportResultsErrorForURL(s, task))
<1>1. CASE Answered(s, task) = {}
  <2>1. ReportResultsErrorForURL(s, task) = s
    BY <1>1, ReportErrorDoes
  <2> QED
    BY <2>1 DEF Keeps
<1>2. CASE Answered(s, task) # {}
  <2>1. PICK i \in Answered(s, task) : ReportResultsErrorForURL(s, task) = SetError(s, i)
    BY <1>2, ReportErrorDoes
  <2>2. i \in DOMAIN s.tasks /\ s.tasks[i].done /\ s.tasks[i].kind # "log"
    BY DEF Answered
  <2>3. s.tasks[i] \in SoundTask
    BY <2>2, TaskFacts DEF Sound
  <2> QED
    BY <2>1, <2>2, <2>3, SetErrorSound, SoundTaskFields
<1> QED
  BY <1>1, <1>2

LEMMA AddTaskKeeps ==
    ASSUME NEW s, Sound(s), NEW t \in SoundTask, ~ t.started
    PROVE  Keeps(s, AddTask(s, t))
  BY AddTaskDoes DEF Keeps

LEMMA GetEachKeeps ==
    ASSUME NEW s, Sound(s), NEW kind \in {"log", "id"}, NEW logs \in Seq(Logs)
    PROVE  Keeps(s, GetEach(s, kind, logs))
  BY GetEachDoes DEF Keeps, AskedFor

\* HttpEventReadyStateChange sets done before it calls anybody.
Done(s, v, i) ==
    /\ Sound(v)
    /\ DOMAIN v.tasks = DOMAIN s.tasks
    /\ v.tasks[i] = [s.tasks[i] EXCEPT !.done = TRUE]
    /\ \A j \in DOMAIN s.tasks : j # i => v.tasks[j] = s.tasks[j]
    /\ v.queue = s.queue /\ v.logIds = s.logIds
    /\ SameWWM(s, v) /\ SameMKS(s, v) /\ SameBVM(s, v)

LEMMA DoneDoes ==
    ASSUME NEW s, Sound(s), NEW i \in DOMAIN s.tasks, s.tasks[i].started
    PROVE  LET v == [s EXCEPT !.tasks[i].done = TRUE]
           IN  /\ Done(s, v, i) /\ Keeps(s, v)
               /\ v.tasks[i].kind = s.tasks[i].kind /\ v.tasks[i].done
               /\ v.tasks[i].of = s.tasks[i].of /\ v.tasks[i].page = s.tasks[i].page
               /\ v.tasks[i].error = s.tasks[i].error
<1> DEFINE t == [s.tasks[i] EXCEPT !.done = TRUE]
           v == [s EXCEPT !.tasks = [s.tasks EXCEPT ![i] = t]]
<1>0. s \in SoundPage /\ Waiting(s) /\ s.tasks[i] \in SoundTask
  BY TaskFacts DEF Sound
<1>1. /\ t \in SoundTask /\ t.done /\ t.kind = s.tasks[i].kind
      /\ t.of = s.tasks[i].of /\ t.page = s.tasks[i].page
      /\ t.error = s.tasks[i].error
      /\ t.started = s.tasks[i].started /\ t.callbackDone = s.tasks[i].callbackDone
  BY <1>0 DEF SoundTask, Task
<1>2. [s EXCEPT !.tasks[i].done = TRUE] = v
  BY <1>0 DEF SoundPage
<1> HIDE DEF t
<1>3. /\ v \in SoundPage
      /\ DOMAIN v.tasks = DOMAIN s.tasks
      /\ v.tasks[i] = t
      /\ \A j \in DOMAIN s.tasks : j # i => v.tasks[j] = s.tasks[j]
      /\ v.queue = s.queue /\ v.logIds = s.logIds
      /\ SameWWM(s, v) /\ SameMKS(s, v) /\ SameBVM(s, v)
  BY <1>0, <1>1, TaskChanged
<1> HIDE DEF v
<1>4. Waiting(v)
  <2>1. \A j \in DOMAIN s.tasks :
            /\ v.tasks[j].kind = s.tasks[j].kind
            /\ v.tasks[j].started = s.tasks[j].started
    BY <1>1, <1>3
  <2> QED
    BY <1>0, <1>3, <2>1 DEF Waiting
<1>5. Downloads(v) \subseteq Downloads(s)
  BY <1>1, <1>3 DEF Downloads
<1>6. Bounded(s) => Bounded(v)
  BY <1>0, <1>5, FewerDownloads
<1>7. Keeps(s, v)
  BY <1>1, <1>3, <1>4, <1>6 DEF Keeps, Sound
<1>8. Done(s, v, i)
  BY <1>3, <1>4 DEF Done, Sound, t
<1> QED
  BY <1>1, <1>2, <1>3, <1>7, <1>8

LEMMA ListedLogs ==
    ASSUME NEW q \in Queries, NEW n \in 1 .. PageLimit[q]
    PROVE  /\ Listed(q, n) \in Seq(Logs)
           /\ PageLimit[q] \in Nat /\ n \in Nat /\ n >= 1
<1>1. Pages[q] \in Seq(Seq(Logs)) /\ PageLimit[q] \in Nat
  BY LogsAssumption
<1>2. n <= Len(Pages[q]) => Pages[q][n] \in Seq(Logs)
  BY <1>1, ElementOfSeq
<1> QED
  BY <1>1, <1>2 DEF Listed

LEMMA ParseJobSound ==
    ASSUME NEW s \in SoundPage, NEW log \in Logs
    PROVE  LET job == [op |-> "parse", points |-> <<log>>,
                       extra |-> IF s.points = <<>> THEN "full" ELSE "short"]
           IN  /\ job \in SoundJob
               /\ DispatchLogParseToVec(s, log) = Dispatch(s, job)
<1>1. <<log>> \in Seq(Logs) /\ Len(<<log>>) = 1
  OBVIOUS
<1> QED
  BY <1>1 DEF DispatchLogParseToVec, SoundJob, Job, Extra

LEMMA DispatchKeeps ==
    ASSUME NEW s, Sound(s), NEW job \in SoundJob
    PROVE  Keeps(s, Dispatch(s, job))
  BY DispatchDoes, KeepsSameTasks DEF Sound

LEMMA QueryCallbackKeeps ==
    ASSUME NEW s, Sound(s), NEW t \in SoundTask, t.kind = "query",
           NEW logs \in Seq(Logs)
    PROVE  Keeps(s, QueryCallback(s, t, logs))
<1> DEFINE a == GetEach(s, "log", logs)
<1>1. Keeps(s, a) /\ Sound(a)
  BY GetEachKeeps DEF Keeps
<1>2. t.of \in Queries /\ t.page \in 1 .. PageLimit[t.of] /\ PageLimit[t.of] \in Nat
  BY SoundTaskFields, LogsAssumption
<1> HIDE DEF a
<1>3. CASE logs # <<>> /\ t.page < PageLimit[t.of]
  <2>1. QueryCallback(s, t, logs) = AddTask(a, NewTask("query", t.of, t.page + 1))
    BY <1>3 DEF QueryCallback, GetJSONAsyncByQuery, a
  <2>2. t.page + 1 \in 1 .. PageLimit[t.of]
    BY <1>2, <1>3
  <2>3. Keeps(a, QueryCallback(s, t, logs))
    BY <1>1, <1>2, <2>1, <2>2, NewQuerySound, AddTaskKeeps
  <2> QED
    BY <1>1, <2>3, KeepsTwice
<1>4. CASE ~ (logs # <<>> /\ t.page < PageLimit[t.of])
  <2>1. QueryCallback(s, t, logs) = ReportResultsErrorForURL(a, t)
    BY <1>4 DEF QueryCallback, a
  <2>2. Keeps(a, QueryCallback(s, t, logs))
    BY <1>1, <2>1, ReportErrorKeeps
  <2> QED
    BY <1>1, <2>2, KeepsTwice
<1> QED
  BY <1>3, <1>4

LEMMA CallbackKeeps ==
    ASSUME NEW s, Sound(s), NEW i \in DOMAIN s.tasks, NEW empty
    PROVE  Keeps(s, Callback(s, i, empty))
<1> DEFINE t == s.tasks[i]
<1>1. /\ s \in SoundPage /\ t \in SoundTask
      /\ t.kind \in {"log", "id", "query"}
      /\ t.kind = "query" => t.of \in Queries /\ t.page \in 1 .. PageLimit[t.of]
      /\ t.kind # "query" => t.of \in Logs
  BY TaskFacts, SoundTaskFields DEF Sound
<1>2. CASE t.kind = "log"
  <2>1. Callback(s, i, empty) = DispatchLogParseToVec(s, t.of)
    BY <1>2 DEF Callback
  <2> QED
    BY <1>1, <1>2, <2>1, ParseJobSound, DispatchKeeps
<1>3. CASE t.kind = "id"
  <2>1. Callback(s, i, empty) = IF empty THEN ReportResultsErrorForURL(s, t)
                                ELSE GetLogFile(s, t.of)
    BY <1>3 DEF Callback
  <2>2. Keeps(s, GetLogFile(s, t.of))
    BY <1>1, <1>3, NewTaskSound, AddTaskKeeps DEF GetLogFile
  <2>3. Keeps(s, ReportResultsErrorForURL(s, t))
    BY <1>3, ReportErrorKeeps
  <2> QED
    BY <2>1, <2>2, <2>3
<1>4. CASE t.kind = "query"
  <2> DEFINE logs == IF empty THEN <<>> ELSE Listed(t.of, t.page)
  <2>1. Callback(s, i, empty) = QueryCallback(s, t, logs)
    BY <1>4 DEF Callback
  <2>2. logs \in Seq(Logs)
    BY <1>1, <1>4, ListedLogs
  <2> HIDE DEF logs
  <2> QED
    BY <1>1, <1>4, <2>1, <2>2, QueryCallbackKeeps
<1> QED
  BY <1>1, <1>2, <1>3, <1>4

LEMMA ReceivedKeeps ==
    ASSUME NEW s, Sound(s), NEW i \in DOMAIN s.tasks, s.tasks[i].started, NEW empty
    PROVE  Keeps(s, Received(s, i, empty))
<1> DEFINE v == [s EXCEPT !.tasks[i].done = TRUE]
           c == Callback(v, i, empty)
<1>1. /\ Keeps(s, v) /\ Sound(v) /\ i \in DOMAIN v.tasks /\ v.tasks[i].done
      /\ v.tasks[i].kind = s.tasks[i].kind
  BY DoneDoes DEF Keeps
<1>2. Received(s, i, empty) = IF s.tasks[i].kind = "log" THEN c ELSE SetSuccess(c, i)
  BY DEF Received
<1> HIDE DEF v
<1>3. Keeps(v, c)
  BY <1>1, CallbackKeeps
<1> HIDE DEF c
<1>4. /\ Sound(c) /\ i \in DOMAIN c.tasks /\ c.tasks[i].done
      /\ c.tasks[i].kind = s.tasks[i].kind
  BY <1>1, <1>3 DEF Keeps
<1>5. CASE s.tasks[i].kind = "log"
  BY <1>1, <1>2, <1>3, <1>5, KeepsTwice
<1>6. CASE s.tasks[i].kind # "log"
  <2>1. Keeps(c, SetSuccess(c, i))
    BY <1>4, <1>6, SetSuccessKeeps
  <2> QED
    BY <1>1, <1>2, <1>3, <1>6, <2>1, KeepsTwice
<1> QED
  BY <1>5, <1>6

LEMMA SoundJobFields ==
    ASSUME NEW job \in SoundJob
    PROVE  /\ job.op \in {"parse", "prefilter", "sort"}
           /\ job.points \in Seq(Logs) /\ job.extra \in Extra
           /\ job.op # "sort" => Len(job.points) = 1 /\ job.points[1] \in Logs
                                 /\ job.points # <<>>
<1>1. job.points \in Seq(Logs)
  BY DEF SoundJob, Job
<1>2. Len(job.points) = 1 => job.points[1] \in Logs /\ job.points # <<>>
  BY <1>1, ElementOfSeq
<1> QED
  BY <1>1, <1>2 DEF SoundJob, Job

LEMMA AddDataKeeps ==
    ASSUME NEW s, Sound(s), NEW points \in Seq(Logs), NEW extra \in Extra
    PROVE  Keeps(s, AddData(s, points, extra))
  BY AddDataDoes, KeepsSameTasks DEF Sound

LEMMA ReportDoneKeeps ==
    ASSUME NEW s, Sound(s), NEW w \in Workers
    PROVE  Keeps(s, ReportWorkerIsDone(s, w))
  BY ReportDoneDoes, KeepsSameTasks DEF Sound

LEMMA ShowKeeps ==
    ASSUME NEW s, Sound(s)
    PROVE  Keeps(s, ShowData(s))
  BY ShowDoes, KeepsSameTasks DEF Sound

\* Whether MKS looks for points that others hide is remembered.
LEMMA SeenDoes ==
    ASSUME NEW s, Sound(s)
    PROVE  LET vast == s.vast \/ Len(s.points) > VastAt
               seen == [s EXCEPT !.vast = vast]
           IN  /\ Keeps(s, seen)
               /\ SameXFM(s, seen) /\ SameWWM(s, seen) /\ SameBVM(s, seen)
               /\ seen.points = s.points /\ seen.extra = s.extra
               /\ seen.offered = s.offered
<1>1. s \in SoundPage
  BY DEF Sound
<1> DEFINE vast == s.vast \/ Len(s.points) > VastAt
           seen == [s EXCEPT !.vast = vast]
<1>2. vast \in BOOLEAN
  BY <1>1 DEF SoundPage
<1> HIDE DEF vast
<1>3. /\ seen \in SoundPage
      /\ SameXFM(s, seen) /\ SameWWM(s, seen) /\ SameBVM(s, seen)
      /\ seen.points = s.points /\ seen.extra = s.extra /\ seen.offered = s.offered
  BY <1>1, <1>2 DEF SoundPage, SameXFM, SameWWM, SameBVM
<1>4. Keeps(s, seen)
  BY <1>3, KeepsSameTasks
<1> QED
  BY <1>3, <1>4 DEF vast

LEMMA PrefilterJobSound ==
    ASSUME NEW job \in SoundJob, job.op # "sort"
    PROVE  /\ [job EXCEPT !.op = "prefilter", !.extra = "none"] \in SoundJob
           /\ [job EXCEPT !.op = "prefilter", !.extra = "none"].points = job.points
           /\ [job EXCEPT !.op = "prefilter", !.extra = "none"].op = "prefilter"
  BY DEF SoundJob, Job, Extra

LEMMA ParsedKeeps ==
    ASSUME NEW s, Sound(s), NEW w \in Workers, NEW job \in SoundJob, job.op = "parse"
    PROVE  Keeps(s, ParsedLog(s, w, job))
<1> DEFINE d == ReportWorkerIsDone(s, w)
           seen == [d EXCEPT !.vast = d.vast \/ Len(d.points) > VastAt]
           r == GetDataAndDispatchPrefilterVec(d, job)
           a == AddData(seen, job.points, job.extra)
           filter == [job EXCEPT !.op = "prefilter", !.extra = "none"]
<1>1. Keeps(s, d) /\ Sound(d)
  BY ReportDoneKeeps DEF Keeps
<1>2. \/ r = ReportResultsSuccessForLogId(a, job.points[1])
      \/ r = Dispatch(seen, filter)
  BY DEF GetDataAndDispatchPrefilterVec
<1>3. ParsedLog(s, w, job) = r
  BY DEF ParsedLog
<1> HIDE DEF d
<1>4. Keeps(d, seen) /\ Sound(seen)
  BY <1>1, SeenDoes DEF Keeps
<1> HIDE DEF seen, r
<1>5. Keeps(seen, a) /\ Sound(a)
  BY <1>4, SoundJobFields, AddDataKeeps DEF Keeps
<1> HIDE DEF a
<1>6. Keeps(a, ReportResultsSuccessForLogId(a, job.points[1]))
  BY <1>5, ReportSuccessKeeps
<1>7. Keeps(seen, Dispatch(seen, filter))
  BY <1>4, PrefilterJobSound, DispatchKeeps
<1> QED
  BY <1>1, <1>2, <1>3, <1>4, <1>5, <1>6, <1>7, KeepsTwice

LEMMA FilteredKeeps ==
    ASSUME NEW s, Sound(s), NEW w \in Workers, NEW job \in SoundJob,
           job.op = "prefilter"
    PROVE  Keeps(s, FilteredLog(s, w, job))
<1> DEFINE a == IF job.points[1] \in Redundant THEN s
                ELSE AddData(s, job.points, "none")
           d == ReportWorkerIsDone(a, w)
<1>1. Keeps(s, AddData(s, job.points, "none")) /\ Keeps(s, s)
  BY SoundJobFields, AddDataKeeps DEF Keeps, Extra
<1>2. Keeps(s, a) /\ Sound(a)
  BY <1>1 DEF Keeps
<1>3. FilteredLog(s, w, job) = ReportResultsSuccessForLogId(d, job.points[1])
  BY DEF FilteredLog
<1> HIDE DEF a
<1>4. Keeps(a, d) /\ Sound(d)
  BY <1>2, ReportDoneKeeps DEF Keeps
<1> HIDE DEF d
<1>5. Keeps(d, ReportResultsSuccessForLogId(d, job.points[1]))
  BY <1>4, ReportSuccessKeeps
<1> QED
  BY <1>2, <1>3, <1>4, <1>5, KeepsTwice

LEMMA SortedKeeps ==
    ASSUME NEW s, Sound(s), NEW w \in Workers, NEW job \in SoundJob, job.op = "sort"
    PROVE  Keeps(s, SortedData(s, w, job))
<1> DEFINE x == IF Cardinality(ToSet(job.points)) = 1 THEN job.extra ELSE "none"
           a == AddData(s, job.points, x)
           d == ReportWorkerIsDone(a, w)
<1>1. x \in Extra /\ job.points \in Seq(Logs)
  BY SoundJobFields DEF Extra
<1>2. SortedData(s, w, job) = ShowData(d)
  BY DEF SortedData
<1> HIDE DEF x
<1>3. Keeps(s, a) /\ Sound(a)
  BY <1>1, AddDataKeeps DEF Keeps
<1> HIDE DEF a
<1>4. Keeps(a, d) /\ Sound(d)
  BY <1>3, ReportDoneKeeps DEF Keeps
<1> HIDE DEF d
<1>5. Keeps(d, ShowData(d))
  BY <1>4, ShowKeeps
<1> QED
  BY <1>2, <1>3, <1>4, <1>5, KeepsTwice

\* A worker takes the first of its messages.
LEMMA TakenDoes ==
    ASSUME NEW s, Sound(s), NEW w \in Workers, s.jobs[w] # <<>>
    PROVE  LET v == [s EXCEPT !.jobs[w] = Tail(@)]
           IN  /\ Head(s.jobs[w]) \in SoundJob
               /\ Keeps(s, v) /\ v \in SoundPage
               /\ v.jobs = [s.jobs EXCEPT ![w] = Tail(s.jobs[w])]
               /\ SameXFM(s, v) /\ SameMKS(s, v) /\ SameBVM(s, v)
<1> DEFINE js == [s.jobs EXCEPT ![w] = Tail(s.jobs[w])]
           v == [s EXCEPT !.jobs = js]
<1>1. s \in SoundPage /\ s.jobs \in [Workers -> Seq(SoundJob)]
  BY DEF Sound, SoundPage
<1>2. Head(s.jobs[w]) \in SoundJob /\ Tail(s.jobs[w]) \in Seq(SoundJob)
  BY <1>1
<1>3. js \in [Workers -> Seq(SoundJob)]
  BY <1>1, <1>2
<1>4. [s EXCEPT !.jobs[w] = Tail(@)] = v
  BY <1>1 DEF SoundPage
<1> HIDE DEF js
<1>5. /\ v \in SoundPage /\ v.jobs = js
      /\ SameXFM(s, v) /\ SameMKS(s, v) /\ SameBVM(s, v)
  BY <1>1, <1>3 DEF SoundPage, SameXFM, SameMKS, SameBVM
<1>6. Keeps(s, v)
  BY <1>5, KeepsSameTasks
<1> QED
  BY <1>2, <1>4, <1>5, <1>6 DEF js

-----------------------------------------------------------------------------
(* The page stays sound, whatever is asked for and whatever fails *)

LEMMA IdleSound == Sound(Idle) /\ Bounded(Idle)
<1>1. /\ Idle.tasks = <<>> /\ Idle.queue = <<>> /\ Idle \in SoundPage
  <2>1. /\ [w \in Workers |-> <<>>] \in [Workers -> Seq(SoundJob)]
        /\ [w \in Workers |-> FALSE] \in [Workers -> BOOLEAN]
        /\ 0 \in Workers
    BY SizesAssumption DEF Workers
  <2> QED
    BY <2>1 DEF Idle, SoundPage, Extra
<1>2. Waiting(Idle)
  BY <1>1 DEF Waiting
<1>3. Downloads(Idle) = {}
  BY <1>1 DEF Downloads
<1> QED
  BY <1>1, <1>2, <1>3, FS_EmptySet, SizesAssumption DEF Sound, Bounded

LEMMA SoundInit == Init => SoundInv
  BY IdleSound DEF Init, SoundInv, FaultKinds

LEMMA FaultCounts ==
    ASSUME NEW kind, faults \in [FaultKinds -> Nat], Fault(kind)
    PROVE  /\ faults' \in [FaultKinds -> Nat]
           /\ \A k \in FaultKinds : faults'[k] = 0 => faults[k] = 0
           /\ kind \in FaultKinds /\ faults'[kind] # 0
<1>1. kind \in FaultKinds /\ faults' = [faults EXCEPT ![kind] = @ + 1]
  BY BoundsAssumption DEF Fault
<1> QED
  BY <1>1

LEMMA KeepsSoundInv ==
    ASSUME SoundInv, Keeps(page, page'), faults' \in [FaultKinds -> Nat],
           faults'["network"] = 0 => faults["network"] = 0
    PROVE  SoundInv'
  BY DEF SoundInv, Keeps, Sound, Waiting, SoundPage, Bounded, Downloads

LEMMA SoundStep == SoundInv /\ [Next]_vars => SoundInv'
<1> SUFFICES ASSUME SoundInv, [Next]_vars PROVE SoundInv'
  OBVIOUS
<1>0. Sound(page) /\ page \in SoundPage /\ faults \in [FaultKinds -> Nat]
  BY DEF SoundInv, Sound
<1>1. ASSUME NEW ids \in IdLists, AskIds(ids) PROVE SoundInv'
  <2>1. page' = GetEach(page, "id", ids) /\ faults' = faults
    BY <1>1 DEF AskIds, Ask
  <2>2. ids \in Seq(Logs)
    BY LogsAssumption
  <2> QED
    BY <1>0, <2>1, <2>2, GetEachKeeps, KeepsSoundInv
<1>2. ASSUME NEW q \in Queries, AskQuery(q) PROVE SoundInv'
  <2>1. page' = AddTask(page, NewTask("query", q, 1)) /\ faults' = faults
    BY <1>2 DEF AskQuery, Ask, GetJSONAsyncByQuery
  <2>2. 1 \in 1 .. PageLimit[q]
    BY LogsAssumption
  <2> QED
    BY <1>0, <2>1, <2>2, NewQuerySound, AddTaskKeeps, KeepsSoundInv
<1>3. ASSUME NEW log \in Direct, AskLogFile(log) PROVE SoundInv'
  <2>1. page' = AddTask(page, NewTask("log", log, 0)) /\ faults' = faults
    BY <1>3 DEF AskLogFile, Ask, GetLogFile
  <2>2. log \in Logs
    BY LogsAssumption
  <2> QED
    BY <1>0, <2>1, <2>2, NewTaskSound, AddTaskKeeps, KeepsSoundInv
<1>4. CASE Purge
  <2>1. /\ page' \in SoundPage /\ page'.tasks = page.tasks /\ page'.queue = page.queue
        /\ faults' = faults
    <3>1. faults' = faults /\ (page' = page \/ page' = PurgeData(page))
      BY <1>4 DEF Purge, RemoveAllMarkersFromMapAndPurgeData
    <3> QED
      BY <1>0, <3>1, PurgeDoes
  <2>2. Keeps(page, page')
    BY <1>0, <2>1, SameTasksSound DEF Keeps
  <2> QED
    BY <1>0, <2>1, <2>2, KeepsSoundInv
<1>5. ASSUME NEW i \in DOMAIN page.tasks, Receive(i) PROVE SoundInv'
  <2>1. /\ page.tasks[i].started /\ page' = Received(page, i, FALSE)
        /\ faults' = faults
    BY <1>5 DEF Receive, InFlight
  <2> QED
    BY <1>0, <2>1, ReceivedKeeps, KeepsSoundInv
<1>6. ASSUME NEW i \in DOMAIN page.tasks, ReceiveEmpty(i) PROVE SoundInv'
  <2>1. /\ page.tasks[i].started /\ page' = Received(page, i, TRUE)
        /\ Fault("empty")
    BY <1>6 DEF ReceiveEmpty, InFlight
  <2>2. /\ faults' \in [FaultKinds -> Nat]
        /\ faults'["network"] = 0 => faults["network"] = 0
    BY <1>0, <2>1, FaultCounts DEF FaultKinds
  <2> QED
    BY <1>0, <2>1, <2>2, ReceivedKeeps, KeepsSoundInv
<1>7. ASSUME NEW i \in DOMAIN page.tasks, InFlight(i)
      PROVE  /\ Sound(SetError(page, i)) /\ page.tasks[i].started
             /\ i \in DOMAIN SetError(page, i).tasks
             /\ SetError(page, i).tasks[i].started
             /\ Keeps(page, SetError(page, i))
  <2>1. page.tasks[i] \in SoundTask /\ page.tasks[i].started /\ ~ page.tasks[i].done
    BY <1>0, <1>7, TaskFacts DEF InFlight
  <2>2. page.tasks[i].kind = "log" => i \in Downloads(page)
    BY <2>1, SoundTaskFields DEF Downloads
  <2> QED
    BY <1>0, <2>1, <2>2, SetErrorSound
<1>8. ASSUME NEW i \in DOMAIN page.tasks, ReceiveError(i) PROVE SoundInv'
  <2>1. InFlight(i) /\ page' = SetError(page, i) /\ Fault("status")
    BY <1>8 DEF ReceiveError
  <2>2. /\ faults' \in [FaultKinds -> Nat]
        /\ faults'["network"] = 0 => faults["network"] = 0
    BY <1>0, <2>1, FaultCounts DEF FaultKinds
  <2> QED
    BY <1>7, <2>1, <2>2, KeepsSoundInv
<1>9. ASSUME NEW i \in DOMAIN page.tasks, Disconnect(i) PROVE SoundInv'
  <2>1. /\ InFlight(i) /\ page' = SetError(SetError(page, i), i)
        /\ Fault("network")
    BY <1>9 DEF Disconnect
  <2>2. faults' \in [FaultKinds -> Nat] /\ faults'["network"] # 0
    BY <1>0, <2>1, FaultCounts
  <2>3. Sound(page')
    BY <1>7, <2>1, SetErrorSound
  <2> QED
    BY <2>2, <2>3 DEF SoundInv, Sound, SoundPage, Waiting
<1>10. ASSUME NEW w \in Workers, WorkerReplies(w) PROVE SoundInv'
  <2> DEFINE job == Head(page.jobs[w])
             v == [page EXCEPT !.jobs[w] = Tail(@)]
  <2>1. /\ page.jobs[w] # <<>>
        /\ page' = CASE job.op = "parse" -> ParsedLog(v, w, job)
                     [] job.op = "prefilter" -> FilteredLog(v, w, job)
                     [] job.op = "sort" -> SortedData(v, w, job)
        /\ faults' = faults
    BY <1>10 DEF WorkerReplies
  <2>2. job \in SoundJob /\ Keeps(page, v)
    BY <1>0, <2>1, TakenDoes
  <2>3. job.op \in {"parse", "prefilter", "sort"} /\ Sound(v)
    BY <2>2, SoundJobFields DEF Keeps
  <2> HIDE DEF job, v
  <2>4. Keeps(v, page')
    <3>1. CASE job.op = "parse"
      BY <2>1, <2>2, <2>3, <3>1, ParsedKeeps
    <3>2. CASE job.op = "prefilter"
      BY <2>1, <2>2, <2>3, <3>2, FilteredKeeps
    <3>3. CASE job.op = "sort"
      BY <2>1, <2>2, <2>3, <3>3, SortedKeeps
    <3> QED
      BY <2>3, <3>1, <3>2, <3>3
  <2> QED
    BY <1>0, <2>1, <2>2, <2>4, KeepsTwice, KeepsSoundInv
<1>11. CASE HideBar
  <2>1. /\ page' = [page EXCEPT !.bar = "hidden", !.timers = @ - 1]
        /\ page.timers > 0 /\ faults' = faults
    BY <1>11 DEF HideBar
  <2> DEFINE n == page.timers - 1
  <2>3. page' = [page EXCEPT !.bar = "hidden", !.timers = n] /\ n \in Nat
    BY <1>0, <2>1 DEF SoundPage
  <2> HIDE DEF n
  <2>2. page' \in SoundPage /\ SameXFM(page, page')
    BY <1>0, <2>3 DEF SoundPage, SameXFM
  <2> QED
    BY <1>0, <2>1, <2>2, KeepsSameTasks, KeepsSoundInv
<1>12. CASE UNCHANGED vars \/ Redraw
  BY <1>12 DEF vars, Redraw, SoundInv, Sound, SoundPage, Waiting, Bounded, Downloads
<1> QED
  BY <1>1, <1>2, <1>3, <1>4, <1>5, <1>6, <1>8, <1>9, <1>10, <1>11, <1>12
     DEF Next, User, Answer

LEMMA SoundAlways == Spec => []SoundInv
  BY SoundInit, SoundStep, PTL DEF Spec

LEMMA MarkersAlways == Spec => [](markers \in BOOLEAN)
<1>1. Init => markers \in BOOLEAN
  BY DEF Init
<1>2. markers \in BOOLEAN /\ [Next]_vars => (markers \in BOOLEAN)'
  <2> SUFFICES ASSUME markers \in BOOLEAN, [Next]_vars PROVE markers' \in BOOLEAN
    OBVIOUS
  <2>1. markers' = markers \/ markers' = FALSE \/ markers' = ~ markers
    BY DEF Next, User, Answer, AskIds, AskQuery, AskLogFile, Ask, Purge,
           RemoveAllMarkersFromMapAndPurgeData, Receive, ReceiveEmpty,
           ReceiveError, Disconnect, Fault, WorkerReplies, HideBar, Redraw, vars
  <2> QED
    BY <2>1
<1> QED
  BY <1>1, <1>2, PTL DEF Spec

\* The objects of the page are what the code takes them for: in particular,
\* what waits in the queue of XFM (ProcessNextInQueue) are files that have
\* not been asked for, each of them once.
THEOREM ViewerTypes == Spec => []TypeOK
<1>1. SoundInv /\ markers \in BOOLEAN => TypeOK
  <2> SUFFICES ASSUME SoundInv, markers \in BOOLEAN PROVE TypeOK
    OBVIOUS
  <2>1. page \in SoundPage /\ Waiting(page)
    BY DEF SoundInv, Sound
  <2> DEFINE W == {i \in DOMAIN page.tasks :
                      page.tasks[i].kind = "log" /\ ~ page.tasks[i].started}
  <2>2. page.queue \in Seq(W)
    <3>1. page.queue \in Seq(Nat)
      BY <2>1 DEF SoundPage
    <3>2. \A k \in 1 .. Len(page.queue) : page.queue[k] \in W
      BY <2>1, <3>1 DEF Waiting
    <3> HIDE DEF W
    <3>3. page.queue \in [1 .. Len(page.queue) -> W] /\ Len(page.queue) \in Nat
      BY <3>1, <3>2
    <3> QED
      BY <3>3, SeqDef
  <2>3. page.tasks \in Seq(Task)
    BY <2>1, SeqMonotonic DEF SoundPage, SoundTask
  <2>4. page.jobs \in [Workers -> Seq(Job)]
    <3>1. Seq(SoundJob) \subseteq Seq(Job)
      BY SeqMonotonic DEF SoundJob
    <3> QED
      BY <2>1, <3>1 DEF SoundPage
  <2> QED
    BY <2>1, <2>2, <2>3, <2>4 DEF TypeOK, SoundPage
<1> QED
  BY <1>1, SoundAlways, MarkersAlways, PTL

\* XFM.StartTask and ProcessNextInQueue never let more than para + 1 files be
\* downloaded at once, until a broken connection is reported twice.
THEOREM DownloadsAreBounded == Spec => []BoundedDownloads
<1>1. SoundInv => BoundedDownloads
  <2> SUFFICES ASSUME SoundInv, NoneReportedTwice PROVE BoundedDownloads
    BY DEF BoundedDownloads
  <2> DEFINE D == {i \in DOMAIN page.tasks :
                      page.tasks[i].kind = "log" /\ InFlight(i)}
  <2>1. page \in SoundPage /\ Bounded(page)
    BY DEF SoundInv, Sound, NoneReportedTwice
  <2>2. D \subseteq Downloads(page)
    BY <2>1, TaskFacts, SoundTaskFields DEF Downloads, InFlight
  <2> HIDE DEF D
  <2>3. /\ Cardinality(D) <= Cardinality(Downloads(page))
        /\ Cardinality(D) \in Nat /\ Cardinality(Downloads(page)) \in Nat
        /\ Para \in Nat
    BY <2>1, <2>2, DownloadsFinite, FS_Subset, FS_CardinalityType, SizesAssumption
  <2>4. Cardinality(D) <= Para + 1
    BY <2>1, <2>3 DEF Bounded
  <2> QED
    BY <2>4 DEF BoundedDownloads, D
<1> QED
  BY <1>1, SoundAlways, PTL

-----------------------------------------------------------------------------
(* Everything asked for is on its way to the map *)

LEMMA OpenTask ==
    ASSUME NEW s, Sound(s), NEW i \in Open(s)
    PROVE  i \in DOMAIN s.tasks /\ s.tasks[i] \in SoundTask
  BY TaskFacts DEF Sound, Open

LEMMA AskedOfAlike ==
    ASSUME NEW t, NEW u, Alike(t, u)
    PROVE  Asked(t) = Asked(u)
  BY DEF Alike, Asked

\* Whether a task has started makes no difference.
LEMMA OrderlyAlike ==
    ASSUME NEW s, Orderly(s), NEW r, AlikeTasks(s, r), r.logIds = s.logIds,
           SameWWM(s, r), SameMKS(s, r), SameBVM(s, r)
    PROVE  Orderly(r)
<1>1. Open(r) = Open(s)
  BY DEF Open, AlikeTasks, Alike
<1>2. \A i \in Open(s) : i \in DOMAIN s.tasks /\ Asked(r.tasks[i]) = Asked(s.tasks[i])
  BY AskedOfAlike DEF Open, AlikeTasks
<1>3. AskedOnce(r)
  BY <1>1, <1>2 DEF Orderly, AskedOnce
<1>4. Handled(r)
  BY DEF Orderly, Handled, AlikeTasks, Alike
<1>5. AtWork(s) => AtWork(r)
  <2> SUFFICES ASSUME AtWork(s) PROVE AtWork(r)
    OBVIOUS
  <2>1. r.jobs = s.jobs /\ r.points = s.points
    BY DEF SameWWM, SameMKS
  <2>2. \A i \in Open(s) :
            /\ r.tasks[i].kind = s.tasks[i].kind /\ r.tasks[i].of = s.tasks[i].of
            /\ r.tasks[i].done = s.tasks[i].done
    BY <1>2 DEF AlikeTasks, Alike
  <2> QED
    BY <1>1, <2>1, <2>2 DEF AtWork
<1>6. Vectors(s) => Vectors(r)
  BY DEF Vectors, SameMKS
<1>7. Loading(s) => Loading(r)
  BY <1>1, <1>5, <1>6 DEF Loading, UnderWay, SameBVM, SameMKS
<1>8. BeingSorted(s) => BeingSorted(r)
  BY <1>1 DEF BeingSorted, SortingAt, SameWWM, SameBVM, SameMKS
<1>9. Shown(s) => Shown(r)
  BY <1>1, <1>6 DEF Shown, SameWWM, SameBVM, SameMKS
<1> QED
  BY <1>3, <1>4, <1>7, <1>8, <1>9 DEF Orderly

\* When nothing is open any more, what there is gets sorted or shown.
LEMMA EndedOrderly ==
    ASSUME NEW x, Sound(x), AskedOnce(x), Handled(x), UnderWay(x)
    PROVE  Orderly(Ended(x))
<1>0. x \in SoundPage
  BY DEF Sound
<1>1. CASE Open(x) # {}
  BY <1>1 DEF Ended, Orderly, Loading
<1>2. CASE Open(x) = {}
  <2> DEFINE r == CallbackEnd(x)
  <2>1. Ended(x) = r
    BY <1>2 DEF Ended
  <2>2. r = IF x.points = <<>> \/ Len(x.points) >= SortLimit
            THEN ShowData(x) ELSE SortByQuadKey(x)
    BY DEF CallbackEnd, On
  <2>3. \A w \in Workers : x.jobs[w] = <<>>
    <3> SUFFICES ASSUME NEW w \in Workers, x.jobs[w] # <<>> PROVE FALSE
      OBVIOUS
    <3>1. x.jobs[w] \in Seq(SoundJob)
      BY <1>0 DEF SoundPage
    <3>2. 1 \in DOMAIN x.jobs[w]
      BY <3>1
    <3> QED
      BY <1>2, <3>2 DEF UnderWay, AtWork
  <2>4. SameXFM(x, r)
    BY <1>0, CallbackEndDoes
  <2> HIDE DEF r
  <2>5. Open(r) = {}
    BY <1>2, <2>4 DEF Open, SameXFM
  <2>6. AskedOnce(r) /\ Handled(r)
    BY <2>4, <2>5 DEF AskedOnce, Handled, SameXFM
  <2>7. CASE x.points = <<>> \/ Len(x.points) >= SortLimit
    <3>1. /\ r.points = x.points /\ r.extra = x.extra
          /\ r.offered = IF x.points = <<>> THEN x.offered ELSE ToSet(x.points)
          /\ \A w \in Workers : r.jobs[w] = <<>>
          /\ r.bar = x.bar /\ r.timers = x.timers + 1
      BY <1>0, <2>2, <2>7, ShowDoes
    <3>2. x.points = <<>> => x.offered \subseteq {}
      BY DEF UnderWay, ToSet
    <3>3. r.offered = ToSet(r.points)
      BY <3>1, <3>2 DEF ToSet
    <3>4. Vectors(r)
      BY <2>4, <3>1 DEF UnderWay, Vectors, SameXFM
    <3>5. Shown(r)
      BY <2>5, <3>1, <3>3, <3>4 DEF Shown, UnderWay
    <3> QED
      BY <2>1, <2>6, <3>5 DEF Orderly
  <2>8. CASE ~ (x.points = <<>> \/ Len(x.points) >= SortLimit)
    <3> DEFINE job == [op |-> "sort", points |-> x.points,
                       extra |-> IF x.extra = "none" THEN "short" ELSE x.extra]
    <3>1. /\ SameBVM(x, r)
          /\ r.offered = x.offered
          /\ r.points = <<>> /\ r.extra = "none"
          /\ Sent(x, r, job)
      BY <1>0, <2>2, <2>8, SortDoes
    <3>2. PICK w \in Workers : r.jobs = [x.jobs EXCEPT ![w] = Append(x.jobs[w], job)]
      BY <3>1 DEF Sent
    <3>3. x.jobs \in [Workers -> Seq(SoundJob)]
      BY <1>0 DEF SoundPage
    <3>4. /\ r.jobs[w] = Append(<<>>, job)
          /\ \A v \in Workers \ {w} : r.jobs[v] = <<>>
      BY <2>3, <3>2, <3>3
    <3>5. /\ job.op = "sort" /\ job.points = x.points
          /\ job.extra = IF x.extra = "none" THEN "short" ELSE x.extra
      OBVIOUS
    <3> HIDE DEF job
    <3>6. Len(r.jobs[w]) = 1 /\ r.jobs[w][1] = job
      BY <3>4
    <3>7. Len(job.points) = 1 => job.extra = "full"
      BY <3>5 DEF UnderWay, Vectors
    <3>8. Complete(job.points, r.logIds) /\ r.offered \subseteq ToSet(job.points)
      BY <2>4, <3>1, <3>5 DEF UnderWay, Vectors, SameXFM
    <3>9. SortingAt(r, w)
      BY <2>8, <3>4, <3>5, <3>6, <3>7, <3>8 DEF SortingAt
    <3>10. BeingSorted(r)
      BY <2>5, <3>1, <3>9 DEF BeingSorted, UnderWay, SameBVM
    <3> QED
      BY <2>1, <2>6, <3>10 DEF Orderly
  <2> QED
    BY <2>7, <2>8
<1> QED
  BY <1>1, <1>2

LEMMA ProcessNextOrderly ==
    ASSUME NEW s, Sound(s), Orderly(s)
    PROVE  Orderly(ProcessNextInQueue(s))
  BY ProcessNextDoes, OrderlyAlike

\* The file of log i has been dealt with: its points are in the vectors.
LEMMA ReportSuccessOrderly ==
    ASSUME NEW s, Sound(s), AskedOnce(s), Handled(s),
           s.bar = "visible", s.timers = 0, s.offered \subseteq ToSet(s.points),
           NEW log, NEW i \in Open(s),
           s.tasks[i].kind = "log", s.tasks[i].done, s.tasks[i].of = log,
           Complete(s.points, s.logIds \cup {log}),
           s.extra = IF Len(s.points) = 1 THEN "full" ELSE "none",
           AtWork(s),
           \A w \in Workers : \A k \in DOMAIN s.jobs[w] : s.jobs[w][k].points[1] # log
    PROVE  Orderly(ReportResultsSuccessForLogId(s, log))
<1> DEFINE r == ReportResultsSuccessForLogId(s, log)
<1>1. OpenLogs(s, log) = {i}
  <2>1. i \in OpenLogs(s, log)
    BY DEF OpenLogs, Open
  <2>2. ASSUME NEW j \in OpenLogs(s, log) PROVE j = i
    <3>1. j \in Open(s) /\ s.tasks[j].kind = "log" /\ s.tasks[j].of = log
      BY DEF OpenLogs, Open
    <3>2. Asked(s.tasks[j]) = {log} /\ Asked(s.tasks[i]) = {log}
      BY <3>1 DEF Asked
    <3> QED
      BY <3>1, <3>2 DEF AskedOnce
  <2> QED
    BY <2>1, <2>2
<1>2. PICK x : CalledBack(s, x, i) /\ r = ProcessNextInQueue(Ended(x))
  BY <1>1, ReportSuccessDoes
<1>3. i \in DOMAIN s.tasks /\ s.tasks[i] \in SoundTask
  BY OpenTask
<1>4. /\ Sound(x) /\ DOMAIN x.tasks = DOMAIN s.tasks
      /\ x.tasks[i].callbackDone /\ x.tasks[i].kind = "log"
      /\ \A j \in DOMAIN s.tasks : j # i => x.tasks[j] = s.tasks[j]
      /\ x.logIds = s.logIds \cup {log}
      /\ SameWWM(s, x) /\ SameMKS(s, x) /\ SameBVM(s, x)
  BY <1>2, <1>3 DEF CalledBack, SoundTask, Task
<1> HIDE DEF r
<1>5. Open(x) = Open(s) \ {i}
  BY <1>4 DEF Open
<1>6. \A j \in Open(x) : j \in Open(s) /\ j # i /\ x.tasks[j] = s.tasks[j]
  BY <1>4, <1>5 DEF Open
<1>7. AskedOnce(x)
  <2>1. Asked(s.tasks[i]) = {log}
    BY DEF Asked
  <2>2. ASSUME NEW j \in Open(x) PROVE Asked(x.tasks[j]) \cap x.logIds = {}
    BY <1>4, <1>6, <2>1 DEF AskedOnce
  <2>3. ASSUME NEW j \in Open(x), NEW k \in Open(x), j # k
        PROVE  Asked(x.tasks[j]) \cap Asked(x.tasks[k]) = {}
    BY <1>6, <2>3 DEF AskedOnce
  <2> QED
    BY <2>2, <2>3 DEF AskedOnce
<1>8. Handled(x)
  BY <1>4 DEF Handled
<1>9. AtWork(x)
  <2>1. x.jobs = s.jobs /\ x.points = s.points
    BY <1>4 DEF SameWWM, SameMKS
  <2>2. ASSUME NEW w \in Workers, NEW k \in DOMAIN x.jobs[w]
        PROVE  \E j \in Open(x) :
                  /\ x.tasks[j].kind = "log" /\ x.tasks[j].done
                  /\ x.tasks[j].of = x.jobs[w][k].points[1]
    <3>1. PICK j \in Open(s) :
              /\ s.tasks[j].kind = "log" /\ s.tasks[j].done
              /\ s.tasks[j].of = s.jobs[w][k].points[1]
      BY <2>1 DEF AtWork
    <3>2. j # i
      BY <2>1, <3>1
    <3>3. j \in Open(x) /\ x.tasks[j] = s.tasks[j]
      BY <1>5, <1>6, <3>1, <3>2
    <3> QED
      BY <2>1, <3>1, <3>3
  <2> QED
    BY <2>1, <2>2 DEF AtWork
<1>10. UnderWay(x)
  BY <1>4, <1>9 DEF UnderWay, Vectors, SameMKS, SameBVM
<1>11. Orderly(Ended(x)) /\ Sound(Ended(x))
  BY <1>4, <1>7, <1>8, <1>10, EndedOrderly, EndedSound
<1> QED
  BY <1>2, <1>11, ProcessNextOrderly DEF r

\* A worker has handed back log i, and its message is gone.
HandedBack(s, i, job) ==
    /\ Sound(s) /\ AskedOnce(s) /\ Handled(s) /\ UnderWay(s)
    /\ i \in Open(s) /\ s.tasks[i].kind = "log" /\ s.tasks[i].done
    /\ s.tasks[i].of = job.points[1]
    /\ s.points = <<>> => job.op = "parse" /\ job.extra = "full"
    /\ \A w \in Workers : \A k \in DOMAIN s.jobs[w] :
          s.jobs[w][k].points[1] # job.points[1]

LEMMA TakenHandsBack ==
    ASSUME NEW s, Sound(s), Orderly(s), NEW w \in Workers, s.jobs[w] # <<>>,
           Head(s.jobs[w]).op # "sort"
    PROVE  LET v == [s EXCEPT !.jobs[w] = Tail(@)]
           IN  \E i : HandedBack(v, i, Head(s.jobs[w]))
<1> DEFINE v == [s EXCEPT !.jobs[w] = Tail(@)]
           job == Head(s.jobs[w])
           n == Len(s.jobs[w])
<1>0. s \in SoundPage /\ s.jobs \in [Workers -> Seq(SoundJob)]
  BY DEF Sound, SoundPage
<1>1. /\ n \in Nat /\ n > 0 /\ DOMAIN s.jobs[w] = 1 .. n /\ job = s.jobs[w][1]
      /\ DOMAIN Tail(s.jobs[w]) = 1 .. n - 1
      /\ \A k \in 1 .. n - 1 : Tail(s.jobs[w])[k] = s.jobs[w][k + 1]
  BY <1>0
<1>2. /\ Sound(v) /\ v.jobs = [s.jobs EXCEPT ![w] = Tail(s.jobs[w])]
      /\ SameXFM(s, v) /\ SameMKS(s, v) /\ SameBVM(s, v)
  BY TakenDoes DEF Keeps
<1> HIDE DEF v, job, n
<1>3. Loading(s)
  <2>1. ~ Shown(s)
    BY DEF Shown
  <2>2. ~ BeingSorted(s)
    <3> SUFFICES ASSUME BeingSorted(s) PROVE FALSE
      OBVIOUS
    <3>1. PICK u \in Workers : SortingAt(s, u)
      BY DEF BeingSorted
    <3>2. u = w
      BY <3>1 DEF SortingAt
    <3> QED
      BY <1>1, <3>1, <3>2 DEF SortingAt, job
  <2> QED
    BY <2>1, <2>2 DEF Orderly
<1>4. AtWork(s) /\ AskedOnce(s) /\ Handled(s) /\ 1 \in DOMAIN s.jobs[w]
  BY <1>1, <1>3 DEF Loading, UnderWay, Orderly
<1>5. PICK i \in Open(s) :
          s.tasks[i].kind = "log" /\ s.tasks[i].done /\ s.tasks[i].of = job.points[1]
  BY <1>1, <1>4 DEF AtWork
<1>6. s.points = <<>> => job.op = "parse" /\ job.extra = "full"
  BY <1>1, <1>4 DEF AtWork
\* Where the messages that are left were before.
<1>7. ASSUME NEW u \in Workers, NEW k \in DOMAIN v.jobs[u]
      PROVE  \E l \in DOMAIN s.jobs[u] :
                /\ v.jobs[u][k] = s.jobs[u][l]
                /\ IF u = w THEN l = k + 1 ELSE l = k
                /\ ~ (u = w /\ l = 1)
                /\ k \in Nat
  <2>1. CASE u = w
    <3>1. v.jobs[u] = Tail(s.jobs[w])
      BY <1>0, <1>2, <2>1
    <3>2. k \in 1 .. n - 1
      BY <1>1, <3>1
    <3>3. k + 1 \in DOMAIN s.jobs[w] /\ k + 1 # 1
      BY <1>1, <3>2
    <3> QED
      BY <1>1, <2>1, <3>1, <3>2, <3>3
  <2>2. CASE u # w
    <3>1. v.jobs[u] = s.jobs[u]
      BY <1>0, <1>2, <2>2
    <3>2. k \in Nat
      <4>1. s.jobs[u] \in Seq(SoundJob)
        BY <1>0
      <4> QED
        BY <3>1, <4>1
    <3> QED
      BY <2>2, <3>1, <3>2
  <2> QED
    BY <2>1, <2>2
<1>8. \A u \in Workers : \A k \in DOMAIN v.jobs[u] :
          v.jobs[u][k].points[1] # job.points[1]
  <2> TAKE u \in Workers
  <2> TAKE k \in DOMAIN v.jobs[u]
  <2>1. PICK l \in DOMAIN s.jobs[u] :
            v.jobs[u][k] = s.jobs[u][l] /\ ~ (u = w /\ l = 1)
    BY <1>7
  <2>2. s.jobs[u][l].points[1] # s.jobs[w][1].points[1]
    BY <1>4, <2>1 DEF AtWork
  <2> QED
    BY <1>1, <2>1, <2>2
<1>9. Open(v) = Open(s)
  BY <1>2 DEF Open, SameXFM
<1>10. AtWork(v)
  <2>1. v.tasks = s.tasks /\ v.points = s.points
    BY <1>2 DEF SameXFM, SameMKS
  <2>2. ASSUME NEW u \in Workers, NEW k \in DOMAIN v.jobs[u]
        PROVE  LET j == v.jobs[u][k]
               IN  /\ j.op # "sort"
                   /\ \E h \in Open(v) :
                         /\ v.tasks[h].kind = "log" /\ v.tasks[h].done
                         /\ v.tasks[h].of = j.points[1]
                   /\ v.points = <<>> => j.op = "parse" /\ j.extra = "full"
    <3>1. PICK l \in DOMAIN s.jobs[u] : v.jobs[u][k] = s.jobs[u][l]
      BY <1>7
    <3> QED
      BY <1>4, <1>9, <2>1, <3>1 DEF AtWork
  <2>3. ASSUME NEW t \in Workers, NEW u \in Workers,
               NEW k \in DOMAIN v.jobs[t], NEW l \in DOMAIN v.jobs[u],
               v.jobs[t][k].points[1] = v.jobs[u][l].points[1]
        PROVE  t = u /\ k = l
    <3>1. PICK m \in DOMAIN s.jobs[t] :
              /\ v.jobs[t][k] = s.jobs[t][m] /\ k \in Nat
              /\ IF t = w THEN m = k + 1 ELSE m = k
      BY <1>7
    <3>2. PICK o \in DOMAIN s.jobs[u] :
              /\ v.jobs[u][l] = s.jobs[u][o] /\ l \in Nat
              /\ IF u = w THEN o = l + 1 ELSE o = l
      BY <1>7
    <3>3. t = u /\ m = o
      BY <1>4, <2>3, <3>1, <3>2 DEF AtWork
    <3> QED
      BY <3>1, <3>2, <3>3
  <2> QED
    BY <2>2, <2>3 DEF AtWork
<1>11. AskedOnce(v) /\ Handled(v)
  BY <1>2, <1>4, <1>9 DEF AskedOnce, Handled, SameXFM
<1>12. UnderWay(v)
  BY <1>2, <1>3, <1>10 DEF Loading, UnderWay, Vectors, SameXFM, SameMKS, SameBVM
<1>13. HandedBack(v, i, job)
  BY <1>2, <1>5, <1>6, <1>8, <1>9, <1>11, <1>12 DEF HandedBack, SameXFM, SameMKS
<1> QED
  BY <1>13 DEF v, job

\* What does not matter to the tasks and the vectors.
LEMMA HandedBackSame ==
    ASSUME NEW s, NEW i, NEW job, HandedBack(s, i, job), NEW r, Sound(r),
           SameXFM(s, r), SameBVM(s, r), r.jobs = s.jobs,
           r.points = s.points, r.extra = s.extra, r.offered = s.offered
    PROVE  HandedBack(r, i, job)
<1>1. Open(r) = Open(s)
  BY DEF Open, SameXFM
<1>2. AskedOnce(r) /\ Handled(r)
  BY <1>1 DEF HandedBack, AskedOnce, Handled, SameXFM
<1>3. AtWork(r)
  BY <1>1 DEF HandedBack, UnderWay, AtWork, SameXFM
<1>4. UnderWay(r)
  BY <1>3 DEF HandedBack, UnderWay, Vectors, SameXFM, SameBVM
<1> QED
  BY <1>1, <1>2, <1>4 DEF HandedBack, SameXFM

LEMMA HandedBackNew ==
    ASSUME NEW s, NEW i, NEW job, HandedBack(s, i, job)
    PROVE  /\ job.points[1] \notin s.logIds
           /\ job.points[1] \notin ToSet(s.points)
           /\ i \in Open(s)
<1>1. Asked(s.tasks[i]) = {job.points[1]}
  BY DEF HandedBack, Asked
<1>2. job.points[1] \notin s.logIds
  BY <1>1 DEF HandedBack, AskedOnce
<1> QED
  BY <1>2 DEF HandedBack, UnderWay, Vectors, Complete

\* The points of the log are added, unless it has none to show.
LEMMA AddedOrderly ==
    ASSUME NEW s, NEW i, NEW job \in SoundJob, job.op # "sort", HandedBack(s, i, job),
           NEW extra \in Extra, s.points = <<>> => extra = "full"
    PROVE  Orderly(ReportResultsSuccessForLogId(AddData(s, job.points, extra),
                                                job.points[1]))
<1> DEFINE log == job.points[1]
           a == AddData(s, job.points, extra)
<1>0. Sound(s) /\ s \in SoundPage /\ s.points \in Seq(Logs)
  BY DEF HandedBack, Sound, SoundPage
<1>1. /\ job.points \in Seq(Logs) /\ Len(job.points) = 1 /\ job.points # <<>>
      /\ log \in Logs
  BY SoundJobFields
<1>2. job.points = <<log>>
  BY <1>1
<1>3. /\ a \in SoundPage
      /\ SameXFM(s, a) /\ SameWWM(s, a) /\ SameBVM(s, a)
      /\ a.offered = s.offered
      /\ IF log \in Tiny
         THEN a.points = s.points /\ a.extra = s.extra
         ELSE /\ a.points = s.points \o job.points
              /\ a.extra = IF s.points = <<>> /\ s.extra = "none"
                           THEN extra ELSE "none"
  <2>1. /\ a \in SoundPage
        /\ SameXFM(s, a) /\ SameWWM(s, a) /\ SameBVM(s, a)
        /\ a.offered = s.offered
        /\ IF job.points = <<>> \/ (Len(job.points) = 1 /\ job.points[1] \in Tiny)
           THEN a.points = s.points /\ a.extra = s.extra
           ELSE /\ a.points = s.points \o job.points
                /\ a.extra = IF s.points = <<>> /\ s.extra = "none"
                             THEN extra ELSE "none"
    <3>1. s \in SoundPage /\ job.points \in Seq(Logs) /\ extra \in Extra
      BY <1>0, <1>1
    <3> QED
      BY <3>1, AddDataDoes
  <2>2. (job.points = <<>> \/ (Len(job.points) = 1 /\ job.points[1] \in Tiny))
        <=> log \in Tiny
    BY <1>1
  <2> HIDE DEF a, log
  <2> QED
    BY <2>1, <2>2
<1>4. Sound(a)
  BY <1>0, <1>3, SameTasksSound DEF SameXFM
<1>5. log \notin s.logIds /\ log \notin ToSet(s.points) /\ i \in Open(s)
  BY HandedBackNew
<1>6. Complete(s.points, s.logIds)
      /\ s.extra = IF Len(s.points) = 1 THEN "full" ELSE "none"
  BY DEF HandedBack, UnderWay, Vectors
<1> HIDE DEF log, a
<1>7. /\ Complete(a.points, s.logIds \cup {log})
      /\ a.extra = IF Len(a.points) = 1 THEN "full" ELSE "none"
      /\ s.offered \subseteq ToSet(a.points)
      /\ a.points = <<>> => s.points = <<>>
  <2>1. CASE log \in Tiny
    <3>1. a.points = s.points /\ a.extra = s.extra
      BY <1>3, <2>1
    <3> QED
      BY <1>6, <2>1, <3>1 DEF Complete, HandedBack, UnderWay
  <2>2. CASE log \notin Tiny
    <3> DEFINE n == Len(s.points)
    <3>1. /\ n \in Nat /\ DOMAIN s.points = 1 .. n
          /\ Len(a.points) = n + 1 /\ DOMAIN a.points = 1 .. n + 1
          /\ a.points[n + 1] = log
          /\ \A k \in 1 .. n : a.points[k] = s.points[k]
      BY <1>0, <1>2, <1>3, <2>2
    <3>2. ToSet(a.points) = ToSet(s.points) \cup {log}
      <4>1. ASSUME NEW p \in ToSet(a.points) PROVE p \in ToSet(s.points) \cup {log}
        BY <3>1 DEF ToSet
      <4>2. ASSUME NEW p \in ToSet(s.points) \cup {log} PROVE p \in ToSet(a.points)
        <5>1. CASE p = log
          BY <3>1, <5>1 DEF ToSet
        <5>2. CASE p \in ToSet(s.points)
          <6>1. PICK k \in 1 .. n : p = s.points[k]
            BY <3>1, <5>2 DEF ToSet
          <6>2. k \in DOMAIN a.points /\ a.points[k] = p
            BY <3>1, <6>1
          <6> QED
            BY <6>2 DEF ToSet
        <5> QED
          BY <4>2, <5>1, <5>2
      <4> QED
        BY <4>1, <4>2
    <3>3. \A k, l \in DOMAIN a.points : a.points[k] = a.points[l] => k = l
      <4>1. \A k \in 1 .. n : s.points[k] # log
        BY <1>5, <3>1 DEF ToSet
      <4>2. \A k, l \in 1 .. n : s.points[k] = s.points[l] => k = l
        BY <1>6, <3>1 DEF Complete
      <4>3. \A k \in 1 .. n + 1 : k \in 1 .. n \/ k = n + 1
        BY <3>1
      <4> HIDE DEF n
      <4> QED
        BY <3>1, <4>1, <4>2, <4>3
    <3>4. Complete(a.points, s.logIds \cup {log})
      <4>1. ToSet(a.points) \subseteq (s.logIds \cup {log}) \ Tiny
        BY <1>6, <2>2, <3>2 DEF Complete
      <4>2. (s.logIds \cup {log}) \ (Tiny \cup Redundant) \subseteq ToSet(a.points)
        BY <1>6, <3>2 DEF Complete
      <4> QED
        BY <3>3, <4>1, <4>2 DEF Complete
    <3>5. a.extra = IF Len(a.points) = 1 THEN "full" ELSE "none"
      <4>1. s.points = <<>> <=> n = 0
        BY <1>0
      <4>2. s.points = <<>> => s.extra = "none"
        BY <1>6, <4>1
      <4>3. Len(a.points) = 1 <=> s.points = <<>>
        BY <3>1, <4>1
      <4> QED
        BY <1>3, <2>2, <4>2, <4>3
    <3>6. s.offered \subseteq ToSet(a.points) /\ a.points # <<>>
      BY <3>1, <3>2 DEF HandedBack, UnderWay
    <3> QED
      BY <3>4, <3>5, <3>6
  <2> QED
    BY <2>1, <2>2
<1>8. Open(a) = Open(s)
  BY <1>3 DEF Open, SameXFM
<1>9. AskedOnce(a) /\ Handled(a)
  BY <1>3, <1>8 DEF HandedBack, AskedOnce, Handled, SameXFM
<1>10. AtWork(a)
  <2>1. a.jobs = s.jobs /\ a.tasks = s.tasks
    BY <1>3 DEF SameWWM, SameXFM
  <2> QED
    BY <1>7, <1>8, <2>1 DEF HandedBack, UnderWay, AtWork
<1>11. /\ a.bar = "visible" /\ a.timers = 0 /\ a.offered \subseteq ToSet(a.points)
       /\ Complete(a.points, a.logIds \cup {log})
  BY <1>3, <1>7 DEF HandedBack, UnderWay, SameBVM, SameXFM
<1>12. /\ i \in Open(a) /\ a.tasks[i].kind = "log" /\ a.tasks[i].done
       /\ a.tasks[i].of = log
       /\ \A w \in Workers : \A k \in DOMAIN a.jobs[w] :
             a.jobs[w][k].points[1] # log
  BY <1>3, <1>5, <1>8 DEF HandedBack, SameXFM, SameWWM, log
<1> QED
  BY <1>4, <1>7, <1>9, <1>10, <1>11, <1>12, ReportSuccessOrderly DEF a, log

\* A log that no worker has is given to one.
LEMMA DispatchedOrderly ==
    ASSUME NEW s, NEW i, NEW job \in SoundJob, job.op # "sort", HandedBack(s, i, job)
    PROVE  Orderly(Dispatch(s, job))
<1> DEFINE r == Dispatch(s, job)
<1>0. Sound(s) /\ s \in SoundPage /\ s.jobs \in [Workers -> Seq(SoundJob)]
  BY DEF HandedBack, Sound, SoundPage
<1>1. /\ SameXFM(s, r) /\ SameMKS(s, r) /\ SameBVM(s, r)
      /\ Sent(s, r, job)
  BY <1>0, DispatchDoes
<1> HIDE DEF r
<1>2. PICK w \in Workers : r.jobs = [s.jobs EXCEPT ![w] = Append(s.jobs[w], job)]
  BY <1>1 DEF Sent
<1> DEFINE n == Len(s.jobs[w])
<1>3. /\ n \in Nat /\ DOMAIN s.jobs[w] = 1 .. n
      /\ r.jobs[w] = Append(s.jobs[w], job)
      /\ DOMAIN r.jobs[w] = 1 .. n + 1 /\ r.jobs[w][n + 1] = job
      /\ \A k \in 1 .. n : r.jobs[w][k] = s.jobs[w][k]
      /\ \A v \in Workers : v # w => r.jobs[v] = s.jobs[v]
  BY <1>0, <1>2
<1> HIDE DEF n
\* The messages are those there were, and the new one.
<1>4. ASSUME NEW v \in Workers, NEW k \in DOMAIN r.jobs[v]
      PROVE  \/ k \in DOMAIN s.jobs[v] /\ r.jobs[v][k] = s.jobs[v][k]
             \/ v = w /\ k = n + 1 /\ r.jobs[v][k] = job
  <2>1. CASE v = w
    <3>1. k \in 1 .. n \/ k = n + 1
      BY <1>3, <2>1
    <3> QED
      BY <1>3, <2>1, <3>1
  <2>2. CASE v # w
    BY <1>3, <2>2
  <2> QED
    BY <2>1, <2>2
<1>5. Open(r) = Open(s) /\ r.tasks = s.tasks /\ r.points = s.points
  BY <1>1 DEF Open, SameXFM, SameMKS
<1>6. AtWork(r)
  <2>0. AtWork(s)
    BY DEF HandedBack, UnderWay
  <2>1. ASSUME NEW v \in Workers, NEW k \in DOMAIN r.jobs[v]
        PROVE  LET j == r.jobs[v][k]
               IN  /\ j.op # "sort"
                   /\ \E h \in Open(r) :
                         /\ r.tasks[h].kind = "log" /\ r.tasks[h].done
                         /\ r.tasks[h].of = j.points[1]
                   /\ r.points = <<>> => j.op = "parse" /\ j.extra = "full"
    <3>1. CASE k \in DOMAIN s.jobs[v] /\ r.jobs[v][k] = s.jobs[v][k]
      BY <1>5, <2>0, <3>1 DEF AtWork
    <3>2. CASE r.jobs[v][k] = job
      BY <1>5, <3>2 DEF HandedBack
    <3> QED
      BY <1>4, <3>1, <3>2
  <2>2. ASSUME NEW u \in Workers, NEW v \in Workers,
               NEW k \in DOMAIN r.jobs[u], NEW l \in DOMAIN r.jobs[v],
               r.jobs[u][k].points[1] = r.jobs[v][l].points[1]
        PROVE  u = v /\ k = l
    <3>1. CASE /\ k \in DOMAIN s.jobs[u] /\ r.jobs[u][k] = s.jobs[u][k]
               /\ l \in DOMAIN s.jobs[v] /\ r.jobs[v][l] = s.jobs[v][l]
      BY <2>0, <2>2, <3>1 DEF AtWork
    <3>2. CASE /\ k \in DOMAIN s.jobs[u] /\ r.jobs[u][k] = s.jobs[u][k]
               /\ r.jobs[v][l] = job
      BY <2>2, <3>2 DEF HandedBack
    <3>3. CASE /\ r.jobs[u][k] = job
               /\ l \in DOMAIN s.jobs[v] /\ r.jobs[v][l] = s.jobs[v][l]
      BY <2>2, <3>3 DEF HandedBack
    <3>4. CASE u = w /\ k = n + 1 /\ v = w /\ l = n + 1
      BY <3>4
    <3> QED
      BY <1>4, <3>1, <3>2, <3>3, <3>4
  <2> QED
    BY <2>1, <2>2 DEF AtWork
<1>7. AskedOnce(r) /\ Handled(r)
  BY <1>1, <1>5 DEF HandedBack, AskedOnce, Handled, SameXFM
<1>8. Loading(r)
  BY <1>1, <1>5, <1>6
     DEF HandedBack, Loading, UnderWay, Vectors, SameXFM, SameMKS, SameBVM
<1> QED
  BY <1>7, <1>8 DEF Orderly, r

LEMMA ParsedOrderly ==
    ASSUME NEW s, NEW i, NEW w \in Workers, NEW job \in SoundJob, job.op = "parse",
           HandedBack(s, i, job)
    PROVE  Orderly(ParsedLog(s, w, job))
<1> DEFINE d == ReportWorkerIsDone(s, w)
           vast == d.vast \/ Len(d.points) > VastAt
           seen == [d EXCEPT !.vast = vast]
           r == GetDataAndDispatchPrefilterVec(d, job)
           filter == [job EXCEPT !.op = "prefilter", !.extra = "none"]
<1>0. Sound(s) /\ s \in SoundPage
  BY DEF HandedBack, Sound
<1>1. /\ Sound(d)
      /\ SameXFM(s, d) /\ SameMKS(s, d) /\ SameBVM(s, d) /\ d.jobs = s.jobs
  BY <1>0, ReportDoneDoes, ReportDoneKeeps DEF Keeps
<1>2. ParsedLog(s, w, job) = r
  BY DEF ParsedLog
<1>3. r = IF d.points = <<>> \/ vast \/ d.extra # "none"
          THEN ReportResultsSuccessForLogId(AddData(seen, job.points, job.extra),
                                            job.points[1])
          ELSE Dispatch(seen, filter)
  BY DEF GetDataAndDispatchPrefilterVec
<1> HIDE DEF d, r
<1>4. /\ Sound(seen)
      /\ SameXFM(d, seen) /\ SameWWM(d, seen) /\ SameBVM(d, seen)
      /\ seen.points = d.points /\ seen.extra = d.extra /\ seen.offered = d.offered
  BY <1>1, SeenDoes DEF Keeps
<1> HIDE DEF seen
<1>5. HandedBack(seen, i, job)
  <2>1. /\ SameXFM(s, seen) /\ SameBVM(s, seen) /\ seen.jobs = s.jobs
        /\ seen.points = s.points /\ seen.extra = s.extra /\ seen.offered = s.offered
    BY <1>1, <1>4 DEF SameXFM, SameWWM, SameMKS, SameBVM
  <2> QED
    BY <1>4, <2>1, HandedBackSame
<1>6. CASE d.points = <<>> \/ vast \/ d.extra # "none"
  <2>1. job.extra \in Extra /\ (seen.points = <<>> => job.extra = "full")
    BY <1>5, SoundJobFields DEF HandedBack
  <2> QED
    BY <1>2, <1>3, <1>5, <1>6, <2>1, AddedOrderly
<1>7. CASE ~ (d.points = <<>> \/ vast \/ d.extra # "none")
  <2>1. /\ filter \in SoundJob /\ filter.points = job.points
        /\ filter.op = "prefilter"
    BY PrefilterJobSound
  <2> HIDE DEF filter
  <2>2. HandedBack(seen, i, filter)
    BY <1>4, <1>5, <1>7, <2>1 DEF HandedBack
  <2> QED
    BY <1>2, <1>3, <1>7, <2>1, <2>2, DispatchedOrderly
<1> QED
  BY <1>6, <1>7

LEMMA FilteredOrderly ==
    ASSUME NEW s, NEW i, NEW w \in Workers, NEW job \in SoundJob,
           job.op = "prefilter", HandedBack(s, i, job)
    PROVE  Orderly(FilteredLog(s, w, job))
<1> DEFINE log == job.points[1]
           a == IF log \in Redundant THEN s ELSE AddData(s, job.points, "none")
           d == ReportWorkerIsDone(a, w)
           e == ReportWorkerIsDone(s, w)
<1>0. Sound(s) /\ s \in SoundPage /\ s.points # <<>>
  BY DEF HandedBack, Sound
<1>1. FilteredLog(s, w, job) = ReportResultsSuccessForLogId(d, log)
  BY DEF FilteredLog
<1>2. /\ Sound(e)
      /\ SameXFM(s, e) /\ SameMKS(s, e) /\ SameBVM(s, e) /\ e.jobs = s.jobs
  BY <1>0, ReportDoneDoes, ReportDoneKeeps DEF Keeps
<1>3. HandedBack(e, i, job) /\ e.points # <<>>
  BY <1>0, <1>2, HandedBackSame DEF SameMKS
<1>4. CASE log \in Redundant
  <2>1. d = e
    BY <1>4
  <2> HIDE DEF e, d, a
  <2>3. Complete(e.points, e.logIds \cup {log})
    BY <1>3, <1>4 DEF HandedBack, UnderWay, Vectors, Complete
  <2>4. /\ Sound(e) /\ AskedOnce(e) /\ Handled(e)
        /\ e.bar = "visible" /\ e.timers = 0 /\ e.offered \subseteq ToSet(e.points)
        /\ i \in Open(e) /\ e.tasks[i].kind = "log" /\ e.tasks[i].done
        /\ e.tasks[i].of = log
        /\ e.extra = IF Len(e.points) = 1 THEN "full" ELSE "none"
        /\ AtWork(e)
        /\ \A u \in Workers : \A k \in DOMAIN e.jobs[u] :
              e.jobs[u][k].points[1] # log
    BY <1>3 DEF HandedBack, UnderWay, Vectors
  <2> HIDE DEF log
  <2>5. Orderly(ReportResultsSuccessForLogId(e, log))
    BY <2>3, <2>4, ReportSuccessOrderly
  <2> QED
    BY <1>1, <2>1, <2>5
<1>5. CASE log \notin Redundant
  \* The worker is free before or after the data are added: it is the same.
  <2>1. d = AddData(e, job.points, "none")
    <3>1. s.points = e.points /\ s.extra = e.extra
      BY <1>2 DEF SameMKS
    <3> QED
      BY <1>0, <1>5, <3>1 DEF AddData, ReportWorkerIsDone, SoundPage
  <2>2. "none" \in Extra
    BY DEF Extra
  <2> HIDE DEF d, e, a
  <2>3. Orderly(ReportResultsSuccessForLogId(d, log))
    BY <1>3, <2>1, <2>2, AddedOrderly
  <2> QED
    BY <1>1, <2>3
<1> QED
  BY <1>4, <1>5

\* The sorted vector comes back, and is shown.
LEMMA SortedOrderly ==
    ASSUME NEW s, Sound(s), Orderly(s), NEW w \in Workers, s.jobs[w] # <<>>,
           Head(s.jobs[w]).op = "sort"
    PROVE  LET v == [s EXCEPT !.jobs[w] = Tail(@)]
           IN  Orderly(SortedData(v, w, Head(s.jobs[w])))
<1> DEFINE v == [s EXCEPT !.jobs[w] = Tail(@)]
           job == Head(s.jobs[w])
           single == Cardinality(ToSet(job.points)) = 1
           x == IF single THEN job.extra ELSE "none"
           a == AddData(v, job.points, x)
           d == ReportWorkerIsDone(a, w)
           r == ShowData(d)
<1>0. s \in SoundPage /\ s.jobs[w] \in Seq(SoundJob)
  BY DEF Sound, SoundPage
<1>1. job = s.jobs[w][1] /\ 1 \in DOMAIN s.jobs[w]
  BY <1>0
<1>2. /\ job \in SoundJob /\ Sound(v) /\ v \in SoundPage
      /\ SameXFM(s, v) /\ SameMKS(s, v) /\ SameBVM(s, v)
  BY TakenDoes DEF Keeps
<1>3. SortedData(v, w, job) = r
  BY DEF SortedData
<1> HIDE DEF v, job
<1>4. BeingSorted(s)
  <2>1. ~ Shown(s)
    BY DEF Shown
  <2>2. ~ Loading(s)
    BY <1>1 DEF Loading, UnderWay, AtWork, job
  <2> QED
    BY <2>1, <2>2 DEF Orderly
<1>5. SortingAt(s, w)
  <2>1. PICK u \in Workers : SortingAt(s, u)
    BY <1>4 DEF BeingSorted
  <2> QED
    BY <2>1 DEF SortingAt
<1>6. /\ job.points \in Seq(Logs) /\ job.extra \in Extra /\ job.points # <<>>
      /\ Len(job.points) = 1 => job.extra = "full"
      /\ Complete(job.points, s.logIds)
      /\ v.points = <<>> /\ v.extra = "none"
  BY <1>1, <1>2, <1>4, <1>5, SoundJobFields DEF SortingAt, BeingSorted, SameMKS
<1> DEFINE n == Len(job.points)
<1>7. n \in Nat /\ n >= 1 /\ DOMAIN job.points = 1 .. n
  BY <1>6
<1>8. single <=> n = 1
  <2>1. ASSUME n = 1 PROVE single
    <3>1. ToSet(job.points) = {job.points[1]}
      BY <1>7, <2>1 DEF ToSet
    <3> QED
      BY <3>1, FS_Singleton
  <2>2. ASSUME single PROVE n = 1
    <3>1. IsFiniteSet(ToSet(job.points))
      <4>1. IsFiniteSet(1 .. n)
        BY <1>7, FS_Interval
      <4> DEFINE f == [k \in 1 .. n |-> job.points[k]]
      <4>2. f \in Surjection(1 .. n, ToSet(job.points))
        BY <1>7 DEF Surjection, ToSet
      <4> HIDE DEF f
      <4> QED
        BY <4>1, <4>2, FS_Surjection
    <3>2. PICK p : ToSet(job.points) = {p}
      BY <2>2, <3>1, FS_Singleton
    <3>3. \A k \in 1 .. n : job.points[k] = p
      BY <1>7, <3>2 DEF ToSet
    <3> HIDE DEF n
    <3>4. 1 \in 1 .. n /\ (n # 1 => 2 \in 1 .. n)
      BY <1>7
    <3>5. n # 1 => job.points[1] = job.points[2]
      BY <3>3, <3>4
    <3> QED
      BY <1>6, <1>7, <3>4, <3>5 DEF Complete
  <2> QED
    BY <2>1, <2>2
<1> HIDE DEF single
<1>9. x \in Extra /\ x = IF n = 1 THEN "full" ELSE "none"
  BY <1>6, <1>8 DEF Extra
<1> HIDE DEF x
<1>10. ~ (job.points = <<>> \/ (Len(job.points) = 1 /\ job.points[1] \in Tiny))
  <2>1. job.points[1] \in ToSet(job.points)
    BY <1>7 DEF ToSet
  <2> QED
    BY <1>6, <2>1 DEF Complete
<1>11. /\ a \in SoundPage
       /\ SameXFM(v, a) /\ SameBVM(v, a)
       /\ a.points = v.points \o job.points
       /\ a.extra = IF v.points = <<>> /\ v.extra = "none" THEN x ELSE "none"
  <2>1. v \in SoundPage /\ job.points \in Seq(Logs) /\ x \in Extra
    BY <1>2, <1>6, <1>9
  <2> HIDE DEF a
  <2> QED
    BY <1>10, <2>1, AddDataDoes DEF a
<1>12. a.points = job.points /\ a.extra = x
  BY <1>6, <1>11
<1> HIDE DEF a
<1>13. /\ d \in SoundPage
       /\ SameXFM(a, d) /\ SameMKS(a, d) /\ SameBVM(a, d)
  BY <1>11, ReportDoneDoes
<1> HIDE DEF d
<1>14. /\ SameXFM(d, r)
       /\ r.points = d.points /\ r.extra = d.extra
       /\ r.offered = IF d.points = <<>> THEN d.offered ELSE ToSet(d.points)
       /\ \A u \in Workers : r.jobs[u] = <<>>
       /\ r.bar = d.bar /\ r.timers = d.timers + 1
  BY <1>13, ShowDoes
<1> HIDE DEF r
<1>15. /\ SameXFM(s, r)
       /\ r.points = job.points /\ r.extra = x /\ r.offered = ToSet(job.points)
       /\ r.bar = s.bar /\ r.timers = s.timers + 1
  BY <1>2, <1>6, <1>11, <1>12, <1>13, <1>14 DEF SameXFM, SameMKS, SameBVM
<1>16. Open(r) = {}
  BY <1>4, <1>15 DEF BeingSorted, Open, SameXFM
<1>17. AskedOnce(r) /\ Handled(r)
  BY <1>15, <1>16 DEF Orderly, AskedOnce, Handled, SameXFM
<1>18. Vectors(r)
  BY <1>6, <1>9, <1>15 DEF Vectors, SameXFM
<1>19. Shown(r)
  BY <1>4, <1>14, <1>15, <1>16, <1>18 DEF Shown, BeingSorted
<1> QED
  BY <1>3, <1>17, <1>19 DEF Orderly, v, job

-----------------------------------------------------------------------------
(* New transfers *)

\* The transfers of x that s does not have: all are open, they ask for logs
\* of ids, and no two of them for the same.
NewTasks(s, x) == DOMAIN x.tasks \ DOMAIN s.tasks

Fresh(s, x, ids) ==
    /\ \A j \in NewTasks(s, x) :
          /\ ~ x.tasks[j].done /\ ~ x.tasks[j].error /\ ~ x.tasks[j].callbackDone
          /\ Asked(x.tasks[j]) \subseteq ids
    /\ \A j, k \in NewTasks(s, x) :
          j # k => Asked(x.tasks[j]) \cap Asked(x.tasks[k]) = {}

\* A transfer in flight is over, and others that it has asked for are there.
LEMMA ReplacedOrderly ==
    ASSUME NEW s, Sound(s), Orderly(s), NEW i \in DOMAIN s.tasks,
           s.tasks[i].started, ~ s.tasks[i].done,
           NEW x, Sound(x),
           \A j \in DOMAIN s.tasks :
              j \in DOMAIN x.tasks /\ (j # i => Alike(s.tasks[j], x.tasks[j])),
           x.tasks[i].done, x.tasks[i].callbackDone \/ x.tasks[i].error,
           x.tasks[i].kind = s.tasks[i].kind, x.tasks[i].of = s.tasks[i].of,
           x.tasks[i].page = s.tasks[i].page,
           x.tasks[i].kind = "query" /\ x.tasks[i].page = PageLimit[x.tasks[i].of]
              => x.tasks[i].error,
           Fresh(s, x, Asked(s.tasks[i])),
           x.logIds = s.logIds, SameWWM(s, x), SameMKS(s, x),
           x.bar = "visible", x.timers = s.timers
    PROVE  AskedOnce(x) /\ Handled(x) /\ UnderWay(x) /\ Orderly(Ended(x))
<1>1. s.tasks[i] \in SoundTask
  BY TaskFacts DEF Sound
<1>2. i \in Open(s)
  BY <1>1, SoundTaskFields DEF Open
<1>3. Loading(s)
  BY <1>2 DEF Orderly, BeingSorted, Shown
<1>4. AskedOnce(s) /\ Handled(s) /\ AtWork(s)
  BY <1>3 DEF Orderly, Loading, UnderWay
<1>5. ASSUME NEW j \in Open(x)
      PROVE  \/ /\ j \in Open(s) /\ j # i /\ j \notin NewTasks(s, x)
                /\ Alike(s.tasks[j], x.tasks[j])
                /\ Asked(x.tasks[j]) = Asked(s.tasks[j])
             \/ j \in NewTasks(s, x) /\ Asked(x.tasks[j]) \subseteq Asked(s.tasks[i])
  <2>1. CASE j \in DOMAIN s.tasks
    <3>1. j # i
      BY DEF Open
    <3>2. Alike(s.tasks[j], x.tasks[j])
      BY <2>1, <3>1
    <3>3. j \in Open(s)
      BY <2>1, <3>2 DEF Open, Alike
    <3> QED
      BY <2>1, <3>1, <3>2, <3>3, AskedOfAlike DEF NewTasks
  <2>2. CASE j \notin DOMAIN s.tasks
    BY <2>2 DEF Open, NewTasks, Fresh
  <2> QED
    BY <2>1, <2>2
<1>6. ASSUME NEW j \in Open(s), j # i
      PROVE  /\ j \in Open(x) /\ Alike(s.tasks[j], x.tasks[j])
  BY <1>6 DEF Open, Alike
<1>7. AskedOnce(x)
  <2>1. ASSUME NEW j \in Open(x) PROVE Asked(x.tasks[j]) \cap x.logIds = {}
    BY <1>2, <1>4, <1>5 DEF AskedOnce
  <2>2. ASSUME NEW j \in Open(x), NEW k \in Open(x), j # k
        PROVE  Asked(x.tasks[j]) \cap Asked(x.tasks[k]) = {}
    <3>1. CASE j \in NewTasks(s, x) /\ k \in NewTasks(s, x)
      BY <2>2, <3>1 DEF Fresh
    <3>2. CASE j \notin NewTasks(s, x) /\ k \in NewTasks(s, x)
      <4>1. /\ j \in Open(s) /\ j # i /\ Asked(x.tasks[j]) = Asked(s.tasks[j])
            /\ Asked(x.tasks[k]) \subseteq Asked(s.tasks[i])
        BY <1>5, <3>2
      <4> QED
        BY <1>2, <1>4, <4>1 DEF AskedOnce
    <3>3. CASE j \in NewTasks(s, x) /\ k \notin NewTasks(s, x)
      <4>1. /\ k \in Open(s) /\ k # i /\ Asked(x.tasks[k]) = Asked(s.tasks[k])
            /\ Asked(x.tasks[j]) \subseteq Asked(s.tasks[i])
        BY <1>5, <3>3
      <4> QED
        BY <1>2, <1>4, <4>1 DEF AskedOnce
    <3>4. CASE j \notin NewTasks(s, x) /\ k \notin NewTasks(s, x)
      BY <1>4, <1>5, <2>2, <3>4 DEF AskedOnce
    <3> QED
      BY <3>1, <3>2, <3>3, <3>4
  <2> QED
    BY <2>1, <2>2 DEF AskedOnce
<1>8. Handled(x)
  <2> SUFFICES ASSUME NEW j \in DOMAIN x.tasks, x.tasks[j].done
               PROVE  LET t == x.tasks[j]
                      IN  /\ t.kind # "log" => t.callbackDone \/ t.error
                          /\ t.kind = "query" /\ t.page = PageLimit[t.of] => t.error
    BY DEF Handled
  <2>1. CASE j = i
    BY <2>1
  <2>2. CASE j # i
    <3>1. j \in DOMAIN s.tasks
      BY DEF Fresh, NewTasks
    <3> QED
      BY <1>4, <2>2, <3>1 DEF Handled, Alike
  <2> QED
    BY <2>1, <2>2
<1>9. AtWork(x)
  <2>1. x.jobs = s.jobs /\ x.points = s.points
    BY DEF SameWWM, SameMKS
  <2>2. ASSUME NEW w \in Workers, NEW k \in DOMAIN x.jobs[w]
        PROVE  \E j \in Open(x) :
                  /\ x.tasks[j].kind = "log" /\ x.tasks[j].done
                  /\ x.tasks[j].of = x.jobs[w][k].points[1]
    <3>1. PICK j \in Open(s) :
              /\ s.tasks[j].kind = "log" /\ s.tasks[j].done
              /\ s.tasks[j].of = s.jobs[w][k].points[1]
      BY <1>4, <2>1 DEF AtWork
    <3>2. j # i
      BY <3>1
    <3> QED
      BY <1>6, <2>1, <3>1, <3>2 DEF Alike
  <2> QED
    BY <1>4, <2>1, <2>2 DEF AtWork
<1>10. UnderWay(x)
  BY <1>3, <1>9 DEF Loading, UnderWay, Vectors, SameMKS
<1> QED
  BY <1>7, <1>8, <1>10, EndedOrderly

\* New transfers are asked for while everything is shown.
LEMMA BegunOrderly ==
    ASSUME NEW s, Sound(s), Orderly(s), s.bar = "hidden",
           NEW x, Sound(x),
           \A j \in DOMAIN s.tasks : j \in DOMAIN x.tasks /\ x.tasks[j] = s.tasks[j],
           NewTasks(s, x) # {}, NEW ids, Fresh(s, x, ids), ids \cap s.logIds = {},
           x.logIds = s.logIds, SameWWM(s, x), SameMKS(s, x),
           x.bar = "visible", x.timers = s.timers
    PROVE  Orderly(x)
<1>1. Shown(s) /\ s.timers = 0 /\ Open(s) = {}
  BY DEF Orderly, Loading, UnderWay, BeingSorted, Shown
<1>2. Open(x) = NewTasks(s, x)
  BY <1>1 DEF Open, NewTasks, Fresh
<1>3. AskedOnce(x)
  BY <1>2 DEF AskedOnce, Fresh
<1>4. Handled(x)
  BY DEF Orderly, Handled, Fresh, NewTasks
<1>5. AtWork(x)
  <2>1. \A w \in Workers : DOMAIN x.jobs[w] = {}
    BY <1>1 DEF Shown, SameWWM
  <2> QED
    BY <2>1 DEF AtWork
<1>6. UnderWay(x)
  BY <1>1, <1>5 DEF Shown, UnderWay, Vectors, SameMKS
<1> QED
  BY <1>2, <1>3, <1>4, <1>6 DEF Orderly, Loading

LEMMA FreshAlike ==
    ASSUME NEW s, NEW a, NEW ids, Fresh(s, a, ids), NEW x,
           DOMAIN x.tasks = DOMAIN a.tasks,
           \A j \in NewTasks(s, a) : Alike(a.tasks[j], x.tasks[j])
    PROVE  Fresh(s, x, ids) /\ NewTasks(s, x) = NewTasks(s, a)
<1>1. NewTasks(s, x) = NewTasks(s, a)
  BY DEF NewTasks
<1>2. \A j \in NewTasks(s, a) : Asked(x.tasks[j]) = Asked(a.tasks[j])
  BY AskedOfAlike
<1> QED
  BY <1>1, <1>2 DEF Fresh, Alike

LEMMA NewTaskAlike ==
    ASSUME NEW kind, NEW of, NEW n, NEW u, Alike(NewTask(kind, of, n), u)
    PROVE  /\ ~ u.done /\ ~ u.error /\ ~ u.callbackDone
           /\ u.kind = kind /\ u.of = of /\ u.page = n
  BY DEF Alike, NewTask

\* A transfer for each log of a list in which no log is twice.
LEMMA GetEachFresh ==
    ASSUME NEW s, Sound(s), NEW kind \in {"log", "id"}, NEW logs \in Seq(Logs),
           \A k, l \in DOMAIN logs : logs[k] = logs[l] => k = l,
           ToSet(logs) \cap s.logIds = {}
    PROVE  LET r == GetEach(s, kind, logs)
           IN  /\ Sound(r) /\ r.logIds = s.logIds /\ r.timers = s.timers
               /\ SameWWM(s, r) /\ SameMKS(s, r)
               /\ \A i \in DOMAIN s.tasks :
                     i \in DOMAIN r.tasks /\ r.tasks[i] = s.tasks[i]
               /\ Fresh(s, r, ToSet(logs))
               /\ \A j \in NewTasks(s, r) : r.tasks[j].kind = kind
               /\ IF logs = <<>> THEN r = s
                  ELSE NewTasks(s, r) # {} /\ r.bar = "visible"
<1> DEFINE r == GetEach(s, kind, logs)
           L == Len(s.tasks)
           N == Len(logs)
<1>0. s \in SoundPage /\ L \in Nat /\ DOMAIN s.tasks = 1 .. L
      /\ N \in Nat /\ DOMAIN logs = 1 .. N /\ (logs = <<>> <=> N = 0)
  BY TaskFacts DEF Sound
<1>1. AskedFor(s, r, kind, logs, N)
  BY GetEachDoes
<1> HIDE DEF r
<1>2. /\ Sound(r) /\ r.logIds = s.logIds /\ r.timers = s.timers
      /\ SameWWM(s, r) /\ SameMKS(s, r)
      /\ \A i \in DOMAIN s.tasks : i \in DOMAIN r.tasks /\ r.tasks[i] = s.tasks[i]
      /\ Len(r.tasks) = L + N
      /\ \A k \in 1 .. N : Alike(NewTask(kind, logs[k], 0), r.tasks[L + k])
      /\ IF N = 0 THEN r = s ELSE r.bar = "visible"
  BY <1>1 DEF AskedFor
<1>3. DOMAIN r.tasks = 1 .. L + N
  BY <1>2, TaskFacts DEF Sound
<1> HIDE DEF L, N
<1>4. \A j \in NewTasks(s, r) : j - L \in 1 .. N /\ j = L + (j - L)
  BY <1>0, <1>3 DEF NewTasks
<1>5. \A j \in NewTasks(s, r) :
          /\ ~ r.tasks[j].done /\ ~ r.tasks[j].error /\ ~ r.tasks[j].callbackDone
          /\ r.tasks[j].kind = kind /\ r.tasks[j].of = logs[j - L]
  BY <1>2, <1>4, NewTaskAlike
<1>6. \A j \in NewTasks(s, r) : Asked(r.tasks[j]) = {logs[j - L]}
  BY <1>5 DEF Asked
<1>7. Fresh(s, r, ToSet(logs))
  <2>1. \A j \in NewTasks(s, r) : Asked(r.tasks[j]) \subseteq ToSet(logs)
    <3> TAKE j \in NewTasks(s, r)
    <3>1. j - L \in DOMAIN logs
      BY <1>0, <1>4
    <3>2. logs[j - L] \in ToSet(logs)
      BY <3>1 DEF ToSet
    <3> QED
      BY <1>6, <3>2
  <2>2. ASSUME NEW j \in NewTasks(s, r), NEW k \in NewTasks(s, r), j # k
        PROVE  Asked(r.tasks[j]) \cap Asked(r.tasks[k]) = {}
    <3>1. j - L # k - L
      BY <1>0, <1>3, <2>2 DEF NewTasks
    <3>2. logs[j - L] # logs[k - L]
      BY <1>0, <1>4, <3>1
    <3> QED
      BY <1>6, <3>2
  <2> QED
    BY <1>5, <2>1, <2>2 DEF Fresh
<1>8. N # 0 => NewTasks(s, r) # {}
  <2>1. N # 0 => L + 1 \in DOMAIN r.tasks /\ L + 1 \notin DOMAIN s.tasks
    BY <1>0, <1>3
  <2> QED
    BY <2>1 DEF NewTasks
<1>9. IF logs = <<>> THEN r = s ELSE NewTasks(s, r) # {} /\ r.bar = "visible"
  BY <1>0, <1>2, <1>8
<1> QED
  BY <1>2, <1>5, <1>7, <1>9 DEF r

\* One more transfer, for what the new ones do not ask for yet.
LEMMA AddTaskFresh ==
    ASSUME NEW s, NEW a, Sound(a), NEW ids, Fresh(s, a, ids),
           \A i \in DOMAIN s.tasks : i \in DOMAIN a.tasks /\ a.tasks[i] = s.tasks[i],
           NEW kind, NEW of, NEW n, NewTask(kind, of, n) \in SoundTask,
           ~ (kind = "log" /\ of \in a.logIds),
           Asked(NewTask(kind, of, n)) \subseteq ids,
           \A j \in NewTasks(s, a) :
              Asked(a.tasks[j]) \cap Asked(NewTask(kind, of, n)) = {}
    PROVE  LET r == AddTask(a, NewTask(kind, of, n))
           IN  /\ Sound(r) /\ r.logIds = a.logIds /\ r.timers = a.timers
               /\ SameWWM(a, r) /\ SameMKS(a, r) /\ r.bar = "visible"
               /\ \A i \in DOMAIN s.tasks :
                     i \in DOMAIN r.tasks /\ r.tasks[i] = s.tasks[i]
               /\ Fresh(s, r, ids) /\ NewTasks(s, r) # {}
<1> DEFINE t == NewTask(kind, of, n)
           r == AddTask(a, t)
           L == Len(a.tasks)
<1>0. a \in SoundPage /\ L \in Nat /\ DOMAIN a.tasks = 1 .. L
  BY TaskFacts DEF Sound
<1>1. ~ t.started /\ t.kind = kind /\ t.of = of
  BY DEF NewTask
<1>2. /\ Sound(r) /\ r.logIds = a.logIds /\ r.timers = a.timers
      /\ SameWWM(a, r) /\ SameMKS(a, r) /\ r.bar = "visible"
      /\ \A i \in DOMAIN a.tasks : i \in DOMAIN r.tasks /\ r.tasks[i] = a.tasks[i]
      /\ Len(r.tasks) = L + 1
      /\ Alike(t, r.tasks[L + 1])
  <2> HIDE DEF t
  <2> QED
    BY <1>1, AddTaskDoes DEF t
<1> HIDE DEF r
<1>3. DOMAIN r.tasks = 1 .. L + 1
  BY <1>2, TaskFacts DEF Sound
<1>4. /\ ~ r.tasks[L + 1].done /\ ~ r.tasks[L + 1].error
      /\ ~ r.tasks[L + 1].callbackDone
      /\ Asked(r.tasks[L + 1]) = Asked(t)
  BY <1>2, NewTaskAlike, AskedOfAlike
<1> HIDE DEF L, t
<1>5. \A j \in NewTasks(s, r) :
          \/ j \in NewTasks(s, a) /\ r.tasks[j] = a.tasks[j]
          \/ j = L + 1
  <2>1. \A j \in DOMAIN r.tasks : j \in DOMAIN a.tasks \/ j = L + 1
    BY <1>0, <1>3
  <2> QED
    BY <1>2, <2>1 DEF NewTasks
<1>6. L + 1 \in NewTasks(s, r)
  <2>1. L + 1 \in DOMAIN r.tasks /\ L + 1 \notin DOMAIN a.tasks
    BY <1>0, <1>3
  <2> QED
    BY <2>1 DEF NewTasks
<1>7. Fresh(s, r, ids)
  <2>1. ASSUME NEW j \in NewTasks(s, r)
        PROVE  /\ ~ r.tasks[j].done /\ ~ r.tasks[j].error
               /\ ~ r.tasks[j].callbackDone
               /\ Asked(r.tasks[j]) \subseteq ids
    <3>1. CASE j = L + 1
      BY <1>4, <3>1 DEF t
    <3>2. CASE j \in NewTasks(s, a) /\ r.tasks[j] = a.tasks[j]
      BY <3>2 DEF Fresh
    <3> QED
      BY <1>5, <3>1, <3>2
  <2>2. ASSUME NEW j \in NewTasks(s, r), NEW k \in NewTasks(s, r), j # k
        PROVE  Asked(r.tasks[j]) \cap Asked(r.tasks[k]) = {}
    <3>1. CASE j = L + 1
      BY <1>4, <1>5, <2>2, <3>1 DEF t
    <3>2. CASE k = L + 1
      BY <1>4, <1>5, <2>2, <3>2 DEF t
    <3>3. CASE j # L + 1 /\ k # L + 1
      BY <1>5, <2>2, <3>3 DEF Fresh
    <3> QED
      BY <3>1, <3>2, <3>3
  <2> QED
    BY <2>1, <2>2 DEF Fresh
<1>8. \A i \in DOMAIN s.tasks : i \in DOMAIN r.tasks /\ r.tasks[i] = s.tasks[i]
  BY <1>2
<1> QED
  BY <1>2, <1>6, <1>7, <1>8 DEF r, t

-----------------------------------------------------------------------------
(* What is received *)

LEMMA InFlightFacts ==
    ASSUME NEW s, Sound(s), Orderly(s), NEW i \in DOMAIN s.tasks,
           s.tasks[i].started, ~ s.tasks[i].done
    PROVE  /\ s.tasks[i] \in SoundTask /\ i \in Open(s) /\ Loading(s)
           /\ AskedOnce(s) /\ Handled(s) /\ s.bar = "visible"
<1>1. s.tasks[i] \in SoundTask
  BY TaskFacts DEF Sound
<1>2. i \in Open(s)
  BY <1>1, SoundTaskFields DEF Open
<1>3. Loading(s)
  BY <1>2 DEF Orderly, BeingSorted, Shown
<1> QED
  BY <1>1, <1>2, <1>3 DEF Orderly, Loading, UnderWay

\* The file of a log goes to a worker.
LEMMA LogReceivedOrderly ==
    ASSUME NEW s, Sound(s), Orderly(s), NEW i \in DOMAIN s.tasks,
           s.tasks[i].started, ~ s.tasks[i].done, s.tasks[i].kind = "log", NEW empty
    PROVE  Orderly(Received(s, i, empty))
<1> DEFINE v == [s EXCEPT !.tasks[i].done = TRUE]
           log == s.tasks[i].of
           job == [op |-> "parse", points |-> <<log>>,
                   extra |-> IF v.points = <<>> THEN "full" ELSE "short"]
<1>1. /\ s.tasks[i] \in SoundTask /\ i \in Open(s) /\ Loading(s)
      /\ AskedOnce(s) /\ Handled(s) /\ log \in Logs
  BY InFlightFacts, SoundTaskFields
<1>2. /\ Done(s, v, i)
      /\ v.tasks[i].kind = "log" /\ v.tasks[i].done /\ v.tasks[i].of = log
      /\ v.tasks[i].page = s.tasks[i].page /\ v.tasks[i].error = s.tasks[i].error
  BY DoneDoes
<1>3. Received(s, i, empty) = DispatchLogParseToVec(v, log)
  BY <1>2 DEF Received, Callback
<1> HIDE DEF v
<1>4. /\ Sound(v) /\ v \in SoundPage /\ DOMAIN v.tasks = DOMAIN s.tasks
      /\ \A j \in DOMAIN s.tasks : j # i => v.tasks[j] = s.tasks[j]
      /\ v.logIds = s.logIds
      /\ SameWWM(s, v) /\ SameMKS(s, v) /\ SameBVM(s, v)
      /\ v.tasks[i].callbackDone = s.tasks[i].callbackDone
  BY <1>1, <1>2 DEF Done, Sound, SoundTask, Task
<1>5. job \in SoundJob /\ DispatchLogParseToVec(v, log) = Dispatch(v, job)
  BY <1>1, <1>4, ParseJobSound
<1>6. job.op = "parse" /\ job.points[1] = log /\ (v.points = <<>> => job.extra = "full")
  OBVIOUS
<1> HIDE DEF job, log
<1>7. Open(v) = Open(s)
  BY <1>2, <1>4 DEF Open
<1>8. \A j \in DOMAIN s.tasks :
          /\ v.tasks[j].kind = s.tasks[j].kind /\ v.tasks[j].of = s.tasks[j].of
          /\ v.tasks[j].page = s.tasks[j].page
          /\ s.tasks[j].done => v.tasks[j].done
  BY <1>2, <1>4 DEF log
<1>9. \A j \in Open(s) : j \in DOMAIN s.tasks /\ Asked(v.tasks[j]) = Asked(s.tasks[j])
  BY <1>8 DEF Open, Asked
<1>10. AskedOnce(v)
  BY <1>1, <1>4, <1>7, <1>9 DEF AskedOnce
<1>11. Handled(v)
  <2> SUFFICES ASSUME NEW j \in DOMAIN v.tasks, v.tasks[j].done
               PROVE  LET t == v.tasks[j]
                      IN  /\ t.kind # "log" => t.callbackDone \/ t.error
                          /\ t.kind = "query" /\ t.page = PageLimit[t.of] => t.error
    BY DEF Handled
  <2>1. CASE j = i
    BY <1>2, <2>1
  <2>2. CASE j # i
    BY <1>1, <1>4, <2>2 DEF Handled
  <2> QED
    BY <2>1, <2>2
<1>12. AtWork(s)
  BY <1>1 DEF Loading, UnderWay
<1>13. AtWork(v)
  <2>1. v.jobs = s.jobs /\ v.points = s.points
    BY <1>4 DEF SameWWM, SameMKS
  <2> QED
    BY <1>7, <1>8, <1>9, <1>12, <2>1 DEF AtWork
<1>14. UnderWay(v)
  BY <1>1, <1>4, <1>13 DEF Loading, UnderWay, Vectors, SameMKS, SameBVM
<1>15. \A w \in Workers : \A k \in DOMAIN v.jobs[w] : v.jobs[w][k].points[1] # log
  <2> SUFFICES ASSUME NEW w \in Workers, NEW k \in DOMAIN v.jobs[w],
                      v.jobs[w][k].points[1] = log
               PROVE  FALSE
    OBVIOUS
  <2>1. v.jobs = s.jobs
    BY <1>4 DEF SameWWM
  <2>2. PICK j \in Open(s) :
            s.tasks[j].kind = "log" /\ s.tasks[j].done /\ s.tasks[j].of = log
    BY <1>12, <2>1 DEF AtWork
  <2>3. Asked(s.tasks[j]) = {log} /\ Asked(s.tasks[i]) = {log}
    BY <2>2 DEF Asked, log
  <2>4. j = i
    BY <1>1, <2>2, <2>3 DEF AskedOnce
  <2> QED
    BY <2>2, <2>4
<1>16. HandedBack(v, i, job)
  BY <1>1, <1>2, <1>4, <1>6, <1>7, <1>10, <1>11, <1>14, <1>15 DEF HandedBack
<1> QED
  BY <1>3, <1>5, <1>6, <1>16, DispatchedOrderly

\* A transfer in flight is called back after it has asked for others.
LEMMA CalledBackOrderly ==
    ASSUME NEW s, Sound(s), Orderly(s), NEW i \in DOMAIN s.tasks,
           s.tasks[i].started, ~ s.tasks[i].done, s.tasks[i].kind # "log",
           NEW c, Sound(c),
           \A j \in DOMAIN s.tasks :
              j \in DOMAIN c.tasks /\ (j # i => Alike(s.tasks[j], c.tasks[j])),
           c.tasks[i].done,
           c.tasks[i].kind = s.tasks[i].kind, c.tasks[i].of = s.tasks[i].of,
           c.tasks[i].page = s.tasks[i].page,
           c.tasks[i].kind = "query" /\ c.tasks[i].page = PageLimit[c.tasks[i].of]
              => c.tasks[i].error,
           Fresh(s, c, Asked(s.tasks[i])),
           c.logIds = s.logIds, SameWWM(s, c), SameMKS(s, c),
           c.bar = "visible", c.timers = s.timers
    PROVE  Orderly(SetSuccess(c, i))
<1>1. i \in DOMAIN c.tasks /\ c.tasks[i] \in SoundTask
  BY TaskFacts DEF Sound
<1>2. PICK x : CalledBack(c, x, i) /\ SetSuccess(c, i) = Ended(x)
  BY <1>1, SetSuccessDoes
<1>3. /\ Sound(x) /\ DOMAIN x.tasks = DOMAIN c.tasks
      /\ \A j \in DOMAIN c.tasks : j # i => x.tasks[j] = c.tasks[j]
      /\ x.logIds = c.logIds
      /\ SameWWM(c, x) /\ SameMKS(c, x) /\ SameBVM(c, x)
      /\ x.tasks[i] = [c.tasks[i] EXCEPT !.callbackDone = TRUE]
  BY <1>2 DEF CalledBack
<1>4. /\ x.tasks[i].done = c.tasks[i].done /\ x.tasks[i].callbackDone
      /\ x.tasks[i].error = c.tasks[i].error
      /\ x.tasks[i].kind = c.tasks[i].kind /\ x.tasks[i].of = c.tasks[i].of
      /\ x.tasks[i].page = c.tasks[i].page
  BY <1>1, <1>3 DEF SoundTask, Task
<1>5. \A j \in NewTasks(s, c) : j # i /\ Alike(c.tasks[j], x.tasks[j])
  BY <1>3 DEF NewTasks, Alike
<1>6. Fresh(s, x, Asked(s.tasks[i]))
  BY <1>3, <1>5, FreshAlike
<1>7. \A j \in DOMAIN s.tasks :
          j \in DOMAIN x.tasks /\ (j # i => Alike(s.tasks[j], x.tasks[j]))
  BY <1>3
<1>8. /\ x.logIds = s.logIds /\ SameWWM(s, x) /\ SameMKS(s, x)
      /\ x.bar = "visible" /\ x.timers = s.timers
  BY <1>3 DEF SameWWM, SameMKS, SameBVM
<1>9. /\ x.tasks[i].done /\ (x.tasks[i].callbackDone \/ x.tasks[i].error)
      /\ x.tasks[i].kind = s.tasks[i].kind /\ x.tasks[i].of = s.tasks[i].of
      /\ x.tasks[i].page = s.tasks[i].page
      /\ (x.tasks[i].kind = "query" /\ x.tasks[i].page = PageLimit[x.tasks[i].of]
            => x.tasks[i].error)
  BY <1>4
<1>10. Orderly(Ended(x))
  BY <1>3, <1>6, <1>7, <1>8, <1>9, ReplacedOrderly
<1> QED
  BY <1>2, <1>10

\* The page of a log names its file.
LEMMA IdReceivedOrderly ==
    ASSUME NEW s, Sound(s), Orderly(s), NEW i \in DOMAIN s.tasks,
           s.tasks[i].started, ~ s.tasks[i].done, s.tasks[i].kind = "id"
    PROVE  Orderly(Received(s, i, FALSE))
<1> DEFINE v == [s EXCEPT !.tasks[i].done = TRUE]
           log == s.tasks[i].of
           c == AddTask(v, NewTask("log", log, 0))
<1>1. /\ s.tasks[i] \in SoundTask /\ i \in Open(s)
      /\ AskedOnce(s) /\ log \in Logs /\ Asked(s.tasks[i]) = {log}
  BY InFlightFacts, SoundTaskFields DEF Asked
<1>2. /\ Done(s, v, i)
      /\ v.tasks[i].kind = "id" /\ v.tasks[i].done /\ v.tasks[i].of = log
      /\ v.tasks[i].page = s.tasks[i].page
  BY DoneDoes
<1>3. Received(s, i, FALSE) = SetSuccess(c, i)
  BY <1>2 DEF Received, Callback, GetLogFile
<1> HIDE DEF v
<1>4. /\ Sound(v) /\ DOMAIN v.tasks = DOMAIN s.tasks
      /\ \A j \in DOMAIN s.tasks : j # i => v.tasks[j] = s.tasks[j]
      /\ v.logIds = s.logIds
      /\ SameWWM(s, v) /\ SameMKS(s, v) /\ SameBVM(s, v)
  BY <1>2 DEF Done
<1>5. /\ NewTask("log", log, 0) \in SoundTask
      /\ Asked(NewTask("log", log, 0)) = {log}
      /\ log \notin v.logIds
  BY <1>1, <1>4, NewTaskSound DEF AskedOnce, Asked
<1>6. NewTasks(v, v) = {} /\ Fresh(v, v, {log})
  BY DEF NewTasks, Fresh
<1>7. /\ Sound(c) /\ c.logIds = v.logIds /\ c.timers = v.timers
      /\ SameWWM(v, c) /\ SameMKS(v, c) /\ c.bar = "visible"
      /\ \A j \in DOMAIN v.tasks : j \in DOMAIN c.tasks /\ c.tasks[j] = v.tasks[j]
      /\ Fresh(v, c, {log})
  BY <1>4, <1>5, <1>6, AddTaskFresh
<1> HIDE DEF c
<1>8. Fresh(s, c, Asked(s.tasks[i]))
  BY <1>1, <1>4, <1>7 DEF Fresh, NewTasks
<1>9. \A j \in DOMAIN s.tasks :
          j \in DOMAIN c.tasks /\ (j # i => Alike(s.tasks[j], c.tasks[j]))
  BY <1>4, <1>7 DEF Alike
<1>10. /\ c.logIds = s.logIds /\ SameWWM(s, c) /\ SameMKS(s, c)
       /\ c.timers = s.timers
  BY <1>4, <1>7 DEF SameWWM, SameMKS, SameBVM
<1>11. /\ c.tasks[i].done /\ c.tasks[i].kind = s.tasks[i].kind
       /\ c.tasks[i].of = s.tasks[i].of /\ c.tasks[i].page = s.tasks[i].page
       /\ c.tasks[i].kind # "query"
  BY <1>2, <1>4, <1>7
<1> QED
  BY <1>3, <1>7, <1>8, <1>9, <1>10, <1>11, CalledBackOrderly

LEMMA ErrorOrderly ==
    ASSUME NEW s, Sound(s), Orderly(s), NEW i \in DOMAIN s.tasks,
           s.tasks[i].started, ~ s.tasks[i].done
    PROVE  Orderly(SetError(s, i))
<1>1. s.tasks[i] \in SoundTask /\ s.bar = "visible"
  BY InFlightFacts
<1>2. PICK x : Failed(s, x, i) /\ SetError(s, i) = Ended(x)
  BY SetErrorDoes
<1>3. /\ Sound(x) /\ DOMAIN x.tasks = DOMAIN s.tasks
      /\ \A j \in DOMAIN s.tasks : j # i => Alike(s.tasks[j], x.tasks[j])
      /\ x.logIds = s.logIds
      /\ SameWWM(s, x) /\ SameMKS(s, x) /\ SameBVM(s, x)
      /\ Alike([s.tasks[i] EXCEPT !.done = TRUE, !.error = TRUE], x.tasks[i])
  BY <1>2 DEF Failed
<1>4. /\ x.tasks[i].done /\ x.tasks[i].error
      /\ x.tasks[i].kind = s.tasks[i].kind /\ x.tasks[i].of = s.tasks[i].of
      /\ x.tasks[i].page = s.tasks[i].page
  BY <1>1, <1>3 DEF SoundTask, Task, Alike
<1>5. Fresh(s, x, Asked(s.tasks[i]))
  BY <1>3 DEF Fresh, NewTasks
<1>6. x.bar = "visible" /\ x.timers = s.timers
  BY <1>1, <1>3 DEF SameBVM
<1> QED
  BY <1>2, <1>3, <1>4, <1>5, <1>6, ReplacedOrderly

\* What a tidy list has on its pages.
LEMMA TidyPages ==
    ASSUME TidyLists, NEW q \in Queries, NEW n \in 1 .. PageLimit[q]
    PROVE  /\ Listed(q, n) = Pages[q][n] /\ Listed(q, n) # <<>>
           /\ Listed(q, n) \in Seq(Logs)
           /\ \A k, l \in DOMAIN Listed(q, n) :
                 Listed(q, n)[k] = Listed(q, n)[l] => k = l
           /\ \A m \in 1 .. PageLimit[q] :
                 m # n => ToSet(Listed(q, n)) \cap ToSet(Pages[q][m]) = {}
<1>1. n <= Len(Pages[q]) /\ Pages[q][n] # <<>>
  BY DEF TidyLists
<1>2. Listed(q, n) = Pages[q][n]
  BY <1>1 DEF Listed
<1>3. Listed(q, n) \in Seq(Logs)
  BY ListedLogs, LogsAssumption
<1>4. \A k, l \in DOMAIN Pages[q][n] : Pages[q][n][k] = Pages[q][n][l] => k = l
  BY DEF TidyLists
<1>5. ASSUME NEW m \in 1 .. PageLimit[q], m # n
      PROVE  ToSet(Pages[q][n]) \cap ToSet(Pages[q][m]) = {}
  <2>1. \A k \in DOMAIN Pages[q][n], l \in DOMAIN Pages[q][m] :
            Pages[q][n][k] # Pages[q][m][l]
    BY <1>5 DEF TidyLists
  <2> QED
    BY <2>1 DEF ToSet
<1> QED
  BY <1>1, <1>2, <1>3, <1>4, <1>5

\* A page of a list brings files, and the next page while there is one.
LEMMA QueryReceivedOrderly ==
    ASSUME TidyLists, NEW s, Sound(s), Orderly(s), NEW i \in DOMAIN s.tasks,
           s.tasks[i].started, ~ s.tasks[i].done, s.tasks[i].kind = "query"
    PROVE  Orderly(Received(s, i, FALSE))
<1> DEFINE v == [s EXCEPT !.tasks[i].done = TRUE]
           q == s.tasks[i].of
           n == s.tasks[i].page
           ids == Asked(s.tasks[i])
           logs == Listed(q, n)
           a == GetEach(v, "log", logs)
           c == QueryCallback(v, v.tasks[i], logs)
<1>1. /\ s.tasks[i] \in SoundTask /\ i \in Open(s) /\ ~ s.tasks[i].error
      /\ AskedOnce(s) /\ Handled(s)
      /\ q \in Queries /\ n \in 1 .. PageLimit[q] /\ PageLimit[q] \in Nat
  BY InFlightFacts, SoundTaskFields, LogsAssumption DEF SoundTask, Open
<1>2. ids = {log \in Logs : \E m \in n .. PageLimit[q] : log \in ToSet(Pages[q][m])}
  BY DEF Asked
<1>3. /\ Done(s, v, i)
      /\ v.tasks[i].kind = "query" /\ v.tasks[i].done /\ v.tasks[i].of = q
      /\ v.tasks[i].page = n /\ v.tasks[i].error = s.tasks[i].error
  BY DoneDoes
<1>4. Received(s, i, FALSE) = SetSuccess(c, i)
  BY <1>3 DEF Received, Callback
<1> HIDE DEF v, ids
<1>5. /\ Sound(v) /\ DOMAIN v.tasks = DOMAIN s.tasks
      /\ \A j \in DOMAIN s.tasks : j # i => v.tasks[j] = s.tasks[j]
      /\ v.logIds = s.logIds
      /\ SameWWM(s, v) /\ SameMKS(s, v) /\ SameBVM(s, v)
  BY <1>3 DEF Done
<1>6. /\ logs = Pages[q][n] /\ logs # <<>> /\ logs \in Seq(Logs)
      /\ \A k, l \in DOMAIN logs : logs[k] = logs[l] => k = l
      /\ \A m \in 1 .. PageLimit[q] : m # n => ToSet(logs) \cap ToSet(Pages[q][m]) = {}
  BY <1>1, TidyPages
<1>7. c = IF n < PageLimit[q]
          THEN AddTask(a, NewTask("query", q, n + 1))
          ELSE ReportResultsErrorForURL(a, v.tasks[i])
  BY <1>3, <1>6 DEF QueryCallback, GetJSONAsyncByQuery
<1> HIDE DEF logs
<1>8. ToSet(logs) \subseteq ids
  <2>1. logs \in Seq(Logs)
    BY <1>6
  <2>2. ToSet(logs) \subseteq Logs
    BY <2>1, ElementOfSeq DEF ToSet
  <2> QED
    BY <1>1, <1>2, <1>6, <2>2
<1>9. ToSet(logs) \cap v.logIds = {}
  BY <1>1, <1>5, <1>8 DEF AskedOnce, ids
<1>10. /\ Sound(a) /\ a.logIds = v.logIds /\ a.timers = v.timers
       /\ SameWWM(v, a) /\ SameMKS(v, a) /\ a.bar = "visible"
       /\ \A j \in DOMAIN v.tasks : j \in DOMAIN a.tasks /\ a.tasks[j] = v.tasks[j]
       /\ Fresh(v, a, ToSet(logs)) /\ NewTasks(v, a) # {}
       /\ \A j \in NewTasks(v, a) : a.tasks[j].kind = "log"
  <2>1. /\ Sound(v) /\ logs \in Seq(Logs) /\ logs # <<>>
        /\ ToSet(logs) \cap v.logIds = {}
        /\ \A k, l \in DOMAIN logs : logs[k] = logs[l] => k = l
    BY <1>5, <1>6, <1>9
  <2> QED
    BY <2>1, GetEachFresh
<1> HIDE DEF a, c, q, n
<1>11. Fresh(v, a, ids)
  BY <1>8, <1>10 DEF Fresh
<1>12. SUFFICES ASSUME NEW d, d = c PROVE Orderly(SetSuccess(d, i))
  BY <1>4
<1>13. CASE n < PageLimit[q]
  <2> DEFINE t == NewTask("query", q, n + 1)
  <2>1. n + 1 \in 1 .. PageLimit[q] /\ n \in Nat
    BY <1>1, <1>13
  <2>2. t \in SoundTask
    BY <1>1, <2>1, NewQuerySound
  <2>3. Asked(t) = {log \in Logs : \E m \in n + 1 .. PageLimit[q] :
                        log \in ToSet(Pages[q][m])}
    BY DEF Asked, NewTask
  <2>4. \A m \in n + 1 .. PageLimit[q] :
            m \in n .. PageLimit[q] /\ m \in 1 .. PageLimit[q] /\ m # n
    BY <1>1, <2>1
  <2>5. Asked(t) \subseteq ids
    BY <1>2, <2>3, <2>4
  <2>6. ToSet(logs) \cap Asked(t) = {}
    BY <1>6, <2>3, <2>4
  <2>7. \A j \in NewTasks(v, a) : Asked(a.tasks[j]) \cap Asked(t) = {}
    BY <1>10, <2>6 DEF Fresh
  <2>8. d = AddTask(a, t)
    BY <1>7, <1>12, <1>13
  <2>9. /\ Sound(d) /\ d.logIds = a.logIds /\ d.timers = a.timers
        /\ SameWWM(a, d) /\ SameMKS(a, d) /\ d.bar = "visible"
        /\ \A j \in DOMAIN v.tasks : j \in DOMAIN d.tasks /\ d.tasks[j] = v.tasks[j]
        /\ Fresh(v, d, ids)
    BY <1>10, <1>11, <2>2, <2>5, <2>7, <2>8, AddTaskFresh
  <2>10. Fresh(s, d, ids)
    BY <1>5, <2>9 DEF Fresh, NewTasks
  <2>11. \A j \in DOMAIN s.tasks :
            j \in DOMAIN d.tasks /\ (j # i => Alike(s.tasks[j], d.tasks[j]))
    BY <1>5, <2>9 DEF Alike
  <2>12. /\ d.logIds = s.logIds /\ SameWWM(s, d) /\ SameMKS(s, d)
         /\ d.timers = s.timers
    BY <1>5, <1>10, <2>9 DEF SameWWM, SameMKS, SameBVM
  <2>13. /\ d.tasks[i].done /\ d.tasks[i].kind = s.tasks[i].kind
         /\ d.tasks[i].of = s.tasks[i].of /\ d.tasks[i].page = s.tasks[i].page
         /\ d.tasks[i].page # PageLimit[d.tasks[i].of]
    BY <1>1, <1>3, <1>5, <1>13, <2>9 DEF q, n
  <2> QED
    BY <2>9, <2>10, <2>11, <2>12, <2>13, CalledBackOrderly DEF ids
<1>14. CASE ~ (n < PageLimit[q])
  <2>1. n = PageLimit[q]
    BY <1>1, <1>14
  <2>2. a.tasks[i] = v.tasks[i] /\ i \in DOMAIN a.tasks /\ a.tasks[i] \in SoundTask
    BY <1>5, <1>10, TaskFacts DEF Sound
  <2>3. ASSUME NEW j \in Answered(a, v.tasks[i]) PROVE j = i
    <3>1. /\ j \in DOMAIN a.tasks /\ a.tasks[j].kind = "query"
          /\ a.tasks[j].of = q /\ a.tasks[j].page = n
          /\ a.tasks[j].done /\ ~ a.tasks[j].error
      BY <1>3, <2>3 DEF Answered
    <3>2. j \in DOMAIN v.tasks
      BY <1>10, <3>1 DEF NewTasks
    <3>3. j # i => s.tasks[j] = a.tasks[j] /\ j \in DOMAIN s.tasks
      BY <1>5, <1>10, <3>2
    <3> QED
      BY <1>1, <2>1, <3>1, <3>3 DEF Handled
  <2>4. i \in Answered(a, v.tasks[i])
    BY <1>1, <1>3, <2>2 DEF Answered
  <2>5. d = SetError(a, i)
    BY <1>7, <1>10, <1>12, <1>14, <2>3, <2>4, ReportErrorDoes
  <2>6. a.tasks[i].started
    BY <1>3, <2>2, SoundTaskFields
  <2>7. PICK x : Failed(a, x, i) /\ SetError(a, i) = Ended(x)
    BY <1>10, <2>2, <2>6, SetErrorDoes
  <2>8. /\ Sound(x) /\ DOMAIN x.tasks = DOMAIN a.tasks
        /\ \A j \in DOMAIN a.tasks : j # i => Alike(a.tasks[j], x.tasks[j])
        /\ x.logIds = a.logIds
        /\ SameWWM(a, x) /\ SameMKS(a, x) /\ SameBVM(a, x)
        /\ Alike([a.tasks[i] EXCEPT !.done = TRUE, !.error = TRUE], x.tasks[i])
    BY <2>7 DEF Failed
  <2>9. \A j \in NewTasks(v, a) : j # i /\ Alike(a.tasks[j], x.tasks[j])
    BY <1>5, <2>8 DEF NewTasks
  <2>10. Fresh(v, x, ids) /\ NewTasks(v, x) = NewTasks(v, a)
    BY <1>11, <2>8, <2>9, FreshAlike
  <2>11. Open(x) # {}
    BY <1>10, <2>10 DEF Fresh, Open, NewTasks
  <2>12. d = x
    BY <2>5, <2>7, <2>11 DEF Ended
  <2>13. Fresh(s, x, ids)
    BY <1>5, <2>10 DEF Fresh, NewTasks
  <2>14. \A j \in DOMAIN s.tasks :
            j \in DOMAIN x.tasks /\ (j # i => Alike(s.tasks[j], x.tasks[j]))
    <3> TAKE j \in DOMAIN s.tasks
    <3>1. j \in DOMAIN a.tasks /\ (j # i => a.tasks[j] = s.tasks[j])
      BY <1>5, <1>10
    <3> QED
      BY <2>8, <3>1
  <2>15. /\ x.tasks[i].done /\ x.tasks[i].error
         /\ x.tasks[i].kind = a.tasks[i].kind /\ x.tasks[i].of = a.tasks[i].of
         /\ x.tasks[i].page = a.tasks[i].page
    BY <2>2, <2>8 DEF SoundTask, Task, Alike
  <2>16. /\ x.tasks[i].kind = s.tasks[i].kind /\ x.tasks[i].of = s.tasks[i].of
         /\ x.tasks[i].page = s.tasks[i].page
    BY <1>3, <2>2, <2>15 DEF q, n
  <2>17. /\ x.logIds = s.logIds /\ SameWWM(s, x) /\ SameMKS(s, x)
         /\ x.bar = "visible" /\ x.timers = s.timers
    BY <1>5, <1>10, <2>8 DEF SameWWM, SameMKS, SameBVM
  <2>18. Orderly(SetSuccess(x, i))
    BY <2>8, <2>13, <2>14, <2>15, <2>16, <2>17, CalledBackOrderly DEF ids
  <2> QED
    BY <2>12, <2>18
<1> QED
  BY <1>13, <1>14

-----------------------------------------------------------------------------
(* The user and the timer *)

LEMMA IdsAskedOrderly ==
    ASSUME NEW s, Sound(s), Orderly(s), s.bar = "hidden", NEW ids \in Seq(Logs),
           \A k, l \in DOMAIN ids : ids[k] = ids[l] => k = l,
           ToSet(ids) \cap s.logIds = {}
    PROVE  Orderly(GetEach(s, "id", ids))
<1> DEFINE x == GetEach(s, "id", ids)
<1>1. /\ Sound(x) /\ x.logIds = s.logIds /\ x.timers = s.timers
      /\ SameWWM(s, x) /\ SameMKS(s, x)
      /\ \A j \in DOMAIN s.tasks : j \in DOMAIN x.tasks /\ x.tasks[j] = s.tasks[j]
      /\ Fresh(s, x, ToSet(ids))
      /\ IF ids = <<>> THEN x = s ELSE NewTasks(s, x) # {} /\ x.bar = "visible"
  BY GetEachFresh
<1> HIDE DEF x
<1>2. CASE ids = <<>>
  BY <1>1, <1>2 DEF x
<1>3. CASE ids # <<>>
  <2>1. Orderly(x)
    BY <1>1, <1>3, BegunOrderly
  <2> QED
    BY <2>1 DEF x
<1> QED
  BY <1>2, <1>3

\* A single transfer is asked for.
LEMMA OneAskedOrderly ==
    ASSUME NEW s, Sound(s), Orderly(s), s.bar = "hidden",
           NEW kind, NEW of, NEW n, NewTask(kind, of, n) \in SoundTask,
           kind # "log" => Asked(NewTask(kind, of, n)) \cap s.logIds = {}
    PROVE  Orderly(AddTask(s, NewTask(kind, of, n)))
<1> DEFINE t == NewTask(kind, of, n)
           x == AddTask(s, t)
           ids == Asked(t)
<1>1. t.kind = kind /\ t.of = of /\ ~ t.started
  BY DEF NewTask
<1>2. CASE kind = "log" /\ of \in s.logIds
  <2>1. t \in SoundTask
    OBVIOUS
  <2> HIDE DEF t
  <2>2. x = s
    BY <1>1, <1>2, <2>1, AddTaskDoes
  <2> QED
    BY <2>2 DEF t
<1>3. CASE ~ (kind = "log" /\ of \in s.logIds)
  <2>1. NewTasks(s, s) = {} /\ Fresh(s, s, ids)
    BY DEF NewTasks, Fresh
  <2>2. /\ Sound(x) /\ x.logIds = s.logIds /\ x.timers = s.timers
        /\ SameWWM(s, x) /\ SameMKS(s, x) /\ x.bar = "visible"
        /\ \A j \in DOMAIN s.tasks : j \in DOMAIN x.tasks /\ x.tasks[j] = s.tasks[j]
        /\ Fresh(s, x, ids) /\ NewTasks(s, x) # {}
    BY <1>3, <2>1, AddTaskFresh
  <2>3. ids \cap s.logIds = {}
    BY <1>1, <1>3 DEF Asked
  <2> HIDE DEF x, ids
  <2>4. Orderly(x)
    BY <2>2, <2>3, BegunOrderly
  <2> QED
    BY <2>4 DEF x
<1> QED
  BY <1>2, <1>3

LEMMA QueryAskedOrderly ==
    ASSUME TidyLists, NEW s, Sound(s), Orderly(s), s.bar = "hidden",
           NEW q \in Queries,
           \A n \in 1 .. PageLimit[q] : ToSet(Listed(q, n)) \cap s.logIds = {}
    PROVE  Orderly(AddTask(s, NewTask("query", q, 1)))
<1>1. 1 \in 1 .. PageLimit[q]
  BY LogsAssumption
<1>2. NewTask("query", q, 1) \in SoundTask
  BY <1>1, NewQuerySound
<1>3. \A n \in 1 .. PageLimit[q] : Listed(q, n) = Pages[q][n]
  BY TidyPages
<1>4. Asked(NewTask("query", q, 1)) \cap s.logIds = {}
  BY <1>3 DEF Asked, NewTask
<1> QED
  BY <1>2, <1>4, OneAskedOrderly

LEMMA PurgedOrderly ==
    ASSUME NEW s, Sound(s), Orderly(s), s.bar = "hidden", ~ NoUI
    PROVE  Orderly(PurgeData(s))
<1> DEFINE r == PurgeData(s)
<1>0. s \in SoundPage
  BY DEF Sound
<1>1. Shown(s) /\ s.timers = 0 /\ Handled(s) /\ Open(s) = {}
  BY DEF Orderly, Loading, UnderWay, BeingSorted, Shown
<1>3. /\ SameWWM(s, r) /\ SameBVM(s, r)
      /\ r.tasks = s.tasks /\ r.queue = s.queue
      /\ r.points = <<>> /\ r.extra = "none" /\ r.logIds = {} /\ r.offered = {}
  BY <1>0, PurgeDoes
<1> HIDE DEF r
<1>4. Open(r) = {} /\ AskedOnce(r) /\ Handled(r)
  BY <1>1, <1>3 DEF Open, AskedOnce, Handled
<1>5. ToSet(r.points) = {} /\ DOMAIN r.points = {} /\ Len(r.points) = 0
  BY <1>3 DEF ToSet
<1>6. Vectors(r)
  BY <1>3, <1>5 DEF Vectors, Complete
<1>7. Shown(r)
  BY <1>1, <1>3, <1>4, <1>5, <1>6 DEF Shown, SameWWM, SameBVM
<1> QED
  BY <1>4, <1>7 DEF Orderly, r

LEMMA HiddenOrderly ==
    ASSUME NEW s, Sound(s), Orderly(s), s.timers > 0,
           NEW r, r = [s EXCEPT !.bar = "hidden", !.timers = @ - 1]
    PROVE  Orderly(r) /\ Shown(r)
<1>0. s \in SoundPage
  BY DEF Sound
<1>1. /\ Shown(s) /\ s.timers = 1 /\ AskedOnce(s) /\ Handled(s) /\ Open(s) = {}
  BY DEF Orderly, Loading, UnderWay, BeingSorted, Shown
<1>2. s.timers - 1 = 0
  BY <1>1
<1>3. /\ SameXFM(s, r) /\ SameWWM(s, r) /\ SameMKS(s, r)
      /\ r.bar = "hidden" /\ r.timers = 0
  BY <1>0, <1>2 DEF SoundPage, SameXFM, SameWWM, SameMKS
<1>4. Open(r) = {} /\ AskedOnce(r) /\ Handled(r)
  BY <1>1, <1>3 DEF Open, AskedOnce, Handled, SameXFM
<1>5. Shown(r)
  BY <1>1, <1>3, <1>4 DEF Shown, Vectors, SameXFM, SameWWM, SameMKS
<1> QED
  BY <1>4, <1>5 DEF Orderly

LEMMA OrderlyInit == Init => Orderly(page)
<1> SUFFICES ASSUME Init PROVE Orderly(page)
  OBVIOUS
<1>1. page = Idle
  BY DEF Init
<1>2. /\ page.tasks = <<>> /\ page.points = <<>> /\ page.logIds = {}
      /\ page.extra = "none" /\ page.offered = {} /\ page.bar = "hidden"
      /\ page.timers = 0 /\ \A w \in Workers : page.jobs[w] = <<>>
  BY <1>1 DEF Idle
<1>3. Open(page) = {} /\ AskedOnce(page) /\ Handled(page)
  BY <1>2 DEF Open, AskedOnce, Handled
<1>4. ToSet(page.points) = {} /\ DOMAIN page.points = {} /\ Len(page.points) = 0
  BY <1>2 DEF ToSet
<1>5. Vectors(page)
  BY <1>2, <1>4 DEF Vectors, Complete
<1>6. Shown(page)
  BY <1>2, <1>3, <1>4, <1>5 DEF Shown
<1> QED
  BY <1>3, <1>6 DEF Orderly

LEMMA OrderlyThen ==
    ASSUME NoneReportedTwice' => Orderly(page')
    PROVE  OrderlyInv'
  BY DEF OrderlyInv, NoneReportedTwice, Orderly, AskedOnce, Handled, Open, Asked,
         Loading, BeingSorted, Shown, UnderWay, SortingAt, Vectors, AtWork, Complete

LEMMA OrderlyNow ==
    ASSUME OrderlyInv', NoneReportedTwice'
    PROVE  Orderly(page')
  BY DEF OrderlyInv, NoneReportedTwice, Orderly, AskedOnce, Handled, Open, Asked,
         Loading, BeingSorted, Shown, UnderWay, SortingAt, Vectors, AtWork, Complete

\* Faults only count up, and two kinds of them are not NoneReportedTwice.
LEMMA ReportedOnce ==
    ASSUME SoundInv, [Next]_vars, NoneReportedTwice'
    PROVE  /\ NoneReportedTwice
           /\ \A i \in DOMAIN page.tasks : ~ ReceiveEmpty(i) /\ ~ Disconnect(i)
<1>0. faults \in [FaultKinds -> Nat] /\ faults'["network"] = 0 /\ faults'["empty"] = 0
      /\ {"network", "empty"} \subseteq FaultKinds
  BY DEF SoundInv, NoneReportedTwice, FaultKinds
<1>1. ASSUME NEW kind, Fault(kind)
      PROVE  NoneReportedTwice /\ kind # "network" /\ kind # "empty"
  BY <1>0, <1>1, FaultCounts DEF NoneReportedTwice
<1>2. ASSUME NEW i \in DOMAIN page.tasks PROVE ~ ReceiveEmpty(i) /\ ~ Disconnect(i)
  BY <1>1 DEF ReceiveEmpty, Disconnect
<1>3. faults' = faults \/ \E kind : Fault(kind)
  BY DEF Next, User, Answer, AskIds, AskQuery, AskLogFile, Ask, Purge, Receive,
         ReceiveEmpty, ReceiveError, Disconnect, WorkerReplies, HideBar, Redraw, vars
<1> QED
  BY <1>0, <1>1, <1>2, <1>3 DEF NoneReportedTwice

LEMMA OrderlyStep ==
    ASSUME Careful, TidyLists, ~ NoUI, SoundInv, OrderlyInv, [Next]_vars
    PROVE  OrderlyInv'
<1> SUFFICES ASSUME NoneReportedTwice' PROVE Orderly(page')
  BY OrderlyThen
<1>0. /\ Sound(page) /\ page \in SoundPage /\ Orderly(page)
      /\ \A i \in DOMAIN page.tasks : ~ ReceiveEmpty(i) /\ ~ Disconnect(i)
  BY ReportedOnce DEF SoundInv, Sound, OrderlyInv
<1>1. ASSUME NEW ids \in IdLists, AskIds(ids) PROVE Orderly(page')
  <2>1. /\ page' = GetEach(page, "id", ids)
        /\ page.bar = "hidden" /\ ToSet(ids) \cap page.logIds = {}
    BY <1>1 DEF AskIds, Ask, Allowed
  <2>2. ids \in Seq(Logs) /\ \A k, l \in DOMAIN ids : ids[k] = ids[l] => k = l
    BY LogsAssumption DEF TidyLists
  <2> QED
    BY <1>0, <2>1, <2>2, IdsAskedOrderly
<1>2. ASSUME NEW q \in Queries, AskQuery(q) PROVE Orderly(page')
  <2>1. /\ page' = AddTask(page, NewTask("query", q, 1)) /\ page.bar = "hidden"
        /\ \A n \in 1 .. PageLimit[q] : ToSet(Listed(q, n)) \cap page.logIds = {}
    BY <1>2 DEF AskQuery, Ask, Allowed, GetJSONAsyncByQuery
  <2> QED
    BY <1>0, <2>1, QueryAskedOrderly
<1>3. ASSUME NEW log \in Direct, AskLogFile(log) PROVE Orderly(page')
  <2>1. page' = AddTask(page, NewTask("log", log, 0)) /\ page.bar = "hidden"
    BY <1>3 DEF AskLogFile, Ask, Allowed, GetLogFile
  <2>2. NewTask("log", log, 0) \in SoundTask
    BY LogsAssumption, NewTaskSound
  <2> QED
    BY <1>0, <2>1, <2>2, OneAskedOrderly
<1>4. CASE Purge
  <2>1. page.bar = "hidden" /\ (page' = page \/ page' = PurgeData(page))
    BY <1>4 DEF Purge, RemoveAllMarkersFromMapAndPurgeData
  <2> QED
    BY <1>0, <2>1, PurgedOrderly
<1>5. ASSUME NEW i \in DOMAIN page.tasks, Receive(i) PROVE Orderly(page')
  <2>1. /\ page.tasks[i].started /\ ~ page.tasks[i].done
        /\ page' = Received(page, i, FALSE)
    BY <1>5 DEF Receive, InFlight
  <2>2. page.tasks[i] \in SoundTask
    BY <1>0, TaskFacts
  <2>3. page.tasks[i].kind \in {"log", "id", "query"}
    BY <2>2 DEF SoundTask, Task
  <2> QED
    BY <1>0, <2>1, <2>3, LogReceivedOrderly, IdReceivedOrderly, QueryReceivedOrderly
<1>6. ASSUME NEW i \in DOMAIN page.tasks, ReceiveError(i) PROVE Orderly(page')
  <2>1. /\ page.tasks[i].started /\ ~ page.tasks[i].done
        /\ page' = SetError(page, i)
    BY <1>6 DEF ReceiveError, InFlight
  <2> QED
    BY <1>0, <2>1, ErrorOrderly
<1>7. ASSUME NEW w \in Workers, WorkerReplies(w) PROVE Orderly(page')
  <2> DEFINE job == Head(page.jobs[w])
             v == [page EXCEPT !.jobs[w] = Tail(@)]
  <2>1. /\ page.jobs[w] # <<>>
        /\ page' = CASE job.op = "parse" -> ParsedLog(v, w, job)
                     [] job.op = "prefilter" -> FilteredLog(v, w, job)
                     [] job.op = "sort" -> SortedData(v, w, job)
    BY <1>7 DEF WorkerReplies
  <2>2. job \in SoundJob
    BY <1>0, <2>1, TakenDoes
  <2>3. job.op \in {"parse", "prefilter", "sort"}
    BY <2>2 DEF SoundJob, Job
  <2>4. CASE job.op = "sort"
    <3>1. Orderly(SortedData(v, w, job))
      BY <1>0, <2>1, <2>4, SortedOrderly
    <3> QED
      BY <2>1, <2>4, <3>1
  <2>5. CASE job.op # "sort"
    <3>1. PICK i : HandedBack(v, i, job)
      BY <1>0, <2>1, <2>5, TakenHandsBack
    <3> HIDE DEF job, v
    <3>2. CASE job.op = "parse"
      BY <2>1, <2>2, <3>1, <3>2, ParsedOrderly
    <3>3. CASE job.op = "prefilter"
      BY <2>1, <2>2, <3>1, <3>3, FilteredOrderly
    <3> QED
      BY <2>3, <2>5, <3>2, <3>3
  <2> QED
    BY <2>4, <2>5
<1>8. CASE HideBar
  BY <1>0, <1>8, HiddenOrderly DEF HideBar
<1>9. CASE UNCHANGED vars \/ Redraw
  BY <1>0, <1>9 DEF vars, Redraw
<1> QED
  BY <1>0, <1>1, <1>2, <1>3, <1>4, <1>5, <1>6, <1>7, <1>8, <1>9
     DEF Next, User, Answer

LEMMA OrderlyAlways ==
    ASSUME Careful, TidyLists, ~ NoUI
    PROVE  Spec => []OrderlyInv
<1>1. Init => OrderlyInv
  BY OrderlyInit DEF OrderlyInv
<1>2. SoundInv /\ OrderlyInv /\ [Next]_vars => OrderlyInv'
  BY OrderlyStep
<1> QED
  BY <1>1, <1>2, SoundAlways, PTL DEF Spec

-----------------------------------------------------------------------------
(* Nobody but the timer hides the bar *)

LEMMA EndedBar ==
    ASSUME NEW x, Sound(x)
    PROVE  Ended(x).bar = x.bar
  BY CallbackEndDoes DEF Ended, Sound

LEMMA SetSuccessBar ==
    ASSUME NEW s, Sound(s), NEW i \in DOMAIN s.tasks, s.tasks[i].done,
           s.tasks[i].kind # "log"
    PROVE  SetSuccess(s, i).bar = s.bar
<1>1. PICK x : CalledBack(s, x, i) /\ SetSuccess(s, i) = Ended(x)
  BY SetSuccessDoes
<1> QED
  BY <1>1, EndedBar DEF CalledBack, SameBVM

LEMMA SetErrorBar ==
    ASSUME NEW s, Sound(s), NEW i \in DOMAIN s.tasks, s.tasks[i].started
    PROVE  SetError(s, i).bar = s.bar
<1>1. PICK x : Failed(s, x, i) /\ SetError(s, i) = Ended(x)
  BY SetErrorDoes
<1> QED
  BY <1>1, EndedBar DEF Failed, SameBVM

LEMMA ReportErrorBar ==
    ASSUME NEW s, Sound(s), NEW task
    PROVE  ReportResultsErrorForURL(s, task).bar = s.bar
<1>1. ASSUME NEW i \in Answered(s, task) PROVE SetError(s, i).bar = s.bar
  <2>1. i \in DOMAIN s.tasks /\ s.tasks[i].done
    BY DEF Answered
  <2>2. s.tasks[i] \in SoundTask
    BY <2>1, TaskFacts DEF Sound
  <2> QED
    BY <2>1, <2>2, SoundTaskFields, SetErrorBar
<1> QED
  BY <1>1, ReportErrorDoes

LEMMA EmptyBar ==
    ASSUME NEW s, Sound(s), NEW i \in DOMAIN s.tasks, s.tasks[i].started,
           s.tasks[i].kind # "log"
    PROVE  Received(s, i, TRUE).bar = s.bar
<1> DEFINE v == [s EXCEPT !.tasks[i].done = TRUE]
           t == v.tasks[i]
           c == Callback(v, i, TRUE)
<1>1. /\ Sound(v) /\ i \in DOMAIN v.tasks /\ t.done /\ v.bar = s.bar
      /\ t.kind = s.tasks[i].kind
  <2>1. Done(s, v, i) /\ t.done /\ t.kind = s.tasks[i].kind
    BY DoneDoes
  <2> HIDE DEF v
  <2> QED
    BY <2>1 DEF Done, SameBVM
<1>2. Received(s, i, TRUE) = SetSuccess(c, i)
  BY DEF Received
<1> HIDE DEF v
<1>3. t \in SoundTask
  BY <1>1, TaskFacts DEF Sound
<1>4. t.kind \in {"id", "query"}
  BY <1>1, <1>3 DEF SoundTask, Task
<1>5. GetEach(v, "log", <<>>) = v
  <2>1. <<>> \in Seq(Logs) /\ Len(<<>>) = 0 /\ ToSet(<<>>) = {}
    BY DEF ToSet
  <2>2. AskedFor(v, GetEach(v, "log", <<>>), "log", <<>>, 0)
    BY <1>1, <2>1, GetEachDoes
  <2> QED
    BY <2>1, <2>2 DEF AskedFor
<1>6. c = ReportResultsErrorForURL(v, t)
  <2>1. CASE t.kind = "id"
    BY <2>1 DEF Callback
  <2>2. CASE t.kind = "query"
    BY <1>5, <2>2 DEF Callback, QueryCallback
  <2> QED
    BY <1>4, <2>1, <2>2
<1>7. c.bar = s.bar
  BY <1>1, <1>6, ReportErrorBar
<1>8. Keeps(v, c)
  BY <1>1, CallbackKeeps
<1> HIDE DEF c
<1>9. Sound(c) /\ i \in DOMAIN c.tasks /\ c.tasks[i].done /\ c.tasks[i].kind # "log"
  BY <1>1, <1>8 DEF Keeps
<1> QED
  BY <1>2, <1>7, <1>9, SetSuccessBar

\* In a step that hides the bar, every transfer is reported once at most.
LEMMA HiddenByTimer ==
    ASSUME SoundInv, [Next]_vars, NoneReportedTwice,
           page.bar = "visible", page'.bar = "hidden"
    PROVE  NoneReportedTwice'
<1>0. Sound(page) /\ faults \in [FaultKinds -> Nat]
  BY DEF SoundInv
<1>1. ASSUME NEW i \in DOMAIN page.tasks, ReceiveEmpty(i) PROVE FALSE
  <2>1. /\ page.tasks[i].started /\ page.tasks[i].kind # "log"
        /\ page' = Received(page, i, TRUE)
    BY <1>1 DEF ReceiveEmpty, InFlight
  <2> QED
    BY <1>0, <2>1, EmptyBar
<1>2. ASSUME NEW i \in DOMAIN page.tasks, Disconnect(i) PROVE FALSE
  <2>1. page.tasks[i].started /\ page' = SetError(SetError(page, i), i)
    BY <1>2 DEF Disconnect, InFlight
  <2>2. /\ Sound(SetError(page, i)) /\ SetError(page, i).bar = "visible"
        /\ i \in DOMAIN SetError(page, i).tasks /\ SetError(page, i).tasks[i].started
    BY <1>0, <2>1, SetErrorSound, SetErrorBar
  <2> QED
    BY <2>1, <2>2, SetErrorBar
<1>3. faults' = faults \/ Fault("status")
  BY <1>1, <1>2
     DEF Next, User, Answer, AskIds, AskQuery, AskLogFile, Ask, Purge, Receive,
         ReceiveError, WorkerReplies, HideBar, Redraw, vars
<1>4. Fault("status") => faults' = [faults EXCEPT !["status"] = @ + 1]
  BY DEF Fault
<1> QED
  BY <1>0, <1>3, <1>4 DEF NoneReportedTwice, FaultKinds

-----------------------------------------------------------------------------
(* What a viewer with a transfer bar promises a careful user who is given  *)
(* tidy lists                                                              *)

\* A log that XFM will not load again, because AddTask finds it in logIds, has
\* its points in the vectors of MKS or with the worker that sorts them.
THEOREM ViewerLosesNothing ==
    ASSUME Careful, TidyLists, ~ NoUI
    PROVE  Spec => []NothingLost
<1>1. SoundInv /\ OrderlyInv => NothingLost
  <2> SUFFICES ASSUME SoundInv, OrderlyInv, NoneReportedTwice,
                      NEW log \in page.logIds \ (Tiny \cup Redundant),
                      log \notin ToSet(page.points)
               PROVE  log \in Sorting
    BY DEF NothingLost
  <2>1. Orderly(page)
    BY DEF OrderlyInv
  <2>2. ~ Vectors(page)
    BY DEF Vectors, Complete
  <2>3. BeingSorted(page)
    BY <2>1, <2>2 DEF Orderly, Loading, UnderWay, Shown
  <2>4. PICK w \in Workers : SortingAt(page, w)
    BY <2>3 DEF BeingSorted
  <2>5. log \in Logs /\ page.jobs[w] \in Seq(SoundJob)
    BY DEF SoundInv, Sound, SoundPage
  <2>6. 1 \in DOMAIN page.jobs[w]
    BY <2>4, <2>5 DEF SortingAt
  <2>7. page.jobs[w][1].op = "sort" /\ log \in ToSet(page.jobs[w][1].points)
    BY <2>4 DEF SortingAt, Complete
  <2> QED
    BY <2>5, <2>6, <2>7 DEF Sorting
<1> QED
  BY <1>1, SoundAlways, OrderlyAlways, PTL

\* AddData never gets the points of a log that is there.
THEOREM ViewerLoadsOnce ==
    ASSUME Careful, TidyLists, ~ NoUI
    PROVE  Spec => []LoadedOnce
<1>1. OrderlyInv => LoadedOnce
  BY DEF OrderlyInv, LoadedOnce, IsInjective, Orderly, Loading, UnderWay,
         BeingSorted, Shown, Vectors, Complete
<1> QED
  BY <1>1, OrderlyAlways, PTL

\* The columns that only some logs have are there for all of the points or for
\* none (AddData and GetDataAndDispatchPrefilterVec).
THEOREM ViewerKeepsColumnsAligned ==
    ASSUME Careful, TidyLists, ~ NoUI
    PROVE  Spec => []ExtraColumnsAligned
<1>1. OrderlyInv => ExtraColumnsAligned
  BY DEF OrderlyInv, ExtraColumnsAligned, Orderly, Loading, UnderWay,
         BeingSorted, Shown, Vectors
<1> QED
  BY <1>1, OrderlyAlways, PTL

\* When the timer of sortcb hides the transfer bar, no transfer is open, no
\* worker sorts, and sortcb has asked for the markers of all of the vectors.
THEOREM ViewerHidesTheBarLast ==
    ASSUME Careful, TidyLists, ~ NoUI
    PROVE  Spec => BarHidesLast
<1>1. SoundInv /\ OrderlyInv' /\ [Next]_vars
        => [page.bar = "visible" /\ page'.bar = "hidden" /\ NoneReportedTwice =>
              /\ AllDone(page')
              /\ Sorting' = {}
              /\ ToSet(page'.points) = page'.offered]_vars
  <2> SUFFICES ASSUME SoundInv, OrderlyInv', [Next]_vars,
                      page.bar = "visible", page'.bar = "hidden", NoneReportedTwice
               PROVE  /\ AllDone(page') /\ Sorting' = {}
                      /\ ToSet(page'.points) = page'.offered
    OBVIOUS
  <2>1. NoneReportedTwice'
    BY HiddenByTimer
  <2>2. Orderly(page')
    BY <2>1, OrderlyNow
  <2>3. Shown(page')
    BY <2>2 DEF Orderly, Loading, UnderWay, BeingSorted
  <2> QED
    BY <2>3 DEF Shown, AllDone, Open, Sorting
<1> QED
  BY <1>1, SoundAlways, OrderlyAlways, PTL DEF Spec, BarHidesLast
=============================================================================
