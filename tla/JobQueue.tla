------------------------------ MODULE JobQueue ------------------------------
(***************************************************************************)
(* JobQueueImp of ripple_core/functional/JobQueue.cpp: typed, prioritised   *)
(* jobs, a limit on the running jobs of each type, and a pool of worker     *)
(* threads that share one counting semaphore.  Stopping follows             *)
(* beast::Stoppable: the children of the queue stop first, then the queue.  *)
(*                                                                          *)
(* A task signalled on the semaphore is anonymous: the thread that takes it *)
(* looks for the best runnable job only afterwards, under the lock.  The    *)
(* counts waiting / running / deferred must therefore make sure that        *)
(* whoever was woken finds a job, which getNextJob asserts.                 *)
(***************************************************************************)
EXTENDS Integers, FiniteSets

CONSTANTS
  Types,       \* job types; a larger number is a higher priority (Job::operator<)
  Limit,       \* Limit[t]: how many jobs of type t may run at once
  Skip,        \* Skip[t]: jobs of type t are dropped while stopping
  Threads,     \* the worker threads
  Children,    \* the Stoppable children of the queue, which also add jobs
  MaxJobs      \* bound on the number of jobs ever added

ASSUME TypesAssumption == Types \subseteq Nat
ASSUME LimitAssumption == Limit \in [Types -> Nat \ {0}]
ASSUME SkipAssumption == Skip \in [Types -> BOOLEAN]
ASSUME MaxJobsAssumption == MaxJobs \in Nat
ASSUME ThreadsAssumption == IsFiniteSet(Threads) /\ Threads \cap Children = {}

Jobs == [type : Types, index : Nat]
NoJob == [type |-> -1, index |-> 0]
Actors == Threads \cup Children

VARIABLES
  jobSet,          \* m_jobSet
  lastJob,         \* m_lastJob
  waiting,         \* JobTypeData::waiting of each type
  running,         \* JobTypeData::running
  deferred,        \* JobTypeData::deferred
  tasks,           \* the count of the workers' semaphore
  processCount,    \* m_processCount
  pc,              \* where each worker thread is
  job,             \* the job a worker thread holds
  adding,          \* the type an actor is about to insert in addJob, or -1
  stopping,        \* RootStoppable::isStopping
  stoppedChildren, \* the children that have stopped
  childrenStopped, \* m_childrenStopped
  notified,        \* onChildrenStopped has been called
  stoppedEvent     \* m_stoppedEvent: stopped() was called

counts == <<waiting, running, deferred, tasks>>
stopVars == <<stopping, stoppedChildren, childrenStopped, notified, stoppedEvent>>
vars == <<jobSet, lastJob, counts, processCount, pc, job, adding, stopVars>>

Init ==
  /\ jobSet = {}
  /\ lastJob = 0
  /\ waiting = [t \in Types |-> 0]
  /\ running = [t \in Types |-> 0]
  /\ deferred = [t \in Types |-> 0]
  /\ tasks = 0
  /\ processCount = 0
  /\ pc = [w \in Threads |-> "wait"]
  /\ job = [w \in Threads |-> NoJob]
  /\ adding = [a \in Actors |-> -1]
  /\ stopping = FALSE
  /\ stoppedChildren = {}
  /\ childrenStopped = FALSE
  /\ notified = FALSE
  /\ stoppedEvent = FALSE

(***************************************************************************)
(* addJob                                                                   *)
(***************************************************************************)

\* Who may call addJob: a child that has not stopped, or a job being run.
MayAdd(a) ==
  \/ a \in Children \ stoppedChildren
  \/ a \in Threads /\ pc[a] = "run"

\* The assertion of the first critical section of addJob.
AddJobAssert ==
  ~stoppedEvent /\ (processCount > 0 \/ jobSet # {} \/ ~childrenStopped)

\* addJob up to its second critical section: the skip test reads isStopping
\* with no lock held, so the queue may begin to stop before the insertion.
AddJobCheck(a, t) ==
  /\ MayAdd(a)
  /\ adding[a] = -1
  /\ lastJob < MaxJobs
  /\ ~(stopping /\ Skip[t])
  /\ adding' = [adding EXCEPT ![a] = t]
  /\ UNCHANGED <<jobSet, lastJob, counts, processCount, pc, job, stopVars>>

\* Mutant: the limit is not consulted, every job is signalled at once.
QueueJobIgnoringLimit(t) ==
  /\ tasks' = tasks + 1 /\ UNCHANGED deferred
  /\ waiting' = [waiting EXCEPT ![t] = @ + 1]

\* queueJob: signal a worker when the type is below its limit, else defer.
QueueJob(t) ==
  /\ IF waiting[t] + running[t] < Limit[t]
       THEN tasks' = tasks + 1 /\ UNCHANGED deferred
       ELSE deferred' = [deferred EXCEPT ![t] = @ + 1] /\ UNCHANGED tasks
  /\ waiting' = [waiting EXCEPT ![t] = @ + 1]

\* The second critical section of addJob.  MaxJobs bounds the insertions too:
\* several callers may have passed the check.
AddJobInsert(a) ==
  /\ adding[a] # -1
  /\ jobSet' = jobSet \cup {[type |-> adding[a], index |-> lastJob + 1]}
  /\ lastJob' = lastJob + 1
  /\ QueueJob(adding[a])
  /\ adding' = [adding EXCEPT ![a] = -1]
  /\ UNCHANGED <<running, processCount, pc, job, stopVars>>

(***************************************************************************)
(* processTask, run by a worker for each unit it takes from the semaphore   *)
(***************************************************************************)

\* Workers::Worker::run: the wait on the semaphore returns.
SemaphoreWait(w) ==
  /\ pc[w] = "wait"
  /\ tasks > 0
  /\ tasks' = tasks - 1
  /\ pc' = [pc EXCEPT ![w] = "woken"]
  /\ UNCHANGED <<jobSet, lastJob, waiting, running, deferred, processCount,
                 job, adding, stopVars>>

\* Job::operator<: higher types first, then the order of insertion.
Before(i, j) == i.type > j.type \/ (i.type = j.type /\ i.index < j.index)

\* Mutant: the next job is taken whatever its type's limit.
RunnableAny == jobSet

Runnable == {j \in jobSet : running[j.type] < Limit[j.type]}

\* The first job, in the order of m_jobSet, of a type below its limit.
IsNextJob(j) == j \in Runnable /\ \A i \in Runnable \ {j} : Before(j, i)

GetNextJob(w) ==
  /\ pc[w] = "woken"
  /\ \E j \in jobSet :
       /\ IsNextJob(j)
       /\ job' = [job EXCEPT ![w] = j]
       /\ jobSet' = jobSet \ {j}
       /\ waiting' = [waiting EXCEPT ![j.type] = @ - 1]
       /\ running' = [running EXCEPT ![j.type] = @ + 1]
  /\ processCount' = processCount + 1
  /\ pc' = [pc EXCEPT ![w] = "got"]
  /\ UNCHANGED <<lastJob, deferred, tasks, adding, stopVars>>

\* The job is run unless its type is skipped while stopping.
DoJob(w) ==
  /\ pc[w] = "got"
  /\ pc' = [pc EXCEPT ![w] =
              IF ~stopping \/ ~Skip[job[w].type] THEN "run" ELSE "done"]
  /\ UNCHANGED <<jobSet, lastJob, counts, processCount, job, adding, stopVars>>

JobReturns(w) ==
  /\ pc[w] = "run"
  /\ adding[w] = -1
  /\ pc' = [pc EXCEPT ![w] = "done"]
  /\ UNCHANGED <<jobSet, lastJob, counts, processCount, job, adding, stopVars>>

\* Mutant: pending jobs do not delay the stop.
StopConditionIgnoringJobs(stop, kids, count, set) == stop /\ kids /\ count = 0

\* Mutant: running jobs do not delay the stop.
StopConditionIgnoringRunning(stop, kids, count, set) == stop /\ kids /\ set = {}

\* The condition of checkStopped.
StopCondition(stop, kids, count, set) ==
  stop /\ kids /\ count = 0 /\ set = {}

\* Mutant: a finished job does not release a deferred one.
ReleaseNothing(t) == UNCHANGED <<deferred, tasks>>

\* finishJob: queue a deferred task if there is one.
ReleaseDeferred(t) ==
  IF deferred[t] > 0
    THEN deferred' = [deferred EXCEPT ![t] = @ - 1] /\ tasks' = tasks + 1
    ELSE UNCHANGED <<deferred, tasks>>

\* Mutant: checkStopped is called before m_processCount is decremented.
CheckStoppedTooEarly ==
  stoppedEvent' = (stoppedEvent \/
     StopCondition(stopping, childrenStopped, processCount, jobSet))

CheckStopped ==
  stoppedEvent' = (stoppedEvent \/
     StopCondition(stopping, childrenStopped, processCount', jobSet))

\* finishJob and the last critical section of processTask.
FinishJob(w) ==
  /\ pc[w] = "done"
  /\ ReleaseDeferred(job[w].type)
  /\ running' = [running EXCEPT ![job[w].type] = @ - 1]
  /\ processCount' = processCount - 1
  /\ CheckStopped
  /\ pc' = [pc EXCEPT ![w] = "wait"]
  /\ job' = [job EXCEPT ![w] = NoJob]
  /\ UNCHANGED <<jobSet, lastJob, waiting, adding, stopping, stoppedChildren,
                 childrenStopped, notified>>

(***************************************************************************)
(* Stopping                                                                 *)
(***************************************************************************)
StopAsync ==
  /\ ~stopping
  /\ stopping' = TRUE
  /\ UNCHANGED <<jobSet, lastJob, counts, processCount, pc, job, adding,
                 stoppedChildren, childrenStopped, notified, stoppedEvent>>

\* A child stops once it is asked to and has returned from addJob.
ChildStops(c) ==
  /\ stopping
  /\ c \notin stoppedChildren
  /\ adding[c] = -1
  /\ stoppedChildren' = stoppedChildren \cup {c}
  /\ UNCHANGED <<jobSet, lastJob, counts, processCount, pc, job, adding,
                 stopping, childrenStopped, notified, stoppedEvent>>

\* stopRecursive sets m_childrenStopped outside the queue's lock ...
SetChildrenStopped ==
  /\ stopping
  /\ stoppedChildren = Children
  /\ ~childrenStopped
  /\ childrenStopped' = TRUE
  /\ UNCHANGED <<jobSet, lastJob, counts, processCount, pc, job, adding,
                 stopping, stoppedChildren, notified, stoppedEvent>>

\* ... and then calls onChildrenStopped, once, which takes the lock.
OnChildrenStopped ==
  /\ childrenStopped
  /\ ~notified
  /\ notified' = TRUE
  /\ UNCHANGED processCount
  /\ CheckStopped
  /\ UNCHANGED <<jobSet, lastJob, counts, pc, job, adding,
                 stopping, stoppedChildren, childrenStopped>>

Next ==
  \/ \E a \in Actors, t \in Types : AddJobCheck(a, t)
  \/ \E a \in Actors : AddJobInsert(a)
  \/ \E w \in Threads : \/ SemaphoreWait(w)
                        \/ GetNextJob(w)
                        \/ DoJob(w)
                        \/ JobReturns(w)
                        \/ FinishJob(w)
  \/ StopAsync
  \/ \E c \in Children : ChildStops(c)
  \/ SetChildrenStopped
  \/ OnChildrenStopped

\* A thread that can proceed does, and jobs return.  Children stop when asked.
Fairness ==
  /\ \A a \in Actors : WF_vars(AddJobInsert(a))
  /\ \A w \in Threads : /\ WF_vars(SemaphoreWait(w))
                        /\ WF_vars(GetNextJob(w))
                        /\ WF_vars(DoJob(w))
                        /\ WF_vars(JobReturns(w))
                        /\ WF_vars(FinishJob(w))
  /\ \A c \in Children : WF_vars(ChildStops(c))
  /\ WF_vars(SetChildrenStopped)
  /\ WF_vars(OnChildrenStopped)

Spec == Init /\ [][Next]_vars
FairSpec == Spec /\ Fairness

-----------------------------------------------------------------------------
(***************************************************************************)
(* Properties                                                               *)
(***************************************************************************)

\* The state is well typed.
TypeOK ==
  /\ jobSet \subseteq Jobs
  /\ lastJob \in Nat
  /\ waiting \in [Types -> Nat]
  /\ running \in [Types -> Nat]
  /\ deferred \in [Types -> Nat]
  /\ tasks \in Nat
  /\ processCount \in Nat
  /\ pc \in [Threads -> {"wait", "woken", "got", "run", "done"}]
  /\ job \in [Threads -> Jobs \cup {NoJob}]
  /\ adding \in [Actors -> Types \cup {-1}]
  /\ stopping \in BOOLEAN
  /\ stoppedChildren \subseteq Children
  /\ childrenStopped \in BOOLEAN
  /\ notified \in BOOLEAN
  /\ stoppedEvent \in BOOLEAN

\* A worker that was woken finds a job it may run: the loop of getNextJob never
\* falls off the end of m_jobSet, and the type it picks has waiting > 0.
WokenFindsJob ==
  (\E w \in Threads : pc[w] = "woken") =>
     \E j \in Runnable : waiting[j.type] > 0

\* The jobs of type t that wait and have been signalled to the workers.
Ready == [t \in Types |-> waiting[t] - deferred[t]]

\* One token for each of them.
Tokens(r) == UNION {{t} \X (1..r[t]) : t \in Types}

Woken == {w \in Threads : pc[w] = "woken"}
Holding(t) == {w \in Threads : job[w].type = t}
Processing == {w \in Threads : pc[w] \in {"got", "run", "done"}}
JobsOf(t) == {j \in jobSet : j.type = t}

\* The units of the semaphore, held or not yet taken, are exactly the waiting jobs
\* that were not deferred, and each counter counts what it is named for.
SignalsMatchJobs ==
  /\ tasks + Cardinality(Woken) = Cardinality(Tokens(Ready))
  /\ \A t \in Types : waiting[t] = Cardinality(JobsOf(t))
  /\ processCount = Cardinality(Processing)

\* No type ever runs more jobs than its limit allows, counting the threads that
\* hold a job and not only the counter.
LimitRespected ==
  \A t \in Types :
    /\ running[t] <= Limit[t]
    /\ Cardinality(Holding(t)) = running[t]

\* Jobs of a type are deferred only while the running jobs and the signalled
\* waiting ones fill the limit, so no deferred job is left behind by an idle type.
\* It implies the assertion of finishJob (running + waiting >= limit).
DeferredOnlyAtLimit ==
  \A t \in Types :
    deferred[t] > 0 => running[t] + waiting[t] - deferred[t] = Limit[t]

\* The assertion of addJob holds for every caller that follows the Stoppable
\* rules, and still holds when the caller reaches the insertion.
AddJobSafe ==
  \A a \in Actors : MayAdd(a) \/ adding[a] # -1 => AddJobAssert

\* Once the queue reports that it has stopped, no job is queued or running, no
\* thread is on its way to one, and nobody is about to add one.
StoppedIsQuiet ==
  stoppedEvent =>
    /\ jobSet = {} /\ tasks = 0
    /\ \A w \in Threads : pc[w] = "wait"
    /\ \A a \in Actors : adding[a] = -1

\* queueJob's promise: with at least one thread, every queued job is eventually
\* taken by a worker, deferred or not, also while the queue is stopping.
EveryJobTaken ==
  \A t \in Types, i \in 1..(MaxJobs + Cardinality(Actors)) :
    [type |-> t, index |-> i] \in jobSet ~> [type |-> t, index |-> i] \notin jobSet

\* A stop request completes: the last of (children stopped, last job finished)
\* notices, whichever comes last.
StopCompletes == stopping ~> stoppedEvent
=============================================================================
