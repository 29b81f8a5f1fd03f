--------------------------- MODULE JobQueueProofs ---------------------------
(***************************************************************************)
(* Proofs about JobQueue for any set of types, limits, threads and children *)
(* of the queue, and any number of jobs.                                    *)
(*                                                                          *)
(* The argument: every unit of the semaphore, taken or not, stands for a    *)
(* waiting job that was not deferred (SignalsMatchJobs); such a job's type  *)
(* is below its limit (the running and the signalled jobs of a type never   *)
(* exceed the limit).  A woken thread holds a unit, so a runnable job       *)
(* exists.                                                                  *)
(***************************************************************************)
EXTENDS JobQueue, FiniteSetTheorems, TLAPS

\* A queue type's signalled and running jobs fill its limit before one is deferred.
LimitInv ==
  \A t \in Types :
    /\ deferred[t] <= waiting[t]
    /\ running[t] + waiting[t] - deferred[t] <= Limit[t]
    /\ deferred[t] > 0 => running[t] + waiting[t] - deferred[t] = Limit[t]

\* Finiteness of the sets the counters count.
FiniteInv ==
  /\ IsFiniteSet(Tokens(Ready))
  /\ \A t \in Types : IsFiniteSet(JobsOf(t))

\* What a thread's position says of the job it holds and of its calls of addJob.
ThreadInv ==
  /\ \A w \in Threads : w \in Processing <=> job[w] \in Jobs
  /\ \A w \in Threads : adding[w] # -1 => pc[w] = "run"
  /\ \A j \in jobSet : j.index <= lastJob
  /\ \A t \in Types : running[t] = Cardinality(Holding(t))

\* The stop protocol.
StopInv ==
  /\ \A c \in Children : adding[c] # -1 => c \notin stoppedChildren
  /\ childrenStopped => stopping /\ stoppedChildren = Children
  /\ stoppedEvent => childrenStopped /\ jobSet = {} /\ processCount = 0

\* The inductive invariant.
IInv ==
  TypeOK /\ LimitInv /\ FiniteInv /\ ThreadInv /\ StopInv /\ SignalsMatchJobs

-----------------------------------------------------------------------------
(* Lemmas on tokens and on counting threads.                                *)

\* One more signalled job of a type is one more token.
LEMMA TokensGrow ==
  ASSUME NEW r \in [Types -> Nat], NEW s \in [Types -> Nat], NEW t \in Types,
         s[t] = r[t] + 1, \A u \in Types \ {t} : s[u] = r[u],
         IsFiniteSet(Tokens(r))
  PROVE  IsFiniteSet(Tokens(s)) /\ Cardinality(Tokens(s)) = Cardinality(Tokens(r)) + 1
<1> DEFINE x == <<t, r[t] + 1>>
<1>1. Tokens(s) = Tokens(r) \cup {x}
  BY DEF Tokens
<1>2. x \notin Tokens(r)
  BY DEF Tokens
<1>3. /\ IsFiniteSet(Tokens(r) \cup {x})
      /\ Cardinality(Tokens(r) \cup {x}) = Cardinality(Tokens(r)) + 1
  BY <1>2, FS_AddElement
<1>. QED BY <1>1, <1>3

\* One signalled job less is one token less.
LEMMA TokensShrink ==
  ASSUME NEW r \in [Types -> Nat], NEW s \in [Types -> Nat], NEW t \in Types,
         r[t] = s[t] + 1, \A u \in Types \ {t} : s[u] = r[u],
         IsFiniteSet(Tokens(r))
  PROVE  IsFiniteSet(Tokens(s)) /\ Cardinality(Tokens(s)) = Cardinality(Tokens(r)) - 1
<1> DEFINE x == <<t, r[t]>>
<1>1. Tokens(s) = Tokens(r) \ {x}
  BY DEF Tokens
<1>2. x \in Tokens(r)
  BY DEF Tokens
<1>3. /\ IsFiniteSet(Tokens(r) \ {x})
      /\ Cardinality(Tokens(r) \ {x}) = Cardinality(Tokens(r)) - 1
  BY Zenon, <1>2, FS_RemoveElement
<1>. QED BY <1>1, <1>3

\* The signalled jobs of each type are a natural number, read pointwise.
LEMMA ReadyFacts ==
  ASSUME TypeOK, LimitInv
  PROVE  Ready \in [Types -> Nat] /\ \A t \in Types : Ready[t] = waiting[t] - deferred[t]
BY DEF Ready, TypeOK, LimitInv

\* The counted sets of threads are finite.
LEMMA ThreadSetsFinite ==
  /\ IsFiniteSet(Woken)
  /\ IsFiniteSet(Processing)
  /\ \A t : IsFiniteSet(Holding(t))
BY ThreadsAssumption, FS_Subset DEF Woken, Processing, Holding

\* NoJob is no job of the queue and has no type.
LEMMA NoJobFacts == NoJob \notin Jobs /\ \A t \in Types : NoJob.type # t
BY TypesAssumption DEF NoJob, Jobs

-----------------------------------------------------------------------------
\* The empty queue.
LEMMA InitIInv == Init => IInv
<1> SUFFICES ASSUME Init PROVE IInv
  OBVIOUS
<1> USE DEF Init
<1>1. TypeOK
  BY Zenon DEF TypeOK
<1>2. LimitInv
  BY LimitAssumption DEF LimitInv
<1>3. Tokens(Ready) = {} /\ Woken = {} /\ Processing = {}
  BY DEF Tokens, Ready, Woken, Processing
<1>4. \A t \in Types : JobsOf(t) = {} /\ Holding(t) = {}
  BY NoJobFacts DEF JobsOf, Holding
<1>5. FiniteInv
  BY <1>3, <1>4, FS_EmptySet DEF FiniteInv
<1>6. ThreadInv
  BY <1>3, <1>4, FS_EmptySet, NoJobFacts DEF ThreadInv, Actors
<1>7. StopInv
  BY DEF StopInv, Actors
<1>8. SignalsMatchJobs
  <2>1. Cardinality({}) = 0
    BY FS_EmptySet
  <2>2. tasks = 0 /\ processCount = 0 /\ \A t \in Types : waiting[t] = 0
    OBVIOUS
  <2>3. tasks + Cardinality(Woken) = Cardinality(Tokens(Ready))
    BY <1>3, <2>1, <2>2
  <2>4. \A t \in Types : waiting[t] = Cardinality(JobsOf(t))
    BY <1>4, <2>1, <2>2
  <2> QED BY <1>3, <2>1, <2>2, <2>3, <2>4 DEF SignalsMatchJobs
<1>. QED BY <1>1, <1>2, <1>5, <1>6, <1>7, <1>8 DEF IInv

-----------------------------------------------------------------------------
(* One lemma per action: it preserves the inductive invariant.              *)

\* addJob up to its second critical section.
LEMMA AddJobCheckStep ==
  ASSUME IInv, NEW a \in Actors, NEW t \in Types, AddJobCheck(a, t)
  PROVE  IInv'
<1> USE DEF IInv, AddJobCheck, counts, stopVars
<1>1. TypeOK'
  BY DEF TypeOK
<1>2. LimitInv'
  BY DEF LimitInv
<1>3. FiniteInv'
  BY DEF FiniteInv, Tokens, Ready, JobsOf
<1>4. ThreadInv'
  BY ThreadsAssumption DEF ThreadInv, Holding, Processing, MayAdd, TypeOK
<1>5. StopInv'
  BY ThreadsAssumption DEF StopInv, MayAdd, TypeOK
<1>6. SignalsMatchJobs'
  BY DEF SignalsMatchJobs, Tokens, Ready, Woken, Processing, JobsOf
<1>. QED BY <1>1, <1>2, <1>3, <1>4, <1>5, <1>6

\* addJob inserts the job and signals it, or defers it at the limit.
LEMMA AddJobInsertStep ==
  ASSUME IInv, NEW a \in Actors, AddJobInsert(a)
  PROVE  IInv'
<1> USE DEF IInv
<1> DEFINE t == adding[a]
           j == [type |-> t, index |-> lastJob + 1]
<1>0. t \in Types /\ lastJob \in Nat
  BY DEF AddJobInsert, TypeOK
<1>1. TypeOK'
  BY <1>0 DEF TypeOK, AddJobInsert, QueueJob, Jobs, counts, stopVars
<1>a. /\ running' = running
      /\ waiting' = [waiting EXCEPT ![t] = @ + 1]
      /\ deferred' = IF waiting[t] + running[t] < Limit[t]
                       THEN deferred ELSE [deferred EXCEPT ![t] = @ + 1]
      /\ tasks' = IF waiting[t] + running[t] < Limit[t] THEN tasks + 1 ELSE tasks
  BY DEF AddJobInsert, QueueJob
<1>2. LimitInv'
  <2> SUFFICES ASSUME NEW u \in Types
               PROVE  /\ deferred'[u] <= waiting'[u]
                      /\ running'[u] + waiting'[u] - deferred'[u] <= Limit[u]
                      /\ deferred'[u] > 0 =>
                           running'[u] + waiting'[u] - deferred'[u] = Limit[u]
    BY DEF LimitInv
  <2> HIDE DEF t
  <2>1. /\ waiting[u] \in Nat /\ running[u] \in Nat /\ deferred[u] \in Nat /\ Limit[u] \in Nat
        /\ deferred[u] <= waiting[u]
        /\ running[u] + waiting[u] - deferred[u] <= Limit[u]
        /\ deferred[u] > 0 => running[u] + waiting[u] - deferred[u] = Limit[u]
    BY LimitAssumption DEF LimitInv, TypeOK
  <2>2. CASE u = t
    <3>1. waiting'[u] = waiting[u] + 1 /\ running'[u] = running[u]
      BY <1>0, <1>a, <2>2 DEF TypeOK
    <3>2. deferred'[u] = IF waiting[u] + running[u] < Limit[u]
                           THEN deferred[u] ELSE deferred[u] + 1
      BY <1>0, <1>a, <2>2 DEF TypeOK
    <3>. QED BY <2>1, <3>1, <3>2
  <2>3. CASE u # t
    BY <1>0, <1>a, <2>1, <2>3 DEF TypeOK
  <2>. QED BY <2>2, <2>3
<1>b. /\ Ready' \in [Types -> Nat]
      /\ \A u \in Types : Ready'[u] = waiting'[u] - deferred'[u]
  BY <1>1, <1>2 DEF Ready, TypeOK, LimitInv
<1>3. j \notin jobSet /\ jobSet' = jobSet \cup {j}
  BY <1>0 DEF ThreadInv, TypeOK, AddJobInsert, Jobs
<1>4. \A u \in Types : JobsOf(u)' = IF u = t THEN JobsOf(u) \cup {j} ELSE JobsOf(u)
  BY <1>0, <1>3 DEF JobsOf
<1>5. \A u \in Types : /\ IsFiniteSet(JobsOf(u)')
                       /\ waiting'[u] = Cardinality(JobsOf(u)')
  <2> TAKE u \in Types
  <2>1. CASE u = t
    <3>1. j \notin JobsOf(t) /\ IsFiniteSet(JobsOf(t))
      BY <1>0, <1>3 DEF JobsOf, FiniteInv
    <3>2. /\ IsFiniteSet(JobsOf(t) \cup {j})
          /\ Cardinality(JobsOf(t) \cup {j}) = Cardinality(JobsOf(t)) + 1
      BY <3>1, FS_AddElement
    <3>3. waiting'[t] = waiting[t] + 1
      BY <1>0 DEF AddJobInsert, QueueJob, TypeOK
    <3>. QED BY <1>0, <1>4, <2>1, <3>2, <3>3 DEF SignalsMatchJobs
  <2>2. CASE u # t
    <3>1. waiting'[u] = waiting[u]
      BY <1>0, <2>2 DEF AddJobInsert, QueueJob, TypeOK
    <3>. QED BY <1>4, <2>2, <3>1 DEF SignalsMatchJobs, FiniteInv
  <2>. QED BY <2>1, <2>2
<1>6. /\ IsFiniteSet(Tokens(Ready)')
      /\ tasks' + Cardinality(Woken)' = Cardinality(Tokens(Ready)')
  <2>0. Woken' = Woken /\ Cardinality(Woken) \in Nat
    BY ThreadSetsFinite, FS_CardinalityType DEF Woken, AddJobInsert
  <2>1. Ready \in [Types -> Nat] /\ Cardinality(Tokens(Ready)) \in Nat
    BY FS_CardinalityType DEF Ready, TypeOK, LimitInv, FiniteInv
  <2>2. CASE waiting[t] + running[t] < Limit[t]
    <3>1. /\ waiting' = [waiting EXCEPT ![t] = @ + 1]
          /\ deferred' = deferred /\ tasks' = tasks + 1
      BY <1>a, <2>2
    <3>2. /\ Ready' \in [Types -> Nat] /\ Ready'[t] = Ready[t] + 1
          /\ \A u \in Types \ {t} : Ready'[u] = Ready[u]
      BY <1>0, <1>b, <3>1, ReadyFacts DEF TypeOK
    <3>3. /\ IsFiniteSet(Tokens(Ready'))
          /\ Cardinality(Tokens(Ready')) = Cardinality(Tokens(Ready)) + 1
      BY <1>0, <2>1, <3>2, TokensGrow DEF FiniteInv
    <3>4. Tokens(Ready)' = Tokens(Ready')
      BY DEF Tokens
    <3>. QED BY <2>0, <2>1, <3>1, <3>3, <3>4 DEF SignalsMatchJobs, TypeOK
  <2>3. CASE ~(waiting[t] + running[t] < Limit[t])
    <3>1. tasks' = tasks /\ Ready' = Ready
      BY <1>0, <2>3 DEF AddJobInsert, QueueJob, Ready, TypeOK
    <3>2. Tokens(Ready)' = Tokens(Ready)
      BY <3>1 DEF Tokens
    <3>. QED BY <2>0, <3>1, <3>2 DEF SignalsMatchJobs, FiniteInv
  <2>. QED BY <2>2, <2>3
<1>7. FiniteInv'
  BY <1>5, <1>6 DEF FiniteInv
<1>8. ThreadInv'
  BY <1>0, ThreadsAssumption DEF ThreadInv, Holding, Processing, TypeOK, AddJobInsert, Jobs
<1>9. StopInv'
  <2>1. ~stoppedEvent
    <3>1. CASE a \in Threads
      <4>1. a \in Processing /\ IsFiniteSet(Processing)
        BY <1>0, <3>1, ThreadSetsFinite, TypesAssumption DEF ThreadInv, Processing, AddJobInsert
      <4>2. processCount # 0
        BY <4>1, FS_EmptySet DEF SignalsMatchJobs
      <4>. QED BY <4>2 DEF StopInv
    <3>2. CASE a \in Children
      BY <3>2 DEF StopInv, AddJobInsert
    <3>. QED BY <3>1, <3>2 DEF Actors
  <2>. QED BY <2>1, ThreadsAssumption DEF StopInv, AddJobInsert, stopVars, TypeOK
<1>10. SignalsMatchJobs'
  BY <1>5, <1>6 DEF SignalsMatchJobs, Processing, AddJobInsert
<1>. QED BY <1>1, <1>2, <1>7, <1>8, <1>9, <1>10

\* A worker takes a unit of the semaphore.
LEMMA SemaphoreWaitStep ==
  ASSUME IInv, NEW w \in Threads, SemaphoreWait(w)
  PROVE  IInv'
<1> USE DEF IInv
<1>1. TypeOK'
  BY DEF TypeOK, SemaphoreWait, stopVars
<1>2. LimitInv'
  BY DEF LimitInv, SemaphoreWait
<1>3. FiniteInv'
  BY DEF FiniteInv, Tokens, Ready, JobsOf, SemaphoreWait
<1>4. Processing' = Processing
  BY DEF Processing, TypeOK, SemaphoreWait
<1>5. ThreadInv'
  BY <1>4 DEF ThreadInv, Holding, TypeOK, SemaphoreWait
<1>6. StopInv'
  BY DEF StopInv, SemaphoreWait, stopVars
<1>7. SignalsMatchJobs'
  <2>1. Woken' = Woken \cup {w} /\ w \notin Woken
    BY DEF Woken, TypeOK, SemaphoreWait
  <2>2. /\ Cardinality(Woken \cup {w}) = Cardinality(Woken) + 1
        /\ Cardinality(Woken) \in Nat
    BY <2>1, ThreadSetsFinite, FS_AddElement, FS_CardinalityType
  <2>3. tasks' + Cardinality(Woken)' = tasks + Cardinality(Woken)
    BY <2>1, <2>2 DEF TypeOK, SemaphoreWait
  <2>4. Tokens(Ready)' = Tokens(Ready) /\ \A t \in Types : JobsOf(t)' = JobsOf(t)
    BY DEF Tokens, Ready, JobsOf, SemaphoreWait
  <2>5. waiting' = waiting /\ processCount' = processCount
    BY DEF SemaphoreWait
  <2>6. (tasks + Cardinality(Woken) = Cardinality(Tokens(Ready)))'
    BY <2>3, <2>4 DEF SignalsMatchJobs
  <2>7. (\A t \in Types : waiting[t] = Cardinality(JobsOf(t)))'
    BY <2>4, <2>5 DEF SignalsMatchJobs
  <2>8. (processCount = Cardinality(Processing))'
    BY <1>4, <2>5 DEF SignalsMatchJobs
  <2>. QED BY <2>6, <2>7, <2>8 DEF SignalsMatchJobs
<1>. QED BY <1>1, <1>2, <1>3, <1>5, <1>6, <1>7

\* The positions after a job was taken keep their meaning when the thread moves
\* among them.
LEMMA DoJobStep ==
  ASSUME IInv, NEW w \in Threads, DoJob(w) \/ JobReturns(w)
  PROVE  IInv'
<1> USE DEF IInv, DoJob, JobReturns, counts, stopVars
<1>1. TypeOK'
  BY DEF TypeOK
<1>2. LimitInv'
  BY DEF LimitInv
<1>3. FiniteInv'
  BY Zenon DEF FiniteInv, Tokens, Ready, JobsOf
<1>4. Processing' = Processing /\ Woken' = Woken
  BY DEF Processing, Woken, TypeOK
<1>5. ThreadInv'
  BY SMTT(60), <1>4 DEF ThreadInv, Holding, TypeOK
<1>6. StopInv'
  BY DEF StopInv
<1>7. /\ tasks' = tasks /\ waiting' = waiting /\ processCount' = processCount
      /\ Tokens(Ready)' = Tokens(Ready) /\ \A t \in Types : JobsOf(t)' = JobsOf(t)
  BY DEF Tokens, Ready, JobsOf
<1>8. SignalsMatchJobs'
  BY <1>4, <1>7 DEF SignalsMatchJobs
<1>. QED BY <1>1, <1>2, <1>3, <1>5, <1>6, <1>8

\* The steps of the Stoppable protocol.
LEMMA StopStep ==
  ASSUME IInv,
         \/ StopAsync
         \/ \E c \in Children : ChildStops(c)
         \/ SetChildrenStopped
         \/ OnChildrenStopped
  PROVE  IInv'
<1> USE DEF IInv, StopAsync, ChildStops, SetChildrenStopped, OnChildrenStopped, counts
<1>1. TypeOK'
  BY Zenon DEF TypeOK, CheckStopped, StopCondition
<1>2. LimitInv'
  BY DEF LimitInv
<1>3. FiniteInv'
  BY Zenon DEF FiniteInv, Tokens, Ready, JobsOf
<1>4. Processing' = Processing /\ Woken' = Woken
  BY DEF Processing, Woken
<1>5. ThreadInv'
  BY <1>4 DEF ThreadInv, Holding
<1>6. StopInv'
  BY SMTT(60) DEF StopInv, CheckStopped, StopCondition, TypeOK
<1>7. SignalsMatchJobs'
  BY Zenon, <1>4 DEF SignalsMatchJobs, Tokens, Ready, JobsOf
<1>. QED BY <1>1, <1>2, <1>3, <1>5, <1>6, <1>7

\* A worker takes the next runnable job.
LEMMA GetNextJobStep ==
  ASSUME IInv, NEW w \in Threads, GetNextJob(w)
  PROVE  IInv'
<1> USE DEF IInv
<1>0. PICK j \in jobSet :
        /\ IsNextJob(j)
        /\ job' = [job EXCEPT ![w] = j]
        /\ jobSet' = jobSet \ {j}
        /\ waiting' = [waiting EXCEPT ![j.type] = @ - 1]
        /\ running' = [running EXCEPT ![j.type] = @ + 1]
  BY Zenon DEF GetNextJob
<1> DEFINE t == j.type
<1>1. t \in Types /\ j \in Jobs /\ running[t] < Limit[t]
  BY <1>0 DEF TypeOK, Jobs, IsNextJob, Runnable
<1>2. j \in JobsOf(t) /\ IsFiniteSet(JobsOf(t)) /\ waiting[t] = Cardinality(JobsOf(t))
  BY <1>1 DEF JobsOf, FiniteInv, SignalsMatchJobs
<1>3. /\ IsFiniteSet(JobsOf(t) \ {j})
      /\ Cardinality(JobsOf(t) \ {j}) = waiting[t] - 1
  BY Zenon, <1>2, FS_RemoveElement
<1>4. waiting[t] >= 1
  BY <1>1, <1>2, FS_EmptySet DEF TypeOK
<1>5. /\ waiting'[t] = waiting[t] - 1 /\ running'[t] = running[t] + 1
      /\ \A u \in Types \ {t} : waiting'[u] = waiting[u] /\ running'[u] = running[u]
      /\ deferred' = deferred /\ tasks' = tasks
      /\ waiting' \in [Types -> Nat] /\ running' \in [Types -> Nat]
  BY SMTT(60), <1>0, <1>1, <1>4 DEF TypeOK, GetNextJob
<1>6. deferred[t] < waiting[t]
  BY SMTT(60), <1>1, <1>4, LimitAssumption DEF LimitInv, TypeOK
<1>7. TypeOK'
  BY SMTT(60), <1>0, <1>5 DEF TypeOK, GetNextJob, stopVars
<1>8. LimitInv'
  <2> SUFFICES ASSUME NEW u \in Types
               PROVE  /\ deferred'[u] <= waiting'[u]
                      /\ running'[u] + waiting'[u] - deferred'[u] <= Limit[u]
                      /\ deferred'[u] > 0 =>
                           running'[u] + waiting'[u] - deferred'[u] = Limit[u]
    BY DEF LimitInv
  <2>1. CASE u = t
    BY SMTT(60), <1>1, <1>5, <1>6, <2>1, LimitAssumption DEF LimitInv, TypeOK
  <2>2. CASE u # t
    BY <1>5, <2>2 DEF LimitInv
  <2>. QED BY <2>1, <2>2
<1>9. \A u \in Types : IsFiniteSet(JobsOf(u)') /\ waiting'[u] = Cardinality(JobsOf(u)')
  <2> TAKE u \in Types
  <2>1. CASE u = t
    <3>1. JobsOf(u)' = JobsOf(t) \ {j}
      BY <1>0, <2>1 DEF JobsOf
    <3>. QED BY <1>3, <1>5, <2>1, <3>1
  <2>2. CASE u # t
    <3>1. JobsOf(u)' = JobsOf(u)
      BY <1>0, <2>2 DEF JobsOf
    <3>. QED BY <1>5, <2>2, <3>1 DEF FiniteInv, SignalsMatchJobs
  <2>. QED BY <2>1, <2>2
<1>10. /\ Woken' = Woken \ {w} /\ w \in Woken
       /\ Processing' = Processing \cup {w} /\ w \notin Processing
  BY SMTT(60) DEF GetNextJob, Woken, Processing, TypeOK
<1>11. /\ Cardinality(Woken') = Cardinality(Woken) - 1
       /\ Cardinality(Processing') = Cardinality(Processing) + 1
       /\ Cardinality(Woken) \in Nat
  BY <1>10, ThreadSetsFinite, FS_AddElement, FS_RemoveElement, FS_CardinalityType
<1>12. /\ IsFiniteSet(Tokens(Ready'))
       /\ Cardinality(Tokens(Ready')) = Cardinality(Tokens(Ready)) - 1
  <2>1. /\ Ready' \in [Types -> Nat] /\ Ready[t] = Ready'[t] + 1
        /\ \A u \in Types \ {t} : Ready'[u] = Ready[u]
    <3>1. /\ Ready' \in [Types -> Nat]
          /\ \A u \in Types : Ready'[u] = waiting'[u] - deferred'[u]
      BY SMTT(60), <1>7, <1>8 DEF Ready, TypeOK, LimitInv
    <3>. QED BY SMTT(60), <1>1, <1>5, <3>1, ReadyFacts DEF TypeOK
  <2>. QED BY <1>1, <2>1, TokensShrink, ReadyFacts DEF FiniteInv
<1>13. Tokens(Ready)' = Tokens(Ready')
  BY DEF Tokens
<1>14. FiniteInv'
  BY <1>9, <1>12, <1>13 DEF FiniteInv
<1>15. \A u \in Types : running'[u] = Cardinality(Holding(u)')
  <2> TAKE u \in Types
  <2>0. job[w] \notin Jobs /\ job[w] = NoJob
    BY <1>10 DEF ThreadInv, TypeOK
  <2>1. CASE u = t
    <3>1. Holding(u)' = Holding(u) \cup {w} /\ w \notin Holding(u)
      BY <1>0, <1>1, <2>0, <2>1, NoJobFacts DEF Holding, TypeOK
    <3>2. Cardinality(Holding(u) \cup {w}) = Cardinality(Holding(u)) + 1
      BY Zenon, <3>1, ThreadSetsFinite, FS_AddElement
    <3>. QED BY <1>5, <2>1, <3>1, <3>2 DEF ThreadInv
  <2>2. CASE u # t
    <3>1. Holding(u)' = Holding(u)
      BY <1>0, <2>0, <2>2, NoJobFacts DEF Holding, TypeOK
    <3>. QED BY <1>5, <2>2, <3>1 DEF ThreadInv
  <2>. QED BY <2>1, <2>2
<1>16. ThreadInv'
  <2>1. \A v \in Threads : v \in Processing' <=> job'[v] \in Jobs
    BY <1>0, <1>1, <1>10 DEF ThreadInv, TypeOK
  <2>2. \A v \in Threads : adding'[v] # -1 => pc'[v] = "run"
    BY DEF ThreadInv, GetNextJob, TypeOK
  <2>3. \A i \in jobSet' : i.index <= lastJob'
    BY <1>0 DEF ThreadInv, GetNextJob
  <2>. QED BY <1>15, <2>1, <2>2, <2>3 DEF ThreadInv
<1>17. StopInv'
  BY <1>0 DEF StopInv, GetNextJob, stopVars
<1>18. SignalsMatchJobs'
  <2>1. processCount' = processCount + 1
    BY DEF GetNextJob
  <2>2. Cardinality(Tokens(Ready)) \in Nat
    BY FS_CardinalityType DEF FiniteInv
  <2>3. tasks' + Cardinality(Woken)' = Cardinality(Tokens(Ready))'
    BY SMTT(60), <1>5, <1>11, <1>12, <1>13, <2>2 DEF SignalsMatchJobs, TypeOK
  <2>. QED BY <1>9, <1>11, <2>1, <2>3 DEF SignalsMatchJobs
<1>. QED BY <1>7, <1>8, <1>14, <1>16, <1>17, <1>18

\* A job ends, and releases a deferred job of its type.
LEMMA FinishJobStep ==
  ASSUME IInv, NEW w \in Threads, FinishJob(w)
  PROVE  IInv'
<1> USE DEF IInv
<1> DEFINE t == job[w].type
<1>0. w \in Processing /\ job[w] \in Jobs /\ t \in Types /\ w \in Holding(t)
  BY DEF FinishJob, Processing, ThreadInv, Jobs, Holding
<1>1. running[t] >= 1
  <2>1. running[t] = Cardinality(Holding(t)) /\ running[t] \in Nat
    BY <1>0 DEF ThreadInv, TypeOK
  <2>2. Cardinality(Holding(t)) # 0
    BY <1>0, ThreadSetsFinite, FS_EmptySet
  <2>. QED BY SMTT(60), <2>1, <2>2
<1>2. /\ Processing' = Processing \ {w} /\ Woken' = Woken
      /\ adding' = adding /\ jobSet' = jobSet /\ waiting' = waiting
      /\ lastJob' = lastJob /\ processCount' = processCount - 1
      /\ job' = [job EXCEPT ![w] = NoJob]
      /\ running' = [running EXCEPT ![t] = @ - 1]
  BY DEF FinishJob, Processing, Woken, TypeOK
<1>3. /\ Cardinality(Processing') = Cardinality(Processing) - 1
      /\ processCount >= 1
  BY SMTT(60), <1>0, <1>2, ThreadSetsFinite, FS_RemoveElement, FS_EmptySet
     DEF SignalsMatchJobs, TypeOK
<1>4. /\ running'[t] = running[t] - 1 /\ running' \in [Types -> Nat]
      /\ \A u \in Types \ {t} : running'[u] = running[u]
  BY SMTT(60), <1>0, <1>1, <1>2 DEF TypeOK
<1>5. /\ deferred' \in [Types -> Nat]
      /\ \A u \in Types \ {t} : deferred'[u] = deferred[u]
      /\ deferred[t] > 0 => deferred'[t] = deferred[t] - 1 /\ tasks' = tasks + 1
      /\ ~(deferred[t] > 0) => deferred' = deferred /\ tasks' = tasks
  BY SMTT(60), <1>0 DEF FinishJob, ReleaseDeferred, TypeOK
<1>6. TypeOK'
  <2>1. tasks' \in Nat /\ processCount' \in Nat
    BY SMTT(60), <1>0, <1>2, <1>3, <1>5 DEF TypeOK
  <2>2. stoppedEvent' \in BOOLEAN
    BY DEF FinishJob, CheckStopped, StopCondition, TypeOK
  <2>. QED BY <1>2, <1>4, <1>5, <2>1, <2>2 DEF TypeOK, FinishJob
<1>7. LimitInv'
  <2> SUFFICES ASSUME NEW u \in Types
               PROVE  /\ deferred'[u] <= waiting'[u]
                      /\ running'[u] + waiting'[u] - deferred'[u] <= Limit[u]
                      /\ deferred'[u] > 0 =>
                           running'[u] + waiting'[u] - deferred'[u] = Limit[u]
    BY DEF LimitInv
  <2>0. /\ waiting[u] \in Nat /\ running[u] \in Nat /\ deferred[u] \in Nat
        /\ Limit[u] \in Nat
    BY LimitAssumption DEF TypeOK
  <2>a. /\ deferred[u] <= waiting[u] /\ running[u] + waiting[u] - deferred[u] <= Limit[u]
        /\ deferred[u] > 0 => running[u] + waiting[u] - deferred[u] = Limit[u]
    BY DEF LimitInv
  <2>b. waiting'[u] = waiting[u]
    BY <1>2
  <2>1. CASE u = t
    <3>1. running'[u] = running[u] - 1
      BY <1>4, <2>1
    <3>2. CASE deferred[u] > 0
      <4>1. deferred'[u] = deferred[u] - 1
        BY <1>5, <2>1, <3>2
      <4> QED BY <2>0, <2>a, <2>b, <3>1, <3>2, <4>1
    <3>3. CASE ~(deferred[u] > 0)
      <4>1. deferred'[u] = deferred[u]
        BY <1>5, <2>1, <3>3
      <4> QED BY SMTT(60), <2>0, <2>a, <2>b, <3>1, <3>3, <4>1
    <3> QED BY <3>2, <3>3
  <2>2. CASE u # t
    <3>1. running'[u] = running[u] /\ deferred'[u] = deferred[u]
      BY <1>4, <1>5, <2>2
    <3> QED BY <2>a, <2>b, <3>1
  <2>. QED BY <2>1, <2>2
<1>8. \A u \in Types : JobsOf(u)' = JobsOf(u)
  BY <1>2 DEF JobsOf
<1>9. /\ IsFiniteSet(Tokens(Ready'))
      /\ tasks' + Cardinality(Woken) = Cardinality(Tokens(Ready'))
  <2>0. /\ Ready' \in [Types -> Nat]
        /\ \A u \in Types : Ready'[u] = waiting'[u] - deferred'[u]
    BY SMTT(60), <1>6, <1>7 DEF Ready, TypeOK, LimitInv
  <2>1. Cardinality(Tokens(Ready)) \in Nat /\ Cardinality(Woken) \in Nat
    BY ThreadSetsFinite, FS_CardinalityType DEF FiniteInv
  <2>2. CASE deferred[t] > 0
    <3>1. Ready'[t] = Ready[t] + 1 /\ \A u \in Types \ {t} : Ready'[u] = Ready[u]
      BY SMTT(60), <1>0, <1>2, <1>5, <2>0, <2>2, ReadyFacts DEF TypeOK
    <3>2. /\ IsFiniteSet(Tokens(Ready'))
          /\ Cardinality(Tokens(Ready')) = Cardinality(Tokens(Ready)) + 1
      BY <1>0, <2>0, <3>1, ReadyFacts, TokensGrow DEF FiniteInv
    <3>. QED BY SMTT(60), <1>5, <2>1, <2>2, <3>2 DEF SignalsMatchJobs, TypeOK
  <2>3. CASE ~(deferred[t] > 0)
    <3>1. Ready' = Ready
      BY <1>2, <1>5, <2>3 DEF Ready
    <3>. QED BY <1>5, <2>3, <3>1 DEF SignalsMatchJobs, FiniteInv
  <2>. QED BY <2>2, <2>3
<1>10. Tokens(Ready)' = Tokens(Ready')
  BY DEF Tokens
<1>11. FiniteInv'
  BY <1>8, <1>9, <1>10 DEF FiniteInv
<1>12. \A u \in Types : running'[u] = Cardinality(Holding(u)')
  <2> TAKE u \in Types
  <2>1. CASE u = t
    <3>1. Holding(u)' = Holding(u) \ {w} /\ w \in Holding(u)
      BY <1>0, <1>2, <2>1, NoJobFacts DEF Holding, TypeOK
    <3>2. Cardinality(Holding(u) \ {w}) = Cardinality(Holding(u)) - 1
      BY Zenon, <3>1, ThreadSetsFinite, FS_RemoveElement
    <3>. QED BY <1>4, <2>1, <3>1, <3>2 DEF ThreadInv
  <2>2. CASE u # t
    <3>1. Holding(u)' = Holding(u)
      BY <1>2, <2>2, NoJobFacts DEF Holding, TypeOK
    <3>. QED BY <1>4, <2>2, <3>1 DEF ThreadInv
  <2>. QED BY <2>1, <2>2
<1>13. ThreadInv'
  <2>1. \A v \in Threads : v \in Processing' <=> job'[v] \in Jobs
    BY <1>2, NoJobFacts DEF ThreadInv, TypeOK
  <2>2. \A v \in Threads : adding'[v] # -1 => pc'[v] = "run"
    BY <1>2 DEF ThreadInv, FinishJob, TypeOK
  <2>3. \A i \in jobSet' : i.index <= lastJob'
    BY <1>2 DEF ThreadInv
  <2>. QED BY <1>12, <2>1, <2>2, <2>3 DEF ThreadInv
<1>14. StopInv'
  <2>1. UNCHANGED <<stopping, stoppedChildren, childrenStopped>>
    BY DEF FinishJob
  <2>2. stoppedEvent' => stoppedEvent \/ (childrenStopped /\ jobSet = {} /\ processCount' = 0)
    BY Zenon, <1>2, <2>1 DEF FinishJob, CheckStopped, StopCondition
  <2>3. ~stoppedEvent
    BY <1>3 DEF StopInv
  <2>4. stoppedEvent' => childrenStopped' /\ jobSet' = {} /\ processCount' = 0
    BY <1>2, <2>1, <2>2, <2>3
  <2>5. \A c \in Children : adding'[c] # -1 => c \notin stoppedChildren'
    BY <1>2, <2>1 DEF StopInv
  <2>6. childrenStopped' => stopping' /\ stoppedChildren' = Children
    BY <2>1 DEF StopInv
  <2>. QED BY <2>4, <2>5, <2>6 DEF StopInv
<1>15. SignalsMatchJobs'
  <2>1. (tasks + Cardinality(Woken) = Cardinality(Tokens(Ready)))'
    BY <1>2, <1>9, <1>10
  <2>2. (\A u \in Types : waiting[u] = Cardinality(JobsOf(u)))'
    BY <1>2, <1>8 DEF SignalsMatchJobs
  <2>3. (processCount = Cardinality(Processing))'
    BY <1>2, <1>3 DEF SignalsMatchJobs
  <2>. QED BY <2>1, <2>2, <2>3 DEF SignalsMatchJobs
<1>. QED BY <1>6, <1>7, <1>11, <1>13, <1>14, <1>15

-----------------------------------------------------------------------------
\* Every reachable state of the queue satisfies the inductive invariant.
THEOREM Inductive == Spec => []IInv
<1>1. IInv /\ UNCHANGED vars => IInv'
  <2> SUFFICES ASSUME IInv, UNCHANGED vars PROVE IInv'
    OBVIOUS
  <2> USE DEF vars, counts, stopVars
  <2>1. TypeOK' /\ LimitInv' /\ StopInv'
    BY Zenon DEF IInv, TypeOK, LimitInv, StopInv
  <2>2. /\ Ready' = Ready /\ Woken' = Woken /\ Processing' = Processing
        /\ \A t \in Types : JobsOf(t)' = JobsOf(t) /\ Holding(t)' = Holding(t)
    BY DEF Ready, Woken, Holding, Processing, JobsOf
  <2>3. Tokens(Ready)' = Tokens(Ready)
    BY <2>2 DEF Tokens
  <2>4. FiniteInv'
    BY <2>2, <2>3 DEF IInv, FiniteInv
  <2>5. ThreadInv'
    BY <2>2 DEF IInv, ThreadInv
  <2>6. SignalsMatchJobs'
    BY <2>2, <2>3 DEF IInv, SignalsMatchJobs
  <2>. QED BY <2>1, <2>4, <2>5, <2>6 DEF IInv
<1>2. IInv /\ Next => IInv'
  BY AddJobCheckStep, AddJobInsertStep, SemaphoreWaitStep, GetNextJobStep,
     DoJobStep, FinishJobStep, StopStep DEF Next
<1>. QED BY <1>1, <1>2, InitIInv, PTL DEF Spec

\* The state of the queue is always well typed: in particular no counter of
\* waiting, running or deferred jobs goes below zero.
THEOREM TypeCorrect == Spec => []TypeOK
BY Inductive, PTL DEF IInv

\* The invariant gives the properties of the runs.
LEMMA IInvImplies ==
  ASSUME IInv
  PROVE  /\ WokenFindsJob /\ LimitRespected /\ DeferredOnlyAtLimit
         /\ AddJobSafe /\ StoppedIsQuiet
<1> USE DEF IInv
<1>1. ASSUME NEW w \in Threads, pc[w] = "woken"
      PROVE  \E j \in Runnable : waiting[j.type] > 0
  <2>1. Cardinality(Woken) \in Nat \ {0}
    BY <1>1, ThreadSetsFinite, FS_CardinalityType, FS_EmptySet DEF Woken
  <2>2. Cardinality(Tokens(Ready)) # 0
    BY <2>1 DEF SignalsMatchJobs, TypeOK
  <2>3. PICK t \in Types : Ready[t] > 0
    BY SMTT(60), <2>2, FS_EmptySet, ReadyFacts DEF Tokens, FiniteInv
  <2>4. running[t] < Limit[t] /\ waiting[t] > 0
    BY SMTT(60), <2>3, ReadyFacts, LimitAssumption DEF LimitInv, TypeOK
  <2>5. JobsOf(t) # {}
    <3>1. Cardinality(JobsOf(t)) # 0
      BY <2>4 DEF SignalsMatchJobs
    <3>. QED BY <3>1, FS_EmptySet
  <2>. QED BY <2>4, <2>5 DEF JobsOf, Runnable
<1>2. WokenFindsJob
  BY <1>1 DEF WokenFindsJob
<1>3. LimitRespected /\ DeferredOnlyAtLimit
  BY SMTT(60), LimitAssumption DEF LimitRespected, DeferredOnlyAtLimit, LimitInv, ThreadInv, TypeOK
<1>4. \A w \in Threads : w \in Processing => processCount > 0
  BY SMTT(60), ThreadSetsFinite, FS_EmptySet, FS_CardinalityType DEF SignalsMatchJobs, TypeOK
<1>5. AddJobSafe
  <2> SUFFICES ASSUME NEW x \in Actors, MayAdd(x) \/ adding[x] # -1
               PROVE AddJobAssert
    BY DEF AddJobSafe
  <2>1. CASE x \in Threads /\ pc[x] = "run"
    <3>1. processCount > 0 /\ processCount # 0
      BY <1>4, <2>1 DEF Processing, TypeOK
    <3> QED BY <3>1 DEF AddJobAssert, StopInv
  <2>2. CASE x \in Children \ stoppedChildren
    <3>1. ~childrenStopped
      BY <2>2 DEF StopInv
    <3> QED BY <3>1 DEF AddJobAssert, StopInv
  <2> QED BY <2>1, <2>2 DEF MayAdd, Actors, StopInv, ThreadInv
<1>6. StoppedIsQuiet
  <2> SUFFICES ASSUME stoppedEvent
               PROVE  /\ jobSet = {} /\ tasks = 0
                      /\ \A w \in Threads : pc[w] = "wait"
                      /\ \A a \in Actors : adding[a] = -1
    BY DEF StoppedIsQuiet
  <2>1. jobSet = {} /\ processCount = 0 /\ stoppedChildren = Children
    BY DEF StopInv
  <2>2. \A w \in Threads : w \notin Processing
    BY <1>4, <2>1
  <2>3. \A w \in Threads : pc[w] # "woken"
    BY <1>2, <2>1 DEF WokenFindsJob, Runnable
  <2>4. \A t \in Types : Ready[t] = 0
    <3> TAKE t \in Types
    <3>1. JobsOf(t) = {}
      BY <2>1 DEF JobsOf
    <3>2. waiting[t] = 0
      BY <3>1, FS_EmptySet DEF SignalsMatchJobs
    <3>. QED BY SMTT(60), <3>2, ReadyFacts DEF LimitInv, TypeOK
  <2>5. Tokens(Ready) = {} /\ Woken = {}
    BY SMTT(60), <2>3, <2>4 DEF Tokens, Woken
  <2>6. tasks = 0
    BY SMTT(60), <2>5, FS_EmptySet
     DEF SignalsMatchJobs, TypeOK
  <2>. QED BY <2>1, <2>2, <2>3, <2>6 DEF Processing, TypeOK, ThreadInv, StopInv, Actors
<1>. QED BY <1>2, <1>3, <1>5, <1>6

\* A woken worker always finds a job it may run: the search loop of getNextJob
\* never reaches the end of m_jobSet.
THEOREM WokenWorkersFindJobs == Spec => []WokenFindsJob
BY Inductive, IInvImplies, PTL

\* The limit of every job type is respected, and jobs are deferred only while
\* their type fills its limit.
THEOREM LimitsHold == Spec => [](LimitRespected /\ DeferredOnlyAtLimit)
BY Inductive, IInvImplies, PTL

\* The assertion of addJob cannot fail for callers that follow the rules of
\* Stoppable.
THEOREM AddJobIsSafe == Spec => []AddJobSafe
BY Inductive, IInvImplies, PTL

\* A queue that reported it stopped stays empty and idle.
THEOREM StopIsQuiet == Spec => []StoppedIsQuiet
BY Inductive, IInvImplies, PTL
-----------------------------------------------------------------------------
(* What the liveness of the queue rests on: a quiet queue has nothing left.  *)

Asleep == tasks = 0 /\ \A w \in Threads : pc[w] = "wait"

\* No job is left behind: when all workers wait and the semaphore has no unit for
\* any of them, no job is queued, deferred ones included.
NoJobStranded == Asleep => jobSet = {}

\* Once onChildrenStopped has run, whoever leaves the queue empty and idle has
\* reported the stop.
StopNoticed ==
  /\ notified => childrenStopped
  /\ notified /\ processCount = 0 /\ jobSet = {} => stoppedEvent

\* A sleeping queue has no signalled job and no running one; a deferred job would
\* need its type at the limit, which is not zero.
LEMMA AsleepIsEmpty ==
  ASSUME IInv, Asleep
  PROVE  jobSet = {} /\ processCount = 0
<1> USE DEF IInv
<1>1. Woken = {} /\ Processing = {} /\ Cardinality({}) = 0
  BY FS_EmptySet DEF Asleep, Woken, Processing
<1>2. processCount = 0 /\ Cardinality(Tokens(Ready)) = 0
  BY <1>1 DEF SignalsMatchJobs, Asleep
<1>3. Tokens(Ready) = {}
  BY <1>2, FS_EmptySet DEF FiniteInv
<1>4. ASSUME NEW t \in Types PROVE JobsOf(t) = {}
  <2>1. Ready[t] = 0
    <3>1. Ready[t] \in Nat
      BY ReadyFacts
    <3>2. ASSUME Ready[t] > 0 PROVE <<t, 1>> \in Tokens(Ready)
      BY <3>1, <3>2 DEF Tokens
    <3> QED BY <1>3, <3>1, <3>2
  <2>2. Holding(t) = {}
    <3>1. \A w \in Threads : job[w] = NoJob
      BY <1>1 DEF ThreadInv, TypeOK
    <3> QED BY <3>1, NoJobFacts DEF Holding
  <2>3. running[t] = 0
    BY <1>1, <2>2 DEF ThreadInv
  <2>4. waiting[t] = 0
    <3>1. /\ waiting[t] \in Nat /\ deferred[t] \in Nat /\ Limit[t] \in Nat /\ Limit[t] > 0
          /\ waiting[t] - deferred[t] = 0
      BY <2>1, ReadyFacts, LimitAssumption DEF TypeOK
    <3>2. deferred[t] > 0 => running[t] + waiting[t] - deferred[t] = Limit[t]
      BY DEF LimitInv
    <3> QED BY <2>3, <3>1, <3>2
  <2>5. IsFiniteSet(JobsOf(t)) /\ Cardinality(JobsOf(t)) = 0
    BY <2>4 DEF FiniteInv, SignalsMatchJobs
  <2> QED BY <2>5, FS_EmptySet
<1>5. jobSet = {}
  BY <1>4 DEF JobsOf, TypeOK, Jobs
<1> QED BY <1>2, <1>5

\* Only the end of a job and the notice of the children make the queue idle, and
\* both call checkStopped.
LEMMA NoticeNext == IInv /\ StopNoticed /\ [Next]_vars => StopNoticed'
<1> SUFFICES ASSUME IInv, StopNoticed, [Next]_vars PROVE StopNoticed'
  OBVIOUS
<1> USE DEF StopNoticed
<1>1. ASSUME NEW a \in Actors, NEW t \in Types, AddJobCheck(a, t) PROVE StopNoticed'
  BY <1>1 DEF AddJobCheck, stopVars
<1>2. ASSUME NEW a \in Actors, AddJobInsert(a) PROVE StopNoticed'
  BY <1>2 DEF AddJobInsert, stopVars
<1>3. ASSUME NEW w \in Threads, SemaphoreWait(w) \/ DoJob(w) \/ JobReturns(w) PROVE StopNoticed'
  BY <1>3 DEF SemaphoreWait, DoJob, JobReturns, stopVars
<1>4. ASSUME NEW w \in Threads, GetNextJob(w) PROVE StopNoticed'
  <2>1. processCount \in Nat /\ processCount' = processCount + 1
    BY <1>4 DEF GetNextJob, IInv, TypeOK
  <2>2. processCount' # 0 /\ UNCHANGED stopVars
    BY <1>4, <2>1 DEF GetNextJob
  <2> QED BY <2>2 DEF stopVars
<1>5. CASE OnChildrenStopped \/ \E w \in Threads : FinishJob(w)
  <2>1. childrenStopped => stopping
    BY DEF IInv, StopInv
  <2>2. /\ UNCHANGED <<stopping, childrenStopped, jobSet>> /\ CheckStopped
        /\ notified' => childrenStopped
    BY <1>5 DEF OnChildrenStopped, FinishJob
  <2> QED BY Zenon, <2>1, <2>2 DEF CheckStopped, StopCondition
<1>6. CASE StopAsync \/ SetChildrenStopped \/ \E c \in Children : ChildStops(c)
  BY <1>6 DEF StopAsync, SetChildrenStopped, ChildStops
<1>7. CASE UNCHANGED vars
  BY <1>7 DEF vars, stopVars
<1> QED BY <1>1, <1>2, <1>3, <1>4, <1>5, <1>6, <1>7 DEF Next

\* No wake-up is lost between queueJob, the limits and finishJob: workers that all
\* sleep leave no job in the queue.
THEOREM NoJobIsStranded == Spec => []NoJobStranded
<1>1. IInv => NoJobStranded
  BY AsleepIsEmpty DEF NoJobStranded
<1> QED BY <1>1, Inductive, PTL

\* A stop is never overlooked: after the children have stopped and the queue was
\* told, a queue whose workers all sleep has reported that it stopped.
THEOREM SleepingQueueHasStopped == Spec => [](notified /\ Asleep => stoppedEvent)
<1>1. Init => StopNoticed
  BY DEF Init, StopNoticed
<1>2. IInv /\ StopNoticed => (notified /\ Asleep => stoppedEvent)
  BY AsleepIsEmpty DEF StopNoticed
<1> QED BY <1>1, <1>2, Inductive, NoticeNext, PTL DEF Spec
=============================================================================
