--------------------------- MODULE CalculationJobs ---------------------------
(***************************************************************************)
(* The bounded in-process calculation queue of the web server              *)
(* (src/src/autonavlog/web/calculation_jobs.py).  A request thread admits  *)
(* a job under the queue's lock, leaves the lock, and hands the job to a   *)
(* thread pool; a worker reports progress, ends the job under the lock and *)
(* gives its permit back only afterwards.  The interleavings of those      *)
(* steps are the subject.  Job ids are numbered in order of creation, so   *)
(* their order is that of created_at_utc; finished keeps the order of the  *)
(* updated_at_utc of the jobs that ended.                                  *)
(***************************************************************************)
EXTENDS Naturals, FiniteSets, Sequences

CONSTANTS JobSessions,    \* session tokens (each belongs to one owner)
          JobLimit,       \* bound: submissions in a behaviour
          Workers,        \* threads of the executor
          MaximumQueued,  \* admitted jobs beyond the workers
          Reports         \* the percentages a task may report

ASSUME JobsAssumption == /\ JobLimit \in Nat
                         /\ Workers \in Nat \ {0}
                         /\ MaximumQueued \in Nat \ {0}
                         /\ Reports \subseteq Nat

VARIABLES jobs,          \* _jobs: id -> job
          permits,       \* the value of _capacity
          entering,      \* ids admitted, not yet handed to the executor
          executorQueue, \* ids the executor holds, first come first served
          working,       \* ids a worker executes
          leaving,       \* ids that ended, whose permit is not yet released
          finished,      \* ids of ended jobs, in the order they ended
          accepting,     \* FALSE once the executor is shut down
          created        \* number of jobs ever created

jobVars == <<jobs, permits, entering, executorQueue, working, leaving,
             finished, accepting, created>>

JobIds == 1 .. JobLimit
Ended == {"succeeded", "failed"}
Unfinished == {"queued", "preparing_weather", "calculating"}
Job == [session : JobSessions, status : Ended \cup Unfinished, percent : 0 .. 100]

Capacity == Workers + MaximumQueued
History == 2 * MaximumQueued

JobTypeOK ==
  /\ DOMAIN jobs \subseteq JobIds
  /\ \A id \in DOMAIN jobs : jobs[id] \in Job
  /\ permits \in 0 .. Capacity
  /\ entering \subseteq JobIds /\ working \subseteq JobIds /\ leaving \subseteq JobIds
  /\ executorQueue \in Seq(JobIds) /\ finished \in Seq(JobIds)
  /\ accepting \in BOOLEAN
  /\ created \in 0 .. JobLimit

JobsInit ==
  /\ jobs = <<>>
  /\ permits = Capacity
  /\ entering = {} /\ executorQueue = <<>> /\ working = {} /\ leaving = {}
  /\ finished = <<>>
  /\ accepting = TRUE
  /\ created = 0

Without(f, ids) == [id \in DOMAIN f \ ids |-> f[id]]

Active(session) == \E id \in DOMAIN jobs : /\ jobs[id].session = session
                                           /\ jobs[id].status \in Unfinished

\* (broken) the oldest jobs are dropped whether they ended or not
PrunedByAge(all) ==
  LET excess == Cardinality(DOMAIN all) - History
  IN Without(all, {id \in DOMAIN all : Cardinality({a \in DOMAIN all : a < id}) < excess})

(* _prune: the oldest ended jobs beyond the history are dropped.  Only     *)
(* ended jobs are, however many unfinished ones there are.                 *)
Pruned(all) ==
  LET EndedUpTo(i) == {j \in 1 .. i : finished[j] \in DOMAIN all}
      oldest == {i \in EndedUpTo(Len(finished)) :
                   Cardinality(EndedUpTo(i)) + History <= Cardinality(DOMAIN all)}
  IN Without(all, {finished[i] : i \in oldest})

(* submit, under the lock: one unfinished job per session, then a permit.  *)
(* The two refusals change nothing.                                        *)
Admit(session) ==
  /\ created < JobLimit
  /\ ~Active(session)
  /\ permits > 0
  /\ permits' = permits - 1
  /\ created' = created + 1
  /\ LET job == [session |-> session, status |-> "queued", percent |-> 0]
     IN jobs' = Pruned([id \in DOMAIN jobs \cup {created + 1} |->
                          IF id = created + 1 THEN job ELSE jobs[id]])
  /\ entering' = entering \cup {created + 1}
  /\ UNCHANGED <<executorQueue, working, leaving, finished, accepting>>

\* (broken) a refused job gives its permit back and stays queued
HandOverForgetting(id) ==
  /\ id \in entering
  /\ entering' = entering \ {id}
  /\ executorQueue' = IF accepting THEN Append(executorQueue, id) ELSE executorQueue
  /\ permits' = IF accepting THEN permits ELSE permits + 1
  /\ UNCHANGED <<jobs, working, leaving, finished, accepting, created>>

(* submit, after the lock: the executor takes the job or, shut down,       *)
(* refuses it, and the admission is undone.                                *)
HandOver(id) ==
  /\ id \in entering
  /\ entering' = entering \ {id}
  /\ \/ /\ accepting
        /\ executorQueue' = Append(executorQueue, id)
        /\ UNCHANGED <<jobs, permits>>
     \/ /\ ~accepting
        /\ permits' = permits + 1
        /\ jobs' = Without(jobs, {id})
        /\ UNCHANGED executorQueue
  /\ UNCHANGED <<working, leaving, finished, accepting, created>>

Progress(job, status, percent) ==
  LET normalized == IF percent > 100 THEN 100 ELSE percent
  IN IF normalized < job.percent THEN job
     ELSE [job EXCEPT !.status = status, !.percent = normalized]

Phase(percent) == IF percent < 30 THEN "preparing_weather" ELSE "calculating"

(* _run starts on a free worker. *)
StartJob ==
  /\ executorQueue # <<>>
  /\ Cardinality(working \cup leaving) < Workers
  /\ executorQueue' = Tail(executorQueue)
  /\ working' = working \cup {Head(executorQueue)}
  /\ jobs' = [jobs EXCEPT ![Head(executorQueue)] = Progress(@, "preparing_weather", 5)]
  /\ UNCHANGED <<permits, entering, leaving, finished, accepting, created>>

(* The task calls report_progress with whatever percentage it has reached. *)
ReportProgress(id, percent) ==
  /\ id \in working
  /\ jobs' = [jobs EXCEPT ![id] = Progress(@, Phase(percent), percent)]
  /\ UNCHANGED <<permits, entering, executorQueue, working, leaving, finished,
                 accepting, created>>

(* The task returned or raised: the job ends under the lock. *)
EndJob(id) ==
  /\ id \in working
  /\ \/ jobs' = [jobs EXCEPT ![id] = [@ EXCEPT !.status = "succeeded", !.percent = 100]]
     \/ jobs' = [jobs EXCEPT ![id] = [@ EXCEPT !.status = "failed"]]
  /\ finished' = Append(finished, id)
  /\ working' = working \ {id}
  /\ leaving' = leaving \cup {id}
  /\ UNCHANGED <<permits, entering, executorQueue, accepting, created>>

(* The finally of _run: the permit returns after the lock was left. *)
ReleasePermit(id) ==
  /\ id \in leaving
  /\ leaving' = leaving \ {id}
  /\ permits' = permits + 1
  /\ UNCHANGED <<jobs, entering, executorQueue, working, finished, accepting, created>>

(* shutdown: jobs the executor already holds are still executed. *)
ShutdownJobs ==
  /\ accepting
  /\ accepting' = FALSE
  /\ UNCHANGED <<jobs, permits, entering, executorQueue, working, leaving,
                 finished, created>>

ThreadStep == \/ StartJob
              \/ \E id \in JobIds : HandOver(id) \/ EndJob(id) \/ ReleasePermit(id)

JobsNext ==
  \/ \E session \in JobSessions : Admit(session)
  \/ ThreadStep
  \/ \E id \in JobIds, percent \in Reports : ReportProgress(id, percent)
  \/ ShutdownJobs

(* Threads that can run do run, and a calculation ends: its loops are      *)
(* bounded and its requests have timeouts.                                 *)
JobsFairness ==
  /\ WF_jobVars(StartJob)
  /\ \A id \in JobIds : /\ WF_jobVars(HandOver(id))
                        /\ WF_jobVars(EndJob(id))
                        /\ WF_jobVars(ReleasePermit(id))

JobsSpec == JobsInit /\ [][JobsNext]_jobVars /\ JobsFairness
-----------------------------------------------------------------------------
Queued == {executorQueue[i] : i \in 1 .. Len(executorQueue)}
Held == entering \cup Queued \cup working \cup leaving

(* Every permit taken is held by exactly one job on its way through submit *)
(* and _run: none leaks when the executor refuses a job, and none is       *)
(* returned twice, which would make BoundedSemaphore raise.                *)
PermitsBalanced == permits + Cardinality(Held) = Capacity

(* A worker finds the job it executes in _jobs, whatever submissions and   *)
(* prunings came between its admission and its end: _run and the progress  *)
(* callback index _jobs without a default.                                 *)
WorkerFindsJob == entering \cup Queued \cup working \subseteq DOMAIN jobs

(* A session never has two calculations under way, although the check and  *)
(* the hand-over to the executor are not one step.                         *)
OneJobPerSession ==
  \A a, b \in DOMAIN jobs :
    /\ jobs[a].status \in Unfinished /\ jobs[b].status \in Unfinished
    /\ jobs[a].session = jobs[b].session
    => a = b

(* The queue's books agree at every moment, in no order of the threads that
   anybody has tried: permits, jobs under way and sessions. *)
QueueConsistent == JobTypeOK /\ PermitsBalanced /\ WorkerFindsJob /\ OneJobPerSession

(* Every job the server admitted leaves the unfinished states: it ends,    *)
(* also when the server shuts down meanwhile, or its admission is undone.  *)
JobsEnd ==
  \A id \in JobIds :
    (id \in DOMAIN jobs /\ jobs[id].status \in Unfinished)
      ~> (id \notin DOMAIN jobs \/ jobs[id].status \in Ended)
=============================================================================
