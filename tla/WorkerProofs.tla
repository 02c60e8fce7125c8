------------------------------ MODULE WorkerProofs ------------------------------
(***************************************************************************)
(* Proofs about the two pools of threads behind the web server: the queue  *)
(* of calculations (CalculationJobs) and the downloads of destination TAFs *)
(* (DestinationTaf), for any numbers of workers, sessions and submissions, *)
(* and of calculations, airports and slots.                                *)
(*                                                                         *)
(* CalculationJobs: that the queue's books agree needs to be known job by  *)
(* job.  A job on its way is in one place only, the executor holds it      *)
(* once, and until a worker ends it the job is listed, unfinished and not  *)
(* among the ended ones that _prune may drop.                              *)
(*                                                                         *)
(* DestinationTaf: what is shared and what is shown are proved together.   *)
(* A download is in _inflight exactly while it works, what it keeps is an  *)
(* answer the service gave for its airport, a calculation waits for a      *)
(* download of its own airport, and the wind it was made with is always    *)
(* the one it shows.                                                       *)
(***************************************************************************)
EXTENDS CalculationJobs, DestinationTaf, FiniteSetTheorems, SequenceTheorems, TLAPS

(* --- the queue of calculations ---------------------------------------------- *)

Elements(s) == {s[i] : i \in 1 .. Len(s)}
NoRepeat(s) == \A i, j \in 1 .. Len(s) : s[i] = s[j] => i = j
OnItsWay == entering \cup Queued \cup working

\* A job on its way is in one place, and leaves it when it has ended.
OnePlace ==
  /\ NoRepeat(executorQueue)
  /\ entering \cap Queued = {} /\ entering \cap working = {} /\ Queued \cap working = {}
  /\ OnItsWay \cap leaving = {}

\* Until it has ended a job is listed, and _prune cannot choose it.
Listed ==
  /\ OnItsWay \subseteq DOMAIN jobs
  /\ \A id \in OnItsWay : jobs[id].status \in Unfinished
  /\ OnItsWay \cap Elements(finished) = {}

\* No id is used before it is created.
Created ==
  /\ DOMAIN jobs \subseteq 1 .. created /\ Held \subseteq 1 .. created
  /\ Elements(finished) \subseteq 1 .. created

JobsInv ==
  /\ JobTypeOK
  /\ OnePlace
  /\ Listed
  /\ Created
  /\ OneJobPerSession
  /\ PermitsBalanced

-----------------------------------------------------------------------------
(* Sequences, sets and prunings.                                           *)

\* What the assumption says, as arithmetic.
LEMMA JobsBounds == JobLimit \in Nat /\ Capacity \in Nat /\ Reports \subseteq Nat
BY JobsAssumption DEF JobsAssumption, Capacity

\* One more element at the end of a sequence.
LEMMA OneMore ==
  ASSUME NEW S, NEW s \in Seq(S), NEW e \in S
  PROVE  /\ Append(s, e) \in Seq(S) /\ Elements(Append(s, e)) = Elements(s) \cup {e}
         /\ NoRepeat(s) /\ e \notin Elements(s) => NoRepeat(Append(s, e))
<1> DEFINE t == Append(s, e)
<1>1. /\ t \in Seq(S) /\ Len(t) = Len(s) + 1 /\ t[Len(s) + 1] = e /\ Len(s) \in Nat
      /\ \A i \in 1 .. Len(s) : t[i] = s[i]
    BY AppendProperties, LenProperties
<1> HIDE DEF t
<1>2. Elements(t) = Elements(s) \cup {e}
    <2>1. 1 .. Len(t) = (1 .. Len(s)) \cup {Len(s) + 1}
        BY <1>1
    <2> QED BY <1>1, <2>1 DEF Elements
<1>3. ASSUME NoRepeat(s), e \notin Elements(s) PROVE NoRepeat(t)
    BY <1>1, <1>3 DEF NoRepeat, Elements
<1> QED BY <1>1, <1>2, <1>3 DEF t

\* One element less at its beginning.
LEMMA OneLess ==
  ASSUME NEW S, NEW s \in Seq(S), s # <<>>, NoRepeat(s)
  PROVE  /\ Head(s) \in Elements(s) /\ Tail(s) \in Seq(S)
         /\ Elements(Tail(s)) = Elements(s) \ {Head(s)} /\ NoRepeat(Tail(s))
<1> DEFINE t == Tail(s)
<1>1. /\ t \in Seq(S) /\ Len(t) = Len(s) - 1 /\ Len(s) \in Nat \ {0} /\ Head(s) = s[1]
      /\ \A i \in 1 .. Len(t) : t[i] = s[i + 1]
    BY HeadTailProperties, EmptySeq, LenProperties
<1> HIDE DEF t
<1>2. Head(s) \in Elements(s)
    BY <1>1 DEF Elements
<1>3. Elements(t) \subseteq Elements(s) \ {Head(s)}
    BY <1>1 DEF Elements, NoRepeat
<1>4. ASSUME NEW e \in Elements(s), e # Head(s) PROVE e \in Elements(t)
    <2>1. PICK i \in 1 .. Len(s) : e = s[i]
        BY <1>4 DEF Elements
    <2>2. i # 1 /\ i - 1 \in 1 .. Len(t) /\ t[i - 1] = s[(i - 1) + 1] /\ (i - 1) + 1 = i
        BY <1>1, <1>4, <2>1
    <2> QED BY <2>1, <2>2 DEF Elements
<1>5. NoRepeat(t)
    BY <1>1 DEF NoRepeat
<1> QED BY <1>1, <1>2, <1>3, <1>4, <1>5 DEF t

\* A pruning drops ended jobs only, and changes none that it keeps.
LEMMA PruningDropsEnded ==
  ASSUME NEW all
  PROVE  /\ DOMAIN Pruned(all) \subseteq DOMAIN all
         /\ \A id \in DOMAIN Pruned(all) : Pruned(all)[id] = all[id]
         /\ \A id \in DOMAIN all : id \notin Elements(finished) => id \in DOMAIN Pruned(all)
<1> DEFINE EndedUpTo(i) == {j \in 1 .. i : finished[j] \in DOMAIN all}
           oldest == {i \in EndedUpTo(Len(finished)) :
                        Cardinality(EndedUpTo(i)) + History <= Cardinality(DOMAIN all)}
           dropped == {finished[i] : i \in oldest}
<1>1. dropped \subseteq Elements(finished)
    BY DEF Elements
<1>2. Pruned(all) = Without(all, dropped)
    BY DEF Pruned
<1> HIDE DEF dropped
<1> QED BY <1>1, <1>2 DEF Without

\* The jobs on their way are finitely many.
LEMMA HeldIsFinite == JobsInv => IsFiniteSet(Held) /\ Cardinality(Held) \in Nat
<1> SUFFICES ASSUME JobsInv PROVE IsFiniteSet(Held) /\ Cardinality(Held) \in Nat
    OBVIOUS
<1>1. created \in Int /\ Held \in SUBSET (1 .. created)
    BY JobsBounds DEF JobsInv, JobTypeOK, Created
<1>2. IsFiniteSet(1 .. created)
    BY <1>1, FS_Interval
<1> QED BY <1>1, <1>2, FS_Subset, FS_CardinalityType

\* One more job takes one permit more.
LEMMA OneHeldMore ==
  ASSUME JobsInv, NEW id, id \notin Held, Held' = Held \cup {id}, permits > 0, permits' = permits - 1
  PROVE  PermitsBalanced' /\ permits' \in 0 .. Capacity
<1>1. Cardinality(Held') = Cardinality(Held) + 1 /\ Cardinality(Held) \in Nat
    BY HeldIsFinite, FS_AddElement
<1>2. permits \in Nat /\ permits + Cardinality(Held) = Capacity /\ Capacity \in Nat
    BY JobsBounds DEF JobsInv, JobTypeOK, PermitsBalanced
<1>3. permits' + Cardinality(Held') = Capacity /\ permits' \in 0 .. Capacity
    BY <1>1, <1>2
<1> QED BY <1>3 DEF PermitsBalanced, Capacity

\* One job less gives one permit back.
LEMMA OneHeldLess ==
  ASSUME JobsInv, NEW id \in Held, Held' = Held \ {id}, permits' = permits + 1
  PROVE  PermitsBalanced' /\ permits' \in 0 .. Capacity
<1>1. IsFiniteSet(Held') /\ Cardinality(Held') = Cardinality(Held) - 1 /\ Cardinality(Held) \in Nat
    BY HeldIsFinite, FS_RemoveElement
<1>2. Cardinality(Held') \in Nat
    BY <1>1, FS_CardinalityType
<1>3. permits \in Nat /\ permits + Cardinality(Held) = Capacity /\ Capacity \in Nat
    BY JobsBounds DEF JobsInv, JobTypeOK, PermitsBalanced
<1>4. permits' + Cardinality(Held') = Capacity /\ permits' \in 0 .. Capacity
    BY <1>1, <1>2, <1>3
<1> QED BY <1>4 DEF PermitsBalanced, Capacity

\* The same jobs keep the same permits.
LEMMA SameHeld ==
  ASSUME JobsInv, Held' = Held, permits' = permits
  PROVE  PermitsBalanced' /\ permits' \in 0 .. Capacity
BY DEF JobsInv, JobTypeOK, PermitsBalanced, Capacity

\* The queue and the ended jobs, when their sequences are what they were.
LEMMA SameSequences ==
  /\ executorQueue' = executorQueue => Queued' = Queued /\ NoRepeat(executorQueue)' = NoRepeat(executorQueue)
  /\ finished' = finished => Elements(finished)' = Elements(finished)
BY DEF Queued, NoRepeat, Elements

\* Jobs of sessions of their own stay so if none is added and none comes back.
LEMMA SessionsStayApart ==
  ASSUME JobsInv, DOMAIN jobs' \subseteq DOMAIN jobs,
         \A id \in DOMAIN jobs' : /\ jobs'[id].session = jobs[id].session
                                  /\ jobs'[id].status \in Unfinished => jobs[id].status \in Unfinished
  PROVE  OneJobPerSession'
BY DEF JobsInv, OneJobPerSession

\* The first state.
LEMMA JobsInitInv == JobsInit => JobsInv
<1> SUFFICES ASSUME JobsInit PROVE JobsInv
    OBVIOUS
<1> USE DEF JobsInit
<1>1. DOMAIN jobs = {} /\ Len(finished) = 0 /\ Len(executorQueue) = 0
      /\ executorQueue \in Seq(JobIds) /\ finished \in Seq(JobIds)
    BY EmptySeq
<1>2. Queued = {} /\ Elements(finished) = {} /\ NoRepeat(executorQueue)
    BY <1>1 DEF Queued, Elements, NoRepeat
<1>3. Held = {} /\ OnItsWay = {}
    BY <1>2 DEF Held, OnItsWay
<1>4. permits \in 0 .. Capacity /\ created \in 0 .. JobLimit
    BY JobsBounds
<1>5. JobTypeOK
    BY <1>1, <1>4 DEF JobTypeOK
<1>6. PermitsBalanced
    BY <1>3, JobsBounds, FS_EmptySet DEF PermitsBalanced
<1> QED BY <1>1, <1>2, <1>3, <1>5, <1>6 DEF JobsInv, OnePlace, Listed, Created, OneJobPerSession

-----------------------------------------------------------------------------
(* The steps.                                                              *)

\* A session that has nothing under way gets a job of its own; no job on its way is pruned.
LEMMA AdmitKeeps == ASSUME JobsInv, NEW session \in JobSessions, Admit(session) PROVE JobsInv'
<1> DEFINE new == created + 1
           job == [session |-> session, status |-> "queued", percent |-> 0]
           all == [id \in DOMAIN jobs \cup {new} |-> IF id = new THEN job ELSE jobs[id]]
<1>1. /\ new \in JobIds /\ created' = new /\ created \in Nat /\ 1 .. new = (1 .. created) \cup {new}
      /\ new \notin 1 .. created /\ new \in 0 .. JobLimit
    BY JobsBounds DEF Admit, JobsInv, JobTypeOK, JobIds
<1>2. jobs' = Pruned(all) /\ entering' = entering \cup {new}
      /\ UNCHANGED <<executorQueue, working, leaving, finished, accepting>>
    BY DEF Admit
<1>3. job \in Job /\ job.session = session /\ job.status = "queued"
    BY DEF Job, Unfinished
<1>4. new \notin DOMAIN jobs /\ new \notin Held /\ new \notin Elements(finished)
    BY <1>1 DEF JobsInv, Created
<1> HIDE DEF new, job
<1>5. DOMAIN all = DOMAIN jobs \cup {new} /\ all[new] = job /\ \A id \in DOMAIN jobs : all[id] = jobs[id]
    BY <1>4
<1> HIDE DEF all
<1>6. /\ DOMAIN jobs' \subseteq DOMAIN jobs \cup {new}
      /\ \A id \in DOMAIN jobs' : jobs'[id] = IF id = new THEN job ELSE jobs[id]
      /\ \A id \in DOMAIN jobs \cup {new} : id \notin Elements(finished) => id \in DOMAIN jobs'
    BY <1>2, <1>4, <1>5, PruningDropsEnded
<1>7. Queued' = Queued /\ NoRepeat(executorQueue)' /\ Elements(finished)' = Elements(finished)
    BY <1>2, SameSequences DEF JobsInv, OnePlace
<1>8. OnItsWay' = OnItsWay \cup {new} /\ Held' = Held \cup {new} /\ new \notin OnItsWay
    BY <1>2, <1>4, <1>7 DEF OnItsWay, Held
<1>9. PermitsBalanced' /\ permits' \in 0 .. Capacity
    BY <1>4, <1>8, OneHeldMore DEF Admit
<1>10. JobTypeOK'
    BY <1>1, <1>2, <1>3, <1>6, <1>9 DEF JobsInv, JobTypeOK
<1>11. OnePlace'
    BY <1>2, <1>4, <1>7, <1>8 DEF JobsInv, OnePlace, OnItsWay, Held
<1>12. Listed'
    <2>1. \A id \in OnItsWay' : id \in DOMAIN jobs \cup {new} /\ id \notin Elements(finished)
        BY <1>4, <1>8 DEF JobsInv, Listed
    <2>2. \A id \in OnItsWay' : id \in DOMAIN jobs' /\ jobs'[id].status \in Unfinished
        BY <1>3, <1>6, <1>8, <2>1 DEF JobsInv, Listed, Unfinished
    <2> QED BY <1>7, <2>1, <2>2 DEF Listed
<1>13. Created'
    BY <1>1, <1>6, <1>7, <1>8 DEF JobsInv, Created
<1>14. OneJobPerSession'
    <2>1. \A id \in DOMAIN jobs : jobs[id].session = session => jobs[id].status \notin Unfinished
        BY DEF Admit, Active
    <2> QED BY <1>3, <1>6, <2>1 DEF JobsInv, OneJobPerSession
<1> QED BY <1>9, <1>10, <1>11, <1>12, <1>13, <1>14 DEF JobsInv

\* The executor takes a job it does not hold yet, or its admission is undone.
LEMMA HandOverKeeps == ASSUME JobsInv, NEW id \in JobIds, HandOver(id) PROVE JobsInv'
<1>1. id \in entering /\ entering' = entering \ {id} /\ executorQueue \in Seq(JobIds)
      /\ UNCHANGED <<working, leaving, finished, accepting, created>>
    BY DEF HandOver, JobsInv, JobTypeOK
<1>2. Elements(finished)' = Elements(finished)
    BY <1>1, SameSequences
<1>3. CASE executorQueue' = Append(executorQueue, id) /\ UNCHANGED <<jobs, permits>>
    <2>1. executorQueue' \in Seq(JobIds) /\ Queued' = Queued \cup {id} /\ NoRepeat(executorQueue)'
        <3>1. id \notin Elements(executorQueue) /\ NoRepeat(executorQueue)
            BY <1>1 DEF JobsInv, OnePlace, Queued, Elements
        <3>2. /\ Append(executorQueue, id) \in Seq(JobIds) /\ NoRepeat(Append(executorQueue, id))
              /\ Elements(Append(executorQueue, id)) = Elements(executorQueue) \cup {id}
            BY <1>1, <3>1, OneMore
        <3> QED BY <1>3, <3>2 DEF Queued, Elements
    <2>2. OnItsWay' = OnItsWay /\ Held' = Held
        BY <1>1, <2>1 DEF OnItsWay, Held
    <2>3. JobTypeOK'
        BY <1>1, <1>3, <2>1 DEF JobsInv, JobTypeOK
    <2>4. OnePlace'
        BY <1>1, <2>1, <2>2 DEF JobsInv, OnePlace, OnItsWay
    <2>5. Listed' /\ Created' /\ OneJobPerSession'
        BY <1>1, <1>2, <1>3, <2>2 DEF JobsInv, Listed, Created, OneJobPerSession
    <2> QED BY <1>3, <2>2, <2>3, <2>4, <2>5, SameHeld DEF JobsInv
<1>4. CASE permits' = permits + 1 /\ jobs' = Without(jobs, {id}) /\ UNCHANGED executorQueue
    <2>1. Queued' = Queued /\ NoRepeat(executorQueue)'
        BY <1>4, SameSequences DEF JobsInv, OnePlace
    <2>2. OnItsWay' = OnItsWay \ {id} /\ Held' = Held \ {id} /\ id \in Held
        BY <1>1, <2>1 DEF JobsInv, OnePlace, OnItsWay, Held
    <2>3. DOMAIN jobs' = DOMAIN jobs \ {id} /\ \A other \in DOMAIN jobs' : jobs'[other] = jobs[other]
        BY <1>4 DEF Without
    <2>4. PermitsBalanced' /\ permits' \in 0 .. Capacity
        BY <1>4, <2>2, OneHeldLess
    <2>5. JobTypeOK'
        BY <1>1, <1>4, <2>3, <2>4 DEF JobsInv, JobTypeOK
    <2>6. OnePlace'
        BY <1>1, <2>1, <2>2 DEF JobsInv, OnePlace, OnItsWay
    <2>7. Listed' /\ Created'
        BY <1>1, <1>2, <2>2, <2>3 DEF JobsInv, Listed, Created
    <2>8. OneJobPerSession'
        BY <2>3, SessionsStayApart
    <2> QED BY <2>4, <2>5, <2>6, <2>7, <2>8 DEF JobsInv
<1> QED BY <1>3, <1>4 DEF HandOver

\* Progress of a job under way: still a job, of the same session, under way.
LEMMA ProgressOfJob ==
  ASSUME NEW job \in Job, NEW status \in Unfinished, NEW percent \in Nat
  PROVE  LET next == Progress(job, status, percent)
         IN  next \in Job /\ next.session = job.session /\ next.status \in {job.status, status}
<1> DEFINE normalized == IF percent > 100 THEN 100 ELSE percent
<1>1. normalized \in 0 .. 100
    OBVIOUS
<1> HIDE DEF normalized
<1>2. Progress(job, status, percent)
        = IF normalized < job.percent THEN job ELSE [job EXCEPT !.status = status, !.percent = normalized]
    BY DEF Progress, normalized
<1>3. [job EXCEPT !.status = status, !.percent = normalized] \in Job
    BY <1>1 DEF Job
<1>4. /\ [job EXCEPT !.status = status, !.percent = normalized].session = job.session
      /\ [job EXCEPT !.status = status, !.percent = normalized].status = status
    BY DEF Job
<1> QED BY <1>2, <1>3, <1>4

\* One job under way changes, the others do not.
LEMMA OneJobChanges ==
  ASSUME JobsInv, NEW id \in DOMAIN jobs, jobs[id].status \in Unfinished, NEW next \in Job,
         next.session = jobs[id].session, jobs' = [jobs EXCEPT ![id] = next]
  PROVE  /\ DOMAIN jobs' = DOMAIN jobs /\ jobs'[id] = next
         /\ \A other \in DOMAIN jobs : jobs'[other] \in Job /\ (other # id => jobs'[other] = jobs[other])
         /\ OneJobPerSession'
<1>1. /\ DOMAIN jobs' = DOMAIN jobs /\ jobs'[id] = next
      /\ \A other \in DOMAIN jobs : other # id => jobs'[other] = jobs[other]
    OBVIOUS
<1>2. OneJobPerSession'
    <2>1. \A other \in DOMAIN jobs' : /\ jobs'[other].session = jobs[other].session
                                      /\ jobs'[other].status \in Unfinished => jobs[other].status \in Unfinished
        BY <1>1
    <2> QED BY <1>1, <2>1, SessionsStayApart
<1> QED BY <1>1, <1>2 DEF JobsInv, JobTypeOK

\* A worker takes the oldest job of the executor.
LEMMA StartJobKeeps == ASSUME JobsInv, StartJob PROVE JobsInv'
<1> DEFINE id == Head(executorQueue)
           next == Progress(jobs[id], "preparing_weather", 5)
<1>1. /\ executorQueue \in Seq(JobIds) /\ executorQueue # <<>> /\ NoRepeat(executorQueue)
      /\ executorQueue' = Tail(executorQueue) /\ working' = working \cup {id}
      /\ jobs' = [jobs EXCEPT ![id] = next]
      /\ UNCHANGED <<permits, entering, leaving, finished, accepting, created>>
    BY DEF StartJob, JobsInv, JobTypeOK, OnePlace
<1>2. /\ id \in Queued /\ executorQueue' \in Seq(JobIds) /\ Queued' = Queued \ {id}
      /\ NoRepeat(executorQueue)'
    <2>1. /\ id \in Elements(executorQueue) /\ Tail(executorQueue) \in Seq(JobIds)
          /\ Elements(Tail(executorQueue)) = Elements(executorQueue) \ {id} /\ NoRepeat(Tail(executorQueue))
        BY <1>1, OneLess
    <2> QED BY <1>1, <2>1 DEF Queued, Elements
<1>3. id \in DOMAIN jobs /\ jobs[id].status \in Unfinished /\ jobs[id] \in Job /\ id \in JobIds
    BY <1>2 DEF JobsInv, Listed, OnItsWay, JobTypeOK
<1>4. next \in Job /\ next.session = jobs[id].session /\ next.status \in Unfinished
    BY <1>3, ProgressOfJob, ZenonT(60) DEF Unfinished
<1> HIDE DEF next, id
<1>5. /\ DOMAIN jobs' = DOMAIN jobs /\ jobs'[id] = next
      /\ \A other \in DOMAIN jobs : jobs'[other] \in Job /\ (other # id => jobs'[other] = jobs[other])
      /\ OneJobPerSession'
    BY <1>1, <1>3, <1>4, OneJobChanges
<1>6. OnItsWay' = OnItsWay /\ Held' = Held /\ Elements(finished)' = Elements(finished)
    BY <1>1, <1>2, SameSequences DEF OnItsWay, Held
<1>7. JobTypeOK'
    BY <1>1, <1>2, <1>3, <1>5 DEF JobsInv, JobTypeOK
<1>8. OnePlace'
    BY <1>1, <1>2, <1>6 DEF JobsInv, OnePlace, OnItsWay
<1>9. Listed' /\ Created'
    BY <1>1, <1>4, <1>5, <1>6 DEF JobsInv, Listed, Created
<1> QED BY <1>1, <1>5, <1>6, <1>7, <1>8, <1>9, SameHeld DEF JobsInv

\* A task reports its progress.
LEMMA ReportKeeps ==
  ASSUME JobsInv, NEW id \in JobIds, NEW percent \in Reports, ReportProgress(id, percent)
  PROVE  JobsInv'
<1> DEFINE next == Progress(jobs[id], Phase(percent), percent)
<1>1. /\ id \in working /\ jobs' = [jobs EXCEPT ![id] = next]
      /\ UNCHANGED <<permits, entering, executorQueue, working, leaving, finished, accepting, created>>
    BY DEF ReportProgress
<1>2. id \in DOMAIN jobs /\ jobs[id].status \in Unfinished /\ jobs[id] \in Job
    BY <1>1 DEF JobsInv, Listed, OnItsWay, JobTypeOK
<1>3. Phase(percent) \in Unfinished /\ percent \in Nat
    BY JobsBounds DEF Phase, Unfinished
<1>4. next \in Job /\ next.session = jobs[id].session /\ next.status \in Unfinished
    BY <1>2, <1>3, ProgressOfJob
<1> HIDE DEF next
<1>5. /\ DOMAIN jobs' = DOMAIN jobs /\ jobs'[id] = next
      /\ \A other \in DOMAIN jobs : jobs'[other] \in Job /\ (other # id => jobs'[other] = jobs[other])
      /\ OneJobPerSession'
    BY <1>1, <1>2, <1>4, OneJobChanges
<1>6. Queued' = Queued /\ NoRepeat(executorQueue)' /\ Elements(finished)' = Elements(finished)
    BY <1>1, SameSequences DEF JobsInv, OnePlace
<1>7. OnItsWay' = OnItsWay /\ Held' = Held
    BY <1>1, <1>6 DEF OnItsWay, Held
<1>8. JobTypeOK'
    BY <1>1, <1>5 DEF JobsInv, JobTypeOK
<1>9. OnePlace' /\ Listed' /\ Created'
    BY <1>1, <1>4, <1>5, <1>6, <1>7 DEF JobsInv, OnePlace, Listed, Created
<1> QED BY <1>1, <1>5, <1>7, <1>8, <1>9, SameHeld DEF JobsInv

\* A job ends: it is not under way any more, and still holds its permit.
LEMMA EndJobKeeps == ASSUME JobsInv, NEW id \in JobIds, EndJob(id) PROVE JobsInv'
<1>1. /\ id \in working /\ finished' = Append(finished, id) /\ finished \in Seq(JobIds)
      /\ working' = working \ {id} /\ leaving' = leaving \cup {id}
      /\ UNCHANGED <<permits, entering, executorQueue, accepting, created>>
    BY DEF EndJob, JobsInv, JobTypeOK
<1>2. id \in DOMAIN jobs /\ jobs[id].status \in Unfinished /\ jobs[id] \in Job
    BY <1>1 DEF JobsInv, Listed, OnItsWay, JobTypeOK
<1>3. PICK next \in Job : next.session = jobs[id].session /\ jobs' = [jobs EXCEPT ![id] = next]
    <2>1. /\ [jobs[id] EXCEPT !.status = "succeeded", !.percent = 100] \in Job
          /\ [jobs[id] EXCEPT !.status = "failed"] \in Job
        <3>1. 100 \in 0 .. 100 /\ {"succeeded", "failed"} \subseteq Ended \cup Unfinished
            BY DEF Ended
        <3> QED BY <1>2, <3>1 DEF Job
    <2>2. /\ [jobs[id] EXCEPT !.status = "succeeded", !.percent = 100].session = jobs[id].session
          /\ [jobs[id] EXCEPT !.status = "failed"].session = jobs[id].session
        BY <1>2 DEF Job
    <2> QED BY <2>1, <2>2 DEF EndJob
<1>4. /\ DOMAIN jobs' = DOMAIN jobs
      /\ \A other \in DOMAIN jobs : jobs'[other] \in Job /\ (other # id => jobs'[other] = jobs[other])
      /\ OneJobPerSession'
    BY <1>2, <1>3, OneJobChanges
<1>5. Queued' = Queued /\ NoRepeat(executorQueue)'
    BY <1>1, SameSequences DEF JobsInv, OnePlace
<1>6. finished' \in Seq(JobIds) /\ Elements(finished)' = Elements(finished) \cup {id}
    <2>1. Append(finished, id) \in Seq(JobIds) /\ Elements(Append(finished, id)) = Elements(finished) \cup {id}
        BY <1>1, OneMore
    <2> QED BY <1>1, <2>1 DEF Elements
<1>7. OnItsWay' = OnItsWay \ {id} /\ Held' = Held
    BY <1>1, <1>5 DEF JobsInv, OnePlace, OnItsWay, Held
<1>8. JobTypeOK'
    BY <1>1, <1>4, <1>6 DEF JobsInv, JobTypeOK
<1>9. OnePlace'
    BY <1>1, <1>5, <1>7 DEF JobsInv, OnePlace, OnItsWay
<1>10. Listed'
    BY <1>4, <1>6, <1>7 DEF JobsInv, Listed
<1>11. Created'
    <2>1. id \in 1 .. created
        BY <1>1 DEF JobsInv, Created, Held
    <2> QED BY <1>1, <1>4, <1>6, <1>7, <2>1 DEF JobsInv, Created
<1> QED BY <1>1, <1>4, <1>7, <1>8, <1>9, <1>10, <1>11, SameHeld DEF JobsInv

\* The permit of an ended job returns, once.
LEMMA ReleaseKeeps == ASSUME JobsInv, NEW id \in JobIds, ReleasePermit(id) PROVE JobsInv'
<1>1. /\ id \in leaving /\ leaving' = leaving \ {id} /\ permits' = permits + 1
      /\ UNCHANGED <<jobs, entering, executorQueue, working, finished, accepting, created>>
    BY DEF ReleasePermit
<1>2. Queued' = Queued /\ NoRepeat(executorQueue)' /\ Elements(finished)' = Elements(finished)
    BY <1>1, SameSequences DEF JobsInv, OnePlace
<1>3. OnItsWay' = OnItsWay /\ Held' = Held \ {id} /\ id \in Held
    BY <1>1, <1>2 DEF JobsInv, OnePlace, OnItsWay, Held
<1>4. PermitsBalanced' /\ permits' \in 0 .. Capacity
    BY <1>1, <1>3, OneHeldLess
<1>5. JobTypeOK'
    BY <1>1, <1>4 DEF JobsInv, JobTypeOK
<1>6. OnePlace' /\ Listed' /\ Created' /\ OneJobPerSession'
    BY <1>1, <1>2, <1>3 DEF JobsInv, OnePlace, Listed, Created, OneJobPerSession
<1> QED BY <1>4, <1>5, <1>6 DEF JobsInv

\* A shutdown, or nothing.
LEMMA SameBooks ==
  ASSUME JobsInv, accepting' \in BOOLEAN,
         UNCHANGED <<jobs, permits, entering, executorQueue, working, leaving, finished, created>>
  PROVE  JobsInv'
<1>1. Queued' = Queued /\ NoRepeat(executorQueue)' /\ Elements(finished)' = Elements(finished)
    BY SameSequences DEF JobsInv, OnePlace
<1>2. OnItsWay' = OnItsWay /\ Held' = Held
    BY <1>1 DEF OnItsWay, Held
<1> QED BY <1>1, <1>2, SameHeld DEF JobsInv, JobTypeOK, OnePlace, Listed, Created, OneJobPerSession

\* Every step keeps the invariant.
LEMMA JobsNextKeeps == ASSUME JobsInv, [JobsNext]_jobVars PROVE JobsInv'
<1>1. CASE UNCHANGED jobVars \/ ShutdownJobs
    BY <1>1, SameBooks DEF jobVars, ShutdownJobs, JobsInv, JobTypeOK
<1>2. CASE JobsNext /\ ~ShutdownJobs
    BY <1>2, AdmitKeeps, HandOverKeeps, StartJobKeeps, ReportKeeps, EndJobKeeps, ReleaseKeeps
       DEF JobsNext, ThreadStep
<1> QED BY <1>1, <1>2

\* The inductive invariant holds throughout, whatever the threads do first.
THEOREM JobsInductive == JobsSpec => []JobsInv
BY JobsInitInv, JobsNextKeeps, PTL DEF JobsSpec

\* The books agree: CalculationJobs' QueueConsistent.  No permit leaks or is returned
\* twice, every worker finds its job, no session has two jobs under way.
THEOREM BooksAgree == JobsSpec => []QueueConsistent
<1>1. JobsInv => QueueConsistent
    BY DEF JobsInv, QueueConsistent, Listed, OnItsWay, WorkerFindsJob
<1> QED BY <1>1, JobsInductive, PTL

-----------------------------------------------------------------------------
(* --- the downloads of TAFs -------------------------------------------------- *)

Served(a) == {Responses[a][i] : i \in 1 .. upstream}
Given == {Responses[a][i] : a \in TafAirports, i \in Nat} \cup {NoFetch}
FetchStates == {"starting", "running", "downloaded", "stored", "released", "completed"}
Fetches == [airport : TafAirports, state : FetchStates, late : BOOLEAN, records : Given, at : Nat]
Caches == [at : Nat, records : Given]

Times == Arrivals \cup {NoTime}
Forecasts == {NoWind, Unavailable} \cup {Select(r, a, t) : r \in Given, a \in TafAirports, t \in Times}
Signatures == {Signature(forecast) : forecast \in Forecasts}
Places == {"idle", "ask", "start", "raise", "wait", "late", "done"}
Calculations == [at : Places, airport : TafAirports \cup {NoTime}, arrival : Times, round : Nat,
                 fetch : Nat \cup {NoFetch}, shown : Forecasts, made : Signatures]

\* An available wind prevails in an answer the service gave.
Justified(forecast, a, t) ==
  forecast # NoWind /\ forecast.available => \E r \in Served(a) : Select(r, a, t) = forecast

ClockOK == tafClock \in Nat /\ upstream \in Nat \ {0}

FetchesOK ==
  /\ fetches \in Seq(Fetches)
  /\ \A f \in DOMAIN fetches :
       fetches[f].records # NoFetch => fetches[f].records \in Served(fetches[f].airport)

CacheOK ==
  /\ cache \in [TafAirports -> Caches]
  /\ \A a \in TafAirports : cache[a].records # NoFetch => cache[a].records \in Served(a)

\* A download is in flight exactly while it works.
InflightOK ==
  /\ inflight \in [TafAirports -> Nat \cup {NoFetch}]
  /\ \A a \in TafAirports : inflight[a] # NoFetch =>
        inflight[a] \in Downloading /\ fetches[inflight[a]].airport = a
  /\ \A f \in Downloading : inflight[fetches[f].airport] = f

SlotsOK == slots \in Nat /\ slots + Cardinality(Holding) = MaxSlots

CallerOK(k) ==
  /\ k \in Calculations
  /\ k.at # "idle" => k.airport \in TafAirports
  /\ k.at \in {"start", "raise", "wait", "late"} =>
       k.fetch \in DOMAIN fetches /\ fetches[k.fetch].airport = k.airport
  /\ k.at = "start" => fetches[k.fetch].state = "starting"
  /\ Signature(k.shown) = k.made
  /\ k.at = "done" => Justified(k.shown, k.airport, k.arrival)

\* A download that has not begun has one thread that begins it.
OneStarts ==
  /\ \A c, d \in Callers :
       caller[c].at = "start" /\ caller[d].at = "start" /\ caller[c].fetch = caller[d].fetch => c = d
  /\ \A f \in DOMAIN fetches : fetches[f].state = "starting" =>
       \E c \in Callers : caller[c].at = "start" /\ caller[c].fetch = f

CallersOK ==
  /\ caller \in [Callers -> Calculations]
  /\ \A c \in Callers : CallerOK(caller[c])
  /\ OneStarts

TafInv == ClockOK /\ FetchesOK /\ CacheOK /\ InflightOK /\ SlotsOK /\ CallersOK

-----------------------------------------------------------------------------
(* Records, downloads and slots.                                           *)

\* What the assumption says.
LEMMA TafBounds == MaxSlots \in Nat /\ MaxSlots # 0 /\ NoFetch \notin Nat
BY TafAssumption DEF TafAssumption

\* The service's newest answer is one of those it gave, and stays one.
LEMMA ServedOnes ==
  ASSUME TafInv, NEW a \in TafAirports
  PROVE  Responses[a][upstream] \in Served(a) /\ Served(a) \subseteq Given
BY DEF TafInv, ClockOK, Served, Given

\* Forecasts that a calculation may be given.
LEMMA ForecastTypes ==
  /\ NoWind \in Forecasts /\ Unavailable \in Forecasts /\ ~Unavailable.available
  /\ \A r \in Given, a \in TafAirports, t \in Times : Select(r, a, t) \in Forecasts
  /\ \A forecast \in Forecasts : Signature(forecast) \in Signatures
  /\ Signature(NoWind) = NoWind
<1>1. ~Unavailable.available
    BY DEF Unavailable
<1>2. Signature(NoWind) = NoWind
    BY DEF Signature
<1>3. \A r \in Given, a \in TafAirports, t \in Times : Select(r, a, t) \in Forecasts
    BY DEF Forecasts
<1>4. \A forecast \in Forecasts : Signature(forecast) \in Signatures
    BY DEF Signatures
<1>5. NoWind \in Forecasts /\ Unavailable \in Forecasts
    BY DEF Forecasts
<1> QED BY <1>1, <1>2, <1>3, <1>4, <1>5

\* The positions of the downloads.
LEMMA FetchDomain ==
  ASSUME TafInv
  PROVE  /\ Len(fetches) \in Nat /\ DOMAIN fetches = 1 .. Len(fetches)
         /\ \A f \in DOMAIN fetches : fetches[f] \in Fetches
BY LenProperties, ElementOfSeq DEF TafInv, FetchesOK

\* One download changes.
LEMMA OneFetchChanges ==
  ASSUME TafInv, NEW f \in DOMAIN fetches, NEW r \in Fetches, fetches' = [fetches EXCEPT ![f] = r]
  PROVE  /\ fetches' \in Seq(Fetches) /\ DOMAIN fetches' = DOMAIN fetches /\ fetches'[f] = r
         /\ \A g \in DOMAIN fetches : g # f => fetches'[g] = fetches[g]
<1>1. f \in 1 .. Len(fetches) /\ fetches \in Seq(Fetches)
    BY FetchDomain DEF TafInv, FetchesOK
<1>2. fetches' \in Seq(Fetches)
    BY <1>1, ExceptSeq
<1> QED BY <1>2

\* The downloads that hold a slot are finitely many.
LEMMA HoldingIsFinite == TafInv => IsFiniteSet(Holding) /\ Cardinality(Holding) \in Nat
<1> SUFFICES ASSUME TafInv PROVE IsFiniteSet(Holding) /\ Cardinality(Holding) \in Nat
    OBVIOUS
<1>1. IsFiniteSet(1 .. Len(fetches))
    BY FetchDomain, FS_Interval
<1>2. Holding \in SUBSET (1 .. Len(fetches))
    BY FetchDomain DEF Holding
<1> QED BY <1>1, <1>2, FS_Subset, FS_CardinalityType

\* What a calculation that goes on with a forecast becomes.
LEMMA UsedGives ==
  ASSUME TafInv, NEW c \in Callers, caller[c].at # "idle", NEW forecast \in Forecasts,
         Justified(forecast, caller[c].airport, caller[c].arrival), Used(c, forecast)
  PROVE  \E n \in Calculations :
           /\ caller' = [caller EXCEPT ![c] = n] /\ n.at \in {"ask", "done"}
           /\ n.airport \in TafAirports /\ Signature(n.shown) = n.made
           /\ n.at = "done" => Justified(n.shown, n.airport, n.arrival)
<1> DEFINE old == caller[c]
           k == [old EXCEPT !.shown = forecast, !.fetch = NoFetch]
<1>1. old \in Calculations /\ old.airport \in TafAirports /\ Signature(old.shown) = old.made
    BY DEF TafInv, CallersOK, CallerOK
<1>2. /\ k \in Calculations /\ k.shown = forecast /\ k.airport = old.airport /\ k.arrival = old.arrival
      /\ k.made = old.made /\ k.round = old.round
    BY <1>1 DEF Calculations
<1>3. Used(c, forecast) =
        IF Signature(forecast) = Signature(old.shown)
        THEN caller' = [caller EXCEPT ![c] = [k EXCEPT !.at = "done"]]
        ELSE \E n \in Calculated(k, forecast, k.round + 1) : caller' = [caller EXCEPT ![c] = n]
    BY DEF Used
<1> HIDE DEF k
<1>4. CASE Signature(forecast) = Signature(old.shown)
    <2> DEFINE n == [k EXCEPT !.at = "done"]
    <2>1. /\ n \in Calculations /\ n.at = "done" /\ n.airport = k.airport /\ n.shown = k.shown
          /\ n.made = k.made /\ n.arrival = k.arrival
        BY <1>2 DEF Calculations, Places
    <2>2. caller' = [caller EXCEPT ![c] = n]
        BY <1>3, <1>4
    <2> HIDE DEF n
    <2> QED BY <1>1, <1>2, <1>4, <2>1, <2>2
<1>5. CASE Signature(forecast) # Signature(old.shown)
    <2> DEFINE made == [k EXCEPT !.made = Signature(forecast), !.round = k.round + 1, !.fetch = NoFetch]
    <2>1. /\ made \in Calculations /\ made.shown = forecast /\ made.made = Signature(forecast)
          /\ made.airport = k.airport /\ made.arrival = k.arrival
        <3>1. k.round + 1 \in Nat /\ Signature(forecast) \in Signatures
            BY <1>2, ForecastTypes DEF Calculations
        <3> HIDE DEF k
        <3> QED BY <1>2, <3>1 DEF Calculations
    <2>2. PICK n \in Calculated(k, forecast, k.round + 1) : caller' = [caller EXCEPT ![c] = n]
        BY <1>3, <1>5
    <2>3. \/ n = [made EXCEPT !.at = "done"]
          \/ \E time \in Times : n = [made EXCEPT !.at = "ask", !.arrival = time]
        BY <2>2 DEF Calculated, Times
    <2> HIDE DEF made
    <2>4. /\ n \in Calculations /\ n.at \in {"ask", "done"} /\ n.airport = k.airport /\ n.shown = forecast
          /\ n.made = Signature(forecast) /\ (n.at = "done" => n.arrival = k.arrival)
        BY <2>1, <2>3 DEF Calculations, Places
    <2> QED BY <1>1, <1>2, <2>2, <2>4
<1> QED BY <1>4, <1>5

\* A calculation that was not starting a download goes on: the others are as they were.
LEMMA GoesOn ==
  ASSUME TafInv, NEW c \in Callers, NEW n \in Calculations, caller' = [caller EXCEPT ![c] = n],
         caller[c].at # "start", n.at # "start",
         UNCHANGED upstream, DOMAIN fetches' = DOMAIN fetches,
         \A f \in DOMAIN fetches : /\ fetches'[f].airport = fetches[f].airport
                                   /\ fetches'[f].state = fetches[f].state,
         CallerOK(n)'
  PROVE  CallersOK'
<1>1. /\ caller' \in [Callers -> Calculations] /\ caller'[c] = n
      /\ \A d \in Callers : d # c => caller'[d] = caller[d]
    BY DEF TafInv, CallersOK
<1>2. ASSUME NEW d \in Callers PROVE CallerOK(caller[d])'
    <2>1. CASE d = c
        BY <1>1, <2>1
    <2>2. CASE d # c
        <3>1. caller'[d] = caller[d] /\ CallerOK(caller[d])
            BY <1>1, <2>2 DEF TafInv, CallersOK
        <3> QED BY <3>1 DEF CallerOK, Justified, Served
    <2> QED BY <2>1, <2>2
<1>3. OneStarts'
    BY <1>1 DEF TafInv, CallersOK, OneStarts
<1> QED BY <1>1, <1>2, <1>3 DEF CallersOK

\* A calculation goes on with a forecast.
LEMMA UsedKeepsCallers ==
  ASSUME TafInv, NEW c \in Callers, caller[c].at \notin {"idle", "start"}, NEW forecast \in Forecasts,
         Justified(forecast, caller[c].airport, caller[c].arrival), Used(c, forecast),
         UNCHANGED upstream, DOMAIN fetches' = DOMAIN fetches,
         \A f \in DOMAIN fetches : /\ fetches'[f].airport = fetches[f].airport
                                   /\ fetches'[f].state = fetches[f].state
  PROVE  CallersOK'
<1>1. PICK n \in Calculations :
           /\ caller' = [caller EXCEPT ![c] = n] /\ n.at \in {"ask", "done"}
           /\ n.airport \in TafAirports /\ Signature(n.shown) = n.made
           /\ n.at = "done" => Justified(n.shown, n.airport, n.arrival)
    BY UsedGives
<1>2. CallerOK(n)'
    BY <1>1 DEF CallerOK, Justified, Served
<1> QED BY <1>1, <1>2, GoesOn
\* One download goes on to a state that holds a slot if the one before did.
LEMMA FetchKeepsSlot ==
  ASSUME TafInv, NEW f \in DOMAIN fetches, DOMAIN fetches' = DOMAIN fetches,
         \A g \in DOMAIN fetches : g # f => fetches'[g].state = fetches[g].state,
         fetches[f].state \in {"starting", "running", "downloaded", "stored"},
         fetches'[f].state \in {"starting", "running", "downloaded", "stored"},
         UNCHANGED slots
  PROVE  Holding' = Holding /\ SlotsOK'
<1>1. Holding' = Holding
    BY DEF Holding
<1> QED BY <1>1 DEF TafInv, SlotsOK

\* What changes no download and no slot.
LEMMA SameDownloads ==
  ASSUME TafInv, UNCHANGED <<fetches, inflight, slots>>, upstream' \in {upstream, upstream + 1}
  PROVE  FetchesOK' /\ InflightOK' /\ SlotsOK'
<1>1. \A a \in TafAirports : Served(a) \subseteq Served(a)'
    BY DEF TafInv, ClockOK, Served
<1>2. \A f \in DOMAIN fetches : fetches[f].airport \in TafAirports
    BY FetchDomain DEF Fetches
<1>3. Holding' = Holding /\ Downloading' = Downloading
    BY DEF Holding, Downloading
<1> QED BY <1>1, <1>2, <1>3 DEF TafInv, FetchesOK, InflightOK, SlotsOK

\* What changes only calculations.
LEMMA OnlyCallers ==
  ASSUME TafInv, UNCHANGED <<tafClock, upstream, cache, inflight, fetches, slots>>, CallersOK'
  PROVE  TafInv'
BY SameDownloads DEF TafInv, ClockOK, CacheOK, Served

\* The first state.
LEMMA TafInitInv == TafInit => TafInv
<1> SUFFICES ASSUME TafInit PROVE TafInv
    OBVIOUS
<1> USE DEF TafInit
<1>1. fetches \in Seq(Fetches) /\ Len(fetches) = 0 /\ DOMAIN fetches = {}
    BY EmptySeq
<1>2. Holding = {} /\ Downloading = {}
    BY <1>1 DEF Holding, Downloading
<1>3. ClockOK /\ FetchesOK /\ CacheOK /\ InflightOK
    BY <1>1, <1>2 DEF ClockOK, FetchesOK, CacheOK, Caches, Given, InflightOK
<1>4. SlotsOK
    BY <1>2, TafBounds, FS_EmptySet DEF SlotsOK
<1>5. Resting \in Calculations /\ Resting.at = "idle" /\ Signature(Resting.shown) = Resting.made
    <2>1. NoWind \in Signatures
        BY ForecastTypes
    <2> QED BY <2>1, ForecastTypes DEF Resting, Calculations, Times, Places
<1>6. \A c \in Callers : caller[c] = Resting
    OBVIOUS
<1>7. CallersOK
    BY <1>1, <1>5, <1>6 DEF CallersOK, CallerOK, OneStarts
<1> QED BY <1>3, <1>4, <1>7 DEF TafInv

-----------------------------------------------------------------------------
(* A calculation's steps.                                                  *)

\* A calculation begins without a wind.
LEMMA BeginKeeps ==
  ASSUME TafInv, NEW c \in Callers, NEW a \in TafAirports, BeginCalculation(c, a) PROVE TafInv'
<1> DEFINE start == [Resting EXCEPT !.airport = a]
           made == [start EXCEPT !.made = Signature(NoWind), !.round = 0, !.fetch = NoFetch]
<1>1. PICK n \in Calculated(start, NoWind, 0) : caller' = [caller EXCEPT ![c] = n]
    BY DEF BeginCalculation
<1>2. UNCHANGED <<tafClock, upstream, cache, inflight, fetches, slots>> /\ caller[c].at = "idle"
    BY DEF BeginCalculation
<1>3. /\ made \in Calculations /\ made.airport = a /\ made.shown = NoWind /\ made.made = Signature(NoWind)
    <2>1. NoWind \in Signatures /\ NoWind \in Forecasts /\ Signature(NoWind) = NoWind
        BY ForecastTypes
    <2> QED BY <2>1 DEF Resting, Calculations, Times, Places
<1>4. \/ n = [made EXCEPT !.at = "done"]
      \/ \E time \in Times : n = [made EXCEPT !.at = "ask", !.arrival = time]
    BY <1>1 DEF Calculated, Times
<1> HIDE DEF made, start
<1>5. /\ n \in Calculations /\ n.at \in {"ask", "done"} /\ n.airport = a /\ n.shown = NoWind
      /\ n.made = Signature(NoWind)
    BY <1>3, <1>4 DEF Calculations, Places
<1>6. CallerOK(n)'
    BY <1>5 DEF CallerOK, Justified
<1>7. CallersOK'
    BY <1>1, <1>2, <1>5, <1>6, GoesOn
<1> QED BY <1>2, <1>7, OnlyCallers

\* Every answer a calculation can get without a download of its own.
LEMMA AnswersJustified ==
  ASSUME TafInv, NEW c \in Callers, caller[c].at # "idle"
  PROVE  LET k == caller[c] IN
         /\ Justified(Unavailable, k.airport, k.arrival)
         /\ \A r \in Served(k.airport) : /\ Select(r, k.airport, k.arrival) \in Forecasts
                                         /\ Justified(Select(r, k.airport, k.arrival), k.airport, k.arrival)
<1>1. caller[c].airport \in TafAirports /\ caller[c].arrival \in Times
    BY DEF TafInv, CallersOK, CallerOK, Calculations
<1>2. Served(caller[c].airport) \subseteq Given
    BY <1>1, ServedOnes
<1> QED BY <1>1, <1>2, ForecastTypes DEF Justified

\* An answer without a download: no arrival, a thread that did not start, or a download that ended.
LEMMA AnswerKeeps ==
  ASSUME TafInv, NEW c \in Callers, NoArrival(c) \/ StartRaises(c) \/ WaitEnds(c) PROVE TafInv'
<1>1. /\ caller[c].at \notin {"idle", "start"}
      /\ UNCHANGED <<tafClock, upstream, cache, inflight, fetches, slots>>
    BY DEF NoArrival, StartRaises, WaitEnds
<1>2. \E forecast \in Forecasts : /\ Justified(forecast, caller[c].airport, caller[c].arrival)
                                  /\ Used(c, forecast)
    <2>1. CASE NoArrival(c) \/ StartRaises(c)
        BY <1>1, <2>1, AnswersJustified, ForecastTypes DEF NoArrival, StartRaises
    <2>2. CASE WaitEnds(c)
        <3> DEFINE f == caller[c].fetch
        <3>1. f \in DOMAIN fetches /\ fetches[f].airport = caller[c].airport
            BY <2>2 DEF WaitEnds, TafInv, CallersOK, CallerOK
        <3>2. fetches[f].records # NoFetch => fetches[f].records \in Served(caller[c].airport)
            BY <3>1 DEF TafInv, FetchesOK
        <3>3. Used(c, IF fetches[f].records = NoFetch THEN Unavailable
                      ELSE Select(fetches[f].records, caller[c].airport, caller[c].arrival))
            BY <2>2 DEF WaitEnds
        <3> HIDE DEF f
        <3> QED BY <1>1, <3>2, <3>3, AnswersJustified, ForecastTypes
    <2> QED BY <2>1, <2>2
<1>3. CallersOK'
    BY <1>1, <1>2, UsedKeepsCallers
<1> QED BY <1>1, <1>3, OnlyCallers

\* A calculation stops waiting, and says so under the lock.
LEMMA LateKeeps == ASSUME TafInv, NEW c \in Callers, WaitTimesOut(c) \/ MarkLate(c) PROVE TafInv'
<1> DEFINE f == caller[c].fetch
<1>0. caller[c] \in Calculations /\ CallerOK(caller[c]) /\ caller \in [Callers -> Calculations]
    BY DEF TafInv, CallersOK
<1>1. CASE WaitTimesOut(c)
    <2>0. PICK n : n = [caller[c] EXCEPT !.at = "late"]
        OBVIOUS
    <2>1. /\ UNCHANGED <<tafClock, upstream, cache, inflight, fetches, slots>>
          /\ caller[c].at = "wait" /\ caller' = [caller EXCEPT ![c] = n]
        BY <1>1, <2>0 DEF WaitTimesOut
    <2>2. /\ n \in Calculations /\ n.at = "late" /\ n.airport = caller[c].airport /\ n.fetch = f
          /\ n.shown = caller[c].shown /\ n.made = caller[c].made
        BY <1>0, <2>0 DEF Calculations, Places
    <2>3. CallerOK(n)'
        BY <1>0, <2>1, <2>2 DEF CallerOK
    <2>4. CallersOK'
        BY <2>1, <2>2, <2>3, GoesOn
    <2> QED BY <2>1, <2>4, OnlyCallers
<1>2. CASE MarkLate(c)
    <2> DEFINE r == [fetches[f] EXCEPT !.late = TRUE]
    <2>1. /\ UNCHANGED <<tafClock, upstream, cache, inflight, slots>> /\ caller[c].at = "late"
          /\ Used(c, Unavailable) /\ fetches' = [fetches EXCEPT ![f] = r]
        BY <1>2 DEF MarkLate
    <2>2. f \in DOMAIN fetches /\ fetches[f] \in Fetches
        BY <1>0, <2>1, FetchDomain DEF CallerOK
    <2>3. /\ r \in Fetches /\ r.airport = fetches[f].airport /\ r.state = fetches[f].state
          /\ r.records = fetches[f].records
        BY <2>2 DEF Fetches
    <2> HIDE DEF r
    <2>4. /\ fetches' \in Seq(Fetches) /\ DOMAIN fetches' = DOMAIN fetches
          /\ \A g \in DOMAIN fetches : /\ fetches'[g].airport = fetches[g].airport
                                       /\ fetches'[g].state = fetches[g].state
                                       /\ fetches'[g].records = fetches[g].records
        BY <2>1, <2>2, <2>3, OneFetchChanges
    <2>5. CallersOK'
        BY <2>1, <2>4, AnswersJustified, ForecastTypes, UsedKeepsCallers
    <2>6. Holding' = Holding /\ Downloading' = Downloading
        BY <2>4 DEF Holding, Downloading
    <2>7. FetchesOK' /\ InflightOK' /\ SlotsOK'
        <3>1. FetchesOK'
            BY <2>1, <2>4 DEF TafInv, FetchesOK, Served
        <3>2. SlotsOK'
            BY <2>1, <2>6 DEF TafInv, SlotsOK
        <3>3. Downloading \subseteq DOMAIN fetches
            BY DEF Downloading, Holding
        <3>4. InflightOK'
            BY <2>1, <2>4, <2>6, <3>3 DEF TafInv, InflightOK
        <3> QED BY <3>1, <3>2, <3>4
    <2> QED BY <2>1, <2>5, <2>7 DEF TafInv, ClockOK, CacheOK, Served
<1> QED BY <1>1, <1>2

\* A calculation asks: an answer from the cache, none, or a download it joins or begins.
LEMMA ConsultAnswers ==
  ASSUME TafInv, NEW c \in Callers, caller[c].at = "ask",
         UNCHANGED <<tafClock, upstream, cache, inflight, fetches, slots>>,
         \/ /\ Fresh(caller[c].airport)
            /\ Used(c, Select(cache[caller[c].airport].records, caller[c].airport, caller[c].arrival))
         \/ Used(c, Unavailable)
  PROVE  TafInv'
<1> DEFINE a == caller[c].airport
<1>1. a \in TafAirports
    BY DEF TafInv, CallersOK, CallerOK
<1>4. Fresh(a) => cache[a].records \in Served(a)
    BY <1>1 DEF Fresh, TafInv, CacheOK
<1>5. \E forecast \in Forecasts : /\ Justified(forecast, a, caller[c].arrival) /\ Used(c, forecast)
    BY <1>1, <1>4, AnswersJustified, ForecastTypes
<1>6. CallersOK'
    BY <1>1, <1>5, UsedKeepsCallers
<1> QED BY <1>1, <1>6, OnlyCallers

\* It joins the download that is in flight for its airport.
LEMMA ConsultJoins ==
  ASSUME TafInv, NEW c \in Callers, caller[c].at = "ask", inflight[caller[c].airport] # NoFetch,
         caller' = [caller EXCEPT ![c].at = "wait", ![c].fetch = inflight[caller[c].airport]],
         UNCHANGED <<tafClock, upstream, cache, inflight, fetches, slots>>
  PROVE  TafInv'
<1>1. caller[c] \in Calculations /\ CallerOK(caller[c]) /\ caller[c].airport \in TafAirports
    BY DEF TafInv, CallersOK, CallerOK
<1>2. PICK f : f = inflight[caller[c].airport]
    OBVIOUS
<1>3. f \in DOMAIN fetches /\ fetches[f].airport = caller[c].airport /\ f \in Nat
    BY <1>1, <1>2, FetchDomain DEF TafInv, InflightOK, Downloading, Holding
<1>4. PICK n : n = [caller[c] EXCEPT !.at = "wait", !.fetch = f]
    OBVIOUS
<1>5. /\ n \in Calculations /\ n.at = "wait" /\ n.airport = caller[c].airport /\ n.fetch = f
      /\ n.shown = caller[c].shown /\ n.made = caller[c].made
    BY <1>1, <1>3, <1>4 DEF Calculations, Places
<1>6. caller' = [caller EXCEPT ![c] = n]
    BY <1>2, <1>4
<1>7. CallerOK(n)'
    BY <1>1, <1>3, <1>5 DEF CallerOK
<1>8. CallersOK'
    BY <1>5, <1>6, <1>7, GoesOn
<1> QED BY <1>8, OnlyCallers

\* Or it begins one: a slot is free and no download works for its airport.
LEMMA ConsultBegins ==
  ASSUME TafInv, NEW c \in Callers, caller[c].at = "ask", inflight[caller[c].airport] = NoFetch, slots > 0,
         slots' = slots - 1,
         fetches' = Append(fetches, NewFetch(caller[c].airport)),
         inflight' = [inflight EXCEPT ![caller[c].airport] = Len(fetches) + 1],
         caller' = [caller EXCEPT ![c].at = "start", ![c].fetch = Len(fetches) + 1],
         UNCHANGED <<tafClock, upstream, cache>>
  PROVE  TafInv'
<1> DEFINE a == caller[c].airport
           r == NewFetch(a)
<1>0. PICK new : new = Len(fetches) + 1
    OBVIOUS
<1>1. caller[c] \in Calculations /\ CallerOK(caller[c]) /\ a \in TafAirports
    BY DEF TafInv, CallersOK, CallerOK
<1>2. r \in Fetches /\ r.airport = a /\ r.state = "starting" /\ r.records = NoFetch
    BY <1>1 DEF NewFetch, Fetches, FetchStates, Given
<1>3. /\ fetches' \in Seq(Fetches) /\ DOMAIN fetches' = DOMAIN fetches \cup {new} /\ fetches'[new] = r
      /\ \A f \in DOMAIN fetches : fetches'[f] = fetches[f]
      /\ new \in Nat /\ new \notin DOMAIN fetches
    <2>1. /\ Append(fetches, r) \in Seq(Fetches) /\ Len(Append(fetches, r)) = Len(fetches) + 1
          /\ \A f \in 1 .. Len(fetches) : Append(fetches, r)[f] = fetches[f]
          /\ Append(fetches, r)[Len(fetches) + 1] = r
        BY <1>2, AppendProperties DEF TafInv, FetchesOK
    <2> HIDE DEF r
    <2>2. DOMAIN Append(fetches, r) = 1 .. (Len(fetches) + 1)
        BY <2>1
    <2>3. Len(fetches) \in Nat /\ DOMAIN fetches = 1 .. Len(fetches)
        BY FetchDomain
    <2>4. 1 .. (Len(fetches) + 1) = (1 .. Len(fetches)) \cup {Len(fetches) + 1}
        BY <2>3
    <2>5. Len(fetches) + 1 \in Nat /\ Len(fetches) + 1 \notin 1 .. Len(fetches)
        BY <2>3
    <2>6. fetches' = Append(fetches, r)
        BY DEF r
    <2> QED BY <1>0, <2>1, <2>2, <2>3, <2>4, <2>5, <2>6
<1> HIDE DEF r
<1>4. Holding' = Holding \cup {new} /\ new \notin Holding /\ Downloading' = Downloading \cup {new}
    BY <1>2, <1>3 DEF Holding, Downloading
<1>5. SlotsOK'
    <2>1. Cardinality(Holding') = Cardinality(Holding) + 1 /\ Cardinality(Holding) \in Nat
        BY <1>4, HoldingIsFinite, FS_AddElement
    <2>2. slots \in Nat /\ slots + Cardinality(Holding) = MaxSlots /\ MaxSlots \in Nat
        BY TafBounds DEF TafInv, SlotsOK
    <2>3. slots' \in Nat /\ slots' + Cardinality(Holding') = MaxSlots
        BY <2>1, <2>2
    <2> QED BY <2>3 DEF SlotsOK
<1>6. FetchesOK'
    <2>1. \A f \in DOMAIN fetches' : fetches'[f].records # NoFetch
              => fetches'[f].records \in Served(fetches'[f].airport)
        BY <1>2, <1>3 DEF TafInv, FetchesOK
    <2> QED BY <1>3, <2>1 DEF FetchesOK, Served
<1>7. InflightOK'
    <2>1. /\ inflight' \in [TafAirports -> Nat \cup {NoFetch}] /\ inflight'[a] = new
          /\ \A b \in TafAirports : b # a => inflight'[b] = inflight[b]
        BY <1>0, <1>1, <1>3 DEF TafInv, InflightOK
    <2>2. Downloading \subseteq DOMAIN fetches
        BY DEF Downloading, Holding
    <2>3. \A f \in Downloading : fetches[f].airport # a
        BY <2>2, FetchDomain, TafBounds DEF TafInv, InflightOK
    <2>4. \A b \in TafAirports : inflight'[b] # NoFetch =>
              inflight'[b] \in Downloading' /\ fetches'[inflight'[b]].airport = b
        BY <1>2, <1>3, <1>4, <2>1, <2>2 DEF TafInv, InflightOK
    <2>5. \A f \in Downloading' : inflight'[fetches'[f].airport] = f
        <3>1. ASSUME NEW f \in Downloading PROVE inflight'[fetches'[f].airport] = f
            <4>1. fetches'[f] = fetches[f] /\ fetches[f].airport # a /\ fetches[f].airport \in TafAirports
                BY <1>3, <2>2, <2>3, FetchDomain DEF Fetches
            <4> QED BY <2>1, <4>1 DEF TafInv, InflightOK
        <3> QED BY <1>2, <1>3, <1>4, <2>1, <3>1
    <2> QED BY <2>1, <2>4, <2>5 DEF InflightOK
<1>8. CallersOK'
    <2>0. PICK n : n = [caller[c] EXCEPT !.at = "start", !.fetch = new]
        OBVIOUS
    <2>1. /\ n \in Calculations /\ n.at = "start" /\ n.airport = a /\ n.fetch = new
          /\ n.shown = caller[c].shown /\ n.made = caller[c].made
        BY <1>1, <1>3, <2>0 DEF Calculations, Places
    <2>2. /\ caller' \in [Callers -> Calculations] /\ caller'[c] = n
          /\ \A d \in Callers : d # c => caller'[d] = caller[d]
        BY <1>0, <2>0, <2>1 DEF TafInv, CallersOK
    <2>3. ASSUME NEW d \in Callers PROVE CallerOK(caller[d])'
        <3>1. CASE d = c
            <4>1. CallerOK(n)'
                BY <1>1, <1>2, <1>3, <2>1 DEF CallerOK
            <4> QED BY <2>2, <3>1, <4>1
        <3>2. CASE d # c
            <4>1. caller'[d] = caller[d] /\ CallerOK(caller[d])
                BY <2>2, <3>2 DEF TafInv, CallersOK
            <4>2. caller[d].fetch \in DOMAIN fetches =>
                    caller[d].fetch \in DOMAIN fetches' /\ fetches'[caller[d].fetch] = fetches[caller[d].fetch]
                BY <1>3
            <4>3. PICK k : k = caller[d]
                OBVIOUS
            <4>4. CallerOK(k)'
                BY <4>1, <4>2, <4>3 DEF CallerOK, Justified, Served
            <4> QED BY <4>1, <4>3, <4>4
        <3> QED BY <3>1, <3>2
    <2>4. \A d \in Callers : d # c /\ caller[d].at = "start" => caller[d].fetch # new
        BY <1>3 DEF TafInv, CallersOK, CallerOK
    <2>5. OneStarts'
        <3>1. \A d, e \in Callers : /\ caller'[d].at = "start" /\ caller'[e].at = "start"
                                   /\ caller'[d].fetch = caller'[e].fetch => d = e
            <4>1. \A d, e \in Callers : /\ caller[d].at = "start" /\ caller[e].at = "start"
                                       /\ caller[d].fetch = caller[e].fetch => d = e
                BY DEF TafInv, CallersOK, OneStarts
            <4>2. \A d \in Callers : caller'[d].at = "start" /\ caller'[d].fetch = new => d = c
                BY <2>2, <2>4
            <4>3. \A d \in Callers : caller'[d].at = "start" /\ caller'[d].fetch # new
                                     => caller'[d] = caller[d]
                BY <2>1, <2>2
            <4> QED BY <4>1, <4>2, <4>3, ZenonT(60)
        <3>2. ASSUME NEW f \in DOMAIN fetches', fetches'[f].state = "starting"
              PROVE  \E d \in Callers : caller'[d].at = "start" /\ caller'[d].fetch = f
            <4>1. CASE f = new
                BY <2>1, <2>2, <4>1
            <4>2. CASE f # new
                <5>1. f \in DOMAIN fetches /\ fetches'[f] = fetches[f]
                    BY <1>3, <4>2
                <5>2. PICK d \in Callers : caller[d].at = "start" /\ caller[d].fetch = f
                    BY <3>2, <5>1 DEF TafInv, CallersOK, OneStarts
                <5> QED BY <2>2, <5>2
            <4> QED BY <4>1, <4>2
        <3> QED BY <3>1, <3>2 DEF OneStarts
    <2> QED BY <2>2, <2>3, <2>5 DEF CallersOK
<1> QED BY <1>5, <1>6, <1>7, <1>8 DEF TafInv, ClockOK, CacheOK, Served

\* A calculation consults the service.
LEMMA ConsultKeeps == ASSUME TafInv, NEW c \in Callers, Consult(c) PROVE TafInv'
<1> DEFINE a == caller[c].airport
<1>1. caller[c].at = "ask" /\ UNCHANGED <<tafClock, upstream, cache>>
    BY DEF Consult
<1>2. \/ /\ UNCHANGED <<inflight, fetches, slots>>
         /\ \/ Fresh(a) /\ Used(c, Select(cache[a].records, a, caller[c].arrival))
            \/ Used(c, Unavailable)
      \/ /\ inflight[a] # NoFetch /\ UNCHANGED <<inflight, fetches, slots>>
         /\ caller' = [caller EXCEPT ![c].at = "wait", ![c].fetch = inflight[a]]
      \/ /\ inflight[a] = NoFetch /\ slots > 0
         /\ slots' = slots - 1
         /\ fetches' = Append(fetches, NewFetch(a))
         /\ inflight' = [inflight EXCEPT ![a] = Len(fetches) + 1]
         /\ caller' = [caller EXCEPT ![c].at = "start", ![c].fetch = Len(fetches) + 1]
    BY DEF Consult
<1> QED BY <1>1, <1>2, ConsultAnswers, ConsultJoins, ConsultBegins

\* The thread that begins a download, and the only one.
LEMMA InStart ==
  ASSUME TafInv, NEW c \in Callers, caller[c].at = "start"
  PROVE  LET f == caller[c].fetch IN
         /\ f \in DOMAIN fetches /\ fetches[f] \in Fetches /\ f \in Holding /\ f \in Downloading
         /\ fetches[f].airport = caller[c].airport /\ fetches[f].state = "starting"
         /\ inflight[caller[c].airport] = f /\ caller[c].airport \in TafAirports
         /\ \A d \in Callers : d # c /\ caller[d].at = "start" => caller[d].fetch # f
<1>1. CallerOK(caller[c])
    BY DEF TafInv, CallersOK
<1>2. /\ caller[c].fetch \in DOMAIN fetches /\ fetches[caller[c].fetch].airport = caller[c].airport
      /\ fetches[caller[c].fetch].state = "starting" /\ caller[c].airport \in TafAirports
    BY <1>1 DEF CallerOK
<1>3. caller[c].fetch \in Holding /\ caller[c].fetch \in Downloading
    BY <1>2 DEF Holding, Downloading
<1>4. inflight[caller[c].airport] = caller[c].fetch
    BY <1>2, <1>3 DEF TafInv, InflightOK
<1>5. \A d \in Callers : d # c /\ caller[d].at = "start" => caller[d].fetch # caller[c].fetch
    BY DEF TafInv, CallersOK, OneStarts
<1> QED BY <1>2, <1>3, <1>4, <1>5, FetchDomain

\* Its thread starts or not: the download is not starting any more.
LEMMA LeavesStart ==
  ASSUME TafInv, NEW c \in Callers, caller[c].at = "start", NEW at \in {"wait", "raise"},
         NEW state \in {"running", "stored"},
         fetches' = [fetches EXCEPT ![caller[c].fetch].state = state],
         caller' = [caller EXCEPT ![c].at = at],
         UNCHANGED <<upstream, slots>>
  PROVE  /\ FetchesOK' /\ SlotsOK' /\ CallersOK'
         /\ DOMAIN fetches' = DOMAIN fetches /\ fetches'[caller[c].fetch].state = state
         /\ \A g \in DOMAIN fetches : /\ fetches'[g].airport = fetches[g].airport
                                      /\ g # caller[c].fetch => fetches'[g].state = fetches[g].state
<1>0. PICK f : f = caller[c].fetch
    OBVIOUS
<1>1. /\ f \in DOMAIN fetches /\ fetches[f] \in Fetches /\ fetches[f].state = "starting"
      /\ \A d \in Callers : d # c /\ caller[d].at = "start" => caller[d].fetch # f
    BY <1>0, InStart
<1>2. PICK r : r = [fetches[f] EXCEPT !.state = state]
    OBVIOUS
<1>3. /\ r \in Fetches /\ r.airport = fetches[f].airport /\ r.state = state /\ r.records = fetches[f].records
    BY <1>1, <1>2 DEF Fetches, FetchStates
<1>4. fetches' = [fetches EXCEPT ![f] = r]
    BY <1>0, <1>2
<1>5. /\ fetches' \in Seq(Fetches) /\ DOMAIN fetches' = DOMAIN fetches /\ fetches'[f] = r
      /\ \A g \in DOMAIN fetches : g # f => fetches'[g] = fetches[g]
    BY <1>1, <1>3, <1>4, OneFetchChanges
<1>6. \A g \in DOMAIN fetches : /\ fetches'[g].airport = fetches[g].airport
                                /\ fetches'[g].records = fetches[g].records
                                /\ g # f => fetches'[g].state = fetches[g].state
    BY <1>3, <1>5
<1>7. FetchesOK'
    BY <1>5, <1>6 DEF TafInv, FetchesOK, Served
<1>8. SlotsOK'
    BY <1>1, <1>3, <1>5, <1>6, FetchKeepsSlot
<1>9. CallersOK'
    <2>1. PICK n : n = [caller[c] EXCEPT !.at = at]
        OBVIOUS
    <2>2. caller[c] \in Calculations /\ CallerOK(caller[c])
        BY DEF TafInv, CallersOK
    <2>3. /\ n \in Calculations /\ n.at = at /\ n.airport = caller[c].airport /\ n.fetch = f
          /\ n.shown = caller[c].shown /\ n.made = caller[c].made
        BY <1>0, <2>1, <2>2 DEF Calculations, Places
    <2>4. /\ caller' \in [Callers -> Calculations] /\ caller'[c] = n
          /\ \A d \in Callers : d # c => caller'[d] = caller[d]
        BY <2>1, <2>3 DEF TafInv, CallersOK
    <2>5. CallerOK(n)'
        BY <1>0, <1>5, <1>6, <2>2, <2>3 DEF CallerOK
    <2>6. ASSUME NEW d \in Callers, d # c PROVE CallerOK(caller[d])'
        <3>1. caller'[d] = caller[d] /\ CallerOK(caller[d])
            BY <2>4, <2>6 DEF TafInv, CallersOK
        <3>2. caller[d].at = "start" => caller[d].fetch # f
            BY <1>1, <2>6
        <3> QED BY <1>5, <1>6, <3>1, <3>2 DEF CallerOK, Justified, Served
    <2>7. OneStarts'
        <3>1. \A d \in Callers : caller'[d].at = "start" => d # c /\ caller'[d] = caller[d]
            BY <2>3, <2>4
        <3>2. \A d, e \in Callers : /\ caller'[d].at = "start" /\ caller'[e].at = "start"
                                   /\ caller'[d].fetch = caller'[e].fetch => d = e
            BY <3>1 DEF TafInv, CallersOK, OneStarts
        <3>3. ASSUME NEW g \in DOMAIN fetches', fetches'[g].state = "starting"
              PROVE  \E d \in Callers : caller'[d].at = "start" /\ caller'[d].fetch = g
            <4>1. g # f /\ g \in DOMAIN fetches /\ fetches[g].state = "starting"
                BY <1>3, <1>5, <1>6, <3>3
            <4>2. PICK d \in Callers : caller[d].at = "start" /\ caller[d].fetch = g
                BY <4>1 DEF TafInv, CallersOK, OneStarts
            <4>3. d # c
                BY <1>0, <4>1, <4>2
            <4> QED BY <2>4, <4>2, <4>3
        <3> QED BY <3>2, <3>3 DEF OneStarts
    <2> QED BY <2>4, <2>5, <2>6, <2>7 DEF CallersOK
<1> QED BY <1>0, <1>3, <1>5, <1>6, <1>7, <1>8, <1>9

\* The thread of a download starts.
LEMMA WorkerStartsKeeps == ASSUME TafInv, NEW c \in Callers, WorkerStarts(c) PROVE TafInv'
<1>1. PICK f : f = caller[c].fetch
    OBVIOUS
<1>2. /\ caller[c].at = "start" /\ UNCHANGED <<tafClock, upstream, cache, inflight, slots>>
      /\ f \in DOMAIN fetches /\ fetches[f].state = "starting"
    BY <1>1, InStart DEF WorkerStarts
<1>3. /\ FetchesOK' /\ SlotsOK' /\ CallersOK'
      /\ DOMAIN fetches' = DOMAIN fetches /\ fetches'[f].state = "running"
      /\ \A g \in DOMAIN fetches : /\ fetches'[g].airport = fetches[g].airport
                                   /\ g # f => fetches'[g].state = fetches[g].state
    BY <1>1, LeavesStart DEF WorkerStarts
<1>4. Downloading' = Downloading /\ Downloading \subseteq DOMAIN fetches
    BY <1>2, <1>3 DEF Holding, Downloading
<1>5. InflightOK'
    BY <1>2, <1>3, <1>4 DEF TafInv, InflightOK
<1> QED BY <1>2, <1>3, <1>5 DEF TafInv, ClockOK, CacheOK, Served

\* A download that works no more is no longer in flight for its airport.
LEMMA LeavesInflight ==
  ASSUME TafInv, NEW f \in Downloading, DOMAIN fetches' = DOMAIN fetches, fetches'[f].state = "stored",
         \A g \in DOMAIN fetches : /\ fetches'[g].airport = fetches[g].airport
                                   /\ g # f => fetches'[g].state = fetches[g].state,
         inflight' = [inflight EXCEPT ![fetches[f].airport] = NoFetch]
  PROVE  InflightOK'
<1>1. /\ f \in DOMAIN fetches /\ Downloading \subseteq DOMAIN fetches /\ fetches[f].airport \in TafAirports
      /\ \A g \in Downloading : fetches[g].airport \in TafAirports
    BY FetchDomain DEF Downloading, Holding, Fetches
<1>2. Downloading' = Downloading \ {f}
    BY <1>1 DEF Downloading, Holding
<1>3. /\ inflight' \in [TafAirports -> Nat \cup {NoFetch}] /\ inflight'[fetches[f].airport] = NoFetch
      /\ \A a \in TafAirports : a # fetches[f].airport => inflight'[a] = inflight[a]
    BY <1>1 DEF TafInv, InflightOK
<1>4. \A g \in Downloading : inflight[fetches[g].airport] = g
    BY DEF TafInv, InflightOK
<1>5. \A a \in TafAirports : inflight'[a] # NoFetch =>
          inflight'[a] \in Downloading' /\ fetches'[inflight'[a]].airport = a
    BY <1>1, <1>2, <1>3 DEF TafInv, InflightOK
<1>6. \A g \in Downloading' : inflight'[fetches'[g].airport] = g
    BY <1>1, <1>2, <1>3, <1>4
<1> QED BY <1>3, <1>5, <1>6 DEF InflightOK

\* It cannot be started: the slot stays taken until the download says that it ended.
LEMMA WorkerCannotStartKeeps == ASSUME TafInv, NEW c \in Callers, WorkerCannotStart(c) PROVE TafInv'
<1>1. PICK f : f = caller[c].fetch
    OBVIOUS
<1>2. /\ caller[c].at = "start" /\ UNCHANGED <<tafClock, upstream, cache, slots>>
      /\ f \in Downloading /\ fetches[f].airport = caller[c].airport
    BY <1>1, InStart DEF WorkerCannotStart
<1>3. /\ FetchesOK' /\ SlotsOK' /\ CallersOK'
      /\ DOMAIN fetches' = DOMAIN fetches /\ fetches'[f].state = "stored"
      /\ \A g \in DOMAIN fetches : /\ fetches'[g].airport = fetches[g].airport
                                   /\ g # f => fetches'[g].state = fetches[g].state
    BY <1>1, LeavesStart DEF WorkerCannotStart
<1>4. inflight' = [inflight EXCEPT ![fetches[f].airport] = NoFetch]
    BY <1>2 DEF WorkerCannotStart
<1>5. InflightOK'
    BY <1>2, <1>3, <1>4, LeavesInflight
<1> QED BY <1>2, <1>3, <1>5 DEF TafInv, ClockOK, CacheOK, Served

-----------------------------------------------------------------------------
(* A download's steps.                                                     *)

\* A download that runs or has ended goes on: calculations and what is kept are fine.
LEMMA FetchGoesOn ==
  ASSUME TafInv, NEW f \in DOMAIN fetches, fetches[f].state # "starting",
         NEW r \in Fetches, r.airport = fetches[f].airport, r.state # "starting",
         r.records # NoFetch => r.records \in Served(r.airport),
         fetches' = [fetches EXCEPT ![f] = r], UNCHANGED <<upstream, caller>>
  PROVE  /\ FetchesOK' /\ CallersOK'
         /\ DOMAIN fetches' = DOMAIN fetches /\ fetches'[f] = r
         /\ \A g \in DOMAIN fetches : /\ fetches'[g].airport = fetches[g].airport
                                      /\ g # f => fetches'[g].state = fetches[g].state
<1>1. /\ fetches' \in Seq(Fetches) /\ DOMAIN fetches' = DOMAIN fetches /\ fetches'[f] = r
      /\ \A g \in DOMAIN fetches : g # f => fetches'[g] = fetches[g]
    BY OneFetchChanges
<1>2. \A g \in DOMAIN fetches : /\ fetches'[g].airport = fetches[g].airport
                                /\ g # f => fetches'[g].state = fetches[g].state
    BY <1>1
<1>3. FetchesOK'
    BY <1>1 DEF TafInv, FetchesOK, Served
<1>4. ASSUME NEW c \in Callers PROVE CallerOK(caller[c])'
    <2>1. CallerOK(caller[c])
        BY DEF TafInv, CallersOK
    <2>2. caller[c].at = "start" => caller[c].fetch # f
        BY <2>1 DEF CallerOK
    <2> QED BY <1>1, <1>2, <2>1, <2>2 DEF CallerOK, Justified, Served
<1>5. OneStarts'
    BY <1>1, <1>2 DEF TafInv, CallersOK, OneStarts
<1>6. CallersOK'
    BY <1>4, <1>5 DEF TafInv, CallersOK
<1> QED BY <1>1, <1>2, <1>3, <1>6

\* The service answers, or does not.
LEMMA DownloadKeeps == ASSUME TafInv, NEW f \in DOMAIN fetches, Download(f) PROVE TafInv'
<1>1. fetches[f] \in Fetches /\ fetches[f].airport \in TafAirports /\ fetches[f].state = "running"
      /\ UNCHANGED <<tafClock, upstream, cache, inflight, slots, caller>>
    BY FetchDomain DEF Download, Fetches
<1>2. PICK records \in {Responses[fetches[f].airport][upstream], NoFetch} :
        fetches' = [fetches EXCEPT ![f].state = "downloaded", ![f].records = records, ![f].at = tafClock]
    BY DEF Download
<1>3. PICK r : r = [fetches[f] EXCEPT !.state = "downloaded", !.records = records, !.at = tafClock]
    OBVIOUS
<1>4. records # NoFetch => records \in Served(fetches[f].airport)
    BY <1>1, ServedOnes
<1>5. records \in Given /\ tafClock \in Nat
    BY <1>1, <1>4, ServedOnes DEF Given, TafInv, ClockOK
<1>6. r \in Fetches /\ r.airport = fetches[f].airport /\ r.state = "downloaded" /\ r.records = records
    BY <1>1, <1>3, <1>5 DEF Fetches, FetchStates
<1>7. fetches' = [fetches EXCEPT ![f] = r]
    BY <1>2, <1>3
<1>8. /\ FetchesOK' /\ CallersOK'
      /\ DOMAIN fetches' = DOMAIN fetches /\ fetches'[f] = r
      /\ \A g \in DOMAIN fetches : /\ fetches'[g].airport = fetches[g].airport
                                   /\ g # f => fetches'[g].state = fetches[g].state
    BY <1>1, <1>4, <1>6, <1>7, FetchGoesOn
<1>9. SlotsOK' /\ Holding' = Holding
    BY <1>1, <1>6, <1>8, FetchKeepsSlot
<1>10. Downloading' = Downloading /\ Downloading \subseteq DOMAIN fetches
    BY <1>1, <1>6, <1>8 DEF Holding, Downloading
<1>11. InflightOK'
    BY <1>1, <1>8, <1>10 DEF TafInv, InflightOK
<1> QED BY <1>1, <1>8, <1>9, <1>11 DEF TafInv, ClockOK, CacheOK, Served

\* What it answered is kept for the airport, and the airport may be asked again.
LEMMA StoreKeeps == ASSUME TafInv, NEW f \in DOMAIN fetches, Store(f) PROVE TafInv'
<1> DEFINE a == fetches[f].airport
<1>1. /\ fetches[f] \in Fetches /\ a \in TafAirports /\ fetches[f].state = "downloaded"
      /\ fetches' = [fetches EXCEPT ![f].state = "stored"]
      /\ UNCHANGED <<tafClock, upstream, slots, caller>>
    BY FetchDomain DEF Store, Advance, Fetches
<1>2. PICK r : r = [fetches[f] EXCEPT !.state = "stored"]
    OBVIOUS
<1>3. r \in Fetches /\ r.airport = a /\ r.state = "stored" /\ r.records = fetches[f].records
    BY <1>1, <1>2 DEF Fetches, FetchStates
<1>4. fetches' = [fetches EXCEPT ![f] = r]
    BY <1>1, <1>2
<1>5. fetches[f].records # NoFetch => fetches[f].records \in Served(a)
    BY DEF TafInv, FetchesOK
<1>6. /\ FetchesOK' /\ CallersOK'
      /\ DOMAIN fetches' = DOMAIN fetches /\ fetches'[f] = r
      /\ \A g \in DOMAIN fetches : /\ fetches'[g].airport = fetches[g].airport
                                   /\ g # f => fetches'[g].state = fetches[g].state
    <2>1. /\ fetches[f].state # "starting" /\ r.state # "starting" /\ UNCHANGED <<upstream, caller>>
          /\ r.records # NoFetch => r.records \in Served(r.airport)
        BY <1>1, <1>3, <1>5
    <2> QED BY <1>3, <1>4, <2>1, FetchGoesOn
<1>7. SlotsOK'
    BY <1>1, <1>3, <1>6, FetchKeepsSlot
<1>8. f \in Downloading
    BY <1>1 DEF Downloading, Holding
<1>9. inflight[a] = f
    BY <1>8 DEF TafInv, InflightOK
<1>10. InflightOK'
    <2>1. inflight' = [inflight EXCEPT ![fetches[f].airport] = NoFetch]
        BY <1>9 DEF Store
    <2> QED BY <1>3, <1>6, <1>8, <2>1, LeavesInflight
<1>11. CacheOK'
    <2>1. CASE cache' = cache
        BY <1>1, <2>1 DEF TafInv, CacheOK, Served
    <2>2. CASE /\ fetches[f].records # NoFetch
               /\ cache' = [cache EXCEPT ![a] = [at |-> fetches[f].at, records |-> fetches[f].records]]
        <3>1. [at |-> fetches[f].at, records |-> fetches[f].records] \in Caches
            BY <1>1 DEF Fetches, Caches
        <3>2. /\ cache' \in [TafAirports -> Caches] /\ cache'[a].records = fetches[f].records
              /\ \A b \in TafAirports : b # a => cache'[b] = cache[b]
            BY <1>1, <2>2, <3>1 DEF TafInv, CacheOK
        <3>3. \A b \in TafAirports : cache'[b].records # NoFetch => cache'[b].records \in Served(b)
            BY <1>5, <3>2 DEF TafInv, CacheOK
        <3> QED BY <1>1, <3>2, <3>3 DEF CacheOK, Served
    <2> QED BY <2>1, <2>2 DEF Store
<1> QED BY <1>1, <1>6, <1>7, <1>10, <1>11 DEF TafInv, ClockOK

\* It frees its slot, then wakes those that wait for it.
LEMMA EndsKeep == ASSUME TafInv, NEW f \in DOMAIN fetches, Release(f) \/ Complete(f) PROVE TafInv'
<1>1. PICK state \in {"released", "completed"} :
        /\ fetches' = [fetches EXCEPT ![f].state = state]
        /\ \/ state = "released" /\ fetches[f].state = "stored" /\ slots' = slots + 1
           \/ state = "completed" /\ fetches[f].state = "released" /\ slots' = slots
    BY DEF Release, Complete, Advance
<1>2. fetches[f] \in Fetches /\ UNCHANGED <<tafClock, upstream, cache, inflight, caller>>
    BY FetchDomain DEF Release, Complete
<1>3. PICK r : r = [fetches[f] EXCEPT !.state = state]
    OBVIOUS
<1>4. r \in Fetches /\ r.airport = fetches[f].airport /\ r.state = state /\ r.records = fetches[f].records
    BY <1>2, <1>3 DEF Fetches, FetchStates
<1>5. fetches' = [fetches EXCEPT ![f] = r]
    BY <1>1, <1>3
<1>6. fetches[f].records # NoFetch => fetches[f].records \in Served(fetches[f].airport)
    BY DEF TafInv, FetchesOK
<1>7. /\ FetchesOK' /\ CallersOK'
      /\ DOMAIN fetches' = DOMAIN fetches /\ fetches'[f] = r
      /\ \A g \in DOMAIN fetches : /\ fetches'[g].airport = fetches[g].airport
                                   /\ g # f => fetches'[g].state = fetches[g].state
    <2>1. /\ fetches[f].state # "starting" /\ r.state # "starting" /\ UNCHANGED <<upstream, caller>>
          /\ r.records # NoFetch => r.records \in Served(r.airport)
        BY <1>1, <1>2, <1>4, <1>6
    <2> QED BY <1>4, <1>5, <2>1, FetchGoesOn
<1>8. Downloading' = Downloading /\ Downloading \subseteq DOMAIN fetches
    BY <1>1, <1>4, <1>7 DEF Holding, Downloading
<1>9. InflightOK'
    BY <1>2, <1>7, <1>8 DEF TafInv, InflightOK
<1>10. SlotsOK'
    <2>1. CASE state = "released"
        <3>1. f \in Holding /\ Holding' = Holding \ {f}
            BY <1>1, <1>4, <1>7, <2>1 DEF Holding
        <3>2. Cardinality(Holding') = Cardinality(Holding) - 1 /\ Cardinality(Holding) \in Nat
            BY <3>1, HoldingIsFinite, FS_RemoveElement
        <3>3. slots' = slots + 1 /\ slots \in Nat /\ slots + Cardinality(Holding) = MaxSlots
            BY <1>1, <2>1 DEF TafInv, SlotsOK
        <3>4. slots' \in Nat /\ slots' + Cardinality(Holding') = MaxSlots
            BY <3>2, <3>3
        <3> QED BY <3>4 DEF SlotsOK
    <2>2. CASE state = "completed"
        <3>1. Holding' = Holding
            BY <1>1, <1>4, <1>7, <2>2 DEF Holding
        <3> QED BY <1>1, <2>2, <3>1 DEF TafInv, SlotsOK
    <2> QED BY <2>1, <2>2
<1> QED BY <1>2, <1>7, <1>9, <1>10 DEF TafInv, ClockOK, CacheOK, Served

\* The service changes its answer, or time passes: what was given stays given.
LEMMA WorldKeeps ==
  ASSUME TafInv, tafClock' \in {tafClock, tafClock + 1}, upstream' \in {upstream, upstream + 1},
         UNCHANGED <<cache, inflight, fetches, slots, caller>>
  PROVE  TafInv'
<1>1. ClockOK' /\ \A a : Served(a) \subseteq Served(a)'
    BY DEF TafInv, ClockOK, Served
<1>2. CacheOK'
    BY <1>1 DEF TafInv, CacheOK
<1>3. ASSUME NEW c \in Callers PROVE CallerOK(caller[c])'
    BY <1>1 DEF TafInv, CallersOK, CallerOK, Justified
<1>4. CallersOK'
    BY <1>3 DEF TafInv, CallersOK, OneStarts
<1> QED BY <1>1, <1>2, <1>4, SameDownloads DEF TafInv

\* Every step keeps the invariant.
LEMMA TafNextKeeps == ASSUME TafInv, [TafNext]_tafVars PROVE TafInv'
<1>1. CASE UNCHANGED tafVars \/ Publish \/ TafTick
    BY <1>1, WorldKeeps DEF tafVars, Publish, TafTick
<1>2. CASE TafNext /\ ~Publish /\ ~TafTick
    BY <1>2, BeginKeeps, AnswerKeeps, ConsultKeeps, WorkerStartsKeeps, WorkerCannotStartKeeps, LateKeeps,
       DownloadKeeps, StoreKeeps, EndsKeep DEF TafNext
<1> QED BY <1>1, <1>2

\* The inductive invariant holds throughout, whatever the service answers and when.
THEOREM TafInductive == TafSpec => []TafInv
BY TafInitInv, TafNextKeeps, PTL DEF TafSpec

\* Downloads are shared and never lost, and the wind a calculation shows is its own:
\* DestinationTaf's DestinationWindSound.
THEOREM WindsSound == TafSpec => []DestinationWindSound
<1>1. TafInv => DownloadsShared
    BY TafBounds DEF TafInv, SlotsOK, InflightOK, CallersOK, OneStarts, DownloadsShared
<1>2. TafInv => WindIsItsOwn
    BY DEF TafInv, CallersOK, CallerOK, Justified, Served, WindIsItsOwn
<1> QED BY <1>1, <1>2, TafInductive, PTL DEF DestinationWindSound
=============================================================================
