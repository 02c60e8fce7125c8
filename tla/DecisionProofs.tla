---------------------------- MODULE DecisionProofs ----------------------------
(***************************************************************************)
(* Proofs about what the program allows: the budget of refresh requests    *)
(* (ExternalTriggerGate), whether a NAV LOG may be copied (Readiness) and   *)
(* what a calculation in the browser leaves behind (LocalCalculation), for  *)
(* any limits, requests, releases, drafts and forecasts.                    *)
(***************************************************************************)
EXTENDS ExternalTriggerGate, Readiness, LocalCalculation, FiniteSetTheorems, SequenceTheorems,
        WellFoundedInduction, TLAPS

-----------------------------------------------------------------------------
(* ExternalTriggerGate: at most one run holds the concurrency group, and     *)
(* what it has read covers every request that passed before it.              *)

\* The group has one holder, who alone is past the queue.
OneHolder ==
  /\ \A i \in Ids : wfruns[i].status = "in_progress" <=>
                      wfruns[i].step \in {"history", "active", "lock", "detect", "work"}
  /\ \A i \in Ids : wfruns[i].status = "pending" => wfruns[i].step = "queued"
  /\ \A i, j \in Holders : i = j

\* Runs are numbered in the order of their creation.
CreatedInOrder ==
  /\ \A i \in Ids : wfruns[i].created <= clock
  /\ \A i, j \in Ids : i <= j => wfruns[i].created <= wfruns[j].created

\* The gate is for requests from outside; heavy work was let through by it.
GatedOnly ==
  \A i \in Ids :
    /\ wfruns[i].step \in {"history", "active", "lock"} \/ wfruns[i].passed => External(i)
    /\ wfruns[i].heavy => wfruns[i].passed /\ wfruns[i].step \in {"work", "end"}

\* The holder has read every earlier and every passed request of its window,
\* and saw nothing active that is not itself or waiting.
EvidenceCovers ==
  \A i \in Ids :
    /\ wfruns[i].step \in {"active", "lock"} =>
         \A j \in Ids : (j < i \/ wfruns[j].passed) /\ wfruns[j].created >= Since(i, gate.now)
                          => j \in gate.seen
    /\ wfruns[i].step = "lock" => gate.active \subseteq {i} \cup Waiters

\* A request passes only the cooldown after every earlier one of its window,
\* also after those that had not passed yet.
PassesAfterAll ==
  \A i, j \in Ids :
    i < j /\ External(i) /\ wfruns[j].passed /\ InWindow(i, Day(wfruns[j].created) * DayLength)
      => wfruns[j].created - wfruns[i].created >= Cooldown

GateInv == /\ GateTypeOK /\ WaitersAreNoConflict /\ HeavyPerRunBounded /\ PassesPerDayBounded
           /\ PassesAfterAll /\ OneHolder /\ CreatedInOrder /\ GatedOnly /\ EvidenceCovers

\* What the assumption says.
LEMMA GateBounds ==
  /\ Cooldown \in Nat /\ DailyLimit \in Nat /\ PerRunLimit \in Nat
  /\ DayLength \in Nat \ {0} /\ RunLength \in Nat \ {0}
  /\ MaxWorkflowRuns \in Nat /\ MaxClock \in Nat
  /\ DailyLimit >= 1 /\ PerRunLimit >= 1
BY GateAssumption DEF GateAssumption

\* Dividing a time by a length, and multiplying again.
LEMMA Division ==
  ASSUME NEW t \in Nat, NEW d \in Nat \ {0}
  PROVE  t \div d \in Nat /\ (t \div d) * d <= t /\ d * (t \div d) <= t /\ t < d * (t \div d) + d
OBVIOUS

\* Later times are in later days and Runs.
LEMMA DivisionMonotone ==
  ASSUME NEW s \in Nat, NEW t \in Nat, s <= t, NEW d \in Nat \ {0}
  PROVE  s \div d <= t \div d
<1>1. PICK q, r : q = s \div d /\ r = t \div d
    OBVIOUS
<1>2. q \in Nat /\ r \in Nat /\ d * q <= s /\ t < d * r + d
    BY <1>1, Division
<1>3. ASSUME q > r PROVE FALSE
    <2>1. q >= r + 1
        BY <1>2, <1>3
    <2>2. d * q >= d * (r + 1)
        BY <1>2, <2>1
    <2> QED BY <1>2, <2>2
<1> QED BY <1>1, <1>2, <1>3

\* The Run that is newest now is one of those the model knows.
LEMMA NewestIsKnown ==
  ASSUME clock \in 0 .. MaxClock
  PROVE  Newest \in ForecastRuns /\ Newest \in Nat
<1>1. clock \in Nat /\ clock <= MaxClock /\ MaxClock \in Nat /\ RunLength \in Nat \ {0}
    BY GateBounds
<1>2. /\ clock \div RunLength \in Nat /\ MaxClock \div RunLength \in Nat
      /\ clock \div RunLength <= MaxClock \div RunLength
    BY <1>1, Division, DivisionMonotone
<1>3. PICK q, r : q = clock \div RunLength /\ r = MaxClock \div RunLength
    OBVIOUS
<1>4. 1 + q \in 0 .. (1 + r)
    BY <1>2, <1>3
<1> QED BY <1>2, <1>3, <1>4 DEF Newest, RunAt, ForecastRuns

\* A run has a day, and its window begins at a number.
LEMMA RunNumbersOf ==
  ASSUME GateTypeOK, NEW i \in Ids
  PROVE  /\ wfruns[i] \in WorkflowRun /\ wfruns[i].created \in Nat /\ wfruns[i].created <= MaxClock
         /\ Day(wfruns[i].created) \in Nat
         /\ Day(wfruns[i].created) * DayLength \in Nat
         /\ Day(wfruns[i].created) * DayLength <= wfruns[i].created
         /\ gate.now \in Nat /\ gate.now <= clock /\ clock \in Nat /\ Len(wfruns) \in Nat
         /\ Since(i, gate.now) \in Int
         /\ Since(i, gate.now) <= Day(wfruns[i].created) * DayLength
         /\ Since(i, gate.now) <= gate.now - DayLength
<1>1. wfruns \in Seq(WorkflowRun) /\ Len(wfruns) \in Nat
    BY LenProperties DEF GateTypeOK
<1>2. wfruns[i] \in WorkflowRun
    BY <1>1, ElementOfSeq DEF Ids
<1>3. wfruns[i].created \in Nat /\ wfruns[i].created <= MaxClock
    BY <1>2, GateBounds DEF WorkflowRun
<1>4. /\ Day(wfruns[i].created) \in Nat
      /\ Day(wfruns[i].created) * DayLength <= wfruns[i].created
    BY <1>3, GateBounds, Division DEF Day
<1>5. gate.now \in Nat /\ gate.now <= clock /\ clock \in Nat
    BY GateBounds DEF GateTypeOK
<1>6. PICK d : d = Day(wfruns[i].created) * DayLength
    OBVIOUS
<1>7. d \in Nat
    BY <1>4, <1>6, GateBounds
<1>8. Since(i, gate.now) = IF d < gate.now - DayLength THEN d ELSE gate.now - DayLength
    BY <1>6 DEF Since, Smaller
<1>9. Since(i, gate.now) \in Int /\ Since(i, gate.now) <= d /\ Since(i, gate.now) <= gate.now - DayLength
    BY <1>5, <1>7, <1>8, GateBounds
<1> QED BY <1>1, <1>2, <1>3, <1>4, <1>5, <1>6, <1>7, <1>9

\* The runs are finitely many, and so is every set of them.
LEMMA RunsAreFinite ==
  ASSUME Len(wfruns) \in Nat, NEW S, S \subseteq Ids
  PROVE  IsFiniteSet(S) /\ Cardinality(S) \in Nat /\ \A T : T \subseteq S => Cardinality(T) <= Cardinality(S)
<1>1. IsFiniteSet(Ids)
    BY FS_Interval DEF Ids
<1>2. IsFiniteSet(S)
    BY <1>1, FS_Subset
<1> QED BY <1>2, FS_CardinalityType, FS_Subset

\* Where nothing passes and nothing heavy begins, the three bounds stay.
LEMMA BoundsStay ==
  ASSUME GateInv, clock' \in Nat, clock' >= clock, Len(wfruns') \in Nat,
         \A j \in Ids' : wfruns'[j].passed =>
           j \in Ids /\ wfruns[j].passed /\ wfruns'[j].created = wfruns[j].created,
         \A j \in Ids' : wfruns'[j].heavy =>
           /\ j \in Ids /\ wfruns[j].heavy /\ wfruns'[j].created = wfruns[j].created
           /\ wfruns'[j].detected = wfruns[j].detected /\ wfruns'[j].title = wfruns[j].title,
         \A j \in Ids : wfruns'[j].created = wfruns[j].created /\ wfruns'[j].title = wfruns[j].title
  PROVE  HeavyPerRunBounded' /\ PassesPerDayBounded' /\ PassesAfterAll'
<1> USE DEF GateInv
<1>1. clock \in Nat /\ Len(wfruns) \in Nat
    BY LenProperties, GateBounds DEF GateTypeOK
<1>2. ASSUME NEW i \in Ids, NEW start \in Int, wfruns'[i].created >= Smaller(clock' - DayLength, start)
      PROVE  wfruns[i].created >= Smaller(clock - DayLength, start)
    <2>1. wfruns[i].created \in Nat /\ wfruns'[i].created = wfruns[i].created /\ DayLength \in Nat
        BY RunNumbersOf, GateBounds
    <2>2. PICK c, d, l, x : c = clock /\ d = clock' /\ l = DayLength /\ x = wfruns[i].created
        OBVIOUS
    <2>3. /\ c \in Nat /\ d \in Nat /\ l \in Nat /\ x \in Nat /\ d >= c
          /\ x >= IF d - l < start THEN d - l ELSE start
        BY <1>1, <1>2, <2>1, <2>2 DEF Smaller
    <2>4. ASSUME start \in Int PROVE x >= IF c - l < start THEN c - l ELSE start
        BY ONLY <2>3, <2>4
    <2> QED BY <1>2, <2>2, <2>4 DEF Smaller
<1>3. HeavyPerRunBounded'
    <2> SUFFICES ASSUME NEW r \in ForecastRuns
                 PROVE  Cardinality({i \in Ids' : /\ External(i)' /\ wfruns'[i].heavy /\ wfruns'[i].detected = r
                                                  /\ InWindow(i, RunStart(r))'}) <= PerRunLimit
        BY DEF HeavyPerRunBounded, ForecastRuns, RunAt
    <2> DEFINE T == {i \in Ids' : /\ External(i)' /\ wfruns'[i].heavy /\ wfruns'[i].detected = r
                                  /\ InWindow(i, RunStart(r))'}
               S == {i \in Ids : /\ External(i) /\ wfruns[i].heavy /\ wfruns[i].detected = r
                                 /\ InWindow(i, RunStart(r))}
    <2>1. RunStart(r) \in Int
        <3>1. r \in Int /\ RunLength \in Int
            BY GateBounds DEF ForecastRuns
        <3> QED BY <3>1 DEF RunStart
    <2>2. T \subseteq S
        <3> SUFFICES ASSUME NEW i \in T PROVE i \in S
            OBVIOUS
        <3>1. /\ i \in Ids /\ wfruns[i].heavy /\ wfruns[i].detected = r
              /\ wfruns'[i].title = wfruns[i].title /\ External(i)'
            OBVIOUS
        <3>2. External(i)
            BY <3>1 DEF External
        <3>3. wfruns'[i].created >= Smaller(clock' - DayLength, RunStart(r))
            BY DEF InWindow, RunStart
        <3>4. InWindow(i, RunStart(r))
            BY <1>2, <2>1, <3>1, <3>3 DEF InWindow
        <3> QED BY <3>1, <3>2, <3>4
    <2>3. S \subseteq Ids
        OBVIOUS
    <2>4. Cardinality(S) <= PerRunLimit
        BY DEF HeavyPerRunBounded
    <2> HIDE DEF S, T
    <2>5. Cardinality(S) \in Nat /\ Cardinality(T) <= Cardinality(S) /\ Cardinality(T) \in Nat
        <3>1. T \subseteq Ids
            BY <2>2, <2>3
        <3> QED BY <1>1, <2>2, <2>3, <3>1, RunsAreFinite
    <2>6. Cardinality(T) <= PerRunLimit
        BY <2>4, <2>5, GateBounds
    <2> QED BY <2>6 DEF T
<1>4. PassesPerDayBounded'
    <2> SUFFICES ASSUME NEW i \in Ids'
                 PROVE  Cardinality({j \in Ids' : wfruns'[j].passed
                                       /\ Day(wfruns'[j].created) = Day(wfruns'[i].created)}) <= DailyLimit
        BY DEF PassesPerDayBounded, Day
    <2> DEFINE T == {j \in Ids' : wfruns'[j].passed /\ Day(wfruns'[j].created) = Day(wfruns'[i].created)}
    <2>1. CASE T = {}
        <3>1. Cardinality(T) = 0
            BY <2>1, FS_EmptySet
        <3> QED BY <3>1, GateBounds
    <2>2. CASE T # {}
        <3>1. PICK k \in T : TRUE
            BY <2>2
        <3> DEFINE S == {j \in Ids : wfruns[j].passed /\ Day(wfruns[j].created) = Day(wfruns[k].created)}
        <3>2. k \in Ids /\ Day(wfruns[k].created) = Day(wfruns'[i].created)
            BY <3>1
        <3>3. T \subseteq S /\ S \subseteq Ids
            BY <3>2
        <3>4. Cardinality(S) <= DailyLimit
            BY <3>2 DEF PassesPerDayBounded
        <3> HIDE DEF S, T
        <3>5. Cardinality(S) \in Nat /\ Cardinality(T) <= Cardinality(S) /\ Cardinality(T) \in Nat
            <4>1. T \subseteq Ids
                BY <3>3
            <4> QED BY <1>1, <3>3, <4>1, RunsAreFinite
        <3>6. Cardinality(T) <= DailyLimit
            BY <3>4, <3>5, GateBounds
        <3> QED BY <3>6 DEF T
    <2> QED BY <2>1, <2>2
<1>5. PassesAfterAll'
    <2> SUFFICES ASSUME NEW i \in Ids', NEW j \in Ids', i < j, External(i)', wfruns'[j].passed,
                        InWindow(i, Day(wfruns[j].created) * DayLength)',
                        wfruns'[i].created >= Smaller(clock' - DayLength, Day(wfruns'[j].created) * DayLength)
                 PROVE  wfruns'[j].created - wfruns'[i].created >= Cooldown
        BY DEF PassesAfterAll, InWindow, Day
    <2>1. j \in Ids /\ wfruns[j].passed /\ wfruns'[j].created = wfruns[j].created
        OBVIOUS
    <2>2. i \in Ids
        BY <1>1, <2>1 DEF Ids
    <2>3. wfruns'[i].created = wfruns[i].created /\ wfruns'[i].title = wfruns[i].title
        BY <2>2
    <2>4. External(i)
        BY <2>3 DEF External
    <2>5. Day(wfruns[j].created) * DayLength \in Int
        BY <2>1, RunNumbersOf
    <2>6. wfruns'[i].created >= Smaller(clock' - DayLength, Day(wfruns[j].created) * DayLength)
        BY <2>1
    <2>7. InWindow(i, Day(wfruns[j].created) * DayLength)
        BY <1>2, <2>2, <2>5, <2>6 DEF InWindow
    <2> QED BY <2>1, <2>2, <2>3, <2>4, <2>7 DEF PassesAfterAll
<1> QED BY <1>3, <1>4, <1>5

Busy == {"history", "active", "lock", "detect", "work"}

\* The holder, or the run that takes the free group, is the only one to change.
LEMMA HolderMoves ==
  ASSUME GateInv, NEW i \in Ids, Holders \subseteq {i},
         NEW run \in WorkflowRun, run.title = wfruns[i].title, run.created = wfruns[i].created,
         wfruns' = [wfruns EXCEPT ![i] = run], clock' = clock,
         run.status = "in_progress" <=> run.step \in Busy, run.status # "pending",
         run.step \in {"history", "active", "lock"} \/ run.passed => External(i),
         run.heavy => run.passed /\ run.step \in {"work", "end"},
         run.reason # "ACTIVE_CONFLICT"
  PROVE  /\ wfruns' \in Seq(WorkflowRun) /\ Len(wfruns') = Len(wfruns) /\ Ids' = Ids
         /\ wfruns'[i] = run /\ \A j \in Ids \ {i} : wfruns'[j] = wfruns[j]
         /\ \A j \in Ids : wfruns'[j].created = wfruns[j].created /\ wfruns'[j].title = wfruns[j].title
         /\ \A j \in Ids \ {i} : wfruns'[j].step \notin Busy
         /\ OneHolder' /\ CreatedInOrder' /\ GatedOnly' /\ WaitersAreNoConflict'
<1> USE DEF GateInv
<1>1. wfruns \in Seq(WorkflowRun) /\ i \in 1 .. Len(wfruns)
    BY DEF GateTypeOK, Ids
<1>2. /\ wfruns' \in Seq(WorkflowRun) /\ Len(wfruns') = Len(wfruns)
      /\ \A j \in 1 .. Len(wfruns) : wfruns'[j] = IF j = i THEN run ELSE wfruns[j]
    BY <1>1, ExceptSeq
<1>3. /\ Ids' = Ids /\ wfruns'[i] = run
      /\ \A j \in Ids \ {i} : wfruns'[j] = wfruns[j]
    BY <1>2 DEF Ids
<1>4. \A j \in Ids : wfruns'[j].created = wfruns[j].created /\ wfruns'[j].title = wfruns[j].title
    BY <1>3
<1>5. \A j \in Ids \ {i} : wfruns'[j].step \notin Busy /\ wfruns'[j].status # "in_progress"
    BY <1>3 DEF OneHolder, Busy, Holders
<1>6. OneHolder'
    <2>1. \A j \in Ids' : wfruns'[j].status = "in_progress" <=> wfruns'[j].step \in Busy
        BY <1>3, <1>5
    <2>2. Holders' \subseteq {i}
        BY <1>3, <1>5 DEF Holders
    <2>3. \A j \in Ids' : wfruns'[j].status = "pending" => wfruns'[j].step = "queued"
        BY <1>3 DEF OneHolder
    <2> QED BY <2>1, <2>2, <2>3 DEF OneHolder, Busy
<1>7. CreatedInOrder'
    BY <1>3, <1>4 DEF CreatedInOrder
<1>8. \A j \in Ids : External(j)' <=> External(j)
    BY <1>4 DEF External
<1>9. GatedOnly'
    <2> SUFFICES ASSUME NEW j \in Ids
                 PROVE  /\ wfruns'[j].step \in {"history", "active", "lock"} \/ wfruns'[j].passed => External(j)
                        /\ wfruns'[j].heavy => wfruns'[j].passed /\ wfruns'[j].step \in {"work", "end"}
        BY <1>3, <1>8 DEF GatedOnly
    <2> QED BY <1>3 DEF GatedOnly
<1>10. WaitersAreNoConflict'
    BY <1>3 DEF WaitersAreNoConflict
<1> QED BY <1>2, <1>3, <1>4, <1>5, <1>6, <1>7, <1>9, <1>10

\* A step of the holder that is not a decision: the bounds stay.
LEMMA QuietMoves ==
  ASSUME GateInv, NEW i \in Ids, Holders \subseteq {i},
         NEW run \in WorkflowRun, run.title = wfruns[i].title, run.created = wfruns[i].created,
         wfruns' = [wfruns EXCEPT ![i] = run], clock' = clock,
         run.status = "in_progress" <=> run.step \in Busy, run.status # "pending",
         run.step \in {"history", "active", "lock"} => External(i),
         run.passed = wfruns[i].passed, run.reason = wfruns[i].reason,
         run.heavy = wfruns[i].heavy,
         run.heavy => run.step \in {"work", "end"} /\ run.detected = wfruns[i].detected,
         served' \in ForecastRuns, gate' \in [now : 0 .. clock, seen : SUBSET Ids, active : SUBSET Ids],
         EvidenceCovers'
  PROVE  GateInv'
<1>1. run.passed => External(i)
    BY DEF GateInv, GatedOnly
<1>2. run.heavy => run.passed
    BY DEF GateInv, GatedOnly
<1>3. run.reason # "ACTIVE_CONFLICT"
    BY DEF GateInv, WaitersAreNoConflict
<1>4. /\ wfruns' \in Seq(WorkflowRun) /\ Len(wfruns') = Len(wfruns) /\ Ids' = Ids
      /\ wfruns'[i] = run /\ \A j \in Ids \ {i} : wfruns'[j] = wfruns[j]
      /\ \A j \in Ids : wfruns'[j].created = wfruns[j].created /\ wfruns'[j].title = wfruns[j].title
      /\ OneHolder' /\ CreatedInOrder' /\ GatedOnly' /\ WaitersAreNoConflict'
    <2>1. (run.step \in {"history", "active", "lock"} \/ run.passed => External(i))
          /\ (run.heavy => run.passed /\ run.step \in {"work", "end"})
        BY <1>1, <1>2
    <2> QED BY <2>1, <1>3, HolderMoves
<1>5. /\ \A j \in Ids' : wfruns'[j].passed =>
           j \in Ids /\ wfruns[j].passed /\ wfruns'[j].created = wfruns[j].created
      /\ \A j \in Ids' : wfruns'[j].heavy =>
           /\ j \in Ids /\ wfruns[j].heavy /\ wfruns'[j].created = wfruns[j].created
           /\ wfruns'[j].detected = wfruns[j].detected /\ wfruns'[j].title = wfruns[j].title
    BY <1>4
<1>6. clock \in Nat /\ Len(wfruns) \in Nat
    BY LenProperties, GateBounds DEF GateInv, GateTypeOK
<1>7. clock' \in Nat /\ clock' >= clock /\ Len(wfruns') \in Nat
    BY <1>4, <1>6
<1>8. HeavyPerRunBounded' /\ PassesPerDayBounded' /\ PassesAfterAll'
    BY <1>4, <1>5, <1>7, BoundsStay
<1>9. GateTypeOK'
    BY <1>4 DEF GateInv, GateTypeOK, ForecastRuns, RunAt
<1> QED BY <1>4, <1>8, <1>9 DEF GateInv

\* While nobody is between the reads there is nothing to cover.
LEMMA NothingToCover ==
  ASSUME Ids' = Ids, \A j \in Ids : wfruns'[j].step \notin {"active", "lock"}
  PROVE  EvidenceCovers'
BY DEF EvidenceCovers

\* Taking the group, the detection and the work.
LEMMA OtherJobsKeep ==
  ASSUME GateInv, NEW i \in Ids, Acquire(i) \/ Detect(i) \/ Work(i)
  PROVE  GateInv'
<1> USE DEF GateInv
<1>0. wfruns[i] \in WorkflowRun /\ clock \in Nat
    BY RunNumbersOf
<1>1. gate \in [now : 0 .. clock, seen : SUBSET Ids, active : SUBSET Ids] /\ served \in ForecastRuns
    BY DEF GateTypeOK
<1>2. ASSUME NEW run \in WorkflowRun, run.title = wfruns[i].title, run.created = wfruns[i].created,
             wfruns' = [wfruns EXCEPT ![i] = run], clock' = clock, gate' = gate, served' \in ForecastRuns,
             run.passed = wfruns[i].passed, run.reason = wfruns[i].reason,
             run.heavy = wfruns[i].heavy, Holders \subseteq {i},
             run.status = "in_progress" <=> run.step \in Busy, run.status # "pending",
             run.step \in {"history", "active", "lock"} => External(i),
             run.heavy => run.step \in {"work", "end"} /\ run.detected = wfruns[i].detected,
             run.step \notin {"active", "lock"}
      PROVE  GateInv'
    <2>1. run.passed => External(i)
        BY <1>2 DEF GatedOnly
    <2>2. run.heavy => run.passed
        BY <1>2 DEF GatedOnly
    <2>3. run.reason # "ACTIVE_CONFLICT"
        BY <1>2 DEF WaitersAreNoConflict
    <2>4. Ids' = Ids /\ wfruns'[i] = run /\ \A j \in Ids \ {i} : wfruns'[j].step \notin Busy
        <3>1. (run.step \in {"history", "active", "lock"} \/ run.passed => External(i))
              /\ (run.heavy => run.passed /\ run.step \in {"work", "end"})
            BY <1>2, <2>1, <2>2
        <3> HIDE DEF GateInv
        <3> QED BY <3>1, <1>2, <2>3, HolderMoves, ZenonT(40)
    <2>5. EvidenceCovers'
        BY <1>2, <2>4, NothingToCover DEF Busy
    <2> QED BY <1>1, <1>2, <2>5, QuietMoves
<1>3. CASE Acquire(i)
    <2>1. PICK run : run = [wfruns[i] EXCEPT !.status = "in_progress",
                                             !.step = IF External(i) THEN "history" ELSE "detect"]
        OBVIOUS
    <2>2. /\ Holders = {} /\ wfruns[i].status = "pending" /\ UNCHANGED <<clock, gate, served>>
          /\ wfruns' = [wfruns EXCEPT ![i] = run]
        BY <1>3, <2>1 DEF Acquire, Waiters
    <2>3. /\ run \in WorkflowRun /\ run.title = wfruns[i].title /\ run.created = wfruns[i].created
          /\ run.passed = wfruns[i].passed /\ run.reason = wfruns[i].reason /\ run.heavy = wfruns[i].heavy
          /\ run.status = "in_progress" /\ run.step \in {"history", "detect"}
          /\ run.step = "history" => External(i)
        BY <1>0, <2>1 DEF WorkflowRun
    <2>4. ~run.heavy
        <3>1. wfruns[i].step \notin Busy /\ wfruns[i].step # "end"
            BY <2>2 DEF OneHolder, Busy
        <3> QED BY <2>3, <3>1 DEF GatedOnly, Busy
    <2> QED BY <1>1, <1>2, <2>2, <2>3, <2>4 DEF Busy
<1>4. CASE Detect(i)
    <2>1. /\ wfruns[i].step = "detect" /\ UNCHANGED <<clock, gate, served>>
          /\ \/ wfruns' = [wfruns EXCEPT ![i].detected = Newest,
                                         ![i].step = IF External(i) THEN "history" ELSE "work"]
             \/ wfruns' = [wfruns EXCEPT ![i].status = "completed", ![i].step = "end"]
        BY <1>4 DEF Detect
    <2>2. wfruns[i].status = "in_progress" /\ Holders \subseteq {i}
        BY <2>1 DEF OneHolder, Holders
    <2>3. ~wfruns[i].heavy
        BY <2>1 DEF GatedOnly
    <2>4. Newest \in ForecastRuns
        BY NewestIsKnown DEF GateTypeOK
    <2>5. CASE wfruns' = [wfruns EXCEPT ![i].detected = Newest,
                                        ![i].step = IF External(i) THEN "history" ELSE "work"]
        <3>1. PICK run : run = [wfruns[i] EXCEPT !.detected = Newest,
                                                 !.step = IF External(i) THEN "history" ELSE "work"]
            OBVIOUS
        <3>2. wfruns' = [wfruns EXCEPT ![i] = run]
            BY <2>5, <3>1
        <3>3. /\ run \in WorkflowRun /\ run.title = wfruns[i].title /\ run.created = wfruns[i].created
              /\ run.passed = wfruns[i].passed /\ run.reason = wfruns[i].reason /\ run.heavy = wfruns[i].heavy
              /\ run.status = "in_progress" /\ run.step \in {"history", "work"}
              /\ run.step = "history" => External(i)
            BY <1>0, <2>2, <2>4, <3>1 DEF WorkflowRun
        <3> QED BY <1>1, <1>2, <2>1, <2>2, <2>3, <3>2, <3>3 DEF Busy
    <2>6. CASE wfruns' = [wfruns EXCEPT ![i].status = "completed", ![i].step = "end"]
        <3>1. PICK run : run = [wfruns[i] EXCEPT !.status = "completed", !.step = "end"]
            OBVIOUS
        <3>2. wfruns' = [wfruns EXCEPT ![i] = run]
            BY <2>6, <3>1
        <3>3. /\ run \in WorkflowRun /\ run.title = wfruns[i].title /\ run.created = wfruns[i].created
              /\ run.passed = wfruns[i].passed /\ run.reason = wfruns[i].reason /\ run.heavy = wfruns[i].heavy
              /\ run.status = "completed" /\ run.step = "end"
            BY <1>0, <3>1 DEF WorkflowRun
        <3> QED BY <1>1, <1>2, <2>1, <2>2, <2>3, <3>2, <3>3 DEF Busy
    <2> QED BY <2>1, <2>5, <2>6
<1>5. CASE Work(i)
    <2>1. PICK run : run = [wfruns[i] EXCEPT !.status = "completed", !.step = "end"]
        OBVIOUS
    <2>2. /\ wfruns[i].step = "work" /\ UNCHANGED <<clock, gate>>
          /\ served' \in {served, wfruns[i].detected}
          /\ wfruns' = [wfruns EXCEPT ![i] = run]
        BY <1>5, <2>1 DEF Work
    <2>3. wfruns[i].status = "in_progress" /\ Holders \subseteq {i}
        BY <2>2 DEF OneHolder, Holders
    <2>4. /\ run \in WorkflowRun /\ run.title = wfruns[i].title /\ run.created = wfruns[i].created
          /\ run.passed = wfruns[i].passed /\ run.reason = wfruns[i].reason /\ run.heavy = wfruns[i].heavy
          /\ run.detected = wfruns[i].detected /\ run.status = "completed" /\ run.step = "end"
        BY <1>0, <2>1 DEF WorkflowRun
    <2>5. served' \in ForecastRuns
        BY <1>0, <1>1, <2>2 DEF WorkflowRun
    <2> QED BY <1>1, <1>2, <2>2, <2>3, <2>4, <2>5 DEF Busy
<1> QED BY <1>3, <1>4, <1>5

\* The two reads that come first: the history of the window, and what is active.
LEMMA ReadsCover ==
  ASSUME GateInv, NEW i \in Ids, ReadHistory(i) \/ ReadActive(i)
  PROVE  GateInv'
<1> USE DEF GateInv
<1>0. wfruns[i] \in WorkflowRun /\ clock \in Nat /\ gate.now \in Nat /\ gate.now <= clock
    BY RunNumbersOf
<1>1. gate \in [now : 0 .. clock, seen : SUBSET Ids, active : SUBSET Ids] /\ served \in ForecastRuns
    BY DEF GateTypeOK
<1>2. wfruns[i].step \in {"history", "active"} /\ UNCHANGED <<clock, served>>
    BY DEF ReadHistory, ReadActive
<1>3. wfruns[i].status = "in_progress" /\ Holders \subseteq {i} /\ External(i) /\ ~wfruns[i].heavy
    BY <1>2 DEF OneHolder, Holders, GatedOnly
<1>4. PICK step : step = IF wfruns[i].step = "history" THEN "active" ELSE "lock"
    OBVIOUS
<1>5. PICK run : run = [wfruns[i] EXCEPT !.step = step]
    OBVIOUS
<1>6. wfruns' = [wfruns EXCEPT ![i] = run]
    BY <1>2, <1>4, <1>5 DEF ReadHistory, ReadActive
<1>7. /\ run \in WorkflowRun /\ run.title = wfruns[i].title /\ run.created = wfruns[i].created
      /\ run.passed = wfruns[i].passed /\ run.reason = wfruns[i].reason /\ run.heavy = wfruns[i].heavy
      /\ run.detected = wfruns[i].detected /\ run.status = "in_progress" /\ run.step = step
    BY <1>0, <1>3, <1>4, <1>5 DEF WorkflowRun
<1>8. /\ run.status = "in_progress" <=> run.step \in Busy
      /\ run.status # "pending" /\ run.reason # "ACTIVE_CONFLICT"
      /\ run.step \in {"history", "active", "lock"} \/ run.passed => External(i)
      /\ run.heavy => run.passed /\ run.step \in {"work", "end"}
    BY <1>3, <1>4, <1>7 DEF WaitersAreNoConflict, Busy
<1>9. /\ Ids' = Ids /\ wfruns'[i] = run /\ \A j \in Ids \ {i} : wfruns'[j] = wfruns[j]
      /\ \A j \in Ids : wfruns'[j].created = wfruns[j].created
      /\ \A j \in Ids \ {i} : wfruns'[j].step \notin Busy
    BY <1>2, <1>3, <1>6, <1>7, <1>8, HolderMoves
<1>10. \A j \in Ids : wfruns'[j].passed <=> wfruns[j].passed
    BY <1>7, <1>9
<1>11. CASE ReadHistory(i)
    <2>1. /\ gate' = [gate EXCEPT !.now = clock,
                                  !.seen = {j \in Ids : wfruns[j].created >= Since(i, clock)}]
          /\ wfruns[i].step = "history"
        BY <1>11 DEF ReadHistory
    <2>2. gate' \in [now : 0 .. clock, seen : SUBSET Ids, active : SUBSET Ids]
        <3>1. clock \in 0 .. clock
            BY <1>0
        <3> QED BY <1>1, <2>1, <3>1
    <2>3. gate'.now = clock /\ gate'.seen = {j \in Ids : wfruns[j].created >= Since(i, clock)}
        BY <1>1, <2>1
    <2>4. Since(i, gate.now)' = Since(i, clock)
        BY <1>9, <2>3 DEF Since, Day
    <2>5. EvidenceCovers'
        <3> SUFFICES ASSUME NEW k \in Ids, wfruns'[k].step \in {"active", "lock"}
                     PROVE  /\ \A j \in Ids : (j < k \/ wfruns'[j].passed) /\ wfruns'[j].created >= Since(k, gate.now)'
                                            => j \in gate'.seen
                            /\ wfruns'[k].step # "lock"
            BY <1>9 DEF EvidenceCovers
        <3>1. k = i
            BY <1>9 DEF Busy
        <3> QED BY <1>4, <1>7, <1>9, <2>1, <2>3, <2>4, <3>1
    <2> QED BY <1>1, <1>2, <1>3, <1>4, <1>6, <1>7, <2>2, <2>5, QuietMoves DEF Busy
<1>12. CASE ReadActive(i)
    <2>1. /\ gate' = [gate EXCEPT !.active = {j \in Ids : wfruns[j].status # "completed"}]
          /\ wfruns[i].step = "active"
        BY <1>12 DEF ReadActive
    <2>2. gate' \in [now : 0 .. clock, seen : SUBSET Ids, active : SUBSET Ids]
        BY <1>0, <1>1, <2>1
    <2>3. /\ gate'.now = gate.now /\ gate'.seen = gate.seen
          /\ gate'.active = {j \in Ids : wfruns[j].status # "completed"}
        BY <1>1, <2>1
    <2>4. Since(i, gate.now)' = Since(i, gate.now)
        BY <1>9, <2>3 DEF Since, Day
    <2>5. gate'.active \subseteq {i} \cup Waiters'
        <3> SUFFICES ASSUME NEW j \in Ids, wfruns[j].status # "completed", j # i PROVE j \in Waiters'
            BY <2>3
        <3>1. wfruns[j] \in WorkflowRun
            BY RunNumbersOf
        <3>2. wfruns[j].status = "pending"
            BY <1>3, <3>1 DEF WorkflowRun, Holders
        <3> QED BY <1>9, <3>2 DEF Waiters
    <2>6. EvidenceCovers'
        <3> SUFFICES ASSUME NEW k \in Ids, wfruns'[k].step \in {"active", "lock"}
                     PROVE  /\ \A j \in Ids : (j < k \/ wfruns'[j].passed) /\ wfruns'[j].created >= Since(k, gate.now)'
                                            => j \in gate'.seen
                            /\ gate'.active \subseteq {k} \cup Waiters'
            BY <1>9 DEF EvidenceCovers
        <3>1. k = i
            BY <1>9 DEF Busy
        <3>2. \A j \in Ids : (j < i \/ wfruns[j].passed) /\ wfruns[j].created >= Since(i, gate.now)
                                => j \in gate.seen
            BY <2>1 DEF EvidenceCovers
        <3> QED BY <1>9, <1>10, <2>3, <2>4, <2>5, <3>1, <3>2
    <2> QED BY <1>1, <1>2, <1>3, <1>4, <1>6, <1>7, <2>1, <2>2, <2>6, QuietMoves DEF Busy
<1> QED BY <1>11, <1>12

\* A new run comes last, unpassed.
LEMMA DispatchKeeps ==
  ASSUME GateInv, NEW title \in Titles, Dispatch(title)
  PROVE  GateInv'
<1> USE DEF GateInv
<1>1. PICK run : run = [title |-> title, created |-> clock, status |-> "pending",
                        step |-> "queued", detected |-> 0, passed |-> FALSE,
                        heavy |-> FALSE, reason |-> "none"]
    OBVIOUS
<1>2. /\ Len(wfruns) < MaxWorkflowRuns /\ wfruns' = Append(wfruns, run)
      /\ UNCHANGED <<clock, gate, served>>
    BY <1>1 DEF Dispatch
<1>3. wfruns \in Seq(WorkflowRun) /\ Len(wfruns) \in Nat /\ clock \in Nat
    BY LenProperties, GateBounds DEF GateTypeOK
<1>4. 0 \in ForecastRuns
    <2>1. MaxClock \div RunLength \in Nat
        BY GateBounds, Division
    <2> QED BY <2>1 DEF ForecastRuns, RunAt
<1>5. run \in WorkflowRun
    BY <1>1, <1>4 DEF WorkflowRun, GateTypeOK
<1>6. PICK n : n = Len(wfruns) + 1
    OBVIOUS
<1>7. /\ wfruns' \in Seq(WorkflowRun) /\ Len(wfruns') = n
      /\ \A j \in 1 .. Len(wfruns) : wfruns'[j] = wfruns[j]
      /\ wfruns'[n] = run
    BY <1>2, <1>3, <1>5, <1>6, AppendProperties
<1>8. /\ Ids' = Ids \cup {n} /\ n \notin Ids /\ n \in Nat /\ \A j \in Ids : j < n
      /\ \A j \in Ids : wfruns'[j] = wfruns[j]
    BY <1>3, <1>6, <1>7 DEF Ids
<1>9. HeavyPerRunBounded' /\ PassesPerDayBounded' /\ PassesAfterAll'
    <2>1. clock' \in Nat /\ clock' >= clock /\ Len(wfruns') \in Nat
        BY <1>2, <1>3, <1>7, <1>8
    <2>2. ~wfruns'[n].passed /\ ~wfruns'[n].heavy
        BY <1>1, <1>7
    <2>3. /\ \A j \in Ids' : wfruns'[j].passed =>
               j \in Ids /\ wfruns[j].passed /\ wfruns'[j].created = wfruns[j].created
          /\ \A j \in Ids' : wfruns'[j].heavy =>
               /\ j \in Ids /\ wfruns[j].heavy /\ wfruns'[j].created = wfruns[j].created
               /\ wfruns'[j].detected = wfruns[j].detected /\ wfruns'[j].title = wfruns[j].title
          /\ \A j \in Ids : wfruns'[j].created = wfruns[j].created /\ wfruns'[j].title = wfruns[j].title
        BY <1>8, <2>2
    <2> QED BY <2>1, <2>3, BoundsStay
<1>10. GateTypeOK'
    <2>1. Len(wfruns') <= MaxWorkflowRuns
        BY <1>2, <1>3, <1>6, <1>7, GateBounds
    <2>2. gate' \in [now : 0 .. clock', seen : SUBSET Ids', active : SUBSET Ids']
        BY <1>2, <1>8 DEF GateTypeOK
    <2> QED BY <1>2, <1>7, <2>1, <2>2 DEF GateTypeOK
<1>11. WaitersAreNoConflict'
    BY <1>1, <1>7, <1>8 DEF WaitersAreNoConflict
<1>12. OneHolder'
    <2>1. Holders' = Holders
        BY <1>1, <1>7, <1>8 DEF Holders
    <2> QED BY <1>1, <1>7, <1>8, <2>1 DEF OneHolder
<1>13. CreatedInOrder'
    <2>1. wfruns'[n].created = clock
        BY <1>1, <1>7
    <2>2. ASSUME NEW j \in Ids' PROVE wfruns'[j].created <= clock'
        <3>1. CASE j = n
            <4>1. wfruns'[j].created = clock
                BY <2>1, <3>1
            <4>2. clock <= clock
                BY <1>3
            <4> QED BY <1>2, <4>1, <4>2
        <3>2. CASE j \in Ids
            BY <1>2, <1>8, <3>2 DEF CreatedInOrder
        <3> QED BY <1>8, <3>1, <3>2
    <2>3. ASSUME NEW i \in Ids', NEW j \in Ids', i <= j PROVE wfruns'[i].created <= wfruns'[j].created
        <3>1. CASE j = n
            BY <1>2, <2>1, <2>2, <2>3, <3>1
        <3>2. CASE j # n
            <4>0. j \in Ids /\ j < n /\ j \in Nat
                BY <1>8, <3>2 DEF Ids
            <4>1. j \in Ids /\ i # n
                BY <1>8, <2>3, <4>0
            <4> QED BY <1>8, <2>3, <4>1 DEF CreatedInOrder
        <3> QED BY <3>1, <3>2
    <2> QED BY <2>2, <2>3 DEF CreatedInOrder
<1>14. GatedOnly'
    BY <1>1, <1>7, <1>8 DEF GatedOnly, External
<1>15. EvidenceCovers'
    <2> SUFFICES ASSUME NEW k \in Ids, wfruns'[k].step \in {"active", "lock"}
                 PROVE  /\ \A j \in Ids' : (j < k \/ wfruns'[j].passed) /\ wfruns'[j].created >= Since(k, gate.now)'
                                         => j \in gate'.seen
                        /\ wfruns'[k].step = "lock" => gate'.active \subseteq {k} \cup Waiters'
        BY <1>1, <1>7, <1>8 DEF EvidenceCovers
    <2>1. Since(k, gate.now)' = Since(k, gate.now) /\ Waiters \subseteq Waiters'
        BY <1>2, <1>8 DEF Since, Day, Waiters
    <2>2. ~(n < k \/ wfruns'[n].passed)
        <3>1. k < n /\ k \in Nat
            BY <1>8 DEF Ids
        <3>2. ~(n < k)
            BY <1>8, <3>1
        <3>3. wfruns'[n].passed = FALSE
            BY <1>1, <1>7
        <3> QED BY <3>2, <3>3
    <2> QED BY <1>2, <1>8, <2>1, <2>2 DEF EvidenceCovers
<1> QED BY <1>9, <1>10, <1>11, <1>12, <1>13, <1>14, <1>15

\* Time passes: windows move on, nothing else does.
LEMMA ClockKeeps ==
  ASSUME GateInv, GateClock
  PROVE  GateInv'
<1> USE DEF GateInv
<1>1. clock < MaxClock /\ clock' = clock + 1 /\ UNCHANGED <<wfruns, gate, served>>
    BY DEF GateClock
<1>2. clock \in Nat /\ clock' \in Nat /\ clock' >= clock /\ MaxClock \in Nat /\ Len(wfruns) \in Nat
    BY <1>1, LenProperties, GateBounds DEF GateTypeOK
<1>3. Ids' = Ids /\ Len(wfruns') \in Nat
    BY <1>1, <1>2 DEF Ids
<1>4. HeavyPerRunBounded' /\ PassesPerDayBounded' /\ PassesAfterAll'
    BY <1>1, <1>2, <1>3, BoundsStay
<1>5. GateTypeOK'
    <2>1. clock' \in 0 .. MaxClock
        BY <1>1, <1>2
    <2>2. gate \in [now : 0 .. clock, seen : SUBSET Ids, active : SUBSET Ids] /\ 0 .. clock \subseteq 0 .. clock'
        BY <1>2 DEF GateTypeOK
    <2>3. gate' \in [now : 0 .. clock', seen : SUBSET Ids', active : SUBSET Ids']
        BY <1>1, <1>3, <2>2
    <2> QED BY <1>1, <2>1, <2>3 DEF GateTypeOK
<1>6. CreatedInOrder'
    <2>1. \A i \in Ids : wfruns[i].created \in Nat /\ wfruns[i].created <= clock
        BY RunNumbersOf DEF CreatedInOrder
    <2>2. \A i \in Ids : wfruns[i].created <= clock'
        BY <1>2, <2>1
    <2> QED BY <1>1, <1>3, <2>2 DEF CreatedInOrder
<1>7. Waiters' = Waiters /\ Holders' = Holders
    BY <1>1, <1>3 DEF Waiters, Holders
<1>8. EvidenceCovers'
    BY <1>1, <1>3, <1>7 DEF EvidenceCovers, Since, Day
<1>9. WaitersAreNoConflict' /\ OneHolder' /\ GatedOnly'
    BY <1>1, <1>3, <1>7 DEF WaitersAreNoConflict, OneHolder, GatedOnly, External
<1> QED BY <1>4, <1>5, <1>6, <1>8, <1>9

\* What an empty list of reasons to refuse says.
LEMMA Allowed ==
  ASSUME NEW i \in Ids, Verdict(i) = "none"
  PROVE  /\ ~(Cardinality(SameDay(i)) >= DailyLimit) /\ TooClose(i) = {}
         /\ wfruns[i].detected # 0 => ~(Cardinality(Attempts(i)) >= PerRunLimit)
<1>1. Refusal(i) = "none" /\ ~Spent(i)
    BY DEF Verdict
<1>2. ~ConflictingActive(i)
    BY <1>1 DEF Refusal
<1>3. ~(wfruns[i].title.kind = "fallback" /\ wfruns[i].title.key > RunAt(gate.now))
    BY <1>1, <1>2 DEF Refusal
<1>4. ~(Cardinality(SameDay(i)) >= DailyLimit) /\ TooClose(i) = {}
    BY <1>1, <1>2, <1>3 DEF Refusal
<1> QED BY <1>1, <1>4 DEF Spent

\* What the decision says is a reason, and never a conflict with a waiter.
LEMMA Reasons ==
  ASSUME GateInv, NEW i \in Ids, wfruns[i].step = "lock"
  PROVE  Verdict(i) \in {"none", "DAILY_LIMIT", "PER_RUN_LIMIT", "DUPLICATE_REQUEST",
                         "COOLDOWN", "INVALID_OBSERVED_RUN"}
<1>1. gate.active \subseteq {i} \cup Waiters
    BY DEF GateInv, EvidenceCovers
<1>2. ~ConflictingActive(i)
    BY <1>1 DEF ConflictingActive
<1>3. Refusal(i) \in {"none", "DAILY_LIMIT", "PER_RUN_LIMIT", "DUPLICATE_REQUEST",
                      "COOLDOWN", "INVALID_OBSERVED_RUN"}
    BY <1>2 DEF Refusal
<1> QED BY <1>3 DEF Verdict

\* What is too close was read: a request that may pass comes the cooldown after
\* every earlier one of its window.
LEMMA AllowedIsApart ==
  ASSUME GateInv, NEW i \in Ids, wfruns[i].step = "lock", Verdict(i) = "none",
         NEW j \in Ids, j < i, External(j), InWindow(j, Day(wfruns[i].created) * DayLength)
  PROVE  wfruns[i].created - wfruns[j].created >= Cooldown
<1> USE DEF GateInv
<1>1. /\ wfruns[j].created \in Nat /\ wfruns[i].created \in Nat /\ gate.now <= clock
      /\ gate.now \in Nat /\ clock \in Nat /\ Day(wfruns[i].created) * DayLength \in Nat
    BY RunNumbersOf
<1>2. PICK d, x : d = Day(wfruns[i].created) * DayLength /\ x = wfruns[j].created
    OBVIOUS
<1>3. x >= IF clock - DayLength < d THEN clock - DayLength ELSE d
    BY <1>2 DEF InWindow, Smaller
<1>4. x >= IF d < gate.now - DayLength THEN d ELSE gate.now - DayLength
    BY <1>1, <1>2, <1>3, GateBounds
<1>5. wfruns[j].created >= Since(i, gate.now)
    BY <1>2, <1>4 DEF Since, Smaller
<1>6. j \in gate.seen /\ j # i
    BY <1>5 DEF EvidenceCovers, Ids
<1>7. j \in Others(i) /\ j \notin TooClose(i)
    BY <1>6, Allowed DEF Others
<1>8. wfruns[j].created <= wfruns[i].created
    <2>1. j <= i
        BY DEF Ids
    <2> QED BY <2>1 DEF CreatedInOrder
<1>9. ~(wfruns[i].created - wfruns[j].created < Cooldown)
    BY <1>7, <1>8 DEF TooClose
<1> QED BY <1>1, <1>9, GateBounds

\* One more heavy run of a Run that had fewer than the limit in its window.
LEMMA HeavyAllowed ==
  ASSUME GateInv, NEW i \in Ids, wfruns[i].step = "lock", Verdict(i) = "none", Ids' = Ids, clock' = clock,
         \A j \in Ids \ {i} : wfruns'[j] = wfruns[j],
         wfruns'[i].detected = wfruns[i].detected, wfruns'[i].title = wfruns[i].title,
         wfruns'[i].heavy = (Verdict(i) = "none" /\ wfruns[i].detected # 0),
         \A j \in Ids : wfruns'[j].created = wfruns[j].created
  PROVE  HeavyPerRunBounded'
<1> USE DEF GateInv
<1>1. Len(wfruns) \in Nat /\ PerRunLimit \in Nat /\ clock \in Nat
    BY RunNumbersOf, GateBounds
<1> SUFFICES ASSUME NEW r \in ForecastRuns
             PROVE  Cardinality({j \in Ids' : /\ External(j)' /\ wfruns'[j].heavy /\ wfruns'[j].detected = r
                                              /\ InWindow(j, RunStart(r))'}) <= PerRunLimit
    BY DEF HeavyPerRunBounded, ForecastRuns, RunAt
<1> DEFINE T == {j \in Ids' : /\ External(j)' /\ wfruns'[j].heavy /\ wfruns'[j].detected = r
                              /\ InWindow(j, RunStart(r))'}
           S == {j \in Ids : /\ External(j) /\ wfruns[j].heavy /\ wfruns[j].detected = r
                             /\ InWindow(j, RunStart(r))}
<1>2. \A j \in Ids : /\ External(j)' <=> wfruns'[j].title.kind # "schedule"
                     /\ InWindow(j, RunStart(r))' <=> InWindow(j, RunStart(r))
    BY DEF External, InWindow, RunStart
<1>3. T \ {i} \subseteq S /\ T \subseteq Ids /\ S \subseteq Ids
    BY <1>2 DEF External
<1>4. CASE i \notin T
    <2>1. T \subseteq S /\ Cardinality(S) <= PerRunLimit
        BY <1>3, <1>4 DEF HeavyPerRunBounded
    <2> HIDE DEF S, T
    <2>2. Cardinality(T) <= Cardinality(S) /\ Cardinality(S) \in Nat /\ Cardinality(T) \in Nat
        BY <1>1, <1>3, <2>1, RunsAreFinite
    <2>3. Cardinality(T) <= PerRunLimit
        BY <1>1, <2>1, <2>2
    <2> QED BY <2>3 DEF T
<1>5. CASE i \in T
    <2>1. wfruns[i].detected = r /\ r # 0
        BY <1>5
    <2>2. ~(Cardinality(Attempts(i)) >= PerRunLimit)
        BY <2>1, Allowed
    <2>3. T \ {i} \subseteq Attempts(i)
        <3> SUFFICES ASSUME NEW j \in T, j # i PROVE j \in Attempts(i)
            OBVIOUS
        <3>1. j \in Ids /\ External(j) /\ wfruns[j].detected = r /\ InWindow(j, RunStart(r))
            BY <1>3
        <3>2. /\ wfruns[j].created \in Nat /\ Since(i, gate.now) \in Int /\ gate.now <= clock /\ gate.now \in Nat
              /\ Since(i, gate.now) <= gate.now - DayLength /\ DayLength \in Nat /\ RunStart(r) \in Int
            <4>1. r \in Int /\ RunLength \in Int /\ DayLength \in Nat
                BY GateBounds DEF ForecastRuns
            <4>2. RunStart(r) \in Int
                BY <4>1 DEF RunStart
            <4> QED BY <3>1, <4>1, <4>2, RunNumbersOf
        <3>3. PICK x, s, b, m : /\ x = wfruns[j].created /\ s = Since(i, gate.now) /\ b = RunStart(r)
                                /\ m = gate.now
            OBVIOUS
        <3>4. /\ x \in Nat /\ s \in Int /\ b \in Int /\ m \in Nat /\ m <= clock /\ s <= m - DayLength
              /\ DayLength \in Nat /\ clock \in Nat
              /\ x >= IF clock - DayLength < b THEN clock - DayLength ELSE b
            BY <1>1, <3>1, <3>2, <3>3 DEF InWindow, Smaller
        <3>5. x >= IF s < b THEN s ELSE b
            BY ONLY <3>4
        <3>6. wfruns[j].created >= Smaller(Since(i, gate.now), RunStart(wfruns[i].detected))
            BY <2>1, <3>3, <3>5 DEF Smaller
        <3> QED BY <2>1, <3>1, <3>6 DEF Attempts
    <2>4. Attempts(i) \subseteq Ids \ {i}
        BY DEF Attempts
    <2>5. PICK A, B : A = Attempts(i) /\ B = T \ {i}
        OBVIOUS
    <2>6. B \subseteq A /\ A \subseteq Ids /\ i \notin B /\ T = B \cup {i}
        BY <1>5, <2>3, <2>4, <2>5
    <2> HIDE DEF S, T
    <2>7. IsFiniteSet(B) /\ Cardinality(B) <= Cardinality(A) /\ Cardinality(A) \in Nat /\ Cardinality(B) \in Nat
        <3>1. B \subseteq Ids
            BY <2>6
        <3> QED BY <1>1, <2>6, <3>1, RunsAreFinite
    <2>8. Cardinality(T) = Cardinality(B) + 1
        BY <2>6, <2>7, FS_AddElement
    <2>9. Cardinality(A) < PerRunLimit
        BY <1>1, <2>2, <2>5, <2>7
    <2>10. Cardinality(T) <= PerRunLimit
        BY <1>1, <2>7, <2>8, <2>9
    <2> QED BY <2>10 DEF T
<1> QED BY <1>4, <1>5

\* One more pass on a day that had fewer than the limit.
LEMMA PassesAllowed ==
  ASSUME GateInv, NEW i \in Ids, wfruns[i].step = "lock", Verdict(i) = "none", Ids' = Ids,
         \A j \in Ids \ {i} : wfruns'[j] = wfruns[j],
         \A j \in Ids : wfruns'[j].created = wfruns[j].created
  PROVE  PassesPerDayBounded'
<1> USE DEF GateInv
<1>1. Len(wfruns) \in Nat /\ DailyLimit \in Nat
    BY RunNumbersOf, GateBounds
<1> SUFFICES ASSUME NEW k \in Ids
             PROVE  Cardinality({j \in Ids' : wfruns'[j].passed
                                   /\ Day(wfruns'[j].created) = Day(wfruns'[k].created)}) <= DailyLimit
    BY DEF PassesPerDayBounded, Day
<1> DEFINE T == {j \in Ids' : wfruns'[j].passed /\ Day(wfruns'[j].created) = Day(wfruns'[k].created)}
           S == {j \in Ids : wfruns[j].passed /\ Day(wfruns[j].created) = Day(wfruns[k].created)}
<1>2. T \ {i} \subseteq S /\ T \subseteq Ids /\ S \subseteq Ids
    OBVIOUS
<1>3. CASE i \notin T
    <2>1. T \subseteq S /\ Cardinality(S) <= DailyLimit
        BY <1>2, <1>3 DEF PassesPerDayBounded
    <2> HIDE DEF S, T
    <2>2. Cardinality(T) <= Cardinality(S) /\ Cardinality(S) \in Nat /\ Cardinality(T) \in Nat
        BY <1>1, <1>2, <2>1, RunsAreFinite
    <2>3. Cardinality(T) <= DailyLimit
        BY <1>1, <2>1, <2>2
    <2> QED BY <2>3 DEF T
<1>4. CASE i \in T
    <2>1. Day(wfruns[k].created) = Day(wfruns[i].created)
        BY <1>4
    <2>2. ~(Cardinality(SameDay(i)) >= DailyLimit)
        BY Allowed
    <2>3. T \ {i} \subseteq SameDay(i)
        <3> SUFFICES ASSUME NEW j \in T, j # i PROVE j \in SameDay(i)
            OBVIOUS
        <3>1. j \in Ids /\ wfruns[j].passed /\ Day(wfruns[j].created) = Day(wfruns[i].created)
            BY <1>2, <2>1
        <3>2. External(j)
            BY <3>1 DEF GatedOnly
        <3>3. /\ wfruns[j].created \in Nat /\ Since(i, gate.now) \in Int
              /\ Day(wfruns[i].created) * DayLength \in Nat
              /\ Since(i, gate.now) <= Day(wfruns[i].created) * DayLength
              /\ Day(wfruns[j].created) * DayLength <= wfruns[j].created
            BY <3>1, RunNumbersOf
        <3>4. wfruns[j].created >= Since(i, gate.now)
            BY <3>1, <3>3
        <3>5. j \in gate.seen
            BY <3>1, <3>4 DEF EvidenceCovers
        <3> QED BY <3>1, <3>2, <3>5 DEF SameDay, Others
    <2>4. SameDay(i) \subseteq Ids \ {i}
        BY DEF SameDay, Others, GateTypeOK
    <2>5. PICK A, B : A = SameDay(i) /\ B = T \ {i}
        OBVIOUS
    <2>6. B \subseteq A /\ A \subseteq Ids /\ i \notin B /\ T = B \cup {i}
        BY <1>4, <2>3, <2>4, <2>5
    <2> HIDE DEF S, T
    <2>7. IsFiniteSet(B) /\ Cardinality(B) <= Cardinality(A) /\ Cardinality(A) \in Nat /\ Cardinality(B) \in Nat
        <3>1. B \subseteq Ids
            BY <2>6
        <3> QED BY <1>1, <2>6, <3>1, RunsAreFinite
    <2>8. Cardinality(T) = Cardinality(B) + 1
        BY <2>6, <2>7, FS_AddElement
    <2>9. Cardinality(A) < DailyLimit
        BY <1>1, <2>2, <2>5, <2>7
    <2>10. Cardinality(T) <= DailyLimit
        BY <1>1, <2>7, <2>8, <2>9
    <2> QED BY <2>10 DEF T
<1> QED BY <1>3, <1>4

\* One more pass, the cooldown after every earlier request of its window.
LEMMA ApartAllowed ==
  ASSUME GateInv, NEW i \in Ids, wfruns[i].step = "lock", Verdict(i) = "none", Ids' = Ids, clock' = clock,
         \A j \in Ids \ {i} : wfruns'[j] = wfruns[j],
         \A j \in Ids : wfruns'[j].created = wfruns[j].created /\ wfruns'[j].title = wfruns[j].title
  PROVE  PassesAfterAll'
<1> SUFFICES ASSUME NEW j \in Ids, NEW k \in Ids, j < k, External(j)', wfruns'[k].passed,
                    InWindow(j, Day(wfruns[k].created) * DayLength)'
             PROVE  wfruns'[k].created - wfruns'[j].created >= Cooldown
    BY DEF PassesAfterAll
<1>1. External(j) /\ InWindow(j, Day(wfruns[k].created) * DayLength)
    BY DEF External, InWindow, Day
<1>2. CASE k = i
    BY <1>1, <1>2, AllowedIsApart
<1>3. CASE k # i
    BY <1>1, <1>3 DEF GateInv, PassesAfterAll
<1> QED BY <1>2, <1>3

\* The decision: one more passes or begins heavy work only below the limits.
LEMMA DecideKeeps ==
  ASSUME GateInv, NEW i \in Ids, Decide(i)
  PROVE  GateInv'
<1> USE DEF GateInv
<1>1. /\ wfruns[i] \in WorkflowRun /\ clock \in Nat /\ wfruns[i].created \in Nat /\ Len(wfruns) \in Nat
      /\ DailyLimit \in Nat /\ PerRunLimit \in Nat
    BY RunNumbersOf, GateBounds
<1>2. wfruns[i].step = "lock" /\ gate' = NoEvidence /\ UNCHANGED <<clock, served>>
    BY DEF Decide
<1>3. PICK allowed, detected : /\ allowed \in BOOLEAN /\ (allowed <=> Verdict(i) = "none")
                               /\ detected \in BOOLEAN /\ (detected <=> wfruns[i].detected # 0)
    OBVIOUS
<1>4. PICK run : run = [wfruns[i] EXCEPT
                          !.reason = Verdict(i), !.passed = @ \/ (Verdict(i) = "none"),
                          !.heavy = (Verdict(i) = "none") /\ (wfruns[i].detected # 0),
                          !.status = IF Verdict(i) = "none" THEN @ ELSE "completed",
                          !.step = IF Verdict(i) # "none" THEN "end"
                                   ELSE IF wfruns[i].detected # 0 THEN "work" ELSE "detect"]
    OBVIOUS
<1>5. wfruns' = [wfruns EXCEPT ![i] = run]
    BY <1>4 DEF Decide
<1>6. wfruns[i].status = "in_progress" /\ Holders \subseteq {i} /\ External(i)
    BY <1>2 DEF OneHolder, Holders, GatedOnly
<1>7. /\ run \in WorkflowRun /\ run.title = wfruns[i].title /\ run.created = wfruns[i].created
      /\ run.detected = wfruns[i].detected /\ run.reason = Verdict(i)
      /\ run.passed = (wfruns[i].passed \/ Verdict(i) = "none")
      /\ run.heavy = (Verdict(i) = "none" /\ wfruns[i].detected # 0)
      /\ run.status = (IF Verdict(i) = "none" THEN "in_progress" ELSE "completed")
      /\ run.step = (IF Verdict(i) # "none" THEN "end"
                     ELSE IF wfruns[i].detected # 0 THEN "work" ELSE "detect")
    BY <1>1, <1>2, <1>4, <1>6, Reasons DEF WorkflowRun
<1>8. /\ run.status = "in_progress" <=> run.step \in Busy
      /\ run.status # "pending" /\ run.reason # "ACTIVE_CONFLICT"
      /\ run.step \in {"history", "active", "lock"} \/ run.passed => External(i)
      /\ run.heavy => run.passed /\ run.step \in {"work", "end"}
    BY <1>2, <1>6, <1>7, Reasons DEF Busy
<1>9. /\ wfruns' \in Seq(WorkflowRun) /\ Len(wfruns') = Len(wfruns) /\ Ids' = Ids
      /\ wfruns'[i] = run /\ \A j \in Ids \ {i} : wfruns'[j] = wfruns[j]
      /\ \A j \in Ids : wfruns'[j].created = wfruns[j].created /\ wfruns'[j].title = wfruns[j].title
      /\ \A j \in Ids \ {i} : wfruns'[j].step \notin Busy
      /\ OneHolder' /\ CreatedInOrder' /\ GatedOnly' /\ WaitersAreNoConflict'
    BY <1>2, <1>5, <1>6, <1>7, <1>8, HolderMoves
<1>10. EvidenceCovers'
    <2>1. \A j \in Ids : wfruns'[j].step \notin {"active", "lock"}
        BY <1>7, <1>9 DEF Busy
    <2> QED BY <1>9, <2>1, NothingToCover
<1>11. GateTypeOK'
    <2>1. gate' \in [now : 0 .. clock', seen : SUBSET Ids', active : SUBSET Ids']
        <3>1. 0 \in 0 .. clock'
            BY <1>1, <1>2
        <3> QED BY <1>2, <3>1 DEF NoEvidence
    <2> QED BY <1>2, <1>9, <2>1 DEF GateTypeOK
<1>12. HeavyPerRunBounded' /\ PassesPerDayBounded' /\ PassesAfterAll'
    <2>1. CASE Verdict(i) # "none"
        <3>1. /\ \A j \in Ids' : wfruns'[j].passed =>
                   j \in Ids /\ wfruns[j].passed /\ wfruns'[j].created = wfruns[j].created
              /\ \A j \in Ids' : wfruns'[j].heavy =>
                   /\ j \in Ids /\ wfruns[j].heavy /\ wfruns'[j].created = wfruns[j].created
                   /\ wfruns'[j].detected = wfruns[j].detected /\ wfruns'[j].title = wfruns[j].title
            BY <1>7, <1>9, <2>1
        <3>2. clock' \in Nat /\ clock' >= clock /\ Len(wfruns') \in Nat
            BY <1>1, <1>2, <1>9
        <3> QED BY <1>9, <3>1, <3>2, BoundsStay
    <2>2. CASE Verdict(i) = "none"
        <3>1. HeavyPerRunBounded'
            BY <1>2, <1>7, <1>9, <2>2, HeavyAllowed
        <3>2. PassesPerDayBounded'
            BY <1>2, <1>7, <1>9, <2>2, PassesAllowed
        <3>3. PassesAfterAll'
            BY <1>2, <1>7, <1>9, <2>2, ApartAllowed
        <3> QED BY <3>1, <3>2, <3>3
    <2> QED BY <2>1, <2>2
<1> QED BY <1>9, <1>10, <1>11, <1>12

\* Nothing was requested yet.
LEMMA GateBegins ==
  ASSUME GateInit
  PROVE  GateInv
<1>1. wfruns = <<>> /\ clock = 0 /\ served = 0 /\ gate = NoEvidence
    BY DEF GateInit
<1>2. wfruns \in Seq(WorkflowRun) /\ Len(wfruns) = 0
    BY <1>1, EmptySeq
<1>3. Ids = {}
    BY <1>2 DEF Ids
<1>4. 0 \in 0 .. MaxClock /\ 0 \in ForecastRuns /\ 0 <= MaxWorkflowRuns
    <2>1. MaxClock \in Nat /\ MaxWorkflowRuns \in Nat /\ RunLength \in Nat \ {0}
        BY GateBounds
    <2>2. MaxClock \div RunLength \in Nat
        BY <2>1, Division
    <2>3. PICK q : q = MaxClock \div RunLength
        OBVIOUS
    <2>4. 0 \in 0 .. (1 + q)
        BY <2>2, <2>3
    <2> QED BY <2>1, <2>3, <2>4 DEF ForecastRuns, RunAt
<1>5. GateTypeOK
    <2>1. gate \in [now : 0 .. clock, seen : SUBSET Ids, active : SUBSET Ids]
        <3>1. 0 \in 0 .. clock
            BY <1>1
        <3> QED BY <1>1, <3>1 DEF NoEvidence
    <2> QED BY <1>1, <1>2, <1>4, <2>1 DEF GateTypeOK
<1>6. HeavyPerRunBounded
    <2> SUFFICES ASSUME NEW r \in ForecastRuns
                 PROVE  Cardinality({i \in Ids : /\ External(i) /\ wfruns[i].heavy /\ wfruns[i].detected = r
                                                 /\ InWindow(i, RunStart(r))}) <= PerRunLimit
        BY DEF HeavyPerRunBounded
    <2>1. {i \in Ids : /\ External(i) /\ wfruns[i].heavy /\ wfruns[i].detected = r
                       /\ InWindow(i, RunStart(r))} = {}
        BY <1>3
    <2>2. 0 <= PerRunLimit
        BY GateBounds
    <2> QED BY <2>1, <2>2, FS_EmptySet
<1>7. PassesPerDayBounded /\ PassesAfterAll /\ WaitersAreNoConflict /\ GatedOnly /\ EvidenceCovers
    BY <1>3 DEF PassesPerDayBounded, PassesAfterAll, WaitersAreNoConflict, GatedOnly, EvidenceCovers
<1>8. OneHolder /\ CreatedInOrder
    BY <1>3 DEF OneHolder, CreatedInOrder, Holders
<1> QED BY <1>5, <1>6, <1>7, <1>8 DEF GateInv

\* Every step keeps the invariant of the gate, and so does none.
LEMMA GateSteps ==
  ASSUME GateInv, [GateNext]_gateVars
  PROVE  GateInv'
<1>1. CASE UNCHANGED gateVars
    <2>1. UNCHANGED <<clock, wfruns, gate, served>>
        BY <1>1 DEF gateVars
    <2>2. /\ GateTypeOK' /\ WaitersAreNoConflict' /\ HeavyPerRunBounded' /\ PassesPerDayBounded'
        BY <2>1 DEF GateInv, GateTypeOK, WaitersAreNoConflict, HeavyPerRunBounded, PassesPerDayBounded,
                    Ids, External, InWindow, RunStart, Day, ForecastRuns, RunAt
    <2>3. /\ PassesAfterAll' /\ OneHolder' /\ CreatedInOrder' /\ GatedOnly' /\ EvidenceCovers'
        BY <2>1 DEF GateInv, PassesAfterAll, OneHolder, CreatedInOrder, GatedOnly, EvidenceCovers, Ids,
                    External, InWindow, Day, Holders, Waiters, Since
    <2> QED BY <2>2, <2>3 DEF GateInv
<1>2. CASE \E title \in Titles : Dispatch(title)
    BY <1>2, DispatchKeeps
<1>3. CASE \E i \in Ids : Acquire(i) \/ Detect(i) \/ Work(i)
    BY <1>3, OtherJobsKeep
<1>4. CASE \E i \in Ids : ReadHistory(i) \/ ReadActive(i)
    BY <1>4, ReadsCover
<1>5. CASE \E i \in Ids : Decide(i)
    BY <1>5, DecideKeeps
<1>6. CASE GateClock
    BY <1>6, ClockKeeps
<1> QED BY <1>1, <1>2, <1>3, <1>4, <1>5, <1>6 DEF GateNext

\* One run at a time holds the concurrency group, its evidence covers every
\* request it must count however many arrive while it reads, and what it lets
\* through stays within every limit: for any limits and any requests.
THEOREM GateInductive == GateSpec => []GateInv
<1>1. GateInit => GateInv
    BY GateBegins
<1>2. GateInv /\ [GateNext]_gateVars => GateInv'
    BY GateSteps
<1> QED BY <1>1, <1>2, PTL DEF GateSpec

\* The budget of refresh requests is kept in whatever order requests are made,
\* read, run and fail, and none is refused for a waiter that came too late.
THEOREM BudgetKept == GateSpec => []GateSound
<1>1. GateInv => GateSound
    BY DEF GateInv, GateSound, PassesAfterAll, PassesApart, GatedOnly
<1> QED BY <1>1, GateInductive, PTL

-----------------------------------------------------------------------------
(* Readiness: the status is that of the plan and the last outcome, and the   *)
(* plan names what that outcome was computed from.                           *)

\* What the last outcome was computed from, and how the plan names it.
OutcomeNamed ==
  /\ (outcome = NoOutcome) <=> (origin = NotYet)
  /\ outcome # NoOutcome =>
       /\ origin.issues = outcome.issues /\ origin.release = outcome.version
       /\ plan.calculated = CalculationInput(origin, origin.release, origin.release)

StatusCurrent == plan.status = StatusOf(plan, outcome, release)

\* A plan is a record of these fields, whatever they hold.
PlanRecord ==
  plan = [altitude |-> plan.altitude, arrival |-> plan.arrival, crew |-> plan.crew, acks |-> plan.acks,
          calculated |-> plan.calculated, reviewed |-> plan.reviewed, status |-> plan.status]

ReadinessInv == ReadinessTypeOK /\ PlanRecord /\ OutcomeNamed /\ StatusCurrent

\* The five states a NAV LOG may be in.
LEMMA Statuses ==
  ASSUME NEW p, NEW o, NEW running
  PROVE  StatusOf(p, o, running) \in {"DRAFT", "MANUAL_INPUT_REQUIRED", "WEATHER_PENDING",
                                      "CALCULATION_WARNING", "READY_FOR_COPY"}
BY DEF StatusOf

\* The status does not depend on the status that was there before.
LEMMA StatusOfSettled ==
  ASSUME NEW p, NEW q, NEW o, NEW running,
         q.altitude = p.altitude, q.arrival = p.arrival, q.crew = p.crew, q.acks = p.acks,
         q.calculated = p.calculated, q.reviewed = p.reviewed
  PROVE  StatusOf(q, o, running) = StatusOf(p, o, running)
<1>1. Validation(q, running) = Validation(p, running)
    BY DEF Validation
<1>2. Collected(q, o, running) = Collected(p, o, running)
    BY <1>1 DEF Collected, CalculationInput
<1> QED BY <1>2 DEF StatusOf

\* A plan that was evaluated bears its status, and nothing else of it changed.
LEMMA EvaluatedPlan ==
  ASSUME NEW p, NEW o, NEW running,
         p = [altitude |-> p.altitude, arrival |-> p.arrival, crew |-> p.crew, acks |-> p.acks,
              calculated |-> p.calculated, reviewed |-> p.reviewed, status |-> p.status],
         NEW q, q = Evaluated(p, o, running)
  PROVE  /\ q = [altitude |-> q.altitude, arrival |-> q.arrival, crew |-> q.crew, acks |-> q.acks,
                 calculated |-> q.calculated, reviewed |-> q.reviewed, status |-> q.status]
         /\ q.altitude = p.altitude /\ q.arrival = p.arrival /\ q.crew = p.crew
         /\ q.calculated = p.calculated
         /\ q.status = StatusOf(q, o, running)
         /\ q.status \in {"DRAFT", "MANUAL_INPUT_REQUIRED", "WEATHER_PENDING",
                          "CALCULATION_WARNING", "READY_FOR_COPY"}
<1>1. PICK s : s = StatusOf(p, o, running)
    OBVIOUS
<1>2. q = [p EXCEPT !.status = s]
    BY <1>1 DEF Evaluated
<1>3. q = [altitude |-> p.altitude, arrival |-> p.arrival, crew |-> p.crew, acks |-> p.acks,
           calculated |-> p.calculated, reviewed |-> p.reviewed, status |-> s]
    BY <1>2
<1>4. /\ q.altitude = p.altitude /\ q.arrival = p.arrival /\ q.crew = p.crew /\ q.acks = p.acks
      /\ q.calculated = p.calculated /\ q.reviewed = p.reviewed /\ q.status = s
    BY <1>3
<1>5. StatusOf(q, o, running) = s
    BY <1>1, <1>4, StatusOfSettled
<1> QED BY <1>1, <1>3, <1>4, <1>5, Statuses

\* A new Project: nothing was computed, and it has no arrival plan.
LEMMA ReadinessBegins ==
  ASSUME ReadinessInit
  PROVE  ReadinessInv
<1> USE DEF ReadinessInit
<1>1. ReadinessTypeOK /\ PlanRecord
    BY ReadinessAssumption DEF ReadinessTypeOK, PlanRecord, ReadinessAssumption, Arrivals
<1>2. OutcomeNamed
    BY DEF OutcomeNamed
<1>3. StatusCurrent
    <2>1. Effective(Blocker("arrival"), NotYet) \in Collected(plan, outcome, release)
        BY DEF Collected, Validation
    <2>2. \A i \in Collected(plan, outcome, release) : i.code # "weather"
        BY DEF Collected, Validation, Effective, Blocker
    <2>3. Effective(Blocker("arrival"), NotYet).severity = "blocker"
        BY DEF Effective, Blocker
    <2>4. StatusOf(plan, outcome, release) = "MANUAL_INPUT_REQUIRED"
        BY <2>1, <2>2, <2>3 DEF StatusOf
    <2> QED BY <2>4 DEF StatusCurrent
<1> QED BY <1>1, <1>2, <1>3 DEF ReadinessInv

\* A change of the plan that is evaluated, for the same outcome and release.
LEMMA BecomeKeeps ==
  ASSUME ReadinessInv, NEW p, Become(p), p.altitude \in Altitudes, p.arrival \in Arrivals, p.crew \in BOOLEAN,
         p.calculated = plan.calculated,
         p = [altitude |-> p.altitude, arrival |-> p.arrival, crew |-> p.crew, acks |-> p.acks,
              calculated |-> p.calculated, reviewed |-> p.reviewed, status |-> p.status]
  PROVE  ReadinessInv'
<1>1. plan' = Evaluated(p, outcome, release) /\ UNCHANGED <<outcome, release, origin>>
    BY DEF Become
<1>2. PlanRecord' /\ plan'.altitude = p.altitude /\ plan'.arrival = p.arrival /\ plan'.crew = p.crew
      /\ plan'.calculated = p.calculated
      /\ plan'.status = StatusOf(plan', outcome, release)
      /\ plan'.status \in {"DRAFT", "MANUAL_INPUT_REQUIRED", "WEATHER_PENDING",
                           "CALCULATION_WARNING", "READY_FOR_COPY"}
    BY <1>1, EvaluatedPlan DEF PlanRecord
<1>3. ReadinessTypeOK'
    BY <1>1, <1>2 DEF ReadinessInv, ReadinessTypeOK
<1>4. OutcomeNamed'
    BY <1>1, <1>2 DEF ReadinessInv, OutcomeNamed
<1>5. StatusCurrent'
    BY <1>1, <1>2 DEF StatusCurrent
<1> QED BY <1>2, <1>3, <1>4, <1>5 DEF ReadinessInv

\* A recorded outcome is named by what it was computed from.
LEMMA RecordKeeps ==
  ASSUME ReadinessInv, Record
  PROVE  ReadinessInv'
<1>1. PICK issues \in SUBSET Findings :
         /\ outcome' = [issues |-> issues, version |-> release]
         /\ plan' = Evaluated([plan EXCEPT !.calculated = CalculationInput(plan, release, release)],
                              [issues |-> issues, version |-> release], release)
         /\ origin' = [altitude |-> plan.altitude, arrival |-> plan.arrival,
                       release |-> release, issues |-> issues]
         /\ release' = release
    BY DEF Record
<1>2. plan.altitude \in Altitudes /\ plan.arrival \in Arrivals /\ plan.crew \in BOOLEAN /\ release \in 0 .. MaxRelease
    BY DEF ReadinessInv, ReadinessTypeOK
<1>3. PICK input : input = CalculationInput(plan, release, release)
    OBVIOUS
<1>4. PICK p : p = [plan EXCEPT !.calculated = input]
    OBVIOUS
<1>5. /\ p = [altitude |-> p.altitude, arrival |-> p.arrival, crew |-> p.crew, acks |-> p.acks,
              calculated |-> p.calculated, reviewed |-> p.reviewed, status |-> p.status]
      /\ p.altitude = plan.altitude /\ p.arrival = plan.arrival /\ p.crew = plan.crew
      /\ p.calculated = input
    BY <1>4 DEF ReadinessInv, PlanRecord
<1>6. plan' = Evaluated(p, outcome', release)
    BY <1>1, <1>3, <1>4
<1>7. PlanRecord' /\ plan'.altitude = plan.altitude /\ plan'.arrival = plan.arrival
      /\ plan'.crew = plan.crew /\ plan'.calculated = input
      /\ plan'.status = StatusOf(plan', outcome', release)
      /\ plan'.status \in {"DRAFT", "MANUAL_INPUT_REQUIRED", "WEATHER_PENDING",
                           "CALCULATION_WARNING", "READY_FOR_COPY"}
    BY <1>5, <1>6, EvaluatedPlan DEF PlanRecord
<1>8. ReadinessTypeOK'
    BY <1>1, <1>2, <1>7 DEF ReadinessTypeOK
<1>9. OutcomeNamed'
    <2>1. outcome' # NoOutcome /\ origin' # NotYet
        BY <1>1, <1>2, NothingAssumption DEF NothingAssumption
    <2>2. CalculationInput(origin', origin'.release, origin'.release) = input
        BY <1>1, <1>3 DEF CalculationInput
    <2> QED BY <1>1, <1>7, <2>1, <2>2 DEF OutcomeNamed
<1>10. StatusCurrent'
    BY <1>1, <1>7 DEF StatusCurrent
<1> QED BY <1>7, <1>8, <1>9, <1>10 DEF ReadinessInv

\* A new release evaluates what the old one stored.
LEMMA UpgradeKeeps ==
  ASSUME ReadinessInv, Upgrade
  PROVE  ReadinessInv'
<1>1. /\ release < MaxRelease /\ release' = release + 1 /\ UNCHANGED <<outcome, origin>>
      /\ plan' = Evaluated(plan, outcome, release')
    BY DEF Upgrade
<1>2. /\ PlanRecord' /\ plan'.altitude = plan.altitude /\ plan'.arrival = plan.arrival
      /\ plan'.crew = plan.crew
      /\ plan'.calculated = plan.calculated /\ plan'.status = StatusOf(plan', outcome, release')
      /\ plan'.status \in {"DRAFT", "MANUAL_INPUT_REQUIRED", "WEATHER_PENDING",
                           "CALCULATION_WARNING", "READY_FOR_COPY"}
    BY <1>1, EvaluatedPlan DEF ReadinessInv, PlanRecord
<1>3. release' \in 0 .. MaxRelease
    BY <1>1, ReadinessAssumption DEF ReadinessInv, ReadinessTypeOK, ReadinessAssumption
<1>4. ReadinessTypeOK'
    BY <1>2, <1>3 DEF ReadinessInv, ReadinessTypeOK
<1>5. OutcomeNamed'
    BY <1>1, <1>2 DEF ReadinessInv, OutcomeNamed
<1>6. StatusCurrent'
    BY <1>1, <1>2 DEF StatusCurrent
<1> QED BY <1>2, <1>4, <1>5, <1>6 DEF ReadinessInv

\* Every operation evaluates the status of what it leaves behind.
LEMMA ReadinessSteps ==
  ASSUME ReadinessInv, [ReadinessNext]_readinessVars
  PROVE  ReadinessInv'
<1>1. CASE UNCHANGED readinessVars
    BY <1>1 DEF readinessVars, ReadinessInv, ReadinessTypeOK, PlanRecord, OutcomeNamed, StatusCurrent
<1>2. CASE UpdatePlan
    <2>1. PICK a \in Altitudes, arrival \in Arrivals, crew \in BOOLEAN, confirmed \in BOOLEAN :
            Become(IF confirmed
                   THEN [[plan EXCEPT !.altitude = a, !.arrival = arrival, !.crew = crew]
                           EXCEPT !.reviewed = DefaultsReview(a, TableVersion)]
                   ELSE [plan EXCEPT !.altitude = a, !.arrival = arrival, !.crew = crew])
        BY <1>2 DEF UpdatePlan
    <2>2. PICK review : review = DefaultsReview(a, TableVersion)
        OBVIOUS
    <2>3. PICK p : p = IF confirmed
                       THEN [[plan EXCEPT !.altitude = a, !.arrival = arrival, !.crew = crew]
                               EXCEPT !.reviewed = review]
                       ELSE [plan EXCEPT !.altitude = a, !.arrival = arrival, !.crew = crew]
        OBVIOUS
    <2>4. /\ p = [altitude |-> p.altitude, arrival |-> p.arrival, crew |-> p.crew, acks |-> p.acks,
                  calculated |-> p.calculated, reviewed |-> p.reviewed, status |-> p.status]
          /\ p.altitude = a /\ p.arrival = arrival /\ p.crew = crew /\ p.calculated = plan.calculated
        BY <2>3 DEF ReadinessInv, PlanRecord
    <2>5. Become(p)
        BY <2>1, <2>2, <2>3
    <2> QED BY <2>4, <2>5, BecomeKeeps
<1>3. CASE AcknowledgeIssue
    <2>1. PICK acks : Become([plan EXCEPT !.acks = acks])
        BY <1>3 DEF AcknowledgeIssue
    <2>2. PICK p : p = [plan EXCEPT !.acks = acks]
        OBVIOUS
    <2>3. /\ p = [altitude |-> p.altitude, arrival |-> p.arrival, crew |-> p.crew, acks |-> p.acks,
                  calculated |-> p.calculated, reviewed |-> p.reviewed, status |-> p.status]
          /\ p.altitude = plan.altitude /\ p.arrival = plan.arrival /\ p.crew = plan.crew
          /\ p.calculated = plan.calculated
        BY <2>2 DEF ReadinessInv, PlanRecord
    <2>4. p.altitude \in Altitudes /\ p.arrival \in Arrivals /\ p.crew \in BOOLEAN /\ Become(p)
        BY <2>1, <2>2, <2>3 DEF ReadinessInv, ReadinessTypeOK
    <2> QED BY <2>3, <2>4, BecomeKeeps
<1>4. CASE Record
    BY <1>4, RecordKeeps
<1>5. CASE Upgrade
    BY <1>5, UpgradeKeeps
<1>6. CASE EditRoute
    <2>1. PICK a \in Altitudes, arrival \in Arrivals :
            Become([plan EXCEPT !.altitude = a, !.arrival = arrival])
        BY <1>6 DEF EditRoute
    <2>2. PICK p : p = [plan EXCEPT !.altitude = a, !.arrival = arrival]
        OBVIOUS
    <2>3. /\ p = [altitude |-> p.altitude, arrival |-> p.arrival, crew |-> p.crew, acks |-> p.acks,
                  calculated |-> p.calculated, reviewed |-> p.reviewed, status |-> p.status]
          /\ p.altitude = a /\ p.arrival = arrival /\ p.crew = plan.crew
          /\ p.calculated = plan.calculated
        BY <2>2 DEF ReadinessInv, PlanRecord
    <2>4. p.crew \in BOOLEAN /\ Become(p)
        BY <2>1, <2>2, <2>3 DEF ReadinessInv, ReadinessTypeOK
    <2> QED BY <2>3, <2>4, BecomeKeeps
<1> QED BY <1>1, <1>2, <1>3, <1>4, <1>5, <1>6 DEF ReadinessNext

\* What being ready excludes: every blocker, every unacknowledged warning.
LEMMA ReadyMeans ==
  ASSUME plan.status = "READY_FOR_COPY", StatusCurrent
  PROVE  /\ outcome # NoOutcome
         /\ \A i \in Collected(plan, outcome, release) :
              i.severity # "blocker" /\ (i.ack => i.key \in plan.acks)
BY DEF StatusCurrent, StatusOf

\* A NAV LOG that is ready is justified, whatever the plan went through.
LEMMA ReadyJustified ==
  ASSUME ReadinessInv
  PROVE  ReadyIsJustified /\ ReadyIsReviewed
<1> SUFFICES ASSUME plan.status = "READY_FOR_COPY"
             PROVE  ReadyIsJustified /\ ReadyIsReviewed
    BY DEF ReadyIsJustified, ReadyIsComputed, ReadyIsReviewed, ReadyIsAcknowledged
<1>1. /\ outcome # NoOutcome /\ origin # NotYet
      /\ origin.issues = outcome.issues /\ origin.release = outcome.version
      /\ plan.calculated = CalculationInput(origin, origin.release, origin.release)
      /\ \A i \in Collected(plan, outcome, release) :
           i.severity # "blocker" /\ (i.ack => i.key \in plan.acks)
    BY ReadyMeans DEF ReadinessInv, OutcomeNamed
<1>2. plan.calculated = CalculationInput(plan, outcome.version, release)
    <2> SUFFICES ASSUME plan.calculated # CalculationInput(plan, outcome.version, release)
                 PROVE  FALSE
        OBVIOUS
    <2>1. \E cause : Effective(Blocker("stale"), cause) \in Collected(plan, outcome, release)
        BY <1>1 DEF Collected
    <2> QED BY <1>1, <2>1 DEF Effective, Blocker
<1>3. RequireDefaultsReview => plan.reviewed = DefaultsReview(plan.altitude, outcome.version)
    <2> SUFFICES ASSUME RequireDefaultsReview,
                        plan.reviewed # DefaultsReview(plan.altitude, outcome.version)
                 PROVE  FALSE
        OBVIOUS
    <2>1. Effective(Blocker("defaults"), plan.reviewed) \in Collected(plan, outcome, release)
        BY <1>1 DEF Collected
    <2> QED BY <1>1, <2>1 DEF Effective, Blocker
<1>4. Validation(plan, release) = {}
    <2> SUFFICES ASSUME NEW code \in Validation(plan, release)
                 PROVE  FALSE
        OBVIOUS
    <2>1. Effective(Blocker(code), NotYet) \in Collected(plan, outcome, release)
        BY <1>1 DEF Collected
    <2> QED BY <1>1, <2>1 DEF Effective, Blocker
<1>5. \A i \in outcome.issues :
        Effective(i, [against |-> plan.calculated, metadata |-> i.cause])
          \in Collected(plan, outcome, release)
    BY <1>1 DEF Collected
<1>6. \A i \in outcome.issues :
        /\ i.severity # "blocker"
        /\ i.ack => [code |-> i.code,
                     cause |-> [against |-> plan.calculated, metadata |-> i.cause]] \in plan.acks
    BY <1>1, <1>5 DEF Effective
<1>7. origin.altitude = plan.altitude /\ origin.arrival = plan.arrival /\ origin.release = release
    BY <1>1, <1>2 DEF CalculationInput
<1>8. /\ RequireCrewIdentification => plan.crew
      /\ plan.arrival = "fit" /\ release \notin Unverified
    BY <1>4 DEF Validation
<1>9. ReadyIsComputed
    BY <1>1, <1>6, <1>7, <1>8 DEF ReadyIsComputed
<1>10. ReadyIsReviewed
    BY <1>1, <1>3, <1>7, <1>8 DEF ReadyIsReviewed, DefaultsReview
<1>11. ReadyIsAcknowledged
    BY <1>1, <1>6 DEF ReadyIsAcknowledged
<1> QED BY <1>9, <1>10, <1>11 DEF ReadyIsJustified

\* The status kept with a plan is always the one its outcome deserves, also
\* after another release read it; the plan names what was computed.
THEOREM ReadinessInductive == ReadinessSpec => []ReadinessInv
<1>1. ReadinessInit => ReadinessInv
    BY ReadinessBegins
<1>2. ReadinessInv /\ [ReadinessNext]_readinessVars => ReadinessInv'
    BY ReadinessSteps
<1> QED BY <1>1, <1>2, PTL DEF ReadinessSpec

\* A NAV LOG that may be copied was computed by the running release from the
\* values and the arrival plan the draft has, and its warnings acknowledged for
\* that very computation: whichever of names and review the service asks for.
THEOREM ReadyOnlyWhenJustified == ReadinessSpec => []ReadyIsJustified
<1>1. ReadinessInv => ReadyIsJustified
    BY ReadyJustified
<1> QED BY <1>1, ReadinessInductive, PTL

\* A service that asks for names and a review lets no NAV LOG be copied without
\* the names, or on a review of other defaults or other tables.
THEOREM ReadyOnlyWhenReviewed == ReadinessSpec => []ReadyIsReviewed
<1>1. ReadinessInv => ReadyIsReviewed
    BY ReadyJustified
<1> QED BY <1>1, ReadinessInductive, PTL

-----------------------------------------------------------------------------
(* LocalCalculation: a decision that needs no more evidence is the one that  *)
(* all evidence would give, and an operation in progress knows the session   *)
(* it started from.                                                          *)

\* Every non-empty set of numbers has a least one.
LEMMA Least ==
  ASSUME NEW T, T \subseteq Nat, T # {}
  PROVE  \E x \in T : \A y \in T : x <= y
<1>1. PICK R : R = {ss \in Nat \X Nat : ss[1] < ss[2]}
    OBVIOUS
<1>2. IsWellFoundedOn(R, Nat)
    BY <1>1, NatLessThanWellFounded DEF OpToRel
<1>3. PICK x \in T : \A y \in T : ~(<<y, x>> \in R)
    BY <1>2, WFMin
<1>4. ASSUME NEW y \in T PROVE x <= y
    <2>1. x \in Nat /\ y \in Nat /\ ~(<<y, x>> \in R)
        BY <1>3
    <2> QED BY <1>1, <2>1
<1> QED BY <1>3, <1>4

\* Of several Runs one is the newest.
LEMMA NewestOf ==
  ASSUME NEW S, S \subseteq RunNumbers, S # {}
  PROVE  \E r \in S : \A q \in S : q <= r
<1>1. MaxForecastRun \in Nat
    BY SelectionAssumption DEF SelectionAssumption
<1>2. PICK n : n = MaxForecastRun
    OBVIOUS
<1>3. n \in Nat /\ \A r \in S : r \in 1 .. n
    BY <1>1, <1>2 DEF RunNumbers
<1> DEFINE T == {m \in Nat : n - m \in S}
<1>4. ASSUME NEW r \in S PROVE n - r \in T
    <2>1. n - r \in Nat /\ n - (n - r) = r
        BY <1>3
    <2> QED BY <2>1
<1>5. T \subseteq Nat /\ T # {}
    BY <1>4
<1>6. PICK x \in T : \A y \in T : x <= y
    <2> HIDE DEF T
    <2> QED BY <1>5, Least
<1>7. n - x \in S /\ x \in Nat
    OBVIOUS
<1>8. ASSUME NEW q \in S PROVE q <= n - x
    <2>1. x <= n - q
        BY <1>4, <1>6
    <2> QED BY <1>3, <1>7, <2>1
<1> QED BY <1>7, <1>8

\* More evidence: the catalogs that were read are the same, more payloads.
Extends(e, f) ==
  /\ \A m \in Models : e.catalog[m] # Unread => f.catalog[m] = e.catalog[m]
  /\ e.payloads \subseteq f.payloads

\* What is decided with the evidence stays with more of it.
Settled(x, y) == x.kind # "need" => y = x

\* A single Run: what is said of it without asking for more stays.
LEMMA CheckSettled ==
  ASSUME NEW w, NEW e, NEW f, Extends(e, f), NEW m \in Models, NEW r, NEW level
  PROVE  Settled(Check(w, e, m, r, level), Check(w, f, m, r, level))
BY DEF Settled, Check, Extends, Need, NoneFound, WeatherFailure, Found

\* What a check of a Run may say.
LEMMA CheckSays ==
  ASSUME NEW w, NEW e, NEW m \in Models, NEW r \in RunNumbers, NEW level
  PROVE  /\ Check(w, e, m, r, level) \in {Need(m, 0), Need(m, r), NoneFound, WeatherFailure, Found(m, r)}
         /\ Check(w, e, m, r, level).kind \in {"need", "none", "error", "run"}
         /\ Check(w, e, m, r, level).kind = "run" => Check(w, e, m, r, level) = Found(m, r)
BY DEF Check, Need, NoneFound, WeatherFailure, Found

\* The newest Run that is not excluded, and what a check of it says.
LEMMA LatestSays ==
  ASSUME NEW w, NEW e \in Evidence, NEW m \in Models, NEW level
  PROVE  \/ m \in w.outside /\ Latest(w, e, m, level) = NoneFound
         \/ m \notin w.outside /\ e.catalog[m] = Unread /\ Latest(w, e, m, level) = Need(m, 0)
         \/ m \notin w.outside /\ e.catalog[m] = {} /\ Latest(w, e, m, level) = WeatherFailure
         \/ /\ m \notin w.outside /\ e.catalog[m] # Unread /\ e.catalog[m] # {}
            /\ \A r \in e.catalog[m] : Check(w, e, m, r, level).kind = "none"
            /\ Latest(w, e, m, level) = NoneFound
         \/ /\ m \notin w.outside /\ e.catalog[m] # Unread /\ e.catalog[m] # {}
            /\ \E r \in e.catalog[m] :
                 /\ r \in RunNumbers /\ Check(w, e, m, r, level).kind # "none"
                 /\ \A q \in e.catalog[m] : Check(w, e, m, q, level).kind # "none" => q <= r
                 /\ Latest(w, e, m, level) = Check(w, e, m, r, level)
<1>1. CASE m \in w.outside \/ e.catalog[m] = Unread \/ e.catalog[m] = {}
    BY <1>1 DEF Latest
<1>2. CASE m \notin w.outside /\ e.catalog[m] # Unread /\ e.catalog[m] # {}
    <2> DEFINE open == {r \in e.catalog[m] : Check(w, e, m, r, level).kind # "none"}
               newest == CHOOSE r \in open : \A q \in open : q <= r
    <2>1. Latest(w, e, m, level) = IF open = {} THEN NoneFound ELSE Check(w, e, m, newest, level)
        BY <1>2 DEF Latest
    <2>2. e.catalog[m] \subseteq RunNumbers
        BY <1>2 DEF Evidence
    <2>3. CASE open = {}
        BY <1>2, <2>1, <2>3
    <2>4. CASE open # {}
        <3>1. open \subseteq RunNumbers
            BY <2>2
        <3>2. \E r \in open : \A q \in open : q <= r
            <4> HIDE DEF open
            <4> QED BY <2>4, <3>1, NewestOf
        <3>3. newest \in open /\ \A q \in open : q <= newest
            <4> HIDE DEF open
            <4> QED BY <3>2
        <3> HIDE DEF newest
        <3>4. Latest(w, e, m, level) = Check(w, e, m, newest, level)
            BY <2>1, <2>4
        <3> QED BY <1>2, <2>2, <3>3, <3>4
    <2> QED BY <2>3, <2>4
<1> QED BY <1>1, <1>2

\* The newest Run: the one found stays the newest with more evidence.
LEMMA LatestSettled ==
  ASSUME NEW w, NEW e \in Evidence, NEW f \in Evidence, Extends(e, f), NEW m \in Models, NEW level
  PROVE  Settled(Latest(w, e, m, level), Latest(w, f, m, level))
<1> SUFFICES ASSUME Latest(w, e, m, level).kind # "need"
             PROVE  Latest(w, f, m, level) = Latest(w, e, m, level)
    BY DEF Settled
<1>1. CASE m \in w.outside
    BY <1>1 DEF Latest
<1>2. CASE m \notin w.outside /\ e.catalog[m] = Unread
    BY <1>2 DEF Latest, Need
<1>3. CASE m \notin w.outside /\ e.catalog[m] = {} /\ e.catalog[m] # Unread
    BY <1>3 DEF Latest, Extends
<1>4. CASE m \notin w.outside /\ e.catalog[m] # Unread /\ e.catalog[m] # {}
    <2>1. f.catalog[m] = e.catalog[m] /\ e.catalog[m] \subseteq RunNumbers
        BY <1>4 DEF Extends, Evidence
    <2>2. \A r : Settled(Check(w, e, m, r, level), Check(w, f, m, r, level))
        BY CheckSettled
    <2>3. \A r : Check(w, e, m, r, level).kind = "none" => Check(w, f, m, r, level).kind = "none"
        BY <2>2 DEF Settled
    <2>4. CASE \A r \in e.catalog[m] : Check(w, e, m, r, level).kind = "none"
        <3>1. Latest(w, e, m, level) = NoneFound
            BY <1>4, <2>4, LatestSays
        <3>2. Latest(w, f, m, level) = NoneFound
            BY <1>4, <2>1, <2>3, <2>4, LatestSays
        <3> QED BY <3>1, <3>2
    <2>5. CASE \E r \in e.catalog[m] : Check(w, e, m, r, level).kind # "none"
        <3>1. PICK r \in e.catalog[m] :
                /\ Check(w, e, m, r, level).kind # "none"
                /\ \A q \in e.catalog[m] : Check(w, e, m, q, level).kind # "none" => q <= r
                /\ Latest(w, e, m, level) = Check(w, e, m, r, level)
            BY <1>4, <2>5, LatestSays
        <3>2. Check(w, f, m, r, level) = Check(w, e, m, r, level)
            BY <2>2, <3>1 DEF Settled
        <3>3. PICK s \in e.catalog[m] :
                /\ Check(w, f, m, s, level).kind # "none"
                /\ \A q \in e.catalog[m] : Check(w, f, m, q, level).kind # "none" => q <= s
                /\ Latest(w, f, m, level) = Check(w, f, m, s, level)
            BY <1>4, <2>1, <3>1, <3>2, LatestSays
        <3>4. r <= s /\ s <= r
            BY <2>3, <3>1, <3>2, <3>3
        <3>5. r \in Nat /\ s \in Nat
            BY <2>1 DEF RunNumbers
        <3>6. r = s
            BY <3>4, <3>5
        <3> QED BY <3>1, <3>2, <3>3, <3>6
    <2> QED BY <2>4, <2>5
<1> QED BY <1>1, <1>2, <1>3, <1>4

Choices == [kind : {"selected"}, choice : ModelRuns, update : BOOLEAN]

\* What the newest Run of a model may be said to be.
LEMMA LatestKinds ==
  ASSUME NEW w, NEW e \in Evidence, NEW m \in Models, NEW level, NEW x, x = Latest(w, e, m, level)
  PROVE  /\ x.kind \in {"need", "none", "error", "run"}
         /\ x.kind = "run" => x = Found(m, x.run) /\ x.run \in RunNumbers
         /\ x.kind = "need" => x.model = m /\ x.run \in {0} \cup RunNumbers
<1>1. CASE x \in {NoneFound, WeatherFailure, Need(m, 0)}
    BY <1>1 DEF NoneFound, WeatherFailure, Need
<1>2. CASE \E r \in RunNumbers : x = Check(w, e, m, r, level)
    <2>1. PICK r \in RunNumbers : x = Check(w, e, m, r, level)
        BY <1>2
    <2>2. x \in {Need(m, 0), Need(m, r), NoneFound, WeatherFailure, Found(m, r)}
        BY <2>1, CheckSays
    <2> QED BY <2>2 DEF NoneFound, WeatherFailure, Need, Found
<1> QED BY <1>1, <1>2, LatestSays

\* What a choice may say: a request for evidence, a failure, a Run of a model.
Says(x) == /\ x.kind \in {"need", "error", "selected", "unavailable", "required"}
           /\ x.kind = "selected" => x.choice \in ModelRuns /\ x.update \in BOOLEAN
           /\ x.kind = "need" => x.model \in Models /\ x.run \in {0} \cup RunNumbers

\* A choice that is made without a preference for a Run.
LEMMA PreferredSays ==
  ASSUME NEW w, NEW e \in Evidence, NEW level
  PROVE  /\ Says(OtherModel(w, e, level)) /\ Says(Preferred(w, e, level))
         /\ OtherModel(w, e, level).kind = "selected" => OtherModel(w, e, level).choice.model = "GSM"
<1>1. PICK g, m : g = Latest(w, e, "GSM", level) /\ m = Latest(w, e, "MSM", level)
    OBVIOUS
<1>2. /\ g.kind \in {"need", "none", "error", "run"} /\ m.kind \in {"need", "none", "error", "run"}
      /\ g.kind = "run" => g = Found("GSM", g.run) /\ g.run \in RunNumbers
      /\ g.kind = "need" => g.model = "GSM" /\ g.run \in {0} \cup RunNumbers
      /\ m.kind = "run" => m = Found("MSM", m.run) /\ m.run \in RunNumbers
      /\ m.kind = "need" => m.model = "MSM" /\ m.run \in {0} \cup RunNumbers
    BY <1>1, LatestKinds DEF Models
<1>3. PICK o : o = OtherModel(w, e, level)
    OBVIOUS
<1>4. o = OrElse(g, Unavailable)
    BY <1>1, <1>3 DEF OtherModel
<1>5. Says(o) /\ (o.kind = "selected" => o.choice.model = "GSM")
    <2>1. CASE g.kind = "run"
        <3>1. o = [kind |-> "selected", choice |-> [model |-> "GSM", run |-> g.run], update |-> FALSE]
            <4>1. g.model = "GSM"
                BY <1>2, <2>1 DEF Found
            <4>2. o = Selected(g, FALSE)
                BY <1>4, <2>1 DEF OrElse
            <4> QED BY <2>1, <4>1, <4>2 DEF Selected
        <3> QED BY <1>2, <2>1, <3>1 DEF Says, ModelRuns, Models
    <2>2. CASE g.kind = "none"
        <3>1. o = Unavailable
            BY <1>4, <2>2 DEF OrElse
        <3> QED BY <3>1 DEF Says, Unavailable
    <2>3. CASE g.kind \in {"need", "error"}
        <3>1. o = g
            BY <1>4, <2>3 DEF OrElse, Selected
        <3> QED BY <1>2, <2>3, <3>1 DEF Says, Models
    <2> QED BY <1>2, <2>1, <2>2, <2>3
<1>6. Preferred(w, e, level) = OrElse(m, o)
    BY <1>1, <1>3 DEF Preferred
<1>7. Says(OrElse(m, o))
    <2>1. CASE m.kind = "run"
        <3>1. OrElse(m, o) = [kind |-> "selected", choice |-> [model |-> "MSM", run |-> m.run],
                              update |-> FALSE]
            <4>1. m.model = "MSM"
                BY <1>2, <2>1 DEF Found
            <4>2. OrElse(m, o) = Selected(m, FALSE)
                BY <2>1 DEF OrElse
            <4> QED BY <2>1, <4>1, <4>2 DEF Selected
        <3> QED BY <1>2, <2>1, <3>1 DEF Says, ModelRuns, Models
    <2>2. CASE m.kind = "none"
        BY <1>5, <2>2 DEF OrElse
    <2>3. CASE m.kind \in {"need", "error"}
        <3>1. OrElse(m, o) = m
            BY <2>3 DEF OrElse, Selected
        <3> QED BY <1>2, <2>3, <3>1 DEF Says, Models
    <2> QED BY <1>2, <2>1, <2>2, <2>3
<1> QED BY <1>3, <1>5, <1>6, <1>7

\* A choice without a preference does not change with more evidence.
LEMMA PreferredSettled ==
  ASSUME NEW w, NEW e \in Evidence, NEW f \in Evidence, Extends(e, f), NEW level
  PROVE  /\ Settled(OtherModel(w, e, level), OtherModel(w, f, level))
         /\ Settled(Preferred(w, e, level), Preferred(w, f, level))
<1>1. PICK g, m, h, n : /\ g = Latest(w, e, "GSM", level) /\ m = Latest(w, e, "MSM", level)
                        /\ h = Latest(w, f, "GSM", level) /\ n = Latest(w, f, "MSM", level)
    OBVIOUS
<1>2. (g.kind # "need" => h = g) /\ (m.kind # "need" => n = m)
    BY <1>1, LatestSettled DEF Settled, Models
<1>3. PICK o, p : o = OtherModel(w, e, level) /\ p = OtherModel(w, f, level)
    OBVIOUS
<1>4. o = OrElse(g, Unavailable) /\ p = OrElse(h, Unavailable)
    BY <1>1, <1>3 DEF OtherModel
<1>5. o.kind # "need" => p = o
    BY <1>2, <1>4 DEF OrElse, Selected
<1>6. Preferred(w, e, level) = OrElse(m, o) /\ Preferred(w, f, level) = OrElse(n, p)
    BY <1>1, <1>3 DEF Preferred
<1>7. OrElse(m, o).kind # "need" => OrElse(n, p) = OrElse(m, o)
    BY <1>2, <1>5 DEF OrElse, Selected
<1> QED BY <1>3, <1>5, <1>6, <1>7 DEF Settled

\* A pinned MSM Run: kept, or GSM where MSM is excluded.
LEMMA PinnedMsmSays ==
  ASSUME NEW w, NEW e \in Evidence, NEW level, NEW pinned \in ModelRuns, pinned.model = "MSM"
  PROVE  LET x == SelectPinnedMsm(w, e, level, pinned) IN
         /\ Says(x)
         /\ x.kind = "selected" =>
              \/ x.choice = pinned
              \/ /\ x.choice.model = "GSM" /\ Latest(w, e, "MSM", level).kind = "none"
                 /\ Check(w, e, "MSM", pinned.run, level).kind = "none"
<1>1. PICK c, m, o : /\ c = Check(w, e, "MSM", pinned.run, level) /\ m = Latest(w, e, "MSM", level)
                     /\ o = OtherModel(w, e, level)
    OBVIOUS
<1>2. pinned.run \in RunNumbers /\ pinned = [model |-> "MSM", run |-> pinned.run]
    BY DEF ModelRuns
<1>3. /\ c \in {Need("MSM", 0), Need("MSM", pinned.run), NoneFound, WeatherFailure, Found("MSM", pinned.run)}
      /\ m.kind \in {"need", "none", "error", "run"}
      /\ m.kind = "need" => m.model = "MSM" /\ m.run \in {0} \cup RunNumbers
      /\ m.kind = "run" => m.run \in RunNumbers
    BY <1>1, <1>2, CheckSays, LatestKinds DEF Models
<1>4. Says(o) /\ (o.kind = "selected" => o.choice.model = "GSM")
    BY <1>1, PreferredSays
<1>5. SelectPinnedMsm(w, e, level, pinned) = PinnedMsm(c, m, o)
    BY <1>1 DEF SelectPinnedMsm
<1>6. PICK x : x = PinnedMsm(c, m, o)
    OBVIOUS
<1>7. CASE c.kind = "run"
    <2>1. c = Found("MSM", pinned.run)
        BY <1>3, <1>7 DEF Need, NoneFound, WeatherFailure
    <2>2. (x = m /\ Pending(m)) \/ x = Selected(c, m.kind = "run" /\ m.run > c.run)
        BY <1>6, <1>7 DEF PinnedMsm, Pending
    <2>3. PICK b : b = (m.kind = "run" /\ m.run > c.run)
        OBVIOUS
    <2>4. b \in BOOLEAN
        BY <2>3
    <2>5. (x = m /\ Pending(m)) \/ x = [kind |-> "selected", choice |-> pinned, update |-> b]
        BY <1>2, <2>1, <2>2, <2>3 DEF Selected, Found
    <2>6. Says(x) /\ (x.kind = "selected" => x.choice = pinned)
        BY <1>3, <2>4, <2>5 DEF Says, Pending, Models
    <2> QED BY <1>5, <1>6, <2>6
<1>8. CASE c.kind # "run"
    <2>1. \/ c = x /\ c.kind \in {"need", "error"}
          \/ c.kind = "none" /\ x = m /\ Pending(m)
          \/ c.kind = "none" /\ ~Pending(m) /\ x = IF m.kind = "run" THEN UpdateRequired ELSE o
        BY <1>3, <1>6, <1>8 DEF PinnedMsm, Pending, Need, NoneFound, WeatherFailure, Found
    <2>2. CASE c = x /\ c.kind \in {"need", "error"}
        <3>1. Says(x) /\ x.kind # "selected"
            BY <1>2, <1>3, <2>2 DEF Says, Need, NoneFound, WeatherFailure, Found, Models
        <3> QED BY <1>5, <1>6, <3>1
    <2>3. CASE c.kind = "none" /\ x = m /\ Pending(m)
        <3>1. Says(x) /\ x.kind # "selected"
            BY <1>3, <2>3 DEF Says, Pending, Models
        <3> QED BY <1>5, <1>6, <3>1
    <2>4. CASE c.kind = "none" /\ ~Pending(m) /\ x = IF m.kind = "run" THEN UpdateRequired ELSE o
        <3>1. Says(x) /\ (x.kind = "selected" => x.choice.model = "GSM" /\ m.kind = "none")
            BY <1>3, <1>4, <2>4 DEF Says, Pending, UpdateRequired
        <3> QED BY <1>1, <1>5, <1>6, <2>4, <3>1
    <2> QED BY <2>1, <2>2, <2>3, <2>4
<1> QED BY <1>7, <1>8

\* A pinned GSM Run: kept, whatever MSM has.
LEMMA PinnedGsmSays ==
  ASSUME NEW w, NEW e \in Evidence, NEW level, NEW pinned \in ModelRuns, pinned.model = "GSM"
  PROVE  LET x == SelectPinnedGsm(w, e, level, pinned) IN
         Says(x) /\ (x.kind = "selected" => x.choice = pinned)
<1>1. PICK c, m, g : /\ c = Check(w, e, "GSM", pinned.run, level) /\ m = Latest(w, e, "MSM", level)
                     /\ g = Latest(w, e, "GSM", level)
    OBVIOUS
<1>2. pinned.run \in RunNumbers /\ pinned = [model |-> "GSM", run |-> pinned.run]
    BY DEF ModelRuns
<1>3. /\ c \in {Need("GSM", 0), Need("GSM", pinned.run), NoneFound, WeatherFailure, Found("GSM", pinned.run)}
      /\ m.kind \in {"need", "none", "error", "run"} /\ g.kind \in {"need", "none", "error", "run"}
      /\ m.kind = "need" => m.model = "MSM" /\ m.run \in {0} \cup RunNumbers
      /\ g.kind = "need" => g.model = "GSM" /\ g.run \in {0} \cup RunNumbers
    BY <1>1, <1>2, CheckSays, LatestKinds DEF Models
<1>4. PICK x : x = PinnedGsm(c, m, g, pinned.run)
    OBVIOUS
<1>5. SelectPinnedGsm(w, e, level, pinned) = x
    BY <1>1, <1>4 DEF SelectPinnedGsm
<1>6. \/ x = c /\ Pending(c)
      \/ x = m /\ Pending(m)
      \/ x = g /\ Pending(g)
      \/ x = Unavailable \/ x = UpdateRequired
      \/ \E newer \in BOOLEAN : x = Selected(Found("GSM", pinned.run), newer)
    <2>1. PICK b : b = (g.kind = "run" /\ g.run > pinned.run)
        OBVIOUS
    <2>2. b \in BOOLEAN
        BY <2>1
    <2>3. x = IF Pending(c) THEN c ELSE IF Pending(m) THEN m
              ELSE IF m.kind = "run" THEN (IF c.kind = "none" THEN UpdateRequired ELSE Selected(Found("GSM", pinned.run), TRUE))
              ELSE IF Pending(g) THEN g
              ELSE IF c.kind = "none" /\ g.kind = "none" THEN Unavailable
              ELSE (IF c.kind = "none" THEN UpdateRequired ELSE Selected(Found("GSM", pinned.run), b))
        BY <1>4, <2>1 DEF PinnedGsm
    <2> QED BY <2>2, <2>3
<1>7. CASE x = c /\ Pending(c)
    <2>1. Says(x) /\ x.kind # "selected"
        BY <1>2, <1>3, <1>7 DEF Says, Need, NoneFound, WeatherFailure, Found, Models, Pending
    <2> QED BY <1>5, <2>1
<1>8. CASE (x = m /\ Pending(m)) \/ (x = g /\ Pending(g))
    <2>1. Says(x) /\ x.kind # "selected"
        BY <1>3, <1>8 DEF Says, Models, Pending
    <2> QED BY <1>5, <2>1
<1>9. CASE x = Unavailable \/ x = UpdateRequired
    <2>1. Says(x) /\ x.kind # "selected"
        BY <1>9 DEF Says, Unavailable, UpdateRequired
    <2> QED BY <1>5, <2>1
<1>10. CASE \E newer \in BOOLEAN : x = Selected(Found("GSM", pinned.run), newer)
    <2>1. PICK newer \in BOOLEAN : x = [kind |-> "selected", choice |-> pinned, update |-> newer]
        BY <1>2, <1>10 DEF Selected, Found
    <2>2. Says(x) /\ x.choice = pinned
        BY <2>1 DEF Says
    <2> QED BY <1>5, <2>2
<1> QED BY <1>6, <1>7, <1>8, <1>9, <1>10

\* A pinned MSM Run does not change its fate with more evidence.
LEMMA PinnedMsmSettled ==
  ASSUME NEW w, NEW e \in Evidence, NEW f \in Evidence, Extends(e, f), NEW level, NEW pinned
  PROVE  Settled(SelectPinnedMsm(w, e, level, pinned), SelectPinnedMsm(w, f, level, pinned))
<1>1. PICK c, m, o, d, n, p :
        /\ c = Check(w, e, "MSM", pinned.run, level) /\ d = Check(w, f, "MSM", pinned.run, level)
        /\ m = Latest(w, e, "MSM", level) /\ n = Latest(w, f, "MSM", level)
        /\ o = OtherModel(w, e, level) /\ p = OtherModel(w, f, level)
    OBVIOUS
<1>2. (c.kind # "need" => d = c) /\ (m.kind # "need" => n = m) /\ (o.kind # "need" => p = o)
    <2>1. "MSM" \in Models
        BY DEF Models
    <2>2. Settled(c, d)
        BY <1>1, <2>1, CheckSettled
    <2>3. Settled(m, n)
        BY <1>1, <2>1, LatestSettled
    <2>4. Settled(o, p)
        BY <1>1, PreferredSettled
    <2> QED BY <2>2, <2>3, <2>4 DEF Settled
<1>3. PinnedMsm(c, m, o).kind # "need" => PinnedMsm(d, n, p) = PinnedMsm(c, m, o)
    BY <1>2 DEF PinnedMsm, Pending, UpdateRequired
<1> QED BY <1>1, <1>3 DEF Settled, SelectPinnedMsm

\* Nor does a pinned GSM Run.
LEMMA PinnedGsmSettled ==
  ASSUME NEW w, NEW e \in Evidence, NEW f \in Evidence, Extends(e, f), NEW level, NEW pinned
  PROVE  Settled(SelectPinnedGsm(w, e, level, pinned), SelectPinnedGsm(w, f, level, pinned))
<1>1. PICK c, m, g, d, n, h :
        /\ c = Check(w, e, "GSM", pinned.run, level) /\ d = Check(w, f, "GSM", pinned.run, level)
        /\ m = Latest(w, e, "MSM", level) /\ n = Latest(w, f, "MSM", level)
        /\ g = Latest(w, e, "GSM", level) /\ h = Latest(w, f, "GSM", level)
    OBVIOUS
<1>2. (c.kind # "need" => d = c) /\ (m.kind # "need" => n = m) /\ (g.kind # "need" => h = g)
    <2>1. "MSM" \in Models /\ "GSM" \in Models
        BY DEF Models
    <2>2. Settled(c, d)
        BY <1>1, <2>1, CheckSettled
    <2>3. Settled(m, n) /\ Settled(g, h)
        BY <1>1, <2>1, LatestSettled
    <2> QED BY <2>2, <2>3 DEF Settled
<1>3. PinnedGsm(c, m, g, pinned.run).kind # "need"
        => PinnedGsm(d, n, h, pinned.run) = PinnedGsm(c, m, g, pinned.run)
    BY <1>2 DEF PinnedGsm, Pending
<1> QED BY <1>1, <1>3 DEF Settled, SelectPinnedGsm

\* What a selection says, and that it stays with more evidence.
LEMMA SelectSays ==
  ASSUME NEW w, NEW e \in Evidence, NEW level, NEW pinned \in ModelRuns \cup {NoRun}, NEW refresh
  PROVE  Says(Select(w, e, level, pinned, refresh))
<1>1. CASE pinned = NoRun \/ refresh
    BY <1>1, PreferredSays DEF Select
<1>2. CASE ~(pinned = NoRun \/ refresh) /\ pinned.model = "MSM"
    BY <1>2, PinnedMsmSays DEF Select
<1>3. CASE ~(pinned = NoRun \/ refresh) /\ pinned.model # "MSM"
    <2>1. pinned \in ModelRuns /\ pinned.model = "GSM"
        BY <1>3 DEF ModelRuns, Models
    <2> QED BY <1>3, <2>1, PinnedGsmSays DEF Select
<1> QED BY <1>1, <1>2, <1>3

\* More evidence does not change a selection that was made.
LEMMA SelectSettled ==
  ASSUME NEW w, NEW e \in Evidence, NEW f \in Evidence, Extends(e, f), NEW level, NEW pinned, NEW refresh
  PROVE  Settled(Select(w, e, level, pinned, refresh), Select(w, f, level, pinned, refresh))
<1>1. CASE pinned = NoRun \/ refresh
    BY <1>1, PreferredSettled DEF Select
<1>2. CASE ~(pinned = NoRun \/ refresh) /\ pinned.model = "MSM"
    BY <1>2, PinnedMsmSettled DEF Select
<1>3. CASE ~(pinned = NoRun \/ refresh) /\ pinned.model # "MSM"
    BY <1>3, PinnedGsmSettled DEF Select
<1> QED BY <1>1, <1>2, <1>3

\* What a calculation that got so far comes to.
CalculationSays(x) ==
  /\ x.kind \in {"need", "error", "outcome"}
  /\ x.kind = "outcome" => /\ x.choice \in ModelRuns \cup {NoRun} /\ x.blocked \in BOOLEAN
                           /\ x.announced \in BOOLEAN /\ (~x.blocked => x.choice \in ModelRuns)
  /\ x.kind = "need" => x.model \in Models /\ x.run \in {0} \cup RunNumbers

\* A calculation asks for evidence, fails, or has an outcome with a Run.
LEMMA Calculates ==
  ASSUME NEW w, NEW e \in Evidence, NEW pinned \in ModelRuns \cup {NoRun}, NEW refresh
  PROVE  CalculationSays(Calculation(w, e, pinned, refresh))
<1>1. PICK s, t : s = Select(w, e, 1, pinned, refresh) /\ t = Select(w, e, 2, pinned, refresh)
    OBVIOUS
<1>2. Says(s) /\ Says(t)
    BY <1>1, SelectSays
<1>3. PICK x : x = Decided(w, s, t, pinned)
    OBVIOUS
<1>4. CASE s.kind \in {"need", "error"}
    <2>1. x = s
        BY <1>3, <1>4 DEF Decided, Pending
    <2>2. CalculationSays(x)
        BY <1>2, <1>4, <2>1 DEF Says, CalculationSays
    <2> QED BY <1>1, <1>3, <2>2 DEF Calculation
<1>5. CASE s.kind \in {"unavailable", "required"}
    <2>1. PICK b \in BOOLEAN : b = (s.kind = "required")
        OBVIOUS
    <2>2. x = [kind |-> "outcome", choice |-> pinned, blocked |-> TRUE, announced |-> b]
        BY <1>3, <1>5, <2>1 DEF Decided, Pending, Refused, Blocked
    <2>3. CalculationSays(x)
        BY <2>2 DEF CalculationSays
    <2> QED BY <1>1, <1>3, <2>3 DEF Calculation
<1>6. CASE s.kind = "selected" /\ w.flight[s.choice.model] = 1
    <2>1. x = [kind |-> "outcome", choice |-> s.choice, blocked |-> FALSE, announced |-> s.update]
        BY <1>3, <1>6 DEF Decided, Pending, Completed
    <2>2. CalculationSays(x)
        BY <1>2, <1>6, <2>1 DEF CalculationSays, Says
    <2> QED BY <1>1, <1>3, <2>2 DEF Calculation
<1>7. CASE s.kind = "selected" /\ w.flight[s.choice.model] # 1 /\ t.kind \in {"need", "error"}
    <2>1. x = t
        BY <1>3, <1>7 DEF Decided, Pending
    <2>2. CalculationSays(x)
        BY <1>2, <1>7, <2>1 DEF Says, CalculationSays
    <2> QED BY <1>1, <1>3, <2>2 DEF Calculation
<1>8. CASE s.kind = "selected" /\ w.flight[s.choice.model] # 1 /\ t.kind \in {"unavailable", "required"}
    <2>1. PICK b : b = (s.update \/ t.kind = "required")
        OBVIOUS
    <2>2. b \in BOOLEAN
        BY <2>1
    <2>3. x = [kind |-> "outcome", choice |-> s.choice, blocked |-> TRUE, announced |-> b]
        BY <1>3, <1>8, <2>1 DEF Decided, Pending, Blocked
    <2>4. CalculationSays(x)
        BY <1>2, <1>8, <2>2, <2>3 DEF CalculationSays, Says
    <2> QED BY <1>1, <1>3, <2>4 DEF Calculation
<1>9. CASE s.kind = "selected" /\ w.flight[s.choice.model] # 1 /\ t.kind = "selected"
    <2>1. PICK b : b = (t.update \/ (t.choice = s.choice /\ s.update))
        OBVIOUS
    <2>2. b \in BOOLEAN
        BY <2>1
    <2>3. x = [kind |-> "outcome", choice |-> t.choice, blocked |-> FALSE, announced |-> b]
        BY <1>3, <1>9, <2>1 DEF Decided, Pending, Completed
    <2>4. CalculationSays(x)
        BY <1>2, <1>9, <2>2, <2>3 DEF CalculationSays, Says
    <2> QED BY <1>1, <1>3, <2>4 DEF Calculation
<1> QED BY <1>2, <1>4, <1>5, <1>6, <1>7, <1>8, <1>9 DEF Says

\* An outcome that was reached is the one that all evidence would give.
LEMMA CalculationSettled ==
  ASSUME NEW w, NEW e \in Evidence, NEW f \in Evidence, Extends(e, f), NEW pinned, NEW refresh,
         Calculation(w, e, pinned, refresh).kind = "outcome"
  PROVE  Calculation(w, f, pinned, refresh) = Calculation(w, e, pinned, refresh)
<1>1. PICK s, t, u, v :
        /\ s = Select(w, e, 1, pinned, refresh) /\ t = Select(w, e, 2, pinned, refresh)
        /\ u = Select(w, f, 1, pinned, refresh) /\ v = Select(w, f, 2, pinned, refresh)
    OBVIOUS
<1>2. (s.kind # "need" => u = s) /\ (t.kind # "need" => v = t)
    <2>1. Settled(s, u) /\ Settled(t, v)
        BY <1>1, SelectSettled
    <2> QED BY <2>1 DEF Settled
<1>3. Decided(w, s, t, pinned).kind = "outcome"
    BY <1>1 DEF Calculation
<1>4. Decided(w, u, v, pinned) = Decided(w, s, t, pinned)
    BY <1>2, <1>3 DEF Decided, Pending
<1> QED BY <1>1, <1>4 DEF Calculation

\* No newest Run: MSM is excluded, by the route or by every Run of the catalog.
LEMMA NoneIsExcluded ==
  ASSUME NEW w \in Worlds, NEW e \in Evidence, NEW level \in 1 .. 2,
         Latest(w, e, "MSM", level).kind = "none"
  PROVE  MsmExcluded(w, e.catalog["MSM"], level)
<1>1. "MSM" \in Models /\ (Need("MSM", 0).kind # "none") /\ (WeatherFailure.kind # "none")
    BY DEF Models, Need, WeatherFailure
<1>2. \/ "MSM" \in w.outside
      \/ /\ "MSM" \notin w.outside /\ e.catalog["MSM"] # Unread /\ e.catalog["MSM"] # {}
         /\ \A r \in e.catalog["MSM"] : Check(w, e, "MSM", r, level).kind = "none"
    BY <1>1, LatestSays
<1>3. CASE "MSM" \notin w.outside /\ e.catalog["MSM"] # Unread /\ e.catalog["MSM"] # {}
    <2>1. e.catalog["MSM"] \subseteq RunNumbers
        BY <1>1, <1>3 DEF Evidence
    <2>2. ASSUME NEW r \in e.catalog["MSM"]
          PROVE  w.reach[[model |-> "MSM", run |-> r]] < level
        <3>1. [model |-> "MSM", run |-> r] \in ModelRuns
            BY <1>1, <2>1 DEF ModelRuns
        <3>2. w.reach[[model |-> "MSM", run |-> r]] \in 0 .. 2
            BY <3>1 DEF Worlds
        <3>3. Check(w, e, "MSM", r, level).kind = "none"
            BY <1>2, <1>3
        <3>4. ~(w.reach[[model |-> "MSM", run |-> r]] >= level)
            BY <1>3, <3>3 DEF Check, Need, WeatherFailure, Found
        <3> QED BY <3>2, <3>4
    <2> QED BY <1>3, <2>2 DEF MsmExcluded
<1> QED BY <1>2, <1>3 DEF MsmExcluded

\* What does not reach a shorter flight does not reach a longer one.
LEMMA ExcludedFurther ==
  ASSUME NEW w \in Worlds, NEW e \in Evidence, MsmExcluded(w, e.catalog["MSM"], 1),
         NEW level \in 1 .. 2, e.catalog["MSM"] # Unread \/ "MSM" \in w.outside
  PROVE  MsmExcluded(w, e.catalog["MSM"], level)
<1>1. CASE "MSM" \in w.outside
    BY <1>1 DEF MsmExcluded
<1>2. CASE "MSM" \notin w.outside
    <2>1. "MSM" \in Models
        BY DEF Models
    <2>2. e.catalog["MSM"] \subseteq RunNumbers
        BY <1>2, <2>1 DEF Evidence
    <2>3. ASSUME NEW r \in e.catalog["MSM"]
          PROVE  w.reach[[model |-> "MSM", run |-> r]] < level
        <3>1. [model |-> "MSM", run |-> r] \in ModelRuns
            BY <2>1, <2>2 DEF ModelRuns
        <3>2. w.reach[[model |-> "MSM", run |-> r]] \in 0 .. 2
            BY <3>1 DEF Worlds
        <3>3. w.reach[[model |-> "MSM", run |-> r]] < 1
            BY <1>2 DEF MsmExcluded
        <3> QED BY <3>2, <3>3
    <2> QED BY <1>2, <2>3 DEF MsmExcluded
<1> QED BY <1>1, <1>2

\* Without a new choice a pinned Run gives way only to GSM where MSM is excluded.
LEMMA PinnedChoice ==
  ASSUME NEW w \in Worlds, NEW e \in Evidence, NEW pinned \in ModelRuns, pinned # NoRun,
         NEW refresh, ~refresh, NEW x, x = Calculation(w, e, pinned, refresh),
         x.kind = "outcome", x.choice # pinned
  PROVE  /\ pinned.model = "MSM" /\ x.choice.model = "GSM"
         /\ MsmExcluded(w, e.catalog["MSM"], w.flight["MSM"])
<1>1. PICK s, t : s = Select(w, e, 1, pinned, refresh) /\ t = Select(w, e, 2, pinned, refresh)
    OBVIOUS
<1>2. x = Decided(w, s, t, pinned)
    BY <1>1 DEF Calculation
<1>3. Says(s) /\ Says(t)
    BY <1>1, SelectSays
<1>4. \/ x.choice = pinned
      \/ s.kind = "selected" /\ x.choice = s.choice
      \/ /\ s.kind = "selected" /\ w.flight[s.choice.model] # 1
         /\ t.kind = "selected" /\ x.choice = t.choice
    <2>1. ~Pending(s) /\ (s.kind = "selected" /\ w.flight[s.choice.model] # 1 => ~Pending(t))
        BY <1>2 DEF Decided, Pending
    <2> QED BY <1>2, <2>1 DEF Decided, Refused, Blocked, Completed
<1>5. CASE pinned.model = "GSM"
    <2>1. s = SelectPinnedGsm(w, e, 1, pinned) /\ t = SelectPinnedGsm(w, e, 2, pinned)
        BY <1>1, <1>5 DEF Select
    <2>2. (s.kind = "selected" => s.choice = pinned) /\ (t.kind = "selected" => t.choice = pinned)
        BY <1>5, <2>1, PinnedGsmSays
    <2> QED BY <1>4, <2>2
<1>6. CASE pinned.model = "MSM"
    <2>1. s = SelectPinnedMsm(w, e, 1, pinned) /\ t = SelectPinnedMsm(w, e, 2, pinned)
        BY <1>1, <1>6 DEF Select
    <2>2. /\ s.kind = "selected" /\ s.choice # pinned =>
               s.choice.model = "GSM" /\ Latest(w, e, "MSM", 1).kind = "none"
          /\ t.kind = "selected" /\ t.choice # pinned =>
               t.choice.model = "GSM" /\ Latest(w, e, "MSM", 2).kind = "none"
        BY <1>6, <2>1, PinnedMsmSays
    <2>3. w.flight["MSM"] \in 1 .. 2
        BY DEF Worlds, Models
    <2>4. Latest(w, e, "MSM", 1).kind = "none" => MsmExcluded(w, e.catalog["MSM"], w.flight["MSM"])
        <3> SUFFICES ASSUME Latest(w, e, "MSM", 1).kind = "none"
                     PROVE  MsmExcluded(w, e.catalog["MSM"], w.flight["MSM"])
            OBVIOUS
        <3>1. MsmExcluded(w, e.catalog["MSM"], 1)
            BY NoneIsExcluded
        <3>2. e.catalog["MSM"] # Unread \/ "MSM" \in w.outside
            BY DEF Latest, Need
        <3> QED BY <2>3, <3>1, <3>2, ExcludedFurther
    <2>5. CASE s.kind = "selected" /\ s.choice # pinned /\ x.choice = s.choice
        BY <1>6, <2>2, <2>4, <2>5
    <2>6. CASE /\ s.kind = "selected" /\ w.flight[s.choice.model] # 1
               /\ t.kind = "selected" /\ t.choice # pinned /\ x.choice = t.choice
        <3>1. CASE s.choice = pinned
            <4>1. w.flight["MSM"] = 2
                BY <1>6, <2>3, <2>6, <3>1
            <4>2. MsmExcluded(w, e.catalog["MSM"], 2)
                BY <2>2, <2>6, NoneIsExcluded
            <4> QED BY <1>6, <2>2, <2>6, <4>1, <4>2
        <3>2. CASE s.choice # pinned
            BY <1>6, <2>2, <2>4, <2>6, <3>2
        <3> QED BY <3>1, <3>2
    <2> QED BY <1>4, <2>5, <2>6
<1> QED BY <1>5, <1>6 DEF ModelRuns, Models

Answers == [input : Drafts, choice : ModelRuns, announced : BOOLEAN]

\* What an operation in progress is: the session it began with, and what its
\* stage has come to.
Progress(a) ==
  /\ a.number \in 1 .. MaxIssued /\ a.before \in Works
  /\ \/ /\ a.stage \in {"replay", "acquire", "failed"} /\ a.evidence \in Evidence
        /\ a = [number |-> a.number, stage |-> a.stage, before |-> a.before, evidence |-> a.evidence]
     \/ a = [number |-> a.number, before |-> a.before, stage |-> "backup"]
     \/ /\ a.answer \in Answers
        /\ a = [number |-> a.number, before |-> a.before, stage |-> "answered", answer |-> a.answer]
     \/ /\ a.previous \in Works
        /\ a = [number |-> a.number, before |-> a.before, stage |-> "adopted", previous |-> a.previous]

\* The same session but for the announced refresh.
SameSession(v, w) == v.input = w.input /\ v.pinned = w.pinned /\ v.last = w.last

\* Until a result is adopted the session is the one the operation began with;
\* then that one is kept aside, and the session holds the whole result.
SessionKept ==
  action # NoAction =>
    /\ Progress(action)
    /\ ~Stage("adopted") => SameSession(work, action.before)
    /\ Stage("adopted") =>
         /\ SameSession(action.previous, action.before)
         /\ work.input = action.before.input
         /\ work.last = [input |-> action.before.input, choice |-> work.pinned]

\* What is asked of the backup server is the unchanged input, and a refresh
\* only if the user asked for one.
AskedFor ==
  Stage("backup") \/ Stage("answered") =>
    context.input \in Drafts /\ (context.refresh => Refreshing(work))

LocalInv ==
  /\ LocalTypeOK /\ queue \in Seq(Operations) /\ SessionKept /\ AskedFor
  /\ Stage("acquire") => Replayed.kind = "need"

\* A stage belongs to an operation in progress.
LEMMA StageOf ==
  ASSUME SessionKept, NEW s, Stage(s)
  PROVE  /\ action # NoAction /\ action.stage = s /\ Progress(action)
         /\ action.number \in 1 .. MaxIssued /\ action.before \in Works
         /\ s \in {"replay", "acquire", "failed"} =>
              /\ action.evidence \in Evidence /\ SameSession(work, action.before)
              /\ action = [number |-> action.number, stage |-> s, before |-> action.before,
                           evidence |-> action.evidence]
         /\ s \in {"backup", "answered"} => SameSession(work, action.before)
         /\ s = "answered" => action.answer \in Answers
         /\ s = "adopted" =>
              /\ action.previous \in Works /\ SameSession(action.previous, action.before)
              /\ work.input = action.before.input
              /\ work.last = [input |-> action.before.input, choice |-> work.pinned]
<1>1. action # NoAction /\ action.stage = s /\ Progress(action)
    BY DEF Stage, SessionKept
<1>2. PICK a : a = action
    OBVIOUS
<1>3. Progress(a) /\ a.stage = s
    BY <1>1, <1>2
<1>4. /\ a.number \in 1 .. MaxIssued /\ a.before \in Works
      /\ s \in {"replay", "acquire", "failed"} =>
           /\ a.evidence \in Evidence
           /\ a = [number |-> a.number, stage |-> s, before |-> a.before, evidence |-> a.evidence]
      /\ s = "answered" => a.answer \in Answers
      /\ s = "adopted" => a.previous \in Works
    BY ONLY <1>3 DEF Progress
<1>5. /\ s # "adopted" => SameSession(work, action.before)
      /\ s = "adopted" =>
           /\ SameSession(action.previous, action.before)
           /\ work.input = action.before.input
           /\ work.last = [input |-> action.before.input, choice |-> work.pinned]
    BY <1>1 DEF SessionKept, Stage
<1> QED BY <1>1, <1>2, <1>4, <1>5

\* A session as a record of its fields.
LEMMA WorkRecord ==
  ASSUME NEW w \in Works
  PROVE  /\ w = [input |-> w.input, pinned |-> w.pinned, last |-> w.last, intent |-> w.intent]
         /\ w.input \in Drafts /\ w.pinned \in ModelRuns \cup {NoRun}
         /\ w.last \in Results \cup {NoResult} /\ w.intent \in Drafts \cup {NoIntent}
BY DEF Works

\* Forgetting an outdated refresh changes nothing else.
LEMMA ObservedSame ==
  ASSUME NEW w \in Works
  PROVE  /\ Observed(w) \in Works /\ SameSession(Observed(w), w)
         /\ Refreshing(Observed(w)) = Refreshing(w)
<1>1. CASE Refreshing(w)
    BY <1>1 DEF Observed, SameSession
<1>2. CASE ~Refreshing(w)
    <2>1. Observed(w) = [input |-> w.input, pinned |-> w.pinned, last |-> w.last, intent |-> NoIntent]
        BY <1>2, WorkRecord DEF Observed
    <2>2. Observed(w) \in Works /\ SameSession(Observed(w), w) /\ Observed(w).intent = NoIntent
          /\ Observed(w).input \in Drafts
        BY <2>1, WorkRecord DEF Works, SameSession
    <2>3. ~Refreshing(Observed(w))
        BY <2>2, LocalAssumption DEF Refreshing, LocalAssumption
    <2> QED BY <1>2, <2>2, <2>3 DEF Refreshing
<1> QED BY <1>1, <1>2

\* What a replay says is typed, and depends on the session only as far as it
\* is the same.
LEMMA ReplaySays ==
  ASSUME LocalTypeOK, SessionKept, Stage("replay") \/ Stage("acquire")
  PROVE  CalculationSays(Replayed) /\ action.evidence \in Evidence
<1>1. action.evidence \in Evidence
    BY StageOf
<1>2. work.pinned \in ModelRuns \cup {NoRun}
    BY WorkRecord DEF LocalTypeOK
<1> QED BY <1>1, <1>2, Calculates DEF Replayed

\* Nothing happened yet.
LEMMA LocalBegins ==
  ASSUME LocalInit
  PROVE  LocalInv
<1> USE DEF LocalInit
<1>1. work \in Works
    <2>1. PICK d \in Drafts, p \in {NoRun} \cup [model : Models, run : {1}] :
            work = [input |-> d, pinned |-> p, last |-> NoResult, intent |-> NoIntent]
        OBVIOUS
    <2>2. p \in ModelRuns \cup {NoRun}
        <3>1. 1 \in RunNumbers
            BY SelectionAssumption DEF SelectionAssumption, RunNumbers
        <3> QED BY <3>1 DEF ModelRuns
    <2> QED BY <2>1, <2>2 DEF Works
<1>2. feed \in [Models -> SUBSET RunNumbers]
    <2>1. 1 \in RunNumbers
        BY SelectionAssumption DEF SelectionAssumption, RunNumbers
    <2> QED BY <2>1
<1>3. queue \in Seq(Operations) /\ Len(queue) = 0 /\ 0 \in 0 .. MaxIssued
    BY EmptySeq, LocalAssumption DEF LocalAssumption
<1>4. LocalTypeOK
    BY <1>1, <1>2, <1>3 DEF LocalTypeOK
<1> QED BY <1>3, <1>4 DEF LocalInv, SessionKept, AskedFor, Stage

\* The forecasts that are published do not touch the session.
LEMMA FeedKeeps ==
  ASSUME LocalInv, NEW m \in Models, PublishForecast(m) \/ RetireForecast(m)
  PROVE  LocalInv'
<1>1. UNCHANGED <<world, cached, work, action, queue, generation, context>>
    BY DEF PublishForecast, RetireForecast
<1>2. feed' \in [Models -> SUBSET RunNumbers]
    <2>1. feed \in [Models -> SUBSET RunNumbers]
        BY DEF LocalInv, LocalTypeOK
    <2>2. CASE PublishForecast(m)
        BY <2>1, <2>2 DEF PublishForecast
    <2>3. CASE RetireForecast(m)
        <3>1. {r \in feed[m] : \E q \in feed[m] : q < r} \in SUBSET RunNumbers
            BY <2>1
        <3> QED BY <2>1, <2>3, <3>1 DEF RetireForecast
    <2> QED BY <2>2, <2>3
<1>3. LocalTypeOK'
    BY <1>1, <1>2 DEF LocalInv, LocalTypeOK
<1>4. SessionKept'
    BY <1>1 DEF LocalInv, SessionKept, Stage, SameSession
<1>5. AskedFor' /\ (Stage("acquire") => Replayed.kind = "need")'
    BY <1>1 DEF LocalInv, AskedFor, Stage, Refreshing, Replayed
<1> QED BY <1>1, <1>3, <1>4, <1>5 DEF LocalInv

\* The user's operations wait for their turn.
LEMMA IssueKeeps ==
  ASSUME LocalInv, Issue
  PROVE  LocalInv'
<1>1. /\ UNCHANGED <<world, feed, cached, work, action, context>>
      /\ generation < MaxIssued /\ generation' = generation + 1
    BY DEF Issue
<1>2. PICK o \in Operations : queue' = Append(queue, o)
    BY DEF Issue
<1>3. queue \in Seq(Operations) /\ Len(queue) <= generation /\ generation \in 0 .. MaxIssued
    BY DEF LocalInv, LocalTypeOK
<1>4. queue' \in Seq(Operations) /\ Len(queue') = Len(queue) + 1 /\ Len(queue) \in Nat
    BY <1>2, <1>3, AppendProperties, LenProperties
<1>5. generation' \in 0 .. MaxIssued /\ Len(queue') <= generation'
    BY <1>1, <1>3, <1>4, LocalAssumption DEF LocalAssumption
<1>6. LocalTypeOK'
    BY <1>1, <1>5 DEF LocalInv, LocalTypeOK
<1>7. SessionKept'
    BY <1>1 DEF LocalInv, SessionKept, Stage, SameSession
<1>8. AskedFor' /\ (Stage("acquire") => Replayed.kind = "need")'
    BY <1>1 DEF LocalInv, AskedFor, Stage, Refreshing, Replayed
<1> QED BY <1>4, <1>6, <1>7, <1>8 DEF LocalInv

\* The next operation: a calculation begins with the session as it is.
LEMMA TakeKeeps ==
  ASSUME LocalInv, Take
  PROVE  LocalInv' /\ work'.pinned = work.pinned
<1>1. PICK o, updated :
        /\ o = Head(queue)
        /\ updated = (IF o.kind \in {"update", "recalculate"}
                      THEN Observed([work EXCEPT !.input = o.input]) ELSE work)
    OBVIOUS
<1>2. /\ work' = updated /\ queue' = Tail(queue) /\ context' = NoContext
      /\ UNCHANGED <<world, feed, cached, generation>> /\ queue # <<>>
      /\ action' = IF o.kind \in {"calculate", "recalculate"}
                   THEN [number |-> o.number, stage |-> "replay", before |-> updated,
                         evidence |-> NoEvidenceYet]
                   ELSE NoAction
    BY <1>1 DEF Take
<1>3. queue \in Seq(Operations) /\ Len(queue) <= generation /\ generation \in 0 .. MaxIssued
    BY DEF LocalInv, LocalTypeOK
<1>4. o \in Operations /\ queue' \in Seq(Operations) /\ Len(queue') = Len(queue) - 1 /\ Len(queue) \in Nat
    BY <1>1, <1>2, <1>3, HeadTailProperties, LenProperties
<1>5. o.number \in 1 .. MaxIssued /\ (o.kind \in {"update", "recalculate"} => o.input \in Drafts)
    BY <1>4 DEF Operations
<1>6. work \in Works
    BY DEF LocalInv, LocalTypeOK
<1>7. updated \in Works /\ updated.pinned = work.pinned
    <2>1. CASE o.kind \in {"update", "recalculate"}
        <3>1. PICK v : v = [work EXCEPT !.input = o.input]
            OBVIOUS
        <3>2. v = [input |-> o.input, pinned |-> work.pinned, last |-> work.last, intent |-> work.intent]
            BY <1>6, <3>1, WorkRecord
        <3>3. v \in Works /\ v.pinned = work.pinned
            BY <1>5, <1>6, <2>1, <3>2, WorkRecord DEF Works
        <3>4. Observed(v) \in Works /\ Observed(v).pinned = v.pinned
            BY <3>3, ObservedSame DEF SameSession
        <3> QED BY <1>1, <2>1, <3>1, <3>3, <3>4
    <2>2. CASE o.kind \notin {"update", "recalculate"}
        BY <1>1, <1>6, <2>2
    <2> QED BY <2>1, <2>2
<1>8. NoEvidenceYet \in Evidence
    BY DEF NoEvidenceYet, Evidence
<1>9. action' # NoAction =>
        /\ action'.stage = "replay" /\ action'.before = work' /\ Progress(action')
    <2> SUFFICES ASSUME action' # NoAction
                 PROVE  action'.stage = "replay" /\ action'.before = work' /\ Progress(action')
        OBVIOUS
    <2>1. PICK a : a = action'
        OBVIOUS
    <2>2. a = [number |-> o.number, stage |-> "replay", before |-> updated, evidence |-> NoEvidenceYet]
        BY <1>2, <2>1
    <2>3. Progress(a) /\ a.stage = "replay" /\ a.before = updated
        BY <1>5, <1>7, <1>8, <2>2 DEF Progress
    <2> QED BY <1>2, <2>1, <2>3
<1>10. LocalTypeOK'
    <2>1. Len(queue') <= generation'
        BY <1>2, <1>3, <1>4
    <2> QED BY <1>2, <1>7, <1>9, <2>1 DEF LocalInv, LocalTypeOK, ActionStages
<1>11. SessionKept'
    <2>1. SameSession(work', work')
        BY DEF SameSession
    <2> QED BY <1>9, <2>1 DEF SessionKept, Stage
<1>12. AskedFor' /\ (Stage("acquire") => Replayed.kind = "need")'
    BY <1>9 DEF AskedFor, Stage
<1> QED BY <1>2, <1>4, <1>7, <1>10, <1>11, <1>12 DEF LocalInv

\* When the pinned Run may be replaced.
PinnedStep ==
  work'.pinned # work.pinned
    => \/ work.pinned = NoRun
       \/ Refreshing(work)
       \/ /\ Stage("replay")
          /\ work.pinned.model = "MSM" /\ work'.pinned.model = "GSM"
          /\ MsmExcluded(world, action.evidence.catalog["MSM"], world.flight["MSM"])
       \/ Stage("adopted") /\ work'.pinned = action.before.pinned

\* What a calculation leaves behind when it ends.
EndStep == action # NoAction /\ action' = NoAction => EndOfCalculation

\* A session that is the same but for the refresh.
LEMMA SameButIntent ==
  ASSUME NEW v \in Works, NEW w \in Works, SameSession(v, w)
  PROVE  v = [w EXCEPT !.intent = v.intent]
<1>1. /\ v = [input |-> v.input, pinned |-> v.pinned, last |-> v.last, intent |-> v.intent]
      /\ w = [input |-> w.input, pinned |-> w.pinned, last |-> w.last, intent |-> w.intent]
    BY WorkRecord
<1>2. PICK a, b, c, d, e : /\ a = w.input /\ b = w.pinned /\ c = w.last /\ d = w.intent /\ e = v.intent
    OBVIOUS
<1>3. v = [input |-> a, pinned |-> b, last |-> c, intent |-> e]
    BY <1>1, <1>2 DEF SameSession
<1>4. w = [input |-> a, pinned |-> b, last |-> c, intent |-> d]
    BY <1>1, <1>2
<1>5. [w EXCEPT !.intent = e] = [input |-> a, pinned |-> b, last |-> c, intent |-> e]
    BY <1>4
<1> QED BY <1>2, <1>3, <1>5

\* A calculation that is over with the session it began with.
LEMMA EndsUntouched ==
  ASSUME NEW s \in {"acquire", "failed", "backup", "answered"}, Stage(s), work' \in Works,
         action.before \in Works, SameSession(work', action.before)
  PROVE  EndStep
<1>1. ~Stage("replay") /\ ~Stage("adopted")
    BY DEF Stage
<1>2. Untouched
    BY SameButIntent DEF Untouched
<1> QED BY <1>1, <1>2 DEF EndStep, EndOfCalculation

\* A replay asks, fails, or ends with the outcome of the calculation.
LEMMA ReplayKeeps ==
  ASSUME LocalInv, Replay
  PROVE  LocalInv' /\ PinnedStep /\ EndStep
<1> USE DEF LocalInv
<1>1. /\ Stage("replay") /\ UNCHANGED <<world, feed, cached, queue, generation, context>>
      /\ work \in Works /\ world \in Worlds
    BY DEF Replay, LocalTypeOK
<1>2. PICK c : c = Replayed
    OBVIOUS
<1>3. CalculationSays(c) /\ action.evidence \in Evidence
    BY <1>1, <1>2, ReplaySays
<1>4. /\ action # NoAction /\ Progress(action) /\ action.number \in 1 .. MaxIssued /\ action.before \in Works
      /\ SameSession(work, action.before)
      /\ action = [number |-> action.number, stage |-> "replay", before |-> action.before,
                   evidence |-> action.evidence]
    BY <1>1, StageOf
<1>5. ~Stage("adopted") /\ (action' # NoAction => EndStep)
    BY <1>1 DEF EndStep, Stage
<1>6. AskedFor' /\ (c.kind # "need" => ~Stage("acquire")')
      /\ \/ c.kind = "need" /\ action' = [action EXCEPT !.stage = "acquire"] /\ work' = Observed(work)
         \/ c.kind = "error" /\ action' = [action EXCEPT !.stage = "failed"] /\ work' = work
         \/ c.kind = "outcome" /\ action' = NoAction /\ work' = Calculated(work, c)
    <2>1. \/ c.kind = "need" /\ action' = [action EXCEPT !.stage = "acquire"] /\ work' = Observed(work)
          \/ c.kind = "error" /\ action' = [action EXCEPT !.stage = "failed"] /\ work' = work
          \/ c.kind = "outcome" /\ action' = NoAction /\ work' = Calculated(work, c)
        BY <1>2, <1>3 DEF Replay, CalculationSays
    <2>2. CASE c.kind # "outcome"
        <3>1. PICK a, s : a = action' /\ s \in {"acquire", "failed"} /\ (c.kind # "need" => s = "failed")
                          /\ action' = [action EXCEPT !.stage = s]
            BY <2>1, <2>2
        <3>2. a.stage = s
            BY <1>4, <3>1
        <3> QED BY <2>1, <3>1, <3>2 DEF AskedFor, Stage
    <2>3. CASE c.kind = "outcome"
        BY <2>1, <2>3 DEF AskedFor, Stage
    <2> QED BY <2>1, <2>2, <2>3
<1>7. CASE c.kind # "outcome"
    <2>1. PICK s : s \in {"acquire", "failed"} /\ action' = [action EXCEPT !.stage = s]
        BY <1>6, <1>7
    <2>2. work' \in Works /\ SameSession(work', work) /\ Refreshing(work') = Refreshing(work)
        BY <1>1, <1>6, <1>7, ObservedSame DEF SameSession
    <2>3. PICK a : a = action'
        OBVIOUS
    <2>4. a = [number |-> action.number, stage |-> s, before |-> action.before, evidence |-> action.evidence]
        BY <1>4, <2>1, <2>3
    <2>5. Progress(a) /\ a.before = action.before /\ a.stage = s /\ a.evidence = action.evidence
        BY <1>3, <1>4, <2>1, <2>4 DEF Progress
    <2>6. SameSession(work', action'.before)
        BY <1>4, <2>2, <2>3, <2>5 DEF SameSession
    <2>7. SessionKept'
        BY <2>1, <2>3, <2>5, <2>6 DEF SessionKept, Stage
    <2>8. LocalTypeOK'
        BY <1>1, <1>4, <2>1, <2>2, <2>3, <2>5 DEF LocalTypeOK, ActionStages
    <2>9. Replayed' = Replayed
        BY <1>1, <2>2, <2>3, <2>5 DEF Replayed, SameSession
    <2>10. PinnedStep
        BY <2>2 DEF PinnedStep, SameSession
    <2>11. Stage("acquire")' => Replayed'.kind = "need"
        BY <1>2, <1>6, <2>9
    <2>12. action' # NoAction
        <3>1. a \in [number : 1 .. MaxIssued, before : Works, stage : {"acquire", "failed"},
                     evidence : Evidence]
            BY <1>3, <1>4, <2>1, <2>4
        <3> QED BY <2>3, <3>1, LocalAssumption DEF LocalAssumption
    <2> QED BY <1>1, <1>5, <1>6, <2>7, <2>8, <2>10, <2>11, <2>12
<1>8. CASE c.kind = "outcome"
    <2>1. action' = NoAction /\ work' = Calculated(work, c)
        BY <1>6, <1>8
    <2>2. /\ c.choice \in ModelRuns \cup {NoRun} /\ c.blocked \in BOOLEAN /\ c.announced \in BOOLEAN
          /\ ~c.blocked => c.choice \in ModelRuns
        BY <1>3, <1>8 DEF CalculationSays
    <2>3. PICK last, intent :
            /\ last = (IF c.blocked THEN work.last ELSE [input |-> work.input, choice |-> c.choice])
            /\ intent = (IF c.announced THEN work.input ELSE NoIntent)
        OBVIOUS
    <2>4. last \in Results \cup {NoResult} /\ intent \in Drafts \cup {NoIntent}
        BY <1>1, <2>2, <2>3, WorkRecord DEF Results
    <2>5. work' = [input |-> work.input, pinned |-> c.choice, last |-> last, intent |-> intent]
        BY <2>1, <2>3 DEF Calculated
    <2>6. work' \in Works /\ work'.pinned = c.choice
        <3>1. PICK v : v = work'
            OBVIOUS
        <3>2. v \in Works /\ v.pinned = c.choice
            BY <1>1, <2>2, <2>4, <2>5, <3>1, WorkRecord DEF Works
        <3> QED BY <3>1, <3>2
    <2>7. LocalTypeOK'
        BY <1>1, <2>1, <2>6 DEF LocalTypeOK
    <2>8. SessionKept' /\ ~Stage("acquire")'
        BY <2>1 DEF SessionKept, Stage
    <2>9. PinnedStep
        <3> SUFFICES ASSUME work'.pinned # work.pinned, work.pinned # NoRun, ~Refreshing(work)
                     PROVE  /\ work.pinned.model = "MSM" /\ work'.pinned.model = "GSM"
                            /\ MsmExcluded(world, action.evidence.catalog["MSM"], world.flight["MSM"])
            BY <1>1 DEF PinnedStep
        <3>1. work.pinned \in ModelRuns
            BY <1>1, WorkRecord
        <3>2. c = Calculation(world, action.evidence, work.pinned, Refreshing(work))
            BY <1>2 DEF Replayed
        <3> QED BY <1>1, <1>3, <1>8, <2>6, <3>1, <3>2, PinnedChoice
    <2>10. /\ work'.input = action.before.input /\ work'.pinned = c.choice /\ work'.last = last
           /\ work.input = action.before.input /\ work.last = action.before.last
        <3>1. work'.input = work.input /\ work'.pinned = c.choice /\ work'.last = last
            BY <2>5
        <3> QED BY <1>4, <3>1 DEF SameSession
    <2>11. CASE c.blocked
        <3>1. work'.last = action.before.last
            BY <2>3, <2>10, <2>11
        <3> QED BY <1>1, <1>2, <1>5, <1>6, <2>7, <2>8, <2>9, <2>10, <2>11, <3>1
            DEF EndStep, EndOfCalculation
    <2>12. CASE ~c.blocked
        <3>1. Whole
            BY <2>3, <2>10, <2>12 DEF Whole
        <3> QED BY <1>1, <1>2, <1>5, <1>6, <2>7, <2>8, <2>9, <2>12, <3>1
            DEF EndStep, EndOfCalculation
    <2> QED BY <2>11, <2>12
<1> QED BY <1>7, <1>8

\* Evidence that is acquired is added to what the operation has.
LEMMA AcquireKeeps ==
  ASSUME LocalInv, AcquireCatalog \/ AcquirePayload \/ AcquisitionFails
  PROVE  LocalInv' /\ PinnedStep /\ EndStep
<1> USE DEF LocalInv
<1>1. /\ Stage("acquire") /\ UNCHANGED <<world, feed, work, queue, generation, context>>
      /\ work \in Works
    BY DEF AcquireCatalog, AcquirePayload, AcquisitionFails, LocalTypeOK
<1>2. PICK c : c = Replayed
    OBVIOUS
<1>3. CalculationSays(c) /\ action.evidence \in Evidence /\ c.kind = "need"
    BY <1>1, <1>2, ReplaySays
<1>4. c.model \in Models /\ c.run \in {0} \cup RunNumbers
    BY <1>3 DEF CalculationSays
<1>5. /\ action # NoAction /\ Progress(action) /\ action.number \in 1 .. MaxIssued /\ action.before \in Works
      /\ SameSession(work, action.before)
      /\ action = [number |-> action.number, stage |-> "acquire", before |-> action.before,
                   evidence |-> action.evidence]
    BY <1>1, StageOf
<1>6. PICK e : e = action.evidence
    OBVIOUS
<1>7. e \in Evidence /\ e = [catalog |-> e.catalog, payloads |-> e.payloads]
      /\ e.catalog \in [Models -> (SUBSET RunNumbers) \cup {Unread}] /\ e.payloads \subseteq ModelRuns
    BY <1>3, <1>6 DEF Evidence
<1>8. \E s \in {"replay", "failed"}, f \in Evidence :
        /\ action' = [number |-> action.number, stage |-> s, before |-> action.before, evidence |-> f]
        /\ cached' \in [Models -> (SUBSET RunNumbers) \cup {Unread}]
    <2>1. CASE AcquireCatalog
        <3>1. PICK catalog \in {feed[c.model], cached[c.model]} \ {Unread} :
                /\ action' = [action EXCEPT !.stage = "replay", !.evidence.catalog[c.model] = catalog]
                /\ cached' = [cached EXCEPT ![c.model] = catalog]
            BY <1>2, <2>1 DEF AcquireCatalog
        <3>2. catalog \in SUBSET RunNumbers
            BY <1>4, <3>1 DEF LocalTypeOK
        <3>3. PICK f : f = [e EXCEPT !.catalog[c.model] = catalog]
            OBVIOUS
        <3>4. f = [catalog |-> [e.catalog EXCEPT ![c.model] = catalog], payloads |-> e.payloads]
            BY <1>7, <3>3
        <3>5. f \in Evidence
            BY <1>4, <1>7, <3>2, <3>4 DEF Evidence
        <3>6. action' = [number |-> action.number, stage |-> "replay", before |-> action.before, evidence |-> f]
            BY <1>5, <1>6, <3>1, <3>3
        <3>7. cached' \in [Models -> (SUBSET RunNumbers) \cup {Unread}]
            BY <1>4, <3>1, <3>2 DEF LocalTypeOK
        <3> QED BY <3>5, <3>6, <3>7
    <2>2. CASE AcquirePayload
        <3>1. /\ c.run # 0 /\ cached' = cached
              /\ action' = [action EXCEPT !.stage = "replay",
                              !.evidence.payloads = @ \cup {[model |-> c.model, run |-> c.run]}]
            BY <1>2, <2>2 DEF AcquirePayload
        <3>2. [model |-> c.model, run |-> c.run] \in ModelRuns
            BY <1>4, <3>1 DEF ModelRuns
        <3>3. PICK f : f = [catalog |-> e.catalog,
                            payloads |-> e.payloads \cup {[model |-> c.model, run |-> c.run]}]
            OBVIOUS
        <3>4. f \in Evidence
            BY <1>7, <3>2, <3>3 DEF Evidence
        <3>5. action' = [number |-> action.number, stage |-> "replay", before |-> action.before, evidence |-> f]
            BY <1>5, <1>6, <1>7, <3>1, <3>3
        <3> QED BY <3>1, <3>4, <3>5 DEF LocalTypeOK
    <2>3. CASE AcquisitionFails
        <3>1. action' = [action EXCEPT !.stage = "failed"] /\ cached' = cached
            BY <2>3 DEF AcquisitionFails
        <3>2. action' = [number |-> action.number, stage |-> "failed", before |-> action.before, evidence |-> e]
            BY <1>5, <1>6, <3>1
        <3> QED BY <1>7, <3>1, <3>2 DEF LocalTypeOK
    <2> QED BY <2>1, <2>2, <2>3
<1>9. PICK s \in {"replay", "failed"}, f \in Evidence :
        /\ action' = [number |-> action.number, stage |-> s, before |-> action.before, evidence |-> f]
        /\ cached' \in [Models -> (SUBSET RunNumbers) \cup {Unread}]
    BY <1>8
<1>10. PICK a : a = action'
    OBVIOUS
<1>11. Progress(a) /\ a.before = action.before /\ a.stage = s
    BY <1>5, <1>9, <1>10 DEF Progress
<1>12. SessionKept'
    BY <1>1, <1>5, <1>9, <1>10, <1>11 DEF SessionKept, Stage, SameSession
<1>13. LocalTypeOK'
    BY <1>1, <1>5, <1>9, <1>10, <1>11 DEF LocalTypeOK, ActionStages
<1>14. AskedFor' /\ ~Stage("acquire")'
    BY <1>9, <1>10, <1>11 DEF AskedFor, Stage
<1>15. PinnedStep
    BY <1>1 DEF PinnedStep
<1>16. EndStep
    <2>1. work' \in Works /\ SameSession(work', action.before)
        BY <1>1, <1>5
    <2> QED BY <1>1, <1>5, <2>1, EndsUntouched
<1> QED BY <1>1, <1>12, <1>13, <1>14, <1>15, <1>16

\* An operation that is given up leaves the session as it found it.
LEMMA GivenUpKeeps ==
  ASSUME LocalInv, NEW s \in {"failed", "backup", "answered"}, Stage(s), GiveUp,
         UNCHANGED <<world, feed, cached, queue, generation, context>>
  PROVE  LocalInv' /\ PinnedStep /\ EndStep
<1> USE DEF LocalInv
<1>1. action' = NoAction /\ work' = work
    BY DEF GiveUp
<1>2. work \in Works /\ action.before \in Works /\ SameSession(work, action.before)
    BY StageOf DEF LocalTypeOK
<1>3. LocalTypeOK'
    BY <1>1 DEF LocalTypeOK
<1>4. SessionKept' /\ AskedFor' /\ ~Stage("acquire")'
    BY <1>1 DEF SessionKept, AskedFor, Stage
<1>5. PinnedStep
    BY <1>1 DEF PinnedStep
<1>6. EndStep
    <2>1. work' \in Works /\ SameSession(work', action.before)
        BY <1>1, <1>2
    <2> QED BY <1>2, <2>1, EndsUntouched
<1> QED BY <1>1, <1>3, <1>4, <1>5, <1>6

\* A failed calculation asks the backup server for the input as it is.
LEMMA PrepareKeeps ==
  ASSUME LocalInv, PrepareBackup
  PROVE  LocalInv' /\ PinnedStep /\ EndStep
<1> USE DEF LocalInv
<1>1. Stage("failed") /\ UNCHANGED <<world, feed, cached, queue, generation>> /\ work \in Works
    BY DEF PrepareBackup, LocalTypeOK
<1>2. /\ action # NoAction /\ action.number \in 1 .. MaxIssued /\ action.before \in Works
      /\ SameSession(work, action.before)
    BY <1>1, StageOf
<1>3. CASE Overtaken
    <2>1. GiveUp /\ UNCHANGED context
        BY <1>3 DEF PrepareBackup
    <2> QED BY <1>1, <2>1, GivenUpKeeps
<1>4. CASE ~Overtaken
    <2>1. /\ work' = Observed(work)
          /\ context' = [input |-> work.input, pinned |-> work.pinned, refresh |-> Refreshing(work)]
          /\ action' = [number |-> action.number, before |-> action.before, stage |-> "backup"]
        BY <1>4 DEF PrepareBackup
    <2>2. work' \in Works /\ SameSession(work', work) /\ Refreshing(work') = Refreshing(work)
        BY <1>1, <2>1, ObservedSame
    <2>3. PICK a : a = action'
        OBVIOUS
    <2>4. Progress(a) /\ a.before = action.before /\ a.stage = "backup"
        BY <1>2, <2>1, <2>3 DEF Progress
    <2>5. SameSession(work', action.before)
        BY <1>2, <2>2 DEF SameSession
    <2>6. SessionKept'
        BY <2>3, <2>4, <2>5 DEF SessionKept, Stage
    <2>7. context'.input \in Drafts /\ context'.refresh = Refreshing(work)
          /\ context'.pinned \in ModelRuns \cup {NoRun}
        BY <1>1, <2>1, WorkRecord
    <2>8. LocalTypeOK'
        BY <1>1, <1>2, <2>2, <2>3, <2>4, <2>7 DEF LocalTypeOK, ActionStages
    <2>9. AskedFor' /\ ~Stage("acquire")'
        BY <2>2, <2>3, <2>4, <2>7 DEF AskedFor, Stage
    <2>10. PinnedStep
        BY <2>2 DEF PinnedStep, SameSession
    <2>11. EndStep
        BY <1>1, <1>2, <2>2, <2>5, EndsUntouched
    <2> QED BY <1>1, <2>6, <2>8, <2>9, <2>10, <2>11
<1> QED BY <1>3, <1>4

\* The backup server answers for a Run that it offers.
LEMMA AnswerKeeps ==
  ASSUME LocalInv, ServerAnswers
  PROVE  LocalInv' /\ PinnedStep /\ EndStep
<1> USE DEF LocalInv
<1>1. /\ Stage("backup") /\ UNCHANGED <<world, feed, cached, work, queue, generation, context>>
      /\ work \in Works
    BY DEF ServerAnswers, LocalTypeOK
<1>2. /\ action # NoAction /\ action.number \in 1 .. MaxIssued /\ action.before \in Works
      /\ SameSession(work, action.before)
    BY <1>1, StageOf
<1>3. PICK b \in Answer(context) :
        action' = [number |-> action.number, before |-> action.before, stage |-> "answered", answer |-> b]
    BY DEF ServerAnswers
<1>4. b \in Answers
    <2>1. "MSM" \in Models /\ feed["MSM"] \subseteq RunNumbers /\ context.input \in Drafts
        BY <1>1 DEF LocalTypeOK, AskedFor, Models
    <2>2. \E r \in feed["MSM"], x \in BOOLEAN :
            b = [input |-> context.input, choice |-> [model |-> "MSM", run |-> r], announced |-> x]
        BY <1>3 DEF Answer
    <2> QED BY <2>1, <2>2 DEF Answers, ModelRuns
<1>5. PICK a : a = action'
    OBVIOUS
<1>6. Progress(a) /\ a.before = action.before /\ a.stage = "answered"
    BY <1>2, <1>3, <1>4, <1>5 DEF Progress
<1>7. SessionKept'
    BY <1>1, <1>2, <1>5, <1>6 DEF SessionKept, Stage, SameSession
<1>8. LocalTypeOK'
    BY <1>1, <1>2, <1>5, <1>6 DEF LocalTypeOK, ActionStages
<1>9. AskedFor' /\ ~Stage("acquire")'
    BY <1>1, <1>5, <1>6 DEF AskedFor, Stage, Refreshing
<1>10. PinnedStep
    BY <1>1 DEF PinnedStep
<1>11. EndStep
    <2>1. work' \in Works /\ SameSession(work', action.before)
        BY <1>1, <1>2
    <2> QED BY <1>1, <1>2, <2>1, EndsUntouched
<1> QED BY <1>1, <1>7, <1>8, <1>9, <1>10, <1>11

\* A result is adopted for the input and the pinned Run it was asked for, and
\* the session before is kept aside.
LEMMA AdoptKeeps ==
  ASSUME LocalInv, Adopt
  PROVE  LocalInv' /\ PinnedStep /\ EndStep
<1> USE DEF LocalInv
<1>1. Stage("answered") /\ UNCHANGED <<world, feed, cached, queue, generation>> /\ work \in Works
    BY DEF Adopt, LocalTypeOK
<1>2. /\ action # NoAction /\ action.number \in 1 .. MaxIssued /\ action.before \in Works
      /\ SameSession(work, action.before) /\ action.answer \in Answers
    BY <1>1, StageOf
<1>3. PICK b : b = action.answer
    OBVIOUS
<1>4. CASE Overtaken \/ ~Adoptable(b)
    <2>1. GiveUp /\ UNCHANGED context
        BY <1>3, <1>4 DEF Adopt
    <2> QED BY <1>1, <2>1, GivenUpKeeps
<1>5. CASE ~Overtaken /\ Adoptable(b)
    <2>1. /\ work' = [input |-> work.input, pinned |-> b.choice,
                      last |-> [input |-> b.input, choice |-> b.choice],
                      intent |-> IF b.announced THEN b.input ELSE NoIntent]
          /\ context' = NoContext
          /\ action' = [number |-> action.number, before |-> action.before,
                        stage |-> "adopted", previous |-> work]
        BY <1>3, <1>5 DEF Adopt
    <2>2. b.input \in Drafts /\ b.choice \in ModelRuns
        BY <1>2, <1>3 DEF Answers
    <2>3. PICK intent : intent = IF b.announced THEN b.input ELSE NoIntent
        OBVIOUS
    <2>4. intent \in Drafts \cup {NoIntent}
        BY <2>2, <2>3
    <2>5. work' \in Works /\ work'.pinned = b.choice
        <3>1. PICK v : v = work'
            OBVIOUS
        <3>2. v = [input |-> work.input, pinned |-> b.choice,
                   last |-> [input |-> b.input, choice |-> b.choice], intent |-> intent]
            BY <2>1, <2>3, <3>1
        <3>3. v \in Works /\ v.pinned = b.choice
            BY <1>1, <2>2, <2>4, <3>2, WorkRecord DEF Works, Results
        <3> QED BY <3>1, <3>3
    <2>6. PICK a : a = action'
        OBVIOUS
    <2>7. /\ Progress(a) /\ a.before = action.before /\ a.stage = "adopted" /\ a.previous = work
          /\ a \in [number : 1 .. MaxIssued, before : Works, stage : {"adopted"}, previous : Works]
        BY <1>1, <1>2, <2>1, <2>6 DEF Progress
    <2>8. SessionKept'
        <3>1. context.input = work.input /\ b.input = context.input
            <4>1. [input |-> work.input, pinned |-> work.pinned]
                    = [input |-> context.input, pinned |-> context.pinned]
                BY <1>5 DEF Adoptable
            <4> QED BY <1>5, <4>1 DEF Adoptable
        <3>2. work.input = action.before.input
            BY <1>2 DEF SameSession
        <3>3. work'.input = work.input /\ work'.last = [input |-> b.input, choice |-> b.choice]
            BY <2>1
        <3>4. /\ work'.input = action.before.input
              /\ work'.last = [input |-> action.before.input, choice |-> work'.pinned]
            BY <2>5, <3>1, <3>2, <3>3
        <3> QED BY <1>2, <2>6, <2>7, <3>4 DEF SessionKept, Stage, SameSession
    <2>9. LocalTypeOK'
        BY <1>1, <1>2, <2>1, <2>5, <2>6, <2>7 DEF LocalTypeOK, ActionStages
    <2>10. AskedFor' /\ ~Stage("acquire")'
        BY <2>6, <2>7 DEF AskedFor, Stage
    <2>11. PinnedStep
        <3>1. context.pinned = work.pinned
            <4>1. [input |-> work.input, pinned |-> work.pinned]
                    = [input |-> context.input, pinned |-> context.pinned]
                BY <1>5 DEF Adoptable
            <4> QED BY <4>1
        <3>2. context.refresh \/ context.pinned = NoRun \/ b.choice = context.pinned
            BY <1>5 DEF Adoptable, Fixed
        <3>3. context.refresh => Refreshing(work)
            BY <1>1 DEF AskedFor
        <3> QED BY <2>5, <3>1, <3>2, <3>3 DEF PinnedStep
    <2>12. EndStep
        BY <2>6, <2>7, LocalAssumption DEF EndStep, LocalAssumption
    <2> QED BY <1>1, <2>8, <2>9, <2>10, <2>11, <2>12
<1> QED BY <1>3, <1>4, <1>5

\* What was adopted stays, unless it was overtaken: then the session before is
\* put back.
LEMMA SettleKeeps ==
  ASSUME LocalInv, Settle
  PROVE  LocalInv' /\ PinnedStep /\ EndStep
<1> USE DEF LocalInv
<1>1. /\ Stage("adopted") /\ action' = NoAction /\ UNCHANGED <<world, feed, cached, queue, generation>>
      /\ work \in Works /\ context' \in {context, NoContext}
    BY DEF Settle, LocalTypeOK
<1>2. /\ action.before \in Works /\ action.previous \in Works
      /\ SameSession(action.previous, action.before)
      /\ work.input = action.before.input
      /\ work.last = [input |-> action.before.input, choice |-> work.pinned]
    BY <1>1, StageOf
<1>3. PICK v : v = [action.previous EXCEPT !.intent = NoIntent]
    OBVIOUS
<1>4. v \in Works /\ SameSession(v, action.before)
    <2>1. v = [input |-> action.previous.input, pinned |-> action.previous.pinned,
               last |-> action.previous.last, intent |-> NoIntent]
        BY <1>2, <1>3, WorkRecord
    <2> QED BY <1>2, <2>1, WorkRecord DEF Works, SameSession
<1>5. work' = IF Overtaken THEN v ELSE work
    BY <1>3 DEF Settle
<1>6. LocalTypeOK'
    BY <1>1, <1>4, <1>5 DEF LocalTypeOK
<1>7. SessionKept' /\ AskedFor' /\ ~Stage("acquire")'
    BY <1>1 DEF SessionKept, AskedFor, Stage
<1>8. PinnedStep
    BY <1>1, <1>4, <1>5 DEF PinnedStep, SameSession
<1>9. EndStep
    <2>1. ~Stage("replay")
        BY <1>1 DEF Stage
    <2>2. CASE Overtaken
        <3>1. work' = v
            BY <1>5, <2>2
        <3>2. Untouched
            BY <1>2, <1>4, <3>1, SameButIntent DEF Untouched
        <3> QED BY <2>1, <2>2, <3>2 DEF EndStep, EndOfCalculation
    <2>3. CASE ~Overtaken
        <3>1. Whole
            BY <1>2, <1>5, <2>3 DEF Whole
        <3> QED BY <1>1, <2>1, <2>3, <3>1 DEF EndStep, EndOfCalculation
    <2> QED BY <2>2, <2>3
<1> QED BY <1>1, <1>6, <1>7, <1>8, <1>9

\* Every step of the browser keeps the invariant, and the promises of a step.
LEMMA LocalSteps ==
  ASSUME LocalInv, LocalNext
  PROVE  LocalInv' /\ PinnedStep /\ EndStep
<1>1. CASE Issue
    <2>1. UNCHANGED <<work, action>>
        BY <1>1 DEF Issue
    <2> QED BY <1>1, <2>1, IssueKeeps DEF PinnedStep, EndStep
<1>2. CASE Take
    <2>1. action = NoAction
        BY <1>2 DEF Take
    <2> QED BY <1>2, <2>1, TakeKeeps DEF PinnedStep, EndStep
<1>3. CASE Replay
    BY <1>3, ReplayKeeps
<1>4. CASE AcquireCatalog \/ AcquirePayload \/ AcquisitionFails
    BY <1>4, AcquireKeeps
<1>5. CASE PrepareBackup
    BY <1>5, PrepareKeeps
<1>6. CASE ServerAnswers
    BY <1>6, AnswerKeeps
<1>7. CASE BackupFails
    <2>1. Stage("backup") /\ GiveUp /\ UNCHANGED <<world, feed, cached, queue, generation, context>>
        BY <1>7 DEF BackupFails
    <2> QED BY <2>1, GivenUpKeeps
<1>8. CASE Adopt
    BY <1>8, AdoptKeeps
<1>9. CASE Settle
    BY <1>9, SettleKeeps
<1>10. CASE \E m \in Models : PublishForecast(m) \/ RetireForecast(m)
    <2>1. PICK m \in Models : PublishForecast(m) \/ RetireForecast(m)
        BY <1>10
    <2>2. UNCHANGED <<work, action>>
        BY <2>1 DEF PublishForecast, RetireForecast
    <2> QED BY <2>1, <2>2, FeedKeeps DEF PinnedStep, EndStep
<1> QED BY <1>1, <1>2, <1>3, <1>4, <1>5, <1>6, <1>7, <1>8, <1>9, <1>10 DEF LocalNext, LocalStep

\* A step that is none.
LEMMA LocalStutters ==
  ASSUME LocalInv, UNCHANGED localVars
  PROVE  LocalInv'
<1>1. UNCHANGED <<world, feed, cached, work, action, queue, generation, context>>
    BY DEF localVars
<1> QED BY <1>1 DEF LocalInv, LocalTypeOK, SessionKept, AskedFor, Stage, SameSession, Refreshing, Replayed

\* An operation in progress knows the session it began with, and the backup
\* server is asked for that: for any drafts, forecasts and operations.
THEOREM LocalInductive == LocalSpec => []LocalInv
<1>1. LocalInit => LocalInv
    BY LocalBegins
<1>2. LocalInv /\ [LocalNext]_localVars => LocalInv'
    BY LocalSteps, LocalStutters
<1> QED BY <1>1, <1>2, PTL DEF LocalSpec

\* A calculation that has all it asked for decides as all catalogs and payloads
\* would make it: suspending it for evidence never changes its outcome.
THEOREM PartialEvidenceSuffices == LocalSpec => []EvidenceSuffices
<1>1. LocalInv => EvidenceSuffices
    <2> SUFFICES ASSUME LocalInv, Stage("replay"), Replayed.kind = "outcome",
                        NEW catalog,
                        catalog = [m \in Models |-> IF action.evidence.catalog[m] = Unread THEN RunNumbers
                                                    ELSE action.evidence.catalog[m]]
                 PROVE  Replayed = Calculation(world, [catalog |-> catalog, payloads |-> ModelRuns],
                                               work.pinned, Refreshing(work))
        BY DEF LocalInv, EvidenceSuffices
    <2>1. action.evidence \in Evidence
        BY ReplaySays DEF LocalInv
    <2>2. PICK f : f = [catalog |-> catalog, payloads |-> ModelRuns]
        OBVIOUS
    <2>3. f \in Evidence /\ Extends(action.evidence, f)
        BY <2>1, <2>2 DEF Evidence, Extends
    <2> QED BY <2>1, <2>2, <2>3, CalculationSettled DEF Replayed
<1> QED BY <1>1, LocalInductive, PTL

\* The pinned Run is replaced only by the first choice, by the second click on
\* unchanged input, by GSM where every MSM Run of the catalog is excluded, or
\* by putting back what it was.
THEOREM PinnedRunKept == LocalSpec => PinnedKept
<1>1. LocalInv /\ LocalNext => PinnedStep
    BY LocalSteps
<1>2. LocalInv /\ [LocalNext]_localVars => [PinnedStep]_localVars
    BY <1>1
<1> QED BY <1>2, LocalInductive, PTL DEF LocalSpec, PinnedKept, PinnedStep

\* However a calculation ends, its outcome is taken whole or the session is as
\* the calculation found it: for any drafts, forecasts and operations.
THEOREM CalculationsEndWhole == LocalSpec => EndsWholeOrUntouched
<1>1. LocalInv /\ LocalNext => EndStep
    BY LocalSteps
<1>2. LocalInv /\ [LocalNext]_localVars => [EndStep]_localVars
    BY <1>1
<1> QED BY <1>2, LocalInductive, PTL DEF LocalSpec, EndsWholeOrUntouched, EndStep
==============================================================================
