------------------------- MODULE ExternalTriggerGate -------------------------
(****************************************************************************)
(* The budget that scripts/static_ops/external_trigger_gate.py enforces on  *)
(* requests for a forecast refresh that come from outside GitHub Actions.   *)
(* Every run of the workflow static-production is in one concurrency group; *)
(* the run that holds the group passes the gate before it looks for a newer *)
(* MSM Run and again, with the Run it found, before the heavy work.  The    *)
(* gate has no storage of its own: it decides from three reads of the       *)
(* Actions API made one after the other, between which new requests arrive. *)
(* The workflow file and the API are external; a time unit is 90 minutes.   *)
(****************************************************************************)
EXTENDS Integers, FiniteSets, Sequences

CONSTANTS
  RequestIds,       \* opaque ids of requests (msm-request/<id>)
  Cooldown,         \* 90 minutes
  DailyLimit,       \* 8 in the code
  PerRunLimit,      \* 2 in the code
  DayLength,        \* length of a day
  RunLength,        \* hours between forecast Runs
  MaxWorkflowRuns,  \* bound on dispatched workflow runs
  MaxClock          \* bound on the clock

ASSUME GateAssumption ==
  /\ {Cooldown, DailyLimit, PerRunLimit, DayLength, RunLength, MaxWorkflowRuns,
      MaxClock} \subseteq Nat \ {0}

VARIABLES
  clock,   \* the time, in units
  wfruns,  \* the workflow runs in the order of their ids
  gate,    \* what the holder has read: its clock, runs of the history, active runs
  served   \* the newest forecast Run on the site

gateVars == <<clock, wfruns, gate, served>>

Ids == 1 .. Len(wfruns)
RunAt(t) == 1 + t \div RunLength
Newest == RunAt(clock)
ForecastRuns == 0 .. RunAt(MaxClock)
Titles == [kind : {"schedule"}, key : {0}]
            \cup [kind : {"fallback"}, key : ForecastRuns \ {0}]
            \cup [kind : {"request"}, key : RequestIds]

External(i) == wfruns[i].title.kind # "schedule"
Day(t) == t \div DayLength
Holders == {i \in Ids : wfruns[i].status = "in_progress"}
Waiters == {i \in Ids : wfruns[i].status = "pending"}
Smaller(a, b) == IF a < b THEN a ELSE b

WorkflowRun == [title : Titles, created : 0 .. MaxClock,
                status : {"pending", "in_progress", "completed"},
                step : {"queued", "history", "active", "lock", "detect", "work", "end"},
                detected : ForecastRuns,      \* the build job's name, 0 before it starts
                passed : BOOLEAN,             \* the gate before the detection passed
                heavy : BOOLEAN,              \* the heavy work was allowed
                reason : {"none", "DAILY_LIMIT", "PER_RUN_LIMIT", "DUPLICATE_REQUEST",
                          "ACTIVE_CONFLICT", "COOLDOWN", "INVALID_OBSERVED_RUN"}]

GateTypeOK ==
  /\ clock \in 0 .. MaxClock
  /\ wfruns \in Seq(WorkflowRun) /\ Len(wfruns) <= MaxWorkflowRuns
  /\ gate \in [now : 0 .. clock, seen : SUBSET Ids, active : SUBSET Ids]
  /\ served \in ForecastRuns

NoEvidence == [now |-> 0, seen |-> {}, active |-> {}]

GateInit == clock = 0 /\ wfruns = <<>> /\ gate = NoEvidence /\ served = 0

----------------------------------------------------------------------------
(* The outside: time, dispatches, the concurrency group, the other jobs.    *)

Dispatch(title) ==
  /\ Len(wfruns) < MaxWorkflowRuns
  /\ title.kind = "fallback" => title.key <= Newest + 1
  /\ wfruns' = Append(wfruns, [title |-> title, created |-> clock, status |-> "pending",
                               step |-> "queued", detected |-> 0, passed |-> FALSE,
                               heavy |-> FALSE, reason |-> "none"])
  /\ UNCHANGED <<clock, gate, served>>

Acquire(i) ==
  /\ Holders = {} /\ i \in Waiters
  /\ wfruns' = [wfruns EXCEPT ![i].status = "in_progress",
                              ![i].step = IF External(i) THEN "history" ELSE "detect"]
  /\ UNCHANGED <<clock, gate, served>>

(* preflight_feed.py answers that there is nothing newer, or the Run to produce. *)
Detect(i) ==
  /\ wfruns[i].step = "detect"
  /\ IF Newest > served
     THEN wfruns' = [wfruns EXCEPT ![i].detected = Newest,
                                   ![i].step = IF External(i) THEN "history" ELSE "work"]
     ELSE wfruns' = [wfruns EXCEPT ![i].status = "completed", ![i].step = "end"]
  /\ UNCHANGED <<clock, gate, served>>

Work(i) ==
  /\ wfruns[i].step = "work"
  /\ wfruns' = [wfruns EXCEPT ![i].status = "completed", ![i].step = "end"]
  /\ served' \in {served, wfruns[i].detected}
  /\ UNCHANGED <<clock, gate>>

GateClock == clock < MaxClock /\ clock' = clock + 1 /\ UNCHANGED <<wfruns, gate, served>>

----------------------------------------------------------------------------
(* The gate.  The three reads are the steps history, active and lock; the   *)
(* time is read once, before them.                                          *)

Since(i, now) == Smaller(Day(wfruns[i].created) * DayLength, now - DayLength)

ReadHistory(i) ==
  /\ wfruns[i].step = "history"
  /\ gate' = [gate EXCEPT !.now = clock,
                          !.seen = {j \in Ids : wfruns[j].created >= Since(i, clock)}]
  /\ wfruns' = [wfruns EXCEPT ![i].step = "active"]
  /\ UNCHANGED <<clock, served>>

ReadActive(i) ==
  /\ wfruns[i].step = "active"
  /\ gate' = [gate EXCEPT !.active = {j \in Ids : wfruns[j].status # "completed"}]
  /\ wfruns' = [wfruns EXCEPT ![i].step = "lock"]
  /\ UNCHANGED <<clock, served>>

(* conflicting_active: a run seen active that does not wait for the group now. *)
ConflictingActive(i) ==
  gate.active \ ({i} \cup Waiters) # {}

Others(i) == {j \in gate.seen \ {i} : External(j)}

SameDay(i) == {j \in Others(i) : Day(wfruns[j].created) = Day(wfruns[i].created)}
SameTitle(i) == {j \in Others(i) : wfruns[j].title = wfruns[i].title}
TooClose(i) == {j \in Others(i) : /\ wfruns[j].created <= wfruns[i].created
                                  /\ wfruns[i].created - wfruns[j].created < Cooldown}

(* validate: the first rule a request breaks. *)
Refusal(i) ==
  LET title == wfruns[i].title IN
  CASE ConflictingActive(i) -> "ACTIVE_CONFLICT"
    [] ~ConflictingActive(i) /\ title.kind = "fallback" /\ title.key > RunAt(gate.now)
         -> "INVALID_OBSERVED_RUN"
    [] OTHER ->
         IF Cardinality(SameDay(i)) >= DailyLimit THEN "DAILY_LIMIT"
         ELSE IF title.kind = "fallback" /\ Cardinality(SameTitle(i)) >= PerRunLimit
         THEN "PER_RUN_LIMIT"
         ELSE IF title.kind = "request" /\ SameTitle(i) # {} THEN "DUPLICATE_REQUEST"
         ELSE IF TooClose(i) # {} THEN "COOLDOWN" ELSE "none"

RunStart(r) == (r - 1) * RunLength

\* (broken) only requests that name the Run are attempts at it
AttemptsTitled(i) ==
  {j \in Ids \ {i} : wfruns[j].title = [kind |-> "fallback", key |-> wfruns[i].detected]}

(* detected_limit: earlier attempts at the Run, from a history as old as the
   Run itself; a failed attempt counts, by the name of its build job. *)
Attempts(i) ==
  {j \in Ids \ {i} :
     /\ External(j)
     /\ wfruns[j].created >= Smaller(Since(i, gate.now), RunStart(wfruns[i].detected))
     /\ \/ wfruns[j].title = [kind |-> "fallback", key |-> wfruns[i].detected]
        \/ wfruns[j].detected = wfruns[i].detected}

Spent(i) == wfruns[i].detected # 0 /\ Cardinality(Attempts(i)) >= PerRunLimit

Verdict(i) ==
  IF Refusal(i) # "none" THEN Refusal(i)
  ELSE IF Spent(i) THEN "PER_RUN_LIMIT" ELSE "none"

(* The read of the live group, and the decision. *)
Decide(i) ==
  /\ wfruns[i].step = "lock"
  /\ LET allowed == Verdict(i) = "none"
         detected == wfruns[i].detected # 0
     IN wfruns' = [wfruns EXCEPT
          ![i].reason = Verdict(i),
          ![i].passed = @ \/ allowed,
          ![i].heavy = allowed /\ detected,
          ![i].status = IF allowed THEN @ ELSE "completed",
          ![i].step = IF ~allowed THEN "end" ELSE IF detected THEN "work" ELSE "detect"]
  /\ gate' = NoEvidence
  /\ UNCHANGED <<clock, served>>

GateNext ==
  \/ \E title \in Titles : Dispatch(title)
  \/ \E i \in Ids : \/ Acquire(i) \/ Detect(i) \/ Work(i)
                    \/ ReadHistory(i) \/ ReadActive(i) \/ Decide(i)
  \/ GateClock

GateSpec == GateInit /\ [][GateNext]_gateVars

----------------------------------------------------------------------------
(* What the gate still looks back on: a day, or as far as the Run itself.  A   *)
(* request that was held up for longer is no longer counted by those it let    *)
(* overtake it.                                                                *)
InWindow(i, start) == wfruns[i].created >= Smaller(clock - DayLength, start)

(* No forecast Run gets more than two heavy attempts from outside among the    *)
(* requests of the window, whatever titles they bear and however they end.     *)
HeavyPerRunBounded ==
  \A r \in ForecastRuns :
    Cardinality({i \in Ids : /\ External(i) /\ wfruns[i].heavy /\ wfruns[i].detected = r
                             /\ InWindow(i, RunStart(r))})
      <= PerRunLimit

(* No day's requests pass the gate more often than the daily limit, though the
   gate may be asked long after the day is over. *)
PassesPerDayBounded ==
  \A i \in Ids :
    Cardinality({j \in Ids : wfruns[j].passed
                             /\ Day(wfruns[j].created) = Day(wfruns[i].created)})
      <= DailyLimit

(* Two requests of the window, or of one day, that pass the gate were made at  *)
(* least the cooldown apart, in whatever order the concurrency group let them  *)
(* run.                                                                        *)
PassesApart ==
  \A i, j \in Ids :
    i < j /\ wfruns[i].passed /\ wfruns[j].passed
          /\ InWindow(i, Day(wfruns[j].created) * DayLength)
      => wfruns[j].created - wfruns[i].created >= Cooldown

(* A request that arrives while the gate reads does not make it report a
   conflict: the group is read last ("a newly observed waiter is not compared
   against an older queue snapshot"). *)
WaitersAreNoConflict == \A i \in Ids : wfruns[i].reason # "ACTIVE_CONFLICT"

(* Whatever order requests are made, read, run and fail in, the budget is kept
   and nothing is refused for what came too late to matter. *)
GateSound ==
  /\ GateTypeOK /\ WaitersAreNoConflict
  /\ HeavyPerRunBounded /\ PassesPerDayBounded /\ PassesApart

=============================================================================
