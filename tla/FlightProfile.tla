---------------------------- MODULE FlightProfile ----------------------------
(****************************************************************************)
(* The vertical profile of a flight: application/calculation_service.py and *)
(* phase_segments.py.  A calculation is repeated with the weather of the    *)
(* times the last one gave: the climb ends at the RCA, the descent is put   *)
(* backwards from its end (the VREP) and starts at the EOC, at an airspeed  *)
(* taken from the cruise before it, and the route is cut there, at its      *)
(* turns and at its check points into zones of one phase.                   *)
(*                                                                          *)
(* Distances are in units of which Snap make the half mile that an EOC may  *)
(* be moved by; a time of 4 is that of one unit at speed 1; the speeds are  *)
(* 1 and 2, and a headwind leaves 1 of them.  Weather and performance data  *)
(* are there, and the RJFM exceptions, which fix the RCA or the EOC, are    *)
(* not modelled.                                                            *)
(****************************************************************************)
EXTENDS Integers, FiniteSets, FiniteSetsExt

CONSTANTS LegCount,       \* legs of the route
          Flights,        \* the flights to be calculated
          Snap,           \* EOC_SNAP_TOLERANCE_NM
          DescentRate,    \* time to descend by one altitude
          Deceleration,   \* time to decelerate, level, before the VREP
          MaxIterations   \* policies.max_iterations

ASSUME ProfileAssumption == LegCount \in Nat \ {0} /\ MaxIterations \in Nat \ {0}

VARIABLES flight,     \* offset (distance from the start to the end of a leg),
                      \* altitude, phase and cruise speed of each leg, arrival altitude, duration of the climb, manual
                      \* airspeed of the descent (0 for none), the check points with the leg they are
                      \* linked to (0 for none) and the place abeam of them, in quarters of that leg,
                      \* the legs a wind is ahead on and when it blows
          iteration,  \* iterations done
          previous,   \* representative times of the last iteration but one
          profile,    \* the last iteration
          converged   \* whether the times agree

profileVars == <<flight, iteration, previous, profile, converged>>

Legs == 1 .. LegCount
Unknown == -1
NoTimes == [times |-> [l \in Legs |-> Unknown], arrival |-> Unknown]
NoProfile == [zones |-> {}, times |-> NoTimes.times, arrival |-> Unknown, blockers |-> {}]

TimeFor(distance, speed) == (4 * distance) \div speed
WayIn(time, speed) == (time * speed) \div 4
Ground(speed, ahead) == IF ahead THEN 1 ELSE speed

(* _route_leg_offsets *)
StartOf(l) == flight.offset[l - 1]
EndOf(l) == flight.offset[l]
Total == flight.offset[LegCount]
Distance(l) == EndOf(l) - StartOf(l)
LegAt(p) == CHOOSE l \in Legs : StartOf(l) <= p /\ p < EndOf(l)
First(phase) == {l \in Legs : flight.phase[l] = phase /\ \A i \in 1 .. l - 1 : flight.phase[i] # phase}
Has(phase) == First(phase) # {}

(* _weather_requests and _query_weather: the weather of a leg is that of its
   time in the last iteration, or of an estimate where it has none. *)
WeatherTime(l) == IF previous.times[l] = Unknown
                  THEN 4 * StartOf(l) + 2 * Distance(l) ELSE previous.times[l]
Blows(time) == flight.windLate <=> time >= flight.front

(* The turn that an EOC is moved to when it is within half a mile, never the
   end of the descent. *)
Snapped(eoc, vrep) ==
  LET turns == {EndOf(l) : l \in Legs \ {LegCount}} \ {vrep}
      apart(t) == IF t < eoc THEN eoc - t ELSE t - eoc
      nearest == CHOOSE t \in turns : \A u \in turns : \/ apart(t) < apart(u)
                                                       \/ apart(t) = apart(u) /\ t <= u
  IN IF turns # {} /\ apart(nearest) < Snap THEN nearest ELSE eoc

(* _distance_after_duration of _build_climb_plan: 0 past the end of the route *)
ClimbEnd(wind) ==
  LET time(l) == TimeFor(Distance(l), Ground(2, wind[l]))
      until[l \in 0 .. LegCount] == IF l = 0 THEN 0 ELSE until[l - 1] + time(l)
      reached == {l \in Legs : flight.climb <= until[l]}
      last == Min(reached)
  IN IF reached = {} THEN 0
     ELSE StartOf(last) + WayIn(flight.climb - until[last - 1], Ground(2, wind[last]))

\* (broken) the cruise is looked for before the EOC as it was computed
CruiseBeforeUnmoved(eoc, rca, vrep) ==
  IF eoc <= rca \/ eoc = 0 THEN 0 ELSE LegAt(eoc - 1)

(* _effective_cruise_cas_at_eoc: the leg of the cruise zone that ends at the
   EOC, 0 where there is none. *)
CruiseBefore(eoc, rca, vrep) ==
  LET end == Snapped(eoc, vrep)
      leg == LegAt(end - 1)
  IN IF end <= rca \/ end = 0 THEN 0 ELSE leg

Refusal(code) == [failed |-> code]

DescentLeg == CHOOSE l \in First("DESCENT") : TRUE

(* descent_ground_speed: the wind is that of the descent's own leg throughout. *)
DescentSpeed(cas, wind) ==
  [l \in Legs |-> Ground(IF flight.manual # 0 THEN flight.manual ELSE cas,
                         l \in flight.upwind /\ wind[DescentLeg])]

(* _build_descent_plan with a given cruise speed: the first leg, backwards from
   the descent's own, from whose altitude the whole descent fits; no leg on the
   way back may be lower than the one after it. *)
DescentWith(cas, wind) ==
  LET last == DescentLeg
      speed == DescentSpeed(cas, wind)
      from[l \in 1 .. LegCount + 1] ==
        IF l > last THEN 0 ELSE from[l + 1] + TimeFor(Distance(l), speed[l])
      vertical(l) == (flight.altitude[l] - flight.target) * DescentRate
      fits == {l \in 1 .. last : vertical(l) >= 0 /\ vertical(l) + Deceleration <= from[l]}
      start == Max(fits)
      time == vertical(start) + Deceleration
      begun == Max({l \in 1 .. last : time <= from[l]})
  IN IF flight.manual = 0 /\ cas = 0 THEN Refusal("no cruise before the EOC")
     ELSE IF fits = {} \/ \E l \in start + 1 .. last : flight.altitude[l - 1] < flight.altitude[l]
     THEN Refusal("descent infeasible")
     ELSE [eoc |-> EndOf(begun) - WayIn(time - from[begun + 1], speed[begun]),
           vrep |-> EndOf(last), cas |-> cas, time |-> time]

(* The EOC depends on the airspeed and the airspeed on the EOC: tried again, at
   most once for each leg, until they agree. *)
CruiseSpeedBefore(eoc, rca, vrep) ==
  LET leg == CruiseBefore(eoc, rca, vrep) IN IF leg = 0 THEN 0 ELSE flight.cruise[leg]

FirstDescent(rca, wind) ==
  DescentWith(CruiseSpeedBefore(EndOf(DescentLeg), rca, EndOf(DescentLeg)), wind)

\* The airspeed of the cruise before the descent p, 0 where there is none.
Resolved(p, rca) == IF "failed" \in DOMAIN p THEN 0 ELSE CruiseSpeedBefore(p.eoc, rca, p.vrep)

RetriedWith(p, cas, wind) ==
  IF "failed" \in DOMAIN p \/ cas = 0 THEN p
  ELSE IF p.cas \in {0, cas} THEN p ELSE DescentWith(cas, wind)

Retried(p, rca, wind) == RetriedWith(p, Resolved(p, rca), wind)

SettledWith(p, cas) ==
  IF "failed" \in DOMAIN p THEN p
  ELSE IF cas = 0 /\ flight.manual = 0 THEN Refusal("no cruise before the EOC")
  ELSE IF cas # 0 /\ p.cas \notin {0, cas} THEN Refusal("unstable")
  ELSE p
Settled(p, rca) == SettledWith(p, Resolved(p, rca))

Descent(rca, wind) ==
  LET attempt[n \in 0 .. LegCount] ==
        IF n = 0 THEN FirstDescent(rca, wind) ELSE Retried(attempt[n - 1], rca, wind)
  IN Settled(attempt[LegCount], rca)

(* _validate_phase_boundaries *)
Overlap(rca, eoc, vrep) == rca > eoc \/ eoc >= vrep

(* The climb, then the descent that follows it. *)
PlanWith(rca, d) ==
  LET climbFails == Has("CLIMB") /\ rca = 0
      failed == (IF climbFails THEN {"RCA outside the route"} ELSE {})
                  \cup (IF "failed" \in DOMAIN d THEN {d.failed} ELSE {})
      eoc == IF Has("DESCENT") THEN Snapped(d.eoc, d.vrep) ELSE Total
  IN [rca |-> rca, eoc |-> IF failed = {} THEN eoc ELSE Unknown, descent |-> d,
      climbFails |-> climbFails, descentFails |-> "failed" \in DOMAIN d,
      blockers |-> IF failed = {} /\ Has("DESCENT") /\ Overlap(rca, eoc, d.vrep)
                   THEN {"RCA and EOC overlap"} ELSE failed]

ClimbPlan(wind) ==
  IF Has("CLIMB") THEN ClimbEnd([l \in Legs |-> l \in flight.upwind /\ wind[l]]) ELSE 0
DescentPlan(rca, wind) ==
  IF Has("DESCENT") THEN Descent(rca, wind) ELSE [eoc |-> Total, vrep |-> 0]
PlanFrom(rca, wind) == PlanWith(rca, DescentPlan(rca, wind))
Plan(wind) == PlanFrom(ClimbPlan(wind), wind)

(* project_check_points: a check point is linked to a leg and lies abeam a point
   inside it, the one of its place that comes first; the distance flown to it is
   that part of the leg's, which may be entered by hand.                          *)
Abeam(mark) == mark.leg \in Legs /\ 0 < mark.at /\ mark.at < 4
CheckPointsKept ==
  {m \in flight.marks : Abeam(m) /\ \A n \in flight.marks : n.leg = m.leg /\ n.at = m.at => m.id <= n.id}
PlaceOf(mark) == StartOf(mark.leg) + (mark.at * Distance(mark.leg)) \div 4
CheckPoints == {PlaceOf(m) : m \in CheckPointsKept}
CheckPointIssues == IF CheckPointsKept = flight.marks THEN {} ELSE {"check point"}

(* split_route_into_phase_segments: between two neighbouring cuts, one zone *)
Zones(phaseAt) ==
  {[from |-> c, to |-> Min({d \in DOMAIN phaseAt \cup {Total} : d > c}), leg |-> LegAt(c), phase |-> phaseAt[c]] :
     c \in DOMAIN phaseAt}
Turns == {0} \cup {EndOf(l) : l \in Legs}

(* _phase_at_distance *)
PhaseAt(p, l, rca, eoc, vrep) ==
  IF p < rca THEN "CLIMB"
  ELSE IF eoc <= p /\ p < vrep THEN "DESCENT"
  ELSE IF l = LegCount /\ flight.phase[l] = "VISUAL" /\ p >= vrep THEN "VISUAL"
  ELSE "CRUISE"

(* _build_phase_segmentation: where the climb or the descent could not be
   planned or they overlap, a zone has the phase of its section. *)
ZonesOf(plan) ==
  IF plan.blockers # {}
  THEN Zones([c \in (Turns \cup CheckPoints) \ {Total} |-> flight.phase[LegAt(c)]])
  ELSE Zones([c \in (Turns \cup CheckPoints \cup {plan.rca, plan.eoc}) \ {Total} |->
                PhaseAt(c, LegAt(c), plan.rca, plan.eoc, plan.descent.vrep)])

Order(phase) == CASE phase = "CLIMB" -> 0 [] phase = "CRUISE" -> 1
                  [] phase = "DESCENT" -> 2 [] OTHER -> 3

(* _flight_phase_sequence_issues *)
SequenceValid ==
  \A i, l \in Legs : i < l => /\ Order(flight.phase[i]) <= Order(flight.phase[l])
                              /\ flight.phase[i] = flight.phase[l] => flight.phase[i] = "CRUISE"

(* The ground speed of a zone, 0 where none can be had. *)
ClimbZoneSpeed(z, plan, ahead) == IF plan.climbFails THEN 0 ELSE Ground(2, ahead)
CruiseZoneSpeed(z, ahead) == Ground(flight.cruise[z.leg], ahead)
DescentZoneSpeed(z, plan, wind) ==
  IF ~plan.descentFails THEN DescentSpeed(plan.descent.cas, wind)[z.leg]
  ELSE IF flight.manual = 0 THEN 0
  ELSE Ground(flight.manual, z.leg \in flight.upwind /\ wind[z.leg])
VisualZoneSpeed == 2  \* calm, whatever the forecast of the destination

ZoneSpeed(z, plan, wind) ==
  LET ahead == z.leg \in flight.upwind /\ wind[z.leg]
  IN CASE z.phase = "CLIMB" -> ClimbZoneSpeed(z, plan, ahead)
       [] z.phase = "CRUISE" -> CruiseZoneSpeed(z, ahead)
       [] z.phase = "DESCENT" -> DescentZoneSpeed(z, plan, wind)
       [] OTHER -> VisualZoneSpeed

Timed(z, speed) ==
  [zone |-> z, time |-> IF speed = 0 THEN Unknown ELSE TimeFor(z.to - z.from, speed)]

(* cumulative_ete_seconds at a cut: unknown from the first zone without a time *)
Elapsed(timed, p) ==
  LET before == {t \in timed : t.zone.to <= p}
  IN IF \E t \in before : t.time = Unknown THEN Unknown
     ELSE MapThenSumSet(LAMBDA t : t.time, before)

(* representative_times: the middle of each leg *)
Representative(timed) ==
  [l \in Legs |-> IF Elapsed(timed, EndOf(l)) = Unknown THEN Unknown
                  ELSE (Elapsed(timed, StartOf(l)) + Elapsed(timed, EndOf(l))) \div 2]

(* _calculate_iteration, with the weather as it was requested *)
ProfileOf(wind, plan, timed) ==
  [zones |-> timed, wind |-> wind, rca |-> plan.rca,
   eoc |-> plan.eoc, descent |-> plan.descent,
   times |-> Representative(timed), arrival |-> Elapsed(timed, Total),
   blockers |-> plan.blockers \cup (IF SequenceValid THEN {} ELSE {"phase sequence"})
                            \cup CheckPointIssues]
TimedZones(wind, plan) == {Timed(z, ZoneSpeed(z, plan, wind)) : z \in ZonesOf(plan)}
IterationWith(wind, plan) == ProfileOf(wind, plan, TimedZones(wind, plan))
IterationIn(wind) == IterationWith(wind, Plan(wind))
Iteration == IterationIn([l \in Legs |-> Blows(WeatherTime(l))])

(* The times of two iterations agree where both have them. *)
Agree(old, new) ==
  LET legs == {l \in Legs : old.times[l] # Unknown /\ new.times[l] # Unknown}
      arrivals == old.arrival # Unknown /\ new.arrival # Unknown
  IN /\ \E l \in Legs : old.times[l] # Unknown
     /\ legs # {} \/ arrivals
     /\ \A l \in legs : old.times[l] = new.times[l]
     /\ arrivals => old.arrival = new.arrival

TimesOf(p) == [times |-> p.times, arrival |-> p.arrival]

ProfileInit ==
  /\ flight \in Flights
  /\ iteration = 0 /\ converged = FALSE
  /\ previous = NoTimes /\ profile = NoProfile

(* One turn of the loop of _calculate. *)
Iterate ==
  /\ ~converged /\ iteration < MaxIterations
  /\ iteration' = iteration + 1
  /\ profile' = Iteration
  /\ converged' = Agree(previous, TimesOf(profile'))
  /\ previous' = IF converged' THEN previous ELSE TimesOf(profile')
  /\ UNCHANGED flight

ProfileSpec == ProfileInit /\ [][Iterate]_profileVars

(****************************************************************************)
(* Properties.                                                              *)
(****************************************************************************)

Copyable == profile.zones # {} /\ profile.blockers = {}
In(phase) == {t \in profile.zones : t.zone.phase = phase}

(* In a NAV LOG that is not blocked the phases follow one another, and the ones
   the sections ask for are there. *)
PhasesInOrder ==
  Copyable
    => /\ \A s, t \in profile.zones :
            s.zone.from < t.zone.from => Order(s.zone.phase) <= Order(t.zone.phase)
       /\ \A phase \in {"CLIMB", "DESCENT", "VISUAL"} : Has(phase) => In(phase) # {}

(* The zones of the descent take the time that it takes to descend from the
   altitude it starts from and to decelerate, up to what an EOC was moved by. *)
DescentFits ==
  Copyable /\ Has("DESCENT")
    => LET d == profile.descent
           taken == MapThenSumSet(LAMBDA t : t.time, In("DESCENT"))
       IN /\ d.time - taken \in -(4 * (Snap - 1)) .. 4 * (Snap - 1)
          /\ profile.eoc = d.eoc => taken = d.time

(* The airspeed of the descent is that of the cruise zone it follows, although
   the plan and the partition each move the EOC to a turn by themselves. *)
DescentSpeedOfCruise ==
  Copyable /\ Has("DESCENT") /\ flight.manual = 0
    => \E t \in In("CRUISE") : /\ t.zone.to = profile.eoc
                               /\ flight.cruise[t.zone.leg] = profile.descent.cas

(* A climb takes its planned time, through as many legs and winds as it does. *)
ClimbTakesItsTime ==
  Copyable /\ Has("CLIMB")
    => MapThenSumSet(LAMBDA t : t.time, In("CLIMB")) = flight.climb

(* When the times have converged, every leg was computed with the weather of
   the time at which it is flown. *)
WeatherOfTheTime ==
  converged => \A l \in Legs : profile.times[l] # Unknown
                                 => profile.wind[l] = Blows(profile.times[l])

(* A check point is reported, or a zone of its leg ends there and another begins,
   whatever else cuts the route; if none is reported they all have places of
   their own. *)
CheckPointsMarked ==
  profile.zones # {}
    => \A m \in flight.marks :
         \/ "check point" \in profile.blockers
         \/ /\ \E s, t \in profile.zones : /\ s.zone.leg = m.leg /\ s.zone.to = PlaceOf(m)
                                          /\ t.zone.leg = m.leg /\ t.zone.from = PlaceOf(m)
            /\ \A n \in flight.marks \ {m} : PlaceOf(n) # PlaceOf(m)

(* A NAV LOG that is not blocked describes one flight: phases in their order, a
   climb and a descent that take their time, a descent at its cruise's speed,
   each leg in the weather it is flown in, and all of its check points. *)
ProfileIsFlown ==
  /\ PhasesInOrder /\ DescentFits /\ DescentSpeedOfCruise /\ ClimbTakesItsTime
  /\ WeatherOfTheTime /\ CheckPointsMarked
=============================================================================
