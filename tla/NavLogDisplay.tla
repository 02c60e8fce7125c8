---------------------------- MODULE NavLogDisplay ----------------------------
(****************************************************************************)
(* The NAV LOG as it is copied by hand: application/navlog_display.py.  A   *)
(* calculation leaves zones; they are shown under the legs the pilot knows, *)
(* a parent row and a row for each zone, in rounded figures, and a cell     *)
(* stays empty where the figure above it still holds.  What is read from    *)
(* the paper has to be what was calculated.                                 *)
(*                                                                          *)
(* Distances, times and fuel are counted in tenths of a mile, in seconds    *)
(* and in hundredths of a gallon, shown in ticks of 5, 30 and 10.  A course,*)
(* a wind, a temperature is a value or Missing; the wording of a cell, its  *)
(* manual mark and the reason it is unavailable for are left out.           *)
(****************************************************************************)
EXTENDS Integers, Sequences, SequencesExt, FiniteSets, FiniteSetsExt

CONSTANTS NavLogs,      \* the calculated flights to be shown
          Names,        \* names of the points of a route
          Missing       \* a value that could not be had, a point without a node

VARIABLES log,      \* names of the nodes, sections by phase, groups, zones
          rows,     \* display_rows of the outcome
          summary   \* its totals

navLogVars == <<log, rows, summary>>

NotShown == [distance |-> Missing, ete |-> Missing]

(* round_half_up, in ticks of q *)
HalfUp(v, q) == (2 * v + q) \div (2 * q)
Sums(s) == LET upTo[i \in 0 .. Len(s)] == IF i = 0 THEN 0 ELSE upTo[i - 1] + s[i] IN upTo[Len(s)]
Known(s) == \A i \in DOMAIN s : s[i] # Missing

(****************************************************************************)
(* Legs: _navlog_physical_legs.  A section is a leg of its own, but those   *)
(* up to OMARU of an RJFM departure, and those from OMARU of an RJFM        *)
(* arrival to its VREP (to the end where that is ARITA), share one.         *)
(****************************************************************************)
SectionLength(l, s) ==
  LET zs == SelectSeq(l.zones, LAMBDA z : z.section = s)
      lengths == [i \in DOMAIN zs |-> zs[i].distance]
  IN IF Known(lengths) THEN Sums(lengths) ELSE Missing

OwnLeg(l, s) == [sections |-> {s}, phase |-> l.phases[s], start |-> s - 1, end |-> s,
                 distance |-> SectionLength(l, s), vrep |-> Missing,
                 children |-> FALSE, course |-> Missing]

GroupLeg(l, from, to, vrep, course) ==
  LET lengths == [i \in 1 .. to - from + 1 |-> SectionLength(l, from + i - 1)]
  IN [sections |-> from .. to, phase |-> l.phases[from], start |-> from - 1, end |-> to,
      distance |-> IF Known(lengths) THEN Sums(lengths) ELSE Missing,
      vrep |-> vrep, children |-> TRUE, course |-> course]

OwnLegs(l, from, to) == [i \in 1 .. to - from + 1 |-> OwnLeg(l, from + i - 1)]

LegsBefore(l, to) ==
  IF l.departure = 0 \/ l.departure > to THEN OwnLegs(l, 1, to)
  ELSE <<GroupLeg(l, 1, l.departure, Missing, l.direct)>> \o OwnLegs(l, l.departure + 1, to)

PhysicalLegs(l) ==
  LET last == Len(l.phases)
      i == l.inbound
  IN IF i = Missing \/ i.from >= i.to THEN LegsBefore(l, last)
     ELSE LegsBefore(l, i.from - 1) \o <<GroupLeg(l, i.from, i.to, i.vrep, Missing)>>
            \o OwnLegs(l, i.to + 1, last)

ZonesUnder(l, leg) == SelectSeq(l.zones, LAMBDA z : z.section \in leg.sections)

(****************************************************************************)
(* Cells.                                                                   *)
(****************************************************************************)
Blank == [state |-> "BLANK", value |-> Missing]
Inherit(v) == [state |-> "INHERIT", value |-> v]
UnavailableCell == [state |-> "UNAVAILABLE", value |-> Missing]
Display(v) == [state |-> "DISPLAY_VALUE", value |-> v]
Symbol(s) == [state |-> "STATE_SYMBOL", value |-> s]

FromAdopted(v) == IF v = Missing THEN UnavailableCell ELSE Display(v)

EnvironmentFields == {"toat", "wind", "wca", "mh"}
CourseFields == {"tc", "mc"}
Fields == EnvironmentFields \cup CourseFields \cup {"cas", "tas", "variation"}

(* _wind: calm needs no direction. *)
Calm == <<0, 0>>
WindValue(w) == IF w.speed = 0 THEN Calm
                ELSE IF Missing \in {w.speed, w.from} THEN Missing ELSE <<w.from, w.speed>>

(* _magnetic_heading: of the course and the correction shown *)
HeadingValue(z) == IF Missing \in {z.course, WindValue(z.wind)} THEN Missing
                   ELSE <<z.course, WindValue(z.wind)>>

(* _zone_cells *)
ZoneValue(z, field) ==
  CASE field = "toat" -> z.temperature
    [] field \in {"wind", "wca"} -> WindValue(z.wind)
    [] field = "mh" -> HeadingValue(z)
    [] field \in CourseFields -> z.course
    [] OTHER -> z.speed
ZoneCells(z) == [field \in Fields |-> FromAdopted(ZoneValue(z, field))]
GroundSpeedCell(z) == FromAdopted(IF Missing \in {WindValue(z.wind), z.speed} THEN Missing
                                  ELSE <<WindValue(z.wind), z.speed>>)

(* _same_effective and _project_with_inheritance *)
SameEffective(a, b) == a.state = b.state /\ (a.state # "UNAVAILABLE" => a.value = b.value)
Projected(candidate, context) ==
  IF context # Blank /\ SameEffective(candidate, context) THEN Inherit(candidate.value)
  ELSE candidate
Context(candidate, context) ==
  IF context # Blank /\ SameEffective(candidate, context) THEN context ELSE candidate

(****************************************************************************)
(* Rounded figures.                                                         *)
(****************************************************************************)

(* The rest of the target goes to the largest fractions, in route order. *)
LargestRemainder(whole, rest, target) ==
  LET remaining == target - Sums(whole)
      before(i) == {j \in DOMAIN rest : rest[j] > rest[i] \/ (rest[j] = rest[i] /\ j < i)}
  IN IF remaining \notin 0 .. Len(whole) THEN Missing
     ELSE [i \in DOMAIN whole |->
             whole[i] + (IF Cardinality(before(i)) < remaining THEN 1 ELSE 0)]

(* _allocate_proportional_largest_remainder_ticks and its raw sister *)
Proportional(values, target) ==
  LET total == Sums(values)
  IN IF total = 0 THEN Missing
     ELSE LargestRemainder([i \in DOMAIN values |-> (values[i] * target) \div total],
                           [i \in DOMAIN values |-> (values[i] * target) % total], target)
Raw(values, quantum, target) ==
  LargestRemainder([i \in DOMAIN values |-> values[i] \div quantum],
                   [i \in DOMAIN values |-> values[i] % quantum], target)

(* _display_distance_cells: the leg's rounded distance, shared out. *)
Distances(leg, zs, prior) ==
  LET values == [i \in DOMAIN zs |-> zs[i].distance]
      none == [zone |-> Missing, cum |-> Missing, children |-> [i \in DOMAIN zs |-> Missing]]
      ticks == HalfUp(leg.distance, 5)
  IN IF leg.distance = Missing \/ ~Known(values) THEN none
     ELSE IF Sums(values) # leg.distance THEN none
     ELSE IF Proportional(values, ticks) = Missing \/ prior = Missing THEN none
     ELSE [zone |-> ticks, cum |-> prior + ticks, children |-> Proportional(values, ticks)]

(* _inbound_ete_display_seconds: the RJFM arrival is rounded once, as a whole. *)
InboundTicks(l) ==
  LET arrival == SelectSeq(l.zones, LAMBDA z : z.arrival)
      values == [i \in DOMAIN arrival |-> arrival[i].ete]
  IN IF arrival = <<>> \/ ~Known(values) THEN <<>>
     ELSE Raw(values, 30, HalfUp(Sums(values), 30))

(* The time a zone's row shows: its share of the arrival, or its own, rounded. *)
ShownTime(l, z) ==
  LET shares == InboundTicks(l)
      place == Cardinality({i \in DOMAIN l.zones : l.zones[i].arrival /\ l.zones[i].id <= z.id})
  IN IF z.arrival /\ shares # <<>> THEN shares[place]
     ELSE IF z.ete = Missing THEN Missing ELSE HalfUp(z.ete, 30)

(* _display_rounded_combined and _display_fixed_ete_combined: what the children
   show, added up; the calculation's own total has to be known as well. *)
Times(l, zs, prior) ==
  LET shown == [i \in DOMAIN zs |-> ShownTime(l, zs[i])]
      upToHere == SelectSeq(l.zones, LAMBDA z : z.id <= zs[Len(zs)].id)
  IN IF ~Known(shown) \/ prior = Missing \/ (\E i \in DOMAIN upToHere : upToHere[i].ete = Missing)
     THEN [zone |-> Missing, cum |-> Missing]
     ELSE [zone |-> Sums(shown), cum |-> prior + Sums(shown)]

(* _display_fuel_combined *)
Fuel(l, zs, prior) ==
  LET shown == [i \in DOMAIN zs |-> IF zs[i].fuel = Missing THEN Missing ELSE HalfUp(zs[i].fuel, 10)]
      upToHere == SelectSeq(l.zones, LAMBDA z : z.id <= zs[Len(zs)].id)
  IN IF ~Known(shown) \/ prior = Missing \/ (\E i \in DOMAIN upToHere : upToHere[i].fuel = Missing)
     THEN [zone |-> Missing, rem |-> Missing]
     ELSE [zone |-> Sums(shown), rem |-> prior - Sums(shown)]

(* build_navlog_summary: the totals, from the zones once more; a leg of which a
   section has no zone leaves none. *)
Totals(l) ==
  LET legs == PhysicalLegs(l)
      total[n \in 0 .. Len(legs)] ==
        IF n = 0 THEN [distance |-> 0, ete |-> 0]
        ELSE LET zs == ZonesUnder(l, legs[n])
                 before == total[n - 1]
             IN IF {zs[i].section : i \in DOMAIN zs} # legs[n].sections THEN NotShown
                ELSE [distance |-> Distances(legs[n], zs, before.distance).cum,
                      ete |-> Times(l, zs, before.ete).cum]
  IN IF l.zones = <<>> THEN NotShown ELSE total[Len(legs)]

(****************************************************************************)
(* Rows: build_navlog_display_rows.                                         *)
(****************************************************************************)

(* A point's label: its name, or the marks that a cut left there; only an EOC
   keeps the name it fell upon. *)
Label(l, point) ==
  [name |-> IF point.node # Missing /\ (point.marks = {} \/ "EOC" \in point.marks)
            THEN l.names[point.node] ELSE Missing,
   marks |-> point.marks]

(* _estimated_descent_altitudes: what remains of the descent at the zone's end *)
Estimate(l, z) ==
  LET level == {i \in 1 .. z.id : l.zones[i].phase # "DESCENT"}
      begun == IF level = {} THEN 1 ELSE Max(level) + 1
  IN IF \A i \in begun .. z.id : l.zones[i].ete # Missing THEN z.estimate ELSE Missing

(* _zone_pa *)
AltitudeCell(l, z, physicalEnd, vrepEnd) ==
  IF "RCA" \in z.to.marks THEN Symbol("CLIMB")
  ELSE IF "EOC" \in z.to.marks
  THEN IF z.level THEN FromAdopted(z.altitude) ELSE Symbol("DESCENT")
  ELSE IF z.phase = "CLIMB" THEN Symbol("CLIMB")
  ELSE IF z.phase # "DESCENT" THEN FromAdopted(z.altitude)
  ELSE IF vrepEnd THEN FromAdopted(z.target)
  ELSE IF physicalEnd THEN FromAdopted(Estimate(l, z))
  ELSE Symbol("DESCENT")

(* The parent row: the first zone's figures, or at the start of the flight the
   aerodrome's; the ground speed only where it is that of every zone. *)
ParentCells(l, leg, zs, isDeparture) ==
  LET first == ZoneCells(zs[1])
      direct == [field \in {"tc", "mc", "variation"} |->
                   IF leg.course = Missing THEN first[field] ELSE Display(leg.course)]
      speeds == {GroundSpeedCell(zs[i]) : i \in DOMAIN zs}
      own == IF isDeparture
             THEN [field \in Fields |-> IF field = "toat" THEN FromAdopted(l.departureWeather)
                                        ELSE IF field \in DOMAIN direct THEN direct[field]
                                        ELSE Blank]
             ELSE [field \in Fields |-> IF leg.children /\ field \in CourseFields THEN Blank
                                        ELSE first[field]]
  IN own @@ [gs |-> IF ~isDeparture /\ Cardinality(speeds) = 1 THEN GroundSpeedCell(zs[1]) ELSE Blank,
             pa |-> IF isDeparture THEN Display(l.elevation.departure)
                    ELSE IF zs[1].phase \in {"DESCENT", "VISUAL"} THEN Symbol("DESCENT")
                    ELSE FromAdopted(zs[1].altitude)]

VisualFollows(legs, leg) ==
  \E n \in DOMAIN legs : legs[n].start = leg.end /\ legs[n].phase = "VISUAL"

\* (broken) the mark of an EOC is forgotten at the end of its leg
AfterEocOfLeg(l, leg, z) ==
  /\ z.phase = "DESCENT"
  /\ \E i \in DOMAIN l.zones :
       /\ l.zones[i].section \in leg.sections
       /\ i < z.id /\ "EOC" \in l.zones[i].to.marks
       /\ \A k \in i + 1 .. z.id - 1 : l.zones[k].phase # "DESCENT"

(* eoc_boundary_pending and _is_eoc_descent_start: the first zone of a descent
   after its EOC, wherever the leg between them ends. *)
AfterEoc(l, leg, z) ==
  /\ z.phase = "DESCENT"
  /\ \/ "EOC" \in z.from.marks
     \/ \E i \in 1 .. z.id - 1 :
          /\ "EOC" \in l.zones[i].to.marks
          /\ \A k \in i + 1 .. z.id - 1 : l.zones[k].phase # "DESCENT"

(* A zone's row: what differs from the context, the row above and what that one
   inherited; after an EOC and for the courses of a grouped leg, everything. *)
ChildRow(l, leg, follows, zs, i, distance, parent, context) ==
  LET z == zs[i]
      last == i = Len(zs)
      vrepEnd == IF leg.vrep # Missing THEN z.to.node = leg.vrep
                 ELSE last /\ follows
      sectionEnd == last \/ (leg.children /\ zs[i + 1].section # z.section)
      altitude == IF last /\ leg.end = Len(l.phases) /\ z.phase = "VISUAL" THEN Display(l.elevation.destination)
                  ELSE AltitudeCell(l, z, sectionEnd, vrepEnd)
      candidates == ZoneCells(z) @@ [pa |-> altitude]
      explicit(field) == \/ leg.children /\ field \in CourseFields
                         \/ AfterEoc(l, leg, z) /\ field \in EnvironmentFields
      cells == [field \in DOMAIN candidates |->
                  IF explicit(field) THEN candidates[field]
                  ELSE Projected(candidates[field], context[field])]
      speed == GroundSpeedCell(z)
  IN [kind |-> "ZONE", zone |-> z.id, node |-> z.to.node, label |-> Label(l, z.to),
      cells |-> cells @@ [gs |-> IF AfterEoc(l, leg, z) THEN speed ELSE Projected(speed, parent.gs)],
      distance |-> distance, ete |-> ShownTime(l, z),
      fuel |-> IF z.fuel = Missing THEN Missing ELSE HalfUp(z.fuel, 10),
      context |-> [field \in DOMAIN candidates |->
                     IF explicit(field) THEN candidates[field]
                     ELSE Context(candidates[field], context[field])]]

ChildRows(l, leg, follows, zs, distances, parent) ==
  LET row[i \in 0 .. Len(zs)] ==
        IF i = 0 THEN [context |-> parent]
        ELSE ChildRow(l, leg, follows, zs, i, distances[i], parent, row[i - 1].context)
  IN [i \in DOMAIN zs |-> row[i]]

(* The destination's own row, with the wind of its forecast and not of the zone;
   one of another aerodrome, or of no certain direction, is none. *)
DestinationWind(forecast) ==
  IF forecast = Missing THEN UnavailableCell
  ELSE IF ~forecast.available \/ ~forecast.here \/ forecast.variable THEN UnavailableCell
  ELSE FromAdopted(WindValue(forecast.wind))
DestinationRow(l) ==
  [kind |-> "DESTINATION", pa |-> Display(l.elevation.destination),
   wind |-> DestinationWind(l.destinationWind), toat |-> FromAdopted(l.destinationWeather)]

(* The rows of one leg after those before it, and the figures it carries on. *)
WithLeg(l, legs, n, before) ==
  LET leg == legs[n]
      zs == ZonesUnder(l, leg)
      final == n = Len(legs)
      distance == Distances(leg, zs, before.distance)
      time == Times(l, zs, before.ete)
      fuel == Fuel(l, zs, before.fuel)
      parent == ParentCells(l, leg, zs, n = 1 /\ leg.phase = "CLIMB")
      summaryRow == [kind |-> "LEG", leg |-> n, node |-> leg.end, cells |-> parent,
                     label |-> [name |-> l.names[leg.end], marks |-> {}],
                     distance |-> distance, ete |-> time, fuel |-> fuel]
      children == IF final /\ leg.phase = "VISUAL" THEN <<>>
                  ELSE ChildRows(l, leg, VisualFollows(legs, leg), zs, distance.children, parent)
      arrival == IF final /\ zs[Len(zs)].phase = "VISUAL"
                 THEN <<DestinationRow(l)>> ELSE <<>>
  IN IF zs = <<>> THEN before
     ELSE [rows |-> before.rows \o <<summaryRow>> \o children \o arrival,
           distance |-> distance.cum, ete |-> time.cum, fuel |-> fuel.rem]

Rows(l) ==
  LET legs == PhysicalLegs(l)
      upTo[n \in 0 .. Len(legs)] ==
        IF n = 0 THEN [rows |-> <<>>, distance |-> 0, ete |-> 0,
                       fuel |-> HalfUp(l.fuel, 10) - HalfUp(l.runUp, 10)]
        ELSE WithLeg(l, legs, n, upTo[n - 1])
  IN upTo[Len(legs)].rows

(****************************************************************************)
(* Actions.                                                                 *)
(****************************************************************************)

NavLogInit == log \in NavLogs /\ rows = <<>> /\ summary = NotShown

(* The calculation ends with its display. *)
ShowNavLog ==
  /\ rows = <<>>
  /\ rows' = Rows(log)
  /\ summary' = Totals(log)
  /\ UNCHANGED log

(* reproject_route_node_labels: a row of another node keeps its label. *)
Relabelled(row, node, previous, name) ==
  IF row.kind \in {"LEG", "ZONE"} /\ row.node = node /\ row.label.name = previous
  THEN [row EXCEPT !.label.name = name] ELSE row

(* rename_route_node: not of the airports, and without a new calculation *)
RenameRouteNode(node, name) ==
  /\ rows # <<>>
  /\ node \in 1 .. Len(log.phases) - 1
  /\ log' = [log EXCEPT !.names[node] = name]
  /\ rows' = [i \in DOMAIN rows |-> Relabelled(rows[i], node, log.names[node], name)]
  /\ UNCHANGED summary

NavLogNext == \/ ShowNavLog
              \/ \E node \in 1 .. Len(log.phases) - 1, name \in Names : RenameRouteNode(node, name)

NavLogSpec == NavLogInit /\ [][NavLogNext]_navLogVars

(****************************************************************************)
(* Properties.                                                              *)
(****************************************************************************)

Parents == {i \in DOMAIN rows : rows[i].kind = "LEG"}
Children(p) == {i \in DOMAIN rows : /\ i > p /\ rows[i].kind = "ZONE"
                                    /\ \A q \in Parents : q <= p \/ i < q}

(* What a reader takes an empty cell for: the figure above, in the same leg. *)
ReadAs(p, i, field) ==
  LET written == {j \in {p} \cup Children(p) :
                    j <= i /\ rows[j].cells[field].state \notin {"BLANK", "INHERIT"}}
  IN IF written = {} THEN Blank ELSE rows[Max(written)].cells[field]

(* A cell left empty is read as the value its zone was calculated with, also
   where there is none. *)
EmptyCellsRead ==
  \A p \in Parents : \A i \in Children(p) :
    LET z == log.zones[rows[i].zone]
    IN /\ \A field \in Fields : ReadAs(p, i, field) = FromAdopted(ZoneValue(z, field))
       /\ ReadAs(p, i, "gs") = GroundSpeedCell(z)

(* The figures of a leg are the sums of what its zones show, and those of the
   flight the sums of its legs, as far as they are shown. *)
FiguresAddUp ==
  \A p \in Parents :
    LET above == {q \in Parents : q <= p}
        children == SetToSortSeq(Children(p), <)
    IN /\ children # <<>> =>
            /\ rows[p].distance.zone # Missing
                 => rows[p].distance.zone = Sums([i \in DOMAIN children |-> rows[children[i]].distance])
            /\ rows[p].ete.zone # Missing
                 => rows[p].ete.zone = Sums([i \in DOMAIN children |-> rows[children[i]].ete])
            /\ rows[p].fuel.zone # Missing
                 => rows[p].fuel.zone = Sums([i \in DOMAIN children |-> rows[children[i]].fuel])
       /\ rows[p].distance.cum # Missing
            => rows[p].distance.cum = MapThenSumSet(LAMBDA q : rows[q].distance.zone, above)
       /\ rows[p].ete.cum # Missing
            => rows[p].ete.cum = MapThenSumSet(LAMBDA q : rows[q].ete.zone, above)
       /\ rows[p].fuel.rem # Missing
            => rows[p].fuel.rem = HalfUp(log.fuel, 10) - HalfUp(log.runUp, 10)
                                    - MapThenSumSet(LAMBDA q : rows[q].fuel.zone, above)

(* A figure that is shared out is off by less than a tick in each zone, beside
   what the leg itself was rounded by. *)
SharesAreFair ==
  \A p \in Parents : \A i \in Children(p) :
    rows[i].distance # Missing
      => LET off == 5 * rows[i].distance - log.zones[rows[i].zone].distance IN off \in -7 .. 7

(* The totals are those of the last leg although they are computed apart. *)
TotalsAreLast ==
  rows # <<>> => LET last == rows[Max(Parents)]
                 IN summary = [distance |-> last.distance.cum, ete |-> last.ete.cum]

(* docs/calculation_rules.md: after an EOC the first row of the descent shows
   temperature, wind, WCA, heading and ground speed, whatever they are. *)
EocIsExplicit ==
  \A p \in Parents : \A i \in Children(p) :
    LET z == rows[i].zone
    IN z > 1 /\ log.zones[z].phase = "DESCENT" /\ log.zones[z - 1].phase # "DESCENT"
         => \A field \in EnvironmentFields \cup {"gs"} :
              rows[i].cells[field].state \in {"DISPLAY_VALUE", "UNAVAILABLE"}

(* Every zone is in one leg, and the rows are in the order of the flight. *)
LegsCoverFlight ==
  LET legs == PhysicalLegs(log)
  IN /\ legs[1].start = 0 /\ legs[Len(legs)].end = Len(log.phases)
     /\ \A n \in 1 .. Len(legs) - 1 : legs[n].end = legs[n + 1].start
     /\ \A s \in DOMAIN log.phases : Cardinality({n \in DOMAIN legs : s \in legs[n].sections}) = 1

(* A NAV LOG, also after points were renamed in it, reads as the calculation
   made it and as a calculation with the new names would have it. *)
LogReadsTrue ==
  /\ EmptyCellsRead /\ FiguresAddUp /\ SharesAreFair /\ TotalsAreLast
  /\ EocIsExplicit
  /\ rows # <<>> => LegsCoverFlight /\ rows = Rows(log)
=============================================================================
