------------------------------ MODULE MCPlanning ------------------------------
(* The planning of a flight for TLC: the choice of a forecast around a       *)
(* calculation, the profile it computes, its NAV LOG, and the route under it  *)
(* all.  A behaviour is one of the component named by part; the others stay  *)
(* where they start.                                                         *)
EXTENDS LocalCalculation, Readiness, FlightProfile, NavLogDisplay, RjfmRoute, KmlRoutes

CONSTANTS d1, d2  \* model values

VARIABLE part

planningVars == <<localVars, readinessVars, profileVars, navLogVars, routeVars, kmlVars, part>>

\* Check points inside legs, and ones that are not.
MCMark(id, leg, at) == [id |-> id, leg |-> leg, at |-> at]
MCMarks == {MCMark(1, 3, 2), MCMark(2, 2, 1), MCMark(3, 2, 3)}
MCBadMarks == {{MCMark(1, 2, 1), MCMark(2, 2, 1)}, {MCMark(1, 2, 1), MCMark(2, 0, 2)},
               {MCMark(1, 2, 0)}, {MCMark(1, 1, 4), MCMark(2, 3, 2)}}

\* Flights of four legs: the offset of each leg's end is the sum of the lengths.
MCFlight(length, altitude, phase, cruise, climb, manual, late) ==
  LET offset[l \in 0 .. LegCount] == IF l = 0 THEN 0 ELSE offset[l - 1] + length[l]
  IN [offset |-> offset, altitude |-> altitude, phase |-> phase, cruise |-> cruise,
      target |-> 1, climb |-> climb, manual |-> manual, marks |-> MCMarks,
      upwind |-> {2, 3}, front |-> 40, windLate |-> late]

MCPhases == {<<"CLIMB", "CRUISE", "DESCENT", "VISUAL">>,
             <<"CRUISE", "CRUISE", "DESCENT", "VISUAL">>,
             <<"CLIMB", "DESCENT", "CRUISE", "VISUAL">>,
             <<"CLIMB", "CRUISE", "CRUISE", "DESCENT">>}

MCGoodFlights ==
  {MCFlight(length, Append(altitude, 1), phase, Append(cruise, 1), climb, manual, late) :
     length \in {4, 8} \X {4, 8} \X {4, 8} \X {8},
     altitude \in {1, 2} \X {1, 2} \X {0, 2},
     phase \in MCPhases,
     cruise \in {1, 2} \X {1, 2} \X {1, 2},
     climb \in {8, 44}, manual \in {0, 2}, late \in BOOLEAN}
MCFlights ==
  MCGoodFlights
    \cup {[MCFlight(length, <<2, 2, 2, 1>>, phase, <<2, 2, 2, 1>>, 8, 0, FALSE) EXCEPT !.marks = marks] :
             length \in {<<8, 8, 8, 8>>, <<4, 8, 4, 8>>}, phase \in MCPhases, marks \in MCBadMarks}

MCFlight1 == CHOOSE f \in Flights : TRUE
MCWorld1 == [reach |-> [c \in ModelRuns |-> 0], flight |-> [m \in Models |-> 1],
             outside |-> {}]

\* Shapes of a flight of three sections: of each zone its section, its phase and the mark at its end.
MCShapes ==
  {[phases |-> <<"CLIMB", "CRUISE", "VISUAL">>, inbound |-> Missing, arrival |-> {},
    cuts |-> <<<<1, "CLIMB", {"RCA"}>>, <<1, "CRUISE", {}>>, <<2, "CRUISE", {"EOC"}>>, <<2, "DESCENT", {}>>, <<3, "VISUAL", {}>>>>],
   [phases |-> <<"CLIMB", "CRUISE", "DESCENT">>, inbound |-> Missing, arrival |-> {},
    cuts |-> <<<<1, "CLIMB", {"RCA"}>>, <<2, "CRUISE", {"CP"}>>, <<2, "CRUISE", {"EOC"}>>, <<3, "DESCENT", {}>>>>],
   [phases |-> <<"CLIMB", "CRUISE", "DESCENT">>, inbound |-> Missing, arrival |-> {},
    cuts |-> <<<<1, "CLIMB", {"RCA"}>>, <<1, "CRUISE", {"EOC"}>>, <<1, "DESCENT", {}>>, <<2, "DESCENT", {"CP"}>>, <<3, "DESCENT", {}>>>>],
   [phases |-> <<"CRUISE", "DESCENT", "VISUAL">>, inbound |-> [from |-> 1, to |-> 2, vrep |-> 2], arrival |-> {3, 4},
    cuts |-> <<<<1, "CRUISE", {}>>, <<1, "CRUISE", {"EOC"}>>, <<2, "DESCENT", {"CP"}>>, <<2, "DESCENT", {}>>, <<3, "VISUAL", {}>>>>],
   [phases |-> <<"CLIMB", "DESCENT", "VISUAL">>, inbound |-> [from |-> 2, to |-> 3, vrep |-> 2], arrival |-> {3, 4},
    cuts |-> <<<<1, "CLIMB", {"RCA"}>>, <<1, "CRUISE", {"EOC"}>>, <<2, "DESCENT", {"CP"}>>, <<2, "DESCENT", {}>>, <<3, "VISUAL", {}>>>>]}

MCAmount == [distance |-> <<2, 8, Missing>>, ete |-> <<20, 50, Missing>>, fuel |-> <<4, 16, Missing>>]
MCValues == {1, 2, Missing}
MCWind(v) == [from |-> IF v = 1 THEN 1 ELSE Missing, speed |-> IF v = 2 THEN 0 ELSE 7]

\* The zones of a shape: values of wind and speed, amounts.
MCZones(shape, value, amount) ==
  LET n == Len(shape.cuts)
      marks(i) == shape.cuts[i][3]
      node(i) == IF i = n \/ shape.cuts[i + 1][1] # shape.cuts[i][1] THEN shape.cuts[i][1] ELSE Missing
      end(i) == [node |-> node(i), marks |-> marks(i)]
  IN [i \in 1 .. n |->
        [id |-> i, section |-> shape.cuts[i][1], phase |-> shape.cuts[i][2], to |-> end(i),
         from |-> IF i = 1 THEN [node |-> 0, marks |-> {}] ELSE end(i - 1),
         wind |-> MCWind(value[i]), temperature |-> value[i],
         speed |-> value[n + 1 - i], course |-> shape.cuts[i][1] % 2,
         altitude |-> 5, estimate |-> 5 - i, target |-> 3, level |-> shape.arrival # {} /\ i + 1 \in shape.arrival,
         arrival |-> i \in shape.arrival,
         distance |-> MCAmount.distance[amount[i]], ete |-> MCAmount.ete[amount[i]],
         fuel |-> MCAmount.fuel[amount[i]]]]

MCLog(shape, value, amount, departure) ==
  [names |-> [i \in 0 .. 3 |-> IF i \in {1, 2} THEN "point" ELSE "airport"], phases |-> shape.phases,
   zones |-> MCZones(shape, value, amount), departure |-> departure, inbound |-> shape.inbound,
   direct |-> 9, fuel |-> 500, runUp |-> 150,
   elevation |-> [departure |-> 0, destination |-> 0],
   departureWeather |-> 1, destinationWeather |-> Missing, destinationWind |-> [available |-> TRUE, here |-> TRUE, variable |-> departure = 0, wind |-> MCWind(2)]]

MCNavLogs ==
  {MCLog(shape, value, amount, departure) :
     shape \in MCShapes, departure \in {0, 2},
     value \in [1 .. 5 -> MCValues], amount \in {<<1, 2, 1, 1, 2>>, <<2, 2, 3, 1, 1>>}}
  \cup
  {MCLog(shape, value, amount, departure) :
     shape \in MCShapes, departure \in {0, 2},
     value \in {<<1, 1, 2, 2, 1>>}, amount \in [1 .. 5 -> 1 .. 3]}

\* Lines, Points and polygons around RJFM at 0 m, UMK at 20000, OMARU at 24000 and RJFO.
MCPath == [c \in {"F", "G", "none"} |-> IF c = "none" THEN "" ELSE "legs"]
MCAirportAt == [a \in {"RJFM", "RJFO"} |-> IF a = "RJFM" THEN 0 ELSE 60000]
MCLine(container, title, coords) ==
  [kind |-> "LineString", name |-> "", title |-> title, coords |-> coords, container |-> container]
MCPoint(container, name, at) ==
  [kind |-> "Point", name |-> name, title |-> <<>>, coords |-> <<at>>, container |-> container]
MCArea(coords) ==
  [kind |-> "Polygon", name |-> "", title |-> <<>>, coords |-> coords, container |-> "F"]
MCGeometries ==
  {MCLine("F", <<"A", "B">>, <<0, 20000>>),
   MCLine("F", <<"B", "C">>, <<20030, 24000, 40000, 60000>>),
   MCLine("F", <<"A", "D", "E">>, <<20000, 20006, 60000>>),
   MCLine("F", <<"A", "B">>, <<0, 20000, 24000, 40000, 60000>>),
   MCLine("F", <<"A">>, <<60000, 24000, 20000, 0>>),
   MCLine("F", <<"A", "C">>, <<0, 24000, 40000, 60000>>),
   MCLine("F", <<"A", "B", "C">>, <<0, 20000, 40000>>),
   MCLine("F", <<"D">>, <<40000, 60000>>),
   MCLine("F", <<"D">>, <<20006, 20000>>),
   MCLine("F", <<"D">>, <<20000>>),
   MCLine("G", <<"A", "B", "C">>, <<0, 20000, 0>>),
   MCLine("none", <<"A">>, <<0, 60000>>),
   MCPoint("F", "P", 20000), MCPoint("F", "Q", 20015), MCPoint("F", "", 20030),
   MCPoint("G", "P", 20008), MCPoint("F", "UMK", 24000), MCPoint("F", "R", 40020),
   MCPoint("F", "R", 0),
   MCArea(<<0, 20000, 20000, 60000, 0>>), MCArea(<<0, 20000, 0>>)}
MCMember(name, kind, size) == [name |-> name, folded |-> name, kind |-> kind, main |-> name = "doc", size |-> size]
MCUploads ==
  {<<MCMember("a", "kml", 1)>>,
   <<MCMember("a", "kml", 1), MCMember("b", "kml", 1)>>,
   <<MCMember("a", "kml", 1), MCMember("doc", "kml", 1), MCMember("c", "other", 2)>>,
   <<MCMember("a", "kml", 1), [MCMember("A", "kml", 1) EXCEPT !.folded = "a"]>>,
   <<MCMember("a", "kml", 1), MCMember("c", "archive", 1)>>,
   <<MCMember("a", "kml", 1), MCMember("c", "other", 9)>>,
   <<MCMember("c", "other", 1)>>,
   <<MCMember("doc", "kml", 1), [MCMember("x/doc", "kml", 1) EXCEPT !.main = TRUE]>>}

\* The parts that are not played start in one way only.
PlanningInit ==
  /\ part \in {"forecast", "readiness", "profile", "navlog", "route", "import"}
  /\ IF part = "profile" THEN TRUE ELSE flight = MCFlight1
  /\ IF part = "forecast" THEN TRUE ELSE world = MCWorld1 /\ feed = [m \in Models |-> {}]
  /\ LocalInit
  \* one of the interchangeable inputs; the Runs of GSM, one of them offered from
  \* the start, reach equally far; the last Run covers a whole flight or nothing of
  \* it, and a flight takes as long with either model
  /\ work.input = d1 /\ (part # "forecast" => work.pinned = NoRun)
  /\ part = "forecast" => /\ feed["GSM"] = {1} /\ world.flight["GSM"] = world.flight["MSM"]
                          /\ \A c \in ModelRuns : c.run = 2 => world.reach[c] # 1
  /\ \A c \in ModelRuns : c.model = "GSM" =>
                              /\ world.reach[c] \in {0, 2}
                              /\ world.reach[c] = world.reach[[c EXCEPT !.run = 1]]
  /\ ReadinessInit
  /\ ProfileInit
  /\ IF part = "navlog" THEN NavLogInit ELSE log = Missing /\ rows = <<>> /\ summary = NotShown
  /\ IF part = "route" THEN RouteInit ELSE project = Absent /\ edits = 0
  /\ KmlInit

PlanningNext ==
  \/ part = "forecast" /\ LocalNext /\ UNCHANGED <<readinessVars, profileVars, navLogVars, routeVars, kmlVars, part>>
  \/ part = "readiness" /\ ReadinessNext /\ UNCHANGED <<localVars, profileVars, navLogVars, routeVars, kmlVars, part>>
  \/ part = "profile" /\ Iterate /\ UNCHANGED <<localVars, readinessVars, navLogVars, routeVars, kmlVars, part>>
  \/ part = "navlog" /\ NavLogNext /\ UNCHANGED <<localVars, readinessVars, profileVars, routeVars, kmlVars, part>>
  \/ part = "route" /\ RouteNext /\ UNCHANGED <<localVars, readinessVars, profileVars, navLogVars, kmlVars, part>>
  \/ part = "import" /\ KmlNext /\ UNCHANGED <<localVars, readinessVars, profileVars, navLogVars, routeVars, part>>

PlanningSpec == PlanningInit /\ [][PlanningNext]_planningVars
===============================================================================
