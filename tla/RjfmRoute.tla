------------------------------ MODULE RjfmRoute ------------------------------
(****************************************************************************)
(* The route of a Project and the two RJFM policies that rewrite it, in     *)
(* web/facade.py, application/rjfm_departure_plan.py and                    *)
(* rjfm_inbound_plan.py.  After every change by the pilot the route is      *)
(* normalized: a departure from RJFM by UMK or OMARU is climbed at 5500 ft, *)
(* a return by OMARU is flown at 4500 ft to UMK and ends at ARITA; points   *)
(* the pilot left out are generated, and what the policies overwrite is     *)
(* kept in the metadata to be put back.                                     *)
(*                                                                          *)
(* Section i joins node i to node i + 1, so its ends are not repeated in    *)
(* it.  A place stands for the coordinates within the tolerance of a        *)
(* reference point; a manual course and distance are one value, "share"     *)
(* once the distance is divided.  Names and check points are left out.      *)
(****************************************************************************)
EXTENDS Integers, Sequences, SequencesExt, FiniteSets, FiniteSetsExt

CONSTANTS Places,         \* where the pilot may put a point
          Airports,       \* "RJFM" among them
          MaxPoints,      \* bound on the points of a route the pilot confirms
          MaxEdits,       \* bound on the changes of the pilot
          Absent          \* a metadata key or a plan that is not there

VARIABLES project,  \* the nodes, sections, metadata and ui_state; Absent: none open
          edits     \* changes so far

routeVars == <<project, edits>>

ASSUME PlacesAssumption == Places \cap Airports = {}
ASSUME BoundsAssumption == MaxPoints \in Nat /\ MaxEdits \in Nat

DepartureAltitude == 5500   \* TARGET_ALTITUDE_FT_MSL of the departure
InboundAltitude == 4500     \* TARGET_ALTITUDE_FT_MSL of the return
CruiseAltitude == 7000      \* all_leg_altitude_ft_msl
OtherAltitude == 3000       \* what the pilot may set a section to

Nodes(p) == DOMAIN p.nodes
End(p) == Len(p.nodes)
IndexOf(p, id) == SelectInSeq(p.nodes, LAMBDA n : n.id = id)

(* uuid4: identifiers nothing in the Project refers to *)
SavedIds(r) == IF r = Absent THEN {}
               ELSE {r[f] : f \in DOMAIN r \cap {"node", "next"}}
UsedIds(p) ==
  {p.nodes[i].id : i \in Nodes(p)} \cup {p.sections[i].id : i \in DOMAIN p.sections}
    \cup DOMAIN p.depSections \cup DOMAIN p.inSections
    \cup SavedIds(p.depNode) \cup SavedIds(p.depUmk) \cup SavedIds(p.inArita) \cup SavedIds(p.inUmk)
Ascending(n, S) == SelectSeq([i \in 1 .. n |-> i], LAMBDA i : i \in S)
NewIds(p, n) ==
  LET used == UsedIds(p)
      bound == Cardinality(used) + n
  IN Ascending(bound, (1 .. bound) \ used)

(* _restore_original_sections and _capture_original_sections: by identifier *)
Restored(sections, values) ==
  [i \in DOMAIN sections |->
     LET s == sections[i]
     IN IF s.id \in DOMAIN values
        THEN [s EXCEPT !.phase = values[s.id].phase, !.altitude = values[s.id].altitude] ELSE s]
Captured(sections, S) ==
  [id \in {sections[i].id : i \in S} |->
     LET s == CHOOSE s \in Range(sections) : s.id = id
     IN [phase |-> s.phase, altitude |-> s.altitude]]
Controlled(sections, S, phase, altitude) ==
  [i \in DOMAIN sections |->
     IF i \in S THEN [sections[i] EXCEPT !.phase = phase, !.altitude = altitude] ELSE sections[i]]

(****************************************************************************)
(* Points enter and leave the route.  Where one leaves, the section into it *)
(* goes and the one out of it takes its place.                              *)
(****************************************************************************)
GeneratedBy(p, source) == {i \in Nodes(p) : p.nodes[i].source = source}

Without(p, S) ==
  LET kept == Ascending(End(p), Nodes(p) \ S)
  IN [p EXCEPT !.nodes = [k \in DOMAIN kept |-> @[kept[k]]],
               !.sections = [k \in 1 .. Len(kept) - 1 |-> @[kept[k + 1] - 1]]]

Inserted(p, i, place, source, role, phase, altitude) ==
  LET ids == NewIds(p, 2)
      node == [id |-> ids[1], place |-> place, source |-> source, role |-> role, manual |-> "none"]
      section == [id |-> ids[2], phase |-> phase, altitude |-> altitude]
  IN [p EXCEPT !.nodes = InsertAt(@, i, node), !.sections = InsertAt(@, i - 1, section)]

SetManual(p, id, manual) ==
  [p EXCEPT !.nodes = [i \in DOMAIN @ |-> IF @[i].id = id THEN [@[i] EXCEPT !.manual = manual] ELSE @[i]]]

SavedGeometry(p, i) == [node |-> p.nodes[i].id, next |-> p.nodes[i + 1].id, manual |-> p.nodes[i].manual]

(* A geometry is put back where the node still precedes the same node. *)
StillAdjacent(p, saved) ==
  /\ saved # Absent
  /\ \E i \in 1 .. End(p) - 1 : p.nodes[i].id = saved.node /\ p.nodes[i + 1].id = saved.next
RestoredGeometry(p, saved) ==
  IF StillAdjacent(p, saved) THEN SetManual(p, saved.node, saved.manual) ELSE p

(* _apply_split_manual_override: the saved distance is divided between the
   section into the generated node i and the one out of it. *)
Split(p, i, saved) ==
  IF saved = Absent \/ IndexOf(p, saved.node) = 0 \/ i = End(p) THEN p
  ELSE LET share == IF saved.manual = "none" THEN "none" ELSE "share"
       IN SetManual(SetManual(p, saved.node, share), p.nodes[i].id, share)

(****************************************************************************)
(* The departure: apply_rjfm_departure_exception.                           *)
(****************************************************************************)
(* _remove_synthetic_omarus with _restore_original_node_override *)
OverrideBack(p) ==
  [(IF p.depNode = Absent THEN p ELSE SetManual(p, p.depNode.node, p.depNode.manual))
     EXCEPT !.depNode = Absent]
WithoutOmarus(p) == OverrideBack(Without(p, GeneratedBy(p, "depOmaru")))

(* _deactivate_exception *)
SectionsBack(p) == [p EXCEPT !.sections = Restored(@, p.depSections), !.depSections = <<>>]
Deactivated(p) == [SectionsBack(WithoutOmarus(p)) EXCEPT !.depPlan = Absent]

(* _reconcile_departure_umk: a UMK before an OMARU that comes first; the one
   generated before is taken out where it is not kept. *)
WithoutDepartureUmk(p) ==
  [RestoredGeometry(Without(p, GeneratedBy(p, "depUmk")), p.depUmk) EXCEPT !.depUmk = Absent]
UmkFirst(p) ==
  [Inserted(p, 2, "UMK", "depUmk", "ROUTE_POINT", p.sections[1].phase, p.sections[1].altitude)
     EXCEPT !.depUmk = SavedGeometry(p, 1)]
SplitAtUmk(p) == Split(p, 2, p.depUmk)
BeforeOmaru(p) ==
  IF p.departure = "RJFM" /\ p.nodes[2].place = "OMARU" THEN SplitAtUmk(UmkFirst(p)) ELSE p
DepartureUmk(p) ==
  IF /\ p.departure = "RJFM" /\ GeneratedBy(p, "depUmk") = {2}
     /\ End(p) > 2 /\ p.nodes[3].place = "OMARU"
  THEN SplitAtUmk(p)
  ELSE BeforeOmaru(WithoutDepartureUmk(p))

(* _matching_user_node_index: an OMARU the pilot put after UMK, 0 if there is none *)
UserOmaru(p) ==
  SelectInSubSeq(p.nodes, 3, End(p), LAMBDA n : n.place = "OMARU" /\ n.source # "depOmaru")

(* _capture_original_node_override: an older override stays. *)
OverrideKept(p, manual) ==
  IF p.depNode # Absent THEN p
  ELSE [p EXCEPT !.depNode = [node |-> p.nodes[2].id, manual |-> manual]]

(* _ensure_omaru_after_umk, _insert_omaru_after_umk *)
OmaruSplit(p) == Split(p, 3, p.depNode)
OmaruInserted(p) ==
  Inserted(SetManual(p, p.nodes[2].id, "none"), 3, "OMARU", "depOmaru", "ROUTE_POINT", "CRUISE",
           DepartureAltitude)
OwnOverrideKept(p) == OverrideKept(p, p.nodes[2].manual)
WithOmaru(p) ==
  LET synthetic == GeneratedBy(p, "depOmaru")
      here == p.nodes[2].manual
  IN IF UserOmaru(p) # 0 THEN WithoutOmarus(p)
     ELSE IF synthetic = {3}
     THEN OmaruSplit([OverrideKept(p, IF here = "none" THEN p.nodes[3].manual ELSE here)
                        EXCEPT !.nodes[3].role = "ROUTE_POINT"])
     ELSE OmaruSplit(OmaruInserted(OwnOverrideKept(Without(p, synthetic))))

(* _application_key: everything of the route the plan was made for *)
ApplicationKey(p) == <<p.departure, p.nodes, p.sections>>

\* The sections between the trigger and OMARU, which the departure takes over.
TakenOver(p, trigger) ==
  IF trigger = "UMK" /\ UserOmaru(p) # 0 THEN 1 .. UserOmaru(p) - 1 ELSE {1}
SpanCaptured(p, trigger) ==
  [p EXCEPT !.depSections = Captured(p.sections, TakenOver(p, trigger))]
OmaruOf(p, trigger) ==
  IF trigger # "UMK" THEN 2 ELSE IF UserOmaru(p) # 0 THEN UserOmaru(p) ELSE 3
SpanFlown(p, omaru) ==
  [p EXCEPT !.sections = Controlled(Controlled(@, {1}, "CLIMB", DepartureAltitude),
                                    2 .. omaru - 1, "CRUISE", DepartureAltitude)]
DepartureSealed(p, trigger) ==
  [p EXCEPT !.depPlan = [trigger |-> trigger, key |-> ApplicationKey(p)]]
FlownFrom(p, trigger) == DepartureSealed(SpanFlown(p, OmaruOf(p, trigger)), trigger)
Departure(p) ==
  LET trigger == p.nodes[2].place
  IN IF p.departure # "RJFM" \/ trigger \notin {"UMK", "OMARU"} THEN Deactivated(p)
     ELSE IF trigger = "UMK" THEN FlownFrom(WithOmaru(SpanCaptured(p, trigger)), trigger)
     ELSE FlownFrom(WithoutOmarus(SpanCaptured(p, trigger)), trigger)

ApplyDeparture(p) == Departure(DepartureUmk(SectionsBack(p)))

(* rjfm_plan_matches_project *)
DepartureMatches(p) ==
  /\ p.departure = "RJFM"
  /\ p.nodes[2].place = p.depPlan.trigger
  /\ p.depPlan.key = ApplicationKey(p)

(****************************************************************************)
(* The return: apply_rjfm_inbound_exception.                                *)
(****************************************************************************)
FirstAt(p, place, from) == SelectInSubSeq(p.nodes, from, End(p), LAMBDA n : n.place = place)

(* _final_vrep_index, 0 if there is none *)
FinalVrep(p) ==
  IF p.nodes[End(p)].role = "DESTINATION" /\ p.nodes[End(p) - 1].role = "VREP" THEN End(p) - 1 ELSE 0

(* _remove_synthetic_umks *)
WithoutUmks(p) ==
  [RestoredGeometry(Without(p, GeneratedBy(p, "inUmk")), p.inUmk) EXCEPT !.inUmk = Absent]

(* The point before the destination is the only visual reporting point. *)
OnlyVrep(p) ==
  [p EXCEPT !.nodes = [i \in DOMAIN @ |->
     IF i = End(p) - 1 THEN [@[i] EXCEPT !.role = "VREP"]
     ELSE IF i \in 2 .. End(p) - 2 /\ @[i].role = "VREP" THEN [@[i] EXCEPT !.role = "ROUTE_POINT"]
     ELSE @[i]]]

(* _reconcile_arita, where the generated ARITA leaves the route: the point before
   it gets back what it was given up for, and the arrival plan its VREP. *)
GivenBack(p, i, saved) ==
  IF ~(StillAdjacent(p, saved) /\ p.nodes[i].id = saved.next) THEN p
  ELSE [SetManual(p, saved.node, saved.manual) EXCEPT !.nodes[i - 1].role = saved.role,
                                                      !.sections[i - 1].phase = saved.phase,
                                                      !.sections[i - 1].altitude = saved.altitude]
AritaOut(p, i) == GivenBack([Without(p, {i}) EXCEPT !.inArita = Absent], i, p.inArita)
AritaStays(p, active) ==
  IF active /\ End(p) >= 3 /\ p.nodes[End(p) - 1].place = "ARITA" THEN OnlyVrep(p) ELSE p
ArrivalMoved(p, id) ==
  IF p.arrival = Absent \/ p.arrival.vrep # id THEN p
  ELSE IF FinalVrep(p) = 0 THEN [p EXCEPT !.arrival = Absent]
  ELSE [p EXCEPT !.arrival.vrep = p.nodes[FinalVrep(p)].id]
PlainWithout(p, id, active) == ArrivalMoved(AritaStays(AritaOut(p, IndexOf(p, id)), active), id)
WithoutArita(p, active) ==
  PlainWithout(WithoutUmks(p), p.nodes[Min(GeneratedBy(p, "inArita"))].id, active)

(* _reconcile_arita, where OMARU or UMK comes right before the destination *)
WithArita(p) ==
  LET n == End(p)
      before == p.nodes[n - 1]
      remainder == p.sections[n - 1]
      cleared == [p EXCEPT !.nodes[n - 1].manual = "none",
                           !.nodes[n - 1].role = IF @ = "VREP" THEN "ROUTE_POINT" ELSE @,
                           !.sections[n - 1].phase = "VISUAL",
                           !.sections[n - 1].altitude = 1500]
      q == Inserted(cleared, n, "ARITA", "inArita", "VREP", "DESCENT", remainder.altitude)
  IN [q EXCEPT !.inArita = [node |-> before.id, next |-> p.nodes[n].id, role |-> before.role,
                            manual |-> before.manual, phase |-> remainder.phase,
                            altitude |-> remainder.altitude]]

AritaAfter(p, from) == {i \in from .. End(p) : p.nodes[i].place = "ARITA"}

AritaAsNeeded(p, omaru) ==
  LET last == End(p) - 1
  IN IF AritaAfter(p, omaru + 1) # {}
     THEN IF p.nodes[last].place = "ARITA" THEN OnlyVrep(p) ELSE p
     ELSE IF omaru = last \/ (omaru < last /\ p.nodes[last].place = "UMK") THEN WithArita(p)
     ELSE p
AritaIfReturn(p, active) == IF active THEN AritaAsNeeded(p, FirstAt(p, "OMARU", 1)) ELSE p
AritaFor(p, omaru) ==
  LET active == p.destination = "RJFM" /\ omaru # 0
      generated == GeneratedBy(p, "inArita")
  IN IF active /\ AritaAfter(p, omaru + 1) = {End(p) - 1} /\ generated = {End(p) - 1} THEN p
     ELSE AritaIfReturn(IF generated = {} THEN p ELSE WithoutArita(p, active), active)
Arita(p) == AritaFor(p, FirstAt(p, "OMARU", 1))

(* _reconcile_umk *)
UmkNeeded(p, omaru, vrep) ==
  /\ p.destination = "RJFM" /\ omaru # 0
  /\ \A i \in omaru + 1 .. End(p) :
       p.nodes[i].place = "UMK" => p.nodes[i].source \in {"inUmk", "depUmk"}
  /\ vrep > omaru /\ p.nodes[vrep].source # "inUmk"
UmkAfter(p, omaru) ==
  [Inserted(SetManual(p, p.nodes[omaru].id, "none"), omaru + 1, "UMK", "inUmk", "ROUTE_POINT",
            p.sections[omaru].phase, p.sections[omaru].altitude)
     EXCEPT !.inUmk = SavedGeometry(p, omaru)]
UmkAfterOmaru(p) == UmkAfter(p, FirstAt(p, "OMARU", 1))
UmkFor(p, omaru) ==
  IF ~UmkNeeded(p, omaru, FinalVrep(p)) THEN WithoutUmks(p)
  ELSE IF GeneratedBy(p, "inUmk") = {omaru + 1} THEN p
  ELSE UmkAfterOmaru(WithoutUmks(p))
Umk(p) == UmkFor(p, FirstAt(p, "OMARU", 1))

Flown(p, omaru, umk, vrep, adopted) ==
  IF p.destination = "RJFM" /\ End(p) >= 4 /\ omaru # 0 /\ umk # 0 /\ vrep > umk
  THEN [p EXCEPT !.inSections = Captured(p.sections, omaru .. umk - 1),
                 !.sections = Controlled(@, omaru .. umk - 1, "CRUISE", InboundAltitude),
                 !.inPlan = [omaru |-> p.nodes[omaru].id, umk |-> p.nodes[umk].id,
                             vrep |-> p.nodes[vrep].id, adopted |-> adopted,
                             sections |-> [i \in 1 .. umk - omaru |-> p.sections[omaru + i - 1].id]]]
  ELSE [p EXCEPT !.inPlan = Absent]
FromOmaru(p, omaru, adopted) == Flown(p, omaru, FirstAt(p, "UMK", omaru + 1), FinalVrep(p), adopted)
Inbound(p, adopted) == FromOmaru(p, FirstAt(p, "OMARU", 1), adopted)

ApplyInbound(p, adopted) ==
  Inbound(Umk(Arita([p EXCEPT !.sections = Restored(@, p.inSections), !.inSections = <<>>])), adopted)

(* rjfm_inbound_plan_matches_project *)
InboundMatches(p) ==
  LET omaru == IndexOf(p, p.inPlan.omaru)
      umk == IndexOf(p, p.inPlan.umk)
      vrep == IndexOf(p, p.inPlan.vrep)
  IN /\ p.destination = "RJFM"
     /\ omaru # 0 /\ omaru < umk /\ umk < vrep
     /\ p.nodes[omaru].place = "OMARU" /\ p.nodes[umk].place = "UMK"
     /\ vrep = FinalVrep(p)
     /\ p.inPlan.sections = [i \in 1 .. umk - omaru |-> p.sections[omaru + i - 1].id]
     /\ \A i \in omaru .. umk - 1 :
          p.sections[i].phase = "CRUISE" /\ p.sections[i].altitude = InboundAltitude

(* automatic_vrep_altitude: 1500 ft at ARITA, else by the distance *)
AutomaticVrepAltitude(destination, place) ==
  IF destination = "RJFM" /\ place = "ARITA" THEN 1500 ELSE 2000

(* calculate_arrival_altitude: Absent where the plan and the route disagree *)
ArrivalAltitude(p) ==
  LET n == End(p)
      vrep == p.nodes[n - 1]
  IN IF p.arrival = Absent \/ FinalVrep(p) = 0 THEN Absent
     ELSE IF p.arrival.vrep # vrep.id THEN Absent
     ELSE IF vrep.place = "ARITA" /\ p.inPlan # Absent /\ InboundMatches(p) THEN 1500
     ELSE IF p.arrival.manual # 0 THEN p.arrival.manual
     ELSE AutomaticVrepAltitude(p.destination, vrep.place)

(* The VREP a return ends at is the one of the arrival plan. *)
WithArrival(p) ==
  LET vrep == p.nodes[End(p) - 1].id
  IN IF End(p) < 3 \/ p.inPlan = Absent THEN p
     ELSE IF p.inPlan.vrep # vrep THEN p
     ELSE IF p.arrival = Absent THEN [p EXCEPT !.arrival = [vrep |-> vrep, manual |-> 0]]
     ELSE [p EXCEPT !.arrival.vrep = vrep]

(* _normalize_rjfm_departure: the return may add a UMK and change sections the
   departure is sealed with, so the departure is applied again at the end. *)
Adopted(p) == ApplyInbound(p, ArrivalAltitude(p))
Returned(p) == Adopted(WithArrival(ApplyInbound(ApplyDeparture(p), Absent)))
NormalizedUnsealed(p) == Returned(p)  \* mutant: without the second time
Normalized(p) == ApplyDeparture(Returned(p))

(****************************************************************************)
(* The pilot confirms a route: confirm_route, _confirm_route_edit.          *)
(****************************************************************************)
(* _initial_phases *)
InitialPhases(count) ==
  [i \in 1 .. count |->
     IF i = count THEN "VISUAL"
     ELSE IF i = 1 THEN "CLIMB"
     ELSE IF i = count - 1 THEN "DESCENT" ELSE "CRUISE"]

ArrivalPhases == {"DESCENT", "VISUAL"}

(* A point of the request: an occurrence on the route of p, or a new place. *)
Old(i) == [original |-> i, place |-> "any"]
New(place) == [original |-> 0, place |-> place]

PositionRole(i, n, vrep) ==
  IF i = 1 THEN "AIRPORT" ELSE IF i = n THEN "DESTINATION"
  ELSE IF i = n - 1 /\ vrep THEN "VREP" ELSE "ROUTE_POINT"

(* _install_route, then the nodes and the sections that stay: a node with its
   source, a section between the same two nodes with its values. *)
Confirmed(p, departure, destination, points, vrep) ==
  LET n == Len(points)
      ids == NewIds(p, 2 * n)
      node(i) == IF points[i].original # 0
                 THEN [p.nodes[points[i].original] EXCEPT !.role = PositionRole(i, n, vrep)]
                 ELSE [id |-> ids[i], place |-> points[i].place, source |-> "user",
                       role |-> PositionRole(i, n, vrep), manual |-> "none"]
      nodes == [i \in 1 .. n |-> node(i)]
      hasVrep == vrep /\ n >= 3
      phases == InitialPhases(n - 1)
      visual == IF hasVrep THEN AutomaticVrepAltitude(destination, nodes[n - 1].place) ELSE CruiseAltitude
      same(i) == {k \in DOMAIN p.sections : p.nodes[k].id = nodes[i].id /\ p.nodes[k + 1].id = nodes[i + 1].id}
      nextVrep == IF hasVrep THEN nodes[n - 1].id ELSE 0
      formerVrep == IF p.arrival = Absent THEN 0 ELSE p.arrival.vrep
      relocated == destination # p.destination \/ nextVrep # formerVrep
      phase(i, own) == IF relocated /\ phases[i] \in ArrivalPhases THEN phases[i]
                       ELSE IF relocated /\ own \in ArrivalPhases THEN "CRUISE" ELSE own
      section(i) == IF same(i) # {}
                    THEN LET s == p.sections[Min(same(i))] IN [s EXCEPT !.phase = phase(i, @)]
                    ELSE [id |-> ids[n + i], phase |-> phase(i, phases[i]),
                          altitude |-> IF phases[i] = "VISUAL" THEN visual ELSE CruiseAltitude]
  IN [p EXCEPT !.departure = departure, !.destination = destination,
               !.nodes = nodes, !.sections = [i \in 1 .. n - 1 |-> section(i)],
               !.arrival = IF ~hasVrep THEN Absent
                           ELSE IF relocated THEN [vrep |-> nextVrep, manual |-> 0] ELSE @]

(* A new Project: project_service.create *)
Empty == [departure |-> "", destination |-> "", nodes |-> <<>>, sections |-> <<>>,
          depSections |-> <<>>, depNode |-> Absent, depUmk |-> Absent,
          inSections |-> <<>>, inArita |-> Absent, inUmk |-> Absent,
          depPlan |-> Absent, inPlan |-> Absent, arrival |-> Absent]

(* Routes with at most one point, the manual geometry of a saved Project in one of its nodes. *)
RouteInit ==
  /\ edits = 0
  /\ \E departure, destination \in Airports, points \in {<<>>} \cup {<<x>> : x \in Places},
        vrep \in BOOLEAN, m \in 0 .. 2 :
       LET p == Confirmed(Empty, departure, destination,
                          <<New(departure)>> \o [i \in DOMAIN points |-> New(points[i])]
                             \o <<New(destination)>>, vrep)
       IN /\ m < End(p)
          /\ project = Normalized([p EXCEPT !.nodes = [i \in DOMAIN @ |->
                         IF i = m THEN [@[i] EXCEPT !.manual = "typed"] ELSE @[i]]])

(* The points of the route as they are, with other airports at its ends. *)
Ends(p, departure, destination) ==
  [i \in Nodes(p) |-> IF i = 1 /\ departure # p.departure THEN New(departure)
                      ELSE IF i = End(p) /\ destination # p.destination THEN New(destination)
                      ELSE Old(i)]

Confirm(points, departure, destination, vrep) ==
  /\ edits < MaxEdits
  /\ edits' = edits + 1
  /\ project' = Normalized(Confirmed(project, departure, destination, points, vrep))

ChangeAirports ==
  \E departure, destination \in Airports, vrep \in BOOLEAN :
    /\ <<departure, destination>> # <<project.departure, project.destination>>
    /\ Confirm(Ends(project, departure, destination), departure, destination, vrep)

Kept == [i \in Nodes(project) |-> Old(i)]

AddPoint ==
  \E i \in 2 .. End(project), place \in Places, vrep \in BOOLEAN :
    /\ End(project) < MaxPoints
    /\ Confirm(InsertAt(Kept, i, New(place)), project.departure, project.destination, vrep)

RemovePoint ==
  \E i \in 2 .. End(project) - 1, vrep \in BOOLEAN :
    Confirm(RemoveAt(Kept, i), project.departure, project.destination, vrep)

MovePoint ==
  \E i \in 2 .. End(project) - 1, place \in Places, vrep \in BOOLEAN :
    /\ place # project.nodes[i].place
    /\ Confirm([Kept EXCEPT ![i] = New(place)], project.departure, project.destination, vrep)

(****************************************************************************)
(* The pilot changes inputs: _updated_project with _apply_arrival_plan.     *)
(****************************************************************************)
(* The VREP, and how its altitude is given: by the pattern altitude, by hand,
   or by what the section before the destination says. *)
Arrived(p, vrep, entry) ==
  LET n == End(p)
      roles == [i \in Nodes(p) |->
                  [p.nodes[i] EXCEPT !.role = IF i = n - 1 /\ vrep # 0 THEN "VREP"
                                              ELSE IF @ = "VREP" THEN "ROUTE_POINT" ELSE @]]
      phased == [i \in DOMAIN p.sections |->
                   [p.sections[i] EXCEPT !.phase = IF i = n - 1 THEN "VISUAL"
                                                   ELSE IF i = n - 2 THEN "DESCENT" ELSE @]]
      automatic == AutomaticVrepAltitude(p.destination, p.nodes[n - 1].place)
      planned == p.sections[n - 1].altitude
      manual == CASE entry = "pattern" -> 0
                  [] entry = "manual" -> OtherAltitude
                  [] OTHER -> IF planned = automatic THEN 0 ELSE planned
      visual == CASE entry = "pattern" -> automatic [] entry = "manual" -> OtherAltitude
                  [] OTHER -> planned
  IN IF vrep = 0 THEN [p EXCEPT !.nodes = roles, !.arrival = Absent]
     ELSE [p EXCEPT !.nodes = roles, !.sections = [phased EXCEPT ![n - 1].altitude = visual],
                    !.arrival = [vrep |-> vrep, manual |-> manual]]

UpdateSection ==
  /\ edits < MaxEdits
  /\ edits' = edits + 1
  /\ \E i \in DOMAIN project.sections, chosen \in BOOLEAN, entry \in {"pattern", "manual", "section"} :
       LET p == [project EXCEPT !.sections[i].altitude = OtherAltitude, !.sections[i].phase = "CRUISE"]
           before == p.nodes[End(p) - 1].id
           vrep == IF chosen THEN before ELSE IF p.arrival = Absent THEN 0 ELSE p.arrival.vrep
       IN /\ chosen => End(p) > 2
          /\ vrep \in {0, before}     \* else VISUAL_REPORTING_POINT_ROUTE_INVALID
          /\ project' = Normalized(Arrived(p, vrep, entry))

RouteNext == ChangeAirports \/ AddPoint \/ RemovePoint \/ MovePoint \/ UpdateSection

(* A saved plan still speaks of the route it is saved with. *)
PlansMatch ==
  /\ project.depPlan # Absent => DepartureMatches(project)
  /\ project.inPlan # Absent => /\ InboundMatches(project)
                                /\ project.inPlan.adopted = ArrivalAltitude(project)

(* rjfm_section_input_modes: the sections the departure owns *)
DepartureSpan ==
  IF project.depPlan = Absent THEN {}
  ELSE IF project.depPlan.trigger = "OMARU" THEN {1}
  ELSE 1 .. FirstAt(project, "OMARU", 3) - 1

(* After every change of the pilot the two policies have come to rest: both *)
(* plans match the route they are saved with (a plan that does not is       *)
(* passed over by the calculation and the guidance), normalizing the route  *)
(* again, as opening and calculating a Project do, changes nothing, and no  *)
(* section outside the span of the departure keeps its 5500 ft, whichever   *)
(* points came, went or were generated.                                     *)
RouteIsSettled ==
  project # Absent =>
    /\ PlansMatch
    /\ Normalized(project) = project
    /\ \A i \in DOMAIN project.sections :
         project.sections[i].altitude = DepartureAltitude => i \in DepartureSpan
===============================================================================
