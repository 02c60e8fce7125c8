------------------------------ MODULE KmlRoutes ------------------------------
(* From a KML or KMZ file to the first route of a Project: the choice of a   *)
(* document inside a KMZ, the reading of its Placemarks, the joining of the  *)
(* lines of one Folder, the candidates the pilot is shown, and the route     *)
(* points that the confirmed candidate becomes, with their names.            *)
(*                                                                           *)
(* Coordinates are metres along a track: the code compares them only by      *)
(* equality and by distance.  A name is a string, "" where there is none;    *)
(* generated names ("WP3", "area 01") keep their word and lose the number.   *)
(* Altitudes, the simplified display shapes, inner boundaries and the wording*)
(* of warnings are left out.                                                 *)
EXTENDS Integers, Sequences, FiniteSets, SequencesExt

CONSTANTS
  Uploads,         \* the KMZ archives that may be uploaded, sequences of members
  Geometries,      \* the Placemark geometries a document may hold
  Path,            \* of each container the names of its ancestry
  Outside,         \* the container of a Placemark outside every Folder and Document
  AirportAt,       \* where each airport of the reference data lies
  UmkAt, OmaruAt,  \* where the two RJFM references lie
  MaxFiles, MaxExpanded, MaxCoordinates, MaxSelected, MaxOuter,  \* ImportLimits
  MaxGeometries,   \* bound: geometries in a document
  NoPoint, NoDocument  \* no point, no selection

ASSUME KmlAssumption ==
  /\ {MaxFiles, MaxExpanded, MaxCoordinates, MaxSelected, MaxOuter, MaxGeometries} \subseteq Nat \ {0}
  /\ "RJFM" \in DOMAIN AirportAt

JoinLimit == 37        \* 0.02 NM
SameSpot == 10
NameReach == 92        \* 0.05 NM
ReferenceReach == 1852 \* 1 NM
AirportReach == 9260   \* 5 NM

VARIABLES
  stage,     \* "choose", "ask", "read", "offer", "confirmed" or "refused"
  upload,    \* the archive and the documents the pilot is asked to choose from
  reading,   \* what has been read of the document
  result,    \* the import kept by the session
  route      \* the route points handed to the Project, with what they came from

kmlVars == <<stage, upload, reading, result, route>>

-----------------------------------------------------------------------------
(* The document of an archive. *)

\* Nothing of an archive is used when one member is unacceptable.
Acceptable(members) ==
  LET sizes == [i \in 1 .. Len(members) |-> members[i].size]
  IN /\ Len(members) <= MaxFiles
     /\ \A i, j \in 1 .. Len(members) : i # j => members[i].folded # members[j].folded
     /\ \A i \in 1 .. Len(members) : members[i].kind \in {"kml", "other"}
     /\ FoldSeq(LAMBDA size, sum : size + sum, 0, sizes) <= MaxExpanded

Documents(members) == {members[i] : i \in {j \in 1 .. Len(members) : members[j].kind = "kml"}}

\* doc.kml if there is one, the only document, or the one the pilot selected.
Selectable(members, selected) ==
  LET all == Documents(members)
      main == {d \in all : d.main}
      single == IF main # {} THEN main ELSE all
  IN IF Cardinality(main) > 1 THEN {}
     ELSE IF Cardinality(single) = 1
          THEN {d.name : d \in {d \in single : selected \in {NoDocument, d.name}}}
          ELSE {d.name : d \in {d \in all : d.name = selected}}

MustSelect(members, selected) ==
  /\ selected = NoDocument
  /\ Cardinality(Documents(members)) > 1
  /\ \A d \in Documents(members) : ~d.main

-----------------------------------------------------------------------------
(* Lines, their names, and points beside them. *)

Gap(a, b) == IF a < b THEN b - a ELSE a - b

\* The names of a line's title, one for each coordinate or from the second on.
NameSlots(line) ==
  LET names == Len(line.title)
      coords == Len(line.coords)
      offset == IF names = coords THEN 0 ELSE 1
      usable == /\ names >= 2 /\ line.original = coords
                /\ names = coords \/ names <= coords - 2
  IN [i \in 1 .. coords |->
        IF usable /\ i - offset \in 1 .. names THEN line.title[i - offset] ELSE ""]

Slots(line) ==
  LET names == NameSlots(line)
  IN [i \in 1 .. Len(line.coords) |->
        [at |-> line.coords[i], name |-> names[i], source |-> IF names[i] = "" THEN "" ELSE "title"]]

\* The point nearest to both ends of a join; the earlier in the document on a tie.
MatchingPoint(points, a, b) ==
  LET farther(p) == IF Gap(a, p.at) < Gap(b, p.at) THEN Gap(b, p.at) ELSE Gap(a, p.at)
      total(p) == Gap(a, p.at) + Gap(b, p.at)
      near == {p \in points : farther(p) <= JoinLimit}
      before(p, q) == \/ farther(p) < farther(q)
                      \/ farther(p) = farther(q) /\ total(p) < total(q)
                      \/ farther(p) = farther(q) /\ total(p) = total(q) /\ p.order < q.order
  IN IF near = {} THEN NoPoint
     ELSE CHOOSE p \in near : \A q \in near \ {p} : before(p, q)

EndpointPoint(points, a) == MatchingPoint(points, a, a)

\* A slot that takes the name of a point, where the point has one.
NamedBy(slot, point) ==
  IF point = NoPoint \/ point.name = "" THEN slot
  ELSE [slot EXCEPT !.name = point.name, !.source = "point"]

\* The lines of one container put end to end: a point at a join gives it place and name.
Joined(lines, points) ==
  LET join(slots, k) ==
        LET point == MatchingPoint(points, lines[k - 1].coords[Len(lines[k - 1].coords)], lines[k].coords[1])
            end == slots[Len(slots)]
            junction == IF point = NoPoint THEN end
                        ELSE NamedBy([end EXCEPT !.at = point.at], point)
        IN Front(slots) \o <<junction>> \o Tail(Slots(lines[k]))
      slots == FoldLeft(join, Slots(lines[1]), [k \in 1 .. Len(lines) - 1 |-> k + 1])
      ended(i) == IF i \in {1, Len(slots)} /\ slots[i].name = ""
                  THEN NamedBy(slots[i], EndpointPoint(points, slots[i].at))
                  ELSE slots[i]
  IN [i \in 1 .. Len(slots) |-> ended(i)]

\* Slots 10 m or closer to the last one kept fall away and leave it their name;
\* the end of a loop stays.
Deduplicated(slots) ==
  LET closes(kept, i) == i = Len(slots) /\ slots[i].at = slots[1].at /\ Len(kept) > 1
      keep(kept, i) ==
        LET top == kept[Len(kept)]
        IN IF closes(kept, i) \/ Gap(top.at, slots[i].at) > SameSpot THEN Append(kept, slots[i])
           ELSE IF top.name = "" /\ slots[i].name # ""
                THEN Append(Front(kept), [slots[i] EXCEPT !.at = top.at])
                ELSE kept
  IN FoldLeft(keep, <<slots[1]>>, [i \in 1 .. Len(slots) - 1 |-> i + 1])

\* A single line keeps its coordinates only: its names come from its title afterwards.
DeduplicatedLine(line) ==
  LET plain == [i \in 1 .. Len(line.coords) |-> [at |-> line.coords[i], name |-> "", source |-> ""]]
      kept == Deduplicated(plain)
  IN [line EXCEPT !.coords = [i \in 1 .. Len(kept) |-> kept[i].at]]

\* Two places at least.
IsRoute(coords) == Cardinality({coords[i] : i \in 1 .. Len(coords)}) >= 2

SlotPlaces(slots) == [i \in 1 .. Len(slots) |-> slots[i].at]

\* The candidate that the lines of a container make together, if they do.
Candidate(lines, points, container) ==
  LET mine(line) == line.container = container
      segments == SelectSeq(lines, mine)
      beside == {points[i] : i \in {j \in 1 .. Len(points) : points[j].container = container}}
  IN [container |-> container,
      lines |-> {i \in 1 .. Len(lines) : mine(lines[i])},
      order |-> segments[1].order,
      slots |-> Joined(segments, beside)]

Joinable(lines, container) ==
  LET segments == SelectSeq(lines, LAMBDA line : line.container = container)
  IN /\ Len(segments) >= 2
     /\ \A k \in 2 .. Len(segments) :
          Gap(segments[k - 1].coords[Len(segments[k - 1].coords)], segments[k].coords[1]) <= JoinLimit

ConnectedLines(lines, points) ==
  LET containers == {lines[i].container : i \in 1 .. Len(lines)} \ {Outside}
      candidates == {Candidate(lines, points, c) : c \in {d \in containers : Joinable(lines, d)}}
  IN {c \in candidates : IsRoute(SlotPlaces(Deduplicated(c.slots)))}

\* The outline of a polygon without repetitions, closed; nothing if it has no surface.
Ring(coords) ==
  LET distinct == FoldLeft(LAMBDA kept, at : IF kept[Len(kept)] = at THEN kept ELSE Append(kept, at),
                           <<coords[1]>>, coords)
      ring == IF Len(distinct) > 1 /\ distinct[1] = distinct[Len(distinct)]
              THEN Front(distinct) ELSE distinct
  IN IF Cardinality({ring[i] : i \in 1 .. Len(ring)}) < 3 THEN <<>> ELSE Append(ring, ring[1])

-----------------------------------------------------------------------------
(* The route points of a confirmed candidate. *)

NearestAirport(at) ==
  LET all == DOMAIN AirportAt
      closest == {a \in all : \A b \in all : Gap(at, AirportAt[a]) <= Gap(at, AirportAt[b])}
      near == {a \in closest : Gap(at, AirportAt[a]) <= AirportReach}
  IN IF near = {} THEN NoPoint ELSE CHOOSE a \in near : TRUE

\* The name of the point nearest to a place, of one path or of any.
NearestPointName(points, at, paths) ==
  LET mine == {i \in 1 .. Len(points) : Path[points[i].container] \in paths}
      nearest == {i \in mine : \A j \in mine : \/ Gap(at, points[i].at) < Gap(at, points[j].at)
                                               \/ (Gap(at, points[i].at) = Gap(at, points[j].at) /\ i <= j)}
      near == {i \in nearest : Gap(at, points[i].at) <= NameReach}
  IN IF near = {} THEN "" ELSE points[CHOOSE i \in near : TRUE].name

AllPaths == {Path[c] : c \in DOMAIN Path}

Entry(name, at, source) ==
  [name |-> IF name = "" /\ source # "point" THEN "WP" ELSE name, at |-> at, source |-> source,
   imported |-> source \in {"point", "title"} \/ (source = "line" /\ name # "")]

ConnectedEntries(candidate) ==
  LET slots == Deduplicated(candidate.slots)
  IN [i \in 1 .. Len(slots) |->
        Entry(slots[i].name, slots[i].at, IF slots[i].source = "" THEN "line" ELSE slots[i].source)]

LineEntries(line, points) ==
  LET shape == DeduplicatedLine(line)
      title == NameSlots(shape)
      entry(i) == IF title[i] # "" THEN Entry(title[i], shape.coords[i], "title")
                  ELSE Entry(NearestPointName(points, shape.coords[i], AllPaths), shape.coords[i], "line")
  IN [i \in 1 .. Len(shape.coords) |-> entry(i)]

PolygonEntries(ring) ==
  [i \in 1 .. Len(ring) |-> [name |-> "area", at |-> ring[i], source |-> "polygon", imported |-> FALSE]]

PointEntries(points) ==
  [i \in 1 .. Len(points) |-> Entry(points[i].name, points[i].at, "point")]

AirportEntry(airport) ==
  [name |-> airport, at |-> AirportAt[airport], source |-> "reference", imported |-> FALSE]

\* A route starts and ends at its airports and never repeats a coordinate at once.
Aligned(entries, departure, destination) ==
  LET step(kept, entry) == IF kept[Len(kept)].at = entry.at THEN kept ELSE Append(kept, entry)
      distinct == FoldLeft(step, <<entries[1]>>, Tail(entries))
      last == Len(distinct)
  IN [i \in 1 .. last |->
        IF i = last THEN AirportEntry(destination)
        ELSE IF i = 1 THEN AirportEntry(departure) ELSE distinct[i]]

\* The name of the Point Placemark at a route point, if one is there.
ExplicitNames(kind, entries, line, points) ==
  LET nearest(i) == NearestPointName(points, entries[i].at, {Path[line.container]})
  IN IF kind = "line"
     THEN [i \in 1 .. Len(entries) |-> IF nearest(i) = "" THEN NoPoint ELSE nearest(i)]
     ELSE [i \in 1 .. Len(entries) |-> IF entries[i].source = "point" THEN entries[i].name ELSE NoPoint]

AtReference(at, reference) == Gap(at, reference) <= ReferenceReach

\* Where the names of a title may go on: not at a reserved point nor at a Point's own.
AllTargets(entries, reserved) == (2 .. Len(entries) - 1) \ reserved  \* mutant: also over Points
OrdinaryTargets(entries, reserved) ==
  {i \in 2 .. Len(entries) - 1 : i \notin reserved /\ entries[i].source # "point"}

\* Removes from labels, in order, those a reserved point has used up (one for each use).
Unused(labels, used) ==
  LET step(acc, label) ==
        IF \E i \in 1 .. Len(acc.used) : acc.used[i] = label.name
        THEN [acc EXCEPT !.used = RemoveFirst(acc.used, label.name)]
        ELSE [acc EXCEPT !.kept = Append(acc.kept, label)]
  IN FoldLeft(step, [used |-> used, kept |-> <<>>], labels).kept

\* From RJFM the second point belongs to UMK or OMARU, and OMARU follows UMK: these
\* points get their names, and the names of the title go on over the other points.
NorthboundSlots(entries, departure, explicit) ==
  LET last == Len(entries)
      umkFirst == Gap(entries[2].at, UmkAt) <= Gap(entries[2].at, OmaruAt)
      omarus == IF umkFirst THEN {i \in 3 .. last : AtReference(entries[i].at, OmaruAt)} ELSE {2}
      omaru == {i \in omarus : \A j \in omarus : i <= j}
      reserved == omaru \cup {2}
      word(i) == IF i \in omaru THEN "OMARU" ELSE "UMK"
      named(i) == IF explicit[i] # NoPoint THEN Entry(explicit[i], entries[i].at, "point")
                  ELSE IF entries[i].name = word(i) THEN entries[i]
                  ELSE [entries[i] EXCEPT !.name = word(i), !.imported = FALSE]
      exact(e) == \/ e.name = "UMK" /\ AtReference(e.at, UmkAt)
                  \/ e.name = "OMARU" /\ AtReference(e.at, OmaruAt)
      titled == SelectSeq(SubSeq(entries, 2, last - 1), LAMBDA e : e.source = "title")
      used == SelectSeq([i \in 1 .. last |-> IF i \in reserved THEN explicit[i] ELSE NoPoint],
                        LAMBDA name : name # NoPoint)
      labels == SelectSeq(Unused(titled, used), LAMBDA e : ~exact(e))
      targets == OrdinaryTargets(entries, reserved)
      rank(i) == Cardinality({j \in targets : j <= i})
      relabelled(i) == [labels[rank(i)] EXCEPT !.at = entries[i].at]
  IN IF /\ departure = "RJFM" /\ last >= 2
        /\ \/ AtReference(entries[2].at, UmkAt)
           \/ AtReference(entries[2].at, OmaruAt)
     THEN [i \in 1 .. last |-> IF i \in reserved THEN named(i)
                               ELSE IF i \in targets /\ rank(i) <= Len(labels) THEN relabelled(i)
                               ELSE entries[i]]
     ELSE entries

\* Towards RJFM a Point Placemark at UMK or OMARU names the route point there.
InboundSlots(entries, destination, explicit) ==
  LET taken(i) == /\ destination = "RJFM" /\ i \in 2 .. Len(entries) - 1 /\ explicit[i] # NoPoint
                  /\ \/ AtReference(entries[i].at, UmkAt)
                     \/ AtReference(entries[i].at, OmaruAt)
  IN [i \in 1 .. Len(entries) |->
        IF taken(i) THEN Entry(explicit[i], entries[i].at, "point") ELSE entries[i]]

-----------------------------------------------------------------------------
NothingRead == [points |-> <<>>, lines |-> <<>>, polygons |-> <<>>, order |-> 0, count |-> 0]
NoImport == [points |-> <<>>, lines |-> <<>>, polygons |-> <<>>, connected |-> {}]
NoUpload == [members |-> <<>>, candidates |-> {}]
NoRoute == [entries |-> <<>>, kind |-> "", shape |-> <<>>, explicit |-> <<>>]

KmlInit == /\ stage = "choose" /\ upload = NoUpload /\ reading = NothingRead
           /\ result = NoImport /\ route = NoRoute

\* A plain KML file is its own document.
OpenKml == /\ stage = "choose"
           /\ stage' = "read"
           /\ UNCHANGED <<upload, reading, result, route>>

\* A KMZ: its document is read, or the pilot is asked for it, or the file is refused.
OpenKmz(members, selected) ==
  /\ \/ stage = "choose"
     \/ stage = "ask" /\ members = upload.members
  /\ \/ /\ Acceptable(members) /\ Selectable(members, selected) # {}
        /\ stage' = "read" /\ upload' = NoUpload
     \/ /\ Acceptable(members) /\ MustSelect(members, selected)
        /\ stage' = "ask"
        /\ upload' = [members |-> members, candidates |-> {d.name : d \in Documents(members)}]
     \/ /\ ~Acceptable(members) \/ (Selectable(members, selected) = {} /\ ~MustSelect(members, selected))
        /\ stage' = "refused" /\ upload' = NoUpload
  /\ UNCHANGED <<reading, result, route>>

\* One geometry of the document, in its order; too many coordinates end the import.
ReadGeometry(g) ==
  LET ring == Ring(g.coords)
      count == reading.count + Len(g.coords)
      line == [title |-> g.title, coords |-> g.coords, original |-> Len(g.coords),
               container |-> g.container, order |-> reading.order]
      point == [name |-> g.name, at |-> g.coords[1], container |-> g.container, order |-> reading.order]
      read == [reading EXCEPT !.order = @ + 1, !.count = count]
  IN /\ stage = "read" /\ reading.order < MaxGeometries
     /\ \/ /\ count > MaxCoordinates
           /\ stage' = "refused" /\ reading' = NothingRead
        \/ /\ count <= MaxCoordinates
           /\ stage' = stage
           /\ \/ /\ g.kind = "Point"
                 /\ reading' = [read EXCEPT !.points = Append(@, point)]
              \/ /\ g.kind = "LineString"
                 /\ reading' = IF Len(g.coords) < 2 THEN read ELSE [read EXCEPT !.lines = Append(@, line)]
              \/ /\ g.kind = "Polygon"
                 /\ reading' = IF ring = <<>> THEN read ELSE [read EXCEPT !.polygons = Append(@, ring)]
     /\ UNCHANGED <<upload, result, route>>

\* The end of the document: the lines of each container are joined where they meet.
FinishImport ==
  /\ stage = "read"
  /\ stage' = "offer"
  /\ result' = [points |-> reading.points, lines |-> reading.lines, polygons |-> reading.polygons,
                connected |-> ConnectedLines(reading.lines, reading.points)]
  /\ reading' = NothingRead
  /\ UNCHANGED <<upload, route>>

\* Beside the joins and the polygons the pilot is offered the lines of no join, and the
\* Points where there is no line.
OfferedLines == DOMAIN result.lines \ UNION {c.lines : c \in result.connected}
OffersPoints == Len(result.points) >= 2 /\ result.lines = <<>>

\* The route points of a candidate, between the airports nearest to its ends.
Install(kind, shape, line) ==
  LET departure == NearestAirport(shape[1].at)
      destination == NearestAirport(shape[Len(shape)].at)
      entries == Aligned(shape, departure, destination)
      explicit == ExplicitNames(kind, entries, line, result.points)
      northbound == NorthboundSlots(entries, departure, explicit)
  IN /\ departure # NoPoint /\ destination # NoPoint
     /\ route' = [entries |-> InboundSlots(northbound, destination, explicit),
                  kind |-> kind, shape |-> shape, explicit |-> explicit]
     /\ stage' = "confirmed" /\ result' = NoImport
     /\ UNCHANGED <<upload, reading>>

ConfirmConnected(c) ==
  /\ stage = "offer" /\ Len(c.slots) <= MaxSelected
  /\ Install("connected", ConnectedEntries(c), NoPoint)

ConfirmLine(i) ==
  /\ stage = "offer"
  /\ Len(result.lines[i].coords) <= MaxSelected
  /\ IsRoute(DeduplicatedLine(result.lines[i]).coords)
  /\ Install("line", LineEntries(result.lines[i], result.points), result.lines[i])

ConfirmPolygon(i) ==
  /\ stage = "offer" /\ Len(result.polygons[i]) <= MaxOuter
  /\ Install("polygon", PolygonEntries(result.polygons[i]), NoPoint)

\* The pilot's page sends no choice of Points: all of them.
ConfirmPoints ==
  /\ stage = "offer" /\ OffersPoints
  /\ Install("points", PointEntries(result.points), NoPoint)

KmlNext ==
  \/ OpenKml
  \/ \E members \in Uploads : \E selected \in {d.name : d \in Documents(members)} \cup {NoDocument} :
        OpenKmz(members, selected)
  \/ \E g \in Geometries : ReadGeometry(g)
  \/ FinishImport
  \/ \E c \in result.connected : ConfirmConnected(c)
  \/ \E i \in OfferedLines : ConfirmLine(i)
  \/ \E i \in DOMAIN result.polygons : ConfirmPolygon(i)
  \/ ConfirmPoints

KmlSpec == KmlInit /\ [][KmlNext]_kmlVars

-----------------------------------------------------------------------------
(* What must hold. *)

\* A named slot of a candidate has its name from a title of one of its lines, or from
\* a Point of its container, close to where the slot lies.
NameIsLocal(c, slot) ==
  \/ slot.name = ""
  \/ /\ slot.source = "point"
     /\ \E i \in DOMAIN result.points :
          /\ result.points[i].container = c.container /\ result.points[i].name = slot.name
          /\ Gap(result.points[i].at, slot.at) <= JoinLimit + SameSpot
  \/ /\ slot.source = "title"
     /\ \E i \in c.lines : \E k \in DOMAIN result.lines[i].coords :
          /\ NameSlots(result.lines[i])[k] = slot.name
          /\ Gap(result.lines[i].coords[k], slot.at) <= JoinLimit + SameSpot

\* The joined lines of a container read along all of its lines in their order, each in
\* its own direction: of every line all inner coordinates, of every join one place.
ReadsAlong(c) ==
  LET order == SetToSortSeq(c.lines, <)
      first(k) == 1 + FoldSeq(LAMBDA l, sum : sum + Len(result.lines[l].coords) - 1, 0, SubSeq(order, 1, k - 1))
  IN /\ c.lines = {i \in DOMAIN result.lines : result.lines[i].container = c.container}
     /\ Len(c.slots) = first(Len(order) + 1)
     /\ \A k \in DOMAIN order : \A i \in DOMAIN result.lines[order[k]].coords :
          LET at == c.slots[first(k) + i - 1].at
              drawn == result.lines[order[k]].coords[i]
          IN IF first(k) + i - 1 \in {first(j) : j \in 2 .. Len(order)}
             THEN Gap(at, drawn) <= JoinLimit ELSE at = drawn

\* What the pilot is offered is what was drawn.  Lines are joined only as a whole
\* container, in the order of the document and never across a gap of more than
\* 0.02 NM; each line is offered once, alone or inside one join.  A join can be
\* confirmed, and after the removal of coordinates within 10 m every name is still
\* near the place it was given for, and no name is lost but to another one there
\* (importers/kml.py, _connected_lines and _deduplicate_connected_line; the
\* candidates in web/facade.py, _candidate_payload).
OffersWhatIsDrawn ==
  /\ \A c, d \in result.connected : c # d => c.lines \cap d.lines = {}
  /\ \A c \in result.connected :
       LET kept == Deduplicated(c.slots)
       IN /\ ReadsAlong(c)
          /\ IsRoute(SlotPlaces(kept))
          /\ \A i \in DOMAIN kept : NameIsLocal(c, kept[i])
          /\ \A i \in DOMAIN c.slots : c.slots[i].name # "" =>
               \E k \in DOMAIN kept : kept[k].name # "" /\ Gap(kept[k].at, c.slots[i].at) <= SameSpot
          /\ \A i \in 2 .. Len(kept) : \/ Gap(kept[i - 1].at, kept[i].at) > SameSpot
                                      \/ (i = Len(kept) /\ kept[i].at = kept[1].at)
  /\ stage = "ask" => \A name \in upload.candidates : Selectable(upload.members, name) = {name}

\* A confirmed route lies where the candidate lay, but for its airports, and a Point
\* Placemark's label stays at the coordinate of the Point: the names reserved for UMK
\* and OMARU and the names that move on along a title neither move it nor take its
\* place, and at UMK and OMARU the label of a Point there wins (web/facade.py,
\* _align_route_endpoints, _reserve_rjfm_northbound_name_slots and
\* _preserve_rjfm_inbound_point_slots).
LabelsStayPut ==
  LET shape == route.shape
      entries == route.entries
      inner == 2 .. Len(entries) - 1
      firstOf(i) == i = 1 \/ shape[i - 1].at # shape[i].at
  IN stage = "confirmed" =>
       /\ [i \in 1 .. Len(entries) |-> IF i \in inner THEN entries[i].at ELSE 0]
            = LET places == SelectSeq([i \in DOMAIN shape |-> IF firstOf(i) THEN shape[i].at ELSE -1],
                                      LAMBDA at : at # -1)
              IN [i \in 1 .. Len(places) |-> IF i \in 2 .. Len(places) - 1 THEN places[i] ELSE 0]
       /\ \A i \in inner, k \in DOMAIN shape :
            /\ route.kind \in {"connected", "points"}
            /\ firstOf(k) /\ i = Cardinality({j \in 1 .. k : firstOf(j)})
            => (shape[k].source = "point" => entries[i].source = "point" /\ entries[i].name = shape[k].name)
       /\ \A i \in inner :
            entries[1].name = "RJFM" /\ i = 2 /\ AtReference(entries[i].at, UmkAt) =>
            IF route.explicit[i] # NoPoint THEN entries[i].name = route.explicit[i]
               ELSE entries[i].name = "UMK" \/ entries[i].source = "point"
       /\ \A i \in inner :
            /\ entries[Len(entries)].name = "RJFM"
            /\ route.explicit[i] # NoPoint
            /\ \/ AtReference(entries[i].at, UmkAt)
               \/ AtReference(entries[i].at, OmaruAt)
            => entries[i].name = route.explicit[i] /\ entries[i].imported

\* An import can be trusted: both of the above.
ImportIsFaithful == OffersWhatIsDrawn /\ LabelsStayPut
==============================================================================
