--------------------------------- MODULE Scene ---------------------------------
(***************************************************************************)
(* From detections to events: the centroid tracker (inference/tracker.py)   *)
(* and the event engine with its five detectors (inference/events), for one  *)
(* stream.  Detections are points of a small integer grid, time is counted   *)
(* in frames, distances are compared by their squares.  A request may swap   *)
(* the zones and lines between two frames; the engine's lock excludes it     *)
(* from a frame.                                                            *)
(***************************************************************************)
EXTENDS Integers, Sequences, FiniteSets, SequencesExt, FiniteSetsExt

CONSTANTS
  Points,     (* where a detection's centre may be: <<x, y>>                 *)
  MaxObjects, (* bound: detections in a frame                                *)
  MaxFrames,  (* bound: frames                                               *)
  MaxSwaps,   (* bound: changes of the geometry                              *)
  MaxAge,     (* frames after which a lost track is deleted                  *)
  Reach,      (* centroid_distance_threshold, squared                        *)
  Window,     (* stationary_min_frames                                       *)
  Still,      (* stationary_max_spread_px, squared                           *)
  Moved,      (* stationary_clear_spread_px, squared                         *)
  Near,       (* near_collision_distance_px, squared                         *)
  Apart,      (* near_collision_clear_distance_px, squared                   *)
  Dwell,      (* dwell_seconds, in frames                                    *)
  Scenes      (* geometries that are asked for: [zones |-> name to polygon,  *)
              (* lines |-> name to <<start, end>>]                           *)

ASSUME SceneAssumption ==
  /\ Points \subseteq Int \X Int /\ IsFiniteSet(Points)
  /\ MaxObjects \in Nat /\ MaxFrames \in Nat /\ MaxSwaps \in Nat
  /\ MaxAge \in Nat /\ Window \in Nat \ {0, 1} /\ Dwell \in Nat \ {0}
  /\ Still <= Moved /\ Near <= Apart
  /\ \A s \in Scenes : \A l \in DOMAIN s.lines : s.lines[l] \in (Int \X Int) \X (Int \X Int)

VARIABLES
  frame,   \* frames processed
  tracks,  \* by id: position, frames it is lost, frame last seen, trajectory
  nextId,
  scene,   \* the engine's geometry
  known,   \* tracks of the previous frame
  still,   \* tracks latched as stationary
  near,    \* pairs latched as near collisions
  stay,    \* by track and zone it is inside: since when, and dwell reported
  prev,    \* by track: the last centroid the line detector saw
  swaps,   \* bounded: times the geometry was replaced
  books,   \* history, by zone: entries, exits, and stays dropped with neither
  path     \* history, by track and line: first side, signs of the crossings,
           \* and whether a centroid was on the line

trackerVars == <<tracks, nextId>>
engineVars == <<scene, known, still, near, stay, prev>>
vars == <<frame, swaps, trackerVars, engineVars, books, path>>

Empty == [x \in {} |-> 0]
ZoneNames == UNION {DOMAIN s.zones : s \in Scenes}

\* _build_geometry(), which refuses what is no polygon and no line.
ValidZone(polygon) == Len(polygon) >= 3
ValidLine(line) == line[1] # line[2]
BuildsGeometry(s) ==
  /\ \A z \in DOMAIN s.zones : ValidZone(s.zones[z])
  /\ \A l \in DOMAIN s.lines : ValidLine(s.lines[l])

Init ==
  /\ frame = 0 /\ tracks = Empty /\ nextId = 0
  /\ scene \in Scenes /\ BuildsGeometry(scene)
  /\ known = {} /\ still = {} /\ near = {} /\ stay = Empty /\ prev = Empty
  /\ swaps = 0
  /\ books = [z \in ZoneNames |-> [entered |-> 0, exited |-> 0, dropped |-> 0]]
  /\ path = Empty

------------------------------------------------------------------------------
(* Geometry.                                                               *)

Square(x) == x * x
Distance(p, q) == Square(p[1] - q[1]) + Square(p[2] - q[2])

\* side(): twice the signed area of the triangle a, b, p.
Side(a, b, p) == (b[1] - a[1]) * (p[2] - a[2]) - (b[2] - a[2]) * (p[1] - a[1])
Sign(x) == IF x > 0 THEN 1 ELSE IF x < 0 THEN -1 ELSE 0

\* Mutant of Passes: an edge counts at both of its ends.
Passes_Ends(p, a, b) ==
  /\ (a[2] >= p[2]) # (b[2] > p[2])
  /\ Sign(b[2] - a[2]) * Side(a, b, p) > 0

\* The ray to the right of p passes the edge a-b.
Passes(p, a, b) ==
  /\ (a[2] > p[2]) # (b[2] > p[2])
  /\ Sign(b[2] - a[2]) * Side(a, b, p) > 0

\* point_in_polygon(): the ray passes an odd number of edges.
Inside(p, polygon) ==
  LET n == Len(polygon)
  IN Cardinality({i \in 1..n :
       Passes(p, polygon[i], polygon[IF i = 1 THEN n ELSE i - 1])}) % 2 = 1

\* _on_segment(): a collinear point lies in the box of the segment.
OnSegment(a, b, p) ==
  \A k \in 1..2 : Min({a[k], b[k]}) <= p[k] /\ p[k] <= Max({a[k], b[k]})

Intersect(p1, p2, p3, p4) ==
  LET o1 == Sign(Side(p1, p2, p3))
      o2 == Sign(Side(p1, p2, p4))
      o3 == Sign(Side(p3, p4, p1))
      o4 == Sign(Side(p3, p4, p2))
  IN \/ o1 # o2 /\ o3 # o4
     \/ o1 = 0 /\ OnSegment(p1, p2, p3)
     \/ o2 = 0 /\ OnSegment(p1, p2, p4)
     \/ o3 = 0 /\ OnSegment(p3, p4, p1)
     \/ o4 = 0 /\ OnSegment(p3, p4, p2)

\* crossing_sign(): 0 stands for None.
CrossingSign(p, q, line) ==
  IF Side(line[1], line[2], p) * Side(line[1], line[2], q) >= 0
     \/ ~Intersect(p, q, line[1], line[2])
  THEN 0 ELSE IF Side(line[1], line[2], q) > 0 THEN 1 ELSE -1

------------------------------------------------------------------------------
(* The tracker.                                                            *)

\* The detector's order of the detections of a frame.
Earlier(p, q) == p[1] < q[1] \/ (p[1] = q[1] /\ p[2] < q[2])

\* Pairs of a track and a detection in ascending order of their distance.
Before(x, y) ==
  LET dx == Distance(tracks[x[1]].at, x[2])
      dy == Distance(tracks[y[1]].at, y[2])
  IN \/ dx < dy
     \/ dx = dy /\ x[1] < y[1]
     \/ dx = dy /\ x[1] = y[1] /\ Earlier(x[2], y[2])

\* Mutant of Closest: tracks choose in the order of their ids.
Closest_First(open) == CHOOSE x \in open : \A y \in open : x[1] <= y[1]

Closest(open) == CHOOSE x \in open : \A y \in open \ {x} : Before(x, y)

\* The pairs within the threshold whose track and detection are both free.
OpenPairs(dets, taken) ==
  {x \in (DOMAIN tracks) \X dets :
     /\ Distance(tracks[x[1]].at, x[2]) <= Reach
     /\ \A y \in taken : x[1] # y[1] /\ x[2] # y[2]}
OneMore(dets, taken) ==
  LET open == OpenPairs(dets, taken)
  IN IF open = {} THEN taken ELSE taken \cup {Closest(open)}

\* _match_detections_to_tracks(): the closest pair whose track and detection
\* are both free is taken, again and again.
Matching(dets) ==
  LET m[k \in 0..MaxObjects] == IF k = 0 THEN {} ELSE OneMore(dets, m[k - 1])
  IN m[MaxObjects]

\* The last Window points of the trajectory.
Recent(s) == IF Len(s) > Window THEN Tail(s) ELSE s

Seen(t, p) ==
  [at |-> p, lost |-> 0, seen |-> frame + 1, points |-> Recent(Append(tracks[t].points, p))]
Born(p) == [at |-> p, lost |-> 0, seen |-> frame + 1, points |-> <<p>>]

\* New ids in the order of the detections.
NewId(dets, p) ==
  nextId + Cardinality({q \in dets : Earlier(q, p)})

\* update(): tracks that were matched, tracks that are lost but not yet too
\* old, and a new track for every other detection.
Update(dets) ==
  LET pairs == Matching(dets)
      matched == {t \in DOMAIN tracks : \E p \in dets : <<t, p>> \in pairs}
      others == {p \in dets : \A t \in DOMAIN tracks : <<t, p>> \notin pairs}
      kept == {t \in (DOMAIN tracks) \ matched : tracks[t].lost < MaxAge}
      born == {NewId(others, p) : p \in others}
  IN /\ tracks' = [t \in matched \cup kept \cup born |->
                    IF t \in matched THEN Seen(t, CHOOSE p \in dets : <<t, p>> \in pairs)
                    ELSE IF t \in kept THEN [tracks[t] EXCEPT !.lost = @ + 1]
                    ELSE Born(CHOOSE p \in others : NewId(others, p) = t)]
     /\ nextId' = nextId + Cardinality(others)

------------------------------------------------------------------------------
(* The engine, over the tracker's new result.                              *)

Active == {t \in DOMAIN tracks' : tracks'[t].lost = 0}
At(t) == tracks'[t].at

Event(type, t, of) == [type |-> type, track |-> t, of |-> of]

\* _frame_timestamp(): that of the freshest track, 0 without tracks.
FrameTime ==
  IF DOMAIN tracks' = {} THEN 0 ELSE Max({tracks'[t].seen : t \in DOMAIN tracks'})

Appearances ==
  {Event("object_appeared", t, "") : t \in (DOMAIN tracks') \ known}
  \cup {Event("object_disappeared", t, "") : t \in known \ DOMAIN tracks'}

\* _trajectory_spread(): the largest distance from the mean of the points,
\* squared and multiplied by Window squared.
Spread(t) ==
  LET s == tracks'[t].points
      sum(k) == FoldSeq(LAMBDA p, n : p[k] + n, 0, s)
  IN Max({Square(Window * p[1] - sum(1)) + Square(Window * p[2] - sum(2)) : p \in ToSet(s)})

Watched == {t \in Active : Len(tracks'[t].points) = Window}
Halted == {t \in Watched \ still : Spread(t) <= Still * Square(Window)}
Moving == {t \in Watched \cap still : Spread(t) > Moved * Square(Window)}

Pairs == {p \in SUBSET Active : Cardinality(p) = 2}
Gap(p) == LET t == Min(p) IN Distance(At(t), At(Max(p)))
Close == {p \in Pairs \ near : Gap(p) <= Near}
Parted == {p \in Pairs \cap near : Gap(p) > Apart}

\* The zones around a track's centre, and the ones it was in.
ZonesAt(t) == {z \in DOMAIN scene.zones : Inside(At(t), scene.zones[z])}
WasIn(t) == {x[2] : x \in {y \in DOMAIN stay : y[1] = t}}

Entered == UNION {{<<t, z>> : z \in ZonesAt(t) \ WasIn(t)} : t \in Active}

Exited == UNION {{<<t, z>> : z \in WasIn(t) \ ZonesAt(t)} : t \in Active}
Dwelt ==
  {x \in DOMAIN stay \ Exited :
     x[1] \in Active /\ ~stay[x].told /\ FrameTime - stay[x].since >= Dwell}

Crossed ==
  {x \in (Active \cap DOMAIN prev) \X (DOMAIN scene.lines) :
     CrossingSign(prev[x[1]], At(x[1]), scene.lines[x[2]]) # 0}

\* Mutant of Live: state of tracks that are lost is dropped.
Live_Active == Active

\* cleanup(): the tracks whose state is kept.
Live == DOMAIN tracks'

\* The events of the frame, from the detectors in turn.
Events ==
  Appearances
  \cup {Event("stationary_object", t, "") : t \in Halted}
  \cup {Event("near_collision", Min(p), Max(p)) : p \in Close}
  \cup {Event("object_entered", x[1], x[2]) : x \in Entered}
  \cup {Event("object_exited", x[1], x[2]) : x \in Exited}
  \cup {Event("dwell_time", x[1], x[2]) : x \in Dwelt}
  \cup {Event("crossing_direction", x[1], x[2]) : x \in Crossed}

\* process(): the detectors' state after the frame and their cleanup.
Process ==
  /\ still' = ((still \cup Halted) \ Moving) \cap Live
  /\ near' = {p \in (near \cup Close) \ Parted : p \subseteq Live}
  /\ stay' = [x \in {y \in (DOMAIN stay \cup Entered) \ Exited : y[1] \in Live} |->
               IF x \in Entered THEN [since |-> FrameTime, told |-> FALSE]
               ELSE [stay[x] EXCEPT !.told = @ \/ x \in Dwelt]]
  /\ prev' = IF DOMAIN scene.lines = {} THEN Empty
             ELSE [t \in Live \cap (Active \cup DOMAIN prev) |->
                    IF t \in Active THEN At(t) ELSE prev[t]]
  /\ known' = DOMAIN tracks'
  /\ UNCHANGED <<scene, swaps>>

------------------------------------------------------------------------------
(* History.                                                                *)

Book ==
  LET Of(type, z) == Cardinality({e \in Events : e.type = type /\ e.of = z})
  IN books' = [z \in ZoneNames |->
    [entered |-> books[z].entered + Of("object_entered", z),
     exited |-> books[z].exited + Of("object_exited", z),
     dropped |-> books[z].dropped
                 + Cardinality({x \in DOMAIN stay : x[2] = z /\ x[1] \notin DOMAIN tracks'})]]

SideOf(t, l) == Sign(Side(scene.lines[l][1], scene.lines[l][2], At(t)))

Trace ==
  path' = [x \in {y \in (DOMAIN tracks') \X (DOMAIN scene.lines) :
                  y[1] \in Active \/ y \in DOMAIN path} |->
    IF x[1] \notin Active THEN path[x]
    ELSE IF x \notin DOMAIN path
    THEN [first |-> SideOf(x[1], x[2]), last |-> SideOf(x[1], x[2]), signs |-> 0,
          touched |-> SideOf(x[1], x[2]) = 0]
    ELSE [first |-> path[x].first,
          last |-> SideOf(x[1], x[2]),
          signs |-> IF x \in Crossed
                    THEN path[x].signs + CrossingSign(prev[x[1]], At(x[1]), scene.lines[x[2]])
                    ELSE path[x].signs,
          touched |-> path[x].touched \/ SideOf(x[1], x[2]) = 0]]

------------------------------------------------------------------------------
Detections == UNION {kSubset(n, Points) : n \in 0..MaxObjects}

Frame(dets) ==
  /\ frame < MaxFrames /\ frame' = frame + 1
  /\ Update(dets) /\ Process /\ Book /\ Trace

\* EventEngine.reconfigure(): new detectors for zones and lines, which know no
\* track; the other three keep what they know.
Swap(s) ==
  /\ scene' = s
  /\ stay' = Empty /\ prev' = Empty
  /\ UNCHANGED <<known, still, near>>

\* reconfigure_stream() of a stream that runs.
Reconfigure(s) ==
  /\ swaps < MaxSwaps /\ swaps' = swaps + 1 /\ Swap(s)
  /\ books' = [z \in ZoneNames |->
       [books[z] EXCEPT !.dropped = @ + Cardinality({x \in DOMAIN stay : x[2] = z})]]
  /\ path' = Empty
  /\ UNCHANGED <<frame, trackerVars>>

UpdateRegions(s) == BuildsGeometry(s) /\ Reconfigure(s)

Next ==
  \/ \E dets \in Detections : Frame(dets)
  \/ \E s \in Scenes : UpdateRegions(s)

Spec == Init /\ [][Next]_vars

------------------------------------------------------------------------------
TypeOK ==
  /\ frame \in 0..MaxFrames /\ nextId \in Nat /\ DOMAIN tracks \subseteq 0..(nextId - 1)
  /\ \A t \in DOMAIN tracks : tracks[t].at \in Points /\ tracks[t].lost \in 0..MaxAge
  /\ scene \in Scenes /\ known \subseteq 0..(nextId - 1)
  /\ swaps \in 0..MaxSwaps

\* A track and a detection that are matched to others, or to nobody, are not
\* closer to each other than to what they were matched to: a greedy matching
\* lets nobody envy (_match_detections_to_tracks()).
MatchingIsStable ==
  [][frame' # frame =>
       \A t \in DOMAIN tracks, u \in DOMAIN tracks' :
         LET d == Distance(tracks[t].at, tracks'[u].at)
         IN tracks'[u].lost = 0 /\ t # u /\ d <= Reach =>
              \/ /\ t \in DOMAIN tracks' /\ tracks'[t].lost = 0
                 /\ Distance(tracks[t].at, tracks'[t].at) <= d
              \/ u \in DOMAIN tracks /\ Distance(tracks[u].at, tracks'[u].at) <= d]_vars

\* Entries less exits is what is inside, plus the stays that ended without an
\* exit: the track was deleted inside, or the zones were replaced
\* (ZoneDetector against CentroidTracker and reconfigure()).
OccupancyIsExplained ==
  \A z \in ZoneNames :
    books[z].entered - books[z].exited
      = Cardinality({x \in DOMAIN stay : x[2] = z}) + books[z].dropped

\* The lines are too long to be passed at their ends: a way from one side to
\* the other meets the line.
LinesAreLong ==
  \A s \in Scenes : \A l \in DOMAIN s.lines, p \in Points, q \in Points :
    LET a == s.lines[l][1]
        b == s.lines[l][2]
    IN Side(a, b, p) * Side(a, b, q) < 0 => Intersect(p, q, a, b)

\* Each change of side is one crossing of that sign, also of a track that is
\* lost in between, as long as no centroid was seen on the line itself and the
\* line is too long to be passed at its ends (LineCrossingDetector).
CrossingsAreSides ==
  \A x \in DOMAIN path :
    ~path[x].touched => path[x].last - path[x].first = 2 * path[x].signs

\* A track whose path leads from one side to the other has crossed the line
\* (geometry_detectors.py:154-155).
EveryCrossingIsSeen ==
  \A x \in DOMAIN path :
    path[x].last * path[x].first < 0 => path[x].signs # 0

\* Strictly inside a convex zone is inside, strictly outside is outside
\* (point_in_polygon() against the sides of the polygon).
ZoneIsItsArea ==
  \A z \in DOMAIN scene.zones, p \in Points :
    LET polygon == scene.zones[z]
        n == Len(polygon)
        sides == {Sign(Side(polygon[i], polygon[(i % n) + 1], p)) : i \in 1..n}
    IN 0 \notin sides => (Inside(p, polygon) <=> Cardinality(sides) = 1)
=============================================================================
