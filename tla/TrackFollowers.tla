--------------------------- MODULE TrackFollowers ---------------------------
(***************************************************************************)
(* Vehicles on tracks: nTrack (ntrack_main.cc), TTrackFollower, an axle    *)
(* (trkfoll.cc), and nDynamic (ndynamic_main.cc).  All of it runs in the   *)
(* frame loop, between whose calls the scripts of the scenery throw        *)
(* switches, flip vehicles, ...; no track has a Script1 or Script2, which  *)
(* nothing sets, so a call is one step.                                    *)
(*                                                                         *)
(* Distances are integers.  A joint is one-way when the track it leads to  *)
(* leads elsewhere from that end: a switch that is thrown reconnects the   *)
(* common track and the new branch, and the old branch still points to it. *)
(***************************************************************************)
EXTENDS Integers, Sequences, FiniteSets

CONSTANTS
  Tracks,     \* the nTrack objects
  Length,     \* of each track
  Vehicles,   \* the nDynamic objects
  Offsets,    \* dDist of the axles as the scripts set it, in order
  Loaded,     \* the joints nTrack::Load makes: calls of Connect
  Switches,   \* the connecttrack commands of the switches: calls of Connect
  Distances,  \* how far a vehicle may move in a frame
  MaxCount,   \* bound: numVehicles of a track before a vehicle is deleted
  NoTrack     \* NULL

Ends == {"prev", "next"}
Connections == [t1 : Tracks, e1 : Ends, t2 : Tracks, e2 : Ends]

ASSUME TracksAssumption ==
  /\ Length \in [Tracks -> Nat \ {0}]
  /\ IsFiniteSet(Vehicles)
  /\ Offsets \in Seq(Int) /\ Len(Offsets) >= 2
  /\ Loaded \in Seq(Connections)
  /\ Switches \subseteq Connections
  /\ Distances \subseteq Int
  /\ NoTrack \notin Tracks

VARIABLES
  joint,        \* pPrev, bPrevSwitchDirection, pNext, bNextSwitchDirection
  axles,        \* Axles of each vehicle
  facing,       \* the sign of dDist, which Flip changes
  primary,      \* the axle with bPrimary, or NoAxle
  node,         \* the track in whose VehicleList trackNode is linked
  numVehicles,  \* of each track
  halted        \* an n_assert failed

vars == <<joint, axles, facing, primary, node, numVehicles, halted>>

AxleIds == 1..Len(Offsets)
NoAxle  == 0
Signs   == {1, -1}

Joint  == [to : Tracks \cup {NoTrack}, swap : BOOLEAN]
Nowhere == [track |-> NoTrack, s |-> 0, dir |-> 1]
OnTrack == UNION {[track : {t}, s : 0..Length[t], dir : Signs] : t \in Tracks}

TypeOK ==
  /\ joint \in [Tracks -> [Ends -> Joint]]
  /\ axles \in [Vehicles -> [AxleIds -> OnTrack \cup {Nowhere}]]
  /\ facing \in [Vehicles -> Signs]
  /\ primary \in [Vehicles -> AxleIds \cup {NoAxle}]
  /\ node \in [Vehicles -> Tracks \cup {NoTrack}]
  /\ numVehicles \in [Tracks -> Int]
  /\ halted \in BOOLEAN

-----------------------------------------------------------------------------
(* Tracks *)

(* nTrack::Connect: both ends are set; what either was connected to before *)
(* is not told.  swap: the two ends are of one kind, an axle turns round.  *)
Connect(joints, c) ==
  [joints EXCEPT ![c.t1][c.e1] = [to |-> c.t2, swap |-> c.e1 = c.e2],
                 ![c.t2][c.e2] = [to |-> c.t1, swap |-> c.e1 = c.e2]]

(* Load of all the tracks; a joint is made when the later one is loaded,   *)
(* and of two joints at one end the last stands.                           *)
LoadedJoints ==
  [t \in Tracks |-> [e \in Ends |->
     LET Here  == {n \in DOMAIN Loaded : <<t, e>> \in {<<Loaded[n].t1, Loaded[n].e1>>,
                                                       <<Loaded[n].t2, Loaded[n].e2>>}}
         final == Loaded[CHOOSE n \in Here : \A m \in Here : m <= n]
     IN IF Here = {} THEN [to |-> NoTrack, swap |-> FALSE]
        ELSE [to   |-> IF final.t2 = t /\ final.e2 = e THEN final.t1 ELSE final.t2,
              swap |-> final.e1 = final.e2]]]

(* TTrackFollower::Move: an axle with a distance left to go along its      *)
(* track.  Where it would come to, and how far that is beyond an end.      *)
(* Every track is longer than 0.                                           *)
Walker == [track : Tracks \cup {NoTrack}, s : Int, dir : Signs, left : Int]

Aim(l) == l.s + l.left
Beyond(l) ==
  IF Aim(l) < 0 THEN -Aim(l)
  ELSE IF Aim(l) > Length[l.track] THEN Aim(l) - Length[l.track]
  ELSE 0

Exit(joints, l) == joints[l.track][IF Aim(l) < 0 THEN "prev" ELSE "next"]

Leaves(l) == l.track # NoTrack /\ Beyond(l) > 0
Crosses(joints, l) == Leaves(l) /\ Exit(joints, l).to # NoTrack

\* Mutant: fDirection is not changed where a joint turns the axle round.
CrossedAhead(joints, l) ==
  LET j == Exit(joints, l)
      atPrev == (Aim(l) < 0) = j.swap
  IN  [track |-> j.to,
       s     |-> IF atPrev THEN 0 ELSE Length[j.to],
       dir   |-> l.dir,
       left  |-> IF atPrev THEN Beyond(l) ELSE -Beyond(l)]

(* Over a joint it comes in by the other end of the next track, or by the  *)
(* same end and turned round, and has the rest to go inward from there.    *)
Crossed(joints, l) ==
  LET j == Exit(joints, l)
      atPrev == (Aim(l) < 0) = j.swap
  IN  [track |-> j.to,
       s     |-> IF atPrev THEN 0 ELSE Length[j.to],
       dir   |-> IF j.swap THEN -l.dir ELSE l.dir,
       left  |-> IF atPrev THEN Beyond(l) ELSE -Beyond(l)]

(* Where the tracks end, SetCurrentTrack asserts that there is a track.    *)
Stopped(l) ==
  IF l.track = NoTrack THEN l
  ELSE IF Leaves(l) THEN [l EXCEPT !.track = NoTrack]
  ELSE [l EXCEPT !.s = Aim(l), !.left = 0]

Walk(joints) ==
  LET walk[l \in Walker] ==
        IF Crosses(joints, l) THEN walk[Crossed(joints, l)] ELSE Stopped(l)
  IN walk

Roll(joints, a, distance) ==
  LET end == Walk(joints)[[track |-> a.track, s |-> a.s, dir |-> a.dir,
                           left |-> distance * a.dir]]
  IN [track |-> end.track, s |-> end.s, dir |-> end.dir]

-----------------------------------------------------------------------------
(* Vehicles *)

dDist(v, i) == facing[v] * Offsets[i]

PrimaryTrack(v, ax) == IF primary[v] = NoAxle THEN NoTrack ELSE ax[primary[v]].track

(* RemVehicle and AddVehicle as SetCurrentTrack calls them for the primary *)
(* axle at every joint it crosses: in the end it has left the track it was *)
(* on and is on the new one.                                               *)
\* Mutant: SetCurrentTrack changes pCurrentTrack before RemVehicle.
ListLate(v, new) ==
  /\ node' = [node EXCEPT ![v] = new]
  /\ UNCHANGED numVehicles

List(v, new) ==
  LET old == PrimaryTrack(v, axles[v]) IN
  /\ node' = [node EXCEPT ![v] = new]
  /\ numVehicles' = [t \in Tracks |-> numVehicles[t]
                                        - (IF t = old THEN 1 ELSE 0)
                                        + (IF t = new THEN 1 ELSE 0)]

\* Mutant: SetCurrentTrack without n_assert(pTrack).
PlaceAnywhere(v, ax) ==
  /\ axles' = [axles EXCEPT ![v] = ax]
  /\ List(v, PrimaryTrack(v, ax))
  /\ UNCHANGED halted

(* The axles of v come to ax; on a track that ends an n_assert fails.      *)
Place(v, ax) ==
  IF \A i \in AxleIds : ax[i] \in OnTrack
  THEN /\ axles' = [axles EXCEPT ![v] = ax]
       /\ List(v, PrimaryTrack(v, ax))
       /\ UNCHANGED halted
  ELSE /\ halted' = TRUE
       /\ UNCHANGED <<axles, node, numVehicles>>

Placed(v) == \A i \in AxleIds : axles[v][i] # Nowhere

Init ==
  /\ joint = LoadedJoints
  /\ axles = [v \in Vehicles |-> [i \in AxleIds |-> Nowhere]]
  /\ facing = [v \in Vehicles |-> 1]
  /\ primary = [v \in Vehicles |-> NoAxle]
  /\ node = [v \in Vehicles |-> NoTrack]
  /\ numVehicles = [t \in Tracks |-> 0]
  /\ halted = FALSE

Abs(n) == IF n < 0 THEN -n ELSE n

(* Where SetTrack(t, dist) puts an axle: a distance below 0 says that the  *)
(* vehicle heads for the beginning of the track.                           *)
InitAxle(joints, t, dist, d) ==
  Roll(joints, [track |-> t, s |-> 0, dir |-> IF dist >= 0 THEN 1 ELSE -1],
       d + Abs(dist))

SetTrack(v, t, dist) ==
  /\ ~halted
  /\ Place(v, [i \in AxleIds |-> InitAxle(joint, t, dist, dDist(v, i))])
  /\ UNCHANGED <<joint, facing, primary>>

(* nDynamic::Update, which does nothing before SetTrack; and ConnectTo.    *)
Move(v, s) ==
  /\ ~halted
  /\ Placed(v) /\ s # 0
  /\ Place(v, [i \in AxleIds |-> Roll(joint, axles[v][i], s)])
  /\ UNCHANGED <<joint, facing, primary>>

\* Mutant: Flip moves an axle by dDist, to the middle.
TurnedInTheMiddle(v) ==
  [i \in AxleIds |-> LET a == Roll(joint, axles[v][i], -dDist(v, i))
                     IN [a EXCEPT !.dir = -@]]

(* Each axle goes to the other side of the middle and turns round; Init    *)
(* sets the direction of one that is on no track yet.                      *)
Turned(v) ==
  [i \in AxleIds |-> LET a == Roll(joint, axles[v][i], -2 * dDist(v, i))
                     IN [a EXCEPT !.dir = -@]]

Flip(v) ==
  /\ ~halted
  /\ IF Placed(v) THEN Place(v, Turned(v))
     ELSE UNCHANGED <<axles, node, numVehicles, halted>>
  /\ facing' = [facing EXCEPT ![v] = -@]
  /\ UNCHANGED <<joint, primary>>

(* SetDir: the primary axle is the one in front, in either list or none.   *)
SetDir(v, dir) ==
  LET new == IF dir >= 0 THEN 1 ELSE Len(Offsets) IN
  /\ ~halted
  /\ primary' = [primary EXCEPT ![v] = new]
  /\ List(v, axles[v][new].track)
  /\ UNCHANGED <<joint, axles, facing, halted>>

(* GetMiddleTrackAndDistance, for the report of the network client: the    *)
(* first axle that is not primary goes to the middle ...                   *)
Probe(v) == IF primary[v] = 1 THEN 2 ELSE 1

\* Mutant: Axle->Move(Axle->dDist).
MiddleBeyond(v) == Roll(joint, axles[v][Probe(v)], dDist(v, Probe(v)))

Middle(v) == Roll(joint, axles[v][Probe(v)], -dDist(v, Probe(v)))

(* ... and back again.                                                     *)
GetMiddleTrackAndDistance(v) ==
  /\ ~halted
  /\ Placed(v)
  /\ Place(v, [axles[v] EXCEPT ![Probe(v)] = Roll(joint, Middle(v), dDist(v, Probe(v)))])
  /\ UNCHANGED <<joint, facing, primary>>

(* The connecttrack of a switch, whoever stands on it.                     *)
Throw(c) ==
  /\ ~halted
  /\ joint' = Connect(joint, c)
  /\ UNCHANGED <<axles, facing, primary, node, numVehicles, halted>>

(* ~nDynamic unlinks the node and does not count it.  Another nDynamic may *)
(* take its place.                                                         *)
Delete(v) ==
  /\ ~halted
  /\ \A t \in Tracks : numVehicles[t] <= MaxCount
  /\ facing' = [facing EXCEPT ![v] = 1]
  /\ axles' = [axles EXCEPT ![v] = [i \in AxleIds |-> Nowhere]]
  /\ primary' = [primary EXCEPT ![v] = NoAxle]
  /\ node' = [node EXCEPT ![v] = NoTrack]
  /\ UNCHANGED <<joint, numVehicles, halted>>

Next ==
  \/ \E v \in Vehicles :
       \/ \E t \in Tracks, dist \in Distances \cup {0} : SetTrack(v, t, dist)
       \/ \E s \in Distances : Move(v, s)
       \/ Flip(v)
       \/ \E dir \in {-1, 0, 1} : SetDir(v, dir)
       \/ GetMiddleTrackAndDistance(v)
       \/ Delete(v)
  \/ \E c \in Switches : Throw(c)

Spec == Init /\ [][Next]_vars

-----------------------------------------------------------------------------
(* Properties *)

(* The axles are as far apart as on the body, with the first in front (f   *)
(* is -1) or behind: axle i, going as far as axle j is from it, comes to   *)
(* it.  Across a joint that only one of its tracks has, an axle finds the  *)
(* others and they do not find it.  (An axle exactly at a joint stays on   *)
(* the track it came from and so has two names: an instance whose Length   *)
(* and Distances are even and whose Offsets are odd keeps axles off it.)   *)
Reaches(v, i, j, f) ==
  Roll(joint, axles[v][i], f * (Offsets[j] - Offsets[i])) = axles[v][j]

Stands(v, f) == Placed(v) /\ \A i, j \in AxleIds : Reaches(v, i, j, f)
Whole(v)  == \E f \in Signs : Stands(v, f)
Trails(v) ==
  /\ Placed(v)
  /\ \E f \in Signs, i \in AxleIds : \A j \in AxleIds : Reaches(v, i, j, f)

(* No step tears a vehicle apart: each axle walks on its own, over joints  *)
(* that turn it round or not, on tracks of different lengths, and comes to *)
(* its place beside the others.  A switch thrown under the vehicle, or     *)
(* trailed, leaves it at least trailing (Move, SetTrack, Flip and          *)
(* GetMiddleTrackAndDistance in ndynamic_main.cc).  Flip does so to a      *)
(* vehicle whose dDist are right, which they are not after a Flip: the     *)
(* second in a row moves the axles apart.                                  *)
WholeUntilCut ==
  [][\A v \in Vehicles :
       /\ Whole(v) /\ Placed(v)'
       /\ facing'[v] # facing[v] => Stands(v, facing[v])
       => Trails(v)']_vars

(* In the direction of s every axle is ahead of the hindmost one, which    *)
(* comes to it when it goes as far as the other is ahead on the body.      *)
HindmostReaches(v, s) ==
  /\ Placed(v)
  /\ \E f \in Signs, i \in AxleIds : \A j \in AxleIds :
       /\ s * f * (Offsets[j] - Offsets[i]) >= 0
       /\ Reaches(v, i, j, f)

(* What its hindmost axle can reach a vehicle takes along, whatever joints *)
(* its axles cross at different times: a vehicle that stands on a switch   *)
(* thrown under it, or on a joint that only one track has, and is not      *)
(* Whole for that, goes on in one piece (nDynamic::Move, one               *)
(* TTrackFollower::Move per axle).                                         *)
MovesTogether ==
  [][\A v \in Vehicles, s \in Distances :
       Move(v, s) /\ HindmostReaches(v, s) /\ ~halted' => HindmostReaches(v, s)']_vars

(* Where the network client of another player puts the vehicle (SetTrack   *)
(* with the track and the distance it is told) is where it stands: the     *)
(* report is made by walking an axle to the middle and read by walking     *)
(* every axle from the beginning of that track (ndplayclient_main.cc:      *)
(* 612-615 and 561-564).  Only of a vehicle that was not flipped and heads *)
(* for the end of the track: of any other it may not be true.              *)
ForwardReportIsExact ==
  \A v \in Vehicles : facing[v] = 1 /\ Stands(v, 1) /\ Middle(v).dir = 1 =>
    \A i \in AxleIds :
      InitAxle(joint, Middle(v).track, Middle(v).s * Middle(v).dir, Offsets[i]) = axles[v][i]

(* dDist is the position of the axle relative to the middle of the vehicle *)
(* (trkfoll.h:27).  Flip makes it the opposite of that.                    *)
DistanceIsFromMiddle == \A v \in Vehicles : Whole(v) => Stands(v, facing[v])

(* The numVehicles of a track is at least the vehicles in its list, so the *)
(* n_assert of RemVehicle (numVehicles >= 0) holds however vehicles move,  *)
(* flip, change their primary axle and are deleted.                        *)
CountCoversList ==
  \A t \in Tracks : numVehicles[t] >= Cardinality({v \in Vehicles : node[v] = t})
=============================================================================
