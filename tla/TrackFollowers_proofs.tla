------------------------ MODULE TrackFollowers_proofs ------------------------
(***************************************************************************)
(* Proofs about TrackFollowers: of every layout of tracks, any number of   *)
(* vehicles and axles and all distances.  Walk is defined by descent on    *)
(* how far an axle would come beyond its track, and walking on the same    *)
(* way is walking at once, over any joints.  Walking back, on which Flip   *)
(* and GetMiddleTrackAndDistance rely, comes to where it began over joints *)
(* that both of their tracks have, for an axle that is at none of them.    *)
(***************************************************************************)
EXTENDS TrackFollowers, FiniteSetTheorems, WellFoundedInduction, TLAPS

(* trackNode is in the list of the track of the primary axle.              *)
Listed == \A v \in Vehicles : node[v] = PrimaryTrack(v, axles[v])

IInv == TypeOK /\ Listed

-----------------------------------------------------------------------------
(* Tracks *)

LEMMA TwoAxles == Len(Offsets) \in Nat /\ Len(Offsets) >= 2
BY TracksAssumption

LEMMA Least ==
  ASSUME NEW S, S \subseteq Nat, S # {}
  PROVE  \E n \in S : \A m \in S : n <= m
<1>1. \E x \in S : \A y \in S : ~ (<<y, x>> \in OpToRel(<, Nat))
  BY NatLessThanWellFounded, WFMin, Zenon
<1>2. OpToRel(<, Nat) = {ss \in Nat \X Nat : ss[1] < ss[2]}
  BY Zenon DEF OpToRel
<1>3. PICK x \in S : \A y \in S : ~ (<<y, x>> \in OpToRel(<, Nat))
  BY <1>1
<1>4. ASSUME NEW m \in S PROVE x <= m
  <2>1. <<m, x>> \in Nat \X Nat /\ ~ (m < x)
    BY <1>2, <1>3
  <2> QED
    BY <2>1
<1> QED
  BY <1>4

(* Of finitely many joints loaded at one end one is the last.              *)
LEMMA LastOne ==
  ASSUME NEW k \in Nat, NEW S, S \subseteq 1..k, S # {}
  PROVE  \E n \in S : \A m \in S : m <= n
<1> DEFINE T == {i \in Nat : \E n \in S : i = k - n}
<1>1. T \subseteq Nat /\ T # {}
  <2>1. PICK n \in S : n \in 1..k
    OBVIOUS
  <2>2. k - n \in Nat
    BY <2>1
  <2>3. k - n \in T
    BY <2>2
  <2> QED
    BY <2>3
<1>2. PICK x \in T : \A y \in T : x <= y
  BY <1>1, Least
<1>3. PICK n \in S : x = k - n
  BY <1>2
<1>4. ASSUME NEW m \in S PROVE m <= n
  <2>1. k - m \in T
    BY SMT
  <2> QED
    BY <2>1, <1>2, <1>3
<1> QED
  BY <1>4

LEMMA LoadedType == LoadedJoints \in [Tracks -> [Ends -> Joint]]
<1> DEFINE Here(t, e) == {n \in DOMAIN Loaded : <<t, e>> \in {<<Loaded[n].t1, Loaded[n].e1>>,
                                                             <<Loaded[n].t2, Loaded[n].e2>>}}
           last(t, e) == CHOOSE n \in Here(t, e) : \A m \in Here(t, e) : m <= n
           J(t, e) == IF Here(t, e) = {} THEN [to |-> NoTrack, swap |-> FALSE]
                      ELSE [to |-> IF Loaded[last(t, e)].t2 = t /\ Loaded[last(t, e)].e2 = e
                                   THEN Loaded[last(t, e)].t1 ELSE Loaded[last(t, e)].t2,
                            swap |-> Loaded[last(t, e)].e1 = Loaded[last(t, e)].e2]
<1>1. ASSUME NEW t \in Tracks, NEW e \in Ends PROVE J(t, e) \in Joint
  <2>1. CASE Here(t, e) = {}
    BY <2>1 DEF Joint
  <2>2. CASE Here(t, e) # {}
    <3>1. Here(t, e) \subseteq 1..Len(Loaded) /\ Len(Loaded) \in Nat
      BY TracksAssumption
    <3>2. \E n \in Here(t, e) : \A m \in Here(t, e) : m <= n
      BY <2>2, <3>1, LastOne
    <3>3. last(t, e) \in Here(t, e)
      BY <3>2, Zenon
    <3>4. Loaded[last(t, e)] \in Connections
      BY <3>1, <3>3, TracksAssumption
    <3>5. /\ Loaded[last(t, e)].t1 \in Tracks
          /\ Loaded[last(t, e)].t2 \in Tracks
      BY <3>4 DEF Connections
    <3> HIDE DEF Here, last
    <3> QED
      BY <2>2, <3>5 DEF Joint
  <2> QED
    BY <2>1, <2>2
<1>2. LoadedJoints = [t \in Tracks |-> [e \in Ends |-> J(t, e)]]
  BY Zenon DEF LoadedJoints
<1> HIDE DEF J
<1> QED
  BY <1>1, <1>2

LEMMA ConnectType ==
  ASSUME NEW joints \in [Tracks -> [Ends -> Joint]], NEW c \in Connections
  PROVE  Connect(joints, c) \in [Tracks -> [Ends -> Joint]]
BY DEF Connect, Connections, Joint

-----------------------------------------------------------------------------
(* Vehicles *)

LEMMA AxleTrack ==
  ASSUME NEW a, a \in OnTrack \cup {Nowhere} PROVE a.track \in Tracks \cup {NoTrack}
BY DEF OnTrack, Nowhere

LEMMA PrimaryType ==
  ASSUME TypeOK, NEW v \in Vehicles, NEW ax \in [AxleIds -> OnTrack \cup {Nowhere}]
  PROVE  PrimaryTrack(v, ax) \in Tracks \cup {NoTrack}
<1>1. CASE primary[v] = NoAxle
  BY <1>1 DEF PrimaryTrack
<1>2. CASE primary[v] # NoAxle
  <2>1. primary[v] \in AxleIds
    BY <1>2 DEF TypeOK
  <2> QED
    BY <1>2, <2>1, AxleTrack DEF PrimaryTrack
<1> QED
  BY <1>1, <1>2

(* From one list to another: the counts follow.                            *)
LEMMA ListKeeps ==
  ASSUME IInv, NEW v \in Vehicles, NEW new \in Tracks \cup {NoTrack}, List(v, new)
  PROVE  /\ node' \in [Vehicles -> Tracks \cup {NoTrack}]
         /\ numVehicles' \in [Tracks -> Int]
         /\ node'[v] = new
         /\ \A w \in Vehicles \ {v} : node'[w] = node[w]
         /\ CountCoversList => CountCoversList'
<1> DEFINE old == PrimaryTrack(v, axles[v])
<1>1. old = node[v]
  BY DEF IInv, Listed
<1> HIDE DEF old
<1>2. /\ node' = [node EXCEPT ![v] = new]
      /\ numVehicles' = [t \in Tracks |-> numVehicles[t] - (IF t = old THEN 1 ELSE 0)
                                                          + (IF t = new THEN 1 ELSE 0)]
  BY DEF List, old
<1>3. /\ node' \in [Vehicles -> Tracks \cup {NoTrack}]
      /\ numVehicles' \in [Tracks -> Int]
      /\ node'[v] = new
      /\ \A w \in Vehicles \ {v} : node'[w] = node[w]
  BY <1>2 DEF IInv, TypeOK
<1>4. ASSUME CountCoversList, NEW t \in Tracks
      PROVE  numVehicles'[t] >= Cardinality({w \in Vehicles : node'[w] = t})
  <2> DEFINE S == {w \in Vehicles : node[w] = t}
             N == {w \in Vehicles : node'[w] = t}
  <2>1. IsFiniteSet(S) /\ Cardinality(S) \in Nat
    BY TracksAssumption, FS_Subset, FS_CardinalityType
  <2>2. numVehicles[t] \in Int /\ numVehicles[t] >= Cardinality(S)
    BY <1>4 DEF CountCoversList, IInv, TypeOK
  <2>3. CASE t = old /\ t = new
    <3>1. N = S
      BY <1>1, <1>2, <1>3, <2>3 DEF IInv, TypeOK
    <3>2. numVehicles'[t] = numVehicles[t]
      BY <1>2, <2>2, <2>3
    <3> QED
      BY <2>2, <3>1, <3>2
  <2>4. CASE t = old /\ t # new
    <3>1. N = S \ {v} /\ v \in S
      BY <1>1, <1>2, <1>3, <2>4 DEF IInv, TypeOK
    <3>2. numVehicles'[t] = numVehicles[t] - 1
      BY <1>2, <2>2, <2>4
    <3>3. Cardinality(N) = Cardinality(S) - 1
      BY <2>1, <3>1, FS_RemoveElement
    <3> QED
      BY <2>1, <2>2, <3>2, <3>3
  <2>5. CASE t # old /\ t = new
    <3>1. N = S \cup {v} /\ v \notin S
      BY <1>1, <1>2, <1>3, <2>5 DEF IInv, TypeOK
    <3>2. numVehicles'[t] = numVehicles[t] + 1
      BY <1>2, <2>2, <2>5
    <3>3. Cardinality(N) = Cardinality(S) + 1
      BY <2>1, <3>1, FS_AddElement
    <3> QED
      BY <2>1, <2>2, <3>2, <3>3
  <2>6. CASE t # old /\ t # new
    <3>1. N = S
      BY <1>1, <1>2, <1>3, <2>6 DEF IInv, TypeOK
    <3>2. numVehicles'[t] = numVehicles[t]
      BY <1>2, <2>2, <2>6
    <3> QED
      BY <2>2, <3>1, <3>2
  <2> QED
    BY <2>3, <2>4, <2>5, <2>6
<1> QED
  BY <1>3, <1>4 DEF CountCoversList

(* Axles that come to places on tracks, or an n_assert.                    *)
LEMMA PlaceKeeps ==
  ASSUME IInv, NEW v \in Vehicles, NEW ax, DOMAIN ax = AxleIds,
         ax = [i \in AxleIds |-> ax[i]], Place(v, ax), UNCHANGED <<joint, primary>>,
         facing' \in [Vehicles -> Signs]
  PROVE  IInv' /\ (CountCoversList => CountCoversList')
<1>1. CASE \A i \in AxleIds : ax[i] \in OnTrack
  <2>1. /\ axles' = [axles EXCEPT ![v] = ax]
        /\ List(v, PrimaryTrack(v, ax))
        /\ UNCHANGED halted
    BY <1>1 DEF Place
  <2>2. ax \in [AxleIds -> OnTrack \cup {Nowhere}]
    BY <1>1
  <2>3. PrimaryTrack(v, ax) \in Tracks \cup {NoTrack}
    BY <2>2, PrimaryType DEF IInv
  <2>4. /\ node' \in [Vehicles -> Tracks \cup {NoTrack}]
        /\ numVehicles' \in [Tracks -> Int]
        /\ node'[v] = PrimaryTrack(v, ax)
        /\ \A w \in Vehicles \ {v} : node'[w] = node[w]
        /\ CountCoversList => CountCoversList'
    BY <2>1, <2>3, ListKeeps
  <2>5. TypeOK'
    BY <2>1, <2>2, <2>4 DEF IInv, TypeOK
  <2>6. ASSUME NEW w \in Vehicles PROVE node'[w] = PrimaryTrack(w, axles[w])'
    BY <2>1, <2>4 DEF IInv, TypeOK, Listed, PrimaryTrack
  <2> QED
    BY <2>4, <2>5, <2>6 DEF IInv, Listed
<1>2. CASE ~ \A i \in AxleIds : ax[i] \in OnTrack
  <2>1. halted' = TRUE /\ UNCHANGED <<axles, node, numVehicles>>
    BY <1>2 DEF Place
  <2> QED
    BY <2>1 DEF IInv, TypeOK, Listed, PrimaryTrack, CountCoversList
<1> QED
  BY <1>1, <1>2

(* A vehicle is flipped.                                                   *)
LEMMA FacingType ==
  ASSUME TypeOK, NEW v \in Vehicles, facing' = [facing EXCEPT ![v] = -@]
  PROVE  facing' \in [Vehicles -> Signs]
BY DEF TypeOK, Signs

LEMMA FlipKeeps ==
  ASSUME IInv, NEW v \in Vehicles, Flip(v)
  PROVE  IInv' /\ (CountCoversList => CountCoversList')
<1>1. facing' \in [Vehicles -> Signs] /\ UNCHANGED <<joint, primary>>
  BY FacingType DEF Flip, IInv
<1>2. CASE Placed(v)
  <2>1. DOMAIN Turned(v) = AxleIds /\ Turned(v) = [i \in AxleIds |-> Turned(v)[i]]
    BY DEF Turned
  <2>2. Place(v, Turned(v))
    BY <1>2 DEF Flip
  <2> QED
    BY <1>1, <2>1, <2>2, PlaceKeeps
<1>3. CASE ~Placed(v)
  <2>1. UNCHANGED <<axles, node, numVehicles, halted>>
    BY <1>3 DEF Flip
  <2> QED
    BY <1>1, <2>1 DEF IInv, TypeOK, Listed, PrimaryTrack, CountCoversList
<1> QED
  BY <1>2, <1>3

LEMMA SetDirKeeps ==
  ASSUME IInv, NEW v \in Vehicles, NEW dir \in {-1, 0, 1}, SetDir(v, dir)
  PROVE  IInv' /\ (CountCoversList => CountCoversList')
<1> DEFINE new == IF dir >= 0 THEN 1 ELSE Len(Offsets)
<1>1. new \in AxleIds /\ new # NoAxle
  BY TwoAxles DEF AxleIds, NoAxle
<1> HIDE DEF new
<1>2. /\ primary' = [primary EXCEPT ![v] = new]
      /\ List(v, axles[v][new].track)
      /\ UNCHANGED <<joint, axles, facing, halted>>
  BY DEF SetDir, new
<1>3. axles[v][new].track \in Tracks \cup {NoTrack}
  BY <1>1, AxleTrack DEF IInv, TypeOK
<1>4. /\ node' \in [Vehicles -> Tracks \cup {NoTrack}]
      /\ numVehicles' \in [Tracks -> Int]
      /\ node'[v] = axles[v][new].track
      /\ \A w \in Vehicles \ {v} : node'[w] = node[w]
      /\ CountCoversList => CountCoversList'
  BY <1>2, <1>3, ListKeeps
<1>5. TypeOK'
  BY <1>1, <1>2, <1>4 DEF IInv, TypeOK
<1>6. ASSUME NEW w \in Vehicles PROVE node'[w] = PrimaryTrack(w, axles[w])'
  BY <1>1, <1>2, <1>4 DEF IInv, TypeOK, Listed, PrimaryTrack
<1> QED
  BY <1>4, <1>5, <1>6 DEF IInv, Listed

LEMMA DeleteKeeps ==
  ASSUME IInv, NEW v \in Vehicles, Delete(v)
  PROVE  IInv' /\ (CountCoversList => CountCoversList')
<1>1. /\ axles' = [axles EXCEPT ![v] = [i \in AxleIds |-> Nowhere]]
      /\ primary' = [primary EXCEPT ![v] = NoAxle]
      /\ node' = [node EXCEPT ![v] = NoTrack]
      /\ facing' = [facing EXCEPT ![v] = 1]
      /\ UNCHANGED <<joint, numVehicles, halted>>
  BY DEF Delete
<1>2. TypeOK'
  BY <1>1 DEF IInv, TypeOK, Signs
<1>3. Listed'
  BY <1>1 DEF IInv, TypeOK, Listed, PrimaryTrack
<1>4. ASSUME CountCoversList, NEW t \in Tracks
      PROVE  numVehicles'[t] >= Cardinality({w \in Vehicles : node'[w] = t})
  <2> DEFINE S == {w \in Vehicles : node[w] = t}
             N == {w \in Vehicles : node'[w] = t}
  <2>1. N \in SUBSET S
    BY <1>1, TracksAssumption DEF IInv, TypeOK
  <2>2. IsFiniteSet(S)
    BY TracksAssumption, FS_Subset
  <2>3. /\ Cardinality(N) <= Cardinality(S)
        /\ Cardinality(N) \in Nat
        /\ Cardinality(S) \in Nat
    BY <2>1, <2>2, FS_Subset, FS_CardinalityType
  <2>4. numVehicles[t] \in Int /\ numVehicles[t] >= Cardinality(S)
    BY <1>4 DEF CountCoversList, IInv, TypeOK
  <2>5. numVehicles'[t] = numVehicles[t]
    BY <1>1
  <2> QED
    BY <2>3, <2>4, <2>5
<1> QED
  BY <1>2, <1>3, <1>4 DEF IInv, CountCoversList

LEMMA InitKeeps == Init => IInv /\ CountCoversList
<1> SUFFICES ASSUME Init PROVE IInv /\ CountCoversList
  OBVIOUS
<1>1. TypeOK
  <2>1. joint \in [Tracks -> [Ends -> Joint]]
    BY LoadedType DEF Init
  <2>2. axles \in [Vehicles -> [AxleIds -> OnTrack \cup {Nowhere}]]
    BY DEF Init
  <2>3. numVehicles \in [Tracks -> Int]
    BY DEF Init
  <2>4. /\ facing \in [Vehicles -> Signs]
        /\ primary \in [Vehicles -> AxleIds \cup {NoAxle}]
        /\ node \in [Vehicles -> Tracks \cup {NoTrack}]
        /\ halted \in BOOLEAN
    BY DEF Init, Signs
  <2> QED
    BY <2>1, <2>2, <2>3, <2>4 DEF TypeOK
<1>2. Listed
  BY DEF Init, Listed, PrimaryTrack
<1>3. ASSUME NEW t \in Tracks
      PROVE  numVehicles[t] >= Cardinality({w \in Vehicles : node[w] = t})
  <2>1. {w \in Vehicles : node[w] = t} = {}
    BY TracksAssumption DEF Init
  <2>2. numVehicles[t] = 0
    BY DEF Init
  <2> QED
    BY <2>1, <2>2, FS_EmptySet
<1> QED
  BY <1>1, <1>2, <1>3 DEF IInv, CountCoversList

LEMMA StepKeeps ==
  ASSUME IInv, [Next]_vars PROVE IInv' /\ (CountCoversList => CountCoversList')
<1>1. CASE UNCHANGED vars
  BY <1>1 DEF vars, IInv, TypeOK, Listed, PrimaryTrack, CountCoversList
<1>2. ASSUME NEW v \in Vehicles, NEW t \in Tracks, NEW dist \in Distances \cup {0},
             SetTrack(v, t, dist)
      PROVE  IInv' /\ (CountCoversList => CountCoversList')
  <2> DEFINE ax == [i \in AxleIds |-> InitAxle(joint, t, dist, dDist(v, i))]
  <2>1. Place(v, ax) /\ UNCHANGED <<joint, facing, primary>>
    BY <1>2 DEF SetTrack
  <2>2. DOMAIN ax = AxleIds /\ ax = [i \in AxleIds |-> ax[i]]
    OBVIOUS
  <2>3. facing' \in [Vehicles -> Signs]
    BY <2>1 DEF IInv, TypeOK
  <2> HIDE DEF ax
  <2> QED
    BY <2>1, <2>2, <2>3, PlaceKeeps
<1>3. ASSUME NEW v \in Vehicles, NEW s \in Distances, Move(v, s)
      PROVE  IInv' /\ (CountCoversList => CountCoversList')
  <2> DEFINE ax == [i \in AxleIds |-> Roll(joint, axles[v][i], s)]
  <2>1. Place(v, ax) /\ UNCHANGED <<joint, facing, primary>>
    BY <1>3 DEF Move
  <2>2. DOMAIN ax = AxleIds /\ ax = [i \in AxleIds |-> ax[i]]
    OBVIOUS
  <2>3. facing' \in [Vehicles -> Signs]
    BY <2>1 DEF IInv, TypeOK
  <2> HIDE DEF ax
  <2> QED
    BY <2>1, <2>2, <2>3, PlaceKeeps
<1>4. ASSUME NEW v \in Vehicles, GetMiddleTrackAndDistance(v)
      PROVE  IInv' /\ (CountCoversList => CountCoversList')
  <2> DEFINE ax == [axles[v] EXCEPT ![Probe(v)] = Roll(joint, Middle(v), dDist(v, Probe(v)))]
  <2>1. Place(v, ax) /\ UNCHANGED <<joint, facing, primary>>
    BY <1>4 DEF GetMiddleTrackAndDistance
  <2>2. DOMAIN ax = AxleIds /\ ax = [i \in AxleIds |-> ax[i]]
    BY DEF IInv, TypeOK
  <2>3. facing' \in [Vehicles -> Signs]
    BY <2>1 DEF IInv, TypeOK
  <2> HIDE DEF ax
  <2> QED
    BY <2>1, <2>2, <2>3, PlaceKeeps
<1>5. ASSUME NEW c \in Switches, Throw(c)
      PROVE  IInv' /\ (CountCoversList => CountCoversList')
  <2>1. joint' \in [Tracks -> [Ends -> Joint]]
    BY <1>5, ConnectType, TracksAssumption DEF Throw, IInv, TypeOK
  <2> QED
    BY <1>5, <2>1 DEF Throw, IInv, TypeOK, Listed, PrimaryTrack, CountCoversList
<1> QED
  BY <1>1, <1>2, <1>3, <1>4, <1>5, FlipKeeps, SetDirKeeps, DeleteKeeps DEF Next

(* A vehicle stands on tracks of the scenery or on none, and is in the     *)
(* list of a track or in none.                                             *)
THEOREM TypeCorrect == Spec => []TypeOK
<1>1. Init => IInv
  BY InitKeeps
<1>2. IInv /\ [Next]_vars => IInv'
  BY StepKeeps
<1>3. IInv => TypeOK
  BY DEF IInv
<1> QED
  BY <1>1, <1>2, <1>3, PTL DEF Spec

(* The counts of the tracks cover their lists, however many vehicles move, *)
(* flip, turn and are deleted: the n_assert of RemVehicle (numVehicles >=  *)
(* 0) never fails.                                                         *)
THEOREM CountsCover == Spec => []CountCoversList
<1>1. Init => IInv /\ CountCoversList
  BY InitKeeps
<1>2. IInv /\ CountCoversList /\ [Next]_vars => (IInv /\ CountCoversList)'
  BY StepKeeps
<1> QED
  BY <1>1, <1>2, PTL DEF Spec
-----------------------------------------------------------------------------
(* Where axles come to                                                     *)

Descends(S, T, C, mu) ==
  mu \in [S -> Nat] /\ \A l \in S \ T : C[l] \in S /\ mu[C[l]] < mu[l]

(* f is so defined for the arguments whose measure is below n.             *)
IsBelow(S, T, F, C, mu, n, f) ==
  \A l \in S : mu[l] < n => f[l] = IF l \in T THEN F[l] ELSE f[C[l]]

(* A function may be defined by its value at a smaller argument: f[l] is   *)
(* F[l] in T and what f is of C[l] elsewhere.  First below a bound, ...    *)
LEMMA DefinedBelow ==
  ASSUME NEW S, NEW T, NEW F, NEW C, NEW mu, Descends(S, T, C, mu),
         NEW n \in Nat
  PROVE  \E f : IsBelow(S, T, F, C, mu, n, f)
<1> DEFINE Upto(f, k) == IsBelow(S, T, F, C, mu, k, f)
           Bad == {k \in Nat : ~ \E f : Upto(f, k)}
<1> USE DEF Descends
<1>1. SUFFICES Bad = {}
  OBVIOUS
<1>2. SUFFICES ASSUME Bad # {} PROVE FALSE
  OBVIOUS
<1>3. PICK k \in Bad : \A m \in Bad : k <= m
  BY <1>2, Least
<1>4. k # 0
  <2>1. Upto({}, 0)
    BY DEF IsBelow
  <2> QED
    BY <2>1, <1>3
<1>5. PICK f : Upto(f, k - 1)
  <2>1. k - 1 \in Nat /\ k - 1 \notin Bad
    BY <1>3, <1>4
  <2> QED
    BY <2>1
<1> DEFINE g == [l \in S |-> IF l \in T THEN F[l] ELSE f[C[l]]]
<1>6. Upto(g, k)
  <2> SUFFICES ASSUME NEW l \in S, mu[l] < k, l \notin T PROVE g[l] = g[C[l]]
    BY DEF IsBelow
  <2>1. C[l] \in S /\ mu[C[l]] < k - 1
    BY <1>3
  <2>2. f[C[l]] = g[C[l]]
    BY <1>5, <2>1 DEF IsBelow
  <2> QED
    BY <2>2
<1> QED
  BY <1>3, <1>6

(* ... uniquely, ...                                                       *)
LEMMA UniqueBelow ==
  ASSUME NEW S, NEW T, NEW F, NEW C, NEW mu, Descends(S, T, C, mu),
         NEW n \in Nat, NEW f, NEW g,
         IsBelow(S, T, F, C, mu, n, f), IsBelow(S, T, F, C, mu, n, g),
         NEW l \in S, mu[l] < n
  PROVE  f[l] = g[l]
<1> USE DEF Descends, IsBelow
<1> DEFINE Bad == {m \in Nat : \E x \in S : mu[x] = m /\ m < n /\ f[x] # g[x]}
<1>1. SUFFICES ASSUME Bad # {} PROVE FALSE
  OBVIOUS
<1>2. PICK m \in Bad : \A k \in Bad : m <= k
  BY <1>1, Least
<1>3. PICK x \in S : mu[x] = m /\ m < n /\ f[x] # g[x]
  BY <1>2
<1>4. x \notin T
  BY <1>3
<1>5. C[x] \in S /\ mu[C[x]] < m
  BY <1>3, <1>4
<1>6. mu[C[x]] \notin Bad
  BY <1>2, <1>5
<1>7. f[C[x]] = g[C[x]]
  BY <1>3, <1>5, <1>6
<1> QED
  BY <1>3, <1>4, <1>7

(* ... and so everywhere.                                                  *)
LEMMA DefinedByDescent ==
  ASSUME NEW S, NEW T, NEW F, NEW C, NEW mu, Descends(S, T, C, mu)
  PROVE  \E f : f = [l \in S |-> IF l \in T THEN F[l] ELSE f[C[l]]]
<1> DEFINE Upto(f, k) == IsBelow(S, T, F, C, mu, k, f)
           h == [k \in Nat |-> CHOOSE f : Upto(f, k)]
           d == [l \in S |-> h[mu[l] + 1][l]]
<1>1. ASSUME NEW k \in Nat PROVE Upto(h[k], k)
  <2>1. \E f : Upto(f, k)
    BY DefinedBelow
  <2> QED
    BY <2>1
<1>2. ASSUME NEW l \in S, l \notin T PROVE d[l] = d[C[l]]
  <2>1. C[l] \in S /\ mu[C[l]] < mu[l] /\ mu[l] + 1 \in Nat /\ mu[C[l]] + 1 \in Nat
    BY <1>2 DEF Descends
  <2>2. Upto(h[mu[l] + 1], mu[l] + 1) /\ Upto(h[mu[C[l]] + 1], mu[C[l]] + 1)
    BY <1>1, <2>1
  <2> HIDE DEF h
  <2>3. h[mu[l] + 1][l] = h[mu[l] + 1][C[l]]
    BY <1>2, <2>1, <2>2 DEF IsBelow, Descends
  <2>4. Upto(h[mu[l] + 1], mu[C[l]] + 1)
    BY <2>1, <2>2 DEF IsBelow, Descends
  <2>5. h[mu[l] + 1][C[l]] = h[mu[C[l]] + 1][C[l]]
    <3> DEFINE a == h[mu[l] + 1]
               b == h[mu[C[l]] + 1]
               n == mu[C[l]] + 1
               z == C[l]
    <3>1. Upto(a, n) /\ Upto(b, n) /\ n \in Nat /\ z \in S /\ mu[z] < n
      BY <2>1, <2>2, <2>4 DEF Descends
    <3> HIDE DEF a, b, n, z
    <3>2. a[z] = b[z]
      BY <3>1, UniqueBelow
    <3> QED
      BY <3>2 DEF a, b, z
  <2> QED
    BY <2>1, <2>3, <2>5
<1>3. ASSUME NEW l \in S, l \in T PROVE d[l] = F[l]
  <2>1. Upto(h[mu[l] + 1], mu[l] + 1) /\ mu[l] < mu[l] + 1
    BY <1>1 DEF Descends
  <2> HIDE DEF h
  <2> QED
    BY <1>3, <2>1 DEF IsBelow
<1>5. d = [l \in S |-> d[l]]
  OBVIOUS
<1> HIDE DEF d
<1>4. d = [l \in S |-> IF l \in T THEN F[l] ELSE d[C[l]]]
  <2>1. \A l \in S : d[l] = IF l \in T THEN F[l] ELSE d[C[l]]
    BY <1>2, <1>3
  <2> QED
    BY <2>1, <1>5
<1> QED
  BY <1>4

Layout == [Tracks -> [Ends -> Joint]]

LEMMA WalkerType ==
  ASSUME NEW l \in Walker
  PROVE  /\ l.track \in Tracks \cup {NoTrack} /\ l.s \in Int /\ l.dir \in Signs
         /\ l.left \in Int /\ Aim(l) \in Int
         /\ l = [track |-> l.track, s |-> l.s, dir |-> l.dir, left |-> l.left]
  BY DEF Walker, Aim

LEMMA CrossedType ==
  ASSUME NEW joints \in Layout, NEW l \in Walker, Crosses(joints, l)
  PROVE  /\ Crossed(joints, l) \in Walker
         /\ Crossed(joints, l).track \in Tracks
         /\ Exit(joints, l).swap \in BOOLEAN
         /\ Beyond(l) \in Nat \ {0}
         /\ Crossed(joints, l).s \in 0..Length[Crossed(joints, l).track]
         /\ Beyond(Crossed(joints, l)) \in Nat
         /\ Beyond(Crossed(joints, l)) < Beyond(l)
<1> DEFINE j == Exit(joints, l)
           atPrev == (Aim(l) < 0) = j.swap
           c == Crossed(joints, l)
<1>1. l.track \in Tracks /\ l.dir \in Signs /\ Aim(l) \in Int
  BY WalkerType DEF Crosses, Leaves
<1>2. j \in Joint
  BY <1>1 DEF Layout, Exit, Ends
<1>3. j.to \in Tracks /\ j.swap \in BOOLEAN
  BY <1>2 DEF Joint, Crosses
<1>4. Length[l.track] \in Nat \ {0} /\ Length[j.to] \in Nat \ {0}
  BY <1>1, <1>3, TracksAssumption
<1>5. Beyond(l) \in Nat \ {0}
  BY <1>1, <1>4 DEF Crosses, Leaves, Beyond
<1>6. /\ c = [track |-> c.track, s |-> c.s, dir |-> c.dir, left |-> c.left]
      /\ c.track = j.to /\ c.s = IF atPrev THEN 0 ELSE Length[j.to]
      /\ c.dir = IF j.swap THEN -l.dir ELSE l.dir
      /\ c.left = IF atPrev THEN Beyond(l) ELSE -Beyond(l)
  BY DEF Crossed
<1>7. c.dir \in Signs
  BY <1>1, <1>6 DEF Signs
<1> HIDE DEF atPrev, j, c
<1>8. c.s \in 0..Length[c.track] /\ c.s \in Int
  BY <1>4, <1>6
<1>9. c.left \in Int
  BY <1>5, <1>6
<1>10. Beyond(c) \in Nat /\ Beyond(c) < Beyond(l)
  <2>1. CASE atPrev
    <3>1. Aim(c) = Beyond(l)
      BY <1>5, <1>6, <2>1 DEF Aim
    <3> QED
      BY <1>4, <1>5, <1>6, <3>1 DEF Beyond
  <2>2. CASE ~atPrev
    <3>1. Aim(c) = Length[j.to] - Beyond(l)
      BY <1>4, <1>5, <1>6, <2>2 DEF Aim
    <3> QED
      BY <1>4, <1>5, <1>6, <3>1 DEF Beyond
  <2> QED
    BY <2>1, <2>2
<1>11. c \in Walker
  BY <1>3, <1>6, <1>7, <1>8, <1>9 DEF Walker
<1> QED
  BY <1>3, <1>5, <1>6, <1>8, <1>10, <1>11 DEF c, j

(* One round of the loop of TTrackFollower::Move, given the rest of it.    *)
Round(joints, walk, l) ==
  IF Crosses(joints, l) THEN walk[Crossed(joints, l)] ELSE Stopped(l)

(* The definition of Walk has a solution.                                  *)
LEMMA WalkExists ==
  ASSUME NEW joints \in Layout
  PROVE  \E walk : walk = [l \in Walker |-> Round(joints, walk, l)]
<1> DEFINE T == {l \in Walker : ~Crosses(joints, l)}
           F == [l \in Walker |-> Stopped(l)]
           C == [l \in Walker |-> Crossed(joints, l)]
           mu == [l \in Walker |-> IF Crosses(joints, l) THEN Beyond(l) ELSE 0]
<1>1. Descends(Walker, T, C, mu)
  <2>1. mu \in [Walker -> Nat]
    <3> SUFFICES ASSUME NEW l \in Walker PROVE mu[l] \in Nat
      OBVIOUS
    <3> QED
      BY CrossedType
  <2>2. ASSUME NEW l \in Walker \ T PROVE C[l] \in Walker /\ mu[C[l]] < mu[l]
    <3>1. Crosses(joints, l) /\ C[l] = Crossed(joints, l)
      OBVIOUS
    <3> DEFINE c == Crossed(joints, l)
    <3>2. c \in Walker /\ Beyond(c) \in Nat /\ Beyond(l) \in Nat \ {0} /\ Beyond(c) < Beyond(l)
      BY <3>1, CrossedType
    <3> HIDE DEF c
    <3>3. mu[c] \in {Beyond(c), 0} /\ mu[l] = Beyond(l)
      BY <3>1, <3>2
    <3> QED
      BY <3>1, <3>2, <3>3 DEF c
  <2> QED
    BY <2>1, <2>2 DEF Descends
<1>2. PICK f : f = [l \in Walker |-> IF l \in T THEN F[l] ELSE f[C[l]]]
  <2> HIDE DEF T, F, C, mu
  <2> QED
    BY <1>1, DefinedByDescent
<1>3. ASSUME NEW l \in Walker
      PROVE  (IF l \in T THEN F[l] ELSE f[C[l]]) = Round(joints, f, l)
  BY DEF Round
<1> HIDE DEF T, F, C, mu
<1>4. f = [l \in Walker |-> Round(joints, f, l)]
  BY <1>2, <1>3
<1> QED
  BY <1>4

LEMMA WalkUnfolds ==
  ASSUME NEW joints \in Layout, NEW l \in Walker
  PROVE  Walk(joints)[l] = Round(joints, Walk(joints), l)
<1> DEFINE Solves(walk) == walk = [x \in Walker |-> Round(joints, walk, x)]
<1>1. Walk(joints) = CHOOSE walk : Solves(walk)
  BY DEF Walk, Round
<1>2. \E walk : Solves(walk)
  BY WalkExists
<1>3. Solves(Walk(joints))
  <2> HIDE DEF Solves
  <2> QED
    BY <1>1, <1>2
<1> QED
  BY <1>3

(* Two walks come to the same place, or both to where the tracks end.      *)
SameEnd(a, b) == a = b \/ (a.track = NoTrack /\ b.track = NoTrack)

SameWay(x, y) == (x >= 0 /\ y >= 0) \/ (x <= 0 /\ y <= 0)

InRange(l) == l \in Walker /\ l.track \in Tracks /\ l.s \in 0..Length[l.track]

(* An axle that has walked is within a track, with nothing left to go, or  *)
(* off the tracks.                                                         *)
Arrived(l) ==
  \/ l.track = NoTrack
  \/ InRange(l) /\ l.left = 0

LEMMA WalkArrives ==
  ASSUME NEW joints \in Layout, NEW l \in Walker, l.track \in Tracks
  PROVE  Arrived(Walk(joints)[l])
<1> DEFINE W == Walk(joints)
           Wrong(x) == x \in Walker /\ x.track \in Tracks /\ ~Arrived(W[x])
           Bad == {n \in Nat : \E x \in Walker : Wrong(x) /\ Beyond(x) = n}
<1>1. ASSUME NEW x \in Walker, Wrong(x) PROVE Beyond(x) \in Nat
  BY <1>1, WalkerType, TracksAssumption DEF Beyond
<1>2. SUFFICES ASSUME Bad # {} PROVE FALSE
  BY <1>1
<1>3. PICK n \in Bad : \A m \in Bad : n <= m
  BY <1>2, Least
<1>4. PICK x \in Walker : Wrong(x) /\ Beyond(x) = n
  BY <1>3
<1>5. CASE Crosses(joints, x)
  <2> DEFINE c == Crossed(joints, x)
  <2>1. W[x] = W[c]
    BY <1>5, WalkUnfolds DEF Round
  <2>2. c \in Walker /\ c.track \in Tracks /\ Beyond(c) \in Nat /\ Beyond(c) < n
    BY <1>4, <1>5, CrossedType
  <2> HIDE DEF c, W
  <2>3. Wrong(c)
    BY <1>4, <2>1, <2>2
  <2>4. Beyond(c) \in Bad
    BY <2>2, <2>3
  <2> QED
    BY <1>3, <2>2, <2>4
<1>6. CASE ~Crosses(joints, x)
  <2>1. W[x] = Stopped(x)
    BY <1>6, WalkUnfolds DEF Round
  <2>2. /\ x = [track |-> x.track, s |-> x.s, dir |-> x.dir, left |-> x.left]
        /\ Aim(x) \in Int /\ x.dir \in Signs /\ x.track \in Tracks
        /\ Length[x.track] \in Nat \ {0}
    BY <1>4, WalkerType, TracksAssumption
  <2> HIDE DEF W
  <2>3. CASE Leaves(x)
    <3>1. W[x].track = NoTrack
      BY <2>1, <2>2, <2>3 DEF Stopped, Leaves
    <3> QED
      BY <1>4, <3>1 DEF Arrived
  <2>4. CASE ~Leaves(x)
    <3>1. W[x] = [track |-> x.track, s |-> Aim(x), dir |-> x.dir, left |-> 0]
      BY <2>1, <2>2, <2>4, TracksAssumption DEF Stopped
    <3>2. Aim(x) \in 0..Length[x.track]
      BY <2>2, <2>4, TracksAssumption DEF Leaves, Beyond
    <3>3. InRange(W[x])
      BY <2>2, <3>1, <3>2 DEF InRange, Walker
    <3> QED
      BY <1>4, <3>1, <3>3 DEF Arrived
  <2> QED
    BY <2>3, <2>4
<1> QED
  BY <1>5, <1>6

(* What matters is the track, the direction and the place aimed at.        *)
LEMMA AimMatters ==
  ASSUME NEW joints \in Layout, NEW l \in Walker, NEW m \in Walker,
         l.track = m.track, l.dir = m.dir, Aim(l) = Aim(m), l.track \in Tracks
  PROVE  SameEnd(Walk(joints)[l], Walk(joints)[m])
<1> DEFINE W == Walk(joints)
<1>1. Beyond(l) = Beyond(m) /\ Exit(joints, l) = Exit(joints, m)
  BY DEF Beyond, Exit
<1>2. (Leaves(l) <=> Leaves(m)) /\ (Crosses(joints, l) <=> Crosses(joints, m))
  BY <1>1 DEF Leaves, Crosses
<1>3. Crossed(joints, l) = Crossed(joints, m)
  <2> DEFINE j == Exit(joints, l)
             k == Exit(joints, m)
             p == (Aim(l) < 0) = j.swap
             q == (Aim(m) < 0) = k.swap
  <2>1. j = k /\ p = q
    BY <1>1, Zenon
  <2>2. /\ Crossed(joints, l) =
             [track |-> j.to, s |-> IF p THEN 0 ELSE Length[j.to],
              dir |-> IF j.swap THEN -l.dir ELSE l.dir,
              left |-> IF p THEN Beyond(l) ELSE -Beyond(l)]
        /\ Crossed(joints, m) =
             [track |-> k.to, s |-> IF q THEN 0 ELSE Length[k.to],
              dir |-> IF k.swap THEN -m.dir ELSE m.dir,
              left |-> IF q THEN Beyond(m) ELSE -Beyond(m)]
    BY DEF Crossed
  <2> HIDE DEF j, k, p, q
  <2> QED
    BY <1>1, <2>1, <2>2, Zenon
<1>4. W[l] = Round(joints, W, l) /\ W[m] = Round(joints, W, m)
  BY WalkUnfolds
<1>5. /\ l = [track |-> l.track, s |-> l.s, dir |-> l.dir, left |-> l.left]
      /\ m = [track |-> m.track, s |-> m.s, dir |-> m.dir, left |-> m.left]
  BY WalkerType
<1>6. CASE Crosses(joints, l)
  BY <1>2, <1>3, <1>4, <1>6 DEF Round, SameEnd
<1>7. CASE ~Crosses(joints, l)
  <2>1. W[l] = Stopped(l) /\ W[m] = Stopped(m)
    BY <1>2, <1>4, <1>7 DEF Round
  <2>2. l.track # NoTrack
    BY TracksAssumption
  <2>3. SameEnd(Stopped(l), Stopped(m))
    <3>1. CASE Leaves(l)
      <4>1. /\ Stopped(l) = [l EXCEPT !.track = NoTrack]
            /\ Stopped(m) = [m EXCEPT !.track = NoTrack]
        BY <1>2, <2>2, <3>1 DEF Stopped
      <4>2. \A x \in Walker : [x EXCEPT !.track = NoTrack].track = NoTrack
        BY DEF Walker
      <4> QED
        BY <4>1, <4>2 DEF SameEnd
    <3>2. CASE ~Leaves(l)
      BY <1>2, <1>5, <2>2, <3>2 DEF Stopped, SameEnd
    <3> QED
      BY <3>1, <3>2
  <2> QED
    BY <2>1, <2>3
<1> QED
  BY <1>6, <1>7 DEF W

(* d in the direction of an axle is this far in that of another.           *)
Seen(d, from, to) == IF from = to THEN d ELSE -d

(* Walker l goes y further, as an axle with direction dir sees it.         *)
Further(l, y) == [l EXCEPT !.left = l.left + y]

LEMMA FurtherType ==
  ASSUME NEW l \in Walker, NEW y \in Int
  PROVE  /\ Further(l, y) \in Walker
         /\ Further(l, y).track = l.track /\ Further(l, y).s = l.s
         /\ Further(l, y).dir = l.dir /\ Further(l, y).left = l.left + y
         /\ Aim(Further(l, y)) = Aim(l) + y
<1> DEFINE z == l.left + y
           m == [l EXCEPT !.left = z]
<1>1. z \in Int
  BY WalkerType
<1>2. Further(l, y) = m
  BY DEF Further
<1> HIDE DEF z
<1>3. m \in Walker /\ m.track = l.track /\ m.s = l.s /\ m.dir = l.dir /\ m.left = z
  BY <1>1 DEF Walker
<1>4. l.s \in Int /\ l.left \in Int
  BY WalkerType
<1> QED
  BY <1>2, <1>3, <1>4 DEF z, Aim

(* The joint a walker crosses it crosses as well if it goes further.       *)
LEMMA CrossingFurther ==
  ASSUME NEW joints \in Layout, NEW l, InRange(l), Crosses(joints, l),
         NEW y \in Int, SameWay(l.left, y)
  PROVE  /\ Crosses(joints, Further(l, y))
         /\ Crossed(joints, Further(l, y)) =
              Further(Crossed(joints, l), Seen(y, l.dir, Crossed(joints, l).dir))
         /\ SameWay(Crossed(joints, l).left, Seen(y, l.dir, Crossed(joints, l).dir))
         /\ InRange(Crossed(joints, l))
<1> DEFINE m == Further(l, y)
           c == Crossed(joints, l)
           d == Crossed(joints, m)
           j == Exit(joints, l)
           w == Seen(y, l.dir, c.dir)
<1>1. l \in Walker /\ l.s \in 0..Length[l.track] /\ Length[l.track] \in Nat \ {0}
  BY TracksAssumption DEF InRange
<1>2. /\ m \in Walker /\ m.track = l.track /\ m.dir = l.dir /\ Aim(m) = Aim(l) + y
      /\ l.left \in Int /\ l.s \in Int /\ Aim(l) = l.s + l.left /\ Aim(l) \in Int
      /\ l.dir \in Signs
  BY <1>1, FurtherType, WalkerType DEF Aim
<1>3. /\ c \in Walker /\ c.track \in Tracks /\ j.swap \in BOOLEAN
      /\ Beyond(l) \in Nat \ {0} /\ c.s \in 0..Length[c.track]
  BY <1>1, CrossedType
<1>4. InRange(c)
  BY <1>3 DEF InRange
<1>5. \/ Aim(l) < 0 /\ y <= 0 /\ Beyond(l) = -Aim(l)
      \/ Aim(l) > Length[l.track] /\ y >= 0 /\ Beyond(l) = Aim(l) - Length[l.track]
  BY <1>1, <1>2 DEF SameWay, Crosses, Leaves, Beyond
<1>6. /\ (Aim(m) < 0) <=> (Aim(l) < 0)
      /\ \/ Aim(l) < 0 /\ y <= 0 /\ Beyond(m) = Beyond(l) - y
         \/ ~(Aim(l) < 0) /\ y >= 0 /\ Beyond(m) = Beyond(l) + y
  BY <1>1, <1>2, <1>5 DEF Beyond
<1>7. Exit(joints, m) = j /\ Beyond(m) > 0
  BY <1>2, <1>3, <1>6 DEF Exit
<1>8. Crosses(joints, m)
  BY <1>2, <1>7 DEF Crosses, Leaves
<1> DEFINE p == (Aim(l) < 0) = j.swap
<1>9. /\ c.track = j.to /\ c.s = (IF p THEN 0 ELSE Length[j.to])
      /\ c.dir = (IF j.swap THEN -l.dir ELSE l.dir)
      /\ c.left = (IF p THEN Beyond(l) ELSE -Beyond(l))
      /\ c = [track |-> c.track, s |-> c.s, dir |-> c.dir, left |-> c.left]
  BY DEF Crossed
<1>10. d = [track |-> c.track, s |-> c.s, dir |-> c.dir,
            left |-> IF p THEN Beyond(m) ELSE -Beyond(m)]
  <2>1. ((Aim(m) < 0) = j.swap) <=> p
    BY <1>3, <1>6
  <2>2. d = [track |-> j.to,
             s |-> IF (Aim(m) < 0) = j.swap THEN 0 ELSE Length[j.to],
             dir |-> IF j.swap THEN -l.dir ELSE l.dir,
             left |-> IF (Aim(m) < 0) = j.swap THEN Beyond(m) ELSE -Beyond(m)]
    BY <1>2, <1>7 DEF Crossed
  <2> HIDE DEF p, j
  <2> QED
    BY <2>1, <2>2, <1>9
<1>11. w = IF j.swap THEN -y ELSE y
  BY <1>2, <1>3, <1>9 DEF Seen, Signs
<1>12. p <=> \/ Aim(l) < 0 /\ j.swap
             \/ ~(Aim(l) < 0) /\ ~j.swap
  BY <1>3
<1> HIDE DEF p, j, w, c, d, m
<1>13. (IF p THEN Beyond(m) ELSE -Beyond(m)) = c.left + w /\ SameWay(c.left, w)
  BY <1>3, <1>6, <1>9, <1>11, <1>12 DEF SameWay
<1>14. d = Further(c, w)
  <2>1. Further(c, w) = [c EXCEPT !.left = c.left + w]
    BY DEF Further
  <2>2. ASSUME NEW z PROVE [c EXCEPT !.left = z] =
          [track |-> c.track, s |-> c.s, dir |-> c.dir, left |-> z]
    BY <1>9
  <2> QED
    BY <1>10, <1>13, <2>1, <2>2
<1> QED
  BY <1>4, <1>8, <1>13, <1>14 DEF c, d, m, w

(* Walking x and then y the same way is walking x + y.                     *)
WalksOn(joints, l, y) ==
  LET end == Walk(joints)[l] IN
  end.track \in Tracks =>
    SameEnd(Walk(joints)[Further(end, Seen(y, l.dir, end.dir))],
            Walk(joints)[Further(l, y)])

LEMMA WalkOn ==
  ASSUME NEW joints \in Layout, NEW l, InRange(l), NEW y \in Int, SameWay(l.left, y)
  PROVE  WalksOn(joints, l, y)
<1> DEFINE W == Walk(joints)
           Wrong(x, z) == InRange(x) /\ SameWay(x.left, z) /\ ~WalksOn(joints, x, z)
           Bad == {n \in Nat : \E x \in Walker, z \in Int : Wrong(x, z) /\ Beyond(x) = n}
<1>1. ASSUME NEW x \in Walker, NEW z \in Int, Wrong(x, z) PROVE Beyond(x) \in Nat
  BY <1>1, WalkerType, TracksAssumption DEF Beyond, InRange
<1>2. SUFFICES ASSUME Bad # {} PROVE FALSE
  BY <1>1 DEF InRange
<1>3. PICK n \in Bad : \A m \in Bad : n <= m
  BY <1>2, Least
<1>4. PICK x \in Walker, z \in Int : Wrong(x, z) /\ Beyond(x) = n
  BY <1>3
<1>5. x.track \in Tracks /\ x.dir \in Signs /\ Aim(x) \in Int /\ x.track # NoTrack
  BY <1>4, WalkerType, TracksAssumption DEF InRange
<1>6. CASE Crosses(joints, x)
  <2> DEFINE c == Crossed(joints, x)
             w == Seen(z, x.dir, c.dir)
  <2>1. W[x] = W[c]
    BY <1>6, WalkUnfolds DEF Round
  <2>2. c \in Walker /\ Beyond(c) \in Nat /\ Beyond(c) < n
    BY <1>4, <1>6, CrossedType
  <2>3. /\ Crosses(joints, Further(x, z)) /\ Crossed(joints, Further(x, z)) = Further(c, w)
        /\ SameWay(c.left, w) /\ InRange(c)
    BY <1>4, <1>6, CrossingFurther
  <2>4. W[Further(x, z)] = W[Further(c, w)]
    <3>1. Further(x, z) \in Walker
      BY FurtherType
    <3> QED
      BY <2>3, <3>1, WalkUnfolds DEF Round
  <2>5. c.dir \in Signs /\ w \in Int
    BY <2>2, WalkerType DEF Seen
  <2>6. W[c].track \in Tracks => Seen(w, c.dir, W[c].dir) = Seen(z, x.dir, W[x].dir)
    <3> SUFFICES ASSUME W[c].track \in Tracks
                 PROVE  Seen(w, c.dir, W[c].dir) = Seen(z, x.dir, W[x].dir)
      OBVIOUS
    <3>1. W[c].dir \in Signs
      <4>1. Arrived(W[c])
        BY <2>2, <2>3, WalkArrives DEF InRange
      <4> QED
        BY <4>1, TracksAssumption, WalkerType DEF Arrived, InRange
    <3> HIDE DEF c, W
    <3> QED
      BY <1>5, <2>1, <2>5, <3>1 DEF Seen, Signs, w
  <2> HIDE DEF c, w
  <2>7. ~WalksOn(joints, c, w)
    BY <1>4, <2>1, <2>4, <2>6 DEF WalksOn
  <2>8. Beyond(c) \in Bad
    BY <2>2, <2>3, <2>5, <2>7
  <2> QED
    BY <1>3, <2>2, <2>8
<1>7. CASE ~Crosses(joints, x)
  <2>1. W[x] = Stopped(x)
    BY <1>7, WalkUnfolds DEF Round
  <2>2. x = [track |-> x.track, s |-> x.s, dir |-> x.dir, left |-> x.left]
    BY WalkerType
  <2>3. CASE Leaves(x)
    <3>1. W[x].track = NoTrack
      BY <1>5, <2>1, <2>2, <2>3 DEF Stopped
    <3> QED
      BY <1>4, <3>1, TracksAssumption DEF WalksOn
  <2>4. CASE ~Leaves(x)
    <3> DEFINE e == [track |-> x.track, s |-> Aim(x), dir |-> x.dir, left |-> 0]
    <3>1. W[x] = e
      BY <1>5, <2>1, <2>2, <2>4 DEF Stopped
    <3>2. e \in Walker
      BY <1>5 DEF Walker
    <3>3. /\ Further(e, z) \in Walker /\ Further(x, z) \in Walker
          /\ Aim(Further(e, z)) = Aim(x) + z /\ Aim(Further(x, z)) = Aim(x) + z
          /\ Further(e, z).track = x.track /\ Further(x, z).track = x.track
          /\ Further(e, z).dir = x.dir /\ Further(x, z).dir = x.dir
      <4>1. Aim(e) = Aim(x)
        BY <1>5 DEF Aim
      <4> HIDE DEF e
      <4>2. e.track = x.track /\ e.dir = x.dir
        BY DEF e
      <4> QED
        BY <3>2, <4>1, <4>2, FurtherType
    <3>4. SameEnd(W[Further(e, z)], W[Further(x, z)])
      BY <1>5, <3>3, AimMatters
    <3>5. Seen(z, x.dir, e.dir) = z
      BY DEF Seen
    <3> HIDE DEF e
    <3> QED
      BY <1>4, <3>1, <3>4, <3>5 DEF WalksOn
  <2> QED
    BY <2>3, <2>4
<1> QED
  BY <1>6, <1>7

Rolling(a, d) == [track |-> a.track, s |-> a.s, dir |-> a.dir, left |-> d * a.dir]

LEMMA OnTrackIs ==
  ASSUME NEW a \in OnTrack
  PROVE  /\ a.track \in Tracks /\ a.s \in 0..Length[a.track] /\ a.dir \in Signs
         /\ a = [track |-> a.track, s |-> a.s, dir |-> a.dir]
<1>1. PICK t \in Tracks : a \in [track : {t}, s : 0..Length[t], dir : Signs]
  BY DEF OnTrack
<1> QED
  BY <1>1

LEMMA IsOnTrack ==
  ASSUME NEW t \in Tracks, NEW s \in 0..Length[t], NEW d \in Signs
  PROVE  [track |-> t, s |-> s, dir |-> d] \in OnTrack
<1>1. [track |-> t, s |-> s, dir |-> d] \in [track : {t}, s : 0..Length[t], dir : Signs]
  OBVIOUS
<1> QED
  BY <1>1 DEF OnTrack

LEMMA RollingType ==
  ASSUME NEW a \in OnTrack, NEW d \in Int
  PROVE  /\ InRange(Rolling(a, d)) /\ Rolling(a, d) \in Walker
         /\ Rolling(a, d).track = a.track /\ Rolling(a, d).s = a.s
         /\ Rolling(a, d).dir = a.dir
         /\ Rolling(a, d).left = Seen(d, 1, a.dir)
<1>1. a.track \in Tracks /\ a.s \in 0..Length[a.track] /\ a.dir \in Signs
  BY OnTrackIs
<1>2. d * a.dir = Seen(d, 1, a.dir) /\ d * a.dir \in Int
  BY <1>1 DEF Signs, Seen
<1>3. a.s \in Int
  BY <1>1, TracksAssumption
<1> QED
  BY <1>1, <1>2, <1>3 DEF Rolling, InRange, Walker

(* An axle rolls to a place on a track, or off the tracks.                 *)
LEMMA RollType ==
  ASSUME NEW joints \in Layout, NEW a \in OnTrack, NEW d \in Int
  PROVE  /\ Roll(joints, a, d) =
              LET end == Walk(joints)[Rolling(a, d)]
              IN  [track |-> end.track, s |-> end.s, dir |-> end.dir]
         /\ Roll(joints, a, d).track = NoTrack \/ Roll(joints, a, d) \in OnTrack
<1> DEFINE end == Walk(joints)[Rolling(a, d)]
<1>1. Roll(joints, a, d) = [track |-> end.track, s |-> end.s, dir |-> end.dir]
  BY DEF Roll, Rolling
<1>2. Arrived(end)
  BY RollingType, WalkArrives DEF InRange
<1> HIDE DEF end
<1>3. CASE end.track = NoTrack
  BY <1>1, <1>3 DEF end
<1>4. CASE InRange(end)
  <2>1. [track |-> end.track, s |-> end.s, dir |-> end.dir] \in OnTrack
    BY <1>4, IsOnTrack, WalkerType DEF InRange
  <2> QED
    BY <1>1, <2>1 DEF end
<1> QED
  BY <1>2, <1>3, <1>4 DEF Arrived

(* Rolling on the same way is rolling as far at once.                      *)
LEMMA RollOn ==
  ASSUME NEW joints \in Layout, NEW a \in OnTrack, NEW x \in Int, NEW y \in Int,
         SameWay(x, y), Roll(joints, a, x) \in OnTrack
  PROVE  SameEnd(Roll(joints, Roll(joints, a, x), y), Roll(joints, a, x + y))
<1> DEFINE W == Walk(joints)
           l == Rolling(a, x)
           e == W[l]
           b == Roll(joints, a, x)
           z == Seen(y, 1, a.dir)
<1>1. /\ InRange(l) /\ l \in Walker /\ l.track = a.track /\ l.s = a.s
      /\ l.dir = a.dir /\ l.left = Seen(x, 1, a.dir) /\ a.dir \in Signs
  BY RollingType, OnTrackIs
<1>2. b = [track |-> e.track, s |-> e.s, dir |-> e.dir]
  BY RollType
<1>3. e.track \in Tracks /\ e.dir \in Signs /\ e.track # NoTrack
  BY <1>2, OnTrackIs, TracksAssumption
<1>4. InRange(e) /\ e \in Walker /\ e.left = 0
  <2>1. Arrived(e)
    BY <1>1, WalkArrives DEF InRange
  <2> QED
    BY <1>3, <2>1 DEF Arrived, InRange
<1> HIDE DEF e
<1>5. z \in Int /\ SameWay(l.left, z)
  BY <1>1 DEF Seen, SameWay, Signs
<1>6. SameEnd(W[Further(e, Seen(z, l.dir, e.dir))], W[Further(l, z)])
  BY <1>1, <1>3, <1>5, WalkOn DEF WalksOn, e
<1>7. Further(l, z) = Rolling(a, x + y)
  <2>1. /\ Further(l, z) \in Walker /\ Further(l, z).track = a.track /\ Further(l, z).s = a.s
        /\ Further(l, z).dir = a.dir /\ Further(l, z).left = l.left + z
    BY <1>1, <1>5, FurtherType
  <2>2. /\ Rolling(a, x + y) \in Walker /\ Rolling(a, x + y).track = a.track
        /\ Rolling(a, x + y).s = a.s /\ Rolling(a, x + y).dir = a.dir
        /\ Rolling(a, x + y).left = Seen(x + y, 1, a.dir)
    BY RollingType
  <2>3. l.left + z = Seen(x + y, 1, a.dir)
    BY <1>1 DEF Seen
  <2> HIDE DEF z, l
  <2> QED
    BY <2>1, <2>2, <2>3, WalkerType
<1>8. Further(e, Seen(z, l.dir, e.dir)) = Rolling(b, y)
  <2>1. z = Seen(y, 1, l.dir)
    BY <1>1
  <2> DEFINE w == Seen(z, l.dir, e.dir)
             m == Further(e, w)
             r == Rolling(b, y)
  <2>2. w \in Int /\ w = Seen(y, 1, e.dir)
    BY <1>1, <1>3 DEF Seen, Signs
  <2>3. /\ m \in Walker /\ m.track = e.track /\ m.s = e.s /\ m.dir = e.dir
        /\ m.left = e.left + w
    BY <1>4, <2>2, FurtherType
  <2>4. b.track = e.track /\ b.s = e.s /\ b.dir = e.dir
    BY <1>2
  <2>5. /\ r \in Walker /\ r.track = b.track /\ r.s = b.s /\ r.dir = b.dir
        /\ r.left = Seen(y, 1, b.dir)
    BY RollingType
  <2>6. e.left + w = w
    BY <1>4, <2>2
  <2> HIDE DEF m, r, b, w
  <2>7. m = r
    BY <2>2, <2>3, <2>4, <2>5, <2>6, WalkerType
  <2> QED
    BY <2>7 DEF m, r, w
<1> DEFINE p == W[Rolling(b, y)]
           q == W[Rolling(a, x + y)]
<1>9. SameEnd(p, q)
  BY <1>6, <1>7, <1>8
<1>10. /\ Roll(joints, b, y) = [track |-> p.track, s |-> p.s, dir |-> p.dir]
       /\ Roll(joints, a, x + y) = [track |-> q.track, s |-> q.s, dir |-> q.dir]
  BY RollType
<1> HIDE DEF p, q
<1> QED
  BY <1>9, <1>10 DEF SameEnd

LEMMA OffsetType == AxleIds = 1..Len(Offsets) /\ \A i \in AxleIds : Offsets[i] \in Int
  BY TracksAssumption DEF AxleIds

(* A signed distance scales to one of its own sign or none.                *)
LEMMA Ahead ==
  ASSUME NEW s \in Int, NEW f \in Signs, NEW d \in Int, s * f * d >= 0
  PROVE  s = 0 \/ SameWay(s, f * d)
<1>1. f = 1 \/ f = -1
  BY DEF Signs
<1>2. CASE f = 1
  <2>1. s * d >= 0 /\ f * d = d
    BY <1>2
  <2>2. \/ s = 0 \/ SameWay(s, d)
    BY <2>1 DEF SameWay
  <2> QED
    BY <2>1, <2>2
<1>3. CASE f = -1
  <2>1. s * (-d) >= 0 /\ f * d = -d
    BY <1>3
  <2>2. \/ s = 0 \/ SameWay(s, -d)
    BY <2>1 DEF SameWay
  <2> QED
    BY <2>1, <2>2
<1> QED
  BY <1>1, <1>2, <1>3

LEMMA SameSign ==
  ASSUME NEW s \in Int, NEW x \in Int, SameWay(s, x)
  PROVE  s * x >= 0
  BY DEF SameWay

(* Two axles of which one reaches the other ahead of it roll on alike.     *)
LEMMA RollTogether ==
  ASSUME NEW joints \in Layout, NEW a \in OnTrack, NEW b \in OnTrack,
         NEW s \in Int, NEW d \in Int, SameWay(s, d),
         Roll(joints, a, d) = b,
         Roll(joints, a, s) \in OnTrack, Roll(joints, b, s) \in OnTrack
  PROVE  Roll(joints, Roll(joints, a, s), d) = Roll(joints, b, s)
<1>1. SameWay(d, s) /\ s + d = d + s
  BY DEF SameWay
<1> DEFINE p == Roll(joints, Roll(joints, a, s), d)
           q == Roll(joints, a, s + d)
           r == Roll(joints, b, s)
<1>2. SameEnd(p, q)
  BY RollOn
<1>3. SameEnd(r, q)
  BY <1>1, RollOn
<1>4. r.track # NoTrack
  BY OnTrackIs, TracksAssumption
<1> HIDE DEF p, q, r
<1>5. p = r
  BY <1>2, <1>3, <1>4 DEF SameEnd
<1> QED
  BY <1>5 DEF p, r

LEMMA MovedType ==
  ASSUME TypeOK, NEW v \in Vehicles, NEW s \in Distances, Move(v, s), ~halted'
  PROVE  /\ joint \in Layout /\ joint' = joint /\ Placed(v) /\ s \in Int
         /\ \A i \in AxleIds : /\ axles[v][i] \in OnTrack
                               /\ axles'[v][i] = Roll(joint, axles[v][i], s)
                               /\ axles'[v][i] \in OnTrack
<1> DEFINE ax == [i \in AxleIds |-> Roll(joint, axles[v][i], s)]
<1>1. joint' = joint /\ Placed(v) /\ Place(v, ax)
  BY DEF Move
<1>2. (\A i \in AxleIds : ax[i] \in OnTrack) /\ axles' = [axles EXCEPT ![v] = ax]
  BY <1>1 DEF Place
<1>3. axles'[v] = ax
  BY <1>2 DEF TypeOK
<1>4. \A i \in AxleIds : axles[v][i] \in OnTrack
  BY <1>1 DEF TypeOK, Placed
<1>5. joint \in Layout /\ s \in Int
  BY TracksAssumption DEF TypeOK, Layout
<1> QED
  BY <1>1, <1>2, <1>3, <1>4, <1>5

LEMMA ReachesOn ==
  ASSUME TypeOK, NEW v \in Vehicles, NEW s \in Distances, Move(v, s), ~halted',
         NEW f \in Signs, NEW i \in AxleIds, NEW j \in AxleIds,
         s * f * (Offsets[j] - Offsets[i]) >= 0, Reaches(v, i, j, f)
  PROVE  Reaches(v, i, j, f)'
<1> DEFINE d == f * (Offsets[j] - Offsets[i])
           a == axles[v][i]
           b == axles[v][j]
<1>1. joint \in Layout /\ joint' = joint /\ s \in Int /\ s # 0
  BY MovedType DEF Move
<1>2. /\ a \in OnTrack /\ b \in OnTrack
      /\ axles'[v][i] = Roll(joint, a, s) /\ Roll(joint, a, s) \in OnTrack
      /\ axles'[v][j] = Roll(joint, b, s) /\ Roll(joint, b, s) \in OnTrack
  BY MovedType
<1>3. d \in Int /\ SameWay(s, d)
  <2>1. Offsets[j] - Offsets[i] \in Int
    BY OffsetType
  <2>2. d \in Int
    BY <2>1 DEF Signs
  <2> QED
    BY <1>1, <2>1, <2>2, Ahead
<1>4. Roll(joint, a, d) = b
  BY DEF Reaches
<1> HIDE DEF a, b, d
<1>5. Roll(joint, Roll(joint, a, s), d) = Roll(joint, b, s)
  BY <1>1, <1>2, <1>3, <1>4, RollTogether
<1> QED
  BY <1>1, <1>2, <1>5 DEF Reaches, d

(* Of finitely many numbers one is the least.                              *)
LEMMA LeastOf ==
  ASSUME NEW k \in Nat, k > 0, NEW o \in [1..k -> Int]
  PROVE  \E i \in 1..k : \A j \in 1..k : o[i] <= o[j]
<1> DEFINE First(n, i) == \A j \in 1..n : o[i] <= o[j]
           Has(n) == \E i \in 1..n : First(n, i)
           Bad == {n \in Nat : 0 < n /\ n <= k /\ ~Has(n)}
<1>1. SUFFICES ASSUME Bad # {} PROVE FALSE
  <2>1. k \notin Bad => Has(k)
    OBVIOUS
  <2> QED
    BY <2>1
<1>2. PICK n \in Bad : \A m \in Bad : n <= m
  <2>1. Bad \subseteq Nat
    OBVIOUS
  <2> HIDE DEF Bad
  <2> QED
    BY <1>1, <2>1, Least
<1>3. n \in Nat /\ 0 < n /\ n <= k /\ ~Has(n)
  BY <1>2
<1>4. n # 1
  <2>1. 1 \in 1..1 /\ 1 \in 1..k /\ \A j \in 1..1 : j = 1
    OBVIOUS
  <2>2. First(1, 1)
    <3>1. o[1] \in Int
      BY <2>1
    <3> QED
      BY <2>1, <3>1
  <2>3. Has(1)
    BY <2>1, <2>2
  <2> QED
    BY <1>3, <2>3
<1>5. PICK i \in 1..(n - 1) : First(n - 1, i)
  <2>1. n - 1 \in Nat /\ 0 < n - 1 /\ n - 1 <= k /\ n - 1 < n
    BY <1>3, <1>4
  <2> DEFINE m == n - 1
  <2>2. m \notin Bad
    <3> HIDE DEF Bad
    <3>1. m \in Bad => n <= m
      BY <1>2
    <3> HIDE DEF m
    <3> QED
      BY <1>3, <2>1, <3>1 DEF m
  <2> HIDE DEF First
  <2>3. Has(m)
    BY <2>1, <2>2
  <2> QED
    BY <2>3
<1>6. /\ n \in 1..n /\ i \in 1..n /\ \A j \in 1..n : j = n \/ j \in 1..(n - 1)
      /\ \A j \in 1..n : j \in 1..k
  BY <1>3
<1>7. \A j \in 1..n : o[j] \in Int
  BY <1>6
<1>8. CASE o[i] <= o[n]
  <2>1. First(n, i)
    BY <1>5, <1>6, <1>8
  <2> QED
    BY <1>3, <1>6, <2>1
<1>9. CASE ~(o[i] <= o[n])
  <2>1. ASSUME NEW j \in 1..n PROVE o[n] <= o[j]
    <3>1. o[i] \in Int /\ o[j] \in Int /\ o[n] \in Int
      BY <1>6, <1>7
    <3>2. j = n \/ o[i] <= o[j]
      BY <1>5, <1>6
    <3> QED
      BY <1>9, <3>1, <3>2
  <2> QED
    BY <1>3, <1>6, <2>1
<1> QED
  BY <1>8, <1>9

LEMMA Hindmost ==
  ASSUME NEW r \in Signs
  PROVE  \E i \in AxleIds : \A j \in AxleIds : r * (Offsets[j] - Offsets[i]) >= 0
<1> DEFINE k == Len(Offsets)
           o == [i \in 1..k |-> r * Offsets[i]]
<1>1. k \in Nat /\ k > 0
  BY TracksAssumption
<1>2. o \in [1..k -> Int]
  BY OffsetType DEF Signs
<1>3. PICK i \in 1..k : \A j \in 1..k : o[i] <= o[j]
  <2> HIDE DEF k, o
  <2> QED
    BY <1>1, <1>2, LeastOf
<1>4. ASSUME NEW j \in 1..k PROVE r * (Offsets[j] - Offsets[i]) >= 0
  <2>1. o[j] = r * Offsets[j] /\ o[i] = r * Offsets[i] /\ o[i] <= o[j]
    BY <1>3
  <2>2. Offsets[j] \in Int /\ Offsets[i] \in Int /\ r \in {1, -1}
    BY OffsetType DEF Signs
  <2> HIDE DEF o
  <2> QED
    BY <2>1, <2>2
<1> QED
  BY <1>4, OffsetType

LEMMA MoveKeepsTogether ==
  ASSUME TypeOK, NEW v \in Vehicles, NEW s \in Distances, Move(v, s), ~halted',
         HindmostReaches(v, s)
  PROVE  HindmostReaches(v, s)'
<1>1. PICK f \in Signs, i \in AxleIds : \A j \in AxleIds :
         s * f * (Offsets[j] - Offsets[i]) >= 0 /\ Reaches(v, i, j, f)
  BY DEF HindmostReaches
<1>2. \A j \in AxleIds : Reaches(v, i, j, f)'
  BY <1>1, ReachesOn
<1>3. Placed(v)'
  <2>1. \A k \in AxleIds : axles'[v][k] \in OnTrack
    BY MovedType
  <2>2. Nowhere \notin OnTrack
    BY OnTrackIs, TracksAssumption DEF Nowhere
  <2> QED
    BY <2>1, <2>2 DEF Placed
<1> QED
  BY <1>1, <1>2, <1>3 DEF HindmostReaches

LEMMA WholeIsReached ==
  ASSUME TypeOK, NEW v \in Vehicles, NEW s \in Distances, Whole(v)
  PROVE  HindmostReaches(v, s)
<1>1. PICK f \in Signs : Stands(v, f)
  BY DEF Whole
<1>2. s \in Int
  BY TracksAssumption
<1> DEFINE r == IF s >= 0 THEN f ELSE -f
<1>3. r \in Signs
  BY DEF Signs
<1>4. PICK i \in AxleIds : \A j \in AxleIds : r * (Offsets[j] - Offsets[i]) >= 0
  <2> HIDE DEF r
  <2> QED
    BY <1>3, Hindmost
<1>5. ASSUME NEW j \in AxleIds PROVE s * f * (Offsets[j] - Offsets[i]) >= 0
  <2> DEFINE d == Offsets[j] - Offsets[i]
  <2>1. d \in Int /\ r * d >= 0
    BY <1>4, OffsetType
  <2> HIDE DEF d, r
  <2>2. f = 1 \/ f = -1
    BY DEF Signs
  <2> DEFINE x == f * d
  <2>3. x \in Int /\ SameWay(s, x)
    <3>1. CASE f = 1
      BY <1>2, <2>1, <3>1 DEF SameWay, r
    <3>2. CASE f = -1
      BY <1>2, <2>1, <3>2 DEF SameWay, r
    <3> QED
      BY <2>2, <3>1, <3>2
  <2>4. s * f * d = s * x
    BY <1>2, <2>1, <2>2
  <2> HIDE DEF x
  <2>5. s * x >= 0
    BY <1>2, <2>3, SameSign
  <2> QED
    BY <2>4, <2>5 DEF d
<1> QED
  BY <1>1, <1>4, <1>5 DEF HindmostReaches, Stands

(* Whatever joints its axles cross, and when, a moving vehicle takes along *)
(* what its hindmost axle can reach (TTrackFollower::Move, 131-224), on    *)
(* any layout of tracks and with switches thrown between any two moves.    *)
THEOREM Together == Spec => MovesTogether
<1> DEFINE A == \A v \in Vehicles, s \in Distances :
                  Move(v, s) /\ HindmostReaches(v, s) /\ ~halted' => HindmostReaches(v, s)'
<1>1. TypeOK => [A]_vars
  BY MoveKeepsTogether
<1> QED
  BY <1>1, TypeCorrect, PTL DEF MovesTogether

(* Of WholeUntilCut what is about nDynamic::Move holds on any layout: no   *)
(* move tears a vehicle apart.                                             *)
THEOREM MovesWhole ==
  Spec => [][\A v \in Vehicles, s \in Distances :
               Move(v, s) /\ Whole(v) /\ ~halted' => Trails(v)']_vars
<1> DEFINE A == \A v \in Vehicles, s \in Distances :
                  Move(v, s) /\ Whole(v) /\ ~halted' => Trails(v)'
<1>1. TypeOK => [A]_vars
  <2> SUFFICES ASSUME TypeOK, NEW v \in Vehicles, NEW s \in Distances, Move(v, s),
                      Whole(v), ~halted'
               PROVE  Trails(v)'
    OBVIOUS
  <2>1. HindmostReaches(v, s)'
    BY WholeIsReached, MoveKeepsTogether
  <2> QED
    BY <2>1 DEF HindmostReaches, Trails
<1> QED
  BY <1>1, TypeCorrect, PTL

-----------------------------------------------------------------------------
(* The report of the network client *)

(* The middle lies between the axles.                                      *)
Straddles ==
  (\E i \in AxleIds : Offsets[i] <= 0) /\ (\E i \in AxleIds : Offsets[i] >= 0)

(* Whichever axle is asked, the middle of v is at one place on a track.    *)
MiddleAgreed(v) ==
  /\ Middle(v) \in OnTrack
  /\ \A i \in AxleIds : Roll(joint, axles[v][i], -Offsets[i]) = Middle(v)

(* ForwardReportIsExact of the vehicles whose axles agree on the middle.   *)
ExactIfAgreed ==
  \A v \in Vehicles :
    facing[v] = 1 /\ Stands(v, 1) /\ Middle(v).dir = 1 /\ MiddleAgreed(v) =>
      \A i \in AxleIds :
        InitAxle(joint, Middle(v).track, Middle(v).s * Middle(v).dir, Offsets[i])
          = axles[v][i]

LEMMA RollWithin ==
  ASSUME NEW joints \in Layout, NEW a \in OnTrack, NEW d \in Int,
         LET s == a.s + Seen(d, 1, a.dir) IN 0 <= s /\ s <= Length[a.track]
  PROVE  Roll(joints, a, d)
           = [track |-> a.track, s |-> a.s + Seen(d, 1, a.dir), dir |-> a.dir]
<1> DEFINE l == Rolling(a, d)
           s == a.s + Seen(d, 1, a.dir)
<1>1. /\ InRange(l) /\ l \in Walker /\ l.track = a.track /\ l.s = a.s
      /\ l.dir = a.dir /\ l.left = Seen(d, 1, a.dir)
  BY RollingType
<1>2. /\ a.s \in Int /\ Seen(d, 1, a.dir) \in Int /\ a.track # NoTrack
      /\ Length[a.track] \in Int
  BY OnTrackIs, TracksAssumption DEF Seen
<1>3. Aim(l) = s /\ s \in Int /\ 0 <= s /\ s <= Length[a.track]
  BY <1>1, <1>2 DEF Aim
<1>4. l = [track |-> l.track, s |-> l.s, dir |-> l.dir, left |-> l.left]
  BY <1>1, WalkerType
<1> HIDE DEF l, s
<1>5. Beyond(l) = 0
  BY <1>1, <1>2, <1>3 DEF Beyond
<1>6. Walk(joints)[l] = Stopped(l)
  BY <1>1, <1>5, WalkUnfolds DEF Round, Crosses, Leaves
<1>7. Stopped(l) = [track |-> a.track, s |-> s, dir |-> a.dir, left |-> 0]
  <2>1. ~Leaves(l) /\ l.track # NoTrack
    BY <1>1, <1>2, <1>5 DEF Leaves
  <2>2. Stopped(l) = [track |-> l.track, s |-> Aim(l), dir |-> l.dir, left |-> 0]
    BY <1>4, <2>1 DEF Stopped
  <2> QED
    BY <1>1, <1>3, <2>2
<1> DEFINE end == Walk(joints)[l]
<1>8. Roll(joints, a, d) = [track |-> end.track, s |-> end.s, dir |-> end.dir]
  BY RollType DEF l
<1>9. end.track = a.track /\ end.s = s /\ end.dir = a.dir
  BY <1>6, <1>7
<1> HIDE DEF end
<1> QED
  BY <1>8, <1>9 DEF s

(* Putting an axle d from the place at s of a track is rolling it d from   *)
(* there, wherever that leads.                                             *)
LEMMA InitIsRoll ==
  ASSUME NEW joints \in Layout, NEW m \in OnTrack, m.dir = 1, NEW d \in Int,
         Roll(joints, m, d) \in OnTrack
  PROVE  InitAxle(joints, m.track, m.s * m.dir, d) = Roll(joints, m, d)
<1> DEFINE z == [track |-> m.track, s |-> 0, dir |-> 1]
           n == m.s
<1>1. /\ m.track \in Tracks /\ n \in Nat /\ n <= Length[m.track]
      /\ Length[m.track] \in Nat \ {0} /\ m = [track |-> m.track, s |-> n, dir |-> 1]
  BY OnTrackIs, TracksAssumption
<1>2. z \in OnTrack
  <2>1. 0 \in 0..Length[m.track] /\ 1 \in Signs
    BY <1>1 DEF Signs
  <2> QED
    BY <1>1, <2>1, IsOnTrack
<1>3. InitAxle(joints, m.track, m.s * m.dir, d) = Roll(joints, z, d + n)
  <2>1. m.s * m.dir = n /\ Abs(n) = n /\ n >= 0
    BY <1>1 DEF Abs
  <2> DEFINE dist == m.s * m.dir
             dir  == IF dist >= 0 THEN 1 ELSE -1
             w    == d + Abs(dist)
  <2>2. InitAxle(joints, m.track, dist, d)
          = Roll(joints, [track |-> m.track, s |-> 0, dir |-> dir], w)
    BY DEF InitAxle
  <2>3. dir = 1 /\ w = d + n
    BY <2>1
  <2> HIDE DEF n, w, dir, dist
  <2> QED
    BY <2>2, <2>3 DEF dist
<1>4. z.track = m.track /\ z.s = 0 /\ z.dir = 1
  OBVIOUS
<1> HIDE DEF z
<1>5. CASE d >= 0
  <2>1. Roll(joints, z, n) = m
    BY <1>1, <1>2, <1>4, RollWithin DEF Seen
  <2>2. SameWay(n, d) /\ n + d = d + n
    BY <1>1, <1>5 DEF SameWay
  <2>3. SameEnd(Roll(joints, m, d), Roll(joints, z, d + n))
    BY <1>1, <1>2, <2>1, <2>2, RollOn
  <2> QED
    BY <1>3, <2>3, OnTrackIs, TracksAssumption DEF SameEnd
<1>6. CASE d < 0 /\ d + n >= 0
  <2>1. Roll(joints, m, d) = [track |-> m.track, s |-> n + d, dir |-> 1]
    BY <1>1, <1>6, RollWithin DEF Seen
  <2>2. Roll(joints, z, d + n) = [track |-> m.track, s |-> 0 + (d + n), dir |-> 1]
    BY <1>1, <1>2, <1>4, <1>6, RollWithin DEF Seen
  <2> QED
    BY <1>1, <1>3, <2>1, <2>2
<1>7. CASE d < 0 /\ d + n < 0
  <2>1. Roll(joints, m, -n) = z
    <3>1. Roll(joints, m, -n) = [track |-> m.track, s |-> n + (-n), dir |-> 1]
      BY <1>1, RollWithin DEF Seen
    <3> QED
      BY <1>1, <3>1 DEF z
  <2>2. SameWay(-n, d + n) /\ -n + (d + n) = d /\ -n \in Int /\ d + n \in Int
    BY <1>1, <1>7 DEF SameWay
  <2>3. SameEnd(Roll(joints, z, d + n), Roll(joints, m, d))
    BY <1>2, <2>1, <2>2, RollOn
  <2> QED
    BY <1>3, <2>3, OnTrackIs, TracksAssumption DEF SameEnd
<1> QED
  BY <1>1, <1>5, <1>6, <1>7

(* Where the network client of another player puts a vehicle is where it   *)
(* stands, on any layout of tracks and at any moment, when the axles agree *)
(* on where the middle is (GetMiddleTrackAndDistance asks only one of      *)
(* them, ndynamic_main.cc:592-605; SetTrack places every axle from there,  *)
(* ndplayclient_main.cc:612-615 and 561-564).                              *)
THEOREM ReportIsExact == Straddles => (Spec => []ExactIfAgreed)
<1> SUFFICES ASSUME Straddles PROVE Spec => []ExactIfAgreed
  OBVIOUS
<1>1. ASSUME TypeOK, NEW v \in Vehicles, Stands(v, 1), Middle(v).dir = 1,
             MiddleAgreed(v), NEW i \in AxleIds
      PROVE  InitAxle(joint, Middle(v).track, Middle(v).s * Middle(v).dir, Offsets[i])
               = axles[v][i]
  <2> DEFINE a(k) == axles[v][k]
             m == Middle(v)
  <2>1. joint \in Layout /\ \A k \in AxleIds : a(k) \in OnTrack /\ Offsets[k] \in Int
    BY <1>1, OffsetType DEF TypeOK, Layout, Stands, Placed
  <2>2. PICK q \in AxleIds : SameWay(-Offsets[q], Offsets[i])
    <3>1. Offsets[i] >= 0 \/ Offsets[i] <= 0
      BY <2>1
    <3> QED
      BY <2>1, <3>1 DEF Straddles, SameWay
  <2>3. Roll(joint, a(q), -Offsets[q]) = m
    BY <1>1 DEF MiddleAgreed
  <2>4. Roll(joint, a(q), Offsets[i] - Offsets[q]) = a(i)
    <3>1. 1 * (Offsets[i] - Offsets[q]) = Offsets[i] - Offsets[q]
      BY <2>1
    <3> QED
      BY <1>1, <3>1 DEF Stands, Reaches
  <2>5. m \in OnTrack
    BY <1>1 DEF MiddleAgreed
  <2>6. Roll(joint, m, Offsets[i]) = a(i)
    <3>1. -Offsets[q] \in Int /\ -Offsets[q] + Offsets[i] = Offsets[i] - Offsets[q]
      BY <2>1
    <3> DEFINE b == a(q)
               x == -Offsets[q]
               y == Offsets[i]
               r == Roll(joint, b, x + y)
    <3>2. r = a(i)
      BY <2>4, <3>1
    <3>3. b \in OnTrack /\ x \in Int /\ y \in Int /\ SameWay(x, y) /\ Roll(joint, b, x) = m
      BY <2>1, <2>2, <2>3, <3>1
    <3> HIDE DEF b, x, y, m
    <3>4. SameEnd(Roll(joint, m, y), r)
      BY <2>1, <2>5, <3>3, RollOn
    <3>5. a(i).track # NoTrack
      BY <2>1, OnTrackIs, TracksAssumption
    <3> HIDE DEF r
    <3> QED
      BY <3>2, <3>4, <3>5 DEF SameEnd, y
  <2> QED
    BY <1>1, <2>1, <2>5, <2>6, InitIsRoll
<1>2. TypeOK => ExactIfAgreed
  BY <1>1 DEF ExactIfAgreed
<1> QED
  BY <1>2, TypeCorrect, PTL

-----------------------------------------------------------------------------
(* Walking back *)

(* The end by which an axle that crosses a joint at end e comes in.        *)
Entered(e, swap) == IF swap THEN e ELSE IF e = "prev" THEN "next" ELSE "prev"

(* The track a joint leads to has it as well, and leads back.              *)
KnownThere(joints, t, e) ==
  LET j == joints[t][e] IN
  j.to # NoTrack /\ joints[j.to][Entered(e, j.swap)] = [to |-> t, swap |-> j.swap]

TwoWay(joints) ==
  \A t \in Tracks, e \in Ends : joints[t][e].to # NoTrack => KnownThere(joints, t, e)

(* The layout without the joints that only one track has.                  *)
Known(joints) ==
  [t \in Tracks |-> [e \in Ends |->
     IF KnownThere(joints, t, e) THEN joints[t][e] ELSE [to |-> NoTrack, swap |-> FALSE]]]

Within(part, whole) ==
  \A t \in Tracks, e \in Ends : part[t][e].to # NoTrack => whole[t][e] = part[t][e]

LEMMA EnteredType ==
  ASSUME NEW e \in Ends, NEW swap \in BOOLEAN
  PROVE  Entered(e, swap) \in Ends /\ Entered(Entered(e, swap), swap) = e
BY DEF Entered, Ends

LEMMA JointType ==
  ASSUME NEW joints \in Layout, NEW t \in Tracks, NEW e \in Ends
  PROVE  /\ joints[t][e] \in Joint
         /\ joints[t][e].to \in Tracks \cup {NoTrack} /\ joints[t][e].swap \in BOOLEAN
         /\ joints[t][e] = [to |-> joints[t][e].to, swap |-> joints[t][e].swap]
<1>1. joints[t][e] \in Joint
  BY DEF Layout
<1> QED
  BY <1>1 DEF Joint

LEMMA KnownType ==
  ASSUME NEW joints \in Layout
  PROVE  Known(joints) \in Layout /\ TwoWay(Known(joints)) /\ Within(Known(joints), joints)
<1> DEFINE k == Known(joints)
           none == [to |-> NoTrack, swap |-> FALSE]
<1>1. \A t \in Tracks, e \in Ends :
        k[t][e] = IF KnownThere(joints, t, e) THEN joints[t][e] ELSE none
  BY DEF Known
<1>2. none \in Joint /\ none.to = NoTrack
  BY DEF Joint
<1>3. k \in Layout
  <2>1. ASSUME NEW t \in Tracks, NEW e \in Ends
        PROVE  (IF KnownThere(joints, t, e) THEN joints[t][e] ELSE none) \in Joint
    BY <1>2, JointType
  <2> QED
    BY <2>1 DEF Known, Layout
<1> HIDE DEF k, none
<1>4. Within(k, joints)
  BY <1>1, <1>2 DEF Within
<1>5. ASSUME NEW t \in Tracks, NEW e \in Ends, k[t][e].to # NoTrack
      PROVE  KnownThere(k, t, e)
  <2> DEFINE j == joints[t][e]
             u == j.to
             d == Entered(e, j.swap)
  <2>1. KnownThere(joints, t, e) /\ k[t][e] = j
    BY <1>1, <1>2, <1>5
  <2>2. /\ u \in Tracks /\ u # NoTrack /\ j.swap \in BOOLEAN
        /\ j = [to |-> u, swap |-> j.swap]
    BY <2>1, JointType DEF KnownThere
  <2>3. d \in Ends /\ Entered(d, j.swap) = e
    BY <2>2, EnteredType
  <2>4. joints[u][d] = [to |-> t, swap |-> j.swap]
    BY <2>1 DEF KnownThere
  <2>5. t # NoTrack
    BY TracksAssumption
  <2>6. joints[u][d].to = t /\ joints[u][d].swap = j.swap
    BY <2>4
  <2> HIDE DEF j, u, d
  <2>7. KnownThere(joints, u, d)
    <3>1. joints[t][e] = [to |-> u, swap |-> j.swap]
      BY <2>2 DEF j
    <3> QED
      BY <2>3, <2>5, <2>6, <3>1 DEF KnownThere
  <2>8. k[u][d] = joints[u][d]
    BY <1>1, <2>2, <2>3, <2>7
  <2> QED
    BY <2>1, <2>2, <2>4, <2>8 DEF KnownThere, u, d
<1> QED
  BY <1>3, <1>4, <1>5 DEF k, TwoWay

(* What an axle walks to over some of the joints it walks to over all.     *)
LEMMA WalkWithin ==
  ASSUME NEW part \in Layout, NEW whole \in Layout, Within(part, whole),
         NEW l \in Walker, l.track \in Tracks, Walk(part)[l].track # NoTrack
  PROVE  Walk(whole)[l] = Walk(part)[l]
<1> DEFINE P == Walk(part)
           W == Walk(whole)
           Wrong(x) == x \in Walker /\ x.track \in Tracks /\ P[x].track # NoTrack /\ W[x] # P[x]
           Bad == {n \in Nat : \E x \in Walker : Wrong(x) /\ Beyond(x) = n}
<1>1. ASSUME NEW x \in Walker, Wrong(x) PROVE Beyond(x) \in Nat
  BY <1>1, WalkerType, TracksAssumption DEF Beyond
<1>2. SUFFICES ASSUME Bad # {} PROVE FALSE
  BY <1>1
<1>3. PICK n \in Bad : \A m \in Bad : n <= m
  BY <1>2, Least
<1>4. PICK x \in Walker : Wrong(x) /\ Beyond(x) = n
  BY <1>3
<1>5. P[x] = Round(part, P, x) /\ W[x] = Round(whole, W, x)
  BY WalkUnfolds
<1> HIDE DEF P, W
<1>6. CASE Crosses(part, x)
  <2> DEFINE c == Crossed(part, x)
  <2>1. Exit(whole, x) = Exit(part, x)
    BY <1>4, <1>6 DEF Crosses, Exit, Within, Ends
  <2>2. Crosses(whole, x) /\ Crossed(whole, x) = c
    BY <1>6, <2>1 DEF Crosses, Crossed
  <2>3. P[x] = P[c] /\ W[x] = W[c]
    BY <1>5, <1>6, <2>2 DEF Round
  <2>4. c \in Walker /\ c.track \in Tracks /\ Beyond(c) \in Nat /\ Beyond(c) < n
    BY <1>4, <1>6, CrossedType
  <2> HIDE DEF c
  <2>5. Beyond(c) \in Bad
    BY <1>4, <2>3, <2>4
  <2> QED
    BY <1>3, <2>4, <2>5
<1>7. CASE ~Crosses(part, x)
  <2>1. P[x] = Stopped(x)
    BY <1>5, <1>7 DEF Round
  <2>2. ~Leaves(x)
    <3> SUFFICES ASSUME Leaves(x) PROVE FALSE
      OBVIOUS
    <3>1. Stopped(x) = [x EXCEPT !.track = NoTrack]
      BY DEF Stopped, Leaves
    <3>2. x = [track |-> x.track, s |-> x.s, dir |-> x.dir, left |-> x.left]
      BY WalkerType
    <3>3. Stopped(x).track = NoTrack
      BY <3>1, <3>2
    <3> QED
      BY <1>4, <2>1, <3>3
  <2>3. W[x] = Stopped(x)
    BY <1>5, <2>2 DEF Round, Crosses
  <2> QED
    BY <1>4, <2>1, <2>3
<1> QED
  BY <1>6, <1>7

LEMMA RollOverPart ==
  ASSUME NEW part \in Layout, NEW whole \in Layout, Within(part, whole),
         NEW a \in OnTrack, NEW d \in Int, Roll(part, a, d) \in OnTrack
  PROVE  Roll(whole, a, d) = Roll(part, a, d)
<1> DEFINE l == Rolling(a, d)
           p == Walk(part)[l]
           q == Walk(whole)[l]
<1>1. /\ Roll(part, a, d) = [track |-> p.track, s |-> p.s, dir |-> p.dir]
      /\ Roll(whole, a, d) = [track |-> q.track, s |-> q.s, dir |-> q.dir]
  BY RollType
<1>2. l \in Walker /\ l.track \in Tracks
  BY RollingType, OnTrackIs
<1>3. Roll(part, a, d).track # NoTrack
  BY OnTrackIs, TracksAssumption
<1> HIDE DEF l
<1>4. p.track # NoTrack
  <2> HIDE DEF p
  <2> QED
    BY <1>1, <1>3
<1>5. q = p
  BY <1>2, <1>4, WalkWithin
<1> QED
  BY <1>1, <1>5

(* The end by which l leaves its track, and how far it is there.           *)
ToEnd(l) == IF Aim(l) < 0 THEN l.s ELSE Length[l.track] - l.s

(* Beside l, on the other side of the joint l crosses, an axle that has r  *)
(* to go the other way.                                                    *)
Facing(joints, l, r) ==
  LET c == Crossed(joints, l) IN
  [track |-> c.track, s |-> c.s, dir |-> c.dir,
   left |-> IF (Aim(l) < 0) = Exit(joints, l).swap THEN -r ELSE r]

LEMMA CrossBack ==
  ASSUME NEW joints \in Layout, TwoWay(joints), NEW l, InRange(l), Crosses(joints, l),
         NEW r \in Nat \ {0}
  PROVE  /\ Facing(joints, l, r) \in Walker /\ Crosses(joints, Facing(joints, l, r))
         /\ Crossed(joints, Facing(joints, l, r)) =
              [track |-> l.track, s |-> IF Aim(l) < 0 THEN 0 ELSE Length[l.track],
               dir |-> l.dir, left |-> IF Aim(l) < 0 THEN r ELSE -r]
<1> DEFINE j == Exit(joints, l)
           e == IF Aim(l) < 0 THEN "prev" ELSE "next"
           c == Crossed(joints, l)
           p == (Aim(l) < 0) = j.swap
           b == Facing(joints, l, r)
           back == joints[c.track][IF p THEN "prev" ELSE "next"]
<1>1. /\ l \in Walker /\ l.track \in Tracks /\ l.dir \in Signs /\ Aim(l) \in Int
      /\ l.track # NoTrack /\ Length[l.track] \in Nat \ {0}
  BY WalkerType, TracksAssumption DEF InRange
<1>2. /\ c \in Walker /\ c.track \in Tracks /\ j.swap \in BOOLEAN
      /\ c.s \in 0..Length[c.track]
  BY <1>1, CrossedType
<1>3. /\ c.track = j.to /\ c.s = (IF p THEN 0 ELSE Length[c.track])
      /\ c.dir = (IF j.swap THEN -l.dir ELSE l.dir)
  BY DEF Crossed
<1>4. e \in Ends /\ j = joints[l.track][e]
  BY DEF Ends, Exit
<1>5. back = [to |-> l.track, swap |-> j.swap]
  <2>1. Entered(e, j.swap) = IF p THEN "prev" ELSE "next"
    BY <1>2 DEF Entered
  <2>2. KnownThere(joints, l.track, e)
    BY <1>1, <1>4 DEF TwoWay, Crosses
  <2> HIDE DEF p, j, e, c
  <2> QED
    BY <1>3, <1>4, <2>1, <2>2 DEF KnownThere
<1>6. b = [track |-> c.track, s |-> c.s, dir |-> c.dir, left |-> IF p THEN -r ELSE r]
  BY DEF Facing
<1>7. p <=> \/ Aim(l) < 0 /\ j.swap
            \/ ~(Aim(l) < 0) /\ ~j.swap
  BY <1>2
<1>8. Length[c.track] \in Nat \ {0} /\ c.track # NoTrack /\ c.dir \in Signs
  BY <1>2, TracksAssumption, WalkerType
<1> HIDE DEF b, c, p
<1>9. b \in Walker /\ b.track = c.track /\ b.dir = c.dir
  <2>1. c.s \in Int /\ (IF p THEN -r ELSE r) \in Int
    BY <1>2, <1>8
  <2> QED
    BY <1>2, <1>6, <1>8, <2>1 DEF Walker
<1>10. Aim(b) \in Int /\ ((Aim(b) < 0) <=> p) /\ Beyond(b) = r
  <2>1. CASE p
    <3>1. Aim(b) = -r
      BY <1>3, <1>6, <2>1 DEF Aim
    <3> QED
      BY <1>8, <2>1, <3>1 DEF Beyond
  <2>2. CASE ~p
    <3>1. Aim(b) = Length[c.track] + r
      BY <1>3, <1>6, <1>8, <2>2 DEF Aim
    <3> QED
      BY <1>8, <1>9, <2>2, <3>1 DEF Beyond
  <2> QED
    BY <2>1, <2>2
<1>11. Exit(joints, b) = back
  BY <1>9, <1>10 DEF Exit
<1>12. Crosses(joints, b)
  <2>1. back.to = l.track
    BY <1>5
  <2> HIDE DEF back
  <2> QED
    BY <1>1, <1>8, <1>9, <1>10, <1>11, <2>1 DEF Crosses, Leaves
<1> DEFINE q == (Aim(b) < 0) = back.swap
<1>13. Crossed(joints, b) = [track |-> back.to, s |-> IF q THEN 0 ELSE Length[back.to],
                             dir |-> IF back.swap THEN -b.dir ELSE b.dir,
                             left |-> IF q THEN Beyond(b) ELSE -Beyond(b)]
  BY <1>11 DEF Crossed
<1>14. back.to = l.track /\ back.swap = j.swap
  BY <1>5
<1>15. q <=> Aim(l) < 0
  <2> HIDE DEF back, j
  <2>1. q <=> \/ (Aim(b) < 0) /\ j.swap
              \/ ~(Aim(b) < 0) /\ ~j.swap
    BY <1>2, <1>14
  <2> HIDE DEF q
  <2> QED
    BY <1>2, <1>7, <1>10, <2>1
<1>16. (IF back.swap THEN -b.dir ELSE b.dir) = l.dir
  <2> HIDE DEF back, j
  <2> QED
    BY <1>1, <1>3, <1>9, <1>14 DEF Signs
<1> HIDE DEF q, back, j, e
<1>17. Crossed(joints, b) = [track |-> l.track, s |-> IF q THEN 0 ELSE Length[l.track],
                             dir |-> l.dir, left |-> IF q THEN r ELSE -r]
  BY <1>10, <1>13, <1>14, <1>16
<1> QED
  BY <1>9, <1>12, <1>15, <1>17 DEF b

(* l is not already at the end by which it leaves its track.               *)
HasWay(l) == Leaves(l) => ToEnd(l) > 0

(* From an axle that has come to e, which had left l.left to go, back.     *)
Return(l, e) ==
  [track |-> e.track, s |-> e.s, dir |-> e.dir, left |-> -Seen(l.left, l.dir, e.dir)]

Returns(joints, l) ==
  LET e == Walk(joints)[l] IN
  e.track # NoTrack =>
    Walk(joints)[Return(l, e)] = [track |-> l.track, s |-> l.s, dir |-> l.dir, left |-> 0]

(* One that stops on its own track comes back.                             *)
LEMMA StopsAndReturns ==
  ASSUME NEW joints \in Layout, NEW l, InRange(l), ~Crosses(joints, l)
  PROVE  Returns(joints, l)
<1> DEFINE W == Walk(joints)
           e == W[l]
           b == Return(l, e)
<1> SUFFICES ASSUME e.track # NoTrack
             PROVE  W[b] = [track |-> l.track, s |-> l.s, dir |-> l.dir, left |-> 0]
  BY DEF Returns
<1>1. /\ l \in Walker /\ l.track \in Tracks /\ l.dir \in Signs /\ Aim(l) \in Int
      /\ l.track # NoTrack /\ Length[l.track] \in Nat \ {0}
      /\ l.s \in 0..Length[l.track] /\ l.s \in Int /\ l.left \in Int
      /\ l = [track |-> l.track, s |-> l.s, dir |-> l.dir, left |-> l.left]
  BY WalkerType, TracksAssumption DEF InRange
<1>2. e = Stopped(l)
  BY <1>1, WalkUnfolds DEF Round
<1>3. ~Leaves(l)
  <2> SUFFICES ASSUME Leaves(l) PROVE FALSE
    OBVIOUS
  <2>1. Stopped(l) = [l EXCEPT !.track = NoTrack]
    BY <1>1 DEF Stopped
  <2>2. Stopped(l).track = NoTrack
    BY <1>1, <2>1
  <2> QED
    BY <1>2, <2>2
<1>4. e = [track |-> l.track, s |-> Aim(l), dir |-> l.dir, left |-> 0]
  BY <1>1, <1>2, <1>3 DEF Stopped
<1>5. b = [track |-> l.track, s |-> Aim(l), dir |-> l.dir, left |-> -l.left]
  BY <1>4 DEF Return, Seen
<1> HIDE DEF b, e, W
<1>6. b \in Walker
  BY <1>1, <1>5 DEF Walker
<1>7. Aim(b) = l.s /\ b.track = l.track
  BY <1>1, <1>5 DEF Aim
<1>8. Beyond(b) = 0
  BY <1>1, <1>7 DEF Beyond
<1>9. ~Crosses(joints, b) /\ ~Leaves(b)
  BY <1>8 DEF Crosses, Leaves
<1>10. W[b] = Stopped(b)
  BY <1>6, <1>9, WalkUnfolds DEF Round, W
<1>11. Stopped(b) = [b EXCEPT !.s = l.s, !.left = 0]
  BY <1>1, <1>7, <1>9 DEF Stopped
<1> QED
  BY <1>5, <1>10, <1>11

(* Where the joint is crossed the other way, r back from the end is l.     *)
LEMMA BackToStart ==
  ASSUME NEW joints \in Layout, TwoWay(joints), NEW l, InRange(l), Crosses(joints, l),
         ToEnd(l) > 0
  PROVE  Walk(joints)[Facing(joints, l, ToEnd(l))]
           = [track |-> l.track, s |-> l.s, dir |-> l.dir, left |-> 0]
<1> DEFINE W == Walk(joints)
           r == ToEnd(l)
           b == Facing(joints, l, r)
           x == Crossed(joints, b)
<1>1. /\ l \in Walker /\ l.track \in Tracks /\ l.dir \in Signs /\ Aim(l) \in Int
      /\ l.track # NoTrack /\ Length[l.track] \in Nat \ {0}
      /\ l.s \in 0..Length[l.track] /\ l.s \in Nat
  BY WalkerType, TracksAssumption DEF InRange
<1>2. r \in Nat \ {0}
  BY <1>1 DEF ToEnd
<1>3. /\ b \in Walker /\ Crosses(joints, b)
      /\ x = [track |-> l.track, s |-> IF Aim(l) < 0 THEN 0 ELSE Length[l.track],
              dir |-> l.dir, left |-> IF Aim(l) < 0 THEN r ELSE -r]
  BY <1>2, CrossBack
<1>4. W[b] = W[x] /\ x \in Walker
  BY <1>3, WalkUnfolds, CrossedType DEF Round
<1> HIDE DEF b, x, W
<1>5. x.track = l.track /\ Aim(x) = l.s
  BY <1>1, <1>3 DEF Aim, ToEnd
<1>6. Beyond(x) = 0
  BY <1>1, <1>5 DEF Beyond
<1>7. W[x] = Stopped(x) /\ ~Leaves(x)
  BY <1>4, <1>6, WalkUnfolds DEF W, Round, Crosses, Leaves
<1>8. Stopped(x) = [x EXCEPT !.s = l.s, !.left = 0]
  BY <1>1, <1>5, <1>7 DEF Stopped
<1>9. W[b] = [track |-> l.track, s |-> l.s, dir |-> l.dir, left |-> 0]
  <2> HIDE DEF r
  <2> QED
    BY <1>3, <1>4, <1>7, <1>8
<1> QED
  BY <1>9 DEF W, b, r

(* The way back is the way back to the joint and the rest.                 *)
LEMMA WayBack ==
  ASSUME NEW joints \in Layout, NEW l, InRange(l), Crosses(joints, l), NEW e, InRange(e)
  PROVE  LET c == Crossed(joints, l)
             y == -Seen(IF Aim(l) < 0 THEN -ToEnd(l) ELSE ToEnd(l), l.dir, e.dir)
         IN  /\ y \in Int /\ SameWay(Return(c, e).left, y)
             /\ InRange(Return(c, e)) /\ InRange(Return(l, e))
             /\ Further(Return(c, e), y) = Return(l, e)
             /\ Further([track |-> c.track, s |-> c.s, dir |-> c.dir, left |-> 0],
                        Seen(y, e.dir, c.dir)) = Facing(joints, l, ToEnd(l))
<1> DEFINE j == Exit(joints, l)
           c == Crossed(joints, l)
           p == (Aim(l) < 0) = j.swap
           r == ToEnd(l)
           u == IF Aim(l) < 0 THEN -r ELSE r
           y == -Seen(u, l.dir, e.dir)
           b == Return(c, e)
           o == [track |-> c.track, s |-> c.s, dir |-> c.dir, left |-> 0]
<1>1. /\ l \in Walker /\ l.track \in Tracks /\ l.dir \in Signs /\ Aim(l) \in Int
      /\ l.track # NoTrack /\ Length[l.track] \in Nat \ {0}
      /\ l.s \in 0..Length[l.track] /\ l.s \in Nat /\ l.left \in Int
      /\ Aim(l) = l.s + l.left
  BY WalkerType, TracksAssumption DEF InRange, Aim
<1>2. /\ c \in Walker /\ c.track \in Tracks /\ j.swap \in BOOLEAN
      /\ c.s \in 0..Length[c.track] /\ Beyond(l) \in Nat \ {0} /\ c.left \in Int
      /\ c.dir \in Signs /\ c.s \in Int
  BY <1>1, CrossedType, WalkerType
<1>3. /\ c.dir = (IF j.swap THEN -l.dir ELSE l.dir)
      /\ c.left = (IF p THEN Beyond(l) ELSE -Beyond(l))
  BY DEF Crossed
<1>4. p <=> \/ Aim(l) < 0 /\ j.swap
            \/ ~(Aim(l) < 0) /\ ~j.swap
  BY <1>2
<1>5. /\ e \in Walker /\ e.track \in Tracks /\ e.dir \in Signs
      /\ e.s \in 0..Length[e.track] /\ e.s \in Int
  BY WalkerType DEF InRange
<1>6. r \in Nat
  BY <1>1 DEF ToEnd
<1>7. l.left = IF Aim(l) < 0 THEN -(r + Beyond(l)) ELSE r + Beyond(l)
  BY <1>1, <1>2 DEF ToEnd, Beyond
<1> HIDE DEF r, c, p, j
<1>8. y \in Int
  BY <1>6 DEF Seen
<1>9. /\ b = [track |-> e.track, s |-> e.s, dir |-> e.dir,
              left |-> -Seen(c.left, c.dir, e.dir)]
      /\ Return(l, e) = [track |-> e.track, s |-> e.s, dir |-> e.dir,
                         left |-> -Seen(l.left, l.dir, e.dir)]
  BY DEF Return
<1>10. -Seen(c.left, c.dir, e.dir) \in Int /\ -Seen(l.left, l.dir, e.dir) \in Int
  BY <1>1, <1>2 DEF Seen
<1>11. /\ InRange(b) /\ InRange(Return(l, e))
       /\ b.left = -Seen(c.left, c.dir, e.dir)
  <2>1. ASSUME NEW z \in Int
        PROVE  InRange([track |-> e.track, s |-> e.s, dir |-> e.dir, left |-> z])
    BY <1>5 DEF InRange, Walker
  <2> QED
    BY <1>9, <1>10, <2>1
<1>12. /\ SameWay(-Seen(c.left, c.dir, e.dir), y)
       /\ -Seen(c.left, c.dir, e.dir) + y = -Seen(l.left, l.dir, e.dir)
  BY <1>1, <1>2, <1>3, <1>4, <1>5, <1>6, <1>7 DEF Seen, SameWay, Signs
<1>13. Further(b, y) = Return(l, e)
  <2>1. Further(b, y) = [b EXCEPT !.left = b.left + y]
    BY DEF Further
  <2>2. \A z : [b EXCEPT !.left = z] = [track |-> e.track, s |-> e.s, dir |-> e.dir, left |-> z]
    <3> HIDE DEF b
    <3> QED
      BY <1>9
  <2> HIDE DEF b, y
  <2> QED
    BY <1>9, <1>11, <1>12, <2>1, <2>2
<1>14. Seen(y, e.dir, c.dir) = IF p THEN -r ELSE r
  BY <1>1, <1>2, <1>3, <1>4, <1>5, <1>6 DEF Seen, Signs
<1>15. Further(o, Seen(y, e.dir, c.dir)) = Facing(joints, l, r)
  <2>1. Further(o, Seen(y, e.dir, c.dir)) = [o EXCEPT !.left = 0 + Seen(y, e.dir, c.dir)]
    BY DEF Further
  <2>2. Facing(joints, l, r) = [track |-> c.track, s |-> c.s, dir |-> c.dir,
                                left |-> IF p THEN -r ELSE r]
    BY DEF Facing, c, p, j
  <2>3. 0 + Seen(y, e.dir, c.dir) = IF p THEN -r ELSE r
    BY <1>6, <1>14
  <2> HIDE DEF y
  <2> QED
    BY <2>1, <2>2, <2>3
<1> HIDE DEF y, b, o
<1> QED
  BY <1>8, <1>11, <1>12, <1>13, <1>15 DEF y, u, r, b, o, c

(* Over a joint an axle comes in and has all of the track before it.       *)
LEMMA CrossedHasWay ==
  ASSUME NEW joints \in Layout, NEW l \in Walker, Crosses(joints, l)
  PROVE  HasWay(Crossed(joints, l))
<1> DEFINE j == Exit(joints, l)
           p == (Aim(l) < 0) = j.swap
           c == Crossed(joints, l)
<1>1. /\ c.track = j.to /\ c.s = (IF p THEN 0 ELSE Length[j.to])
      /\ c.left = (IF p THEN Beyond(l) ELSE -Beyond(l))
  BY DEF Crossed
<1>2. Beyond(l) \in Nat \ {0} /\ c.track \in Tracks
  BY CrossedType
<1>3. Length[c.track] \in Nat \ {0}
  BY <1>2, TracksAssumption
<1> HIDE DEF c, p, j
<1>4. CASE p
  <2>1. Aim(c) = Beyond(l) /\ c.s = 0
    BY <1>1, <1>2, <1>4 DEF Aim
  <2> QED
    BY <1>2, <1>3, <2>1 DEF HasWay, ToEnd, c
<1>5. CASE ~p
  <2>1. Aim(c) = Length[c.track] - Beyond(l) /\ c.s = Length[c.track]
    BY <1>1, <1>2, <1>3, <1>5 DEF Aim
  <2>2. CASE Aim(c) < 0
    BY <1>3, <2>1, <2>2 DEF HasWay, ToEnd, c
  <2>3. CASE ~(Aim(c) < 0)
    BY <1>2, <1>3, <2>1, <2>3 DEF HasWay, Leaves, Beyond, c
  <2> QED
    BY <2>2, <2>3
<1> QED
  BY <1>4, <1>5

(* Over joints that both tracks have an axle that walks back as far comes  *)
(* back, unless it had left its track at once.                             *)
LEMMA WalkReturns ==
  ASSUME NEW joints \in Layout, TwoWay(joints), NEW l, InRange(l), HasWay(l)
  PROVE  Returns(joints, l)
<1> DEFINE W == Walk(joints)
           Wrong(x) == InRange(x) /\ HasWay(x) /\ ~Returns(joints, x)
           Bad == {n \in Nat : \E x \in Walker : Wrong(x) /\ Beyond(x) = n}
<1>1. ASSUME NEW x \in Walker, Wrong(x) PROVE Beyond(x) \in Nat
  BY <1>1, WalkerType, TracksAssumption DEF Beyond, InRange
<1>2. SUFFICES ASSUME Bad # {} PROVE FALSE
  BY <1>1 DEF InRange
<1>3. PICK n \in Bad : \A m \in Bad : n <= m
  BY <1>2, Least
<1>4. PICK x \in Walker : Wrong(x) /\ Beyond(x) = n
  BY <1>3
<1>5. Crosses(joints, x)
  BY <1>4, StopsAndReturns
<1> DEFINE c == Crossed(joints, x)
           e == W[x]
           y == -Seen(IF Aim(x) < 0 THEN -ToEnd(x) ELSE ToEnd(x), x.dir, e.dir)
           b == Return(c, e)
           o == [track |-> c.track, s |-> c.s, dir |-> c.dir, left |-> 0]
<1>6. /\ c \in Walker /\ c.track \in Tracks /\ Beyond(c) \in Nat /\ Beyond(c) < n
      /\ c.s \in 0..Length[c.track]
  BY <1>4, <1>5, CrossedType
<1>7. InRange(c)
  BY <1>6 DEF InRange
<1>8. ToEnd(x) > 0
  BY <1>4, <1>5 DEF HasWay, Crosses
<1>9. e = W[c]
  BY <1>4, <1>5, WalkUnfolds DEF Round
<1>10. HasWay(c)
  BY <1>4, <1>5, CrossedHasWay
<1>11. Returns(joints, c)
  <2> HIDE DEF c, W
  <2>1. ~Wrong(c)
    <3> SUFFICES ASSUME Wrong(c) PROVE FALSE
      OBVIOUS
    <3>1. Beyond(c) \in Bad
      BY <1>6
    <3> QED
      BY <1>3, <1>6, <3>1
  <2> QED
    BY <1>7, <1>10, <2>1
<1>12. ~Returns(joints, x) /\ InRange(x) /\ x.track \in Tracks
  BY <1>4 DEF InRange
<1>13. e.track # NoTrack
  BY <1>12 DEF Returns
<1>14. InRange(e)
  <2>1. Arrived(e)
    BY <1>12, WalkArrives
  <2> QED
    BY <1>13, <2>1 DEF Arrived
<1>15. W[b] = o
  BY <1>9, <1>11, <1>13 DEF Returns
<1>16. /\ y \in Int /\ SameWay(b.left, y) /\ InRange(b) /\ InRange(Return(x, e))
       /\ Further(b, y) = Return(x, e)
       /\ Further(o, Seen(y, e.dir, c.dir)) = Facing(joints, x, ToEnd(x))
  <2> HIDE DEF e
  <2> QED
    BY <1>5, <1>12, <1>14, WayBack
<1>17. b.dir = e.dir /\ o.track = c.track /\ o.dir = c.dir
  BY DEF Return
<1>18. W[Facing(joints, x, ToEnd(x))] = [track |-> x.track, s |-> x.s, dir |-> x.dir, left |-> 0]
  BY <1>5, <1>8, <1>12, BackToStart
<1> HIDE DEF y, b, o, c, e
<1>19. SameEnd(W[Further(W[b], Seen(y, b.dir, W[b].dir))], W[Further(b, y)])
  <2>1. WalksOn(joints, b, y)
    BY <1>16, WalkOn
  <2>2. W[b].track \in Tracks
    BY <1>6, <1>15, <1>17
  <2> QED
    BY <2>1, <2>2 DEF WalksOn
<1>20. SameEnd(W[Facing(joints, x, ToEnd(x))], W[Return(x, e)])
  BY <1>15, <1>16, <1>17, <1>19
<1> DEFINE f == [track |-> x.track, s |-> x.s, dir |-> x.dir, left |-> 0]
<1>21. f.track # NoTrack
  BY <1>12, TracksAssumption
<1> HIDE DEF f, W
<1>22. W[Return(x, e)] = f
  BY <1>18, <1>20, <1>21 DEF SameEnd, f
<1> QED
  BY <1>12, <1>22 DEF Returns, W, f, e

(* Not at an end of its track, where a place has two names.                *)
Inside(a) == a \in OnTrack /\ 0 < a.s /\ a.s < Length[a.track]

LEMMA InsideHasWay ==
  ASSUME NEW a, Inside(a), NEW d \in Int
  PROVE  HasWay(Rolling(a, d))
<1>1. /\ a.track \in Tracks /\ a.s \in Int /\ Length[a.track] \in Int
  BY OnTrackIs, TracksAssumption DEF Inside
<1>2. Rolling(a, d).track = a.track /\ Rolling(a, d).s = a.s
  BY DEF Rolling
<1> QED
  BY <1>1, <1>2 DEF HasWay, ToEnd, Inside

(* A joint that leads nowhere leads off the tracks.                        *)
LEMMA RollsOff ==
  ASSUME NEW joints \in Layout, NEW a \in OnTrack, NEW d \in Int,
         Roll(joints, a, d) \in OnTrack, Leaves(Rolling(a, d))
  PROVE  Crosses(joints, Rolling(a, d))
<1> DEFINE l == Rolling(a, d)
           e == Walk(joints)[l]
<1> SUFFICES ASSUME ~Crosses(joints, l) PROVE FALSE
  OBVIOUS
<1>1. l \in Walker /\ Roll(joints, a, d) = [track |-> e.track, s |-> e.s, dir |-> e.dir]
  BY RollType, RollingType
<1>2. e = Stopped(l)
  BY <1>1, WalkUnfolds DEF Round
<1>3. /\ Leaves(l) /\ l = [track |-> l.track, s |-> l.s, dir |-> l.dir, left |-> l.left]
      /\ Roll(joints, a, d).track # NoTrack
  BY <1>1, WalkerType, OnTrackIs, TracksAssumption
<1> HIDE DEF l, e
<1>4. Stopped(l) = [l EXCEPT !.track = NoTrack]
  BY <1>3 DEF Stopped, Leaves
<1>5. Stopped(l).track = NoTrack
  BY <1>3, <1>4
<1> QED
  BY <1>1, <1>2, <1>3, <1>5

LEMMA RollBack ==
  ASSUME NEW joints \in Layout, TwoWay(joints), NEW a \in OnTrack, NEW d \in Int,
         Roll(joints, a, d) \in OnTrack, HasWay(Rolling(a, d))
  PROVE  Roll(joints, Roll(joints, a, d), -d) = a
<1> DEFINE l == Rolling(a, d)
           e == Walk(joints)[l]
           b == Roll(joints, a, d)
           r == Rolling(b, -d)
<1>1. /\ InRange(l) /\ l.track = a.track /\ l.s = a.s /\ l.dir = a.dir
      /\ l.left = d * a.dir /\ a.dir \in Signs
      /\ a = [track |-> a.track, s |-> a.s, dir |-> a.dir]
  BY RollingType, OnTrackIs DEF Rolling
<1>2. b = [track |-> e.track, s |-> e.s, dir |-> e.dir]
  BY RollType
<1>3. e.track # NoTrack /\ e.dir \in Signs
  <2>1. b.track # NoTrack /\ b.dir \in Signs
    BY OnTrackIs, TracksAssumption
  <2> HIDE DEF e, b
  <2> QED
    BY <1>2, <2>1
<1>4. Walk(joints)[Return(l, e)] = [track |-> l.track, s |-> l.s, dir |-> l.dir, left |-> 0]
  BY <1>1, <1>3, WalkReturns DEF Returns
<1> HIDE DEF e, l
<1>5. r = Return(l, e)
  <2>1. r = [track |-> b.track, s |-> b.s, dir |-> b.dir, left |-> (-d) * b.dir]
    BY DEF Rolling
  <2>2. b.track = e.track /\ b.s = e.s /\ b.dir = e.dir
    BY <1>2
  <2>3. (-d) * e.dir = -Seen(l.left, l.dir, e.dir)
    BY <1>1, <1>3 DEF Seen, Signs
  <2> HIDE DEF b, r
  <2> QED
    BY <2>1, <2>2, <2>3 DEF Return
<1> DEFINE f == Walk(joints)[r]
<1>6. Roll(joints, b, -d) = [track |-> f.track, s |-> f.s, dir |-> f.dir]
  BY RollType
<1>7. f.track = a.track /\ f.s = a.s /\ f.dir = a.dir
  BY <1>1, <1>4, <1>5
<1> HIDE DEF f, b
<1> QED
  BY <1>1, <1>6, <1>7 DEF b

(* The name a place at a joint has on the other track.                     *)
Beside(joints, a, z) ==
  LET c == Crossed(joints, Rolling(a, z)) IN [track |-> c.track, s |-> c.s, dir |-> c.dir]

(* The same name goes for every distance the same way.                     *)
LEMMA BesideAhead ==
  ASSUME NEW joints \in Layout, NEW a \in OnTrack, NEW z \in Int,
         Crosses(joints, Rolling(a, z)), ~HasWay(Rolling(a, z)),
         NEW x \in Int, (z > 0 /\ x > 0) \/ (z < 0 /\ x < 0)
  PROVE  /\ Crosses(joints, Rolling(a, x))
         /\ Crossed(joints, Rolling(a, x)) = Rolling(Beside(joints, a, z), x)
<1> DEFINE l == Rolling(a, z)
           m == Rolling(a, x)
           j == Exit(joints, l)
           c == Crossed(joints, l)
           p == (Aim(l) < 0) = j.swap
           o == Beside(joints, a, z)
<1>1. /\ l \in Walker /\ l.track = a.track /\ l.s = a.s /\ l.dir = a.dir
      /\ l.left = Seen(z, 1, a.dir)
      /\ m \in Walker /\ m.track = a.track /\ m.s = a.s /\ m.dir = a.dir
      /\ m.left = Seen(x, 1, a.dir)
  BY RollingType
<1>2. /\ a.track \in Tracks /\ a.s \in 0..Length[a.track] /\ a.dir \in Signs
      /\ Length[a.track] \in Nat \ {0} /\ a.track # NoTrack /\ a.s \in Int
  BY OnTrackIs, TracksAssumption
<1>3. /\ c.track = j.to /\ c.s = (IF p THEN 0 ELSE Length[j.to])
      /\ c.dir = (IF j.swap THEN -l.dir ELSE l.dir)
      /\ c.dir \in Signs /\ j.swap \in BOOLEAN /\ j.to # NoTrack
  <2>1. c.dir \in Signs /\ j.swap \in BOOLEAN
    BY <1>1, CrossedType, WalkerType
  <2> QED
    BY <2>1 DEF Crossed, Crosses
<1>4. o = [track |-> c.track, s |-> c.s, dir |-> c.dir]
  BY DEF Beside
<1> HIDE DEF l, m, c, o
<1>5. ToEnd(l) = 0
  BY <1>1, <1>2 DEF HasWay, ToEnd, l
<1>6. \/ /\ Aim(l) < 0 /\ Aim(m) < 0 /\ a.s = 0
         /\ Beyond(m) = -Seen(x, 1, a.dir)
      \/ /\ Aim(l) > Length[a.track] /\ Aim(m) > Length[a.track] /\ a.s = Length[a.track]
         /\ Beyond(m) = Seen(x, 1, a.dir)
  <2>1. Crosses(joints, l)
    BY DEF l
  <2>2. Aim(l) = a.s + Seen(z, 1, a.dir) /\ Aim(m) = a.s + Seen(x, 1, a.dir)
    BY <1>1 DEF Aim
  <2>3. Aim(l) < 0 \/ Aim(l) > Length[a.track]
    BY <1>1, <1>2, <2>1, <2>2 DEF Crosses, Leaves, Beyond, Seen
  <2>4. CASE Aim(l) < 0
    <3>1. a.s = 0
      BY <1>1, <1>5, <2>4 DEF ToEnd
    <3>2. Seen(x, 1, a.dir) < 0 /\ Seen(x, 1, a.dir) \in Int
      BY <1>2, <2>2, <2>4, <3>1 DEF Seen, Signs
    <3> QED
      BY <1>1, <2>2, <2>4, <3>1, <3>2 DEF Beyond
  <2>5. CASE Aim(l) > Length[a.track]
    <3>1. a.s = Length[a.track]
      <4>1. ~(Aim(l) < 0)
        BY <1>1, <1>2, <2>5, WalkerType
      <4> QED
        BY <1>1, <1>2, <1>5, <4>1 DEF ToEnd
    <3>2. Seen(x, 1, a.dir) > 0 /\ Seen(x, 1, a.dir) \in Int
      BY <1>2, <2>2, <2>5, <3>1 DEF Seen, Signs
    <3> QED
      BY <1>1, <1>2, <2>2, <2>5, <3>1, <3>2 DEF Beyond
  <2> QED
    BY <2>3, <2>4, <2>5
<1>7. /\ (Aim(m) < 0) <=> (Aim(l) < 0)
      /\ Beyond(m) > 0 /\ Beyond(m) \in Int
      /\ Seen(x, 1, a.dir) \in Int
      /\ Aim(l) < 0 => Beyond(m) = -Seen(x, 1, a.dir)
      /\ ~(Aim(l) < 0) => Beyond(m) = Seen(x, 1, a.dir)
  <2>1. /\ Aim(m) \in Int /\ Aim(l) \in Int /\ Seen(x, 1, a.dir) \in Int
        /\ Aim(m) = a.s + Seen(x, 1, a.dir)
    BY <1>1, <1>2, WalkerType DEF Aim, Seen
  <2> QED
    BY <1>2, <1>6, <2>1
<1>8. Exit(joints, m) = j
  BY <1>1, <1>7 DEF Exit
<1>9. Crosses(joints, m)
  BY <1>1, <1>2, <1>3, <1>7, <1>8 DEF Crosses, Leaves
<1>10. ((Aim(m) < 0) = j.swap) <=> p
  BY <1>3, <1>7
<1> DEFINE q == (Aim(m) < 0) = j.swap
<1>11. Crossed(joints, m) = [track |-> j.to, s |-> IF q THEN 0 ELSE Length[j.to],
                             dir |-> IF j.swap THEN -m.dir ELSE m.dir,
                             left |-> IF q THEN Beyond(m) ELSE -Beyond(m)]
  BY <1>8 DEF Crossed
<1>12. p <=> \/ Aim(l) < 0 /\ j.swap
             \/ ~(Aim(l) < 0) /\ ~j.swap
  BY <1>3
<1> HIDE DEF j, p, q
<1>13. (IF p THEN Beyond(m) ELSE -Beyond(m)) = x * c.dir
  BY <1>1, <1>2, <1>3, <1>7, <1>12 DEF Seen, Signs
<1>14. Rolling(o, x) = [track |-> c.track, s |-> c.s, dir |-> c.dir, left |-> x * c.dir]
  BY <1>4 DEF Rolling
<1>15. Crossed(joints, m) = Rolling(o, x)
  BY <1>1, <1>3, <1>10, <1>11, <1>13, <1>14 DEF q
<1> QED
  BY <1>9, <1>15 DEF m, o

(* A place at a joint is left alike under both its names.                  *)
LEMMA BesideRolls ==
  ASSUME NEW joints \in Layout, TwoWay(joints), NEW a \in OnTrack, NEW z \in Int,
         Crosses(joints, Rolling(a, z)), ~HasWay(Rolling(a, z))
  PROVE  LET o == Beside(joints, a, z) IN
         /\ o \in OnTrack
         /\ HasWay(Rolling(o, z))
         /\ \A x \in Int \ {0} : Roll(joints, o, x) = Roll(joints, a, x)
<1> DEFINE W == Walk(joints)
           l == Rolling(a, z)
           c == Crossed(joints, l)
           j == Exit(joints, l)
           o == Beside(joints, a, z)
<1>1. /\ l \in Walker /\ l.track = a.track /\ l.s = a.s /\ l.dir = a.dir
      /\ l.left = Seen(z, 1, a.dir) /\ InRange(l)
  BY RollingType
<1>2. /\ a.track \in Tracks /\ a.s \in 0..Length[a.track] /\ a.dir \in Signs
      /\ Length[a.track] \in Nat \ {0} /\ a.track # NoTrack /\ a.s \in Int
  BY OnTrackIs, TracksAssumption
<1>3. o \in OnTrack
  <2>1. c.track \in Tracks /\ c.s \in 0..Length[c.track] /\ c.dir \in Signs
    BY <1>1, CrossedType, WalkerType
  <2> HIDE DEF c
  <2> QED
    BY <2>1, IsOnTrack DEF Beside, c
<1>4. z # 0
  BY <1>1, <1>2 DEF Crosses, Leaves, Beyond, Aim, Seen
<1>5. HasWay(Rolling(o, z))
  <2>1. c = Rolling(o, z)
    BY <1>4, BesideAhead
  <2> QED
    BY <1>1, <2>1, CrossedHasWay
<1>6. ASSUME NEW x \in Int \ {0} PROVE W[Rolling(o, x)] = W[Rolling(a, x)]
  <2>1. CASE (z > 0 /\ x > 0) \/ (z < 0 /\ x < 0)
    <3>1. /\ Crosses(joints, Rolling(a, x))
          /\ Crossed(joints, Rolling(a, x)) = Rolling(o, x)
      BY <2>1, BesideAhead
    <3>2. Rolling(a, x) \in Walker
      BY RollingType
    <3> QED
      BY <3>1, <3>2, WalkUnfolds DEF Round
  <2>2. CASE (z > 0 /\ x < 0) \/ (z < 0 /\ x > 0)
    <3> DEFINE r == IF x < 0 THEN -x ELSE x
               p == (Aim(l) < 0) = j.swap
    <3>1. r \in Nat \ {0}
      OBVIOUS
    <3>2. /\ Facing(joints, l, r) \in Walker /\ Crosses(joints, Facing(joints, l, r))
          /\ Crossed(joints, Facing(joints, l, r)) =
               [track |-> l.track, s |-> IF Aim(l) < 0 THEN 0 ELSE Length[l.track],
                dir |-> l.dir, left |-> IF Aim(l) < 0 THEN r ELSE -r]
      BY <1>1, <3>1, CrossBack
    <3>3. /\ c.dir = (IF j.swap THEN -l.dir ELSE l.dir)
          /\ c.dir \in Signs /\ j.swap \in BOOLEAN
      <4>1. c.dir \in Signs /\ j.swap \in BOOLEAN
        BY <1>1, CrossedType, WalkerType
      <4> QED
        BY <4>1 DEF Crossed
    <3>4. ToEnd(l) = 0
      BY <1>1, <1>2 DEF HasWay, ToEnd
    <3>5. Facing(joints, l, r) = [track |-> c.track, s |-> c.s, dir |-> c.dir,
                                  left |-> IF p THEN -r ELSE r]
      BY DEF Facing
    <3>6. Rolling(o, x) = [track |-> c.track, s |-> c.s, dir |-> c.dir, left |-> x * c.dir]
      BY DEF Rolling, Beside
    <3>7. p <=> \/ Aim(l) < 0 /\ j.swap
                \/ ~(Aim(l) < 0) /\ ~j.swap
      BY <3>3
    <3>8. Crosses(joints, l)
      OBVIOUS
    <3> HIDE DEF c, j, p, l, o, W
    <3>9. \/ Aim(l) < 0 /\ a.s = 0 /\ Seen(z, 1, a.dir) < 0
          \/ ~(Aim(l) < 0) /\ a.s = Length[a.track] /\ Seen(z, 1, a.dir) > 0
      <4>1. Aim(l) = a.s + Seen(z, 1, a.dir) /\ Seen(z, 1, a.dir) \in Int
        BY <1>1, <1>2 DEF Aim, Seen
      <4>2. Aim(l) < 0 \/ (~(Aim(l) < 0) /\ Aim(l) > Length[a.track])
        BY <1>1, <1>2, <3>8, <4>1 DEF Crosses, Leaves, Beyond
      <4>3. Aim(l) < 0 => a.s = 0
        BY <1>1, <3>4 DEF ToEnd
      <4>4. ~(Aim(l) < 0) => a.s = Length[a.track]
        BY <1>1, <1>2, <3>4 DEF ToEnd
      <4> QED
        BY <1>2, <4>1, <4>2, <4>3, <4>4
    <3>10. /\ Aim(l) < 0 => x * a.dir = r
           /\ ~(Aim(l) < 0) => x * a.dir = -r
      BY <1>2, <2>2, <3>9 DEF Seen, Signs
    <3>11. (IF p THEN -r ELSE r) = x * c.dir
      BY <1>1, <1>2, <3>3, <3>7, <3>10 DEF Signs
    <3>12. Rolling(a, x) = [track |-> a.track, s |-> a.s, dir |-> a.dir, left |-> x * a.dir]
      BY DEF Rolling
    <3> HIDE DEF r
    <3>13. Facing(joints, l, r) = Rolling(o, x)
      BY <3>5, <3>6, <3>11
    <3>14. Crossed(joints, Facing(joints, l, r)) = Rolling(a, x)
      BY <1>1, <3>2, <3>9, <3>10, <3>12
    <3> QED
      BY <3>2, <3>13, <3>14, WalkUnfolds DEF Round, W
  <2> QED
    BY <1>4, <2>1, <2>2
<1>7. ASSUME NEW x \in Int \ {0} PROVE Roll(joints, o, x) = Roll(joints, a, x)
  <2> DEFINE u == W[Rolling(o, x)]
             w == W[Rolling(a, x)]
  <2>1. u = w
    BY <1>6
  <2>2. /\ Roll(joints, o, x) = [track |-> u.track, s |-> u.s, dir |-> u.dir]
        /\ Roll(joints, a, x) = [track |-> w.track, s |-> w.s, dir |-> w.dir]
    <3> HIDE DEF o
    <3> QED
      BY <1>3, RollType
  <2> HIDE DEF u, w
  <2> QED
    BY <2>1, <2>2
<1> HIDE DEF o
<1> QED
  BY <1>3, <1>5, <1>7 DEF o

LEMMA SamePlace ==
  ASSUME NEW p, NEW q, SameEnd(p, q), p \in OnTrack \/ q \in OnTrack
  PROVE  p = q
BY OnTrackIs, TracksAssumption DEF SameEnd

LEMMA InsideIs ==
  ASSUME NEW a, Inside(a)
  PROVE  a \in OnTrack
BY DEF Inside

(* An axle has at each place it leaves a name under which it has a way to  *)
(* go.                                                                     *)
LEMMA SetsOff ==
  ASSUME NEW joints \in Layout, TwoWay(joints), NEW a \in OnTrack, NEW z \in Int,
         Roll(joints, a, z) \in OnTrack
  PROVE  \E o \in OnTrack : /\ HasWay(Rolling(o, z))
                            /\ \A x \in Int \ {0} : Roll(joints, o, x) = Roll(joints, a, x)
<1>1. CASE HasWay(Rolling(a, z))
  BY <1>1
<1>2. CASE ~HasWay(Rolling(a, z))
  <2>1. Crosses(joints, Rolling(a, z))
    BY <1>2, RollsOff DEF HasWay
  <2> QED
    BY <1>2, <2>1, BesideRolls
<1> QED
  BY <1>1, <1>2

(* Walking x and then y is walking x + y, forth and back as well.          *)
LEMMA RollSum ==
  ASSUME NEW joints \in Layout, TwoWay(joints), NEW a \in OnTrack,
         NEW x \in Int, NEW y \in Int,
         Roll(joints, a, x) \in OnTrack, Inside(Roll(joints, a, x + y))
  PROVE  Roll(joints, Roll(joints, a, x), y) = Roll(joints, a, x + y)
<1> DEFINE b == Roll(joints, a, x)
           c == Roll(joints, a, x + y)
<1>1. b \in OnTrack /\ c \in OnTrack /\ x + y \in Int /\ -y \in Int /\ -(x + y) \in Int
  BY InsideIs
<1>2. CASE SameWay(x, y)
  <2>1. SameEnd(Roll(joints, b, y), c)
    BY <1>2, RollOn
  <2> HIDE DEF b, c
  <2> QED
    BY <1>1, <2>1, SamePlace DEF b, c
<1>3. Roll(joints, c, -y) = b => Roll(joints, b, y) = c
  <2> SUFFICES ASSUME Roll(joints, c, -y) = b PROVE Roll(joints, b, y) = c
    OBVIOUS
  <2>1. HasWay(Rolling(c, -y))
    BY <1>1, InsideHasWay
  <2>2. y = -(-y)
    OBVIOUS
  <2> DEFINE d == -y
  <2>3. d \in Int /\ Roll(joints, c, d) = b /\ HasWay(Rolling(c, d)) /\ y = -d
    BY <1>1, <2>1, <2>2
  <2> HIDE DEF b, c, d
  <2>4. Roll(joints, Roll(joints, c, d), -d) = c
    BY <1>1, <2>3, RollBack
  <2> QED
    BY <2>3, <2>4
<1>4. CASE SameWay(x + y, -y)
  <2> DEFINE z == x + y
             d == -y
  <2>1. z \in Int /\ d \in Int /\ SameWay(z, d) /\ z + d = x /\ Roll(joints, a, z) = c
    BY <1>1, <1>4
  <2> HIDE DEF c, z, d
  <2>2. SameEnd(Roll(joints, c, d), Roll(joints, a, z + d))
    BY <1>1, <2>1, RollOn
  <2> DEFINE e == Roll(joints, c, d)
  <2>3. SameEnd(e, b)
    BY <2>1, <2>2
  <2> HIDE DEF e, b
  <2>4. e = b
    BY <1>1, <2>3, SamePlace
  <2> QED
    BY <1>3, <2>4 DEF b, c, d, e
<1>5. CASE ~SameWay(x, y) /\ ~SameWay(x + y, -y)
  <2> DEFINE z == x + y
             d == -y
             w == -z
  <2>1. /\ z \in Int /\ d \in Int /\ w \in Int /\ w = -z
        /\ w + x = d /\ x # 0 /\ z # 0 /\ SameWay(w, x) /\ Roll(joints, a, z) = c
    BY <1>1, <1>5 DEF SameWay
  <2> HIDE DEF c, z, d, w
  <2>2. PICK o \in OnTrack : /\ HasWay(Rolling(o, z))
                             /\ \A n \in Int \ {0} : Roll(joints, o, n) = Roll(joints, a, n)
    BY <1>1, <2>1, SetsOff
  <2>3. Roll(joints, o, z) = c /\ Roll(joints, o, x) = b
    BY <2>1, <2>2
  <2>4. Roll(joints, c, w) = o
    <3>1. Roll(joints, Roll(joints, o, z), -z) = o
      BY <1>1, <2>1, <2>2, <2>3, RollBack
    <3> QED
      BY <2>1, <2>3, <3>1
  <2>5. SameEnd(Roll(joints, o, x), Roll(joints, c, w + x))
    BY <1>1, <2>1, <2>2, <2>4, RollOn
  <2> DEFINE e == Roll(joints, c, d)
  <2>6. SameEnd(b, e)
    BY <2>1, <2>3, <2>5
  <2> HIDE DEF e, b
  <2>7. e = b
    BY <1>1, <2>6, SamePlace
  <2> QED
    BY <1>3, <2>7 DEF b, c, d, e
<1> QED
  BY <1>2, <1>4, <1>5

(* The same, when it is the way in two parts that is known.                *)
LEMMA RollParts ==
  ASSUME NEW joints \in Layout, TwoWay(joints), NEW a, Inside(a),
         NEW x \in Int, NEW y \in Int,
         Roll(joints, a, x) \in OnTrack,
         Inside(Roll(joints, Roll(joints, a, x), y))
  PROVE  Roll(joints, a, x + y) = Roll(joints, Roll(joints, a, x), y)
<1> DEFINE b == Roll(joints, a, x)
           m == -x
           n == x + y
<1>1. a \in OnTrack /\ b \in OnTrack /\ m \in Int /\ n \in Int /\ m + n = y
  BY InsideIs
<1>2. Roll(joints, b, m) = a
  BY <1>1, InsideHasWay, RollBack
<1>3. Roll(joints, Roll(joints, b, m), n) = Roll(joints, b, m + n)
  <2> HIDE DEF m, n, b
  <2>1. Inside(Roll(joints, b, m + n))
    BY <1>1 DEF b
  <2> QED
    BY <1>1, <1>2, <2>1, RollSum
<1> QED
  BY <1>1, <1>2, <1>3

(* An axle that is turned round goes the same way backward.                *)
Turn(a) == [a EXCEPT !.dir = -a.dir]

LEMMA TurnType ==
  ASSUME NEW a \in OnTrack
  PROVE  /\ Turn(a) = [track |-> a.track, s |-> a.s, dir |-> -a.dir]
         /\ Turn(a) \in OnTrack
<1>1. /\ a.track \in Tracks /\ a.s \in 0..Length[a.track] /\ a.dir \in Signs
      /\ a = [track |-> a.track, s |-> a.s, dir |-> a.dir]
  BY OnTrackIs
<1>2. -a.dir \in Signs
  BY <1>1 DEF Signs
<1>3. Turn(a) = [track |-> a.track, s |-> a.s, dir |-> -a.dir]
  <2>1. ASSUME NEW z PROVE [a EXCEPT !.dir = z] = [track |-> a.track, s |-> a.s, dir |-> z]
    BY <1>1
  <2> QED
    BY <2>1 DEF Turn
<1> QED
  BY <1>1, <1>2, <1>3, IsOnTrack

TurnedWalker(l) == [track |-> l.track, s |-> l.s, dir |-> -l.dir, left |-> l.left]

LEMMA WalkTurned ==
  ASSUME NEW joints \in Layout, NEW l \in Walker, l.track \in Tracks,
         Walk(joints)[l].track # NoTrack
  PROVE  Walk(joints)[TurnedWalker(l)] = TurnedWalker(Walk(joints)[l])
<1> DEFINE W == Walk(joints)
           Wrong(x) == /\ x \in Walker /\ x.track \in Tracks /\ W[x].track # NoTrack
                       /\ W[TurnedWalker(x)] # TurnedWalker(W[x])
           Bad == {n \in Nat : \E x \in Walker : Wrong(x) /\ Beyond(x) = n}
<1>1. ASSUME NEW x \in Walker, Wrong(x) PROVE Beyond(x) \in Nat
  BY <1>1, WalkerType, TracksAssumption DEF Beyond
<1>2. SUFFICES ASSUME Bad # {} PROVE FALSE
  BY <1>1
<1>3. PICK n \in Bad : \A m \in Bad : n <= m
  BY <1>2, Least
<1>4. PICK x \in Walker : Wrong(x) /\ Beyond(x) = n
  BY <1>3
<1> DEFINE t == TurnedWalker(x)
<1>5. /\ x.track \in Tracks /\ x.s \in Int /\ x.dir \in Signs /\ x.left \in Int
      /\ x = [track |-> x.track, s |-> x.s, dir |-> x.dir, left |-> x.left]
      /\ x.track # NoTrack
  BY <1>4, WalkerType, TracksAssumption
<1>6. /\ t \in Walker /\ t.track = x.track /\ t.s = x.s /\ t.left = x.left /\ t.dir = -x.dir
  <2>1. -x.dir \in Signs
    BY <1>5 DEF Signs
  <2> QED
    BY <1>5, <2>1 DEF TurnedWalker, Walker
<1>7. W[x] = Round(joints, W, x) /\ W[t] = Round(joints, W, t)
  BY <1>6, WalkUnfolds
<1> HIDE DEF W, t
<1>8. /\ Aim(t) = Aim(x)
      /\ Beyond(t) = Beyond(x) /\ Exit(joints, t) = Exit(joints, x)
      /\ Leaves(t) <=> Leaves(x)
      /\ Crosses(joints, t) <=> Crosses(joints, x)
  BY <1>6 DEF Aim, Beyond, Exit, Leaves, Crosses
<1>9. CASE Crosses(joints, x)
  <2> DEFINE c == Crossed(joints, x)
             j == Exit(joints, x)
             p == (Aim(x) < 0) = j.swap
             k == Exit(joints, t)
             q == (Aim(t) < 0) = k.swap
  <2>1. /\ c \in Walker /\ c.track \in Tracks /\ Beyond(c) \in Nat /\ Beyond(c) < n
        /\ j.swap \in BOOLEAN
    BY <1>4, <1>9, CrossedType
  <2>2. c = [track |-> j.to, s |-> IF p THEN 0 ELSE Length[j.to],
             dir |-> IF j.swap THEN -x.dir ELSE x.dir,
             left |-> IF p THEN Beyond(x) ELSE -Beyond(x)]
    BY DEF Crossed
  <2>3. Crossed(joints, t) = [track |-> k.to, s |-> IF q THEN 0 ELSE Length[k.to],
             dir |-> IF k.swap THEN -t.dir ELSE t.dir,
             left |-> IF q THEN Beyond(t) ELSE -Beyond(t)]
    BY DEF Crossed
  <2>4. j = k /\ p = q
    BY <1>8, Zenon
  <2>5. TurnedWalker(c) = [track |-> c.track, s |-> c.s, dir |-> -c.dir, left |-> c.left]
    BY DEF TurnedWalker
  <2> HIDE DEF j, k, p, q, c
  <2>6. Crossed(joints, t) = TurnedWalker(c)
    BY <1>5, <1>6, <1>8, <2>1, <2>2, <2>3, <2>4, <2>5 DEF Signs
  <2>7. W[x] = W[c] /\ W[t] = W[TurnedWalker(c)]
    BY <1>7, <1>8, <1>9, <2>6 DEF Round, c
  <2>8. Beyond(c) \in Bad
    BY <1>4, <2>1, <2>7 DEF t
  <2> QED
    BY <1>3, <2>1, <2>8
<1>10. CASE ~Crosses(joints, x)
  <2>1. W[x] = Stopped(x) /\ W[t] = Stopped(t)
    BY <1>7, <1>8, <1>10 DEF Round
  <2>2. ~Leaves(x)
    <3> SUFFICES ASSUME Leaves(x) PROVE FALSE
      OBVIOUS
    <3>1. Stopped(x) = [x EXCEPT !.track = NoTrack]
      BY DEF Stopped, Leaves
    <3>2. Stopped(x).track = NoTrack
      BY <1>5, <3>1
    <3> QED
      BY <1>4, <2>1, <3>2
  <2>3. Stopped(x) = [track |-> x.track, s |-> Aim(x), dir |-> x.dir, left |-> 0]
    BY <1>5, <2>2 DEF Stopped
  <2>4. t = [track |-> x.track, s |-> x.s, dir |-> -x.dir, left |-> x.left]
    BY DEF t, TurnedWalker
  <2>5. Stopped(t) = [track |-> x.track, s |-> Aim(x), dir |-> -x.dir, left |-> 0]
    BY <1>5, <1>6, <1>8, <2>2, <2>4 DEF Stopped
  <2> QED
    BY <1>4, <2>1, <2>3, <2>5 DEF TurnedWalker, t
<1> QED
  BY <1>9, <1>10

LEMMA RollTurned ==
  ASSUME NEW joints \in Layout, NEW a \in OnTrack, NEW d \in Int,
         Roll(joints, a, -d) \in OnTrack
  PROVE  Roll(joints, Turn(a), d) = Turn(Roll(joints, a, -d))
<1> DEFINE l == Rolling(a, -d)
           m == Rolling(Turn(a), d)
           e == Walk(joints)[l]
           f == Walk(joints)[m]
           b == Roll(joints, a, -d)
<1>1. Turn(a) = [track |-> a.track, s |-> a.s, dir |-> -a.dir] /\ Turn(a) \in OnTrack
  BY TurnType
<1>2. /\ b = [track |-> e.track, s |-> e.s, dir |-> e.dir]
      /\ Roll(joints, Turn(a), d) = [track |-> f.track, s |-> f.s, dir |-> f.dir]
  BY <1>1, RollType
<1>3. l \in Walker /\ l.track \in Tracks /\ a.dir \in Signs
  BY RollingType, OnTrackIs
<1>4. m = TurnedWalker(l)
  <2>1. l = [track |-> a.track, s |-> a.s, dir |-> a.dir, left |-> (-d) * a.dir]
    BY DEF Rolling
  <2>2. m = [track |-> a.track, s |-> a.s, dir |-> -a.dir, left |-> d * (-a.dir)]
    BY <1>1 DEF Rolling
  <2>3. (-d) * a.dir = d * (-a.dir)
    BY <1>3 DEF Signs
  <2> HIDE DEF l, m
  <2> QED
    BY <2>1, <2>2, <2>3 DEF TurnedWalker
<1>5. e.track # NoTrack
  <2>1. b.track # NoTrack
    BY OnTrackIs, TracksAssumption
  <2> HIDE DEF e, b
  <2> QED
    BY <1>2, <2>1
<1> HIDE DEF l, m
<1>6. f = TurnedWalker(e)
  BY <1>3, <1>4, <1>5, WalkTurned
<1>7. f.track = e.track /\ f.s = e.s /\ f.dir = -e.dir
  BY <1>6 DEF TurnedWalker
<1>8. Turn(b) = [track |-> b.track, s |-> b.s, dir |-> -b.dir]
  BY TurnType
<1> HIDE DEF e, f, b
<1> QED
  BY <1>2, <1>7, <1>8 DEF b

-----------------------------------------------------------------------------
(* What is done to a vehicle on joints that both tracks have *)

(* Some of the joints of the tracks as they are, each of which both its    *)
(* tracks have.                                                            *)
Sound(part) == part \in Layout /\ TwoWay(part) /\ Within(part, joint)

LEMMA KnownIsSound ==
  ASSUME TypeOK
  PROVE  Sound(Known(joint))
BY KnownType DEF TypeOK, Layout, Sound

LEMMA PlacedOnTrack ==
  ASSUME TypeOK, NEW v \in Vehicles, Placed(v), NEW i \in AxleIds
  PROVE  axles[v][i] \in OnTrack
BY DEF TypeOK, Placed

LEMMA SideType ==
  ASSUME TypeOK, NEW v \in Vehicles
  PROVE  /\ facing[v] \in Signs
         /\ \A i \in AxleIds : dDist(v, i) = facing[v] * Offsets[i] /\ dDist(v, i) \in Int
<1>1. facing[v] \in Signs
  BY DEF TypeOK
<1> QED
  BY <1>1, OffsetType DEF dDist, Signs

(* How far axle j is from axle i, as f turns them.                         *)
LEMMA ApartIs ==
  ASSUME NEW f \in Signs, NEW i \in AxleIds, NEW j \in AxleIds
  PROVE  /\ f * (Offsets[j] - Offsets[i]) \in Int
         /\ f * (Offsets[j] - Offsets[i]) = f * Offsets[j] - f * Offsets[i]
         /\ f * Offsets[i] \in Int
BY OffsetType DEF Signs

(* Axles that are put where they reach each other stand so.                *)
LEMMA PlaceStands ==
  ASSUME TypeOK, NEW v \in Vehicles, NEW f \in Signs, NEW ax \in [AxleIds -> OnTrack],
         ~halted, Place(v, ax), joint' = joint,
         \A i, j \in AxleIds : Roll(joint, ax[i], f * (Offsets[j] - Offsets[i])) = ax[j]
  PROVE  ~halted' /\ Stands(v, f)' /\ axles'[v] = ax
<1>1. axles' = [axles EXCEPT ![v] = ax] /\ ~halted'
  BY DEF Place
<1>2. axles'[v] = ax
  BY <1>1 DEF TypeOK
<1>3. Placed(v)'
  <2>1. Nowhere \notin OnTrack
    BY OnTrackIs, TracksAssumption DEF Nowhere
  <2> QED
    BY <1>2, <2>1 DEF Placed
<1> QED
  BY <1>1, <1>2, <1>3 DEF Stands, Reaches

(* Each axle put on its own, SetTrack puts a vehicle down whole.           *)
LEMMA SetTrackStands ==
  ASSUME TypeOK, NEW v \in Vehicles, NEW t \in Tracks, NEW dist \in Int,
         SetTrack(v, t, dist), NEW part, Sound(part),
         \A i \in AxleIds : Inside(InitAxle(part, t, dist, dDist(v, i)))
  PROVE  ~halted' /\ Stands(v, facing[v])'
<1> PICK f \in Signs : f = facing[v]
  BY SideType
<1> DEFINE z == [track |-> t, s |-> 0, dir |-> IF dist >= 0 THEN 1 ELSE -1]
           x(i) == dDist(v, i) + Abs(dist)
           ax == [i \in AxleIds |-> InitAxle(joint, t, dist, dDist(v, i))]
<1>1. /\ joint \in Layout /\ part \in Layout /\ Within(part, joint) /\ TwoWay(part)
  BY DEF TypeOK, Layout, Sound
<1>2. z \in OnTrack
  <2>1. (IF dist >= 0 THEN 1 ELSE -1) \in Signs
    BY DEF Signs
  <2>2. 0 \in 0..Length[t]
    BY TracksAssumption
  <2> QED
    BY <2>1, <2>2, IsOnTrack
<1>3. \A i \in AxleIds : x(i) \in Int
  BY SideType DEF Abs
<1>4. ASSUME NEW i \in AxleIds
      PROVE  /\ Inside(Roll(part, z, x(i))) /\ Roll(part, z, x(i)) \in OnTrack
             /\ ax[i] = Roll(part, z, x(i))
  <2>1. Roll(part, z, x(i)) = InitAxle(part, t, dist, dDist(v, i))
    BY DEF InitAxle
  <2>2. ax[i] = Roll(joint, z, x(i))
    BY DEF InitAxle
  <2> HIDE DEF z, x, ax
  <2>3. Inside(Roll(part, z, x(i))) /\ Roll(part, z, x(i)) \in OnTrack
    BY <2>1, InsideIs
  <2> QED
    BY <1>1, <1>2, <1>3, <2>2, <2>3, RollOverPart
<1>5. ASSUME NEW i \in AxleIds, NEW j \in AxleIds
      PROVE  Roll(joint, ax[i], f * (Offsets[j] - Offsets[i])) = ax[j]
  <2> DEFINE y == f * (Offsets[j] - Offsets[i])
             a == x(i)
             b == x(j)
  <2>1. y \in Int /\ a \in Int /\ b \in Int /\ a + y = b
    <3>1. dDist(v, i) = f * Offsets[i] /\ dDist(v, j) = f * Offsets[j]
      BY SideType
    <3>2. /\ y \in Int /\ y = f * Offsets[j] - f * Offsets[i]
          /\ f * Offsets[i] \in Int /\ f * Offsets[j] \in Int
      BY <1>1, ApartIs
    <3>3. Abs(dist) \in Int
      BY DEF Abs
    <3> HIDE DEF y
    <3> QED
      BY <3>1, <3>2, <3>3
  <2>2. /\ ax[i] = Roll(part, z, a) /\ ax[i] \in OnTrack
        /\ ax[j] = Roll(part, z, b) /\ Inside(Roll(part, z, b)) /\ ax[j] \in OnTrack
    BY <1>4
  <2> HIDE DEF z, ax, y, a, b
  <2>3. Inside(Roll(part, z, a + y)) /\ Roll(part, z, a) \in OnTrack
    BY <2>1, <2>2
  <2>4. Roll(part, Roll(part, z, a), y) = Roll(part, z, a + y)
    BY <1>1, <1>2, <2>1, <2>3, RollSum
  <2>5. Roll(part, ax[i], y) = ax[j]
    BY <2>1, <2>2, <2>4
  <2>6. Roll(joint, ax[i], y) = ax[j]
    BY <1>1, <2>1, <2>2, <2>5, RollOverPart
  <2> QED
    BY <2>6 DEF y
<1>6. ax \in [AxleIds -> OnTrack]
  <2> SUFFICES ASSUME NEW i \in AxleIds PROVE ax[i] \in OnTrack
    BY Zenon DEF ax
  <2> HIDE DEF ax, z, x
  <2> QED
    BY <1>4
<1>7. ~halted /\ Place(v, ax) /\ joint' = joint
  BY DEF SetTrack
<1> HIDE DEF ax
<1>8. ~halted' /\ Stands(v, f)'
  BY <1>1, <1>5, <1>6, <1>7, PlaceStands
<1> QED
  BY <1>8 DEF SetTrack

(* A vehicle with the right dDist stands as it stood, heading the other    *)
(* way.                                                                    *)
LEMMA FlipStands ==
  ASSUME TypeOK, NEW v \in Vehicles, Flip(v), Placed(v), NEW part, Sound(part),
         NEW f \in Signs, facing[v] = f,
         \A i, j \in AxleIds :
           Roll(part, axles[v][i], f * (Offsets[j] - Offsets[i])) = axles[v][j],
         \A i \in AxleIds : /\ Inside(axles[v][i])
                            /\ Inside(Roll(part, axles[v][i], -2 * dDist(v, i)))
  PROVE  ~halted' /\ Stands(v, f)'
<1> DEFINE a(i) == axles[v][i]
           u(i) == f * Offsets[i]
           b(i) == Roll(part, a(i), -2 * u(i))
           ax == Turned(v)
<1>1. /\ joint \in Layout /\ part \in Layout /\ Within(part, joint) /\ TwoWay(part)
  BY DEF TypeOK, Layout, Sound
<1>2. \A i \in AxleIds : /\ u(i) \in Int /\ dDist(v, i) = u(i) /\ -2 * u(i) \in Int
                         /\ a(i) \in OnTrack /\ Inside(a(i)) /\ Inside(b(i))
                         /\ b(i) \in OnTrack
  <2> SUFFICES ASSUME NEW i \in AxleIds
               PROVE  /\ u(i) \in Int /\ dDist(v, i) = u(i) /\ -2 * u(i) \in Int
                      /\ a(i) \in OnTrack /\ Inside(a(i)) /\ Inside(b(i))
                      /\ b(i) \in OnTrack
    OBVIOUS
  <2>1. u(i) \in Int /\ dDist(v, i) = u(i)
    BY SideType, ApartIs
  <2>2. Inside(b(i)) /\ Inside(a(i))
    BY <2>1
  <2> HIDE DEF a, b
  <2> QED
    BY <2>1, <2>2, InsideIs
<1>3. ASSUME NEW i \in AxleIds, NEW j \in AxleIds
      PROVE  Roll(part, b(i), u(i) - u(j)) = b(j)
  <2> DEFINE x == u(j) - u(i)
             y == -2 * u(j)
             p == -2 * u(i)
             q == u(i) - u(j)
             c == a(i)
             d == a(j)
  <2>1. /\ x \in Int /\ y \in Int /\ p \in Int /\ q \in Int /\ x + y = p + q
        /\ c \in OnTrack /\ d \in OnTrack /\ Inside(c)
        /\ b(i) = Roll(part, c, p) /\ b(i) \in OnTrack
        /\ b(j) = Roll(part, d, y) /\ Inside(b(j))
    BY <1>2
  <2>2. Roll(part, c, x) = d
    <3>1. f * (Offsets[j] - Offsets[i]) = x
      BY ApartIs
    <3> QED
      BY <3>1
  <2> HIDE DEF a, b, c, d, x, y, p, q
  <2>3. Roll(part, c, x + y) = b(j)
    <3>1. Roll(part, c, x) \in OnTrack /\ Inside(Roll(part, Roll(part, c, x), y))
      BY <2>1, <2>2
    <3> QED
      BY <1>1, <2>1, <2>2, <3>1, RollParts
  <2>4. Roll(part, c, p) \in OnTrack /\ Inside(Roll(part, c, p + q))
    BY <2>1, <2>3
  <2>5. Roll(part, Roll(part, c, p), q) = Roll(part, c, p + q)
    BY <1>1, <2>1, <2>4, RollSum
  <2> QED
    BY <2>1, <2>3, <2>5 DEF q
<1>4. ASSUME NEW i \in AxleIds
      PROVE  ax[i] = Turn(b(i)) /\ ax[i] \in OnTrack
  <2> DEFINE r == -2 * dDist(v, i)
  <2>1. ax[i] = Turn(Roll(joint, a(i), r))
    BY DEF Turned, Turn
  <2>2. r \in Int /\ Roll(part, a(i), r) = b(i) /\ b(i) \in OnTrack /\ a(i) \in OnTrack
    BY <1>2
  <2> HIDE DEF ax, r, a, b
  <2>3. Roll(joint, a(i), r) = b(i)
    BY <1>1, <2>2, RollOverPart
  <2> QED
    BY <2>1, <2>2, <2>3, TurnType
<1>5. ASSUME NEW i \in AxleIds, NEW j \in AxleIds
      PROVE  Roll(joint, ax[i], f * (Offsets[j] - Offsets[i])) = ax[j]
  <2> DEFINE y == f * (Offsets[j] - Offsets[i])
             w == u(i) - u(j)
  <2>1. y \in Int /\ w = -y
    BY <1>2, ApartIs
  <2>2. /\ ax[i] = Turn(b(i)) /\ ax[i] \in OnTrack /\ b(i) \in OnTrack
        /\ ax[j] = Turn(b(j)) /\ ax[j] \in OnTrack /\ b(j) \in OnTrack
        /\ Roll(part, b(i), w) = b(j)
    BY <1>2, <1>3, <1>4
  <2> HIDE DEF ax, b, y, w
  <2>3. Roll(part, b(i), -y) = b(j)
    BY <2>1, <2>2
  <2>4. Roll(part, ax[i], y) = ax[j]
    BY <1>1, <2>1, <2>2, <2>3, RollTurned
  <2>5. Roll(joint, ax[i], y) = ax[j]
    BY <1>1, <2>1, <2>2, <2>4, RollOverPart
  <2> QED
    BY <2>5 DEF y
<1>6. ax \in [AxleIds -> OnTrack]
  <2> SUFFICES ASSUME NEW i \in AxleIds PROVE ax[i] \in OnTrack
    BY Zenon DEF ax, Turned
  <2> HIDE DEF ax
  <2> QED
    BY <1>4
<1>7. ~halted /\ Place(v, ax) /\ joint' = joint
  BY DEF Flip
<1> HIDE DEF ax
<1>8. ~halted' /\ Stands(v, f)'
  BY <1>1, <1>5, <1>6, <1>7, PlaceStands
<1> QED
  BY <1>8

(* The axle that is sent to the middle comes back to its place, and then   *)
(* nothing has changed.                                                    *)
LEMMA AskChangesNothing ==
  ASSUME IInv, NEW v \in Vehicles, GetMiddleTrackAndDistance(v),
         NEW part, Sound(part), Inside(axles[v][Probe(v)]),
         Roll(part, axles[v][Probe(v)], -dDist(v, Probe(v))) \in OnTrack
  PROVE  UNCHANGED vars
<1> DEFINE k == Probe(v)
           a == axles[v][k]
           d == dDist(v, k)
           m == -d
           ax == [axles[v] EXCEPT ![k] = Roll(joint, Middle(v), d)]
<1>1. /\ joint \in Layout /\ part \in Layout /\ Within(part, joint) /\ TwoWay(part)
      /\ TypeOK /\ Placed(v)
  BY DEF IInv, TypeOK, Layout, Sound, GetMiddleTrackAndDistance
<1>2. k \in AxleIds
  BY TwoAxles DEF Probe, AxleIds
<1>3. d \in Int /\ m \in Int /\ d = -m
  BY <1>1, <1>2, SideType
<1>4. a \in OnTrack /\ Inside(a)
  BY InsideIs
<1>5. Middle(v) = Roll(joint, a, m)
  BY DEF Middle
<1>6. Roll(part, a, m) \in OnTrack
  OBVIOUS
<1> HIDE DEF a, d, m, k
<1>7. Roll(part, Roll(part, a, m), d) = a
  BY <1>1, <1>3, <1>4, <1>6, InsideHasWay, RollBack
<1>8. Middle(v) = Roll(part, a, m)
  BY <1>1, <1>3, <1>4, <1>5, <1>6, RollOverPart
<1>9. Roll(joint, Middle(v), d) = a
  <2> DEFINE b == Middle(v)
  <2>1. b \in OnTrack /\ Roll(part, b, d) = a
    BY <1>6, <1>7, <1>8
  <2> HIDE DEF b
  <2>2. Roll(joint, b, d) = a
    BY <1>1, <1>3, <1>4, <2>1, RollOverPart
  <2> QED
    BY <2>2 DEF b
<1>10. axles[v] \in [AxleIds -> OnTrack \cup {Nowhere}]
  BY <1>1 DEF TypeOK
<1>11. ax = axles[v]
  BY <1>2, <1>9, <1>10 DEF a
<1>12. Place(v, axles[v]) /\ UNCHANGED <<joint, facing, primary>>
  <2>1. Place(v, ax) /\ UNCHANGED <<joint, facing, primary>>
    BY DEF GetMiddleTrackAndDistance, k, d
  <2> QED
    BY <1>11, <2>1
<1>13. /\ axles' = [axles EXCEPT ![v] = axles[v]]
       /\ List(v, PrimaryTrack(v, axles[v])) /\ halted' = halted
  <2>1. \A i \in AxleIds : axles[v][i] \in OnTrack
    BY <1>1, PlacedOnTrack
  <2> HIDE DEF Place
  <2> QED
    BY <1>12, <2>1 DEF Place
<1>14. axles' = axles
  BY <1>1, <1>13 DEF TypeOK
<1>15. node' = node /\ numVehicles' = numVehicles
  <2> DEFINE t == PrimaryTrack(v, axles[v])
             n == [x \in Tracks |-> numVehicles[x] - (IF x = t THEN 1 ELSE 0)
                                                   + (IF x = t THEN 1 ELSE 0)]
  <2>1. node' = [node EXCEPT ![v] = t] /\ numVehicles' = n
    BY <1>13 DEF List
  <2>2. node[v] = t /\ node \in [Vehicles -> Tracks \cup {NoTrack}]
        /\ numVehicles \in [Tracks -> Int]
    BY <1>1 DEF IInv, Listed, TypeOK
  <2> HIDE DEF t
  <2>3. n = numVehicles
    BY <2>2
  <2> QED
    BY <2>1, <2>2, <2>3
<1> QED
  BY <1>12, <1>13, <1>14, <1>15 DEF vars

(* What walks over some of the joints makes the report exact.              *)
LEMMA ReportsExactly ==
  ASSUME TypeOK, NEW v \in Vehicles, facing[v] = 1, NEW part, Sound(part),
         Roll(part, axles[v][Probe(v)], -Offsets[Probe(v)]) \in OnTrack,
         Middle(v).dir = 1, NEW i \in AxleIds,
         axles[v][Probe(v)] \in OnTrack, Inside(axles[v][i]),
         Roll(part, axles[v][Probe(v)], 1 * (Offsets[i] - Offsets[Probe(v)])) = axles[v][i]
  PROVE  InitAxle(joint, Middle(v).track, Middle(v).s * Middle(v).dir, Offsets[i])
           = axles[v][i]
<1> DEFINE k == Probe(v)
           a == axles[v][k]
           c == axles[v][i]
           x == -Offsets[k]
           y == Offsets[i]
           m == Middle(v)
<1>1. joint \in Layout /\ part \in Layout /\ Within(part, joint) /\ TwoWay(part)
  BY DEF TypeOK, Layout, Sound
<1>2. k \in AxleIds
  BY TwoAxles DEF Probe, AxleIds
<1>3. /\ x \in Int /\ y \in Int /\ x + y = 1 * (Offsets[i] - Offsets[k])
      /\ -dDist(v, k) = x
  BY <1>2, OffsetType DEF dDist
<1>4. /\ a \in OnTrack /\ Inside(c) /\ Roll(part, a, x) \in OnTrack
      /\ Roll(part, a, x + y) = c /\ c \in OnTrack
  BY <1>3, InsideIs
<1>5. m = Roll(joint, a, x)
  BY <1>3 DEF Middle
<1> HIDE DEF a, c, x, y, k, m
<1>6. m = Roll(part, a, x)
  BY <1>1, <1>3, <1>4, <1>5, RollOverPart
<1>7. Roll(part, m, y) = c
  <2>1. Inside(Roll(part, a, x + y))
    BY <1>4
  <2> QED
    BY <1>1, <1>3, <1>4, <1>6, <2>1, RollSum
<1>8. Roll(joint, m, y) = c /\ m \in OnTrack
  BY <1>1, <1>3, <1>4, <1>6, <1>7, RollOverPart
<1>9. InitAxle(joint, m.track, m.s * m.dir, y) = Roll(joint, m, y)
  <2>1. m.dir = 1
    BY DEF m
  <2> QED
    BY <1>1, <1>3, <1>4, <1>8, <2>1, InitIsRoll
<1> QED
  BY <1>8, <1>9 DEF m, c, y

(* If an axle leaves the tracks it does so when it goes further, too.      *)
LEMMA WalksOff ==
  ASSUME NEW joints \in Layout, NEW l, InRange(l), NEW y \in Int, SameWay(l.left, y),
         Walk(joints)[l].track = NoTrack
  PROVE  Walk(joints)[Further(l, y)].track = NoTrack
<1> DEFINE W == Walk(joints)
           Wrong(x, z) == /\ InRange(x) /\ SameWay(x.left, z) /\ W[x].track = NoTrack
                          /\ W[Further(x, z)].track # NoTrack
           Bad == {n \in Nat : \E x \in Walker, z \in Int : Wrong(x, z) /\ Beyond(x) = n}
<1>1. ASSUME NEW x \in Walker, NEW z \in Int, Wrong(x, z) PROVE Beyond(x) \in Nat
  BY <1>1, WalkerType, TracksAssumption DEF Beyond, InRange
<1>2. SUFFICES ASSUME Bad # {} PROVE FALSE
  BY <1>1 DEF InRange
<1>3. PICK n \in Bad : \A m \in Bad : n <= m
  BY <1>2, Least
<1>4. PICK x \in Walker, z \in Int : Wrong(x, z) /\ Beyond(x) = n
  BY <1>3
<1> DEFINE m == Further(x, z)
<1>5. /\ x.track \in Tracks /\ x.dir \in Signs /\ Aim(x) \in Int /\ x.track # NoTrack
      /\ x.s \in 0..Length[x.track] /\ Length[x.track] \in Nat \ {0} /\ x.left \in Int
      /\ Aim(x) = x.s + x.left /\ x.s \in Int
      /\ x = [track |-> x.track, s |-> x.s, dir |-> x.dir, left |-> x.left]
      /\ InRange(x) /\ SameWay(x.left, z)
  BY <1>4, WalkerType, TracksAssumption DEF InRange, Aim
<1>6. /\ m \in Walker /\ m.track = x.track /\ Aim(m) = Aim(x) + z
  BY FurtherType
<1>7. W[x] = Round(joints, W, x) /\ W[m] = Round(joints, W, m)
  BY <1>6, WalkUnfolds
<1>8. W[x].track = NoTrack /\ W[m].track # NoTrack
  BY <1>4
<1> HIDE DEF W
<1>9. CASE Crosses(joints, x)
  <2> DEFINE c == Crossed(joints, x)
             w == Seen(z, x.dir, c.dir)
  <2>1. /\ Crosses(joints, m) /\ Crossed(joints, m) = Further(c, w)
        /\ SameWay(c.left, w) /\ InRange(c)
    BY <1>5, <1>9, CrossingFurther
  <2>2. c \in Walker /\ Beyond(c) \in Nat /\ Beyond(c) < n /\ w \in Int
    BY <1>4, <1>9, CrossedType DEF Seen
  <2>3. W[x] = W[c] /\ W[m] = W[Further(c, w)]
    BY <1>7, <1>9, <2>1 DEF Round
  <2> HIDE DEF c, w, m
  <2>4. Beyond(c) \in Bad
    BY <1>8, <2>1, <2>2, <2>3
  <2> QED
    BY <1>3, <2>2, <2>4
<1>10. CASE ~Crosses(joints, x)
  <2>1. W[x] = Stopped(x)
    BY <1>7, <1>10 DEF Round
  <2>2. Leaves(x)
    <3> SUFFICES ASSUME ~Leaves(x) PROVE FALSE
      OBVIOUS
    <3>1. Stopped(x) = [track |-> x.track, s |-> Aim(x), dir |-> x.dir, left |-> 0]
      BY <1>5 DEF Stopped
    <3> QED
      BY <1>5, <1>8, <2>1, <3>1
  <2> HIDE DEF m
  <2>3. Leaves(m) /\ Exit(joints, m) = Exit(joints, x)
    <3>1. \/ Aim(x) < 0 /\ z <= 0
          \/ ~(Aim(x) < 0) /\ Aim(x) > Length[x.track] /\ z >= 0
      BY <1>5, <2>2 DEF Leaves, Beyond, SameWay
    <3>2. ((Aim(m) < 0) <=> (Aim(x) < 0)) /\ Beyond(m) > 0
      BY <1>5, <1>6, <3>1 DEF Beyond
    <3> QED
      BY <1>5, <1>6, <3>2 DEF Leaves, Exit
  <2>4. W[m] = Stopped(m)
    BY <1>7, <1>10, <2>2, <2>3 DEF Round, Crosses
  <2>5. Stopped(m) = [m EXCEPT !.track = NoTrack]
    BY <1>5, <1>6, <2>3 DEF Stopped
  <2>6. m = [track |-> m.track, s |-> m.s, dir |-> m.dir, left |-> m.left]
    BY <1>6, WalkerType
  <2> QED
    BY <1>8, <2>4, <2>5, <2>6
<1> QED
  BY <1>9, <1>10

(* On the way to a place an axle is on the tracks.                         *)
LEMMA RollsLess ==
  ASSUME NEW joints \in Layout, NEW a \in OnTrack, NEW x \in Int, NEW y \in Int,
         SameWay(x, y), Roll(joints, a, x + y) \in OnTrack
  PROVE  Roll(joints, a, x) \in OnTrack
<1> DEFINE l == Rolling(a, x)
           z == Seen(y, 1, a.dir)
           e == Walk(joints)[l]
           f == Walk(joints)[Rolling(a, x + y)]
<1>1. /\ InRange(l) /\ l \in Walker /\ l.track = a.track /\ l.s = a.s
      /\ l.dir = a.dir /\ l.left = Seen(x, 1, a.dir) /\ a.dir \in Signs
  BY RollingType, OnTrackIs
<1>2. z \in Int /\ SameWay(l.left, z)
  BY <1>1 DEF Seen, SameWay, Signs
<1>3. Further(l, z) = Rolling(a, x + y)
  <2>1. /\ Further(l, z) \in Walker /\ Further(l, z).track = a.track /\ Further(l, z).s = a.s
        /\ Further(l, z).dir = a.dir /\ Further(l, z).left = l.left + z
    BY <1>1, <1>2, FurtherType
  <2>2. /\ Rolling(a, x + y) \in Walker /\ Rolling(a, x + y).track = a.track
        /\ Rolling(a, x + y).s = a.s /\ Rolling(a, x + y).dir = a.dir
        /\ Rolling(a, x + y).left = Seen(x + y, 1, a.dir)
    BY RollingType
  <2>3. l.left + z = Seen(x + y, 1, a.dir)
    BY <1>1 DEF Seen
  <2> HIDE DEF z, l
  <2> QED
    BY <2>1, <2>2, <2>3, WalkerType
<1>4. /\ Roll(joints, a, x) = [track |-> e.track, s |-> e.s, dir |-> e.dir]
      /\ Roll(joints, a, x + y) = [track |-> f.track, s |-> f.s, dir |-> f.dir]
  BY RollType
<1>5. f.track # NoTrack
  <2>1. Roll(joints, a, x + y).track # NoTrack
    BY OnTrackIs, TracksAssumption
  <2> HIDE DEF f
  <2> QED
    BY <1>4, <2>1
<1> HIDE DEF l, z
<1>6. e.track # NoTrack
  BY <1>1, <1>2, <1>3, <1>5, WalksOff
<1> HIDE DEF e
<1>7. Roll(joints, a, x).track # NoTrack
  BY <1>4, <1>6
<1> QED
  BY <1>7, RollType

(* Vehicle v stands as f says, off the joints, on tracks joined by joints  *)
(* which both tracks have.                                                 *)
StandsOnKnown(v, f) ==
  /\ Placed(v)
  /\ \A i \in AxleIds : Inside(axles[v][i])
  /\ \A i, j \in AxleIds :
       Roll(Known(joint), axles[v][i], f * (Offsets[j] - Offsets[i])) = axles[v][j]

(* Whatever was there before, SetTrack (324-341) puts every axle where the *)
(* others find it, if its walk from the beginning of the track meets no    *)
(* joint that only one track has and ends at none; and no n_assert fails   *)
(* (these and the next lines are of ndynamic_main.cc).                     *)
THEOREM SetDownWhole ==
  Spec => [][\A v \in Vehicles, t \in Tracks, dist \in Distances \cup {0} :
               /\ SetTrack(v, t, dist)
               /\ \A i \in AxleIds : Inside(InitAxle(Known(joint), t, dist, dDist(v, i)))
               => ~halted' /\ Stands(v, facing[v])']_vars
<1> DEFINE A == \A v \in Vehicles, t \in Tracks, dist \in Distances \cup {0} :
                  /\ SetTrack(v, t, dist)
                  /\ \A i \in AxleIds : Inside(InitAxle(Known(joint), t, dist, dDist(v, i)))
                  => ~halted' /\ Stands(v, facing[v])'
<1>1. TypeOK => [A]_vars
  <2> SUFFICES ASSUME TypeOK,
                      NEW v \in Vehicles, NEW t \in Tracks, NEW dist \in Distances \cup {0},
                      SetTrack(v, t, dist),
                      \A i \in AxleIds : Inside(InitAxle(Known(joint), t, dist, dDist(v, i)))
               PROVE  ~halted' /\ Stands(v, facing[v])'
    OBVIOUS
  <2>1. dist \in Int
    BY TracksAssumption
  <2> QED
    BY <2>1, KnownIsSound, SetTrackStands
<1> QED
  BY <1>1, TypeCorrect, PTL

(* Flip (306-319) turns a vehicle whose dDist are right into one that      *)
(* stands as it did on its tracks, whatever joints its axles pass each     *)
(* other at; and no n_assert fails.                                        *)
THEOREM FlippedWhole ==
  Spec => [][\A v \in Vehicles, f \in Signs :
               /\ Flip(v)
               /\ facing[v] = f /\ StandsOnKnown(v, f)
               /\ \A i \in AxleIds :
                    Inside(Roll(Known(joint), axles[v][i], -2 * dDist(v, i)))
               => ~halted' /\ Stands(v, f)']_vars
<1> DEFINE A == \A v \in Vehicles, f \in Signs :
                  /\ Flip(v)
                  /\ facing[v] = f /\ StandsOnKnown(v, f)
                  /\ \A i \in AxleIds :
                       Inside(Roll(Known(joint), axles[v][i], -2 * dDist(v, i)))
                  => ~halted' /\ Stands(v, f)'
<1>1. TypeOK => [A]_vars
  <2> SUFFICES ASSUME TypeOK, NEW v \in Vehicles, NEW f \in Signs, Flip(v),
                      facing[v] = f, StandsOnKnown(v, f),
                      \A i \in AxleIds :
                        Inside(Roll(Known(joint), axles[v][i], -2 * dDist(v, i)))
               PROVE  ~halted' /\ Stands(v, f)'
    OBVIOUS
  <2> QED
    BY KnownIsSound, FlipStands DEF StandsOnKnown
<1> QED
  BY <1>1, TypeCorrect, PTL

LEMMA IInvHolds == Spec => []IInv
<1>1. Init => IInv
  BY InitKeeps
<1>2. IInv /\ [Next]_vars => IInv'
  BY StepKeeps
<1> QED
  BY <1>1, <1>2, PTL DEF Spec

(* To ask where a vehicle is changes nothing, though an axle walks to the  *)
(* middle and back (592-605), crosses joints and leaves lists for it: if   *)
(* it meets no joint that only one track has.                              *)
THEOREM AskedUnmoved ==
  Spec => [][\A v \in Vehicles :
               /\ GetMiddleTrackAndDistance(v)
               /\ Inside(axles[v][Probe(v)])
               /\ Roll(Known(joint), axles[v][Probe(v)], -dDist(v, Probe(v))) \in OnTrack
               => UNCHANGED vars]_vars
<1> DEFINE A == \A v \in Vehicles :
                  /\ GetMiddleTrackAndDistance(v)
                  /\ Inside(axles[v][Probe(v)])
                  /\ Roll(Known(joint), axles[v][Probe(v)], -dDist(v, Probe(v))) \in OnTrack
                  => UNCHANGED vars
<1>1. IInv => [A]_vars
  <2> SUFFICES ASSUME IInv, NEW v \in Vehicles, GetMiddleTrackAndDistance(v),
                      Inside(axles[v][Probe(v)]),
                      Roll(Known(joint), axles[v][Probe(v)], -dDist(v, Probe(v))) \in OnTrack
               PROVE  UNCHANGED vars
    OBVIOUS
  <2>1. Sound(Known(joint))
    BY KnownIsSound DEF IInv
  <2> QED
    BY <2>1, AskChangesNothing
<1> QED
  BY <1>1, IInvHolds, PTL

LEMMA ReportsOnKnown ==
  ASSUME TypeOK, NEW v \in Vehicles, facing[v] = 1, StandsOnKnown(v, 1),
         Middle(v).dir = 1, NEW i \in AxleIds,
         Roll(Known(joint), axles[v][Probe(v)], -dDist(v, Probe(v))) \in OnTrack
  PROVE  InitAxle(joint, Middle(v).track, Middle(v).s * Middle(v).dir, Offsets[i])
           = axles[v][i]
<1>1. Probe(v) \in AxleIds
  BY TwoAxles DEF Probe, AxleIds
<1>2. -dDist(v, Probe(v)) = -Offsets[Probe(v)]
  BY <1>1, OffsetType DEF dDist
<1>3. axles[v][Probe(v)] \in OnTrack /\ Inside(axles[v][i])
  BY <1>1, InsideIs DEF StandsOnKnown
<1>4. Roll(Known(joint), axles[v][Probe(v)], -Offsets[Probe(v)]) \in OnTrack
  BY <1>2
<1>5. Roll(Known(joint), axles[v][Probe(v)], 1 * (Offsets[i] - Offsets[Probe(v)])) = axles[v][i]
  BY <1>1 DEF StandsOnKnown
<1> QED
  BY <1>3, <1>4, <1>5, KnownIsSound, ReportsExactly

(* ForwardReportIsExact of a vehicle on joints that both tracks have, also *)
(* where its middle is at a joint and all of its axles are on one side.    *)
THEOREM ReportOnKnownIsExact ==
  Spec => [](\A v \in Vehicles :
               /\ facing[v] = 1 /\ StandsOnKnown(v, 1) /\ Middle(v).dir = 1
               /\ Roll(Known(joint), axles[v][Probe(v)], -dDist(v, Probe(v))) \in OnTrack
               => \A i \in AxleIds :
                    InitAxle(joint, Middle(v).track, Middle(v).s * Middle(v).dir, Offsets[i])
                      = axles[v][i])
<1> DEFINE I == \A v \in Vehicles :
               /\ facing[v] = 1 /\ StandsOnKnown(v, 1) /\ Middle(v).dir = 1
               /\ Roll(Known(joint), axles[v][Probe(v)], -dDist(v, Probe(v))) \in OnTrack
               => \A i \in AxleIds :
                    InitAxle(joint, Middle(v).track, Middle(v).s * Middle(v).dir, Offsets[i])
                      = axles[v][i]
<1>1. TypeOK => I
  BY ReportsOnKnown
<1> QED
  BY <1>1, TypeCorrect, PTL

-----------------------------------------------------------------------------
(* A vehicle that nothing cuts *)

(* The joints that a change of the layout leaves.                          *)
Kept(old, new) ==
  [t \in Tracks |-> [e \in Ends |->
     IF old[t][e] = new[t][e] THEN old[t][e] ELSE [to |-> NoTrack, swap |-> FALSE]]]

(* What a step does with v it does where no joint is one that only one of  *)
(* its tracks has, and with axles off the joints: the walks from the       *)
(* beginning of a track, to the other side of the middle, to the middle;   *)
(* and no switch is thrown between the axles.  Of a Move nothing is asked. *)
GoesOverKnown(v) ==
  /\ \A t \in Tracks, dist \in Distances \cup {0} :
       SetTrack(v, t, dist) /\ ~halted' =>
         \A i \in AxleIds : Inside(InitAxle(Known(joint), t, dist, dDist(v, i)))
  /\ Flip(v) /\ ~halted' /\ Stands(v, facing[v]) =>
       /\ StandsOnKnown(v, facing[v])
       /\ \A i \in AxleIds : Inside(Roll(Known(joint), axles[v][i], -2 * dDist(v, i)))
  /\ GetMiddleTrackAndDistance(v) /\ ~halted' =>
       /\ Inside(axles[v][Probe(v)])
       /\ Roll(Known(joint), axles[v][Probe(v)], -dDist(v, Probe(v))) \in OnTrack
  /\ \A f \in Signs : joint' # joint /\ Stands(v, f) =>
       \A i, j \in AxleIds :
         Roll(Kept(joint, joint'), axles[v][i], f * (Offsets[j] - Offsets[i])) = axles[v][j]

LEMMA StandsTrailsAfter ==
  ASSUME NEW v \in Vehicles, NEW f \in Signs, Stands(v, f)'
  PROVE  Trails(v)'
<1>1. 1 \in AxleIds
  BY TwoAxles DEF AxleIds
<1> QED
  BY <1>1 DEF Stands, Trails

LEMMA WholeStays ==
  ASSUME NEW v \in Vehicles, Whole(v), joint' = joint, axles'[v] = axles[v]
  PROVE  Trails(v)'
<1>1. PICK f \in Signs : Stands(v, f)
  BY DEF Whole
<1>2. Stands(v, f)'
  BY <1>1 DEF Stands, Placed, Reaches
<1> QED
  BY <1>2, StandsTrailsAfter

(* A vehicle whose operation fails stays where it was, as do all others.   *)
LEMMA PlaceLeaves ==
  ASSUME TypeOK, NEW v \in Vehicles, NEW w \in Vehicles, NEW ax,
         Place(v, ax), joint' = joint, Whole(w), w # v \/ (~halted /\ halted')
  PROVE  Trails(w)'
<1>1. axles'[w] = axles[w]
  BY DEF Place, TypeOK
<1> QED
  BY <1>1, WholeStays

LEMMA SetTrackKeepsWhole ==
  ASSUME TypeOK, NEW v \in Vehicles, NEW w \in Vehicles,
         NEW t \in Tracks, NEW dist \in Distances \cup {0}, SetTrack(v, t, dist),
         Whole(w), GoesOverKnown(w)
  PROVE  Trails(w)'
<1>1. PICK ax : ~halted /\ Place(v, ax) /\ joint' = joint
  BY DEF SetTrack
<1>2. CASE w # v \/ halted'
  BY <1>1, <1>2, PlaceLeaves
<1>3. CASE w = v /\ ~halted'
  <2> dist \in Int
    BY TracksAssumption
  <2>1. Stands(v, facing[v])'
    BY <1>1, <1>3, KnownIsSound, SetTrackStands DEF GoesOverKnown
  <2>2. facing' = facing
    BY DEF SetTrack
  <2>3. PICK f \in Signs : f = facing[v]
    BY SideType
  <2>4. Stands(v, f)'
    BY <2>1, <2>2, <2>3
  <2> QED
    BY <1>3, <2>4, StandsTrailsAfter
<1> QED
  BY <1>2, <1>3

LEMMA MoveKeepsWhole ==
  ASSUME TypeOK, NEW v \in Vehicles, NEW w \in Vehicles,
         NEW s \in Distances, Move(v, s), Whole(w)
  PROVE  Trails(w)'
<1>1. PICK ax : ~halted /\ Place(v, ax) /\ joint' = joint
  BY DEF Move
<1>2. CASE w # v \/ halted'
  BY <1>1, <1>2, PlaceLeaves
<1>3. CASE w = v /\ ~halted'
  <2>1. HindmostReaches(v, s)'
    BY <1>3, WholeIsReached, MoveKeepsTogether
  <2> QED
    BY <1>3, <2>1 DEF HindmostReaches, Trails
<1> QED
  BY <1>2, <1>3

LEMMA FlipKeepsWhole ==
  ASSUME TypeOK, NEW v \in Vehicles, NEW w \in Vehicles, Flip(v),
         Whole(w), facing'[w] # facing[w] => Stands(w, facing[w]), GoesOverKnown(w)
  PROVE  Trails(w)'
<1>1. ~halted /\ joint' = joint /\ facing' = [facing EXCEPT ![v] = -facing[v]]
  BY DEF Flip
<1>2. CASE ~Placed(v)
  <2>1. axles' = axles
    BY <1>2 DEF Flip
  <2> QED
    BY <1>1, <2>1, WholeStays
<1>3. CASE Placed(v) /\ (w # v \/ halted')
  <2>1. PICK ax : Place(v, ax)
    BY <1>3 DEF Flip
  <2> QED
    BY <1>1, <1>3, <2>1, PlaceLeaves
<1>4. CASE Placed(v) /\ w = v /\ ~halted'
  <2>1. PICK f \in Signs : facing[v] = f
    BY SideType
  <2>2. facing'[v] # facing[v]
    BY <1>1, <2>1 DEF TypeOK, Signs
  <2>3. /\ StandsOnKnown(v, f)
        /\ \A i \in AxleIds : Inside(Roll(Known(joint), axles[v][i], -2 * dDist(v, i)))
    BY <1>4, <2>1, <2>2 DEF GoesOverKnown
  <2>4. Stands(v, f)'
    BY <2>1, <2>3, KnownIsSound, FlipStands DEF StandsOnKnown
  <2> QED
    BY <1>4, <2>4, StandsTrailsAfter
<1> QED
  BY <1>2, <1>3, <1>4

LEMMA AskKeepsWhole ==
  ASSUME IInv, NEW v \in Vehicles, NEW w \in Vehicles,
         GetMiddleTrackAndDistance(v), Whole(w), GoesOverKnown(w)
  PROVE  Trails(w)'
<1>1. PICK ax : TypeOK /\ ~halted /\ Place(v, ax) /\ joint' = joint
  BY DEF GetMiddleTrackAndDistance, IInv
<1>2. CASE w # v \/ halted'
  BY <1>1, <1>2, PlaceLeaves
<1>3. CASE w = v /\ ~halted'
  <2>1. UNCHANGED vars
    BY <1>1, <1>3, KnownIsSound, AskChangesNothing DEF GoesOverKnown
  <2> QED
    BY <2>1, WholeStays DEF vars
<1> QED
  BY <1>2, <1>3

LEMMA KeptType ==
  ASSUME NEW old \in Layout, NEW new \in Layout
  PROVE  Kept(old, new) \in Layout /\ Within(Kept(old, new), new)
<1> DEFINE none == [to |-> NoTrack, swap |-> FALSE]
           k == Kept(old, new)
<1>1. none \in Joint
  BY DEF Joint
<1>2. \A t \in Tracks, e \in Ends :
        /\ k[t][e] = IF old[t][e] = new[t][e] THEN old[t][e] ELSE none
        /\ old[t][e] \in Joint
  BY DEF Kept, Layout
<1>3. k \in Layout
  <2>1. k = [t \in Tracks |-> [e \in Ends |->
               IF old[t][e] = new[t][e] THEN old[t][e] ELSE none]]
    BY DEF Kept
  <2> HIDE DEF k, none
  <2> QED
    BY <1>1, <1>2, <2>1 DEF Layout
<1>4. none.to = NoTrack
  OBVIOUS
<1> HIDE DEF k, none
<1>5. Within(k, new)
  BY <1>2, <1>4 DEF Within
<1> QED
  BY <1>3, <1>5 DEF k

(* Where a switch is thrown that is not between them, the axles of a       *)
(* vehicle are as far apart as they were.                                  *)
LEMMA ThrowKeepsWhole ==
  ASSUME TypeOK, NEW c \in Connections, Throw(c), NEW w \in Vehicles,
         Whole(w), GoesOverKnown(w)
  PROVE  Trails(w)'
<1>1. joint \in Layout /\ joint' \in Layout /\ axles' = axles
  BY ConnectType DEF TypeOK, Layout, Throw
<1>2. CASE joint' = joint
  BY <1>1, <1>2, WholeStays
<1>3. CASE joint' # joint
  <2> DEFINE k == Kept(joint, joint')
  <2>1. PICK f \in Signs : Stands(w, f)
    BY DEF Whole
  <2>2. PICK n : n = joint' /\ n \in Layout
    BY <1>1
  <2>3. ASSUME NEW i \in AxleIds, NEW j \in AxleIds
        PROVE  Roll(joint', axles[w][i], f * (Offsets[j] - Offsets[i])) = axles[w][j]
    <3> DEFINE d == f * (Offsets[j] - Offsets[i])
               a == axles[w][i]
               b == axles[w][j]
               part == Kept(joint, n)
    <3>1. Roll(part, a, d) = b
      BY <1>3, <2>1, <2>2 DEF GoesOverKnown
    <3>2. a \in OnTrack /\ b \in OnTrack
      BY <2>1, PlacedOnTrack DEF Stands
    <3>3. d \in Int
      BY ApartIs
    <3>4. part \in Layout /\ Within(part, n)
      BY <1>1, <2>2, KeptType
    <3> HIDE DEF a, b, d, part
    <3>5. Roll(n, a, d) = b
      BY <2>2, <3>1, <3>2, <3>3, <3>4, RollOverPart
    <3> QED
      BY <2>2, <3>5 DEF a, b, d
  <2>4. Stands(w, f)'
    BY <1>1, <2>1, <2>3 DEF Stands, Placed, Reaches
  <2> QED
    BY <2>4, StandsTrailsAfter
<1> QED
  BY <1>2, <1>3

LEMMA StepKeepsWhole ==
  ASSUME IInv, [Next]_vars, NEW w \in Vehicles, Whole(w), Placed(w)',
         facing'[w] # facing[w] => Stands(w, facing[w]),
         GoesOverKnown(w) \/ UNCHANGED vars
  PROVE  Trails(w)'
<1>1. TypeOK
  BY DEF IInv
<1>2. CASE UNCHANGED vars
  BY <1>2, WholeStays DEF vars
<1>3. CASE GoesOverKnown(w) /\ Next
  <2>1. ASSUME NEW v \in Vehicles, NEW t \in Tracks, NEW dist \in Distances \cup {0},
               SetTrack(v, t, dist)
        PROVE  Trails(w)'
    BY <1>1, <1>3, <2>1, SetTrackKeepsWhole
  <2>2. ASSUME NEW v \in Vehicles, NEW s \in Distances, Move(v, s)
        PROVE  Trails(w)'
    BY <1>1, <2>2, MoveKeepsWhole
  <2>3. ASSUME NEW v \in Vehicles, Flip(v) PROVE Trails(w)'
    BY <1>1, <1>3, <2>3, FlipKeepsWhole
  <2>4. ASSUME NEW v \in Vehicles, NEW dir \in {-1, 0, 1}, SetDir(v, dir)
        PROVE  Trails(w)'
    BY <2>4, WholeStays DEF SetDir
  <2>5. ASSUME NEW v \in Vehicles, GetMiddleTrackAndDistance(v) PROVE Trails(w)'
    BY <1>3, <2>5, AskKeepsWhole
  <2>6. ASSUME NEW v \in Vehicles, Delete(v) PROVE Trails(w)'
    <3>1. joint' = joint /\ axles' = [axles EXCEPT ![v] = [i \in AxleIds |-> Nowhere]]
      BY <2>6 DEF Delete
    <3>2. v # w
      <4>1. 1 \in AxleIds
        BY TwoAxles DEF AxleIds
      <4>2. axles'[w][1] # Nowhere
        BY <4>1 DEF Placed
      <4> QED
        BY <1>1, <3>1, <4>1, <4>2 DEF TypeOK
    <3>3. axles'[w] = axles[w]
      BY <1>1, <3>1, <3>2 DEF TypeOK
    <3> QED
      BY <3>1, <3>3, WholeStays
  <2>7. ASSUME NEW c \in Switches, Throw(c) PROVE Trails(w)'
    <3>1. c \in Connections
      BY TracksAssumption
    <3> QED
      BY <1>1, <1>3, <2>7, <3>1, ThrowKeepsWhole
  <2> QED
    BY <1>3, <2>1, <2>2, <2>3, <2>4, <2>5, <2>6, <2>7 DEF Next
<1> QED
  BY <1>2, <1>3

(* WholeUntilCut of a run in which a vehicle in one piece is not set down, *)
(* turned or asked where it is across a joint that one of its tracks does  *)
(* not have, nor with an axle at a joint, and no switch is thrown between  *)
(* its axles: it may be moved wherever there are tracks.  The assumption   *)
(* is about what is done to a vehicle, not about the layout, which has     *)
(* one-way joints at every switch.                                         *)
THEOREM WholeOverKnown ==
  Spec /\ [][\A v \in Vehicles : Whole(v) => GoesOverKnown(v)]_vars => WholeUntilCut
<1>1. IInv /\ [Next]_vars /\ [\A v \in Vehicles : Whole(v) => GoesOverKnown(v)]_vars =>
        [\A v \in Vehicles :
           /\ Whole(v) /\ Placed(v)'
           /\ facing'[v] # facing[v] => Stands(v, facing[v])
           => Trails(v)']_vars
  BY StepKeepsWhole
<1> QED
  BY <1>1, IInvHolds, PTL DEF Spec, WholeUntilCut

(* Where the axles stand on both sides of it, the middle is on the way     *)
(* from one to another.                                                    *)
LEMMA MiddleOnKnown ==
  ASSUME TypeOK, Straddles, NEW v \in Vehicles, facing[v] = 1, StandsOnKnown(v, 1)
  PROVE  Roll(Known(joint), axles[v][Probe(v)], -dDist(v, Probe(v))) \in OnTrack
<1> DEFINE p == Probe(v)
           x == -Offsets[p]
           k == Known(joint)
<1>1. p \in AxleIds
  BY TwoAxles DEF Probe, AxleIds
<1>2. \A i \in AxleIds : Offsets[i] \in Int /\ axles[v][i] \in OnTrack
  BY OffsetType, InsideIs DEF StandsOnKnown
<1>3. -dDist(v, p) = x /\ x \in Int
  BY <1>1, <1>2 DEF dDist
<1>4. PICK q \in AxleIds : SameWay(x, Offsets[q])
  <2>1. Offsets[p] >= 0 \/ Offsets[p] <= 0
    BY <1>1, <1>2
  <2> QED
    BY <1>1, <1>2, <2>1 DEF Straddles, SameWay
<1> DEFINE y == Offsets[q]
           a == axles[v][p]
<1>5. y \in Int /\ x + y = 1 * (Offsets[q] - Offsets[p])
  BY <1>1, <1>2
<1>6. Roll(k, a, 1 * (Offsets[q] - Offsets[p])) = axles[v][q]
  BY <1>1 DEF StandsOnKnown
<1>7. Roll(k, a, x + y) \in OnTrack
  BY <1>2, <1>5, <1>6
<1>8. k \in Layout
  BY KnownIsSound DEF Sound
<1>9. a \in OnTrack
  BY <1>1, <1>2
<1> HIDE DEF k, a, x, y, p
<1>10. Roll(k, a, x) \in OnTrack
  BY <1>3, <1>4, <1>5, <1>7, <1>8, <1>9, RollsLess DEF y
<1> QED
  BY <1>3, <1>10 DEF k, a, p

(* ForwardReportIsExact of a vehicle with axles on both sides of its       *)
(* middle, as long as vehicles that stand in one piece do so on joints     *)
(* both tracks have and with no axle at a joint (GetMiddleTrackAndDistance *)
(* and SetTrack as ndplayclient_main.cc:612-615 and 561-564 use them).     *)
THEOREM ForwardOnKnown ==
  Straddles =>
    (Spec /\ [](\A v \in Vehicles : Stands(v, 1) => StandsOnKnown(v, 1))
       => []ForwardReportIsExact)
<1> SUFFICES ASSUME Straddles
             PROVE  Spec /\ [](\A v \in Vehicles : Stands(v, 1) => StandsOnKnown(v, 1))
                      => []ForwardReportIsExact
  OBVIOUS
<1>1. TypeOK /\ (\A v \in Vehicles : Stands(v, 1) => StandsOnKnown(v, 1))
        => ForwardReportIsExact
  BY MiddleOnKnown, ReportsOnKnown DEF ForwardReportIsExact
<1> QED
  BY <1>1, TypeCorrect, PTL
=============================================================================
