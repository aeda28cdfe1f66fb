--------------------------- MODULE MesoNetworkProofs ---------------------------
(***************************************************************************)
(* Proofs about the mesoscopic network: no vehicle is lost or duplicated   *)
(* and every event can be simulated, for any network, any routes, any      *)
(* microscopic side and any rollbacks.                                     *)
(*                                                                         *)
(* The invariant is about the record a snapshot holds, so that it is true  *)
(* of the network and of the snapshot, and in the middle of a call too:    *)
(* the nodes still to be updated are those whose event may refer to a      *)
(* vehicle that has gone.                                                  *)
(***************************************************************************)
EXTENDS MesoNetwork, SequenceTheorems, FiniteSetTheorems, Induction

--------------------------------------------------------------------------------
(* The inductive invariant *)

Keys == Links \cup Nodes
Arrival == [t : Int, veh : Vehicles]
MaybeArrival == [t : Int, veh : Vehicles \cup {NoVeh}]
NextMaps == UNION {[K -> MaybeArrival] : K \in {K \in SUBSET Keys : Meso \subseteq K}}

NetType ==
    [clock  : 0 .. LastInstant,
     event  : [Nodes -> [t : Int, key : Keys]],
     arr    : [Keys -> SUBSET Arrival],
     next   : NextMaps,
     supply : [Keys -> Int],
     cur    : [Links -> Seq(Vehicles)],
     ups    : [Meso -> Seq(Int)],
     dps    : [Links -> Seq(Int)],
     led    : [Meso -> BOOLEAN],
     wait   : [Meso -> Seq(Vehicles)],
     near   : SUBSET Micro,
     made   : {0} \cup Vehicles]

\* The events of a node are about its incoming links, and never after DBL_MAX.
EventsOK(event) ==
    \A n \in Nodes : event[n].key \in InTo(n) \cup {n} /\ event[n].t <= Never

Occurs(v, q) == \E i \in DOMAIN q : q[i] = v
Listed(v, A) == \E a \in A : a.veh = v

\* Vehicles that arrive are in one list, once.
Proper(A) == IsFiniteSet(A) /\ \A a, b \in A : a.veh = b.veh => a = b
ArrivalsOK(arr) ==
    /\ \A k \in Keys : Proper(arr[k])
    /\ \A k, j \in Keys : \A v \in Vehicles : Listed(v, arr[k]) /\ Listed(v, arr[j]) => k = j

\* Those on microscopic links are on one, once, and arrive nowhere; those on a
\* mesoscopic link arrive at its end.
LinksOK(arr, cur) ==
    /\ \A l \in Links : IsInjective(cur[l])
    /\ \A l, j \in Micro : \A v \in Vehicles : Occurs(v, cur[l]) /\ Occurs(v, cur[j]) => l = j
    /\ \A l \in Micro : \A k \in Keys : \A v \in Vehicles : Occurs(v, cur[l]) => ~Listed(v, arr[k])
    /\ \A l \in Meso : \A v \in Vehicles : Occurs(v, cur[l]) <=> Listed(v, arr[l])

\* Those that arrive at an origin wait before their first link.
WaitOK(arr, wait) ==
    /\ \A l \in Meso : IsInjective(wait[l])
    /\ \A l \in Meso : \A v \in Vehicles :
          Occurs(v, wait[l]) => Route[v][1] = l /\ From[l] \in Origins /\ Listed(v, arr[From[l]])
    /\ \A n \in Nodes : \A v \in Vehicles :
          Listed(v, arr[n]) => Route[v][1] \in Meso /\ From[Route[v][1]] = n
                               /\ Occurs(v, wait[Route[v][1]])

\* Vehicles follow their routes, once created.
RoutesOK(arr, cur, made) ==
    /\ \A k \in Links : \A v \in Vehicles :
          Listed(v, arr[k]) \/ Occurs(v, cur[k]) => Occurs(k, Route[v])
    /\ \A v \in Vehicles : /\ \A k \in Keys : Listed(v, arr[k]) => v <= made
                           /\ \A l \in Links : Occurs(v, cur[l]) => v <= made

Placed(arr, cur, wait, made) ==
    ArrivalsOK(arr) /\ LinksOK(arr, cur) /\ WaitOK(arr, wait) /\ RoutesOK(arr, cur, made)

\* Those on a link entered it and have not left it.
Counted(cur, dps, ups) == \A l \in Meso : Len(cur[l]) = Len(dps[l]) - Len(ups[l])

\* The event of a node is the next arrival of its link, and in its list; but for the
\* nodes of D, which are to be updated.
Consumable(event, next, arr, D) ==
    \A n \in Nodes \ D :
        event[n].t # Never =>
            LET k == event[n].key
            IN k \in DOMAIN next /\ next[k] \in arr[k] /\ next[k].t = event[n].t

NetInv(s, D) ==
    /\ s \in NetType
    /\ EventsOK(s.event)
    /\ Placed(s.arr, s.cur, s.wait, s.made)
    /\ Counted(s.cur, s.dps, s.ups)
    /\ Consumable(s.event, s.next, s.arr, D)

\* Nothing comes to pass before the step that has just ended; the first node is the
\* earliest, up to the first rollback.
OnTime(s) == \A n \in Nodes : s.event[n].t >= s.clock - TimeStep
FrontInv == rollbacks = 0 => front \in Earliest(net) /\ OnTime(net)

IInv ==
    /\ NetInv(net, {})
    /\ snap = NoSnapshot \/ NetInv(snap, {})
    /\ front \in Nodes /\ completed \in BOOLEAN /\ rollbacks \in 0 .. MaxRollbacks
    /\ FrontInv

--------------------------------------------------------------------------------
(* Constants *)

LEMMA Constants ==
    /\ Meso \subseteq Links /\ Nodes \cap Links = {} /\ IsFiniteSet(Links)
    /\ \A l \in Links : From[l] \notin Links /\ To[l] \notin Links
    /\ \A l \in Meso : From[l] \in Nodes /\ To[l] \in Nodes
    /\ \A n \in Origins : \E l \in Meso : OutOf(n) = {l}
    /\ Headway \in Nat \ {0} /\ TimeStep \in Nat \ {0} /\ ExitHeadway \in Nat \ {0}
    /\ \A l \in Meso : Cross[l] \in Nat \ {0} /\ Wave[l] \in Nat \ {0} /\ Room[l] \in Nat \ {0}
    /\ LastInstant \in Nat /\ LastInstant <= Never /\ MaxRollbacks \in Nat
    /\ Never \in Nat /\ Past \in Int /\ Past < 0 /\ Never > 0
<1>1. Never \in Nat /\ Never > 0
  BY SMT DEF Never
<1>2. Headway \in Nat \ {0} /\ TimeStep \in Nat \ {0} /\ LastInstant \in Nat
      /\ LastInstant + TimeStep + Headway <= Never
  BY MesoNetworkAssumption
<1>3. LastInstant <= Never
  BY <1>1, <1>2
<1> QED
  BY MesoNetworkAssumption, <1>1, <1>3 DEF Past

\* No time computed reaches DBL_MAX.
LEMMA Horizon ==
    /\ LastInstant + TimeStep \in Nat /\ LastInstant + TimeStep < Never
    /\ LastInstant + TimeStep + Headway <= Never
    /\ LastInstant + TimeStep + ExitHeadway <= Never
    /\ \A l \in Meso : /\ LastInstant + TimeStep + Cross[l] <= Never
                       /\ LastInstant + TimeStep + Wave[l] <= Never
<1>1. \A d \in {Headway, ExitHeadway} \cup UNION {{Cross[l], Wave[l]} : l \in Meso} :
          LastInstant + TimeStep + d <= Never
  BY MesoNetworkAssumption
<1>2. \A l \in Meso : {Cross[l], Wave[l]} \subseteq UNION {{Cross[i], Wave[i]} : i \in Meso}
  OBVIOUS
<1>3. LastInstant + TimeStep + Headway <= Never /\ LastInstant + TimeStep + ExitHeadway <= Never
  BY <1>1
<1>4. LastInstant + TimeStep < Never
  BY <1>3, Constants
<1> QED
  BY <1>1, <1>2, <1>3, <1>4, Constants

\* The vehicles are numbered from one.
LEMMA VehicleNumbers ==
    \E n \in Nat \ {0} : Vehicles = 1 .. n /\ n = Cardinality(Vehicles)
<1>1. PICK n \in 1 .. 100 : Vehicles = 1 .. n
  BY MesoNetworkAssumption
<1>2. n \in Int /\ n \in Nat \ {0} /\ ~(1 > n) /\ n - 1 + 1 = n
  OBVIOUS
<1>3. Cardinality(1 .. n) = n
  <2>1. Cardinality(1 .. n) = IF 1 > n THEN 0 ELSE n - 1 + 1
    BY <1>2, FS_Interval
  <2> QED
    BY <1>2, <2>1
<1> QED
  BY <1>1, <1>2, <1>3

LEMMA RouteOf ==
    ASSUME NEW v \in Vehicles
    PROVE  /\ Route[v] \in Seq(Links) /\ Len(Route[v]) \in Nat \ {0} /\ IsInjective(Route[v])
           /\ DOMAIN Route[v] = 1 .. Len(Route[v])
           /\ \A i \in 1 .. (Len(Route[v]) - 1) : To[Route[v][i]] = From[Route[v][i + 1]]
           /\ Route[v][1] \in Links
           /\ Route[v][1] \in Meso => From[Route[v][1]] \in Origins
<1>1. IsRoute(Route[v])
  BY MesoNetworkAssumption
<1>2. Len(Route[v]) \in Nat \ {0} /\ DOMAIN Route[v] = 1 .. Len(Route[v])
  BY <1>1, EmptySeq, LenProperties DEF IsRoute
<1>3. Route[v][1] \in Links
  BY <1>1, <1>2, ElementOfSeq DEF IsRoute
<1> QED
  BY <1>1, <1>2, <1>3 DEF IsRoute

\* The link of a vehicle, its next one and the node between.
LEMMA NextLinkIs ==
    ASSUME NEW v \in Vehicles, NEW k \in Links, Occurs(k, Route[v])
    PROVE  \/ NextLink(v, k) = To[k]
           \/ /\ NextLink(v, k) \in Links /\ From[NextLink(v, k)] = To[k]
              /\ Occurs(NextLink(v, k), Route[v])
<1> DEFINE r == Route[v]
           i == CHOOSE i \in DOMAIN r : r[i] = k
<1>1. i \in DOMAIN r /\ r[i] = k
  BY DEF Occurs
<1>2. NextLink(v, k) = IF i = Len(r) THEN To[k] ELSE r[i + 1]
  BY Constants DEF NextLink
<1>3. r \in Seq(Links) /\ DOMAIN r = 1 .. Len(r) /\ Len(r) \in Nat
      /\ \A j \in 1 .. (Len(r) - 1) : To[r[j]] = From[r[j + 1]]
  BY RouteOf
<1> HIDE DEF i, r
<1>4. ASSUME i # Len(r)
      PROVE  r[i + 1] \in Links /\ From[r[i + 1]] = To[k] /\ i + 1 \in DOMAIN r
  <2>1. i + 1 \in 1 .. Len(r) /\ i \in 1 .. (Len(r) - 1)
    BY <1>1, <1>3, <1>4
  <2> QED
    BY <1>1, <1>3, <2>1, ElementOfSeq
<1> QED
  BY <1>2, <1>4 DEF Occurs, r

LEMMA OriginOf ==
    ASSUME NEW n \in Origins
    PROVE  /\ n \in Nodes /\ InTo(n) = {n}
           /\ \E l \in Meso : OutOf(n) = {l} /\ From[l] = n
           /\ \A l \in Links : From[l] = n => OutOf(n) = {l}
<1>1. PICK l \in Meso : OutOf(n) = {l}
  BY Constants
<1>2. n \in Nodes /\ InTo(n) = {n}
  BY DEF Origins
<1>3. l # n
  BY <1>2, Constants
<1>4. OutOf(n) = {j \in Links : From[j] = n}
  BY <1>1, <1>3 DEF OutOf
<1> QED
  BY <1>1, <1>2, <1>4

LEMMA IncomingOf ==
    ASSUME NEW n \in Nodes, NEW k \in InTo(n)
    PROVE  (k \in Links /\ To[k] = n /\ n \notin Origins) \/ (k = n /\ n \in Origins)
<1>1. CASE \E l \in Links : To[l] = n
  <2>1. InTo(n) = {l \in Links : To[l] = n}
    BY <1>1 DEF InTo
  <2>2. InTo(n) # {n}
    BY <2>1, Constants
  <2> QED
    BY <2>1, <2>2 DEF Origins
<1>2. CASE ~\E l \in Links : To[l] = n
  BY <1>2 DEF InTo, Origins
<1> QED
  BY <1>1, <1>2

--------------------------------------------------------------------------------
(* Smallest and largest *)

\* A finite set of integers that is not empty has a smallest element.
LEMMA FiniteMin ==
    ASSUME NEW S \in SUBSET Int, IsFiniteSet(S), S # {}
    PROVE  \E x \in S : \A y \in S : x <= y
<1> DEFINE Good(T) == \E x \in T : \A y \in T : x <= y
           G == {n \in Nat : \A T \in SUBSET Int :
                    IsFiniteSet(T) /\ Cardinality(T) = n + 1 => Good(T)}
<1>1. 0 \in G
  <2> SUFFICES ASSUME NEW T \in SUBSET Int, IsFiniteSet(T), Cardinality(T) = 1
               PROVE  Good(T)
    OBVIOUS
  <2>1. PICK x : T = {x}
    BY FS_Singleton
  <2> QED
    BY <2>1
<1>2. \A n \in Nat : n \in G => n + 1 \in G
  <2> SUFFICES ASSUME NEW n \in Nat, n \in G, NEW T \in SUBSET Int, IsFiniteSet(T),
                      Cardinality(T) = (n + 1) + 1
               PROVE  Good(T)
    OBVIOUS
  <2>1. T # {}
    BY FS_EmptySet
  <2>2. PICK z \in T : TRUE
    BY <2>1
  <2>3. IsFiniteSet(T \ {z}) /\ Cardinality(T \ {z}) = n + 1 /\ T \ {z} \in SUBSET Int
    BY <2>2, FS_RemoveElement
  <2>4. Good(T \ {z})
    <3> HIDE DEF Good
    <3> QED
      BY <2>3
  <2>5. PICK x \in T \ {z} : \A y \in T \ {z} : x <= y
    BY <2>4
  <2>6. CASE x <= z
    BY <2>5, <2>6
  <2>7. CASE ~(x <= z)
    <3>1. \A y \in T : z <= y
      BY <2>5, <2>7
    <3> QED
      BY <3>1
  <2> QED
    BY <2>6, <2>7
<1>3. Cardinality(S) \in Nat /\ Cardinality(S) # 0
  BY FS_CardinalityType, FS_EmptySet
<1>4. Cardinality(S) - 1 \in G
  <2> HIDE DEF G
  <2>1. Cardinality(S) - 1 \in Nat
    BY <1>3
  <2> QED
    BY <1>1, <1>2, <2>1, NatSetInduction
<1> QED
  BY <1>3, <1>4

LEMMA MinIs ==
    ASSUME NEW S \in SUBSET Int, IsFiniteSet(S), S # {}
    PROVE  Min(S) \in S /\ \A y \in S : Min(S) <= y
  BY FiniteMin DEF Min

LEMMA MaxIs ==
    ASSUME NEW S \in SUBSET Int, IsFiniteSet(S), S # {}
    PROVE  Max(S) \in S /\ \A y \in S : Max(S) >= y
<1> DEFINE neg == [x \in S |-> 0 - x]
           N == {neg[x] : x \in S}
<1>1. IsFiniteSet(N)
  <2>1. neg \in Surjection(S, N)
    BY DEF Surjection
  <2> QED
    BY <2>1, FS_Surjection
<1>2. N \in SUBSET Int /\ N # {}
  <2>1. \A x \in S : neg[x] \in Int
    OBVIOUS
  <2>2. PICK x \in S : TRUE
    OBVIOUS
  <2>3. neg[x] \in N
    BY <2>2
  <2> QED
    BY <2>1, <2>3
<1>3. PICK m \in N : \A y \in N : m <= y
  <2> HIDE DEF N
  <2> QED
    BY <1>1, <1>2, FiniteMin
<1>4. PICK x \in S : m = 0 - x
  BY <1>3
<1>5. \A y \in S : x >= y
  <2> TAKE y \in S
  <2>1. m <= 0 - y
    BY <1>3
  <2> QED
    BY <1>4, <2>1
<1> QED
  BY <1>5 DEF Max

\* The first arrival is in the list and none is before it.
LEMMA MinArrivalIs ==
    ASSUME NEW A \in SUBSET Arrival, IsFiniteSet(A), A # {}
    PROVE  MinArrival(A) \in A /\ \A b \in A : Before(MinArrival(A), b)
<1> DEFINE time == [a \in A |-> a.t]
           T == {time[a] : a \in A}
<1>1. PICK t \in T : \A y \in T : t <= y
  <2>1. time \in Surjection(A, T)
    BY DEF Surjection
  <2>2. IsFiniteSet(T)
    BY <2>1, FS_Surjection
  <2>3. T \in SUBSET Int /\ T # {}
    BY DEF Arrival
  <2> HIDE DEF T
  <2> QED
    BY <2>2, <2>3, FiniteMin
<1> DEFINE F == {a \in A : a.t = t}
           number == [a \in F |-> a.veh]
           V == {number[a] : a \in F}
<1>2. PICK v \in V : \A y \in V : v <= y
  <2>1. IsFiniteSet(F) /\ F # {}
    <3>1. F \in SUBSET A /\ F # {}
      BY <1>1
    <3> HIDE DEF F
    <3> QED
      BY <3>1, FS_Subset
  <2>2. number \in Surjection(F, V)
    BY DEF Surjection
  <2>3. IsFiniteSet(V)
    <3> HIDE DEF V, F, number
    <3> QED
      BY <2>1, <2>2, FS_Surjection
  <2>4. V \in SUBSET Int /\ V # {}
    <3>1. \A a \in F : number[a] \in Int
      BY VehicleNumbers DEF Arrival
    <3>2. PICK a \in F : TRUE
      <4> HIDE DEF F
      <4> QED
        BY <2>1
    <3>3. number[a] \in V
      BY <3>2
    <3> QED
      BY <3>1, <3>3
  <2> HIDE DEF V
  <2> QED
    BY <2>3, <2>4, FiniteMin
<1>3. PICK a \in A : a.t = t /\ a.veh = v
  BY <1>2
<1>4. \A b \in A : Before(a, b)
  <2> TAKE b \in A
  <2>1. a.t <= b.t /\ a.t \in Int /\ b.t \in Int
    BY <1>1, <1>3 DEF Arrival
  <2>2. b.t = t => a.veh <= b.veh
    BY <1>2, <1>3
  <2> QED
    BY <1>3, <2>1, <2>2 DEF Before
<1> QED
  BY <1>4 DEF MinArrival

LEMMA MaxTimeIs ==
    ASSUME NEW A \in SUBSET Arrival, IsFiniteSet(A)
    PROVE  MaxArrivalTime(A) \in Int
<1>1. CASE A = {}
  BY <1>1 DEF MaxArrivalTime
<1>2. CASE A # {}
  <2> DEFINE time == [a \in A |-> a.t]
             T == {time[a] : a \in A}
  <2>1. time \in Surjection(A, T)
    BY DEF Surjection
  <2>2. IsFiniteSet(T)
    BY <2>1, FS_Surjection
  <2>3. T \in SUBSET Int /\ T # {}
    BY <1>2 DEF Arrival
  <2>4. MaxArrivalTime(A) = Max(T)
    <3>1. T = {a.t : a \in A}
      OBVIOUS
    <3> QED
      BY <1>2, <3>1 DEF MaxArrivalTime
  <2> HIDE DEF T
  <2> QED
    BY <2>2, <2>3, <2>4, MaxIs
<1> QED
  BY <1>1, <1>2

LEMMA LaterIs ==
    ASSUME NEW x \in Int, NEW y \in Int
    PROVE  Later(x, y) \in Int /\ Later(x, y) >= x /\ Later(x, y) >= y
           /\ (Later(x, y) = x \/ Later(x, y) = y)
  BY DEF Later

--------------------------------------------------------------------------------
(* Queues of vehicles *)

LEMMA ConcatOccurs ==
    ASSUME NEW S, NEW p \in Seq(S), NEW q \in Seq(S)
    PROVE  /\ p \o q \in Seq(S)
           /\ \A x : Occurs(x, p) \/ Occurs(x, q) => Occurs(x, p \o q)
<1> DEFINE r == p \o q
<1>1. /\ r \in Seq(S) /\ Len(r) = Len(p) + Len(q)
      /\ \A i \in 1 .. Len(p) + Len(q) : r[i] = IF i <= Len(p) THEN p[i] ELSE q[i - Len(p)]
  BY ConcatProperties
<1>2. /\ Len(p) \in Nat /\ Len(q) \in Nat
      /\ DOMAIN p = 1 .. Len(p) /\ DOMAIN q = 1 .. Len(q) /\ DOMAIN r = 1 .. Len(r)
  BY <1>1, LenProperties
<1> HIDE DEF r
<1>3. ASSUME NEW i \in 1 .. Len(p) PROVE i \in DOMAIN r /\ r[i] = p[i]
  <2>1. i \in 1 .. Len(p) + Len(q) /\ i <= Len(p)
    BY <1>2
  <2> QED
    BY <1>1, <1>2, <2>1
<1>4. ASSUME NEW i \in 1 .. Len(q) PROVE Len(p) + i \in DOMAIN r /\ r[Len(p) + i] = q[i]
  <2>1. Len(p) + i \in 1 .. Len(p) + Len(q) /\ ~(Len(p) + i <= Len(p)) /\ Len(p) + i - Len(p) = i
    BY <1>2
  <2> QED
    BY <1>1, <1>2, <2>1
<1> QED
  BY <1>1, <1>2, <1>3, <1>4 DEF Occurs, r

LEMMA AppendOccurs ==
    ASSUME NEW q \in Seq(Vehicles), NEW v \in Vehicles
    PROVE  /\ Append(q, v) \in Seq(Vehicles) /\ Len(Append(q, v)) = Len(q) + 1
           /\ \A w : Occurs(w, Append(q, v)) <=> Occurs(w, q) \/ w = v
           /\ IsInjective(q) /\ ~Occurs(v, q) => IsInjective(Append(q, v))
<1> DEFINE a == Append(q, v)
<1>1. /\ a \in Seq(Vehicles) /\ Len(a) = Len(q) + 1 /\ Len(q) \in Nat
      /\ \A i \in 1 .. Len(q) : a[i] = q[i]
      /\ a[Len(q) + 1] = v
      /\ DOMAIN a = 1 .. Len(q) + 1 /\ DOMAIN q = 1 .. Len(q)
  BY AppendProperties, LenProperties
<1> HIDE DEF a
<1>2. \A w : Occurs(w, a) <=> Occurs(w, q) \/ w = v
  BY <1>1 DEF Occurs
<1>3. IsInjective(q) /\ ~Occurs(v, q) => IsInjective(a)
  BY <1>1 DEF Occurs, IsInjective
<1> QED
  BY <1>1, <1>2, <1>3 DEF a

LEMMA TailOccurs ==
    ASSUME NEW q \in Seq(Vehicles), q # <<>>, IsInjective(q)
    PROVE  /\ Tail(q) \in Seq(Vehicles) /\ Len(Tail(q)) = Len(q) - 1
           /\ \A w : Occurs(w, Tail(q)) <=> Occurs(w, q) /\ w # Head(q)
           /\ IsInjective(Tail(q)) /\ Occurs(Head(q), q) /\ Head(q) \in Vehicles
<1> DEFINE t == Tail(q)
<1>1. /\ t \in Seq(Vehicles) /\ Len(t) = Len(q) - 1 /\ Len(q) \in Nat \ {0}
      /\ \A i \in 1 .. Len(t) : t[i] = q[i + 1]
      /\ DOMAIN t = 1 .. Len(t) /\ DOMAIN q = 1 .. Len(q)
      /\ Head(q) \in Vehicles
  BY HeadTailProperties, LenProperties, EmptySeq
<1>2. Head(q) = q[1]
  OBVIOUS
<1> HIDE DEF t
<1>3. \A i \in DOMAIN t : i + 1 \in DOMAIN q /\ i + 1 # 1
  BY <1>1
<1>4. \A i \in DOMAIN q : i # 1 => i - 1 \in DOMAIN t /\ t[i - 1] = q[i]
  <2> TAKE i \in DOMAIN q
  <2> HAVE i # 1
  <2>1. i - 1 \in 1 .. Len(t) /\ (i - 1) + 1 = i
    BY <1>1
  <2> QED
    BY <1>1, <2>1
<1>5. 1 \in DOMAIN q
  BY <1>1
<1>6. \A w : Occurs(w, t) <=> Occurs(w, q) /\ w # q[1]
  <2> TAKE w
  <2>1. ASSUME Occurs(w, t) PROVE Occurs(w, q) /\ w # q[1]
    <3>1. PICK i \in DOMAIN t : t[i] = w
      BY <2>1 DEF Occurs
    <3>2. q[i + 1] = w
      BY <1>1, <3>1
    <3> QED
      BY <1>3, <1>5, <3>1, <3>2 DEF Occurs, IsInjective
  <2>2. ASSUME Occurs(w, q), w # q[1] PROVE Occurs(w, t)
    BY <1>4, <2>2 DEF Occurs
  <2> QED
    BY <2>1, <2>2
<1>7. IsInjective(t)
  <2> SUFFICES ASSUME NEW i \in DOMAIN t, NEW j \in DOMAIN t, t[i] = t[j]
               PROVE  i = j
    BY DEF IsInjective
  <2>1. q[i + 1] = q[j + 1] /\ i \in Int /\ j \in Int
    BY <1>1
  <2>2. i + 1 = j + 1
    BY <1>3, <2>1 DEF IsInjective
  <2> QED
    BY <2>1, <2>2
<1> QED
  BY <1>1, <1>2, <1>5, <1>6, <1>7 DEF t, Occurs

LEMMA RemoveOccurs ==
    ASSUME NEW q \in Seq(Vehicles), IsInjective(q), NEW v, Occurs(v, q)
    PROVE  /\ RemoveFirst(q, v) \in Seq(Vehicles) /\ Len(RemoveFirst(q, v)) = Len(q) - 1
           /\ \A w : Occurs(w, RemoveFirst(q, v)) <=> Occurs(w, q) /\ w # v
           /\ IsInjective(RemoveFirst(q, v))
<1> DEFINE n == Len(q)
<1>1. n \in Nat /\ DOMAIN q = 1 .. n /\ \A i \in 1 .. n : q[i] \in Vehicles
  BY LenProperties, ElementOfSeq
<1>2. PICK p \in 1 .. n : q[p] = v
  BY <1>1 DEF Occurs
<1>3. RemoveFirst(q, v) = RemoveAt(q, p)
  <2>1. {i \in 1 .. n : q[i] = v} = {p}
    BY <1>1, <1>2 DEF IsInjective
  <2>2. Min({p}) = p
    BY <1>2 DEF Min
  <2>3. SelectInSeq(q, LAMBDA w : w = v) = p
    BY <2>1, <2>2 DEF SelectInSeq
  <2> QED
    BY <1>2, <2>3 DEF RemoveFirst
<1> DEFINE x == SubSeq(q, 1, p - 1)
           y == SubSeq(q, p + 1, n)
           r == x \o y
<1>4. /\ x \in Seq(Vehicles) /\ Len(x) = p - 1
      /\ \A i \in 1 .. p - 1 : x[i] = q[i]
  <2>1. p - 1 \in Int /\ \A i \in 1 .. p - 1 : i \in 1 .. n
    BY <1>1, <1>2
  <2>2. \A i \in 1 .. p - 1 : q[i] \in Vehicles
    BY <1>1, <2>1
  <2>3. /\ x \in Seq(Vehicles) /\ Len(x) = IF 1 <= p - 1 THEN (p - 1) - 1 + 1 ELSE 0
        /\ \A i \in 1 .. (p - 1) - 1 + 1 : x[i] = q[1 + i - 1]
    BY <2>1, <2>2, SubSeqProperties
  <2> QED
    BY <1>1, <1>2, <2>3
<1>5. /\ y \in Seq(Vehicles) /\ Len(y) = n - p
      /\ \A i \in 1 .. n - p : y[i] = q[p + i]
  <2>1. p + 1 \in Int /\ n \in Int /\ \A i \in p + 1 .. n : i \in 1 .. n
    BY <1>1, <1>2
  <2>2. \A i \in p + 1 .. n : q[i] \in Vehicles
    BY <1>1, <2>1
  <2>3. /\ y \in Seq(Vehicles) /\ Len(y) = IF p + 1 <= n THEN n - (p + 1) + 1 ELSE 0
        /\ \A i \in 1 .. n - (p + 1) + 1 : y[i] = q[p + 1 + i - 1]
    BY <2>1, <2>2, SubSeqProperties
  <2>4. n - (p + 1) + 1 = n - p /\ (p + 1 <= n <=> n - p > 0) /\ n - p >= 0
    BY <1>1, <1>2
  <2>5. Len(y) = n - p
    <3> HIDE DEF y, n
    <3>1. n - p \in Int /\ (~(n - p > 0) => n - p = 0)
      BY <1>1, <1>2, <2>4
    <3> QED
      BY <2>3, <2>4, <3>1
  <2>6. ASSUME NEW i \in 1 .. n - p PROVE y[i] = q[p + i]
    <3>1. p + 1 + i - 1 = p + i
      BY <1>1, <1>2
    <3> QED
      BY <2>3, <2>4, <3>1
  <2> QED
    BY <2>3, <2>5, <2>6
<1> HIDE DEF x, y
<1>6. /\ r \in Seq(Vehicles) /\ Len(r) = n - 1 /\ DOMAIN r = 1 .. n - 1
      /\ \A i \in 1 .. n - 1 : r[i] = IF i < p THEN q[i] ELSE q[i + 1]
  <2>1. /\ r \in Seq(Vehicles) /\ Len(r) = Len(x) + Len(y)
        /\ \A i \in 1 .. Len(x) + Len(y) : r[i] = IF i <= Len(x) THEN x[i] ELSE y[i - Len(x)]
    BY <1>4, <1>5, ConcatProperties
  <2>2. DOMAIN r = 1 .. Len(r)
    BY <2>1, LenProperties
  <2> HIDE DEF r
  <2>3. Len(r) = n - 1
    BY <1>1, <1>2, <1>4, <1>5, <2>1
  <2>4. ASSUME NEW i \in 1 .. n - 1
        PROVE  r[i] = IF i < p THEN q[i] ELSE q[i + 1]
    <3>1. r[i] = IF i <= p - 1 THEN x[i] ELSE y[i - (p - 1)]
      BY <1>1, <1>2, <1>4, <1>5, <2>1, <2>4
    <3>2. CASE i < p
      BY <1>1, <1>2, <1>4, <2>4, <3>1, <3>2
    <3>3. CASE ~(i < p)
      <4>1. i - (p - 1) \in 1 .. n - p /\ p + (i - (p - 1)) = i + 1
        BY <1>1, <1>2, <2>4, <3>3
      <4>2. y[i - (p - 1)] = q[i + 1]
        BY <1>5, <4>1
      <4> QED
        BY <1>1, <1>2, <2>4, <3>1, <3>3, <4>2
    <3> QED
      BY <3>2, <3>3
  <2> QED
    BY <2>1, <2>2, <2>3, <2>4
<1> DEFINE at(i) == IF i < p THEN i ELSE i + 1
<1>7. \A i \in 1 .. n - 1 : at(i) \in 1 .. n /\ at(i) # p /\ r[i] = q[at(i)]
  <2> HIDE DEF r, n
  <2> TAKE i \in 1 .. n - 1
  <2>1. i < p => i \in 1 .. n /\ i # p
    BY <1>1, <1>2
  <2>2. ~(i < p) => i + 1 \in 1 .. n /\ i + 1 # p
    BY <1>1, <1>2
  <2>3. r[i] = IF i < p THEN q[i] ELSE q[i + 1]
    BY <1>6
  <2> QED
    BY <2>1, <2>2, <2>3
<1>8. \A i \in 1 .. n : i # p => \E j \in 1 .. n - 1 : at(j) = i
  <2> SUFFICES ASSUME NEW i \in 1 .. n, i # p PROVE \E j \in 1 .. n - 1 : at(j) = i
    OBVIOUS
  <2>1. CASE i < p
    BY <1>1, <1>2, <2>1
  <2>2. CASE i > p
    <3>1. i - 1 \in 1 .. n - 1 /\ ~(i - 1 < p) /\ (i - 1) + 1 = i
      BY <1>1, <1>2, <2>2
    <3> QED
      BY <3>1
  <2> QED
    BY <1>1, <1>2, <2>1, <2>2
<1>9. \A i, j \in 1 .. n - 1 : at(i) = at(j) => i = j
  BY <1>1, <1>2
<1>10. RemoveFirst(q, v) = r
  BY <1>3 DEF RemoveAt, x, y
<1> HIDE DEF r, at
<1>11. \A w : Occurs(w, r) <=> Occurs(w, q) /\ w # v
  <2> TAKE w
  <2>1. ASSUME Occurs(w, r) PROVE Occurs(w, q) /\ w # v
    <3>1. PICK i \in 1 .. n - 1 : r[i] = w
      BY <1>6, <2>1 DEF Occurs
    <3> QED
      BY <1>1, <1>2, <1>7, <3>1 DEF Occurs, IsInjective
  <2>2. ASSUME Occurs(w, q), w # v PROVE Occurs(w, r)
    <3>1. PICK i \in 1 .. n : q[i] = w
      BY <1>1, <2>2 DEF Occurs
    <3>2. PICK j \in 1 .. n - 1 : at(j) = i
      BY <1>2, <1>8, <2>2, <3>1
    <3> QED
      BY <1>6, <1>7, <3>1, <3>2 DEF Occurs
  <2> QED
    BY <2>1, <2>2
<1>12. IsInjective(r)
  <2> SUFFICES ASSUME NEW i \in 1 .. n - 1, NEW j \in 1 .. n - 1, r[i] = r[j]
               PROVE  i = j
    BY <1>6 DEF IsInjective
  <2>1. at(i) = at(j)
    BY <1>1, <1>7 DEF IsInjective
  <2> QED
    BY <1>9, <2>1
<1> QED
  BY <1>6, <1>10, <1>11, <1>12

--------------------------------------------------------------------------------
(* Where a vehicle is *)

Away(v, arr, cur, wait) ==
    /\ \A k \in Keys : ~Listed(v, arr[k])
    /\ \A l \in Links : ~Occurs(v, cur[l])
    /\ \A l \in Meso : ~Occurs(v, wait[l])

\* Only the times change.
LEMMA Retimed ==
    ASSUME NEW arr, NEW arr2, NEW cur, NEW wait, NEW made, Placed(arr, cur, wait, made),
           \A k \in Keys : Proper(arr2[k]),
           \A k \in Keys : \A v \in Vehicles : Listed(v, arr2[k]) <=> Listed(v, arr[k])
    PROVE  Placed(arr2, cur, wait, made)
<1> USE DEF Placed
<1>0. Meso \subseteq Keys /\ Micro \subseteq Keys /\ Links \subseteq Keys /\ Nodes \subseteq Keys
      /\ Origins \subseteq Nodes
  BY Constants DEF Keys, Micro, Origins
<1>1. ArrivalsOK(arr2)
  BY DEF ArrivalsOK
<1>2. LinksOK(arr2, cur)
  BY <1>0 DEF LinksOK
<1>3. WaitOK(arr2, wait)
  BY <1>0 DEF WaitOK
<1>4. RoutesOK(arr2, cur, made)
  BY <1>0 DEF RoutesOK
<1> QED
  BY <1>1, <1>2, <1>3, <1>4

\* A vehicle is taken out of wherever it was.
LEMMA Leaves ==
    ASSUME NEW arr, NEW arr2, NEW cur, NEW cur2, NEW wait, NEW wait2, NEW made,
           Placed(arr, cur, wait, made), NEW v \in Vehicles,
           \A k \in Keys : Proper(arr2[k]),
           \A l \in Links : IsInjective(cur2[l]),
           \A l \in Meso : IsInjective(wait2[l]),
           \A k \in Keys : \A w \in Vehicles : Listed(w, arr2[k]) <=> Listed(w, arr[k]) /\ w # v,
           \A l \in Links : \A w \in Vehicles : Occurs(w, cur2[l]) <=> Occurs(w, cur[l]) /\ w # v,
           \A l \in Meso : \A w \in Vehicles : Occurs(w, wait2[l]) <=> Occurs(w, wait[l]) /\ w # v
    PROVE  Placed(arr2, cur2, wait2, made) /\ Away(v, arr2, cur2, wait2)
<1> USE DEF Placed
<1>0. Meso \subseteq Keys /\ Micro \subseteq Keys /\ Links \subseteq Keys /\ Nodes \subseteq Keys
      /\ Meso \subseteq Links /\ Micro \subseteq Links /\ Origins \subseteq Nodes
  BY Constants DEF Keys, Micro, Origins
<1>1. ArrivalsOK(arr2)
  BY DEF ArrivalsOK
<1>2. LinksOK(arr2, cur2)
  BY <1>0 DEF LinksOK
<1>3. WaitOK(arr2, wait2)
  <2>1. ASSUME NEW l \in Meso, NEW w \in Vehicles, Occurs(w, wait2[l])
        PROVE  Route[w][1] = l /\ From[l] \in Origins /\ Listed(w, arr2[From[l]])
    BY <1>0, <2>1 DEF WaitOK
  <2>2. ASSUME NEW n \in Nodes, NEW w \in Vehicles, Listed(w, arr2[n])
        PROVE  Route[w][1] \in Meso /\ From[Route[w][1]] = n /\ Occurs(w, wait2[Route[w][1]])
    BY <1>0, <2>2 DEF WaitOK
  <2> QED
    BY <2>1, <2>2 DEF WaitOK
<1>4. RoutesOK(arr2, cur2, made)
  BY <1>0 DEF RoutesOK
<1>5. Away(v, arr2, cur2, wait2)
  BY DEF Away
<1> QED
  BY <1>1, <1>2, <1>3, <1>4, <1>5

\* The lists have vehicle v in addition, at l.
OneMore(cur, cur2, v, l) ==
    /\ \A j \in Links : IsInjective(cur2[j])
    /\ \A j \in Links : \A w \in Vehicles :
           Occurs(w, cur2[j]) <=> Occurs(w, cur[j]) \/ (w = v /\ j = l)
OneMoreListed(arr, arr2, v, l) ==
    /\ \A k \in Keys : Proper(arr2[k])
    /\ \A k \in Keys : \A w \in Vehicles :
           Listed(w, arr2[k]) <=> Listed(w, arr[k]) \/ (w = v /\ k = l)
OneMoreWaits(wait, wait2, v, l) ==
    /\ \A j \in Meso : IsInjective(wait2[j])
    /\ \A j \in Meso : \A w \in Vehicles :
           Occurs(w, wait2[j]) <=> Occurs(w, wait[j]) \/ (w = v /\ j = l)

\* A vehicle that was away appears on microscopic link l.
LEMMA EntersMicro ==
    ASSUME NEW arr, NEW cur, NEW cur2, NEW wait, NEW made, NEW made2,
           Placed(arr, cur, wait, made), made \in Int, made2 \in Int, made <= made2,
           NEW v \in Vehicles, Away(v, arr, cur, wait), v <= made2,
           NEW l \in Micro, Occurs(l, Route[v]),
           OneMore(cur, cur2, v, l)
    PROVE  Placed(arr, cur2, wait, made2)
<1> USE DEF Placed, OneMore
<1>0. Meso \subseteq Keys /\ Micro \subseteq Keys /\ Links \subseteq Keys /\ Nodes \subseteq Keys
      /\ Meso \subseteq Links /\ Micro \subseteq Links /\ Meso \cap Micro = {} /\ Vehicles \subseteq Int
  BY Constants, VehicleNumbers DEF Keys, Micro
<1>1. ArrivalsOK(arr) /\ WaitOK(arr, wait)
  OBVIOUS
<1>2. LinksOK(arr, cur2)
  BY <1>0 DEF LinksOK, Away
<1>3. RoutesOK(arr, cur2, made2)
  BY <1>0 DEF RoutesOK, Away
<1> QED
  BY <1>1, <1>2, <1>3

\* It appears in the arrivals of a microscopic link.
LEMMA ComesToEnd ==
    ASSUME NEW arr, NEW arr2, NEW cur, NEW wait, NEW made,
           Placed(arr, cur, wait, made),
           NEW v \in Vehicles, Away(v, arr, cur, wait), v <= made,
           NEW l \in Micro, Occurs(l, Route[v]),
           OneMoreListed(arr, arr2, v, l)
    PROVE  Placed(arr2, cur, wait, made)
<1> USE DEF Placed, OneMoreListed
<1>0. Meso \subseteq Keys /\ Micro \subseteq Keys /\ Links \subseteq Keys /\ Nodes \subseteq Keys
      /\ Meso \subseteq Links /\ Micro \subseteq Links /\ Meso \cap Micro = {} /\ Vehicles \subseteq Int
      /\ Links \cap Nodes = {} /\ Origins \subseteq Nodes
  BY Constants, VehicleNumbers DEF Keys, Micro, Origins
<1>1. ArrivalsOK(arr2)
  BY DEF ArrivalsOK, Away
<1>2. LinksOK(arr2, cur)
  <2>1. \A j \in Micro : \A k \in Keys : \A w \in Vehicles : Occurs(w, cur[j]) => ~Listed(w, arr2[k])
    BY <1>0 DEF LinksOK, Away
  <2>2. \A j \in Meso : \A w \in Vehicles : Occurs(w, cur[j]) <=> Listed(w, arr2[j])
    BY <1>0 DEF LinksOK
  <2> QED
    BY <2>1, <2>2 DEF LinksOK
<1>3. WaitOK(arr2, wait)
  BY <1>0 DEF WaitOK, Away
<1>4. RoutesOK(arr2, cur, made)
  BY <1>0 DEF RoutesOK, Away
<1> QED
  BY <1>1, <1>2, <1>3, <1>4

\* It enters mesoscopic link l and is announced at its end.
LEMMA EntersMeso ==
    ASSUME NEW arr, NEW arr2, NEW cur, NEW cur2, NEW wait, NEW made,
           Placed(arr, cur, wait, made),
           NEW v \in Vehicles, Away(v, arr, cur, wait), v <= made,
           NEW l \in Meso, Occurs(l, Route[v]),
           OneMoreListed(arr, arr2, v, l), OneMore(cur, cur2, v, l)
    PROVE  Placed(arr2, cur2, wait, made)
<1> USE DEF Placed, OneMore, OneMoreListed
<1>0. Meso \subseteq Keys /\ Micro \subseteq Keys /\ Links \subseteq Keys /\ Nodes \subseteq Keys
      /\ Meso \subseteq Links /\ Micro \subseteq Links /\ Meso \cap Micro = {} /\ Vehicles \subseteq Int
      /\ Links \cap Nodes = {} /\ Origins \subseteq Nodes
  BY Constants, VehicleNumbers DEF Keys, Micro, Origins
<1>1. ArrivalsOK(arr2)
  BY DEF ArrivalsOK, Away
<1>2. LinksOK(arr2, cur2)
  <2>1. \A i, j \in Micro : \A w \in Vehicles : Occurs(w, cur2[i]) /\ Occurs(w, cur2[j]) => i = j
    BY <1>0 DEF LinksOK
  <2>2. \A j \in Micro : \A k \in Keys : \A w \in Vehicles : Occurs(w, cur2[j]) => ~Listed(w, arr2[k])
    <3> SUFFICES ASSUME NEW j \in Micro, NEW k \in Keys, NEW w \in Vehicles, Occurs(w, cur2[j])
                 PROVE  ~Listed(w, arr2[k])
      OBVIOUS
    <3>1. Occurs(w, cur[j]) /\ w # v
      BY <1>0 DEF Away
    <3>2. ~Listed(w, arr[k])
      BY <3>1 DEF LinksOK
    <3> QED
      BY <3>1, <3>2
  <2>3. \A j \in Meso : \A w \in Vehicles : Occurs(w, cur2[j]) <=> Listed(w, arr2[j])
    <3> SUFFICES ASSUME NEW j \in Meso, NEW w \in Vehicles
                 PROVE  Occurs(w, cur2[j]) <=> Listed(w, arr2[j])
      OBVIOUS
    <3>1. Occurs(w, cur[j]) <=> Listed(w, arr[j])
      BY DEF LinksOK
    <3> QED
      BY <1>0, <3>1
  <2> QED
    BY <1>0, <2>1, <2>2, <2>3 DEF LinksOK
<1>3. WaitOK(arr2, wait)
  BY <1>0 DEF WaitOK, Away
<1>4. RoutesOK(arr2, cur2, made)
  BY <1>0 DEF RoutesOK, Away
<1> QED
  BY <1>1, <1>2, <1>3, <1>4

\* It waits before its first link.
LEMMA WaitsAtOrigin ==
    ASSUME NEW arr, NEW arr2, NEW cur, NEW wait, NEW wait2, NEW made, NEW made2,
           Placed(arr, cur, wait, made), made \in Int, made2 \in Int, made <= made2,
           NEW v \in Vehicles, Away(v, arr, cur, wait), v <= made2,
           NEW l \in Meso, Route[v][1] = l, From[l] \in Origins,
           OneMoreListed(arr, arr2, v, From[l]), OneMoreWaits(wait, wait2, v, l)
    PROVE  Placed(arr2, cur, wait2, made2)
<1> USE DEF Placed, OneMoreListed, OneMoreWaits
<1>0. Meso \subseteq Keys /\ Micro \subseteq Keys /\ Links \subseteq Keys /\ Nodes \subseteq Keys
      /\ Meso \subseteq Links /\ Micro \subseteq Links /\ Meso \cap Micro = {} /\ Vehicles \subseteq Int
      /\ Links \cap Nodes = {} /\ Origins \subseteq Nodes
  BY Constants, VehicleNumbers DEF Keys, Micro, Origins
<1>1. ArrivalsOK(arr2)
  BY DEF ArrivalsOK, Away
<1>2. LinksOK(arr2, cur)
  <2>1. \A j \in Micro : \A k \in Keys : \A w \in Vehicles : Occurs(w, cur[j]) => ~Listed(w, arr2[k])
    BY <1>0 DEF LinksOK, Away
  <2>2. \A j \in Meso : \A w \in Vehicles : Occurs(w, cur[j]) <=> Listed(w, arr2[j])
    BY <1>0 DEF LinksOK
  <2> QED
    BY <2>1, <2>2 DEF LinksOK
<1>3. WaitOK(arr2, wait2)
  BY <1>0 DEF WaitOK, Away
<1>4. RoutesOK(arr2, cur, made2)
  BY <1>0 DEF RoutesOK, Away
<1> QED
  BY <1>1, <1>2, <1>3, <1>4

--------------------------------------------------------------------------------
(* Lists of arrivals *)

LEMMA ProperRemoved ==
    ASSUME NEW A, Proper(A), NEW a \in A
    PROVE  Proper(A \ {a}) /\ \A w : Listed(w, A \ {a}) <=> Listed(w, A) /\ w # a.veh
<1>1. IsFiniteSet(A \ {a})
  BY FS_RemoveElement DEF Proper
<1> QED
  BY <1>1 DEF Proper, Listed

LEMMA ProperAdded ==
    ASSUME NEW A, Proper(A), NEW a, ~Listed(a.veh, A)
    PROVE  Proper(A \cup {a}) /\ \A w : Listed(w, A \cup {a}) <=> Listed(w, A) \/ w = a.veh
<1>1. IsFiniteSet(A \cup {a})
  BY FS_AddElement DEF Proper
<1> QED
  BY <1>1 DEF Proper, Listed

\* The same vehicles at other times.
LEMMA ProperRetimed ==
    ASSUME NEW A \in SUBSET Arrival, Proper(A), NEW f \in [A -> Arrival],
           \A a \in A : f[a].veh = a.veh
    PROVE  LET B == {f[a] : a \in A}
           IN  B \in SUBSET Arrival /\ Proper(B) /\ \A w : Listed(w, B) <=> Listed(w, A)
<1> DEFINE B == {f[a] : a \in A}
<1>1. f \in Surjection(A, B)
  BY DEF Surjection
<1>2. IsFiniteSet(B)
  BY <1>1, FS_Surjection DEF Proper
<1>3. B \in SUBSET Arrival
  OBVIOUS
<1>4. \A w : Listed(w, B) <=> Listed(w, A)
  BY DEF Listed
<1>5. \A a, b \in B : a.veh = b.veh => a = b
  BY DEF Proper
<1> HIDE DEF B
<1>6. Proper(B)
  BY <1>2, <1>5 DEF Proper
<1> QED
  BY <1>3, <1>4, <1>6 DEF B

LEMMA RaisedIs ==
    ASSUME NEW A \in SUBSET Arrival, Proper(A), NEW inst \in Int
    PROVE  /\ Raised(A, inst) \in SUBSET Arrival /\ Proper(Raised(A, inst))
           /\ \A w : Listed(w, Raised(A, inst)) <=> Listed(w, A)
<1> DEFINE f == [a \in A |-> [a EXCEPT !.t = Later(@, inst + Headway)]]
<1>1. \A a \in A : f[a] \in Arrival /\ f[a].veh = a.veh
  <2> TAKE a \in A
  <2>1. a.t \in Int /\ inst + Headway \in Int
    BY Constants DEF Arrival
  <2>2. Later(a.t, inst + Headway) \in Int
    BY <2>1, LaterIs
  <2> QED
    BY <2>2 DEF Arrival
<1>2. f \in [A -> Arrival] /\ Raised(A, inst) = {f[a] : a \in A}
  BY <1>1 DEF Raised
<1> HIDE DEF f
<1> QED
  BY <1>1, <1>2, ProperRetimed

\* One vehicle gets another time.
OneRetimed(A, v, t) == {IF a.veh = v THEN [a EXCEPT !.t = t] ELSE a : a \in A}

LEMMA OneRetimedIs ==
    ASSUME NEW A \in SUBSET Arrival, Proper(A), NEW v, NEW t \in Int
    PROVE  /\ OneRetimed(A, v, t) \in SUBSET Arrival /\ Proper(OneRetimed(A, v, t))
           /\ \A w : Listed(w, OneRetimed(A, v, t)) <=> Listed(w, A)
           /\ Listed(v, A) => [t |-> t, veh |-> v] \in OneRetimed(A, v, t)
<1> DEFINE f == [a \in A |-> IF a.veh = v THEN [a EXCEPT !.t = t] ELSE a]
<1>1. \A a \in A : f[a] \in Arrival /\ f[a].veh = a.veh
  BY DEF Arrival
<1>2. f \in [A -> Arrival] /\ OneRetimed(A, v, t) = {f[a] : a \in A}
  BY <1>1 DEF OneRetimed
<1>3. ASSUME Listed(v, A) PROVE [t |-> t, veh |-> v] \in OneRetimed(A, v, t)
  <2>1. PICK a \in A : a.veh = v
    BY <1>3 DEF Listed
  <2>2. f[a] = [t |-> t, veh |-> v]
    BY <2>1 DEF Arrival
  <2> QED
    BY <1>2, <2>2
<1> HIDE DEF f
<1>4. /\ OneRetimed(A, v, t) \in SUBSET Arrival /\ Proper(OneRetimed(A, v, t))
      /\ \A w : Listed(w, OneRetimed(A, v, t)) <=> Listed(w, A)
  BY <1>1, <1>2, ProperRetimed
<1> QED
  BY <1>3, <1>4

LEMMA ProperCardinality ==
    ASSUME NEW A, Proper(A)
    PROVE  Cardinality(A) = Cardinality({a.veh : a \in A})
<1> DEFINE f == [a \in A |-> a.veh]
           B == {a.veh : a \in A}
<1>1. f \in Bijection(A, B)
  BY DEF Proper, Bijection, Injection, Surjection, IsInjective
<1>2. ExistsBijection(A, B)
  BY <1>1 DEF ExistsBijection
<1> QED
  BY <1>2, FS_Bijection DEF Proper

--------------------------------------------------------------------------------
(* Next arrivals *)

LEMMA NextMapIs ==
    ASSUME NEW f
    PROVE  f \in NextMaps <=> /\ f = [k \in DOMAIN f |-> f[k]]
                              /\ DOMAIN f \in SUBSET Keys /\ Meso \subseteq DOMAIN f
                              /\ \A k \in DOMAIN f : f[k] \in MaybeArrival
<1>1. ASSUME f \in NextMaps
      PROVE  /\ f = [k \in DOMAIN f |-> f[k]]
             /\ DOMAIN f \in SUBSET Keys /\ Meso \subseteq DOMAIN f
             /\ \A k \in DOMAIN f : f[k] \in MaybeArrival
  <2>1. PICK K \in SUBSET Keys : Meso \subseteq K /\ f \in [K -> MaybeArrival]
    BY <1>1 DEF NextMaps
  <2> QED
    BY <2>1
<1>2. ASSUME f = [k \in DOMAIN f |-> f[k]],
             DOMAIN f \in SUBSET Keys, Meso \subseteq DOMAIN f,
             \A k \in DOMAIN f : f[k] \in MaybeArrival
      PROVE  f \in NextMaps
  <2>1. f \in [DOMAIN f -> MaybeArrival]
    BY <1>2
  <2> QED
    BY <1>2, <2>1 DEF NextMaps
<1> QED
  BY <1>1, <1>2

\* g is f with m at k; with the values of h.
OneChanged(g, f, k, m) ==
    DOMAIN g = {k} \cup DOMAIN f /\ \A j \in DOMAIN g : g[j] = IF j = k THEN m ELSE f[j]
Overridden(g, h, f) ==
    /\ DOMAIN g = DOMAIN h \cup DOMAIN f
    /\ \A j \in DOMAIN g : g[j] = IF j \in DOMAIN h THEN h[j] ELSE f[j]

LEMMA NextExcept ==
    ASSUME NEW f, f \in NextMaps, NEW k, k \in DOMAIN f, NEW m, m \in MaybeArrival
    PROVE  [f EXCEPT ![k] = m] \in NextMaps /\ OneChanged([f EXCEPT ![k] = m], f, k, m)
<1> DEFINE g == [f EXCEPT ![k] = m]
<1>1. /\ DOMAIN g = DOMAIN f /\ g = [j \in DOMAIN g |-> g[j]]
      /\ \A j \in DOMAIN g : g[j] = IF j = k THEN m ELSE f[j]
  OBVIOUS
<1> HIDE DEF g
<1>2. /\ DOMAIN f \in SUBSET Keys /\ Meso \subseteq DOMAIN f
      /\ \A j \in DOMAIN f : f[j] \in MaybeArrival
  BY NextMapIs
<1>3. \A j \in DOMAIN g : g[j] \in MaybeArrival
  BY <1>1, <1>2
<1>4. g \in NextMaps
  BY <1>1, <1>2, <1>3, NextMapIs
<1>5. OneChanged(g, f, k, m)
  BY <1>1 DEF OneChanged
<1> QED
  BY <1>4, <1>5 DEF g

LEMMA NextMerged ==
    ASSUME NEW f, f \in NextMaps, NEW h, h = [j \in DOMAIN h |-> h[j]],
           DOMAIN h \in SUBSET Keys, \A j \in DOMAIN h : h[j] \in MaybeArrival
    PROVE  Over(h, f) \in NextMaps /\ Overridden(Over(h, f), h, f)
<1> DEFINE g == Over(h, f)
<1>1. /\ DOMAIN g = DOMAIN h \cup DOMAIN f /\ g = [j \in DOMAIN g |-> g[j]]
      /\ \A j \in DOMAIN g : g[j] = IF j \in DOMAIN h THEN h[j] ELSE f[j]
  BY DEF Over
<1> HIDE DEF g
<1>2. /\ DOMAIN f \in SUBSET Keys /\ Meso \subseteq DOMAIN f
      /\ \A j \in DOMAIN f : f[j] \in MaybeArrival
  BY NextMapIs
<1>3. \A j \in DOMAIN g : g[j] \in MaybeArrival
  BY <1>1, <1>2
<1>4. g \in NextMaps
  BY <1>1, <1>2, <1>3, NextMapIs
<1>5. Overridden(g, h, f)
  BY <1>1 DEF Overridden
<1> QED
  BY <1>4, <1>5 DEF g

\* One key is set, and added if it was not there.
LEMMA NextSet ==
    ASSUME NEW f, f \in NextMaps, NEW k, k \in Keys, NEW m, m \in MaybeArrival
    PROVE  WithKey(f, k, m) \in NextMaps /\ OneChanged(WithKey(f, k, m), f, k, m)
<1> DEFINE h == [j \in {k} |-> m]
<1>1. h = [j \in DOMAIN h |-> h[j]] /\ DOMAIN h = {k} /\ h[k] = m
  OBVIOUS
<1>2. WithKey(f, k, m) = Over(h, f)
  BY DEF WithKey
<1> HIDE DEF h
<1>3. Over(h, f) \in NextMaps /\ Overridden(Over(h, f), h, f)
  BY <1>1, NextMerged
<1>4. OneChanged(Over(h, f), f, k, m)
  BY <1>1, <1>3 DEF OneChanged, Overridden
<1> QED
  BY <1>2, <1>3, <1>4

LEMMA NoArrivalIs == NoArrival \in MaybeArrival /\ Arrival \subseteq MaybeArrival
  BY Constants DEF NoArrival, MaybeArrival, Arrival

LEMMA NextArrivalIs ==
    ASSUME NEW s \in NetType, NEW k
    PROVE  /\ NextArrival(s, k) \in MaybeArrival
           /\ NextArrival(s, k).veh # NoVeh => k \in DOMAIN s.next /\ NextArrival(s, k) = s.next[k]
<1>1. s.next \in NextMaps
  BY DEF NetType
<1>2. \A j \in DOMAIN s.next : s.next[j] \in MaybeArrival
  BY <1>1, NextMapIs
<1>3. NoArrival.veh = NoVeh
  BY DEF NoArrival
<1> QED
  BY <1>2, <1>3, NoArrivalIs DEF NextArrival

--------------------------------------------------------------------------------
(* The update of a node *)

LEMMA KeysOf ==
    ASSUME NEW n \in Nodes
    PROVE  /\ OutOf(n) \subseteq Keys /\ InTo(n) \subseteq Keys /\ n \in Keys
           /\ IsFiniteSet(InTo(n))
<1>1. {l \in Links : To[l] = n} \in SUBSET Links
  OBVIOUS
<1>2. IsFiniteSet({l \in Links : To[l] = n}) /\ IsFiniteSet({n})
  BY <1>1, Constants, FS_Subset, FS_Singleton
<1> QED
  BY <1>2 DEF OutOf, InTo, Keys

\* Two nodes have no incoming link in common.
LEMMA KeyOwner ==
    ASSUME NEW n \in Nodes, NEW m \in Nodes, NEW k, k \in InTo(n) \cup {n}, k \in InTo(m) \cup {m}
    PROVE  m = n
<1>1. \/ k \in Links /\ To[k] = n
      \/ k = n
  BY IncomingOf
<1>2. \/ k \in Links /\ To[k] = m
      \/ k = m
  BY IncomingOf
<1>3. n \notin Links /\ m \notin Links
  BY Constants
<1> QED
  BY <1>1, <1>2, <1>3

\* What the choice reads.
ListsOK(s) == s \in NetType /\ \A k \in Keys : Proper(s.arr[k])

LEMMA FirstOf ==
    ASSUME NEW s, ListsOK(s), NEW k \in Keys, s.arr[k] # {}
    PROVE  LET a == MinArrival(s.arr[k])
           IN  a \in s.arr[k] /\ a \in Arrival /\ a.t \in Int /\ a.veh \in Vehicles /\ a.veh # NoVeh
<1>1. s.arr[k] \in SUBSET Arrival /\ IsFiniteSet(s.arr[k])
  BY DEF ListsOK, NetType, Proper
<1>2. MinArrival(s.arr[k]) \in s.arr[k]
  BY <1>1, MinArrivalIs
<1>3. NoVeh \notin Vehicles
  BY VehicleNumbers DEF NoVeh
<1> QED
  BY <1>1, <1>2, <1>3 DEF Arrival

LEMMA LocalTimeIs ==
    ASSUME NEW s, ListsOK(s), NEW n \in Nodes, NEW o \in OutOf(n), Candidates(s, n, o) # {}
    PROVE  LocalTime(s, n, o) \in Int /\ LocalTime(s, n, o) >= s.supply[o]
<1> DEFINE C == Candidates(s, n, o)
           first == [k \in C |-> MinArrival(s.arr[k]).t]
           T == {first[k] : k \in C}
<1>1. C \subseteq InTo(n) /\ C \subseteq Keys /\ \A k \in C : s.arr[k] # {}
  BY KeysOf DEF Candidates
<1>2. IsFiniteSet(C)
  <2>1. C \in SUBSET InTo(n)
    BY <1>1
  <2> HIDE DEF C
  <2> QED
    BY <2>1, KeysOf, FS_Subset
<1> HIDE DEF C
<1>3. IsFiniteSet(T)
  <2>1. first \in Surjection(C, T)
    BY DEF Surjection
  <2> HIDE DEF first, T
  <2> QED
    BY <1>2, <2>1, FS_Surjection
<1>4. T \in SUBSET Int /\ T # {}
  <2>1. \A k \in C : first[k] \in Int
    BY <1>1, FirstOf
  <2>2. PICK k \in C : TRUE
    BY DEF C
  <2>3. first[k] \in T
    BY <2>2
  <2> QED
    BY <2>1, <2>3
<1>5. FirstTime(s, C) = Min(T)
  <2>1. T = {MinArrival(s.arr[k]).t : k \in C}
    OBVIOUS
  <2> QED
    BY <2>1 DEF FirstTime
<1>6. FirstTime(s, C) \in Int
  <2> HIDE DEF T
  <2> QED
    BY <1>3, <1>4, <1>5, MinIs
<1>7. s.supply[o] \in Int
  BY KeysOf DEF ListsOK, NetType
<1> QED
  BY <1>6, <1>7 DEF LocalTime, C

\* The vehicle chosen is the first of an incoming link.
LEMMA SelectionIs ==
    ASSUME NEW s, ListsOK(s), NEW n \in Nodes, NEW c \in Selections(s, n)
    PROVE  /\ c.key \in InTo(n) \cup {n} /\ c.key \in Keys
           /\ c.t \in Int /\ c.t <= Never /\ c.veh \in Vehicles \cup {NoVeh}
           /\ c.t # Never => c.key \in InTo(n) /\ Listed(c.veh, s.arr[c.key])
           /\ c.t = Never => c.veh = NoVeh
<1>1. CASE Outgoing(s, n) = {}
  <2>1. c = [t |-> Never, key |-> n, veh |-> NoVeh]
    BY <1>1 DEF Selections
  <2> QED
    BY <2>1, Constants, KeysOf
<1>2. CASE Outgoing(s, n) # {}
  <2> DEFINE C(o) == {[t |-> LocalTime(s, n, o), key |-> k, veh |-> MinArrival(s.arr[k]).veh] :
                        k \in Choosable(s, n, o)}
  <2>0. c \in UNION {C(o) : o \in Outgoing(s, n)}
    BY <1>2 DEF Selections
  <2>00. PICK o \in Outgoing(s, n) : c \in C(o)
    BY <2>0
  <2>1. PICK k \in Choosable(s, n, o) :
           c = [t |-> LocalTime(s, n, o), key |-> k, veh |-> MinArrival(s.arr[k]).veh]
    BY <2>00
  <2>2. o \in OutOf(n) /\ Candidates(s, n, o) # {} /\ LocalTime(s, n, o) < Never
    BY DEF Outgoing
  <2>3. k \in InTo(n) /\ s.arr[k] # {} /\ k \in Keys
    BY <2>1, KeysOf DEF Choosable, Candidates
  <2>4. LocalTime(s, n, o) \in Int
    BY <2>2, LocalTimeIs
  <2>5. LET a == MinArrival(s.arr[k]) IN a \in s.arr[k] /\ a.veh \in Vehicles
    BY <2>3, FirstOf
  <2>6. Listed(c.veh, s.arr[k])
    BY <2>1, <2>5 DEF Listed
  <2> QED
    BY <2>1, <2>2, <2>3, <2>4, <2>5, <2>6, Constants
<1> QED
  BY <1>1, <1>2

\* What the update leaves alone, and how events change.
SameButTimes(s, s2, inst) ==
    /\ s2.clock = s.clock /\ s2.cur = s.cur /\ s2.wait = s.wait /\ s2.made = s.made
    /\ s2.dps = s.dps /\ s2.ups = s.ups /\ s2.near = s.near /\ s2.supply = s.supply
    /\ s2.led = s.led
    /\ \A m \in Nodes : s2.event[m] = s.event[m] \/ s2.event[m].t >= inst

LEMMA WithSelectionIs ==
    ASSUME NEW s, ListsOK(s), NEW n \in Nodes, NEW c \in Selections(s, n),
           NEW inst \in Int, NEW s2, s2 = WithSelection(s, n, c, inst)
    PROVE  LET t == Later(c.t, inst)
           IN  /\ s2 \in NetType /\ t \in Int /\ t >= inst /\ t >= c.t /\ (t = inst \/ t = c.t)
               /\ s2.event = [s.event EXCEPT ![n] = [t |-> t, key |-> c.key]]
               /\ s2.arr = [s.arr EXCEPT ![c.key] = OneRetimed(s.arr[c.key], c.veh, t)]
               /\ s2.next = WithKey(s.next, c.key, [t |-> t, veh |-> c.veh])
               /\ SameButTimes(s, s2, inst)
<1> DEFINE t == Later(c.t, inst)
           e == [s.event EXCEPT ![n] = [t |-> t, key |-> c.key]]
           a == [s.arr EXCEPT ![c.key] = OneRetimed(s.arr[c.key], c.veh, t)]
           x == WithKey(s.next, c.key, [t |-> t, veh |-> c.veh])
<1>1. s2 = [s EXCEPT !.event = e, !.arr = a, !.next = x]
  BY DEF WithSelection, OneRetimed
<1>2. /\ c.key \in Keys /\ c.t \in Int /\ c.veh \in Vehicles \cup {NoVeh}
  BY SelectionIs
<1>3. t \in Int /\ t >= inst /\ t >= c.t /\ (t = inst \/ t = c.t)
  BY <1>2, LaterIs
<1> HIDE DEF t
<1>4. s \in NetType
  BY DEF ListsOK
<1>5. e \in [Nodes -> [t : Int, key : Keys]]
  BY <1>2, <1>3, <1>4 DEF NetType
<1>6. a \in [Keys -> SUBSET Arrival]
  <2>1. s.arr \in [Keys -> SUBSET Arrival] /\ Proper(s.arr[c.key])
    BY <1>2, <1>4 DEF NetType, ListsOK
  <2>2. OneRetimed(s.arr[c.key], c.veh, t) \in SUBSET Arrival
    BY <1>2, <1>3, <2>1, OneRetimedIs
  <2> QED
    BY <2>1, <2>2
<1>7. x \in NextMaps
  <2>1. [t |-> t, veh |-> c.veh] \in MaybeArrival
    BY <1>2, <1>3 DEF MaybeArrival
  <2>2. s.next \in NextMaps
    BY <1>4 DEF NetType
  <2> QED
    BY <1>2, <2>1, <2>2, NextSet
<1> HIDE DEF a, x
<1>8. /\ s2 \in NetType /\ s2.event = e /\ s2.arr = a /\ s2.next = x
      /\ s2.clock = s.clock /\ s2.cur = s.cur /\ s2.wait = s.wait /\ s2.made = s.made
      /\ s2.dps = s.dps /\ s2.ups = s.ups /\ s2.near = s.near /\ s2.supply = s.supply
      /\ s2.led = s.led
  <2> HIDE DEF e
  <2> QED
    BY <1>1, <1>4, <1>5, <1>6, <1>7 DEF NetType
<1>9. \A m \in Nodes : e[m] = s.event[m] \/ e[m].t >= inst
  BY <1>3, <1>4 DEF NetType
<1> HIDE DEF e
<1>10. SameButTimes(s, s2, inst)
  BY <1>8, <1>9 DEF SameButTimes
<1> QED
  BY <1>3, <1>8, <1>10 DEF e, a, x, t

\* After its update the event of a node can be simulated.
LEMMA NodeUpdated ==
    ASSUME NEW s, NEW D, NetInv(s, D), NEW n \in Nodes, NEW inst \in Int, inst <= Never,
           NEW s2 \in UpdateNode({s}, n, inst)
    PROVE  NetInv(s2, D \ {n}) /\ SameButTimes(s, s2, inst)
<1>1. PICK c \in Selections(s, n) : s2 = WithSelection(s, n, c, inst)
  BY DEF UpdateNode
<1>2. ListsOK(s)
  BY DEF ListsOK, NetInv, Placed, ArrivalsOK
<1> DEFINE t == Later(c.t, inst)
<1>3. /\ s2 \in NetType /\ t \in Int /\ t >= inst /\ t >= c.t /\ (t = inst \/ t = c.t)
      /\ s2.event = [s.event EXCEPT ![n] = [t |-> t, key |-> c.key]]
      /\ s2.arr = [s.arr EXCEPT ![c.key] = OneRetimed(s.arr[c.key], c.veh, t)]
      /\ s2.next = WithKey(s.next, c.key, [t |-> t, veh |-> c.veh])
      /\ SameButTimes(s, s2, inst)
  BY <1>1, <1>2, WithSelectionIs
<1> HIDE DEF t
<1>4. /\ c.key \in InTo(n) \cup {n} /\ c.key \in Keys
      /\ c.t \in Int /\ c.t <= Never /\ c.veh \in Vehicles \cup {NoVeh}
      /\ c.t # Never => c.key \in InTo(n) /\ Listed(c.veh, s.arr[c.key])
      /\ c.t = Never => c.veh = NoVeh
  BY <1>2, SelectionIs
<1>5. s \in NetType /\ s.next \in NextMaps /\ s.arr \in [Keys -> SUBSET Arrival]
      /\ s.event \in [Nodes -> [t : Int, key : Keys]]
  BY DEF NetInv, NetType
<1>6. /\ s2.arr[c.key] \in SUBSET Arrival /\ Proper(s2.arr[c.key])
      /\ \A w : Listed(w, s2.arr[c.key]) <=> Listed(w, s.arr[c.key])
      /\ Listed(c.veh, s.arr[c.key]) => [t |-> t, veh |-> c.veh] \in s2.arr[c.key]
  <2>1. Proper(s.arr[c.key]) /\ s.arr[c.key] \in SUBSET Arrival
    BY <1>2, <1>4, <1>5 DEF ListsOK
  <2>2. s2.arr[c.key] = OneRetimed(s.arr[c.key], c.veh, t)
    BY <1>3, <1>4, <1>5
  <2> QED
    BY <1>3, <2>1, <2>2, OneRetimedIs
<1>7. \A k \in Keys : k # c.key => s2.arr[k] = s.arr[k]
  BY <1>3, <1>5
<1>8. EventsOK(s2.event)
  <2>1. t <= Never
    BY <1>3, <1>4
  <2>2. EventsOK(s.event)
    BY DEF NetInv
  <2> QED
    BY <1>3, <1>4, <1>5, <2>1, <2>2 DEF EventsOK
<1>9. Placed(s2.arr, s2.cur, s2.wait, s2.made)
  <2>1. Placed(s.arr, s.cur, s.wait, s.made)
    BY DEF NetInv
  <2>2. \A k \in Keys : Proper(s2.arr[k])
    BY <1>2, <1>6, <1>7 DEF ListsOK
  <2>3. \A k \in Keys : \A v \in Vehicles : Listed(v, s2.arr[k]) <=> Listed(v, s.arr[k])
    BY <1>6, <1>7
  <2>4. Placed(s2.arr, s.cur, s.wait, s.made)
    BY <2>1, <2>2, <2>3, Retimed
  <2> QED
    BY <1>3, <2>4 DEF SameButTimes
<1>10. Counted(s2.cur, s2.dps, s2.ups)
  BY <1>3 DEF SameButTimes, NetInv
<1>11. Consumable(s2.event, s2.next, s2.arr, D \ {n})
  <2> SUFFICES ASSUME NEW m \in Nodes \ (D \ {n}), s2.event[m].t # Never,
                      NEW k, k = s2.event[m].key
               PROVE  k \in DOMAIN s2.next /\ s2.next[k] \in s2.arr[k] /\ s2.next[k].t = s2.event[m].t
    BY DEF Consumable
  <2>1. /\ DOMAIN s2.next = {c.key} \cup DOMAIN s.next
        /\ \A j \in DOMAIN s2.next :
              s2.next[j] = IF j = c.key THEN [t |-> t, veh |-> c.veh] ELSE s.next[j]
    <3> DEFINE new == [t |-> t, veh |-> c.veh]
    <3>1. new \in MaybeArrival /\ s2.next = WithKey(s.next, c.key, new)
      BY <1>3, <1>4 DEF MaybeArrival
    <3> HIDE DEF new
    <3>2. OneChanged(s2.next, s.next, c.key, new)
      BY <1>4, <1>5, <3>1, NextSet
    <3> QED
      BY <3>2 DEF new, OneChanged
  <2>2. CASE m = n
    <3>1. s2.event[m].t = t /\ k = c.key
      BY <1>3, <1>5, <2>2
    <3>2. c.t # Never
      BY <1>3, <1>4, <3>1
    <3>3. [t |-> t, veh |-> c.veh] \in s2.arr[c.key]
      BY <1>4, <1>6, <3>2
    <3> QED
      BY <2>1, <3>1, <3>3
  <2>3. CASE m # n
    <3>1. s2.event[m] = s.event[m] /\ m \in Nodes \ D
      BY <1>3, <1>5, <2>3
    <3>2. k \in DOMAIN s.next /\ s.next[k] \in s.arr[k] /\ s.next[k].t = s.event[m].t
      BY <3>1 DEF NetInv, Consumable
    <3>3. k # c.key
      <4>1. k \in InTo(m) \cup {m}
        BY <3>1 DEF NetInv, EventsOK
      <4> QED
        BY <1>4, <2>3, <4>1, KeyOwner
    <3>4. k \in Keys
      BY <1>5, <3>1
    <3> QED
      BY <1>7, <2>1, <3>1, <3>2, <3>3, <3>4
  <2> QED
    BY <2>2, <2>3
<1> QED
  BY <1>3, <1>8, <1>9, <1>10, <1>11 DEF NetInv

--------------------------------------------------------------------------------
(* Updates one after the other *)

Chain(f, s, todo, inst) ==
    f[0] = {s} /\ \A i \in 1 .. Len(todo) : f[i] = UpdateNode(f[i - 1], todo[i], inst)

\* The recursive definition has a value: what the prover needs to expand it.
LEMMA UpdateChain ==
    ASSUME NEW s, NEW todo \in Seq(Nodes), NEW inst
    PROVE  \E f : Chain(f, s, todo, inst) /\ Updated(s, todo, inst) = f[Len(todo)]
<1> DEFINE n == Len(todo)
           Def(f, m) == f = [i \in 0 .. m |-> IF i = 0 THEN {s}
                                              ELSE UpdateNode(f[i - 1], todo[i], inst)]
           G == {m \in Nat : \E f : Def(f, m)}
<1>0. n \in Nat
  BY LenProperties
<1>1. 0 \in G
  <2> DEFINE f == [i \in 0 .. 0 |-> {s}]
  <2>1. Def(f, 0)
    <3>1. \A i \in 0 .. 0 : i = 0
      OBVIOUS
    <3> QED
      BY <3>1
  <2> HIDE DEF f, Def
  <2> QED
    BY <2>1
<1>2. \A m \in Nat : m \in G => m + 1 \in G
  <2> TAKE m \in Nat
  <2> HAVE m \in G
  <2>1. PICK f : Def(f, m)
    <3> HIDE DEF Def
    <3> QED
      OBVIOUS
  <2> DEFINE new == UpdateNode(f[m], todo[m + 1], inst)
             g == [i \in 0 .. (m + 1) |-> IF i = m + 1 THEN new ELSE f[i]]
  <2>2. \A i \in 0 .. m : f[i] = IF i = 0 THEN {s} ELSE UpdateNode(f[i - 1], todo[i], inst)
    BY <2>1
  <2>3. \A i \in 0 .. (m + 1) : g[i] = IF i = 0 THEN {s} ELSE UpdateNode(g[i - 1], todo[i], inst)
    <3> TAKE i \in 0 .. (m + 1)
    <3>1. CASE i = m + 1
      <4>1. g[i] = new /\ g[i - 1] = f[m] /\ i # 0
        BY <3>1
      <4> QED
        BY <4>1, <3>1
    <3>2. CASE i # m + 1 /\ i # 0
      <4>1. g[i] = f[i] /\ g[i - 1] = f[i - 1] /\ i \in 0 .. m
        BY <3>2
      <4> QED
        BY <2>2, <4>1, <3>2
    <3>3. CASE i = 0
      BY <2>2, <3>3
    <3> QED
      BY <3>1, <3>2, <3>3
  <2>4. g = [i \in 0 .. (m + 1) |-> g[i]]
    OBVIOUS
  <2> HIDE DEF g
  <2>5. Def(g, m + 1)
    BY <2>3, <2>4
  <2> HIDE DEF Def
  <2> QED
    BY <2>5
<1> DEFINE after == CHOOSE f : Def(f, n)
<1>3. Def(after, n)
  <2>1. n \in G
    <3> HIDE DEF G, n
    <3> QED
      BY <1>0, <1>1, <1>2, NatSetInduction
  <2> HIDE DEF Def, n
  <2> QED
    BY <2>1
<1>4. Updated(s, todo, inst) = after[n]
  BY DEF Updated
<1> HIDE DEF after
<1>5. Chain(after, s, todo, inst)
  <2>1. \A i \in 0 .. n : after[i] = IF i = 0 THEN {s} ELSE UpdateNode(after[i - 1], todo[i], inst)
    BY <1>3
  <2> HIDE DEF Def
  <2>2. 0 \in 0 .. n /\ \A i \in 1 .. n : i \in 0 .. n /\ i # 0
    <3> HIDE DEF n
    <3> QED
      BY <1>0
  <2> QED
    BY <2>1, <2>2 DEF Chain
<1> QED
  BY <1>4, <1>5

LEMMA SameTwice ==
    ASSUME NEW s, NEW x, NEW y, NEW inst, SameButTimes(s, x, inst), SameButTimes(x, y, inst)
    PROVE  SameButTimes(s, y, inst)
<1>1. \A m \in Nodes : y.event[m] = s.event[m] \/ y.event[m].t >= inst
  <2> TAKE m \in Nodes
  <2>1. x.event[m] = s.event[m] \/ x.event[m].t >= inst
    BY DEF SameButTimes
  <2>2. y.event[m] = x.event[m] \/ y.event[m].t >= inst
    BY DEF SameButTimes
  <2> QED
    BY <2>1, <2>2
<1> QED
  BY <1>1 DEF SameButTimes

\* After the updates of the nodes of todo their events can be simulated.
LEMMA AllUpdated ==
    ASSUME NEW s, NEW D, NetInv(s, D), NEW todo \in Seq(Nodes),
           \A n \in D : Occurs(n, todo),
           NEW inst \in Int, inst <= Never, NEW s2 \in Updated(s, todo, inst)
    PROVE  NetInv(s2, {}) /\ SameButTimes(s, s2, inst)
<1> DEFINE Left(i) == D \ {todo[j] : j \in 1 .. i}
<1>1. PICK f : Chain(f, s, todo, inst) /\ Updated(s, todo, inst) = f[Len(todo)]
  BY UpdateChain
<1>2. Len(todo) \in Nat /\ DOMAIN todo = 1 .. Len(todo) /\ \A i \in 1 .. Len(todo) : todo[i] \in Nodes
  BY LenProperties, ElementOfSeq
<1> DEFINE G == {i \in Nat : i <= Len(todo) =>
                     \A x \in f[i] : NetInv(x, Left(i)) /\ SameButTimes(s, x, inst)}
<1>3. 0 \in G
  <2>1. f[0] = {s}
    BY <1>1 DEF Chain
  <2>2. Left(0) = D
    OBVIOUS
  <2>3. SameButTimes(s, s, inst)
    BY DEF SameButTimes
  <2> HIDE DEF Left
  <2> QED
    BY <2>1, <2>2, <2>3
<1>4. \A i \in Nat : i \in G => i + 1 \in G
  <2> TAKE i \in Nat
  <2> HAVE i \in G
  <2> SUFFICES ASSUME i + 1 <= Len(todo), NEW y \in f[i + 1]
               PROVE  NetInv(y, Left(i + 1)) /\ SameButTimes(s, y, inst)
    OBVIOUS
  <2>1. i + 1 \in 1 .. Len(todo) /\ (i + 1) - 1 = i /\ i <= Len(todo)
    BY <1>2
  <2>2. y \in UpdateNode(f[i], todo[i + 1], inst)
    BY <1>1, <2>1 DEF Chain
  <2>3. PICK x \in f[i] : y \in UpdateNode({x}, todo[i + 1], inst)
    BY <2>2 DEF UpdateNode
  <2>4. NetInv(x, Left(i)) /\ SameButTimes(s, x, inst)
    <3> HIDE DEF Left
    <3> QED
      BY <2>1, <2>3
  <2>5. NetInv(y, Left(i) \ {todo[i + 1]}) /\ SameButTimes(x, y, inst)
    <3> HIDE DEF Left
    <3>1. todo[i + 1] \in Nodes
      BY <1>2, <2>1
    <3> QED
      BY <2>3, <2>4, <3>1, NodeUpdated
  <2>6. Left(i) \ {todo[i + 1]} = Left(i + 1)
    <3>1. \A j \in 1 .. i + 1 : j \in 1 .. i \/ j = i + 1
      OBVIOUS
    <3>2. \A j \in 1 .. i : j \in 1 .. i + 1
      OBVIOUS
    <3>3. i + 1 \in 1 .. i + 1
      OBVIOUS
    <3> QED
      BY <3>1, <3>2, <3>3
  <2> QED
    BY <2>4, <2>5, <2>6, SameTwice
<1>5. Len(todo) \in G
  <2> HIDE DEF G
  <2> QED
    BY <1>2, <1>3, <1>4, NatSetInduction
<1>6. Left(Len(todo)) = {}
  BY <1>2 DEF Occurs
<1>7. s2 \in f[Len(todo)] /\ Len(todo) <= Len(todo)
  BY <1>1, <1>2
<1> HIDE DEF Left
<1>8. NetInv(s2, Left(Len(todo))) /\ SameButTimes(s, s2, inst)
  BY <1>5, <1>7
<1> QED
  BY <1>6, <1>8

--------------------------------------------------------------------------------
(* The supply times that were postponed *)

SameButSupply(s, s2) ==
    /\ s2.clock = s.clock /\ s2.event = s.event /\ s2.arr = s.arr /\ s2.cur = s.cur
    /\ s2.wait = s.wait /\ s2.made = s.made /\ s2.dps = s.dps /\ s2.ups = s.ups
    /\ s2.near = s.near /\ s2.led = s.led

\* A vehicle on a link, or arriving at its end, entered it.
LEMMA EnteredTimes ==
    ASSUME NEW s, NEW D, NetInv(s, D), NEW l \in Meso
    PROVE  /\ s.cur[l] \in Seq(Vehicles) /\ s.dps[l] \in Seq(Int) /\ s.ups[l] \in Seq(Int)
           /\ RefRank(s, l) \in Int
           /\ s.arr[l] # {} => Last(s.dps[l]) \in Int
           /\ RefRank(s, l) > 1 => GapTime(s, l) \in Int
<1>1. /\ s.cur[l] \in Seq(Vehicles) /\ s.dps[l] \in Seq(Int) /\ s.ups[l] \in Seq(Int)
  BY Constants DEF NetInv, NetType
<1>2. Len(s.cur[l]) \in Nat /\ Len(s.dps[l]) \in Nat /\ Len(s.ups[l]) \in Nat
  BY <1>1, LenProperties
<1>3. RefRank(s, l) \in Int
  BY <1>2, Constants DEF RefRank
<1>4. ASSUME s.arr[l] # {} PROVE Last(s.dps[l]) \in Int
  <2>1. PICK a \in s.arr[l] : TRUE
    BY <1>4
  <2>2. a.veh \in Vehicles /\ Listed(a.veh, s.arr[l])
    BY Constants DEF NetInv, NetType, Arrival, Listed, Keys
  <2>3. Occurs(a.veh, s.cur[l])
    BY <2>2 DEF NetInv, Placed, LinksOK
  <2>4. Len(s.cur[l]) >= 1
    <3>1. DOMAIN s.cur[l] = 1 .. Len(s.cur[l])
      BY <1>1, LenProperties
    <3>2. PICK i \in 1 .. Len(s.cur[l]) : TRUE
      BY <2>3, <3>1 DEF Occurs
    <3> QED
      BY <1>2, <3>2
  <2>5. Len(s.cur[l]) = Len(s.dps[l]) - Len(s.ups[l])
    BY DEF NetInv, Counted
  <2>6. Len(s.dps[l]) \in 1 .. Len(s.dps[l])
    BY <1>2, <2>4, <2>5
  <2> QED
    BY <1>1, <2>6, ElementOfSeq DEF Last
<1>5. ASSUME RefRank(s, l) > 1 PROVE GapTime(s, l) \in Int
  <2>1. CASE RefRank(s, l) >= Len(s.ups[l])
    BY <2>1, Constants DEF GapTime
  <2>2. CASE ~(RefRank(s, l) >= Len(s.ups[l]))
    <3>1. RefRank(s, l) \in 1 .. Len(s.ups[l])
      BY <1>2, <1>3, <1>5, <2>2
    <3>2. s.ups[l][RefRank(s, l)] \in Int
      BY <1>1, <3>1, ElementOfSeq
    <3> QED
      BY <2>2, <3>2, Constants DEF GapTime
  <2> QED
    BY <2>1, <2>2
<1> QED
  BY <1>1, <1>3, <1>4, <1>5

LEMMA RefreshedTimes ==
    ASSUME NEW s, NEW D, NetInv(s, D), NEW inst \in Int, NEW l \in Links
    PROVE  (IF l \in Meso THEN RefreshedMeso(s, l) ELSE RefreshedMicro(s, l, inst)) \in Int
<1>1. ASSUME l \in Meso PROVE RefreshedMeso(s, l) \in Int
  <2>1. CASE s.arr[l] = {}
    BY <2>1, Constants DEF RefreshedMeso
  <2>2. CASE s.arr[l] # {}
    <3>1. Last(s.dps[l]) \in Int /\ RefRank(s, l) \in Int
          /\ (RefRank(s, l) > 1 => GapTime(s, l) \in Int)
      BY <1>1, <2>2, EnteredTimes
    <3>2. Last(s.dps[l]) + Headway \in Int
          /\ (IF RefRank(s, l) > 1 THEN GapTime(s, l) ELSE Past) \in Int
      BY <3>1, Constants
    <3> QED
      BY <2>2, <3>2, LaterIs DEF RefreshedMeso
  <2> QED
    BY <2>1, <2>2
<1>2. RefreshedMicro(s, l, inst) \in Int
  <2> DEFINE x == IF s.dps[l] = <<>> THEN Past ELSE Last(s.dps[l]) + Headway
             y == IF inst = Never THEN Past ELSE inst
  <2>1. x \in Int
    <3>1. s.dps[l] \in Seq(Int)
      BY DEF NetInv, NetType
    <3>2. ASSUME s.dps[l] # <<>> PROVE Last(s.dps[l]) \in Int
      <4>1. Len(s.dps[l]) \in 1 .. Len(s.dps[l])
        BY <3>1, <3>2, EmptySeq, LenProperties
      <4> QED
        BY <3>1, <4>1, ElementOfSeq DEF Last
    <3> QED
      BY <3>2, Constants
  <2>2. y \in Int
    BY Constants
  <2>3. s.clock - TimeStep \in Int
    BY Constants DEF NetInv, NetType
  <2> HIDE DEF x, y
  <2>4. Later(s.clock - TimeStep, x) \in Int
    BY <2>1, <2>3, LaterIs
  <2>5. Later(Later(s.clock - TimeStep, x), y) \in Int
    BY <2>2, <2>4, LaterIs
  <2> QED
    BY <2>5, Constants DEF RefreshedMicro, x, y
<1> QED
  BY <1>1, <1>2

LEMMA RefreshedIs ==
    ASSUME NEW s, NetInv(s, {}), NEW inst \in Int, NEW s2, s2 = Refreshed(s, inst)
    PROVE  NetInv(s2, {}) /\ SameButSupply(s, s2)
<1> DEFINE up == {n \in Nodes : TakesUp(s, n)}
           h == [n \in up |-> MinArrival(s.arr[n])]
           q == [l \in Postponed(s) |-> IF l \in Meso THEN RefreshedMeso(s, l)
                                        ELSE RefreshedMicro(s, l, inst)]
           x == Over(q, s.supply)
           y == Over(h, s.next)
<1>1. s2 = [s EXCEPT !.supply = x, !.next = y]
  BY DEF Refreshed
<1>2. s \in NetType
  BY DEF NetInv
<1>3. x \in [Keys -> Int]
  <2>1. Postponed(s) \subseteq Links /\ Links \subseteq Keys
    BY DEF Postponed, Keys
  <2>2. \A l \in DOMAIN q : q[l] \in Int
    BY <2>1, RefreshedTimes
  <2>3. s.supply \in [Keys -> Int] /\ DOMAIN q \subseteq Keys
    BY <1>2, <2>1 DEF NetType
  <2> HIDE DEF q
  <2> QED
    BY <2>2, <2>3 DEF Over
<1>4. y \in NextMaps /\ Overridden(y, h, s.next)
  <2>1. ListsOK(s)
    BY DEF ListsOK, NetInv, Placed, ArrivalsOK
  <2>2. \A n \in up : h[n] \in MaybeArrival
    <3> TAKE n \in up
    <3>1. n \in Keys
      BY KeysOf
    <3>2. CASE s.arr[n] = {}
      BY <3>2, NoArrivalIs DEF MinArrival
    <3>3. CASE s.arr[n] # {}
      <4>1. MinArrival(s.arr[n]) \in Arrival
        BY <2>1, <3>1, <3>3, FirstOf
      <4> QED
        BY <4>1, NoArrivalIs
    <3> QED
      BY <3>2, <3>3
  <2>3. h = [n \in DOMAIN h |-> h[n]] /\ DOMAIN h = up /\ up \subseteq Keys
    BY KeysOf
  <2>4. s.next \in NextMaps
    BY <1>2 DEF NetType
  <2> HIDE DEF h, up
  <2> QED
    BY <2>2, <2>3, <2>4, NextMerged
<1> HIDE DEF x, y, q
<1>5. s2 \in NetType /\ SameButSupply(s, s2) /\ s2.next = y
  <2> HIDE DEF h
  <2> QED
    BY <1>1, <1>2, <1>3, <1>4 DEF NetType, SameButSupply
<1>6. Consumable(s2.event, s2.next, s2.arr, {})
  <2> SUFFICES ASSUME NEW n \in Nodes, s.event[n].t # Never, NEW k, k = s.event[n].key
               PROVE  k \in DOMAIN y /\ y[k] \in s.arr[k] /\ y[k].t = s.event[n].t
    BY <1>5 DEF Consumable, SameButSupply
  <2>1. k \in DOMAIN s.next /\ s.next[k] \in s.arr[k] /\ s.next[k].t = s.event[n].t
    BY DEF NetInv, Consumable
  <2>2. k \notin up
    <3>1. k \in Keys /\ s.arr[k] \in SUBSET Arrival
      BY <1>2 DEF NetType
    <3>2. NextArrival(s, k).veh \in Vehicles
      BY <2>1, <3>1 DEF NextArrival, Arrival
    <3> QED
      BY <3>2, VehicleNumbers DEF TakesUp, NoVeh
  <2>3. DOMAIN h = up
    OBVIOUS
  <2> HIDE DEF h, up
  <2> QED
    BY <1>4, <2>1, <2>2, <2>3 DEF Overridden
<1> QED
  BY <1>5, <1>6 DEF NetInv, SameButSupply

\* The nodes of the postponed links.
LEMMA RefreshedNodesIs ==
    ASSUME NEW s
    PROVE  RefreshedNodes(s) \in Seq(Nodes)
<1> DEFINE P == Postponed(s)
           q == SetToSeq(P)
<1>1. P \in SUBSET Links /\ \A l \in P : From[l] \in Nodes
  BY DEF Postponed
<1>2. IsFiniteSet(P)
  <2> HIDE DEF P
  <2> QED
    BY <1>1, Constants, FS_Subset
<1>3. Cardinality(P) \in Nat /\ q \in [1 .. Cardinality(P) -> P]
  <2> HIDE DEF P
  <2>1. Cardinality(P) \in Nat
    BY <1>2, FS_CardinalityType
  <2>2. PICK f : f \in Bijection(1 .. Cardinality(P), P)
    BY <1>2, FS_NatBijection, FS_CardinalityType, FS_CountingElements DEF ExistsBijection
  <2>3. f \in [1 .. Cardinality(P) -> P] /\ IsInjective(f)
    BY <2>2 DEF Bijection, Injection, IsInjective
  <2> QED
    BY <2>1, <2>3 DEF SetToSeq
<1>4. RefreshedNodes(s) = [i \in 1 .. Cardinality(P) |-> From[q[i]]]
  BY <1>3 DEF RefreshedNodes
<1> HIDE DEF P, q
<1>5. [i \in 1 .. Cardinality(P) |-> From[q[i]]] \in [1 .. Cardinality(P) -> Nodes]
  BY <1>1, <1>3
<1> QED
  BY <1>3, <1>4, <1>5, SeqDef

--------------------------------------------------------------------------------
(* The passage of a vehicle *)

\* Vehicle a.veh is to pass node n, from link (or origin) k to link (or exit) l.
Passer(s, n, k, a, l) ==
    /\ k = s.event[n].key /\ a = s.next[k] /\ l = NextLink(a.veh, k)
    /\ k \in Keys /\ k \in InTo(n) \cup {n} /\ k \in DOMAIN s.next
    /\ a \in s.arr[k] /\ a \in Arrival /\ a.veh # NoVeh /\ a.veh <= s.made
    /\ l \in Keys /\ (l \in Links => Occurs(l, Route[a.veh]))
    /\ \/ k \in Links /\ n \notin Origins
       \/ k = n /\ n \in Origins /\ l \in Meso /\ OutOf(n) = {l} /\ Route[a.veh][1] = l
          /\ From[l] = n

LEMMA PasserIs ==
    ASSUME NEW s, NetInv(s, {}), NEW n \in Nodes, s.event[n].t # Never
    PROVE  LET k == s.event[n].key
           IN  Passer(s, n, k, s.next[k], NextLink(s.next[k].veh, k))
<1> DEFINE k == s.event[n].key
           a == s.next[k]
           v == a.veh
           l == NextLink(v, k)
<1>1. /\ k \in Keys /\ k \in DOMAIN s.next /\ a \in s.arr[k]
      /\ s.arr[k] \in SUBSET Arrival /\ k \in InTo(n) \cup {n}
  BY DEF NetInv, NetType, Consumable, EventsOK
<1>2. a \in Arrival /\ v \in Vehicles /\ v # NoVeh /\ Listed(v, s.arr[k])
  <2>1. a \in Arrival
    BY <1>1
  <2>2. v \in Vehicles
    BY <2>1 DEF Arrival
  <2> HIDE DEF k
  <2> QED
    BY <1>1, <2>1, <2>2, VehicleNumbers DEF Listed, NoVeh
<1> HIDE DEF k, a, v
<1>3. v <= s.made
  BY <1>1, <1>2 DEF NetInv, Placed, RoutesOK
<1>4. CASE k \in Links
  <2>1. k # n
    BY <1>4, Constants
  <2>2. To[k] = n /\ n \notin Origins
    BY <1>1, <1>4, <2>1, IncomingOf
  <2>3. Occurs(k, Route[v])
    BY <1>2, <1>4 DEF NetInv, Placed, RoutesOK
  <2>4. l = n \/ (l \in Links /\ Occurs(l, Route[v]))
    BY <1>2, <1>4, <2>2, <2>3, NextLinkIs
  <2>5. l \in Keys /\ (l \in Links => Occurs(l, Route[v]))
    BY <2>4, Constants DEF Keys
  <2> QED
    BY <1>1, <1>2, <1>3, <1>4, <2>2, <2>5 DEF Passer, k, a, v
<1>5. CASE k \notin Links
  <2>1. k = n
    BY <1>1, <1>5, IncomingOf
  <2>2. Route[v][1] \in Meso /\ From[Route[v][1]] = n
    BY <1>2, <2>1 DEF NetInv, Placed, WaitOK
  <2>3. n \in Origins
    BY <1>2, <2>2, RouteOf
  <2>4. l = Route[v][1]
    BY <2>1 DEF NextLink
  <2>5. OutOf(n) = {l}
    BY <2>2, <2>3, <2>4, OriginOf, Constants
  <2>6. l \in Keys /\ Occurs(l, Route[v])
    <3>1. 1 \in DOMAIN Route[v]
      BY <1>2, RouteOf
    <3> QED
      BY <2>2, <2>4, <3>1, Constants DEF Occurs, Keys
  <2> QED
    BY <1>1, <1>2, <1>3, <2>1, <2>2, <2>3, <2>4, <2>5, <2>6 DEF Passer, k, a, v
<1> QED
  BY <1>4, <1>5 DEF k, a, v

SameElsewhere(arr, arr2, k) == \A j \in Keys : j # k => arr2[j] = arr[j]

\* A change at an incoming link of a node is about the event of that node only.
LEMMA ConsumableElsewhere ==
    ASSUME NEW event, event \in [Nodes -> [t : Int, key : Keys]], EventsOK(event),
           NEW next, NEW next2, NEW arr, NEW arr2, NEW D, Consumable(event, next, arr, D),
           NEW n \in Nodes, NEW k, k \in InTo(n) \cup {n}, NEW m, OneChanged(next2, next, k, m),
           SameElsewhere(arr, arr2, k)
    PROVE  Consumable(event, next2, arr2, D \cup {n})
<1> SUFFICES ASSUME NEW i \in Nodes, i \notin D, i # n, event[i].t # Never,
                    NEW j, j = event[i].key
             PROVE  j \in DOMAIN next2 /\ next2[j] \in arr2[j] /\ next2[j].t = event[i].t
  BY DEF Consumable
<1>1. j \in Keys /\ j \in InTo(i) \cup {i}
  BY DEF EventsOK
<1>2. j # k
  BY <1>1, KeyOwner
<1>3. j \in DOMAIN next /\ next[j] \in arr[j] /\ next[j].t = event[i].t
  BY DEF Consumable
<1> QED
  BY <1>1, <1>2, <1>3 DEF OneChanged, SameElsewhere

\* It is taken from the link it comes from, and from the vehicles that wait at its origin.
Out(s, n, l) ==
    [s EXCEPT !.wait = IF n \in Origins THEN [s.wait EXCEPT ![l] = Tail(@)] ELSE @]

SameEvents(s, s2) == s2.event = s.event /\ s2.clock = s.clock /\ s2.made = s.made

LEMMA BehindIs ==
    ASSUME NEW s, NEW D, NetInv(s, D), NEW k \in Keys, NEW a \in s.arr[k], NEW inst \in Int
    PROVE  LET B == Raised(s.arr[k] \ {a}, inst)
           IN  /\ B \in SUBSET Arrival /\ Proper(B) /\ MinArrival(B) \in MaybeArrival
               /\ \A w : Listed(w, B) <=> Listed(w, s.arr[k]) /\ w # a.veh
<1> DEFINE B == Raised(s.arr[k] \ {a}, inst)
<1>1. s.arr[k] \in SUBSET Arrival /\ Proper(s.arr[k])
  BY DEF NetInv, NetType, Placed, ArrivalsOK
<1>2. s.arr[k] \ {a} \in SUBSET Arrival
      /\ Proper(s.arr[k] \ {a}) /\ \A w : Listed(w, s.arr[k] \ {a}) <=> Listed(w, s.arr[k]) /\ w # a.veh
  BY <1>1, ProperRemoved
<1>3. B \in SUBSET Arrival /\ Proper(B) /\ \A w : Listed(w, B) <=> Listed(w, s.arr[k] \ {a})
  BY <1>2, RaisedIs
<1> HIDE DEF B
<1>4. MinArrival(B) \in MaybeArrival
  <2>1. CASE B = {}
    BY <2>1, NoArrivalIs DEF MinArrival
  <2>2. CASE B # {}
    <3>1. MinArrival(B) \in B
      BY <1>3, <2>2, MinArrivalIs DEF Proper
    <3> QED
      BY <1>3, <3>1, NoArrivalIs
  <2> QED
    BY <2>1, <2>2
<1> QED
  BY <1>2, <1>3, <1>4 DEF B

LEMMA WithdrawnIs ==
    ASSUME NEW s, NetInv(s, {}), NEW n \in Nodes, NEW k, NEW a, NEW l, Passer(s, n, k, a, l),
           Inserted(s, n, a.veh), NEW inst \in Int,
           NEW s2, s2 = Out(Withdrawn(s, n, k, inst), n, l)
    PROVE  NetInv(s2, {n}) /\ Away(a.veh, s2.arr, s2.cur, s2.wait) /\ SameEvents(s, s2)
<1> DEFINE v == a.veh
           B == Raised(s.arr[k] \ {a}, inst)
           arr == [s.arr EXCEPT ![k] = B]
           next == [s.next EXCEPT ![k] = MinArrival(B)]
           cur == IF k \in Meso THEN [s.cur EXCEPT ![k] = RemoveFirst(@, v)] ELSE s.cur
           ups == IF k \in Meso THEN [s.ups EXCEPT ![k] = Append(@, inst)] ELSE s.ups
           wait == IF n \in Origins THEN [s.wait EXCEPT ![l] = Tail(@)] ELSE s.wait
<1>1. s2 = [s EXCEPT !.arr = arr, !.next = next, !.cur = cur, !.ups = ups, !.wait = wait]
  <2>1. a = s.next[k]
    BY DEF Passer
  <2> QED
    BY <2>1 DEF Out, Withdrawn
<1>2. /\ s \in NetType /\ EventsOK(s.event) /\ Placed(s.arr, s.cur, s.wait, s.made)
      /\ Counted(s.cur, s.dps, s.ups) /\ Consumable(s.event, s.next, s.arr, {})
  BY DEF NetInv
<1>3. /\ s.arr \in [Keys -> SUBSET Arrival] /\ s.next \in NextMaps
      /\ s.cur \in [Links -> Seq(Vehicles)] /\ s.ups \in [Meso -> Seq(Int)]
      /\ s.wait \in [Meso -> Seq(Vehicles)] /\ s.event \in [Nodes -> [t : Int, key : Keys]]
  BY <1>2 DEF NetType
<1>4. /\ k \in Keys /\ k \in InTo(n) \cup {n} /\ k \in DOMAIN s.next
      /\ a \in s.arr[k] /\ v \in Vehicles /\ Listed(v, s.arr[k])
  BY DEF Passer, Arrival, Listed
<1> HIDE DEF v
<1>5. /\ B \in SUBSET Arrival /\ Proper(B) /\ MinArrival(B) \in MaybeArrival
      /\ \A w : Listed(w, B) <=> Listed(w, s.arr[k]) /\ w # v
  BY <1>4, BehindIs DEF v
<1> HIDE DEF B
<1>6. arr \in [Keys -> SUBSET Arrival] /\ \A j \in Keys : arr[j] = IF j = k THEN B ELSE s.arr[j]
  BY <1>3, <1>4, <1>5
<1>7. next \in NextMaps /\ OneChanged(next, s.next, k, MinArrival(B))
  BY <1>3, <1>4, <1>5, NextExcept
<1>8. \A j \in Links : Occurs(v, s.cur[j]) => j = k /\ k \in Meso
  <2> TAKE j \in Links
  <2> HAVE Occurs(v, s.cur[j])
  <2>1. j \in Meso
    BY <1>2, <1>4 DEF Placed, LinksOK, Micro
  <2>2. Listed(v, s.arr[j]) /\ j \in Keys
    BY <1>2, <1>4, <2>1 DEF Placed, LinksOK, Keys
  <2>3. j = k
    BY <1>2, <1>4, <2>2 DEF Placed, ArrivalsOK
  <2> QED
    BY <2>1, <2>3
<1>9. k \in Meso =>
         LET q == RemoveFirst(s.cur[k], v)
         IN  /\ q \in Seq(Vehicles) /\ Len(q) = Len(s.cur[k]) - 1 /\ IsInjective(q)
             /\ \A w : Occurs(w, q) <=> Occurs(w, s.cur[k]) /\ w # v
  <2> HAVE k \in Meso
  <2>1. s.cur[k] \in Seq(Vehicles) /\ IsInjective(s.cur[k]) /\ Occurs(v, s.cur[k])
    BY <1>2, <1>3, <1>4, Constants DEF Placed, LinksOK
  <2> QED
    BY <2>1, RemoveOccurs
<1>10. /\ cur \in [Links -> Seq(Vehicles)]
       /\ \A j \in Links : IsInjective(cur[j])
       /\ \A j \in Links : \A w \in Vehicles : Occurs(w, cur[j]) <=> Occurs(w, s.cur[j]) /\ w # v
  <2>1. \A j \in Links : IsInjective(s.cur[j])
    BY <1>2 DEF Placed, LinksOK
  <2>2. CASE k \in Meso
    <3>1. cur = [s.cur EXCEPT ![k] = RemoveFirst(s.cur[k], v)] /\ k \in Links
      BY <2>2, Constants
    <3>2. \A j \in Links : j # k => cur[j] = s.cur[j]
      BY <1>3, <3>1
    <3>3. cur[k] = RemoveFirst(s.cur[k], v)
      BY <1>3, <3>1
    <3>4. cur \in [Links -> Seq(Vehicles)]
      BY <1>3, <1>9, <2>2, <3>1
    <3> HIDE DEF cur
    <3>5. ASSUME NEW j \in Links
          PROVE  IsInjective(cur[j])
                 /\ \A w \in Vehicles : Occurs(w, cur[j]) <=> Occurs(w, s.cur[j]) /\ w # v
      <4>1. CASE j = k
        BY <1>9, <2>2, <3>3, <4>1
      <4>2. CASE j # k
        BY <1>8, <2>1, <3>2, <4>2
      <4> QED
        BY <4>1, <4>2
    <3> QED
      BY <3>4, <3>5
  <2>3. CASE k \notin Meso
    BY <1>3, <1>8, <2>1, <2>3
  <2> QED
    BY <2>2, <2>3
<1>11. ups \in [Meso -> Seq(Int)] /\ Counted(cur, s.dps, ups)
  <2>1. CASE k \in Meso
    <3>1. s.ups[k] \in Seq(Int)
      BY <1>3, <2>1
    <3>2. Append(s.ups[k], inst) \in Seq(Int) /\ Len(Append(s.ups[k], inst)) = Len(s.ups[k]) + 1
      BY <3>1, AppendProperties
    <3>3. ups = [s.ups EXCEPT ![k] = Append(s.ups[k], inst)]
          /\ cur = [s.cur EXCEPT ![k] = RemoveFirst(s.cur[k], v)] /\ k \in Links
      BY <2>1, Constants
    <3>4. /\ \A j \in Meso : j # k => ups[j] = s.ups[j] /\ cur[j] = s.cur[j]
          /\ ups[k] = Append(s.ups[k], inst) /\ cur[k] = RemoveFirst(s.cur[k], v)
          /\ ups \in [Meso -> Seq(Int)]
      BY <1>3, <2>1, <3>2, <3>3, Constants
    <3> HIDE DEF ups, cur
    <3>5. ASSUME NEW j \in Meso PROVE Len(cur[j]) = Len(s.dps[j]) - Len(ups[j])
      <4>1. Len(s.cur[j]) = Len(s.dps[j]) - Len(s.ups[j])
        BY <1>2 DEF Counted
      <4>2. Len(s.cur[j]) \in Nat /\ Len(s.dps[j]) \in Nat /\ Len(s.ups[j]) \in Nat
        BY <1>2, Constants, LenProperties DEF NetType
      <4>3. CASE j = k
        <5>1. Len(cur[k]) = Len(s.cur[k]) - 1
          BY <1>9, <2>1, <3>4
        <5>2. Len(ups[k]) = Len(s.ups[k]) + 1
          BY <3>2, <3>4
        <5>3. Len(s.cur[k]) - 1 = Len(s.dps[k]) - (Len(s.ups[k]) + 1)
          <6> DEFINE x == Len(s.cur[k])
                     y == Len(s.dps[k])
                     z == Len(s.ups[k])
          <6>1. x = y - z /\ x \in Nat /\ y \in Nat /\ z \in Nat
            BY <4>1, <4>2, <4>3, Zenon
          <6> HIDE DEF x, y, z
          <6>2. x - 1 = y - (z + 1)
            BY <6>1
          <6> QED
            BY <6>2 DEF x, y, z
        <5>4. Len(cur[k]) = Len(s.dps[k]) - Len(ups[k])
          BY <5>1, <5>2, <5>3
        <5> QED
          BY <4>3, <5>4, Zenon
      <4>4. CASE j # k
        BY <3>4, <4>1, <4>4
      <4> QED
        BY <4>3, <4>4
    <3> QED
      BY <3>4, <3>5 DEF Counted
  <2>2. CASE k \notin Meso
    BY <1>2, <1>3, <2>2
  <2> QED
    BY <2>1, <2>2
<1>12. /\ wait \in [Meso -> Seq(Vehicles)]
       /\ \A j \in Meso : IsInjective(wait[j])
       /\ \A j \in Meso : \A w \in Vehicles : Occurs(w, wait[j]) <=> Occurs(w, s.wait[j]) /\ w # v
  <2>1. \A j \in Meso : IsInjective(s.wait[j])
    BY <1>2 DEF Placed, WaitOK
  <2>2. CASE n \in Origins
    <3>1. l \in Meso /\ OutOf(n) = {l} /\ Route[v][1] = l
      <4>1. ~(n \notin Origins)
        BY <2>2
      <4> QED
        BY <4>1 DEF Passer, v
    <3>2. s.wait[l] # <<>> /\ Head(s.wait[l]) = v
      BY <2>2, <3>1 DEF Inserted, v
    <3>3. LET q == Tail(s.wait[l])
          IN  /\ q \in Seq(Vehicles) /\ IsInjective(q)
              /\ \A w : Occurs(w, q) <=> Occurs(w, s.wait[l]) /\ w # v
      <4>1. s.wait[l] \in Seq(Vehicles)
        BY <1>3, <3>1
      <4> QED
        BY <2>1, <3>1, <3>2, <4>1, TailOccurs
    <3>4. \A j \in Meso : Occurs(v, s.wait[j]) => j = l
      BY <1>2, <1>4, <3>1 DEF Placed, WaitOK
    <3>5. wait = [s.wait EXCEPT ![l] = Tail(s.wait[l])]
      BY <2>2
    <3>6. /\ \A j \in Meso : j # l => wait[j] = s.wait[j]
          /\ wait[l] = Tail(s.wait[l]) /\ wait \in [Meso -> Seq(Vehicles)]
      BY <1>3, <3>1, <3>3, <3>5
    <3> HIDE DEF wait
    <3>7. ASSUME NEW j \in Meso
          PROVE  IsInjective(wait[j])
                 /\ \A w \in Vehicles : Occurs(w, wait[j]) <=> Occurs(w, s.wait[j]) /\ w # v
      <4>1. CASE j = l
        BY <3>3, <3>6, <4>1
      <4>2. CASE j # l
        BY <2>1, <3>4, <3>6, <4>2
      <4> QED
        BY <4>1, <4>2
    <3> QED
      BY <3>6, <3>7
  <2>3. CASE n \notin Origins
    <3>1. k \in Links
      BY <2>3 DEF Passer
    <3>2. \A j \in Meso : ~Occurs(v, s.wait[j])
      <4> SUFFICES ASSUME NEW j \in Meso, Occurs(v, s.wait[j]) PROVE FALSE
        OBVIOUS
      <4>1. From[j] \in Origins /\ Listed(v, s.arr[From[j]])
        BY <1>2, <1>4 DEF Placed, WaitOK
      <4>2. From[j] \in Nodes /\ From[j] \in Keys
        BY <4>1 DEF Origins, Keys
      <4>3. From[j] = k
        BY <1>2, <1>4, <4>1, <4>2 DEF Placed, ArrivalsOK
      <4> QED
        BY <3>1, <4>2, <4>3, Constants
    <3> QED
      BY <1>3, <2>1, <2>3, <3>2
  <2> QED
    BY <2>2, <2>3
<1> HIDE DEF cur, ups, wait
<1>13. Placed(arr, cur, wait, s.made) /\ Away(v, arr, cur, wait)
  <2>1. \A j \in Keys : Proper(arr[j])
    BY <1>2, <1>5, <1>6 DEF Placed, ArrivalsOK
  <2>2. \A j \in Keys : \A w \in Vehicles : Listed(w, arr[j]) <=> Listed(w, s.arr[j]) /\ w # v
    <3> TAKE j \in Keys
    <3>1. CASE j = k
      BY <1>5, <1>6, <3>1
    <3>2. CASE j # k
      <4>1. ~Listed(v, s.arr[j])
        BY <1>2, <1>4, <3>2 DEF Placed, ArrivalsOK
      <4> QED
        BY <1>6, <3>2, <4>1
    <3> QED
      BY <3>1, <3>2
  <2> HIDE DEF arr
  <2> QED
    BY <1>2, <1>4, <1>10, <1>12, <2>1, <2>2, Leaves
<1>14. Consumable(s.event, next, arr, {n})
  <2>1. SameElsewhere(s.arr, arr, k)
    BY <1>6 DEF SameElsewhere
  <2> DEFINE D == {}
             m == MinArrival(B)
  <2>2. Consumable(s.event, s.next, s.arr, D) /\ D \cup {n} = {n}
    BY <1>2
  <2>3. OneChanged(next, s.next, k, m)
    BY <1>7
  <2> HIDE DEF arr, next, D, m
  <2>4. Consumable(s.event, next, arr, D \cup {n})
    BY <1>2, <1>3, <1>4, <2>1, <2>2, <2>3, ConsumableElsewhere
  <2> QED
    BY <2>2, <2>4
<1> HIDE DEF arr, next
<1>15. /\ s2 \in NetType /\ SameEvents(s, s2) /\ s2.arr = arr /\ s2.next = next /\ s2.cur = cur
       /\ s2.ups = ups /\ s2.wait = wait /\ s2.dps = s.dps
  BY <1>1, <1>2, <1>6, <1>7, <1>10, <1>11, <1>12 DEF NetType, SameEvents
<1>16. s2.event = s.event /\ s2.made = s.made
  BY <1>15 DEF SameEvents
<1>17. NetInv(s2, {n})
  BY <1>2, <1>11, <1>13, <1>14, <1>15, <1>16 DEF NetInv
<1> QED
  BY <1>13, <1>15, <1>17 DEF v

\* It enters the link it goes to.
Moved(s, v, l, inst) ==
    IF l \in Nodes THEN s
    ELSE [s EXCEPT !.cur[l] = Append(@, v), !.dps[l] = Append(@, inst),
                   !.led = IF l \in Meso THEN [@ EXCEPT ![l] = s.ups[l] # <<>>] ELSE @]
Supplied(s, l, others, inst) ==
    [s EXCEPT !.supply[l] = SupplyAfter(s, l, others, inst),
              !.near = IF l \in Micro THEN @ \cup {l} ELSE @]
Entering(s, v, l, others, inst) ==
    LET supplied == Supplied(Moved(s, v, l, inst), l, others, inst)
    IN IF l \in Meso THEN Announced(supplied, v, l, inst) ELSE supplied

LEMMA GapTimeIs ==
    ASSUME NEW s \in NetType, NEW l \in Meso, RefRank(s, l) > 1
    PROVE  GapTime(s, l) \in Int
<1>1. /\ s.cur[l] \in Seq(Vehicles) /\ s.dps[l] \in Seq(Int) /\ s.ups[l] \in Seq(Int)
  BY Constants DEF NetType
<1>2. Len(s.cur[l]) \in Nat /\ Len(s.dps[l]) \in Nat /\ Len(s.ups[l]) \in Nat
  BY <1>1, LenProperties
<1>3. RefRank(s, l) \in Int
  BY <1>2, Constants DEF RefRank
<1>4. CASE RefRank(s, l) >= Len(s.ups[l])
  BY <1>4, Constants DEF GapTime
<1>5. CASE ~(RefRank(s, l) >= Len(s.ups[l]))
  <2>1. RefRank(s, l) \in 1 .. Len(s.ups[l])
    BY <1>2, <1>3, <1>5
  <2>2. s.ups[l][RefRank(s, l)] \in Int
    BY <1>1, <2>1, ElementOfSeq
  <2> QED
    BY <1>5, <2>2, Constants DEF GapTime
<1> QED
  BY <1>4, <1>5

OtherSupply(s, s2) ==
    \E x \in [Keys -> Int], y \in SUBSET Micro : s2 = [s EXCEPT !.supply = x, !.near = y]

LEMMA SuppliedIs ==
    ASSUME NEW s \in NetType, NEW l \in Keys, NEW others, NEW inst \in Int
    PROVE  OtherSupply(s, Supplied(s, l, others, inst))
<1>1. s.supply \in [Keys -> Int] /\ s.near \in SUBSET Micro
  BY DEF NetType
<1>2. SupplyAfter(s, l, others, inst) \in Int
  <2>1. CASE l \in Nodes
    BY <2>1, Constants DEF SupplyAfter
  <2>2. CASE l \in Meso
    <3> DEFINE gap == IF RefRank(s, l) > 1 /\ s.ups[l] # <<>> THEN GapTime(s, l) ELSE Past
    <3>1. gap \in Int
      BY <2>2, GapTimeIs, Constants
    <3>2. l \notin Nodes /\ inst + Headway \in Int
      BY <2>2, Constants
    <3> HIDE DEF gap
    <3>3. Later(inst + Headway, gap) \in Int
      BY <3>1, <3>2, LaterIs
    <3> QED
      BY <2>2, <3>2, <3>3 DEF SupplyAfter, gap
  <2>3. CASE l \notin Nodes /\ l \notin Meso
    <3> DEFINE x == IF others = <<>> THEN Past
                    ELSE IF l \in s.near THEN Never ELSE inst + Headway
    <3>1. x \in Int /\ s.supply[l] \in Int
      BY <1>1, Constants
    <3> HIDE DEF x
    <3>2. Later(s.supply[l], x) \in Int
      BY <3>1, LaterIs
    <3> QED
      BY <2>3, <3>2 DEF SupplyAfter, x
  <2> QED
    BY <2>1, <2>2, <2>3
<1> DEFINE x == [s.supply EXCEPT ![l] = SupplyAfter(s, l, others, inst)]
           y == IF l \in Micro THEN s.near \cup {l} ELSE s.near
<1>3. x \in [Keys -> Int] /\ y \in SUBSET Micro
  BY <1>1, <1>2
<1>4. Supplied(s, l, others, inst) = [s EXCEPT !.supply = x, !.near = y]
  BY DEF Supplied
<1> HIDE DEF x, y
<1> QED
  BY <1>3, <1>4 DEF OtherSupply

\* The end of the queues when vehicle v enters link l.
MovedAs(s, s2, v, l) ==
    \E cur \in [Links -> Seq(Vehicles)], dps \in [Links -> Seq(Int)], led \in [Meso -> BOOLEAN] :
        /\ s2 = [s EXCEPT !.cur = cur, !.dps = dps, !.led = led]
        /\ Counted(cur, dps, s.ups) /\ OneMore(s.cur, cur, v, l)

LEMMA MovedIs ==
    ASSUME NEW s, NEW D, NetInv(s, D), NEW v \in Vehicles, Away(v, s.arr, s.cur, s.wait),
           NEW l \in Links, NEW inst \in Int
    PROVE  MovedAs(s, Moved(s, v, l, inst), v, l)
<1> DEFINE q == Append(s.cur[l], v)
           d == Append(s.dps[l], inst)
           cur == [s.cur EXCEPT ![l] = q]
           dps == [s.dps EXCEPT ![l] = d]
           led == IF l \in Meso THEN [s.led EXCEPT ![l] = s.ups[l] # <<>>] ELSE s.led
<1>1. s \in NetType /\ s.cur \in [Links -> Seq(Vehicles)] /\ s.dps \in [Links -> Seq(Int)]
      /\ s.ups \in [Meso -> Seq(Int)] /\ s.led \in [Meso -> BOOLEAN]
  BY DEF NetInv, NetType
<1>2. Moved(s, v, l, inst) = [s EXCEPT !.cur = cur, !.dps = dps, !.led = led]
  BY Constants DEF Moved
<1>22. led \in [Meso -> BOOLEAN]
  BY <1>1
<1> HIDE DEF led
<1>3. \A j \in Links : IsInjective(s.cur[j])
  BY DEF NetInv, Placed, LinksOK
<1>33. ~Occurs(v, s.cur[l])
  BY DEF Away
<1>4. /\ q \in Seq(Vehicles) /\ Len(q) = Len(s.cur[l]) + 1 /\ IsInjective(q)
      /\ \A w : Occurs(w, q) <=> Occurs(w, s.cur[l]) \/ w = v
  BY <1>1, <1>3, <1>33, AppendOccurs
<1>5. d \in Seq(Int) /\ Len(d) = Len(s.dps[l]) + 1
  BY <1>1, AppendProperties
<1> HIDE DEF q, d
<1>6. cur \in [Links -> Seq(Vehicles)] /\ dps \in [Links -> Seq(Int)]
  BY <1>1, <1>4, <1>5
<1>7. cur[l] = q /\ dps[l] = d /\ \A j \in Links : j # l => cur[j] = s.cur[j] /\ dps[j] = s.dps[j]
  BY <1>1
<1> HIDE DEF cur, dps
<1>8. Counted(cur, dps, s.ups)
  <2> SUFFICES ASSUME NEW j \in Meso PROVE Len(cur[j]) = Len(dps[j]) - Len(s.ups[j])
    BY DEF Counted
  <2>1. Len(s.cur[j]) = Len(s.dps[j]) - Len(s.ups[j]) /\ j \in Links
    BY Constants DEF NetInv, Counted
  <2>2. Len(s.cur[j]) \in Nat /\ Len(s.dps[j]) \in Nat /\ Len(s.ups[j]) \in Nat
    BY <1>1, <2>1, LenProperties
  <2>3. CASE j # l
    BY <1>7, <2>1, <2>3
  <2>4. CASE j = l
    <3> DEFINE x == Len(s.cur[j])
               y == Len(s.dps[j])
               z == Len(s.ups[j])
    <3>1. Len(cur[j]) = x + 1 /\ Len(dps[j]) = y + 1
      BY <1>4, <1>5, <1>7, <2>4, Zenon
    <3>2. x = y - z /\ x \in Nat /\ y \in Nat /\ z \in Nat
      BY <2>1, <2>2
    <3> HIDE DEF x, y, z
    <3>3. x + 1 = (y + 1) - z
      BY <3>2
    <3> QED
      BY <3>1, <3>3 DEF z
  <2> QED
    BY <2>3, <2>4
<1>9. \A j \in Links : IsInjective(cur[j])
  BY <1>3, <1>4, <1>7
<1>10. \A j \in Links : \A w \in Vehicles :
          Occurs(w, cur[j]) <=> Occurs(w, s.cur[j]) \/ (w = v /\ j = l)
  <2> TAKE j \in Links
  <2>1. CASE j = l
    BY <1>4, <1>7, <2>1
  <2>2. CASE j # l
    BY <1>7, <2>2
  <2> QED
    BY <2>1, <2>2
<1> QED
  BY <1>2, <1>22, <1>6, <1>8, <1>9, <1>10 DEF MovedAs, OneMore

LEMMA EnteringExit ==
    ASSUME NEW s, NEW D, NetInv(s, D), NEW v, NEW l \in Nodes, NEW others, NEW inst \in Int,
           NEW s2, s2 = Entering(s, v, l, others, inst)
    PROVE  NetInv(s2, D) /\ SameEvents(s, s2)
<1>1. s \in NetType /\ l \in Keys /\ l \notin Meso
  BY Constants DEF NetInv, Keys
<1>2. s2 = Supplied(s, l, others, inst)
  BY <1>1 DEF Entering, Moved
<1>3. PICK x \in [Keys -> Int], y \in SUBSET Micro : s2 = [s EXCEPT !.supply = x, !.near = y]
  <2>1. OtherSupply(s, s2)
    BY <1>1, <1>2, SuppliedIs
  <2> QED
    BY <2>1 DEF OtherSupply
<1>4. /\ s2 \in NetType /\ s2.event = s.event /\ s2.clock = s.clock /\ s2.made = s.made
      /\ s2.arr = s.arr /\ s2.cur = s.cur /\ s2.wait = s.wait /\ s2.dps = s.dps
      /\ s2.ups = s.ups /\ s2.next = s.next
  BY <1>1, <1>3 DEF NetType
<1> QED
  BY <1>4 DEF NetInv, SameEvents

LEMMA EnteringMicro ==
    ASSUME NEW s, NEW D, NetInv(s, D),
           NEW v \in Vehicles, Away(v, s.arr, s.cur, s.wait), v <= s.made,
           NEW l \in Micro, Occurs(l, Route[v]), NEW others, NEW inst \in Int,
           NEW s2, s2 = Entering(s, v, l, others, inst)
    PROVE  NetInv(s2, D) /\ SameEvents(s, s2)
<1>1. s \in NetType /\ l \in Links /\ l \in Keys /\ l \notin Meso
  BY DEF NetInv, Micro, Keys
<1> DEFINE moved == Moved(s, v, l, inst)
<1>2. PICK cur \in [Links -> Seq(Vehicles)], dps \in [Links -> Seq(Int)], led \in [Meso -> BOOLEAN] :
             /\ moved = [s EXCEPT !.cur = cur, !.dps = dps, !.led = led]
             /\ Counted(cur, dps, s.ups) /\ OneMore(s.cur, cur, v, l)
  BY <1>1, MovedIs DEF MovedAs
<1>3. s2 = Supplied(moved, l, others, inst)
  BY <1>1 DEF Entering
<1> HIDE DEF moved
<1>4. /\ moved \in NetType /\ moved.event = s.event /\ moved.clock = s.clock /\ moved.made = s.made
      /\ moved.arr = s.arr /\ moved.cur = cur /\ moved.wait = s.wait /\ moved.dps = dps
      /\ moved.ups = s.ups /\ moved.next = s.next
  BY <1>1, <1>2 DEF NetType
<1>5. PICK x \in [Keys -> Int], y \in SUBSET Micro : s2 = [moved EXCEPT !.supply = x, !.near = y]
  <2>1. OtherSupply(moved, s2)
    BY <1>1, <1>3, <1>4, SuppliedIs
  <2> QED
    BY <2>1 DEF OtherSupply
<1>6. /\ s2 \in NetType /\ s2.event = s.event /\ s2.clock = s.clock /\ s2.made = s.made
      /\ s2.arr = s.arr /\ s2.cur = cur /\ s2.wait = s.wait /\ s2.dps = dps
      /\ s2.ups = s.ups /\ s2.next = s.next
  BY <1>4, <1>5 DEF NetType
<1>7. Placed(s.arr, cur, s.wait, s.made)
  <2>1. s.made \in Int /\ s.made <= s.made
    BY <1>1, VehicleNumbers DEF NetType
  <2>2. Placed(s.arr, s.cur, s.wait, s.made)
    BY DEF NetInv
  <2> QED
    BY <1>2, <2>1, <2>2, EntersMicro
<1> QED
  BY <1>2, <1>6, <1>7 DEF NetInv, SameEvents

LEMMA EnteringMeso ==
    ASSUME NEW s, NEW D, NetInv(s, D),
           NEW v \in Vehicles, Away(v, s.arr, s.cur, s.wait), v <= s.made,
           NEW l \in Meso, Occurs(l, Route[v]), NEW others, NEW inst \in Int,
           NEW s2, s2 = Entering(s, v, l, others, inst)
    PROVE  NetInv(s2, D \cup {To[l]}) /\ SameEvents(s, s2)
<1>1. s \in NetType /\ l \in Links /\ l \in Keys /\ l \notin Micro /\ To[l] \in Nodes
  BY Constants DEF NetInv, Micro, Keys
<1> DEFINE moved == Moved(s, v, l, inst)
           supplied == Supplied(moved, l, others, inst)
           a == [t |-> Later(inst + Cross[l], MaxArrivalTime(s.arr[l])), veh |-> v]
           A == s.arr[l] \cup {a}
           arr == [s.arr EXCEPT ![l] = A]
           next == [s.next EXCEPT ![l] = MinArrival(A)]
<1>2. PICK cur \in [Links -> Seq(Vehicles)], dps \in [Links -> Seq(Int)], led \in [Meso -> BOOLEAN] :
             /\ moved = [s EXCEPT !.cur = cur, !.dps = dps, !.led = led]
             /\ Counted(cur, dps, s.ups) /\ OneMore(s.cur, cur, v, l)
  BY <1>1, MovedIs DEF MovedAs
<1>3. s2 = Announced(supplied, v, l, inst)
  BY DEF Entering
<1> HIDE DEF moved
<1>4. /\ moved \in NetType /\ moved.event = s.event /\ moved.clock = s.clock /\ moved.made = s.made
      /\ moved.arr = s.arr /\ moved.cur = cur /\ moved.wait = s.wait /\ moved.dps = dps
      /\ moved.ups = s.ups /\ moved.next = s.next
  BY <1>1, <1>2 DEF NetType
<1>5. PICK x \in [Keys -> Int], y \in SUBSET Micro :
           supplied = [moved EXCEPT !.supply = x, !.near = y]
  <2>1. OtherSupply(moved, supplied)
    BY <1>1, <1>4, SuppliedIs
  <2> QED
    BY <2>1 DEF OtherSupply
<1> HIDE DEF supplied
<1>6. /\ supplied \in NetType /\ supplied.event = s.event /\ supplied.clock = s.clock
      /\ supplied.made = s.made /\ supplied.arr = s.arr /\ supplied.cur = cur
      /\ supplied.wait = s.wait /\ supplied.dps = dps /\ supplied.ups = s.ups
      /\ supplied.next = s.next
  BY <1>4, <1>5 DEF NetType
<1>7. s2 = [supplied EXCEPT !.arr = arr, !.next = next]
  BY <1>3, <1>6 DEF Announced
<1>8. a \in Arrival /\ a.veh = v
  <2>1. s.arr[l] \in SUBSET Arrival /\ IsFiniteSet(s.arr[l])
    BY <1>1 DEF NetInv, NetType, Placed, ArrivalsOK, Proper
  <2>2. MaxArrivalTime(s.arr[l]) \in Int /\ inst + Cross[l] \in Int
    BY <2>1, MaxTimeIs, Constants
  <2> QED
    BY <2>2, LaterIs DEF Arrival
<1> HIDE DEF a
<1>9. A \in SUBSET Arrival /\ Proper(A) /\ \A w : Listed(w, A) <=> Listed(w, s.arr[l]) \/ w = v
  <2>1. s.arr[l] \in SUBSET Arrival /\ Proper(s.arr[l]) /\ ~Listed(v, s.arr[l])
    BY <1>1 DEF NetInv, NetType, Placed, ArrivalsOK, Away
  <2> QED
    BY <1>8, <2>1, ProperAdded
<1>10. MinArrival(A) \in MaybeArrival
  <2>1. A # {}
    OBVIOUS
  <2> HIDE DEF A
  <2>2. MinArrival(A) \in A
    BY <1>9, <2>1, MinArrivalIs DEF Proper
  <2> QED
    BY <1>9, <2>2, NoArrivalIs
<1> HIDE DEF A
<1>11. /\ s.arr \in [Keys -> SUBSET Arrival] /\ s.next \in NextMaps
       /\ s.event \in [Nodes -> [t : Int, key : Keys]]
  BY <1>1 DEF NetType
<1>12. arr \in [Keys -> SUBSET Arrival] /\ \A j \in Keys : arr[j] = IF j = l THEN A ELSE s.arr[j]
  BY <1>1, <1>9, <1>11
<1>13. next \in NextMaps /\ OneChanged(next, s.next, l, MinArrival(A))
  <2>1. l \in DOMAIN s.next
    BY <1>11, NextMapIs
  <2> QED
    BY <1>10, <1>11, <2>1, NextExcept
<1> HIDE DEF arr, next
<1>14. Placed(arr, cur, s.wait, s.made)
  <2>1. Placed(s.arr, s.cur, s.wait, s.made)
    BY DEF NetInv
  <2>2. \A j \in Keys : Proper(arr[j])
    BY <1>9, <1>12, <2>1 DEF Placed, ArrivalsOK
  <2>3. \A k \in Keys : \A w \in Vehicles :
           Listed(w, arr[k]) <=> Listed(w, s.arr[k]) \/ (w = v /\ k = l)
    <3> TAKE k \in Keys
    <3>1. CASE k = l
      BY <1>9, <1>12, <3>1
    <3>2. CASE k # l
      BY <1>12, <3>2
    <3> QED
      BY <3>1, <3>2
  <2>4. OneMoreListed(s.arr, arr, v, l)
    BY <2>2, <2>3 DEF OneMoreListed
  <2> QED
    BY <1>2, <2>1, <2>4, EntersMeso
<1>15. Consumable(s.event, next, arr, D \cup {To[l]})
  <2>1. SameElsewhere(s.arr, arr, l)
    BY <1>12 DEF SameElsewhere
  <2>2. l \in InTo(To[l])
    BY <1>1 DEF InTo
  <2>3. EventsOK(s.event) /\ Consumable(s.event, s.next, s.arr, D)
    BY DEF NetInv
  <2> DEFINE m == MinArrival(A)
             n == To[l]
  <2>4. OneChanged(next, s.next, l, m) /\ n \in Nodes /\ l \in InTo(n) \cup {n}
    BY <1>1, <1>13, <2>2
  <2> HIDE DEF m, n
  <2>5. Consumable(s.event, next, arr, D \cup {n})
    BY <1>11, <2>1, <2>3, <2>4, ConsumableElsewhere
  <2> QED
    BY <2>5 DEF n
<1>16. /\ s2 \in NetType /\ s2.event = s.event /\ s2.clock = s.clock /\ s2.made = s.made
       /\ s2.arr = arr /\ s2.cur = cur /\ s2.wait = s.wait /\ s2.dps = dps
       /\ s2.ups = s.ups /\ s2.next = next
  BY <1>6, <1>7, <1>12, <1>13 DEF NetType
<1> QED
  BY <1>2, <1>14, <1>15, <1>16 DEF NetInv, SameEvents

\* A vehicle that there is no room for stays where it was.
LEMMA RefusedIs ==
    ASSUME NEW s, NetInv(s, {}), NEW n \in Nodes, NEW k, NEW a, NEW l, Passer(s, n, k, a, l),
           n \in Origins, NEW others, NEW inst \in Int, NEW s2,
           s2 = Supplied([Withdrawn(s, n, k, inst) EXCEPT !.arr[k] = @ \cup {a}], l, others, inst)
    PROVE  NetInv(s2, {n}) /\ SameEvents(s, s2)
<1> DEFINE B == Raised(s.arr[k] \ {a}, inst)
           A == B \cup {a}
           arr == [s.arr EXCEPT ![k] = A]
           next == [s.next EXCEPT ![k] = MinArrival(B)]
           kept == [Withdrawn(s, n, k, inst) EXCEPT !.arr[k] = @ \cup {a}]
<1>1. /\ k = n /\ k \notin Meso /\ k \in Keys /\ k \in InTo(n) \cup {n} /\ k \in DOMAIN s.next
      /\ a = s.next[k] /\ a \in s.arr[k] /\ a \in Arrival /\ l \in Keys
  BY Constants DEF Passer
<1>2. /\ s \in NetType /\ s.arr \in [Keys -> SUBSET Arrival] /\ s.next \in NextMaps
      /\ s.event \in [Nodes -> [t : Int, key : Keys]]
  BY DEF NetInv, NetType
<1>3. kept = [s EXCEPT !.arr = arr, !.next = next]
  <2>1. Withdrawn(s, n, k, inst) = [s EXCEPT !.arr = [s.arr EXCEPT ![k] = B], !.next = next]
    BY <1>1, <1>2 DEF Withdrawn, NetType
  <2>2. [s.arr EXCEPT ![k] = B][k] = B
    BY <1>1, <1>2
  <2>3. [[s.arr EXCEPT ![k] = B] EXCEPT ![k] = A] = arr
    BY <1>1, <1>2
  <2> HIDE DEF B, A, next
  <2> QED
    BY <1>2, <2>1, <2>2, <2>3 DEF NetType, A
<1>4. /\ B \in SUBSET Arrival /\ Proper(B) /\ MinArrival(B) \in MaybeArrival
      /\ \A w : Listed(w, B) <=> Listed(w, s.arr[k]) /\ w # a.veh
  <2>1. k \in Keys /\ a \in s.arr[k] /\ NetInv(s, {})
    BY <1>1
  <2> HIDE DEF A, arr, next, kept
  <2> QED
    BY <2>1, BehindIs
<1> HIDE DEF B, kept
<1>5. A \in SUBSET Arrival /\ Proper(A) /\ \A w : Listed(w, A) <=> Listed(w, s.arr[k])
  <2>1. ~Listed(a.veh, B) /\ Listed(a.veh, s.arr[k])
    BY <1>1, <1>4 DEF Listed
  <2> QED
    BY <1>1, <1>4, <2>1, ProperAdded
<1> HIDE DEF A
<1>6. arr \in [Keys -> SUBSET Arrival] /\ \A j \in Keys : arr[j] = IF j = k THEN A ELSE s.arr[j]
  BY <1>1, <1>2, <1>5
<1>7. next \in NextMaps /\ OneChanged(next, s.next, k, MinArrival(B))
  BY <1>1, <1>2, <1>4, NextExcept
<1> HIDE DEF arr, next
<1>8. /\ kept \in NetType /\ kept.event = s.event /\ kept.clock = s.clock /\ kept.made = s.made
      /\ kept.arr = arr /\ kept.cur = s.cur /\ kept.wait = s.wait /\ kept.dps = s.dps
      /\ kept.ups = s.ups /\ kept.next = next
  BY <1>2, <1>3, <1>6, <1>7 DEF NetType
<1>9. PICK x \in [Keys -> Int], y \in SUBSET Micro : s2 = [kept EXCEPT !.supply = x, !.near = y]
  <2>1. OtherSupply(kept, s2)
    BY <1>1, <1>8, SuppliedIs DEF kept
  <2> QED
    BY <2>1 DEF OtherSupply
<1>10. /\ s2 \in NetType /\ s2.event = s.event /\ s2.clock = s.clock /\ s2.made = s.made
       /\ s2.arr = arr /\ s2.cur = s.cur /\ s2.wait = s.wait /\ s2.dps = s.dps
       /\ s2.ups = s.ups /\ s2.next = next
  BY <1>8, <1>9 DEF NetType
<1>11. Placed(arr, s.cur, s.wait, s.made)
  <2>1. Placed(s.arr, s.cur, s.wait, s.made)
    BY DEF NetInv
  <2>2. \A j \in Keys : Proper(arr[j])
    BY <1>5, <1>6, <2>1 DEF Placed, ArrivalsOK
  <2>3. \A j \in Keys : \A v \in Vehicles : Listed(v, arr[j]) <=> Listed(v, s.arr[j])
    <3> TAKE j \in Keys
    <3>1. CASE j = k
      BY <1>5, <1>6, <3>1
    <3>2. CASE j # k
      BY <1>6, <3>2
    <3> QED
      BY <3>1, <3>2
  <2> QED
    BY <2>1, <2>2, <2>3, Retimed
<1>12. Consumable(s.event, next, arr, {n})
  <2> DEFINE D == {}
             m == MinArrival(B)
  <2>1. SameElsewhere(s.arr, arr, k)
    BY <1>6 DEF SameElsewhere
  <2>2. Consumable(s.event, s.next, s.arr, D) /\ EventsOK(s.event) /\ D \cup {n} = {n}
    BY DEF NetInv
  <2>3. OneChanged(next, s.next, k, m)
    BY <1>7
  <2> HIDE DEF D, m
  <2>4. Consumable(s.event, next, arr, D \cup {n})
    BY <1>1, <1>2, <2>1, <2>2, <2>3, ConsumableElsewhere
  <2> QED
    BY <2>2, <2>4
<1> QED
  BY <1>10, <1>11, <1>12 DEF NetInv, SameEvents

LEMMA EnteredIs ==
    ASSUME NEW s, NEW n, NEW v, NEW l, NEW inst
    PROVE  Entered(s, n, v, l, inst) = Moved(Out(s, n, l), v, l, inst)
<1>1. CASE l \in Nodes
  BY <1>1 DEF Entered, Moved, Out
<1>2. CASE l \notin Nodes
  BY <1>2 DEF Entered, Moved, Out
<1> QED
  BY <1>1, <1>2

\* What is left to update after a passage.
LEMMA PassedIs ==
    ASSUME NEW s, NetInv(s, {}), NEW n \in Nodes, s.event[n].t # Never, NEW inst \in Int,
           NEW s2, s2 = Passed(s, n, inst)
    PROVE  /\ PassedNodes(s, n) \in Seq(Nodes) /\ SameEvents(s, s2)
           /\ \E D : NetInv(s2, D) /\ \A m \in D : Occurs(m, PassedNodes(s, n))
<1> DEFINE k == s.event[n].key
           a == s.next[k]
           v == a.veh
           l == NextLink(v, k)
           ok == Inserted(s, n, v)
           others == IF l \in Micro THEN s.cur[l] ELSE <<>>
           out == Out(Withdrawn(s, n, k, inst), n, l)
<1>1. Passer(s, n, k, a, l)
  BY PasserIs
<1>2. v \in Vehicles /\ v <= s.made /\ l \in Keys /\ (l \in Links => Occurs(l, Route[v]))
  BY <1>1 DEF Passer, Arrival
<1>3. CASE ~ok
  <2>1. n \in Origins
    BY <1>3 DEF Inserted
  <2>2. s2 = Supplied([Withdrawn(s, n, k, inst) EXCEPT !.arr[k] = @ \cup {a}], l, others, inst)
    BY <1>3 DEF Passed, Supplied
  <2>3. PassedNodes(s, n) = <<n>>
    <3>1. PassedNodes(s, n) = <<n>> \o <<>>
      BY <1>3 DEF PassedNodes
    <3>2. <<n>> \in Seq(Nodes)
      OBVIOUS
    <3> QED
      BY <3>1, <3>2, ConcatEmptySeq
  <2>4. Occurs(n, <<n>>) /\ <<n>> \in Seq(Nodes)
    BY DEF Occurs
  <2> HIDE DEF k, l, others
  <2>5. NetInv(s2, {n}) /\ SameEvents(s, s2)
    BY <1>1, <2>1, <2>2, RefusedIs
  <2> QED
    BY <2>3, <2>4, <2>5
<1>4. CASE ok
  <2>1. s2 = Entering(out, v, l, others, inst)
    <3> DEFINE without == Withdrawn(s, n, k, inst)
    <3>1. Entered(without, n, v, l, inst) = Moved(out, v, l, inst)
      BY EnteredIs
    <3>2. s2 = LET moved == Entered(without, n, v, l, inst)
                   supplied == Supplied(moved, l, others, inst)
               IN IF l \in Meso THEN Announced(supplied, v, l, inst) ELSE supplied
      BY <1>4 DEF Passed, Supplied
    <3> HIDE DEF without, k, l, v, others, out
    <3> QED
      BY <3>1, <3>2 DEF Entering
  <2>2. PassedNodes(s, n) = <<n>> \o (IF l \in Meso THEN <<To[l]>> ELSE <<>>)
    BY <1>4 DEF PassedNodes
  <2> HIDE DEF k, l, others, out
  <2>3. NetInv(out, {n}) /\ Away(v, out.arr, out.cur, out.wait) /\ SameEvents(s, out)
    BY <1>1, <1>4, WithdrawnIs DEF out
  <2>4. v <= out.made
    BY <1>2, <2>3 DEF SameEvents
  <2>5. ASSUME SameEvents(out, s2) PROVE SameEvents(s, s2)
    BY <2>3, <2>5 DEF SameEvents
  <2>6. <<n>> \in Seq(Nodes) /\ Occurs(n, <<n>>)
    BY DEF Occurs
  <2>7. CASE l \in Nodes
    <3>1. NetInv(s2, {n}) /\ SameEvents(out, s2)
      BY <2>1, <2>3, <2>7, EnteringExit
    <3>2. PassedNodes(s, n) = <<n>>
      BY <2>2, <2>6, <2>7, Constants, ConcatEmptySeq
    <3> QED
      BY <2>5, <2>6, <3>1, <3>2
  <2>8. CASE l \in Micro
    <3>1. l \in Links /\ l \notin Meso
      BY <2>8 DEF Micro
    <3>2. NetInv(s2, {n}) /\ SameEvents(out, s2)
      BY <1>2, <2>1, <2>3, <2>4, <2>8, <3>1, EnteringMicro
    <3>3. PassedNodes(s, n) = <<n>>
      BY <2>2, <2>6, <3>1, ConcatEmptySeq
    <3> QED
      BY <2>5, <2>6, <3>2, <3>3
  <2>9. CASE l \in Meso
    <3>1. l \in Links /\ To[l] \in Nodes
      BY <2>9, Constants
    <3>2. NetInv(s2, {n} \cup {To[l]}) /\ SameEvents(out, s2)
      BY <1>2, <2>1, <2>3, <2>4, <2>9, <3>1, EnteringMeso
    <3> DEFINE q == <<n>> \o <<To[l]>>
    <3>3. PassedNodes(s, n) = q
      BY <2>2, <2>9
    <3>4. q \in Seq(Nodes) /\ Occurs(n, q) /\ Occurs(To[l], q)
      <4>1. <<To[l]>> \in Seq(Nodes) /\ Occurs(To[l], <<To[l]>>)
        BY <3>1 DEF Occurs
      <4> QED
        BY <2>6, <4>1, ConcatOccurs
    <3> QED
      BY <2>5, <3>2, <3>3, <3>4
  <2> QED
    BY <1>2, <2>7, <2>8, <2>9 DEF Keys, Micro
<1> QED
  BY <1>3, <1>4

--------------------------------------------------------------------------------
(* A call of SimuTraficMeso *)

\* The events after a call at inst: those that have changed are not before it, and none
\* has when no node was updated.
EventsAfter(s, s2, inst) ==
    /\ s2.clock = s.clock /\ s2.made = s.made
    /\ \A m \in Nodes : s2.event[m] = s.event[m] \/ s2.event[m].t >= inst

LEMMA CallIs ==
    ASSUME NEW s, NetInv(s, {}), NEW f \in Nodes, NEW inst \in Int, inst <= Never,
           inst # Never => s.event[f].t = inst,
           NEW s2 \in SimuTraficMeso(s, f, inst).outcomes
    PROVE  /\ NetInv(s2, {}) /\ EventsAfter(s, s2, inst)
           /\ SimuTraficMeso(s, f, inst).todo = <<>> => s2.event = s.event
<1> DEFINE refreshed == Refreshed(s, inst)
           passes == inst # Never /\ NextArrival(refreshed, refreshed.event[f].key).veh # NoVeh
           moved == IF passes THEN Passed(refreshed, f, inst) ELSE refreshed
           last == IF passes THEN PassedNodes(refreshed, f) ELSE <<>>
           todo == RefreshedNodes(s) \o last
<1>1. SimuTraficMeso(s, f, inst) = [todo |-> todo, outcomes |-> Updated(moved, todo, inst)]
  BY DEF SimuTraficMeso
<1> HIDE DEF passes
<1>2. NetInv(refreshed, {}) /\ SameButSupply(s, refreshed)
  BY RefreshedIs
<1> HIDE DEF refreshed
<1>3. /\ last \in Seq(Nodes) /\ SameEvents(s, moved)
      /\ \E D : NetInv(moved, D) /\ \A m \in D : Occurs(m, last)
  <2>1. CASE passes
    <3>1. refreshed.event[f].t # Never
      BY <1>2, <2>1 DEF passes, SameButSupply
    <3> DEFINE p == Passed(refreshed, f, inst)
               q == PassedNodes(refreshed, f)
    <3>2. /\ q \in Seq(Nodes) /\ SameEvents(refreshed, p)
          /\ \E D : NetInv(p, D) /\ \A m \in D : Occurs(m, q)
      BY <1>2, <3>1, PassedIs
    <3>3. moved = p /\ last = q
      BY <2>1
    <3> HIDE DEF p, q, moved, last
    <3>4. SameEvents(s, p)
      BY <1>2, <3>2 DEF SameEvents, SameButSupply
    <3> QED
      BY <3>2, <3>3, <3>4
  <2>2. CASE ~passes
    <3>1. moved = refreshed /\ last = <<>> /\ <<>> \in Seq(Nodes)
      BY <2>2
    <3>2. SameEvents(s, moved)
      BY <1>2, <3>1 DEF SameButSupply, SameEvents
    <3>3. \A m \in {} : Occurs(m, last)
      OBVIOUS
    <3> HIDE DEF moved, last
    <3> QED
      BY <1>2, <3>1, <3>2, <3>3
  <2> QED
    BY <2>1, <2>2
<1> HIDE DEF moved, last
<1>4. PICK D : NetInv(moved, D) /\ \A m \in D : Occurs(m, last)
  BY <1>3
<1>5. RefreshedNodes(s) \in Seq(Nodes)
  BY RefreshedNodesIs
<1>6. todo \in Seq(Nodes) /\ \A m \in D : Occurs(m, todo)
  BY <1>3, <1>4, <1>5, ConcatOccurs
<1>7. s2 \in Updated(moved, todo, inst)
  BY <1>1
<1> HIDE DEF todo
<1>8. NetInv(s2, {}) /\ SameButTimes(moved, s2, inst)
  BY <1>4, <1>6, <1>7, AllUpdated
<1>9. EventsAfter(s, s2, inst)
  BY <1>3, <1>8 DEF SameEvents, SameButTimes, EventsAfter
<1>10. ASSUME todo = <<>> PROVE s2.event = s.event
  <2>1. PICK g : Chain(g, moved, todo, inst) /\ Updated(moved, todo, inst) = g[Len(todo)]
    BY <1>6, UpdateChain
  <2>2. Len(todo) = 0
    BY <1>10
  <2>3. s2 = moved
    BY <1>7, <2>1, <2>2 DEF Chain
  <2> QED
    BY <1>3, <2>3 DEF SameEvents
<1> QED
  BY <1>1, <1>8, <1>9, <1>10

--------------------------------------------------------------------------------
(* The start of a step *)

FrontOK(s, f) == f \in Earliest(s) /\ OnTime(s)

LEMMA StartedIs ==
    ASSUME IInv, NEW start \in Started
    PROVE  /\ NetInv(start.net, {}) /\ start.front \in Nodes
           /\ start.net.clock = net.clock /\ start.net.made = net.made
           /\ rollbacks = 0 => FrontOK(start.net, start.front)
<1> DEFINE call == SimuTraficMeso(net, front, Never)
<1>1. NetInv(net, {}) /\ front \in Nodes /\ (rollbacks = 0 => FrontOK(net, front))
  BY DEF IInv, FrontInv, FrontOK
<1>2. CASE net.event[front].t # Never
  <2>1. start = [net |-> net, front |-> front]
    BY <1>2 DEF Started
  <2> QED
    BY <1>1, <2>1
<1>3. CASE net.event[front].t = Never
  <2> DEFINE F(s) == {[net |-> s, front |-> f] : f \in Fronts(s, call.todo # <<>>)}
  <2>1. start \in UNION {F(s) : s \in call.outcomes}
    BY <1>3 DEF Started
  <2>2. PICK s \in call.outcomes : start \in F(s)
    BY <2>1
  <2>3. start.net = s /\ start.front \in Fronts(s, call.todo # <<>>)
    BY <2>2
  <2>4. /\ NetInv(s, {}) /\ EventsAfter(net, s, Never)
        /\ call.todo = <<>> => s.event = net.event
    BY <1>1, Constants, CallIs
  <2> HIDE DEF call, F
  <2>5. start.front \in Nodes
    BY <1>1, <2>3 DEF Fronts, Earliest
  <2>6. ASSUME rollbacks = 0 PROVE FrontOK(s, start.front)
    <3>1. \A m \in Nodes : net.event[m].t \in Int /\ s.event[m].t \in Int /\ s.event[m].t <= Never
      BY <1>1, <2>4 DEF NetInv, NetType, EventsOK
    <3>2. \A m \in Nodes : net.event[m].t >= Never
      BY <1>1, <1>3, <2>6 DEF FrontOK, Earliest
    <3>3. \A m \in Nodes : s.event[m].t = Never
      <4> TAKE m \in Nodes
      <4>1. s.event[m] = net.event[m] \/ s.event[m].t >= Never
        BY <2>4 DEF EventsAfter
      <4>2. s.event[m].t >= Never
        BY <3>2, <4>1
      <4> QED
        BY <3>1, <4>2, Constants
    <3>4. start.front \in Earliest(s)
      BY <2>5, <3>3, Constants DEF Earliest
    <3>5. s.clock - TimeStep <= Never
      <4>1. s.clock \in 0 .. LastInstant
        BY <2>4 DEF NetInv, NetType
      <4> QED
        BY <4>1, Constants
    <3>6. OnTime(s)
      BY <3>3, <3>5 DEF OnTime
    <3> QED
      BY <3>4, <3>6 DEF FrontOK
  <2> QED
    BY <2>3, <2>4, <2>5, <2>6 DEF EventsAfter
<1> QED
  BY <1>2, <1>3

\* A step of the mesoscopic side.
LEMMA MesoStepInv ==
    ASSUME IInv, MesoStep
    PROVE  IInv'
<1>1. PICK start \in Started :
        LET inst == start.net.event[start.front].t
            call == SimuTraficMeso(start.net, start.front, inst)
        IN /\ inst < start.net.clock + TimeStep
           /\ net' \in call.outcomes
           /\ front' \in (IF call.todo # <<>> THEN Earliest(net') ELSE {start.front})
           /\ completed' = FALSE
           /\ UNCHANGED <<snap, rollbacks>>
  BY DEF MesoStep
<1> DEFINE s == start.net
           f == start.front
           inst == s.event[f].t
           call == SimuTraficMeso(s, f, inst)
<1>2. /\ NetInv(s, {}) /\ f \in Nodes /\ s.clock = net.clock /\ s.made = net.made
      /\ rollbacks = 0 => FrontOK(s, f)
  BY StartedIs
<1> HIDE DEF s, f
<1>3. inst \in Int /\ inst <= Never
  BY <1>2 DEF NetInv, NetType, EventsOK
<1>4. /\ net' \in call.outcomes /\ completed' = FALSE /\ snap' = snap /\ rollbacks' = rollbacks
      /\ front' \in (IF call.todo # <<>> THEN Earliest(net') ELSE {f})
  BY <1>1 DEF s, f
<1>5. /\ NetInv(net', {}) /\ EventsAfter(s, net', inst)
      /\ call.todo = <<>> => net'.event = s.event
  <2> DEFINE i == inst
  <2>1. i \in Int /\ i <= Never /\ (i # Never => s.event[f].t = i)
    BY <1>3
  <2>2. net' \in SimuTraficMeso(s, f, i).outcomes
    BY <1>4
  <2> HIDE DEF i
  <2>3. /\ NetInv(net', {}) /\ EventsAfter(s, net', i)
        /\ SimuTraficMeso(s, f, i).todo = <<>> => net'.event = s.event
    BY <1>2, <2>1, <2>2, CallIs
  <2> QED
    BY <2>3 DEF i
<1> HIDE DEF call
<1>6. front' \in Nodes
  BY <1>2, <1>4 DEF Earliest
<1>7. ASSUME rollbacks = 0 PROVE front' \in Earliest(net') /\ OnTime(net')
  <2>1. f \in Earliest(s) /\ OnTime(s)
    BY <1>2, <1>7 DEF FrontOK
  <2>2. front' \in Earliest(net')
    BY <1>4, <1>5, <2>1 DEF Earliest
  <2>3. OnTime(net')
    <3> SUFFICES ASSUME NEW m \in Nodes PROVE net'.event[m].t >= net'.clock - TimeStep
      BY DEF OnTime
    <3>1. net'.clock = s.clock /\ (net'.event[m] = s.event[m] \/ net'.event[m].t >= inst)
      BY <1>5 DEF EventsAfter
    <3>2. s.event[m].t >= s.clock - TimeStep /\ inst >= s.clock - TimeStep
      BY <1>2, <2>1 DEF OnTime
    <3>3. s.clock - TimeStep \in Int /\ net'.event[m].t \in Int
      <4>1. net'.event \in [Nodes -> [t : Int, key : Keys]]
        BY <1>5 DEF NetInv, NetType
      <4>2. s.clock \in 0 .. LastInstant
        BY <1>2 DEF NetInv, NetType
      <4>3. net'.event[m] \in [t : Int, key : Keys]
        BY <4>1
      <4> QED
        BY <4>2, <4>3, Constants
    <3> HIDE DEF inst
    <3>4. CASE net'.event[m].t >= inst
      BY <1>3, <3>1, <3>2, <3>3, <3>4
    <3>5. CASE net'.event[m] = s.event[m]
      BY <3>1, <3>2, <3>5
    <3> QED
      BY <3>1, <3>4, <3>5
  <2> QED
    BY <2>2, <2>3
<1> QED
  BY <1>4, <1>5, <1>6, <1>7 DEF IInv, FrontInv

--------------------------------------------------------------------------------
(* The microscopic side *)

\* Every vehicle in the network has been created.
LEMMA NotYet ==
    ASSUME NEW s, NEW D, NetInv(s, D), NEW v \in Vehicles, v = s.made + 1
    PROVE  Away(v, s.arr, s.cur, s.wait) /\ s.made \in Int /\ s.made <= v /\ v <= v
<1>1. s.made \in Int /\ v \in Int
  BY VehicleNumbers DEF NetInv, NetType
<1>2. ~(v <= s.made)
  BY <1>1
<1>3. \A l \in Meso : ~Occurs(v, s.wait[l])
  <2> SUFFICES ASSUME NEW l \in Meso, Occurs(v, s.wait[l]) PROVE FALSE
    OBVIOUS
  <2>1. Listed(v, s.arr[From[l]]) /\ From[l] \in Keys
    BY Constants DEF NetInv, Placed, WaitOK, Keys
  <2> QED
    BY <1>2, <2>1 DEF NetInv, Placed, RoutesOK
<1>4. Away(v, s.arr, s.cur, s.wait)
  BY <1>2, <1>3 DEF Away, NetInv, Placed, RoutesOK
<1> QED
  BY <1>1, <1>4

LEMMA GeneratedMicro ==
    ASSUME NEW s, NetInv(s, {}), NEW v \in Vehicles, v = s.made + 1, Route[v][1] \in Micro,
           NEW s2, s2 = Generated(s)
    PROVE  NetInv(s2, {}) /\ s2.clock = s.clock /\ s2.event = s.event
<1> DEFINE l == Route[v][1]
           q == Append(s.cur[l], v)
           cur == [s.cur EXCEPT ![l] = q]
           near == s.near \cup {l}
<1>1. l \in Micro /\ l \in Links /\ l \notin Meso /\ Occurs(l, Route[v])
  BY RouteOf DEF Micro, Occurs
<1>2. s2 = [s EXCEPT !.made = v, !.cur = cur, !.near = near]
  BY DEF Generated
<1> HIDE DEF l
<1>3. s \in NetType /\ s.cur \in [Links -> Seq(Vehicles)]
  BY DEF NetInv, NetType
<1>4. Away(v, s.arr, s.cur, s.wait) /\ s.made \in Int /\ s.made <= v /\ v <= v /\ v \in Int
  BY NotYet, VehicleNumbers
<1>5. \A j \in Links : IsInjective(s.cur[j])
  BY DEF NetInv, Placed, LinksOK
<1>6. /\ q \in Seq(Vehicles) /\ IsInjective(q)
      /\ \A w : Occurs(w, q) <=> Occurs(w, s.cur[l]) \/ w = v
  <2>1. ~Occurs(v, s.cur[l])
    BY <1>1, <1>4 DEF Away
  <2> QED
    BY <1>1, <1>3, <1>5, <2>1, AppendOccurs
<1> HIDE DEF q
<1>7. cur \in [Links -> Seq(Vehicles)] /\ cur[l] = q /\ \A j \in Links : j # l => cur[j] = s.cur[j]
  BY <1>1, <1>3, <1>6
<1> HIDE DEF cur
<1>8. OneMore(s.cur, cur, v, l)
  <2>1. ASSUME NEW j \in Links
        PROVE  IsInjective(cur[j])
               /\ \A w \in Vehicles : Occurs(w, cur[j]) <=> Occurs(w, s.cur[j]) \/ (w = v /\ j = l)
    <3>1. CASE j = l
      BY <1>6, <1>7, <3>1
    <3>2. CASE j # l
      BY <1>5, <1>7, <3>2
    <3> QED
      BY <3>1, <3>2
  <2> QED
    BY <2>1 DEF OneMore
<1>9. Placed(s.arr, cur, s.wait, v)
  <2>1. Placed(s.arr, s.cur, s.wait, s.made)
    BY DEF NetInv
  <2> QED
    BY <1>1, <1>4, <1>8, <2>1, EntersMicro
<1>10. Counted(cur, s.dps, s.ups)
  <2>1. \A j \in Meso : cur[j] = s.cur[j]
    BY <1>1, <1>7, Constants
  <2> QED
    BY <2>1 DEF Counted, NetInv
<1>11. /\ s2 \in NetType /\ s2.event = s.event /\ s2.clock = s.clock /\ s2.made = v
       /\ s2.arr = s.arr /\ s2.cur = cur /\ s2.wait = s.wait /\ s2.dps = s.dps
       /\ s2.ups = s.ups /\ s2.next = s.next
  <2>1. near \in SUBSET Micro
    BY <1>1, <1>3 DEF NetType
  <2> HIDE DEF near
  <2> QED
    BY <1>2, <1>3, <1>7, <2>1 DEF NetType
<1> QED
  BY <1>9, <1>10, <1>11 DEF NetInv

\* The events after a step of the microscopic side at clock.
EventsOnTime(s, s2) ==
    \A m \in Nodes : s2.event[m] = s.event[m] \/ s2.event[m].t >= s.clock - TimeStep

LEMMA GeneratedMeso ==
    ASSUME NEW s, NetInv(s, {}), NEW v \in Vehicles, v = s.made + 1, Route[v][1] \in Meso,
           NEW s2, s2 = Generated(s)
    PROVE  NetInv(s2, {}) /\ s2.clock = s.clock /\ EventsOnTime(s, s2)
<1> DEFINE l == Route[v][1]
           n == From[l]
           first == s.event[n].t > s.clock /\ s.wait[l] = <<>> /\ s.supply[l] # Never
           a == [t |-> Later(s.clock, MaxArrivalTime(s.arr[n])), veh |-> v]
           b == [t |-> s.clock, veh |-> v]
           q == Append(s.wait[l], v)
           A == s.arr[n] \cup {a}
           wait == [s.wait EXCEPT ![l] = q]
           arr == [s.arr EXCEPT ![n] = A]
           event == [s.event EXCEPT ![n] = IF first THEN [t |-> s.clock, key |-> n] ELSE s.event[n]]
           next == IF first THEN WithKey(s.next, n, b) ELSE s.next
<1>1. l \in Meso /\ l \in Links /\ l \notin Micro /\ n \in Nodes /\ n \in Keys /\ n \in Origins
      /\ OutOf(n) = {l} /\ n \notin Meso
  <2>1. l \in Meso /\ n \in Origins
    BY RouteOf
  <2> QED
    BY <2>1, OriginOf, Constants DEF Micro, Keys
<1>2. s2 = [s EXCEPT !.made = v, !.wait = wait, !.arr = arr, !.event = event, !.next = next]
  <2>1. Route[s.made + 1][1] \notin Micro
    BY <1>1
  <2> QED
    BY <2>1 DEF Generated
<1> HIDE DEF first
<1>3. /\ s \in NetType /\ s.wait \in [Meso -> Seq(Vehicles)] /\ s.arr \in [Keys -> SUBSET Arrival]
      /\ s.event \in [Nodes -> [t : Int, key : Keys]] /\ s.next \in NextMaps
      /\ s.clock \in 0 .. LastInstant /\ s.clock \in Int /\ s.clock >= 0 /\ s.clock <= Never
  BY Constants DEF NetInv, NetType
<1>4. Away(v, s.arr, s.cur, s.wait) /\ s.made \in Int /\ s.made <= v /\ v <= v /\ v \in Int
  BY NotYet, VehicleNumbers
<1>5. \A j \in Meso : IsInjective(s.wait[j])
  BY DEF NetInv, Placed, WaitOK
<1>6. /\ q \in Seq(Vehicles) /\ IsInjective(q)
      /\ \A w : Occurs(w, q) <=> Occurs(w, s.wait[l]) \/ w = v
  <2>1. ~Occurs(v, s.wait[l])
    BY <1>1, <1>4 DEF Away
  <2> HIDE DEF l
  <2> QED
    BY <1>1, <1>3, <1>5, <2>1, AppendOccurs
<1>7. a \in Arrival /\ a.veh = v /\ (first => a = b)
  <2>1. s.arr[n] \in SUBSET Arrival /\ IsFiniteSet(s.arr[n])
    BY <1>1, <1>3 DEF NetInv, Placed, ArrivalsOK, Proper
  <2>2. MaxArrivalTime(s.arr[n]) \in Int
    BY <2>1, MaxTimeIs
  <2>3. a \in Arrival
    BY <1>3, <2>2, LaterIs DEF Arrival
  <2>4. ASSUME first PROVE s.arr[n] = {}
    <3> SUFFICES ASSUME NEW c \in s.arr[n] PROVE FALSE
      OBVIOUS
    <3>1. c.veh \in Vehicles /\ Listed(c.veh, s.arr[n])
      BY <2>1 DEF Arrival, Listed
    <3> DEFINE j == Route[c.veh][1]
    <3>2. j \in Meso /\ From[j] = n /\ Occurs(c.veh, s.wait[j])
      BY <1>1, <3>1 DEF NetInv, Placed, WaitOK
    <3>3. j = l
      BY <1>1, <3>2, OriginOf, Constants
    <3>4. Occurs(c.veh, <<>>)
      BY <2>4, <3>2, <3>3 DEF first
    <3> QED
      BY <3>4 DEF Occurs
  <2>5. ASSUME first PROVE a = b
    <3>1. MaxArrivalTime(s.arr[n]) = -1
      BY <2>4, <2>5 DEF MaxArrivalTime
    <3>2. Later(s.clock, -1) = s.clock
      BY <1>3 DEF Later
    <3> QED
      BY <3>1, <3>2
  <2> QED
    BY <2>3, <2>5
<1>8. b \in MaybeArrival
  BY <1>3 DEF MaybeArrival
<1> HIDE DEF a
<1>9. A \in SUBSET Arrival /\ Proper(A) /\ \A w : Listed(w, A) <=> Listed(w, s.arr[n]) \/ w = v
  <2>1. s.arr[n] \in SUBSET Arrival /\ Proper(s.arr[n]) /\ ~Listed(a.veh, s.arr[n])
    BY <1>1, <1>3, <1>4, <1>7 DEF NetInv, Placed, ArrivalsOK, Away
  <2> HIDE DEF n
  <2>2. Proper(A) /\ \A w : Listed(w, A) <=> Listed(w, s.arr[n]) \/ w = a.veh
    BY <2>1, ProperAdded
  <2> QED
    BY <1>7, <2>1, <2>2
<1>10. a \in A /\ s.arr[n] \subseteq A
  OBVIOUS
<1> HIDE DEF l, n, q, A, b
<1>11. /\ wait \in [Meso -> Seq(Vehicles)] /\ wait[l] = q
       /\ \A j \in Meso : j # l => wait[j] = s.wait[j]
  BY <1>1, <1>3, <1>6
<1>12. /\ arr \in [Keys -> SUBSET Arrival] /\ arr[n] = A
       /\ \A j \in Keys : j # n => arr[j] = s.arr[j]
  BY <1>1, <1>3, <1>9
<1>13. /\ event \in [Nodes -> [t : Int, key : Keys]]
       /\ \A m \in Nodes : m # n => event[m] = s.event[m]
       /\ event[n] = IF first THEN [t |-> s.clock, key |-> n] ELSE s.event[n]
  BY <1>1, <1>3
<1>14. /\ next \in NextMaps /\ (~first => next = s.next)
       /\ first => OneChanged(next, s.next, n, b)
  BY <1>1, <1>3, <1>8, NextSet
<1> HIDE DEF wait, arr, event, next
<1>15. Placed(arr, s.cur, wait, v)
  <2>1. OneMoreWaits(s.wait, wait, v, l)
    <3>1. ASSUME NEW j \in Meso
          PROVE  IsInjective(wait[j])
                 /\ \A w \in Vehicles : Occurs(w, wait[j]) <=> Occurs(w, s.wait[j]) \/ (w = v /\ j = l)
      <4>1. CASE j = l
        BY <1>6, <1>11, <4>1
      <4>2. CASE j # l
        BY <1>5, <1>11, <4>2
      <4> QED
        BY <4>1, <4>2
    <3> QED
      BY <3>1 DEF OneMoreWaits
  <2>2. Placed(s.arr, s.cur, s.wait, s.made)
    BY DEF NetInv
  <2>3. OneMoreListed(s.arr, arr, v, n)
    <3>1. ASSUME NEW k \in Keys
          PROVE  Proper(arr[k])
                 /\ \A w \in Vehicles : Listed(w, arr[k]) <=> Listed(w, s.arr[k]) \/ (w = v /\ k = n)
      <4>1. CASE k = n
        BY <1>9, <1>12, <4>1
      <4>2. CASE k # n
        BY <1>12, <2>2, <4>2 DEF Placed, ArrivalsOK
      <4> QED
        BY <4>1, <4>2
    <3> QED
      BY <3>1 DEF OneMoreListed
  <2>4. From[l] = n /\ Route[v][1] = l /\ From[l] \in Origins
    BY <1>1 DEF l, n
  <2> QED
    BY <1>1, <1>4, <2>1, <2>2, <2>3, <2>4, WaitsAtOrigin
<1>16. EventsOK(event)
  <2>1. EventsOK(s.event)
    BY DEF NetInv
  <2> QED
    BY <1>3, <1>13, <2>1 DEF EventsOK
<1>17. Consumable(event, next, arr, {})
  <2> SUFFICES ASSUME NEW m \in Nodes, event[m].t # Never, NEW k, k = event[m].key
               PROVE  k \in DOMAIN next /\ next[k] \in arr[k] /\ next[k].t = event[m].t
    BY DEF Consumable
  <2>1. CASE first /\ m = n
    <3>1. k = n /\ event[m].t = s.clock
      BY <1>13, <2>1
    <3>2. k \in DOMAIN next /\ next[k] = b
      BY <1>14, <2>1, <3>1 DEF OneChanged
    <3>3. b \in arr[k] /\ b.t = s.clock
      BY <1>7, <1>10, <1>12, <2>1, <3>1 DEF b
    <3> QED
      BY <3>1, <3>2, <3>3
  <2>2. CASE ~(first /\ m = n)
    <3>1. event[m] = s.event[m]
      BY <1>13, <2>2
    <3>2. k \in DOMAIN s.next /\ s.next[k] \in s.arr[k] /\ s.next[k].t = event[m].t
      BY <3>1 DEF NetInv, Consumable
    <3>3. k \in Keys /\ k \in InTo(m) \cup {m}
      BY <1>3, <3>1 DEF NetInv, EventsOK
    <3>4. s.next[k] \in arr[k]
      BY <1>10, <1>12, <3>2, <3>3
    <3>5. CASE first
      <4>1. k # n
        BY <1>1, <2>2, <3>3, <3>5, KeyOwner
      <4> QED
        BY <1>14, <3>2, <3>4, <3>5, <4>1 DEF OneChanged
    <3>6. CASE ~first
      BY <1>14, <3>2, <3>4, <3>6
    <3> QED
      BY <3>5, <3>6
  <2> QED
    BY <2>1, <2>2
<1>18. /\ s2 \in NetType /\ s2.event = event /\ s2.clock = s.clock /\ s2.made = v
       /\ s2.arr = arr /\ s2.cur = s.cur /\ s2.wait = wait /\ s2.dps = s.dps
       /\ s2.ups = s.ups /\ s2.next = next
  <2>1. /\ wait \in [Meso -> Seq(Vehicles)] /\ arr \in [Keys -> SUBSET Arrival]
        /\ event \in [Nodes -> [t : Int, key : Keys]] /\ next \in NextMaps
    BY <1>11, <1>12, <1>13, <1>14
  <2>2. s2 \in NetType
    BY <1>2, <1>3, <2>1 DEF NetType
  <2> QED
    BY <1>2, <1>3, <2>2 DEF NetType
<1>19. EventsOnTime(s, s2)
  <2>1. s.clock >= s.clock - TimeStep
    BY <1>3, Constants
  <2> QED
    BY <1>13, <1>18, <2>1 DEF EventsOnTime
<1>20. Counted(s.cur, s.dps, s.ups)
  BY DEF NetInv
<1> QED
  BY <1>15, <1>16, <1>17, <1>18, <1>19, <1>20 DEF NetInv

\* The first vehicle of a microscopic link leaves it.
LEMMA TakenOff ==
    ASSUME NEW s, NetInv(s, {}), NEW k \in Micro, s.cur[k] # <<>>,
           NEW v, v = Head(s.cur[k]), NEW cur, cur = [s.cur EXCEPT ![k] = Tail(@)]
    PROVE  /\ v \in Vehicles /\ v <= s.made /\ Occurs(k, Route[v])
           /\ cur \in [Links -> Seq(Vehicles)] /\ Counted(cur, s.dps, s.ups)
           /\ Placed(s.arr, cur, s.wait, s.made) /\ Away(v, s.arr, cur, s.wait)
<1> DEFINE q == Tail(s.cur[k])
<1>1. s \in NetType /\ k \in Links /\ k \notin Meso /\ s.cur \in [Links -> Seq(Vehicles)]
  BY DEF NetInv, NetType, Micro
<1>2. Placed(s.arr, s.cur, s.wait, s.made)
  BY DEF NetInv
<1>3. \A j \in Links : IsInjective(s.cur[j])
  BY <1>2 DEF Placed, LinksOK
<1>4. /\ q \in Seq(Vehicles) /\ IsInjective(q) /\ v \in Vehicles /\ Occurs(v, s.cur[k])
      /\ \A w : Occurs(w, q) <=> Occurs(w, s.cur[k]) /\ w # v
  BY <1>1, <1>3, TailOccurs
<1>5. cur \in [Links -> Seq(Vehicles)] /\ cur[k] = q /\ \A j \in Links : j # k => cur[j] = s.cur[j]
  BY <1>1, <1>4
<1> HIDE DEF q
<1>6. v <= s.made /\ Occurs(k, Route[v])
  BY <1>1, <1>2, <1>4 DEF Placed, RoutesOK
<1>7. \A j \in Keys : ~Listed(v, s.arr[j])
  BY <1>2, <1>4 DEF Placed, LinksOK
<1>8. \A j \in Links : j # k => ~Occurs(v, s.cur[j])
  <2> SUFFICES ASSUME NEW j \in Links, j # k, Occurs(v, s.cur[j]) PROVE FALSE
    OBVIOUS
  <2>1. CASE j \in Meso
    BY <1>2, <1>4, <1>7, <2>1 DEF Placed, LinksOK, Keys
  <2>2. CASE j \notin Meso
    BY <1>2, <1>4, <2>2 DEF Placed, LinksOK, Micro
  <2> QED
    BY <2>1, <2>2
<1>9. \A j \in Meso : ~Occurs(v, s.wait[j])
  <2> SUFFICES ASSUME NEW j \in Meso, Occurs(v, s.wait[j]) PROVE FALSE
    OBVIOUS
  <2>1. Listed(v, s.arr[From[j]]) /\ From[j] \in Keys
    BY <1>2, <1>4, Constants DEF Placed, WaitOK, Keys
  <2> QED
    BY <1>7, <2>1
<1>10. \A j \in Links : IsInjective(cur[j])
  BY <1>3, <1>4, <1>5
<1>11. \A j \in Links : \A w \in Vehicles : Occurs(w, cur[j]) <=> Occurs(w, s.cur[j]) /\ w # v
  <2> TAKE j \in Links
  <2>1. CASE j = k
    BY <1>4, <1>5, <2>1
  <2>2. CASE j # k
    BY <1>5, <1>8, <2>2
  <2> QED
    BY <2>1, <2>2
<1>12. Placed(s.arr, cur, s.wait, s.made) /\ Away(v, s.arr, cur, s.wait)
  <2>1. /\ \A j \in Keys : Proper(s.arr[j])
        /\ \A j \in Meso : IsInjective(s.wait[j])
    BY <1>2 DEF Placed, ArrivalsOK, WaitOK
  <2>2. \A j \in Keys : \A w \in Vehicles : Listed(w, s.arr[j]) <=> Listed(w, s.arr[j]) /\ w # v
    BY <1>7
  <2>3. \A j \in Meso : \A w \in Vehicles : Occurs(w, s.wait[j]) <=> Occurs(w, s.wait[j]) /\ w # v
    BY <1>9
  <2> QED
    BY <1>2, <1>4, <1>10, <1>11, <2>1, <2>2, <2>3, Leaves
<1>13. Counted(cur, s.dps, s.ups)
  <2>1. \A j \in Meso : cur[j] = s.cur[j]
    BY <1>1, <1>5, Constants
  <2> QED
    BY <2>1 DEF Counted, NetInv
<1> QED
  BY <1>4, <1>5, <1>6, <1>12, <1>13

LEMMA MicroEndIs ==
    ASSUME NEW s, NetInv(s, {}), NEW k \in AtEnd(s),
           NEW t \in (s.clock - TimeStep + 1) .. s.clock, NEW s2, s2 = MicroEnd(s, k, t)
    PROVE  NetInv(s2, {}) /\ s2.clock = s.clock /\ EventsOnTime(s, s2)
<1> DEFINE v == Head(s.cur[k])
           l == NextLink(v, k)
           cur == [s.cur EXCEPT ![k] = Tail(@)]
<1>1. k \in Micro /\ s.cur[k] # <<>>
  BY DEF AtEnd
<1>2. /\ v \in Vehicles /\ v <= s.made /\ Occurs(k, Route[v])
      /\ cur \in [Links -> Seq(Vehicles)] /\ Counted(cur, s.dps, s.ups)
      /\ Placed(s.arr, cur, s.wait, s.made) /\ Away(v, s.arr, cur, s.wait)
  BY <1>1, TakenOff
<1>3. s \in NetType /\ k \in Links /\ k \in Keys /\ s.clock \in Int
  BY <1>1 DEF NetInv, NetType, Micro, Keys
<1>4. CASE s2 = s
  BY <1>4 DEF EventsOnTime
<1>5. CASE l \notin Meso
  <2>1. s2 = [s EXCEPT !.cur = cur]
    BY <1>5 DEF MicroEnd
  <2> HIDE DEF cur, v, l
  <2>2. /\ s2 \in NetType /\ s2.event = s.event /\ s2.clock = s.clock /\ s2.made = s.made
        /\ s2.arr = s.arr /\ s2.cur = cur /\ s2.wait = s.wait /\ s2.dps = s.dps
        /\ s2.ups = s.ups /\ s2.next = s.next
    BY <1>2, <1>3, <2>1 DEF NetType
  <2> QED
    BY <1>2, <2>2 DEF NetInv, EventsOnTime
<1>6. CASE l \in Meso /\ s2 # s
  <2> DEFINE n == To[k]
             a == [t |-> t, veh |-> v]
             A == s.arr[k] \cup {a}
             arr == [s.arr EXCEPT ![k] = A]
             event == [s.event EXCEPT ![n] = [t |-> t, key |-> k]]
             next == WithKey(s.next, k, a)
  <2>1. s2 = [s EXCEPT !.event = event, !.next = next, !.arr = arr, !.cur = cur]
    BY <1>6 DEF MicroEnd, EnteringFromOutside
  <2>2. n \in Nodes /\ k \in InTo(n)
    <3>2. l = To[k] \/ (l \in Links /\ From[l] = To[k])
      BY <1>2, <1>3, NextLinkIs
    <3> HIDE DEF l
    <3>3. From[l] \in Nodes /\ To[l] \in Nodes
      BY <1>6, Constants
    <3>4. n \in Nodes
      <4>1. l # To[k]
        BY <1>3, <1>6, Constants
      <4> QED
        BY <3>2, <3>3, <4>1
    <3> QED
      BY <1>3, <3>4 DEF InTo
  <2> HIDE DEF v, l, cur
  <2>3. t \in Int /\ t <= Never /\ t >= s.clock - TimeStep
    <3>1. s.clock <= Never
      BY <1>3, Constants DEF NetType
    <3> QED
      BY <1>3, <3>1, Constants
  <2>4. a \in Arrival /\ a \in MaybeArrival /\ a.veh = v
    BY <1>2, <2>3 DEF Arrival, MaybeArrival
  <2>5. /\ s.arr \in [Keys -> SUBSET Arrival] /\ s.next \in NextMaps
        /\ s.event \in [Nodes -> [t : Int, key : Keys]] /\ EventsOK(s.event)
    BY <1>3 DEF NetType, NetInv
  <2> HIDE DEF a
  <2>6. A \in SUBSET Arrival /\ Proper(A) /\ \A w : Listed(w, A) <=> Listed(w, s.arr[k]) \/ w = v
    <3>1. s.arr[k] \in SUBSET Arrival /\ Proper(s.arr[k]) /\ ~Listed(a.veh, s.arr[k])
      BY <1>2, <1>3, <2>4, <2>5 DEF NetInv, Placed, ArrivalsOK, Away
    <3>2. Proper(A) /\ \A w : Listed(w, A) <=> Listed(w, s.arr[k]) \/ w = a.veh
      BY <3>1, ProperAdded
    <3> QED
      BY <2>4, <3>1, <3>2
  <2>7. a \in A
    OBVIOUS
  <2> HIDE DEF A, n
  <2>8. arr \in [Keys -> SUBSET Arrival] /\ arr[k] = A /\ \A j \in Keys : j # k => arr[j] = s.arr[j]
    BY <1>3, <2>5, <2>6
  <2>9. /\ event \in [Nodes -> [t : Int, key : Keys]] /\ event[n] = [t |-> t, key |-> k]
        /\ \A m \in Nodes : m # n => event[m] = s.event[m]
    BY <1>3, <2>2, <2>3, <2>5
  <2>10. next \in NextMaps /\ OneChanged(next, s.next, k, a)
    BY <1>3, <2>4, <2>5, NextSet
  <2> HIDE DEF arr, event, next
  <2>11. Placed(arr, cur, s.wait, s.made)
    <3>1. OneMoreListed(s.arr, arr, v, k)
      <4>1. ASSUME NEW j \in Keys
            PROVE  Proper(arr[j])
                   /\ \A w \in Vehicles : Listed(w, arr[j]) <=> Listed(w, s.arr[j]) \/ (w = v /\ j = k)
        <5>1. CASE j = k
          BY <2>6, <2>8, <5>1
        <5>2. CASE j # k
          BY <1>2, <2>8, <5>2 DEF Placed, ArrivalsOK
        <5> QED
          BY <5>1, <5>2
      <4> QED
        BY <4>1 DEF OneMoreListed
    <3> QED
      BY <1>1, <1>2, <3>1, ComesToEnd
  <2>12. EventsOK(event)
    BY <2>2, <2>3, <2>5, <2>9 DEF EventsOK
  <2>13. Consumable(event, next, arr, {})
    <3> SUFFICES ASSUME NEW m \in Nodes, event[m].t # Never, NEW j, j = event[m].key
                 PROVE  j \in DOMAIN next /\ next[j] \in arr[j] /\ next[j].t = event[m].t
      BY DEF Consumable
    <3>1. CASE m = n
      <4>1. j = k /\ event[m].t = t
        BY <2>9, <3>1
      <4>2. a.t = t
        BY DEF a
      <4> QED
        BY <2>7, <2>8, <2>10, <4>1, <4>2 DEF OneChanged
    <3>2. CASE m # n
      <4>1. event[m] = s.event[m]
        BY <2>9, <3>2
      <4>2. j \in DOMAIN s.next /\ s.next[j] \in s.arr[j] /\ s.next[j].t = event[m].t
        BY <4>1 DEF NetInv, Consumable
      <4>3. j \in Keys /\ j \in InTo(m) \cup {m}
        BY <2>5, <4>1 DEF EventsOK
      <4>4. j # k
        BY <2>2, <3>2, <4>3, KeyOwner
      <4> QED
        BY <2>8, <2>10, <4>2, <4>3, <4>4 DEF OneChanged
    <3> QED
      BY <3>1, <3>2
  <2>14. /\ s2 \in NetType /\ s2.event = event /\ s2.clock = s.clock /\ s2.made = s.made
         /\ s2.arr = arr /\ s2.cur = cur /\ s2.wait = s.wait /\ s2.dps = s.dps
         /\ s2.ups = s.ups /\ s2.next = next
    BY <1>2, <1>3, <2>1, <2>8, <2>9, <2>10 DEF NetType
  <2>15. EventsOnTime(s, s2)
    BY <2>3, <2>9, <2>14 DEF EventsOnTime
  <2> QED
    BY <1>2, <2>11, <2>12, <2>13, <2>14, <2>15 DEF NetInv
<1> QED
  BY <1>4, <1>5, <1>6

LEMMA TickIs ==
    ASSUME NEW s, NetInv(s, {}), s.clock + TimeStep <= LastInstant, NEW freed \in SUBSET s.near,
           NEW s2, s2 = [s EXCEPT !.clock = @ + TimeStep, !.near = @ \ freed]
    PROVE  NetInv(s2, {}) /\ s2.clock = s.clock + TimeStep /\ s2.event = s.event
<1> DEFINE c == s.clock + TimeStep
           y == s.near \ freed
<1>1. s2 = [s EXCEPT !.clock = c, !.near = y]
  OBVIOUS
<1>2. s \in NetType /\ y \in SUBSET Micro
  BY DEF NetInv, NetType
<1>3. c \in 0 .. LastInstant
  <2>1. s.clock \in 0 .. LastInstant
    BY <1>2 DEF NetType
  <2> QED
    BY <2>1, Constants
<1> HIDE DEF c, y
<1>4. /\ s2 \in NetType /\ s2.event = s.event /\ s2.clock = c /\ s2.made = s.made
      /\ s2.arr = s.arr /\ s2.cur = s.cur /\ s2.wait = s.wait /\ s2.dps = s.dps
      /\ s2.ups = s.ups /\ s2.next = s.next
  BY <1>1, <1>2, <1>3 DEF NetType
<1> QED
  BY <1>4 DEF NetInv, c

LEMMA GeneratedIs ==
    ASSUME NEW s, NetInv(s, {}), NEW v \in Vehicles, v = s.made + 1, NEW s2, s2 = Generated(s)
    PROVE  NetInv(s2, {}) /\ s2.clock = s.clock /\ EventsOnTime(s, s2)
<1>1. CASE Route[v][1] \in Micro
  <2>1. NetInv(s2, {}) /\ s2.clock = s.clock /\ s2.event = s.event
    BY <1>1, GeneratedMicro
  <2> QED
    BY <2>1 DEF EventsOnTime
<1>2. CASE Route[v][1] \notin Micro
  <2>1. Route[v][1] \in Meso
    BY <1>2, RouteOf DEF Micro
  <2> QED
    BY <2>1, GeneratedMeso
<1> QED
  BY <1>1, <1>2

\* A step of the microscopic side.
LEMMA MicroStepInv ==
    ASSUME IInv, MicroStep
    PROVE  IInv'
<1>1. PICK start \in Started, freed \in SUBSET net.near :
      LET tick == [start.net EXCEPT !.clock = @ + TimeStep, !.near = @ \ freed]
      IN /\ start.net.event[start.front].t >= tick.clock
         /\ tick.clock <= LastInstant
         /\ \E s \in Demanded(tick) : net' \in Ended(s)
         /\ front' \in (IF net'.event # start.net.event THEN Earliest(net') ELSE {start.front})
         /\ completed' = TRUE
         /\ UNCHANGED <<snap, rollbacks>>
  BY DEF MicroStep
<1> DEFINE s0 == start.net
           f == start.front
           tick == [s0 EXCEPT !.clock = @ + TimeStep, !.near = @ \ freed]
<1>2. /\ NetInv(s0, {}) /\ f \in Nodes /\ s0.clock = net.clock /\ s0.made = net.made
      /\ rollbacks = 0 => FrontOK(s0, f)
  BY StartedIs
<1>3. /\ s0.event[f].t >= tick.clock /\ tick.clock <= LastInstant
      /\ completed' = TRUE /\ snap' = snap /\ rollbacks' = rollbacks
      /\ front' \in (IF net'.event # s0.event THEN Earliest(net') ELSE {f})
  BY <1>1
<1>4. PICK s \in Demanded(tick) : net' \in Ended(s)
  BY <1>1
<1> HIDE DEF s0, f
<1>5. NetInv(tick, {}) /\ tick.clock = s0.clock + TimeStep /\ tick.event = s0.event
  <2> DEFINE y == s0.near \cap freed
  <2>1. tick = [s0 EXCEPT !.clock = @ + TimeStep, !.near = @ \ y]
    <3>1. s0.near \ freed = s0.near \ y
      OBVIOUS
    <3> HIDE DEF y
    <3> QED
      BY <3>1
  <2>2. y \in SUBSET s0.near
    OBVIOUS
  <2>3. s0.clock + TimeStep <= LastInstant
    <3>1. tick.clock = s0.clock + TimeStep
      BY <1>2 DEF NetInv, NetType
    <3> QED
      BY <1>3, <3>1
  <2> HIDE DEF y, tick
  <2> QED
    BY <1>2, <2>1, <2>2, <2>3, TickIs
<1> HIDE DEF tick
<1>6. NetInv(s, {}) /\ s.clock = tick.clock /\ EventsOnTime(tick, s)
  <2>1. CASE s = tick
    BY <1>5, <2>1 DEF EventsOnTime
  <2>2. CASE s # tick
    <3>1. PICK v \in Vehicles : v = tick.made + 1 /\ s = Generated(tick)
      BY <2>2 DEF Demanded
    <3> QED
      BY <1>5, <3>1, GeneratedIs
  <2> QED
    BY <2>1, <2>2
<1>7. NetInv(net', {}) /\ net'.clock = s.clock /\ EventsOnTime(s, net')
  <2>1. CASE net' = s
    BY <1>6, <2>1 DEF EventsOnTime
  <2>2. CASE net' # s
    <3>1. PICK k \in AtEnd(s), t \in (s.clock - TimeStep + 1)..s.clock : net' = MicroEnd(s, k, t)
      BY <1>4, <2>2 DEF Ended
    <3> QED
      BY <1>6, <3>1, MicroEndIs
  <2> QED
    BY <2>1, <2>2
<1>8. front' \in Nodes
  BY <1>2, <1>3 DEF Earliest
<1>9. ASSUME rollbacks = 0 PROVE front' \in Earliest(net') /\ OnTime(net')
  <2>1. f \in Earliest(s0)
    BY <1>2, <1>9 DEF FrontOK
  <2>2. front' \in Earliest(net')
    BY <1>3, <2>1 DEF Earliest
  <2>3. OnTime(net')
    <3> SUFFICES ASSUME NEW m \in Nodes PROVE net'.event[m].t >= net'.clock - TimeStep
      BY DEF OnTime
    <3> DEFINE c == tick.clock
    <3>1. c \in Int /\ s0.event[m].t \in Int /\ s0.event[f].t \in Int
      BY <1>2, <1>5 DEF NetInv, NetType
    <3>2. s0.event[m].t >= c
      <4>1. s0.event[f].t <= s0.event[m].t
        BY <2>1 DEF Earliest
      <4> QED
        BY <1>3, <3>1, <4>1
    <3>3. net'.clock = c /\ s.clock = c
      BY <1>6, <1>7
    <3>4. tick.event[m].t >= c - TimeStep
      BY <1>5, <3>1, <3>2, Constants
    <3>5. s.event[m].t >= c - TimeStep
      BY <1>6, <3>4 DEF EventsOnTime
    <3> HIDE DEF c
    <3>6. net'.event[m].t >= c - TimeStep
      BY <1>7, <3>3, <3>5 DEF EventsOnTime
    <3> QED
      BY <3>3, <3>6
  <2> QED
    BY <2>2, <2>3
<1> QED
  BY <1>3, <1>7, <1>8, <1>9 DEF IInv, FrontInv

--------------------------------------------------------------------------------
(* Snapshots, and the invariant *)

LEMMA RestoreInv ==
    ASSUME IInv, Restore
    PROVE  IInv'
<1> DEFINE y == Over(snap.next, net.next)
<1>1. NetInv(snap, {}) /\ NetInv(net, {}) /\ net' = [snap EXCEPT !.next = y]
      /\ rollbacks' = rollbacks + 1 /\ front' = front /\ completed' = completed /\ snap' = snap
  BY DEF IInv, Restore
<1>2. rollbacks' \in 0 .. MaxRollbacks /\ rollbacks' # 0
  BY Constants DEF IInv, Restore
<1>3. snap \in NetType /\ snap.next \in NextMaps /\ net.next \in NextMaps
  BY <1>1 DEF NetInv, NetType
<1>4. y \in NextMaps /\ Overridden(y, snap.next, net.next)
  <2> DEFINE h == snap.next
             g == net.next
  <2>1. /\ h \in NextMaps /\ g \in NextMaps /\ y = Over(h, g)
    BY <1>3
  <2> HIDE DEF h, g, y
  <2>2. /\ h = [k \in DOMAIN h |-> h[k]] /\ DOMAIN h \in SUBSET Keys
        /\ \A k \in DOMAIN h : h[k] \in MaybeArrival
    BY <2>1, NextMapIs
  <2>3. y \in NextMaps /\ Overridden(y, h, g)
    BY <2>1, <2>2, NextMerged
  <2> QED
    BY <2>3 DEF h, g
<1> HIDE DEF y
<1>5. /\ net' \in NetType /\ net'.event = snap.event /\ net'.made = snap.made
      /\ net'.arr = snap.arr /\ net'.cur = snap.cur /\ net'.wait = snap.wait
      /\ net'.dps = snap.dps /\ net'.ups = snap.ups /\ net'.next = y
  BY <1>1, <1>3, <1>4 DEF NetType
<1>6. Consumable(snap.event, y, snap.arr, {})
  <2> SUFFICES ASSUME NEW n \in Nodes, snap.event[n].t # Never, NEW k, k = snap.event[n].key
               PROVE  k \in DOMAIN y /\ y[k] \in snap.arr[k] /\ y[k].t = snap.event[n].t
    BY DEF Consumable
  <2>1. k \in DOMAIN snap.next /\ snap.next[k] \in snap.arr[k] /\ snap.next[k].t = snap.event[n].t
    BY <1>1 DEF NetInv, Consumable
  <2> QED
    BY <1>4, <2>1 DEF Overridden
<1>7. NetInv(net', {})
  BY <1>1, <1>5, <1>6 DEF NetInv
<1> QED
  BY <1>1, <1>2, <1>7 DEF IInv, FrontInv

LEMMA SnapshotInv ==
    ASSUME IInv, TakeSnapshot
    PROVE  IInv'
<1>1. snap' = net /\ net' = net /\ front' = front /\ completed' = completed /\ rollbacks' = rollbacks
  BY DEF TakeSnapshot
<1> QED
  BY <1>1 DEF IInv, FrontInv, OnTime, Earliest

LEMMA InitInv ==
    ASSUME Init
    PROVE  IInv
<1>0. /\ Never \in Int /\ Past \in Int /\ LastInstant \in Nat /\ TimeStep \in Nat
      /\ LastInstant <= Never /\ MaxRollbacks \in Nat /\ Meso \subseteq Links
      /\ Nodes \subseteq Keys /\ Links \subseteq Keys
  BY Constants DEF Keys
<1>1. /\ net.clock = 0 /\ net.event = [n \in Nodes |-> [t |-> Never, key |-> n]]
      /\ net.arr = [k \in Keys |-> {}] /\ net.next = [l \in Meso |-> NoArrival]
      /\ net.supply = [k \in Keys |-> Past] /\ net.cur = [l \in Links |-> <<>>]
      /\ net.ups = [l \in Meso |-> <<>>] /\ net.dps = [l \in Links |-> <<>>]
      /\ net.led = [l \in Meso |-> FALSE]
      /\ net.wait = [l \in Meso |-> <<>>] /\ net.near = {} /\ net.made = 0
  BY DEF Init, Keys
<1>2. net = [clock |-> net.clock, event |-> net.event, arr |-> net.arr, next |-> net.next,
             supply |-> net.supply, cur |-> net.cur, ups |-> net.ups, dps |-> net.dps, led |-> net.led,
             wait |-> net.wait, near |-> net.near, made |-> net.made]
  BY DEF Init
<1>3. front \in Nodes /\ completed = TRUE /\ snap = NoSnapshot /\ rollbacks = 0
  BY DEF Init
<1>4. net.next \in NextMaps
  <2>1. net.next \in [Meso -> MaybeArrival]
    BY <1>1, NoArrivalIs
  <2> QED
    BY <1>0, <2>1 DEF NextMaps
<1>5. net \in NetType
  <2>1. net.event \in [Nodes -> [t : Int, key : Keys]]
    BY <1>0, <1>1
  <2>2. net.arr \in [Keys -> SUBSET Arrival] /\ net.supply \in [Keys -> Int]
    BY <1>0, <1>1
  <2>3. <<>> \in Seq(Vehicles) /\ <<>> \in Seq(Int)
    OBVIOUS
  <2>4. /\ net.cur \in [Links -> Seq(Vehicles)] /\ net.ups \in [Meso -> Seq(Int)]
        /\ net.dps \in [Links -> Seq(Int)] /\ net.wait \in [Meso -> Seq(Vehicles)]
        /\ net.led \in [Meso -> BOOLEAN]
    BY <1>1, <2>3
  <2>5. net.clock \in 0 .. LastInstant /\ net.near \in SUBSET Micro /\ net.made \in {0} \cup Vehicles
    BY <1>0, <1>1
  <2> QED
    BY <1>2, <1>4, <2>1, <2>2, <2>4, <2>5 DEF NetType
<1>6. \A v : ~Occurs(v, <<>>) /\ ~Listed(v, {})
  BY DEF Occurs, Listed
<1>7. Proper({}) /\ IsInjective(<<>>) /\ Len(<<>>) = 0
  BY FS_EmptySet DEF Proper, IsInjective
<1>8. Placed(net.arr, net.cur, net.wait, net.made)
  <2>1. ArrivalsOK(net.arr)
    BY <1>1, <1>6, <1>7 DEF ArrivalsOK
  <2>2. LinksOK(net.arr, net.cur)
    <3>1. \A l \in Links : net.cur[l] = <<>>
      BY <1>1
    <3>2. \A k \in Keys : net.arr[k] = {}
      BY <1>1
    <3>3. Micro \subseteq Links /\ Meso \subseteq Keys
      BY <1>0 DEF Micro
    <3> QED
      BY <1>0, <1>6, <1>7, <3>1, <3>2, <3>3 DEF LinksOK
  <2>3. WaitOK(net.arr, net.wait)
    BY <1>0, <1>1, <1>6, <1>7 DEF WaitOK
  <2>4. RoutesOK(net.arr, net.cur, net.made)
    BY <1>0, <1>1, <1>6 DEF RoutesOK
  <2> QED
    BY <2>1, <2>2, <2>3, <2>4 DEF Placed
<1>9. Counted(net.cur, net.dps, net.ups)
  BY <1>0, <1>1, <1>7 DEF Counted
<1>10. EventsOK(net.event) /\ Consumable(net.event, net.next, net.arr, {})
  BY <1>0, <1>1 DEF EventsOK, Consumable
<1>11. front \in Earliest(net) /\ OnTime(net)
  BY <1>0, <1>1, <1>3 DEF Earliest, OnTime
<1> QED
  BY <1>0, <1>3, <1>5, <1>8, <1>9, <1>10, <1>11 DEF IInv, NetInv, FrontInv

\* What every step preserves.
THEOREM MesoInvariance == Spec => []IInv
<1>1. Init => IInv
  BY InitInv
<1>2. ASSUME IInv, [Next]_vars PROVE IInv'
  <2>1. CASE MesoStep
    BY <1>2, <2>1, MesoStepInv
  <2>2. CASE MicroStep
    BY <1>2, <2>2, MicroStepInv
  <2>3. CASE TakeSnapshot
    BY <1>2, <2>3, SnapshotInv
  <2>4. CASE Restore
    BY <1>2, <2>4, RestoreInv
  <2>5. CASE UNCHANGED vars
    BY <1>2, <2>5 DEF vars, IInv, FrontInv, OnTime, Earliest
  <2> QED
    BY <1>2, <2>1, <2>2, <2>3, <2>4, <2>5 DEF Next
<1> QED
  BY <1>1, <1>2, PTL DEF Spec

--------------------------------------------------------------------------------
(* What it says *)

\* The events are about the incoming links of their nodes, and clocks and numbers keep
\* their bounds.
THEOREM MesoTypeOK == Spec => []TypeOK
<1>1. ASSUME IInv PROVE TypeOK
  <2>1. net \in NetType /\ EventsOK(net.event)
    BY <1>1 DEF IInv, NetInv
  <2>2. net.clock \in 0 .. LastInstant /\ net.arr \in [Keys -> SUBSET Arrival]
    BY <2>1 DEF NetType
  <2>3. net.made \in 0 .. Cardinality(Vehicles)
    <3>1. PICK n \in Nat \ {0} : Vehicles = 1 .. n /\ n = Cardinality(Vehicles)
      BY VehicleNumbers
    <3>2. net.made \in {0} \cup 1 .. n
      BY <2>1, <3>1 DEF NetType
    <3> QED
      BY <3>1, <3>2
  <2>4. front \in Nodes /\ completed \in BOOLEAN /\ rollbacks \in 0 .. MaxRollbacks
    BY <1>1 DEF IInv
  <2>5. \A n \in Nodes : net.event[n].key \in InTo(n) \cup {n}
    BY <2>1 DEF EventsOK
  <2>6. ASSUME NEW k \in Links \cup Nodes
        PROVE  Arrived(k) \cup {NextArrival(net, k).veh} \subseteq Vehicles \cup {NoVeh}
    <3>1. net.arr[k] \in SUBSET Arrival
      BY <2>2 DEF Keys
    <3>2. Arrived(k) \subseteq Vehicles
      BY <3>1 DEF Arrived, Arrival
    <3>3. NextArrival(net, k).veh \in Vehicles \cup {NoVeh}
      <4>1. NextArrival(net, k) \in MaybeArrival
        BY <2>1, NextArrivalIs
      <4> QED
        BY <4>1 DEF MaybeArrival
    <3> QED
      BY <3>2, <3>3
  <2> QED
    BY <2>2, <2>3, <2>4, <2>5, <2>6 DEF TypeOK
<1> QED
  BY <1>1, MesoInvariance, PTL

\* A vehicle is in one list of arrivals at most and once in it, and the lists agree with
\* the vehicles on the links, the times of those that entered and left them, and those that
\* wait at the origins: whatever the passages, refusals, creations and rollbacks.
THEOREM EachVehicleInOnePlace == Spec => []OnePlace
<1>1. ASSUME IInv PROVE OnePlace
  <2>1. /\ net \in NetType /\ Placed(net.arr, net.cur, net.wait, net.made)
        /\ Counted(net.cur, net.dps, net.ups)
    BY <1>1 DEF IInv, NetInv
  <2>2. /\ net.arr \in [Keys -> SUBSET Arrival] /\ net.cur \in [Links -> Seq(Vehicles)]
        /\ net.wait \in [Meso -> Seq(Vehicles)]
    BY <2>1 DEF NetType
  <2>3. ASSUME NEW k \in Keys
        PROVE  /\ Arrived(k) \subseteq Vehicles
               /\ \A v : v \in Arrived(k) <=> Listed(v, net.arr[k])
    <3>1. net.arr[k] \in SUBSET Arrival
      BY <2>2
    <3> QED
      BY <3>1 DEF Arrived, Listed, Arrival
  <2>4. ASSUME NEW q \in Seq(Vehicles)
        PROVE  Range(q) \subseteq Vehicles /\ \A v : v \in Range(q) <=> Occurs(v, q)
    <3>1. \A i \in DOMAIN q : q[i] \in Vehicles
      BY LenProperties, ElementOfSeq
    <3> QED
      BY <3>1 DEF Range, Occurs
  <2>5. ASSUME NEW k \in Keys, NEW j \in Keys, k # j PROVE Arrived(k) \cap Arrived(j) = {}
    BY <2>1, <2>3, <2>5 DEF Placed, ArrivalsOK
  <2>6. ASSUME NEW k \in Keys PROVE Cardinality(net.arr[k]) = Cardinality(Arrived(k))
    BY <2>1, ProperCardinality DEF Placed, ArrivalsOK, Arrived
  <2>7. ASSUME NEW l \in Meso PROVE Range(net.cur[l]) = Arrived(l)
    <3>1. net.cur[l] \in Seq(Vehicles) /\ l \in Keys
      BY <2>2, Constants DEF Keys
    <3>2. \A v \in Vehicles : Occurs(v, net.cur[l]) <=> Listed(v, net.arr[l])
      BY <2>1 DEF Placed, LinksOK
    <3>3. \A v : v \in Range(net.cur[l]) <=> v \in Arrived(l)
      BY <2>3, <2>4, <3>1, <3>2
    <3> QED
      BY <3>3
  <2>8. ASSUME NEW l \in Meso PROVE Len(net.cur[l]) = Len(net.dps[l]) - Len(net.ups[l])
    BY <2>1 DEF Counted
  <2>9. ASSUME NEW l \in Micro PROVE Range(net.cur[l]) \cap Arrived(l) = {}
    <3>1. net.cur[l] \in Seq(Vehicles) /\ l \in Keys
      BY <2>2 DEF Keys, Micro
    <3>2. \A v \in Vehicles : Occurs(v, net.cur[l]) => ~Listed(v, net.arr[l])
      BY <2>1, <3>1 DEF Placed, LinksOK
    <3> QED
      BY <2>3, <2>4, <3>1, <3>2
  <2>10. ASSUME NEW n \in Origins
         PROVE  Arrived(n) = UNION {Range(net.wait[l]) : l \in OutOf(n)}
    <3>1. PICK l \in Meso : OutOf(n) = {l} /\ From[l] = n
      BY OriginOf
    <3>2. n \in Nodes /\ n \in Keys /\ net.wait[l] \in Seq(Vehicles)
      BY <2>2, OriginOf DEF Keys
    <3>6. ASSUME NEW j \in Meso, From[j] = n PROVE j = l
      <4>1. OutOf(n) = {j}
        BY <3>6, OriginOf, Constants
      <4> QED
        BY <3>1, <4>1
    <3>3. \A v \in Vehicles : Listed(v, net.arr[n]) <=> Occurs(v, net.wait[l])
      BY <2>1, <3>1, <3>2, <3>6 DEF Placed, WaitOK
    <3>4. \A v : v \in Range(net.wait[l]) <=> v \in Arrived(n)
      BY <2>3, <2>4, <3>2, <3>3
    <3>5. UNION {Range(net.wait[j]) : j \in OutOf(n)} = Range(net.wait[l])
      BY <3>1
    <3> QED
      BY <3>4, <3>5
  <2> QED
    BY <2>5, <2>6, <2>7, <2>8, <2>9, <2>10 DEF OnePlace, Keys
<1> QED
  BY <1>1, MesoInvariance, PTL

\* SimuTraficMeso always finds the vehicle of the event in the list of its link, at the
\* time of the event: its assertion holds.
THEOREM EventsCanBeSimulated == Spec => []EventsConsumable
<1>1. ASSUME IInv PROVE EventsConsumable
  <2> SUFFICES ASSUME NEW n \in Nodes, net.event[n].t # Never
               PROVE  LET a == NextArrival(net, net.event[n].key)
                      IN a \in net.arr[net.event[n].key] /\ a.t = net.event[n].t
    BY DEF EventsConsumable
  <2>1. LET k == net.event[n].key
        IN k \in DOMAIN net.next /\ net.next[k] \in net.arr[k] /\ net.next[k].t = net.event[n].t
    BY <1>1 DEF IInv, NetInv, Consumable
  <2> QED
    BY <2>1 DEF NextArrival
<1> QED
  BY <1>1, MesoInvariance, PTL

\* Up to the first rollback no event is older than the step that has just ended: the node
\* that SimuTrafic takes first is one of the earliest at every choice.
THEOREM NoEventIsMissed == Spec => []NoEventMissed
<1>1. ASSUME IInv PROVE NoEventMissed
  BY <1>1 DEF IInv, FrontInv, OnTime, NoEventMissed
<1> QED
  BY <1>1, MesoInvariance, PTL

================================================================================
