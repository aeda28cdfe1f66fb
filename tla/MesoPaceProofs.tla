----------------------------- MODULE MesoPaceProofs -----------------------------
(***************************************************************************)
(* Proofs about the times of the mesoscopic network: no node at which      *)
(* vehicles wait is forgotten, exits and links keep their headways, the    *)
(* gaps in a link come back before it is entered again, and a refused      *)
(* vehicle is tried again strictly later, for any network, any             *)
(* microscopic side and any rollbacks.                                     *)
(*                                                                         *)
(* A second invariant, PaceInv, over that of MesoNetworkProofs, is again   *)
(* about the record a snapshot holds.  In the middle of a call a node of D *)
(* is still to be updated, and its event may be before the supply time of  *)
(* the link it is about: that is what the updates put right.  The events   *)
(* of the nodes of Calm, set by updates only, are never before it; an      *)
(* origin or a node where microscopic links come in gets events at the     *)
(* times the other side says, whatever the supply times.                   *)
(***************************************************************************)
EXTENDS MesoNetworkProofs

--------------------------------------------------------------------------------
(* Where the vehicles go from a node *)

\* l is the node itself or one of its outgoing links.
Goes(n, l) == l = n \/ (l \in Links /\ From[l] = n)

\* A link is taken from one node.
LEMMA GoesFromOne ==
    ASSUME NEW n \in Nodes, NEW m \in Nodes, NEW l, Goes(n, l), Goes(m, l)
    PROVE  m = n
<1>1. n \notin Links /\ m \notin Links
  BY Constants
<1> QED
  BY <1>1 DEF Goes

\* A route has no loop, and one that ends on a mesoscopic link ends at an exit.
LEMMA NextLinkOther ==
    ASSUME NEW v \in Vehicles, NEW k \in Links, Occurs(k, Route[v])
    PROVE  /\ NextLink(v, k) # k
           /\ Goes(To[k], NextLink(v, k))
           /\ k \in Meso => NextLink(v, k) \in OutOf(To[k])
<1> DEFINE r == Route[v]
           i == CHOOSE i \in DOMAIN r : r[i] = k
<1>1. i \in DOMAIN r /\ r[i] = k
  BY DEF Occurs
<1>2. NextLink(v, k) = IF i = Len(r) THEN To[k] ELSE r[i + 1]
  BY Constants DEF NextLink
<1>3. /\ r \in Seq(Links) /\ DOMAIN r = 1 .. Len(r) /\ Len(r) \in Nat /\ IsInjective(r)
      /\ \A j \in 1 .. (Len(r) - 1) : To[r[j]] = From[r[j + 1]]
  BY RouteOf
<1>4. r[Len(r)] \in Meso => OutOf(To[r[Len(r)]]) = {To[r[Len(r)]]}
  <2>1. IsRoute(r)
    BY MesoNetworkAssumption
  <2> QED
    BY <2>1 DEF IsRoute
<1> HIDE DEF i, r
<1>5. CASE i = Len(r)
  <2>1. To[k] \notin Links
    BY Constants
  <2> QED
    BY <1>1, <1>2, <1>4, <1>5, <2>1 DEF Goes
<1>6. CASE i # Len(r)
  <2>1. i + 1 \in DOMAIN r /\ i + 1 # i /\ i \in 1 .. (Len(r) - 1)
    BY <1>1, <1>3, <1>6
  <2>2. r[i + 1] # k
    BY <1>1, <1>3, <2>1 DEF IsInjective
  <2>3. r[i + 1] \in Links /\ From[r[i + 1]] = To[k]
    BY <1>1, <1>3, <2>1, ElementOfSeq
  <2> QED
    BY <1>2, <1>6, <2>2, <2>3 DEF Goes, OutOf
<1> QED
  BY <1>5, <1>6

\* Those that arrive at a node leave it by one of its links.
LEMMA WantedGoes ==
    ASSUME NEW s, NEW D, NetInv(s, D), NEW n \in Nodes, NEW k \in InTo(n) \cup {n},
           NEW a \in s.arr[k]
    PROVE  /\ Goes(n, NextLink(a.veh, k)) /\ NextLink(a.veh, k) \in Keys
           /\ k \notin Micro => NextLink(a.veh, k) \in OutOf(n)
           /\ k # NextLink(a.veh, k)
<1> DEFINE v == a.veh
           l == NextLink(v, k)
<1>1. k \in Keys
  BY KeysOf
<1>2. v \in Vehicles /\ Listed(v, s.arr[k])
  BY <1>1 DEF NetInv, NetType, Arrival, Listed
<1> HIDE DEF v
<1>3. CASE k \in Links
  <2>1. To[k] = n
    BY <1>3, IncomingOf, Constants
  <2>2. Occurs(k, Route[v])
    BY <1>2, <1>3 DEF NetInv, Placed, RoutesOK
  <2>3. l # k /\ Goes(n, l) /\ (k \in Meso => l \in OutOf(n))
    BY <1>2, <1>3, <2>1, <2>2, NextLinkOther
  <2>4. l \in Keys
    BY <2>3 DEF Goes, Keys
  <2> QED
    BY <1>3, <2>3, <2>4 DEF Micro, v
<1>4. CASE k \notin Links
  <2>1. k = n
    BY <1>4, IncomingOf
  <2>2. Route[v][1] \in Meso /\ From[Route[v][1]] = n
    BY <1>2, <2>1 DEF NetInv, Placed, WaitOK
  <2>3. l = Route[v][1]
    BY <2>1 DEF NextLink
  <2>4. l \in Links /\ From[l] = n
    BY <2>2, <2>3, Constants
  <2>5. l \in OutOf(n)
    BY <2>4 DEF OutOf
  <2> QED
    BY <1>4, <2>4, <2>5 DEF Goes, Keys, v
<1> QED
  BY <1>3, <1>4

--------------------------------------------------------------------------------
(* What the times say *)

\* The event of a node is not before the supply time of the link its vehicle takes.
AfterSupply(s, n) ==
    LET k == s.event[n].key
    IN  s.event[n].t # Never => s.event[n].t >= s.supply[NextLink(s.next[k].veh, k)]

\* A node at which vehicles wait has an event, or waits for postponed supply times.
Wakes(s, n) ==
    (\A k \in InTo(n) : \A a \in s.arr[k] : a.t # Never) =>
        \A k \in InTo(n) : s.arr[k] # {} =>
            s.event[n].t # Never \/ s.supply[NextLink(MinArrival(s.arr[k]).veh, k)] = Never

\* The nodes whose events only the updates set.
Calm == {n \in Nodes : n \notin Origins /\ InTo(n) \subseteq Meso}

\* The times recorded are before the end, those computed not after DBL_MAX.
TimesOK(s) ==
    /\ \A k \in Keys : s.supply[k] <= Never
    /\ \A k \in Keys : \A a \in s.arr[k] : a.t <= Never
    /\ \A l \in Meso : \A i \in DOMAIN s.ups[l] : s.ups[l][i] < LastInstant + TimeStep
    /\ \A l \in Links : \A i \in DOMAIN s.dps[l] : s.dps[l][i] < LastInstant + TimeStep

\* A vehicle that a microscopic link announces enters a mesoscopic one.
ComesIn(s) == \A k \in Micro : \A a \in s.arr[k] : NextLink(a.veh, k) \in Meso

\* The gap is back at time t, from the vehicle of that rank among those that left.
GapBack(t, rank, ups, wave) ==
    rank > 1 => t = Never \/ (rank < Len(ups) /\ t >= ups[rank] + wave)

GapKept(s, l) == GapBack(s.supply[l], Len(s.dps[l]) - Room[l], s.ups[l], Wave[l])

\* The supply times keep the headways, and the gaps where vehicles had left.
LinksPaced(s) ==
    \A l \in Meso : From[l] \notin Origins /\ s.cur[l] # <<>> =>
                       /\ s.supply[l] >= Last(s.dps[l]) + Headway
                       /\ s.led[l] => GapKept(s, l)

ToExit(l) == OutOf(To[l]) = {To[l]} /\ InTo(To[l]) \subseteq Meso
ExitsPaced(s) ==
    \A l \in Meso : ToExit(l) =>
        /\ Spaced(s.ups[l], ExitHeadway)
        /\ s.ups[l] # <<>> => s.supply[To[l]] >= Last(s.ups[l]) + ExitHeadway

\* The events are those of the nodes of G; the nodes of D are to be updated.
PaceInv(s, G, D) ==
    /\ TimesOK(s) /\ ComesIn(s) /\ LinksPaced(s) /\ ExitsPaced(s)
    /\ \A n \in G \ D : AfterSupply(s, n)
    /\ \A n \in Nodes \ D : Wakes(s, n)

\* The event of a node has its vehicle.
LEMMA EventOf ==
    ASSUME NEW s, NEW D, NetInv(s, D), NEW n \in Nodes \ D, s.event[n].t # Never,
           NEW k, k = s.event[n].key
    PROVE  /\ s.event[n].t \in Int /\ s.event[n].t < Never
           /\ k \in Keys /\ k \in InTo(n) \cup {n} /\ k \in DOMAIN s.next
           /\ s.next[k] \in s.arr[k] /\ s.next[k].t = s.event[n].t
           /\ s.next[k] \in Arrival /\ s.next[k].veh # NoVeh
           /\ Goes(n, NextLink(s.next[k].veh, k)) /\ NextLink(s.next[k].veh, k) \in Keys
<1>1. /\ s.event[n].t \in Int /\ k \in Keys /\ s.event[n].t <= Never /\ k \in InTo(n) \cup {n}
      /\ s.arr[k] \in SUBSET Arrival
  BY DEF NetInv, NetType, EventsOK
<1>2. k \in DOMAIN s.next /\ s.next[k] \in s.arr[k] /\ s.next[k].t = s.event[n].t
  BY DEF NetInv, Consumable
<1>3. s.next[k] \in Arrival /\ s.next[k].veh # NoVeh
  <2>1. s.next[k] \in Arrival
    BY <1>1, <1>2
  <2>2. s.next[k].veh \in Vehicles
    BY <2>1 DEF Arrival
  <2> QED
    BY <2>1, <2>2, VehicleNumbers DEF NoVeh
<1>4. Goes(n, NextLink(s.next[k].veh, k)) /\ NextLink(s.next[k].veh, k) \in Keys
  BY <1>1, <1>2, WantedGoes
<1>5. s.event[n].t < Never
  BY <1>1, Constants
<1> QED
  BY <1>1, <1>2, <1>3, <1>4, <1>5

\* What does not touch the event, its arrival and its supply time.
LEMMA AfterSupplyKept ==
    ASSUME NEW s, NEW D, NetInv(s, D), NEW n \in Nodes \ D, AfterSupply(s, n),
           NEW s2, s2.event[n] = s.event[n],
           \A k \in DOMAIN s.next : s.event[n].t # Never /\ k = s.event[n].key => s2.next[k] = s.next[k],
           \A o \in Keys : Goes(n, o) /\ s.supply[o] # Never => s2.supply[o] = s.supply[o]
    PROVE  AfterSupply(s2, n)
<1> SUFFICES ASSUME s.event[n].t # Never, NEW k, k = s.event[n].key
             PROVE  s.event[n].t >= s2.supply[NextLink(s2.next[k].veh, k)]
  BY DEF AfterSupply
<1> DEFINE o == NextLink(s.next[k].veh, k)
<1>1. /\ s.event[n].t \in Int /\ s.event[n].t < Never /\ k \in DOMAIN s.next
      /\ Goes(n, o) /\ o \in Keys
  BY EventOf
<1>2. s2.next[k] = s.next[k]
  BY <1>1
<1> HIDE DEF o
<1>3. s.event[n].t >= s.supply[o]
  BY DEF AfterSupply, o
<1>4. s.supply[o] \in Int
  BY <1>1 DEF NetInv, NetType
<1>5. s.supply[o] # Never
  BY <1>1, <1>3, <1>4, Constants
<1>6. s2.supply[o] = s.supply[o]
  BY <1>1, <1>5
<1> QED
  BY <1>2, <1>3, <1>6 DEF o

\* What touches neither the event, the incoming lists nor the supply times of the node.
LEMMA WakesKept ==
    ASSUME NEW s, NEW D, NetInv(s, D), NEW n \in Nodes, Wakes(s, n),
           NEW s2, s2.event[n] = s.event[n], \A k \in InTo(n) : s2.arr[k] = s.arr[k],
           \A o \in Keys : Goes(n, o) => s2.supply[o] = s.supply[o]
    PROVE  Wakes(s2, n)
<1> SUFFICES ASSUME \A k \in InTo(n) : \A a \in s2.arr[k] : a.t # Never,
                    NEW k \in InTo(n), s2.arr[k] # {}
             PROVE  \/ s2.event[n].t # Never
                    \/ s2.supply[NextLink(MinArrival(s2.arr[k]).veh, k)] = Never
  BY DEF Wakes
<1> DEFINE a == MinArrival(s.arr[k])
<1>1. s2.arr[k] = s.arr[k] /\ k \in Keys
  BY KeysOf
<1>2. a \in s.arr[k]
  <2>1. ListsOK(s)
    BY DEF ListsOK, NetInv, Placed, ArrivalsOK
  <2> QED
    BY <1>1, <2>1, FirstOf
<1> HIDE DEF a
<1>3. Goes(n, NextLink(a.veh, k)) /\ NextLink(a.veh, k) \in Keys
  BY <1>2, WantedGoes
<1>4. s2.supply[NextLink(a.veh, k)] = s.supply[NextLink(a.veh, k)]
  BY <1>3
<1>5. s.event[n].t # Never \/ s.supply[NextLink(a.veh, k)] = Never
  <2>1. \A j \in InTo(n) : \A b \in s.arr[j] : b.t # Never
    OBVIOUS
  <2> QED
    BY <1>1, <2>1 DEF Wakes, a
<1> QED
  BY <1>1, <1>4, <1>5 DEF a

--------------------------------------------------------------------------------
(* The times of an update *)

\* The local time is the supply time, or not after any first arrival.
LEMMA LocalTimeFirst ==
    ASSUME NEW s, ListsOK(s), NEW n \in Nodes, NEW o \in OutOf(n), Candidates(s, n, o) # {}
    PROVE  \/ LocalTime(s, n, o) = s.supply[o]
           \/ \A k \in Candidates(s, n, o) : LocalTime(s, n, o) <= MinArrival(s.arr[k]).t
<1> DEFINE C == Candidates(s, n, o)
           first == [k \in C |-> MinArrival(s.arr[k]).t]
           T == {first[k] : k \in C}
<1>1. C \subseteq InTo(n) /\ C \subseteq Keys /\ \A k \in C : s.arr[k] # {}
  BY KeysOf DEF Candidates
<1>2. IsFiniteSet(C)
  <2>1. C \in SUBSET InTo(n)
    BY <1>1
  <2> HIDE DEF C
  <2> QED
    BY <2>1, KeysOf, FS_Subset
<1> HIDE DEF C
<1>3. IsFiniteSet(T)
  <2>1. first \in Surjection(C, T)
    BY DEF Surjection
  <2> HIDE DEF first, T
  <2> QED
    BY <1>2, <2>1, FS_Surjection
<1>4. T \in SUBSET Int /\ T # {}
  <2>1. \A k \in C : first[k] \in Int
    BY <1>1, FirstOf
  <2>2. PICK k \in C : TRUE
    BY DEF C
  <2>3. first[k] \in T
    BY <2>2
  <2> QED
    BY <2>1, <2>3
<1>5. FirstTime(s, C) = Min(T)
  <2>1. T = {MinArrival(s.arr[k]).t : k \in C}
    OBVIOUS
  <2> QED
    BY <2>1 DEF FirstTime
<1>6. \A t \in T : FirstTime(s, C) <= t
  <2> HIDE DEF T
  <2> QED
    BY <1>3, <1>4, <1>5, MinIs
<1>7. \A k \in C : FirstTime(s, C) <= MinArrival(s.arr[k]).t
  <2> TAKE k \in C
  <2>1. first[k] \in T /\ first[k] = MinArrival(s.arr[k]).t
    OBVIOUS
  <2> HIDE DEF T, first
  <2> QED
    BY <1>6, <2>1
<1> QED
  BY <1>7 DEF LocalTime, C

\* Nothing is chosen only when no vehicle can pass before DBL_MAX.
LEMMA NothingChosen ==
    ASSUME NEW s, ListsOK(s), NEW n \in Nodes, Outgoing(s, n) = {},
           NEW o \in OutOf(n), Candidates(s, n, o) # {}
    PROVE  LocalTime(s, n, o) >= Never
<1> DEFINE W == {p \in OutOf(n) : Candidates(s, n, p) # {} /\ LocalTime(s, n, p) < Never}
           time == [p \in W |-> LocalTime(s, n, p)]
           T == {time[p] : p \in W}
<1>1. \A p \in W : LocalTime(s, n, p) \in Int
  BY LocalTimeIs
<1>2. IsFiniteSet(W)
  <2>1. {l \in Links : From[l] = n} \in SUBSET Links
    OBVIOUS
  <2>2. IsFiniteSet({l \in Links : From[l] = n}) /\ IsFiniteSet({n})
    BY <2>1, Constants, FS_Subset, FS_Singleton
  <2>3. IsFiniteSet(OutOf(n))
    BY <2>2 DEF OutOf
  <2>4. W \in SUBSET OutOf(n)
    OBVIOUS
  <2> HIDE DEF W
  <2> QED
    BY <2>3, <2>4, FS_Subset
<1>3. Outgoing(s, n) = {p \in W : \A q \in W : LocalTime(s, n, p) <= LocalTime(s, n, q)}
  BY DEF Outgoing
<1>4. W = {}
  <2> SUFFICES ASSUME NEW p \in W PROVE FALSE
    OBVIOUS
  <2> HIDE DEF W
  <2>1. IsFiniteSet(T)
    <3>1. time \in Surjection(W, T)
      BY DEF Surjection
    <3> HIDE DEF time, T
    <3> QED
      BY <1>2, <3>1, FS_Surjection
  <2>2. T \in SUBSET Int /\ T # {}
    BY <1>1
  <2>3. PICK t \in T : \A y \in T : t <= y
    <3> HIDE DEF T
    <3> QED
      BY <2>1, <2>2, FiniteMin
  <2>4. PICK q \in W : t = LocalTime(s, n, q)
    OBVIOUS
  <2>5. \A r \in W : LocalTime(s, n, q) <= LocalTime(s, n, r)
    <3> TAKE r \in W
    <3>1. time[r] \in T
      OBVIOUS
    <3> QED
      BY <2>3, <2>4, <3>1
  <2> QED
    BY <1>3, <2>5
<1>5. LocalTime(s, n, o) \in Int
  BY LocalTimeIs
<1> QED
  BY <1>4, <1>5, Constants

\* The choice is not before the supply time of the link the vehicle takes.
LEMMA ChosenTimes ==
    ASSUME NEW s, ListsOK(s), NEW n \in Nodes, NEW c \in Selections(s, n)
    PROVE  /\ c.t # Never => c.t < Never /\ c.t >= s.supply[NextLink(c.veh, c.key)]
           /\ c.t = Never => Outgoing(s, n) = {}
<1>1. CASE Outgoing(s, n) = {}
  <2>1. c = [t |-> Never, key |-> n, veh |-> NoVeh]
    BY <1>1 DEF Selections
  <2> QED
    BY <1>1, <2>1
<1>2. CASE Outgoing(s, n) # {}
  <2> DEFINE C(o) == {[t |-> LocalTime(s, n, o), key |-> k, veh |-> MinArrival(s.arr[k]).veh] :
                        k \in Choosable(s, n, o)}
  <2>0. c \in UNION {C(o) : o \in Outgoing(s, n)}
    BY <1>2 DEF Selections
  <2>00. PICK o \in Outgoing(s, n) : c \in C(o)
    BY <2>0
  <2>1. PICK k \in Choosable(s, n, o) :
           c = [t |-> LocalTime(s, n, o), key |-> k, veh |-> MinArrival(s.arr[k]).veh]
    BY <2>00
  <2>2. o \in OutOf(n) /\ Candidates(s, n, o) # {} /\ LocalTime(s, n, o) < Never
    BY DEF Outgoing
  <2>3. NextLink(MinArrival(s.arr[k]).veh, k) = o
    BY <2>1 DEF Choosable, Candidates
  <2>4. LocalTime(s, n, o) \in Int /\ LocalTime(s, n, o) >= s.supply[o]
    BY <2>2, LocalTimeIs
  <2> QED
    BY <2>1, <2>2, <2>3, <2>4, Constants
<1> QED
  BY <1>1, <1>2

\* After its update the event of a node is right.
LEMMA NodePaced ==
    ASSUME NEW s, NEW D, NetInv(s, D), NEW G \in SUBSET Nodes, PaceInv(s, G, D), NEW n \in Nodes,
           NEW inst \in Int, inst <= Never, NEW s2 \in UpdateNode({s}, n, inst)
    PROVE  PaceInv(s2, G, D \ {n})
<1>1. PICK c \in Selections(s, n) : s2 = WithSelection(s, n, c, inst)
  BY DEF UpdateNode
<1>2. ListsOK(s)
  BY DEF ListsOK, NetInv, Placed, ArrivalsOK
<1> DEFINE t == Later(c.t, inst)
<1>3. /\ s2 \in NetType /\ t \in Int /\ t >= inst /\ t >= c.t /\ (t = inst \/ t = c.t)
      /\ s2.event = [s.event EXCEPT ![n] = [t |-> t, key |-> c.key]]
      /\ s2.arr = [s.arr EXCEPT ![c.key] = OneRetimed(s.arr[c.key], c.veh, t)]
      /\ s2.next = WithKey(s.next, c.key, [t |-> t, veh |-> c.veh])
      /\ SameButTimes(s, s2, inst)
  BY <1>1, <1>2, WithSelectionIs
<1> HIDE DEF t
<1>4. /\ c.key \in InTo(n) \cup {n} /\ c.key \in Keys
      /\ c.t \in Int /\ c.t <= Never /\ c.veh \in Vehicles \cup {NoVeh}
      /\ c.t # Never => c.key \in InTo(n) /\ Listed(c.veh, s.arr[c.key])
      /\ c.t = Never => c.veh = NoVeh
  BY <1>2, SelectionIs
<1>5. s \in NetType /\ s.next \in NextMaps /\ s.arr \in [Keys -> SUBSET Arrival]
      /\ s.event \in [Nodes -> [t : Int, key : Keys]]
  BY DEF NetInv, NetType
<1>6. /\ s2.supply = s.supply /\ s2.dps = s.dps /\ s2.ups = s.ups /\ s2.cur = s.cur
      /\ s2.led = s.led
  BY <1>3 DEF SameButTimes
<1>7. t <= Never
  BY <1>3, <1>4
<1>8. /\ \A k \in Keys : k # c.key => s2.arr[k] = s.arr[k]
      /\ s2.arr[c.key] = OneRetimed(s.arr[c.key], c.veh, t)
      /\ \A m \in Nodes : m # n => s2.event[m] = s.event[m]
      /\ s2.event[n] = [t |-> t, key |-> c.key]
  BY <1>3, <1>4, <1>5
<1>9. /\ DOMAIN s.next \subseteq DOMAIN s2.next
      /\ s2.next[c.key] = [t |-> t, veh |-> c.veh]
      /\ \A j \in DOMAIN s.next : j # c.key => s2.next[j] = s.next[j]
  <2> DEFINE new == [t |-> t, veh |-> c.veh]
  <2>1. new \in MaybeArrival /\ s2.next = WithKey(s.next, c.key, new)
    BY <1>3, <1>4 DEF MaybeArrival
  <2> HIDE DEF new
  <2>2. OneChanged(s2.next, s.next, c.key, new)
    BY <1>4, <1>5, <2>1, NextSet
  <2> QED
    BY <2>2 DEF new, OneChanged
<1>10. \A k \in Keys : \A b \in s2.arr[k] : \E a \in s.arr[k] : b.veh = a.veh /\ (b.t = a.t \/ b.t = t)
  <2> SUFFICES ASSUME NEW k \in Keys, NEW b \in s2.arr[k]
               PROVE  \E a \in s.arr[k] : b.veh = a.veh /\ (b.t = a.t \/ b.t = t)
    OBVIOUS
  <2>1. CASE k # c.key
    BY <1>8, <2>1
  <2>2. CASE k = c.key
    <3>1. PICK a \in s.arr[k] : b = IF a.veh = c.veh THEN [a EXCEPT !.t = t] ELSE a
      BY <1>8, <2>2 DEF OneRetimed
    <3>2. a \in [t : Int, veh : Vehicles]
      BY <1>5 DEF Arrival
    <3> QED
      BY <3>1, <3>2
  <2> QED
    BY <2>1, <2>2
<1>11. TimesOK(s2)
  <2>1. \A k \in Keys : \A a \in s2.arr[k] : a.t <= Never
    BY <1>7, <1>10 DEF PaceInv, TimesOK
  <2> QED
    BY <1>6, <2>1 DEF PaceInv, TimesOK
<1>12. ComesIn(s2)
  <2>1. Micro \subseteq Keys
    BY DEF Micro, Keys
  <2> QED
    BY <1>10, <2>1 DEF PaceInv, ComesIn
<1>13. LinksPaced(s2) /\ ExitsPaced(s2)
  BY <1>6 DEF PaceInv, LinksPaced, ExitsPaced, GapKept
<1>14. ASSUME NEW m \in G, m \notin D \ {n} PROVE AfterSupply(s2, m)
  <2>1. CASE m = n
    <3> SUFFICES ASSUME t # Never PROVE t >= s.supply[NextLink(c.veh, c.key)]
      BY <1>6, <1>8, <1>9, <2>1 DEF AfterSupply
    <3>1. c.t # Never
      BY <1>3, <1>4, <1>7, Constants
    <3>2. c.t >= s.supply[NextLink(c.veh, c.key)]
      BY <1>2, <3>1, ChosenTimes
    <3>3. s.supply[NextLink(c.veh, c.key)] \in Int
      <4>1. PICK a \in s.arr[c.key] : a.veh = c.veh
        BY <1>4, <3>1 DEF Listed
      <4>2. NextLink(c.veh, c.key) \in Keys
        BY <1>4, <4>1, WantedGoes
      <4> QED
        BY <1>5, <4>2 DEF NetType
    <3> QED
      BY <1>3, <1>4, <3>2, <3>3
  <2>2. CASE m # n
    <3>1. m \in Nodes \ D /\ AfterSupply(s, m) /\ s2.event[m] = s.event[m]
      BY <1>8, <1>14, <2>2 DEF PaceInv
    <3>2. ASSUME NEW k \in DOMAIN s.next, s.event[m].t # Never, k = s.event[m].key
          PROVE  s2.next[k] = s.next[k]
      <4>1. k \in InTo(m) \cup {m}
        BY <3>1, <3>2, EventOf
      <4>2. k # c.key
        BY <1>4, <2>2, <3>1, <4>1, KeyOwner
      <4> QED
        BY <1>9, <4>2
    <3> QED
      BY <1>6, <3>1, <3>2, AfterSupplyKept
  <2> QED
    BY <2>1, <2>2
<1>15. ASSUME NEW m \in Nodes, m \notin D \ {n} PROVE Wakes(s2, m)
  <2>1. CASE m = n
    <3> SUFFICES ASSUME \A k \in InTo(n) : \A a \in s2.arr[k] : a.t # Never,
                        NEW k \in InTo(n), s2.arr[k] # {}, t = Never
                 PROVE  s2.supply[NextLink(MinArrival(s2.arr[k]).veh, k)] = Never
      BY <1>8, <2>1 DEF Wakes
    <3>1. c.t = Never
      <4> SUFFICES ASSUME c.t # Never PROVE FALSE
        OBVIOUS
      <4>1. c.key \in InTo(n) /\ Listed(c.veh, s.arr[c.key])
        BY <1>4
      <4>2. [t |-> t, veh |-> c.veh] \in s2.arr[c.key]
        <5>1. Proper(s.arr[c.key]) /\ s.arr[c.key] \in SUBSET Arrival
          BY <1>2, <1>4, <1>5 DEF ListsOK
        <5> QED
          BY <1>3, <1>8, <4>1, <5>1, OneRetimedIs
      <4> QED
        BY <4>1, <4>2
    <3>2. Outgoing(s, n) = {} /\ c.veh = NoVeh
      BY <1>2, <1>4, <3>1, ChosenTimes
    <3>3. k \in Keys /\ s2.arr[k] = s.arr[k]
      <4>1. k \in Keys
        BY KeysOf
      <4>2. \A a \in s.arr[k] : a.veh # c.veh
        <5>1. \A a \in s.arr[k] : a.veh \in Vehicles
          BY <1>5, <4>1 DEF Arrival
        <5> QED
          BY <3>2, <5>1, VehicleNumbers DEF NoVeh
      <4>3. OneRetimed(s.arr[k], c.veh, t) = s.arr[k]
        BY <4>2 DEF OneRetimed
      <4> QED
        BY <1>8, <4>1, <4>3
    <3> DEFINE a == MinArrival(s.arr[k])
               o == NextLink(a.veh, k)
    <3>4. a \in s.arr[k] /\ a.t \in Int
      BY <1>2, <3>3, FirstOf
    <3> HIDE DEF a
    <3>5. Goes(n, o) /\ o \in Keys /\ (k \notin Micro => o \in OutOf(n))
      BY <3>4, WantedGoes
    <3>6. o \in OutOf(n)
      <4>1. ASSUME k \in Micro PROVE o \in OutOf(n)
        <5>1. o \in Meso
          BY <3>4, <4>1 DEF PaceInv, ComesIn
        <5>2. o \in Links /\ From[o] = n
          BY <3>5, <5>1, Constants DEF Goes
        <5> QED
          BY <5>2 DEF OutOf
      <4> QED
        BY <3>5, <4>1
    <3>7. k \in Candidates(s, n, o)
      BY <3>3, <3>4 DEF Candidates, a
    <3> HIDE DEF o
    <3>8. LocalTime(s, n, o) >= Never /\ LocalTime(s, n, o) \in Int
      BY <1>2, <3>2, <3>6, <3>7, NothingChosen, LocalTimeIs
    <3>9. LocalTime(s, n, o) = s.supply[o] \/ LocalTime(s, n, o) <= a.t
      BY <1>2, <3>6, <3>7, LocalTimeFirst DEF a
    <3>10. a.t <= Never /\ a.t # Never
      BY <3>3, <3>4 DEF PaceInv, TimesOK
    <3>11. s.supply[o] \in Int /\ s.supply[o] <= Never
      BY <1>5, <3>5 DEF NetType, PaceInv, TimesOK
    <3>12. s.supply[o] = Never
      BY <3>4, <3>8, <3>9, <3>10, <3>11, Constants
    <3> QED
      BY <1>6, <3>3, <3>12 DEF o, a
  <2>2. CASE m # n
    <3>1. Wakes(s, m) /\ s2.event[m] = s.event[m]
      BY <1>8, <1>15, <2>2 DEF PaceInv
    <3>2. ASSUME NEW k \in InTo(m) PROVE s2.arr[k] = s.arr[k]
      <4>1. k \in Keys
        BY KeysOf
      <4>2. k # c.key
        BY <1>4, <2>2, KeyOwner
      <4> QED
        BY <1>8, <4>1, <4>2
    <3> QED
      BY <1>6, <3>1, <3>2, WakesKept
  <2> QED
    BY <2>1, <2>2
<1> QED
  BY <1>11, <1>12, <1>13, <1>14, <1>15 DEF PaceInv

\* After the updates of the nodes of todo the events of all are right.
LEMMA AllPaced ==
    ASSUME NEW s, NEW D, NetInv(s, D), NEW G \in SUBSET Nodes, PaceInv(s, G, D),
           NEW todo \in Seq(Nodes), \A n \in D : Occurs(n, todo),
           NEW inst \in Int, inst <= Never, NEW s2 \in Updated(s, todo, inst)
    PROVE  PaceInv(s2, G, {})
<1> DEFINE Left(i) == D \ {todo[j] : j \in 1 .. i}
<1>1. PICK f : Chain(f, s, todo, inst) /\ Updated(s, todo, inst) = f[Len(todo)]
  BY UpdateChain
<1>2. Len(todo) \in Nat /\ DOMAIN todo = 1 .. Len(todo) /\ \A i \in 1 .. Len(todo) : todo[i] \in Nodes
  BY LenProperties, ElementOfSeq
<1> DEFINE H == {i \in Nat : i <= Len(todo) =>
                     \A x \in f[i] : NetInv(x, Left(i)) /\ PaceInv(x, G, Left(i))}
<1>3. 0 \in H
  <2>1. f[0] = {s}
    BY <1>1 DEF Chain
  <2>2. Left(0) = D
    OBVIOUS
  <2> HIDE DEF Left
  <2> QED
    BY <2>1, <2>2
<1>4. \A i \in Nat : i \in H => i + 1 \in H
  <2> TAKE i \in Nat
  <2> HAVE i \in H
  <2> SUFFICES ASSUME i + 1 <= Len(todo), NEW y \in f[i + 1]
               PROVE  NetInv(y, Left(i + 1)) /\ PaceInv(y, G, Left(i + 1))
    OBVIOUS
  <2>1. i + 1 \in 1 .. Len(todo) /\ (i + 1) - 1 = i /\ i <= Len(todo)
    BY <1>2
  <2>2. y \in UpdateNode(f[i], todo[i + 1], inst)
    BY <1>1, <2>1 DEF Chain
  <2>3. PICK x \in f[i] : y \in UpdateNode({x}, todo[i + 1], inst)
    BY <2>2 DEF UpdateNode
  <2>4. NetInv(x, Left(i)) /\ PaceInv(x, G, Left(i))
    <3> HIDE DEF Left
    <3> QED
      BY <2>1, <2>3
  <2>5. NetInv(y, Left(i) \ {todo[i + 1]}) /\ PaceInv(y, G, Left(i) \ {todo[i + 1]})
    <3> HIDE DEF Left
    <3>1. todo[i + 1] \in Nodes
      BY <1>2, <2>1
    <3> QED
      BY <2>3, <2>4, <3>1, NodeUpdated, NodePaced
  <2>6. Left(i) \ {todo[i + 1]} = Left(i + 1)
    <3>1. \A j \in 1 .. i + 1 : j \in 1 .. i \/ j = i + 1
      OBVIOUS
    <3>2. \A j \in 1 .. i : j \in 1 .. i + 1
      OBVIOUS
    <3>3. i + 1 \in 1 .. i + 1
      OBVIOUS
    <3> QED
      BY <3>1, <3>2, <3>3
  <2> QED
    BY <2>5, <2>6
<1>5. Len(todo) \in H
  <2> HIDE DEF H
  <2> QED
    BY <1>2, <1>3, <1>4, NatSetInduction
<1>6. Left(Len(todo)) = {}
  BY <1>2 DEF Occurs
<1>7. s2 \in f[Len(todo)] /\ Len(todo) <= Len(todo)
  BY <1>1, <1>2
<1> HIDE DEF Left
<1>8. PaceInv(s2, G, Left(Len(todo)))
  BY <1>5, <1>7
<1> QED
  BY <1>6, <1>8

--------------------------------------------------------------------------------
(* The supply times computed again *)

\* The times a call may be made at.
CallTime(inst) == inst \in Int /\ (inst = Never \/ inst < LastInstant + TimeStep)

\* The last element of a list of times.
LEMMA LastOf ==
    ASSUME NEW q \in Seq(Int), q # <<>>
    PROVE  Len(q) \in DOMAIN q /\ Last(q) = q[Len(q)] /\ Last(q) \in Int
<1>1. Len(q) \in 1 .. Len(q) /\ DOMAIN q = 1 .. Len(q)
  BY EmptySeq, LenProperties
<1> QED
  BY <1>1, ElementOfSeq DEF Last

\* What the times of a link bound.
LEMMA LinkTimes ==
    ASSUME NEW s, NEW D, NetInv(s, D), TimesOK(s), NEW l \in Meso
    PROVE  /\ s.cur[l] \in Seq(Vehicles) /\ s.dps[l] \in Seq(Int) /\ s.ups[l] \in Seq(Int)
           /\ s.cur[l] # <<>> <=> s.arr[l] # {}
           /\ s.cur[l] # <<>> => s.dps[l] # <<>>
           /\ s.dps[l] # <<>> => Last(s.dps[l]) \in Int /\ Last(s.dps[l]) + Headway <= Never
           /\ RefRank(s, l) \in Int
           /\ RefRank(s, l) > 1 => GapTime(s, l) \in Int /\ GapTime(s, l) <= Never
<1>1. /\ s.cur[l] \in Seq(Vehicles) /\ s.dps[l] \in Seq(Int) /\ s.ups[l] \in Seq(Int)
      /\ RefRank(s, l) \in Int
      /\ RefRank(s, l) > 1 => GapTime(s, l) \in Int
  BY EnteredTimes
<1>2. s.cur[l] # <<>> <=> s.arr[l] # {}
  <2>1. DOMAIN s.cur[l] = 1 .. Len(s.cur[l]) /\ Len(s.cur[l]) \in Nat
        /\ (s.cur[l] = <<>> <=> Len(s.cur[l]) = 0)
    BY <1>1, LenProperties, EmptySeq
  <2>2. \A a \in s.arr[l] : a.veh \in Vehicles /\ Listed(a.veh, s.arr[l])
    BY Constants DEF NetInv, NetType, Arrival, Listed, Keys
  <2>3. \A v \in Vehicles : Occurs(v, s.cur[l]) <=> Listed(v, s.arr[l])
    BY DEF NetInv, Placed, LinksOK
  <2>4. ASSUME s.cur[l] # <<>> PROVE s.arr[l] # {}
    <3>1. 1 \in DOMAIN s.cur[l] /\ s.cur[l][1] \in Vehicles
      BY <1>1, <2>1, <2>4, ElementOfSeq
    <3> QED
      BY <2>3, <3>1 DEF Occurs, Listed
  <2>5. ASSUME s.arr[l] # {} PROVE s.cur[l] # <<>>
    BY <2>1, <2>2, <2>3, <2>5 DEF Occurs
  <2> QED
    BY <2>4, <2>5
<1>3. s.cur[l] # <<>> => s.dps[l] # <<>>
  <2>1. Len(s.cur[l]) = Len(s.dps[l]) - Len(s.ups[l])
    BY DEF NetInv, Counted
  <2>2. Len(s.cur[l]) \in Nat /\ Len(s.dps[l]) \in Nat /\ Len(s.ups[l]) \in Nat
    BY <1>1, LenProperties
  <2>3. (s.cur[l] = <<>> <=> Len(s.cur[l]) = 0) /\ (s.dps[l] = <<>> <=> Len(s.dps[l]) = 0)
    BY <1>1, EmptySeq
  <2> QED
    BY <2>1, <2>2, <2>3
<1>4. ASSUME s.dps[l] # <<>>
      PROVE  Last(s.dps[l]) \in Int /\ Last(s.dps[l]) + Headway <= Never
  <2>1. Len(s.dps[l]) \in DOMAIN s.dps[l] /\ Last(s.dps[l]) = s.dps[l][Len(s.dps[l])]
        /\ Last(s.dps[l]) \in Int
    BY <1>1, <1>4, LastOf
  <2>2. Last(s.dps[l]) < LastInstant + TimeStep
    BY <2>1, Constants DEF TimesOK
  <2> QED
    BY <2>1, <2>2, Horizon, Constants
<1>5. ASSUME RefRank(s, l) > 1 PROVE GapTime(s, l) <= Never
  <2>1. CASE RefRank(s, l) >= Len(s.ups[l])
    BY <2>1, Constants DEF GapTime
  <2>2. CASE ~(RefRank(s, l) >= Len(s.ups[l]))
    <3>1. RefRank(s, l) \in DOMAIN s.ups[l]
      <4>1. Len(s.ups[l]) \in Nat /\ DOMAIN s.ups[l] = 1 .. Len(s.ups[l])
        BY <1>1, LenProperties
      <4>2. RefRank(s, l) \in 1 .. Len(s.ups[l])
        BY <1>1, <1>5, <2>2, <4>1
      <4> QED
        BY <4>1, <4>2
    <3>2. s.ups[l][RefRank(s, l)] < LastInstant + TimeStep /\ s.ups[l][RefRank(s, l)] \in Int
      BY <1>1, <3>1, ElementOfSeq, LenProperties DEF TimesOK
    <3>3. GapTime(s, l) = s.ups[l][RefRank(s, l)] + Wave[l]
      BY <2>2 DEF GapTime
    <3> QED
      BY <3>2, <3>3, Horizon, Constants
  <2> QED
    BY <2>1, <2>2
<1> QED
  BY <1>1, <1>2, <1>3, <1>4, <1>5

\* What the new computation of postponed supply times gives, and what it leaves.
LEMMA RefreshedFields ==
    ASSUME NEW s, NetInv(s, {}), NEW inst \in Int, NEW s2, s2 = Refreshed(s, inst)
    PROVE  /\ \A k \in Keys : k \notin Postponed(s) => s2.supply[k] = s.supply[k]
           /\ \A l \in Postponed(s) :
                s2.supply[l] = IF l \in Meso THEN RefreshedMeso(s, l) ELSE RefreshedMicro(s, l, inst)
           /\ \A k \in DOMAIN s.next : ~TakesUp(s, k) => s2.next[k] = s.next[k]
<1> DEFINE up == {n \in Nodes : TakesUp(s, n)}
           h == [n \in up |-> MinArrival(s.arr[n])]
           q == [l \in Postponed(s) |-> IF l \in Meso THEN RefreshedMeso(s, l)
                                        ELSE RefreshedMicro(s, l, inst)]
           x == Over(q, s.supply)
           y == Over(h, s.next)
<1>1. s2 = [s EXCEPT !.supply = x, !.next = y]
  BY DEF Refreshed
<1>2. s \in NetType /\ DOMAIN s.supply = Keys
  BY DEF NetInv, NetType
<1>3. s2.supply = x /\ s2.next = y
  <2> HIDE DEF x, y
  <2> QED
    BY <1>1, <1>2 DEF NetType
<1>4. \A k \in DOMAIN q \cup Keys : x[k] = IF k \in DOMAIN q THEN q[k] ELSE s.supply[k]
  BY <1>2 DEF Over
<1>5. \A k \in DOMAIN s.next : y[k] = IF k \in DOMAIN h THEN h[k] ELSE s.next[k]
  BY DEF Over
<1> HIDE DEF x, y
<1>6. \A l \in Postponed(s) : l \in DOMAIN q /\ q[l] = IF l \in Meso THEN RefreshedMeso(s, l)
                                        ELSE RefreshedMicro(s, l, inst)
  OBVIOUS
<1>7. DOMAIN q = Postponed(s) /\ DOMAIN h = up
  OBVIOUS
<1> HIDE DEF q, h
<1> QED
  BY <1>3, <1>4, <1>5, <1>6, <1>7

\* It keeps the headways and does not go beyond DBL_MAX.
LEMMA RefreshedBounds ==
    ASSUME NEW s, NetInv(s, {}), TimesOK(s), NEW inst, CallTime(inst), NEW l \in Links
    PROVE  (IF l \in Meso THEN RefreshedMeso(s, l) ELSE RefreshedMicro(s, l, inst)) <= Never
<1>1. ASSUME l \in Meso PROVE RefreshedMeso(s, l) <= Never
  <2>1. CASE s.arr[l] = {}
    BY <2>1, Constants DEF RefreshedMeso
  <2>2. CASE s.arr[l] # {}
    <3>1. /\ Last(s.dps[l]) \in Int /\ Last(s.dps[l]) + Headway <= Never /\ RefRank(s, l) \in Int
          /\ (RefRank(s, l) > 1 => GapTime(s, l) \in Int /\ GapTime(s, l) <= Never)
      BY <1>1, <2>2, LinkTimes
    <3> DEFINE x == Last(s.dps[l]) + Headway
               y == IF RefRank(s, l) > 1 THEN GapTime(s, l) ELSE Past
    <3>2. x \in Int /\ y \in Int /\ x <= Never /\ y <= Never
      BY <3>1, Constants
    <3>3. RefreshedMeso(s, l) = Later(x, y)
      BY <2>2 DEF RefreshedMeso
    <3> HIDE DEF x, y
    <3> QED
      BY <3>2, <3>3 DEF Later
  <2> QED
    BY <2>1, <2>2
<1>2. RefreshedMicro(s, l, inst) <= Never
  <2> DEFINE x == IF s.dps[l] = <<>> THEN Past ELSE Last(s.dps[l]) + Headway
             y == IF inst = Never THEN Past ELSE inst
             z == s.clock - TimeStep
  <2>1. x \in Int /\ x <= Never
    <3>1. s.dps[l] \in Seq(Int)
      BY DEF NetInv, NetType
    <3>2. ASSUME s.dps[l] # <<>> PROVE Last(s.dps[l]) \in Int /\ Last(s.dps[l]) < LastInstant + TimeStep
      BY <3>1, <3>2, LastOf DEF TimesOK
    <3> QED
      BY <3>2, Horizon, Constants
  <2>2. y \in Int /\ y <= Never
    BY Constants, Horizon DEF CallTime
  <2>3. z \in Int /\ z <= Never
    BY Constants DEF NetInv, NetType
  <2>4. RefreshedMicro(s, l, inst) \in {Past, Never, Later(Later(z, x), y)}
    BY DEF RefreshedMicro
  <2> HIDE DEF x, y, z
  <2>5. Later(Later(z, x), y) <= Never
    BY <2>1, <2>2, <2>3 DEF Later
  <2> QED
    BY <2>4, <2>5, Constants
<1> QED
  BY <1>1, <1>2

\* The time of a gap is one at which it is back.
LEMMA GapTimeBack ==
    ASSUME NEW s \in NetType, NEW l \in Meso, s.cur[l] # <<>>,
           NEW t \in Int, RefRank(s, l) > 1 => t >= GapTime(s, l) /\ t <= Never
    PROVE  GapBack(t, Len(s.dps[l]) - Room[l], s.ups[l], Wave[l])
<1>1. RefRank(s, l) = Len(s.dps[l]) - Room[l]
  BY DEF RefRank
<1> SUFFICES ASSUME RefRank(s, l) > 1
             PROVE  t = Never \/ (RefRank(s, l) < Len(s.ups[l])
                                 /\ t >= s.ups[l][RefRank(s, l)] + Wave[l])
  BY <1>1 DEF GapBack
<1>2. RefRank(s, l) \in Int /\ Len(s.ups[l]) \in Nat
  <2>1. s.dps[l] \in Seq(Int) /\ s.ups[l] \in Seq(Int)
    BY Constants DEF NetType
  <2>2. Len(s.dps[l]) \in Nat /\ Len(s.ups[l]) \in Nat
    BY <2>1, LenProperties
  <2> QED
    BY <1>1, <2>2, Constants
<1>3. CASE RefRank(s, l) >= Len(s.ups[l])
  BY <1>3, Constants DEF GapTime
<1>4. CASE ~(RefRank(s, l) >= Len(s.ups[l]))
  BY <1>2, <1>4 DEF GapTime
<1> QED
  BY <1>3, <1>4

\* The nodes of the postponed links, which are to be updated.
Late(s) == {From[l] : l \in Postponed(s)}

\* After it the nodes whose supply times were computed are to be updated.
LEMMA RefreshedPaced ==
    ASSUME NEW s, NetInv(s, {}), NEW G \in SUBSET Nodes, PaceInv(s, G, {}),
           NEW inst, CallTime(inst), NEW s2, s2 = Refreshed(s, inst)
    PROVE  PaceInv(s2, G, Late(s)) /\ \A n \in G : AfterSupply(s2, n)
<1>0. inst \in Int
  BY DEF CallTime
<1>1. NetInv(s2, {}) /\ SameButSupply(s, s2)
  BY <1>0, RefreshedIs
<1>2. /\ s2.event = s.event /\ s2.arr = s.arr /\ s2.cur = s.cur /\ s2.dps = s.dps /\ s2.ups = s.ups
      /\ s2.led = s.led
  BY <1>1 DEF SameButSupply
<1>3. /\ \A k \in Keys : k \notin Postponed(s) => s2.supply[k] = s.supply[k]
      /\ \A l \in Postponed(s) :
           s2.supply[l] = IF l \in Meso THEN RefreshedMeso(s, l) ELSE RefreshedMicro(s, l, inst)
      /\ \A k \in DOMAIN s.next : ~TakesUp(s, k) => s2.next[k] = s.next[k]
  BY <1>0, RefreshedFields
<1>4. TimesOK(s) /\ ComesIn(s) /\ LinksPaced(s) /\ ExitsPaced(s)
  BY DEF PaceInv
<1>5. Postponed(s) \subseteq Links /\ \A l \in Postponed(s) : From[l] \in Nodes /\ s.supply[l] = Never
  BY DEF Postponed
<1>6. TimesOK(s2)
  <2>1. \A k \in Keys : s2.supply[k] <= Never
    <3> TAKE k \in Keys
    <3>1. CASE k \in Postponed(s)
      BY <1>3, <1>4, <1>5, <3>1, RefreshedBounds
    <3>2. CASE k \notin Postponed(s)
      BY <1>3, <1>4, <3>2 DEF TimesOK
    <3> QED
      BY <3>1, <3>2
  <2> QED
    BY <1>2, <1>4, <2>1 DEF TimesOK
<1>7. ComesIn(s2)
  BY <1>2, <1>4 DEF ComesIn
<1>8. LinksPaced(s2)
  <2> SUFFICES ASSUME NEW l \in Meso, From[l] \notin Origins, s.cur[l] # <<>>
               PROVE  /\ s2.supply[l] >= Last(s.dps[l]) + Headway
                      /\ s.led[l] => GapBack(s2.supply[l], Len(s.dps[l]) - Room[l], s.ups[l], Wave[l])
    BY <1>2 DEF LinksPaced, GapKept
  <2>1. CASE l \notin Postponed(s)
    <3>1. s2.supply[l] = s.supply[l]
      BY <1>3, <2>1, Constants DEF Keys
    <3> QED
      BY <1>4, <3>1 DEF LinksPaced, GapKept
  <2>2. CASE l \in Postponed(s)
    <3>1. /\ s.arr[l] # {} /\ Last(s.dps[l]) \in Int /\ RefRank(s, l) \in Int
          /\ (RefRank(s, l) > 1 => GapTime(s, l) \in Int)
      BY <1>4, LinkTimes
    <3> DEFINE x == Last(s.dps[l]) + Headway
               y == IF RefRank(s, l) > 1 THEN GapTime(s, l) ELSE Past
    <3>2. x \in Int /\ y \in Int
      BY <3>1, Constants
    <3>3. s2.supply[l] = Later(x, y)
      BY <1>3, <2>2, <3>1 DEF RefreshedMeso
    <3>4. RefRank(s, l) > 1 => y = GapTime(s, l) /\ s2.supply[l] <= Never
      BY <1>3, <1>4, <2>2, RefreshedBounds DEF Postponed
    <3> HIDE DEF x, y
    <3>5. s2.supply[l] \in Int /\ s2.supply[l] >= x /\ s2.supply[l] >= y
      BY <3>2, <3>3, LaterIs
    <3>6. GapBack(s2.supply[l], Len(s.dps[l]) - Room[l], s.ups[l], Wave[l])
      <4>1. s \in NetType
        BY DEF NetInv
      <4>2. RefRank(s, l) > 1 => s2.supply[l] >= GapTime(s, l) /\ s2.supply[l] <= Never
        BY <3>4, <3>5
      <4> QED
        BY <3>5, <4>1, <4>2, GapTimeBack
    <3> QED
      BY <3>5, <3>6 DEF x
  <2> QED
    BY <2>1, <2>2
<1>9. ExitsPaced(s2)
  <2>1. \A l \in Meso : s2.supply[To[l]] = s.supply[To[l]]
    BY <1>3, <1>5, Constants DEF Keys
  <2> QED
    BY <1>2, <1>4, <2>1 DEF ExitsPaced
<1>10. ASSUME NEW n \in G PROVE AfterSupply(s2, n)
  <2> DEFINE D == {}
  <2>0. NetInv(s, D) /\ n \in Nodes \ D
    BY <1>10
  <2>1. ASSUME NEW k \in DOMAIN s.next, s.event[n].t # Never, k = s.event[n].key
        PROVE  s2.next[k] = s.next[k]
    <3>1. s.next[k].veh # NoVeh
      BY <2>0, <2>1, EventOf
    <3>2. ~TakesUp(s, k)
      BY <3>1 DEF TakesUp, NextArrival
    <3> QED
      BY <1>3, <3>2
  <2>2. \A o \in Keys : Goes(n, o) /\ s.supply[o] # Never => s2.supply[o] = s.supply[o]
    BY <1>3, <1>5
  <2>3. AfterSupply(s, n) /\ s2.event[n] = s.event[n]
    BY <1>2 DEF PaceInv
  <2> HIDE DEF D
  <2> QED
    BY <2>0, <2>1, <2>2, <2>3, AfterSupplyKept
<1>11. ASSUME NEW n \in Nodes, n \notin Late(s) PROVE Wakes(s2, n)
  <2>1. ASSUME NEW o \in Keys, Goes(n, o) PROVE s2.supply[o] = s.supply[o]
    <3>1. o \notin Postponed(s)
      BY <1>5, <1>11, <2>1, Constants DEF Goes, Late
    <3> QED
      BY <1>3, <3>1
  <2>2. Wakes(s, n)
    BY DEF PaceInv
  <2>3. s2.event[n] = s.event[n] /\ \A k \in InTo(n) : s2.arr[k] = s.arr[k]
    BY <1>2
  <2> QED
    BY <2>1, <2>2, <2>3, WakesKept
<1> QED
  BY <1>6, <1>7, <1>8, <1>9, <1>10, <1>11 DEF PaceInv

\* They all are in the list.
LEMMA LateUpdated ==
    ASSUME NEW s
    PROVE  \A n \in Late(s) : Occurs(n, RefreshedNodes(s))
<1> DEFINE P == Postponed(s)
           q == SetToSeq(P)
<1>1. P \in SUBSET Links
  BY DEF Postponed
<1>2. IsFiniteSet(P)
  <2> HIDE DEF P
  <2> QED
    BY <1>1, Constants, FS_Subset
<1>3. Cardinality(P) \in Nat /\ q \in [1 .. Cardinality(P) -> P] /\ IsInjective(q)
  <2> HIDE DEF P
  <2>1. Cardinality(P) \in Nat
    BY <1>2, FS_CardinalityType
  <2>2. PICK f : f \in Bijection(1 .. Cardinality(P), P)
    BY <1>2, FS_NatBijection, FS_CardinalityType, FS_CountingElements DEF ExistsBijection
  <2>3. f \in [1 .. Cardinality(P) -> P] /\ IsInjective(f)
    BY <2>2 DEF Bijection, Injection, IsInjective
  <2> QED
    BY <2>1, <2>3 DEF SetToSeq
<1>4. RefreshedNodes(s) = [i \in 1 .. Cardinality(P) |-> From[q[i]]]
  BY <1>3 DEF RefreshedNodes
<1> DEFINE N == 1 .. Cardinality(P)
           R == {q[i] : i \in N}
<1>5. R = P
  <2> HIDE DEF P, q
  <2>1. q \in Surjection(N, R) /\ q \in Injection(N, R)
    BY <1>3 DEF Surjection, Injection, IsInjective
  <2>2. IsFiniteSet(N) /\ Cardinality(N) = Cardinality(P)
    BY <1>3, FS_Interval
  <2>3. q \in Bijection(N, R) /\ R \in SUBSET P
    BY <1>3, <2>1 DEF Bijection
  <2>4. Cardinality(R) = Cardinality(P)
    <3> HIDE DEF N, R
    <3> QED
      BY <2>2, <2>3, FS_Bijection DEF ExistsBijection
  <2> HIDE DEF R
  <2> QED
    BY <1>2, <2>3, <2>4, FS_Subset
<1> SUFFICES ASSUME NEW l \in P PROVE Occurs(From[l], RefreshedNodes(s))
  BY DEF Late
<1> HIDE DEF P, q
<1>6. PICK i \in N : l = q[i]
  BY <1>5
<1> QED
  BY <1>4, <1>6 DEF Occurs

--------------------------------------------------------------------------------
(* The times after a passage *)

\* The time of a gap, before DBL_MAX or at it.
LEMMA GapTimeBounds ==
    ASSUME NEW s \in NetType, NEW l \in Meso, RefRank(s, l) > 1,
           \A i \in DOMAIN s.ups[l] : s.ups[l][i] < LastInstant + TimeStep
    PROVE  GapTime(s, l) \in Int /\ GapTime(s, l) <= Never
<1>1. GapTime(s, l) \in Int
  BY GapTimeIs
<1>2. /\ s.cur[l] \in Seq(Vehicles) /\ s.dps[l] \in Seq(Int) /\ s.ups[l] \in Seq(Int)
  BY Constants DEF NetType
<1>3. Len(s.cur[l]) \in Nat /\ Len(s.dps[l]) \in Nat /\ Len(s.ups[l]) \in Nat
      /\ DOMAIN s.ups[l] = 1 .. Len(s.ups[l])
  BY <1>2, LenProperties
<1>4. RefRank(s, l) \in Int
  BY <1>3, Constants DEF RefRank
<1>5. CASE RefRank(s, l) >= Len(s.ups[l])
  BY <1>1, <1>5, Constants DEF GapTime
<1>6. CASE ~(RefRank(s, l) >= Len(s.ups[l]))
  <2>1. RefRank(s, l) \in 1 .. Len(s.ups[l])
    BY <1>3, <1>4, <1>6
  <2>2. s.ups[l][RefRank(s, l)] \in Int /\ s.ups[l][RefRank(s, l)] < LastInstant + TimeStep
    BY <1>2, <1>3, <2>1, ElementOfSeq
  <2>3. GapTime(s, l) = s.ups[l][RefRank(s, l)] + Wave[l]
    BY <1>6 DEF GapTime
  <2> QED
    BY <1>1, <2>2, <2>3, Horizon, Constants
<1> QED
  BY <1>5, <1>6

\* The supply time keeps the headway and stays in its bounds.
Spacing(s2, l, inst) ==
    /\ s2.supply[l] \in Int /\ s2.supply[l] <= Never
    /\ l \in Nodes => s2.supply[l] >= inst + ExitHeadway
    /\ l \in Meso => s2.supply[l] >= inst + Headway

\* The supply time after a passage.
LEMMA SpacingIs ==
    ASSUME NEW s \in NetType, NEW l \in Keys, NEW others, NEW inst \in Int,
           inst < LastInstant + TimeStep, s.supply[l] <= Never,
           l \in Meso => \A i \in DOMAIN s.ups[l] : s.ups[l][i] < LastInstant + TimeStep,
           NEW s2, s2 = Supplied(s, l, others, inst)
    PROVE  /\ Spacing(s2, l, inst) /\ \A k \in Keys : k # l => s2.supply[k] = s.supply[k]
           /\ s2 \in NetType /\ s2.event = s.event /\ s2.arr = s.arr /\ s2.next = s.next
           /\ s2.cur = s.cur /\ s2.ups = s.ups /\ s2.dps = s.dps /\ s2.wait = s.wait
           /\ s2.led = s.led
           /\ l \in Meso /\ s.cur[l] # <<>> /\ s.ups[l] # <<>> => GapKept(s2, l)
<1> DEFINE x == [s.supply EXCEPT ![l] = SupplyAfter(s, l, others, inst)]
<1>1. s.supply \in [Keys -> Int]
  BY DEF NetType
<1>2. PICK z \in [Keys -> Int], near \in SUBSET Micro : s2 = [s EXCEPT !.supply = z, !.near = near]
  <2>1. OtherSupply(s, s2)
    BY SuppliedIs
  <2> QED
    BY <2>1 DEF OtherSupply
<1>3. /\ s2 \in NetType /\ s2.event = s.event /\ s2.arr = s.arr /\ s2.next = s.next
      /\ s2.cur = s.cur /\ s2.ups = s.ups /\ s2.dps = s.dps /\ s2.wait = s.wait
      /\ s2.led = s.led
  BY <1>2 DEF NetType
<1>4. s2.supply = x
  <2> HIDE DEF x
  <2>1. s2 = [s EXCEPT !.supply = x, !.near = IF l \in Micro THEN s.near \cup {l} ELSE s.near]
    BY DEF Supplied, x
  <2> QED
    BY <2>1 DEF NetType
<1>5. x[l] = SupplyAfter(s, l, others, inst) /\ \A k \in Keys : k # l => x[k] = s.supply[k]
  BY <1>1
<1> HIDE DEF x
<1>55. s2.supply[l] \in Int
  BY <1>3 DEF NetType
<1>6. CASE l \in Nodes
  <2>1. SupplyAfter(s, l, others, inst) = inst + ExitHeadway
    BY <1>6 DEF SupplyAfter
  <2>2. l \notin Meso
    BY <1>6, Constants
  <2>3. Spacing(s2, l, inst)
    BY <1>4, <1>5, <1>55, <1>6, <2>1, <2>2, Horizon, Constants DEF Spacing
  <2> QED
    BY <1>3, <1>4, <1>5, <2>2, <2>3
<1>7. CASE l \in Meso
  <2> DEFINE gap == IF RefRank(s, l) > 1 /\ s.ups[l] # <<>> THEN GapTime(s, l) ELSE Past
  <2>1. gap \in Int /\ gap <= Never
    BY <1>7, GapTimeBounds, Constants
  <2>2. inst + Headway \in Int /\ inst + Headway <= Never /\ l \notin Nodes
    BY <1>7, Horizon, Constants
  <2>3. SupplyAfter(s, l, others, inst) = Later(inst + Headway, gap)
    BY <1>7, <2>2 DEF SupplyAfter
  <2> HIDE DEF gap
  <2> DEFINE t == inst + Headway
  <2>4. s2.supply[l] = Later(t, gap)
    BY <1>4, <1>5, <2>3
  <2>5. Later(t, gap) >= t /\ Later(t, gap) >= gap /\ Later(t, gap) <= Never
    <3>1. t \in Int /\ t <= Never
      BY <2>2
    <3> HIDE DEF t
    <3> QED
      BY <2>1, <3>1 DEF Later
  <2>6. Spacing(s2, l, inst)
    BY <1>55, <2>2, <2>4, <2>5 DEF Spacing
  <2>7. ASSUME s.cur[l] # <<>>, s.ups[l] # <<>> PROVE GapKept(s2, l)
    <3>1. RefRank(s, l) > 1 => gap = GapTime(s, l)
      BY <2>7 DEF gap
    <3>2. RefRank(s, l) > 1 => s2.supply[l] >= GapTime(s, l) /\ s2.supply[l] <= Never
      BY <2>4, <2>5, <3>1
    <3>3. GapBack(s2.supply[l], Len(s.dps[l]) - Room[l], s.ups[l], Wave[l])
      BY <1>7, <1>55, <2>7, <3>2, GapTimeBack
    <3> QED
      BY <1>3, <3>3 DEF GapKept
  <2> QED
    BY <1>3, <1>4, <1>5, <2>6, <2>7
<1>8. CASE l \notin Nodes /\ l \notin Meso
  <2> DEFINE free ==
               IF others = <<>> THEN Past ELSE IF l \in s.near THEN Never ELSE inst + Headway
  <2>1. free \in Int /\ free <= Never
    BY Horizon, Constants
  <2>2. SupplyAfter(s, l, others, inst) = Later(s.supply[l], free)
    BY <1>8 DEF SupplyAfter
  <2> HIDE DEF free
  <2>4. Later(s.supply[l], free) <= Never
    <3>1. s.supply[l] \in Int
      BY <1>1
    <3> QED
      BY <2>1, <3>1 DEF Later
  <2>3. Spacing(s2, l, inst)
    BY <1>4, <1>5, <1>55, <1>8, <2>2, <2>4 DEF Spacing
  <2> QED
    BY <1>3, <1>4, <1>5, <1>8, <2>3
<1> QED
  BY <1>6, <1>7, <1>8

\* What the passage of a vehicle from k to l changes.
Behind(s, k, a, inst) == Raised(s.arr[k] \ {a}, inst)
Ahead(s, l, a, inst) ==
    [t |-> Later(inst + Cross[l], MaxArrivalTime(s.arr[l])), veh |-> a.veh]

Effect(s, s2, n, k, a, l, inst) ==
    LET ok == Inserted(s, n, a.veh)
    IN  /\ s2.event = s.event /\ Spacing(s2, l, inst)
        /\ \A j \in Keys : j # l => s2.supply[j] = s.supply[j]
        /\ \A j \in DOMAIN s.next : j # k /\ ~(ok /\ l \in Meso /\ j = l) => s2.next[j] = s.next[j]
        /\ s2.arr[k] = IF ok THEN Behind(s, k, a, inst) ELSE Behind(s, k, a, inst) \cup {a}
        /\ ok /\ l \in Meso => s2.arr[l] = s.arr[l] \cup {Ahead(s, l, a, inst)}
        /\ \A j \in Keys : j # k /\ ~(ok /\ l \in Meso /\ j = l) => s2.arr[j] = s.arr[j]
        /\ \A j \in Meso : s2.ups[j] = IF j = k THEN Append(s.ups[j], inst) ELSE s.ups[j]
        /\ \A j \in Links : s2.dps[j] = IF ok /\ j = l THEN Append(s.dps[j], inst) ELSE s.dps[j]
        /\ \A j \in Meso : j # l => s2.cur[j] = s.cur[j] \/ s.cur[j] # <<>>
        /\ ok /\ l \in Meso => (s2.led[l] => GapKept(s2, l))
        /\ \A j \in Meso : ~(ok /\ j = l) => s2.led[j] = s.led[j]
        /\ ok => (n \in Origins => s2.wait # s.wait)
        /\ ~ok => l \in Meso /\ s2.cur = s.cur

\* A vehicle refused is put back in the list.
Refused(s, n, k, a, inst) == [Withdrawn(s, n, k, inst) EXCEPT !.arr[k] = @ \cup {a}]

\* The vehicle is refused.
LEMMA RefusedEffect ==
    ASSUME NEW s, NetInv(s, {}), TimesOK(s), NEW n \in Nodes, NEW k, NEW a, NEW l,
           Passer(s, n, k, a, l), ~Inserted(s, n, a.veh), NEW others,
           NEW inst \in Int, inst < LastInstant + TimeStep,
           NEW kept, kept = Refused(s, n, k, a, inst), NEW s2, s2 = Supplied(kept, l, others, inst)
    PROVE  Effect(s, s2, n, k, a, l, inst)
<1> DEFINE B == Behind(s, k, a, inst)
           A == B \cup {a}
           arr == [s.arr EXCEPT ![k] = A]
           next == [s.next EXCEPT ![k] = MinArrival(B)]
<1>0. n \in Origins
  BY DEF Inserted
<1>1. /\ k = n /\ k \notin Meso /\ k \in Keys /\ k \in DOMAIN s.next /\ l \in Meso /\ k # l
      /\ a = s.next[k] /\ a \in s.arr[k] /\ a \in Arrival /\ l \in Keys /\ l \in Links
  <2> HIDE DEF B, A, arr, next
  <2>1. n \notin Meso /\ l \in Meso => l \in Links /\ l \notin Nodes
    BY Constants
  <2> QED
    BY <1>0, <2>1, Constants DEF Passer
<1>2. /\ s \in NetType /\ s.arr \in [Keys -> SUBSET Arrival] /\ s.next \in NextMaps
  BY DEF NetInv, NetType
<1>3. kept = [s EXCEPT !.arr = arr, !.next = next]
  <2>1. Withdrawn(s, n, k, inst) = [s EXCEPT !.arr = [s.arr EXCEPT ![k] = B], !.next = next]
    BY <1>1, <1>2 DEF Withdrawn, NetType, Behind
  <2>2. [s.arr EXCEPT ![k] = B][k] = B
    BY <1>1, <1>2
  <2>3. [[s.arr EXCEPT ![k] = B] EXCEPT ![k] = A] = arr
    BY <1>1, <1>2
  <2> HIDE DEF B, A, next
  <2> QED
    BY <1>2, <2>1, <2>2, <2>3 DEF NetType, A, Refused
<1>4. B \in SUBSET Arrival /\ MinArrival(B) \in MaybeArrival
  <2>1. k \in Keys /\ a \in s.arr[k] /\ NetInv(s, {})
    BY <1>1
  <2> HIDE DEF A, arr, next
  <2> QED
    BY <2>1, BehindIs DEF Behind
<1> HIDE DEF B
<1>5. arr \in [Keys -> SUBSET Arrival] /\ \A j \in Keys : arr[j] = IF j = k THEN A ELSE s.arr[j]
  BY <1>1, <1>2, <1>4
<1>6. next \in NextMaps /\ OneChanged(next, s.next, k, MinArrival(B))
  BY <1>1, <1>2, <1>4, NextExcept
<1> HIDE DEF arr, next, A
<1>7. /\ kept \in NetType /\ kept.event = s.event /\ kept.arr = arr /\ kept.next = next
      /\ kept.cur = s.cur /\ kept.wait = s.wait /\ kept.dps = s.dps /\ kept.ups = s.ups
      /\ kept.supply = s.supply /\ kept.led = s.led
  BY <1>2, <1>3, <1>5, <1>6 DEF NetType
<1>8. /\ Spacing(s2, l, inst) /\ \A j \in Keys : j # l => s2.supply[j] = kept.supply[j]
      /\ s2.event = kept.event /\ s2.arr = kept.arr /\ s2.next = kept.next
      /\ s2.cur = kept.cur /\ s2.ups = kept.ups /\ s2.dps = kept.dps /\ s2.led = kept.led
  <2>1. kept.supply[l] <= Never /\ kept \in NetType
    BY <1>1, <1>7 DEF TimesOK
  <2>2. l \in Meso => \A i \in DOMAIN kept.ups[l] : kept.ups[l][i] < LastInstant + TimeStep
    BY <1>7 DEF TimesOK
  <2>3. l \in Keys
    BY <1>1
  <2> QED
    BY <2>1, <2>2, <2>3, SpacingIs
<1>9. \A j \in DOMAIN s.next : j # k => next[j] = s.next[j]
  BY <1>6 DEF OneChanged
<1> QED
  BY <1>1, <1>5, <1>7, <1>8, <1>9 DEF Effect, A, B

\* The vehicle enters its next link, or leaves the network.
LEMMA EnteredEffect ==
    ASSUME NEW s, NetInv(s, {}), TimesOK(s), NEW n \in Nodes, NEW k, NEW a, NEW l,
           Passer(s, n, k, a, l), Inserted(s, n, a.veh), k # l, NEW others,
           NEW inst \in Int, inst < LastInstant + TimeStep, NEW s2,
           s2 = Entering(Out(Withdrawn(s, n, k, inst), n, l), a.veh, l, others, inst)
    PROVE  Effect(s, s2, n, k, a, l, inst)
<1> DEFINE v == a.veh
           B == Behind(s, k, a, inst)
           arr == [s.arr EXCEPT ![k] = B]
           next == [s.next EXCEPT ![k] = MinArrival(B)]
           cur == IF k \in Meso THEN [s.cur EXCEPT ![k] = RemoveFirst(@, v)] ELSE s.cur
           ups == IF k \in Meso THEN [s.ups EXCEPT ![k] = Append(@, inst)] ELSE s.ups
           wait == IF n \in Origins THEN [s.wait EXCEPT ![l] = Tail(@)] ELSE s.wait
           out == Out(Withdrawn(s, n, k, inst), n, l)
           moved == Moved(out, v, l, inst)
           supplied == Supplied(moved, l, others, inst)
<1>1. /\ s \in NetType /\ s.arr \in [Keys -> SUBSET Arrival] /\ s.next \in NextMaps
      /\ s.cur \in [Links -> Seq(Vehicles)] /\ s.ups \in [Meso -> Seq(Int)]
      /\ s.dps \in [Links -> Seq(Int)] /\ s.wait \in [Meso -> Seq(Vehicles)]
  BY DEF NetInv, NetType
<1>2. /\ k \in Keys /\ k \in DOMAIN s.next /\ a = s.next[k] /\ a \in s.arr[k]
      /\ v \in Vehicles /\ l \in Keys
  BY DEF Passer, Arrival
<1>3. NetInv(out, {n}) /\ Away(v, out.arr, out.cur, out.wait)
  BY WithdrawnIs
<1>4. out = [s EXCEPT !.arr = arr, !.next = next, !.cur = cur, !.ups = ups, !.wait = wait]
  BY <1>2 DEF Out, Withdrawn, Behind
<1>5. B \in SUBSET Arrival /\ MinArrival(B) \in MaybeArrival
  <2> HIDE DEF arr, next, cur, ups, wait, out, moved, supplied
  <2> QED
    BY <1>2, BehindIs DEF Behind
<1> HIDE DEF B, v
<1>6. \A j \in Keys : arr[j] = IF j = k THEN B ELSE s.arr[j]
  BY <1>1, <1>2
<1>7. OneChanged(next, s.next, k, MinArrival(B))
  BY <1>1, <1>2, <1>5, NextExcept
<1>8. \A j \in Meso : ups[j] = IF j = k THEN Append(s.ups[j], inst) ELSE s.ups[j]
  BY <1>1
<1>9. \A j \in Links : cur[j] = s.cur[j] \/ (j = k /\ k \in Meso)
  BY <1>1
<1>10. k \in Meso => s.cur[k] # <<>>
  <2> DEFINE D == {}
  <2>1. NetInv(s, D)
    OBVIOUS
  <2> HIDE DEF D
  <2> QED
    BY <1>2, <2>1, LinkTimes
<1>11. n \in Origins => wait # s.wait
  <2> HAVE n \in Origins
  <2>1. l \in Meso /\ OutOf(n) = {l}
    <3>1. ~(n \notin Origins)
      OBVIOUS
    <3> QED
      BY <3>1 DEF Passer
  <2>2. s.wait[l] # <<>>
    BY <2>1 DEF Inserted
  <2>3. s.wait[l] \in Seq(Vehicles)
    BY <1>1, <2>1
  <2>4. Len(Tail(s.wait[l])) = Len(s.wait[l]) - 1 /\ Len(s.wait[l]) \in Nat
    BY <2>2, <2>3, HeadTailProperties, LenProperties
  <2>5. wait[l] = Tail(s.wait[l])
    BY <1>1, <2>1
  <2> HIDE DEF wait
  <2>6. Len(wait[l]) # Len(s.wait[l])
    BY <2>4, <2>5
  <2> QED
    BY <2>6
<1> HIDE DEF arr, next, cur, ups, wait
<1>12. /\ out \in NetType /\ out.arr = arr /\ out.next = next /\ out.cur = cur /\ out.ups = ups
       /\ out.wait = wait /\ out.event = s.event /\ out.dps = s.dps /\ out.supply = s.supply
       /\ out.led = s.led
  <2>1. out \in NetType
    BY <1>3 DEF NetInv
  <2> HIDE DEF out
  <2> QED
    BY <1>1, <1>4, <2>1 DEF NetType
<1> HIDE DEF out
<1>13. /\ moved \in NetType /\ moved.arr = arr /\ moved.next = next /\ moved.ups = ups
       /\ moved.wait = wait /\ moved.event = s.event /\ moved.supply = s.supply
       /\ \A j \in Links : j # l => moved.cur[j] = cur[j]
       /\ \A j \in Links : moved.dps[j] = IF j = l THEN Append(s.dps[j], inst) ELSE s.dps[j]
       /\ \A j \in Meso : j # l => moved.led[j] = s.led[j]
       /\ l \in Meso => moved.cur[l] # <<>> /\ (moved.led[l] => ups[l] # <<>>)
  <2>1. CASE l \in Nodes
    <3>1. moved = out /\ l \notin Meso /\ \A j \in Links : j # l
      BY <2>1, Constants DEF Moved
    <3> HIDE DEF moved
    <3> QED
      BY <1>12, <3>1
  <2>2. CASE l \notin Nodes
    <3>1. l \in Links
      BY <1>2, <2>2 DEF Keys
    <3>2. PICK c \in [Links -> Seq(Vehicles)], d \in [Links -> Seq(Int)], e \in [Meso -> BOOLEAN] :
             moved = [out EXCEPT !.cur = c, !.dps = d, !.led = e]
      <4>1. MovedAs(out, moved, v, l)
        BY <1>2, <1>3, <3>1, MovedIs
      <4> QED
        BY <4>1 DEF MovedAs
    <3> DEFINE q == Append(out.cur[l], v)
               c2 == [out.cur EXCEPT ![l] = q]
               d2 == [out.dps EXCEPT ![l] = Append(out.dps[l], inst)]
               some == out.ups[l] # <<>>
               e2 == IF l \in Meso THEN [out.led EXCEPT ![l] = some] ELSE out.led
    <3>3. moved = [out EXCEPT !.cur = c2, !.dps = d2, !.led = e2]
      BY <2>2 DEF Moved
    <3> HIDE DEF moved
    <3>4. moved.cur = c2 /\ moved.dps = d2 /\ moved.led = e2
      <4> HIDE DEF c2, d2, e2
      <4> QED
        BY <1>12, <3>3 DEF NetType
    <3>5. /\ moved \in NetType /\ moved.arr = arr /\ moved.next = next /\ moved.ups = ups
          /\ moved.wait = wait /\ moved.event = s.event /\ moved.supply = s.supply
      BY <1>12, <3>2 DEF NetType
    <3>6. /\ out.cur \in [Links -> Seq(Vehicles)] /\ out.dps \in [Links -> Seq(Int)]
          /\ out.led \in [Meso -> BOOLEAN]
      BY <1>12 DEF NetType
    <3>7. /\ \A j \in Links : j # l => c2[j] = cur[j]
          /\ \A j \in Links : d2[j] = IF j = l THEN Append(s.dps[j], inst) ELSE s.dps[j]
      BY <1>12, <3>6
    <3>8. c2[l] # <<>>
      <4>1. out.cur[l] \in Seq(Vehicles) /\ v \in Vehicles
        BY <1>2, <3>1, <3>6
      <4>2. q \in Seq(Vehicles) /\ Len(q) = Len(out.cur[l]) + 1 /\ Len(out.cur[l]) \in Nat
        BY <4>1, AppendProperties, LenProperties
      <4> HIDE DEF q
      <4>3. q # <<>>
        BY <4>2, EmptySeq
      <4> QED
        BY <3>1, <3>6, <4>3
    <3>9. \A j \in Meso : j # l => e2[j] = s.led[j]
      BY <1>12, <3>6
    <3>10. l \in Meso => (e2[l] => ups[l] # <<>>)
      <4> HAVE l \in Meso
      <4> HIDE DEF some
      <4>1. e2[l] = some
        BY <3>6
      <4> QED
        BY <1>12, <4>1 DEF some
    <3> HIDE DEF c2, d2, e2
    <3> QED
      BY <3>4, <3>5, <3>7, <3>8, <3>9, <3>10
  <2> QED
    BY <2>1, <2>2
<1> HIDE DEF moved
<1>14. /\ Spacing(supplied, l, inst) /\ \A j \in Keys : j # l => supplied.supply[j] = s.supply[j]
       /\ supplied \in NetType /\ supplied.event = s.event
       /\ supplied.arr = arr /\ supplied.next = next
       /\ supplied.cur = moved.cur /\ supplied.ups = ups /\ supplied.dps = moved.dps
       /\ supplied.wait = wait /\ supplied.led = moved.led
       /\ l \in Meso => (supplied.led[l] => GapKept(supplied, l))
  <2>1. moved.supply[l] <= Never
    BY <1>2, <1>13 DEF TimesOK
  <2>2. l \in Meso => \A i \in DOMAIN moved.ups[l] : moved.ups[l][i] < LastInstant + TimeStep
    BY <1>8, <1>13 DEF TimesOK
  <2> HIDE DEF supplied
  <2>3. supplied = Supplied(moved, l, others, inst)
    BY DEF supplied
  <2> QED
    BY <1>2, <1>13, <2>1, <2>2, <2>3, SpacingIs
<1> HIDE DEF supplied
<1>15. s2 = IF l \in Meso THEN Announced(supplied, v, l, inst) ELSE supplied
  BY DEF Entering, supplied, moved, out, v
<1>16. /\ Spacing(s2, l, inst) /\ \A j \in Keys : j # l => s2.supply[j] = s.supply[j]
       /\ s2.event = s.event /\ s2.cur = moved.cur /\ s2.ups = ups /\ s2.dps = moved.dps
       /\ s2.wait = wait /\ s2.led = moved.led
       /\ l \in Meso => (s2.led[l] => GapKept(s2, l))
       /\ \A j \in Keys : j # k /\ ~(l \in Meso /\ j = l) => s2.arr[j] = s.arr[j]
       /\ s2.arr[k] = B
       /\ l \in Meso => s2.arr[l] = s.arr[l] \cup {Ahead(s, l, a, inst)}
       /\ \A j \in DOMAIN s.next : j # k /\ ~(l \in Meso /\ j = l) => s2.next[j] = s.next[j]
  <2>1. \A j \in DOMAIN s.next : j # k => j \in DOMAIN next /\ next[j] = s.next[j]
    BY <1>7 DEF OneChanged
  <2>2. CASE l \notin Meso
    <3>1. s2 = supplied
      BY <1>15, <2>2
    <3> QED
      BY <1>2, <1>6, <1>14, <2>1, <2>2, <3>1
  <2>3. CASE l \in Meso
    <3> DEFINE x == [arr EXCEPT ![l] = arr[l] \cup {Ahead(s, l, a, inst)}]
               y == [next EXCEPT ![l] = MinArrival(arr[l] \cup {Ahead(s, l, a, inst)})]
    <3>1. arr[l] = s.arr[l]
      BY <1>2, <1>6
    <3>2. s2 = [supplied EXCEPT !.arr = x, !.next = y]
      <4>1. s2 = Announced(supplied, v, l, inst)
        BY <1>15, <2>3
      <4> QED
        BY <1>14, <3>1, <4>1 DEF Announced, Ahead, v
    <3>3. /\ s2.arr = x /\ s2.next = y /\ s2.event = supplied.event /\ s2.cur = supplied.cur
          /\ s2.ups = supplied.ups /\ s2.dps = supplied.dps /\ s2.wait = supplied.wait
          /\ s2.supply = supplied.supply /\ s2.led = supplied.led
      <4> HIDE DEF x, y
      <4> QED
        BY <1>14, <3>2 DEF NetType
    <3>4. arr \in [Keys -> SUBSET Arrival]
      BY <1>12 DEF NetType
    <3>5. /\ \A j \in Keys : j # l => x[j] = arr[j]
          /\ x[l] = s.arr[l] \cup {Ahead(s, l, a, inst)}
      BY <1>2, <3>1, <3>4
    <3>6. \A j \in DOMAIN next : j # l => y[j] = next[j]
      OBVIOUS
    <3>7. \A j \in DOMAIN s.next : j # k /\ j # l => s2.next[j] = s.next[j]
      <4> HIDE DEF y
      <4> QED
        BY <2>1, <3>3, <3>6
    <3> HIDE DEF x, y
    <3>8. Spacing(s2, l, inst) /\ (s2.led[l] => GapKept(s2, l))
      BY <1>14, <2>3, <3>3 DEF Spacing, GapKept
    <3>9. \A j \in Keys : j # k /\ j # l => s2.arr[j] = s.arr[j]
      BY <1>6, <3>3, <3>5
    <3>10. s2.arr[k] = B
      BY <1>2, <1>6, <3>3, <3>5
    <3> QED
      BY <1>14, <2>3, <3>3, <3>5, <3>7, <3>8, <3>9, <3>10
  <2> QED
    BY <2>2, <2>3
<1>17. \A j \in Meso : j # l => s2.cur[j] = s.cur[j] \/ s.cur[j] # <<>>
  BY <1>9, <1>10, <1>13, <1>16, Constants
<1>18. \A j \in Links : s2.dps[j] = IF j = l THEN Append(s.dps[j], inst) ELSE s.dps[j]
  BY <1>13, <1>16
<1>19. \A j \in Meso : s2.ups[j] = IF j = k THEN Append(s.ups[j], inst) ELSE s.ups[j]
  BY <1>8, <1>16
<1>20. \A j \in Meso : j # l => s2.led[j] = s.led[j]
  BY <1>13, <1>16
<1> QED
  BY <1>11, <1>16, <1>17, <1>18, <1>19, <1>20 DEF Effect, B

--------------------------------------------------------------------------------
(* The passage of a vehicle *)

\* The two cases of a passage, and the nodes to update after it.
LEMMA PassedEffect ==
    ASSUME NEW s, NetInv(s, {}), TimesOK(s), NEW n \in Nodes, s.event[n].t # Never,
           NEW inst \in Int, inst < LastInstant + TimeStep, NEW s2, s2 = Passed(s, n, inst),
           NEW k, k = s.event[n].key, NEW a, a = s.next[k], NEW l, l = NextLink(a.veh, k)
    PROVE  /\ Passer(s, n, k, a, l) /\ k # l /\ Goes(n, l) /\ (k \notin Micro => l \in OutOf(n))
           /\ Effect(s, s2, n, k, a, l, inst)
           /\ Occurs(n, PassedNodes(s, n))
           /\ Inserted(s, n, a.veh) /\ l \in Meso => Occurs(To[l], PassedNodes(s, n))
<1> DEFINE others == IF l \in Micro THEN s.cur[l] ELSE <<>>
           D == {}
<1>1. Passer(s, n, k, a, l)
  BY PasserIs
<1>2. NetInv(s, D) /\ k \in InTo(n) \cup {n} /\ a \in s.arr[k]
  BY <1>1 DEF Passer
<1> HIDE DEF D
<1>3. k # l /\ Goes(n, l) /\ (k \notin Micro => l \in OutOf(n))
  BY <1>2, WantedGoes
<1>4. Effect(s, s2, n, k, a, l, inst)
  <2>1. CASE ~Inserted(s, n, a.veh)
    <3>1. s2 = Supplied(Refused(s, n, k, a, inst), l, others, inst)
      BY <2>1 DEF Passed, Supplied, Refused
    <3> HIDE DEF others
    <3> QED
      BY <1>1, <2>1, <3>1, RefusedEffect
  <2>2. CASE Inserted(s, n, a.veh)
    <3> DEFINE without == Withdrawn(s, n, k, inst)
               out == Out(without, n, l)
    <3>1. Entered(without, n, a.veh, l, inst) = Moved(out, a.veh, l, inst)
      BY EnteredIs
    <3>2. s2 = LET moved == Entered(without, n, a.veh, l, inst)
                   supplied == Supplied(moved, l, others, inst)
               IN IF l \in Meso THEN Announced(supplied, a.veh, l, inst) ELSE supplied
      BY <2>2 DEF Passed, Supplied
    <3> HIDE DEF without, others, out
    <3>3. s2 = Entering(out, a.veh, l, others, inst)
      BY <3>1, <3>2 DEF Entering
    <3>4. s2 = Entering(Out(Withdrawn(s, n, k, inst), n, l), a.veh, l, others, inst)
      BY <3>3 DEF out, without
    <3>5. NetInv(s, {}) /\ TimesOK(s) /\ Passer(s, n, k, a, l) /\ Inserted(s, n, a.veh) /\ k # l
      BY <1>1, <1>3, <2>2
    <3> QED
      BY <3>4, <3>5, EnteredEffect
  <2> QED
    BY <2>1, <2>2
<1>5. /\ Occurs(n, PassedNodes(s, n))
      /\ Inserted(s, n, a.veh) /\ l \in Meso => Occurs(To[l], PassedNodes(s, n))
  <2>1. PassedNodes(s, n) = <<n>> \o (IF Inserted(s, n, a.veh) /\ l \in Meso THEN <<To[l]>> ELSE <<>>)
    BY DEF PassedNodes
  <2>2. <<n>> \in Seq(Nodes) /\ Occurs(n, <<n>>)
    BY DEF Occurs
  <2>3. CASE Inserted(s, n, a.veh) /\ l \in Meso
    <3>1. <<To[l]>> \in Seq(Nodes) /\ Occurs(To[l], <<To[l]>>)
      <4> DEFINE m == To[l]
      <4>1. m \in Nodes
        BY <2>3, Constants
      <4> HIDE DEF m
      <4>2. <<m>> \in Seq(Nodes) /\ Occurs(m, <<m>>)
        BY <4>1 DEF Occurs
      <4> QED
        BY <4>2 DEF m
    <3> QED
      BY <2>1, <2>2, <2>3, <3>1, ConcatOccurs
  <2>4. CASE ~(Inserted(s, n, a.veh) /\ l \in Meso)
    <3>1. PassedNodes(s, n) = <<n>>
      BY <2>1, <2>2, <2>4, ConcatEmptySeq
    <3> QED
      BY <2>2, <2>4, <3>1
  <2> QED
    BY <2>3, <2>4
<1> QED
  BY <1>1, <1>3, <1>4, <1>5

\* The last arrival is not after a bound of all.
LEMMA MaxTimeBound ==
    ASSUME NEW A \in SUBSET Arrival, IsFiniteSet(A), NEW b \in Nat, \A a \in A : a.t <= b
    PROVE  MaxArrivalTime(A) \in Int /\ MaxArrivalTime(A) <= b
<1>1. CASE A = {}
  BY <1>1 DEF MaxArrivalTime
<1>2. CASE A # {}
  <2> DEFINE time == [a \in A |-> a.t]
             T == {time[a] : a \in A}
  <2>1. time \in Surjection(A, T)
    BY DEF Surjection
  <2>2. IsFiniteSet(T)
    BY <2>1, FS_Surjection
  <2>3. T \in SUBSET Int /\ T # {} /\ \A t \in T : t <= b
    BY <1>2 DEF Arrival
  <2>4. MaxArrivalTime(A) = Max(T)
    <3>1. T = {a.t : a \in A}
      OBVIOUS
    <3> QED
      BY <1>2, <3>1 DEF MaxArrivalTime
  <2> HIDE DEF T
  <2> QED
    BY <2>2, <2>3, <2>4, MaxIs
<1> QED
  BY <1>1, <1>2

\* Those behind the vehicle that passes.
LEMMA BehindTimes ==
    ASSUME NEW s, NEW D, NetInv(s, D), NEW k \in Keys, NEW a, NEW inst \in Int,
           NEW b \in Behind(s, k, a, inst)
    PROVE  \E c \in s.arr[k] : b.veh = c.veh /\ b.t \in Int /\ (b.t = c.t \/ b.t = inst + Headway)
                               /\ b.t >= inst + Headway
<1>1. PICK c \in s.arr[k] : b = [c EXCEPT !.t = Later(@, inst + Headway)]
  BY DEF Behind, Raised
<1>2. c \in [t : Int, veh : Vehicles]
  BY DEF NetInv, NetType, Arrival
<1> DEFINE t == inst + Headway
<1>3. t \in Int
  BY Constants
<1>4. b.veh = c.veh /\ b.t = Later(c.t, t)
  BY <1>1, <1>2
<1> HIDE DEF t
<1>5. b.t \in Int /\ (b.t = c.t \/ b.t = t) /\ b.t >= t
  BY <1>2, <1>3, <1>4, LaterIs
<1> QED
  BY <1>4, <1>5 DEF t

\* One more time, late enough.
LEMMA SpacedAppend ==
    ASSUME NEW q \in Seq(Int), NEW gap, Spaced(q, gap), NEW x \in Int,
           q # <<>> => x >= Last(q) + gap
    PROVE  /\ Spaced(Append(q, x), gap) /\ Append(q, x) # <<>> /\ Last(Append(q, x)) = x
           /\ Append(q, x) \in Seq(Int)
<1> DEFINE a == Append(q, x)
<1>1. /\ a \in Seq(Int) /\ Len(a) = Len(q) + 1 /\ Len(q) \in Nat /\ a # <<>>
      /\ \A i \in 1 .. Len(q) : a[i] = q[i]
      /\ a[Len(q) + 1] = x
  BY AppendProperties, LenProperties
<1> HIDE DEF a
<1>2. Last(a) = x
  BY <1>1 DEF Last
<1>3. ASSUME NEW i \in 2 .. Len(a) PROVE a[i] >= a[i - 1] + gap
  <2>1. CASE i <= Len(q)
    <3>1. i \in 2 .. Len(q) /\ i \in 1 .. Len(q) /\ i - 1 \in 1 .. Len(q)
      BY <1>1, <2>1
    <3> QED
      BY <1>1, <3>1 DEF Spaced
  <2>2. CASE ~(i <= Len(q))
    <3>1. i = Len(q) + 1 /\ i - 1 = Len(q) /\ Len(q) \in 1 .. Len(q)
      BY <1>1, <2>2
    <3>2. q # <<>>
      BY <3>1
    <3> QED
      BY <1>1, <3>1, <3>2 DEF Last
  <2> QED
    BY <2>1, <2>2
<1>4. Spaced(a, gap)
  BY <1>3 DEF Spaced
<1> QED
  BY <1>1, <1>2, <1>4 DEF a

\* An append of a time before the end.
LEMMA BeforeEnd ==
    ASSUME NEW q \in Seq(Int), NEW x \in Int, NEW end, x < end, \A i \in DOMAIN q : q[i] < end
    PROVE  \A i \in DOMAIN Append(q, x) : Append(q, x)[i] < end
<1> DEFINE a == Append(q, x)
<1>1. /\ DOMAIN a = 1 .. Len(q) + 1 /\ Len(q) \in Nat /\ DOMAIN q = 1 .. Len(q)
      /\ \A i \in 1 .. Len(q) : a[i] = q[i]
      /\ a[Len(q) + 1] = x
  BY AppendProperties, LenProperties
<1> HIDE DEF a
<1>2. \A i \in 1 .. Len(q) + 1 : i \in 1 .. Len(q) \/ i = Len(q) + 1
  BY <1>1
<1> QED
  BY <1>1, <1>2 DEF a

\* A gap that is back stays so when another vehicle leaves.
LEMMA GapStays ==
    ASSUME NEW q \in Seq(Int), NEW x \in Int, NEW q2, q2 = q \/ q2 = Append(q, x),
           NEW t, NEW rank \in Int, NEW wave, GapBack(t, rank, q, wave)
    PROVE  GapBack(t, rank, q2, wave)
<1>1. CASE q2 = q
  BY <1>1
<1>2. CASE q2 = Append(q, x)
  <2> SUFFICES ASSUME rank > 1, t # Never
               PROVE  rank < Len(q2) /\ t >= q2[rank] + wave
    BY DEF GapBack
  <2>1. rank < Len(q) /\ t >= q[rank] + wave
    BY DEF GapBack
  <2>2. Len(q2) = Len(q) + 1 /\ Len(q) \in Nat /\ \A i \in 1 .. Len(q) : q2[i] = q[i]
    BY <1>2, AppendProperties, LenProperties
  <2>3. rank \in 1 .. Len(q)
    BY <2>1, <2>2
  <2> QED
    BY <2>1, <2>2, <2>3
<1> QED
  BY <1>1, <1>2

\* A passage at the time of an event keeps the headways; its nodes are to be updated.
LEMMA PassedPaced ==
    ASSUME NEW s, NetInv(s, {}), NEW G \in SUBSET Nodes, Calm \subseteq G, NEW L, PaceInv(s, G, L),
           \A m \in G : AfterSupply(s, m),
           NEW n \in Nodes, NEW inst \in Int, inst = s.event[n].t, inst < LastInstant + TimeStep,
           NEW s2, s2 = Passed(s, n, inst),
           NEW D, L \subseteq D, \A m \in Nodes : Occurs(m, PassedNodes(s, n)) => m \in D
    PROVE  PaceInv(s2, G, D)
<1> DEFINE k == s.event[n].key
           a == s.next[k]
           l == NextLink(a.veh, k)
           ok == Inserted(s, n, a.veh)
           None == {}
<1>1. TimesOK(s) /\ ComesIn(s) /\ LinksPaced(s) /\ ExitsPaced(s) /\ inst # Never
  BY Horizon, Constants DEF PaceInv
<1>2. /\ Passer(s, n, k, a, l) /\ k # l /\ Goes(n, l) /\ (k \notin Micro => l \in OutOf(n))
      /\ Effect(s, s2, n, k, a, l, inst)
      /\ n \in D /\ (ok /\ l \in Meso => To[l] \in D)
  <2>1. s.event[n].t # Never
    BY <1>1
  <2>2. /\ Passer(s, n, k, a, l) /\ k # l /\ Goes(n, l) /\ (k \notin Micro => l \in OutOf(n))
        /\ Effect(s, s2, n, k, a, l, inst)
        /\ Occurs(n, PassedNodes(s, n))
        /\ Inserted(s, n, a.veh) /\ l \in Meso => Occurs(To[l], PassedNodes(s, n))
    <3> HIDE DEF k, a, l
    <3> QED
      BY <1>1, <2>1, PassedEffect DEF k, a, l
  <2> QED
    BY <2>2, Constants
<1>3. NetInv(s, None) /\ n \in Nodes \ None
  OBVIOUS
<1>4. n \in G => inst >= s.supply[l]
  BY <1>1 DEF AfterSupply
<1> HIDE DEF k, a, l, ok, None
<1>5. /\ k \in Keys /\ k \in InTo(n) \cup {n} /\ a \in s.arr[k] /\ l \in Keys
  BY <1>2 DEF Passer
<1>6. /\ s2.event = s.event /\ Spacing(s2, l, inst)
      /\ \A j \in Keys : j # l => s2.supply[j] = s.supply[j]
      /\ \A j \in DOMAIN s.next : j # k /\ ~(ok /\ l \in Meso /\ j = l) => s2.next[j] = s.next[j]
      /\ s2.arr[k] = IF ok THEN Behind(s, k, a, inst) ELSE Behind(s, k, a, inst) \cup {a}
      /\ ok /\ l \in Meso => s2.arr[l] = s.arr[l] \cup {Ahead(s, l, a, inst)}
      /\ \A j \in Keys : j # k /\ ~(ok /\ l \in Meso /\ j = l) => s2.arr[j] = s.arr[j]
      /\ \A j \in Meso : s2.ups[j] = IF j = k THEN Append(s.ups[j], inst) ELSE s.ups[j]
      /\ \A j \in Links : s2.dps[j] = IF ok /\ j = l THEN Append(s.dps[j], inst) ELSE s.dps[j]
      /\ \A j \in Meso : j # l => s2.cur[j] = s.cur[j] \/ s.cur[j] # <<>>
      /\ ok /\ l \in Meso => (s2.led[l] => GapKept(s2, l))
      /\ \A j \in Meso : ~(ok /\ j = l) => s2.led[j] = s.led[j]
  BY <1>2 DEF Effect, ok
<1>7. ~ok => n \in Origins
  BY DEF Inserted, ok
<1>8. s \in NetType /\ s.supply \in [Keys -> Int] /\ s.ups \in [Meso -> Seq(Int)]
      /\ s.dps \in [Links -> Seq(Int)] /\ s.arr \in [Keys -> SUBSET Arrival]
  BY DEF NetInv, NetType
<1>9. \A j \in Keys : ~(ok /\ l \in Meso /\ j = l) =>
         \A b \in s2.arr[j] : \E c \in s.arr[j] : b.veh = c.veh /\ (b.t = c.t \/ b.t = inst + Headway)
  <2> SUFFICES ASSUME NEW j \in Keys, ~(ok /\ l \in Meso /\ j = l), NEW b \in s2.arr[j]
               PROVE  \E c \in s.arr[j] : b.veh = c.veh /\ (b.t = c.t \/ b.t = inst + Headway)
    OBVIOUS
  <2>1. CASE j = k
    <3>1. b \in Behind(s, k, a, inst) \/ b = a
      BY <1>6, <2>1
    <3>2. CASE b \in Behind(s, k, a, inst)
      BY <1>3, <1>5, <2>1, <3>2, BehindTimes
    <3>3. CASE b = a
      BY <1>5, <2>1, <3>3
    <3> QED
      BY <3>1, <3>2, <3>3
  <2>2. CASE j # k
    BY <1>6, <2>2
  <2> QED
    BY <2>1, <2>2
<1>10. TimesOK(s2)
  <2>1. \A j \in Keys : s2.supply[j] <= Never
    BY <1>1, <1>6 DEF TimesOK, Spacing
  <2>2. ASSUME NEW j \in Keys, NEW b \in s2.arr[j] PROVE b.t <= Never
    <3>1. CASE ~(ok /\ l \in Meso /\ j = l)
      <4>1. PICK c \in s.arr[j] : b.t = c.t \/ b.t = inst + Headway
        BY <1>9, <2>2, <3>1
      <4>2. c.t <= Never
        BY <1>1 DEF TimesOK
      <4>3. inst + Headway <= Never
        BY Horizon, Constants
      <4> QED
        BY <4>1, <4>2, <4>3
    <3>2. CASE ok /\ l \in Meso /\ j = l
      <4>1. b \in s.arr[l] \/ b = Ahead(s, l, a, inst)
        BY <1>6, <2>2, <3>2
      <4>2. CASE b \in s.arr[l]
        BY <1>1, <1>5, <4>2 DEF TimesOK
      <4>3. CASE b = Ahead(s, l, a, inst)
        <5>1. s.arr[l] \in SUBSET Arrival /\ IsFiniteSet(s.arr[l])
          BY <1>5, <1>8 DEF NetInv, Placed, ArrivalsOK, Proper
        <5>2. MaxArrivalTime(s.arr[l]) \in Int /\ MaxArrivalTime(s.arr[l]) <= Never
          <6>1. \A c \in s.arr[l] : c.t <= Never
            BY <1>1, <1>5 DEF TimesOK
          <6> QED
            BY <5>1, <6>1, MaxTimeBound, Constants
        <5> DEFINE t == inst + Cross[l]
        <5>3. t \in Int /\ t <= Never
          BY <3>2, Horizon, Constants
        <5>4. b.t = Later(t, MaxArrivalTime(s.arr[l]))
          BY <4>3 DEF Ahead
        <5> HIDE DEF t
        <5> QED
          BY <5>2, <5>3, <5>4 DEF Later
      <4> QED
        BY <4>1, <4>2, <4>3
    <3> QED
      BY <3>1, <3>2
  <2>3. ASSUME NEW j \in Meso PROVE \A i \in DOMAIN s2.ups[j] : s2.ups[j][i] < LastInstant + TimeStep
    <3>1. s.ups[j] \in Seq(Int) /\ \A i \in DOMAIN s.ups[j] : s.ups[j][i] < LastInstant + TimeStep
      BY <1>1, <1>8 DEF TimesOK
    <3>2. CASE j = k
      <4>1. s2.ups[j] = Append(s.ups[j], inst)
        BY <1>6, <3>2
      <4> DEFINE end == LastInstant + TimeStep
      <4>2. inst < end /\ \A i \in DOMAIN s.ups[j] : s.ups[j][i] < end
        BY <3>1
      <4> HIDE DEF end
      <4>3. \A i \in DOMAIN Append(s.ups[j], inst) : Append(s.ups[j], inst)[i] < end
        BY <3>1, <4>2, BeforeEnd
      <4> QED
        BY <4>1, <4>3 DEF end
    <3>3. CASE j # k
      BY <1>6, <3>1, <3>3
    <3> QED
      BY <3>2, <3>3
  <2>4. ASSUME NEW j \in Links PROVE \A i \in DOMAIN s2.dps[j] : s2.dps[j][i] < LastInstant + TimeStep
    <3>1. s.dps[j] \in Seq(Int) /\ \A i \in DOMAIN s.dps[j] : s.dps[j][i] < LastInstant + TimeStep
      BY <1>1, <1>8 DEF TimesOK
    <3>2. CASE ok /\ j = l
      <4>1. s2.dps[j] = Append(s.dps[j], inst)
        BY <1>6, <3>2
      <4> DEFINE end == LastInstant + TimeStep
      <4>2. inst < end /\ \A i \in DOMAIN s.dps[j] : s.dps[j][i] < end
        BY <3>1
      <4> HIDE DEF end
      <4>3. \A i \in DOMAIN Append(s.dps[j], inst) : Append(s.dps[j], inst)[i] < end
        BY <3>1, <4>2, BeforeEnd
      <4> QED
        BY <4>1, <4>3 DEF end
    <3>3. CASE ~(ok /\ j = l)
      BY <1>6, <3>1, <3>3
    <3> QED
      BY <3>2, <3>3
  <2> QED
    BY <2>1, <2>2, <2>3, <2>4 DEF TimesOK
<1>11. ComesIn(s2)
  <2> SUFFICES ASSUME NEW j \in Micro, NEW b \in s2.arr[j] PROVE NextLink(b.veh, j) \in Meso
    BY DEF ComesIn
  <2>1. j \in Keys /\ ~(ok /\ l \in Meso /\ j = l)
    BY DEF Micro, Keys
  <2>2. PICK c \in s.arr[j] : b.veh = c.veh
    BY <1>9, <2>1
  <2> QED
    BY <1>1, <2>2 DEF ComesIn
<1>12. LinksPaced(s2)
  <2> SUFFICES ASSUME NEW j \in Meso, From[j] \notin Origins, s2.cur[j] # <<>>
               PROVE  /\ s2.supply[j] >= Last(s2.dps[j]) + Headway
                      /\ s2.led[j] => GapKept(s2, j)
    BY DEF LinksPaced
  <2>1. j \in Links /\ j \in Keys
    BY Constants DEF Keys
  <2>2. CASE j = l
    <3>1. From[l] = n
      BY <1>2, <2>1, <2>2, Constants DEF Goes
    <3>2. ok
      BY <1>7, <2>2, <3>1
    <3>3. s2.dps[l] = Append(s.dps[l], inst) /\ s.dps[l] \in Seq(Int)
      BY <1>6, <1>8, <2>1, <2>2, <3>2
    <3>4. Last(s2.dps[l]) = inst
      <4>1. Len(Append(s.dps[l], inst)) = Len(s.dps[l]) + 1
            /\ Append(s.dps[l], inst)[Len(s.dps[l]) + 1] = inst
        BY <3>3, AppendProperties
      <4> QED
        BY <3>3, <4>1 DEF Last
    <3> QED
      BY <1>6, <2>2, <3>2, <3>4 DEF Spacing
  <2>3. CASE j # l
    <3>1. /\ s2.supply[j] = s.supply[j] /\ s2.dps[j] = s.dps[j] /\ s2.led[j] = s.led[j]
          /\ s.cur[j] # <<>>
      BY <1>6, <2>1, <2>3
    <3>2. s.supply[j] >= Last(s.dps[j]) + Headway /\ (s.led[j] => GapKept(s, j))
      BY <1>1, <3>1 DEF LinksPaced
    <3>3. s2.ups[j] = s.ups[j] \/ s2.ups[j] = Append(s.ups[j], inst)
      BY <1>6
    <3> DEFINE rank == Len(s.dps[j]) - Room[j]
    <3>4. rank \in Int /\ s.ups[j] \in Seq(Int)
      <4>1. s.dps[j] \in Seq(Int) /\ s.ups[j] \in Seq(Int)
        BY <1>8, <2>1
      <4> QED
        BY <4>1, LenProperties, Constants
    <3> HIDE DEF rank
    <3>5. GapBack(s.supply[j], rank, s.ups[j], Wave[j]) =>
              GapBack(s.supply[j], rank, s2.ups[j], Wave[j])
      BY <3>3, <3>4, GapStays
    <3>6. GapKept(s, j) => GapKept(s2, j)
      BY <3>1, <3>5 DEF GapKept, rank
    <3> QED
      BY <3>1, <3>2, <3>6
  <2> QED
    BY <2>2, <2>3
<1>13. ExitsPaced(s2)
  <2> SUFFICES ASSUME NEW j \in Meso, ToExit(j)
               PROVE  /\ Spaced(s2.ups[j], ExitHeadway)
                      /\ s2.ups[j] # <<>> => s2.supply[To[j]] >= Last(s2.ups[j]) + ExitHeadway
    BY DEF ExitsPaced
  <2>1. /\ Spaced(s.ups[j], ExitHeadway)
        /\ s.ups[j] # <<>> => s.supply[To[j]] >= Last(s.ups[j]) + ExitHeadway
    BY <1>1 DEF ExitsPaced
  <2>2. To[j] \in Nodes /\ To[j] \in Keys /\ j \in Links
    BY Constants DEF Keys
  <2>3. ASSUME To[j] = n PROVE n \in Calm
    <3>1. n \notin Origins /\ InTo(n) \subseteq Meso
      <4>1. j \in InTo(n)
        BY <2>2, <2>3 DEF InTo
      <4>2. n \notin Meso
        BY Constants
      <4> QED
        BY <2>3, <4>1, <4>2 DEF ToExit, Origins
    <3> QED
      BY <3>1 DEF Calm
  <2>4. ASSUME To[j] = n, l = n, s.ups[j] # <<>> PROVE inst >= Last(s.ups[j]) + ExitHeadway
    <3>1. inst >= s.supply[n] /\ s.supply[n] >= Last(s.ups[j]) + ExitHeadway
      BY <1>4, <2>1, <2>3, <2>4
    <3>2. Last(s.ups[j]) \in Int /\ s.supply[n] \in Int
      BY <1>8, <2>2, <2>4, LastOf
    <3> QED
      BY <3>1, <3>2, Constants
  <2>5. s.ups[j] \in Seq(Int)
    BY <1>8
  <2>6. CASE j = k
    <3>1. To[j] = n
      <4>1. k # n
        BY <2>2, <2>6, Constants
      <4> QED
        BY <1>5, <2>2, <2>6, <4>1, IncomingOf, Constants
    <3>2. l = n
      <4>1. k \notin Micro
        BY <2>6 DEF Micro
      <4> QED
        BY <1>2, <3>1, <4>1 DEF ToExit
    <3>3. s2.ups[j] = Append(s.ups[j], inst)
      BY <1>6, <2>6
    <3>4. s.ups[j] # <<>> => inst >= Last(s.ups[j]) + ExitHeadway
      BY <2>4, <3>1, <3>2
    <3> DEFINE gap == ExitHeadway
    <3>5. Spaced(s.ups[j], gap) /\ (s.ups[j] # <<>> => inst >= Last(s.ups[j]) + gap)
      BY <2>1, <3>4
    <3> HIDE DEF gap
    <3>6. Spaced(s2.ups[j], gap) /\ Last(s2.ups[j]) = inst
      BY <2>5, <3>3, <3>5, SpacedAppend
    <3> QED
      BY <1>6, <3>1, <3>2, <3>6 DEF gap, Spacing
  <2>7. CASE j # k
    <3>1. s2.ups[j] = s.ups[j]
      BY <1>6, <2>7
    <3>2. CASE To[j] # l
      BY <1>6, <2>1, <2>2, <3>1, <3>2
    <3>3. CASE To[j] = l
      <4>1. l = n
        BY <1>2, <2>2, <3>3, Constants DEF Goes
      <4>2. ASSUME s.ups[j] # <<>> PROVE s2.supply[l] >= Last(s.ups[j]) + ExitHeadway
        <5>1. inst >= Last(s.ups[j]) + ExitHeadway /\ Last(s.ups[j]) \in Int
          BY <2>4, <2>5, <3>3, <4>1, <4>2, LastOf
        <5>2. s2.supply[l] >= inst + ExitHeadway
          BY <1>6, <4>1 DEF Spacing
        <5>3. s2.supply[l] \in Int
          BY <1>6 DEF Spacing
        <5> QED
          BY <5>1, <5>2, <5>3, Constants
      <4> QED
        BY <2>1, <3>1, <3>3, <4>2
    <3> QED
      BY <3>2, <3>3
  <2> QED
    BY <2>6, <2>7
<1>14. ASSUME NEW m \in Nodes, m \notin D
       PROVE  /\ m # n /\ \A o \in Keys : Goes(m, o) => s2.supply[o] = s.supply[o]
              /\ \A j \in InTo(m) \cup {m} : j # k /\ ~(ok /\ l \in Meso /\ j = l)
  <2>1. m # n
    BY <1>2, <1>14
  <2>2. ASSUME NEW o \in Keys, Goes(m, o) PROVE s2.supply[o] = s.supply[o]
    <3>1. o # l
      BY <1>2, <2>1, <2>2, GoesFromOne
    <3> QED
      BY <1>6, <3>1
  <2>3. ASSUME NEW j \in InTo(m) \cup {m} PROVE j # k /\ ~(ok /\ l \in Meso /\ j = l)
    <3>1. j # k
      BY <1>5, <2>1, <2>3, KeyOwner
    <3>2. ASSUME ok, l \in Meso, j = l PROVE FALSE
      <4>1. l # m
        BY <3>2, Constants
      <4>2. To[l] = m
        BY <2>3, <3>2, <4>1, IncomingOf
      <4> QED
        BY <1>2, <1>14, <3>2, <4>2
    <3> QED
      BY <3>1, <3>2
  <2> QED
    BY <2>1, <2>2, <2>3
<1>15. ASSUME NEW m \in G, m \notin D PROVE AfterSupply(s2, m)
  <2>1. m \in Nodes \ None /\ m \in Nodes /\ AfterSupply(s, m) /\ s2.event[m] = s.event[m]
    BY <1>6 DEF None
  <2>2. ASSUME NEW j \in DOMAIN s.next, s.event[m].t # Never, j = s.event[m].key
        PROVE  s2.next[j] = s.next[j]
    <3>1. j \in InTo(m) \cup {m}
      BY <1>3, <2>1, <2>2, EventOf
    <3> QED
      BY <1>6, <1>14, <1>15, <2>1, <3>1
  <2>3. \A o \in Keys : Goes(m, o) /\ s.supply[o] # Never => s2.supply[o] = s.supply[o]
    BY <1>14, <1>15, <2>1
  <2> QED
    BY <1>3, <2>1, <2>2, <2>3, AfterSupplyKept
<1>16. ASSUME NEW m \in Nodes, m \notin D PROVE Wakes(s2, m)
  <2>1. Wakes(s, m) /\ s2.event[m] = s.event[m]
    BY <1>6, <1>16 DEF PaceInv
  <2>2. \A j \in InTo(m) : s2.arr[j] = s.arr[j]
    BY <1>6, <1>14, <1>16, KeysOf
  <2>3. \A o \in Keys : Goes(m, o) => s2.supply[o] = s.supply[o]
    BY <1>14, <1>16
  <2> QED
    BY <2>1, <2>2, <2>3, WakesKept
<1> QED
  BY <1>10, <1>11, <1>12, <1>13, <1>15, <1>16 DEF PaceInv

--------------------------------------------------------------------------------
(* The times after a call *)

\* More nodes to update.
LEMMA MoreToUpdate ==
    ASSUME NEW s, NEW D, NEW E, \A n \in Nodes : n \in D => n \in E
    PROVE  /\ NetInv(s, D) => NetInv(s, E)
           /\ \A G \in SUBSET Nodes : PaceInv(s, G, D) => PaceInv(s, G, E)
<1>1. Nodes \ E \subseteq Nodes \ D
  OBVIOUS
<1>2. \A G \in SUBSET Nodes : G \ E \subseteq G \ D
  OBVIOUS
<1>3. NetInv(s, D) => NetInv(s, E)
  BY <1>1 DEF NetInv, Consumable
<1>4. \A G \in SUBSET Nodes : PaceInv(s, G, D) => PaceInv(s, G, E)
  BY <1>1, <1>2 DEF PaceInv
<1> QED
  BY <1>3, <1>4

\* The passage of a call, once the supply times have been computed and before the updates.
Passes(s, s2, f, inst) ==
    \E r, p :
        /\ NetInv(r, {}) /\ SameButSupply(s, r) /\ PaceInv(r, Calm, Late(s))
        /\ \A n \in Calm : AfterSupply(r, n)
        /\ p = Passed(r, f, inst) /\ SameButTimes(p, s2, inst)

\* No vehicle moved.
SameMoves(s, s2) ==
    /\ s2.cur = s.cur /\ s2.dps = s.dps /\ s2.ups = s.ups /\ s2.led = s.led
    /\ s2.wait = s.wait

\* A call, whole: the supply times, the passage and the updates.
LEMMA CallPaced ==
    ASSUME NEW s, NetInv(s, {}), PaceInv(s, Calm, {}), NEW f \in Nodes, NEW inst, CallTime(inst),
           inst # Never => s.event[f].t = inst,
           NEW s2 \in SimuTraficMeso(s, f, inst).outcomes
    PROVE  /\ NetInv(s2, {}) /\ PaceInv(s2, Calm, {})
           /\ inst = Never => SameMoves(s, s2)
           /\ inst # Never => AfterSupply(s2, f) /\ Passes(s, s2, f, inst)
<1> DEFINE refreshed == Refreshed(s, inst)
           passes == inst # Never /\ NextArrival(refreshed, refreshed.event[f].key).veh # NoVeh
           moved == IF passes THEN Passed(refreshed, f, inst) ELSE refreshed
           last == IF passes THEN PassedNodes(refreshed, f) ELSE <<>>
           todo == RefreshedNodes(s) \o last
           D == {m \in Nodes : Occurs(m, todo)}
           G == IF inst = Never THEN Calm ELSE Calm \cup {f}
           None == {}
<1>1. SimuTraficMeso(s, f, inst) = [todo |-> todo, outcomes |-> Updated(moved, todo, inst)]
  BY DEF SimuTraficMeso
<1> HIDE DEF passes
<1>2. inst \in Int /\ inst <= Never
  BY Horizon, Constants DEF CallTime
<1>3. Calm \in SUBSET Nodes /\ NetInv(s, None)
  BY DEF Calm
<1>4. NetInv(refreshed, {}) /\ SameButSupply(s, refreshed)
  BY <1>2, RefreshedIs
<1>5. PaceInv(refreshed, Calm, Late(s)) /\ \A n \in Calm : AfterSupply(refreshed, n)
  <2> DEFINE H == Calm
  <2>1. H \in SUBSET Nodes /\ PaceInv(s, H, {})
    BY <1>3
  <2> HIDE DEF H
  <2>2. PaceInv(refreshed, H, Late(s)) /\ \A n \in H : AfterSupply(refreshed, n)
    BY <2>1, RefreshedPaced
  <2> QED
    BY <2>2 DEF H
<1> HIDE DEF refreshed
<1>6. inst # Never <=> passes
  <2>1. ASSUME inst # Never PROVE NextArrival(refreshed, refreshed.event[f].key).veh # NoVeh
    <3> DEFINE k == refreshed.event[f].key
    <3>1. NetInv(refreshed, None) /\ f \in Nodes \ None /\ refreshed.event[f].t # Never
      BY <1>4, <2>1 DEF SameButSupply
    <3> HIDE DEF None, k
    <3>2. k \in DOMAIN refreshed.next /\ refreshed.next[k].veh # NoVeh
      BY <3>1, EventOf DEF k
    <3> QED
      BY <3>2 DEF NextArrival, k
  <2> QED
    BY <2>1 DEF passes
<1>7. last \in Seq(Nodes) /\ \E E : NetInv(moved, E) /\ \A m \in E : Occurs(m, last)
  <2>1. CASE passes
    <3>1. refreshed.event[f].t # Never
      BY <1>4, <1>6, <2>1 DEF SameButSupply
    <3> DEFINE p == Passed(refreshed, f, inst)
               q == PassedNodes(refreshed, f)
    <3>2. q \in Seq(Nodes) /\ \E E : NetInv(p, E) /\ \A m \in E : Occurs(m, q)
      BY <1>2, <1>4, <3>1, PassedIs
    <3>3. moved = p /\ last = q
      BY <2>1
    <3> HIDE DEF p, q, moved, last
    <3> QED
      BY <3>2, <3>3
  <2>2. CASE ~passes
    <3>1. moved = refreshed /\ last = <<>> /\ <<>> \in Seq(Nodes)
      BY <2>2
    <3>2. NetInv(moved, None) /\ \A m \in None : Occurs(m, last)
      BY <1>4, <3>1
    <3> HIDE DEF moved, last, None
    <3> QED
      BY <3>1, <3>2
  <2> QED
    BY <2>1, <2>2
<1>8. /\ passes => moved = Passed(refreshed, f, inst) /\ last = PassedNodes(refreshed, f)
      /\ ~passes => moved = refreshed
  OBVIOUS
<1> HIDE DEF moved, last
<1>9. PICK E : NetInv(moved, E) /\ \A m \in E : Occurs(m, last)
  BY <1>7
<1>10. RefreshedNodes(s) \in Seq(Nodes) /\ \A n \in Late(s) : Occurs(n, RefreshedNodes(s))
  BY RefreshedNodesIs, LateUpdated
<1>11. todo \in Seq(Nodes) /\ \A m : Occurs(m, RefreshedNodes(s)) \/ Occurs(m, last) => Occurs(m, todo)
  BY <1>7, <1>10, ConcatOccurs
<1>12. s2 \in Updated(moved, todo, inst)
  BY <1>1
<1> HIDE DEF todo
<1>13. D \in SUBSET Nodes /\ \A m \in D : Occurs(m, todo)
  OBVIOUS
<1>14. Late(s) \subseteq D
  <2>1. Late(s) \subseteq Nodes
    BY DEF Late, Postponed
  <2> QED
    BY <1>10, <1>11, <2>1
<1>15. \A m \in Nodes : m \in E => m \in D
  BY <1>9, <1>11
<1>16. \A m \in Nodes : Occurs(m, last) => m \in D
  BY <1>11
<1> HIDE DEF D
<1>17. NetInv(moved, D)
  BY <1>9, <1>15, MoreToUpdate
<1>18. PaceInv(moved, Calm, D)
  <2>1. CASE passes
    <3>1. inst = refreshed.event[f].t /\ inst < LastInstant + TimeStep
      BY <1>4, <1>6, <2>1 DEF SameButSupply, CallTime
    <3>2. \A m \in Nodes : Occurs(m, PassedNodes(refreshed, f)) => m \in D
      BY <1>8, <1>16, <2>1
    <3> DEFINE H == Calm
               L == Late(s)
    <3>3. H \in SUBSET Nodes /\ Calm \subseteq H /\ PaceInv(refreshed, H, L) /\ L \subseteq D
          /\ \A m \in H : AfterSupply(refreshed, m)
      BY <1>3, <1>5, <1>14
    <3>4. moved = Passed(refreshed, f, inst)
      BY <1>8, <2>1
    <3> HIDE DEF H, L
    <3>5. PaceInv(moved, H, D)
      BY <1>2, <1>4, <3>1, <3>2, <3>3, <3>4, PassedPaced
    <3> QED
      BY <3>5 DEF H
  <2>2. CASE ~passes
    <3>1. moved = refreshed
      BY <1>8, <2>2
    <3> DEFINE L == Late(s)
    <3>2. PaceInv(refreshed, Calm, L) /\ \A m \in Nodes : m \in L => m \in D
      BY <1>5, <1>14
    <3> HIDE DEF L
    <3> QED
      BY <1>3, <3>1, <3>2, MoreToUpdate
  <2> QED
    BY <2>1, <2>2
<1>19. G \in SUBSET Nodes /\ PaceInv(moved, G, D)
  <2>1. CASE inst = Never
    BY <1>3, <1>18, <2>1
  <2>2. CASE inst # Never
    <3>1. refreshed.event[f].t # Never
      BY <1>4, <2>2 DEF SameButSupply
    <3>2. Occurs(f, last)
      <4>1. last = PassedNodes(refreshed, f)
        BY <1>6, <1>8, <2>2
      <4>2. Occurs(f, <<f>>) /\ <<f>> \in Seq(Nodes)
        BY DEF Occurs
      <4> DEFINE a == refreshed.next[refreshed.event[f].key]
                 l == NextLink(a.veh, refreshed.event[f].key)
                 w == IF Inserted(refreshed, f, a.veh) /\ l \in Meso THEN <<To[l]>> ELSE <<>>
      <4>3. PassedNodes(refreshed, f) = <<f>> \o w
        BY DEF PassedNodes
      <4>4. w \in Seq(Nodes)
        <5>1. l \in Meso => To[l] \in Nodes
          BY Constants
        <5> HIDE DEF l
        <5> QED
          BY <5>1
      <4> HIDE DEF w
      <4> QED
        BY <4>1, <4>2, <4>3, <4>4, ConcatOccurs
    <3>3. f \in D
      BY <1>16, <3>2
    <3>4. G = Calm \cup {f} /\ G \ D = Calm \ D
      BY <2>2, <3>3
    <3> HIDE DEF G
    <3> QED
      BY <1>3, <1>18, <3>4 DEF PaceInv
  <2> QED
    BY <2>1, <2>2
<1>20. Calm \subseteq G /\ (inst # Never => f \in G)
  OBVIOUS
<1> HIDE DEF G
<1>21. PaceInv(s2, G, {})
  BY <1>2, <1>11, <1>12, <1>13, <1>17, <1>19, AllPaced DEF D
<1>22. NetInv(s2, {}) /\ SameButTimes(moved, s2, inst)
  BY <1>2, <1>11, <1>12, <1>13, <1>17, AllUpdated
<1>23. PaceInv(s2, Calm, {}) /\ (inst # Never => AfterSupply(s2, f))
  BY <1>20, <1>21 DEF PaceInv
<1>24. ASSUME inst = Never PROVE SameMoves(s, s2)
  BY <1>4, <1>6, <1>8, <1>22, <1>24 DEF SameButTimes, SameButSupply, SameMoves
<1>25. ASSUME inst # Never PROVE Passes(s, s2, f, inst)
  BY <1>4, <1>5, <1>6, <1>8, <1>22, <1>25 DEF Passes
<1> QED
  BY <1>22, <1>23, <1>24, <1>25

--------------------------------------------------------------------------------
(* The times after a step of the microscopic side *)

\* What the times are about.
SameTimes(s, s2) ==
    /\ s2.event = s.event /\ s2.arr = s.arr /\ s2.supply = s.supply
    /\ s2.ups = s.ups /\ s2.dps = s.dps
    /\ s2.led = s.led /\ \A l \in Meso : s2.cur[l] = s.cur[l]

\* Whatever changes nothing that the times are about.
LEMMA PaceKept ==
    ASSUME NEW s, NetInv(s, {}), PaceInv(s, Calm, {}), NEW s2, SameTimes(s, s2),
           \A k \in DOMAIN s.next : s2.next[k] = s.next[k]
    PROVE  PaceInv(s2, Calm, {})
<1> DEFINE None == {}
<1>1. /\ s2.event = s.event /\ s2.arr = s.arr /\ s2.supply = s.supply
      /\ s2.ups = s.ups /\ s2.dps = s.dps
      /\ s2.led = s.led /\ \A l \in Meso : s2.cur[l] = s.cur[l]
  BY DEF SameTimes
<1>2. TimesOK(s2) /\ ComesIn(s2)
  BY <1>1 DEF PaceInv, TimesOK, ComesIn
<1>3. LinksPaced(s2) /\ ExitsPaced(s2)
  BY <1>1 DEF PaceInv, LinksPaced, ExitsPaced, GapKept
<1>4. \A n \in Nodes : Wakes(s2, n)
  BY <1>1 DEF PaceInv, Wakes
<1>5. ASSUME NEW n \in Calm PROVE AfterSupply(s2, n)
  <2>1. n \in Nodes \ None /\ AfterSupply(s, n) /\ NetInv(s, None)
    BY DEF PaceInv, Calm
  <2> HIDE DEF None
  <2> QED
    BY <1>1, <2>1, AfterSupplyKept
<1> QED
  BY <1>2, <1>3, <1>4, <1>5 DEF PaceInv

\* A vehicle is announced on the incoming link k of node n, one whose events the
\* microscopic side sets.
Comes(s, s2, n, k, a) ==
    /\ \A m \in Nodes : m # n => s2.event[m] = s.event[m]
    /\ \A j \in DOMAIN s.next : j # k => s2.next[j] = s.next[j]
    /\ s2.arr[k] = s.arr[k] \cup {a} /\ \A j \in Keys : j # k => s2.arr[j] = s.arr[j]
    /\ s2.supply = s.supply /\ s2.ups = s.ups /\ s2.dps = s.dps
    /\ s2.led = s.led /\ \A l \in Meso : s2.cur[l] = s.cur[l]

\* It keeps the rest, as its node is not in Calm.
LEMMA ComesPaced ==
    ASSUME NEW s, NetInv(s, {}), PaceInv(s, Calm, {}), NEW n \in Nodes, n \notin Calm,
           NEW k \in InTo(n) \cup {n}, NEW a, a.t <= Never,
           k \in Micro => NextLink(a.veh, k) \in Meso,
           NEW s2, Comes(s, s2, n, k, a), Wakes(s2, n)
    PROVE  PaceInv(s2, Calm, {})
<1> DEFINE None == {}
<1>1. /\ \A m \in Nodes : m # n => s2.event[m] = s.event[m]
      /\ \A j \in DOMAIN s.next : j # k => s2.next[j] = s.next[j]
      /\ s2.arr[k] = s.arr[k] \cup {a}
      /\ \A j \in Keys : j # k => s2.arr[j] = s.arr[j]
      /\ s2.supply = s.supply /\ s2.ups = s.ups /\ s2.dps = s.dps
      /\ s2.led = s.led /\ \A l \in Meso : s2.cur[l] = s.cur[l]
  BY DEF Comes
<1>2. /\ TimesOK(s) /\ ComesIn(s) /\ LinksPaced(s) /\ ExitsPaced(s)
      /\ \A m \in Calm : AfterSupply(s, m)
      /\ \A m \in Nodes : Wakes(s, m)
  BY DEF PaceInv
<1>3. TimesOK(s2)
  <2>1. \A j \in Keys : \A b \in s2.arr[j] : b.t <= Never
    <3> SUFFICES ASSUME NEW j \in Keys, NEW b \in s2.arr[j] PROVE b.t <= Never
      OBVIOUS
    <3>1. b \in s.arr[j] \/ b = a
      BY <1>1
    <3> QED
      BY <1>2, <3>1 DEF TimesOK
  <2> QED
    BY <1>1, <1>2, <2>1 DEF TimesOK
<1>4. ComesIn(s2)
  <2> SUFFICES ASSUME NEW j \in Micro, NEW b \in s2.arr[j] PROVE NextLink(b.veh, j) \in Meso
    BY DEF ComesIn
  <2>1. j \in Keys
    BY DEF Micro, Keys
  <2>2. b \in s.arr[j] \/ (j = k /\ b = a)
    BY <1>1, <2>1
  <2> QED
    BY <1>2, <2>2 DEF ComesIn
<1>5. LinksPaced(s2) /\ ExitsPaced(s2)
  BY <1>1, <1>2 DEF LinksPaced, ExitsPaced, GapKept
<1>6. ASSUME NEW m \in Nodes, m # n PROVE k \notin InTo(m) \cup {m}
  BY <1>6, KeyOwner
<1>7. ASSUME NEW m \in Nodes PROVE Wakes(s2, m)
  <2>1. CASE m = n
    BY <2>1
  <2>2. CASE m # n
    <3>1. \A j \in InTo(m) : s2.arr[j] = s.arr[j]
      BY <1>1, <1>6, <2>2, KeysOf
    <3>2. NetInv(s, None) /\ Wakes(s, m)
      BY <1>2
    <3> HIDE DEF None
    <3> QED
      BY <1>1, <2>2, <3>1, <3>2, WakesKept
  <2> QED
    BY <2>1, <2>2
<1>8. ASSUME NEW m \in Calm PROVE AfterSupply(s2, m)
  <2>1. m \in Nodes \ None /\ m # n /\ NetInv(s, None) /\ AfterSupply(s, m)
    BY <1>2 DEF Calm
  <2>2. s.event[m].key \in InTo(m) \cup {m}
    BY <2>1 DEF NetInv, EventsOK
  <2>3. \A j \in DOMAIN s.next : s.event[m].t # Never /\ j = s.event[m].key => s2.next[j] = s.next[j]
    BY <1>1, <1>6, <2>1, <2>2
  <2> HIDE DEF None
  <2> QED
    BY <1>1, <2>1, <2>3, AfterSupplyKept
<1> QED
  BY <1>3, <1>4, <1>5, <1>7, <1>8 DEF PaceInv

\* A vehicle is created before a microscopic link.
LEMMA GeneratedMicroPaced ==
    ASSUME NEW s, NetInv(s, {}), PaceInv(s, Calm, {}),
           NEW v \in Vehicles, v = s.made + 1, Route[v][1] \in Micro,
           NEW s2, s2 = Generated(s)
    PROVE  PaceInv(s2, Calm, {}) /\ s2.dps = s.dps
<1> DEFINE l == Route[v][1]
           cur == [s.cur EXCEPT ![l] = Append(@, v)]
           near == s.near \cup {l}
<1>1. s2 = [s EXCEPT !.made = v, !.cur = cur, !.near = near]
  BY DEF Generated
<1>2. s \in NetType /\ s.cur \in [Links -> Seq(Vehicles)]
  BY DEF NetInv, NetType
<1>3. \A j \in Meso : cur[j] = s.cur[j]
  BY <1>2, Constants DEF Micro
<1> HIDE DEF cur, near
<1>4. /\ s2.event = s.event /\ s2.arr = s.arr /\ s2.supply = s.supply /\ s2.next = s.next
      /\ s2.ups = s.ups /\ s2.dps = s.dps /\ s2.cur = cur /\ s2.led = s.led
  BY <1>1, <1>2 DEF NetType
<1>5. SameTimes(s, s2)
  BY <1>3, <1>4 DEF SameTimes
<1> QED
  BY <1>4, <1>5, PaceKept

\* A vehicle is created at an origin.
LEMMA GeneratedMesoPaced ==
    ASSUME NEW s, NetInv(s, {}), PaceInv(s, Calm, {}),
           NEW v \in Vehicles, v = s.made + 1, Route[v][1] \in Meso,
           NEW s2, s2 = Generated(s)
    PROVE  PaceInv(s2, Calm, {}) /\ s2.dps = s.dps
<1> DEFINE l == Route[v][1]
           n == From[l]
           first == s.event[n].t > s.clock /\ s.wait[l] = <<>> /\ s.supply[l] # Never
           a == [t |-> Later(s.clock, MaxArrivalTime(s.arr[n])), veh |-> v]
           b == [t |-> s.clock, veh |-> v]
           wait == [s.wait EXCEPT ![l] = Append(@, v)]
           arr == [s.arr EXCEPT ![n] = @ \cup {a}]
           event == [s.event EXCEPT ![n] = IF first THEN [t |-> s.clock, key |-> n] ELSE s.event[n]]
           next == IF first THEN WithKey(s.next, n, b) ELSE s.next
           None == {}
<1>1. l \in Meso /\ l \in Links /\ l \notin Micro /\ n \in Nodes /\ n \in Keys /\ n \in Origins
      /\ OutOf(n) = {l} /\ InTo(n) = {n} /\ n \notin Micro
  <2>1. l \in Meso /\ n \in Origins
    BY RouteOf
  <2> QED
    BY <2>1, OriginOf, Constants DEF Micro, Keys
<1>2. s2 = [s EXCEPT !.made = v, !.wait = wait, !.arr = arr, !.event = event, !.next = next]
  <2>1. Route[s.made + 1][1] \notin Micro
    BY <1>1
  <2> QED
    BY <2>1 DEF Generated
<1>3. /\ s \in NetType /\ s.wait \in [Meso -> Seq(Vehicles)] /\ s.arr \in [Keys -> SUBSET Arrival]
      /\ s.event \in [Nodes -> [t : Int, key : Keys]] /\ s.next \in NextMaps
      /\ s.clock \in 0 .. LastInstant
  BY DEF NetInv, NetType
<1>4. s.clock \in Nat /\ s.clock < Never
  BY <1>3, Horizon, Constants
<1>5. b \in MaybeArrival
  BY <1>4 DEF MaybeArrival
<1>6. a.t <= Never /\ a.veh = v
  <2>1. s.arr[n] \in SUBSET Arrival /\ IsFiniteSet(s.arr[n])
    BY <1>1, <1>3 DEF NetInv, Placed, ArrivalsOK, Proper
  <2>2. \A c \in s.arr[n] : c.t <= Never
    BY <1>1 DEF PaceInv, TimesOK
  <2> DEFINE x == MaxArrivalTime(s.arr[n])
             end == Never
  <2>3. end \in Nat /\ \A c \in s.arr[n] : c.t <= end
    BY <2>2, Constants
  <2> HIDE DEF end
  <2>4. x \in Int /\ x <= end
    BY <2>1, <2>3, MaxTimeBound
  <2> HIDE DEF x
  <2>5. Later(s.clock, x) <= Never
    <3>1. s.clock \in Int /\ s.clock <= Never /\ x \in Int /\ x <= Never
      BY <1>4, <2>4, Constants DEF end
    <3>2. Later(s.clock, x) = s.clock \/ Later(s.clock, x) = x
      BY <3>1, LaterIs
    <3> QED
      BY <3>1, <3>2
  <2> QED
    BY <2>5 DEF x
<1> HIDE DEF first, a, b, l
<1>7. /\ arr[n] = s.arr[n] \cup {a}
      /\ \A j \in Keys : j # n => arr[j] = s.arr[j]
  BY <1>1, <1>3
<1>8. /\ \A m \in Nodes : m # n => event[m] = s.event[m]
      /\ event[n] = IF first THEN [t |-> s.clock, key |-> n] ELSE s.event[n]
  BY <1>1, <1>3
<1>9. \A j \in DOMAIN s.next : j # n => next[j] = s.next[j]
  <2>1. OneChanged(WithKey(s.next, n, b), s.next, n, b)
    BY <1>1, <1>3, <1>5, NextSet
  <2> QED
    BY <2>1 DEF OneChanged
<1> HIDE DEF wait, arr, event, next
<1>10. /\ s2.event = event /\ s2.arr = arr /\ s2.next = next /\ s2.supply = s.supply
       /\ s2.ups = s.ups /\ s2.dps = s.dps /\ s2.cur = s.cur /\ s2.led = s.led
  BY <1>2, <1>3 DEF NetType
<1>11. Comes(s, s2, n, n, a)
  BY <1>7, <1>8, <1>9, <1>10 DEF Comes
<1>12. NetInv(s2, {})
  BY GeneratedMeso DEF l
<1>13. Wakes(s2, n)
  <2> SUFFICES ASSUME \A c \in s2.arr[n] : c.t # Never
               PROVE  \/ s2.event[n].t # Never
                      \/ s2.supply[NextLink(MinArrival(s2.arr[n]).veh, n)] = Never
    BY <1>1 DEF Wakes
  <2>1. NetInv(s2, None) /\ NetInv(s, None)
    BY <1>12
  <2> HIDE DEF None
  <2>2. ASSUME NEW r, NetInv(r, None), r.arr[n] # {}
        PROVE  NextLink(MinArrival(r.arr[n]).veh, n) = l
    <3>1. ListsOK(r)
      BY <2>2 DEF ListsOK, NetInv, Placed, ArrivalsOK
    <3> DEFINE c == MinArrival(r.arr[n])
    <3>2. c \in r.arr[n]
      BY <1>1, <2>2, <3>1, FirstOf
    <3> HIDE DEF c
    <3>3. n \in InTo(n) \cup {n} /\ NextLink(c.veh, n) \in OutOf(n)
      BY <1>1, <2>2, <3>2, WantedGoes
    <3> QED
      BY <1>1, <3>3 DEF c
  <2>3. s2.supply = s.supply /\ NextLink(MinArrival(s2.arr[n]).veh, n) = l
    BY <1>7, <1>10, <2>1, <2>2
  <2>4. CASE first
    BY <1>4, <1>8, <1>10, <2>4
  <2>5. CASE ~first
    <3>1. s2.event[n] = s.event[n] /\ s.event[n].t \in Int
      BY <1>1, <1>3, <1>8, <1>10, <2>5
    <3>2. CASE ~(s.event[n].t > s.clock)
      BY <1>4, <3>1, <3>2, Constants
    <3>3. CASE s.wait[l] # <<>>
      <4>1. s.arr[n] # {}
        <5>1. s.wait[l] \in Seq(Vehicles)
          BY <1>1, <1>3
        <5> DEFINE q == s.wait[l]
        <5>2. 1 \in DOMAIN q /\ q[1] \in Vehicles
          <6> HIDE DEF q
          <6>1. q \in Seq(Vehicles) /\ q # <<>>
            BY <3>3, <5>1 DEF q
          <6> QED
            BY <6>1, EmptySeq, LenProperties, ElementOfSeq
        <5>3. Occurs(q[1], s.wait[l])
          BY <5>2 DEF Occurs
        <5> HIDE DEF q
        <5>4. Listed(q[1], s.arr[n])
          BY <1>1, <5>2, <5>3 DEF NetInv, Placed, WaitOK
        <5> QED
          BY <5>4 DEF Listed
      <4>2. NextLink(MinArrival(s.arr[n]).veh, n) = l
        BY <2>1, <2>2, <4>1
      <4>3. \A c \in s.arr[n] : c.t # Never
        BY <1>7, <1>10
      <4>4. Wakes(s, n)
        BY <1>1 DEF PaceInv
      <4>5. s.event[n].t # Never \/ s.supply[l] = Never
        BY <1>1, <4>1, <4>2, <4>3, <4>4 DEF Wakes
      <4> QED
        BY <2>3, <3>1, <4>5
    <3>4. CASE s.supply[l] = Never
      BY <2>3, <3>4
    <3> QED
      BY <2>5, <3>2, <3>3, <3>4 DEF first
  <2> QED
    BY <2>4, <2>5
<1>14. n \notin Calm /\ n \in InTo(n) \cup {n}
  BY <1>1 DEF Calm
<1>15. PaceInv(s2, Calm, {})
  <2> HIDE DEF n
  <2> QED
    BY <1>1, <1>6, <1>11, <1>13, <1>14, ComesPaced
<1> QED
  BY <1>10, <1>15

\* A vehicle comes to the end of a microscopic link.
LEMMA MicroEndPaced ==
    ASSUME NEW s, NetInv(s, {}), PaceInv(s, Calm, {}), NEW k \in AtEnd(s),
           NEW t \in (s.clock - TimeStep + 1) .. s.clock, NEW s2, s2 = MicroEnd(s, k, t)
    PROVE  PaceInv(s2, Calm, {}) /\ s2.dps = s.dps
<1> DEFINE v == Head(s.cur[k])
           l == NextLink(v, k)
           cur == [s.cur EXCEPT ![k] = Tail(@)]
<1>1. k \in Micro /\ k \in Links /\ k \in Keys /\ s.cur[k] # <<>>
  BY DEF AtEnd, Micro, Keys
<1>2. v \in Vehicles /\ Occurs(k, Route[v])
  BY <1>1, TakenOff
<1>3. s \in NetType /\ s.clock \in 0 .. LastInstant /\ s.cur \in [Links -> Seq(Vehicles)]
  BY DEF NetInv, NetType
<1>4. \A j \in Meso : cur[j] = s.cur[j]
  BY <1>1, <1>3, Constants DEF Micro
<1> HIDE DEF v
<1>5. CASE s2 = s
  BY <1>5
<1>6. CASE l \notin Meso
  <2>1. s2 = [s EXCEPT !.cur = cur]
    BY <1>6 DEF MicroEnd, v
  <2> HIDE DEF cur
  <2>2. /\ s2.event = s.event /\ s2.arr = s.arr /\ s2.supply = s.supply /\ s2.next = s.next
        /\ s2.ups = s.ups /\ s2.dps = s.dps /\ s2.cur = cur /\ s2.led = s.led
    BY <1>3, <2>1 DEF NetType
  <2>3. SameTimes(s, s2)
    BY <1>4, <2>2 DEF SameTimes
  <2> QED
    BY <2>2, <2>3, PaceKept
<1>7. CASE l \in Meso /\ s2 # s
  <2> DEFINE n == To[k]
             a == [t |-> t, veh |-> v]
             arr == [s.arr EXCEPT ![k] = @ \cup {a}]
             event == [s.event EXCEPT ![n] = [t |-> t, key |-> k]]
             next == WithKey(s.next, k, a)
  <2>1. s2 = [s EXCEPT !.event = event, !.next = next, !.arr = arr, !.cur = cur]
    BY <1>7 DEF MicroEnd, EnteringFromOutside, v
  <2>2. n \in Nodes /\ k \in InTo(n) /\ n \notin Calm
    <3>1. Goes(n, l)
      BY <1>1, <1>2, NextLinkOther
    <3>2. l # n
      BY <1>1, <1>7, Constants
    <3>3. n \in Nodes
      BY <1>7, <3>1, <3>2, Constants DEF Goes
    <3>4. k \in InTo(n)
      BY <1>1 DEF InTo
    <3> QED
      BY <1>1, <3>3, <3>4 DEF Calm, Micro
  <2>3. t \in Int /\ t < Never
    BY <1>3, Horizon, Constants
  <2>4. /\ s.arr \in [Keys -> SUBSET Arrival] /\ s.next \in NextMaps
        /\ s.event \in [Nodes -> [t : Int, key : Keys]]
    BY <1>3 DEF NetType
  <2>5. a \in MaybeArrival /\ a.t = t /\ a.veh = v
    BY <1>2, <2>3 DEF MaybeArrival
  <2> HIDE DEF a, n, cur
  <2>6. /\ arr[k] = s.arr[k] \cup {a}
        /\ \A j \in Keys : j # k => arr[j] = s.arr[j]
    BY <1>1, <2>4
  <2>7. /\ \A m \in Nodes : m # n => event[m] = s.event[m]
        /\ event[n].t = t
    BY <2>2, <2>4
  <2>8. \A j \in DOMAIN s.next : j # k => next[j] = s.next[j]
    <3>1. OneChanged(next, s.next, k, a)
      BY <1>1, <2>4, <2>5, NextSet
    <3> QED
      BY <3>1 DEF OneChanged
  <2> HIDE DEF arr, event, next
  <2>9. /\ s2.event = event /\ s2.arr = arr /\ s2.next = next /\ s2.supply = s.supply
        /\ s2.ups = s.ups /\ s2.dps = s.dps /\ s2.cur = cur /\ s2.led = s.led
    BY <1>3, <2>1 DEF NetType
  <2>10. Comes(s, s2, n, k, a)
    BY <1>4, <2>6, <2>7, <2>8, <2>9 DEF Comes
  <2>11. Wakes(s2, n)
    BY <2>3, <2>7, <2>9, Constants DEF Wakes
  <2>12. a.t <= Never /\ NextLink(a.veh, k) \in Meso
    BY <1>7, <2>3, <2>5, Constants
  <2>13. PaceInv(s2, Calm, {})
    BY <2>2, <2>10, <2>11, <2>12, ComesPaced
  <2> QED
    BY <2>9, <2>13
<1> QED
  BY <1>5, <1>6, <1>7

--------------------------------------------------------------------------------
(* The second invariant *)

PaceIInv ==
    /\ PaceInv(net, Calm, {})
    /\ snap = NoSnapshot \/ PaceInv(snap, Calm, {})

\* The call that unblocks the nodes before a step lets no vehicle pass.
LEMMA StartedPaced ==
    ASSUME IInv, PaceIInv, NEW start \in Started
    PROVE  /\ PaceInv(start.net, Calm, {})
           /\ SameMoves(net, start.net)
           /\ net.event[front].t # Never => start.net = net /\ start.front = front
<1> DEFINE call == SimuTraficMeso(net, front, Never)
<1>1. NetInv(net, {}) /\ front \in Nodes /\ PaceInv(net, Calm, {})
  BY DEF IInv, PaceIInv
<1>2. CASE net.event[front].t # Never
  <2>1. start = [net |-> net, front |-> front]
    BY <1>2 DEF Started
  <2> QED
    BY <1>1, <2>1 DEF SameMoves
<1>3. CASE net.event[front].t = Never
  <2> DEFINE F(s) == {[net |-> s, front |-> f] : f \in Fronts(s, call.todo # <<>>)}
  <2>1. start \in UNION {F(s) : s \in call.outcomes}
    BY <1>3 DEF Started
  <2>2. PICK s \in call.outcomes : start \in F(s)
    BY <2>1
  <2>3. start.net = s
    BY <2>2
  <2> DEFINE inst == Never
  <2>4. inst = Never /\ CallTime(inst) /\ s \in SimuTraficMeso(net, front, inst).outcomes
    BY Constants DEF CallTime
  <2> HIDE DEF call, F, inst
  <2>5. PaceInv(s, Calm, {}) /\ SameMoves(net, s)
    BY <1>1, <2>4, CallPaced
  <2> QED
    BY <1>3, <2>3, <2>5
<1> QED
  BY <1>2, <1>3

\* A step of the mesoscopic side is the passage of a vehicle.
Passage(s, f, inst) ==
    /\ NetInv(s, {}) /\ f \in Nodes /\ inst \in Int /\ inst = s.event[f].t
    /\ inst # Never /\ inst < LastInstant + TimeStep
    /\ SameMoves(net, s)
    /\ net.event[front].t # Never => s = net /\ f = front
    /\ AfterSupply(net', f) /\ Passes(s, net', f, inst)

\* The passage of a step of the mesoscopic side.
LEMMA MesoStepPaced ==
    ASSUME IInv, PaceIInv, MesoStep
    PROVE  PaceIInv' /\ \E s, f, inst : Passage(s, f, inst)
<1>1. PICK start \in Started :
        LET inst == start.net.event[start.front].t
            call == SimuTraficMeso(start.net, start.front, inst)
        IN /\ inst < start.net.clock + TimeStep
           /\ net' \in call.outcomes
           /\ front' \in (IF call.todo # <<>> THEN Earliest(net') ELSE {start.front})
           /\ completed' = FALSE
           /\ UNCHANGED <<snap, rollbacks>>
  BY DEF MesoStep
<1> DEFINE s == start.net
           f == start.front
           inst == s.event[f].t
<1>2. /\ NetInv(s, {}) /\ f \in Nodes /\ s.clock = net.clock
      /\ PaceInv(s, Calm, {})
      /\ SameMoves(net, s)
      /\ net.event[front].t # Never => s = net /\ f = front
  BY StartedIs, StartedPaced
<1>3. /\ inst < s.clock + TimeStep /\ net' \in SimuTraficMeso(s, f, inst).outcomes
      /\ snap' = snap
  BY <1>1
<1> HIDE DEF s, f
<1>4. inst \in Int /\ inst < LastInstant + TimeStep /\ inst # Never /\ CallTime(inst)
  <2>1. inst \in Int /\ s.clock \in 0 .. LastInstant
    BY <1>2 DEF NetInv, NetType
  <2> HIDE DEF inst
  <2>2. inst < LastInstant + TimeStep
    BY <1>3, <2>1, Constants
  <2> QED
    BY <2>1, <2>2, Horizon, Constants DEF CallTime
<1>5. s.event[f].t = inst
  OBVIOUS
<1> HIDE DEF inst
<1>6. PaceInv(net', Calm, {}) /\ AfterSupply(net', f) /\ Passes(s, net', f, inst)
  BY <1>2, <1>3, <1>4, <1>5, CallPaced
<1>7. Passage(s, f, inst)
  BY <1>2, <1>4, <1>5, <1>6 DEF Passage
<1>8. PaceIInv'
  BY <1>3, <1>6 DEF PaceIInv, PaceInv, TimesOK, ComesIn, LinksPaced, ExitsPaced, AfterSupply, Wakes,
     GapKept, GapBack
<1> QED
  BY <1>7, <1>8

\* A step of the microscopic side lets no vehicle enter a mesoscopic link.
LEMMA MicroStepPaced ==
    ASSUME IInv, PaceIInv, MicroStep
    PROVE  PaceIInv' /\ net'.dps = net.dps /\ completed' = TRUE
<1>1. PICK start \in Started, freed \in SUBSET net.near :
      LET tick == [start.net EXCEPT !.clock = @ + TimeStep, !.near = @ \ freed]
      IN /\ start.net.event[start.front].t >= tick.clock
         /\ tick.clock <= LastInstant
         /\ \E s \in Demanded(tick) : net' \in Ended(s)
         /\ front' \in (IF net'.event # start.net.event THEN Earliest(net') ELSE {start.front})
         /\ completed' = TRUE
         /\ UNCHANGED <<snap, rollbacks>>
  BY DEF MicroStep
<1> DEFINE s0 == start.net
           tick == [s0 EXCEPT !.clock = @ + TimeStep, !.near = @ \ freed]
<1>2. NetInv(s0, {}) /\ PaceInv(s0, Calm, {}) /\ s0.dps = net.dps
  BY StartedIs, StartedPaced DEF SameMoves
<1>3. tick.clock <= LastInstant /\ completed' = TRUE /\ snap' = snap
  BY <1>1
<1>4. PICK s \in Demanded(tick) : net' \in Ended(s)
  BY <1>1
<1> HIDE DEF s0
<1>5. NetInv(tick, {})
  <2> DEFINE y == s0.near \cap freed
  <2>1. tick = [s0 EXCEPT !.clock = @ + TimeStep, !.near = @ \ y]
    <3>1. s0.near \ freed = s0.near \ y
      OBVIOUS
    <3> HIDE DEF y
    <3> QED
      BY <3>1
  <2>2. y \in SUBSET s0.near
    OBVIOUS
  <2>3. s0.clock + TimeStep <= LastInstant
    <3>1. tick.clock = s0.clock + TimeStep
      BY <1>2 DEF NetInv, NetType
    <3> QED
      BY <1>3, <3>1
  <2> HIDE DEF y, tick
  <2> QED
    BY <1>2, <2>1, <2>2, <2>3, TickIs
<1>6. PaceInv(tick, Calm, {}) /\ tick.dps = s0.dps
  <2>1. /\ tick.event = s0.event /\ tick.arr = s0.arr /\ tick.supply = s0.supply
        /\ tick.next = s0.next /\ tick.ups = s0.ups /\ tick.dps = s0.dps /\ tick.cur = s0.cur
        /\ tick.led = s0.led
    BY <1>2 DEF NetInv, NetType
  <2>2. SameTimes(s0, tick)
    BY <2>1 DEF SameTimes
  <2> HIDE DEF tick
  <2> QED
    BY <1>2, <2>1, <2>2, PaceKept
<1> HIDE DEF tick
<1>7. NetInv(s, {}) /\ PaceInv(s, Calm, {}) /\ s.dps = s0.dps
  <2>1. CASE s = tick
    BY <1>5, <1>6, <2>1
  <2>2. CASE s # tick
    <3>1. PICK v \in Vehicles : v = tick.made + 1 /\ s = Generated(tick)
      BY <2>2 DEF Demanded
    <3>2. NetInv(s, {})
      BY <1>5, <3>1, GeneratedIs
    <3>3. PaceInv(s, Calm, {}) /\ s.dps = tick.dps
      <4>1. CASE Route[v][1] \in Micro
        BY <1>5, <1>6, <3>1, <4>1, GeneratedMicroPaced
      <4>2. CASE Route[v][1] \notin Micro
        <5>1. Route[v][1] \in Meso
          BY <4>2, RouteOf DEF Micro
        <5> QED
          BY <1>5, <1>6, <3>1, <5>1, GeneratedMesoPaced
      <4> QED
        BY <4>1, <4>2
    <3> QED
      BY <1>6, <3>2, <3>3
  <2> QED
    BY <2>1, <2>2
<1>8. PaceInv(net', Calm, {}) /\ net'.dps = s.dps
  <2>1. CASE net' = s
    BY <1>7, <2>1
  <2>2. CASE net' # s
    <3>1. PICK k \in AtEnd(s), t \in (s.clock - TimeStep + 1)..s.clock : net' = MicroEnd(s, k, t)
      BY <1>4, <2>2 DEF Ended
    <3> QED
      BY <1>7, <3>1, MicroEndPaced
  <2> QED
    BY <2>1, <2>2
<1>9. PaceIInv'
  BY <1>3, <1>8 DEF PaceIInv, PaceInv, TimesOK, ComesIn, LinksPaced, ExitsPaced, AfterSupply, Wakes,
     GapKept, GapBack
<1> QED
  BY <1>2, <1>3, <1>7, <1>8, <1>9

\* A rollback.
LEMMA RestorePaced ==
    ASSUME IInv, PaceIInv, Restore
    PROVE  PaceIInv'
<1> DEFINE y == Over(snap.next, net.next)
<1>1. /\ NetInv(snap, {}) /\ NetInv(net, {}) /\ PaceInv(snap, Calm, {})
      /\ net' = [snap EXCEPT !.next = y] /\ snap' = snap
  BY DEF IInv, PaceIInv, Restore
<1>2. snap \in NetType /\ snap.next \in NextMaps /\ net.next \in NextMaps
  BY <1>1 DEF NetInv, NetType
<1>3. \A k \in DOMAIN snap.next : y[k] = snap.next[k]
  BY DEF Over
<1> HIDE DEF y
<1>4. /\ net'.event = snap.event /\ net'.arr = snap.arr /\ net'.supply = snap.supply
      /\ net'.ups = snap.ups /\ net'.dps = snap.dps /\ net'.cur = snap.cur /\ net'.next = y
      /\ net'.led = snap.led
  BY <1>1, <1>2 DEF NetType
<1>5. SameTimes(snap, net')
  BY <1>4 DEF SameTimes
<1>6. \A k \in DOMAIN snap.next : net'.next[k] = snap.next[k]
  BY <1>3, <1>4
<1>7. PaceInv(net', Calm, {})
  BY <1>1, <1>5, <1>6, PaceKept
<1> QED
  BY <1>1, <1>7 DEF PaceIInv, PaceInv, TimesOK, ComesIn, LinksPaced, ExitsPaced, AfterSupply, Wakes,
     GapKept, GapBack

\* The empty network.
LEMMA InitPaced ==
    ASSUME Init
    PROVE  PaceIInv
<1>1. /\ net.event = [n \in Nodes |-> [t |-> Never, key |-> n]]
      /\ net.arr = [k \in Keys |-> {}] /\ net.supply = [k \in Keys |-> Past]
      /\ net.cur = [l \in Links |-> <<>>] /\ net.ups = [l \in Meso |-> <<>>]
      /\ net.dps = [l \in Links |-> <<>>] /\ snap = NoSnapshot
  BY DEF Init, Keys
<1>2. TimesOK(net)
  BY <1>1, Constants DEF TimesOK
<1>3. ComesIn(net)
  BY <1>1 DEF ComesIn, Micro, Keys
<1>4. \A l \in Meso : net.cur[l] = <<>> /\ net.ups[l] = <<>>
  BY <1>1, Constants
<1>5. Spaced(<<>>, ExitHeadway)
  BY DEF Spaced
<1>6. LinksPaced(net) /\ ExitsPaced(net)
  BY <1>4, <1>5 DEF LinksPaced, ExitsPaced
<1>7. \A n \in Calm : AfterSupply(net, n)
  BY <1>1 DEF AfterSupply, Calm
<1>8. \A n \in Nodes : Wakes(net, n)
  BY <1>1, KeysOf DEF Wakes
<1> QED
  BY <1>1, <1>2, <1>3, <1>6, <1>7, <1>8 DEF PaceIInv, PaceInv

\* What every step preserves besides.
THEOREM MesoPaceInvariance == Spec => [](IInv /\ PaceIInv)
<1>1. Init => PaceIInv
  BY InitPaced
<1>2. ASSUME IInv, PaceIInv, [Next]_vars PROVE PaceIInv'
  <2>1. CASE MesoStep
    BY <1>2, <2>1, MesoStepPaced
  <2>2. CASE MicroStep
    BY <1>2, <2>2, MicroStepPaced
  <2>3. CASE TakeSnapshot
    <3>1. snap' = net /\ net' = net
      BY <2>3 DEF TakeSnapshot
    <3> QED
      BY <1>2, <3>1 DEF PaceIInv, PaceInv, TimesOK, ComesIn, LinksPaced, ExitsPaced, AfterSupply, Wakes,
     GapKept, GapBack
  <2>4. CASE Restore
    BY <1>2, <2>4, RestorePaced
  <2>5. CASE UNCHANGED vars
    <3>1. snap' = snap /\ net' = net
      BY <2>5 DEF vars
    <3> QED
      BY <1>2, <3>1 DEF PaceIInv, PaceInv, TimesOK, ComesIn, LinksPaced, ExitsPaced, AfterSupply, Wakes,
     GapKept, GapBack
  <2> QED
    BY <1>2, <2>1, <2>2, <2>3, <2>4, <2>5 DEF Next
<1> QED
  BY <1>1, <1>2, MesoInvariance, PTL DEF Spec

--------------------------------------------------------------------------------
(* What the second invariant says *)

\* A node at which vehicles wait has an event, or the link each of them wants is computed
\* again at every call: whatever drops the event of the node.
THEOREM NoNodeIsForgotten == Spec => []NoLostWakeup
<1>1. ASSUME PaceIInv PROVE NoLostWakeup
  <2>1. \A n \in Nodes : Wakes(net, n)
    BY <1>1 DEF PaceIInv, PaceInv
  <2> QED
    BY <2>1 DEF NoLostWakeup, Wakes, Waiting, Awake, Wanted
<1> QED
  BY <1>1, MesoPaceInvariance, PTL

\* An exit that only mesoscopic links lead to lets a vehicle of each out at its rate.
THEOREM ExitsKeepTheirRate == Spec => []ExitCapacityKept
<1>1. ASSUME PaceIInv PROVE ExitCapacityKept
  <2>1. ExitsPaced(net)
    BY <1>1 DEF PaceIInv, PaceInv
  <2> QED
    BY <2>1 DEF ExitCapacityKept, ExitsPaced, ToExit
<1> QED
  BY <1>1, MesoPaceInvariance, PTL

\* The vehicle that passes and the link it takes.
LEMMA PassageEffect ==
    ASSUME NEW s, NEW f, NEW inst, Passage(s, f, inst)
    PROVE  \E r, p, k, a, l :
              /\ NetInv(r, {}) /\ SameButSupply(s, r) /\ TimesOK(r) /\ LinksPaced(r)
              /\ f \in Calm => AfterSupply(r, f)
              /\ SameButTimes(p, net', inst)
              /\ k = r.event[f].key /\ a = r.next[k] /\ l = NextLink(a.veh, k)
              /\ Goes(f, l) /\ Effect(r, p, f, k, a, l, inst)
<1>1. PICK r, p :
        /\ NetInv(r, {}) /\ SameButSupply(s, r) /\ PaceInv(r, Calm, Late(s))
        /\ \A n \in Calm : AfterSupply(r, n)
        /\ p = Passed(r, f, inst) /\ SameButTimes(p, net', inst)
  BY DEF Passage, Passes
<1>2. /\ f \in Nodes /\ inst \in Int /\ inst < LastInstant + TimeStep
      /\ r.event[f].t # Never
  BY <1>1 DEF Passage, SameButSupply
<1>3. TimesOK(r) /\ LinksPaced(r)
  BY <1>1 DEF PaceInv
<1> DEFINE k == r.event[f].key
           a == r.next[k]
           l == NextLink(a.veh, k)
<1>4. k = r.event[f].key /\ a = r.next[k] /\ l = NextLink(a.veh, k)
  OBVIOUS
<1> HIDE DEF k, a, l
<1>5. Goes(f, l) /\ Effect(r, p, f, k, a, l, inst)
  BY <1>1, <1>2, <1>3, <1>4, PassedEffect
<1> QED
  BY <1>1, <1>3, <1>4, <1>5

\* A vehicle enters a mesoscopic link in a step of the mesoscopic side only.
LEMMA EntersInMesoStep ==
    ASSUME IInv, PaceIInv, [Next]_vars, rollbacks' = rollbacks,
           NEW l, net'.dps[l] # net.dps[l]
    PROVE  MesoStep
<1>1. CASE MicroStep
  BY <1>1, MicroStepPaced
<1>2. CASE TakeSnapshot
  BY <1>2 DEF TakeSnapshot
<1>3. CASE Restore
  BY <1>3, Constants DEF Restore, IInv
<1>4. CASE UNCHANGED vars
  BY <1>4 DEF vars
<1> QED
  BY <1>1, <1>2, <1>3, <1>4 DEF Next

\* A vehicle enters a link at inst, where there is one, from a node whose events only the
\* updates set: not before the supply time t it had, computed again or not.
Enters(l, inst, t) ==
    /\ net.dps[l] # <<>> /\ net.dps[l] \in Seq(Int) /\ inst \in Int /\ t \in Int
    /\ inst < Never /\ inst >= t
    /\ net'.dps[l] = Append(net.dps[l], inst)
    /\ t >= Last(net.dps[l]) + Headway
    /\ net.led[l] => GapBack(t, Len(net.dps[l]) - Room[l], net.ups[l], Wave[l])

LEMMA EntersOnTime ==
    ASSUME IInv, PaceIInv, MesoStep,
           NEW l \in Meso, From[l] \notin Origins, InTo(From[l]) \subseteq Meso,
           net.cur[l] # <<>>, net'.dps[l] # net.dps[l]
    PROVE  \E inst, t : Enters(l, inst, t)
<1>1. PICK s, f, inst : Passage(s, f, inst)
  BY MesoStepPaced
<1>2. PICK r, p, k, a, o :
        /\ NetInv(r, {}) /\ SameButSupply(s, r) /\ TimesOK(r) /\ LinksPaced(r)
        /\ f \in Calm => AfterSupply(r, f)
        /\ SameButTimes(p, net', inst)
        /\ k = r.event[f].key /\ a = r.next[k] /\ o = NextLink(a.veh, k)
        /\ Goes(f, o) /\ Effect(r, p, f, k, a, o, inst)
  BY <1>1, PassageEffect
<1>3. /\ r.dps = net.dps /\ r.cur = net.cur /\ r.ups = net.ups /\ r.led = net.led
      /\ net'.dps = p.dps
      /\ r.event[f].t = inst /\ inst # Never /\ inst \in Int /\ inst < LastInstant + TimeStep
      /\ f \in Nodes /\ l \in Links
  BY <1>1, <1>2, Constants DEF Passage, SameMoves, SameButSupply, SameButTimes
<1>4. l = o /\ p.dps[l] = Append(r.dps[l], inst)
  <2>1. Effect(r, p, f, k, a, o, inst)
    BY <1>2
  <2>2. \A j \in Links : p.dps[j] = IF Inserted(r, f, a.veh) /\ j = o
                                    THEN Append(r.dps[j], inst) ELSE r.dps[j]
    BY <2>1 DEF Effect
  <2> QED
    BY <1>3, <2>2
<1>5. f \in Calm
  <2>1. Goes(f, l)
    BY <1>2, <1>4
  <2>2. From[l] = f
    BY <1>3, <2>1, Constants DEF Goes
  <2> QED
    BY <1>3, <2>2 DEF Calm
<1> DEFINE t == r.supply[l]
<1>6. inst >= t
  BY <1>2, <1>3, <1>4, <1>5 DEF AfterSupply
<1>7. /\ t >= Last(r.dps[l]) + Headway
      /\ r.led[l] => GapBack(t, Len(r.dps[l]) - Room[l], r.ups[l], Wave[l])
  BY <1>2, <1>3 DEF LinksPaced, GapKept
<1>8. t \in Int /\ r.dps[l] \in Seq(Int)
  BY <1>2, <1>3 DEF NetInv, NetType, Keys
<1> HIDE DEF t
<1>9. r.dps[l] # <<>>
  <2> DEFINE D == {}
  <2>1. NetInv(r, D) /\ TimesOK(r) /\ r.cur[l] # <<>>
    BY <1>2, <1>3
  <2> HIDE DEF D
  <2> QED
    BY <2>1, LinkTimes
<1>10. inst < Never
  BY <1>3, Horizon, Constants
<1>11. net'.dps[l] = Append(net.dps[l], inst)
  BY <1>3, <1>4
<1>12. Enters(l, inst, t)
  BY <1>3, <1>6, <1>7, <1>8, <1>9, <1>10, <1>11 DEF Enters
<1> QED
  BY <1>12

\* Its time is the last of those that entered.
LEMMA EntersLast ==
    ASSUME NEW l, NEW inst, NEW t, Enters(l, inst, t)
    PROVE  /\ Last(net'.dps[l]) = inst /\ Last(net.dps[l]) \in Int
           /\ inst \in Int /\ t \in Int /\ inst < Never /\ inst >= t
<1> DEFINE q == net.dps[l]
<1>1. /\ q \in Seq(Int) /\ q # <<>> /\ net'.dps[l] = Append(q, inst)
      /\ inst \in Int /\ t \in Int /\ inst < Never /\ inst >= t
  BY DEF Enters
<1> HIDE DEF q
<1>2. Last(q) \in Int
  BY <1>1, LastOf
<1>3. Len(Append(q, inst)) = Len(q) + 1 /\ Append(q, inst)[Len(q) + 1] = inst
  BY <1>1, AppendProperties
<1>4. Last(net'.dps[l]) = inst
  BY <1>1, <1>3 DEF Last
<1> QED
  BY <1>1, <1>2, <1>4 DEF q

\* A vehicle enters a link on which there is one at least the headway after the last that
\* entered: its node has no event before the supply time, which keeps the headway however
\* often it is computed again.
THEOREM LinksKeepTheirRate == Spec => LinkCapacityKept
<1> DEFINE Entries ==
             \A l \in Meso :
                /\ From[l] \notin Origins /\ InTo(From[l]) \subseteq Meso /\ rollbacks' = rollbacks
                /\ net.cur[l] # <<>> /\ net'.dps[l] # net.dps[l]
                => Last(net'.dps[l]) >= Last(net.dps[l]) + Headway
<1>1. ASSUME IInv, PaceIInv, [Next]_vars PROVE [Entries]_vars
  <2> SUFFICES ASSUME NEW l \in Meso, From[l] \notin Origins, InTo(From[l]) \subseteq Meso,
                      rollbacks' = rollbacks, net.cur[l] # <<>>, net'.dps[l] # net.dps[l]
               PROVE  Last(net'.dps[l]) >= Last(net.dps[l]) + Headway
    OBVIOUS
  <2>1. PICK inst, t : Enters(l, inst, t)
    BY <1>1, EntersInMesoStep, EntersOnTime
  <2>2. t >= Last(net.dps[l]) + Headway
    BY <2>1 DEF Enters
  <2>3. /\ Last(net'.dps[l]) = inst /\ Last(net.dps[l]) \in Int
        /\ inst \in Int /\ t \in Int /\ inst >= t
    BY <2>1, EntersLast
  <2> QED
    BY <2>2, <2>3, Constants
<1>2. [](IInv /\ PaceIInv) /\ [][Next]_vars => [][Entries]_vars
  BY <1>1, PTL
<1>3. [][Entries]_vars <=> LinkCapacityKept
  BY DEF LinkCapacityKept
<1> QED
  BY <1>2, <1>3, MesoPaceInvariance, PTL DEF Spec

\* When a vehicle had left the link before the last one entered it, another one enters it
\* only when the gap is back from the one that is Room ranks before: a supply time that is
\* not postponed is never before that of the gap, computed when the last one entered or
\* again since.
THEOREM GapsComeBack == Spec => GapRespected
<1> DEFINE Entries ==
             \A l \in Meso :
                /\ From[l] \notin Origins /\ InTo(From[l]) \subseteq Meso /\ rollbacks' = rollbacks
                /\ net.cur[l] # <<>> /\ net'.dps[l] # net.dps[l]
                /\ net.led[l] /\ RefRank(net, l) > 1
                => /\ RefRank(net, l) < Len(net.ups[l])
                   /\ Last(net'.dps[l]) >= net.ups[l][RefRank(net, l)] + Wave[l]
<1>1. ASSUME IInv, PaceIInv, [Next]_vars PROVE [Entries]_vars
  <2> SUFFICES ASSUME NEW l \in Meso, From[l] \notin Origins, InTo(From[l]) \subseteq Meso,
                      rollbacks' = rollbacks, net.cur[l] # <<>>, net'.dps[l] # net.dps[l],
                      net.led[l], RefRank(net, l) > 1
               PROVE  /\ RefRank(net, l) < Len(net.ups[l])
                      /\ Last(net'.dps[l]) >= net.ups[l][RefRank(net, l)] + Wave[l]
    OBVIOUS
  <2> DEFINE rank == RefRank(net, l)
  <2>1. PICK inst, t : Enters(l, inst, t)
    BY <1>1, EntersInMesoStep, EntersOnTime
  <2>2. /\ Last(net'.dps[l]) = inst
        /\ inst \in Int /\ t \in Int /\ inst < Never /\ inst >= t
    BY <2>1, EntersLast
  <2>3. rank = Len(net.dps[l]) - Room[l]
    BY DEF RefRank
  <2>4. GapBack(t, rank, net.ups[l], Wave[l])
    BY <2>1, <2>3 DEF Enters
  <2>5. rank \in Int /\ net.ups[l] \in Seq(Int)
    <3>1. net.dps[l] \in Seq(Int) /\ net.ups[l] \in Seq(Int)
      BY <1>1, Constants DEF IInv, NetInv, NetType
    <3> QED
      BY <2>3, <3>1, LenProperties, Constants
  <2> HIDE DEF rank
  <2>6. t # Never
    BY <2>2, Constants
  <2>7. rank < Len(net.ups[l]) /\ t >= net.ups[l][rank] + Wave[l]
    BY <2>4, <2>6 DEF GapBack, rank
  <2>8. net.ups[l][rank] \in Int
    <3>1. Len(net.ups[l]) \in Nat /\ DOMAIN net.ups[l] = 1 .. Len(net.ups[l])
      BY <2>5, LenProperties
    <3>2. rank \in DOMAIN net.ups[l]
      BY <2>5, <2>7, <3>1 DEF rank
    <3> QED
      BY <2>5, <3>2, ElementOfSeq
  <2>9. inst >= net.ups[l][rank] + Wave[l]
    BY <2>2, <2>7, <2>8, Constants
  <2> QED
    BY <2>2, <2>7, <2>9 DEF rank
<1>2. [](IInv /\ PaceIInv) /\ [][Next]_vars => [][Entries]_vars
  BY <1>1, PTL
<1>3. [][Entries]_vars <=> GapRespected
  BY DEF GapRespected
<1> QED
  BY <1>2, <1>3, MesoPaceInvariance, PTL DEF Spec

\* A vehicle refused at an origin, put back in the list at the time it had, is tried again
\* strictly later: the loop of the step goes on.
THEOREM RefusalsMoveOn == Spec => RefusedRetriesLater
<1> DEFINE Retries ==
             /\ ~ completed' /\ front \in Origins /\ net.event[front].t # Never /\ net'.wait = net.wait
             => net'.event[front].t > net.event[front].t
<1>1. ASSUME IInv, PaceIInv, [Next]_vars PROVE [Retries]_vars
  <2> SUFFICES ASSUME Next, ~ completed', front \in Origins, net.event[front].t # Never,
                      net'.wait = net.wait
               PROVE  net'.event[front].t > net.event[front].t
    BY <1>1
  <2>1. CASE MesoStep
    <3>1. PICK s, f, inst : Passage(s, f, inst)
      BY <1>1, <2>1, MesoStepPaced
    <3>2. PICK r, p, k, a, o :
              /\ NetInv(r, {}) /\ SameButSupply(s, r) /\ TimesOK(r) /\ LinksPaced(r)
              /\ f \in Calm => AfterSupply(r, f)
              /\ SameButTimes(p, net', inst)
              /\ k = r.event[f].key /\ a = r.next[k] /\ o = NextLink(a.veh, k)
              /\ Goes(f, o) /\ Effect(r, p, f, k, a, o, inst)
      BY <3>1, PassageEffect
    <3>3. /\ f = front /\ inst = net.event[front].t /\ inst \in Int
          /\ inst < LastInstant + TimeStep /\ AfterSupply(net', front)
          /\ r.wait = net.wait /\ net'.wait = p.wait /\ net'.supply = p.supply
      BY <3>1, <3>2 DEF Passage, SameMoves, SameButSupply, SameButTimes
    <3>4. o \in Meso /\ p.supply[o] \in Int /\ p.supply[o] >= inst + Headway
      BY <3>2, <3>3 DEF Effect, Spacing
    <3>5. OutOf(front) = {o} /\ InTo(front) = {front} /\ front \in Nodes /\ front \notin Micro
      <4>1. front \in Nodes /\ InTo(front) = {front} /\ front \notin Links
        BY OriginOf, Constants
      <4>2. o \in Links /\ From[o] = front
        BY <3>2, <3>3, <3>4, <4>1, Constants DEF Goes
      <4> QED
        BY <4>1, <4>2, OriginOf DEF Micro
    <3>6. NetInv(net', {})
      <4>1. IInv'
        BY <1>1, <2>1, MesoStepInv
      <4> QED
        BY <4>1 DEF IInv, NetInv, Consumable
    <3> DEFINE late == net'
               D == {}
               j == late.event[front].key
    <3>7. CASE late.event[front].t = Never
      BY <3>3, <3>7, Horizon, Constants
    <3>8. CASE late.event[front].t # Never
      <4>1. NetInv(late, D) /\ front \in Nodes \ D
        BY <3>5, <3>6
      <4>2. AfterSupply(late, front) /\ late.supply = p.supply
        BY <3>3
      <4> HIDE DEF late, D
      <4>3. late.event[front].t >= late.supply[NextLink(late.next[j].veh, j)]
        BY <3>8, <4>2 DEF AfterSupply
      <4> HIDE DEF j
      <4>4. /\ late.event[front].t \in Int /\ j \in InTo(front) \cup {front}
            /\ late.next[j] \in late.arr[j]
        BY <3>8, <4>1, EventOf DEF j
      <4>5. j = front
        BY <3>5, <4>4
      <4>6. NextLink(late.next[j].veh, j) = o
        BY <3>5, <4>1, <4>4, <4>5, WantedGoes
      <4>7. late.event[front].t > inst
        BY <3>3, <3>4, <4>2, <4>3, <4>4, <4>6, Constants
      <4> QED
        BY <3>3, <4>7 DEF late
    <3> QED
      BY <3>7, <3>8
  <2>2. CASE MicroStep
    BY <1>1, <2>2, MicroStepPaced
  <2>3. CASE TakeSnapshot
    BY <2>3 DEF TakeSnapshot
  <2>4. CASE Restore
    BY <2>4 DEF Restore
  <2> QED
    BY <2>1, <2>2, <2>3, <2>4 DEF Next
<1>2. [](IInv /\ PaceIInv) /\ [][Next]_vars => [][Retries]_vars
  BY <1>1, PTL
<1>3. [][Retries]_vars <=> RefusedRetriesLater
  BY DEF RefusedRetriesLater
<1> QED
  BY <1>2, <1>3, MesoPaceInvariance, PTL DEF Spec

================================================================================
