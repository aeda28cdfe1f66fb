------------------------------- MODULE MesoNetwork -------------------------------
(***************************************************************************)
(* The mesoscopic half of SymuVia: vehicles are not followed along links,  *)
(* only the times at which they pass nodes.  Each node keeps the time of   *)
(* its next event (a vehicle of one of its incoming links passes) and the  *)
(* network processes the node with the earliest one, as long as that is    *)
(* before the end of the next microscopic step.  A link whose next supply  *)
(* time cannot be computed yet, because it depends on a vehicle that has   *)
(* not left or on a full microscopic link, is "postponed" (DBL_MAX) and    *)
(* computed again at every later call.                                     *)
(*                                                                         *)
(* Links have one lane and vehicles one type, so no candidate overtakes at *)
(* a node; no traffic light and no stop.  NULL is, for an incoming link,   *)
(* an outgoing link or an event's link, the node itself.  The microscopic  *)
(* side is what the mesoscopic one reads of it: which vehicles are on a    *)
(* link, and whether the last one is still too near its beginning.         *)
(***************************************************************************)
EXTENDS Integers, Sequences, FiniteSets, TLC, SequencesExt, FiniteSetsExt

CONSTANTS
    Nodes,        \* m_LstUserCnxs
    Links, Meso,  \* the links, and those of type TT_MESO
    From, To,     \* the nodes of a link: From[l], To[l]
    Vehicles,     \* 1..n, in the order of their creation
    Route,        \* Route[v]: the links of its route
    Departures,   \* Departures[v]: the instants at which it may be created
    Headway,      \* 1 / Qx
    Cross,        \* Cross[l]: time to cross mesoscopic link l
    Wave,         \* Wave[l]: length / w, time for a gap to go back up the link
    Room,         \* Room[l]: length * lanes * Kx, the vehicles it holds when stopped
    ExitHeadway,  \* 1 / capacity of an exit
    TimeStep,     \* pas_de_temps
    LastInstant,  \* bound: the last instant simulated
    Period,       \* bound: snapshots are taken and restored every Period
    MaxRollbacks  \* bound: rollbacks in a behaviour

Micro == Links \ Meso
Never == 1000000     \* DBL_MAX
Past == - Never      \* -DBL_MAX
NoVeh == 0

OutOf(n) == IF \E l \in Links : From[l] = n THEN {l \in Links : From[l] = n} ELSE {n}
InTo(n) == IF \E l \in Links : To[l] = n THEN {l \in Links : To[l] = n} ELSE {n}
Origins == {n \in Nodes : InTo(n) = {n}}

\* Links one after the other, each once, from a microscopic link or an origin, to a
\* microscopic link or an exit.
IsRoute(r) ==
    /\ r \in Seq(Links) /\ r # <<>> /\ IsInjective(r)
    /\ \A i \in 1..(Len(r) - 1) : To[r[i]] = From[r[i + 1]]
    /\ r[1] \in Meso => From[r[1]] \in Origins
    /\ r[Len(r)] \in Meso => OutOf(To[r[Len(r)]]) = {To[r[Len(r)]]}

ASSUME MesoNetworkAssumption ==
    /\ Meso \subseteq Links /\ Nodes \cap Links = {} /\ IsFiniteSet(Links)
    /\ \A l \in Links : {From[l], To[l]} \cap Links = {}
    /\ \A l \in Meso : From[l] \in Nodes /\ To[l] \in Nodes
    \* "an input can't lead to multiple links"
    /\ \A n \in Origins : \E l \in Meso : OutOf(n) = {l}
    /\ \E n \in 1..100 : Vehicles = 1..n
    /\ \A v \in Vehicles : IsRoute(Route[v])
    /\ {Headway, TimeStep, ExitHeadway, Period} \subseteq Nat \ {0}
    /\ \A l \in Meso : {Cross[l], Wave[l], Room[l]} \subseteq Nat \ {0}
    /\ LastInstant \in Nat /\ MaxRollbacks \in Nat
    \* no time computed reaches DBL_MAX
    /\ \A d \in {Headway, ExitHeadway} \cup UNION {{Cross[l], Wave[l]} : l \in Meso} :
          LastInstant + TimeStep + d <= Never

VARIABLES
    net,        \* what a snapshot holds: see Init
    front,      \* m_mesoNodes.front()
    completed,  \* bStepCompleted of the last call
    snap,       \* the snapshot taken, if any
    rollbacks

vars == <<net, front, completed, snap, rollbacks>>

NoArrival == [t |-> Never, veh |-> NoVeh]
NoSnapshot == [clock |-> -1]

Init ==
    /\ net = [clock  |-> 0,
              event  |-> [n \in Nodes |-> [t |-> Never, key |-> n]],
              arr    |-> [k \in Links \cup Nodes |-> {}],
              next   |-> [l \in Meso |-> NoArrival],  \* a key added when it is first set
              supply |-> [k \in Links \cup Nodes |-> Past],
              cur    |-> [l \in Links |-> <<>>],  \* vehicles on the link
              ups    |-> [l \in Meso |-> <<>>],   \* times of those that left it
              dps    |-> [l \in Links |-> <<>>],  \* times of those that entered it
              led    |-> [l \in Meso |-> FALSE],  \* history: had a vehicle left it when
                                                  \* the last one entered it
              wait   |-> [l \in Meso |-> <<>>],   \* m_mapVehEnAttente of its origin
              near   |-> {},                      \* micro links whose last vehicle
                                                  \* is near their beginning
              made   |-> 0]                       \* vehicles created
    /\ front \in Nodes /\ completed = TRUE /\ snap = NoSnapshot /\ rollbacks = 0

--------------------------------------------------------------------------------
(* Lists of arrivals: sorted by time, then by vehicle. *)

\* The values of f, and those of g for the other keys; one key set.
Over(f, g) == [k \in DOMAIN f \cup DOMAIN g |-> IF k \in DOMAIN f THEN f[k] ELSE g[k]]
WithKey(g, k, x) == Over([j \in {k} |-> x], g)

Before(a, b) == a.t < b.t \/ (a.t = b.t /\ a.veh <= b.veh)
MinArrival(A) == IF A = {} THEN NoArrival ELSE CHOOSE a \in A : \A b \in A : Before(a, b)
MaxArrivalTime(A) == IF A = {} THEN -1 ELSE Max({a.t : a \in A})
Later(x, y) == IF x < y THEN y ELSE x
NextArrival(s, k) == IF k \in DOMAIN s.next THEN s.next[k] ELSE NoArrival

\* The link vehicle v takes after k; its last link ends at an exit.
NextLink(v, k) ==
    IF k \in Nodes THEN Route[v][1]
    ELSE LET i == CHOOSE i \in DOMAIN Route[v] : Route[v][i] = k
         IN IF i = Len(Route[v]) THEN To[k] ELSE Route[v][i + 1]

--------------------------------------------------------------------------------
(* I. The supply times that were postponed. *)

\* Rank of the vehicle that has to have left l before the next one enters it.
RefRank(s, l) == Len(s.dps[l]) - (IF s.cur[l] = <<>> THEN 0 ELSE Room[l])

\* Variant to test the properties with: the rank is one too low.
GapTimeOneTooLow(s, l) ==
    IF RefRank(s, l) > Len(s.ups[l]) THEN Never ELSE s.ups[l][RefRank(s, l) - 1] + Wave[l]

\* The time at which the gap left by the reference vehicle comes back to the beginning.
GapTime(s, l) ==
    IF RefRank(s, l) >= Len(s.ups[l]) THEN Never ELSE s.ups[l][RefRank(s, l)] + Wave[l]

\* Variant to test the properties with: only the storage is looked at.
RefreshedMesoAtOnce(s, l) ==
    IF s.arr[l] # {} /\ RefRank(s, l) > 1 THEN GapTime(s, l) ELSE Past

RefreshedMeso(s, l) ==
    IF s.arr[l] = {} THEN Past
    ELSE Later(Last(s.dps[l]) + Headway, IF RefRank(s, l) > 1 THEN GapTime(s, l) ELSE Past)

RefreshedMicro(s, l, inst) ==
    IF s.cur[l] = <<>> THEN Past
    ELSE IF l \in s.near THEN Never
    ELSE LET entered == IF s.dps[l] = <<>> THEN Past ELSE Last(s.dps[l]) + Headway
         IN Later(Later(s.clock - TimeStep, entered), IF inst = Never THEN Past ELSE inst)

Postponed(s) == {l \in Links : From[l] \in Nodes /\ s.supply[l] = Never}

\* An origin whose next arrival was dropped takes it up again.
TakesUp(s, n) ==
    /\ n \in Origins /\ NextArrival(s, n).veh = NoVeh
    /\ \E l \in Postponed(s) : From[l] = n /\ s.arr[l] # {} /\ RefRank(s, l) > 1
                               /\ GapTime(s, l) # Never

Refreshed(s, inst) ==
    [s EXCEPT !.supply = Over([l \in Postponed(s) |-> IF l \in Meso THEN RefreshedMeso(s, l)
                                                      ELSE RefreshedMicro(s, l, inst)], @),
              !.next = Over([n \in {n \in Nodes : TakesUp(s, n)} |-> MinArrival(s.arr[n])], @)]

\* One update of the node for each of its links.
RefreshedNodes(s) == [i \in DOMAIN SetToSeq(Postponed(s)) |-> From[SetToSeq(Postponed(s))[i]]]

--------------------------------------------------------------------------------
(* II. The vehicle of the event passes node n at inst, from link (or NULL) k. *)

\* Those behind it on its link cannot pass before it has.
Raised(A, inst) == {[a EXCEPT !.t = Later(@, inst + Headway)] : a \in A}

IsCongested(s, l) == s.cur[l] # <<>> /\ Len(s.cur[l]) - Room[l] > 1

\* InsertionVehEnAttenteMeso: only the vehicle that waits first, and if there is room.
Inserted(s, n, v) ==
    n \notin Origins
    \/ \E l \in OutOf(n) : s.wait[l] # <<>> /\ Head(s.wait[l]) = v /\ ~ IsCongested(s, l)

\* Variant to test the properties with: the vehicle stays in the list of those on its link.
WithdrawnFromArrivals(s, n, k, inst) ==
    LET behind == Raised(s.arr[k] \ {s.next[k]}, inst)
    IN [s EXCEPT !.arr[k] = behind, !.next[k] = MinArrival(behind),
                 !.ups = IF k \in Meso THEN [s.ups EXCEPT ![k] = Append(@, inst)] ELSE @]

Withdrawn(s, n, k, inst) ==
    LET a == s.next[k]
        behind == Raised(s.arr[k] \ {a}, inst)
    IN [s EXCEPT !.arr[k] = behind, !.next[k] = MinArrival(behind),
                 !.cur = IF k \in Meso THEN [s.cur EXCEPT ![k] = RemoveFirst(@, a.veh)] ELSE @,
                 !.ups = IF k \in Meso THEN [s.ups EXCEPT ![k] = Append(@, inst)] ELSE @]

Entered(s, n, v, l, inst) ==
    LET out == [s EXCEPT !.wait = IF n \in Origins THEN [s.wait EXCEPT ![l] = Tail(@)] ELSE @]
    IN IF l \in Nodes THEN out
       ELSE [out EXCEPT !.cur[l] = Append(@, v), !.dps[l] = Append(@, inst),
                        !.led = IF l \in Meso THEN [@ EXCEPT ![l] = out.ups[l] # <<>>] ELSE @]

\* Variant to test the properties with: an exit supplies at the rate of a link, and a
\* vehicle that finds its link congested leaves the supply time at the instant.
SupplyAfterOfLink(s, l, others, inst) ==
    IF l \in Nodes THEN inst + Headway
    ELSE IF l \in Meso
    THEN Later(IF IsCongested(s, l) THEN inst ELSE inst + Headway,
               IF RefRank(s, l) > 1 /\ s.ups[l] # <<>> THEN GapTime(s, l) ELSE Past)
    ELSE Later(s.supply[l], IF others = <<>> THEN Past
                            ELSE IF l \in s.near THEN Never ELSE inst + Headway)

\* The supply time of l after the passage; those of l before it are `others'.
SupplyAfter(s, l, others, inst) ==
    IF l \in Nodes THEN inst + ExitHeadway
    ELSE IF l \in Meso
    THEN Later(inst + Headway,
               IF RefRank(s, l) > 1 /\ s.ups[l] # <<>> THEN GapTime(s, l) ELSE Past)
    ELSE Later(s.supply[l], IF others = <<>> THEN Past
                            ELSE IF l \in s.near THEN Never ELSE inst + Headway)

\* The arrival at the other end of l; on one lane, after those ahead.
Announced(s, v, l, inst) ==
    LET a == [t |-> Later(inst + Cross[l], MaxArrivalTime(s.arr[l])), veh |-> v]
    IN [s EXCEPT !.arr[l] = @ \cup {a}, !.next[l] = MinArrival(s.arr[l] \cup {a})]

Passed(s, n, inst) ==
    LET k == s.event[n].key
        a == s.next[k]
        l == NextLink(a.veh, k)
        ok == Inserted(s, n, a.veh)
        without == Withdrawn(s, n, k, inst)
        moved == IF ok THEN Entered(without, n, a.veh, l, inst)
                 ELSE [without EXCEPT !.arr[k] = @ \cup {a}]
        supplied == [moved EXCEPT
                       !.supply[l] = SupplyAfter(moved, l, IF l \in Micro THEN s.cur[l] ELSE <<>>, inst),
                       !.near = IF l \in Micro THEN @ \cup {l} ELSE @]
    IN IF ok /\ l \in Meso THEN Announced(supplied, a.veh, l, inst) ELSE supplied

\* Variant to test the properties with: only this node is updated.
PassedNodesHere(s, n) == <<n>>

\* The nodes to update: this one, and the one at the end of the link entered.
PassedNodes(s, n) ==
    LET a == s.next[s.event[n].key]
        l == NextLink(a.veh, s.event[n].key)
    IN <<n>> \o (IF Inserted(s, n, a.veh) /\ l \in Meso THEN <<To[l]>> ELSE <<>>)

--------------------------------------------------------------------------------
(* III. The next event of a node. *)

\* The incoming links whose first vehicle takes o.
Candidates(s, n, o) ==
    {k \in InTo(n) : s.arr[k] # {} /\ NextLink(MinArrival(s.arr[k]).veh, k) = o}

FirstTime(s, C) == Min({MinArrival(s.arr[k]).t : k \in C})

\* The next passage to o: at the supply time if a vehicle is there before, else at the
\* first arrival.
LocalTime(s, n, o) ==
    IF FirstTime(s, Candidates(s, n, o)) <= s.supply[o] THEN s.supply[o]
    ELSE FirstTime(s, Candidates(s, n, o))

Choosable(s, n, o) ==
    {k \in Candidates(s, n, o) : MinArrival(s.arr[k]).t <= LocalTime(s, n, o)}

Outgoing(s, n) ==
    LET wanted == {o \in OutOf(n) : Candidates(s, n, o) # {} /\ LocalTime(s, n, o) < Never}
    IN {o \in wanted : \A p \in wanted : LocalTime(s, n, o) <= LocalTime(s, n, p)}

\* The draw between congested links, and ties between links, are left open.
Selections(s, n) ==
    IF Outgoing(s, n) = {} THEN {[t |-> Never, key |-> n, veh |-> NoVeh]}
    ELSE UNION {{[t |-> LocalTime(s, n, o), key |-> k, veh |-> MinArrival(s.arr[k]).veh] :
                     k \in Choosable(s, n, o)} : o \in Outgoing(s, n)}

\* Variant to test the properties with: the list of arrivals keeps the time the vehicle had.
WithSelectionOfEvent(s, n, c, inst) ==
    LET t == Later(c.t, inst)
    IN [s EXCEPT !.event[n] = [t |-> t, key |-> c.key],
                 !.next = WithKey(@, c.key, [t |-> t, veh |-> c.veh])]

\* Nothing happens before inst.  The time of the vehicle chosen changes in the list too.
WithSelection(s, n, c, inst) ==
    LET t == Later(c.t, inst)
    IN [s EXCEPT !.event[n] = [t |-> t, key |-> c.key],
                 !.arr[c.key] = {IF a.veh = c.veh THEN [a EXCEPT !.t = t] ELSE a : a \in s.arr[c.key]},
                 !.next = WithKey(@, c.key, [t |-> t, veh |-> c.veh])]

UpdateNode(S, n, inst) ==
    UNION {{WithSelection(s, n, c, inst) : c \in Selections(s, n)} : s \in S}

--------------------------------------------------------------------------------
(* SimuTraficMeso and the choice of the step. *)

\* The nodes of todo are updated one after the other.
Updated(s, todo, inst) ==
    LET after[i \in 0..Len(todo)] ==
            IF i = 0 THEN {s} ELSE UpdateNode(after[i - 1], todo[i], inst)
    IN after[Len(todo)]

SimuTraficMeso(s, f, inst) ==
    LET refreshed == Refreshed(s, inst)
        passes == inst # Never /\ NextArrival(refreshed, refreshed.event[f].key).veh # NoVeh
        moved == IF passes THEN Passed(refreshed, f, inst) ELSE refreshed
        todo == RefreshedNodes(s) \o (IF passes THEN PassedNodes(refreshed, f) ELSE <<>>)
    IN [todo |-> todo, outcomes |-> Updated(moved, todo, inst)]

\* Variant to test the properties with: the nodes are not sorted.
EarliestUnsorted(s) == Nodes

\* ChangeMesoNodeEventTime sorts the nodes: the first is any of the earliest.
Earliest(s) == {n \in Nodes : \A m \in Nodes : s.event[n].t <= s.event[m].t}
Fronts(s, sorted) == IF sorted THEN Earliest(s) ELSE {front}

\* When the first event is at DBL_MAX the postponed supply times are computed first.
Started ==
    LET call == SimuTraficMeso(net, front, Never)
    IN IF net.event[front].t # Never THEN {[net |-> net, front |-> front]}
       ELSE UNION {{[net |-> s, front |-> f] : f \in Fronts(s, call.todo # <<>>)} :
                      s \in call.outcomes}

MesoStep ==
    \E start \in Started :
      LET inst == start.net.event[start.front].t
          call == SimuTraficMeso(start.net, start.front, inst)
      IN /\ inst < start.net.clock + TimeStep
         /\ net' \in call.outcomes
         /\ front' \in (IF call.todo # <<>> THEN Earliest(net') ELSE {start.front})
         /\ completed' = FALSE
         /\ UNCHANGED <<snap, rollbacks>>

\* GenerateVehicle: the next vehicle appears before its first link.
Generated(s) ==
    LET v == s.made + 1
        l == Route[v][1]
        n == From[l]
        first == s.event[n].t > s.clock /\ s.wait[l] = <<>> /\ s.supply[l] # Never
        a == [t |-> Later(s.clock, MaxArrivalTime(s.arr[n])), veh |-> v]
    IN IF l \in Micro THEN [s EXCEPT !.made = v, !.cur[l] = Append(@, v), !.near = @ \cup {l}]
       ELSE [s EXCEPT !.made = v, !.wait[l] = Append(@, v), !.arr[n] = @ \cup {a},
                      !.event[n] = IF first THEN [t |-> s.clock, key |-> n] ELSE s.event[n],
                      !.next = IF first THEN WithKey(@, n, [t |-> s.clock, veh |-> v]) ELSE @]

\* AddEnteringVehiculeFromOutside: v leaves micro link k for a mesoscopic one at time t.
Accepted(s, k, v, t) ==
    LET l == NextLink(v, k)
    IN s.event[From[l]].t > t /\ s.supply[l] # Never /\ ~ IsCongested(s, l)

\* Variant to test the properties with: the event is given to the node at the end of the link entered.
EnteringFromOutsideAtEnd(s, k, v, t) ==
    [s EXCEPT !.event[To[NextLink(v, k)]] = [t |-> t, key |-> k],
              !.next = WithKey(@, k, [t |-> t, veh |-> v]),
              !.arr[k] = @ \cup {[t |-> t, veh |-> v]}, !.cur[k] = Tail(@)]

EnteringFromOutside(s, k, v, t) ==
    [s EXCEPT !.event[To[k]] = [t |-> t, key |-> k],
              !.next = WithKey(@, k, [t |-> t, veh |-> v]),
              !.arr[k] = @ \cup {[t |-> t, veh |-> v]}, !.cur[k] = Tail(@)]

\* The first vehicle of micro link k comes to its end at t.
MicroEnd(s, k, t) ==
    LET v == Head(s.cur[k])
    IN IF NextLink(v, k) \notin Meso THEN [s EXCEPT !.cur[k] = Tail(@)]
       ELSE IF Accepted(s, k, v, t) THEN EnteringFromOutside(s, k, v, t) ELSE s

AtEnd(s) == {k \in Micro : s.cur[k] # <<>> /\ k \notin s.near}

\* A vehicle due is created at one of its instants, the last at the latest.
Demanded(tick) ==
    LET due == {v \in Vehicles : v = tick.made + 1 /\ tick.clock \in Departures[v]}
        late == {v \in due : tick.clock = Max(Departures[v])}
    IN (IF late = {} THEN {tick} ELSE {}) \cup (IF due # {} THEN {Generated(tick)} ELSE {})

Ended(s) ==
    {s} \cup {MicroEnd(s, k, t) : k \in AtEnd(s), t \in (s.clock - TimeStep + 1)..s.clock}

MicroStep ==
    \E start \in Started, freed \in SUBSET net.near :
      LET tick == [start.net EXCEPT !.clock = @ + TimeStep, !.near = @ \ freed]
      IN /\ start.net.event[start.front].t >= tick.clock
         /\ tick.clock <= LastInstant
         /\ \E s \in Demanded(tick) : net' \in Ended(s)
         /\ front' \in (IF net'.event # start.net.event THEN Earliest(net') ELSE {start.front})
         /\ completed' = TRUE
         /\ UNCHANGED <<snap, rollbacks>>

TakeSnapshot ==
    /\ completed /\ snap = NoSnapshot /\ net.clock % Period = 0
    /\ snap' = net
    /\ UNCHANGED <<net, front, completed, rollbacks>>

\* Restore gives the nodes their events back but does not sort them again, and keeps the
\* next arrivals of the keys that had none in the snapshot.
Restore ==
    /\ completed /\ snap # NoSnapshot /\ snap.clock < net.clock
    /\ net.clock % Period = 0 /\ rollbacks < MaxRollbacks
    /\ net' = [snap EXCEPT !.next = Over(@, net.next)]
    /\ rollbacks' = rollbacks + 1
    /\ UNCHANGED <<front, completed, snap>>

Next == MesoStep \/ MicroStep \/ TakeSnapshot \/ Restore

Spec == Init /\ [][Next]_vars

--------------------------------------------------------------------------------
Arrived(k) == {a.veh : a \in net.arr[k]}

\* The events of a node are about its incoming links, the clock and the numbers of
\* vehicles stay in their bounds.
TypeOK ==
    /\ net.clock \in 0..LastInstant /\ net.made \in 0..Cardinality(Vehicles)
    /\ front \in Nodes /\ completed \in BOOLEAN /\ rollbacks \in 0..MaxRollbacks
    /\ \A n \in Nodes : net.event[n].key \in InTo(n) \cup {n}
    /\ \A k \in Links \cup Nodes : Arrived(k) \cup {NextArrival(net, k).veh} \subseteq Vehicles \cup {NoVeh}

\* A vehicle is in one list of arrivals at most and once in it: those of a mesoscopic
\* link are the vehicles on it, which entered it and have not left it, and those of an
\* origin wait before its links.  The four structures are updated apart, in the passage
\* of a vehicle, in a refused insertion and by the microscopic side.
OnePlace ==
    /\ \A k, j \in Links \cup Nodes : k # j => Arrived(k) \cap Arrived(j) = {}
    /\ \A k \in Links \cup Nodes : Cardinality(net.arr[k]) = Cardinality(Arrived(k))
    /\ \A l \in Meso : /\ Range(net.cur[l]) = Arrived(l)
                       /\ Len(net.cur[l]) = Len(net.dps[l]) - Len(net.ups[l])
    /\ \A l \in Micro : Range(net.cur[l]) \cap Arrived(l) = {}
    /\ \A n \in Origins : Arrived(n) = UNION {Range(net.wait[l]) : l \in OutOf(n)}

\* The event of a node is an arrival that is still in its list, at the same time, or the
\* assertion on listArrivalTime.size() in SimuTraficMeso fails: the event, the next arrival
\* and the list are three copies, which vehicles coming from microscopic links, vehicles
\* created and updates of other nodes change.
EventsConsumable ==
    \A n \in Nodes : net.event[n].t # Never =>
        LET a == NextArrival(net, net.event[n].key)
        IN a \in net.arr[net.event[n].key] /\ a.t = net.event[n].t

Waiting(n) == {k \in InTo(n) : net.arr[k] # {}}
Wanted(k) == NextLink(MinArrival(net.arr[k]).veh, k)
Awake(n, k) == net.event[n].t # Never \/ net.supply[Wanted(k)] = Never

\* A node at which vehicles wait has an event, or the link each wants is one whose supply
\* time is postponed, which every call computes again and then updates the node: nobody
\* else would ever update it.  Unless a vehicle that arrives there was given the time
\* DBL_MAX: see BlockedNodesReleased.
NoLostWakeup ==
    \A n \in Nodes :
      (\A k \in InTo(n) : \A a \in net.arr[k] : a.t # Never) =>
          \A k \in Waiting(n) : Awake(n, k)

\* Between the steps, the same of every vehicle: SimuTrafic calls SimuTraficMeso when no
\* node has an event "to unblock the situation at the next time step".
BlockedNodesReleased ==
    completed => \A n \in Nodes : \A k \in Waiting(n) : Awake(n, k)

\* Before the next step no event is older than the step that has just ended: the first
\* node of the list is the earliest at each choice of SimuTrafic, whatever the two sides
\* change.  Up to the first rollback: Restore leaves the list as it was.
NoEventMissed ==
    completed /\ rollbacks = 0 => \A n \in Nodes : net.event[n].t >= net.clock - TimeStep

Spaced(times, gap) == \A i \in 2..Len(times) : times[i] >= times[i - 1] + gap

\* The vehicles of a link pass an exit at the rate of its capacity, where only mesoscopic
\* links come in.  The supply time, the arrivals raised behind a vehicle and the clamp to
\* the current instant each give part of it.
ExitCapacityKept ==
    \A l \in Meso :
      OutOf(To[l]) = {To[l]} /\ InTo(To[l]) \subseteq Meso => Spaced(net.ups[l], ExitHeadway)

\* A vehicle enters a link on which there is one at least the headway after the last that
\* entered, however often the supply time was postponed and computed again since.
LinkCapacityKept ==
    [][\A l \in Meso :
        /\ From[l] \notin Origins /\ InTo(From[l]) \subseteq Meso /\ rollbacks' = rollbacks
        /\ net.cur[l] # <<>> /\ net'.dps[l] # net.dps[l]
        => Last(net'.dps[l]) >= Last(net.dps[l]) + Headway]_vars

\* "Constraint on capacity at the beginning of the link": the same of every vehicle that
\* enters, the link being empty or not.
CapacityKept ==
    \A l \in Meso :
      From[l] \notin Origins /\ InTo(From[l]) \subseteq Meso => Spaced(net.dps[l], Headway)

\* When a vehicle had left a link before the last one entered it, another one enters it,
\* with somebody on it, only when the gap has come back from the one that is Room ranks
\* before it, however often the supply time was postponed and computed again since, with
\* the vehicles that had left by then.  A vehicle created at an entry, or handed over by a
\* microscopic link, does not wait for the supply time.
GapRespected ==
    [][\A l \in Meso :
        /\ From[l] \notin Origins /\ InTo(From[l]) \subseteq Meso /\ rollbacks' = rollbacks
        /\ net.cur[l] # <<>> /\ net'.dps[l] # net.dps[l]
        /\ net.led[l] /\ RefRank(net, l) > 1
        => /\ RefRank(net, l) < Len(net.ups[l])
           /\ Last(net'.dps[l]) >= net.ups[l][RefRank(net, l)] + Wave[l]]_vars

\* A vehicle refused at an origin is tried again strictly later, or the loop of the step
\* would not end: it is put back in the list at the time it had.
RefusedRetriesLater ==
    [][/\ ~ completed' /\ front \in Origins /\ net.event[front].t # Never /\ net'.wait = net.wait
       => net'.event[front].t > net.event[front].t]_vars
================================================================================
