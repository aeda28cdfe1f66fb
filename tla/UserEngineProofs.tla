----------------------------- MODULE UserEngineProofs -----------------------------
(***************************************************************************)
(* What the user engine guarantees for every demand, cut of the paths,     *)
(* time step and delay, and through any sequence of snapshots, rollbacks   *)
(* and commits: each trip is activated once, its legs are carried one      *)
(* after the other, nobody is lost, and the arrival times written follow.  *)
(***************************************************************************)
EXTENDS UserEngine, Induction, SequenceTheorems

\* The state of the engine is looked at as the record a snapshot would hold, with the
\* time its activity has reached: the clock between two steps, the end of the step
\* while the simulators step.
Horizon == IF phase = "idle" THEN clock ELSE clock + Dt

\* The time from which the next leg of trip t runs, when a are its arrival times.
LegStart(a, t) == IF a = <<>> THEN Departure[t] ELSE a[Len(a)]

\* Arrival times that never decrease, none before the departure.
Chained(a, t) ==
    \A k \in DOMAIN a : a[k] >= IF k = 1 THEN Departure[t] ELSE a[k - 1]

Paper == [plan : Plans, arrivals : Seq(Nat)]

EngineTypes(e) ==
    /\ DOMAIN e.all \subseteq Trips /\ DOMAIN e.written \subseteq Trips
    /\ e.owned \subseteq Trips /\ e.travelling \subseteq Trips
    /\ e.next \in [Populations -> Nat \cup {-1}]
    /\ e.clock \in Nat

\* The paper p of a user under way, u, tells how far it is.
Placed(u, p, t) ==
    /\ u \in User /\ u.leg <= Len(u.plan) /\ u.plan = p.plan
    /\ Len(p.arrivals) = u.leg - 1
    /\ u.dep = LegStart(p.arrivals, t)

\* So does its journal j: the current leg has been handed over, or it waits for that,
\* not for long.
Riding(u, j, p, t) == Placed(u, p, t) /\ Len(j) = u.leg
Waiting(u, j, p, t, h) ==
    Placed(u, p, t) /\ Len(j) = u.leg - 1 /\ u.dep >= h - (u.leg - 1) * Dt

\* A user and its paper after a leg that ends at `at'.
Ended(u, at) == [u EXCEPT !.leg = @ + 1, !.dep = at]
Filed(p, at) == [p EXCEPT !.arrivals = Append(@, at)]

\* The journal of a trip: its legs in order, and one of them from its departure on.
Journalled(j, t, h) ==
    /\ j \in Seq(Nat) /\ \A k \in DOMAIN j : j[k] = k
    /\ j # <<>> <=> t \notin Unroutable /\ Departure[t] < h

\* What holds of trip t in engine state e at time h.
TripOK(e, t, h) ==
    /\ Journalled(e.journal[t], t, h)
    /\ t \in DOMAIN e.written => e.written[t] \in Paper
    /\ t \in DOMAIN e.all => e.journal[t] # <<>>
    /\ e.journal[t] # <<>> =>
          /\ t \in DOMAIN e.written /\ Chained(e.written[t].arrivals, t)
          /\ IF t \in DOMAIN e.all
             THEN IF t \in e.owned
                  THEN Waiting(e.all[t], e.journal[t], e.written[t], t, h)
                  ELSE Riding(e.all[t], e.journal[t], e.written[t], t)
             ELSE Len(e.journal[t]) = Len(e.written[t].plan)
                  /\ Len(e.written[t].arrivals) = Len(e.written[t].plan)

\* The engine state e is sound at time h.
EngineOK(e, h) ==
    /\ EngineTypes(e)
    /\ e.journal \in [Trips -> Seq(Nat)]
    /\ \A p \in Populations : e.next[p] < h
    /\ e.owned \cap e.travelling = {} /\ e.owned \cup e.travelling = DOMAIN e.all
    /\ \A t \in Trips : TripOK(e, t, h)

\* At most two snapshots, taken between two steps.
SnapsOK ==
    /\ \/ snaps = <<>>
       \/ snaps = <<snaps[1]>>
       \/ snaps = <<snaps[1], snaps[2]>>
    /\ \A i \in DOMAIN snaps : EngineOK(snaps[i], snaps[i].clock)

ControlOK ==
    /\ stepStart \in Nat /\ phase \in {"idle", "step"} /\ rollbacks \in 0 .. MaxRollbacks
    /\ phase = "step" => stepStart = clock

\* The inductive invariant.
IInv == ControlOK /\ EngineOK(Snapshot, Horizon) /\ SnapsOK
--------------------------------------------------------------------------------
(* Arrival times and journals *)

\* The constants, one by one.
LEMMA Constants ==
    /\ IsFiniteSet(Trips) /\ Departure \in [Trips -> Nat]
    /\ \A plan \in Plans : plan \in Seq({"walk", "ext"}) /\ Len(plan) \in Nat \ {0}
    /\ Dt \in Nat \ {0} /\ WalkTime \in Nat \ {0} /\ MaxDelay \in Nat /\ EndTime \in Nat
<1>1. ASSUME NEW plan \in Plans
      PROVE  plan \in Seq({"walk", "ext"}) /\ Len(plan) \in Nat \ {0}
  <2>1. plan \in Seq({"walk", "ext"}) /\ plan # <<>>
    BY UserEngineAssumption
  <2> QED
    BY <2>1
<1> QED
  BY <1>1, UserEngineAssumption

\* One more arrival, not before the leg began.
LEMMA ChainExtends ==
    ASSUME NEW t \in Trips, NEW a \in Seq(Nat), Chained(a, t),
           NEW at \in Nat, at >= LegStart(a, t)
    PROVE  LET b == Append(a, at) IN
           /\ b \in Seq(Nat) /\ Len(b) = Len(a) + 1
           /\ Chained(b, t) /\ LegStart(b, t) = at
<1> DEFINE b == Append(a, at)
<1>1. /\ b \in Seq(Nat) /\ Len(b) = Len(a) + 1 /\ Len(a) \in Nat
      /\ b[Len(a) + 1] = at /\ \A k \in 1 .. Len(a) : b[k] = a[k]
      /\ DOMAIN b = 1 .. Len(a) + 1 /\ DOMAIN a = 1 .. Len(a)
      /\ a = <<>> <=> Len(a) = 0
  OBVIOUS
<1> HIDE DEF b
<1>2. b # <<>>
  BY <1>1
<1>3. ASSUME NEW k \in DOMAIN b
      PROVE  b[k] >= IF k = 1 THEN Departure[t] ELSE b[k - 1]
  <2>1. CASE k \in 1 .. Len(a)
    <3>1. k = 1 \/ k - 1 \in 1 .. Len(a)
      BY <2>1, <1>1
    <3> QED
      BY <2>1, <3>1, <1>1 DEF Chained
  <2>2. CASE k = Len(a) + 1 /\ k = 1
    BY <2>2, <1>1 DEF LegStart
  <2>3. CASE k = Len(a) + 1 /\ k # 1
    <3>1. k - 1 = Len(a) /\ Len(a) \in 1 .. Len(a) /\ a # <<>>
      BY <2>3, <1>1
    <3> QED
      BY <2>3, <3>1, <1>1 DEF LegStart
  <2> QED
    BY <1>1, <2>1, <2>2, <2>3
<1> QED
  BY <1>1, <1>2, <1>3 DEF Chained, LegStart, b

\* The arrival after which the last leg has started is a time.
LEMMA LegStartType ==
    ASSUME NEW t \in Trips, NEW a \in Seq(Nat)
    PROVE  LegStart(a, t) \in Nat
<1>1. Departure[t] \in Nat
  BY Constants
<1>2. a # <<>> => Len(a) \in 1 .. Len(a)
  OBVIOUS
<1> QED
  BY <1>1, <1>2 DEF LegStart

\* A leg is handed over: the journal tells it, in order.
LEMMA HandedOver ==
    ASSUME NEW t \in Trips, NEW u, NEW j, NEW p, NEW h,
           j \in Seq(Nat), \A k \in DOMAIN j : j[k] = k,
           Waiting(u, j, p, t, h)
    PROVE  LET j2 == Append(j, u.leg) IN
           /\ j2 \in Seq(Nat) /\ j2 # <<>> /\ \A k \in DOMAIN j2 : j2[k] = k
           /\ Riding(u, j2, p, t)
<1> DEFINE j2 == Append(j, u.leg)
<1>1. u \in User /\ u.leg \in Nat /\ Len(j) = u.leg - 1 /\ Len(j) \in Nat
  BY DEF Placed, Riding, Waiting, User
<1>2. /\ j2 \in Seq(Nat) /\ Len(j2) = Len(j) + 1 /\ DOMAIN j2 = 1 .. Len(j) + 1
      /\ j2[Len(j) + 1] = u.leg /\ \A k \in 1 .. Len(j) : j2[k] = j[k]
      /\ DOMAIN j = 1 .. Len(j)
  BY <1>1
<1> HIDE DEF j2
<1>3. \A k \in DOMAIN j2 : j2[k] = k
  BY <1>1, <1>2
<1>4. j2 # <<>>
  BY <1>1, <1>2
<1>5. Riding(u, j2, p, t)
  BY <1>1, <1>2 DEF Placed, Riding, Waiting
<1> QED
  BY <1>2, <1>3, <1>4, <1>5 DEF j2

\* A user after the end of a leg.
LEMMA NextLeg ==
    ASSUME NEW u \in User, NEW at \in Nat
    PROVE  LET u2 == Ended(u, at) IN
           u2 \in User /\ u2.leg = u.leg + 1 /\ u2.dep = at /\ u2.plan = u.plan
<1> DEFINE n == u.leg + 1
           u2 == [u EXCEPT !.leg = n, !.dep = at]
<1>1. n \in Nat \ {0}
  BY DEF User
<1> HIDE DEF n
<1>2. u2 \in User
  BY <1>1 DEF User
<1>3. u2.leg = n /\ u2.dep = at /\ u2.plan = u.plan
  BY <1>1 DEF User
<1> QED
  BY <1>2, <1>3 DEF n, Ended

\* A leg ends at `at': its arrival is written, and the user waits for the next one
\* or has completed its plan.
LEMMA LegDone ==
    ASSUME NEW t \in Trips, NEW u, NEW j, NEW p \in Paper, NEW h2 \in Nat,
           Riding(u, j, p, t), Chained(p.arrivals, t),
           NEW at \in Nat, at >= u.dep, at >= h2 - u.leg * Dt
    PROVE  LET p2 == Filed(p, at)
               u2 == Ended(u, at) IN
           /\ p2 \in Paper /\ Chained(p2.arrivals, t)
           /\ u.leg # Len(u.plan) => Waiting(u2, j, p2, t, h2)
           /\ u.leg = Len(u.plan) => /\ Len(j) = Len(p2.plan)
                                     /\ Len(p2.arrivals) = Len(p2.plan)
<1> DEFINE b == Append(p.arrivals, at)
           p2 == Filed(p, at)
           u2 == Ended(u, at)
<1>1. /\ u \in User /\ u.leg \in Nat \ {0} /\ u.plan \in Plans /\ u.leg <= Len(u.plan)
      /\ u.plan = p.plan /\ Len(j) = u.leg /\ Len(p.arrivals) = u.leg - 1
      /\ u.dep = LegStart(p.arrivals, t)
  BY DEF Placed, Riding, Waiting, User
<1>2. p.arrivals \in Seq(Nat) /\ p.plan \in Plans
  BY DEF Paper
<1>3. /\ b \in Seq(Nat) /\ Len(b) = Len(p.arrivals) + 1
      /\ Chained(b, t) /\ LegStart(b, t) = at
  BY <1>1, <1>2, ChainExtends
<1>4. p2 \in Paper /\ p2.arrivals = b /\ p2.plan = p.plan
  BY <1>2, <1>3 DEF Paper, Filed
<1>5. u2 \in User /\ u2.leg = u.leg + 1 /\ u2.dep = at /\ u2.plan = u.plan
  BY <1>1, NextLeg
<1> HIDE DEF b, p2, u2
<1>6. Len(u.plan) \in Nat
  BY <1>1, Constants
<1>7. ASSUME u.leg # Len(u.plan)
      PROVE  Waiting(u2, j, p2, t, h2)
  <2>1. u2.leg <= Len(u2.plan) /\ u2.leg - 1 = u.leg
    BY <1>1, <1>5, <1>6, <1>7
  <2>2. u2.dep >= h2 - (u2.leg - 1) * Dt
    <3>1. u2.dep >= h2 - u.leg * Dt
      BY <1>5
    <3> QED
      BY <2>1, <3>1, Zenon
  <2> QED
    BY <1>1, <1>3, <1>4, <1>5, <2>1, <2>2 DEF Placed, Riding, Waiting
<1>8. ASSUME u.leg = Len(u.plan)
      PROVE  Len(j) = Len(p2.plan) /\ Len(p2.arrivals) = Len(p2.plan)
  BY <1>1, <1>3, <1>4, <1>8
<1> QED
  BY <1>3, <1>4, <1>7, <1>8 DEF p2, u2, b
--------------------------------------------------------------------------------
(* The state as a record *)

\* The fields of the state, now and after a step.
LEMMA Fields ==
    /\ /\ Snapshot.all = all /\ Snapshot.owned = owned /\ Snapshot.next = next
       /\ Snapshot.written = written /\ Snapshot.travelling = travelling
       /\ Snapshot.journal = journal /\ Snapshot.clock = clock
    /\ /\ Snapshot'.all = all' /\ Snapshot'.owned = owned' /\ Snapshot'.next = next'
       /\ Snapshot'.written = written' /\ Snapshot'.travelling = travelling'
       /\ Snapshot'.journal = journal' /\ Snapshot'.clock = clock'
  BY DEF Snapshot

\* Two engine states with the same fields are as sound as each other.
LEMMA SameFields ==
    ASSUME NEW e, NEW f, NEW h, EngineOK(e, h),
           f.all = e.all, f.owned = e.owned, f.next = e.next, f.written = e.written,
           f.travelling = e.travelling, f.journal = e.journal, f.clock = e.clock
    PROVE  EngineOK(f, h)
  BY DEF EngineOK, EngineTypes, TripOK

\* The users after those of S have ended a leg: who remains, and how.
LEMMA AdvancedDomain ==
    ASSUME NEW us, NEW S, NEW at
    PROVE  DOMAIN Advanced(us, S, at) = DOMAIN us \ Finished(us, S)
  BY DEF Advanced, Without

\* The users whose leg ends are advanced, the others stay as they are.
LEMMA AdvancedUsers ==
    ASSUME NEW us, NEW S, NEW at, NEW t \in DOMAIN Advanced(us, S, at)
    PROVE  /\ t \in S => Advanced(us, S, at)[t] = Ended(us[t], at[t])
           /\ t \notin S => Advanced(us, S, at)[t] = us[t]
  BY DEF Advanced, Without, Ended

\* The papers after that.
LEMMA WrittenArrivals ==
    ASSUME NEW w, NEW S, NEW at, NEW r, r = ArrivalsWritten(w, S, at)
    PROVE  /\ DOMAIN r = DOMAIN w
           /\ \A t \in DOMAIN w :
                 r[t] = IF t \in S THEN Filed(w[t], at[t]) ELSE w[t]
  BY DEF ArrivalsWritten, Filed

\* The invariant holds initially.
LEMMA InitInvariant == Init => IInv
<1> SUFFICES ASSUME Init PROVE IInv
  OBVIOUS
<1>1. /\ all = <<>> /\ owned = {} /\ next = [p \in Populations |-> -1] /\ written = <<>>
      /\ travelling = {} /\ journal = [t \in Trips |-> <<>>]
      /\ clock = 0 /\ phase = "idle" /\ snaps = <<>>
  BY DEF Init
<1>2. DOMAIN all = {} /\ DOMAIN written = {}
  BY <1>1
<1>3. ControlOK
  BY <1>1, Constants, UserEngineAssumption DEF Init, ControlOK
<1>4. SnapsOK
  BY <1>1 DEF SnapsOK
<1>5. Horizon = 0
  BY <1>1 DEF Horizon
<1>6. ASSUME NEW t \in Trips PROVE TripOK(Snapshot, t, 0)
  <2>1. journal[t] = <<>> /\ <<>> \in Seq(Nat) /\ DOMAIN <<>> = {}
    BY <1>1
  <2>2. Journalled(journal[t], t, 0)
    BY <2>1, Constants DEF Journalled
  <2> QED
    BY <1>2, <2>1, <2>2, Fields DEF TripOK
<1>7. EngineTypes(Snapshot)
  BY <1>1, <1>2, Fields DEF EngineTypes
<1>8. EngineOK(Snapshot, 0)
  BY <1>1, <1>2, <1>6, <1>7, Fields DEF EngineOK
<1> QED
  BY <1>3, <1>4, <1>5, <1>8 DEF IInv
--------------------------------------------------------------------------------
(* A step of the engine *)

\* The last trips activated of a population departed before the end of the step.
LEMMA LastActivatedBound ==
    ASSUME NEW h \in Nat, NEW new, new \subseteq Trips, \A t \in new : Departure[t] < h,
           NEW p \in Populations, next[p] \in Nat \cup {-1}, next[p] < h
    PROVE  LastActivated(p, new) \in Nat \cup {-1} /\ LastActivated(p, new) < h
<1> DEFINE deps == {Departure[t] : t \in {u \in new : Population[u] = p}}
<1>1. deps \subseteq Nat /\ \A d \in deps : d < h
  BY Constants
<1>2. CASE deps = {}
  BY <1>2 DEF LastActivated
<1>3. CASE deps # {}
  <2>1. LastActivated(p, new) = CHOOSE d \in deps : \A e \in deps : e <= d
    BY <1>3 DEF LastActivated
  <2> HIDE DEF deps
  <2>2. \E d \in deps : \A e \in deps : e <= d
    BY <1>1, <1>3, Largest
  <2>3. LastActivated(p, new) \in deps
    BY <2>1, <2>2
  <2> QED
    BY <1>1, <2>3
<1> QED
  BY <1>2, <1>3

\* The time a user may be late grows by a step with each leg.
LEMMA OneMoreLeg ==
    ASSUME NEW n \in Nat \ {0}
    PROVE  n * Dt = (n - 1) * Dt + Dt /\ (n - 1) * Dt \in Nat /\ n * Dt \in Nat
  BY Constants

\* What the invariant says of the live state when the engine is to run.
LEMMA IdleFacts ==
    ASSUME IInv, phase = "idle"
    PROVE  /\ EngineOK(Snapshot, clock) /\ clock \in Nat
           /\ Known \subseteq Trips /\ DOMAIN written \subseteq Trips
           /\ owned \cap travelling = {} /\ owned \cup travelling = Known
           /\ journal \in [Trips -> Seq(Nat)]
           /\ \A t \in Trips : TripOK(Snapshot, t, clock)
           /\ \A p \in Populations : next[p] \in Nat \cup {-1} /\ next[p] < clock
<1>1. EngineOK(Snapshot, clock)
  BY DEF IInv, Horizon
<1> QED
  BY <1>1, Fields DEF EngineOK, EngineTypes, Known

\* The trips activated are those that depart during the step, all of them new.
LEMMA ActivatedTrips ==
    ASSUME IInv, phase = "idle", NEW t \in Trips
    PROVE  /\ t \in Activated(clock) <=> clock <= Departure[t] /\ Departure[t] < clock + Dt
           /\ t \in Activated(clock) => t \notin Known /\ journal[t] = <<>>
<1>1. Population[t] \in Populations /\ Departure[t] \in Nat
  BY Constants DEF Populations
<1>2. next[Population[t]] < clock /\ next[Population[t]] \in Nat \cup {-1} /\ clock \in Nat
  BY <1>1, IdleFacts
<1>3. t \in Activated(clock) <=> clock <= Departure[t] /\ Departure[t] < clock + Dt
  BY <1>1, <1>2, Constants DEF Activated
<1>4. TripOK(Snapshot, t, clock)
  BY IdleFacts
<1>5. t \in Activated(clock) => journal[t] = <<>>
  BY <1>1, <1>2, <1>3, <1>4, Fields DEF TripOK, Journalled
<1> QED
  BY <1>3, <1>4, <1>5, Fields DEF TripOK, Known

\* A step of the engine keeps the invariant.
LEMMA RunInvariant ==
    ASSUME IInv, Run
    PROVE  IInv'
<1> DEFINE new == Activated(clock) \ Unroutable
           h2 == clock + Dt
<1>1. /\ phase = "idle" /\ phase' = "step" /\ stepStart' = clock /\ clock' = clock
      /\ snaps' = snaps /\ rollbacks' = rollbacks
      /\ next' = [p \in Populations |-> LastActivated(p, Activated(clock))]
  BY DEF Run
<1>2. PICK plan \in [new -> Plans] :
         LET users == [t \in Known \cup new |->
                          IF t \in new
                          THEN [plan |-> plan[t], leg |-> 1, dep |-> Departure[t]]
                          ELSE all[t]]
             due == Due(users, owned \cup new)
             walkers == {t \in due : users[t].plan[users[t].leg] = "walk"}
             release == [t \in walkers |-> users[t].dep + WalkTime]
             papers == [t \in DOMAIN written \cup new |->
                           IF t \in new THEN [plan |-> plan[t], arrivals |-> <<>>]
                           ELSE written[t]]
         IN /\ journal' = [t \in Trips |-> IF t \in due THEN Append(journal[t], users[t].leg)
                                                  ELSE journal[t]]
            /\ all' = Advanced(users, walkers, release)
            /\ owned' = ((owned \cup new) \ due) \cup (walkers \ Finished(users, walkers))
            /\ travelling' = travelling \cup (due \ walkers)
            /\ written' = ArrivalsWritten(papers, walkers, release)
  BY DEF Run
<1> DEFINE users == [t \in Known \cup new |->
                        IF t \in new
                        THEN [plan |-> plan[t], leg |-> 1, dep |-> Departure[t]]
                        ELSE all[t]]
           due == Due(users, owned \cup new)
           walkers == {t \in due : users[t].plan[users[t].leg] = "walk"}
           release == [t \in walkers |-> users[t].dep + WalkTime]
           papers == [t \in DOMAIN written \cup new |->
                         IF t \in new THEN [plan |-> plan[t], arrivals |-> <<>>]
                         ELSE written[t]]
           fin == Finished(users, walkers)
<1>3. /\ journal' = [t \in Trips |-> IF t \in due THEN Append(journal[t], users[t].leg)
                                            ELSE journal[t]]
      /\ all' = Advanced(users, walkers, release)
      /\ owned' = ((owned \cup new) \ due) \cup (walkers \ fin)
      /\ travelling' = travelling \cup (due \ walkers)
      /\ written' = ArrivalsWritten(papers, walkers, release)
  BY <1>2
<1>4. /\ EngineOK(Snapshot, clock) /\ clock \in Nat /\ h2 \in Nat /\ clock < h2
      /\ Known \subseteq Trips /\ DOMAIN written \subseteq Trips
      /\ owned \cap travelling = {} /\ owned \cup travelling = Known
      /\ journal \in [Trips -> Seq(Nat)]
      /\ \A t \in Trips : TripOK(Snapshot, t, clock)
  BY <1>1, IdleFacts, Constants
<1>5. \A t \in Trips :
          /\ t \in Activated(clock) <=> clock <= Departure[t] /\ Departure[t] < h2
          /\ t \in Activated(clock) => t \notin Known /\ journal[t] = <<>>
  BY <1>1, ActivatedTrips
<1>6. /\ new \subseteq Trips /\ DOMAIN users = Known \cup new
      /\ DOMAIN papers = DOMAIN written \cup new
      /\ \A t \in new : users[t] = [plan |-> plan[t], leg |-> 1, dep |-> Departure[t]]
      /\ \A t \in new : papers[t] = [plan |-> plan[t], arrivals |-> <<>>]
      /\ \A t \in Known \ new : users[t] = all[t]
      /\ \A t \in DOMAIN written \ new : papers[t] = written[t]
  BY DEF Activated
<1>7. /\ due = {t \in owned \cup new : users[t].dep < h2}
      /\ walkers \subseteq due /\ fin = {t \in walkers : users[t].leg = Len(users[t].plan)}
      /\ \A t \in walkers : release[t] = users[t].dep + WalkTime
  BY DEF Due, Finished
<1>8. /\ \A t \in new : plan[t] \in Plans
      /\ \A t \in Trips : journal'[t] = IF t \in due THEN Append(journal[t], users[t].leg)
                                                   ELSE journal[t]
  BY <1>3
<1> HIDE DEF new, h2, users, due, walkers, release, papers, fin
<1>9. /\ DOMAIN all' = (Known \cup new) \ fin
      /\ \A t \in DOMAIN all' :
            all'[t] = IF t \in walkers THEN Ended(users[t], release[t]) ELSE users[t]
  <2>1. DOMAIN all' = DOMAIN users \ fin
    BY <1>3, AdvancedDomain DEF fin
  <2>2. ASSUME NEW t \in DOMAIN all'
        PROVE  all'[t] = IF t \in walkers THEN Ended(users[t], release[t]) ELSE users[t]
    BY <1>3, AdvancedUsers
  <2> QED
    BY <1>6, <2>1, <2>2
<1>10. /\ DOMAIN written' = DOMAIN written \cup new
       /\ \A t \in DOMAIN written' :
             written'[t] = IF t \in walkers THEN Filed(papers[t], release[t]) ELSE papers[t]
  BY <1>3, <1>6, WrittenArrivals
\* Those who wait, the new ones included, stand at the beginning of a leg.
<1>11. ASSUME NEW t \in owned \cup new
       PROVE  /\ t \in Trips /\ t \in DOMAIN written \cup new
              /\ Waiting(users[t], journal[t], papers[t], t, clock)
              /\ papers[t] \in Paper /\ Chained(papers[t].arrivals, t)
              /\ journal[t] \in Seq(Nat) /\ \A k \in DOMAIN journal[t] : journal[t][k] = k
              /\ t \notin Unroutable /\ Departure[t] < h2
  <2>1. t \in Trips /\ TripOK(Snapshot, t, clock)
    BY <1>4, <1>6
  <2>2. journal[t] \in Seq(Nat) /\ \A k \in DOMAIN journal[t] : journal[t][k] = k
    BY <2>1, Fields DEF TripOK, Journalled
  <2>3. CASE t \in new
    <3>1. /\ t \in Activated(clock) /\ t \notin Unroutable /\ Departure[t] \in Nat
          /\ journal[t] = <<>> /\ clock <= Departure[t] /\ Departure[t] < h2
      BY <1>5, <2>1, <2>3, Constants DEF new
    <3>2. users[t] = [plan |-> plan[t], leg |-> 1, dep |-> Departure[t]] /\ plan[t] \in Plans
      BY <1>6, <1>8, <2>3
    <3>3. papers[t] = [plan |-> plan[t], arrivals |-> <<>>] /\ <<>> \in Seq(Nat)
      BY <1>6, <2>3
    <3>4. papers[t] \in Paper /\ Chained(papers[t].arrivals, t)
      BY <3>2, <3>3 DEF Paper, Chained
    <3>5. users[t] \in User /\ users[t].leg = 1 /\ users[t].dep = Departure[t]
          /\ users[t].plan = papers[t].plan /\ papers[t].arrivals = <<>>
      BY <3>1, <3>2, <3>3 DEF User
    <3>6. users[t].leg <= Len(users[t].plan)
      BY <3>2, <3>5, Constants
    <3>7. (users[t].leg - 1) * Dt = 0
      BY <3>5, Constants
    <3>8. users[t].dep = LegStart(papers[t].arrivals, t)
      BY <3>5 DEF LegStart
    <3>9. Len(journal[t]) = 0 /\ Len(papers[t].arrivals) = 0
      BY <3>1, <3>5
    <3>10. users[t].dep >= clock - (users[t].leg - 1) * Dt
      BY <3>1, <3>5, <3>7, <1>4
    <3>11. Waiting(users[t], journal[t], papers[t], t, clock)
      BY <3>5, <3>6, <3>8, <3>9, <3>10 DEF Placed, Riding, Waiting
    <3> QED
      BY <2>1, <2>2, <2>3, <3>1, <3>4, <3>11
  <2>4. CASE t \in owned /\ t \notin new
    <3>1. t \in Known /\ journal[t] # <<>> /\ t \in DOMAIN written
      BY <1>4, <2>1, <2>4, Fields DEF TripOK, Known
    <3>2. users[t] = all[t] /\ papers[t] = written[t]
      BY <1>6, <2>4, <3>1
    <3>3. /\ Waiting(all[t], journal[t], written[t], t, clock)
          /\ written[t] \in Paper /\ Chained(written[t].arrivals, t)
          /\ t \notin Unroutable /\ Departure[t] < clock
      BY <2>1, <2>4, <3>1, Fields DEF TripOK, Known, Journalled
    <3>4. Departure[t] < h2
      BY <1>4, <2>1, <3>3, Constants
    <3> QED
      BY <2>1, <2>2, <3>1, <3>2, <3>3, <3>4
  <2> QED
    BY <2>3, <2>4
\* Those handed over are in their leg.
<1>12. ASSUME NEW t \in due
       PROVE  /\ t \in owned \cup new /\ Riding(users[t], journal'[t], papers[t], t)
              /\ Journalled(journal'[t], t, h2) /\ journal'[t] # <<>>
  <2>1. t \in owned \cup new
    BY <1>7
  <2>2. journal'[t] = Append(journal[t], users[t].leg)
    BY <1>8, <1>11, <2>1
  <2>3. /\ t \in Trips /\ journal[t] \in Seq(Nat) /\ \A k \in DOMAIN journal[t] : journal[t][k] = k
        /\ Waiting(users[t], journal[t], papers[t], t, clock)
        /\ t \notin Unroutable /\ Departure[t] < h2
    BY <2>1, <1>11
  <2>4. /\ journal'[t] \in Seq(Nat) /\ journal'[t] # <<>>
        /\ \A k \in DOMAIN journal'[t] : journal'[t][k] = k
        /\ Riding(users[t], journal'[t], papers[t], t)
    BY <2>2, <2>3, HandedOver
  <2> QED
    BY <2>1, <2>3, <2>4 DEF Journalled
<1>13. new \subseteq due
  <2> SUFFICES ASSUME NEW t \in new PROVE t \in due
    OBVIOUS
  <2>1. users[t].dep = Departure[t]
    BY <1>6
  <2> QED
    BY <1>7, <1>11, <2>1
<1>14. ASSUME NEW t \in walkers
       PROVE  /\ t \in due /\ t \in DOMAIN written' /\ written'[t] \in Paper
              /\ Chained(written'[t].arrivals, t)
              /\ t \notin fin => /\ t \in DOMAIN all'
                               /\ Waiting(all'[t], journal'[t], written'[t], t, h2)
              /\ t \in fin => /\ Len(journal'[t]) = Len(written'[t].plan)
                            /\ Len(written'[t].arrivals) = Len(written'[t].plan)
  <2> DEFINE u == users[t]
             p == papers[t]
             at == u.dep + WalkTime
  <2>1. t \in due /\ t \in owned \cup new /\ t \in Trips /\ p \in Paper
    BY <1>7, <1>11
  <2>2. Riding(u, journal'[t], p, t) /\ Chained(p.arrivals, t)
    BY <2>1, <1>11, <1>12
  <2>3. u \in User /\ u.leg \in Nat \ {0} /\ u.dep \in Nat
    BY <2>2 DEF Placed, Riding, Waiting, User
  <2>4. u.dep >= clock - (u.leg - 1) * Dt
    BY <2>1, <1>11 DEF Placed, Riding, Waiting
  <2>5. at \in Nat /\ at >= u.dep
    BY <2>3, Constants
  <2>6. at >= h2 - u.leg * Dt
    <3> DEFINE m == (u.leg - 1) * Dt
               n == u.leg * Dt
    <3>1. n = m + Dt /\ m \in Nat /\ n \in Nat
      BY <2>3, OneMoreLeg
    <3>2. u.dep >= clock - m
      BY <2>4
    <3> HIDE DEF m, n
    <3>3. at >= h2 - n
      BY <3>1, <3>2, <2>3, <1>4, Constants DEF h2
    <3> QED
      BY <3>3 DEF n
  <2>7. /\ t \in DOMAIN written' /\ written'[t] = Filed(p, at)
        /\ t \notin fin =>
              t \in DOMAIN all' /\ all'[t] = Ended(u, at)
    <3>1. t \in DOMAIN written' /\ release[t] = at /\ t \in Known \cup new
      BY <1>4, <1>7, <1>10, <1>11, <2>1
    <3> QED
      BY <3>1, <1>9, <1>10
  <2>8. t \in fin <=> u.leg = Len(u.plan)
    BY <1>7
  <2> HIDE DEF u, p, at
  <2> QED
    BY <2>1, <2>2, <2>5, <2>6, <2>7, <2>8, <1>4, LegDone
<1>15. ASSUME NEW t \in Trips
       PROVE  TripOK(Snapshot', t, h2)
  <2>1. TripOK(Snapshot, t, clock) /\ Departure[t] \in Nat
    BY <1>4, Constants
  <2>2. CASE t \in walkers
    <3>1. t \notin fin => t \in owned'
      BY <1>3, <2>2
    <3>2. t \in fin => t \notin DOMAIN all'
      BY <1>9
    <3> QED
      BY <2>2, <3>1, <3>2, <1>12, <1>14, Fields DEF TripOK
  <2>3. CASE t \in due /\ t \notin walkers
    <3>1. t \notin fin /\ t \in owned \cup new /\ t \in Known \cup new
      BY <2>3, <1>4, <1>7
    <3>2. t \in DOMAIN all' /\ t \notin owned' /\ all'[t] = users[t]
      BY <2>3, <3>1, <1>3, <1>9
    <3>3. t \in DOMAIN written' /\ written'[t] = papers[t]
      BY <2>3, <3>1, <1>10, <1>11
    <3> QED
      BY <2>3, <3>1, <3>2, <3>3, <1>11, <1>12, Fields DEF TripOK
  <2>4. CASE t \in owned /\ t \notin due
    <3>1. t \notin walkers /\ t \notin fin /\ t \notin new /\ t \in Known
      BY <2>4, <1>4, <1>7, <1>13
    <3>2. /\ t \in DOMAIN all' /\ t \in owned' /\ all'[t] = users[t] /\ users[t] = all[t]
          /\ journal'[t] = journal[t]
      BY <2>4, <3>1, <1>3, <1>6, <1>8, <1>9
    <3>3. t \in DOMAIN written' /\ written'[t] = papers[t]
      BY <3>1, <2>4, <1>10, <1>11
    <3>4. Waiting(all'[t], journal'[t], written'[t], t, clock)
      BY <2>4, <3>2, <3>3, <1>11
    <3>5. all'[t].dep >= h2 - (all'[t].leg - 1) * Dt
      <4>1. all'[t].leg \in Nat \ {0} /\ all'[t].dep \in Nat /\ ~(all'[t].dep < h2)
        BY <2>4, <3>2, <3>4, <1>7 DEF Placed, Riding, Waiting, User
      <4> DEFINE m == (all'[t].leg - 1) * Dt
      <4>2. m \in Nat
        BY <4>1, OneMoreLeg
      <4> HIDE DEF m
      <4>3. all'[t].dep >= h2 - m
        BY <4>1, <4>2, <1>4
      <4> QED
        BY <4>3 DEF m
    <3>6. Waiting(all'[t], journal'[t], written'[t], t, h2)
      BY <3>4, <3>5 DEF Placed, Riding, Waiting
    <3>7. Journalled(journal'[t], t, h2) /\ journal'[t] # <<>>
      BY <2>1, <2>4, <3>1, <3>2, <1>11, Fields DEF TripOK, Journalled, Known
    <3> QED
      BY <2>4, <3>2, <3>3, <3>6, <3>7, <1>11, Fields DEF TripOK
  <2>5. CASE t \notin owned \cup new
    <3>1. t \notin walkers /\ t \notin fin /\ t \notin due
      BY <2>5, <1>7
    <3>2. /\ journal'[t] = journal[t] /\ t \notin owned'
          /\ t \in DOMAIN all' <=> t \in Known
          /\ t \in DOMAIN all' => all'[t] = all[t]
          /\ t \in DOMAIN written' <=> t \in DOMAIN written
          /\ t \in DOMAIN written' => written'[t] = written[t]
      BY <2>5, <3>1, <1>3, <1>6, <1>8, <1>9, <1>10
    <3>3. Journalled(journal'[t], t, h2)
      <4>1. Journalled(journal[t], t, clock)
        BY <2>1, Fields DEF TripOK
      <4>2. t \notin Unroutable /\ Departure[t] < h2 => Departure[t] < clock
        BY <2>5, <1>4, <1>5, Constants DEF new
      <4> QED
        BY <4>1, <4>2, <3>2, <2>1, <1>4 DEF Journalled
    <3> QED
      BY <2>1, <2>5, <3>2, <3>3, Fields DEF TripOK, Known
  <2> QED
    BY <2>2, <2>3, <2>4, <2>5, <1>13
<1>16. /\ owned' \cap travelling' = {} /\ owned' \cup travelling' = DOMAIN all'
       /\ DOMAIN all' \subseteq Trips /\ DOMAIN written' \subseteq Trips
  <2>1. fin \subseteq walkers /\ walkers \subseteq due /\ due \subseteq owned \cup new
    BY <1>7
  <2>2. new \cap travelling = {}
    BY <1>4, <1>5, <1>6 DEF new
  <2>3. DOMAIN all' = (Known \cup new) \ fin /\ DOMAIN written' = DOMAIN written \cup new
    BY <1>9, <1>10
  <2> QED
    BY <2>1, <2>2, <2>3, <1>3, <1>4, <1>6
<1>17. /\ next' \in [Populations -> Nat \cup {-1}]
       /\ \A p \in Populations : next'[p] < h2
  <2>1. \A t \in Activated(clock) : t \in Trips /\ Departure[t] < h2
    BY <1>5 DEF Activated
  <2>2. \A p \in Populations : next[p] \in Nat \cup {-1} /\ next[p] < h2
    BY <1>1, <1>4, IdleFacts
  <2> HIDE DEF Activated
  <2>3. \A p \in Populations : /\ LastActivated(p, Activated(clock)) \in Nat \cup {-1}
                               /\ LastActivated(p, Activated(clock)) < h2
    BY <2>1, <2>2, <1>4, LastActivatedBound
  <2> QED
    BY <2>3, <1>1
<1>18. journal' \in [Trips -> Seq(Nat)]
  <2>1. \A t \in Trips : journal'[t] \in Seq(Nat)
    BY <1>15, Fields DEF TripOK, Journalled
  <2> QED
    BY <2>1, <1>3
<1>19. EngineOK(Snapshot', h2)
  BY <1>1, <1>4, <1>15, <1>16, <1>17, <1>18, Fields DEF EngineOK, EngineTypes
<1>20. Horizon' = h2
  BY <1>1 DEF Horizon, h2
<1>21. ControlOK'
  BY <1>1, <1>4 DEF IInv, ControlOK
<1>22. SnapsOK'
  BY <1>1 DEF IInv, SnapsOK
<1> QED
  BY <1>19, <1>20, <1>21, <1>22 DEF IInv

\* What the invariant says of the live state while the simulators step.
LEMMA StepFacts ==
    ASSUME IInv, phase = "step"
    PROVE  /\ EngineOK(Snapshot, clock + Dt) /\ stepStart = clock
           /\ clock \in Nat /\ clock + Dt \in Nat
           /\ Known \subseteq Trips /\ DOMAIN written \subseteq Trips
           /\ owned \cap travelling = {} /\ owned \cup travelling = Known
           /\ \A t \in Trips : TripOK(Snapshot, t, clock + Dt)
<1>1. EngineOK(Snapshot, clock + Dt)
  BY DEF IInv, Horizon
<1>2. stepStart = clock
  BY DEF IInv, ControlOK
<1>3. clock \in Nat /\ clock + Dt \in Nat
  BY <1>1, Fields, Constants DEF EngineOK, EngineTypes
<1> QED
  BY <1>1, <1>2, <1>3, Fields DEF EngineOK, EngineTypes, Known

\* The completion of a leg keeps the invariant.
LEMMA CompletedInvariant ==
    ASSUME IInv, NEW u \in Trips, NEW delay \in 0 .. MaxDelay, OnPPathCompleted(u, delay)
    PROVE  IInv'
<1> DEFINE h2 == clock + Dt
           end == stepStart + delay
           at == [v \in {u} |-> end]
           fin == Finished(all, {u})
<1>1. /\ phase = "step" /\ u \in travelling /\ end >= all[u].dep
      /\ all' = Advanced(all, {u}, at) /\ owned' = owned \cup ({u} \ fin)
      /\ written' = ArrivalsWritten(written, {u}, at)
      /\ travelling' = travelling \ {u}
      /\ next' = next /\ journal' = journal /\ stepStart' = stepStart /\ clock' = clock
      /\ phase' = phase /\ snaps' = snaps /\ rollbacks' = rollbacks
  BY DEF OnPPathCompleted
<1>2. /\ EngineOK(Snapshot, h2) /\ stepStart = clock /\ clock \in Nat /\ h2 \in Nat
      /\ Known \subseteq Trips /\ DOMAIN written \subseteq Trips
      /\ owned \cap travelling = {} /\ owned \cup travelling = Known
      /\ \A t \in Trips : TripOK(Snapshot, t, h2)
  BY <1>1, StepFacts
<1>3. /\ fin \subseteq {u}
      /\ u \in fin <=> all[u].leg = Len(all[u].plan)
      /\ at[u] = end /\ end \in Nat /\ end >= clock
  BY <1>2, Constants DEF Finished
<1>4. /\ u \in Known /\ u \notin owned /\ journal[u] # <<>> /\ u \in DOMAIN written
      /\ written[u] \in Paper /\ Chained(written[u].arrivals, u)
      /\ Riding(all[u], journal[u], written[u], u)
  BY <1>1, <1>2, Fields DEF TripOK, Known
<1> HIDE DEF h2, end, at, fin
<1>5. DOMAIN all' = Known \ fin
  BY <1>1, AdvancedDomain DEF fin, Known
<1>6. /\ u \in DOMAIN all' => all'[u] = Ended(all[u], end)
      /\ \A t \in DOMAIN all' : t # u => all'[t] = all[t]
  <2>1. ASSUME NEW t \in DOMAIN all'
        PROVE  /\ t \in {u} => all'[t] = Ended(all[t], at[t])
               /\ t \notin {u} => all'[t] = all[t]
    BY <1>1, AdvancedUsers
  <2> QED
    BY <2>1, <1>3
<1>7. /\ DOMAIN written' = DOMAIN written
      /\ written'[u] = Filed(written[u], end)
      /\ \A t \in DOMAIN written : t # u => written'[t] = written[t]
  <2>1. /\ DOMAIN written' = DOMAIN written
        /\ \A t \in DOMAIN written :
              written'[t] = IF t \in {u} THEN Filed(written[t], at[t]) ELSE written[t]
    BY <1>1, WrittenArrivals
  <2> QED
    BY <2>1, <1>3, <1>4
<1>8. end >= h2 - all[u].leg * Dt
  <2>1. all[u].leg \in Nat \ {0}
    BY <1>4 DEF Riding, Placed, User
  <2> DEFINE m == (all[u].leg - 1) * Dt
             n == all[u].leg * Dt
  <2>2. n = m + Dt /\ m \in Nat /\ n \in Nat
    BY <2>1, OneMoreLeg
  <2> HIDE DEF m, n
  <2>3. end >= h2 - n
    BY <2>2, <1>2, <1>3, Constants DEF h2
  <2> QED
    BY <2>3 DEF n
<1>9. LET p2 == Filed(written[u], end)
          u2 == Ended(all[u], end)
      IN /\ p2 \in Paper /\ Chained(p2.arrivals, u)
         /\ u \notin fin => Waiting(u2, journal[u], p2, u, h2)
         /\ u \in fin => Len(journal[u]) = Len(p2.plan) /\ Len(p2.arrivals) = Len(p2.plan)
  <2>1. end >= all[u].dep
    BY <1>1
  <2> QED
    BY <2>1, <1>2, <1>3, <1>4, <1>8, LegDone
<1>10. ASSUME NEW t \in Trips
       PROVE  TripOK(Snapshot', t, h2)
  <2>1. TripOK(Snapshot, t, h2)
    BY <1>2
  <2>2. CASE t = u /\ u \notin fin
    <3>1. u \in DOMAIN all' /\ u \in owned' /\ all'[u] = Ended(all[u], end)
      BY <2>2, <1>1, <1>4, <1>5, <1>6
    <3>2. /\ Waiting(all'[u], journal'[u], written'[u], u, h2)
          /\ written'[u] \in Paper /\ Chained(written'[u].arrivals, u)
          /\ u \in DOMAIN written' /\ journal'[u] = journal[u]
      BY <2>2, <3>1, <1>1, <1>4, <1>7, <1>9
    <3>3. Journalled(journal'[u], u, h2)
      BY <2>1, <2>2, <3>2, Fields DEF TripOK
    <3> QED
      BY <2>2, <3>1, <3>2, <3>3, <1>4, Fields DEF TripOK
  <2>3. CASE t = u /\ u \in fin
    <3>1. u \notin DOMAIN all'
      BY <2>3, <1>5
    <3>2. /\ written'[u] \in Paper /\ Chained(written'[u].arrivals, u)
          /\ u \in DOMAIN written' /\ journal'[u] = journal[u]
          /\ Len(journal'[u]) = Len(written'[u].plan)
          /\ Len(written'[u].arrivals) = Len(written'[u].plan)
      BY <2>3, <1>1, <1>4, <1>7, <1>9
    <3>3. Journalled(journal'[u], u, h2)
      BY <2>1, <2>3, <3>2, Fields DEF TripOK
    <3> QED
      BY <2>3, <3>1, <3>2, <3>3, Fields DEF TripOK
  <2>4. CASE t # u
    <3>1. /\ t \in DOMAIN all' <=> t \in DOMAIN all
          /\ t \in DOMAIN all' => all'[t] = all[t]
          /\ t \in DOMAIN written' <=> t \in DOMAIN written
          /\ t \in DOMAIN written' => written'[t] = written[t]
          /\ t \in owned' <=> t \in owned
          /\ journal'[t] = journal[t]
      BY <2>4, <1>1, <1>3, <1>5, <1>6, <1>7 DEF Known
    <3> QED
      BY <2>1, <3>1, Fields DEF TripOK
  <2> QED
    BY <2>2, <2>3, <2>4
<1>11. /\ owned' \cap travelling' = {} /\ owned' \cup travelling' = DOMAIN all'
       /\ DOMAIN all' \subseteq Trips /\ DOMAIN written' \subseteq Trips
  BY <1>1, <1>2, <1>3, <1>4, <1>5, <1>7
<1>12. EngineOK(Snapshot', h2)
  BY <1>1, <1>2, <1>10, <1>11, Fields DEF EngineOK, EngineTypes
<1>13. Horizon' = h2
  BY <1>1 DEF Horizon, h2
<1>14. ControlOK' /\ SnapsOK'
  BY <1>1 DEF IInv, ControlOK, SnapsOK
<1> QED
  BY <1>12, <1>13, <1>14 DEF IInv

\* The end of a step keeps the invariant.
LEMMA EndStepInvariant ==
    ASSUME IInv, EndStep
    PROVE  IInv'
<1>1. /\ phase = "step" /\ phase' = "idle" /\ clock' = clock + Dt
      /\ all' = all /\ owned' = owned /\ next' = next /\ written' = written
      /\ travelling' = travelling /\ journal' = journal
      /\ stepStart' = stepStart /\ snaps' = snaps /\ rollbacks' = rollbacks
  BY DEF EndStep, engineVars
<1>2. EngineOK(Snapshot, clock + Dt) /\ clock + Dt \in Nat
  BY <1>1, StepFacts
<1>3. Horizon' = clock + Dt
  BY <1>1 DEF Horizon
<1>4. EngineOK(Snapshot', clock + Dt)
  BY <1>1, <1>2, Fields DEF EngineOK, EngineTypes, TripOK
<1>5. ControlOK' /\ SnapsOK'
  BY <1>1 DEF IInv, ControlOK, SnapsOK
<1> QED
  BY <1>3, <1>4, <1>5 DEF IInv
--------------------------------------------------------------------------------
(* Snapshots *)

\* The states restored are those that were sound when the snapshot was taken.
LEMMA RestoreSound ==
    ASSUME NEW s, EngineOK(s, s.clock), Restore(s)
    PROVE  EngineOK(Snapshot', clock')
<1>1. /\ all' = s.all /\ owned' = s.owned /\ next' = s.next /\ written' = s.written
      /\ travelling' = s.travelling /\ journal' = s.journal /\ clock' = s.clock
  BY DEF Restore, RestoreEngine, RestorePaths
<1>2. EngineOK(Snapshot', s.clock)
  BY <1>1, Fields, SameFields
<1> QED
  BY <1>1, <1>2

\* A step between two steps of the simulators that keeps the control and leaves a
\* sound engine state and sound snapshots keeps the invariant.
LEMMA IdleInvariant ==
    ASSUME IInv, phase = "idle", UNCHANGED <<stepStart, phase>>,
           rollbacks' \in 0 .. MaxRollbacks, EngineOK(Snapshot', clock'), SnapsOK'
    PROVE  IInv'
<1>1. Horizon' = clock'
  BY DEF Horizon
<1>2. ControlOK'
  BY DEF IInv, ControlOK
<1> QED
  BY <1>1, <1>2 DEF IInv

\* What is recorded between two steps is sound.
LEMMA SnapshotSound ==
    ASSUME IInv, phase = "idle", UNCHANGED <<engineVars, clock>>
    PROVE  /\ EngineOK(Snapshot, Snapshot.clock)
           /\ EngineOK(Snapshot', clock')
<1>1. EngineOK(Snapshot, clock)
  BY IdleFacts
<1>2. EngineOK(Snapshot', clock)
  BY <1>1, Fields, SameFields DEF engineVars
<1> QED
  BY <1>1, <1>2, Fields

\* One element after one.
LEMMA AppendOne ==
    ASSUME NEW r, NEW s
    PROVE  Append(<<r>>, s) = <<r, s>>
<1> DEFINE q == Append(<<r>>, s)
           p == <<r, s>>
<1>1. /\ p \in Seq({r, s}) /\ Len(p) = 2 /\ p[1] = r /\ p[2] = s
      /\ q \in Seq({r, s}) /\ Len(q) = 2 /\ q[1] = r /\ q[2] = s
  <2>1. <<r>> \in Seq({r, s}) /\ s \in {r, s}
    OBVIOUS
  <2> QED
    BY <2>1
<1> HIDE DEF p, q
<1>2. \A i \in 1 .. Len(q) : q[i] = p[i]
  BY <1>1
<1>3. q = p
  BY <1>1, <1>2, SeqEqual
<1> QED
  BY <1>3 DEF p, q

\* One, or one more, sound snapshot.
LEMMA TwoSnapshots ==
    ASSUME NEW s, EngineOK(s, s.clock),
           \/ snaps' = <<s>>
           \/ SnapsOK /\ Len(snaps) = 1 /\ snaps' = Append(snaps, s)
    PROVE  SnapsOK'
<1>1. CASE snaps' = <<s>>
  <2>1. snaps'[1] = s /\ DOMAIN snaps' = {1}
    BY <1>1
  <2> QED
    BY <1>1, <2>1 DEF SnapsOK
<1>2. CASE SnapsOK /\ Len(snaps) = 1 /\ snaps' = Append(snaps, s)
  <2>1. snaps = <<snaps[1]>>
    <3>1. snaps = <<>> => Len(snaps) = 0
      OBVIOUS
    <3>2. snaps = <<snaps[1], snaps[2]>> => Len(snaps) = 2
      OBVIOUS
    <3> QED
      BY <1>2, <3>1, <3>2 DEF SnapsOK
  <2>2. PICK r : snaps = <<r>> /\ EngineOK(r, r.clock)
    <3>1. 1 \in DOMAIN snaps
      BY <2>1
    <3> QED
      BY <1>2, <2>1, <3>1 DEF SnapsOK
  <2>3. snaps' = <<r, s>>
    <3>1. snaps' = Append(<<r>>, s)
      BY <1>2, <2>2
    <3>2. Append(<<r>>, s) = <<r, s>>
      BY AppendOne
    <3> QED
      BY <3>1, <3>2
  <2>4. snaps'[1] = r /\ snaps'[2] = s /\ DOMAIN snaps' = {1, 2}
    BY <2>3
  <2> QED
    BY <1>2, <2>2, <2>3, <2>4 DEF SnapsOK
<1> QED
  BY <1>1, <1>2

\* The steps of the snapshot protocol keep the invariant.
LEMMA SnapshotsInvariant ==
    ASSUME IInv,
           \/ AssignmentPeriodStart \/ AssignmentPeriodEnded
           \/ AssignmentPeriodRollback \/ AssignmentPeriodCommit
    PROVE  IInv'
<1>1. /\ phase = "idle" /\ UNCHANGED <<stepStart, phase>> /\ SnapsOK
      /\ rollbacks \in 0 .. MaxRollbacks
  BY DEF AssignmentPeriodStart, AssignmentPeriodEnded, AssignmentPeriodRollback,
         AssignmentPeriodCommit, IInv, ControlOK
<1>2. CASE AssignmentPeriodStart
  <2>1. snaps' = <<Snapshot>> /\ UNCHANGED <<engineVars, clock, rollbacks>>
    BY <1>2 DEF AssignmentPeriodStart
  <2> QED
    BY <1>1, <2>1, SnapshotSound, TwoSnapshots, IdleInvariant
<1>3. CASE AssignmentPeriodEnded
  <2>1. /\ Len(snaps) = 1 /\ snaps' = Append(snaps, Snapshot)
        /\ UNCHANGED <<engineVars, clock, rollbacks>>
    BY <1>3 DEF AssignmentPeriodEnded
  <2> QED
    BY <1>1, <2>1, SnapshotSound, TwoSnapshots, IdleInvariant
<1>4. ASSUME snaps # <<>>
      PROVE  /\ EngineOK(snaps[1], snaps[1].clock)
             /\ Len(snaps) = 2 => EngineOK(snaps[2], snaps[2].clock)
             /\ Len(snaps) # 2 => snaps = <<snaps[1]>>
  <2>1. CASE snaps = <<snaps[1]>>
    <3>1. Len(snaps) = 1 /\ 1 \in DOMAIN snaps
      BY <2>1
    <3> QED
      BY <1>1, <2>1, <3>1 DEF SnapsOK
  <2>2. CASE snaps = <<snaps[1], snaps[2]>>
    <3>1. Len(snaps) = 2 /\ 1 \in DOMAIN snaps /\ 2 \in DOMAIN snaps
      BY <2>2
    <3> QED
      BY <1>1, <3>1 DEF SnapsOK
  <2> QED
    BY <1>1, <1>4, <2>1, <2>2 DEF SnapsOK
<1>5. CASE AssignmentPeriodRollback
  <2>1. /\ snaps # <<>> /\ Restore(snaps[1])
        /\ rollbacks < MaxRollbacks /\ rollbacks' = rollbacks + 1
        /\ snaps' = IF Len(snaps) = 2 THEN <<snaps[1]>> ELSE snaps
    BY <1>5 DEF AssignmentPeriodRollback
  <2>2. EngineOK(Snapshot', clock')
    BY <1>4, <2>1, RestoreSound
  <2>3. snaps' = <<snaps[1]>>
    BY <1>4, <2>1
  <2>4. rollbacks' \in 0 .. MaxRollbacks
    BY <1>1, <2>1, UserEngineAssumption
  <2> QED
    BY <1>1, <1>4, <2>1, <2>2, <2>3, <2>4, TwoSnapshots, IdleInvariant
<1>6. CASE AssignmentPeriodCommit
  <2>1. /\ snaps # <<>> /\ snaps' = <<>> /\ rollbacks' = rollbacks
        /\ IF Len(snaps) = 2 THEN Restore(snaps[2]) ELSE UNCHANGED <<engineVars, clock>>
    BY <1>6 DEF AssignmentPeriodCommit
  <2>2. EngineOK(Snapshot', clock')
    <3>1. CASE Len(snaps) = 2
      BY <1>4, <2>1, <3>1, RestoreSound
    <3>2. CASE Len(snaps) # 2
      BY <1>1, <2>1, <3>2, SnapshotSound
    <3> QED
      BY <3>1, <3>2
  <2>3. SnapsOK'
    BY <2>1 DEF SnapsOK
  <2> QED
    BY <1>1, <2>1, <2>2, <2>3, IdleInvariant
<1> QED
  BY <1>2, <1>3, <1>5, <1>6
--------------------------------------------------------------------------------
(* Theorems *)

\* Every step keeps the invariant.
LEMMA NextInvariant == IInv /\ [Next]_vars => IInv'
<1> SUFFICES ASSUME IInv, [Next]_vars PROVE IInv'
  OBVIOUS
<1>1. CASE Run
  BY <1>1, RunInvariant
<1>2. CASE EndStep
  BY <1>2, EndStepInvariant
<1>3. CASE \E t \in Trips, delay \in 0 .. MaxDelay : OnPPathCompleted(t, delay)
  BY <1>3, CompletedInvariant
<1>4. CASE \/ AssignmentPeriodStart \/ AssignmentPeriodEnded
           \/ AssignmentPeriodRollback \/ AssignmentPeriodCommit
  BY <1>4, SnapshotsInvariant
<1>5. CASE UNCHANGED vars
  <2>1. /\ UNCHANGED <<stepStart, phase, snaps, rollbacks, clock>>
        /\ all' = all /\ owned' = owned /\ next' = next /\ written' = written
        /\ travelling' = travelling /\ journal' = journal
    BY <1>5 DEF vars, engineVars
  <2>2. EngineOK(Snapshot, Horizon) /\ Horizon' = Horizon
    BY <2>1 DEF IInv, Horizon
  <2>3. EngineOK(Snapshot', Horizon)
    BY <2>1, <2>2, Fields, SameFields
  <2> QED
    BY <2>1, <2>2, <2>3 DEF IInv, ControlOK, SnapsOK
<1> QED
  BY <1>1, <1>2, <1>3, <1>4, <1>5 DEF Next

\* The engine is sound in every state the program can reach.
THEOREM Invariance == Spec => []IInv
  BY InitInvariant, NextInvariant, PTL DEF Spec

\* The invariant says so of the current state.
LEMMA NowSound ==
    ASSUME IInv
    PROVE  /\ EngineTypes(Snapshot) /\ SnapsOK /\ ControlOK
           /\ owned \cap travelling = {} /\ owned \cup travelling = Known
           /\ journal \in [Trips -> Seq(Nat)]
           /\ \A t \in Trips : TripOK(Snapshot, t, Horizon)
  BY Fields DEF IInv, EngineOK, Known

\* TypeOK of the runs, for every demand.
THEOREM EngineTypeOK == Spec => []TypeOK
<1>1. ASSUME IInv PROVE TypeOK
  <2>1. /\ EngineTypes(Snapshot) /\ SnapsOK /\ ControlOK
        /\ journal \in [Trips -> Seq(Nat)] /\ owned \cup travelling = Known
        /\ \A t \in Trips : TripOK(Snapshot, t, Horizon)
    BY <1>1, NowSound
  <2>2. ASSUME NEW t \in Known
        PROVE  all[t] \in User /\ all[t].leg <= Len(all[t].plan)
    BY <2>1, Fields DEF EngineTypes, TripOK, Riding, Waiting, Placed, Known
  <2>3. ASSUME NEW t \in DOMAIN written
        PROVE  written[t] \in [plan : Plans, arrivals : Seq(Nat)]
    BY <2>1, Fields DEF EngineTypes, TripOK, Paper
  <2>4. Len(snaps) <= 2
    <3>1. CASE snaps = <<>>
      BY <3>1
    <3>2. CASE snaps = <<snaps[1]>>
      BY <3>2
    <3>3. CASE snaps = <<snaps[1], snaps[2]>>
      <4>1. Len(snaps) = Len(<<snaps[1], snaps[2]>>)
        BY <3>3
      <4> QED
        BY <4>1
    <3> QED
      BY <2>1, <3>1, <3>2, <3>3 DEF SnapsOK
  <2> QED
    BY <2>1, <2>2, <2>3, <2>4, Fields DEF TypeOK, EngineTypes, ControlOK, Known
<1> QED
  BY <1>1, Invariance, PTL

\* Whatever was rolled back or committed, each trip is activated once, at its time, and
\* its legs are handed over one after the other (Run and RestoreSnapshot).
THEOREM EachLegOnce == Spec => []LegsOnceInOrder
<1>1. ASSUME IInv PROVE LegsOnceInOrder
  <2>1. ASSUME NEW t \in Trips
        PROVE  Journalled(journal[t], t, Horizon)
    BY <1>1, NowSound, Fields DEF TripOK
  <2>2. phase = "idle" => Horizon = clock
    BY DEF Horizon
  <2> QED
    BY <2>1, <2>2 DEF LegsOnceInOrder, Journalled
<1> QED
  BY <1>1, Invariance, PTL

\* A user under way waits in the engine or is inside one simulator, at the leg the
\* engine counts; one that is gone has completed its plan.
THEOREM NobodyIsLost == Spec => []NobodyLost
<1>1. ASSUME IInv PROVE NobodyLost
  <2>1. /\ owned \cap travelling = {} /\ owned \cup travelling = Known
        /\ \A t \in Trips : TripOK(Snapshot, t, Horizon)
        /\ Known \subseteq Trips
    BY <1>1, NowSound, Fields DEF EngineTypes, Known
  <2>2. ASSUME NEW t \in Known
        PROVE  Len(journal[t]) = all[t].leg - (IF t \in owned THEN 1 ELSE 0)
    <3>1. TripOK(Snapshot, t, Horizon) /\ t \in DOMAIN all
      BY <2>1 DEF Known
    <3>2. CASE t \in owned
      BY <3>1, <3>2, Fields DEF TripOK, Waiting
    <3>3. CASE t \notin owned
      <4>1. Riding(all[t], journal[t], written[t], t)
        BY <3>1, <3>3, Fields DEF TripOK
      <4>2. all[t].leg \in Nat
        BY <4>1 DEF Riding, Placed, User
      <4> QED
        BY <4>1, <4>2, <3>3 DEF Riding
    <3> QED
      BY <3>2, <3>3
  <2>3. ASSUME NEW t \in Trips \ Known, journal[t] # <<>>
        PROVE  Len(journal[t]) = Len(written[t].plan)
    BY <2>1, <2>3, Fields DEF TripOK, Known
  <2> QED
    BY <2>1, <2>2, <2>3 DEF NobodyLost
<1> QED
  BY <1>1, Invariance, PTL

\* The arrival times written follow the legs completed, in order, through callbacks
\* and rollbacks (OnPPathCompleted and UserPathWriting).
THEOREM ArrivalsAreKept == Spec => []ArrivalsFollowLegs
<1>1. ASSUME IInv PROVE ArrivalsFollowLegs
  <2>1. ASSUME NEW t \in Trips, journal[t] # <<>>
        PROVE  /\ t \in DOMAIN written /\ Chained(written[t].arrivals, t)
               /\ Len(written[t].arrivals) =
                     IF t \in Known THEN all[t].leg - 1 ELSE Len(written[t].plan)
    <3>1. TripOK(Snapshot, t, Horizon)
      BY <1>1, NowSound
    <3>2. /\ t \in DOMAIN written /\ Chained(written[t].arrivals, t)
          /\ t \in DOMAIN all => Placed(all[t], written[t], t)
          /\ t \notin DOMAIN all => Len(written[t].arrivals) = Len(written[t].plan)
      BY <2>1, <3>1, Fields DEF TripOK, Riding, Waiting
    <3> QED
      BY <3>2 DEF Placed, Known
  <2> QED
    BY <2>1 DEF ArrivalsFollowLegs, Chained
<1> QED
  BY <1>1, Invariance, PTL

\* A user given back during a step is late by at most a step for each leg done.
THEOREM LatenessIsBounded == Spec => []LatenessBounded
<1>1. ASSUME IInv PROVE LatenessBounded
  <2>1. ASSUME phase = "idle", NEW t \in owned
        PROVE  all[t].dep >= clock - (all[t].leg - 1) * Dt
    <3>1. /\ TripOK(Snapshot, t, clock) /\ t \in DOMAIN all
      BY <1>1, <2>1, IdleFacts DEF Known
    <3>2. Waiting(all[t], journal[t], written[t], t, clock)
      BY <3>1, Fields DEF TripOK
    <3> QED
      BY <3>2 DEF Waiting
  <2> QED
    BY <2>1 DEF LatenessBounded
<1> QED
  BY <1>1, Invariance, PTL
================================================================================
