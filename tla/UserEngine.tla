------------------------------- MODULE UserEngine -------------------------------
(***************************************************************************)
(* The user engine of one simulation instance (UserEngine, TrackedUser,    *)
(* UserPathWriting): it turns the trips of the demand into users when they *)
(* depart, hands each leg of a user's path (a PPath) to the simulator that *)
(* carries it, and takes the user back when that simulator reports the leg *)
(* completed.  Walks are computed on the spot: the completion callback     *)
(* runs inside the activation.  The other simulators call back while they  *)
(* step.  Snapshots follow the protocol of RollingHorizon.                 *)
(***************************************************************************)
EXTENDS Integers, Sequences, FiniteSets

CONSTANTS
    Trips,        \* the trips of the demand
    Unroutable,   \* those whose path no simulator can carry
    Population,   \* Population[t]: the population of trip t
    Departure,    \* Departure[t]: its departure time
    Plans,        \* the sequences of legs, "walk" or "ext", a path can be cut into
    Dt,           \* duration of a time step
    WalkTime,     \* duration of a walk leg
    MaxDelay,     \* bound: largest delay an external simulator reports
    EndTime,      \* bound: no step starts at or after this time
    MaxRollbacks  \* bound: rollbacks in a behaviour

Populations == {Population[t] : t \in Trips}

ASSUME UserEngineAssumption ==
    /\ IsFiniteSet(Trips) /\ Unroutable \subseteq Trips
    /\ Departure \in [Trips -> Nat]
    /\ Plans \subseteq Seq({"walk", "ext"}) \ {<<>>}
    /\ {Dt, WalkTime} \subseteq Nat \ {0} /\ {MaxDelay, EndTime, MaxRollbacks} \subseteq Nat

VARIABLES
    all,        \* m_AllUsers: a record for each user under way
    owned,      \* m_OwnedUsers: those waiting for their next leg
    next,       \* m_NextTripsToActivate: last departure activated, by population
    written,    \* m_lstAllPPath: each trip's plan and the arrival times so far
    stepStart,  \* m_dtCurrentTimeStepStartTime
    clock,      \* start of the next time step
    phase,      \* "idle" between steps, "step" while the simulators step
    travelling, \* users inside an external simulator (external state)
    journal,    \* the legs handed over for each trip, in order (external state)
    snaps,      \* m_lstUserEngineSnapshot and the matching states of the others
    rollbacks

engineVars == <<all, owned, next, written, travelling, journal>>
vars == <<engineVars, stepStart, clock, phase, snaps, rollbacks>>

Known == DOMAIN all

\* A function on fewer trips.
Without(f, S) == [u \in DOMAIN f \ S |-> f[u]]

Init ==
    /\ all = <<>> /\ owned = {} /\ next = [p \in Populations |-> -1]
    /\ written = <<>> /\ travelling = {} /\ journal = [t \in Trips |-> <<>>]
    /\ stepStart = 0 /\ clock = 0 /\ phase = "idle"
    /\ snaps = <<>> /\ rollbacks = 0

--------------------------------------------------------------------------------
(* Completion of a leg *)

\* Variant to test the properties with: the last leg is believed to have a successor.
FinishedNever(us, S) == {t \in S : us[t].leg > Len(us[t].plan)}

\* OnPPathCompleted and GoToNextPPath for the users of S, whose current leg of
\* state us[t] ends at at[t]: the time is written, and the user waits for its
\* next leg or, after the last one, is forgotten.
Finished(us, S) == {t \in S : us[t].leg = Len(us[t].plan)}

Advanced(us, S, at) ==
    Without([t \in DOMAIN us |->
                IF t \in S THEN [us[t] EXCEPT !.leg = @ + 1, !.dep = at[t]] ELSE us[t]],
            Finished(us, S))

ArrivalsWritten(w, S, at) ==
    [t \in DOMAIN w |->
        IF t \in S THEN [w[t] EXCEPT !.arrivals = Append(@, at[t])] ELSE w[t]]

--------------------------------------------------------------------------------
(* UserEngine::Run *)

\* Variant to test the properties with: users whose leg started in an earlier step are missed.
DueThisStepOnly(users, waiting) ==
    {t \in waiting : clock <= users[t].dep /\ users[t].dep < clock + Dt}

\* The users handed over in a step: those whose leg starts before its end.
Due(users, waiting) == {t \in waiting : users[t].dep < clock + Dt}

\* The trips activated by the step [start, start + Dt): the sorted list is
\* walked from where the previous steps left it.
Activated(start) ==
    {t \in Trips : /\ Departure[t] > next[Population[t]]
                   /\ start <= Departure[t] /\ Departure[t] < start + Dt}

LastActivated(p, new) ==
    LET deps == {Departure[t] : t \in {u \in new : Population[u] = p}}
    IN IF deps = {} THEN next[p] ELSE CHOOSE d \in deps : \A e \in deps : e <= d

\* Trips become users, each with the plan its path is cut into (a trip no
\* simulator can carry is passed over), then every owned user whose leg starts
\* before the end of the step is handed over.  Those are collected first: one
\* given back by a walk that ends during the step waits for the next step.
Run ==
    /\ phase = "idle" /\ clock < EndTime
    /\ stepStart' = clock
    /\ next' = [p \in Populations |-> LastActivated(p, Activated(clock))]
    /\ LET new == Activated(clock) \ Unroutable IN
       \E plan \in [new -> Plans] :
          LET users == [t \in Known \cup new |->
                           IF t \in new
                           THEN [plan |-> plan[t], leg |-> 1, dep |-> Departure[t]]
                           ELSE all[t]]
              due == Due(users, owned \cup new)
              walkers == {t \in due : users[t].plan[users[t].leg] = "walk"}
              release == [t \in walkers |-> users[t].dep + WalkTime]
              papers == [t \in DOMAIN written \cup new |->
                            IF t \in new THEN [plan |-> plan[t], arrivals |-> <<>>]
                            ELSE written[t]]
          IN /\ journal' = [t \in Trips |-> IF t \in due THEN Append(journal[t], users[t].leg)
                                                   ELSE journal[t]]
             /\ all' = Advanced(users, walkers, release)
             /\ owned' = ((owned \cup new) \ due) \cup (walkers \ Finished(users, walkers))
             /\ travelling' = travelling \cup (due \ walkers)
             /\ written' = ArrivalsWritten(papers, walkers, release)
    /\ phase' = "step"
    /\ UNCHANGED <<clock, snaps, rollbacks>>

\* An external simulator reports the end of user t's leg, delay after the start
\* of the step and not before the leg began.
OnPPathCompleted(t, delay) ==
    /\ phase = "step" /\ t \in travelling
    /\ stepStart + delay >= all[t].dep
    /\ LET at == [u \in {t} |-> stepStart + delay] IN
          /\ all' = Advanced(all, {t}, at)
          /\ owned' = owned \cup ({t} \ Finished(all, {t}))
          /\ written' = ArrivalsWritten(written, {t}, at)
    /\ travelling' = travelling \ {t}
    /\ UNCHANGED <<next, journal, stepStart, clock, phase, snaps, rollbacks>>

EndStep ==
    /\ phase = "step"
    /\ phase' = "idle" /\ clock' = clock + Dt
    /\ UNCHANGED <<engineVars, stepStart, snaps, rollbacks>>

--------------------------------------------------------------------------------
(* Snapshots *)

Snapshot == [all |-> all, owned |-> owned, next |-> next, written |-> written,
             travelling |-> travelling, journal |-> journal, clock |-> clock]

\* Variant to test the properties with: the index into the demand is not restored.
RestoreUsersOnly(s) == all' = s.all /\ owned' = s.owned /\ UNCHANGED next

\* Variant to test the properties with: the waiting users are not restored.
RestoreAllOnly(s) == all' = s.all /\ next' = s.next /\ UNCHANGED owned

\* UserEngine::RestoreSnapshot.
RestoreEngine(s) == all' = s.all /\ owned' = s.owned /\ next' = s.next

\* Variant to test the properties with: the arrival times are left as they are.
RestoreNoPaths(s) == UNCHANGED written

\* UserPathWriting takes its map back.
RestorePaths(s) == written' = s.written

\* Back to snapshot s: engine, path writer, and the simulators and runner.
Restore(s) ==
    /\ RestoreEngine(s) /\ RestorePaths(s)
    /\ travelling' = s.travelling /\ journal' = s.journal /\ clock' = s.clock

AssignmentPeriodStart ==
    /\ phase = "idle" /\ snaps = <<>>
    /\ snaps' = <<Snapshot>>
    /\ UNCHANGED <<engineVars, stepStart, clock, phase, rollbacks>>

AssignmentPeriodEnded ==
    /\ phase = "idle" /\ Len(snaps) = 1 /\ clock > snaps[1].clock
    /\ snaps' = Append(snaps, Snapshot)
    /\ UNCHANGED <<engineVars, stepStart, clock, phase, rollbacks>>

AssignmentPeriodRollback ==
    /\ phase = "idle" /\ snaps # <<>> /\ clock > snaps[1].clock
    /\ rollbacks < MaxRollbacks
    /\ rollbacks' = rollbacks + 1
    /\ snaps' = IF Len(snaps) = 2 THEN <<snaps[1]>> ELSE snaps
    /\ Restore(snaps[1])
    /\ UNCHANGED <<stepStart, phase>>

AssignmentPeriodCommit ==
    /\ phase = "idle" /\ snaps # <<>> /\ clock > snaps[1].clock
    /\ IF Len(snaps) = 2 THEN Restore(snaps[2]) ELSE UNCHANGED <<engineVars, clock>>
    /\ snaps' = <<>>
    /\ UNCHANGED <<stepStart, phase, rollbacks>>

Next ==
    \/ Run \/ EndStep
    \/ \E t \in Trips, delay \in 0 .. MaxDelay : OnPPathCompleted(t, delay)
    \/ AssignmentPeriodStart \/ AssignmentPeriodEnded
    \/ AssignmentPeriodRollback \/ AssignmentPeriodCommit

Spec == Init /\ [][Next]_vars
--------------------------------------------------------------------------------
(* Properties *)

User == [plan : Plans, leg : Nat \ {0}, dep : Nat]

TypeOK ==
    /\ Known \subseteq Trips
    /\ \A t \in Known : all[t] \in User /\ all[t].leg <= Len(all[t].plan)
    /\ owned \subseteq Trips /\ travelling \subseteq Trips
    /\ next \in [Populations -> Nat \cup {-1}]
    /\ DOMAIN written \subseteq Trips
    /\ \A t \in DOMAIN written : written[t] \in [plan : Plans, arrivals : Seq(Nat)]
    /\ journal \in [Trips -> Seq(Nat)]
    /\ stepStart \in Nat /\ clock \in Nat /\ phase \in {"idle", "step"}
    /\ Len(snaps) <= 2 /\ rollbacks \in 0 .. MaxRollbacks

\* However many times the period was rolled back, each trip of the demand that
\* can be carried is activated once in the timeline that remains, at its time, and the legs of its
\* path are handed to the simulators one after the other, none skipped or redone.
LegsOnceInOrder ==
    \A t \in Trips :
        /\ \A k \in DOMAIN journal[t] : journal[t][k] = k
        /\ phase = "idle" =>
              (journal[t] # <<>> <=> t \notin Unroutable /\ Departure[t] < clock)

\* Nobody is lost or in two places: a user under way is either waiting for its
\* next leg in the engine or inside one simulator, which has been given exactly
\* the legs the engine counts; a user that is gone has completed its plan.
NobodyLost ==
    /\ owned \cap travelling = {}
    /\ owned \cup travelling = Known
    /\ \A t \in Known : Len(journal[t]) = all[t].leg - (IF t \in owned THEN 1 ELSE 0)
    /\ \A t \in Trips \ Known :
          journal[t] # <<>> => Len(journal[t]) = Len(written[t].plan)

\* The arrival times of the path writer follow the engine, through callbacks and
\* rollbacks: one for each leg completed, never decreasing, none before departure.
ArrivalsFollowLegs ==
    \A t \in Trips : journal[t] # <<>> =>
        /\ t \in DOMAIN written
        /\ LET a == written[t].arrivals IN
              /\ Len(a) = IF t \in Known THEN all[t].leg - 1 ELSE Len(written[t].plan)
              /\ \A k \in DOMAIN a : a[k] >= IF k = 1 THEN Departure[t] ELSE a[k - 1]

\* A user given back during a step waits at most one step for each leg already
\* done beyond the time its next leg should have started.
LatenessBounded ==
    phase = "idle" => \A t \in owned : all[t].dep >= clock - (all[t].leg - 1) * Dt
================================================================================
