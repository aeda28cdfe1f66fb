---------------------------- MODULE CommittedTimeline ----------------------------
(***************************************************************************)
(* What a SymuMaster run promises, whatever the assignment model tries on  *)
(* the way: the simulated timeline is a sequence of time steps without gap *)
(* or overlap; it grows by whole assignment periods, each simulated under  *)
(* ONE assignment and with the outputs enabled; nothing committed is ever  *)
(* taken back; the run stops at the end of the simulation or on an error.  *)
(***************************************************************************)
EXTENDS Integers, Sequences

CONSTANTS
    EndTime,      \* ticks from the start to the end of the simulation
    Dt,           \* ticks of the longest time step of the simulators
    AssignLen,    \* ticks of an assignment period
    Assignments   \* the assignments a model can propose

VARIABLES
    timeline,     \* the committed steps
    status        \* "running", "ended" or "failed"

avars == <<timeline, status>>

Reached == Len(timeline) * Dt

\* The end of the assignment period that starts at time t.
PeriodEnd(t) == IF t + AssignLen < EndTime THEN t + AssignLen ELSE EndTime

\* The steps of one assignment period starting at t, all under assignment a.
Segment(t, a) ==
    [k \in 1 .. ((PeriodEnd(t) - t) \div Dt) |->
        [at |-> t + (k - 1) * Dt, asg |-> a, out |-> TRUE]]

Init == timeline = <<>> /\ status = "running"

CommitPeriod ==
    /\ status = "running"
    /\ \E a \in Assignments : timeline' = timeline \o Segment(Reached, a)
    /\ \/ status' = IF Len(timeline') * Dt >= EndTime THEN "ended" ELSE "running"
       \/ status' = "failed"      \* a later participant could not commit

Fail ==
    /\ status = "running"
    /\ status' = "failed"
    /\ UNCHANGED timeline

Next == CommitPeriod \/ Fail

Spec == Init /\ [][Next]_avars
==================================================================================
