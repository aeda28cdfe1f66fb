----------------------------- MODULE RollingHorizon -----------------------------
(***************************************************************************)
(* The rolling-horizon loop of SymuMaster (SimulationRunner) with the      *)
(* participants it drives: the instances of every traffic simulator, and   *)
(* the user engine and path writer of each instance.                       *)
(*                                                                         *)
(* An assignment period is simulated up to the end of a longer prediction  *)
(* period, again and again, until the assignment model is satisfied; then  *)
(* the state at the END OF THE ASSIGNMENT PERIOD is committed and the rest *)
(* is thrown away.  Several assignments may be tried in parallel threads   *)
(* (one per instance) and in several batches.  Everything rests on the     *)
(* snapshots each participant keeps for itself being taken, restored and   *)
(* dropped at the same instants.                                           *)
(*                                                                         *)
(* The state of a participant is abstracted to its history: the sequence   *)
(* of the steps it has simulated, each with the runner's time for it, the  *)
(* assignment it ran under and whether trajectories were being output.  A  *)
(* simulator's own clock is the length of its history times Dt.            *)
(***************************************************************************)
EXTENDS Integers, Sequences

CONSTANTS
    EndTime, Dt, AssignLen, PredLen, TTUpdate,  \* durations, in clock ticks
    NSims,           \* number of simulator handlers (TraficSimulators)
    ModelMax,        \* GetMaxSimulationInstancesNumber()
    MaxParallel,     \* max_parallel_simulations_nb
    NeedsParallel,   \* NeedsParallelSimulationInstances()
    ExtraIteration,  \* DoExtraIterationToProduceOutputs() and a simulator wants it
    FailingCalls,    \* the calls that may return false
    MaxRollbacks     \* bound: iterations after which the model stops asking for more

CallNames == {"needed", "start", "rollback", "assign", "step", "snapshot", "costs",
              "done", "decide", "write", "commit"}

ASSUME DurationsAssumption ==
    /\ {EndTime, Dt, AssignLen, PredLen, TTUpdate} \subseteq Nat \ {0}
    /\ Dt <= EndTime

ASSUME InstancesAssumption ==
    /\ {NSims, ModelMax, MaxParallel} \subseteq Nat \ {0}
    /\ NeedsParallel \in BOOLEAN /\ ExtraIteration \in BOOLEAN
    /\ ~NeedsParallel => ModelMax = 1
    /\ FailingCalls \subseteq CallNames
    /\ MaxRollbacks \in Nat

--------------------------------------------------------------------------------
(* Derived constants *)

MinOf(a, b) == IF a < b THEN a ELSE b
CeilDiv(a, b) == (a + b - 1) \div b

NInst == MinOf(IF NeedsParallel THEN MaxParallel ELSE 1, ModelMax)
Instances == 0 .. NInst - 1
Sims == 1 .. NSims
Users == {"engine", "pathWriter"}

NPeriods == CeilDiv(EndTime, AssignLen)
RedoLastIteration == ExtraIteration \/ NeedsParallel

\* One candidate assignment: the period and iteration it was computed in and
\* the global simulation instance it is for; ModelMax stands for the model's
\* final solution, applied to every instance when an iteration is redone.
Assignments == (0 .. NPeriods) \X (0 .. MaxRollbacks) \X (0 .. ModelMax)

VARIABLES
    period,     \* m_iAssignmentPeriodIndex
    clock,      \* m_currentTime
    start,      \* startPeriodTime of the current iteration
    iteration,  \* iCurrentPeriodIteration
    redoing,    \* bIsRedoingLastIteration
    trajOff,    \* m_bDisableTrajectoriesOutput of the first SymuVia instance
    nb,         \* nbSimulationInstances
    batch,      \* iBatch
    joined,     \* how many threads of the batch have been joined
    ended,      \* bGlobalAssignmentPeriodEnded
    ok,         \* bOk
    pc,         \* where the runner is
    asg,        \* the assignment held by the trips for each instance
    thr,        \* the SimulationThread of each instance
    sim,        \* state of each simulator instance
    user        \* state of the user engine and path writer of each instance

runnerVars == <<period, clock, start, iteration, redoing, trajOff, nb, batch, joined,
                ended, ok, pc, asg>>
partVars == <<sim, user>>
vars == <<period, clock, start, iteration, redoing, trajOff, nb, batch, joined,
          ended, ok, pc, asg, thr, sim, user>>

Stopped == {"ended", "failed"}

\* The times of RunNextAssignmentPeriod, all computed from the period's start.
EndPeriod == MinOf(start + PredLen, EndTime)
EndAssign == MinOf(start + AssignLen, EndTime)
\* Variant to test the properties with: a last, shorter update period is forgotten.
NbUpdatesFloor == MinOf(PredLen \div TTUpdate, (EndPeriod - start) \div TTUpdate)

NbUpdates == MinOf(CeilDiv(PredLen, TTUpdate), CeilDiv(EndPeriod - start, TTUpdate))

NbBatches == CeilDiv(nb, MaxParallel)

\* Variant to test the properties with: no correction of an exact division.
LastBatchSizeRaw == nb % MaxParallel

LastBatchSize == IF nb % MaxParallel = 0 THEN MaxParallel ELSE nb % MaxParallel
ParallelSize == IF NbBatches > 1 THEN MaxParallel ELSE LastBatchSize
BatchSize == IF batch = NbBatches - 1 THEN LastBatchSize ELSE ParallelSize

\* Variant to test the properties with: the offset already counts the current batch.
OffsetTooFar == (batch + 1) * ParallelSize

Offset == batch * ParallelSize

--------------------------------------------------------------------------------
(* Snapshots of one participant *)

TakeSnapshot(r) == [r EXCEPT !.snaps = Append(@, r.log)]

\* Variant to test the properties with: later snapshots are not dropped.
RestoreOnly(r, k) == [r EXCEPT !.log = r.snaps[k]]

\* Restore snapshot k (from 1) and keep it as the only one.
RestoreTo(r, k) == [r EXCEPT !.log = r.snaps[k], !.snaps = <<r.snaps[k]>>]

SimStart(r) ==
    IF r.flag THEN r ELSE [TakeSnapshot(r) EXCEPT !.flag = TRUE]

SimRollback(r) == RestoreTo(r, 1)

SimCommit(r) ==
    IF ended THEN RestoreTo(r, 2)
             ELSE [r EXCEPT !.flag = FALSE, !.snaps = <<>>]

UserStart(r) == IF r.snaps = <<>> THEN TakeSnapshot(r) ELSE r

UserRollback(r) == RestoreTo(r, 1)

\* Variant to test the properties with: the end-of-assignment state is not restored.
UserForget(r) == [r EXCEPT !.snaps = <<>>]

UserCommit(r) ==
    [r EXCEPT !.log = IF Len(r.snaps) = 2 THEN r.snaps[2] ELSE r.log,
              !.snaps = <<>>]

--------------------------------------------------------------------------------
(* Fan-out of one call to the participants *)

\* The instances an AssignmentPeriod call with n instances goes to, and those of
\* every simulator among them.
Local(n) == {i \in Instances : i < n}
Called(n) == Sims \X Local(n)

\* The calls go simulator by simulator, then instance by instance, and stop at
\* the first that returns false: those made when the call at f is the one.
Before(n, f) == {c \in Called(n) : c[1] < f[1] \/ (c[1] = f[1] /\ c[2] < f[2])}

OnSims(Op(_), called) ==
    [s \in Sims |-> [i \in Instances |->
        IF <<s, i>> \in called THEN Op(sim[s][i]) ELSE sim[s][i]]]

OnUsers(Op(_), instances) ==
    [u \in Users |-> [i \in Instances |->
        IF i \in instances THEN Op(user[u][i]) ELSE user[u][i]]]

\* Call Op of every simulator instance below n; res tells whether all succeeded.
CallSims(name, Op(_), n, res) ==
    \/ res /\ sim' = OnSims(Op, Called(n))
    \/ /\ ~res /\ name \in FailingCalls
       /\ \E f \in Called(n) : sim' = OnSims(Op, Before(n, f))

--------------------------------------------------------------------------------
IdleThread == [pc |-> "idle", time |-> 0, ended |-> FALSE, ok |-> TRUE,
               sub |-> 0, from |-> 0]

Init ==
    /\ period = 0 /\ clock = 0 /\ start = 0 /\ iteration = 0
    /\ redoing = FALSE /\ trajOff = FALSE
    /\ nb = 1 /\ batch = 0 /\ joined = 0 /\ ended = FALSE /\ ok = TRUE
    /\ pc = "iteration"
    /\ asg = [i \in Instances |-> <<0, 0, 0>>]
    /\ thr = [i \in Instances |-> IdleThread]
    /\ sim = [s \in Sims |-> [i \in Instances |->
                 [log |-> <<>>, snaps |-> <<>>, flag |-> FALSE]]]
    /\ user = [u \in Users |-> [i \in Instances |-> [log |-> <<>>, snaps |-> <<>>]]]

\* A bOk that turned false leaves RunNextAssignmentPeriod, and Execute with it.
Goto(label, res) == pc' = IF res THEN label ELSE "failed"

--------------------------------------------------------------------------------
(* The runner *)

\* Variant to test the properties with: outputs stay off when redoing.
OutputsAlwaysOff == RedoLastIteration

\* SymDisableTrajectoriesOutput: outputs only in the iteration to be committed.
OutputsOff == RedoLastIteration /\ ~redoing

\* Head of the iteration loop: the model is asked how many instances it needs
\* (all of them when redoing), and every participant keeps its starting state.
StartIteration ==
    /\ pc = "iteration"
    /\ start' = clock
    /\ nb' \in IF redoing THEN {ModelMax} ELSE 1 .. ModelMax
    /\ trajOff' = OutputsOff
    /\ \E res \in BOOLEAN :
          /\ CallSims("start", SimStart, nb', res)
          /\ Goto("batch", res)
          /\ ok' = res
    /\ user' = OnUsers(UserStart, Local(nb'))
    /\ batch' = 0 /\ joined' = 0 /\ ended' = FALSE
    /\ UNCHANGED <<period, clock, iteration, redoing, asg, thr>>

\* GetNeededSimulationInstancesNumber may fail: nothing has been started yet.
NeededFails ==
    /\ pc = "iteration" /\ ~redoing /\ "needed" \in FailingCalls
    /\ pc' = "failed" /\ ok' = FALSE /\ start' = clock
    /\ UNCHANGED <<period, clock, iteration, redoing, trajOff, nb, batch, joined, ended,
                   asg, thr, sim, user>>

\* The trips get the paths of this batch's instances.  A redone iteration keeps
\* the last paths, unless instances ran in parallel: then all of them get the
\* final solution.
NewAssignments ==
    [i \in Instances |->
        IF i >= BatchSize \/ (redoing /\ ~NeedsParallel) THEN asg[i]
        ELSE <<period, iteration, IF redoing THEN ModelMax ELSE Offset + i>>]

\* Body of the batch loop up to the creation of the threads.  The result of the
\* rollback between two batches is not looked at.
StartBatch ==
    /\ pc = "batch"
    /\ IF batch # 0
          THEN /\ \E res \in BOOLEAN : CallSims("rollback", SimRollback, nb, res)
               /\ user' = OnUsers(UserRollback, Local(nb))
          ELSE UNCHANGED partVars
    /\ \/ /\ asg' = NewAssignments
          /\ thr' = [i \in Instances |->
                        IF i < BatchSize
                        THEN [IdleThread EXCEPT !.pc = "run", !.time = start, !.from = start]
                        ELSE IdleThread]
          /\ pc' = "join" /\ joined' = 0
          /\ UNCHANGED ok
       \/ /\ "assign" \in FailingCalls
          /\ pc' = "failed" /\ ok' = FALSE
          /\ UNCHANGED <<asg, thr, joined>>
    /\ UNCHANGED <<period, clock, start, iteration, redoing, trajOff, nb, batch, ended>>

\* The runner joins the threads in order; one that failed, or a failure while
\* its results are merged and written, makes the runner skip the others'
\* results, but it still waits for them all.
Join ==
    /\ pc = "join" /\ joined < BatchSize
    /\ thr[joined].pc = "done"
    /\ LET t == thr[joined] IN
          IF ok /\ t.ok
          THEN /\ ok' \in {TRUE} \cup (IF "done" \in FailingCalls THEN {FALSE} ELSE {})
               /\ clock' = t.time
               /\ ended' = (ended \/ t.ended)
          ELSE ok' = FALSE /\ UNCHANGED <<clock, ended>>
    /\ joined' = joined + 1
    /\ thr' = [thr EXCEPT ![joined] = IdleThread]
    /\ IF joined' = BatchSize
       THEN Goto(IF redoing \/ batch + 1 = NbBatches THEN "decide" ELSE "batch", ok')
            /\ batch' = batch + 1
       ELSE UNCHANGED <<pc, batch>>
    /\ UNCHANGED <<period, start, iteration, redoing, trajOff, nb, asg, sim, user>>

\* Variant to test the properties with: the runner's clock is not reset.
RollbackKeepingClock ==
    /\ \E res \in BOOLEAN :
          /\ CallSims("rollback", SimRollback, nb, res)
          /\ Goto("iteration", res)
          /\ ok' = res
    /\ user' = OnUsers(UserRollback, Local(nb))
    /\ UNCHANGED clock

\* Every participant that was started goes back to the start of the period.
RollbackAll ==
    /\ \E res \in BOOLEAN :
          /\ CallSims("rollback", SimRollback, nb, res)
          /\ Goto("iteration", res)
          /\ ok' = res
    /\ user' = OnUsers(UserRollback, Local(nb))
    /\ clock' = start

\* IsRollbackNeeded() = true: try again with another assignment.
RollbackIteration ==
    /\ pc = "decide" /\ ~redoing
    /\ iteration < MaxRollbacks
    /\ RollbackAll
    /\ iteration' = iteration + 1
    /\ UNCHANGED <<period, start, redoing, trajOff, nb, batch, joined, ended, asg, thr>>

\* Satisfied, but the outputs or the other instances need one more run.
RedoIteration ==
    /\ pc = "decide" /\ ~redoing /\ RedoLastIteration
    /\ RollbackAll
    /\ redoing' = TRUE
    /\ UNCHANGED <<period, start, iteration, trajOff, nb, batch, joined, ended, asg, thr>>

\* The last costs and paths are written, then the simulators commit.  The users
\* commit on every instance and the period advances whatever that gave.
CommitPeriod ==
    /\ pc = "decide" /\ (redoing \/ ~RedoLastIteration)
    /\ \E res \in BOOLEAN :
          /\ \/ CallSims("commit", SimCommit, nb, res)
             \/ ~res /\ "write" \in FailingCalls /\ UNCHANGED sim
          /\ Goto(IF period + 1 >= NPeriods THEN "ended" ELSE "iteration", res)
          /\ ok' = res
    /\ user' = OnUsers(UserCommit, Instances)
    /\ redoing' = FALSE /\ iteration' = 0
    /\ clock' = EndAssign
    /\ period' = period + 1
    /\ UNCHANGED <<start, trajOff, nb, batch, joined, ended, asg, thr>>

\* IsRollbackNeeded() itself failed; it is not asked about a redone iteration.
DecideFails ==
    /\ pc = "decide" /\ ~redoing /\ "decide" \in FailingCalls
    /\ pc' = "failed" /\ ok' = FALSE
    /\ UNCHANGED <<period, clock, start, iteration, redoing, trajOff, nb, batch, joined,
                   ended, asg, thr, sim, user>>

--------------------------------------------------------------------------------
(* The thread of instance i: SimulationThread::run *)

WindowEnd(i) == MinOf(thr[i].from + TTUpdate, EndPeriod)
InWindow(i) == thr[i].pc = "run" /\ thr[i].time < WindowEnd(i)
\* Variant to test the properties with: one step too early.
SnapshotEarly(i) == ~thr[i].ended /\ thr[i].time + Dt >= EndAssign

SnapshotDue(i) == ~thr[i].ended /\ thr[i].time + Dt > EndAssign

\* This instance of every participant, the simulators below f only.
SimsOf(i, f) == {c \in Sims \X {i} : c[1] < f}

Abort(i) == [thr[i] EXCEPT !.pc = "done", !.ok = FALSE]

\* AssignmentPeriodEnded: the next step would go past the assignment period.
TakeEndSnapshot(i) ==
    /\ InWindow(i) /\ SnapshotDue(i)
    /\ \/ /\ sim' = OnSims(TakeSnapshot, SimsOf(i, NSims + 1))
          /\ user' = OnUsers(TakeSnapshot, {i})
          /\ thr' = [thr EXCEPT ![i].ended = TRUE]
       \/ /\ "snapshot" \in FailingCalls
          /\ \E f \in Sims : sim' = OnSims(TakeSnapshot, SimsOf(i, f))
          /\ thr' = [thr EXCEPT ![i] = [Abort(i) EXCEPT !.ended = TRUE]]
          /\ UNCHANGED user
    /\ UNCHANGED runnerVars

\* TraficSimulators::Step: the user engine activates the users of the step, then
\* the simulators advance, up to the first failure (f = 0: the engine's).
StepInstance(i) ==
    /\ InWindow(i) /\ ~SnapshotDue(i)
    /\ LET Advance(r) == [r EXCEPT !.log = Append(@,
                             [at |-> thr[i].time, asg |-> asg[i], out |-> ~trajOff])]
       IN \/ /\ sim' = OnSims(Advance, SimsOf(i, NSims + 1))
             /\ user' = OnUsers(Advance, {i})
             /\ thr' = [thr EXCEPT ![i].time = @ + Dt]
          \/ /\ "step" \in FailingCalls
             /\ \E f \in 0 .. NSims :
                   /\ sim' = OnSims(Advance, SimsOf(i, f))
                   /\ user' = OnUsers(Advance, IF f = 0 THEN {} ELSE {i})
             /\ thr' = [thr EXCEPT ![i] = [Abort(i) EXCEPT !.time = @ + Dt]]
    /\ UNCHANGED runnerVars

\* The thread goes on with the next update period, or has done the last one.
NextUpdate(i) ==
    [thr[i] EXCEPT !.sub = @ + 1, !.from = thr[i].time,
                   !.pc = IF thr[i].sub + 1 = NbUpdates THEN "done" ELSE "run"]

\* ComputeCosts at the end of a travel time update period.
ComputeCosts(i) ==
    /\ thr[i].pc = "run" /\ thr[i].time >= WindowEnd(i)
    /\ \/ thr' = [thr EXCEPT ![i] = NextUpdate(i)]
       \/ "costs" \in FailingCalls /\ thr' = [thr EXCEPT ![i] = Abort(i)]
    /\ UNCHANGED <<runnerVars, sim, user>>

--------------------------------------------------------------------------------
Thread(i) == TakeEndSnapshot(i) \/ StepInstance(i) \/ ComputeCosts(i)

Runner ==
    \/ StartIteration \/ NeededFails \/ StartBatch \/ Join
    \/ RollbackIteration \/ RedoIteration \/ CommitPeriod \/ DecideFails

\* The run is over: the process leaves the loop.
Finished == pc \in Stopped /\ UNCHANGED vars

Next == Runner \/ (\E i \in Instances : Thread(i)) \/ Finished

Spec == Init /\ [][Next]_vars

\* The runner and the threads are scheduled by the operating system, and none
\* of them waits for anything but the thread the runner joins.
Fairness == WF_vars(Runner) /\ \A i \in Instances : WF_vars(Thread(i))

FairSpec == Spec /\ Fairness
--------------------------------------------------------------------------------
(* Properties *)

Histories == Seq([at : Int, asg : Assignments, out : BOOLEAN])

TypeOK ==
    /\ period \in 0 .. NPeriods /\ clock \in Nat /\ start \in Nat
    /\ iteration \in 0 .. MaxRollbacks
    /\ redoing \in BOOLEAN /\ trajOff \in BOOLEAN /\ ended \in BOOLEAN /\ ok \in BOOLEAN
    /\ nb \in 1 .. ModelMax /\ batch \in Nat /\ joined \in 0 .. NInst
    /\ pc \in {"iteration", "batch", "join", "decide"} \cup Stopped
    /\ asg \in [Instances -> Assignments]
    /\ thr \in [Instances -> [pc : {"idle", "run", "done"}, time : Nat, ended : BOOLEAN,
                              ok : BOOLEAN, sub : Nat, from : Nat]]
    /\ sim \in [Sims -> [Instances ->
                   [log : Histories, snaps : Seq(Histories), flag : BOOLEAN]]]
    /\ user \in [Users -> [Instances -> [log : Histories, snaps : Seq(Histories)]]]

\* The state a participant would go back to: the start of the current period.
Base(r) == IF r.snaps = <<>> THEN r.log ELSE r.snaps[1]

\* What has been committed so far, as the first simulator instance sees it.
Timeline == Base(sim[1][0])

\* The runner is about to commit.
CommitDue == pc = "decide" /\ (redoing \/ ~RedoLastIteration)

\* No participant ever keeps more than the start-of-period and end-of-assignment
\* snapshots, a simulator's m_bHasStartPeriodSnapshot says truly whether it has
\* one, and when the runner commits every instance of every simulator and user
\* engine has exactly the snapshots the commit will index: two if the
\* assignment period ended before the prediction, one otherwise.
SnapshotDiscipline ==
    /\ \A s \in Sims, i \in Instances :
          /\ sim[s][i].flag <=> sim[s][i].snaps # <<>>
          /\ Len(sim[s][i].snaps) <= 2
    /\ \A u \in Users, i \in Instances : Len(user[u][i].snaps) <= 2
    /\ CommitDue => \A i \in Instances :
          /\ \A s \in Sims : Len(sim[s][i].snaps) = IF ended THEN 2 ELSE 1
          /\ \A u \in Users : Len(user[u][i].snaps) = IF ended THEN 2 ELSE 1

\* Whatever was tried, rolled back or redone, and however many instances each
\* iteration used, all the simulator instances, user engines and path writers
\* agree on where the current period started: they are one simulation.
OneTimeline ==
    pc # "failed" =>
        \A i \in Instances :
            /\ \A s \in Sims : Base(sim[s][i]) = Timeline
            /\ \A u \in Users : Base(user[u][i]) = Timeline

\* The time the runner passes to Step is the simulator's own clock: no step is
\* simulated twice, none is missing, in any history, committed or not.
ClocksAgree ==
    \A i \in Instances :
        /\ \A s \in Sims : \A k \in DOMAIN sim[s][i].log :
              sim[s][i].log[k].at = (k - 1) * Dt
        /\ \A u \in Users : \A k \in DOMAIN user[u][i].log :
              user[u][i].log[k].at = (k - 1) * Dt

\* Between two periods each simulator stands at the runner's clock, which is the
\* end of the periods done: the rest of the prediction has been thrown away.
CommittedUpToClock ==
    pc = "iteration" /\ iteration = 0 /\ ~redoing =>
        /\ clock = MinOf(period * AssignLen, EndTime)
        /\ \A s \in Sims, i \in Instances : Len(sim[s][i].log) * Dt = clock

\* Before the model decides, the costs it decides on cover the whole prediction
\* period: every thread that succeeded went up to the end of it, update period
\* by update period.
WholeHorizonSimulated ==
    \A i \in Instances :
        thr[i].pc = "done" /\ thr[i].ok => thr[i].time >= EndPeriod /\ thr[i].from = thr[i].time

\* After a simulator failed to go back to the start of the period, no thread
\* simulates from there ("we have to rollback between each batch").
BatchStartsFromBase ==
    pc = "join" => \A i \in Instances : thr[i].pc = "run" /\ thr[i].time = start =>
        \A s \in Sims : sim[s][i].log = Base(sim[s][i])

\* The run ends: the assignment model stops asking for iterations, the threads
\* terminate, and the last period is reached, unless a call fails before.
RunEnds == <>(pc \in Stopped)

\* A run with its retries and batches is a run of the abstract timeline.
Abstract == INSTANCE CommittedTimeline WITH
                timeline <- Timeline,
                status <- IF pc \in Stopped THEN pc ELSE "running"

ImplementsTimeline == Abstract!Spec
================================================================================
