----------------------------- MODULE SymuViaInstance -----------------------------
(***************************************************************************)
(* The first SymuVia instance of a SymuMaster run: the assignment period   *)
(* calls of SymuViaInstance on top of the snapshot stack, in the orders    *)
(* the runner makes them (RollingHorizon): an iteration starts, steps, may *)
(* keep the end of the assignment period on the way, and is then rolled    *)
(* back or, if its outputs were enabled, committed.                        *)
(***************************************************************************)
EXTENDS SimulationSnapshots

VARIABLES
    hasStart,   \* m_bHasStartPeriodSnapshot
    began,      \* the iteration has been started and not yet closed
    ended       \* AssignmentPeriodEnded was called in this iteration

vars == <<apiVars, hasStart, began, ended>>

InstanceInit == Init /\ hasStart = FALSE /\ began = FALSE /\ ended = FALSE

Unmoved == Len(hist) = Len(snaps[1].hist)

\* The XML rows are switched off in an iteration that is bound to be rolled back.
AssignmentPeriodStart(notFinal) ==
    /\ ~began /\ ~finished /\ Len(hist) < MaxSteps
    /\ notFinal => rollbacks < MaxRollbacks
    /\ trajOut' = ~notFinal
    /\ IF hasStart THEN UNCHANGED <<stackVars, hasStart>>
       ELSE TakeSimulationSnapshot /\ hasStart' = TRUE
    /\ began' = TRUE /\ ended' = FALSE

Step ==
    /\ began /\ TimeStep
    /\ UNCHANGED <<hasStart, began, ended>>

AssignmentPeriodEnded ==
    /\ began /\ ~ended /\ ~Unmoved
    /\ TakeSimulationSnapshot
    /\ ended' = TRUE
    /\ UNCHANGED <<trajOut, hasStart, began>>

AssignmentPeriodRollback ==
    /\ began /\ ~Unmoved
    /\ SimulationRollback(1)
    /\ began' = FALSE
    /\ UNCHANGED <<trajOut, hasStart, ended>>

\* Variant to test the properties with: the prediction beyond the assignment
\* period is committed too.
CommitAll == SimulationCommit /\ hasStart' = FALSE

\* Variant to test the properties with: the flag is reset in both cases.
CommitResettingFlag ==
    /\ IF ended THEN SimulationRollback(2) ELSE SimulationCommit
    /\ hasStart' = FALSE

\* With an end-of-assignment snapshot the period is committed by going back to
\* it; the flag stays, for that snapshot is the next period's starting one.
CommitCall ==
    IF ended THEN SimulationRollback(2) /\ UNCHANGED hasStart
             ELSE SimulationCommit /\ hasStart' = FALSE

AssignmentPeriodCommit ==
    /\ began /\ trajOut /\ ~Unmoved
    /\ CommitCall
    /\ began' = FALSE
    /\ UNCHANGED <<trajOut, ended>>

\* Terminate, at the end of a simulation that did not fail: between two periods.
Terminate ==
    /\ ~began
    /\ FinSimuTrafic
    /\ UNCHANGED <<hasStart, began, ended>>

InstanceNext ==
    \/ \E notFinal \in BOOLEAN : AssignmentPeriodStart(notFinal)
    \/ Step
    \/ AssignmentPeriodEnded
    \/ AssignmentPeriodRollback
    \/ AssignmentPeriodCommit
    \/ Terminate

InstanceSpec == InstanceInit /\ [][InstanceNext]_vars
--------------------------------------------------------------------------------
(* Properties *)

\* Between two periods the main files hold every step of the committed
\* simulation exactly once, in order, with nothing of the iterations that were
\* rolled back nor of the prediction beyond the assignment period, although
\* the XML rows of most of those were switched off and their CSV rows were not.
OutputsCommitted ==
    ~began /\ (snaps = <<>> \/ hist = snaps[1].hist) =>
        /\ xmlMain = hist
        /\ csvMain = hist

\* The call that goes back to the end of the assignment period finds it at the
\* second place, and the flag tells the truth about the first.
SnapshotsInPlace ==
    /\ hasStart <=> snaps # <<>>
    /\ began => Len(snaps) = IF ended THEN 2 ELSE 1
    /\ \A i \in DOMAIN snaps : IsPrefix(snaps[i].hist, hist)
===================================================================================
