-------------------------------- MODULE DualLoop --------------------------------
(***************************************************************************)
(* The control of the assignment model MSADualLoop, which decides whether  *)
(* the runner goes back to the start of the period: an outer loop looks    *)
(* for new shortest paths, an inner loop shifts trips between the known    *)
(* paths, and the best assignment met is kept and simulated again before   *)
(* the loop moves on.                                                      *)
(*                                                                         *)
(* An assignment is abstracted to its gap, the distance to equilibrium     *)
(* measured after simulating it, and to whether it is the one saved as the *)
(* best.  The simulation is deterministic (a snapshot holds the state of   *)
(* the random generator): the same assignment has the same gap until new   *)
(* paths are found.  Swap sizes, costs and paths are choices.              *)
(***************************************************************************)
EXTENDS Integers

CONSTANTS
    MaxInner,      \* max_innerloop_iterations
    MaxOuter,      \* max_outerloop_iterations
    MaxTotal,      \* max_iterations_number, -1 when it is not given
    UseInitialization,  \* is_initialization
    OuterTests,    \* the convergence tests of the outer loop considered
    GapThreshold,  \* max_gap_threshold_outerloop
    RelativePercent,  \* max_relative_gap_difference_outerloop
    MaxGap,        \* bound: gaps are 0 .. MaxGap
    NPeriods       \* bound: assignment periods

ASSUME DualLoopAssumption ==
    /\ {MaxInner, MaxOuter, GapThreshold, RelativePercent, MaxGap, NPeriods} \subseteq Nat
    /\ MaxTotal \in Nat \cup {-1}
    /\ UseInitialization \in BOOLEAN
    /\ OuterTests \subseteq {"threshold", "relative", "cost"}

Gaps == 0 .. MaxGap
Infinity == MaxGap + 1

VARIABLES
    test,        \* the convergence test of the outer loop in use
    period, iter,   \* the runner's period and iCurrentPeriodIteration
    pc,          \* "assign", "decide", "done" (no rollback needed) or "failed"
    inner,       \* m_iInnerloopIndex
    outer,       \* m_iOuterloopIndex
    best,        \* m_dbBestQuality
    change,      \* m_bChangeAssignment
    changeInit,  \* m_bChangeInitialization
    prevOuter,   \* m_dbPreviousOuterLoopGap
    trips,       \* "best" when the trips hold the saved assignment, else "other"
    gap,         \* the gap of the assignment the trips hold
    lowest,      \* the lowest gap simulated since new paths were found
    verdict      \* the two outer gaps that were found close enough to stop, if any

modelVars == <<inner, outer, best, change, changeInit, prevOuter>>
tripVars == <<trips, gap, lowest, verdict>>
vars == <<test, period, iter, pc, modelVars, tripVars>>

Lower(a, b) == IF a < b THEN a ELSE b

Init ==
    /\ test \in OuterTests
    /\ period = 0 /\ iter = 0 /\ pc = "assign"
    /\ inner = 0 /\ outer = 0 /\ best = Infinity
    /\ change = FALSE /\ changeInit = FALSE /\ prevOuter = Infinity
    /\ trips = "other" /\ gap = Infinity /\ lowest = Infinity /\ verdict = <<>>

--------------------------------------------------------------------------------
(* AssignPathsToTrips, and the simulation of the result *)

\* The first assignment of a period: its gap is measured by the outer loop.
AssignFirstPaths ==
    /\ pc = "assign" /\ ~change /\ iter = 0
    /\ inner' = 0 /\ outer' = 0 /\ best' = Infinity
    /\ trips' = "other" /\ gap' = Infinity /\ lowest' = Infinity
    /\ pc' = "decide"
    /\ UNCHANGED <<test, period, iter, change, changeInit, prevOuter, verdict>>

\* Some trips are moved to other paths.
SwapTrips ==
    /\ pc = "assign" /\ ~change /\ iter # 0
    /\ \E g \in Gaps : gap' = g /\ lowest' = Lower(lowest, g)
    /\ trips' = "other"
    /\ pc' = "decide"
    /\ UNCHANGED <<test, period, iter, modelVars, verdict>>

\* The best assignment is simulated again (or the one just initialised, as it
\* is); the iteration does not count.
SimulateAgain ==
    /\ pc = "assign" /\ change
    /\ IF changeInit THEN UNCHANGED <<trips, gap>>
                     ELSE trips' = "best" /\ gap' = best
    /\ iter' = iter - 1
    /\ pc' = "decide"
    /\ UNCHANGED <<test, period, modelVars, lowest, verdict>>

\* No path was found for the first assignment.
AssignFails ==
    /\ pc = "assign" /\ ~change /\ iter = 0
    /\ pc' = "failed"
    /\ UNCHANGED <<test, period, iter, modelVars, tripVars>>

--------------------------------------------------------------------------------
(* IsRollbackNeeded *)

\* Variant to test the properties with: the total number of iterations is not looked at.
StopsFreely == BOOLEAN

\* MaximumSwappingReached: no more iterations allowed, or too few trips to move.
Stops == IF MaxTotal # -1 /\ iter >= MaxTotal THEN {TRUE} ELSE BOOLEAN

\* The inner index once that is known.
InnerAt(stop) == IF stop /\ ~change THEN MaxInner ELSE inner

\* Variant to test the properties with: the last inner iteration is not special.
GivesUpWhenConverged(i, converged) == gap >= best /\ converged

\* KeepBestAssignment chooses to go back to the saved assignment.
GivesUp(i, converged) == gap >= best /\ (i = MaxInner - 1 \/ converged)

\* KeepBestAssignment is called, or the assignment is one simulated again.
Compared == iter # 0 /\ ~change
GoesBack(stop) == Compared /\ GivesUp(InnerAt(stop), stop)

BestKept == IF Compared /\ gap < best THEN gap ELSE best
TripsKept == IF Compared /\ gap < best THEN "best" ELSE trips

Again == pc' = "assign" /\ iter' = iter + 1

\* The assignment is no better than the saved one, which is to be simulated again.
RetryBest(stop) ==
    /\ pc = "decide" /\ GoesBack(stop)
    /\ change' = TRUE /\ inner' = InnerAt(stop)
    /\ Again
    /\ UNCHANGED <<test, period, outer, best, changeInit, prevOuter, tripVars>>

InInner == pc = "decide" /\ iter # 0 /\ ~GoesBack(FALSE) /\ inner < MaxInner

\* Decision: the inner loop has not converged.
NextInner ==
    /\ InInner /\ inner + 1 < MaxInner
    /\ inner' = inner + 1
    /\ best' = BestKept /\ trips' = TripsKept /\ change' = FALSE
    /\ Again
    /\ UNCHANGED <<test, period, outer, changeInit, prevOuter, gap, lowest, verdict>>

\* Variant to test the properties with: the inner loop is not closed.
InnerLeft == inner

InnerClosed == MaxInner

\* The inner loop has converged: the assignment has just been kept, so it is not
\* better than the best, and is simulated once more.
ConfirmBest ==
    /\ InInner
    /\ inner' = InnerClosed
    /\ best' = BestKept /\ trips' = TripsKept /\ change' = TRUE
    /\ Again
    /\ UNCHANGED <<test, period, outer, changeInit, prevOuter, gap, lowest, verdict>>

\* The inner loop is over, or has not started, and with it the decision whether
\* to stop.
AtOuter(stop) ==
    /\ pc = "decide" /\ ~GoesBack(stop)
    /\ stop \/ iter = 0 \/ inner + 1 >= MaxInner

\* Variant to test the properties with: the index goes on past the maximum.
InnerPast(stop) == inner + 1

InnerEnd(stop) == IF ~stop /\ iter # 0 /\ inner < MaxInner THEN MaxInner ELSE InnerAt(stop)

\* The verdicts of the convergence test on outer gap g.  The relative test
\* compares the previous gap with itself.
Converged(g) ==
    IF test = "cost" THEN BOOLEAN
    ELSE IF test = "relative" /\ iter # 0 THEN {TRUE}
    ELSE {g <= GapThreshold}

\* IsOuterLoopIterationNeeded; a first assignment may turn out to have no trips.
Needed(g, hasNew) ==
    (IF hasNew THEN {TRUE} ELSE {~c : c \in Converged(g)}) \cup (IF iter = 0 THEN {FALSE} ELSE {})

\* The gap measured against the shortest paths just computed: another one only
\* if some of them are new.
OuterGaps(hasNew) == IF hasNew \/ iter = 0 THEN Gaps ELSE {gap}

\* What holds at the outer loop before it moves on, g being the gap to the
\* shortest paths just computed.
BestAtOuter(g) == IF iter = 0 THEN g ELSE BestKept
TripsAtOuter == IF iter = 0 THEN "best" ELSE TripsKept

InitializationDue == UseInitialization /\ ~changeInit /\ outer > 0

\* All the trips go to the initial paths, whatever was best.
Initialization ==
    /\ AtOuter(FALSE) /\ InitializationDue
    /\ \E hasNew \in BOOLEAN : \E g \in OuterGaps(hasNew) :
          TRUE \in Needed(g, hasNew) /\ prevOuter' = g
    /\ inner' = InnerEnd(FALSE)
    /\ best' = BestKept /\ change' = TRUE /\ changeInit' = TRUE
    /\ \E g \in Gaps : gap' = g /\ lowest' = Lower(lowest, g)
    /\ trips' = "other"
    /\ Again
    /\ UNCHANGED <<test, period, outer, verdict>>

\* One more outer loop, unless the maximum is reached.  New paths make the gap
\* of the assignment in place the one to improve.
NextOuter ==
    /\ AtOuter(FALSE) /\ ~InitializationDue
    /\ \E hasNew \in BOOLEAN : \E g \in OuterGaps(hasNew) :
          LET new == hasNew \/ iter = 0 IN
          /\ TRUE \in Needed(g, hasNew)
          /\ best' = IF hasNew THEN g ELSE BestAtOuter(g)
          /\ gap' = IF new THEN g ELSE gap
          /\ lowest' = IF new THEN g ELSE lowest
          /\ prevOuter' = IF outer + 1 > MaxOuter THEN Infinity ELSE g
    /\ trips' = TripsAtOuter
    /\ change' = FALSE /\ changeInit' = FALSE
    /\ inner' = 0 /\ outer' = outer + 1
    /\ IF outer + 1 > MaxOuter THEN pc' = "done" /\ UNCHANGED iter ELSE Again
    /\ UNCHANGED <<test, period, verdict>>

\* Convergence, or nothing left to move: the period can be committed.
Stop(stop) ==
    /\ AtOuter(stop)
    /\ \E hasNew \in BOOLEAN : \E g \in OuterGaps(hasNew) :
          /\ stop \/ FALSE \in Needed(g, hasNew)
          /\ best' = BestAtOuter(g)
          /\ gap' = IF iter = 0 THEN g ELSE gap
          /\ lowest' = IF iter = 0 THEN g ELSE lowest
          /\ verdict' = IF ~stop /\ iter # 0 /\ test = "relative" THEN <<prevOuter, g>> ELSE <<>>
    /\ trips' = TripsAtOuter
    /\ change' = FALSE /\ inner' = InnerEnd(stop)
    /\ prevOuter' = Infinity
    /\ pc' = "done"
    /\ UNCHANGED <<test, period, iter, outer, changeInit>>

\* CalculateShortestPaths failed.
DecideFails ==
    /\ AtOuter(FALSE)
    /\ pc' = "failed"
    /\ UNCHANGED <<test, period, iter, modelVars, tripVars>>

\* The runner commits and goes on with the next period.
NextPeriod ==
    /\ pc = "done" /\ period + 1 < NPeriods
    /\ period' = period + 1 /\ iter' = 0 /\ pc' = "assign" /\ verdict' = <<>>
    /\ UNCHANGED <<test, modelVars, trips, gap, lowest>>

Over == pc = "failed" \/ (pc = "done" /\ period + 1 >= NPeriods)
Finished == Over /\ UNCHANGED vars

Step ==
    \/ AssignFirstPaths \/ SwapTrips \/ SimulateAgain \/ AssignFails
    \/ \E stop \in Stops : RetryBest(stop) \/ Stop(stop)
    \/ FALSE \in Stops /\ (NextInner \/ ConfirmBest \/ Initialization \/ NextOuter \/ DecideFails)
    \/ NextPeriod

Next == Step \/ Finished

\* One thread, the runner's, that waits for nothing.
Spec == Init /\ [][Next]_vars /\ WF_vars(Step)
--------------------------------------------------------------------------------
(* Properties *)

TypeOK ==
    /\ test \in OuterTests /\ period \in 0 .. NPeriods /\ iter \in Nat
    /\ pc \in {"assign", "decide", "done", "failed"}
    /\ inner \in 0 .. MaxInner /\ outer \in 0 .. MaxOuter + 1
    /\ {best, prevOuter, gap, lowest} \subseteq Gaps \cup {Infinity}
    /\ change \in BOOLEAN /\ changeInit \in BOOLEAN
    /\ trips \in {"best", "other"}

\* The assignment a period is committed with is the best one met: the trips
\* hold the saved assignment, its gap is the one logged as final ("Final Gap")
\* and none simulated since the paths last changed had a lower one.
CommittedIsBest ==
    pc = "done" => trips = "best" /\ gap = best /\ best = lowest

\* Simulating the best assignment again costs no iteration, yet the iterations
\* that change the assignment never exceed the configured total.
IterationsBounded == pc = "decide" /\ MaxTotal # -1 => iter <= MaxTotal

\* A period is not committed with an assignment worse than the best quality
\* reached ("Variables to assure MSA Quality").
QualityAssured == pc = "done" => gap <= best

\* The relative test stops the outer loop only on two close gaps ("the
\* convergence will be based on the relative value of the gap with the previous
\* OuterLoop gap").
RelativeGapReached ==
    pc = "done" /\ test = "relative" /\ verdict # <<>> =>
        LET p == verdict[1]
            g == verdict[2]
        IN p # 0 => 100 * (IF g < p THEN p - g ELSE g - p) < RelativePercent * p

\* Every period comes to a decision: the two loops, with the assignments
\* simulated again in between, always end.
LoopsEnd == <>Over
===================================================================================
