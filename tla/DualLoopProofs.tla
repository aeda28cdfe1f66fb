----------------------------- MODULE DualLoopProofs -----------------------------
(***************************************************************************)
(* What the dual loop guarantees for every number of iterations, threshold *)
(* and convergence test: the iterations are bounded and, when the outer    *)
(* loops are not re-initialised and the inner loop is allowed at least one *)
(* iteration, the period is committed with the best assignment met.        *)
(***************************************************************************)
EXTENDS DualLoop, TLAPS

\* The configurations the guarantee is about.
Regular == ~UseInitialization /\ MaxInner > 0

\* Iterations under way: not before the first one.
Looping == pc = "decide" \/ (pc = "assign" /\ iter # 0)

\* The iterations in which the best assignment is simulated again come after
\* one that was compared with it, and their result is the best one's.
RetrySound ==
    /\ pc = "assign" /\ change => iter >= 2
    /\ pc = "decide" /\ change => iter >= 1 /\ trips = "best" /\ gap = best
    /\ pc = "done" => ~change

\* The quality kept is the lowest seen, but for an assignment not yet compared.
BestTracksLowest ==
    /\ pc = "assign" /\ iter # 0 => best = lowest
    /\ pc = "decide" /\ change => best = lowest
    /\ pc = "decide" /\ ~change /\ iter # 0 => lowest = Lower(best, gap)

\* An assignment to compare is always met inside the inner loop: at its last
\* index it is either saved or given up.
ComparedInside == Looping /\ ~change /\ iter # 0 => inner < MaxInner

OuterBounded == Looping => outer <= MaxOuter

TotalBounded ==
    MaxTotal # -1 =>
        /\ pc = "decide" => iter <= MaxTotal
        /\ pc = "assign" /\ ~change => iter <= MaxTotal
        /\ pc = "assign" /\ change => iter <= MaxTotal + 1

\* The inductive invariant.
IInv ==
    /\ TypeOK /\ ~changeInit
    /\ RetrySound /\ BestTracksLowest /\ ComparedInside /\ OuterBounded /\ TotalBounded
    /\ CommittedIsBest

\* The constants, one by one.
LEMMA Numbers ==
    /\ MaxInner \in Nat /\ MaxOuter \in Nat /\ MaxGap \in Nat /\ NPeriods \in Nat
    /\ MaxTotal \in Nat \/ MaxTotal = -1
  BY DualLoopAssumption

\* Nothing that goes on is out of iterations.
LEMMA GoingOn == FALSE \in Stops => ~(MaxTotal # -1 /\ iter >= MaxTotal)
  BY Zenon DEF Stops

USE Numbers DEF Gaps, Infinity

\* The invariant holds initially.
LEMMA InitInvariant == Init => IInv
<1> SUFFICES ASSUME Init PROVE IInv
  OBVIOUS
<1>1. ~change /\ ~changeInit /\ change \in BOOLEAN /\ changeInit \in BOOLEAN
  BY Zenon DEF Init
<1> QED
  BY <1>1 DEF Init, IInv, TypeOK, RetrySound, BestTracksLowest, ComparedInside, Looping,
              OuterBounded, TotalBounded, CommittedIsBest

\* The assignments and their simulation keep the invariant.
LEMMA AssignInvariant ==
    ASSUME Regular, IInv,
           AssignFirstPaths \/ SwapTrips \/ SimulateAgain \/ AssignFails
    PROVE  IInv'
<1> USE DEF IInv, TypeOK, RetrySound, BestTracksLowest, ComparedInside, Looping,
            OuterBounded, TotalBounded, CommittedIsBest, modelVars, tripVars, Lower
<1>1. CASE AssignFirstPaths
  BY <1>1 DEF AssignFirstPaths, Regular
<1>2. CASE SwapTrips
  BY <1>2 DEF SwapTrips, Regular
<1>3. CASE SimulateAgain
  BY <1>3 DEF SimulateAgain, Regular
<1>4. CASE AssignFails
  BY <1>4 DEF AssignFails
<1> QED
  BY <1>1, <1>2, <1>3, <1>4

\* Going on inside the inner loop, or back to the best assignment, does too.
LEMMA InnerInvariant ==
    ASSUME Regular, IInv, NEW stop \in Stops,
           RetryBest(stop) \/ (FALSE \in Stops /\ (NextInner \/ ConfirmBest))
    PROVE  IInv'
<1> USE DEF IInv, TypeOK, RetrySound, BestTracksLowest, ComparedInside, Looping,
            OuterBounded, TotalBounded, CommittedIsBest, modelVars, tripVars, Lower,
            Again, GoesBack, GivesUp, Compared, InnerAt
<1>1. CASE RetryBest(stop)
  BY <1>1 DEF RetryBest, Regular
<1>2. CASE FALSE \in Stops /\ NextInner
  <2>1. ~change' /\ change' \in BOOLEAN
    BY <1>2, Zenon DEF NextInner
  <2> QED
    BY <1>2, <2>1, GoingOn DEF NextInner, InInner, BestKept, TripsKept, Regular
<1>3. CASE FALSE \in Stops /\ ConfirmBest
  BY <1>3, GoingOn DEF ConfirmBest, InInner, InnerClosed, BestKept, TripsKept, Regular
<1> QED
  BY <1>1, <1>2, <1>3

\* At the outer loop the trips hold the best assignment: one that was compared
\* was either saved, or sent back to be simulated again.
LEMMA OuterHoldsBest ==
    ASSUME Regular, IInv, NEW stop \in BOOLEAN, AtOuter(stop)
    PROVE  /\ TripsAtOuter = "best"
           /\ iter # 0 => BestKept = lowest /\ gap = lowest
           /\ iter = 0 => ~change
<1> USE DEF IInv, TypeOK, RetrySound, BestTracksLowest, ComparedInside, Looping, Lower
<1>1. CASE iter = 0
  BY <1>1 DEF TripsAtOuter, AtOuter
<1>2. CASE iter # 0 /\ change
  BY <1>2 DEF TripsAtOuter, TripsKept, BestKept, Compared, AtOuter
<1>3. CASE iter # 0 /\ ~change
  <2>1. gap < best
    BY <1>3 DEF AtOuter, GoesBack, GivesUp, Compared, InnerAt
  <2> QED
    BY <1>3, <2>1 DEF TripsAtOuter, TripsKept, BestKept, Compared, AtOuter
<1> QED
  BY <1>1, <1>2, <1>3

\* Leaving the inner loop, for another outer loop or for good, does too.
LEMMA OuterInvariant ==
    ASSUME Regular, IInv, NEW stop \in Stops,
           Stop(stop) \/ (FALSE \in Stops /\ (NextOuter \/ Initialization \/ DecideFails))
    PROVE  IInv'
<1> stop \in BOOLEAN
  BY DEF Stops
<1>1. CASE Stop(stop)
  <2>1. /\ TripsAtOuter = "best"
        /\ iter # 0 => BestKept = lowest /\ gap = lowest
    BY <1>1, OuterHoldsBest DEF Stop
  <2>2. InnerEnd(stop) \in 0 .. MaxInner
    BY DEF InnerEnd, InnerAt, IInv, TypeOK
  <2>3. CommittedIsBest'
    <3> SUFFICES trips' = "best" /\ gap' = best' /\ best' = lowest'
      BY DEF CommittedIsBest
    <3>1. CASE iter = 0
      BY <1>1, <2>1, <3>1 DEF Stop, BestAtOuter
    <3>2. CASE iter # 0
      BY <1>1, <2>1, <3>2 DEF Stop, BestAtOuter
    <3> QED
      BY <3>1, <3>2
  <2>4. TypeOK'
    <3>1. \A g \in Gaps : BestAtOuter(g) \in Gaps \cup {Infinity}
      BY DEF BestAtOuter, BestKept, IInv, TypeOK
    <3>2. \A hasNew \in BOOLEAN : iter = 0 => OuterGaps(hasNew) = Gaps
      BY DEF OuterGaps
    <3>3. \A hasNew \in BOOLEAN : OuterGaps(hasNew) \subseteq Gaps \cup {Infinity}
      BY DEF OuterGaps, IInv, TypeOK
    <3> QED
      BY <1>1, <2>1, <2>2, <3>1, <3>2, <3>3 DEF Stop, IInv, TypeOK, BestAtOuter, BestKept
  <2> QED
    BY <1>1, <2>3, <2>4 DEF Stop, IInv, RetrySound, BestTracksLowest, ComparedInside,
                            Looping, OuterBounded, TotalBounded
<1>2. CASE FALSE \in Stops /\ NextOuter
  <2>1. /\ TripsAtOuter = "best"
        /\ iter # 0 => BestKept = lowest /\ gap = lowest
    BY <1>2, OuterHoldsBest DEF NextOuter
  <2>2. PICK hasNew \in BOOLEAN : \E g \in OuterGaps(hasNew) :
          /\ best' = IF hasNew THEN g ELSE BestAtOuter(g)
          /\ gap' = IF hasNew \/ iter = 0 THEN g ELSE gap
          /\ lowest' = IF hasNew \/ iter = 0 THEN g ELSE lowest
          /\ prevOuter' = IF outer + 1 > MaxOuter THEN Infinity ELSE g
    BY <1>2 DEF NextOuter
  <2>3. PICK g \in OuterGaps(hasNew) :
          /\ best' = IF hasNew THEN g ELSE BestAtOuter(g)
          /\ gap' = IF hasNew \/ iter = 0 THEN g ELSE gap
          /\ lowest' = IF hasNew \/ iter = 0 THEN g ELSE lowest
          /\ prevOuter' = IF outer + 1 > MaxOuter THEN Infinity ELSE g
    BY <2>2
  <2>4. g \in Gaps \cup {Infinity}
    BY DEF OuterGaps, IInv, TypeOK
  <2>5. gap' = best' /\ best' = lowest' /\ trips' = "best"
    BY <1>2, <2>1, <2>3 DEF NextOuter, BestAtOuter
  <2>6. ~change' /\ change' \in BOOLEAN /\ ~changeInit' /\ changeInit' \in BOOLEAN
    BY <1>2, Zenon DEF NextOuter
  <2>7. TypeOK'
    <3>1. outer <= MaxOuter /\ outer \in Nat /\ iter \in Nat
      BY <1>2 DEF NextOuter, AtOuter, IInv, TypeOK, OuterBounded, Looping
    <3>2. BestAtOuter(g) \in Gaps \cup {Infinity} /\ gap \in Gaps \cup {Infinity}
      BY <2>4 DEF BestAtOuter, BestKept, IInv, TypeOK
    <3> QED
      BY <1>2, <2>3, <2>4, <2>5, <2>6, <3>1, <3>2 DEF NextOuter, Again, IInv, TypeOK
  <2>8. TotalBounded'
    BY <1>2, <2>6, GoingOn DEF NextOuter, AtOuter, Again, IInv, TypeOK, TotalBounded, OuterBounded
  <2> QED
    BY <1>2, <2>5, <2>7, <2>8, <2>6
       DEF NextOuter, AtOuter, Again, Regular, IInv, TypeOK, CommittedIsBest, RetrySound,
           BestTracksLowest, ComparedInside, Looping, OuterBounded
<1>3. CASE Initialization
  BY <1>3 DEF Initialization, InitializationDue, Regular
<1>4. CASE DecideFails
  BY <1>4 DEF DecideFails, AtOuter, IInv, TypeOK, RetrySound, BestTracksLowest, modelVars,
              tripVars, ComparedInside, Looping, OuterBounded, TotalBounded, CommittedIsBest
<1> QED
  BY <1>1, <1>2, <1>3, <1>4

\* Every step keeps the invariant.
LEMMA StepInvariant ==
    ASSUME Regular, IInv, [Next]_vars
    PROVE  IInv'
<1>1. CASE AssignFirstPaths \/ SwapTrips \/ SimulateAgain \/ AssignFails
  BY <1>1, AssignInvariant
<1>2. ASSUME NEW stop \in Stops, RetryBest(stop) \/ Stop(stop)
      PROVE  IInv'
  BY <1>2, InnerInvariant, OuterInvariant
<1>3. CASE FALSE \in Stops /\ (NextInner \/ ConfirmBest)
  BY <1>3, InnerInvariant
<1>4. CASE FALSE \in Stops /\ (Initialization \/ NextOuter \/ DecideFails)
  BY <1>4, OuterInvariant
<1>5. CASE NextPeriod
  BY <1>5 DEF NextPeriod, IInv, TypeOK, RetrySound, BestTracksLowest, ComparedInside,
              Looping, OuterBounded, TotalBounded, CommittedIsBest, modelVars
<1>6. CASE UNCHANGED vars
  BY <1>6 DEF vars, modelVars, tripVars, IInv, TypeOK, RetrySound, BestTracksLowest,
              ComparedInside, Looping, OuterBounded, TotalBounded, CommittedIsBest, Lower
<1> QED
  BY <1>1, <1>2, <1>3, <1>4, <1>5, <1>6 DEF Next, Step, Finished

\* The period is committed with the best assignment met, whose quality is the
\* one logged as final: MSADualLoop::IsRollbackNeeded and KeepBestAssignment.
THEOREM BestIsCommitted ==
    ASSUME Regular
    PROVE  Spec => []CommittedIsBest
<1>1. Init => IInv
  BY InitInvariant
<1>2. IInv /\ [Next]_vars => IInv'
  BY StepInvariant
<1>3. IInv => CommittedIsBest
  BY DEF IInv
<1> QED
  BY <1>1, <1>2, <1>3, PTL DEF Spec

--------------------------------------------------------------------------------
(* Any configuration *)

\* A simulation of the best assignment that is due comes after an iteration.
AgainCounted ==
    /\ pc = "assign" /\ change => iter >= 1
    /\ pc = "done" => ~change

\* The part of the invariant that asks nothing of the configuration.
Bounded == TypeOK /\ AgainCounted /\ OuterBounded /\ TotalBounded

\* The bounds hold initially, and through the assignments and their simulation.
LEMMA AssignBounded ==
    /\ Init => Bounded
    /\ Bounded /\ (AssignFirstPaths \/ SwapTrips \/ SimulateAgain \/ AssignFails) => Bounded'
<1> USE DEF Bounded, TypeOK, AgainCounted, OuterBounded, TotalBounded, Looping,
            modelVars, tripVars, Lower
<1>1. ASSUME Init PROVE Bounded
  <2>1. ~change /\ ~changeInit /\ change \in BOOLEAN /\ changeInit \in BOOLEAN
    BY <1>1, Zenon DEF Init
  <2> QED
    BY <1>1, <2>1 DEF Init
<1>2. ASSUME Bounded, AssignFirstPaths PROVE Bounded'
  BY <1>2 DEF AssignFirstPaths
<1>3. ASSUME Bounded, SwapTrips PROVE Bounded'
  BY <1>3 DEF SwapTrips
<1>4. ASSUME Bounded, SimulateAgain PROVE Bounded'
  BY <1>4 DEF SimulateAgain
<1>5. ASSUME Bounded, AssignFails PROVE Bounded'
  BY <1>5 DEF AssignFails
<1> QED
  BY <1>1, <1>2, <1>3, <1>4, <1>5

\* Inside the inner loop: an iteration more is allowed, or is the best one's again.
LEMMA InnerBounded ==
    ASSUME Bounded, NEW stop \in Stops,
           RetryBest(stop) \/ (FALSE \in Stops /\ (NextInner \/ ConfirmBest))
    PROVE  Bounded'
<1> USE DEF Bounded, TypeOK, AgainCounted, OuterBounded, TotalBounded, Looping,
            modelVars, tripVars, Again, InnerAt
<1>1. CASE RetryBest(stop)
  BY <1>1 DEF RetryBest, GoesBack, Compared
<1>2. CASE FALSE \in Stops /\ NextInner
  <2>1. ~change' /\ change' \in BOOLEAN
    BY <1>2, Zenon DEF NextInner
  <2> QED
    BY <1>2, <2>1, GoingOn DEF NextInner, InInner, BestKept, TripsKept
<1>3. CASE FALSE \in Stops /\ ConfirmBest
  BY <1>3, GoingOn DEF ConfirmBest, InInner, InnerClosed, BestKept, TripsKept
<1> QED
  BY <1>1, <1>2, <1>3

\* The gaps at the outer loop are gaps.
LEMMA OuterGapsAreGaps ==
    ASSUME Bounded
    PROVE  /\ \A hasNew \in BOOLEAN : OuterGaps(hasNew) \subseteq Gaps \cup {Infinity}
           /\ \A g \in Gaps \cup {Infinity} : BestAtOuter(g) \in Gaps \cup {Infinity}
           /\ BestKept \in Gaps \cup {Infinity}
           /\ TripsAtOuter \in {"best", "other"}
           /\ \A stop \in BOOLEAN : InnerEnd(stop) \in 0 .. MaxInner
  BY DEF Bounded, TypeOK, OuterGaps, BestAtOuter, BestKept, TripsAtOuter, TripsKept,
         InnerEnd, InnerAt

\* At the outer loop the same, and the outer index is bounded before it is counted.
LEMMA OuterLoopBounded ==
    ASSUME Bounded, NEW stop \in Stops,
           Stop(stop) \/ (FALSE \in Stops /\ (NextOuter \/ Initialization \/ DecideFails))
    PROVE  Bounded'
<1> stop \in BOOLEAN
  BY DEF Stops
<1>1. /\ \A hasNew \in BOOLEAN : OuterGaps(hasNew) \subseteq Gaps \cup {Infinity}
      /\ \A g \in Gaps \cup {Infinity} : BestAtOuter(g) \in Gaps \cup {Infinity}
      /\ BestKept \in Gaps \cup {Infinity} /\ TripsAtOuter \in {"best", "other"}
      /\ \A s \in BOOLEAN : InnerEnd(s) \in 0 .. MaxInner
  BY OuterGapsAreGaps
<1> USE DEF Bounded, TypeOK, AgainCounted, OuterBounded, TotalBounded, Looping
<1>2. CASE Stop(stop)
  <2>1. ~change' /\ change' \in BOOLEAN
    BY <1>2, Zenon DEF Stop
  <2> QED
    BY <1>1, <1>2, <2>1 DEF Stop
<1>3. CASE FALSE \in Stops /\ NextOuter
  <2>1. ~change' /\ change' \in BOOLEAN /\ ~changeInit' /\ changeInit' \in BOOLEAN
    BY <1>3, Zenon DEF NextOuter
  <2>2. pc = "decide" /\ outer <= MaxOuter
    BY <1>3 DEF NextOuter, AtOuter
  <2>3. PICK hasNew \in BOOLEAN : \E g \in OuterGaps(hasNew) :
          /\ best' = IF hasNew THEN g ELSE BestAtOuter(g)
          /\ gap' = IF hasNew \/ iter = 0 THEN g ELSE gap
          /\ lowest' = IF hasNew \/ iter = 0 THEN g ELSE lowest
          /\ prevOuter' = IF outer + 1 > MaxOuter THEN Infinity ELSE g
    BY <1>3 DEF NextOuter
  <2>4. PICK g \in OuterGaps(hasNew) :
          /\ best' = IF hasNew THEN g ELSE BestAtOuter(g)
          /\ gap' = IF hasNew \/ iter = 0 THEN g ELSE gap
          /\ lowest' = IF hasNew \/ iter = 0 THEN g ELSE lowest
          /\ prevOuter' = IF outer + 1 > MaxOuter THEN Infinity ELSE g
    BY <2>3
  <2>5. {best', prevOuter', gap', lowest'} \subseteq Gaps \cup {Infinity}
    BY <1>1, <2>4
  <2>6. MaxTotal # -1 => iter < MaxTotal
    BY <1>3, GoingOn
  <2> QED
    BY <1>1, <1>3, <2>1, <2>2, <2>5, <2>6 DEF NextOuter, Again
<1>4. CASE FALSE \in Stops /\ Initialization
  <2>1. MaxTotal # -1 => iter < MaxTotal
    BY <1>4, GoingOn
  <2>2. change' /\ changeInit' /\ change' \in BOOLEAN /\ changeInit' \in BOOLEAN
    BY <1>4, Zenon DEF Initialization
  <2>3. {best', prevOuter', gap', lowest'} \subseteq Gaps \cup {Infinity}
    BY <1>1, <1>4 DEF Initialization, Lower
  <2>4. pc = "decide" /\ outer' = outer /\ outer <= MaxOuter
    BY <1>4 DEF Initialization, AtOuter
  <2>5. /\ pc' = "assign" /\ iter' = iter + 1 /\ inner' \in 0 .. MaxInner
        /\ trips' = "other" /\ test' = test /\ period' = period
    BY <1>1, <1>4 DEF Initialization, Again
  <2>6. TypeOK'
    BY <2>2, <2>3, <2>4, <2>5
  <2>7. AgainCounted' /\ OuterBounded' /\ TotalBounded'
    BY <2>1, <2>2, <2>4, <2>5
  <2> QED
    BY <2>6, <2>7
<1>5. CASE DecideFails
  BY <1>5 DEF DecideFails, modelVars, tripVars
<1> QED
  BY <1>2, <1>3, <1>4, <1>5

\* Every step keeps the bounds, whatever the configuration.
LEMMA StepBounded ==
    ASSUME Bounded, [Next]_vars
    PROVE  Bounded'
<1>1. CASE AssignFirstPaths \/ SwapTrips \/ SimulateAgain \/ AssignFails
  BY <1>1, AssignBounded
<1>2. ASSUME NEW stop \in Stops, RetryBest(stop) \/ Stop(stop)
      PROVE  Bounded'
  BY <1>2, InnerBounded, OuterLoopBounded
<1>3. CASE FALSE \in Stops /\ (NextInner \/ ConfirmBest)
  BY <1>3, InnerBounded
<1>4. CASE FALSE \in Stops /\ (Initialization \/ NextOuter \/ DecideFails)
  BY <1>4, OuterLoopBounded
<1> USE DEF Bounded, TypeOK, AgainCounted, OuterBounded, TotalBounded, Looping
<1>5. CASE NextPeriod
  BY <1>5 DEF NextPeriod, modelVars
<1>6. CASE UNCHANGED vars
  BY <1>6 DEF vars, modelVars, tripVars
<1> QED
  BY <1>1, <1>2, <1>3, <1>4, <1>5, <1>6 DEF Next, Step, Finished

\* The variables of the two loops keep their types and the outer index its bound,
\* in every configuration: re-initialised outer loops and no inner iteration included.
THEOREM DualLoopTypeOK == Spec => []TypeOK
<1>1. Init => Bounded
  BY AssignBounded
<1>2. Bounded /\ [Next]_vars => Bounded'
  BY StepBounded
<1>3. Bounded => TypeOK
  BY DEF Bounded
<1> QED
  BY <1>1, <1>2, <1>3, PTL DEF Spec

\* The iterations that change the assignment never exceed max_iterations_number in any
\* configuration, although IsRollbackNeeded may ask for one more to simulate the best
\* again.
THEOREM IterationsAreBounded == Spec => []IterationsBounded
<1>1. Init => Bounded
  BY AssignBounded
<1>2. Bounded /\ [Next]_vars => Bounded'
  BY StepBounded
<1>3. Bounded => IterationsBounded
  BY DEF Bounded, TotalBounded, IterationsBounded
<1> QED
  BY <1>1, <1>2, <1>3, PTL DEF Spec
===================================================================================
